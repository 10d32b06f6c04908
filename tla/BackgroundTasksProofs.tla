------------------------ MODULE BackgroundTasksProofs ------------------------
(***************************************************************************)
(* Theorems about BackgroundTasks, for every set of tasks and callers and  *)
(* every number of slots.                                                  *)
(***************************************************************************)
EXTENDS BackgroundTasks, SequenceTheorems, FiniteSetTheorems, TLAPS

-----------------------------------------------------------------------------
(***************************************************************************)
(* The inductive invariant.                                                *)
(***************************************************************************)

\* What the variables that decide about slots and outcomes hold.
Types ==
    /\ tasks \subseteq Task
    /\ status \in [Task -> Statuses]
    /\ exec \in [Task -> ExecStates]
    /\ inner \in [Task -> InnerStates]
    /\ free \in Nat
    /\ queue \in Seq(Task)
    /\ completion_event \subseteq Task
    /\ calls \subseteq Task

\* The semaphore's queue holds the tasks that have not had a slot, each once.
QueueIsWaiting ==
    /\ \A i \in DOMAIN queue : exec[queue[i]] = "queued"
    /\ \A i, j \in DOMAIN queue : queue[i] = queue[j] => i = j

\* How far _execute_task is bounds what the coroutine and the status can be.
TaskIsConsistent(t) ==
    /\ exec[t] = "none" <=> status[t] = "none"
    /\ exec[t] = "none" => inner[t] = "none"
    /\ exec[t] = "queued" => status[t] \in {"pending", "cancelled"} /\ inner[t] = "none"
    /\ status[t] = "pending" => exec[t] = "queued" /\ t \in tasks
    /\ exec[t] = "reaping" => Ended(t)
    /\ Live(t) => HoldsSlot(t) /\ t \in tasks
    /\ t \in calls => exec[t] \notin {"none", "queued"}

TasksAreConsistent == \A t \in Task : TaskIsConsistent(t)

\* The semaphore's counter says how many tasks have no slot.
Holders == {t \in Task : HoldsSlot(t)}

SlotsAdd ==
    /\ IsFiniteSet(Holders)
    /\ free + Cardinality(Holders) = max_concurrent_tasks

ClosedIsEmpty == stage = "closed" => tasks = {}

\* EndedTasksHaveOutcome, task by task.
HasOutcome(t) ==
    (exec[t] = "done" \/ t \in completion_event) =>
        \/ status[t] \in Terminal
        \/ status[t] = "cancelling" /\ exec[t] = "done" /\ inner[t] = "returned"

TaskInv ==
    /\ Types
    /\ QueueIsWaiting
    /\ TasksAreConsistent
    /\ EndedTasksHaveOutcome
    /\ SlotsAdd
    /\ ClosedIsEmpty

-----------------------------------------------------------------------------
(***************************************************************************)
(* The queue and the slots, apart from the actions that change them.       *)
(***************************************************************************)

\* A task joins the queue at its end.
LEMMA QueueGrows ==
    ASSUME Types, QueueIsWaiting, NEW t \in Task, exec[t] = "none",
           queue' = Append(queue, t), exec' = [exec EXCEPT ![t] = "queued"]
    PROVE  QueueIsWaiting' /\ queue' \in Seq(Task)
<1>1. /\ queue' \in Seq(Task)
      /\ Len(queue') = Len(queue) + 1
      /\ \A i \in 1..Len(queue) : queue'[i] = queue[i]
      /\ queue'[Len(queue) + 1] = t
  BY AppendProperties DEF Types
<1>2. DOMAIN queue = 1..Len(queue) /\ DOMAIN queue' = 1..(Len(queue) + 1) /\ Len(queue) \in Nat
  BY <1>1 DEF Types
<1>3. \A i \in DOMAIN queue : queue[i] \in Task /\ exec[queue[i]] = "queued" /\ queue[i] # t
  BY DEF Types, QueueIsWaiting
<1>4. \A u \in Task : exec'[u] = IF u = t THEN "queued" ELSE exec[u]
  BY DEF Types
<1>5. \A i \in DOMAIN queue' : exec'[queue'[i]] = "queued"
  <2>1. ASSUME NEW i \in DOMAIN queue' PROVE exec'[queue'[i]] = "queued"
    <3>1. CASE i = Len(queue) + 1
      BY <1>1, <1>4, <3>1
    <3>2. CASE i # Len(queue) + 1
      <4>1. i \in DOMAIN queue
        BY <1>2, <3>2
      <4>. QED
        BY <1>1, <1>2, <1>3, <1>4, <4>1
    <3>. QED
      BY <3>1, <3>2
  <2>. QED
    BY <2>1
<1>6. \A i, j \in DOMAIN queue' : queue'[i] = queue'[j] => i = j
  BY <1>1, <1>2, <1>3 DEF QueueIsWaiting
<1>. QED
  BY <1>1, <1>5, <1>6 DEF QueueIsWaiting

\* The first task of the queue leaves it.
LEMMA QueueShrinks ==
    ASSUME Types, QueueIsWaiting, NEW t \in Task, queue # <<>>, t = Head(queue),
           queue' = Tail(queue), \A u \in Task : u # t => exec'[u] = exec[u]
    PROVE  QueueIsWaiting' /\ queue' \in Seq(Task) /\ exec[t] = "queued"
<1>1. /\ queue' \in Seq(Task)
      /\ Len(queue') = Len(queue) - 1
      /\ \A i \in 1..Len(queue') : queue'[i] = queue[i + 1]
  BY HeadTailProperties DEF Types
<1>2. /\ Len(queue) \in Nat \ {0}
      /\ DOMAIN queue = 1..Len(queue)
      /\ DOMAIN queue' = 1..(Len(queue) - 1)
  BY <1>1, EmptySeq DEF Types
<1>3. t = queue[1] /\ 1 \in DOMAIN queue
  BY <1>2 DEF Types
<1>4. ASSUME NEW i \in DOMAIN queue'
      PROVE  i + 1 \in DOMAIN queue /\ queue'[i] = queue[i + 1] /\ i + 1 # 1
  BY <1>1, <1>2
<1>5. \A i \in DOMAIN queue' : queue'[i] # t /\ queue'[i] \in Task
  BY <1>3, <1>4 DEF QueueIsWaiting, Types
<1>6. \A i \in DOMAIN queue' : exec'[queue'[i]] = "queued"
  BY <1>4, <1>5 DEF QueueIsWaiting
<1>7. \A i, j \in DOMAIN queue' : queue'[i] = queue'[j] => i = j
  <2>1. ASSUME NEW i \in DOMAIN queue', NEW j \in DOMAIN queue', queue'[i] = queue'[j]
        PROVE  i = j
    <3>1. i + 1 = j + 1
      BY <1>4, <2>1 DEF QueueIsWaiting
    <3>. QED
      BY <3>1, <1>2
  <2>. QED
    BY <2>1
<1>. QED
  BY <1>1, <1>3, <1>6, <1>7 DEF QueueIsWaiting

\* A task that is in the queue stays there.
LEMMA QueueStays ==
    ASSUME Types, QueueIsWaiting, queue' = queue,
           \A u \in Task : exec[u] = "queued" => exec'[u] = "queued"
    PROVE  QueueIsWaiting'
  BY DEF Types, QueueIsWaiting

\* No task gets or leaves a slot.
LEMMA SlotsKept ==
    ASSUME SlotsAdd, free' = free, \A u \in Task : HoldsSlot(u)' <=> HoldsSlot(u)
    PROVE  SlotsAdd'
<1>1. Holders' = Holders
  BY DEF Holders
<1>. QED
  BY <1>1 DEF SlotsAdd

\* A task gets one.
LEMMA SlotTaken ==
    ASSUME Types, SlotsAdd, NEW t \in Task, free' = free - 1, ~HoldsSlot(t), HoldsSlot(t)',
           \A u \in Task : u # t => (HoldsSlot(u)' <=> HoldsSlot(u))
    PROVE  SlotsAdd'
<1>1. Holders' = Holders \cup {t} /\ t \notin Holders
  BY DEF Holders
<1>2. IsFiniteSet(Holders) /\ Cardinality(Holders) \in Nat
  BY FS_CardinalityType DEF SlotsAdd
<1>3. IsFiniteSet(Holders') /\ Cardinality(Holders') = Cardinality(Holders) + 1
  BY <1>1, <1>2, FS_AddElement
<1>4. free' + Cardinality(Holders') = max_concurrent_tasks
  BY <1>2, <1>3 DEF SlotsAdd, Types
<1>. QED
  BY <1>3, <1>4 DEF SlotsAdd

\* A task leaves its own.
LEMMA SlotFreed ==
    ASSUME Types, SlotsAdd, NEW t \in Task, free' = free + 1, HoldsSlot(t), ~HoldsSlot(t)',
           \A u \in Task : u # t => (HoldsSlot(u)' <=> HoldsSlot(u))
    PROVE  SlotsAdd'
<1>1. Holders' = Holders \ {t} /\ t \in Holders
  BY DEF Holders
<1>2. IsFiniteSet(Holders) /\ Cardinality(Holders) \in Nat
  BY FS_CardinalityType DEF SlotsAdd
<1>3. IsFiniteSet(Holders') /\ Cardinality(Holders') = Cardinality(Holders) - 1
  BY <1>1, <1>2, FS_RemoveElement
<1>4. free' + Cardinality(Holders') = max_concurrent_tasks
  BY <1>2, <1>3 DEF SlotsAdd, Types
<1>. QED
  BY <1>3, <1>4 DEF SlotsAdd

-----------------------------------------------------------------------------
(***************************************************************************)
(* Steps of one task leave the others alone.                               *)
(***************************************************************************)

\* What a step of t may change of the other tasks.
OthersStay(t) ==
    \A u \in Task \ {t} :
        /\ exec'[u] = exec[u] /\ status'[u] = status[u] /\ inner'[u] = inner[u]
        /\ u \in tasks => u \in tasks'
        /\ u \in calls' => u \in calls
        /\ u \in completion_event' => u \in completion_event

\* So it is enough to look at t.
LEMMA StepOfTask ==
    ASSUME TaskInv, NEW t \in Task, OthersStay(t), TaskIsConsistent(t)', HasOutcome(t)'
    PROVE  TasksAreConsistent' /\ EndedTasksHaveOutcome'
<1>1. ASSUME NEW u \in Task PROVE TaskIsConsistent(u)'
  <2>1. CASE u = t
    BY <2>1
  <2>2. CASE u # t
    <3>1. TaskIsConsistent(u)
      BY DEF TaskInv, TasksAreConsistent
    <3>. QED
      BY <2>2, <3>1 DEF OthersStay, TaskIsConsistent, Live, Ended, HoldsSlot
  <2>. QED
    BY <2>1, <2>2
<1>2. ASSUME NEW u \in Task PROVE HasOutcome(u)'
  <2>1. CASE u = t
    BY <2>1
  <2>2. CASE u # t
    <3>1. HasOutcome(u)
      BY DEF TaskInv, EndedTasksHaveOutcome, HasOutcome
    <3>. QED
      BY <2>2, <3>1 DEF OthersStay, HasOutcome
  <2>. QED
    BY <2>1, <2>2
<1>. QED
  BY <1>1, <1>2 DEF TasksAreConsistent, EndedTasksHaveOutcome, HasOutcome

-----------------------------------------------------------------------------
(***************************************************************************)
(* Launching, running and ending a task.                                   *)
(***************************************************************************)

\* Launch.
LEMMA LaunchStep ==
    ASSUME TaskInv, NEW t \in Task, Launch(t)
    PROVE  TaskInv'
<1>1. exec[t] = "none" /\ inner[t] = "none" /\ t \notin calls /\ ~(t \in completion_event)
  <2>1. TaskIsConsistent(t) /\ HasOutcome(t) /\ status[t] = "none"
    BY DEF TaskInv, TasksAreConsistent, EndedTasksHaveOutcome, HasOutcome, Launch
  <2>. QED
    BY <2>1 DEF TaskIsConsistent, HasOutcome, Terminal
<1>2. /\ tasks' = tasks \cup {t}
      /\ status' = [status EXCEPT ![t] = "pending"]
      /\ exec' = [exec EXCEPT ![t] = "queued"]
      /\ queue' = Append(queue, t)
      /\ UNCHANGED <<inner, free, completion_event, calls, stage>>
      /\ stage = "open"
  BY DEF Launch, SetExec, callVars, runVars
<1>3. QueueIsWaiting' /\ queue' \in Seq(Task)
  BY <1>1, <1>2, QueueGrows DEF TaskInv
<1>4. Types'
  BY <1>2, <1>3 DEF TaskInv, Types, Statuses, ExecStates
<1>5. OthersStay(t)
  BY <1>2 DEF OthersStay, TaskInv, Types
<1>6. /\ exec'[t] = "queued" /\ status'[t] = "pending" /\ inner'[t] = "none"
      /\ t \in tasks' /\ t \notin calls' /\ t \notin completion_event'
  BY <1>1, <1>2 DEF TaskInv, Types
<1>7. TaskIsConsistent(t)' /\ HasOutcome(t)'
  BY <1>6 DEF TaskIsConsistent, HasOutcome, Live
<1>8. SlotsAdd'
  <2>1. \A u \in Task : HoldsSlot(u)' <=> HoldsSlot(u)
    BY <1>1, <1>5, <1>6 DEF HoldsSlot, OthersStay
  <2>. QED
    BY <1>2, <2>1, SlotsKept DEF TaskInv
<1>9. ClosedIsEmpty'
  BY <1>2 DEF ClosedIsEmpty
<1>. QED
  BY <1>3, <1>4, <1>5, <1>7, <1>8, <1>9, StepOfTask DEF TaskInv

\* Acquire: the only step that starts a coroutine.
LEMMA AcquireStep ==
    ASSUME TaskInv, NEW t \in Task, Acquire(t)
    PROVE  TaskInv'
<1>1. /\ queue # <<>> /\ t = Head(queue) /\ free > 0 /\ status[t] # "cancelled"
      /\ free' = free - 1
      /\ queue' = Tail(queue)
      /\ status' = [status EXCEPT ![t] = "running"]
      /\ exec' = [exec EXCEPT ![t] = "running"]
      /\ inner' = [inner EXCEPT ![t] = "running"]
      /\ UNCHANGED <<tasks, completion_event, calls, stage>>
  BY DEF Acquire, SetExec, SetInner, callVars, runVars
<1>2. OthersStay(t)
  BY <1>1 DEF OthersStay, TaskInv, Types
<1>3. QueueIsWaiting' /\ queue' \in Seq(Task) /\ exec[t] = "queued"
  <2>1. \A u \in Task : u # t => exec'[u] = exec[u]
    BY <1>2 DEF OthersStay
  <2>. QED
    BY <1>1, <2>1, QueueShrinks DEF TaskInv
<1>4. status[t] = "pending" /\ t \in tasks /\ t \notin calls /\ t \notin completion_event
  <2>1. TaskIsConsistent(t) /\ HasOutcome(t)
    BY DEF TaskInv, TasksAreConsistent, EndedTasksHaveOutcome, HasOutcome
  <2>. QED
    BY <1>1, <1>3, <2>1 DEF TaskIsConsistent, HasOutcome, Terminal
<1>5. Types'
  BY <1>1, <1>3 DEF TaskInv, Types, Statuses, ExecStates, InnerStates
<1>6. /\ exec'[t] = "running" /\ status'[t] = "running" /\ inner'[t] = "running"
      /\ t \in tasks' /\ t \notin calls' /\ t \notin completion_event'
  BY <1>1, <1>4 DEF TaskInv, Types
<1>7. TaskIsConsistent(t)' /\ HasOutcome(t)'
  BY <1>6 DEF TaskIsConsistent, HasOutcome, HoldsSlot
<1>8. SlotsAdd'
  <2>1. ~HoldsSlot(t) /\ HoldsSlot(t)'
    BY <1>3, <1>6 DEF HoldsSlot
  <2>2. \A u \in Task : u # t => (HoldsSlot(u)' <=> HoldsSlot(u))
    BY <1>2 DEF HoldsSlot, OthersStay
  <2>. QED
    BY <1>1, <2>1, <2>2, SlotTaken DEF TaskInv
<1>9. ClosedIsEmpty'
  BY <1>1 DEF TaskInv, ClosedIsEmpty
<1>. QED
  BY <1>2, <1>3, <1>5, <1>7, <1>8, <1>9, StepOfTask DEF TaskInv

\* AcquireCancelled: the slot is taken and released in the same step.
LEMMA AcquireCancelledStep ==
    ASSUME TaskInv, NEW t \in Task, AcquireCancelled(t)
    PROVE  TaskInv'
<1>1. /\ queue # <<>> /\ t = Head(queue) /\ status[t] = "cancelled"
      /\ queue' = Tail(queue)
      /\ exec' = [exec EXCEPT ![t] = "done"]
      /\ completion_event' = completion_event \cup {t}
      /\ UNCHANGED <<tasks, status, inner, free, calls, stage>>
  BY DEF AcquireCancelled, SetExec, callVars, runVars
<1>2. OthersStay(t)
  BY <1>1 DEF OthersStay, TaskInv, Types
<1>3. QueueIsWaiting' /\ queue' \in Seq(Task) /\ exec[t] = "queued"
  <2>1. \A u \in Task : u # t => exec'[u] = exec[u]
    BY <1>2 DEF OthersStay
  <2>. QED
    BY <1>1, <2>1, QueueShrinks DEF TaskInv
<1>4. inner[t] = "none"
  BY <1>3 DEF TaskInv, TasksAreConsistent, TaskIsConsistent
<1>5. Types'
  BY <1>1, <1>3 DEF TaskInv, Types, ExecStates
<1>6. exec'[t] = "done" /\ status'[t] = "cancelled" /\ inner'[t] = "none"
  BY <1>1, <1>4 DEF TaskInv, Types
<1>7. TaskIsConsistent(t)' /\ HasOutcome(t)'
  BY <1>6 DEF TaskIsConsistent, HasOutcome, Live, Terminal
<1>8. SlotsAdd'
  <2>1. \A u \in Task : HoldsSlot(u)' <=> HoldsSlot(u)
    BY <1>2, <1>3, <1>6 DEF HoldsSlot, OthersStay
  <2>. QED
    BY <1>1, <2>1, SlotsKept DEF TaskInv
<1>9. ClosedIsEmpty'
  BY <1>1 DEF TaskInv, ClosedIsEmpty
<1>. QED
  BY <1>2, <1>3, <1>5, <1>7, <1>8, <1>9, StepOfTask DEF TaskInv

\* Complete and Unwind: the slot is released and the status is terminal, unless a
\* cancellation came too late for a coroutine that has returned.
LEMMA FinishStep ==
    ASSUME TaskInv, NEW t \in Task, NEW s \in Statuses \ {"none", "pending"},
           HoldsSlot(t), Ended(t), Finish(t), UNCHANGED inner,
           status' = [status EXCEPT ![t] = s],
           s \in Terminal \/ (s = "cancelling" /\ inner[t] = "returned")
    PROVE  TaskInv'
<1>1. /\ exec' = [exec EXCEPT ![t] = "done"]
      /\ free' = free + 1
      /\ completion_event' = completion_event \cup {t}
      /\ UNCHANGED <<tasks, queue, calls, stage>>
  BY DEF Finish, SetExec, callVars, runVars
<1>2. OthersStay(t)
  BY <1>1 DEF OthersStay, TaskInv, Types
<1>3. QueueIsWaiting'
  <2>1. \A u \in Task : exec[u] = "queued" => exec'[u] = "queued"
    BY <1>2 DEF OthersStay, HoldsSlot
  <2>. QED
    BY <1>1, <2>1, QueueStays DEF TaskInv
<1>4. Types'
  BY <1>1 DEF TaskInv, Types, ExecStates
<1>5. exec'[t] = "done" /\ status'[t] = s /\ inner'[t] = inner[t]
  BY <1>1 DEF TaskInv, Types
<1>6. TaskIsConsistent(t)' /\ HasOutcome(t)'
  BY <1>5 DEF TaskIsConsistent, HasOutcome, Live, Ended
<1>7. SlotsAdd'
  <2>1. ~HoldsSlot(t)'
    BY <1>5 DEF HoldsSlot
  <2>2. \A u \in Task : u # t => (HoldsSlot(u)' <=> HoldsSlot(u))
    BY <1>2 DEF HoldsSlot, OthersStay
  <2>. QED
    BY <1>1, <2>1, <2>2, SlotFreed DEF TaskInv
<1>8. ClosedIsEmpty'
  BY <1>1 DEF TaskInv, ClosedIsEmpty
<1>. QED
  BY <1>2, <1>3, <1>4, <1>6, <1>7, <1>8, StepOfTask DEF TaskInv

LEMMA CompleteStep ==
    ASSUME TaskInv, NEW t \in Task, Complete(t)
    PROVE  TaskInv'
<1> DEFINE s == CASE inner[t] = "raised" -> IF status[t] \in Terminal THEN status[t] ELSE "error"
                  [] inner[t] = "cancelled" -> IF status[t] \in Terminal THEN status[t] ELSE "cancelled"
                  [] OTHER -> IF status[t] \in Terminal \cup {"cancelling"} THEN status[t]
                              ELSE "completed"
<1>1. exec[t] = "reaping" /\ Finish(t) /\ UNCHANGED inner
  BY DEF Complete
<1>2. Ended(t) /\ HoldsSlot(t)
  BY <1>1 DEF TaskInv, TasksAreConsistent, TaskIsConsistent, HoldsSlot
<1>3. status' = [status EXCEPT ![t] = s]
  <2>1. CASE inner[t] = "raised"
    BY <2>1 DEF Complete, SetStatus
  <2>2. CASE inner[t] = "cancelled"
    BY <2>2 DEF Complete, SetStatus
  <2>3. CASE inner[t] \notin {"raised", "cancelled"}
    BY <2>3 DEF Complete
  <2>. QED
    BY <2>1, <2>2, <2>3
<1>4. s \in Terminal \/ (s = "cancelling" /\ inner[t] = "returned")
  BY <1>2 DEF Ended, Terminal
<1>5. s \in Statuses \ {"none", "pending"}
  BY <1>4 DEF Statuses, Terminal
<1> HIDE DEF s
<1>. QED
  BY <1>1, <1>2, <1>3, <1>4, <1>5, FinishStep

LEMMA UnwindStep ==
    ASSUME TaskInv, NEW t \in Task, Unwind(t)
    PROVE  TaskInv'
<1> DEFINE s == IF status[t] \in Terminal THEN status[t]
                ELSE IF inner[t] = "raised" THEN "error" ELSE "cancelled"
<1>1. Ended(t) /\ HoldsSlot(t) /\ Finish(t) /\ UNCHANGED inner
  BY DEF Unwind, HoldsSlot
<1>2. status' = [status EXCEPT ![t] = s]
  BY DEF Unwind, SetStatus
<1>3. s \in Terminal
  BY DEF Terminal
<1>4. s \in Statuses \ {"none", "pending"}
  BY <1>3 DEF Statuses, Terminal
<1> HIDE DEF s
<1>. QED
  BY <1>1, <1>2, <1>3, <1>4, FinishStep

-----------------------------------------------------------------------------
(***************************************************************************)
(* Steps that neither queue a task nor change who has a slot.              *)
(***************************************************************************)
LEMMA PhaseStep ==
    ASSUME TaskInv, NEW t \in Task, Types', OthersStay(t),
           UNCHANGED <<free, queue, stage>>, tasks' \subseteq tasks,
           exec'[t] = exec[t] \/ (HoldsSlot(t) /\ HoldsSlot(t)'),
           TaskIsConsistent(t)', HasOutcome(t)'
    PROVE  TaskInv'
<1>1. \A u \in Task : HoldsSlot(u)' <=> HoldsSlot(u)
  BY DEF OthersStay, HoldsSlot
<1>2. \A u \in Task : exec[u] = "queued" => exec'[u] = "queued"
  BY DEF OthersStay, HoldsSlot
<1>3. QueueIsWaiting' /\ SlotsAdd'
  BY <1>1, <1>2, QueueStays, SlotsKept DEF TaskInv
<1>4. ClosedIsEmpty'
  BY DEF TaskInv, ClosedIsEmpty
<1>. QED
  BY <1>3, <1>4, StepOfTask DEF TaskInv

\* The coroutine ends, the wait for it, or for the timeout, does.
LEMMA ProgressStep ==
    ASSUME TaskInv, NEW t \in Task,
           \/ \E how \in {"returned", "raised", "cancelled"} : InnerEnds(t, how)
           \/ WaitEnds(t)
           \/ TimeOut(t)
    PROVE  TaskInv'
<1> USE DEF TaskInv
<1>1. TaskIsConsistent(t) /\ HasOutcome(t)
  BY DEF TasksAreConsistent, EndedTasksHaveOutcome, HasOutcome
<1>2. ASSUME NEW how \in {"returned", "raised", "cancelled"}, InnerEnds(t, how)
      PROVE  TaskInv'
  <2>1. /\ Live(t) /\ inner' = [inner EXCEPT ![t] = how]
        /\ UNCHANGED <<tasks, status, exec, free, queue, completion_event, calls, stage>>
    BY <1>2 DEF InnerEnds, SetInner, Live, callVars, runVars
  <2>2. Types' /\ OthersStay(t) /\ inner'[t] = how
    BY <2>1 DEF Types, InnerStates, OthersStay
  <2>3. TaskIsConsistent(t)' /\ HasOutcome(t)'
    BY <1>1, <2>1, <2>2 DEF TaskIsConsistent, HasOutcome, Live, Ended, HoldsSlot
  <2>. QED
    BY <2>1, <2>2, <2>3, PhaseStep
<1>3. CASE WaitEnds(t)
  <2>1. /\ exec[t] = "running" /\ Ended(t) /\ exec' = [exec EXCEPT ![t] = "reaping"]
        /\ UNCHANGED <<tasks, status, inner, free, queue, completion_event, calls, stage>>
    BY <1>3 DEF WaitEnds, SetExec, callVars, runVars
  <2>2. Types' /\ OthersStay(t) /\ exec'[t] = "reaping"
    BY <2>1 DEF Types, ExecStates, OthersStay
  <2>3. HoldsSlot(t) /\ HoldsSlot(t)'
    BY <2>1, <2>2 DEF HoldsSlot
  <2>4. TaskIsConsistent(t)' /\ HasOutcome(t)'
    BY <1>1, <2>1, <2>2, <2>3 DEF TaskIsConsistent, HasOutcome, Live, Ended
  <2>. QED
    BY <2>1, <2>2, <2>3, <2>4, PhaseStep
<1>4. CASE TimeOut(t)
  <2>1. /\ exec[t] = "running" /\ inner[t] = "running"
        /\ status' = [status EXCEPT ![t] = IF @ \in Terminal THEN @ ELSE "timed_out"]
        /\ exec' = [exec EXCEPT ![t] = "timing_out"]
        /\ inner' = [inner EXCEPT ![t] = "stopping"]
        /\ UNCHANGED <<tasks, free, queue, completion_event, calls, stage>>
    BY <1>4 DEF TimeOut, SetExec, SetInner, SetStatus, callVars, runVars
  <2>2. /\ exec'[t] = "timing_out" /\ inner'[t] = "stopping" /\ status'[t] \in Terminal
    BY <2>1 DEF Types, Terminal
  <2>3. Types' /\ OthersStay(t)
    BY <2>1 DEF Types, ExecStates, InnerStates, Statuses, Terminal, OthersStay
  <2>4. HoldsSlot(t) /\ HoldsSlot(t)'
    BY <2>1, <2>2 DEF HoldsSlot
  <2>5. TaskIsConsistent(t)' /\ HasOutcome(t)'
    BY <1>1, <2>1, <2>2, <2>4 DEF TaskIsConsistent, HasOutcome, Live, Ended, Terminal
  <2>. QED
    BY <2>1, <2>2, <2>3, <2>4, <2>5, PhaseStep
<1>. QED
  BY <1>2, <1>3, <1>4

-----------------------------------------------------------------------------
(***************************************************************************)
(* cancel_task, retention and the end of the run.                          *)
(***************************************************************************)

\* CancelPending writes the status of a task that stays in the queue.
LEMMA CancelPendingStep ==
    ASSUME TaskInv, NEW t \in Task, CancelPending(t), UNCHANGED stage
    PROVE  TaskInv'
<1> USE DEF TaskInv
<1>1. /\ t \in tasks /\ status[t] = "pending"
      /\ status' = [status EXCEPT ![t] = "cancelled"]
      /\ completion_event' = completion_event \cup {t}
      /\ UNCHANGED <<tasks, exec, inner, free, queue, calls>>
  BY DEF CancelPending, callVars
<1>2. status'[t] = "cancelled" /\ "cancelled" \in Terminal
  BY <1>1 DEF Types, Terminal
<1>3. Types' /\ OthersStay(t)
  BY <1>1 DEF Types, Statuses, Terminal, OthersStay
<1>4. TaskIsConsistent(t)
  BY DEF TasksAreConsistent
<1>5. TaskIsConsistent(t)' /\ HasOutcome(t)'
  BY <1>1, <1>2, <1>4 DEF TaskIsConsistent, HasOutcome, Live, Ended, HoldsSlot
<1>. QED
  BY <1>1, <1>3, <1>5, PhaseStep

\* CancelRunning writes a status that is not terminal, over one that is not.
LEMMA CancelRunningStep ==
    ASSUME TaskInv, NEW t \in Task, CancelRunning(t), UNCHANGED stage
    PROVE  TaskInv'
<1> USE DEF TaskInv
<1>1. /\ t \in tasks /\ status[t] \in {"running", "cancelling"}
      /\ status' = [status EXCEPT ![t] = "cancelling"]
      /\ calls' = calls \cup {t}
      /\ UNCHANGED <<tasks, free, queue, completion_event>>
  BY DEF CancelRunning
<1>2. TaskIsConsistent(t) /\ HasOutcome(t)
  BY DEF TasksAreConsistent, EndedTasksHaveOutcome, HasOutcome
<1>3. exec[t] \notin {"none", "queued"}
  BY <1>1, <1>2 DEF TaskIsConsistent
<1>4. status'[t] = "cancelling"
  BY <1>1 DEF Types
<1>5. CASE exec[t] = "running"
  <2>1. /\ exec' = [exec EXCEPT ![t] = "unwinding"]
        /\ inner' = [inner EXCEPT ![t] = IF Ended(t) THEN inner[t] ELSE "stopping"]
    BY <1>5 DEF CancelRunning, SetExec, SetInner
  <2>2. exec'[t] = "unwinding" /\ inner'[t] = IF Ended(t) THEN inner[t] ELSE "stopping"
    BY <2>1 DEF Types
  <2>3. Types' /\ OthersStay(t)
    BY <1>1, <2>1 DEF Types, ExecStates, InnerStates, Statuses, OthersStay
  <2>4. HoldsSlot(t) /\ HoldsSlot(t)'
    BY <1>5, <2>2 DEF HoldsSlot
  <2>5. t \notin completion_event
    BY <1>1, <1>2, <1>5 DEF HasOutcome, Terminal
  <2>6. TaskIsConsistent(t)' /\ HasOutcome(t)'
    BY <1>1, <1>4, <2>2, <2>4, <2>5 DEF TaskIsConsistent, HasOutcome
  <2>. QED
    BY <1>1, <2>3, <2>4, <2>6, PhaseStep
<1>6. CASE exec[t] # "running"
  <2>1. UNCHANGED <<exec, inner>>
    BY <1>6 DEF CancelRunning
  <2>2. Types' /\ OthersStay(t)
    BY <1>1, <2>1 DEF Types, Statuses, OthersStay
  <2>3. TaskIsConsistent(t)' /\ HasOutcome(t)'
    BY <1>1, <1>2, <1>3, <1>4, <2>1
       DEF TaskIsConsistent, HasOutcome, Live, Ended, HoldsSlot, Terminal
  <2>. QED
    BY <1>1, <2>1, <2>2, <2>3, PhaseStep
<1>. QED
  BY <1>5, <1>6

\* The caller of cancel_task returns, writing a terminal status or none.
LEMMA CallEndsStep ==
    ASSUME TaskInv, NEW t \in Task,
           CancelReturns(t) \/ CancelAbandoned(t, "error") \/ CancelAbandoned(t, "cancelled")
    PROVE  TaskInv'
<1> USE DEF TaskInv
<1>1. TaskIsConsistent(t) /\ HasOutcome(t)
  BY DEF TasksAreConsistent, EndedTasksHaveOutcome, HasOutcome
<1>2. CASE CancelReturns(t)
  <2>1. /\ calls' = calls \ {t}
        /\ UNCHANGED <<tasks, status, exec, inner, free, queue, completion_event, stage>>
    BY <1>2 DEF CancelReturns, managerVars, runVars
  <2>2. Types' /\ OthersStay(t)
    BY <2>1 DEF Types, OthersStay
  <2>3. TaskIsConsistent(t)' /\ HasOutcome(t)'
    BY <1>1, <2>1 DEF TaskIsConsistent, HasOutcome, Live, Ended, HoldsSlot
  <2>. QED
    BY <2>1, <2>2, <2>3, PhaseStep
<1>3. ASSUME NEW s \in {"error", "cancelled"}, CancelAbandoned(t, s)
      PROVE  TaskInv'
  <2>1. /\ t \in calls /\ calls' = calls \ {t}
        /\ UNCHANGED <<tasks, exec, inner, free, queue, stage>>
    BY <1>3 DEF CancelAbandoned, runVars
  <2>2. CASE status[t] \in Terminal
    <3>1. UNCHANGED <<status, completion_event>>
      BY <1>3, <2>2 DEF CancelAbandoned
    <3>2. Types' /\ OthersStay(t)
      BY <2>1, <3>1 DEF Types, OthersStay
    <3>3. TaskIsConsistent(t)' /\ HasOutcome(t)'
      BY <1>1, <2>1, <3>1 DEF TaskIsConsistent, HasOutcome, Live, Ended, HoldsSlot
    <3>. QED
      BY <2>1, <3>2, <3>3, PhaseStep
  <2>3. CASE status[t] \notin Terminal
    <3>1. /\ status' = [status EXCEPT ![t] = s]
          /\ completion_event' = completion_event \cup {t}
      BY <1>3, <2>3 DEF CancelAbandoned
    <3>2. Types' /\ OthersStay(t)
      BY <2>1, <3>1 DEF Types, Statuses, Terminal, OthersStay
    <3>3. status'[t] = s /\ s \in Terminal
      BY <3>1 DEF Types, Terminal
    <3>4. exec[t] \notin {"none", "queued"}
      BY <1>1, <2>1 DEF TaskIsConsistent
    <3>5. TaskIsConsistent(t)' /\ HasOutcome(t)'
      BY <1>1, <2>1, <3>3, <3>4 DEF TaskIsConsistent, HasOutcome, Live, Ended, HoldsSlot, Terminal
    <3>. QED
      BY <2>1, <3>2, <3>5, PhaseStep
  <2>. QED
    BY <2>2, <2>3
<1>. QED
  BY <1>2, <1>3

\* A task that is forgotten runs no coroutine and has an outcome.
LEMMA CleanupStep ==
    ASSUME TaskInv, NEW t \in Task, Cleanup(t)
    PROVE  TaskInv'
<1> USE DEF TaskInv
<1>1. /\ t \in completion_event /\ ~Live(t)
      /\ tasks' = tasks \ {t}
      /\ UNCHANGED <<status, exec, inner, free, queue, completion_event, calls, stage>>
  BY DEF Cleanup, callVars, runVars
<1>2. TaskIsConsistent(t) /\ HasOutcome(t)
  BY DEF TasksAreConsistent, EndedTasksHaveOutcome, HasOutcome
<1>3. Types' /\ OthersStay(t)
  BY <1>1 DEF Types, OthersStay
<1>4. TaskIsConsistent(t)' /\ HasOutcome(t)'
  BY <1>1, <1>2 DEF TaskIsConsistent, HasOutcome, Live, Ended, HoldsSlot, Terminal
<1>. QED
  BY <1>1, <1>3, <1>4, PhaseStep

\* Everything that is registered has ended when the registries are cleared.
LEMMA FinishShutdownStep ==
    ASSUME TaskInv, FinishShutdown
    PROVE  TaskInv'
<1> USE DEF TaskInv
<1>1. /\ \A t \in tasks : exec[t] = "done"
      /\ tasks' = {}
      /\ UNCHANGED <<status, exec, inner, free, queue, completion_event, calls>>
  BY DEF FinishShutdown, callVars
<1>2. ASSUME NEW t \in Task PROVE TaskIsConsistent(t)' /\ HasOutcome(t)'
  <2>1. TaskIsConsistent(t) /\ HasOutcome(t)
    BY DEF TasksAreConsistent, EndedTasksHaveOutcome, HasOutcome
  <2>. QED
    BY <1>1, <2>1 DEF TaskIsConsistent, HasOutcome, Live, Ended, HoldsSlot
<1>3. QueueIsWaiting' /\ SlotsAdd'
  BY <1>1, QueueStays, SlotsKept DEF HoldsSlot
<1>. QED
  BY <1>1, <1>2, <1>3 DEF Types, ClosedIsEmpty, TasksAreConsistent, EndedTasksHaveOutcome, HasOutcome

\* Waiters, the batcher and the other stages of after_run.
LEMMA QuietStep ==
    ASSUME TaskInv, UNCHANGED <<managerVars, calls>>, stage' = stage \/ stage' # "closed"
    PROVE  TaskInv'
<1> USE DEF TaskInv, managerVars
<1>1. Types' /\ ClosedIsEmpty'
  BY DEF Types, ClosedIsEmpty
<1>2. QueueIsWaiting' /\ SlotsAdd'
  BY QueueStays, SlotsKept DEF HoldsSlot
<1>3. TasksAreConsistent'
  BY DEF TasksAreConsistent, TaskIsConsistent, Live, Ended, HoldsSlot
<1>4. EndedTasksHaveOutcome'
  BY DEF EndedTasksHaveOutcome
<1>. QED
  BY <1>1, <1>2, <1>3, <1>4

-----------------------------------------------------------------------------
(***************************************************************************)
(* The theorems.                                                           *)
(***************************************************************************)
LEMMA InvNext == TaskInv /\ [Next]_vars => TaskInv'
<1> SUFFICES ASSUME TaskInv, [Next]_vars PROVE TaskInv'
  OBVIOUS
<1>1. ASSUME NEW t \in Task, Launch(t) \/ Cancel(t) PROVE TaskInv'
  BY <1>1, LaunchStep, CancelPendingStep, CancelRunningStep DEF Cancel, runVars
<1>2. ASSUME NEW w \in Waiter, NEW t \in Awaited, Wait(w, t) PROVE TaskInv'
  BY <1>2, QuietStep DEF Wait, runVars
<1>3. CASE BeginShutdown
  BY <1>3, QuietStep DEF BeginShutdown, callVars
<1>4. ASSUME NEW t \in Task, Execute(t) PROVE TaskInv'
  BY <1>4, AcquireStep, AcquireCancelledStep, ProgressStep, CompleteStep, UnwindStep DEF Execute
<1>5. ASSUME NEW t \in Task, Coroutine(t) \/ TimeOut(t) PROVE TaskInv'
  BY <1>5, ProgressStep DEF Coroutine
<1>6. ASSUME NEW t \in Task, Cleanup(t) PROVE TaskInv'
  BY <1>6, CleanupStep
<1>7. ASSUME NEW t \in Task, CancelReturns(t) \/ Abandon(t) PROVE TaskInv'
  BY <1>7, CallEndsStep DEF Abandon
<1>8. ASSUME NEW w \in Waiter, WaitReturns(w) PROVE TaskInv'
  BY <1>8, QuietStep DEF WaitReturns, runVars
<1>9. CASE Flush \/ Deliver
  BY <1>9, QuietStep DEF Flush, Deliver, FlushEnds, callVars, runVars
<1>10. CASE FinishFlushing \/ AwaitTasks
  BY <1>10, QuietStep DEF FinishFlushing, AwaitTasks, callVars
<1>11. CASE FinishShutdown
  BY <1>11, FinishShutdownStep
<1>12. ASSUME NEW t \in Task, ShutdownCancel(t) PROVE TaskInv'
  <2>1. UNCHANGED stage
    BY <1>12 DEF ShutdownCancel
  <2>2. CancelPending(t) \/ CancelRunning(t) \/ UNCHANGED <<managerVars, callVars>>
    BY <1>12 DEF ShutdownCancel
  <2>. QED
    BY <2>1, <2>2, CancelPendingStep, CancelRunningStep, QuietStep DEF callVars
<1>13. ASSUME NEW t \in Task, ShutdownAborts(t) PROVE TaskInv'
  BY <1>13, QuietStep DEF ShutdownAborts, callVars
<1>14. CASE UNCHANGED vars
  BY <1>14, QuietStep DEF vars, callVars, runVars
<1>. QED
  BY <1>1, <1>2, <1>3, <1>4, <1>5, <1>6, <1>7, <1>8, <1>9, <1>10, <1>11, <1>12, <1>13, <1>14
     DEF Next, Tool, Shutdown

LEMMA InvInit == Init => TaskInv
<1> SUFFICES ASSUME Init PROVE TaskInv
  OBVIOUS
<1>1. Types
  BY ConcurrencyAssumption DEF Init, Types, Statuses, ExecStates, InnerStates
<1>2. QueueIsWaiting
  BY DEF Init, QueueIsWaiting
<1>3. TasksAreConsistent /\ EndedTasksHaveOutcome
  BY DEF Init, TasksAreConsistent, TaskIsConsistent, EndedTasksHaveOutcome, Live, Ended
<1>4. SlotsAdd
  <2>1. Holders = {}
    BY DEF Init, Holders, HoldsSlot
  <2>. QED
    BY <2>1, FS_EmptySet, ConcurrencyAssumption DEF Init, SlotsAdd
<1>5. ClosedIsEmpty
  BY DEF Init, ClosedIsEmpty
<1>. QED
  BY <1>1, <1>2, <1>3, <1>4, <1>5 DEF TaskInv

\* The inductive invariant holds in every reachable state.
THEOREM Invariance == Spec => []TaskInv
<1>. QED
  BY InvInit, InvNext, PTL DEF Spec

\* The semaphore bounds the coroutines that run, no path of _execute_task loses a
\* slot or releases one twice, and a manager that was shut down runs nothing.
THEOREM SlotsAreRespected == Spec => []SlotsRespected
<1>1. TaskInv => SlotsRespected
  <2> SUFFICES ASSUME TaskInv PROVE SlotsRespected
    OBVIOUS
  <2> DEFINE Running == {t \in Task : Live(t)}
  <2>1. \A t \in Task : Live(t) => HoldsSlot(t) /\ t \in tasks
    BY DEF TaskInv, TasksAreConsistent, TaskIsConsistent
  <2>2. Running \subseteq Holders
    BY <2>1 DEF Holders
  <2>3. IsFiniteSet(Holders) /\ Cardinality(Holders) \in Nat
    BY FS_CardinalityType DEF TaskInv, SlotsAdd
  <2>4. IsFiniteSet(Running) /\ Cardinality(Running) <= Cardinality(Holders)
    BY <2>2, <2>3, FS_Subset
  <2>5. Cardinality(Running) \in Nat
    BY <2>4, FS_CardinalityType
  <2>6. free \in Nat /\ free + Cardinality(Holders) = max_concurrent_tasks
    BY DEF TaskInv, Types, SlotsAdd
  <2>7. Cardinality(Running) <= max_concurrent_tasks
    BY <2>3, <2>4, <2>5, <2>6, ConcurrencyAssumption
  <2>8. stage = "closed" => \A t \in Task : ~Live(t)
    BY <2>1 DEF TaskInv, ClosedIsEmpty
  <2>. QED
    BY <2>6, <2>7, <2>8 DEF SlotsRespected, Holders
<1>. QED
  BY <1>1, Invariance, PTL

\* A task that has ended, or whose waiters were woken, has an outcome.
THEOREM EndedHaveOutcome == Spec => []EndedTasksHaveOutcome
<1>1. TaskInv => EndedTasksHaveOutcome
  BY DEF TaskInv
<1>. QED
  BY <1>1, Invariance, PTL

\* One step of the outcome theorem: a status that is written was not terminal.
OutcomesKept == \A u \in Task : status[u] \in Terminal => status'[u] = status[u]

LEMMA WrittenOnce ==
    ASSUME TaskInv, NEW t \in Task, NEW s, status' = [status EXCEPT ![t] = s],
           status[t] \in Terminal => s = status[t]
    PROVE  OutcomesKept
  BY DEF TaskInv, Types, OutcomesKept

LEMMA KeptNext == TaskInv /\ [Next]_vars => OutcomesKept
<1> SUFFICES ASSUME TaskInv, [Next]_vars PROVE OutcomesKept
  OBVIOUS
<1>0. UNCHANGED status => OutcomesKept
  BY DEF OutcomesKept
<1>1. ASSUME NEW t \in Task, Launch(t) PROVE OutcomesKept
  BY <1>1, WrittenOnce DEF Launch, Terminal
<1>2. ASSUME NEW t \in Task, CancelPending(t) \/ CancelRunning(t) PROVE OutcomesKept
  BY <1>2, WrittenOnce DEF CancelPending, CancelRunning, Terminal
<1>3. ASSUME NEW t \in Task, Acquire(t) PROVE OutcomesKept
  <2>1. exec[t] = "queued"
    <3>1. QueueIsWaiting /\ queue \in Seq(Task) /\ queue # <<>> /\ t = Head(queue)
      BY <1>3 DEF Acquire, TaskInv, Types
    <3>2. Len(queue) \in Nat \ {0} /\ DOMAIN queue = 1..Len(queue)
      BY <3>1, EmptySeq
    <3>3. 1 \in DOMAIN queue /\ t = queue[1]
      BY <3>1, <3>2
    <3>. QED
      BY <3>1, <3>3 DEF QueueIsWaiting
  <2>2. status[t] = "pending"
    BY <1>3, <2>1 DEF Acquire, TaskInv, TasksAreConsistent, TaskIsConsistent
  <2>. QED
    BY <1>3, <2>2, WrittenOnce DEF Acquire, Terminal
<1>4. ASSUME NEW t \in Task, Complete(t) PROVE OutcomesKept
  <2>1. CASE inner[t] = "raised"
    BY <1>4, <2>1, WrittenOnce DEF Complete, SetStatus
  <2>2. CASE inner[t] = "cancelled"
    BY <1>4, <2>2, WrittenOnce DEF Complete, SetStatus
  <2>3. CASE inner[t] \notin {"raised", "cancelled"}
    BY <1>4, <2>3, WrittenOnce DEF Complete
  <2>. QED
    BY <2>1, <2>2, <2>3
<1>5. ASSUME NEW t \in Task, Unwind(t) \/ TimeOut(t) PROVE OutcomesKept
  BY <1>5, WrittenOnce DEF Unwind, TimeOut, SetStatus
<1>6. ASSUME NEW t \in Task, AcquireCancelled(t) \/ WaitEnds(t) \/ Coroutine(t) \/ Cleanup(t)
                              \/ CancelReturns(t)
      PROVE  OutcomesKept
  BY <1>6, <1>0 DEF AcquireCancelled, WaitEnds, Coroutine, InnerEnds, Cleanup, CancelReturns,
                    managerVars
<1>7. ASSUME NEW t \in Task, Abandon(t) PROVE OutcomesKept
  BY <1>0, <1>7, WrittenOnce DEF Abandon, CancelAbandoned
<1>8. ASSUME NEW w \in Waiter, WaitReturns(w) \/ \E t \in Awaited : Wait(w, t)
      PROVE  OutcomesKept
  BY <1>0, <1>8 DEF WaitReturns, Wait, managerVars
<1>9. CASE BeginShutdown \/ Flush \/ Deliver
  BY <1>0, <1>9 DEF BeginShutdown, Flush, Deliver, FlushEnds, managerVars
<1>10. CASE FinishFlushing \/ AwaitTasks \/ FinishShutdown
  BY <1>0, <1>10 DEF FinishFlushing, AwaitTasks, FinishShutdown, managerVars
<1>11. ASSUME NEW t \in Task, ShutdownCancel(t) \/ ShutdownAborts(t) PROVE OutcomesKept
  BY <1>0, <1>2, <1>11 DEF ShutdownCancel, ShutdownAborts, managerVars
<1>12. CASE UNCHANGED vars
  BY <1>0, <1>12 DEF vars, managerVars
<1>. QED
  BY <1>1, <1>2, <1>3, <1>4, <1>5, <1>6, <1>7, <1>8, <1>9, <1>10, <1>11, <1>12
     DEF Next, Tool, Cancel, Execute, Shutdown

\* The outcome of a task is final, although _execute_task, its timeout and any number
\* of cancel_task calls write the status.
THEOREM OutcomesAreFinal == Spec => OutcomeIsFinal
<1>1. TaskInv /\ [Next]_vars => [\A t \in Task : status[t] \in Terminal => status'[t] = status[t]]_vars
  BY KeptNext DEF OutcomesKept
<1>. QED
  BY <1>1, Invariance, PTL DEF Spec, OutcomeIsFinal

-----------------------------------------------------------------------------
(***************************************************************************)
(* Types of the rest: waiters, batcher, shutdown and history.              *)
(***************************************************************************)
RestTypes ==
    /\ blocking_waiter \in [Task -> Waiter \cup {None}]
    /\ waiting \in [Waiter -> Task \cup {None}]
    /\ pending \subseteq Task
    /\ timer \in BOOLEAN
    /\ flushes \subseteq SUBSET Task
    /\ delivered \subseteq Task
    /\ stage \in Stages
    /\ left \subseteq Task
    /\ final \subseteq Task
    /\ told \subseteq Task
    /\ notices \in [Task -> Nat]

LEMMA CompletedTypes ==
    ASSUME RestTypes, NEW t \in Task, OnCompleted(t)
    PROVE  pending' \subseteq Task /\ timer' \in BOOLEAN
  BY DEF RestTypes, OnCompleted, Submit

LEMMA FinishTypes ==
    ASSUME RestTypes, NEW t \in Task,
           OnCompleted(t) \/ UNCHANGED <<pending, timer>>,
           UNCHANGED <<blocking_waiter, waiting, told, flushes, delivered, notices, stage, final>>,
           left' \subseteq left
    PROVE  RestTypes'
<1>1. pending' \subseteq Task /\ timer' \in BOOLEAN
  BY CompletedTypes DEF RestTypes
<1>. QED
  BY <1>1 DEF RestTypes

LEMMA DeliveredTypes ==
    ASSUME RestTypes, NEW batch \in SUBSET Task, Delivered(batch)
    PROVE  delivered' \subseteq Task /\ notices' \in [Task -> Nat]
  BY DEF RestTypes, Delivered

LEMMA RestNext == TaskInv /\ RestTypes /\ [Next]_vars => RestTypes'
<1> SUFFICES ASSUME TaskInv, RestTypes, [Next]_vars PROVE RestTypes'
  OBVIOUS
<1> USE DEF callVars, batcherVars, runVars
<1>1. ASSUME NEW t \in Task, Launch(t) PROVE RestTypes'
  BY <1>1, FinishTypes DEF Launch
<1>2. ASSUME NEW t \in Task, Cancel(t) \/ ShutdownCancel(t) PROVE RestTypes'
  BY <1>2, FinishTypes DEF Cancel, CancelPending, CancelRunning, ShutdownCancel
<1>3. ASSUME NEW t \in Task, Execute(t) PROVE RestTypes'
  BY <1>3, FinishTypes DEF Execute, Acquire, AcquireCancelled, WaitEnds, Complete, Unwind, Finish
<1>4. ASSUME NEW t \in Task, Coroutine(t) \/ TimeOut(t) \/ Cleanup(t) \/ CancelReturns(t) \/ Abandon(t)
      PROVE  RestTypes'
  BY <1>4, FinishTypes DEF Coroutine, InnerEnds, TimeOut, Cleanup, CancelReturns, Abandon,
                           CancelAbandoned
<1>5. ASSUME NEW w \in Waiter, NEW t \in Awaited, Wait(w, t) PROVE RestTypes'
  BY <1>5, BoundsAssumption DEF Wait, RestTypes
<1>6. ASSUME NEW w \in Waiter, WaitReturns(w) PROVE RestTypes'
  <2>1. waiting[w] \in Task
    BY <1>6 DEF WaitReturns, RestTypes
  <2>2. told' \subseteq Task
    BY <1>6, <2>1 DEF WaitReturns, RestTypes
  <2>3. /\ blocking_waiter' \in [Task -> Waiter \cup {None}]
        /\ waiting' \in [Waiter -> Task \cup {None}]
    BY <1>6, <2>1 DEF WaitReturns, RestTypes
  <2>. QED
    BY <1>6, <2>2, <2>3 DEF WaitReturns, RestTypes
<1>7. CASE BeginShutdown
  BY <1>7 DEF BeginShutdown, RestTypes, Stages
<1>8. CASE Flush
  BY <1>8 DEF Flush, RestTypes
<1>9. CASE Deliver
  BY <1>9, DeliveredTypes DEF Deliver, FlushEnds, RestTypes
<1>10. CASE FinishFlushing
  BY <1>10, DeliveredTypes DEF FinishFlushing, RestTypes, Stages, TaskInv, Types
<1>11. CASE AwaitTasks \/ FinishShutdown \/ \E t \in Task : ShutdownAborts(t)
  BY <1>11 DEF AwaitTasks, FinishShutdown, ShutdownAborts, RestTypes, Stages
<1>12. CASE UNCHANGED vars
  BY <1>12 DEF vars, RestTypes
<1>. QED
  BY <1>1, <1>2, <1>3, <1>4, <1>5, <1>6, <1>7, <1>8, <1>9, <1>10, <1>11, <1>12
     DEF Next, Tool, Shutdown

\* Types, and free never exceeds the number of slots.
THEOREM TypeCorrectness == Spec => []TypeOK
<1>1. Init => RestTypes
  <2> SUFFICES ASSUME Init PROVE RestTypes
    OBVIOUS
  <2>1. /\ blocking_waiter \in [Task -> Waiter \cup {None}]
        /\ waiting \in [Waiter -> Task \cup {None}]
        /\ notices \in [Task -> Nat]
    BY DEF Init
  <2>2. timer \in BOOLEAN /\ stage \in Stages
    BY DEF Init, Stages
  <2>3. /\ pending \subseteq Task /\ delivered \subseteq Task /\ flushes \subseteq SUBSET Task
        /\ left \subseteq Task /\ final \subseteq Task /\ told \subseteq Task
    BY DEF Init
  <2>. QED
    BY <2>1, <2>2, <2>3 DEF RestTypes
<1>2. TaskInv /\ RestTypes => TypeOK
  <2> SUFFICES ASSUME TaskInv, RestTypes PROVE TypeOK
    OBVIOUS
  <2>1. Cardinality(Holders) \in Nat
    BY FS_CardinalityType DEF TaskInv, SlotsAdd
  <2>2. free \in 0..max_concurrent_tasks
    BY <2>1, ConcurrencyAssumption DEF TaskInv, Types, SlotsAdd
  <2>. QED
    BY <2>2 DEF TaskInv, Types, RestTypes, TypeOK
<1>. QED
  BY <1>1, <1>2, RestNext, Invariance, PTL DEF Spec

-----------------------------------------------------------------------------
(***************************************************************************)
(* Notifications.  Every notice that was or will be delivered goes back to *)
(* a report of the task's completion: the batcher's set, the batches being *)
(* delivered and the last one hold no more of them than were reported.     *)
(***************************************************************************)
InFlight(t) == {batch \in flushes : t \in batch}

One(b) == IF b THEN 1 ELSE 0

Copies(t) == notices[t] + Cardinality(InFlight(t)) + One(t \in pending) + One(t \in final)

\* How often _on_task_completed was called for the task.
Reports(t) ==
    IF exec[t] = "done" THEN (IF inner[t] = "none" THEN 2 ELSE 1)
    ELSE IF exec[t] = "queued" /\ status[t] = "cancelled" THEN 1 ELSE 0

NoticeOf(t) ==
    /\ notices[t] \in Nat
    /\ IsFiniteSet(InFlight(t))
    /\ Copies(t) <= Reports(t)
    /\ exec[t] = "done" /\ inner[t] = "none" => status[t] = "cancelled"

NoticeInv ==
    /\ \A t \in Task : NoticeOf(t)
    /\ stage = "open" => final = {}

\* What a task has to do with its notices.
Told(t) == <<exec[t], inner[t], status[t]>>

\* Nothing is added to what the parent will learn.
LEMMA NoNewNotice ==
    ASSUME NEW t \in Task, NoticeOf(t), UNCHANGED <<flushes, notices, final>>,
           t \in pending' => t \in pending,
           Reports(t)' >= Reports(t),
           exec'[t] = "done" /\ inner'[t] = "none" => status'[t] = "cancelled"
    PROVE  NoticeOf(t)'
<1>1. InFlight(t)' = InFlight(t) /\ notices'[t] = notices[t]
  BY DEF InFlight
<1>2. Cardinality(InFlight(t)) \in Nat
  BY FS_CardinalityType DEF NoticeOf
<1>3. Reports(t) \in Nat /\ Reports(t)' \in Nat
  BY DEF Reports
<1>4. One(t \in pending') <= One(t \in pending) /\ One(t \in final') = One(t \in final)
  BY DEF One
<1>5. /\ One(t \in pending') \in Nat /\ One(t \in pending) \in Nat /\ One(t \in final) \in Nat
  BY DEF One
<1>6. Copies(t)' <= Copies(t) /\ Copies(t)' \in Nat /\ Copies(t) \in Nat
  BY <1>1, <1>2, <1>4, <1>5 DEF Copies, NoticeOf
<1>. QED
  BY <1>1, <1>3, <1>6 DEF NoticeOf

\* A report adds at most one notice, to the batcher's set.
LEMMA ReportedNotice ==
    ASSUME NEW t \in Task, NoticeOf(t), UNCHANGED <<flushes, notices, final>>,
           Reports(t)' >= Reports(t) + 1,
           exec'[t] = "done" /\ inner'[t] = "none" => status'[t] = "cancelled"
    PROVE  NoticeOf(t)'
<1>1. InFlight(t)' = InFlight(t) /\ notices'[t] = notices[t]
  BY DEF InFlight
<1>2. Cardinality(InFlight(t)) \in Nat
  BY FS_CardinalityType DEF NoticeOf
<1>3. Reports(t) \in Nat /\ Reports(t)' \in Nat
  BY DEF Reports
<1>4. One(t \in pending') <= One(t \in pending) + 1 /\ One(t \in final') = One(t \in final)
  BY DEF One
<1>5. /\ One(t \in pending') \in Nat /\ One(t \in pending) \in Nat /\ One(t \in final) \in Nat
  BY DEF One
<1>6. Copies(t)' <= Copies(t) + 1 /\ Copies(t)' \in Nat /\ Copies(t) \in Nat
  BY <1>1, <1>2, <1>4, <1>5 DEF Copies, NoticeOf
<1>. QED
  BY <1>1, <1>3, <1>6 DEF NoticeOf

\* Steps that leave the batcher alone.
LEMMA QuietNotices ==
    ASSUME NoticeInv, UNCHANGED <<flushes, notices, final, pending>>,
           stage' = "open" => stage = "open",
           \A u \in Task : /\ Reports(u)' >= Reports(u)
                           /\ exec'[u] = "done" /\ inner'[u] = "none" => status'[u] = "cancelled"
    PROVE  NoticeInv'
  BY NoNewNotice DEF NoticeInv

LEMMA SameReports ==
    ASSUME NoticeInv, NEW u \in Task, Told(u)' = Told(u)
    PROVE  /\ Reports(u)' >= Reports(u)
           /\ exec'[u] = "done" /\ inner'[u] = "none" => status'[u] = "cancelled"
<1>1. exec'[u] = exec[u] /\ inner'[u] = inner[u] /\ status'[u] = status[u]
  BY DEF Told
<1>2. Reports(u)' = Reports(u) /\ Reports(u) \in Nat
  BY <1>1 DEF Reports
<1>. QED
  BY <1>1, <1>2 DEF NoticeInv, NoticeOf

\* Steps that report the completion of a task.
LEMMA ReportNotices ==
    ASSUME NoticeInv, NEW t \in Task, OnCompleted(t), UNCHANGED <<flushes, notices, final>>,
           stage' = stage,
           Reports(t)' >= Reports(t) + 1,
           exec'[t] = "done" /\ inner'[t] = "none" => status'[t] = "cancelled",
           \A u \in Task \ {t} : Told(u)' = Told(u)
    PROVE  NoticeInv'
<1>1. \A u \in Task \ {t} : u \in pending' => u \in pending
  BY DEF OnCompleted, Submit
<1>2. ASSUME NEW u \in Task PROVE NoticeOf(u)'
  <2>1. CASE u = t
    BY <2>1, ReportedNotice DEF NoticeInv
  <2>2. CASE u # t
    BY <1>1, <2>2, SameReports, NoNewNotice DEF NoticeInv
  <2>. QED
    BY <2>1, <2>2
<1>. QED
  BY <1>2 DEF NoticeInv

\* Notices move through the batcher; the tasks stay as they are.
LEMMA MovedNotice ==
    ASSUME NEW t \in Task, NoticeOf(t), UNCHANGED <<exec, inner, status>>,
           notices'[t] \in Nat, IsFiniteSet(InFlight(t)'), Copies(t)' <= Copies(t)
    PROVE  NoticeOf(t)'
<1>1. Cardinality(InFlight(t)) \in Nat /\ Cardinality(InFlight(t)') \in Nat
  BY FS_CardinalityType DEF NoticeOf
<1>2. One(t \in pending') \in Nat /\ One(t \in pending) \in Nat /\ One(t \in final) \in Nat
      /\ One(t \in final') \in Nat
  BY DEF One
<1>3. Copies(t) \in Nat /\ Copies(t)' \in Nat
  BY <1>1, <1>2 DEF Copies, NoticeOf
<1>4. Reports(t)' = Reports(t) /\ Reports(t) \in Nat
  BY DEF Reports
<1>. QED
  BY <1>3, <1>4 DEF NoticeOf

LEMMA FlushNotices ==
    ASSUME NoticeInv, Flush
    PROVE  NoticeInv'
<1>1. /\ flushes' = (IF pending = {} THEN flushes ELSE flushes \cup {pending})
      /\ pending' = {}
      /\ UNCHANGED <<exec, inner, status, notices, stage, final>>
  BY DEF Flush, managerVars, runVars
<1>2. ASSUME NEW t \in Task PROVE NoticeOf(t)'
  <2>1. NoticeOf(t)
    BY DEF NoticeInv
  <2>2. CASE t \in pending
    <3>1. InFlight(t)' = InFlight(t) \cup {pending}
      BY <1>1, <2>2 DEF InFlight
    <3>2. /\ IsFiniteSet(InFlight(t)')
          /\ Cardinality(InFlight(t)') = IF pending \in InFlight(t) THEN Cardinality(InFlight(t))
                                         ELSE Cardinality(InFlight(t)) + 1
      <4>1. IsFiniteSet(InFlight(t))
        BY <2>1 DEF NoticeOf
      <4>. QED
        BY <3>1, <4>1, FS_AddElement
    <3>3. /\ Cardinality(InFlight(t)) \in Nat /\ Cardinality(InFlight(t)') \in Nat
      BY <2>1, <3>2, FS_CardinalityType DEF NoticeOf
    <3>4. One(t \in pending) = 1 /\ One(t \in pending') = 0
          /\ One(t \in final') = One(t \in final) /\ One(t \in final) \in Nat
      BY <1>1, <2>2 DEF One
    <3>5. Copies(t)' <= Copies(t)
      BY <1>1, <2>1, <3>2, <3>3, <3>4 DEF Copies, NoticeOf
    <3>. QED
      BY <1>1, <2>1, <3>2, <3>5, MovedNotice DEF NoticeOf
  <2>3. CASE t \notin pending
    <3>1. InFlight(t)' = InFlight(t)
      BY <1>1, <2>3 DEF InFlight
    <3>2. Copies(t)' = Copies(t)
      BY <1>1, <2>3, <3>1 DEF Copies, One
    <3>3. Copies(t) \in Nat
      BY <2>1, FS_CardinalityType DEF Copies, NoticeOf, One
    <3>. QED
      BY <1>1, <2>1, <3>1, <3>2, <3>3, MovedNotice DEF NoticeOf
  <2>. QED
    BY <2>2, <2>3
<1>. QED
  BY <1>1, <1>2 DEF NoticeInv

LEMMA DeliverNotices ==
    ASSUME NoticeInv, NEW batch \in flushes, FlushEnds(batch)
    PROVE  NoticeInv'
<1>1. /\ flushes' = flushes \ {batch}
      /\ notices' = [t \in Task |-> IF t \in batch THEN notices[t] + 1 ELSE notices[t]]
      /\ UNCHANGED <<exec, inner, status, pending, stage, final>>
  BY DEF FlushEnds, Delivered, managerVars, runVars
<1>2. ASSUME NEW t \in Task PROVE NoticeOf(t)'
  <2>1. NoticeOf(t)
    BY DEF NoticeInv
  <2>2. One(t \in pending') = One(t \in pending) /\ One(t \in final') = One(t \in final)
    BY <1>1 DEF One
  <2>3. One(t \in pending) \in Nat /\ One(t \in final) \in Nat
    BY DEF One
  <2>4. InFlight(t)' = InFlight(t) \ {batch}
    BY <1>1 DEF InFlight
  <2>5. /\ IsFiniteSet(InFlight(t)')
        /\ Cardinality(InFlight(t)') = IF t \in batch THEN Cardinality(InFlight(t)) - 1
                                       ELSE Cardinality(InFlight(t))
    <3>1. batch \in InFlight(t) <=> t \in batch
      BY DEF InFlight
    <3>2. IsFiniteSet(InFlight(t))
      BY <2>1 DEF NoticeOf
    <3>. QED
      BY <2>4, <3>1, <3>2, FS_RemoveElement
  <2>6. Cardinality(InFlight(t)) \in Nat /\ notices[t] \in Nat
    BY <2>1, FS_CardinalityType DEF NoticeOf
  <2>7. notices'[t] = IF t \in batch THEN notices[t] + 1 ELSE notices[t]
    BY <1>1
  <2>8. notices'[t] + Cardinality(InFlight(t)') = notices[t] + Cardinality(InFlight(t))
    BY <2>5, <2>6, <2>7
  <2>9. Copies(t)' = Copies(t) /\ Copies(t) \in Nat
    BY <2>2, <2>3, <2>6, <2>8 DEF Copies
  <2>. QED
    BY <1>1, <2>1, <2>5, <2>6, <2>7, <2>9, MovedNotice
<1>. QED
  BY <1>1, <1>2 DEF NoticeInv

LEMMA BeginShutdownNotices ==
    ASSUME NoticeInv, BeginShutdown
    PROVE  NoticeInv'
<1>1. /\ final' = pending /\ pending' = {} /\ final = {} /\ stage' = "flushing"
      /\ UNCHANGED <<exec, inner, status, notices, flushes>>
  BY DEF BeginShutdown, NoticeInv, managerVars
<1>2. ASSUME NEW t \in Task PROVE NoticeOf(t)'
  <2>1. NoticeOf(t) /\ InFlight(t)' = InFlight(t)
    BY <1>1 DEF NoticeInv, InFlight
  <2>2. Copies(t)' = notices[t] + Cardinality(InFlight(t)) + 0 + One(t \in pending)
        /\ Copies(t) = notices[t] + Cardinality(InFlight(t)) + One(t \in pending) + 0
    BY <1>1, <2>1 DEF Copies, One
  <2>3. Cardinality(InFlight(t)) \in Nat /\ One(t \in pending) \in Nat /\ notices[t] \in Nat
    BY <2>1, FS_CardinalityType DEF NoticeOf, One
  <2>4. Copies(t)' <= Copies(t)
    BY <2>2, <2>3
  <2>. QED
    BY <1>1, <2>1, <2>4, MovedNotice DEF NoticeOf
<1>. QED
  BY <1>1, <1>2 DEF NoticeInv

LEMMA FinishFlushingNotices ==
    ASSUME NoticeInv, FinishFlushing
    PROVE  NoticeInv'
<1>1. /\ notices' = [t \in Task |-> IF t \in final THEN notices[t] + 1 ELSE notices[t]]
      /\ final' = {} /\ flushes' = {} /\ stage' = "cancelling"
      /\ UNCHANGED <<exec, inner, status, pending>>
  BY DEF FinishFlushing, Delivered, managerVars
<1>2. ASSUME NEW t \in Task PROVE NoticeOf(t)'
  <2>1. NoticeOf(t) /\ InFlight(t)' = {}
    BY <1>1 DEF NoticeInv, InFlight
  <2>2. IsFiniteSet(InFlight(t)') /\ Cardinality(InFlight(t)') = 0
    BY <2>1, FS_EmptySet
  <2>3. Cardinality(InFlight(t)) \in Nat /\ One(t \in pending) \in Nat /\ notices[t] \in Nat
    BY <2>1, FS_CardinalityType DEF NoticeOf, One
  <2>4. notices'[t] = notices[t] + One(t \in final) /\ One(t \in final) \in Nat /\ One(t \in final') = 0
    BY <1>1, <2>3 DEF One
  <2>5. One(t \in pending') = One(t \in pending)
    BY <1>1 DEF One
  <2>6. Copies(t)' <= Copies(t)
    BY <2>2, <2>3, <2>4, <2>5 DEF Copies
  <2>. QED
    BY <1>1, <2>1, <2>2, <2>3, <2>4, <2>6, MovedNotice
<1>. QED
  BY <1>1, <1>2 DEF NoticeInv

LEMMA NoticeInit == Init => NoticeInv
<1> SUFFICES ASSUME Init PROVE NoticeInv
  OBVIOUS
<1>1. ASSUME NEW t \in Task PROVE NoticeOf(t)
  <2>1. InFlight(t) = {} /\ notices[t] = 0 /\ exec[t] = "none"
    BY DEF Init, InFlight
  <2>2. IsFiniteSet(InFlight(t)) /\ Cardinality(InFlight(t)) = 0
    BY <2>1, FS_EmptySet
  <2>3. One(t \in pending) = 0 /\ One(t \in final) = 0
    BY DEF Init, One
  <2>4. Copies(t) = 0 /\ Reports(t) = 0
    BY <2>1, <2>2, <2>3 DEF Copies, Reports
  <2>. QED
    BY <2>1, <2>2, <2>4 DEF NoticeOf
<1>. QED
  BY <1>1 DEF NoticeInv, Init

\* _execute_task ends, and is the only one to end the task.
LEMMA FinishNotices ==
    ASSUME TaskInv, NoticeInv, NEW t \in Task, Complete(t) \/ Unwind(t)
    PROVE  NoticeInv'
<1>1. /\ HoldsSlot(t) /\ inner[t] # "none"
      /\ exec' = [exec EXCEPT ![t] = "done"] /\ OnCompleted(t)
      /\ UNCHANGED <<inner, flushes, notices, final, stage>>
      /\ \E s : status' = [status EXCEPT ![t] = s]
  <2>1. Ended(t)
    BY DEF Complete, Unwind, TaskInv, TasksAreConsistent, TaskIsConsistent
  <2>2. \E s : status' = [status EXCEPT ![t] = s]
    <3>1. CASE Unwind(t)
      BY <3>1 DEF Unwind, SetStatus
    <3>2. CASE Complete(t)
      <4>1. CASE inner[t] = "raised"
        BY <3>2, <4>1 DEF Complete, SetStatus
      <4>2. CASE inner[t] = "cancelled"
        BY <3>2, <4>2 DEF Complete, SetStatus
      <4>3. CASE inner[t] \notin {"raised", "cancelled"}
        BY <3>2, <4>3 DEF Complete
      <4>. QED
        BY <4>1, <4>2, <4>3
    <3>. QED
      BY <3>1, <3>2
  <2>. QED
    BY <2>1, <2>2 DEF Complete, Unwind, Finish, SetExec, HoldsSlot, Ended, runVars
<1>2. exec'[t] = "done" /\ \A u \in Task \ {t} : Told(u)' = Told(u)
  BY <1>1 DEF TaskInv, Types, Told
<1>3. Reports(t) = 0 /\ Reports(t)' = 1
  BY <1>1, <1>2 DEF Reports, HoldsSlot
<1>. QED
  BY <1>1, <1>2, <1>3, ReportNotices

\* A pending task is cancelled: the first report.
LEMMA CancelPendingNotices ==
    ASSUME TaskInv, NoticeInv, NEW t \in Task, CancelPending(t), UNCHANGED <<stage, final>>
    PROVE  NoticeInv'
<1>1. /\ status' = [status EXCEPT ![t] = "cancelled"] /\ OnCompleted(t)
      /\ UNCHANGED <<exec, inner, flushes, notices>>
      /\ exec[t] = "queued" /\ status[t] = "pending"
  BY DEF CancelPending, TaskInv, TasksAreConsistent, TaskIsConsistent
<1>2. status'[t] = "cancelled" /\ \A u \in Task \ {t} : Told(u)' = Told(u)
  BY <1>1 DEF TaskInv, Types, Told
<1>3. Reports(t) = 0 /\ Reports(t)' = 1
  BY <1>1, <1>2 DEF Reports
<1>. QED
  BY <1>1, <1>2, <1>3, ReportNotices

\* It gets its slot: the second.
LEMMA AcquireCancelledNotices ==
    ASSUME TaskInv, NoticeInv, NEW t \in Task, AcquireCancelled(t)
    PROVE  NoticeInv'
<1>1. /\ exec' = [exec EXCEPT ![t] = "done"] /\ OnCompleted(t) /\ status[t] = "cancelled"
      /\ UNCHANGED <<status, inner, flushes, notices, final, stage>>
      /\ queue # <<>> /\ t = Head(queue) /\ queue' = Tail(queue)
  BY DEF AcquireCancelled, SetExec, runVars
<1>2. exec'[t] = "done" /\ \A u \in Task : u # t => exec'[u] = exec[u]
  BY <1>1 DEF TaskInv, Types
<1>3. exec[t] = "queued"
  BY <1>1, <1>2, QueueShrinks DEF TaskInv
<1>4. inner[t] = "none"
  BY <1>3 DEF TaskInv, TasksAreConsistent, TaskIsConsistent
<1>5. Reports(t) = 1 /\ Reports(t)' = 2
  BY <1>1, <1>2, <1>3, <1>4 DEF Reports
<1>6. \A u \in Task \ {t} : Told(u)' = Told(u)
  BY <1>1, <1>2 DEF Told
<1>. QED
  BY <1>1, <1>5, <1>6, ReportNotices

\* A step of one task that has not ended, and that does not end here.
LEMMA OngoingNotices ==
    ASSUME TaskInv, NoticeInv, NEW t \in Task, UNCHANGED <<flushes, notices, final, pending>>,
           stage' = "open" => stage = "open",
           \A u \in Task \ {t} : Told(u)' = Told(u),
           \/ Reports(t) = 0 /\ exec'[t] # "done"
           \/ /\ exec'[t] = exec[t] /\ inner'[t] = inner[t]
              /\ status'[t] = status[t] \/ status[t] \notin {"cancelled", "pending"}
    PROVE  NoticeInv'
<1>1. Reports(t) \in Nat /\ Reports(t)' \in Nat
  BY DEF Reports
<1>2. CASE Reports(t) = 0 /\ exec'[t] # "done"
  <2>1. Reports(t)' >= Reports(t)
    BY <1>1, <1>2
  <2>. QED
    BY <1>2, <2>1, SameReports, QuietNotices
<1>3. CASE exec'[t] = exec[t] /\ inner'[t] = inner[t] /\ status'[t] = status[t]
  <2>1. Told(t)' = Told(t)
    BY <1>3 DEF Told
  <2>. QED
    BY <2>1, SameReports, QuietNotices
<1>4. CASE exec'[t] = exec[t] /\ inner'[t] = inner[t] /\ status[t] \notin {"cancelled", "pending"}
  <2>1. exec[t] # "queued"
    BY <1>4 DEF TaskInv, TasksAreConsistent, TaskIsConsistent
  <2>2. Reports(t)' = Reports(t)
    BY <1>4, <2>1 DEF Reports
  <2>3. ~(exec[t] = "done" /\ inner[t] = "none")
    BY <1>4 DEF NoticeInv, NoticeOf
  <2>. QED
    BY <1>1, <1>4, <2>2, <2>3, SameReports, QuietNotices
<1>. QED
  BY <1>2, <1>3, <1>4

\* The steps of one task, apart from those that report its completion.
LEMMA TaskStepNotices ==
    ASSUME TaskInv, NoticeInv, NEW t \in Task,
           \/ Launch(t) \/ Acquire(t) \/ WaitEnds(t) \/ Coroutine(t) \/ TimeOut(t) \/ Abandon(t)
           \/ CancelRunning(t) /\ UNCHANGED <<stage, final>>
    PROVE  NoticeInv'
<1> USE DEF SetExec, SetInner, SetStatus, Told, Reports
<1>1. Types
  BY DEF TaskInv
<1>2. TaskIsConsistent(t)
  BY DEF TaskInv, TasksAreConsistent
<1>3. CASE Launch(t)
  <2>1. exec[t] = "none"
    BY <1>2, <1>3 DEF Launch, TaskIsConsistent
  <2>. QED
    BY <1>1, <1>3, <2>1, OngoingNotices DEF Launch, Types, batcherVars, runVars
<1>4. CASE Acquire(t)
  <2>1. \A u \in Task : u # t => exec'[u] = exec[u]
    BY <1>1, <1>4 DEF Acquire, Types
  <2>2. exec[t] = "queued"
    BY <1>1, <1>4, <2>1, QueueShrinks DEF Acquire, TaskInv
  <2>. QED
    BY <1>1, <1>4, <2>2, OngoingNotices DEF Acquire, Types, batcherVars, runVars
<1>5. CASE WaitEnds(t)
  BY <1>1, <1>5, OngoingNotices DEF WaitEnds, Types, batcherVars, runVars
<1>6. CASE Coroutine(t)
  <2>1. PICK how \in {"returned", "raised", "cancelled"} : InnerEnds(t, how)
    BY <1>6 DEF Coroutine
  <2>2. HoldsSlot(t)
    BY <1>2, <2>1 DEF InnerEnds, TaskIsConsistent, Live
  <2>. QED
    BY <1>1, <2>1, <2>2, OngoingNotices DEF InnerEnds, HoldsSlot, Types, batcherVars, runVars
<1>7. CASE TimeOut(t)
  BY <1>1, <1>7, OngoingNotices DEF TimeOut, Types, batcherVars, runVars
<1>8. CASE Abandon(t)
  <2>1. PICK s : CancelAbandoned(t, s)
    BY <1>8 DEF Abandon
  <2>2. status[t] \notin {"pending", "cancelled"} \/ status' = status
    BY <1>2, <2>1 DEF CancelAbandoned, TaskIsConsistent, Terminal
  <2>. QED
    BY <1>1, <2>1, <2>2, OngoingNotices DEF CancelAbandoned, Types, batcherVars, runVars
<1>9. CASE CancelRunning(t) /\ UNCHANGED <<stage, final>>
  <2>1. CASE exec[t] = "running"
    BY <1>1, <1>9, <2>1, OngoingNotices DEF CancelRunning, Types, batcherVars
  <2>2. CASE exec[t] # "running"
    BY <1>1, <1>9, <2>2, OngoingNotices DEF CancelRunning, Types, batcherVars
  <2>. QED
    BY <2>1, <2>2
<1>. QED
  BY <1>3, <1>4, <1>5, <1>6, <1>7, <1>8, <1>9

\* The steps that neither change a task nor the batcher.
LEMMA UntouchedNotices ==
    ASSUME NoticeInv, UNCHANGED <<exec, inner, status, flushes, notices, final, pending>>,
           stage' = "open" => stage = "open"
    PROVE  NoticeInv'
<1>1. \A u \in Task : Told(u)' = Told(u)
  BY DEF Told
<1>. QED
  BY <1>1, SameReports, QuietNotices

LEMMA NoticeNext == TaskInv /\ NoticeInv /\ [Next]_vars => NoticeInv'
<1> SUFFICES ASSUME TaskInv, NoticeInv, [Next]_vars PROVE NoticeInv'
  OBVIOUS
<1>1. ASSUME NEW t \in Task, Launch(t) \/ Cancel(t) PROVE NoticeInv'
  BY <1>1, TaskStepNotices, CancelPendingNotices DEF Cancel, runVars
<1>2. ASSUME NEW w \in Waiter, NEW t \in Awaited, Wait(w, t) PROVE NoticeInv'
  BY <1>2, UntouchedNotices DEF Wait, managerVars, batcherVars, runVars
<1>3. CASE BeginShutdown
  BY <1>3, BeginShutdownNotices
<1>4. ASSUME NEW t \in Task, Execute(t) PROVE NoticeInv'
  BY <1>4, TaskStepNotices, AcquireCancelledNotices, FinishNotices DEF Execute
<1>5. ASSUME NEW t \in Task, Coroutine(t) \/ TimeOut(t) PROVE NoticeInv'
  BY <1>5, TaskStepNotices
<1>6. ASSUME NEW t \in Task, Cleanup(t) PROVE NoticeInv'
  BY <1>6, UntouchedNotices DEF Cleanup, batcherVars, runVars
<1>7. ASSUME NEW t \in Task, CancelReturns(t) PROVE NoticeInv'
  BY <1>7, UntouchedNotices DEF CancelReturns, managerVars, batcherVars, runVars
<1>8. ASSUME NEW t \in Task, Abandon(t) PROVE NoticeInv'
  BY <1>8, TaskStepNotices
<1>9. ASSUME NEW w \in Waiter, WaitReturns(w) PROVE NoticeInv'
  BY <1>9, UntouchedNotices DEF WaitReturns, managerVars, batcherVars, runVars
<1>10. CASE Flush \/ Deliver
  BY <1>10, FlushNotices, DeliverNotices DEF Deliver
<1>11. CASE FinishFlushing
  BY <1>11, FinishFlushingNotices
<1>12. CASE AwaitTasks
  BY <1>12, UntouchedNotices DEF AwaitTasks, managerVars, batcherVars
<1>13. CASE FinishShutdown
  BY <1>13, UntouchedNotices DEF FinishShutdown, batcherVars
<1>14. ASSUME NEW t \in Task, ShutdownCancel(t) PROVE NoticeInv'
  <2>1. UNCHANGED <<stage, final>>
    BY <1>14 DEF ShutdownCancel
  <2>2. CancelPending(t) \/ CancelRunning(t) \/ UNCHANGED <<managerVars, callVars, batcherVars>>
    BY <1>14 DEF ShutdownCancel
  <2>3. CASE UNCHANGED <<managerVars, callVars, batcherVars>>
    BY <2>1, <2>3, UntouchedNotices DEF managerVars, batcherVars
  <2>. QED
    BY <2>1, <2>2, <2>3, CancelPendingNotices, TaskStepNotices
<1>15. ASSUME NEW t \in Task, ShutdownAborts(t) PROVE NoticeInv'
  BY <1>15, UntouchedNotices DEF ShutdownAborts, managerVars, batcherVars
<1>16. CASE UNCHANGED vars
  BY <1>16, UntouchedNotices DEF vars, managerVars, batcherVars, runVars
<1>. QED
  BY <1>1, <1>2, <1>3, <1>4, <1>5, <1>6, <1>7, <1>8, <1>9, <1>10, <1>11, <1>12, <1>13, <1>14,
     <1>15, <1>16
     DEF Next, Tool, Shutdown

\* The parent is notified of a task once, and of a task that was cancelled before it had
\* a slot at most twice: however completions, flushes that overlap, deliveries and the
\* shutdown interleave, the batcher makes no more notices than it was given reports.
THEOREM NotifiedAtMostOnce == Spec => []NotifiedOnce
<1>1. NoticeInv => NotifiedOnce
  <2> SUFFICES ASSUME NoticeInv, NEW t \in Task
               PROVE  notices[t] <= IF status[t] = "cancelled" /\ inner[t] = "none" THEN 2 ELSE 1
    BY DEF NotifiedOnce
  <2>1. /\ notices[t] \in Nat /\ IsFiniteSet(InFlight(t)) /\ Copies(t) <= Reports(t)
        /\ exec[t] = "done" /\ inner[t] = "none" => status[t] = "cancelled"
    BY DEF NoticeInv, NoticeOf
  <2>2. Cardinality(InFlight(t)) \in Nat
    BY <2>1, FS_CardinalityType
  <2>3. One(t \in pending) \in Nat /\ One(t \in final) \in Nat
    BY DEF One
  <2>4. Reports(t) \in Nat
    BY DEF Reports
  <2>5. notices[t] <= Reports(t)
    BY <2>1, <2>2, <2>3, <2>4 DEF Copies
  <2>. QED
    BY <2>1, <2>5 DEF Reports
<1>. QED
  BY <1>1, Invariance, NoticeInit, NoticeNext, PTL DEF Spec
=============================================================================
