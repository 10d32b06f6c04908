-------------------------- MODULE BackgroundTasks --------------------------
(***************************************************************************)
(* The background tasks of one run (BackgroundTaskManager and              *)
(* NotificationBatcher): tasks share a semaphore, end by themselves, by a  *)
(* timeout or by cancellation, and tell the parent either through a        *)
(* background_output call that waits or through a batched notification.    *)
(*                                                                         *)
(* A task is two asyncio tasks: _execute_task, which holds the slot and    *)
(* writes the status, and the coroutine it runs.  Callers of cancel_task   *)
(* write the status too, and stop waiting after a time limit.              *)
(***************************************************************************)
EXTENDS Naturals, Sequences, FiniteSets, SequencesExt

CONSTANTS Task,                  \* tasks that may be launched
          Waiter,                \* background_output(block=True) calls at one time
          None,
          max_concurrent_tasks,
          Expiring,              \* tasks whose retention period may end (bound)
          Awaited                \* tasks that background_output waits for (bound)

ASSUME ConcurrencyAssumption == max_concurrent_tasks \in Nat \ {0}
ASSUME BoundsAssumption == Expiring \subseteq Task /\ Awaited \subseteq Task
ASSUME NoneAssumption == None \notin Task \cup Waiter

VARIABLES
    \* BackgroundTaskManager.
    tasks,          \* ids in _tasks and _handles
    status,         \* BackgroundTask.status, "none" before registration
    exec,           \* where _execute_task is
    inner,          \* the coroutine: where it is, or how it ended
    free,           \* the semaphore's counter
    queue,          \* tasks waiting for the semaphore, in order
    completion_event,  \* tasks whose event is set; their cleanup is scheduled with it
    calls,          \* tasks that a cancel_task call waits for
    blocking_waiter,  \* blocking_waiter_id of each handle
    waiting,        \* the task each background_output call waits for
    \* NotificationBatcher.
    pending,        \* _pending of the parent session
    timer,          \* the debounce timer runs
    flushes,        \* batches popped by _flush and being delivered
    delivered,      \* _delivered
    \* The end of the run.
    stage,          \* where after_run is
    left,           \* tasks shutdown has not visited
    final,          \* the batch that shutdown delivers
    \* What the parent learns (history).
    told,           \* tasks whose result a background_output call returned
    notices         \* deliveries of each task

managerVars == <<tasks, status, exec, inner, free, queue, completion_event>>
callVars == <<calls, blocking_waiter, waiting, told>>
batcherVars == <<pending, timer, flushes, delivered, notices>>
runVars == <<stage, left, final>>
vars == <<managerVars, callVars, batcherVars, runVars>>

Terminal == {"completed", "error", "cancelled", "timed_out"}
Statuses == Terminal \cup {"none", "pending", "running", "cancelling"}

\* "running" awaits the coroutine or the timeout, "reaping" the cancelled timeout,
\* "unwinding" the coroutine after a cancellation, "timing_out" after a timeout.
ExecStates == {"none", "queued", "running", "reaping", "unwinding", "timing_out", "done"}
InnerStates == {"none", "running", "stopping", "returned", "raised", "cancelled"}
Stages == {"open", "flushing", "cancelling", "awaiting", "closed", "aborted"}

TypeOK ==
    /\ tasks \subseteq Task
    /\ status \in [Task -> Statuses]
    /\ exec \in [Task -> ExecStates]
    /\ inner \in [Task -> InnerStates]
    /\ free \in 0..max_concurrent_tasks
    /\ queue \in Seq(Task)
    /\ completion_event \subseteq Task
    /\ calls \subseteq Task
    /\ blocking_waiter \in [Task -> Waiter \cup {None}]
    /\ waiting \in [Waiter -> Task \cup {None}]
    /\ pending \subseteq Task
    /\ timer \in BOOLEAN
    /\ flushes \subseteq SUBSET Task
    /\ delivered \subseteq Task
    /\ stage \in Stages
    /\ left \subseteq Task
    /\ final \subseteq Task
    /\ told \subseteq Task
    /\ notices \in [Task -> Nat]

Init ==
    /\ tasks = {} /\ queue = <<>> /\ free = max_concurrent_tasks
    /\ status = [t \in Task |-> "none"]
    /\ exec = [t \in Task |-> "none"]
    /\ inner = [t \in Task |-> "none"]
    /\ completion_event = {} /\ calls = {} /\ told = {}
    /\ blocking_waiter = [t \in Task |-> None]
    /\ waiting = [w \in Waiter |-> None]
    /\ pending = {} /\ timer = FALSE /\ flushes = {} /\ delivered = {}
    /\ notices = [t \in Task |-> 0]
    /\ stage = "open" /\ left = {} /\ final = {}

-----------------------------------------------------------------------------
(***************************************************************************)
(* Launching, running and ending a task.                                   *)
(***************************************************************************)
\* batcher.submit: neither delivered nor pending tasks are taken again; the timer
\* starts anew.
Submit(t) ==
    IF t \in delivered \cup pending THEN UNCHANGED <<pending, timer>>
    ELSE pending' = pending \cup {t} /\ timer' = TRUE

\* _on_task_completed: a blocking waiter makes the notification unnecessary.
OnCompleted(t) ==
    IF blocking_waiter[t] # None \/ t \notin tasks THEN UNCHANGED <<pending, timer>>
    ELSE Submit(t)

\* Mutant: a terminal status is overwritten.
WrongSetStatus(t, s) == status' = [status EXCEPT ![t] = s]

\* A status is written only over one that is not terminal.
SetStatus(t, s) ==
    status' = [status EXCEPT ![t] = IF @ \in Terminal THEN @ ELSE s]

SetExec(t, e) == exec' = [exec EXCEPT ![t] = e]
SetInner(t, i) == inner' = [inner EXCEPT ![t] = i]

\* register_task and start_task.
Launch(t) ==
    /\ stage = "open"
    /\ status[t] = "none"
    /\ status' = [status EXCEPT ![t] = "pending"]
    /\ tasks' = tasks \cup {t}
    /\ SetExec(t, "queued")
    /\ queue' = Append(queue, t)
    /\ UNCHANGED <<inner, free, completion_event, callVars, batcherVars, runVars>>

\* _execute_task ends: the slot is released, then the parent is told, then the
\* waiters are woken.
Finish(t) ==
    /\ SetExec(t, "done")
    /\ free' = free + 1
    /\ OnCompleted(t)
    /\ completion_event' = completion_event \cup {t}
    /\ UNCHANGED <<tasks, queue, callVars, flushes, delivered, notices, runVars>>

\* The semaphore is acquired.
Acquire(t) ==
    /\ queue # <<>> /\ t = Head(queue)
    /\ free > 0
    /\ status[t] # "cancelled"
    /\ free' = free - 1
    /\ queue' = Tail(queue)
    /\ status' = [status EXCEPT ![t] = "running"]
    /\ SetExec(t, "running")
    /\ SetInner(t, "running")
    /\ UNCHANGED <<tasks, completion_event, callVars, batcherVars, runVars>>

\* Mutant: a slot that was not taken is released.
WrongRelease(t) ==
    /\ queue # <<>> /\ t = Head(queue)
    /\ status[t] = "cancelled"
    /\ free' = free + 1
    /\ queue' = Tail(queue)
    /\ SetExec(t, "done")
    /\ OnCompleted(t)
    /\ completion_event' = completion_event \cup {t}
    /\ UNCHANGED <<tasks, status, inner, callVars, flushes, delivered, notices, runVars>>

\* It was cancelled meanwhile: the slot is taken and released, and the completion
\* is reported a second time.
AcquireCancelled(t) ==
    /\ queue # <<>> /\ t = Head(queue)
    /\ free > 0
    /\ status[t] = "cancelled"
    /\ queue' = Tail(queue)
    /\ SetExec(t, "done")
    /\ OnCompleted(t)
    /\ completion_event' = completion_event \cup {t}
    /\ UNCHANGED <<tasks, status, inner, free, callVars, flushes, delivered, notices,
                   runVars>>

\* The coroutine ends (external: the child session's run).  A cancelled one may
\* still return or raise.
InnerEnds(t, how) ==
    /\ inner[t] \in {"running", "stopping"}
    /\ SetInner(t, how)
    /\ UNCHANGED <<tasks, status, exec, free, queue, completion_event, callVars,
                   batcherVars, runVars>>

Ended(t) == inner[t] \in {"returned", "raised", "cancelled"}

\* asyncio.wait returns; the timeout is cancelled and awaited.
WaitEnds(t) ==
    /\ exec[t] = "running" /\ Ended(t)
    /\ SetExec(t, "reaping")
    /\ UNCHANGED <<tasks, status, inner, free, queue, completion_event, callVars,
                   batcherVars, runVars>>

\* Mutant: the coroutine is not cancelled.
WrongTimeOut(t) ==
    /\ exec[t] = "running" /\ inner[t] = "running"
    /\ SetStatus(t, "timed_out")
    /\ SetExec(t, "timing_out")
    /\ UNCHANGED <<tasks, inner, free, queue, completion_event, callVars, batcherVars, runVars>>

\* The timeout comes first: the status is written before the coroutine is cancelled.
TimeOut(t) ==
    /\ exec[t] = "running" /\ inner[t] = "running"
    /\ SetStatus(t, "timed_out")
    /\ SetExec(t, "timing_out")
    /\ SetInner(t, "stopping")
    /\ UNCHANGED <<tasks, free, queue, completion_event, callVars, batcherVars, runVars>>

\* Mutant: only the listed exceptions are caught.
WrongComplete(t) ==
    /\ exec[t] = "reaping"
    /\ CASE inner[t] = "raised" -> UNCHANGED status
         [] inner[t] = "cancelled" -> SetStatus(t, "cancelled")
         [] OTHER -> status' = [status EXCEPT ![t] =
                                  IF @ \in Terminal \cup {"cancelling"} THEN @ ELSE "completed"]
    /\ Finish(t)
    /\ UNCHANGED inner

\* The coroutine's result decides, but a result does not end a task that is being
\* cancelled.
Complete(t) ==
    /\ exec[t] = "reaping"
    /\ CASE inner[t] = "raised" -> SetStatus(t, "error")
         [] inner[t] = "cancelled" -> SetStatus(t, "cancelled")
         [] OTHER -> status' = [status EXCEPT ![t] =
                                  IF @ \in Terminal \cup {"cancelling"} THEN @ ELSE "completed"]
    /\ Finish(t)
    /\ UNCHANGED inner

\* Mutant: the coroutine is not awaited.
WrongUnwind(t) ==
    /\ exec[t] \in {"unwinding", "timing_out"}
    /\ SetStatus(t, IF inner[t] = "raised" THEN "error" ELSE "cancelled")
    /\ Finish(t)
    /\ UNCHANGED inner

\* A cancelled or timed out task ends when its coroutine has.
Unwind(t) ==
    /\ exec[t] \in {"unwinding", "timing_out"} /\ Ended(t)
    /\ SetStatus(t, IF inner[t] = "raised" THEN "error" ELSE "cancelled")
    /\ Finish(t)
    /\ UNCHANGED inner

\* A coroutine that was told to end does so within the retention period (an hour
\* by default); a task cancelled while pending may still be in the queue.
Live(t) == inner[t] \in {"running", "stopping"}

\* The retention period of a task with an outcome is over.
Cleanup(t) ==
    /\ t \in Expiring /\ t \in completion_event /\ t \in tasks
    /\ ~Live(t)
    /\ stage # "closed"
    /\ tasks' = tasks \ {t}
    /\ UNCHANGED <<status, exec, inner, free, queue, completion_event, callVars,
                   batcherVars, runVars>>

-----------------------------------------------------------------------------
(***************************************************************************)
(* cancel_task.                                                            *)
(***************************************************************************)
\* A pending task only changes its status; it stays in the semaphore's queue.
CancelPending(t) ==
    /\ t \in tasks /\ status[t] = "pending"
    /\ status' = [status EXCEPT ![t] = "cancelled"]
    /\ OnCompleted(t)
    /\ completion_event' = completion_event \cup {t}
    /\ UNCHANGED <<tasks, exec, inner, free, queue, callVars, flushes, delivered, notices>>

\* Otherwise the task is cancelled and awaited.  While it awaits the cancelled
\* timeout the cancellation is swallowed.
CancelRunning(t) ==
    /\ t \in tasks /\ status[t] \in {"running", "cancelling"}
    /\ status' = [status EXCEPT ![t] = "cancelling"]
    /\ IF exec[t] = "running"
       THEN /\ SetExec(t, "unwinding")
            /\ SetInner(t, IF Ended(t) THEN inner[t] ELSE "stopping")
       ELSE UNCHANGED <<exec, inner>>
    /\ calls' = calls \cup {t}
    /\ UNCHANGED <<tasks, free, queue, completion_event, blocking_waiter, waiting, told,
                   batcherVars>>

\* A tool call.
Cancel(t) ==
    /\ stage = "open"
    /\ CancelPending(t) \/ CancelRunning(t)
    /\ UNCHANGED runVars

CancelReturns(t) ==
    /\ t \in calls /\ exec[t] = "done"
    /\ calls' = calls \ {t}
    /\ UNCHANGED <<managerVars, blocking_waiter, waiting, told, batcherVars, runVars>>

\* Mutant: the completion is reported here too.
WrongCancelAbandoned(t, s) ==
    /\ t \in calls /\ exec[t] # "done"
    /\ calls' = calls \ {t}
    /\ IF status[t] \in Terminal THEN UNCHANGED <<status, completion_event, pending, timer>>
       ELSE /\ status' = [status EXCEPT ![t] = s]
            /\ OnCompleted(t)
            /\ completion_event' = completion_event \cup {t}
    /\ UNCHANGED <<tasks, exec, inner, free, queue, blocking_waiter, waiting, told, flushes,
                   delivered, notices, runVars>>

\* The time limit is over ("error"), or the caller is cancelled: the status is
\* written although the task goes on.
CancelAbandoned(t, s) ==
    /\ t \in calls /\ exec[t] # "done"
    /\ calls' = calls \ {t}
    /\ IF status[t] \in Terminal THEN UNCHANGED <<status, completion_event>>
       ELSE /\ status' = [status EXCEPT ![t] = s]
            /\ completion_event' = completion_event \cup {t}
    /\ UNCHANGED <<tasks, exec, inner, free, queue, blocking_waiter, waiting, told, batcherVars,
                   runVars>>

-----------------------------------------------------------------------------
(***************************************************************************)
(* background_output(block=True).                                          *)
(***************************************************************************)
\* A newer waiter takes the place of an older one.
Wait(w, t) ==
    /\ stage = "open"
    /\ waiting[w] = None
    /\ t \in tasks /\ status[t] \notin Terminal
    /\ waiting' = [waiting EXCEPT ![w] = t]
    /\ blocking_waiter' = [blocking_waiter EXCEPT ![t] = w]
    /\ UNCHANGED <<managerVars, calls, told, batcherVars, runVars>>

\* Mutant: the waiter stays registered.
WrongWaitReturns(w) ==
    /\ waiting[w] # None
    /\ LET t == waiting[w] IN
         told' = IF t \in tasks /\ status[t] \in Terminal THEN told \cup {t} ELSE told
    /\ waiting' = [waiting EXCEPT ![w] = None]
    /\ UNCHANGED <<managerVars, calls, blocking_waiter, batcherVars, runVars>>

\* The event is set, the time is over or the call is cancelled: it returns what the
\* status says now.
WaitReturns(w) ==
    /\ waiting[w] # None
    /\ LET t == waiting[w] IN
         /\ told' = IF t \in tasks /\ status[t] \in Terminal THEN told \cup {t} ELSE told
         /\ blocking_waiter' = [blocking_waiter EXCEPT ![t] = IF @ = w THEN None ELSE @]
    /\ waiting' = [waiting EXCEPT ![w] = None]
    /\ UNCHANGED <<managerVars, calls, batcherVars, runVars>>

-----------------------------------------------------------------------------
(***************************************************************************)
(* The batcher.                                                            *)
(***************************************************************************)
\* The debounce time is over: _flush pops what is pending.
Flush ==
    /\ timer
    /\ timer' = FALSE
    /\ flushes' = IF pending = {} THEN flushes ELSE flushes \cup {pending}
    /\ pending' = {}
    /\ UNCHANGED <<managerVars, callVars, delivered, notices, runVars>>

Active == {t \in tasks : status[t] \notin Terminal}

\* A batch was handed to the deliver callback, whatever came of it.
Delivered(batch) ==
    /\ notices' = [t \in Task |-> IF t \in batch THEN notices[t] + 1 ELSE notices[t]]
    /\ delivered' = IF Active = {} THEN {} ELSE delivered \cup batch

FlushEnds(batch) ==
    /\ flushes' = flushes \ {batch}
    /\ Delivered(batch)
    /\ UNCHANGED <<managerVars, callVars, pending, timer, runVars>>

-----------------------------------------------------------------------------
(***************************************************************************)
(* after_run: the batcher is shut down, then the manager.                  *)
(***************************************************************************)
\* The run has ended, its tool calls have returned.
BeginShutdown ==
    /\ stage = "open"
    /\ calls = {} /\ \A w \in Waiter : waiting[w] = None
    /\ stage' = "flushing"
    /\ timer' = FALSE
    /\ final' = pending
    /\ pending' = {}
    /\ UNCHANGED <<managerVars, callVars, flushes, delivered, notices, left>>

\* What was pending is delivered; deliveries that still run are cancelled.
FinishFlushing ==
    /\ stage = "flushing"
    /\ Delivered(final)
    /\ final' = {}
    /\ flushes' = {}
    /\ stage' = "cancelling"
    /\ left' = tasks
    /\ UNCHANGED <<managerVars, callVars, pending, timer>>

\* The manager cancels one task after the other.
ShutdownCancel(t) ==
    /\ stage = "cancelling" /\ calls = {}
    /\ t \in left
    /\ left' = left \ {t}
    /\ \/ CancelPending(t)
       \/ CancelRunning(t)
       \/ t \in tasks /\ status[t] \in Terminal /\ UNCHANGED <<managerVars, callVars, batcherVars>>
    /\ UNCHANGED <<stage, final>>

\* A task that was cleaned up meanwhile raises KeyError, which after_run suppresses.
ShutdownAborts(t) ==
    /\ stage = "cancelling" /\ calls = {}
    /\ t \in left \ tasks
    /\ stage' = "aborted"
    /\ left' = {}
    /\ UNCHANGED <<managerVars, callVars, batcherVars, final>>

AwaitTasks ==
    /\ stage = "cancelling" /\ calls = {} /\ left = {}
    /\ stage' = "awaiting"
    /\ UNCHANGED <<managerVars, callVars, batcherVars, left, final>>

\* All handles have ended: the registries are cleared.
FinishShutdown ==
    /\ stage = "awaiting"
    /\ \A t \in tasks : exec[t] = "done"
    /\ stage' = "closed"
    /\ tasks' = {}
    /\ UNCHANGED <<status, exec, inner, free, queue, completion_event, callVars,
                   batcherVars, left, final>>

-----------------------------------------------------------------------------
Execute(t) == Acquire(t) \/ AcquireCancelled(t) \/ WaitEnds(t) \/ Complete(t) \/ Unwind(t)

Coroutine(t) == \E how \in {"returned", "raised", "cancelled"} : InnerEnds(t, how)

Abandon(t) == CancelAbandoned(t, "error") \/ CancelAbandoned(t, "cancelled")

Tool == (\E t \in Task : Launch(t) \/ Cancel(t)) \/ \E w \in Waiter, t \in Awaited : Wait(w, t)

Deliver == \E batch \in flushes : FlushEnds(batch)

Shutdown ==
    \/ FinishFlushing \/ AwaitTasks \/ FinishShutdown
    \/ \E t \in Task : ShutdownCancel(t) \/ ShutdownAborts(t)

Next ==
    \/ Tool \/ BeginShutdown
    \/ \E t \in Task : Execute(t) \/ Coroutine(t) \/ TimeOut(t) \/ Cleanup(t)
                       \/ CancelReturns(t) \/ Abandon(t)
    \/ \E w \in Waiter : WaitReturns(w)
    \/ Flush \/ Deliver \/ Shutdown

Spec == Init /\ [][Next]_vars

\* The event loop runs what can run, timers fire, a delivery and a blocking wait end
\* (both have a time limit), and a coroutine that was cancelled ends.
Fairness ==
    /\ \A t \in Task :
         /\ WF_vars(Execute(t))
         /\ WF_vars(inner[t] = "stopping" /\ Coroutine(t))
         /\ WF_vars(TimeOut(t))
         /\ WF_vars(CancelReturns(t))
    /\ \A w \in Waiter : WF_vars(WaitReturns(w))
    /\ WF_vars(Flush) /\ WF_vars(Deliver) /\ WF_vars(Shutdown)

FairSpec == Spec /\ Fairness

-----------------------------------------------------------------------------
(***************************************************************************)
(* Properties.                                                             *)
(***************************************************************************)
\* At most max_concurrent_tasks coroutines run at a time, also those that take their
\* time to end after a timeout, a cancellation or an abandoned cancellation; and no
\* slot is lost or made up, on whatever path a task ends.  When the manager is shut
\* down no coroutine runs, also none whose outcome was written early.
HoldsSlot(t) == exec[t] \notin {"none", "queued", "done"}

SlotsRespected ==
    /\ Cardinality({t \in Task : Live(t)}) <= max_concurrent_tasks
    /\ free + Cardinality({t \in Task : HoldsSlot(t)}) = max_concurrent_tasks
    /\ stage = "closed" => \A t \in Task : ~Live(t)

\* The outcome of a task is written once, although _execute_task, its timeout and the
\* callers of cancel_task all write it ("Terminal-state tasks are not modified").
OutcomeIsFinal == [][\A t \in Task : status[t] \in Terminal => status'[t] = status[t]]_vars

\* A task that has ended, and one whose waiters were woken, has an outcome.  The
\* exception is a task that was cancelled after its coroutine had returned.
EndedTasksHaveOutcome ==
    \A t \in Task : (exec[t] = "done" \/ t \in completion_event) =>
        \/ status[t] \in Terminal
        \/ status[t] = "cancelling" /\ exec[t] = "done" /\ inner[t] = "returned"

\* The parent is notified of a task once ("no lost or double notifications").  Only a
\* task that was cancelled before it had a slot completes, and is reported, twice.
NotifiedOnce ==
    \A t \in Task :
        notices[t] <= IF status[t] = "cancelled" /\ inner[t] = "none" THEN 2 ELSE 1

\* A launched task ends, whatever its coroutine does before it is cancelled: the
\* timeout frees its slot and every task behind it gets its turn.
TasksEnd == \A t \in Task : exec[t] = "queued" ~> exec[t] = "done"

\* No outcome is lost between the waiters and the batcher: while the run lasts and the
\* task is kept, the parent gets it from background_output or in a notification.
OutcomesReachParent ==
    \A t \in Task :
        (stage = "open" /\ t \in tasks /\ exec[t] = "done" /\ status[t] \in Terminal)
            ~> (t \in told \/ notices[t] > 0 \/ t \notin tasks \/ stage # "open")

\* after_run ends once it has begun to flush, whatever the tasks do: it waits for a
\* flush, for cancel_task of every task and for every handle.
ShutdownEnds == stage = "flushing" ~> stage \in {"closed", "aborted"}
=============================================================================
