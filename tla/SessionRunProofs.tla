--------------------------- MODULE SessionRunProofs ---------------------------
(***************************************************************************)
(* Proofs about SessionRun for every set of messages and every selection   *)
(* of entry points and faults.                                             *)
(***************************************************************************)
EXTENDS SessionRun, SequenceTheorems, TLAPS

-----------------------------------------------------------------------------
(***************************************************************************)
(* Leaving an asyncio.Lock's queue, or taking a message out of a queue.    *)
(***************************************************************************)

\* Without leaves out one occurrence of x, at a position k.
LEMMA WithoutElements ==
    ASSUME NEW S, NEW q \in Seq(S), NEW x, Contains(q, x)
    PROVE  /\ Without(q, x) \in Seq(S)
           /\ Len(Without(q, x)) = Len(q) - 1
           /\ \E k \in 1..Len(q) :
                 /\ q[k] = x
                 /\ \A i \in 1..(Len(q) - 1) :
                       Without(q, x)[i] = IF i <= k - 1 THEN q[i] ELSE q[i + 1]
<1> DEFINE k == CHOOSE i \in 1..Len(q) : q[i] = x
           a == SubSeq(q, 1, k - 1)
           b == SubSeq(q, k + 1, Len(q))
<1>1. k \in 1..Len(q) /\ q[k] = x
  BY DEF Contains
<1>2. Len(q) \in Nat /\ \A i \in 1..Len(q) : q[i] \in S
  OBVIOUS
<1>3. /\ a \in Seq(S)
      /\ Len(a) = k - 1
      /\ \A i \in 1..(k - 1) : a[i] = q[i]
  <2>1. \A i \in 1..(k - 1) : q[i] \in S
    BY <1>1, <1>2
  <2>2. Len(a) = (IF 1 <= k - 1 THEN (k - 1) - 1 + 1 ELSE 0)
    BY <1>1, <1>2, <2>1, SubSeqProperties, 1 \in Int, k - 1 \in Int
  <2>. QED
    BY <1>1, <1>2, <2>1, <2>2, SubSeqProperties
<1>4. /\ b \in Seq(S)
      /\ Len(b) = Len(q) - k
      /\ \A i \in 1..(Len(q) - k) : b[i] = q[k + i]
  <2>1. \A i \in (k + 1)..Len(q) : q[i] \in S
    BY <1>1, <1>2
  <2>. QED
    BY <1>1, <1>2, <2>1, SubSeqProperties
<1>5. Without(q, x) = a \o b
  BY DEF Without, RemoveAt
<1>6. /\ a \o b \in Seq(S)
      /\ Len(a \o b) = Len(q) - 1
      /\ \A i \in 1..(Len(q) - 1) : (a \o b)[i] = IF i <= k - 1 THEN a[i] ELSE b[i - (k - 1)]
  <2> HIDE DEF a, b, k
  <2>1. /\ a \o b \in Seq(S)
        /\ Len(a \o b) = Len(a) + Len(b)
        /\ \A i \in 1..(Len(a) + Len(b)) : (a \o b)[i] = IF i <= Len(a) THEN a[i] ELSE b[i - Len(a)]
    BY <1>3, <1>4, ConcatProperties
  <2>2. Len(a) + Len(b) = Len(q) - 1
    BY <1>1, <1>2, <1>3, <1>4
  <2>. QED
    BY <1>3, <2>1, <2>2
<1> HIDE DEF a, b, k
<1>7. \A i \in 1..(Len(q) - 1) : (a \o b)[i] = IF i <= k - 1 THEN q[i] ELSE q[i + 1]
  <2> SUFFICES ASSUME NEW i \in 1..(Len(q) - 1)
               PROVE  (a \o b)[i] = IF i <= k - 1 THEN q[i] ELSE q[i + 1]
    OBVIOUS
  <2>1. CASE i <= k - 1
    BY <1>1, <1>2, <1>3, <1>6, <2>1
  <2>2. CASE ~(i <= k - 1)
    <3>1. i - (k - 1) \in 1..(Len(q) - k) /\ k + (i - (k - 1)) = i + 1
      BY <1>1, <1>2, <2>2
    <3>2. b[i - (k - 1)] = q[i + 1]
      BY <1>4, <3>1
    <3>. QED
      BY <1>6, <2>2, <3>2
  <2>. QED
    BY <2>1, <2>2
<1>. QED
  BY <1>1, <1>5, <1>6, <1>7

\* Removing x from a queue gives a queue of the same elements, and one that
\* is not at the head leaves the head, the holder of the lock, in place.
LEMMA WithoutProperties ==
    ASSUME NEW S, NEW q \in Seq(S), NEW x
    PROVE  /\ Without(q, x) \in Seq(S)
           /\ \A i \in 1..Len(Without(q, x)) : \E j \in 1..Len(q) : Without(q, x)[i] = q[j]
           /\ q # <<>> /\ Head(q) # x => Without(q, x) # <<>> /\ Head(Without(q, x)) = Head(q)
<1>1. CASE ~Contains(q, x)
  BY <1>1 DEF Without
<1>2. CASE Contains(q, x)
  <2>1. PICK k \in 1..Len(q) :
            /\ q[k] = x
            /\ \A i \in 1..(Len(q) - 1) :
                  Without(q, x)[i] = IF i <= k - 1 THEN q[i] ELSE q[i + 1]
    BY <1>2, WithoutElements
  <2>2. /\ Without(q, x) \in Seq(S) /\ Len(Without(q, x)) = Len(q) - 1
        /\ Len(q) \in Nat
    BY <1>2, WithoutElements
  <2>3. \A i \in 1..Len(Without(q, x)) : \E j \in 1..Len(q) : Without(q, x)[i] = q[j]
    <3> SUFFICES ASSUME NEW i \in 1..(Len(q) - 1)
                 PROVE  \E j \in 1..Len(q) : Without(q, x)[i] = q[j]
      BY <2>2
    <3>1. i \in 1..Len(q) /\ i + 1 \in 1..Len(q)
      BY <2>2
    <3>2. Without(q, x)[i] = q[i] \/ Without(q, x)[i] = q[i + 1]
      BY <2>1
    <3>. QED
      BY <3>1, <3>2
  <2>4. ASSUME q # <<>>, Head(q) # x
        PROVE  Without(q, x) # <<>> /\ Head(Without(q, x)) = Head(q)
    <3>1. Head(q) = q[1]
      BY <2>4
    <3>2. k # 1 /\ Len(q) > 1 /\ 1 <= k - 1
      BY <2>1, <2>2, <2>4, <3>1
    <3>3. Without(q, x)[1] = q[1] /\ Len(Without(q, x)) # 0
      BY <2>1, <2>2, <3>2
    <3>. QED
      BY <2>2, <3>1, <3>3
  <2>. QED
    BY <2>2, <2>3, <2>4
<1>. QED
  BY <1>1, <1>2

-----------------------------------------------------------------------------
(***************************************************************************)
(* Type correctness.                                                       *)
(***************************************************************************)

\* The initial state is well typed.
LEMMA TypeInit == Init => TypeOK
<1> SUFFICES ASSUME Init PROVE TypeOK
  OBVIOUS
<1>1. "unsent" \in CallState /\ "none" \in Phase
  BY DEF CallState, Phase
<1>2. /\ pc \in [Msg -> CallState]
      /\ phase \in [Msg -> Phase]
      /\ task \in [Msg -> Msg \cup {None}]
      /\ queued_steer \in [Msg -> Seq(Msg)]
  BY <1>1 DEF Init
<1>3. /\ current_run_id \in Msg \cup {None}
      /\ is_closing \in BOOLEAN /\ retried \in BOOLEAN
  BY DEF Init
<1>4. /\ runs \subseteq Msg /\ complete \subseteq Msg
      /\ interrupted \subseteq Msg /\ delivered \subseteq Msg
  BY DEF Init
<1>5. prompt_queue \in Seq(Msg) /\ feedback_queue \in Seq(Msg) /\ turn_lock \in Seq(Msg)
  BY DEF Init
<1>. QED
  BY <1>2, <1>3, <1>4, <1>5 DEF Init, TypeOK

\* Every queue operation of the actions stays within the type of its queue.
LEMMA QueueTypes ==
    ASSUME TypeOK
    PROVE  /\ \A m \in Msg : /\ Append(prompt_queue, m) \in Seq(Msg)
                             /\ Append(feedback_queue, m) \in Seq(Msg)
                             /\ Append(turn_lock, m) \in Seq(Msg)
                             /\ Without(turn_lock, m) \in Seq(Msg)
                             /\ Without(feedback_queue, m) \in Seq(Msg)
                             /\ ToSet(queued_steer[m]) \subseteq Msg
           /\ \A r, n \in Msg : Append(Without(turn_lock, r), n) \in Seq(Msg)
           /\ prompt_queue # <<>> => Head(prompt_queue) \in Msg /\ Tail(prompt_queue) \in Seq(Msg)
           /\ <<>> \in Seq(Msg)
<1>1. ASSUME NEW m \in Msg
      PROVE  /\ Append(prompt_queue, m) \in Seq(Msg)
             /\ Append(feedback_queue, m) \in Seq(Msg)
             /\ Append(turn_lock, m) \in Seq(Msg)
             /\ Without(turn_lock, m) \in Seq(Msg)
             /\ Without(feedback_queue, m) \in Seq(Msg)
             /\ ToSet(queued_steer[m]) \subseteq Msg
  <2>1. /\ Append(prompt_queue, m) \in Seq(Msg)
        /\ Append(feedback_queue, m) \in Seq(Msg)
        /\ Append(turn_lock, m) \in Seq(Msg)
    BY AppendProperties DEF TypeOK
  <2>2. Without(turn_lock, m) \in Seq(Msg)
    BY WithoutProperties DEF TypeOK
  <2>3. Without(feedback_queue, m) \in Seq(Msg)
    BY WithoutProperties DEF TypeOK
  <2>4. queued_steer[m] \in Seq(Msg)
    BY DEF TypeOK
  <2>5. ToSet(queued_steer[m]) \subseteq Msg
    BY <2>4 DEF ToSet
  <2>. QED
    BY <2>1, <2>2, <2>3, <2>5
<1>2. ASSUME NEW r \in Msg, NEW n \in Msg PROVE Append(Without(turn_lock, r), n) \in Seq(Msg)
  BY <1>1, AppendProperties
<1>3. prompt_queue # <<>> => Head(prompt_queue) \in Msg /\ Tail(prompt_queue) \in Seq(Msg)
  BY HeadTailProperties DEF TypeOK
<1>. QED
  BY <1>1, <1>2, <1>3

\* No step leaves the types.
LEMMA TypeNext == TypeOK /\ [Next]_vars => TypeOK'
<1> SUFFICES ASSUME TypeOK, [Next]_vars PROVE TypeOK'
  OBVIOUS
<1> USE QueueTypes DEF TypeOK, CallState, Waiting, Resolving, Settled, Phase, WaitPhases, TurnPhases,
        EndPhases, handleVars, sessionVars, closeVars
<1>1. ASSUME NEW m \in Msg, Call(m) PROVE TypeOK'
  <2>1. CASE SendMessage(m)
    BY <2>1 DEF SendMessage, Settle
  <2>2. CASE InjectPrompt(m)
    BY <2>2 DEF InjectPrompt, SteerRegistered, Settle, Steer
  <2>3. CASE BackgroundSteer(m)
    BY <2>3 DEF BackgroundSteer, Settle, Steer
  <2>4. CASE Followup(m)
    <3>1. pc' \in [Msg -> CallState]
      BY <2>4 DEF Followup, Settle
    <3>2. prompt_queue' = prompt_queue \/ prompt_queue' = Append(prompt_queue, m)
      BY <2>4 DEF Followup
    <3>3. prompt_queue' \in Seq(Msg)
      BY <3>2
    <3>4. delivered' \subseteq Msg
      BY <2>4 DEF Followup
    <3>. QED
      BY <2>4, <3>1, <3>3, <3>4 DEF Followup
  <2>5. CASE ProcessPrompt(m)
    BY <2>5 DEF ProcessPrompt, Settle
  <2>6. CASE Revoke(m)
    BY <2>6 DEF Revoke, Settle
  <2>. QED
    BY <1>1, <2>1, <2>2, <2>3, <2>4, <2>5, <2>6 DEF Call
<1>2. ASSUME NEW m \in Msg, Route(m) PROVE TypeOK'
  <2>1. CASE RouteReject(m)
    BY <2>1 DEF RouteReject, Settle
  <2>2. CASE RouteIdle(m)
    BY <2>2 DEF RouteIdle, Settle, Register, GoTo
  <2>3. CASE RouteSteer(m)
    BY <2>3 DEF RouteSteer, Settle, Steer
  <2>4. CASE RouteQueue(m)
    BY <2>4 DEF RouteQueue, Settle
  <2>5. CASE ProcessBusy(m)
    BY <2>5 DEF ProcessBusy, SteerRegistered, Settle, Steer
  <2>6. CASE ProcessIdle(m)
    BY <2>6 DEF ProcessIdle, Settle, Register, GoTo, EnterStart, Entered
  <2>7. CASE ProcessEmpty(m)
    BY <2>7 DEF ProcessEmpty, Settle, GoTo
  <2>8. CASE ProcessEmptyWaits(m)
    BY <2>8 DEF ProcessEmptyWaits, Settle, Register, GoTo, EnterStart
  <2>. QED
    BY <1>2, <2>1, <2>2, <2>3, <2>4, <2>5, <2>6, <2>7, <2>8 DEF Route
<1>3. ASSUME NEW r \in Msg, Execute(r) PROVE TypeOK'
  <2>1. CASE BeginConsume(r)
    BY <2>1 DEF BeginConsume, GoTo, EnterStart, Entered
  <2>2. CASE TakeTurn(r)
    BY <2>2 DEF TakeTurn, GoTo
  <2>3. CASE ReturnFromStart(r)
    BY <2>3 DEF ReturnFromStart, GoTo, LeaveStart, PopDriven
  <2>4. CASE Activate(r)
    BY <2>4 DEF Activate, GoTo, DrainQueuedSteer
  <2>5. CASE StopAgent(r)
    BY <2>5 DEF StopAgent, GoTo
  <2>6. CASE EndDriven(r)
    BY <2>6 DEF EndDriven, TurnEnds, GoTo, LeaveStart, PopDriven
  <2>7. CASE LeadNotified(r)
    BY <2>7 DEF LeadNotified, GoTo, Pop
  <2>8. CASE GoIdle(r)
    BY <2>8 DEF GoIdle, TurnEnds, GoTo, LeaveStart, Pop
  <2>9. CASE ChainNext(r)
    BY <2>9 DEF ChainNext, TurnEnds, ChainCondition, EnterStart, Entered
  <2>10. CASE CancelGracefully(r)
    BY <2>10 DEF CancelGracefully, GoTo
  <2>11. CASE CancelTurn(r)
    BY <2>11 DEF CancelTurn, GoTo
  <2>12. CASE LeaveCancelled(r)
    BY <2>12 DEF LeaveCancelled, GoTo, LeaveStart, PopDriven
  <2>13. CASE CleanupCancelled(r)
    <3> DEFINE rid == task[r]
               n == Head(prompt_queue)
    <3>1. complete' \subseteq Msg
      BY <2>13 DEF CleanupCancelled
    <3>2. CASE OwnsSession(rid) /\ ChainCondition
      <4>1. n \in Msg
        BY <3>2 DEF ChainCondition
      <4>2. /\ runs' = (runs \ {rid}) \cup {n}
            /\ current_run_id' = n
            /\ task' = [task EXCEPT ![n] = n]
            /\ phase' = [phase EXCEPT ![r] = "done", ![n] = "created"]
            /\ prompt_queue' = Tail(prompt_queue)
        BY <2>13, <3>2 DEF CleanupCancelled
      <4>. QED
        BY <2>13, <3>1, <3>2, <4>1, <4>2 DEF CleanupCancelled, ChainCondition
    <3>3. CASE ~(OwnsSession(rid) /\ ChainCondition)
      <4>1. /\ runs' = runs \ {rid}
            /\ current_run_id' = IF OwnsSession(rid) THEN None ELSE current_run_id
            /\ phase' = [phase EXCEPT ![r] = "done"]
            /\ UNCHANGED <<task, prompt_queue>>
        BY <2>13, <3>3 DEF CleanupCancelled, GoTo
      <4>. QED
        BY <2>13, <3>1, <4>1 DEF CleanupCancelled
    <3>. QED
      BY <3>2, <3>3
  <2>. QED
    BY <1>3, <2>1, <2>2, <2>3, <2>4, <2>5, <2>6, <2>7, <2>8, <2>9, <2>10, <2>11, <2>12, <2>13 DEF
       Execute
<1>4. ASSUME NEW r \in Msg, Fault(r) PROVE TypeOK'
  <2>1. CASE TurnError(r)
    BY <2>1 DEF TurnError, GoTo
  <2>2. CASE RaiseFromStart(r)
    BY <2>2 DEF RaiseFromStart, GoTo, LeaveStart, Pop, PopDriven
  <2>3. CASE RaiseInMember(r)
    BY <2>3 DEF RaiseInMember, GoTo, LeaveStart
  <2>4. CASE CancelRun(r)
    BY <2>4 DEF CancelRun, Interrupted
  <2>. QED
    BY <1>4, <2>1, <2>2, <2>3, <2>4 DEF Fault
<1>5. CASE Close
  <2>1. CASE CloseSession
    BY <2>1 DEF CloseSession
  <2>2. CASE CloseMark
    BY <2>2 DEF CloseMark, ClosingRun, HasRunHandle
  <2>3. CASE CloseAgent
    BY <2>3 DEF CloseAgent
  <2>4. CASE CloseFinish
    BY <2>4 DEF CloseFinish
  <2>5. CASE CloseTimeout
    BY <2>5 DEF CloseTimeout, RetryClose, Interrupted
  <2>. QED
    BY <1>5, <2>1, <2>2, <2>3, <2>4, <2>5 DEF Close
<1>6. CASE UNCHANGED vars
  BY <1>6 DEF vars
<1>. QED
  BY <1>1, <1>2, <1>3, <1>4, <1>5, <1>6 DEF Next

-----------------------------------------------------------------------------
(***************************************************************************)
(* turn_lock.                                                              *)
(***************************************************************************)

\* turn_lock is left alone: whoever begins its turn has it.
LEMMA TurnLockKept ==
    ASSUME TurnLockHeld, turn_lock' = turn_lock,
           \A s \in Msg : phase'[s] \in TurnPhases => phase[s] \in TurnPhases \/ HoldsTurnLock(s)
    PROVE  TurnLockHeld'
  BY DEF TurnLockHeld, HoldsTurnLock

\* n enters its start() and joins the lock's queue; it has the lock if that was free.
LEMMA TurnLockJoined ==
    ASSUME NEW lock \in Seq(Msg), NEW n \in Msg, turn_lock' = Append(lock, n),
           phase'[n] \in TurnPhases => lock = <<>>,
           \A s \in Msg \ {n} : phase'[s] \in TurnPhases => lock # <<>> /\ Head(lock) = s
    PROVE  TurnLockHeld'
<1> SUFFICES ASSUME NEW s \in Msg, phase'[s] \in TurnPhases
             PROVE  HoldsTurnLock(s)'
  BY DEF TurnLockHeld
<1>1. turn_lock' # <<>>
  BY AppendProperties
<1>2. Head(turn_lock') = IF lock = <<>> THEN n ELSE Head(lock)
  BY HeadTailAppend
<1>3. CASE s = n
  BY <1>1, <1>2, <1>3 DEF HoldsTurnLock
<1>4. CASE s # n
  BY <1>1, <1>2, <1>4 DEF HoldsTurnLock
<1>. QED
  BY <1>3, <1>4

\* r leaves turn_lock, as its holder or from among the waiters.
LEMMA TurnLockLeft ==
    ASSUME TypeOK, TurnLockHeld, NEW r \in Msg, turn_lock' = Without(turn_lock, r),
           \A s \in Msg : phase'[s] \in TurnPhases => phase[s] \in TurnPhases /\ s # r
    PROVE  TurnLockHeld'
<1> SUFFICES ASSUME NEW s \in Msg, phase'[s] \in TurnPhases
             PROVE  HoldsTurnLock(s)'
  BY DEF TurnLockHeld
<1>1. turn_lock \in Seq(Msg) /\ turn_lock # <<>> /\ Head(turn_lock) = s /\ s # r
  BY DEF TypeOK, TurnLockHeld, HoldsTurnLock
<1>. QED
  BY <1>1, WithoutProperties DEF HoldsTurnLock

\* No step lets a turn go on without turn_lock.
LEMMA TurnLockNext == IndInv /\ [Next]_vars => TurnLockHeld'
<1> SUFFICES ASSUME IndInv, [Next]_vars PROVE TurnLockHeld'
  OBVIOUS
<1> USE DEF IndInv, handleVars
<1>1. ASSUME NEW m \in Msg, Call(m) PROVE TurnLockHeld'
  <2>1. CASE SendMessage(m)
    BY <2>1, TurnLockKept DEF SendMessage
  <2>2. CASE InjectPrompt(m)
    BY <2>2, TurnLockKept DEF InjectPrompt
  <2>3. CASE BackgroundSteer(m)
    BY <2>3, TurnLockKept DEF BackgroundSteer
  <2>4. CASE Followup(m)
    BY <2>4, TurnLockKept DEF Followup
  <2>5. CASE ProcessPrompt(m)
    BY <2>5, TurnLockKept DEF ProcessPrompt
  <2>6. CASE Revoke(m)
    BY <2>6, TurnLockKept DEF Revoke
  <2>. QED
    BY <1>1, <2>1, <2>2, <2>3, <2>4, <2>5, <2>6 DEF Call
<1>2. ASSUME NEW m \in Msg, Route(m) PROVE TurnLockHeld'
  <2>1. CASE RouteReject(m)
    BY <2>1, TurnLockKept DEF RouteReject
  <2>2. CASE RouteIdle(m)
    <3>1. turn_lock' = turn_lock
      BY <2>2 DEF RouteIdle
    <3>2. \A s \in Msg : phase'[s] \in TurnPhases => phase[s] \in TurnPhases \/ HoldsTurnLock(s)
      BY <2>2 DEF RouteIdle, GoTo, TypeOK, TurnPhases
    <3>. QED
      BY <3>1, <3>2, TurnLockKept
  <2>3. CASE RouteSteer(m)
    BY <2>3, TurnLockKept DEF RouteSteer
  <2>4. CASE RouteQueue(m)
    BY <2>4, TurnLockKept DEF RouteQueue
  <2>5. CASE ProcessBusy(m)
    BY <2>5, TurnLockKept DEF ProcessBusy
  <2>6. CASE ProcessIdle(m)
    <3>1. turn_lock' = Append(turn_lock, m) /\ turn_lock \in Seq(Msg)
      BY <2>6 DEF ProcessIdle, EnterStart, TypeOK
    <3>2. phase'[m] \in TurnPhases => turn_lock = <<>>
      BY <2>6 DEF ProcessIdle, GoTo, Entered, TypeOK, TurnPhases
    <3>3. \A s \in Msg \ {m} : phase'[s] \in TurnPhases => HoldsTurnLock(s)
      BY <2>6 DEF ProcessIdle, GoTo, TypeOK, TurnLockHeld
    <3>. QED
      BY <3>1, <3>2, <3>3, TurnLockJoined DEF HoldsTurnLock
  <2>7. CASE ProcessEmpty(m)
    <3>1. turn_lock' = turn_lock
      BY <2>7 DEF ProcessEmpty
    <3>2. \A s \in Msg : phase'[s] \in TurnPhases => phase[s] \in TurnPhases \/ HoldsTurnLock(s)
      BY <2>7 DEF ProcessEmpty, GoTo, TypeOK, TurnPhases
    <3>. QED
      BY <3>1, <3>2, TurnLockKept
  <2>8. CASE ProcessEmptyWaits(m)
    <3>1. turn_lock' = Append(turn_lock, m) /\ turn_lock \in Seq(Msg)
      BY <2>8 DEF ProcessEmptyWaits, EnterStart, TypeOK
    <3>2. phase'[m] \in TurnPhases => turn_lock = <<>>
      BY <2>8 DEF ProcessEmptyWaits, GoTo, Entered, TypeOK, TurnPhases
    <3>3. \A s \in Msg \ {m} : phase'[s] \in TurnPhases => HoldsTurnLock(s)
      BY <2>8 DEF ProcessEmptyWaits, GoTo, TypeOK, TurnLockHeld
    <3>. QED
      BY <3>1, <3>2, <3>3, TurnLockJoined DEF HoldsTurnLock
  <2>. QED
    BY <1>2, <2>1, <2>2, <2>3, <2>4, <2>5, <2>6, <2>7, <2>8 DEF Route
<1>3. ASSUME NEW r \in Msg, Execute(r) PROVE TurnLockHeld'
  <2>1. CASE BeginConsume(r)
    <3>1. turn_lock' = Append(turn_lock, r) /\ turn_lock \in Seq(Msg)
      BY <2>1 DEF BeginConsume, EnterStart, TypeOK
    <3>2. phase'[r] \in TurnPhases => turn_lock = <<>>
      BY <2>1 DEF BeginConsume, GoTo, Entered, TypeOK, TurnPhases
    <3>3. \A s \in Msg \ {r} : phase'[s] \in TurnPhases => HoldsTurnLock(s)
      BY <2>1 DEF BeginConsume, GoTo, TypeOK, TurnLockHeld
    <3>. QED
      BY <3>1, <3>2, <3>3, TurnLockJoined DEF HoldsTurnLock
  <2>2. CASE TakeTurn(r)
    <3>1. turn_lock' = turn_lock
      BY <2>2 DEF TakeTurn
    <3>2. \A s \in Msg : phase'[s] \in TurnPhases => phase[s] \in TurnPhases \/ HoldsTurnLock(s)
      BY <2>2 DEF TakeTurn, GoTo, TypeOK, TurnPhases
    <3>. QED
      BY <3>1, <3>2, TurnLockKept
  <2>3. CASE ReturnFromStart(r)
    <3>1. turn_lock' = Without(turn_lock, r)
      BY <2>3 DEF ReturnFromStart, LeaveStart
    <3>2. \A s \in Msg : phase'[s] \in TurnPhases => phase[s] \in TurnPhases /\ s # r
      BY <2>3 DEF ReturnFromStart, GoTo, TypeOK, TurnPhases
    <3>. QED
      BY <3>1, <3>2, TurnLockLeft
  <2>4. CASE Activate(r)
    <3>1. turn_lock' = turn_lock
      BY <2>4 DEF Activate
    <3>2. \A s \in Msg : phase'[s] \in TurnPhases => phase[s] \in TurnPhases \/ HoldsTurnLock(s)
      BY <2>4 DEF Activate, GoTo, TypeOK, TurnPhases
    <3>. QED
      BY <3>1, <3>2, TurnLockKept
  <2>5. CASE StopAgent(r)
    <3>1. turn_lock' = turn_lock
      BY <2>5 DEF StopAgent
    <3>2. \A s \in Msg : phase'[s] \in TurnPhases => phase[s] \in TurnPhases \/ HoldsTurnLock(s)
      BY <2>5 DEF StopAgent, GoTo, TypeOK, TurnPhases
    <3>. QED
      BY <3>1, <3>2, TurnLockKept
  <2>6. CASE EndDriven(r)
    <3>1. turn_lock' = Without(turn_lock, r)
      BY <2>6 DEF EndDriven, LeaveStart
    <3>2. \A s \in Msg : phase'[s] \in TurnPhases => phase[s] \in TurnPhases /\ s # r
      BY <2>6 DEF EndDriven, GoTo, TypeOK, TurnPhases
    <3>. QED
      BY <3>1, <3>2, TurnLockLeft
  <2>7. CASE LeadNotified(r)
    <3>1. turn_lock' = turn_lock
      BY <2>7 DEF LeadNotified
    <3>2. \A s \in Msg : phase'[s] \in TurnPhases => phase[s] \in TurnPhases \/ HoldsTurnLock(s)
      BY <2>7 DEF LeadNotified, GoTo, TypeOK, TurnPhases
    <3>. QED
      BY <3>1, <3>2, TurnLockKept
  <2>8. CASE GoIdle(r)
    <3>1. turn_lock' = Without(turn_lock, r)
      BY <2>8 DEF GoIdle, LeaveStart
    <3>2. \A s \in Msg : phase'[s] \in TurnPhases => phase[s] \in TurnPhases /\ s # r
      BY <2>8 DEF GoIdle, GoTo, TypeOK, TurnPhases
    <3>. QED
      BY <3>1, <3>2, TurnLockLeft
  <2>9. CASE ChainNext(r)
    <3> DEFINE n == Head(prompt_queue)
               lock == Without(turn_lock, r)
    <3>1. n \in Msg /\ lock \in Seq(Msg)
      BY <2>9, QueueTypes DEF ChainNext, ChainCondition
    <3>2. turn_lock' = Append(lock, n)
      BY <2>9 DEF ChainNext, EnterStart
    <3>3. phase' = [phase EXCEPT ![r] = "done", ![n] = Entered(lock)]
      BY <2>9 DEF ChainNext
    <3>4. phase'[n] \in TurnPhases => lock = <<>>
      BY <3>1, <3>3 DEF TypeOK, Entered, TurnPhases
    <3>5. HoldsTurnLock(r)
      BY <2>9 DEF ChainNext, TurnEnds, TurnLockHeld, TurnPhases
    <3>6. \A s \in Msg \ {n} : phase'[s] \in TurnPhases => FALSE
      BY <3>1, <3>3, <3>5 DEF TypeOK, TurnPhases, TurnLockHeld, HoldsTurnLock
    <3> HIDE DEF n, lock
    <3>. QED
      BY <3>1, <3>2, <3>4, <3>6, TurnLockJoined
  <2>10. CASE CancelGracefully(r)
    <3>1. turn_lock' = turn_lock
      BY <2>10 DEF CancelGracefully
    <3>2. \A s \in Msg : phase'[s] \in TurnPhases => phase[s] \in TurnPhases \/ HoldsTurnLock(s)
      BY <2>10 DEF CancelGracefully, GoTo, TypeOK, TurnPhases
    <3>. QED
      BY <3>1, <3>2, TurnLockKept
  <2>11. CASE CancelTurn(r)
    <3>1. turn_lock' = turn_lock
      BY <2>11 DEF CancelTurn
    <3>2. \A s \in Msg : phase'[s] \in TurnPhases => phase[s] \in TurnPhases \/ HoldsTurnLock(s)
      BY <2>11 DEF CancelTurn, GoTo, TypeOK, TurnPhases
    <3>. QED
      BY <3>1, <3>2, TurnLockKept
  <2>12. CASE LeaveCancelled(r)
    <3>1. turn_lock' = Without(turn_lock, r)
      BY <2>12 DEF LeaveCancelled, LeaveStart
    <3>2. \A s \in Msg : phase'[s] \in TurnPhases => phase[s] \in TurnPhases /\ s # r
      BY <2>12 DEF LeaveCancelled, GoTo, TypeOK, TurnPhases
    <3>. QED
      BY <3>1, <3>2, TurnLockLeft
  <2>13. CASE CleanupCancelled(r)
    <3> DEFINE n == Head(prompt_queue)
    <3>1. \/ phase' = [phase EXCEPT ![r] = "done"]
          \/ n \in Msg /\ phase' = [phase EXCEPT ![r] = "done", ![n] = "created"]
      BY <2>13, QueueTypes DEF CleanupCancelled, ChainCondition, GoTo
    <3>2. \A s \in Msg : phase'[s] \in TurnPhases => phase[s] \in TurnPhases
      BY <3>1 DEF TypeOK, TurnPhases
    <3>. QED
      BY <2>13, <3>2, TurnLockKept DEF CleanupCancelled
  <2>. QED
    BY <1>3, <2>1, <2>2, <2>3, <2>4, <2>5, <2>6, <2>7, <2>8, <2>9, <2>10, <2>11, <2>12, <2>13 DEF
       Execute
<1>4. ASSUME NEW r \in Msg, Fault(r) PROVE TurnLockHeld'
  <2>1. CASE TurnError(r)
    <3>1. turn_lock' = turn_lock
      BY <2>1 DEF TurnError
    <3>2. \A s \in Msg : phase'[s] \in TurnPhases => phase[s] \in TurnPhases \/ HoldsTurnLock(s)
      BY <2>1 DEF TurnError, GoTo, TypeOK, TurnPhases
    <3>. QED
      BY <3>1, <3>2, TurnLockKept
  <2>2. CASE RaiseFromStart(r)
    <3>1. turn_lock' = Without(turn_lock, r)
      BY <2>2 DEF RaiseFromStart, LeaveStart
    <3>2. \A s \in Msg : phase'[s] \in TurnPhases => phase[s] \in TurnPhases /\ s # r
      BY <2>2 DEF RaiseFromStart, GoTo, TypeOK, TurnPhases
    <3>. QED
      BY <3>1, <3>2, TurnLockLeft
  <2>3. CASE RaiseInMember(r)
    <3>1. turn_lock' = Without(turn_lock, r)
      BY <2>3 DEF RaiseInMember, LeaveStart
    <3>2. \A s \in Msg : phase'[s] \in TurnPhases => phase[s] \in TurnPhases /\ s # r
      BY <2>3 DEF RaiseInMember, GoTo, TypeOK, TurnPhases
    <3>. QED
      BY <3>1, <3>2, TurnLockLeft
  <2>4. CASE CancelRun(r)
    BY <2>4, TurnLockKept DEF CancelRun
  <2>. QED
    BY <1>4, <2>1, <2>2, <2>3, <2>4 DEF Fault
<1>5. CASE Close
  <2>1. CASE CloseSession
    BY <2>1, TurnLockKept DEF CloseSession
  <2>2. CASE CloseMark
    BY <2>2, TurnLockKept DEF CloseMark
  <2>3. CASE CloseAgent
    BY <2>3, TurnLockKept DEF CloseAgent
  <2>4. CASE CloseFinish
    BY <2>4, TurnLockKept DEF CloseFinish
  <2>5. CASE CloseTimeout
    BY <2>5, TurnLockKept DEF CloseTimeout
  <2>. QED
    BY <1>5, <2>1, <2>2, <2>3, <2>4, <2>5 DEF Close
<1>6. CASE UNCHANGED vars
  BY <1>6, TurnLockKept DEF vars
<1>. QED
  BY <1>1, <1>2, <1>3, <1>4, <1>5, <1>6 DEF Next

-----------------------------------------------------------------------------
(***************************************************************************)
(* Queued and running messages are settled.                                *)
(***************************************************************************)

\* What the queue operations do to the set of queued messages.
LEMMA QueueElements ==
    ASSUME TypeOK
    PROVE  /\ \A m \in Msg :
                 /\ ToSet(Append(feedback_queue, m)) \subseteq ToSet(feedback_queue) \cup {m}
                 /\ ToSet(Append(prompt_queue, m)) \subseteq ToSet(prompt_queue) \cup {m}
                 /\ ToSet(Without(feedback_queue, m)) \subseteq ToSet(feedback_queue)
                 /\ Contains(feedback_queue, m) => m \in ToSet(feedback_queue)
           /\ prompt_queue # <<>> => /\ Head(prompt_queue) \in ToSet(prompt_queue)
                                    /\ ToSet(Tail(prompt_queue)) \subseteq ToSet(prompt_queue)
           /\ ToSet(<<>>) = {}
           /\ ToSet(feedback_queue) \subseteq Msg /\ ToSet(prompt_queue) \subseteq Msg
<1>1. ASSUME NEW q \in Seq(Msg), NEW m \in Msg
      PROVE  ToSet(Append(q, m)) \subseteq ToSet(q) \cup {m}
  BY AppendProperties DEF ToSet
<1>2. ASSUME NEW q \in Seq(Msg), NEW m \in Msg
      PROVE  /\ ToSet(Without(q, m)) \subseteq ToSet(q)
             /\ Contains(q, m) => m \in ToSet(q)
             /\ ToSet(q) \subseteq Msg
  <2>1. Without(q, m) \in Seq(Msg)
    BY WithoutProperties
  <2>2. ASSUME NEW x \in ToSet(Without(q, m)) PROVE x \in ToSet(q)
    <3>1. PICK i \in 1..Len(Without(q, m)) : x = Without(q, m)[i]
      BY <2>1 DEF ToSet
    <3>2. PICK j \in 1..Len(q) : x = q[j]
      BY <3>1, WithoutProperties
    <3>. QED
      BY <3>2 DEF ToSet
  <2>3. Contains(q, m) => m \in ToSet(q)
    BY DEF ToSet, Contains
  <2>4. ToSet(q) \subseteq Msg
    BY DEF ToSet
  <2>. QED
    BY <2>2, <2>3, <2>4
<1>3. ASSUME NEW q \in Seq(Msg), q # <<>>
      PROVE  Head(q) \in ToSet(q) /\ ToSet(Tail(q)) \subseteq ToSet(q)
  BY <1>3, HeadTailProperties DEF ToSet
<1>4. ToSet(<<>>) = {}
  BY DEF ToSet
<1>5. feedback_queue \in Seq(Msg) /\ prompt_queue \in Seq(Msg)
  BY DEF TypeOK
<1>6. ToSet(feedback_queue) \subseteq Msg /\ ToSet(prompt_queue) \subseteq Msg
  BY <1>5 DEF ToSet
<1>. QED
  BY <1>1, <1>2, <1>3, <1>4, <1>5, <1>6

\* The call of m, which was in no queue and had no run, is settled.
LEMMA SettledCall ==
    ASSUME IndInv, NEW m \in Msg, NEW s, pc' = [pc EXCEPT ![m] = s],
           pc[m] \notin {"started", "queued", "steered", "revoked"},
           \A x \in ToSet(feedback_queue)' : x \in ToSet(feedback_queue) \/ (x = m /\ s = "steered"),
           \A x \in ToSet(prompt_queue)' : x \in ToSet(prompt_queue) \/ (x = m /\ s = "queued"),
           \A x \in Msg : phase'[x] # "none" => phase[x] # "none" \/ (x = m /\ s = "started")
    PROVE  SettledMessages'
<1>1. \A x \in Msg : pc'[x] = IF x = m THEN s ELSE pc[x]
  BY DEF IndInv, TypeOK
<1>2. ToSet(feedback_queue) \subseteq Msg /\ ToSet(prompt_queue) \subseteq Msg
  BY QueueElements DEF IndInv
<1>3. \A x \in ToSet(feedback_queue)' : pc'[x] \in {"steered", "revoked"}
  BY <1>1, <1>2 DEF IndInv, SettledMessages
<1>4. \A x \in ToSet(prompt_queue)' : pc'[x] = "queued"
  BY <1>1, <1>2 DEF IndInv, SettledMessages
<1>5. \A x \in Msg : phase'[x] # "none" => pc'[x] \in {"started", "queued"}
  BY <1>1 DEF IndInv, SettledMessages
<1>. QED
  BY <1>3, <1>4, <1>5 DEF SettledMessages

\* In particular when m was steered, into feedback_queue or into an agent.
LEMMA SteeredCall ==
    ASSUME IndInv, NEW m \in Msg, pc' = [pc EXCEPT ![m] = "steered"],
           pc[m] \notin {"started", "queued", "steered", "revoked"},
           feedback_queue' = feedback_queue \/ feedback_queue' = Append(feedback_queue, m),
           UNCHANGED <<phase, prompt_queue>>
    PROVE  SettledMessages'
<1>1. ToSet(feedback_queue)' \subseteq ToSet(feedback_queue) \cup {m}
  <2>1. feedback_queue \in Seq(Msg)
    BY DEF IndInv, TypeOK
  <2>2. ToSet(Append(feedback_queue, m)) \subseteq ToSet(feedback_queue) \cup {m}
    BY <2>1, QueueElements DEF IndInv
  <2>. QED
    BY <2>2
<1>2. ToSet(prompt_queue)' = ToSet(prompt_queue)
  OBVIOUS
<1>. QED
  BY <1>1, <1>2, SettledCall

\* Or queued, into prompt_queue or into an agent.
LEMMA QueuedCall ==
    ASSUME IndInv, NEW m \in Msg, pc' = [pc EXCEPT ![m] = "queued"],
           pc[m] \notin {"started", "queued", "steered", "revoked"},
           prompt_queue' = prompt_queue \/ prompt_queue' = Append(prompt_queue, m),
           UNCHANGED <<phase, feedback_queue>>
    PROVE  SettledMessages'
<1>1. ToSet(prompt_queue)' \subseteq ToSet(prompt_queue) \cup {m}
  <2>1. prompt_queue \in Seq(Msg)
    BY DEF IndInv, TypeOK
  <2>2. ToSet(Append(prompt_queue, m)) \subseteq ToSet(prompt_queue) \cup {m}
    BY <2>1, QueueElements DEF IndInv
  <2>. QED
    BY <2>2
<1>2. ToSet(feedback_queue)' = ToSet(feedback_queue)
  OBVIOUS
<1>. QED
  BY <1>1, <1>2, SettledCall

\* Steered if a run is registered, dropped or rejected otherwise.
LEMMA SteeredOrNot ==
    ASSUME IndInv, NEW m \in Msg, NEW s, SteerRegistered(m, s), s \in {"rejected", "dropped"},
           pc[m] \notin {"started", "queued", "steered", "revoked"},
           UNCHANGED <<phase, prompt_queue>>
    PROVE  SettledMessages'
<1>1. CASE HasRunHandle
  <2>1. pc' = [pc EXCEPT ![m] = "steered"]
    BY <1>1 DEF SteerRegistered, Settle
  <2>2. feedback_queue' = feedback_queue \/ feedback_queue' = Append(feedback_queue, m)
    BY <1>1 DEF SteerRegistered, Steer
  <2>. QED
    BY <2>1, <2>2, SteeredCall
<1>2. CASE ~HasRunHandle
  <2>1. pc' = [pc EXCEPT ![m] = s] /\ UNCHANGED feedback_queue
    BY <1>2 DEF SteerRegistered, Settle
  <2>. QED
    BY <2>1, SettledCall
<1>. QED
  BY <1>1, <1>2

\* No call is settled, and a run begins only for a queued prompt.
LEMMA SettledKept ==
    ASSUME IndInv, UNCHANGED pc,
           ToSet(feedback_queue)' \subseteq ToSet(feedback_queue),
           ToSet(prompt_queue)' \subseteq ToSet(prompt_queue),
           \A x \in Msg : phase'[x] # "none" => phase[x] # "none" \/ x \in ToSet(prompt_queue)
    PROVE  SettledMessages'
  BY DEF IndInv, SettledMessages

\* No step queues, runs or requeues a message whose call is not settled so.
LEMMA SettledNext == IndInv /\ [Next]_vars => SettledMessages'
<1> SUFFICES ASSUME IndInv, [Next]_vars PROVE SettledMessages'
  OBVIOUS
<1>0. TypeOK
  BY DEF IndInv
<1> USE <1>0, QueueElements DEF handleVars, sessionVars
<1>1. ASSUME NEW m \in Msg, Call(m) PROVE SettledMessages'
  <2>1. CASE SendMessage(m)
    <3>1. PICK s \in {"rejected", "queue", "steer"} : pc' = [pc EXCEPT ![m] = s]
      BY <2>1 DEF SendMessage, Settle, Waiting
    <3>2. pc[m] = "unsent" /\ UNCHANGED <<phase, prompt_queue, feedback_queue>>
      BY <2>1 DEF SendMessage
    <3>. QED
      BY <3>1, <3>2, SettledCall
  <2>2. CASE InjectPrompt(m)
    <3>1. SteerRegistered(m, "rejected") /\ pc[m] \notin {"started", "queued", "steered", "revoked"}
      BY <2>2 DEF InjectPrompt, Resolving
    <3>2. UNCHANGED <<phase, prompt_queue>>
      BY <2>2 DEF InjectPrompt
    <3>. QED
      BY <3>1, <3>2, SteeredOrNot
  <2>3. CASE BackgroundSteer(m)
    <3>1. pc[m] = "unsent" /\ UNCHANGED <<phase, prompt_queue>>
      BY <2>3 DEF BackgroundSteer
    <3>2. \/ pc' = [pc EXCEPT ![m] = "rejected"] /\ UNCHANGED feedback_queue
          \/ /\ pc' = [pc EXCEPT ![m] = "steered"]
             /\ feedback_queue' = feedback_queue \/ feedback_queue' = Append(feedback_queue, m)
      BY <2>3 DEF BackgroundSteer, Settle, Steer
    <3>3. CASE pc' = [pc EXCEPT ![m] = "rejected"] /\ UNCHANGED feedback_queue
      BY <3>1, <3>3, SettledCall
    <3>4. CASE /\ pc' = [pc EXCEPT ![m] = "steered"]
               /\ feedback_queue' = feedback_queue \/ feedback_queue' = Append(feedback_queue, m)
      BY <3>1, <3>4, SteeredCall
    <3>. QED
      BY <3>2, <3>3, <3>4
  <2>4. CASE Followup(m)
    <3>1. pc[m] = "unsent" /\ UNCHANGED <<phase, feedback_queue>>
      BY <2>4 DEF Followup
    <3>2. \/ pc' = [pc EXCEPT ![m] = "rejected"] /\ UNCHANGED prompt_queue
          \/ /\ pc' = [pc EXCEPT ![m] = "queued"]
             /\ prompt_queue' = prompt_queue \/ prompt_queue' = Append(prompt_queue, m)
      BY <2>4 DEF Followup, Settle
    <3>3. CASE pc' = [pc EXCEPT ![m] = "rejected"] /\ UNCHANGED prompt_queue
      BY <3>1, <3>3, SettledCall
    <3>4. CASE /\ pc' = [pc EXCEPT ![m] = "queued"]
               /\ prompt_queue' = prompt_queue \/ prompt_queue' = Append(prompt_queue, m)
      BY <3>1, <3>4, QueuedCall
    <3>. QED
      BY <3>2, <3>3, <3>4
  <2>5. CASE ProcessPrompt(m)
    <3>1. PICK s \in {"rejected", "resolve_agent", "resolve_empty"} : pc' = [pc EXCEPT ![m] = s]
      BY <2>5 DEF ProcessPrompt, Settle
    <3>2. pc[m] = "unsent" /\ UNCHANGED <<phase, prompt_queue, feedback_queue>>
      BY <2>5 DEF ProcessPrompt
    <3>. QED
      BY <3>1, <3>2, SettledCall
  <2>6. CASE Revoke(m)
    <3>1. pc' = [pc EXCEPT ![m] = "revoked"] /\ UNCHANGED <<phase, prompt_queue>>
      BY <2>6 DEF Revoke, Settle
    <3>2. pc[m] \in {"steered", "revoked"}
      BY <2>6 DEF Revoke, IndInv, SettledMessages
    <3>3. ToSet(feedback_queue)' \subseteq ToSet(feedback_queue)
      BY <2>6 DEF Revoke
    <3>4. \A x \in Msg : pc'[x] = IF x = m THEN "revoked" ELSE pc[x]
      BY <3>1 DEF TypeOK
    <3>5. \A x \in ToSet(feedback_queue)' : pc'[x] \in {"steered", "revoked"}
      BY <3>3, <3>4 DEF IndInv, SettledMessages
    <3>6. \A x \in ToSet(prompt_queue)' : pc'[x] = "queued"
      BY <3>1, <3>2, <3>4 DEF IndInv, SettledMessages
    <3>7. \A x \in Msg : phase'[x] # "none" => pc'[x] \in {"started", "queued"}
      BY <3>1, <3>2, <3>4 DEF IndInv, SettledMessages
    <3>. QED
      BY <3>5, <3>6, <3>7 DEF SettledMessages
  <2>. QED
    BY <1>1, <2>1, <2>2, <2>3, <2>4, <2>5, <2>6 DEF Call
<1>2. ASSUME NEW m \in Msg, Route(m) PROVE SettledMessages'
  <2>1. CASE RouteReject(m)
    <3>1. pc' = [pc EXCEPT ![m] = "rejected"] /\ pc[m] \in {"queue", "steer"}
      BY <2>1 DEF RouteReject, Settle, Waiting
    <3>2. UNCHANGED <<phase, prompt_queue, feedback_queue>>
      BY <2>1 DEF RouteReject
    <3>. QED
      BY <3>1, <3>2, SettledCall
  <2>2. CASE RouteIdle(m)
    <3>1. pc' = [pc EXCEPT ![m] = "started"] /\ pc[m] \in {"queue", "steer", "resolve_agent", "resolve_empty"}
      BY <2>2 DEF RouteIdle, Settle, Waiting, Resolving
    <3>2. UNCHANGED prompt_queue /\ (feedback_queue' = feedback_queue \/ feedback_queue' = <<>>)
      BY <2>2 DEF RouteIdle, EnterStart
    <3>3. \A x \in Msg : phase'[x] # "none" => phase[x] # "none" \/ x = m
      BY <2>2 DEF RouteIdle, GoTo, TypeOK
    <3>. QED
      BY <3>1, <3>2, <3>3, SettledCall
  <2>3. CASE RouteSteer(m)
    <3>1. pc' = [pc EXCEPT ![m] = "steered"] /\ pc[m] \notin {"started", "queued", "steered", "revoked"}
      BY <2>3 DEF RouteSteer, Settle
    <3>2. feedback_queue' = feedback_queue \/ feedback_queue' = Append(feedback_queue, m)
      BY <2>3 DEF RouteSteer, Steer
    <3>3. UNCHANGED <<phase, prompt_queue>>
      BY <2>3 DEF RouteSteer
    <3>. QED
      BY <3>1, <3>2, <3>3, SteeredCall
  <2>4. CASE RouteQueue(m)
    <3>1. pc' = [pc EXCEPT ![m] = "queued"] /\ pc[m] = "queue"
      BY <2>4 DEF RouteQueue, Settle
    <3>2. prompt_queue' = Append(prompt_queue, m) /\ UNCHANGED <<phase, feedback_queue>>
      BY <2>4 DEF RouteQueue
    <3>. QED
      BY <3>1, <3>2, QueuedCall
  <2>5. CASE ProcessBusy(m)
    <3>1. SteerRegistered(m, "dropped") /\ pc[m] \notin {"started", "queued", "steered", "revoked"}
      BY <2>5 DEF ProcessBusy, Resolving
    <3>2. UNCHANGED <<phase, prompt_queue>>
      BY <2>5 DEF ProcessBusy
    <3>. QED
      BY <3>1, <3>2, SteeredOrNot
  <2>6. CASE ProcessIdle(m)
    <3>1. pc' = [pc EXCEPT ![m] = "started"] /\ pc[m] \in {"queue", "steer", "resolve_agent", "resolve_empty"}
      BY <2>6 DEF ProcessIdle, Settle, Waiting, Resolving
    <3>2. UNCHANGED prompt_queue /\ (feedback_queue' = feedback_queue \/ feedback_queue' = <<>>)
      BY <2>6 DEF ProcessIdle, EnterStart
    <3>3. \A x \in Msg : phase'[x] # "none" => phase[x] # "none" \/ x = m
      BY <2>6 DEF ProcessIdle, GoTo, TypeOK
    <3>. QED
      BY <3>1, <3>2, <3>3, SettledCall
  <2>7. CASE ProcessEmpty(m)
    <3>1. pc' = [pc EXCEPT ![m] = "started"] /\ pc[m] \in {"queue", "steer", "resolve_agent", "resolve_empty"}
      BY <2>7 DEF ProcessEmpty, Settle, Waiting, Resolving
    <3>2. UNCHANGED prompt_queue /\ (feedback_queue' = feedback_queue \/ feedback_queue' = <<>>)
      BY <2>7 DEF ProcessEmpty, EnterStart
    <3>3. \A x \in Msg : phase'[x] # "none" => phase[x] # "none" \/ x = m
      BY <2>7 DEF ProcessEmpty, GoTo, TypeOK
    <3>. QED
      BY <3>1, <3>2, <3>3, SettledCall
  <2>8. CASE ProcessEmptyWaits(m)
    <3>1. pc' = [pc EXCEPT ![m] = "started"] /\ pc[m] \in {"queue", "steer", "resolve_agent", "resolve_empty"}
      BY <2>8 DEF ProcessEmptyWaits, Settle, Waiting, Resolving
    <3>2. UNCHANGED prompt_queue /\ (feedback_queue' = feedback_queue \/ feedback_queue' = <<>>)
      BY <2>8 DEF ProcessEmptyWaits, EnterStart
    <3>3. \A x \in Msg : phase'[x] # "none" => phase[x] # "none" \/ x = m
      BY <2>8 DEF ProcessEmptyWaits, GoTo, TypeOK
    <3>. QED
      BY <3>1, <3>2, <3>3, SettledCall
  <2>. QED
    BY <1>2, <2>1, <2>2, <2>3, <2>4, <2>5, <2>6, <2>7, <2>8 DEF Route
<1>3. ASSUME NEW r \in Msg, Execute(r) PROVE SettledMessages'
  <2>1. CASE BeginConsume(r)
    <3>1. UNCHANGED <<pc, prompt_queue>> /\ feedback_queue' = <<>>
      BY <2>1 DEF BeginConsume, EnterStart
    <3>2. \A x \in Msg : phase'[x] # "none" => phase[x] # "none"
      BY <2>1 DEF BeginConsume, GoTo, TypeOK
    <3>. QED
      BY <3>1, <3>2, SettledKept
  <2>2. CASE TakeTurn(r)
    <3>1. UNCHANGED <<pc, prompt_queue, feedback_queue>>
      BY <2>2 DEF TakeTurn
    <3>2. \A x \in Msg : phase'[x] # "none" => phase[x] # "none"
      BY <2>2 DEF TakeTurn, GoTo, TypeOK, WaitPhases
    <3>. QED
      BY <3>1, <3>2, SettledKept
  <2>3. CASE ReturnFromStart(r)
    <3>1. UNCHANGED <<pc, prompt_queue, feedback_queue>>
      BY <2>3 DEF ReturnFromStart
    <3>2. \A x \in Msg : phase'[x] # "none" => phase[x] # "none"
      BY <2>3 DEF ReturnFromStart, GoTo, TypeOK
    <3>. QED
      BY <3>1, <3>2, SettledKept
  <2>4. CASE Activate(r)
    <3>1. UNCHANGED <<pc, prompt_queue, feedback_queue>>
      BY <2>4 DEF Activate
    <3>2. \A x \in Msg : phase'[x] # "none" => phase[x] # "none"
      BY <2>4 DEF Activate, GoTo, TypeOK
    <3>. QED
      BY <3>1, <3>2, SettledKept
  <2>5. CASE StopAgent(r)
    <3>1. UNCHANGED <<pc, prompt_queue, feedback_queue>>
      BY <2>5 DEF StopAgent
    <3>2. \A x \in Msg : phase'[x] # "none" => phase[x] # "none"
      BY <2>5 DEF StopAgent, GoTo, TypeOK
    <3>. QED
      BY <3>1, <3>2, SettledKept
  <2>6. CASE EndDriven(r)
    <3>1. UNCHANGED <<pc, prompt_queue, feedback_queue>>
      BY <2>6 DEF EndDriven
    <3>2. \A x \in Msg : phase'[x] # "none" => phase[x] # "none"
      BY <2>6 DEF EndDriven, GoTo, TypeOK, TurnEnds
    <3>. QED
      BY <3>1, <3>2, SettledKept
  <2>7. CASE LeadNotified(r)
    <3>1. UNCHANGED <<pc, prompt_queue, feedback_queue>>
      BY <2>7 DEF LeadNotified
    <3>2. \A x \in Msg : phase'[x] # "none" => phase[x] # "none"
      BY <2>7 DEF LeadNotified, GoTo, TypeOK
    <3>. QED
      BY <3>1, <3>2, SettledKept
  <2>8. CASE GoIdle(r)
    <3>1. UNCHANGED <<pc, prompt_queue, feedback_queue>>
      BY <2>8 DEF GoIdle
    <3>2. \A x \in Msg : phase'[x] # "none" => phase[x] # "none"
      BY <2>8 DEF GoIdle, GoTo, TypeOK, TurnEnds
    <3>. QED
      BY <3>1, <3>2, SettledKept
  <2>9. CASE ChainNext(r)
    <3>1. UNCHANGED pc /\ feedback_queue' = <<>>
      BY <2>9 DEF ChainNext, EnterStart
    <3>2. prompt_queue # <<>> /\ prompt_queue' = Tail(prompt_queue) /\ phase[r] # "none"
      BY <2>9 DEF ChainNext, ChainCondition, TurnEnds
    <3>3. \A x \in Msg : phase'[x] # "none" => phase[x] # "none" \/ x = Head(prompt_queue)
      BY <2>9, <3>2 DEF ChainNext, TypeOK
    <3>. QED
      BY <3>1, <3>2, <3>3, SettledKept
  <2>10. CASE CancelGracefully(r)
    <3>1. UNCHANGED <<pc, prompt_queue, feedback_queue>>
      BY <2>10 DEF CancelGracefully
    <3>2. \A x \in Msg : phase'[x] # "none" => phase[x] # "none"
      BY <2>10 DEF CancelGracefully, GoTo, TypeOK
    <3>. QED
      BY <3>1, <3>2, SettledKept
  <2>11. CASE CancelTurn(r)
    <3>1. UNCHANGED <<pc, prompt_queue, feedback_queue>>
      BY <2>11 DEF CancelTurn
    <3>2. \A x \in Msg : phase'[x] # "none" => phase[x] # "none"
      BY <2>11 DEF CancelTurn, GoTo, TypeOK, TurnPhases
    <3>. QED
      BY <3>1, <3>2, SettledKept
  <2>12. CASE LeaveCancelled(r)
    <3>1. UNCHANGED <<pc, prompt_queue, feedback_queue>>
      BY <2>12 DEF LeaveCancelled
    <3>2. \A x \in Msg : phase'[x] # "none" => phase[x] # "none"
      BY <2>12 DEF LeaveCancelled, GoTo, TypeOK, WaitPhases
    <3>. QED
      BY <3>1, <3>2, SettledKept
  <2>13. CASE CleanupCancelled(r)
    <3>1. UNCHANGED <<pc, feedback_queue>> /\ phase[r] # "none"
      BY <2>13 DEF CleanupCancelled
    <3>2. \/ UNCHANGED prompt_queue /\ phase' = [phase EXCEPT ![r] = "done"]
          \/ /\ prompt_queue # <<>> /\ prompt_queue' = Tail(prompt_queue)
             /\ phase' = [phase EXCEPT ![r] = "done", ![Head(prompt_queue)] = "created"]
      BY <2>13 DEF CleanupCancelled, ChainCondition, GoTo
    <3>3. ToSet(prompt_queue)' \subseteq ToSet(prompt_queue)
      BY <3>2
    <3>4. \A x \in Msg : phase'[x] # "none" => phase[x] # "none" \/ x \in ToSet(prompt_queue)
      BY <3>1, <3>2 DEF TypeOK
    <3>. QED
      BY <3>1, <3>3, <3>4, SettledKept
  <2>. QED
    BY <1>3, <2>1, <2>2, <2>3, <2>4, <2>5, <2>6, <2>7, <2>8, <2>9, <2>10, <2>11, <2>12, <2>13 DEF
       Execute
<1>4. ASSUME NEW r \in Msg, Fault(r) PROVE SettledMessages'
  <2>1. CASE TurnError(r)
    <3>1. UNCHANGED <<pc, prompt_queue, feedback_queue>>
      BY <2>1 DEF TurnError
    <3>2. \A x \in Msg : phase'[x] # "none" => phase[x] # "none"
      BY <2>1 DEF TurnError, GoTo, TypeOK
    <3>. QED
      BY <3>1, <3>2, SettledKept
  <2>2. CASE RaiseFromStart(r)
    <3>1. UNCHANGED <<pc, prompt_queue, feedback_queue>>
      BY <2>2 DEF RaiseFromStart
    <3>2. \A x \in Msg : phase'[x] # "none" => phase[x] # "none"
      BY <2>2 DEF RaiseFromStart, GoTo, TypeOK
    <3>. QED
      BY <3>1, <3>2, SettledKept
  <2>3. CASE RaiseInMember(r)
    <3>1. UNCHANGED <<pc, prompt_queue, feedback_queue>>
      BY <2>3 DEF RaiseInMember
    <3>2. \A x \in Msg : phase'[x] # "none" => phase[x] # "none"
      BY <2>3 DEF RaiseInMember, GoTo, TypeOK
    <3>. QED
      BY <3>1, <3>2, SettledKept
  <2>4. CASE CancelRun(r)
    BY <2>4, SettledKept DEF CancelRun
  <2>. QED
    BY <1>4, <2>1, <2>2, <2>3, <2>4 DEF Fault
<1>5. CASE Close
  <2>1. CASE CloseSession
    BY <2>1, SettledKept DEF CloseSession
  <2>2. CASE CloseMark
    BY <2>2, SettledKept DEF CloseMark
  <2>3. CASE CloseAgent
    BY <2>3, SettledKept DEF CloseAgent
  <2>4. CASE CloseFinish
    BY <2>4, SettledKept DEF CloseFinish
  <2>5. CASE CloseTimeout
    BY <2>5, SettledKept DEF CloseTimeout
  <2>. QED
    BY <1>5, <2>1, <2>2, <2>3, <2>4, <2>5 DEF Close
<1>6. CASE UNCHANGED vars
  BY <1>6, SettledKept DEF vars
<1>. QED
  BY <1>1, <1>2, <1>3, <1>4, <1>5, <1>6 DEF Next

-----------------------------------------------------------------------------
(***************************************************************************)
(* The invariants.                                                         *)
(***************************************************************************)

\* turn_lock is used as it should be in every reachable state, whatever
\* calls, faults and closes are interleaved.
THEOREM Invariance == Spec => []IndInv
<1>1. Init => IndInv
  <2>1. Init => TypeOK
    BY TypeInit
  <2>2. Init => TurnLockHeld
    BY DEF Init, TurnLockHeld, TurnPhases
  <2>3. Init => SettledMessages
    BY DEF Init, SettledMessages, ToSet
  <2>. QED
    BY <2>1, <2>2, <2>3 DEF IndInv
<1>2. IndInv /\ [Next]_vars => IndInv'
  BY TypeNext, TurnLockNext, SettledNext DEF IndInv
<1>. QED
  BY <1>1, <1>2, PTL DEF Spec

\* The state of the session is what the code's declarations say of it.
THEOREM TypeCorrectness == Spec => []TypeOK
<1>1. IndInv => TypeOK
  BY DEF IndInv
<1>. QED
  BY <1>1, Invariance, PTL

\* No two turns of a session overlap: the run of a turn that has begun and
\* is not over is at the head of turn_lock.
THEOREM TurnExclusion == Spec => []OneTurnAtATime
<1>1. IndInv => OneTurnAtATime
  BY DEF IndInv, TurnLockHeld, HoldsTurnLock, OneTurnAtATime
<1>. QED
  BY <1>1, Invariance, PTL

-----------------------------------------------------------------------------
(***************************************************************************)
(* Closing.                                                                *)
(***************************************************************************)

\* New handles are those of process_prompt and run_stream calls that were past their
\* check.
OnlyProcessed == \A r \in runs' \ runs : pc[r] \in Resolving

\* The action property of ClosingCreatesNoRun, for one step.
LEMMA CloseCreatesNoRun == Next /\ is_closing => OnlyProcessed
<1> SUFFICES ASSUME Next, is_closing PROVE OnlyProcessed
  OBVIOUS
<1> USE DEF OnlyProcessed, handleVars, sessionVars
<1>1. ASSUME NEW m \in Msg, Call(m) PROVE OnlyProcessed
  <2>1. CASE SendMessage(m)
    BY <2>1 DEF SendMessage
  <2>2. CASE InjectPrompt(m)
    BY <2>2 DEF InjectPrompt
  <2>3. CASE BackgroundSteer(m)
    BY <2>3 DEF BackgroundSteer
  <2>4. CASE Followup(m)
    BY <2>4 DEF Followup
  <2>5. CASE ProcessPrompt(m)
    BY <2>5 DEF ProcessPrompt
  <2>6. CASE Revoke(m)
    BY <2>6 DEF Revoke
  <2>. QED
    BY <1>1, <2>1, <2>2, <2>3, <2>4, <2>5, <2>6 DEF Call
<1>2. ASSUME NEW m \in Msg, Route(m) PROVE OnlyProcessed
  <2>1. CASE RouteReject(m)
    BY <2>1 DEF RouteReject
  <2>2. CASE RouteIdle(m)
    BY <2>2 DEF RouteIdle
  <2>3. CASE RouteSteer(m)
    BY <2>3 DEF RouteSteer
  <2>4. CASE RouteQueue(m)
    BY <2>4 DEF RouteQueue
  <2>5. CASE ProcessBusy(m)
    BY <2>5 DEF ProcessBusy
  <2>6. CASE ProcessIdle(m)
    BY <2>6 DEF ProcessIdle, Register
  <2>7. CASE ProcessEmpty(m)
    BY <2>7 DEF ProcessEmpty
  <2>8. CASE ProcessEmptyWaits(m)
    BY <2>8 DEF ProcessEmptyWaits, Register, Resolving
  <2>. QED
    BY <1>2, <2>1, <2>2, <2>3, <2>4, <2>5, <2>6, <2>7, <2>8 DEF Route
<1>3. ASSUME NEW r \in Msg, Execute(r) PROVE OnlyProcessed
  <2>1. CASE BeginConsume(r)
    BY <2>1 DEF BeginConsume
  <2>2. CASE TakeTurn(r)
    BY <2>2 DEF TakeTurn
  <2>3. CASE ReturnFromStart(r)
    BY <2>3 DEF ReturnFromStart, PopDriven
  <2>4. CASE Activate(r)
    BY <2>4 DEF Activate
  <2>5. CASE StopAgent(r)
    BY <2>5 DEF StopAgent
  <2>6. CASE EndDriven(r)
    BY <2>6 DEF EndDriven, PopDriven
  <2>7. CASE LeadNotified(r)
    BY <2>7 DEF LeadNotified, Pop
  <2>8. CASE GoIdle(r)
    BY <2>8 DEF GoIdle, Pop
  <2>9. CASE ChainNext(r)
    BY <2>9 DEF ChainNext, ChainCondition
  <2>10. CASE CancelGracefully(r)
    BY <2>10 DEF CancelGracefully
  <2>11. CASE CancelTurn(r)
    BY <2>11 DEF CancelTurn
  <2>12. CASE LeaveCancelled(r)
    BY <2>12 DEF LeaveCancelled, PopDriven
  <2>13. CASE CleanupCancelled(r)
    BY <2>13 DEF CleanupCancelled, ChainCondition
  <2>. QED
    BY <1>3, <2>1, <2>2, <2>3, <2>4, <2>5, <2>6, <2>7, <2>8, <2>9, <2>10, <2>11, <2>12, <2>13 DEF
       Execute
<1>4. ASSUME NEW r \in Msg, Fault(r) PROVE OnlyProcessed
  <2>1. CASE TurnError(r)
    BY <2>1 DEF TurnError
  <2>2. CASE RaiseFromStart(r)
    BY <2>2 DEF RaiseFromStart, Pop, PopDriven
  <2>3. CASE RaiseInMember(r)
    BY <2>3 DEF RaiseInMember
  <2>4. CASE CancelRun(r)
    BY <2>4 DEF CancelRun
  <2>. QED
    BY <1>4, <2>1, <2>2, <2>3, <2>4 DEF Fault
<1>5. CASE Close
  <2>1. CASE CloseSession
    BY <2>1 DEF CloseSession
  <2>2. CASE CloseMark
    BY <2>2 DEF CloseMark, ClosingRun
  <2>3. CASE CloseAgent
    BY <2>3 DEF CloseAgent
  <2>4. CASE CloseFinish
    BY <2>4 DEF CloseFinish
  <2>5. CASE CloseTimeout
    BY <2>5 DEF CloseTimeout
  <2>. QED
    BY <1>5, <2>1, <2>2, <2>3, <2>4, <2>5 DEF Close
<1>. QED
  BY <1>1, <1>2, <1>3, <1>4, <1>5 DEF Next

\* A session that is closing gets no run, but from a process_prompt or run_stream call
\* that has looked at is_closing before it was set and does not look again.
THEOREM ClosingCreatesNoRun == Spec => NoRunWhileClosing
<1>1. [Next]_vars => [is_closing => \A r \in runs' \ runs : pc[r] \in Resolving]_vars
  BY CloseCreatesNoRun DEF OnlyProcessed
<1>. QED
  BY <1>1, PTL DEF Spec, NoRunWhileClosing

=============================================================================
