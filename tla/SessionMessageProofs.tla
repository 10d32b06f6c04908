------------------------ MODULE SessionMessageProofs ------------------------
(***************************************************************************)
(* A message a session took is in exactly one place, and the run that is   *)
(* alive is the current one, for every set of messages, every kind of      *)
(* agent and every choice of Events.                                       *)
(***************************************************************************)
EXTENDS SessionServiceProofs, FiniteSetTheorems

-----------------------------------------------------------------------------
(***************************************************************************)
(* The invariant, on sets instead of positions.                            *)
(***************************************************************************)
Once(q) == \A i, j \in DOMAIN q : q[i] = q[j] => i = j

Taken == {m \in Msg : pc[m] \in {"started", "queued", "steered"}}
Run == {m \in Msg : phase[m] # "none"}
Steers == [r \in Msg |-> ToSet(queued_steer[r])]

\* The queued, steered, executed and injected messages and those the runs have taken
\* out of feedback_queue are different ones, and make the ones the session took.
Apart(queued, fed, steers, run, injected, taken) ==
    \A m \in Msg :
        /\ m \in taken <=> \/ m \in queued \/ m \in fed \/ m \in run \/ m \in injected
                           \/ \E r \in Msg : m \in steers[r]
        /\ m \in queued => m \notin fed /\ m \notin run /\ m \notin injected
        /\ m \in fed => m \notin run /\ m \notin injected
        /\ m \in run => m \notin injected
        /\ \A r \in Msg : m \in steers[r] =>
              /\ m \notin queued /\ m \notin fed /\ m \notin run /\ m \notin injected
              /\ \A s \in Msg : m \in steers[s] => r = s

PlacesApart ==
    Apart(ToSet(prompt_queue), ToSet(feedback_queue), Steers, Run, delivered, Taken)

QueuesOnce ==
    /\ Once(prompt_queue)
    /\ Once(feedback_queue)
    /\ \A r \in Msg : Once(queued_steer[r])

\* A run takes the steered messages as its start() begins, and has none to lose then.
NoSteersBefore == \A r \in Msg : phase[r] \in {"none", "created"} => queued_steer[r] = <<>>

MessageInv == PlacesApart /\ QueuesOnce /\ NoSteersBefore

-----------------------------------------------------------------------------
(***************************************************************************)
(* Queues without repetitions.                                             *)
(***************************************************************************)
LEMMA OnceAppend ==
    ASSUME NEW q \in Seq(Msg), Once(q), NEW m \in Msg, m \notin ToSet(q)
    PROVE  Once(Append(q, m))
<1> DEFINE p == Append(q, m)
<1>1. /\ DOMAIN p = 1..(Len(q) + 1) /\ DOMAIN q = 1..Len(q) /\ Len(q) \in Nat
      /\ \A i \in 1..Len(q) : p[i] = q[i]
      /\ p[Len(q) + 1] = m
  BY AppendProperties
<1> HIDE DEF p
<1>2. \A i \in DOMAIN p : (i \in DOMAIN q /\ p[i] = q[i]) \/ (i = Len(q) + 1 /\ p[i] = m)
  BY <1>1
<1>3. \A i \in DOMAIN q : q[i] # m
  BY DEF ToSet
<1>4. Once(p)
  BY <1>2, <1>3 DEF Once
<1>. QED
  BY <1>4 DEF p

LEMMA OnceTail ==
    ASSUME NEW q \in Seq(Msg), Once(q), q # <<>>
    PROVE  Once(Tail(q)) /\ ToSet(Tail(q)) = ToSet(q) \ {Head(q)} /\ Head(q) \in ToSet(q)
<1> DEFINE p == Tail(q)
<1>1. /\ Len(q) \in Nat \ {0} /\ DOMAIN q = 1..Len(q) /\ DOMAIN p = 1..(Len(q) - 1)
      /\ \A i \in DOMAIN p : p[i] = q[i + 1]
      /\ Head(q) = q[1]
  BY HeadTailProperties, EmptySeq
<1> HIDE DEF p
<1>2. \A i \in DOMAIN p : i + 1 \in DOMAIN q /\ i + 1 # 1 /\ p[i] = q[i + 1]
  BY <1>1
<1>3. \A i, j \in DOMAIN p : p[i] = p[j] => i + 1 = j + 1
  BY <1>2 DEF Once
<1>4. Once(p)
  BY <1>1, <1>3 DEF Once
<1>5. Head(q) \notin ToSet(p)
  BY <1>1, <1>2 DEF Once, ToSet
<1>6. ToSet(q) = {Head(q)} \cup ToSet(p) /\ Head(q) \in ToSet(q)
  BY QueueMembers DEF p
<1>. QED
  BY <1>4, <1>5, <1>6 DEF p

LEMMA OnceWithout ==
    ASSUME NEW q \in Seq(Msg), Once(q), NEW x \in ToSet(q)
    PROVE  Once(Without(q, x)) /\ ToSet(Without(q, x)) = ToSet(q) \ {x}
<1> DEFINE p == Without(q, x)
<1>0. Contains(q, x)
  BY DEF Contains, ToSet
<1>1. PICK k \in 1..Len(q) :
          q[k] = x /\ \A i \in 1..(Len(q) - 1) : p[i] = IF i <= k - 1 THEN q[i] ELSE q[i + 1]
  BY <1>0, WithoutElements
<1>2. DOMAIN p = 1..(Len(q) - 1) /\ DOMAIN q = 1..Len(q) /\ Len(q) \in Nat
  <2>1. p \in Seq(Msg) /\ Len(p) = Len(q) - 1
    BY <1>0, WithoutElements
  <2> HIDE DEF p
  <2>. QED
    BY <2>1
<1> HIDE DEF p
<1> DEFINE at(i) == IF i <= k - 1 THEN i ELSE i + 1
<1>3. \A i \in DOMAIN p : at(i) \in DOMAIN q /\ at(i) # k /\ p[i] = q[at(i)]
  BY <1>1, <1>2
<1>4. \A i, j \in DOMAIN p : at(i) = at(j) => i = j
  BY <1>1, <1>2
<1>5. \A j \in DOMAIN q : j # k => \E i \in DOMAIN p : at(i) = j
  <2> SUFFICES ASSUME NEW j \in DOMAIN q, j # k PROVE \E i \in DOMAIN p : at(i) = j
    OBVIOUS
  <2>1. CASE j <= k - 1
    BY <1>1, <1>2, <2>1
  <2>2. CASE ~(j <= k - 1)
    <3>1. j - 1 \in DOMAIN p /\ at(j - 1) = j
      BY <1>1, <1>2, <2>2
    <3>. QED
      BY <3>1
  <2>. QED
    BY <2>1, <2>2
<1> HIDE DEF at
<1>6. Once(p)
  BY <1>3, <1>4 DEF Once
<1>7. \A j \in DOMAIN q : q[j] = x <=> j = k
  BY <1>1, <1>2 DEF Once
<1>8. ToSet(p) \subseteq ToSet(q) \ {x}
  BY <1>3, <1>7 DEF ToSet
<1>9. ToSet(q) \ {x} \subseteq ToSet(p)
  <2> SUFFICES ASSUME NEW j \in DOMAIN q, q[j] # x PROVE q[j] \in ToSet(p)
    BY DEF ToSet
  <2>1. PICK i \in DOMAIN p : at(i) = j
    BY <1>5, <1>7
  <2>2. p[i] = q[j]
    BY <1>3, <2>1
  <2>. QED
    BY <2>2 DEF ToSet
<1>. QED
  BY <1>6, <1>8, <1>9 DEF p

-----------------------------------------------------------------------------
(***************************************************************************)
(* What moves from one place to another.                                   *)
(***************************************************************************)

\* A new message is queued, steered, executed or injected.
LEMMA ApartArrives ==
    ASSUME NEW queued, NEW fed, NEW steers, NEW run, NEW injected, NEW taken,
           Apart(queued, fed, steers, run, injected, taken),
           NEW m \in Msg, m \notin taken
    PROVE  /\ Apart(queued \cup {m}, fed, steers, run, injected, taken \cup {m})
           /\ Apart(queued, fed \cup {m}, steers, run, injected, taken \cup {m})
           /\ Apart(queued, fed, steers, run \cup {m}, injected, taken \cup {m})
           /\ Apart(queued, fed, steers, run, injected \cup {m}, taken \cup {m})
  BY DEF Apart

\* A queued prompt gets its run.
LEMMA ApartRuns ==
    ASSUME NEW queued, NEW fed, NEW steers, NEW run, NEW injected, NEW taken,
           Apart(queued, fed, steers, run, injected, taken),
           NEW m \in queued
    PROVE  Apart(queued \ {m}, fed, steers, run \cup {m}, injected, taken)
  BY DEF Apart

\* Run r takes what waits in feedback_queue.
LEMMA ApartTakes ==
    ASSUME NEW queued, NEW fed, NEW steers, NEW run, NEW injected, NEW taken,
           Apart(queued, fed, steers, run, injected, taken),
           NEW r \in Msg, steers[r] = {}, DOMAIN steers = Msg
    PROVE  Apart(queued, {}, [steers EXCEPT ![r] = fed], run, injected, taken)
<1> DEFINE after == [steers EXCEPT ![r] = fed]
<1>1. after[r] = fed /\ \A s \in Msg \ {r} : after[s] = steers[s]
  OBVIOUS
<1> HIDE DEF after
<1>2. Apart(queued, {}, after, run, injected, taken)
  BY <1>1 DEF Apart
<1>. QED
  BY <1>2 DEF after

\* Run r hands what it has taken to its agent.
LEMMA ApartDrains ==
    ASSUME NEW queued, NEW fed, NEW steers, NEW run, NEW injected, NEW taken,
           Apart(queued, fed, steers, run, injected, taken),
           NEW r \in Msg, DOMAIN steers = Msg
    PROVE  Apart(queued, fed, [steers EXCEPT ![r] = {}], run, injected \cup steers[r], taken)
<1> DEFINE after == [steers EXCEPT ![r] = {}]
<1>1. after[r] = {} /\ \A s \in Msg \ {r} : after[s] = steers[s]
  OBVIOUS
<1> HIDE DEF after
<1>2. Apart(queued, fed, after, run, injected \cup steers[r], taken)
  BY <1>1 DEF Apart
<1>. QED
  BY <1>2 DEF after

\* A steered message is revoked.
LEMMA ApartRevokes ==
    ASSUME NEW queued, NEW fed, NEW steers, NEW run, NEW injected, NEW taken,
           Apart(queued, fed, steers, run, injected, taken),
           NEW m \in fed
    PROVE  Apart(queued, fed \ {m}, steers, run, injected, taken \ {m})
  BY DEF Apart

-----------------------------------------------------------------------------
(***************************************************************************)
(* The kinds of steps.                                                     *)
(***************************************************************************)
TakenStates == {"started", "queued", "steered"}
Kept == UNCHANGED <<prompt_queue, feedback_queue, queued_steer, delivered>>
SameRuns ==
    \A x \in Msg : /\ phase'[x] = "none" <=> phase[x] = "none"
                   /\ phase'[x] = "created" => phase[x] = "created"

\* Nothing moves.
LEMMA NothingMoves ==
    ASSUME MessageInv, Kept, SameRuns,
           \A x \in Msg : pc'[x] \in TakenStates <=> pc[x] \in TakenStates
    PROVE  MessageInv'
<1>1. Run' = Run /\ Taken' = Taken /\ Steers' = Steers
  BY DEF Run, Taken, Steers, Kept, SameRuns, TakenStates
<1>2. PlacesApart'
  BY <1>1 DEF MessageInv, PlacesApart, Kept
<1>. QED
  BY <1>2 DEF MessageInv, Kept, SameRuns, QueuesOnce, NoSteersBefore

\* The call of m goes on, or ends without m being taken.
LEMMA CallGoesOn ==
    ASSUME MessageInv, TypeOK, Kept, UNCHANGED phase, NEW m \in Msg, NEW s, Settle(m, s),
           pc[m] \notin TakenStates, s \notin TakenStates
    PROVE  MessageInv'
<1>1. \A x \in Msg : pc'[x] \in TakenStates <=> pc[x] \in TakenStates
  BY DEF Settle, TypeOK
<1>. QED
  BY <1>1, NothingMoves DEF SameRuns

\* m is taken.
LEMMA CallTakes ==
    ASSUME TypeOK, NEW m \in Msg, NEW s \in TakenStates, Settle(m, s)
    PROVE  Taken' = Taken \cup {m}
  BY DEF Settle, TypeOK, Taken, TakenStates

\* m is steered: into the agent_run, or to feedback_queue.
LEMMA SteerMoves ==
    ASSUME MessageInv, TypeOK, NEW m \in Msg, pc[m] \notin TakenStates,
           \/ \E r : Steer(m, r)
           \/ feedback_queue' = Append(feedback_queue, m) /\ UNCHANGED delivered,
           Settle(m, "steered"), UNCHANGED <<phase, prompt_queue, queued_steer>>
    PROVE  MessageInv'
<1>1. Taken' = Taken \cup {m} /\ m \notin Taken
  BY CallTakes DEF Taken, TakenStates
<1>2. Run' = Run /\ Steers' = Steers
  BY DEF Run, Steers
<1>3. CASE delivered' = delivered \cup {m} /\ UNCHANGED feedback_queue
  <2>1. PlacesApart'
    BY <1>1, <1>2, <1>3, ApartArrives DEF MessageInv, PlacesApart
  <2>. QED
    BY <1>3, <2>1 DEF MessageInv, QueuesOnce, NoSteersBefore
<1>4. CASE feedback_queue' = Append(feedback_queue, m) /\ UNCHANGED delivered
  <2>1. /\ feedback_queue \in Seq(Msg) /\ m \notin ToSet(feedback_queue)
    BY <1>1 DEF TypeOK, MessageInv, PlacesApart, Apart
  <2>2. Once(feedback_queue') /\ ToSet(feedback_queue') = ToSet(feedback_queue) \cup {m}
    BY <1>4, <2>1, OnceAppend, QueueMembers DEF MessageInv, QueuesOnce
  <2>3. Apart(ToSet(prompt_queue), ToSet(feedback_queue) \cup {m}, Steers, Run, delivered, Taken \cup {m})
    BY <1>1, ApartArrives DEF MessageInv, PlacesApart
  <2>4. PlacesApart'
    BY <1>1, <1>2, <1>4, <2>2, <2>3 DEF PlacesApart
  <2>. QED
    BY <1>4, <2>2, <2>4 DEF MessageInv, QueuesOnce, NoSteersBefore
<1>. QED
  BY <1>3, <1>4 DEF Steer

\* m is queued.
LEMMA QueueMoves ==
    ASSUME MessageInv, TypeOK, NEW m \in Msg, pc[m] \notin TakenStates,
           prompt_queue' = Append(prompt_queue, m), Settle(m, "queued"),
           UNCHANGED <<phase, feedback_queue, queued_steer, delivered>>
    PROVE  MessageInv'
<1>1. Taken' = Taken \cup {m} /\ m \notin Taken
  BY CallTakes DEF Taken, TakenStates
<1>2. Run' = Run /\ Steers' = Steers
  BY DEF Run, Steers
<1>3. /\ prompt_queue \in Seq(Msg) /\ m \notin ToSet(prompt_queue)
  BY <1>1 DEF TypeOK, MessageInv, PlacesApart, Apart
<1>4. Once(prompt_queue') /\ ToSet(prompt_queue') = ToSet(prompt_queue) \cup {m}
  BY <1>3, OnceAppend, QueueMembers DEF MessageInv, QueuesOnce
<1>5. Apart(ToSet(prompt_queue) \cup {m}, ToSet(feedback_queue), Steers, Run, delivered, Taken \cup {m})
  BY <1>1, ApartArrives DEF MessageInv, PlacesApart
<1>6. PlacesApart'
  BY <1>1, <1>2, <1>4, <1>5 DEF PlacesApart
<1>. QED
  BY <1>4, <1>6 DEF MessageInv, QueuesOnce, NoSteersBefore

\* start() of r takes the steered messages.
LEMMA EnterMoves ==
    ASSUME MessageInv, TypeOK, NEW r \in Msg, phase[r] \in {"none", "created"},
           queued_steer' = [queued_steer EXCEPT ![r] = feedback_queue], feedback_queue' = <<>>
    PROVE  /\ DOMAIN Steers = Msg /\ Steers[r] = {}
           /\ Steers' = [Steers EXCEPT ![r] = ToSet(feedback_queue)]
           /\ ToSet(feedback_queue') = {} /\ Once(feedback_queue')
           /\ \A x \in Msg : Once(queued_steer[x])'
           /\ \A x \in Msg \ {r} : queued_steer'[x] = queued_steer[x]
<1>1. /\ queued_steer'[r] = feedback_queue /\ \A x \in Msg \ {r} : queued_steer'[x] = queued_steer[x]
      /\ queued_steer[r] = <<>>
  BY DEF TypeOK, MessageInv, NoSteersBefore
<1>2. ToSet(<<>>) = {} /\ Once(<<>>)
  BY DEF ToSet, Once
<1>3. \A x \in Msg : Steers'[x] = IF x = r THEN ToSet(feedback_queue) ELSE Steers[x]
  BY <1>1 DEF Steers
<1>4. DOMAIN Steers = Msg /\ DOMAIN Steers' = Msg /\ Steers[r] = {}
  BY <1>1, <1>2 DEF Steers
<1>5. Steers' = [Steers EXCEPT ![r] = ToSet(feedback_queue)]
  BY <1>3, <1>4 DEF Steers
<1>. QED
  BY <1>1, <1>2, <1>4, <1>5 DEF MessageInv, QueuesOnce

\* A run is created for a new message or the first queued one.
LEMMA RunAppears ==
    ASSUME TypeOK, NEW n \in Msg, NEW p \in Phase \ {"none"},
           \/ phase' = [phase EXCEPT ![n] = p]
           \/ \E r \in Run \ {n} : phase' = [phase EXCEPT ![r] = "done", ![n] = p]
    PROVE  Run' = Run \cup {n}
  BY DEF TypeOK, Run

\* A run is created for the message m of a call that had none, ...
LEMMA RunCreated ==
    ASSUME TypeOK, MessageInv, NEW m \in Msg, pc[m] \notin TakenStates, Settle(m, "started"),
           NEW p \in Phase \ {"none"}, phase' = [phase EXCEPT ![m] = p]
    PROVE  /\ phase[m] = "none" /\ Run' = Run \cup {m} /\ Taken' = Taken \cup {m}
           /\ Apart(ToSet(prompt_queue), ToSet(feedback_queue), Steers, Run', delivered, Taken')
<1>1. m \notin Taken /\ phase[m] = "none"
  BY DEF Taken, TakenStates, MessageInv, PlacesApart, Apart, Run
<1>2. Run' = Run \cup {m} /\ Taken' = Taken \cup {m}
  BY RunAppears, CallTakes DEF TakenStates
<1>. QED
  BY <1>1, <1>2, ApartArrives DEF MessageInv, PlacesApart

\* ... and takes the steered messages as its start() begins.
LEMMA RunEntered ==
    ASSUME TypeOK, MessageInv, NEW m \in Msg, pc[m] \notin TakenStates, Settle(m, "started"),
           NEW p \in Phase \ {"none", "created"}, phase' = [phase EXCEPT ![m] = p],
           queued_steer' = [queued_steer EXCEPT ![m] = feedback_queue], feedback_queue' = <<>>,
           UNCHANGED <<prompt_queue, delivered>>
    PROVE  MessageInv'
<1>2. /\ phase[m] = "none" /\ Run' = Run \cup {m}
      /\ Apart(ToSet(prompt_queue), ToSet(feedback_queue), Steers, Run', delivered, Taken')
  BY RunCreated
<1>3. /\ DOMAIN Steers = Msg /\ Steers[m] = {}
      /\ Steers' = [Steers EXCEPT ![m] = ToSet(feedback_queue)]
      /\ ToSet(feedback_queue') = {} /\ Once(feedback_queue')
      /\ \A x \in Msg : Once(queued_steer[x])'
      /\ \A x \in Msg \ {m} : queued_steer'[x] = queued_steer[x]
  BY <1>2, EnterMoves
<1>4. Apart(ToSet(prompt_queue), {}, [Steers EXCEPT ![m] = ToSet(feedback_queue)], Run', delivered, Taken')
  BY <1>2, <1>3, ApartTakes
<1>5. PlacesApart'
  BY <1>3, <1>4 DEF PlacesApart
<1>6. NoSteersBefore'
  BY <1>3 DEF NoSteersBefore, MessageInv, TypeOK
<1>. QED
  BY <1>3, <1>5, <1>6 DEF MessageInv, QueuesOnce

\* A run that exists goes from one phase to another.
LEMMA RunGoesOn ==
    ASSUME TypeOK, MessageInv, NEW r \in Msg, phase[r] # "none", NEW p, p \notin {"none", "created"},
           phase' = [phase EXCEPT ![r] = p], Kept, UNCHANGED pc
    PROVE  MessageInv'
<1>1. SameRuns
  BY DEF SameRuns, TypeOK
<1>. QED
  BY <1>1, NothingMoves

\* The first queued prompt gets its run, and run r is done.
LEMMA RunChained ==
    ASSUME TypeOK, MessageInv, NEW r \in Msg, phase[r] # "none", prompt_queue # <<>>,
           NEW p \in Phase \ {"none"}, UNCHANGED <<pc, delivered>>,
           phase' = [phase EXCEPT ![r] = "done", ![Head(prompt_queue)] = p],
           prompt_queue' = Tail(prompt_queue)
    PROVE  /\ Head(prompt_queue) \in Msg /\ phase[Head(prompt_queue)] = "none"
           /\ Head(prompt_queue) # r
           /\ Apart(ToSet(prompt_queue'), ToSet(feedback_queue), Steers, Run', delivered, Taken')
           /\ Once(prompt_queue')
<1> DEFINE n == Head(prompt_queue)
<1>1. /\ n \in Msg /\ n \in ToSet(prompt_queue) /\ Once(prompt_queue')
      /\ ToSet(prompt_queue') = ToSet(prompt_queue) \ {n}
  BY QueueMembers, OnceTail DEF TypeOK, MessageInv, QueuesOnce
<1>2. phase[n] = "none"
  BY <1>1 DEF MessageInv, PlacesApart, Apart, Run
<1>3. Run' = Run \cup {n}
  <2>1. r \in Run \ {n}
    BY <1>2 DEF Run
  <2>. QED
    BY <1>1, <2>1, RunAppears
<1>4. Apart(ToSet(prompt_queue) \ {n}, ToSet(feedback_queue), Steers, Run \cup {n}, delivered, Taken)
  BY <1>1, ApartRuns DEF MessageInv, PlacesApart
<1>5. Taken' = Taken
  BY DEF Taken
<1>. QED
  BY <1>1, <1>2, <1>3, <1>4, <1>5

\* No hand-over loses or doubles a message.
LEMMA MessageNext == TypeOK /\ MessageInv /\ [Next]_vars => MessageInv'
<1> SUFFICES ASSUME TypeOK, MessageInv, [Next]_vars PROVE MessageInv'
  OBVIOUS
<1> USE DEF handleVars, sessionVars, TakenStates, Kept
<1>1. ASSUME NEW m \in Msg, Call(m) PROVE MessageInv'
  <2>1. CASE SendMessage(m)
    <3>1. PICK s \in {"rejected", "queue", "steer"} : Settle(m, s)
      BY <2>1 DEF SendMessage, Waiting
    <3>. QED
      BY <2>1, <3>1, CallGoesOn DEF SendMessage
  <2>2. CASE InjectPrompt(m)
    <3>1. pc[m] \notin TakenStates /\ UNCHANGED <<phase, prompt_queue, queued_steer>>
      BY <2>2 DEF InjectPrompt, Resolving
    <3>2. CASE HasRunHandle
      BY <2>2, <3>1, <3>2, SteerMoves DEF InjectPrompt, SteerRegistered
    <3>3. CASE ~HasRunHandle
      BY <2>2, <3>1, <3>3, CallGoesOn DEF InjectPrompt, SteerRegistered
    <3>. QED
      BY <3>2, <3>3
  <2>3. CASE BackgroundSteer(m)
    <3>1. pc[m] \notin TakenStates /\ UNCHANGED <<phase, prompt_queue, queued_steer>>
      BY <2>3 DEF BackgroundSteer
    <3>2. CASE closing = "closed"
      BY <2>3, <3>1, <3>2, CallGoesOn DEF BackgroundSteer
    <3>3. CASE closing # "closed" /\ HasRunHandle
      BY <2>3, <3>1, <3>3, SteerMoves DEF BackgroundSteer
    <3>4. CASE closing # "closed" /\ ~HasRunHandle
      BY <2>3, <3>1, <3>4, SteerMoves DEF BackgroundSteer
    <3>. QED
      BY <3>2, <3>3, <3>4
  <2>4. CASE Followup(m)
    <3>1. /\ UNCHANGED <<phase, feedback_queue, queued_steer>> /\ pc[m] \notin TakenStates
          /\ \/ Settle(m, "rejected") /\ UNCHANGED <<prompt_queue, delivered>>
             \/ Settle(m, "queued") /\ prompt_queue' = Append(prompt_queue, m) /\ UNCHANGED delivered
             \/ Settle(m, "queued") /\ delivered' = delivered \cup {m} /\ UNCHANGED prompt_queue
      BY <2>4 DEF Followup
    <3>2. CASE Settle(m, "rejected") /\ UNCHANGED <<prompt_queue, delivered>>
      BY <3>1, <3>2, CallGoesOn
    <3>3. CASE Settle(m, "queued") /\ prompt_queue' = Append(prompt_queue, m) /\ UNCHANGED delivered
      BY <3>1, <3>3, QueueMoves
    <3>4. CASE Settle(m, "queued") /\ delivered' = delivered \cup {m} /\ UNCHANGED prompt_queue
      <4>1. Taken' = Taken \cup {m} /\ m \notin Taken
        BY <3>1, <3>4, CallTakes DEF Taken
      <4>2. Run' = Run /\ Steers' = Steers
        BY <3>1 DEF Run, Steers
      <4>3. PlacesApart'
        BY <3>1, <3>4, <4>1, <4>2, ApartArrives DEF MessageInv, PlacesApart
      <4>. QED
        BY <3>1, <3>4, <4>3 DEF MessageInv, QueuesOnce, NoSteersBefore
    <3>. QED
      BY <3>1, <3>2, <3>3, <3>4
  <2>5. CASE ProcessPrompt(m)
    <3>1. PICK s \in {"rejected", "resolve_agent", "resolve_empty"} : Settle(m, s)
      BY <2>5 DEF ProcessPrompt, Waiting
    <3>. QED
      BY <2>5, <3>1, CallGoesOn DEF ProcessPrompt
  <2>6. CASE Revoke(m)
    <3>1. /\ Contains(feedback_queue, m) /\ feedback_queue' = Without(feedback_queue, m)
          /\ UNCHANGED <<phase, prompt_queue, queued_steer, delivered>> /\ Settle(m, "revoked")
      BY <2>6 DEF Revoke
    <3>2. feedback_queue \in Seq(Msg) /\ m \in ToSet(feedback_queue)
      BY <3>1, QueueMembers DEF TypeOK
    <3>3. Once(feedback_queue') /\ ToSet(feedback_queue') = ToSet(feedback_queue) \ {m}
      BY <3>1, <3>2, OnceWithout DEF MessageInv, QueuesOnce
    <3>4. Run' = Run /\ Steers' = Steers /\ Taken' = Taken \ {m}
      BY <3>1 DEF Run, Steers, Taken, Settle, TypeOK
    <3>5. Apart(ToSet(prompt_queue), ToSet(feedback_queue) \ {m}, Steers, Run, delivered, Taken \ {m})
      BY <3>2, ApartRevokes DEF MessageInv, PlacesApart
    <3>6. PlacesApart'
      BY <3>1, <3>3, <3>4, <3>5 DEF PlacesApart
    <3>. QED
      BY <3>1, <3>3, <3>6 DEF MessageInv, QueuesOnce, NoSteersBefore
  <2>. QED
    BY <1>1, <2>1, <2>2, <2>3, <2>4, <2>5, <2>6 DEF Call
<1>2. ASSUME NEW m \in Msg, Route(m) PROVE MessageInv'
  <2>1. CASE RouteReject(m)
    BY <2>1, CallGoesOn DEF RouteReject, Waiting
  <2>2. CASE RouteIdle(m)
    <3>1. /\ Settle(m, "started") /\ pc[m] \notin TakenStates /\ Kept
          /\ phase' = [phase EXCEPT ![m] = "created"] /\ "created" \in Phase \ {"none"}
      BY <2>2 DEF RouteIdle, GoTo, Waiting, Phase
    <3>2. /\ phase[m] = "none"
          /\ Apart(ToSet(prompt_queue), ToSet(feedback_queue), Steers, Run', delivered, Taken')
      BY <3>1, RunCreated
    <3>3. Steers' = Steers
      BY <3>1 DEF Steers
    <3>4. PlacesApart'
      BY <3>1, <3>2, <3>3 DEF PlacesApart
    <3>. QED
      BY <3>1, <3>2, <3>4 DEF MessageInv, QueuesOnce, NoSteersBefore, TypeOK
  <2>3. CASE RouteSteer(m)
    BY <2>3, SteerMoves DEF RouteSteer
  <2>4. CASE RouteQueue(m)
    BY <2>4, QueueMoves DEF RouteQueue
  <2>5. CASE ProcessBusy(m)
    <3>1. pc[m] \notin TakenStates /\ UNCHANGED <<phase, prompt_queue, queued_steer>>
      BY <2>5 DEF ProcessBusy, Resolving
    <3>2. CASE HasRunHandle
      BY <2>5, <3>1, <3>2, SteerMoves DEF ProcessBusy, SteerRegistered
    <3>3. CASE ~HasRunHandle
      BY <2>5, <3>1, <3>3, CallGoesOn DEF ProcessBusy, SteerRegistered
    <3>. QED
      BY <3>2, <3>3
  <2>6. CASE ProcessIdle(m)
    <3>1. Entered(turn_lock) \in Phase \ {"none", "created"}
      BY DEF Entered, Phase, WaitPhases, TurnPhases, EndPhases
    <3>2. /\ pc[m] \notin TakenStates /\ Settle(m, "started")
          /\ phase' = [phase EXCEPT ![m] = Entered(turn_lock)]
          /\ queued_steer' = [queued_steer EXCEPT ![m] = feedback_queue] /\ feedback_queue' = <<>>
          /\ UNCHANGED <<prompt_queue, delivered>>
      BY <2>6 DEF ProcessIdle, GoTo, EnterStart, Resolving
    <3>. QED
      BY <3>1, <3>2, RunEntered
  <2>7. CASE ProcessEmpty(m)
    <3>1. "done" \in Phase \ {"none", "created"}
      BY DEF Entered, Phase, WaitPhases, TurnPhases, EndPhases
    <3>2. /\ pc[m] \notin TakenStates /\ Settle(m, "started")
          /\ phase' = [phase EXCEPT ![m] = "done"]
          /\ queued_steer' = [queued_steer EXCEPT ![m] = feedback_queue] /\ feedback_queue' = <<>>
          /\ UNCHANGED <<prompt_queue, delivered>>
      BY <2>7 DEF ProcessEmpty, GoTo, EnterStart, Resolving
    <3>. QED
      BY <3>1, <3>2, RunEntered
  <2>8. CASE ProcessEmptyWaits(m)
    <3>1. "wait_empty" \in Phase \ {"none", "created"}
      BY DEF Entered, Phase, WaitPhases, TurnPhases, EndPhases
    <3>2. /\ pc[m] \notin TakenStates /\ Settle(m, "started")
          /\ phase' = [phase EXCEPT ![m] = "wait_empty"]
          /\ queued_steer' = [queued_steer EXCEPT ![m] = feedback_queue] /\ feedback_queue' = <<>>
          /\ UNCHANGED <<prompt_queue, delivered>>
      BY <2>8 DEF ProcessEmptyWaits, GoTo, EnterStart, Resolving
    <3>. QED
      BY <3>1, <3>2, RunEntered
  <2>. QED
    BY <1>2, <2>1, <2>2, <2>3, <2>4, <2>5, <2>6, <2>7, <2>8 DEF Route
<1>3. ASSUME NEW r \in Msg, Execute(r) PROVE MessageInv'
  <2>1. CASE BeginConsume(r)
    <3>1. /\ phase[r] = "created" /\ phase' = [phase EXCEPT ![r] = Entered(turn_lock)]
              /\ queued_steer' = [queued_steer EXCEPT ![r] = feedback_queue] /\ feedback_queue' = <<>>
          /\ UNCHANGED <<pc, prompt_queue, delivered>>
      BY <2>1 DEF BeginConsume, GoTo, EnterStart
    <3>2. Entered(turn_lock) \notin {"none", "created"}
      BY DEF Entered
    <3>3. Run' = Run /\ Taken' = Taken
      BY <3>1, <3>2 DEF Run, Taken, TypeOK
    <3>4. /\ DOMAIN Steers = Msg /\ Steers[r] = {}
          /\ Steers' = [Steers EXCEPT ![r] = ToSet(feedback_queue)]
          /\ ToSet(feedback_queue') = {} /\ Once(feedback_queue')
          /\ \A x \in Msg : Once(queued_steer[x])'
          /\ \A x \in Msg \ {r} : queued_steer'[x] = queued_steer[x]
      BY <3>1, EnterMoves
    <3>5. Apart(ToSet(prompt_queue), {}, [Steers EXCEPT ![r] = ToSet(feedback_queue)], Run, delivered, Taken)
      BY <3>4, ApartTakes DEF MessageInv, PlacesApart
    <3>6. PlacesApart'
      BY <3>1, <3>3, <3>4, <3>5 DEF PlacesApart
    <3>7. NoSteersBefore'
      BY <3>1, <3>2, <3>4 DEF NoSteersBefore, MessageInv, TypeOK
    <3>. QED
      BY <3>1, <3>4, <3>6, <3>7 DEF MessageInv, QueuesOnce
  <2>2. CASE TakeTurn(r)
    BY <2>2, RunGoesOn DEF TakeTurn, GoTo, WaitPhases
  <2>3. CASE ReturnFromStart(r)
    BY <2>3, RunGoesOn DEF ReturnFromStart, GoTo, WaitPhases
  <2>4. CASE Activate(r)
    <3>1. CASE NativeAgent
      <4>1. /\ phase[r] = "starting" /\ phase' = [phase EXCEPT ![r] = "active"]
            /\ delivered' = delivered \cup ToSet(queued_steer[r])
            /\ queued_steer' = [queued_steer EXCEPT ![r] = <<>>]
            /\ UNCHANGED <<pc, prompt_queue, feedback_queue>>
        BY <2>4, <3>1 DEF Activate, GoTo, DrainQueuedSteer
      <4>2. queued_steer'[r] = <<>> /\ \A x \in Msg \ {r} : queued_steer'[x] = queued_steer[x]
        BY <4>1 DEF TypeOK
      <4>3. ToSet(<<>>) = {} /\ Once(<<>>)
        BY DEF ToSet, Once
      <4>4. Run' = Run /\ Taken' = Taken
        BY <4>1 DEF Run, Taken, TypeOK
      <4>5. DOMAIN Steers = Msg /\ Steers' = [Steers EXCEPT ![r] = {}] /\ Steers[r] = ToSet(queued_steer[r])
        BY <4>2, <4>3 DEF Steers
      <4>6. Apart(ToSet(prompt_queue), ToSet(feedback_queue), [Steers EXCEPT ![r] = {}], Run,
                  delivered \cup Steers[r], Taken)
        BY <4>5, ApartDrains DEF MessageInv, PlacesApart
      <4>7. PlacesApart'
        BY <4>1, <4>4, <4>5, <4>6 DEF PlacesApart
      <4>8. QueuesOnce'
        BY <4>1, <4>2, <4>3 DEF MessageInv, QueuesOnce
      <4>9. NoSteersBefore'
        BY <4>1, <4>2 DEF MessageInv, NoSteersBefore, TypeOK
      <4>. QED
        BY <4>7, <4>8, <4>9 DEF MessageInv
    <3>2. CASE ~NativeAgent
      BY <2>4, <3>2, RunGoesOn DEF Activate, GoTo, DrainQueuedSteer
    <3>. QED
      BY <3>1, <3>2
  <2>5. CASE StopAgent(r)
    BY <2>5, RunGoesOn DEF StopAgent, GoTo
  <2>6. CASE EndDriven(r)
    BY <2>6, RunGoesOn DEF EndDriven, TurnEnds, GoTo
  <2>7. CASE LeadNotified(r)
    BY <2>7, RunGoesOn DEF LeadNotified, GoTo
  <2>8. CASE GoIdle(r)
    BY <2>8, RunGoesOn DEF GoIdle, TurnEnds, GoTo
  <2>9. CASE ChainNext(r)
    <3> DEFINE n == Head(prompt_queue)
               p == Entered(Without(turn_lock, r))
    <3>1. /\ phase[r] # "none" /\ prompt_queue # <<>> /\ prompt_queue' = Tail(prompt_queue)
          /\ phase' = [phase EXCEPT ![r] = "done", ![n] = p]
          /\ queued_steer' = [queued_steer EXCEPT ![n] = feedback_queue] /\ feedback_queue' = <<>>
          /\ UNCHANGED <<pc, delivered>>
      BY <2>9 DEF ChainNext, ChainCondition, TurnEnds, EnterStart
    <3>2. p \in Phase \ {"none", "created"}
      BY DEF Entered, Phase, WaitPhases, TurnPhases
    <3>3. /\ n \in Msg /\ phase[n] = "none" /\ n # r /\ Once(prompt_queue')
          /\ Apart(ToSet(prompt_queue'), ToSet(feedback_queue), Steers, Run', delivered, Taken')
      BY <3>1, <3>2, RunChained
    <3>4. /\ DOMAIN Steers = Msg /\ Steers[n] = {}
          /\ Steers' = [Steers EXCEPT ![n] = ToSet(feedback_queue)]
          /\ ToSet(feedback_queue') = {} /\ Once(feedback_queue')
          /\ \A x \in Msg : Once(queued_steer[x])'
          /\ \A x \in Msg \ {n} : queued_steer'[x] = queued_steer[x]
      BY <3>1, <3>3, EnterMoves
    <3>5. Apart(ToSet(prompt_queue'), {}, [Steers EXCEPT ![n] = ToSet(feedback_queue)], Run', delivered, Taken')
      BY <3>3, <3>4, ApartTakes
    <3>6. PlacesApart'
      BY <3>1, <3>4, <3>5 DEF PlacesApart
    <3>7. NoSteersBefore'
      <4>1. phase'[n] = p /\ phase'[r] = "done" /\ \A x \in Msg \ {n, r} : phase'[x] = phase[x]
        BY <3>1, <3>3 DEF TypeOK
      <4>. QED
        BY <3>2, <3>4, <4>1 DEF NoSteersBefore, MessageInv
    <3>. QED
      BY <3>3, <3>4, <3>6, <3>7 DEF MessageInv, QueuesOnce
  <2>10. CASE CancelGracefully(r)
    BY <2>10, RunGoesOn DEF CancelGracefully, GoTo
  <2>11. CASE CancelTurn(r)
    BY <2>11, RunGoesOn DEF CancelTurn, GoTo, TurnPhases
  <2>12. CASE LeaveCancelled(r)
    <3>1. PICK p \in {"done", "cancelled"} : phase' = [phase EXCEPT ![r] = p]
      BY <2>12 DEF LeaveCancelled, GoTo
    <3>2. phase[r] # "none" /\ Kept /\ UNCHANGED pc
      BY <2>12 DEF LeaveCancelled, WaitPhases
    <3>. QED
      BY <3>1, <3>2, RunGoesOn
  <2>13. CASE CleanupCancelled(r)
    <3> DEFINE n == Head(prompt_queue)
    <3>1. /\ phase[r] = "cancelled" /\ UNCHANGED <<pc, feedback_queue, queued_steer, delivered>>
          /\ \/ /\ prompt_queue # <<>> /\ prompt_queue' = Tail(prompt_queue)
                /\ phase' = [phase EXCEPT ![r] = "done", ![n] = "created"]
             \/ prompt_queue' = prompt_queue /\ phase' = [phase EXCEPT ![r] = "done"]
      BY <2>13 DEF CleanupCancelled, ChainCondition, GoTo
    <3>2. CASE prompt_queue' = prompt_queue /\ phase' = [phase EXCEPT ![r] = "done"]
      BY <3>1, <3>2, RunGoesOn
    <3>3. CASE /\ prompt_queue # <<>> /\ prompt_queue' = Tail(prompt_queue)
               /\ phase' = [phase EXCEPT ![r] = "done", ![n] = "created"]
      <4>1. "created" \in Phase \ {"none"}
        BY DEF Phase
      <4>2. /\ n \in Msg /\ phase[n] = "none" /\ n # r /\ Once(prompt_queue')
            /\ Apart(ToSet(prompt_queue'), ToSet(feedback_queue), Steers, Run', delivered, Taken')
        BY <3>1, <3>3, <4>1, RunChained
      <4>3. Steers' = Steers
        BY <3>1 DEF Steers
      <4>4. PlacesApart'
        BY <3>1, <4>2, <4>3 DEF PlacesApart
      <4>5. phase'[r] = "done" /\ \A x \in Msg \ {n, r} : phase'[x] = phase[x]
        BY <3>3, <4>2 DEF TypeOK
      <4>6. NoSteersBefore'
        BY <3>1, <4>2, <4>5 DEF NoSteersBefore, MessageInv
      <4>. QED
        BY <3>1, <4>2, <4>4, <4>6 DEF MessageInv, QueuesOnce
    <3>. QED
      BY <3>1, <3>2, <3>3
  <2>. QED
    BY <1>3, <2>1, <2>2, <2>3, <2>4, <2>5, <2>6, <2>7, <2>8, <2>9, <2>10, <2>11, <2>12, <2>13 DEF
       Execute
<1>4. ASSUME NEW r \in Msg, Fault(r) PROVE MessageInv'
  <2>1. CASE TurnError(r)
    <3>1. PICK p \in {"stopping", "ending"} : phase' = [phase EXCEPT ![r] = p]
      BY <2>1 DEF TurnError, GoTo
    <3>. QED
      BY <2>1, <3>1, RunGoesOn DEF TurnError
  <2>2. CASE RaiseFromStart(r)
    BY <2>2, RunGoesOn DEF RaiseFromStart, GoTo
  <2>3. CASE RaiseInMember(r)
    BY <2>3, RunGoesOn DEF RaiseInMember, GoTo
  <2>4. CASE CancelRun(r)
    BY <2>4, NothingMoves DEF CancelRun, SameRuns
  <2>. QED
    BY <1>4, <2>1, <2>2, <2>3, <2>4 DEF Fault
<1>5. CASE Close
  <2>1. CASE CloseSession
    BY <2>1, NothingMoves DEF CloseSession, SameRuns
  <2>2. CASE CloseMark
    BY <2>2, NothingMoves DEF CloseMark, SameRuns
  <2>3. CASE CloseAgent
    BY <2>3, NothingMoves DEF CloseAgent, SameRuns
  <2>4. CASE CloseFinish
    BY <2>4, NothingMoves DEF CloseFinish, SameRuns
  <2>5. CASE CloseTimeout
    BY <2>5, NothingMoves DEF CloseTimeout, SameRuns
  <2>. QED
    BY <1>5, <2>1, <2>2, <2>3, <2>4, <2>5 DEF Close
<1>6. CASE UNCHANGED vars
  BY <1>6, NothingMoves DEF vars, SameRuns
<1>. QED
  BY <1>1, <1>2, <1>3, <1>4, <1>5, <1>6 DEF Next

LEMMA MessageInit == Init => MessageInv
<1> SUFFICES ASSUME Init PROVE MessageInv
  OBVIOUS
<1>1. ToSet(<<>>) = {} /\ Once(<<>>)
  BY DEF ToSet, Once
<1>2. /\ prompt_queue = <<>> /\ feedback_queue = <<>> /\ \A r \in Msg : queued_steer[r] = <<>>
      /\ delivered = {} /\ \A m \in Msg : phase[m] = "none" /\ pc[m] = "unsent"
  BY DEF Init
<1>3. Run = {} /\ Taken = {} /\ \A r \in Msg : Steers[r] = {}
  BY <1>1, <1>2 DEF Run, Taken, Steers
<1>. QED
  BY <1>1, <1>2, <1>3 DEF MessageInv, PlacesApart, Apart, QueuesOnce, NoSteersBefore

-----------------------------------------------------------------------------
(***************************************************************************)
(* Back to positions.                                                      *)
(***************************************************************************)
At(q, m) == {i \in DOMAIN q : q[i] = m}

LEMMA Positions ==
    ASSUME NEW q, Once(q), NEW m
    PROVE  /\ m \notin ToSet(q) => At(q, m) = {}
           /\ m \in ToSet(q) => \E i : At(q, m) = {i}
  BY DEF Once, At, ToSet

\* What Places(m) puts together.
LEMMA PlacesAre ==
    ASSUME NEW m \in Msg
    PROVE  \A x : x \in Places(m) <=>
              \/ \E i \in At(prompt_queue, m) : x = <<"prompt_queue", i>>
              \/ \E i \in At(feedback_queue, m) : x = <<"feedback_queue", i>>
              \/ \E r \in Msg : \E i \in At(queued_steer[r], m) : x = <<r, i>>
              \/ phase[m] # "none" /\ x = <<"run">>
              \/ m \in delivered /\ x = <<"agent">>
<1> DEFINE P == {<<"prompt_queue", i>> : i \in At(prompt_queue, m)}
           F == {<<"feedback_queue", i>> : i \in At(feedback_queue, m)}
           T(r) == {<<r, i>> : i \in At(queued_steer[r], m)}
           Q == UNION {T(r) : r \in Msg}
           R == IF phase[m] # "none" THEN {<<"run">>} ELSE {}
           A == IF m \in delivered THEN {<<"agent">>} ELSE {}
<1>1. Places(m) = P \cup F \cup Q \cup R \cup A
  BY DEF Places, At
<1>2. \A x : x \in P <=> \E i \in At(prompt_queue, m) : x = <<"prompt_queue", i>>
  OBVIOUS
<1>3. \A x : x \in F <=> \E i \in At(feedback_queue, m) : x = <<"feedback_queue", i>>
  OBVIOUS
<1>4. \A x : x \in Q <=> \E r \in Msg : \E i \in At(queued_steer[r], m) : x = <<r, i>>
  OBVIOUS
<1>5. \A x : (x \in R <=> phase[m] # "none" /\ x = <<"run">>) /\ (x \in A <=> m \in delivered /\ x = <<"agent">>)
  OBVIOUS
<1> HIDE DEF P, F, Q, R, A
<1>. QED
  BY <1>1, <1>2, <1>3, <1>4, <1>5

LEMMA OnePlace == MessageInv => MessageInOnePlace
<1> SUFFICES ASSUME MessageInv, NEW m \in Msg
             PROVE  Cardinality(Places(m)) = IF m \in Taken THEN 1 ELSE 0
  BY DEF MessageInOnePlace, Taken
<1> USE DEF MessageInv
<1>1. /\ (m \notin ToSet(prompt_queue) => At(prompt_queue, m) = {})
      /\ (m \in ToSet(prompt_queue) => \E i : At(prompt_queue, m) = {i})
      /\ (m \notin ToSet(feedback_queue) => At(feedback_queue, m) = {})
      /\ (m \in ToSet(feedback_queue) => \E i : At(feedback_queue, m) = {i})
  BY Positions DEF QueuesOnce
<1>2. \A r \in Msg : /\ m \notin Steers[r] => At(queued_steer[r], m) = {}
                     /\ m \in Steers[r] => \E i : At(queued_steer[r], m) = {i}
  BY Positions DEF QueuesOnce, Steers
<1>3. m \in Run <=> phase[m] # "none"
  BY DEF Run
<1>4. Apart(ToSet(prompt_queue), ToSet(feedback_queue), Steers, Run, delivered, Taken)
  BY DEF PlacesApart
<1>5. CASE m \notin Taken
  <2>1. /\ m \notin ToSet(prompt_queue) /\ m \notin ToSet(feedback_queue) /\ m \notin Run
        /\ m \notin delivered /\ \A r \in Msg : m \notin Steers[r]
    BY <1>4, <1>5 DEF Apart
  <2>2. Places(m) = {}
    BY <1>1, <1>2, <1>3, <2>1, PlacesAre
  <2>. QED
    BY <1>5, <2>2, FS_EmptySet
<1>6. CASE m \in Taken
  <2>1. \A p : Places(m) = {p} => Cardinality(Places(m)) = 1
    BY FS_Singleton
  <2>2. CASE m \in ToSet(prompt_queue)
    <3>1. /\ m \notin ToSet(feedback_queue) /\ m \notin Run
          /\ m \notin delivered /\ \A r \in Msg : m \notin Steers[r]
      BY <1>4, <2>2 DEF Apart
    <3>2. PICK i : At(prompt_queue, m) = {i}
      BY <1>1, <2>2
    <3>3. Places(m) = {<<"prompt_queue", i>>}
      BY <1>1, <1>2, <1>3, <3>1, <3>2, PlacesAre
    <3>. QED
      BY <1>6, <2>1, <3>3
  <2>3. CASE m \in ToSet(feedback_queue)
    <3>1. /\ m \notin ToSet(prompt_queue) /\ m \notin Run
          /\ m \notin delivered /\ \A r \in Msg : m \notin Steers[r]
      BY <1>4, <2>3 DEF Apart
    <3>2. PICK i : At(feedback_queue, m) = {i}
      BY <1>1, <2>3
    <3>3. Places(m) = {<<"feedback_queue", i>>}
      BY <1>1, <1>2, <1>3, <3>1, <3>2, PlacesAre
    <3>. QED
      BY <1>6, <2>1, <3>3
  <2>4. CASE m \in Run
    <3>1. /\ m \notin ToSet(prompt_queue) /\ m \notin ToSet(feedback_queue)
          /\ m \notin delivered /\ \A r \in Msg : m \notin Steers[r]
      BY <1>4, <2>4 DEF Apart
    <3>2. Places(m) = {<<"run">>}
      BY <1>1, <1>2, <1>3, <2>4, <3>1, PlacesAre
    <3>. QED
      BY <1>6, <2>1, <3>2
  <2>5. CASE m \in delivered
    <3>1. /\ m \notin ToSet(prompt_queue) /\ m \notin ToSet(feedback_queue)
          /\ m \notin Run /\ \A r \in Msg : m \notin Steers[r]
      BY <1>4, <2>5 DEF Apart
    <3>2. Places(m) = {<<"agent">>}
      BY <1>1, <1>2, <1>3, <2>5, <3>1, PlacesAre
    <3>. QED
      BY <1>6, <2>1, <3>2
  <2>6. ASSUME NEW r \in Msg, m \in Steers[r] PROVE Cardinality(Places(m)) = 1
    <3>1. /\ m \notin ToSet(prompt_queue) /\ m \notin ToSet(feedback_queue)
          /\ m \notin Run /\ m \notin delivered /\ \A s \in Msg : m \in Steers[s] => r = s
      BY <1>4, <2>6 DEF Apart
    <3>2. PICK i : At(queued_steer[r], m) = {i}
      BY <1>2, <2>6
    <3>3. \A s \in Msg \ {r} : At(queued_steer[s], m) = {}
      BY <1>2, <3>1
    <3>4. Places(m) = {<<r, i>>}
      BY <1>1, <1>3, <3>1, <3>2, <3>3, PlacesAre
    <3>. QED
      BY <2>1, <3>4
  <2>. QED
    BY <1>4, <1>6, <2>2, <2>3, <2>4, <2>5, <2>6 DEF Apart
<1>. QED
  BY <1>5, <1>6

-----------------------------------------------------------------------------
\* A message the session took is in exactly one place: no hand-over between prompt_queue,
\* feedback_queue, the runs and the agent loses or doubles one, whatever cancellations,
\* failures and closes come in between.
THEOREM MessagesInOnePlace == Spec => []MessageInOnePlace
<1>1. Init => MessageInv
  BY MessageInit
<1>2. IndInv /\ MessageInv /\ [Next]_vars => MessageInv'
  BY MessageNext DEF IndInv
<1>. QED
  BY <1>1, <1>2, OnePlace, Invariance, PTL DEF Spec

-----------------------------------------------------------------------------
(***************************************************************************)
(* The run that is alive.                                                  *)
(***************************************************************************)
Alive == Before \cup TurnPhases

\* Until the session closes: every run that is before or in its turn is registered and not
\* complete, so that it is the current one; a run has no complete_event before it exists;
\* and a task that has gone on to another run has left its first one behind.
LiveInv ==
    ~is_closing =>
        /\ runs \ complete \subseteq {current_run_id}
        /\ \A r \in Msg : phase[r] \in Alive => r \in runs \ complete
        /\ \A r \in complete : phase[r] # "none"
        /\ \A r \in Msg : task[r] \in {None, r} \/ phase[task[r]] = "done"

\* No run of another is alive beside one that is.
LEMMA AliveAlone ==
    ASSUME TypeOK, LiveInv, ~is_closing, NEW r \in Msg, phase[r] \in Alive
    PROVE  current_run_id = r /\ runs \ complete = {r}
<1>1. r \in runs \ complete /\ runs \ complete \subseteq {current_run_id}
  BY DEF LiveInv
<1>. QED
  BY <1>1

\* A run is created where none is alive.
LEMMA LiveCreated ==
    ASSUME TypeOK, LiveInv, ~is_closing, NEW m \in Msg, phase[m] = "none", runs \ complete = {},
           NEW p \in Alive, phase' = [phase EXCEPT ![m] = p], NEW d \in {None, m},
           task' = [task EXCEPT ![m] = d], runs' = runs \cup {m}, current_run_id' = m,
           UNCHANGED <<complete, is_closing>>
    PROVE  LiveInv'
<1>1. "none" \notin Alive /\ "done" \notin Alive
  BY DEF Alive, Before, WaitPhases, TurnPhases
<1>2. phase'[m] = p /\ \A x \in Msg \ {m} : phase'[x] = phase[x] /\ task'[x] = task[x]
  BY DEF TypeOK
<1>3. task'[m] = d
  BY DEF TypeOK
<1>4. m \notin complete
  BY DEF LiveInv
<1>5. \A x \in Msg : task'[x] \in {None, x} \/ phase'[task'[x]] = "done"
  BY <1>2, <1>3 DEF LiveInv, TypeOK
<1>. QED
  BY <1>1, <1>2, <1>4, <1>5 DEF LiveInv, TypeOK

\* A run goes on with its turn, or towards it.
LEMMA LiveGoesOn ==
    ASSUME TypeOK, LiveInv, ~is_closing, NEW r \in Msg, phase[r] \in Alive,
           NEW p \in Alive, phase' = [phase EXCEPT ![r] = p],
           UNCHANGED <<task, runs, complete, current_run_id, is_closing>>
    PROVE  LiveInv'
  BY DEF LiveInv, TypeOK, Alive, Before, WaitPhases, TurnPhases

\* A run ends: it is complete, and not registered any more or not yet popped.
LEMMA LiveEnds ==
    ASSUME TypeOK, LiveInv, ~is_closing, NEW r \in Msg, phase[r] \in Alive,
           NEW p \in EndPhases, phase' = [phase EXCEPT ![r] = p], complete' = complete \cup {r},
           runs' \subseteq runs, UNCHANGED <<task, is_closing>>
    PROVE  LiveInv'
<1>1. runs' \ complete' = {}
  BY AliveAlone
<1>2. \A x \in Msg : phase'[x] \in Alive => FALSE
  BY <1>1, AliveAlone DEF LiveInv, TypeOK, Alive, Before, WaitPhases, TurnPhases, EndPhases
<1>3. \A x \in complete' : phase'[x] # "none"
  BY DEF LiveInv, TypeOK, EndPhases, Alive, Before, WaitPhases, TurnPhases
<1>4. \A x \in Msg : phase[x] = "done" => phase'[x] = "done"
  BY DEF TypeOK, Alive, Before, WaitPhases, TurnPhases
<1>. QED
  BY <1>1, <1>2, <1>3, <1>4 DEF LiveInv, TypeOK

\* Nothing happens to the runs.
LEMMA LiveSame ==
    ASSUME LiveInv, is_closing => is_closing', UNCHANGED <<phase, task, runs, complete, current_run_id>>
    PROVE  LiveInv'
  BY DEF LiveInv

\* The prompt that is chained has no run yet.
LEMMA ChainedPrompt ==
    ASSUME ServiceInv, NEW r \in Msg, NEW p, prompt_queue # <<>>, phase[r] # "none",
           prompt_queue' = Tail(prompt_queue),
           phase' = [phase EXCEPT ![r] = "done", ![Head(prompt_queue)] = p]
    PROVE  /\ Head(prompt_queue) \in Msg \ {r} /\ phase[Head(prompt_queue)] = "none"
           /\ phase'[Head(prompt_queue)] = p /\ phase'[r] = "done"
<1>1. prompt_queue \in Seq(Msg)
  BY DEF ServiceInv, IndInv, TypeOK
<1>2. Head(prompt_queue) \in ToSet(prompt_queue)
  BY <1>1, QueueMembers
<1>. QED
  BY <1>2, Dequeued, QueuedNone DEF ServiceInv

\* No step leaves a run alive beside the current one.
LEMMA LiveNext == ServiceInv /\ LiveInv /\ [Next]_vars => LiveInv'
<1> SUFFICES ASSUME ServiceInv, LiveInv, [Next]_vars, ~is_closing' PROVE LiveInv'
  BY DEF LiveInv
<1>0. TypeOK
  BY DEF ServiceInv, IndInv
<1> USE <1>0 DEF handleVars, sessionVars, closeVars
<1>1. ASSUME NEW m \in Msg, Call(m) PROVE LiveInv'
  <2>1. CASE SendMessage(m)
    BY <2>1, LiveSame DEF SendMessage
  <2>2. CASE InjectPrompt(m)
    BY <2>2, LiveSame DEF InjectPrompt
  <2>3. CASE BackgroundSteer(m)
    BY <2>3, LiveSame DEF BackgroundSteer
  <2>4. CASE Followup(m)
    BY <2>4, LiveSame DEF Followup
  <2>5. CASE ProcessPrompt(m)
    BY <2>5, LiveSame DEF ProcessPrompt
  <2>6. CASE Revoke(m)
    BY <2>6, LiveSame DEF Revoke
  <2>. QED
    BY <1>1, <2>1, <2>2, <2>3, <2>4, <2>5, <2>6 DEF Call
<1>2. ASSUME NEW m \in Msg, Route(m) PROVE LiveInv'
  <2>1. CASE RouteReject(m)
    BY <2>1, LiveSame DEF RouteReject
  <2>2. CASE RouteIdle(m)
    <3>1. /\ phase' = [phase EXCEPT ![m] = "created"] /\ task' = [task EXCEPT ![m] = m]
          /\ runs' = runs \cup {m} /\ current_run_id' = m
          /\ UNCHANGED <<complete, is_closing>> /\ ~is_closing
      BY <2>2 DEF RouteIdle, GoTo, Register
    <3>2. phase[m] = "none"
      BY <2>2, QueuedCalls DEF RouteIdle, Waiting, Resolving, ServiceInv
    <3>3. runs \ complete = {}
      BY <2>2, <3>1, ConstantsAssumption DEF RouteIdle, Idle, Stale, LiveInv, TypeOK
    <3>4. "created" \in Alive
      BY DEF Entered, Alive, Before, WaitPhases, TurnPhases
    <3>. QED
      BY <3>1, <3>2, <3>3, <3>4, LiveCreated
  <2>3. CASE RouteSteer(m)
    BY <2>3, LiveSame DEF RouteSteer
  <2>4. CASE RouteQueue(m)
    BY <2>4, LiveSame DEF RouteQueue
  <2>5. CASE ProcessBusy(m)
    BY <2>5, LiveSame DEF ProcessBusy
  <2>6. CASE ProcessIdle(m)
    <3>1. /\ phase' = [phase EXCEPT ![m] = Entered(turn_lock)] /\ task' = [task EXCEPT ![m] = None]
          /\ runs' = runs \cup {m} /\ current_run_id' = m
          /\ UNCHANGED <<complete, is_closing>> /\ ~is_closing
      BY <2>6 DEF ProcessIdle, GoTo, Register
    <3>2. phase[m] = "none"
      BY <2>6, QueuedCalls DEF ProcessIdle, Waiting, Resolving, ServiceInv
    <3>3. runs \ complete = {}
      BY <2>6, <3>1, ConstantsAssumption DEF ProcessIdle, Idle, Stale, LiveInv, TypeOK
    <3>4. Entered(turn_lock) \in Alive
      BY DEF Entered, Alive, Before, WaitPhases, TurnPhases
    <3>. QED
      BY <3>1, <3>2, <3>3, <3>4, LiveCreated
  <2>7. CASE ProcessEmpty(m)
    <3>1. /\ phase' = [phase EXCEPT ![m] = "done"] /\ complete' = complete \cup {m}
          /\ UNCHANGED <<task, runs, current_run_id, is_closing>> /\ ~is_closing
      BY <2>7 DEF ProcessEmpty, GoTo
    <3>2. phase[m] = "none" /\ current_run_id = None
      BY <2>7, QueuedCalls DEF ProcessEmpty, ServiceInv
    <3>. QED
      BY <3>1, <3>2 DEF LiveInv, TypeOK, Alive, Before, WaitPhases, TurnPhases
  <2>8. CASE ProcessEmptyWaits(m)
    <3>1. /\ phase' = [phase EXCEPT ![m] = "wait_empty"] /\ task' = [task EXCEPT ![m] = None]
          /\ runs' = runs \cup {m} /\ current_run_id' = m
          /\ UNCHANGED <<complete, is_closing>> /\ ~is_closing
      BY <2>8 DEF ProcessEmptyWaits, GoTo, Register
    <3>2. phase[m] = "none"
      BY <2>8, QueuedCalls DEF ProcessEmptyWaits, Waiting, Resolving, ServiceInv
    <3>3. runs \ complete = {}
      BY <2>8, <3>1, ConstantsAssumption DEF ProcessEmptyWaits, Idle, Stale, LiveInv, TypeOK
    <3>4. "wait_empty" \in Alive
      BY DEF Entered, Alive, Before, WaitPhases, TurnPhases
    <3>. QED
      BY <3>1, <3>2, <3>3, <3>4, LiveCreated
  <2>. QED
    BY <1>2, <2>1, <2>2, <2>3, <2>4, <2>5, <2>6, <2>7, <2>8 DEF Route
<1>3. ASSUME NEW r \in Msg, Execute(r) PROVE LiveInv'
  <2>1. CASE BeginConsume(r)
    <3>1. /\ phase' = [phase EXCEPT ![r] = Entered(turn_lock)] /\ phase[r] \in Alive /\ ~is_closing
          /\ UNCHANGED <<task, runs, complete, current_run_id, is_closing>>
      BY <2>1 DEF BeginConsume, GoTo, Alive, Before, WaitPhases, TurnPhases
    <3>2. Entered(turn_lock) \in Alive
      BY DEF Entered, Alive, Before, WaitPhases, TurnPhases
    <3>. QED
      BY <3>1, <3>2, LiveGoesOn
  <2>2. CASE TakeTurn(r)
    <3>1. /\ phase' = [phase EXCEPT ![r] = "starting"] /\ phase[r] \in Alive /\ "starting" \in Alive
          /\ UNCHANGED <<task, runs, complete, current_run_id, is_closing>> /\ ~is_closing
      BY <2>2 DEF TakeTurn, GoTo, Alive, Before, WaitPhases, TurnPhases
    <3>. QED
      BY <3>1, LiveGoesOn
  <2>3. CASE ReturnFromStart(r)
    <3>1. /\ phase' = [phase EXCEPT ![r] = "done"] /\ phase[r] \in Alive /\ "done" \in EndPhases
          /\ complete' = complete \cup {r} /\ runs' \subseteq runs
          /\ UNCHANGED <<task, is_closing>> /\ ~is_closing
      BY <2>3 DEF ReturnFromStart, GoTo, LeaveStart, Pop, PopDriven, EndPhases, Alive, Before, WaitPhases, TurnPhases
    <3>. QED
      BY <3>1, LiveEnds
  <2>4. CASE Activate(r)
    <3>1. /\ phase' = [phase EXCEPT ![r] = "active"] /\ phase[r] \in Alive /\ "active" \in Alive
          /\ UNCHANGED <<task, runs, complete, current_run_id, is_closing>> /\ ~is_closing
      BY <2>4 DEF Activate, GoTo, Alive, Before, WaitPhases, TurnPhases
    <3>. QED
      BY <3>1, LiveGoesOn
  <2>5. CASE StopAgent(r)
    <3>1. /\ phase' = [phase EXCEPT ![r] = "ending"] /\ phase[r] \in Alive /\ "ending" \in Alive
          /\ UNCHANGED <<task, runs, complete, current_run_id, is_closing>> /\ ~is_closing
      BY <2>5 DEF StopAgent, GoTo, Alive, Before, WaitPhases, TurnPhases
    <3>. QED
      BY <3>1, LiveGoesOn
  <2>6. CASE EndDriven(r)
    <3>1. /\ phase' = [phase EXCEPT ![r] = "done"] /\ phase[r] \in Alive /\ "done" \in EndPhases
          /\ complete' = complete \cup {r} /\ runs' \subseteq runs
          /\ UNCHANGED <<task, is_closing>> /\ ~is_closing
      BY <2>6 DEF EndDriven, TurnEnds, GoTo, LeaveStart, Pop, PopDriven, EndPhases, Alive, Before, WaitPhases, TurnPhases
    <3>. QED
      BY <3>1, LiveEnds
  <2>7. CASE LeadNotified(r)
    <3>1. /\ phase' = [phase EXCEPT ![r] = "failed"] /\ phase[r] = "failing" /\ ~is_closing
          /\ runs' = runs \ {r} /\ current_run_id' = IF current_run_id = r THEN None ELSE current_run_id
          /\ UNCHANGED <<task, complete, is_closing>>
      BY <2>7 DEF LeadNotified, GoTo, Pop
    <3>2. "failed" \notin Alive /\ "failing" \notin Alive
      BY DEF Alive, Before, WaitPhases, TurnPhases
    <3>. QED
      BY <3>1, <3>2 DEF LiveInv, TypeOK
  <2>8. CASE GoIdle(r)
    <3>1. /\ phase' = [phase EXCEPT ![r] = "done"] /\ phase[r] \in Alive /\ "done" \in EndPhases
          /\ complete' = complete \cup {r} /\ runs' \subseteq runs
          /\ UNCHANGED <<task, is_closing>> /\ ~is_closing
      BY <2>8 DEF GoIdle, TurnEnds, GoTo, LeaveStart, Pop, PopDriven, EndPhases, Alive, Before, WaitPhases, TurnPhases
    <3>. QED
      BY <3>1, LiveEnds
  <2>9. CASE ChainNext(r)
    <3> DEFINE n == Head(prompt_queue)
               p == Entered(Without(turn_lock, r))
    <3>1. /\ phase[r] \in Alive /\ phase[r] # "none" /\ ~is_closing /\ prompt_queue # <<>>
          /\ phase' = [phase EXCEPT ![r] = "done", ![n] = p] /\ prompt_queue' = Tail(prompt_queue)
          /\ runs' = (runs \ {r}) \cup {n} /\ complete' = complete \cup {r}
          /\ current_run_id' = n /\ task' = [task EXCEPT ![n] = task[r]]
      BY <2>9 DEF ChainNext, ChainCondition, TurnEnds, Alive, Before, WaitPhases, TurnPhases
    <3>2. n \in Msg \ {r} /\ phase[n] = "none" /\ phase'[n] = p /\ phase'[r] = "done"
      BY <3>1, ChainedPrompt
    <3>3. runs \ complete = {r} /\ n \notin complete
      BY <3>1, <3>2, AliveAlone DEF LiveInv
    <3>4. p \in Alive /\ "done" \notin Alive /\ "none" \notin Alive
      BY DEF Entered, Alive, Before, WaitPhases, TurnPhases
    <3> HIDE DEF n, p
    <3>5. \A x \in Msg \ {n, r} : phase'[x] = phase[x] /\ task'[x] = task[x]
      BY <3>1, <3>2 DEF TypeOK
    <3>6. task'[n] = task[r] /\ task'[r] = task[r]
      BY <3>1, <3>2 DEF TypeOK
    <3>7. \A x \in Msg : phase[x] = "done" => phase'[x] = "done"
      BY <3>2, <3>5
    <3>8. \A x \in Msg : task'[x] \in {None, x} \/ phase'[task'[x]] = "done"
      BY <3>1, <3>2, <3>5, <3>6, <3>7 DEF LiveInv, TypeOK
    <3>9. \A x \in Msg : phase'[x] \in Alive => x = n
      BY <3>1, <3>2, <3>3, <3>4, <3>5 DEF LiveInv
    <3>10. \A x \in complete' : phase'[x] # "none"
      BY <3>1, <3>2, <3>3, <3>5 DEF LiveInv, TypeOK
    <3>. QED
      BY <3>1, <3>2, <3>3, <3>8, <3>9, <3>10 DEF LiveInv
  <2>10. CASE CancelGracefully(r)
    <3>1. /\ phase' = [phase EXCEPT ![r] = "stopping"] /\ phase[r] \in Alive /\ "stopping" \in Alive
          /\ UNCHANGED <<task, runs, complete, current_run_id, is_closing>> /\ ~is_closing
      BY <2>10 DEF CancelGracefully, GoTo, Alive, Before, WaitPhases, TurnPhases
    <3>. QED
      BY <3>1, LiveGoesOn
  <2>11. CASE CancelTurn(r)
    <3>1. /\ phase' = [phase EXCEPT ![r] = "unwinding"] /\ phase[r] \in Alive /\ "unwinding" \in Alive
          /\ UNCHANGED <<task, runs, complete, current_run_id, is_closing>> /\ ~is_closing
      BY <2>11 DEF CancelTurn, GoTo, Alive, Before, WaitPhases, TurnPhases
    <3>. QED
      BY <3>1, LiveGoesOn
  <2>12. CASE LeaveCancelled(r)
    <3>1. PICK p \in {"done", "cancelled"} : phase' = [phase EXCEPT ![r] = p]
      BY <2>12 DEF LeaveCancelled, GoTo
    <3>2. /\ phase[r] \in Alive /\ p \in EndPhases
          /\ complete' = complete \cup {r} /\ runs' \subseteq runs
          /\ UNCHANGED <<task, is_closing>> /\ ~is_closing
      BY <2>12 DEF LeaveCancelled, LeaveStart, PopDriven, EndPhases, Alive, Before, WaitPhases, TurnPhases
    <3>. QED
      BY <3>1, <3>2, LiveEnds
  <2>13. CASE CleanupCancelled(r)
    <3> DEFINE rid == task[r]
               n == Head(prompt_queue)
    <3>1. phase[r] = "cancelled" /\ complete' = complete \cup ({rid} \cap runs) /\ ~is_closing
      BY <2>13 DEF CleanupCancelled
    <3>2. "cancelled" \notin Alive /\ "done" \notin Alive /\ "none" \notin Alive /\ "created" \in Alive
      BY DEF Alive, Before, WaitPhases, TurnPhases
    <3>3. rid \in runs => phase[rid] \in {"cancelled", "done"}
      BY <3>1, ConstantsAssumption DEF LiveInv, TypeOK
    <3>4. CASE OwnsSession(rid) /\ ChainCondition
      <4>1. /\ phase' = [phase EXCEPT ![r] = "done", ![n] = "created"] /\ prompt_queue # <<>>
            /\ prompt_queue' = Tail(prompt_queue) /\ runs' = (runs \ {rid}) \cup {n}
            /\ current_run_id' = n /\ task' = [task EXCEPT ![n] = n]
        BY <2>13, <3>4 DEF CleanupCancelled, ChainCondition
      <4>2. n \in Msg \ {r} /\ phase[n] = "none" /\ phase'[n] = "created" /\ phase'[r] = "done"
        BY <3>1, <4>1, ChainedPrompt
      <4>3. n \notin complete /\ n # rid
        BY <3>1, <3>3, <3>4, <4>2 DEF LiveInv, OwnsSession
      <4>4. runs \ complete \subseteq {rid}
        BY <3>1, <3>4 DEF LiveInv, OwnsSession
      <4> HIDE DEF n, rid
      <4>5. \A x \in Msg \ {n, r} : phase'[x] = phase[x]
        BY <4>1, <4>2 DEF TypeOK
      <4>6. task'[n] = n /\ \A x \in Msg \ {n} : task'[x] = task[x]
        BY <4>1, <4>2 DEF TypeOK
      <4>7. \A x \in Msg : phase[x] = "done" => phase'[x] = "done"
        BY <4>2, <4>5
      <4>8. \A x \in Msg : task'[x] \in {None, x} \/ phase'[task'[x]] = "done"
        BY <3>1, <4>6, <4>7 DEF LiveInv, TypeOK
      <4>9. \A x \in Msg : phase'[x] \in Alive => x = n
        BY <3>1, <3>2, <3>3, <4>2, <4>4, <4>5 DEF LiveInv
      <4>10. \A x \in complete' : phase'[x] # "none"
        BY <3>1, <3>3, <4>2, <4>3, <4>5 DEF LiveInv, TypeOK
      <4>11. runs' \ complete' = {n}
        BY <3>1, <4>1, <4>3, <4>4
      <4>. QED
        BY <4>1, <4>8, <4>9, <4>10, <4>11 DEF LiveInv
    <3>5. CASE ~(OwnsSession(rid) /\ ChainCondition)
      <4>1. /\ phase' = [phase EXCEPT ![r] = "done"] /\ runs' = runs \ {rid} /\ UNCHANGED task
            /\ current_run_id' = IF OwnsSession(rid) THEN None ELSE current_run_id
        BY <2>13, <3>5 DEF CleanupCancelled, GoTo
      <4>2. phase'[r] = "done" /\ \A x \in Msg \ {r} : phase'[x] = phase[x]
        BY <4>1 DEF TypeOK
      <4>3. runs' \ complete' \subseteq {current_run_id'}
        BY <3>1, <4>1 DEF LiveInv, OwnsSession
      <4>4. \A x \in Msg : phase'[x] \in Alive => x \in runs' \ complete'
        BY <3>1, <3>2, <3>3, <4>1, <4>2 DEF LiveInv
      <4>5. \A x \in complete' : phase'[x] # "none"
        BY <3>1, <3>3, <4>2 DEF LiveInv, TypeOK
      <4>6. \A x \in Msg : task'[x] \in {None, x} \/ phase'[task'[x]] = "done"
        BY <3>1, <4>1, <4>2 DEF LiveInv, TypeOK
      <4>. QED
        BY <4>3, <4>4, <4>5, <4>6 DEF LiveInv
    <3>. QED
      BY <3>4, <3>5
  <2>. QED
    BY <1>3, <2>1, <2>2, <2>3, <2>4, <2>5, <2>6, <2>7, <2>8, <2>9, <2>10, <2>11, <2>12, <2>13 DEF
       Execute
<1>4. ASSUME NEW r \in Msg, Fault(r) PROVE LiveInv'
  <2>1. CASE TurnError(r)
    <3>1. PICK p \in {"stopping", "ending"} : phase' = [phase EXCEPT ![r] = p]
      BY <2>1 DEF TurnError, GoTo
    <3>2. /\ phase[r] \in Alive /\ p \in Alive /\ ~is_closing
          /\ UNCHANGED <<task, runs, complete, current_run_id, is_closing>>
      BY <2>1 DEF TurnError, Alive, Before, WaitPhases, TurnPhases
    <3>. QED
      BY <3>1, <3>2, LiveGoesOn
  <2>2. CASE RaiseFromStart(r)
    <3>1. /\ phase' = [phase EXCEPT ![r] = "failed"] /\ phase[r] \in Alive /\ "failed" \in EndPhases
          /\ complete' = complete \cup {r} /\ runs' \subseteq runs
          /\ UNCHANGED <<task, is_closing>> /\ ~is_closing
      BY <2>2 DEF RaiseFromStart, GoTo, LeaveStart, Pop, PopDriven, EndPhases, Alive, Before, WaitPhases, TurnPhases
    <3>. QED
      BY <3>1, LiveEnds
  <2>3. CASE RaiseInMember(r)
    <3>1. /\ phase' = [phase EXCEPT ![r] = "failing"] /\ phase[r] \in Alive /\ "failing" \in EndPhases
          /\ complete' = complete \cup {r} /\ runs' \subseteq runs
          /\ UNCHANGED <<task, is_closing>> /\ ~is_closing
      BY <2>3 DEF RaiseInMember, GoTo, LeaveStart, Pop, PopDriven, EndPhases, Alive, Before, WaitPhases, TurnPhases
    <3>. QED
      BY <3>1, LiveEnds
  <2>4. CASE CancelRun(r)
    BY <2>4, LiveSame DEF CancelRun
  <2>. QED
    BY <1>4, <2>1, <2>2, <2>3, <2>4 DEF Fault
<1>5. CASE Close
  <2>1. CASE CloseSession
    BY <2>1, LiveSame DEF CloseSession
  <2>2. CASE CloseMark
    BY <2>2 DEF CloseMark
  <2>3. CASE CloseAgent
    BY <2>3, LiveSame DEF CloseAgent
  <2>4. CASE CloseFinish
    BY <2>4, LiveSame DEF CloseFinish
  <2>5. CASE CloseTimeout
    BY <2>5, LiveSame DEF CloseTimeout
  <2>. QED
    BY <1>5, <2>1, <2>2, <2>3, <2>4, <2>5 DEF Close
<1>6. CASE UNCHANGED vars
  BY <1>6, LiveSame DEF vars
<1>. QED
  BY <1>1, <1>2, <1>3, <1>4, <1>5, <1>6 DEF Next

\* Until the session closes, the one run that is not over is the current one, for every
\* set of messages: routing, chaining, driven runs, failures and the clean-up of
\* cancelled runs neither make a second one nor forget the one there is.
THEOREM LiveRunsAreCurrent == Spec => []LiveRunIsCurrent
<1>1. Init => LiveInv
  BY DEF Init, LiveInv, Alive, Before, WaitPhases, TurnPhases
<1>2. Spec => []ServiceInv
  BY ServiceInvariance
<1>3. ServiceInv /\ LiveInv /\ [Next]_vars => LiveInv'
  BY LiveNext
<1>4. LiveInv => LiveRunIsCurrent
  BY DEF LiveInv, LiveRunIsCurrent
<1>. QED
  BY <1>1, <1>2, <1>3, <1>4, PTL DEF Spec

-----------------------------------------------------------------------------
(***************************************************************************)
(* Steers that a run has taken, where every turn of a NativeTurn begins.   *)
(***************************************************************************)
Losses == {"cancel", "raise", "error", "empty", "close_timeout"}
Unpassed == {"none", "created", "wait_turn", "starting"}
Passed == {"active", "ending", "done"}

\* Then a run passes through Activate, and keeps no steer after it.
SteersPassOn ==
    /\ interrupted = {}
    /\ \A m \in Msg : pc[m] # "resolve_empty"
    /\ \A r \in Msg : phase[r] \in Unpassed \cup Passed
    /\ \A r \in Msg : phase[r] \in Passed => queued_steer[r] = <<>>

\* Of each run: nothing happens, it is before Activate, or it has no steers left.
LEMMA SteersKept ==
    ASSUME SteersPassOn, interrupted' = {},
           \A m \in Msg : pc'[m] = "resolve_empty" => pc[m] = "resolve_empty",
           \A r \in Msg : \/ phase'[r] = phase[r] /\ queued_steer'[r] = queued_steer[r]
                          \/ phase'[r] \in Unpassed
                          \/ phase'[r] \in Passed /\ queued_steer'[r] = <<>>
    PROVE  SteersPassOn'
<1>1. ASSUME NEW r \in Msg
      PROVE  /\ phase'[r] \in Unpassed \cup Passed
             /\ phase'[r] \in Passed => queued_steer'[r] = <<>>
  <2>1. CASE phase'[r] = phase[r] /\ queued_steer'[r] = queued_steer[r]
    BY <2>1 DEF SteersPassOn
  <2>2. CASE phase'[r] \in Unpassed
    BY <2>2 DEF Unpassed, Passed
  <2>3. CASE phase'[r] \in Passed /\ queued_steer'[r] = <<>>
    BY <2>3
  <2>. QED
    BY <2>1, <2>2, <2>3
<1>. QED
  BY <1>1 DEF SteersPassOn

LEMMA SteersNext ==
    ASSUME NativeAgent, Events \cap Losses = {}, TypeOK, SteersPassOn, [Next]_vars
    PROVE  SteersPassOn'
<1>0. interrupted = {} /\ \A m \in Msg : pc[m] # "resolve_empty"
  BY DEF SteersPassOn
<1> USE <1>0 DEF handleVars, sessionVars
<1>1. ASSUME NEW m \in Msg, Call(m) PROVE SteersPassOn'
  <2>1. CASE SendMessage(m)
    BY <2>1, SteersKept DEF SendMessage, Settle, TypeOK, Waiting
  <2>2. CASE InjectPrompt(m)
    BY <2>2, SteersKept DEF InjectPrompt, SteerRegistered, Settle, TypeOK
  <2>3. CASE BackgroundSteer(m)
    BY <2>3, SteersKept DEF BackgroundSteer, Settle, TypeOK
  <2>4. CASE Followup(m)
    BY <2>4, SteersKept DEF Followup, Settle, TypeOK
  <2>5. CASE ProcessPrompt(m)
    BY <2>5, SteersKept DEF ProcessPrompt, Settle, TypeOK, Losses
  <2>6. CASE Revoke(m)
    BY <2>6, SteersKept DEF Revoke, Settle, TypeOK
  <2>. QED
    BY <1>1, <2>1, <2>2, <2>3, <2>4, <2>5, <2>6 DEF Call
<1>2. ASSUME NEW m \in Msg, Route(m) PROVE SteersPassOn'
  <2>1. CASE RouteReject(m)
    BY <2>1, SteersKept DEF RouteReject, Settle, TypeOK
  <2>2. CASE RouteIdle(m)
    BY <2>2, SteersKept DEF RouteIdle, GoTo, Settle, TypeOK, Unpassed
  <2>3. CASE RouteSteer(m)
    BY <2>3, SteersKept DEF RouteSteer, Settle, TypeOK
  <2>4. CASE RouteQueue(m)
    BY <2>4, SteersKept DEF RouteQueue, Settle, TypeOK
  <2>5. CASE ProcessBusy(m)
    BY <2>5, SteersKept DEF ProcessBusy, SteerRegistered, Settle, TypeOK
  <2>6. CASE ProcessIdle(m)
    BY <2>6, SteersKept DEF ProcessIdle, GoTo, Settle, EnterStart, Entered, TypeOK, Unpassed
  <2>7. CASE ProcessEmpty(m)
    BY <2>7 DEF ProcessEmpty
  <2>8. CASE ProcessEmptyWaits(m)
    BY <2>8 DEF ProcessEmptyWaits
  <2>. QED
    BY <1>2, <2>1, <2>2, <2>3, <2>4, <2>5, <2>6, <2>7, <2>8 DEF Route
<1>3. ASSUME NEW r \in Msg, Execute(r) PROVE SteersPassOn'
  <2>1. CASE BeginConsume(r)
    BY <2>1, SteersKept DEF BeginConsume, GoTo, EnterStart, Entered, TypeOK, Unpassed
  <2>2. CASE TakeTurn(r)
    BY <2>2, SteersKept DEF TakeTurn, GoTo, TypeOK, Unpassed
  <2>3. CASE ReturnFromStart(r)
    BY <2>3 DEF ReturnFromStart, SteersPassOn, Unpassed, Passed
  <2>4. CASE Activate(r)
    BY <2>4, SteersKept DEF Activate, GoTo, DrainQueuedSteer, TypeOK, Passed
  <2>5. CASE StopAgent(r)
    <3>1. queued_steer[r] = <<>>
      BY <2>5 DEF StopAgent, SteersPassOn, Passed, Unpassed
    <3>. QED
      BY <2>5, <3>1, SteersKept DEF StopAgent, GoTo, TypeOK, Passed
  <2>6. CASE EndDriven(r)
    <3>1. queued_steer[r] = <<>>
      BY <2>6 DEF EndDriven, TurnEnds, SteersPassOn, Passed, Unpassed
    <3>. QED
      BY <2>6, <3>1, SteersKept DEF EndDriven, GoTo, TypeOK, Passed
  <2>7. CASE LeadNotified(r)
    BY <2>7 DEF LeadNotified, SteersPassOn, Unpassed, Passed
  <2>8. CASE GoIdle(r)
    <3>1. queued_steer[r] = <<>>
      BY <2>8 DEF GoIdle, TurnEnds, SteersPassOn, Passed, Unpassed
    <3>. QED
      BY <2>8, <3>1, SteersKept DEF GoIdle, GoTo, TypeOK, Passed
  <2>9. CASE ChainNext(r)
    <3> DEFINE n == Head(prompt_queue)
               p == Entered(Without(turn_lock, r))
    <3>1. n \in Msg /\ queued_steer[r] = <<>>
      BY <2>9, QueueTypes DEF ChainNext, ChainCondition, TurnEnds, SteersPassOn, Unpassed, Passed
    <3>2. /\ phase' = [phase EXCEPT ![r] = "done", ![n] = p]
          /\ queued_steer' = [queued_steer EXCEPT ![n] = feedback_queue]
          /\ UNCHANGED <<pc, interrupted>>
      BY <2>9 DEF ChainNext, EnterStart
    <3>3. p \in Unpassed /\ "done" \in Passed
      BY DEF Entered, Unpassed, Passed
    <3> HIDE DEF n, p
    <3>4. phase'[n] \in Unpassed \/ n = r
      BY <3>1, <3>2, <3>3 DEF TypeOK
    <3>5. phase'[n] = p
      BY <3>1, <3>2 DEF TypeOK
    <3>6. r # n => phase'[r] \in Passed /\ queued_steer'[r] = <<>>
      BY <3>1, <3>2, <3>3 DEF TypeOK
    <3>7. \A x \in Msg \ {n, r} : phase'[x] = phase[x] /\ queued_steer'[x] = queued_steer[x]
      BY <3>1, <3>2 DEF TypeOK
    <3>. QED
      BY <3>2, <3>3, <3>5, <3>6, <3>7, SteersKept
  <2>10. CASE CancelGracefully(r)
    BY <2>10 DEF CancelGracefully
  <2>11. CASE CancelTurn(r)
    BY <2>11 DEF CancelTurn
  <2>12. CASE LeaveCancelled(r)
    BY <2>12 DEF LeaveCancelled, WaitPhases, SteersPassOn, Unpassed, Passed
  <2>13. CASE CleanupCancelled(r)
    BY <2>13 DEF CleanupCancelled, SteersPassOn, Unpassed, Passed
  <2>. QED
    BY <1>3, <2>1, <2>2, <2>3, <2>4, <2>5, <2>6, <2>7, <2>8, <2>9, <2>10, <2>11, <2>12, <2>13 DEF
       Execute
<1>4. ASSUME NEW r \in Msg, Fault(r) PROVE SteersPassOn'
  <2>1. CASE TurnError(r)
    BY <2>1 DEF TurnError, Losses
  <2>2. CASE RaiseFromStart(r)
    BY <2>2 DEF RaiseFromStart, Losses
  <2>3. CASE RaiseInMember(r)
    BY <2>3 DEF RaiseInMember, Losses
  <2>4. CASE CancelRun(r)
    BY <2>4 DEF CancelRun, Losses
  <2>. QED
    BY <1>4, <2>1, <2>2, <2>3, <2>4 DEF Fault
<1>5. CASE Close
  <2>1. CASE CloseSession
    BY <2>1, SteersKept DEF CloseSession
  <2>2. CASE CloseMark
    BY <2>2, SteersKept DEF CloseMark
  <2>3. CASE CloseAgent
    BY <2>3, SteersKept DEF CloseAgent
  <2>4. CASE CloseFinish
    BY <2>4, SteersKept DEF CloseFinish
  <2>5. CASE CloseTimeout
    BY <2>5 DEF CloseTimeout, Losses
  <2>. QED
    BY <1>5, <2>1, <2>2, <2>3, <2>4, <2>5 DEF Close
<1>6. CASE UNCHANGED vars
  BY <1>6, SteersKept DEF vars
<1>. QED
  BY <1>1, <1>2, <1>3, <1>4, <1>5, <1>6 DEF Next

\* With a NativeTurn, where no run is cancelled, no start() or turn fails and no prompt is
\* empty, a steer message that a run took out of feedback_queue has reached that run's
\* agent when the run is over: start() takes what is queued before it waits for turn_lock,
\* the turn drains it, and nothing is taken by a run that is past that.  Each of these
\* conditions is needed: without any of them a message is lost.
THEOREM TakenSteersArrive ==
    ASSUME NativeAgent, Events \cap Losses = {}
    PROVE  Spec => []TakenSteersReachAgent
<1>1. Init => SteersPassOn
  BY DEF Init, SteersPassOn, Unpassed, Passed
<1>2. TypeOK /\ SteersPassOn /\ [Next]_vars => SteersPassOn'
  BY SteersNext
<1>3. SteersPassOn => TakenSteersReachAgent
  BY DEF SteersPassOn, TakenSteersReachAgent, EndPhases, Unpassed, Passed
<1>. QED
  BY <1>1, <1>2, <1>3, TypeCorrectness, PTL DEF Spec
=============================================================================
