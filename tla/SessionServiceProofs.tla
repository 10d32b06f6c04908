------------------------ MODULE SessionServiceProofs ------------------------
(***************************************************************************)
(* SessionRun implements PromptService, for every set of messages and      *)
(* every choice of Events.                                                 *)
(***************************************************************************)
EXTENDS SessionRunProofs

-----------------------------------------------------------------------------
(***************************************************************************)
(* What PromptService sees of a session: the queued prompts and, of each   *)
(* run, whether it exists, waits for its turn, has it or had it.           *)
(***************************************************************************)
Accepted == {m \in Msg : Contains(prompt_queue, m) \/ phase[m] # "none"}
Turn == IF InTurn = {} THEN None ELSE CHOOSE r \in InTurn : TRUE
Over == {m \in Msg : phase[m] \in EndPhases}

\* A run that exists and has not begun its turn.
Before == {"created"} \cup WaitPhases

\* A queued prompt has no run yet and is queued once.  IndInv does not say so: a run
\* that is chained for a prompt that has had one would have a second turn.
QueuedWait ==
    /\ \A i \in DOMAIN prompt_queue : phase[prompt_queue[i]] = "none"
    /\ \A i, j \in DOMAIN prompt_queue : prompt_queue[i] = prompt_queue[j] => i = j

ServiceInv == IndInv /\ QueuedWait

-----------------------------------------------------------------------------
(***************************************************************************)
(* The kinds of steps.                                                     *)
(***************************************************************************)
Same(x) ==
    /\ phase'[x] = "none" <=> phase[x] = "none"
    /\ phase'[x] \in TurnPhases <=> phase[x] \in TurnPhases
    /\ phase'[x] \in EndPhases <=> phase[x] \in EndPhases

\* Nothing happens that PromptService sees.
Quiet ==
    /\ prompt_queue' = prompt_queue
    /\ \A x \in Msg : Same(x)

\* Prompt m is queued.
Queues(m) ==
    /\ prompt_queue' = Append(prompt_queue, m)
    /\ m \notin ToSet(prompt_queue) /\ phase[m] = "none"
    /\ \A x \in Msg : Same(x)

\* Run r, whose prompt is not queued, goes on.
Moves(r, from, to) ==
    /\ prompt_queue' = prompt_queue /\ r \notin ToSet(prompt_queue)
    /\ phase[r] \in from /\ phase'[r] \in to
    /\ \A x \in Msg \ {r} : Same(x)

\* The first queued prompt n is taken out of the queue; of the other prompts only those in
\* but, which are not queued, are affected.
Dequeues(n, but) ==
    /\ prompt_queue # <<>> /\ n = Head(prompt_queue)
    /\ prompt_queue' = Tail(prompt_queue)
    /\ \A x \in but : phase[x] # "none"
    /\ \A x \in Msg \ ({n} \cup but) : Same(x)

\* n gets its run.
Chains(n) == Dequeues(n, {}) /\ phase'[n] \in Before

\* n gets its run in the step that ends the turn of r.
EndsChaining(r, n) ==
    /\ Dequeues(n, {r})
    /\ phase[r] \in TurnPhases /\ phase'[r] \in EndPhases
    /\ phase'[n] \in Before \cup TurnPhases

Step(m) ==
    \/ Queues(m)
    \/ Moves(m, {"none"}, Before)
    \/ Moves(m, {"none"} \cup Before, TurnPhases) /\ InTurn = {}
    \/ Moves(m, {"none"}, EndPhases)
    \/ Moves(m, Before, EndPhases)
    \/ Moves(m, TurnPhases, EndPhases)
    \/ Chains(m)
    \/ \E r \in Msg : EndsChaining(r, m)

-----------------------------------------------------------------------------
\* The queue's members, as PromptService and the steps see them.
LEMMA QueueMembers ==
    ASSUME NEW q \in Seq(Msg)
    PROVE  /\ \A m \in Msg : Contains(q, m) <=> m \in ToSet(q)
           /\ \A m \in Msg : ToSet(Append(q, m)) = ToSet(q) \cup {m}
           /\ q # <<>> => /\ Head(q) \in Msg
                                    /\ ToSet(q)
                                         = {Head(q)} \cup ToSet(Tail(q))
<1>1. q \in Seq(Msg)
  OBVIOUS
<1>2. \A m \in Msg : Contains(q, m) <=> m \in ToSet(q)
  BY <1>1 DEF Contains, ToSet
<1>3. ASSUME NEW m \in Msg PROVE ToSet(Append(q, m)) = ToSet(q) \cup {m}
  <2> DEFINE p == Append(q, m)
  <2>1. /\ DOMAIN p = 1..(Len(q) + 1) /\ DOMAIN q = 1..Len(q)
        /\ Len(q) \in Nat
        /\ \A i \in 1..Len(q) : p[i] = q[i]
        /\ p[Len(q) + 1] = m
    BY <1>1, AppendProperties
  <2> HIDE DEF p
  <2>2. \A i \in DOMAIN p : p[i] \in ToSet(q) \cup {m}
    BY <2>1 DEF ToSet
  <2>3. ASSUME NEW x \in ToSet(q) \cup {m} PROVE x \in ToSet(p)
    <3>1. CASE x = m
      BY <2>1, <3>1 DEF ToSet
    <3>2. CASE x \in ToSet(q)
      <4>1. PICK i \in DOMAIN q : x = q[i]
        BY <3>2 DEF ToSet
      <4>2. i \in DOMAIN p /\ p[i] = x
        BY <2>1, <4>1
      <4>. QED
        BY <4>2 DEF ToSet
    <3>. QED
      BY <2>3, <3>1, <3>2
  <2>4. ToSet(p) \subseteq ToSet(q) \cup {m}
    BY <2>2 DEF ToSet
  <2>. QED
    BY <2>3, <2>4 DEF p
<1>4. ASSUME q # <<>>
      PROVE  /\ Head(q) \in Msg
             /\ ToSet(q) = {Head(q)} \cup ToSet(Tail(q))
  <2> DEFINE p == Tail(q)
  <2>1. /\ Head(q) \in Msg /\ p \in Seq(Msg) /\ Len(p) = Len(q) - 1
        /\ \A i \in 1..Len(p) : p[i] = q[i + 1]
    BY <1>1, <1>4, HeadTailProperties
  <2>2. /\ Len(q) \in Nat \ {0} /\ DOMAIN q = 1..Len(q)
        /\ DOMAIN p = 1..(Len(q) - 1) /\ Head(q) = q[1]
    BY <1>1, <1>4, <2>1, EmptySeq
  <2> HIDE DEF p
  <2>3. ASSUME NEW x \in ToSet(p) PROVE x \in ToSet(q)
    <3>1. PICK i \in DOMAIN p : x = p[i]
      BY DEF ToSet
    <3>2. i + 1 \in DOMAIN q /\ q[i + 1] = x
      BY <2>1, <2>2, <3>1
    <3>. QED
      BY <3>2 DEF ToSet
  <2>4. ASSUME NEW x \in ToSet(q), x # Head(q) PROVE x \in ToSet(p)
    <3>1. PICK i \in DOMAIN q : x = q[i]
      BY DEF ToSet
    <3>2. i - 1 \in DOMAIN p /\ (i - 1) + 1 = i
      BY <2>2, <2>4, <3>1
    <3>3. p[i - 1] = x
      BY <2>1, <2>2, <3>1, <3>2
    <3>. QED
      BY <3>2, <3>3 DEF ToSet
  <2>5. Head(q) \in ToSet(q)
    BY <2>2 DEF ToSet
  <2>. QED
    BY <2>1, <2>3, <2>4, <2>5 DEF p
<1>. QED
  BY <1>2, <1>3, <1>4

-----------------------------------------------------------------------------
(***************************************************************************)
(* Each kind of step keeps QueuedWait, ...                                 *)
(***************************************************************************)
LEMMA QueuedNone ==
    ASSUME QueuedWait, NEW x \in ToSet(prompt_queue)
    PROVE  phase[x] = "none"
  BY DEF QueuedWait, ToSet

\* A step that leaves the queue alone and changes no run of a queued prompt.
LEMMA QuietWaits ==
    ASSUME ServiceInv, prompt_queue' = prompt_queue, \A x \in ToSet(prompt_queue) : Same(x)
    PROVE  QueuedWait'
<1>1. \A i \in DOMAIN prompt_queue : prompt_queue[i] \in ToSet(prompt_queue)
  BY DEF ToSet
<1>2. \A x \in ToSet(prompt_queue) : phase'[x] = "none"
  BY QueuedNone DEF ServiceInv, Same
<1>. QED
  BY <1>1, <1>2 DEF ServiceInv, QueuedWait

LEMMA QueueWaits ==
    ASSUME ServiceInv, NEW m \in Msg, Queues(m)
    PROVE  QueuedWait'
<1>1. prompt_queue \in Seq(Msg) /\ m \notin ToSet(prompt_queue)
  BY DEF ServiceInv, IndInv, TypeOK, Queues
<1>2. /\ DOMAIN prompt_queue' = 1..(Len(prompt_queue) + 1) /\ DOMAIN prompt_queue = 1..Len(prompt_queue)
      /\ Len(prompt_queue) \in Nat
      /\ \A i \in 1..Len(prompt_queue) : prompt_queue'[i] = prompt_queue[i]
      /\ prompt_queue'[Len(prompt_queue) + 1] = m
  <2>1. prompt_queue' = Append(prompt_queue, m)
    BY DEF Queues
  <2>. QED
    BY <1>1, <2>1, AppendProperties
<1>3. ASSUME NEW i \in DOMAIN prompt_queue'
      PROVE  \/ /\ i \in DOMAIN prompt_queue /\ prompt_queue'[i] = prompt_queue[i]
                /\ prompt_queue'[i] # m /\ prompt_queue[i] \in ToSet(prompt_queue)
             \/ i = Len(prompt_queue) + 1 /\ prompt_queue'[i] = m
  <2>1. CASE i \in DOMAIN prompt_queue
    <3>1. prompt_queue'[i] = prompt_queue[i] /\ prompt_queue[i] \in ToSet(prompt_queue)
      BY <1>2, <2>1 DEF ToSet
    <3>. QED
      BY <1>1, <2>1, <3>1
  <2>2. CASE i \notin DOMAIN prompt_queue
    BY <1>2, <2>2
  <2>. QED
    BY <2>1, <2>2
<1>4. \A x \in ToSet(prompt_queue) \cup {m} : phase'[x] = "none"
  <2>1. \A x \in ToSet(prompt_queue) : x \in Msg
    BY <1>1 DEF ToSet
  <2>. QED
    BY <2>1, QueuedNone DEF ServiceInv, Queues, Same
<1>5. \A i \in DOMAIN prompt_queue' : phase'[prompt_queue'[i]] = "none"
  BY <1>3, <1>4
<1>6. \A i, j \in DOMAIN prompt_queue' : prompt_queue'[i] = prompt_queue'[j] => i = j
  BY <1>3 DEF ServiceInv, QueuedWait
<1>. QED
  BY <1>5, <1>6 DEF QueuedWait

LEMMA ChainWaits ==
    ASSUME ServiceInv, NEW n \in Msg, NEW but, Dequeues(n, but)
    PROVE  QueuedWait'
<1>1. prompt_queue \in Seq(Msg) /\ prompt_queue # <<>> /\ prompt_queue' = Tail(prompt_queue)
  BY DEF ServiceInv, IndInv, TypeOK, Dequeues
<1>2. /\ Len(prompt_queue) \in Nat \ {0} /\ DOMAIN prompt_queue = 1..Len(prompt_queue)
      /\ DOMAIN prompt_queue' = 1..(Len(prompt_queue) - 1) /\ n = prompt_queue[1]
      /\ \A i \in DOMAIN prompt_queue' : prompt_queue'[i] = prompt_queue[i + 1]
  <2>1. /\ prompt_queue' \in Seq(Msg) /\ Len(prompt_queue') = Len(prompt_queue) - 1
        /\ \A i \in 1..Len(prompt_queue') : prompt_queue'[i] = prompt_queue[i + 1]
    BY <1>1, HeadTailProperties
  <2>2. n = Head(prompt_queue)
    BY DEF Dequeues
  <2>. QED
    BY <1>1, <2>1, <2>2, EmptySeq
<1>3. ASSUME NEW i \in DOMAIN prompt_queue'
      PROVE  /\ i + 1 \in DOMAIN prompt_queue /\ prompt_queue'[i] = prompt_queue[i + 1]
             /\ prompt_queue[i + 1] \in Msg \ {n} /\ phase[prompt_queue[i + 1]] = "none"
  <2>1. i + 1 \in DOMAIN prompt_queue /\ 1 \in DOMAIN prompt_queue /\ i + 1 # 1
    BY <1>2
  <2>2. prompt_queue[i + 1] # prompt_queue[1]
    BY <2>1 DEF ServiceInv, QueuedWait
  <2>. QED
    BY <1>1, <1>2, <2>1, <2>2 DEF ServiceInv, QueuedWait
<1>4. \A i \in DOMAIN prompt_queue' : phase'[prompt_queue'[i]] = "none"
  BY <1>3 DEF Dequeues, Same
<1>5. ASSUME NEW i \in DOMAIN prompt_queue', NEW j \in DOMAIN prompt_queue',
             prompt_queue'[i] = prompt_queue'[j]
      PROVE  i = j
  <2>1. i + 1 = j + 1
    BY <1>3, <1>5 DEF ServiceInv, QueuedWait
  <2>. QED
    BY <1>2, <2>1
<1>. QED
  BY <1>4, <1>5 DEF QueuedWait

-----------------------------------------------------------------------------
(***************************************************************************)
(* ... and is a step of PromptService or a stutter.                        *)
(***************************************************************************)
Simulated ==
    \/ Service!Next
    \/ Accepted' = Accepted /\ Turn' = Turn /\ Over' = Over

LEMMA PhasesApart ==
    /\ TurnPhases \cap EndPhases = {} /\ TurnPhases \cap Before = {} /\ EndPhases \cap Before = {}
    /\ "none" \notin TurnPhases \cup EndPhases \cup Before
  BY DEF TurnPhases, EndPhases, Before, WaitPhases

LEMMA AcceptedMembers ==
    ASSUME TypeOK, TypeOK'
    PROVE  /\ Accepted = {m \in Msg : m \in ToSet(prompt_queue) \/ phase[m] # "none"}
           /\ Accepted' = {m \in Msg : m \in ToSet(prompt_queue') \/ phase'[m] # "none"}
<1>1. prompt_queue \in Seq(Msg) /\ prompt_queue' \in Seq(Msg)
  BY DEF TypeOK
<1>. QED
  BY <1>1, QueueMembers DEF Accepted

LEMMA TurnOf ==
    ASSUME TurnLockHeld
    PROVE  \A r \in InTurn : InTurn = {r} /\ Turn = r
  BY DEF TurnLockHeld, HoldsTurnLock, InTurn, Turn

LEMMA QuietSimulated ==
    ASSUME ServiceInv, TypeOK', Quiet
    PROVE  Simulated
<1>1. Accepted' = Accepted
  BY AcceptedMembers DEF ServiceInv, IndInv, Accepted, Quiet, Same
<1>2. InTurn' = InTurn /\ Over' = Over
  BY DEF InTurn, Over, Quiet, Same
<1>. QED
  BY <1>1, <1>2 DEF Simulated, Turn

LEMMA QueuesSimulated ==
    ASSUME ServiceInv, TypeOK', NEW m \in Msg, Queues(m)
    PROVE  Simulated
<1> USE DEF ServiceInv, IndInv
<1>1. ToSet(prompt_queue') = ToSet(prompt_queue) \cup {m}
  BY QueueMembers DEF TypeOK, Queues
<1>2. Accepted' = Accepted \cup {m} /\ m \notin Accepted
  BY <1>1, AcceptedMembers DEF Queues, Same
<1>3. InTurn' = InTurn /\ Over' = Over
  BY DEF InTurn, Over, Queues, Same
<1>. QED
  BY <1>2, <1>3 DEF Simulated, Turn, Accepted, Over, Service!Next, Service!Accept

LEMMA ChainMembers ==
    ASSUME ServiceInv, TypeOK', NEW n \in Msg, NEW but, Dequeues(n, but), phase'[n] # "none",
           \A x \in but : phase'[x] # "none"
    PROVE  /\ phase[n] = "none" /\ n \in Accepted
           /\ Accepted' = Accepted
<1>1. ToSet(prompt_queue) = {n} \cup ToSet(prompt_queue') /\ n \in ToSet(prompt_queue)
  BY QueueMembers DEF ServiceInv, IndInv, TypeOK, Dequeues
<1>2. phase[n] = "none"
  BY <1>1, QueuedNone DEF ServiceInv
<1>3. ASSUME NEW x \in Msg PROVE x \in Accepted' <=> x \in Accepted
  BY <1>1, <1>2, AcceptedMembers DEF ServiceInv, IndInv, Dequeues, Same
<1>. QED
  BY <1>1, <1>2, <1>3, AcceptedMembers DEF ServiceInv, IndInv, Accepted

\* Run m is created for a call's prompt and awaits its turn.
LEMMA StartSimulated ==
    ASSUME ServiceInv, TypeOK', NEW m \in Msg, Moves(m, {"none"}, Before)
    PROVE  Simulated
<1> USE DEF ServiceInv, IndInv
<1>1. Accepted' = Accepted \cup {m} /\ m \notin Accepted
  BY AcceptedMembers, PhasesApart DEF Moves, Same
<1>2. InTurn' = InTurn /\ Over' = Over
  BY PhasesApart DEF InTurn, Over, Moves, Same
<1>. QED
  BY <1>1, <1>2 DEF Simulated, Turn, Accepted, Over, Service!Next, Service!Accept

\* An empty prompt gets no turn.
LEMMA SkipSimulated ==
    ASSUME ServiceInv, TypeOK', NEW m \in Msg, Moves(m, {"none"}, EndPhases)
    PROVE  Simulated
<1> USE DEF ServiceInv, IndInv
<1>1. Accepted' = Accepted \cup {m} /\ m \notin Accepted
  BY AcceptedMembers, PhasesApart DEF Moves, Same
<1>2. InTurn' = InTurn /\ Over' = Over \cup {m}
  BY PhasesApart DEF InTurn, Over, Moves, Same
<1>. QED
  BY <1>1, <1>2 DEF Simulated, Turn, Accepted, Over, Service!Next, Service!Skip

\* The clean-up of a cancelled run creates one for a queued prompt.
LEMMA ChainSimulated ==
    ASSUME ServiceInv, TypeOK', NEW n \in Msg, Chains(n)
    PROVE  Simulated
<1>1. phase[n] = "none" /\ Accepted' = Accepted
  BY ChainMembers, PhasesApart DEF Chains
<1>2. InTurn' = InTurn /\ Over' = Over
  BY <1>1, PhasesApart DEF InTurn, Over, Chains, Dequeues, Same
<1>. QED
  BY <1>1, <1>2 DEF Simulated, Turn

\* A turn ends and the run of a queued prompt is created; its turn begins at once, or it
\* awaits its turn.
LEMMA EndChainSimulated ==
    ASSUME ServiceInv, TypeOK', TurnLockHeld', NEW r \in Msg, NEW n \in Msg, EndsChaining(r, n)
    PROVE  Simulated
<1> USE DEF ServiceInv, IndInv
<1>1. /\ phase[n] = "none" /\ n \in Accepted /\ Accepted' = Accepted
      /\ n # r /\ \A x \in Msg \ {n, r} : Same(x)
      /\ phase[r] \in TurnPhases /\ phase'[r] \in EndPhases /\ phase'[n] \in Before \cup TurnPhases
  <2>1. /\ Dequeues(n, {r}) /\ phase'[n] # "none" /\ phase'[r] # "none"
        /\ phase[r] \in TurnPhases /\ phase'[r] \in EndPhases /\ phase'[n] \in Before \cup TurnPhases
    BY PhasesApart DEF EndsChaining
  <2>2. phase[n] = "none" /\ n \in Accepted /\ Accepted' = Accepted
    BY <2>1, ChainMembers
  <2>3. n # r
    BY <2>1, <2>2, PhasesApart
  <2>. QED
    BY <2>1, <2>2, <2>3 DEF Dequeues
<1>2. InTurn = {r} /\ Turn = r /\ r # None
  BY <1>1, TurnOf, ConstantsAssumption DEF InTurn
<1>3. Over' = Over \cup {r} /\ n \notin Over
  BY <1>1, PhasesApart DEF Over, Same
<1>4. CASE phase'[n] \in Before
  <2>1. InTurn' = {}
    BY <1>1, <1>2, <1>4, PhasesApart DEF InTurn, Same
  <2>2. Turn' = None
    BY <2>1 DEF Turn
  <2>. QED
    BY <1>1, <1>2, <1>3, <2>2 DEF Simulated, Turn, Accepted, Over, Service!Next, Service!End
<1>5. CASE phase'[n] \in TurnPhases
  <2>1. InTurn' = {n}
    BY <1>1, <1>2, <1>5, PhasesApart DEF InTurn, Same
  <2>2. Turn' = n
    BY <2>1 DEF Turn
  <2>. QED
    BY <1>1, <1>2, <1>3, <2>2 DEF Simulated, Turn, Accepted, Over, Service!Next,
       Service!Handover
<1>. QED
  BY <1>1, <1>4, <1>5

\* The turn of r begins.
LEMMA BeginSimulated ==
    ASSUME ServiceInv, TypeOK', TurnLockHeld', InTurn = {}, NEW r \in Msg,
           Moves(r, {"none"} \cup Before, TurnPhases)
    PROVE  Simulated
<1> USE DEF ServiceInv, IndInv
<1>1. /\ phase[r] \in {"none"} \cup Before /\ phase'[r] \in TurnPhases
      /\ \A x \in Msg \ {r} : Same(x)
      /\ Accepted' = Accepted \cup {r}
  BY AcceptedMembers, PhasesApart DEF Moves, Same
<1>2. InTurn' = {r} /\ Over' = Over /\ r \notin Over
  BY <1>1, PhasesApart DEF InTurn, Over, Same
<1>3. Turn = None /\ Turn' = r
  BY <1>2 DEF Turn
<1>. QED
  BY <1>1, <1>2, <1>3 DEF Simulated, Turn, Accepted, Over, Service!Next, Service!Begin

\* The turn of r ends.
LEMMA EndSimulated ==
    ASSUME ServiceInv, TypeOK', NEW r \in Msg, Moves(r, TurnPhases, EndPhases)
    PROVE  Simulated
<1> USE DEF ServiceInv, IndInv
<1>1. InTurn = {r} /\ Turn = r
  BY TurnOf DEF InTurn, Moves
<1>2. InTurn' = {} /\ Over' = Over \cup {r}
  BY <1>1, PhasesApart DEF InTurn, Over, Moves, Same
<1>3. Accepted' = Accepted
  BY AcceptedMembers, PhasesApart DEF Moves, Same
<1>4. Turn # None /\ Turn' = None
  BY <1>1, <1>2, ConstantsAssumption DEF Turn
<1>. QED
  BY <1>1, <1>2, <1>3, <1>4 DEF Simulated, Turn, Accepted, Over, Service!Next, Service!End

\* Run r is given up while it waits for its turn.
LEMMA GiveUpSimulated ==
    ASSUME ServiceInv, TypeOK', NEW r \in Msg, Moves(r, Before, EndPhases)
    PROVE  Simulated
<1> USE DEF ServiceInv, IndInv
<1>1. InTurn' = InTurn /\ Over' = Over \cup {r} /\ r \notin Over /\ r \notin InTurn
  BY PhasesApart DEF InTurn, Over, Moves, Same
<1>2. Accepted' = Accepted /\ r \in Accepted
  BY AcceptedMembers, PhasesApart DEF Moves, Same
<1>3. Turn' = Turn /\ r # Turn
  BY <1>1, TurnOf, ConstantsAssumption DEF Turn
<1>. QED
  BY <1>1, <1>2, <1>3 DEF Simulated, Turn, Accepted, Over, Service!Next, Service!GiveUp

LEMMA StepSimulated ==
    ASSUME ServiceInv, TypeOK', TurnLockHeld', Quiet \/ \E m \in Msg : Step(m)
    PROVE  Simulated /\ QueuedWait'
<1>1. CASE Quiet
  <2>1. \A x \in ToSet(prompt_queue) : x \in Msg
    BY DEF ServiceInv, IndInv, TypeOK, ToSet
  <2>. QED
    BY <1>1, <2>1, QuietSimulated, QuietWaits DEF Quiet
<1>2. ASSUME NEW m \in Msg, Step(m) PROVE Simulated /\ QueuedWait'
  <2>0. \A x \in ToSet(prompt_queue) : x \in Msg
    BY DEF ServiceInv, IndInv, TypeOK, ToSet
  <2>1. CASE Queues(m)
    BY <2>1, QueuesSimulated, QueueWaits
  <2>2. ASSUME NEW from, NEW to, Moves(m, from, to) PROVE QueuedWait'
    BY <2>0, <2>2, QuietWaits DEF Moves
  <2>3. CASE Moves(m, {"none"}, Before)
    BY <2>2, <2>3, StartSimulated
  <2>4. CASE Moves(m, {"none"} \cup Before, TurnPhases) /\ InTurn = {}
    BY <2>2, <2>4, BeginSimulated
  <2>5. CASE Moves(m, {"none"}, EndPhases)
    BY <2>2, <2>5, SkipSimulated
  <2>6. CASE Moves(m, Before, EndPhases)
    BY <2>2, <2>6, GiveUpSimulated
  <2>7. CASE Moves(m, TurnPhases, EndPhases)
    BY <2>2, <2>7, EndSimulated
  <2>8. CASE Chains(m)
    BY <2>8, ChainSimulated, ChainWaits DEF Chains
  <2>9. ASSUME NEW r \in Msg, EndsChaining(r, m) PROVE Simulated /\ QueuedWait'
    BY <2>9, EndChainSimulated, ChainWaits DEF EndsChaining
  <2>. QED
    BY <1>2, <2>1, <2>3, <2>4, <2>5, <2>6, <2>7, <2>8, <2>9 DEF Step
<1>. QED
  BY <1>1, <1>2

-----------------------------------------------------------------------------
(***************************************************************************)
(* Every action is one of these steps.                                     *)
(***************************************************************************)

\* A run goes straight into its turn only when turn_lock is free.
LEMMA EnteredPhase ==
    ASSUME IndInv
    PROVE  \/ Entered(turn_lock) \in Before
           \/ Entered(turn_lock) \in TurnPhases /\ InTurn = {}
  BY DEF IndInv, TurnLockHeld, HoldsTurnLock, Entered, InTurn, Before, WaitPhases, TurnPhases

\* A message whose call is not settled has no run and is not queued.
LEMMA QueuedCalls ==
    ASSUME IndInv, NEW m \in Msg, pc[m] \notin {"queued", "started"}
    PROVE  m \notin ToSet(prompt_queue) /\ phase[m] = "none"
  BY DEF IndInv, SettledMessages

LEMMA UnchangedQuiet ==
    ASSUME prompt_queue' = prompt_queue, phase' = phase
    PROVE  Quiet
  BY DEF Quiet, Same

\* A run stays within the phases before, of, or after its turn.
LEMMA StaysQuiet ==
    ASSUME TypeOK, NEW r \in Msg, NEW p, prompt_queue' = prompt_queue,
           phase' = [phase EXCEPT ![r] = p],
           \/ phase[r] \in Before /\ p \in Before
           \/ phase[r] \in TurnPhases /\ p \in TurnPhases
           \/ phase[r] \in EndPhases /\ p \in EndPhases
    PROVE  Quiet
  BY PhasesApart DEF Quiet, Same, TypeOK

\* The call of m gives it a run.
LEMMA CallMoves ==
    ASSUME ServiceInv, NEW m \in Msg, NEW p, prompt_queue' = prompt_queue,
           phase' = [phase EXCEPT ![m] = p], pc[m] \notin {"queued", "started"}
    PROVE  \A to : p \in to => Moves(m, {"none"}, to)
  BY QueuedCalls DEF ServiceInv, IndInv, TypeOK, Moves, Same

\* A run goes on from one kind of phases to the next.
LEMMA RunMoves ==
    ASSUME ServiceInv, NEW r \in Msg, NEW p, prompt_queue' = prompt_queue,
           phase' = [phase EXCEPT ![r] = p], phase[r] # "none"
    PROVE  \A from, to : phase[r] \in from /\ p \in to => Moves(r, from, to)
<1>1. r \notin ToSet(prompt_queue)
  BY QueuedNone DEF ServiceInv
<1>. QED
  BY <1>1 DEF ServiceInv, IndInv, TypeOK, Moves, Same

\* The turn of r is over.
LEMMA TurnOver ==
    ASSUME ServiceInv, NEW r \in Msg, NEW p \in EndPhases, prompt_queue' = prompt_queue,
           phase' = [phase EXCEPT ![r] = p], phase[r] \in TurnPhases
    PROVE  Step(r)
<1>1. phase[r] # "none"
  BY PhasesApart
<1>. QED
  BY <1>1, RunMoves DEF Step

\* A queued prompt's run is created.
LEMMA Dequeued ==
    ASSUME ServiceInv, NEW r \in Msg, NEW p, prompt_queue # <<>>, prompt_queue' = Tail(prompt_queue),
           phase[r] # "none", phase' = [phase EXCEPT ![r] = "done", ![Head(prompt_queue)] = p]
    PROVE  /\ Head(prompt_queue) \in Msg \ {r} /\ Dequeues(Head(prompt_queue), {r})
           /\ phase'[Head(prompt_queue)] = p /\ phase'[r] = "done"
<1> USE DEF ServiceInv, IndInv
<1> DEFINE n == Head(prompt_queue)
<1>1. n \in Msg /\ n \in ToSet(prompt_queue)
  BY QueueMembers DEF TypeOK
<1>2. phase[n] = "none" /\ n # r
  BY <1>1, QueuedNone
<1>3. phase'[n] = p /\ phase'[r] = "done" /\ \A x \in Msg \ {n, r} : phase'[x] = phase[x]
  BY <1>1, <1>2 DEF TypeOK
<1>. QED
  BY <1>1, <1>2, <1>3 DEF Dequeues, Same

\* Every step is one of those PromptService knows, or it does not see it.
LEMMA NextSteps ==
    ASSUME ServiceInv, [Next]_vars
    PROVE  Quiet \/ \E x \in Msg : Step(x)
<1> USE DEF ServiceInv, IndInv, handleVars, sessionVars
<1>1. ASSUME NEW m \in Msg, Call(m) PROVE Quiet \/ \E x \in Msg : Step(x)
  <2>1. CASE SendMessage(m)
    BY <2>1, UnchangedQuiet DEF SendMessage
  <2>2. CASE InjectPrompt(m)
    BY <2>2, UnchangedQuiet DEF InjectPrompt
  <2>3. CASE BackgroundSteer(m)
    BY <2>3, UnchangedQuiet DEF BackgroundSteer
  <2>4. CASE Followup(m)
    <3>1. m \notin ToSet(prompt_queue) /\ phase[m] = "none" /\ phase' = phase
      BY <2>4, QueuedCalls DEF Followup
    <3>2. prompt_queue' = prompt_queue \/ prompt_queue' = Append(prompt_queue, m)
      BY <2>4 DEF Followup
    <3>. QED
      BY <3>1, <3>2, UnchangedQuiet DEF Step, Queues, Same
  <2>5. CASE ProcessPrompt(m)
    BY <2>5, UnchangedQuiet DEF ProcessPrompt
  <2>6. CASE Revoke(m)
    BY <2>6, UnchangedQuiet DEF Revoke
  <2>. QED
    BY <1>1, <2>1, <2>2, <2>3, <2>4, <2>5, <2>6 DEF Call
<1>2. ASSUME NEW m \in Msg, Route(m) PROVE Quiet \/ \E x \in Msg : Step(x)
  <2>1. CASE RouteReject(m)
    BY <2>1, UnchangedQuiet DEF RouteReject
  <2>2. CASE RouteIdle(m)
    <3>1. /\ prompt_queue' = prompt_queue /\ pc[m] \notin {"queued", "started"}
          /\ phase' = [phase EXCEPT ![m] = "created"]
      BY <2>2 DEF RouteIdle, GoTo, Waiting
    <3>2. Moves(m, {"none"}, Before)
      BY <3>1, CallMoves DEF Before, WaitPhases
    <3>. QED
      BY <3>2 DEF Step
  <2>3. CASE RouteSteer(m)
    BY <2>3, UnchangedQuiet DEF RouteSteer
  <2>4. CASE RouteQueue(m)
    <3>1. m \notin ToSet(prompt_queue) /\ phase[m] = "none" /\ phase' = phase
      BY <2>4, QueuedCalls DEF RouteQueue
    <3>2. prompt_queue' = prompt_queue \/ prompt_queue' = Append(prompt_queue, m)
      BY <2>4 DEF RouteQueue
    <3>. QED
      BY <3>1, <3>2, UnchangedQuiet DEF Step, Queues, Same
  <2>5. CASE ProcessBusy(m)
    BY <2>5, UnchangedQuiet DEF ProcessBusy
  <2>6. CASE ProcessIdle(m)
    <3>1. /\ prompt_queue' = prompt_queue /\ pc[m] \notin {"queued", "started"}
          /\ phase' = [phase EXCEPT ![m] = Entered(turn_lock)]
      BY <2>6 DEF ProcessIdle, GoTo, Resolving
    <3>2. CASE Entered(turn_lock) \in Before
      BY <3>1, <3>2, CallMoves DEF Step
    <3>3. CASE Entered(turn_lock) \in TurnPhases /\ InTurn = {}
      <4>1. Moves(m, {"none"}, TurnPhases)
        BY <3>1, <3>3, CallMoves
      <4>. QED
        BY <3>3, <4>1 DEF Step, Moves
    <3>. QED
      BY <3>2, <3>3, EnteredPhase
  <2>7. CASE ProcessEmpty(m)
    <3>1. /\ prompt_queue' = prompt_queue /\ pc[m] \notin {"queued", "started"}
          /\ phase' = [phase EXCEPT ![m] = "done"]
      BY <2>7 DEF ProcessEmpty, GoTo, Waiting
    <3>2. Moves(m, {"none"}, EndPhases)
      BY <3>1, CallMoves DEF EndPhases
    <3>. QED
      BY <3>2 DEF Step
  <2>8. CASE ProcessEmptyWaits(m)
    <3>1. /\ prompt_queue' = prompt_queue /\ pc[m] \notin {"queued", "started"}
          /\ phase' = [phase EXCEPT ![m] = "wait_empty"]
      BY <2>8 DEF ProcessEmptyWaits, GoTo, Waiting
    <3>2. Moves(m, {"none"}, Before)
      BY <3>1, CallMoves DEF Before, WaitPhases
    <3>. QED
      BY <3>2 DEF Step
  <2>. QED
    BY <1>2, <2>1, <2>2, <2>3, <2>4, <2>5, <2>6, <2>7, <2>8 DEF Route
<1>3. ASSUME NEW r \in Msg, Execute(r) PROVE Quiet \/ \E x \in Msg : Step(x)
  <2>1. CASE BeginConsume(r)
    <3>1. prompt_queue' = prompt_queue /\ phase[r] = "created"
          /\ phase' = [phase EXCEPT ![r] = Entered(turn_lock)]
      BY <2>1 DEF BeginConsume, GoTo
    <3>2. CASE Entered(turn_lock) \in Before
      BY <3>1, <3>2, StaysQuiet DEF Before
    <3>3. CASE Entered(turn_lock) \in TurnPhases /\ InTurn = {}
      BY <3>1, <3>3, RunMoves DEF Before, Step
    <3>. QED
      BY <3>2, <3>3, EnteredPhase
  <2>2. CASE TakeTurn(r)
    <3>1. prompt_queue' = prompt_queue /\ phase' = [phase EXCEPT ![r] = "starting"]
          /\ phase[r] \in Before /\ phase[r] # "none"
      BY <2>2 DEF TakeTurn, GoTo, Before, WaitPhases
    <3>2. InTurn = {}
      BY <2>2 DEF TakeTurn, InTurn, TurnLockHeld, HoldsTurnLock, TurnPhases, WaitPhases
    <3>3. Moves(r, {"none"} \cup Before, TurnPhases)
      BY <3>1, RunMoves DEF TurnPhases
    <3>. QED
      BY <3>2, <3>3 DEF Step
  <2>3. CASE ReturnFromStart(r)
    <3>1. prompt_queue' = prompt_queue /\ phase' = [phase EXCEPT ![r] = "done"]
          /\ phase[r] \in Before /\ phase[r] # "none"
      BY <2>3 DEF ReturnFromStart, GoTo, Before, WaitPhases
    <3>2. Moves(r, Before, EndPhases)
      BY <3>1, RunMoves DEF EndPhases
    <3>. QED
      BY <3>2 DEF Step
  <2>4. CASE Activate(r)
    BY <2>4, StaysQuiet DEF Activate, GoTo, TurnPhases
  <2>5. CASE StopAgent(r)
    BY <2>5, StaysQuiet DEF StopAgent, GoTo, TurnPhases
  <2>6. CASE EndDriven(r)
    <3>1. prompt_queue' = prompt_queue /\ phase' = [phase EXCEPT ![r] = "done"]
          /\ phase[r] \in TurnPhases /\ "done" \in EndPhases
      BY <2>6 DEF EndDriven, TurnEnds, GoTo, TurnPhases, EndPhases
    <3>. QED
      BY <3>1, TurnOver
  <2>7. CASE LeadNotified(r)
    BY <2>7, StaysQuiet DEF LeadNotified, GoTo, EndPhases
  <2>8. CASE GoIdle(r)
    <3>1. prompt_queue' = prompt_queue /\ phase' = [phase EXCEPT ![r] = "done"]
          /\ phase[r] \in TurnPhases /\ "done" \in EndPhases
      BY <2>8 DEF GoIdle, TurnEnds, GoTo, TurnPhases, EndPhases
    <3>. QED
      BY <3>1, TurnOver
  <2>9. CASE ChainNext(r)
    <3> DEFINE n == Head(prompt_queue)
               p == Entered(Without(turn_lock, r))
    <3>1. /\ prompt_queue # <<>> /\ prompt_queue' = Tail(prompt_queue)
          /\ phase[r] \in TurnPhases /\ phase[r] # "none"
          /\ phase' = [phase EXCEPT ![r] = "done", ![n] = p]
      BY <2>9 DEF ChainNext, ChainCondition, TurnEnds, TurnPhases
    <3>2. p \in Before \cup TurnPhases
      BY DEF Entered, Before, WaitPhases, TurnPhases
    <3>3. n \in Msg /\ EndsChaining(r, n)
      BY <3>1, <3>2, Dequeued DEF EndsChaining, EndPhases
    <3>. QED
      BY <3>3 DEF Step
  <2>10. CASE CancelGracefully(r)
    BY <2>10, StaysQuiet DEF CancelGracefully, GoTo, TurnPhases
  <2>11. CASE CancelTurn(r)
    BY <2>11, StaysQuiet DEF CancelTurn, GoTo, TurnPhases
  <2>12. CASE LeaveCancelled(r)
    <3>1. PICK p \in {"done", "cancelled"} : phase' = [phase EXCEPT ![r] = p]
      BY <2>12 DEF LeaveCancelled, GoTo
    <3>2. prompt_queue' = prompt_queue /\ p \in EndPhases
      BY <2>12 DEF LeaveCancelled, EndPhases
    <3>3. CASE phase[r] = "unwinding"
      BY <3>1, <3>2, <3>3, TurnOver DEF TurnPhases
    <3>4. CASE phase[r] \in WaitPhases
      <4>1. Moves(r, Before, EndPhases)
        BY <3>1, <3>2, <3>4, RunMoves DEF Before, WaitPhases
      <4>. QED
        BY <4>1 DEF Step
    <3>. QED
      BY <2>12, <3>3, <3>4 DEF LeaveCancelled
  <2>13. CASE CleanupCancelled(r)
    <3> DEFINE n == Head(prompt_queue)
    <3>1. phase[r] = "cancelled" /\ phase[r] # "none" /\ {"cancelled", "done"} \subseteq EndPhases
      BY <2>13 DEF CleanupCancelled, EndPhases
    <3>2. \/ /\ prompt_queue # <<>> /\ prompt_queue' = Tail(prompt_queue)
             /\ phase' = [phase EXCEPT ![r] = "done", ![n] = "created"]
          \/ prompt_queue' = prompt_queue /\ phase' = [phase EXCEPT ![r] = "done"]
      BY <2>13 DEF CleanupCancelled, ChainCondition, GoTo
    <3>3. CASE /\ prompt_queue # <<>> /\ prompt_queue' = Tail(prompt_queue)
               /\ phase' = [phase EXCEPT ![r] = "done", ![n] = "created"]
      <4>1. n \in Msg \ {r} /\ Dequeues(n, {r}) /\ phase'[n] = "created" /\ phase'[r] = "done"
        BY <3>1, <3>3, Dequeued
      <4>2. Same(r)
        BY <3>1, <4>1, PhasesApart DEF Same
      <4>3. Chains(n)
        BY <4>1, <4>2 DEF Chains, Dequeues, Before
      <4>. QED
        BY <4>1, <4>3 DEF Step
    <3>4. CASE prompt_queue' = prompt_queue /\ phase' = [phase EXCEPT ![r] = "done"]
      BY <3>1, <3>4, StaysQuiet
    <3>. QED
      BY <3>2, <3>3, <3>4
  <2>. QED
    BY <1>3, <2>1, <2>2, <2>3, <2>4, <2>5, <2>6, <2>7, <2>8, <2>9, <2>10, <2>11, <2>12, <2>13 DEF
       Execute
<1>4. ASSUME NEW r \in Msg, Fault(r) PROVE Quiet \/ \E x \in Msg : Step(x)
  <2>1. CASE TurnError(r)
    <3>1. PICK p \in {"stopping", "ending"} : phase' = [phase EXCEPT ![r] = p]
      BY <2>1 DEF TurnError, GoTo
    <3>. QED
      BY <2>1, <3>1, StaysQuiet DEF TurnError, TurnPhases
  <2>2. CASE RaiseFromStart(r)
    <3>1. prompt_queue' = prompt_queue /\ phase' = [phase EXCEPT ![r] = "failed"]
          /\ phase[r] \in TurnPhases /\ "failed" \in EndPhases
      BY <2>2 DEF RaiseFromStart, GoTo, TurnPhases, EndPhases
    <3>. QED
      BY <3>1, TurnOver
  <2>3. CASE RaiseInMember(r)
    <3>1. prompt_queue' = prompt_queue /\ phase' = [phase EXCEPT ![r] = "failing"]
          /\ phase[r] \in TurnPhases /\ "failing" \in EndPhases
      BY <2>3 DEF RaiseInMember, GoTo, TurnPhases, EndPhases
    <3>. QED
      BY <3>1, TurnOver
  <2>4. CASE CancelRun(r)
    BY <2>4, UnchangedQuiet DEF CancelRun
  <2>. QED
    BY <1>4, <2>1, <2>2, <2>3, <2>4 DEF Fault
<1>5. CASE Close
  <2>1. CASE CloseSession
    BY <2>1, UnchangedQuiet DEF CloseSession
  <2>2. CASE CloseMark
    BY <2>2, UnchangedQuiet DEF CloseMark
  <2>3. CASE CloseAgent
    BY <2>3, UnchangedQuiet DEF CloseAgent
  <2>4. CASE CloseFinish
    BY <2>4, UnchangedQuiet DEF CloseFinish
  <2>5. CASE CloseTimeout
    BY <2>5, UnchangedQuiet DEF CloseTimeout
  <2>. QED
    BY <1>5, <2>1, <2>2, <2>3, <2>4, <2>5 DEF Close
<1>6. CASE UNCHANGED vars
  BY <1>6, UnchangedQuiet DEF vars
<1>. QED
  BY <1>1, <1>2, <1>3, <1>4, <1>5, <1>6 DEF Next

-----------------------------------------------------------------------------
\* A queued prompt waits for its one run in every reachable state.
LEMMA ServiceInvariance == Spec => []ServiceInv
<1>1. Init => QueuedWait
  BY DEF Init, QueuedWait
<1>2. IndInv /\ IndInv' /\ QueuedWait /\ [Next]_vars => QueuedWait'
  BY NextSteps, StepSimulated DEF ServiceInv, IndInv
<1>. QED
  BY <1>1, <1>2, Invariance, PTL DEF Spec, ServiceInv

\* SessionRun implements PromptService: whatever calls, cancellations, failures and
\* closes meet, a prompt gets at most one turn, and no turn begins before the one
\* before it is over (_consume_run, _drain_prompt_queue, SessionState.turn_lock).
THEOREM Refinement == Spec => ServiceSpec
<1>1. Spec => []ServiceInv
  BY ServiceInvariance
<1>2. ServiceInv /\ ServiceInv' /\ [Next]_vars => Simulated
  BY NextSteps, StepSimulated DEF ServiceInv, IndInv
<1>3. Simulated => [Service!Next]_Service!vars
  BY DEF Simulated, Service!vars, Accepted, Turn, Over
<1>4. Init => Service!Init
  <2> SUFFICES ASSUME Init PROVE Service!Init
    OBVIOUS
  <2>1. InTurn = {} /\ Over = {}
    BY DEF Init, InTurn, Over, TurnPhases, EndPhases
  <2>2. Accepted = {}
    BY DEF Init, Accepted, Contains
  <2>. QED
    BY <2>1, <2>2 DEF Service!Init, Accepted, Over
<1>. QED
  BY <1>1, <1>2, <1>3, <1>4, PTL DEF Spec, ServiceSpec, Service!Spec
=============================================================================
