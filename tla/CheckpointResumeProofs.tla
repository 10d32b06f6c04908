----------------------- MODULE CheckpointResumeProofs -----------------------
(***************************************************************************)
(* Theorems about CheckpointResume, for every set of elicitations and of   *)
(* resume_session calls and every number of runs and crashes.              *)
(***************************************************************************)
EXTENDS CheckpointResume, WellFoundedInduction, TLAPS

-----------------------------------------------------------------------------
(***************************************************************************)
(* The inductive invariant.  It needs no assumption on what the callers of *)
(* resume_session have read: only the lock and its holder matter.          *)
(***************************************************************************)
Types ==
    /\ resumer \in [Resumer -> ResumerStates]
    /\ lock \in Resumer \cup {None}
    /\ crashes \in Nat

\* A resume that is past the lock is the one that holds it.
LockIsExclusive == \A r \in Resumer : resumer[r] \in Held => lock = r

ResumeInv ==
    /\ Types
    /\ LockIsExclusive
    /\ ResumingIsHeld

Cut == \E r \in Resumer : resumer[r] = "cut"

-----------------------------------------------------------------------------
(***************************************************************************)
(* Kinds of steps.                                                         *)
(***************************************************************************)

\* A step that moves no resume, and saves "resuming" in no record.
LEMMA NoResumeMoves ==
    ASSUME ResumeInv, UNCHANGED <<resumer, lock, crashes>>,
           record'.status = "resuming" => record.status = "resuming"
    PROVE  ResumeInv'
  BY DEF ResumeInv, Types, LockIsExclusive, ResumingIsHeld, HolderOfMark

\* A cancelled resume stays cancelled.
LEMMA CutStays ==
    ASSUME Types, NEW r \in Resumer, resumer[r] # "cut", NEW state,
           resumer' = [resumer EXCEPT ![r] = state]
    PROVE  Cut => Cut'
  BY DEF Types, Cut

\* The holder of the lock goes from one state to another and keeps it.
LEMMA HolderMoves ==
    ASSUME ResumeInv, NEW r \in Resumer, NEW state \in Held, resumer[r] \in Held,
           resumer' = [resumer EXCEPT ![r] = state], UNCHANGED <<lock, crashes>>,
           crashes = 0 /\ ~Cut /\ record'.status = "resuming" => state \in Marked
    PROVE  ResumeInv'
<1>1. lock = r
  BY DEF ResumeInv, LockIsExclusive
<1>2. Types'
  BY DEF ResumeInv, Types, ResumerStates
<1>3. resumer'[r] = state /\ \A q \in Resumer : q # r => resumer'[q] = resumer[q]
  BY DEF ResumeInv, Types
<1>4. LockIsExclusive'
  BY <1>1, <1>3 DEF ResumeInv, LockIsExclusive
<1>5. Cut => Cut'
  BY CutStays DEF ResumeInv, Held, Marked
<1>6. ResumingIsHeld'
  BY <1>1, <1>3, <1>5, NoneAssumption DEF ResumeInv, Types, ResumingIsHeld, HolderOfMark, Cut
<1>. QED
  BY <1>2, <1>4, <1>6 DEF ResumeInv

\* A resume returns, raises or is cancelled.
LEMMA Leaves ==
    ASSUME ResumeInv, NEW r \in Resumer, resumer[r] \in Held \cup {"queued"},
           NEW state \in {"failed", "resumed", "cut"}, Leave(r, state), UNCHANGED crashes,
           crashes = 0 /\ ~Cut /\ state # "cut" /\ record'.status = "resuming" =>
              record.status = "resuming" /\ resumer[r] \notin Marked
    PROVE  ResumeInv'
<1>1. /\ resumer' = [resumer EXCEPT ![r] = state]
      /\ lock' = IF lock = r THEN None ELSE lock
  BY DEF Leave, SetResumer
<1>2. Types'
  BY <1>1 DEF ResumeInv, Types, ResumerStates
<1>3. resumer'[r] = state /\ \A q \in Resumer : q # r => resumer'[q] = resumer[q]
  BY <1>1 DEF ResumeInv, Types
<1>4. LockIsExclusive'
  <2>1. ASSUME NEW q \in Resumer, resumer'[q] \in Held PROVE lock' = q
    <3>1. q # r
      BY <1>3, <2>1 DEF Held, Marked
    <3>2. lock = q
      BY <1>3, <2>1, <3>1 DEF ResumeInv, LockIsExclusive
    <3>. QED
      BY <1>1, <3>1, <3>2
  <2>. QED
    BY <2>1 DEF LockIsExclusive
<1>5. Cut \/ state = "cut" => Cut'
  <2>1. Cut => Cut'
    BY <1>1, CutStays DEF ResumeInv, Held, Marked
  <2>. QED
    BY <1>3, <2>1 DEF Cut
<1>6. ResumingIsHeld'
  <2> SUFFICES ASSUME crashes = 0, ~Cut, state # "cut", record'.status = "resuming"
               PROVE  lock' # None /\ resumer'[lock'] \in Marked
    BY <1>5 DEF ResumingIsHeld, HolderOfMark, Cut, ResumeInv, Types
  <2>1. lock # None /\ resumer[lock] \in Marked /\ resumer[r] \notin Marked
    BY DEF ResumeInv, ResumingIsHeld, HolderOfMark, Cut
  <2>2. lock # r /\ lock \in Resumer
    BY <2>1 DEF ResumeInv, Types
  <2>. QED
    BY <1>1, <1>3, <2>1, <2>2
<1>. QED
  BY <1>2, <1>4, <1>6 DEF ResumeInv

\* Resumes whose run, or whose session, has ended go on, and keep the lock.
LEMMA MarkedMove ==
    ASSUME ResumeInv, UNCHANGED <<record, lock, crashes>>,
           resumer' \in [Resumer -> ResumerStates],
           \A r \in Resumer :
              \/ resumer'[r] = resumer[r]
              \/ resumer[r] \in Marked /\ resumer'[r] \in Marked
    PROVE  ResumeInv'
<1>1. Types'
  BY DEF ResumeInv, Types
<1>2. LockIsExclusive'
  BY DEF ResumeInv, LockIsExclusive, Held
<1>3. Cut => Cut'
  BY DEF Cut, Marked
<1>4. ResumingIsHeld'
  <2>1. lock # None => lock \in Resumer
    BY DEF ResumeInv, Types
  <2>. QED
    BY <1>3, <2>1 DEF ResumeInv, ResumingIsHeld, HolderOfMark, Cut
<1>. QED
  BY <1>1, <1>2, <1>4 DEF ResumeInv

\* A status in which the record was before the lock's holder got on with it.
LEMMA NotResumingYet ==
    ASSUME ResumeInv, NEW r \in Resumer, resumer[r] \in {"validating", "loading"}
    PROVE  crashes = 0 /\ ~Cut => record.status # "resuming"
<1>1. lock = r
  BY DEF ResumeInv, LockIsExclusive, Held
<1>. QED
  BY <1>1 DEF ResumeInv, ResumingIsHeld, HolderOfMark, Cut, Types, Marked

-----------------------------------------------------------------------------
(***************************************************************************)
(* The actions.                                                            *)
(***************************************************************************)
LEMMA InvInit == Init => ResumeInv
<1> SUFFICES ASSUME Init PROVE ResumeInv
  OBVIOUS
<1>1. Types
  BY DEF Init, Types, ResumerStates
<1>2. LockIsExclusive
  BY DEF Init, LockIsExclusive, Held, Marked
<1>3. ResumingIsHeld
  BY DEF Init, ResumingIsHeld, Fresh
<1>. QED
  BY <1>1, <1>2, <1>3 DEF ResumeInv

\* Messages, tools and close_session.
LEMMA OthersKeep ==
    ASSUME ResumeInv,
           \/ StartRun \/ Close \/ CascadeClose \/ Closing
           \/ \E c \in Call : Tool(c)
    PROVE  ResumeInv'
<1>1. CASE StartRun
  BY <1>1, NoResumeMoves DEF StartRun, Save, resumeVars
<1>2. CASE Close \/ CascadeClose
  BY <1>2, NoResumeMoves DEF Close, CascadeClose, storeVars, resumeVars
<1>3. CASE Closing
  <2>1. CASE CloseFinish
    <3>1. /\ UNCHANGED <<record, lock, crashes>>
          /\ resumer' = [r \in Resumer |-> IF r \in Followers THEN "saving_active" ELSE resumer[r]]
      BY <2>1 DEF CloseFinish, storeVars
    <3>2. resumer' \in [Resumer -> ResumerStates]
      BY <3>1 DEF ResumeInv, Types, ResumerStates, Held, Marked
    <3>3. \A r \in Resumer : \/ resumer'[r] = resumer[r]
                             \/ resumer[r] \in Marked /\ resumer'[r] \in Marked
      BY <3>1 DEF Followers, Marked
    <3>. QED
      BY <3>1, <3>2, <3>3, MarkedMove
  <2>2. CASE ~CloseFinish
    <3>1. UNCHANGED <<resumer, lock, crashes>>
      BY <1>3, <2>2 DEF Closing, CloseSave, CloseSaveFails, CloseMark, CloseStore, resumeVars
    <3>2. record' = record \/ record'.status \in {"checkpointed", "closed"}
      BY <1>3, <2>2 DEF Closing, CloseSave, CloseSaveFails, CloseMark, CloseStore, Save, storeVars
    <3>. QED
      BY <3>1, <3>2, NoResumeMoves
  <2>. QED
    BY <2>1, <2>2
<1>4. ASSUME NEW c \in Call, Tool(c) PROVE ResumeInv'
  <2>1. UNCHANGED <<resumer, lock, crashes>>
    BY <1>4 DEF Tool, Ask, SaveCheckpoint, LoadRecord, SaveRecord, GiveUp, resumeVars
  <2>2. record' = record \/ record'.status = "checkpointed"
    BY <1>4 DEF Tool, Ask, SaveCheckpoint, LoadRecord, SaveRecord, GiveUp, Save, storeVars
  <2>. QED
    BY <2>1, <2>2, NoResumeMoves
<1>. QED
  BY <1>1, <1>2, <1>3, <1>4

\* The run of a resume ends: the resume keeps the lock.
LEMMA RunEndsKeeps ==
    ASSUME ResumeInv, NEW n \in Run, NEW raised \in BOOLEAN, RunEnds(n, raised)
    PROVE  ResumeInv'
<1>1. /\ UNCHANGED <<record, lock, crashes>>
      /\ resumer' = [r \in Resumer |->
                       CASE r \in Drivers(n) /\ raised -> "saving_back"
                         [] ~raised /\ r \in Drivers(n) \cup Followers -> "saving_active"
                         [] OTHER -> resumer[r]]
  BY DEF RunEnds, storeVars
<1>2. \A r \in Resumer : \/ resumer'[r] = resumer[r]
                         \/ resumer[r] \in Marked /\ resumer'[r] \in Marked
  <2> TAKE r \in Resumer
  <2>1. CASE r \in Drivers(n) \/ r \in Followers
    BY <1>1, <2>1 DEF Drivers, Followers, Marked
  <2>2. CASE r \notin Drivers(n) /\ r \notin Followers
    BY <1>1, <2>2
  <2>. QED
    BY <2>1, <2>2
<1>3. resumer' \in [Resumer -> ResumerStates]
  BY <1>1, <1>2 DEF ResumeInv, Types, ResumerStates, Held, Marked
<1>. QED
  BY <1>1, <1>2, <1>3, MarkedMove

\* Before the lock.
LEMMA QueueKeeps ==
    ASSUME ResumeInv, NEW r \in Resumer,
           (\E c \in Call : Resume(r, {c})) \/ Acquire(r)
    PROVE  ResumeInv'
<1>1. ASSUME NEW state \in {"queued", "failed"}, resumer' = [resumer EXCEPT ![r] = state],
             resumer[r] = "idle", UNCHANGED <<record, lock, crashes>>
      PROVE  ResumeInv'
  <2>1. Types'
    BY <1>1 DEF ResumeInv, Types, ResumerStates
  <2>2. resumer'[r] = state /\ \A q \in Resumer : q # r => resumer'[q] = resumer[q]
    BY <1>1 DEF ResumeInv, Types
  <2>3. LockIsExclusive'
    BY <1>1, <2>2 DEF ResumeInv, LockIsExclusive, Held, Marked
  <2>4. Cut => Cut'
    BY <1>1, CutStays DEF ResumeInv
  <2>5. ResumingIsHeld'
    BY <1>1, <2>2, <2>4 DEF ResumeInv, Types, ResumingIsHeld, HolderOfMark, Marked, Cut
  <2>. QED
    BY <2>1, <2>3, <2>5 DEF ResumeInv
<1>2. CASE \E c \in Call : Resume(r, {c})
  <2>1. /\ UNCHANGED <<record, lock, crashes>> /\ resumer[r] = "idle"
        /\ \E state \in {"queued", "failed"} : resumer' = [resumer EXCEPT ![r] = state]
    BY <1>2 DEF Resume, SetResumer, storeVars
  <2>. QED
    BY <1>1, <2>1
<1>3. CASE Acquire(r)
  <2>1. resumer[r] = "queued" /\ lock = None /\ UNCHANGED <<record, crashes>>
    BY <1>3 DEF Acquire, storeVars
  <2>2. crashes = 0 /\ ~Cut => record.status # "resuming"
    BY <2>1 DEF ResumeInv, Types, ResumingIsHeld, HolderOfMark, Cut
  <2>3. CASE Leave(r, "failed")
    BY <2>1, <2>2, <2>3, Leaves
  <2>4. CASE SetResumer(r, "validating") /\ lock' = r
    <3>1. resumer' = [resumer EXCEPT ![r] = "validating"] /\ lock' = r
      BY <2>4 DEF SetResumer
    <3>2. Types'
      BY <2>1, <3>1 DEF ResumeInv, Types, ResumerStates, Held, Marked
    <3>3. resumer'[r] = "validating" /\ \A q \in Resumer : q # r => resumer'[q] = resumer[q]
      BY <3>1 DEF ResumeInv, Types
    <3>4. \A q \in Resumer : q # r => resumer[q] \notin Held
      BY <2>1, NoneAssumption DEF ResumeInv, LockIsExclusive
    <3>5. LockIsExclusive'
      BY <3>1, <3>3, <3>4 DEF LockIsExclusive
    <3>6. Cut => Cut'
      BY <2>1, <3>1, CutStays DEF ResumeInv
    <3>7. ResumingIsHeld'
      BY <2>1, <2>2, <3>6 DEF ResumingIsHeld, Cut, ResumeInv, Types
    <3>. QED
      BY <3>2, <3>5, <3>7 DEF ResumeInv
  <2>. QED
    BY <1>3, <2>3, <2>4 DEF Acquire
<1>. QED
  BY <1>2, <1>3

\* Under the lock.
LEMMA HolderKeeps ==
    ASSUME ResumeInv, NEW r \in Resumer,
           \/ Refuse(r) \/ Resolve(r) \/ LoadCheckpoint(r)
           \/ RunFromCheckpoint(r) \/ NothingToRun(r) \/ NoRunFromCheckpoint(r) \/ StartFails(r)
           \/ SaveActive(r) \/ SaveBack(r) \/ CancelResume(r) \/ CancelRunning(r)
    PROVE  ResumeInv'
<1>1. CASE Refuse(r)
  <2>1. resumer[r] = "validating" /\ Leave(r, "failed") /\ UNCHANGED <<record, crashes>>
    BY <1>1 DEF Refuse, storeVars
  <2>. QED
    BY <2>1, NotResumingYet, Leaves DEF Held
<1>2. CASE Resolve(r)
  <2>1. /\ resumer[r] = "validating" /\ UNCHANGED <<record, lock, crashes>>
        /\ \E state \in {"loading", "saving_active", "saving_back"} :
              resumer' = [resumer EXCEPT ![r] = state]
    BY <1>2 DEF Resolve, SetResumer, storeVars
  <2>2. PICK state \in {"loading", "saving_active", "saving_back"} :
            resumer' = [resumer EXCEPT ![r] = state]
    BY <2>1
  <2>3. /\ state \in Held /\ resumer[r] \in Held
        /\ crashes = 0 /\ ~Cut => record.status # "resuming"
    BY <2>1, NotResumingYet DEF Held, Marked
  <2>. QED
    BY <2>1, <2>2, <2>3, HolderMoves
<1>3. CASE LoadCheckpoint(r)
  <2>1. /\ resumer[r] = "loading" /\ UNCHANGED <<lock, crashes>>
        /\ \/ resumer' = [resumer EXCEPT ![r] = "saving_back"] /\ record' = record
           \/ resumer' = [resumer EXCEPT ![r] = "starting"]
    BY <1>3 DEF LoadCheckpoint, SetResumer
  <2>2. resumer[r] \in Held /\ {"saving_back", "starting"} \subseteq Held \cap Marked
    BY <2>1 DEF Held, Marked
  <2>. QED
    BY <2>1, <2>2, HolderMoves
<1>4. CASE RunFromCheckpoint(r) \/ NothingToRun(r) \/ NoRunFromCheckpoint(r) \/ StartFails(r)
  <2>1. /\ resumer[r] = "starting" /\ UNCHANGED <<record, lock, crashes>>
        /\ \E state \in {"running", "following", "saving_active", "saving_back"} :
              resumer' = [resumer EXCEPT ![r] = state]
    BY <1>4 DEF RunFromCheckpoint, NothingToRun, NoRunFromCheckpoint, StartFails, Discard, SetResumer,
                storeVars
  <2>2. resumer[r] \in Held
        /\ {"running", "following", "saving_active", "saving_back"} \subseteq Held \cap Marked
    BY <2>1 DEF Held, Marked
  <2>. QED
    BY <2>1, <2>2, HolderMoves
<1>5. CASE SaveActive(r)
  <2>1. /\ resumer[r] \in Held /\ Leave(r, "resumed")
        /\ record'.status = "active" /\ crashes' = crashes
    BY <1>5 DEF SaveActive, Save, Held, Marked
  <2>. QED
    BY <2>1, Leaves
<1>6. CASE SaveBack(r)
  <2>1. /\ resumer[r] \in Held /\ Leave(r, "failed")
        /\ record'.status = "checkpointed" /\ crashes' = crashes
    BY <1>6 DEF SaveBack, Save, Held, Marked
  <2>. QED
    BY <2>1, Leaves
<1>7. CASE CancelResume(r) \/ CancelRunning(r)
  <2>1. /\ resumer[r] \in Held \cup {"queued"} /\ UNCHANGED <<record, crashes>>
        /\ Leave(r, Interrupted(r))
    BY <1>7 DEF CancelResume, CancelRunning, storeVars, Held, Marked
  <2>2. /\ Interrupted(r) \in {"failed", "cut"}
        /\ Interrupted(r) # "cut" /\ record.status = "resuming" => resumer[r] \notin Marked
    BY DEF Interrupted
  <2>. QED
    BY <2>1, <2>2, Leaves
<1>. QED
  BY <1>1, <1>2, <1>3, <1>4, <1>5, <1>6, <1>7

LEMMA CrashKeeps ==
    ASSUME ResumeInv, Crash
    PROVE  ResumeInv'
<1>1. /\ crashes' = crashes + 1 /\ lock' = None
      /\ resumer' = [r \in Resumer |->
                       IF resumer[r] \in Held \cup {"queued"} THEN "failed" ELSE resumer[r]]
  BY DEF Crash
<1>2. Types'
  BY <1>1 DEF ResumeInv, Types, ResumerStates
<1>3. LockIsExclusive'
  BY <1>1 DEF LockIsExclusive, Held, Marked
<1>4. ResumingIsHeld'
  BY <1>1 DEF ResumeInv, Types, ResumingIsHeld
<1>. QED
  BY <1>2, <1>3, <1>4 DEF ResumeInv

LEMMA InvNext == ResumeInv /\ [Next]_vars => ResumeInv'
<1> SUFFICES ASSUME ResumeInv, [Next]_vars PROVE ResumeInv'
  OBVIOUS
<1>1. CASE StartRun \/ Close \/ CascadeClose \/ Closing \/ \E c \in Call : Tool(c)
  BY <1>1, OthersKeep
<1>2. ASSUME NEW n \in Run, NEW raised \in BOOLEAN, RunEnds(n, raised) PROVE ResumeInv'
  BY <1>2, RunEndsKeeps
<1>3. ASSUME NEW r \in Resumer, ResumeStep(r) \/ \E c \in Call : Resume(r, {c}) PROVE ResumeInv'
  BY <1>3, QueueKeeps, HolderKeeps DEF ResumeStep
<1>4. CASE Crash
  BY <1>4, CrashKeeps
<1>5. CASE UNCHANGED vars
  BY <1>5, NoResumeMoves DEF vars, storeVars, resumeVars
<1>. QED
  BY <1>1, <1>2, <1>3, <1>4, <1>5 DEF Next

-----------------------------------------------------------------------------
\* resume_session: at most one call of it is past the resume lock of the session, and
\* what it does there no other call can come between.
THEOREM ResumesAreExclusive == Spec => []LockIsExclusive
<1>1. ResumeInv => LockIsExclusive
  BY DEF ResumeInv
<1>. QED
  BY <1>1, InvInit, InvNext, PTL DEF Spec

\* However tools, closes and other resumes save the record meanwhile: until a crash, or
\* until a resume is cancelled after it has marked the record, a record in the status
\* "resuming", which nobody can resume, has a resume at work that will save another one.
THEOREM ResumingEnds == Spec => []ResumingIsHeld
<1>1. ResumeInv => ResumingIsHeld
  BY DEF ResumeInv
<1>. QED
  BY <1>1, InvInit, InvNext, PTL DEF Spec

-----------------------------------------------------------------------------
(***************************************************************************)
(* Types.                                                                  *)
(***************************************************************************)
LEMMA LeastNatural ==
    ASSUME NEW T, T \subseteq Nat, T # {}
    PROVE  \E n \in T : \A m \in T : n <= m
<1> DEFINE R == OpToRel(<, Nat)
<1>1. IsWellFoundedOn(R, Nat)
  BY NatLessThanWellFounded
<1>2. \A m, n \in Nat : m < n => <<m, n>> \in R
  BY DEF OpToRel
<1> HIDE DEF R
<1>3. PICK n \in T : \A m \in T : <<m, n>> \notin R
  BY <1>1, WFMin
<1>4. \A m \in T : ~(m < n)
  BY <1>2, <1>3
<1>. QED
  BY <1>4

LEMMA NewIdIsFree ==
    ASSUME TypeOK, executing # Run
    PROVE  NewId \in Run \ executing
<1> DEFINE Free == Run \ executing
<1>1. Free # {}
  BY DEF TypeOK
<1>2. Free \subseteq Nat
  BY BoundsAssumption DEF Run
<1> HIDE DEF Free
<1>3. \E n \in Free : \A m \in Free : n <= m
  BY <1>1, <1>2, LeastNatural
<1>. QED
  BY <1>3 DEF NewId, Free

LEMMA TypeInit == Init => TypeOK
<1> SUFFICES ASSUME Init PROVE TypeOK
  OBVIOUS
<1>1. Fresh \in Record
  BY DEF Fresh, Record, Statuses
<1>2. record \in Record /\ data \in [Resumer -> Record] /\ to_save \in Record
  BY <1>1 DEF Init
<1>3. 0 \in 0..MaxRuns /\ 0 \in 0..MaxCrashes
  BY BoundsAssumption
<1>. QED
  BY <1>2, <1>3 DEF Init, TypeOK, CallStates, ResumerStates, CloserStates

\* Sub-actions that several actions share.
LEMMA LeaveType ==
    ASSUME TypeOK, NEW r \in Resumer, NEW state \in {"failed", "resumed", "cut"}, Leave(r, state)
    PROVE  /\ resumer' \in [Resumer -> ResumerStates]
           /\ lock' \in Resumer \cup {None}
           /\ data' \in [Resumer -> Record]
           /\ drives' \in [Resumer -> 0..MaxRuns]
           /\ payload' \in [Resumer -> SUBSET Call]
           /\ allow' \subseteq Resumer
  BY BoundsAssumption DEF TypeOK, Leave, SetResumer, ResumerStates, Fresh, Record, Statuses

LEMMA SettleType ==
    ASSUME TypeOK, NEW calls, NEW state \in CallStates, Settle(calls, state)
    PROVE  call' \in [Call -> CallStates] /\ asker' \in [Call -> 0..MaxRuns]
  BY BoundsAssumption DEF TypeOK, Settle

LEMMA SaveType ==
    ASSUME TypeOK, NEW seen, NEW status \in Statuses, NEW pending \in SUBSET Call,
           Save(seen, status, pending)
    PROVE  record' \in Record /\ stale' \in BOOLEAN
  BY DEF TypeOK, Save, Record

LEMMA RunsType ==
    ASSUME TypeOK,
           StartRun \/ \E n \in Run, raised \in BOOLEAN : RunEnds(n, raised)
    PROVE  TypeOK'
<1>1. CASE StartRun
  <2>1. NewId \in Run
    BY <1>1, NewIdIsFree DEF StartRun, NewRun
  <2>2. current' \in 0..MaxRuns /\ executing' \subseteq Run /\ session' \in {"absent", "live", "closing"}
    BY <1>1, <2>1, BoundsAssumption DEF StartRun, NewRun, TypeOK, Run
  <2>3. record' \in Record /\ stale' \in BOOLEAN
    BY <1>1 DEF StartRun, TypeOK, Save, Record, Statuses
  <2>. QED
    BY <1>1, <2>2, <2>3 DEF StartRun, TypeOK, callVars, resumeVars, closeVars
<1>2. ASSUME NEW n \in Run, NEW raised \in BOOLEAN, RunEnds(n, raised) PROVE TypeOK'
  <2>1. current' \in 0..MaxRuns /\ executing' \subseteq Run /\ registry' \subseteq Call
    BY <1>2, BoundsAssumption DEF RunEnds, RunOver, TypeOK
  <2>2. resumer' \in [Resumer -> ResumerStates]
    BY <1>2 DEF RunEnds, TypeOK, ResumerStates, Held, Marked
  <2>3. answers' \in [Call -> Nat]
    BY <1>2 DEF RunEnds, TypeOK
  <2>. QED
    BY <1>2, <2>1, <2>2, <2>3 DEF RunEnds, TypeOK, storeVars, closeVars
<1>. QED
  BY <1>1, <1>2

LEMMA ToolType ==
    ASSUME TypeOK, NEW c \in Call, Tool(c)
    PROVE  TypeOK'
<1>1. CASE Ask(c)
  BY <1>1 DEF Ask, SetCall, TypeOK, storeVars, runVars, resumeVars, closeVars, historyVars,
              CallStates, Asking
<1>2. CASE SaveCheckpoint(c)
  BY <1>2 DEF SaveCheckpoint, SetCall, TypeOK, runVars, resumeVars, closeVars, historyVars,
              CallStates, Asking
<1>3. ASSUME Recorded(c)
      PROVE  /\ call' \in [Call -> CallStates] /\ asker' \in [Call -> 0..MaxRuns]
             /\ registry' \subseteq Call
  BY <1>3, SettleType DEF Recorded, SetCall, TypeOK, CallStates
<1>4. CASE LoadRecord(c)
  <2>1. /\ call' \in [Call -> CallStates] /\ asker' \in [Call -> 0..MaxRuns]
        /\ registry' \subseteq Call
    BY <1>3, <1>4 DEF LoadRecord, SetCall, TypeOK, CallStates, Asking
  <2>. QED
    BY <1>4, <2>1 DEF LoadRecord, TypeOK, storeVars, runVars, resumeVars, closeVars, historyVars
<1>5. CASE SaveRecord(c)
  <2>1. record' \in Record /\ stale' \in BOOLEAN
    BY <1>5, SaveType DEF SaveRecord, Statuses
  <2>2. Recorded(c)
    BY <1>5 DEF SaveRecord
  <2>. QED
    BY <1>3, <1>5, <2>1, <2>2 DEF SaveRecord, TypeOK, runVars, resumeVars, closeVars
<1>6. CASE GiveUp(c)
  <2>1. call' \in [Call -> CallStates] /\ asker' \in [Call -> 0..MaxRuns]
    BY <1>6, SettleType DEF GiveUp, CallStates
  <2>. QED
    BY <1>6, <2>1 DEF GiveUp, TypeOK, storeVars, runVars, resumeVars, closeVars, historyVars
<1>. QED
  BY <1>1, <1>2, <1>4, <1>5, <1>6 DEF Tool

LEMMA ResumeType ==
    ASSUME TypeOK, NEW r \in Resumer, ResumeStep(r) \/ \E c \in Call : Resume(r, {c})
    PROVE  TypeOK'
<1>1. ASSUME NEW c \in Call, Resume(r, {c}) PROVE TypeOK'
  <2>1. /\ resumer' \in [Resumer -> ResumerStates]
        /\ payload' \in [Resumer -> SUBSET Call]
        /\ data' \in [Resumer -> Record]
        /\ allow' \subseteq Resumer
    BY <1>1 DEF Resume, SetResumer, TypeOK, ResumerStates
  <2>. QED
    BY <1>1, <2>1 DEF Resume, TypeOK, storeVars, runVars, callVars, closeVars, historyVars
<1>2. CASE Acquire(r)
  <2>1. /\ resumer' \in [Resumer -> ResumerStates]
        /\ lock' \in Resumer \cup {None}
        /\ data' \in [Resumer -> Record]
        /\ drives' \in [Resumer -> 0..MaxRuns]
        /\ payload' \in [Resumer -> SUBSET Call]
        /\ allow' \subseteq Resumer
    <3>1. CASE Leave(r, "failed")
      BY <3>1, LeaveType
    <3>2. CASE SetResumer(r, "validating") /\ lock' = r /\ UNCHANGED <<payload, data, allow, drives>>
      BY <3>2 DEF SetResumer, TypeOK, ResumerStates, Held, Marked
    <3>. QED
      BY <1>2, <3>1, <3>2 DEF Acquire
  <2>. QED
    BY <1>2, <2>1 DEF Acquire, TypeOK, storeVars, runVars, callVars, closeVars, historyVars
<1>3. CASE Refuse(r)
  BY <1>3, LeaveType DEF Refuse, TypeOK, storeVars, runVars, callVars, closeVars, historyVars
<1>4. CASE Resolve(r)
  <2> DEFINE found == payload[r] \cap registry
             waiting == {c \in found : call[c] = "waiting"}
  <2>1. Settle(waiting, "answered")
    BY <1>4 DEF Resolve
  <2> HIDE DEF waiting
  <2>2. call' \in [Call -> CallStates] /\ asker' \in [Call -> 0..MaxRuns]
    BY <2>1, SettleType DEF CallStates
  <2> USE DEF waiting
  <2>3. /\ registry' \subseteq Call /\ dropped' \subseteq Call
        /\ resumer' \in [Resumer -> ResumerStates]
    BY <1>4 DEF Resolve, TypeOK, SetResumer, ResumerStates, Held, Marked
  <2>4. answers' \in [Call -> Nat] /\ stale' \in BOOLEAN
    BY <1>4 DEF Resolve, TypeOK
  <2>. QED
    BY <1>4, <2>2, <2>3, <2>4 DEF Resolve, TypeOK, storeVars, runVars, closeVars
<1>5. CASE LoadCheckpoint(r)
  <2>1. record' \in Record /\ data' \in [Resumer -> Record] /\ stale' \in BOOLEAN
    <3>1. CASE UNCHANGED <<record, data, stale>>
      BY <3>1 DEF TypeOK
    <3>2. CASE SaveData(r, "resuming", data[r].pending)
      <4>1. data[r].pending \in SUBSET Call /\ "resuming" \in Statuses
        BY DEF TypeOK, Record, Statuses
      <4>2. record' \in Record /\ stale' \in BOOLEAN
        BY <3>2, <4>1, SaveType DEF SaveData
      <4>. QED
        BY <3>2, <4>2 DEF SaveData, TypeOK
    <3>. QED
      BY <1>5, <3>1, <3>2 DEF LoadCheckpoint
  <2>2. resumer' \in [Resumer -> ResumerStates]
    BY <1>5 DEF LoadCheckpoint, TypeOK, SetResumer, ResumerStates, Held, Marked
  <2>. QED
    BY <1>5, <2>1, <2>2 DEF LoadCheckpoint, TypeOK, runVars, callVars, closeVars
<1>6. CASE RunFromCheckpoint(r)
  <2>1. NewId \in Run
    BY <1>6, NewIdIsFree DEF RunFromCheckpoint, NewRun
  <2>2. /\ current' \in 0..MaxRuns /\ executing' \subseteq Run
        /\ session' \in {"absent", "live", "closing"}
        /\ drives' \in [Resumer -> 0..MaxRuns]
    BY <1>6, <2>1, BoundsAssumption DEF RunFromCheckpoint, NewRun, TypeOK, Run
  <2>3. answers' \in [Call -> Nat] /\ dropped' \subseteq Call
    BY <1>6 DEF RunFromCheckpoint, TypeOK
  <2>4. resumer' \in [Resumer -> ResumerStates]
    BY <1>6 DEF RunFromCheckpoint, TypeOK, SetResumer, ResumerStates, Held, Marked
  <2>. QED
    BY <1>6, <2>2, <2>3, <2>4 DEF RunFromCheckpoint, TypeOK, storeVars, callVars, closeVars
<1>7. CASE NothingToRun(r) \/ NoRunFromCheckpoint(r)
  <2>1. /\ session' \in {"absent", "live", "closing"}
        /\ \E state \in {"following", "saving_active"} : Discard(r, state)
    BY <1>7 DEF NothingToRun, NoRunFromCheckpoint, TypeOK
  <2>2. dropped' \subseteq Call /\ resumer' \in [Resumer -> ResumerStates]
    BY <2>1 DEF Discard, TypeOK, SetResumer, ResumerStates, Held, Marked
  <2>. QED
    BY <2>1, <2>2 DEF Discard, TypeOK, storeVars, callVars, closeVars
<1>8. CASE SaveActive(r)
  <2>1. record' \in Record /\ stale' \in BOOLEAN
    BY <1>8, SaveType DEF SaveActive, Statuses
  <2>. QED
    BY <1>8, <2>1, LeaveType DEF SaveActive, TypeOK, runVars, callVars, closeVars
<1>9. CASE SaveBack(r)
  <2>1. record' \in Record /\ stale' \in BOOLEAN
    <3>1. data[r].pending \in SUBSET Call
      BY DEF TypeOK, Record
    <3>. QED
      BY <1>9, <3>1, SaveType DEF SaveBack, Statuses
  <2>. QED
    BY <1>9, <2>1, LeaveType DEF SaveBack, TypeOK, runVars, callVars, closeVars
<1>10. CASE StartFails(r)
  <2>1. resumer' \in [Resumer -> ResumerStates]
    BY <1>10 DEF StartFails, TypeOK, SetResumer, ResumerStates, Held, Marked
  <2>. QED
    BY <1>10, <2>1 DEF StartFails, TypeOK, storeVars, runVars, callVars, closeVars, historyVars
<1>11. Interrupted(r) \in {"failed", "resumed", "cut"}
  BY DEF Interrupted
<1>12. CASE CancelResume(r)
  <2>1. stale' \in BOOLEAN
    BY <1>12 DEF CancelResume, TypeOK
  <2>. QED
    BY <1>11, <1>12, <2>1, LeaveType
    DEF CancelResume, TypeOK, storeVars, runVars, callVars, closeVars
<1>13. CASE CancelRunning(r)
  <2>1. current' \in 0..MaxRuns /\ executing' \subseteq Run /\ registry' \subseteq Call
    BY <1>13, BoundsAssumption DEF CancelRunning, RunOver, TypeOK
  <2>2. answers' \in [Call -> Nat]
    BY <1>13 DEF CancelRunning, TypeOK
  <2>. QED
    BY <1>11, <1>13, <2>1, <2>2, LeaveType DEF CancelRunning, TypeOK, storeVars, closeVars
<1>. QED
  BY <1>1, <1>2, <1>3, <1>4, <1>5, <1>6, <1>7, <1>8, <1>9, <1>10, <1>12, <1>13 DEF ResumeStep

LEMMA CloseType ==
    ASSUME TypeOK, Close \/ CascadeClose \/ Closing \/ Crash
    PROVE  TypeOK'
<1>1. Fresh \in Record
  BY DEF Fresh, Record, Statuses
<1>2. CASE Close \/ CascadeClose
  BY <1>2 DEF Close, CascadeClose, TypeOK, storeVars, runVars, callVars, resumeVars, historyVars,
              CloserStates
<1>3. CASE CloseSave
  <2>1. to_save.pending \in SUBSET Call
    BY DEF TypeOK, Record
  <2>2. record' \in Record /\ stale' \in BOOLEAN
    BY <1>3, <2>1, SaveType DEF CloseSave, Statuses
  <2>. QED
    BY <1>3, <2>2 DEF CloseSave, TypeOK, runVars, callVars, resumeVars, CloserStates
<1>4. CASE CloseSaveFails
  BY <1>1, <1>4 DEF CloseSaveFails, TypeOK, storeVars, runVars, callVars, resumeVars, historyVars,
              CloserStates
<1>5. CASE CloseMark
  <2>1. call' \in [Call -> CallStates] /\ asker' \in [Call -> 0..MaxRuns]
    BY <1>5, SettleType DEF CloseMark, CallStates
  <2>. QED
    BY <1>1, <1>5, <2>1, BoundsAssumption
    DEF CloseMark, TypeOK, storeVars, resumeVars, historyVars, CloserStates
<1>6. CASE CloseStore
  <2>1. record.pending \in SUBSET Call
    BY DEF TypeOK, Record
  <2>2. record' \in Record /\ stale' \in BOOLEAN
    BY <1>6, <2>1, SaveType DEF CloseStore, Statuses
  <2>. QED
    BY <1>6, <2>2 DEF CloseStore, TypeOK, runVars, callVars, resumeVars, CloserStates
<1>7. CASE CloseFinish
  <2>1. resumer' \in [Resumer -> ResumerStates]
    BY <1>7 DEF CloseFinish, TypeOK, ResumerStates, Held, Marked
  <2>. QED
    BY <1>7, <2>1 DEF CloseFinish, TypeOK, storeVars, callVars, historyVars, CloserStates
<1>8. CASE Crash
  <2>1. call' \in [Call -> CallStates] /\ asker' \in [Call -> 0..MaxRuns]
    BY <1>8, SettleType DEF Crash, CallStates
  <2>2. resumer' \in [Resumer -> ResumerStates] /\ answers' \in [Call -> Nat]
    BY <1>8 DEF Crash, TypeOK, ResumerStates
  <2>3. current' \in 0..MaxRuns /\ drives' \in [Resumer -> 0..MaxRuns] /\ crashes' \in 0..MaxCrashes
    BY <1>8, BoundsAssumption DEF Crash, TypeOK
  <2>4. data' \in [Resumer -> Record] /\ to_save' \in Record /\ payload' \in [Resumer -> SUBSET Call]
    BY <1>1, <1>8 DEF Crash
  <2>. QED
    BY <1>8, <2>1, <2>2, <2>3, <2>4 DEF Crash, TypeOK, storeVars, CloserStates
<1>. QED
  BY <1>2, <1>3, <1>4, <1>5, <1>6, <1>7, <1>8 DEF Closing

LEMMA TypeNext == TypeOK /\ [Next]_vars => TypeOK'
<1> SUFFICES ASSUME TypeOK, [Next]_vars PROVE TypeOK'
  OBVIOUS
<1>1. CASE UNCHANGED vars
  BY <1>1 DEF vars, storeVars, runVars, callVars, resumeVars, closeVars, historyVars, TypeOK
<1>. QED
  BY <1>1, RunsType, ToolType, ResumeType, CloseType DEF Next

\* Every variable has its type; the ids of runs in particular are those of free runs.
THEOREM TypeCorrectness == Spec => []TypeOK
  BY TypeInit, TypeNext, PTL DEF Spec

-----------------------------------------------------------------------------
(***************************************************************************)
(* Runs and the calls they wait for.  A call that is still open belongs to *)
(* a run that executes; the registry holds calls of the current run only.  *)
(***************************************************************************)
OpenStates == Asking \cup {"waiting"}

RunsInv ==
    /\ current = 0 \/ current \in executing
    /\ \A c \in Call : call[c] \in OpenStates => asker[c] \in executing
    /\ current = 0 => registry = {}
    /\ \A c \in registry : call[c] \in OpenStates => asker[c] = current

LEMMA RunsInit == Init => RunsInv
  BY DEF Init, RunsInv, OpenStates, Asking

LEMMA RunsSame ==
    ASSUME RunsInv, UNCHANGED <<current, executing, call, asker, registry>>
    PROVE  RunsInv'
  BY DEF RunsInv

\* A run starts when none is current.
LEMMA NewRunKeepsRuns ==
    ASSUME TypeOK, RunsInv, NewRun, current = 0, UNCHANGED callVars
    PROVE  RunsInv'
  BY DEF RunsInv, NewRun, callVars

\* Calls are settled: they are open no more.
LEMMA SettledKeepRuns ==
    ASSUME TypeOK, RunsInv, NEW calls, NEW state \in CallStates \ OpenStates, Settle(calls, state),
           registry' \subseteq registry, UNCHANGED <<current, executing>>
    PROVE  RunsInv'
<1>1. \A c \in Call : call'[c] \in OpenStates => call'[c] = call[c] /\ asker'[c] = asker[c]
  BY DEF Settle
<1>2. registry \subseteq Call
  BY DEF TypeOK
<1>. QED
  BY <1>1, <1>2 DEF RunsInv

\* An open call goes on; it may be registered when its run is the current one.
LEMMA CallKeepsRuns ==
    ASSUME TypeOK, RunsInv, NEW c \in Call, NEW state \in OpenStates, SetCall(c, state),
           UNCHANGED <<current, executing>>,
           \/ call[c] \in OpenStates /\ asker' = asker
           \/ current # 0 /\ asker' = [asker EXCEPT ![c] = current],
           \/ registry' = registry /\ (c \in registry => asker'[c] = current)
           \/ registry' = registry \cup {c} /\ asker'[c] = current
    PROVE  RunsInv'
<1>1. /\ asker'[c] \in executing /\ call'[c] = state
      /\ \A d \in Call : d # c => call'[d] = call[d] /\ asker'[d] = asker[d]
  BY DEF RunsInv, TypeOK, SetCall
<1>2. current # 0 \/ registry' = registry
  <2>1. 0 \notin executing
    BY DEF TypeOK, Run
  <2>. QED
    BY <1>1, <2>1
<1>3. registry \subseteq Call
  BY DEF TypeOK
<1>. QED
  BY <1>1, <1>2, <1>3 DEF RunsInv

LEMMA ToolKeepsRuns ==
    ASSUME TypeOK, RunsInv, NEW c \in Call, Tool(c)
    PROVE  RunsInv'
<1>1. "asked" \in OpenStates /\ "saved" \in OpenStates /\ "recording" \in OpenStates
      /\ "waiting" \in OpenStates /\ "none" \notin OpenStates
      /\ {"parked", "failed"} \subseteq CallStates \ OpenStates
  BY DEF OpenStates, Asking, CallStates
<1>2. CASE Ask(c)
  <2>1. /\ SetCall(c, "asked") /\ asker' = [asker EXCEPT ![c] = current] /\ current # 0
        /\ UNCHANGED <<current, executing>>
        /\ registry' = registry \/ registry' = registry \cup {c}
    BY <1>2 DEF Ask, runVars
  <2>2. asker'[c] = current
    BY <2>1 DEF TypeOK
  <2>. QED
    BY <1>1, <2>1, <2>2, CallKeepsRuns
<1>3. CASE SaveCheckpoint(c)
  <2>1. c \in registry => asker[c] = current
    BY <1>1, <1>3 DEF SaveCheckpoint, RunsInv
  <2>. QED
    BY <1>1, <1>3, <2>1, CallKeepsRuns DEF SaveCheckpoint, runVars
<1>4. ASSUME Recorded(c), call[c] \in OpenStates, UNCHANGED <<current, executing>> PROVE RunsInv'
  <2>1. CASE c \in Bridged
    BY <1>1, <1>4, <2>1, SettledKeepRuns DEF Recorded
  <2>2. CASE c \notin Bridged
    <3>1. c \in registry => asker[c] = current
      BY <1>4 DEF RunsInv
    <3>. QED
      BY <1>1, <1>4, <2>2, <3>1, CallKeepsRuns DEF Recorded
  <2>. QED
    BY <2>1, <2>2
<1>5. CASE LoadRecord(c)
  <2>1. c \in registry => asker[c] = current
    BY <1>1, <1>5 DEF LoadRecord, RunsInv
  <2>2. CASE SetCall(c, "recording") /\ UNCHANGED <<asker, registry>>
    BY <1>1, <1>5, <2>1, <2>2, CallKeepsRuns DEF LoadRecord, runVars
  <2>. QED
    BY <1>1, <1>4, <1>5, <2>2 DEF LoadRecord, runVars
<1>6. CASE SaveRecord(c)
  BY <1>1, <1>4, <1>6 DEF SaveRecord, runVars
<1>7. CASE GiveUp(c)
  BY <1>1, <1>7, SettledKeepRuns DEF GiveUp, runVars
<1>. QED
  BY <1>2, <1>3, <1>5, <1>6, <1>7 DEF Tool

LEMMA RunEndsKeepsRuns ==
    ASSUME TypeOK, RunsInv, NEW n, RunOver(n), UNCHANGED <<call, asker>>
    PROVE  RunsInv'
<1>1. \A c \in Call : call[c] \in OpenStates => asker[c] # n
  BY DEF RunOver, Open, OpenStates
<1>2. registry \subseteq Call
  BY DEF TypeOK
<1>. QED
  BY <1>1, <1>2 DEF RunOver, RunsInv

LEMMA RunsNext ==
    ASSUME TypeOK, RunsInv, [Next]_vars
    PROVE  RunsInv'
<1>1. CASE StartRun
  BY <1>1, NewRunKeepsRuns DEF StartRun
<1>2. ASSUME NEW n \in Run, NEW raised \in BOOLEAN, RunEnds(n, raised) PROVE RunsInv'
  BY <1>2, RunEndsKeepsRuns DEF RunEnds
<1>3. ASSUME NEW c \in Call, Tool(c) PROVE RunsInv'
  BY <1>3, ToolKeepsRuns
<1>4. ASSUME NEW r \in Resumer, ResumeStep(r) \/ \E c \in Call : Resume(r, {c}) PROVE RunsInv'
  <2>1. CASE RunFromCheckpoint(r)
    BY <2>1, NewRunKeepsRuns DEF RunFromCheckpoint
  <2>2. CASE Resolve(r)
    <3>1. "answered" \in CallStates \ OpenStates
      BY DEF CallStates, OpenStates, Asking
    <3>2. /\ \E calls : Settle(calls, "answered")
          /\ registry' \subseteq registry /\ UNCHANGED <<current, executing>>
      BY <2>2 DEF Resolve, runVars
    <3>. QED
      BY <3>1, <3>2, SettledKeepRuns
  <2>3. CASE \/ Acquire(r) \/ Refuse(r) \/ LoadCheckpoint(r) \/ NothingToRun(r)
             \/ NoRunFromCheckpoint(r) \/ StartFails(r) \/ SaveActive(r) \/ SaveBack(r)
             \/ CancelResume(r) \/ \E c \in Call : Resume(r, {c})
    BY <2>3, RunsSame DEF Acquire, Refuse, LoadCheckpoint, NothingToRun, NoRunFromCheckpoint, Discard,
                          StartFails, SaveActive, SaveBack, CancelResume, Resume, runVars, callVars
  <2>4. CASE CancelRunning(r)
    BY <2>4, RunEndsKeepsRuns DEF CancelRunning
  <2>. QED
    BY <1>4, <2>1, <2>2, <2>3, <2>4 DEF ResumeStep
<1>5. CASE Close \/ CascadeClose \/ CloseSave \/ CloseSaveFails \/ CloseStore \/ CloseFinish
  BY <1>5, RunsSame DEF Close, CascadeClose, CloseSave, CloseSaveFails, CloseStore, CloseFinish,
                        runVars, callVars
<1>6. CASE CloseMark
  <2>1. \A c \in Call : call'[c] \in OpenStates => call'[c] = call[c] /\ asker'[c] = asker[c]
    BY <1>6 DEF CloseMark, Settle, OpenStates, Asking
  <2>. QED
    BY <1>6, <2>1 DEF CloseMark, RunsInv
<1>7. CASE Crash
  <2>1. \A c \in Call : call'[c] \notin OpenStates
    BY <1>7 DEF Crash, Settle, OpenStates, Asking
  <2>. QED
    BY <1>7, <2>1 DEF Crash, RunsInv
<1>8. CASE UNCHANGED vars
  BY <1>8, RunsSame DEF vars, runVars, callVars
<1>. QED
  BY <1>1, <1>2, <1>3, <1>4, <1>5, <1>6, <1>7, <1>8 DEF Next, Closing

-----------------------------------------------------------------------------
(***************************************************************************)
(* The records that are read and saved.  No copy of the record names a     *)
(* call before its tool has saved it there, and the answers of a resume    *)
(* cover the record it has loaded.                                         *)
(***************************************************************************)
Unrecorded == {"none"} \cup Asking

Saved(c) ==
    c \in record.pending \/ c \in to_save.pending \/ \E r \in Resumer : c \in data[r].pending

Covers(r) == \E c \in Call : payload[r] = {c} /\ data[r].pending \subseteq {c}

StoreInv ==
    /\ \A c \in Call : call[c] \in Unrecorded => ~Saved(c)
    /\ \A r \in Resumer : resumer[r] \in Held \cup {"queued"} => Covers(r)
    /\ closer = "saving" => to_save.pending # {}

\* The tool of a call, once past the record, does not come back to it.
LEMMA CallsGoOn ==
    ASSUME TypeOK, [Next]_vars, NEW c \in Call, call'[c] \in Unrecorded
    PROVE  call[c] \in Unrecorded
<1>1. CASE UNCHANGED call
  BY <1>1
<1>2. ASSUME NEW calls, NEW state \in {"parked", "answered", "failed"}, Settle(calls, state)
      PROVE  call[c] \in Unrecorded
  BY <1>2 DEF Settle, Unrecorded, Asking
<1>3. ASSUME NEW d \in Call, Tool(d) PROVE call[c] \in Unrecorded
  <2>1. ASSUME Recorded(d) PROVE call[c] \in Unrecorded
    BY <1>2, <2>1 DEF Recorded, SetCall, TypeOK, Unrecorded, Asking
  <2>2. CASE GiveUp(d)
    BY <1>2, <2>2 DEF GiveUp
  <2>3. CASE Ask(d) \/ SaveCheckpoint(d) \/ LoadRecord(d) \/ SaveRecord(d)
    BY <2>1, <2>3 DEF Ask, SaveCheckpoint, LoadRecord, SaveRecord, SetCall, TypeOK, Unrecorded, Asking
  <2>. QED
    BY <1>3, <2>2, <2>3 DEF Tool
<1>4. ASSUME NEW r \in Resumer, ResumeStep(r) \/ \E d \in Call : Resume(r, {d})
      PROVE  call[c] \in Unrecorded
  <2>1. CASE Resolve(r)
    BY <1>2, <2>1 DEF Resolve
  <2>2. CASE ~Resolve(r)
    BY <1>1, <1>4, <2>2 DEF ResumeStep, Acquire, Refuse, LoadCheckpoint, RunFromCheckpoint,
       NothingToRun, NoRunFromCheckpoint, Discard, StartFails, SaveActive, SaveBack, CancelResume,
       CancelRunning, Resume, callVars
  <2>. QED
    BY <2>1, <2>2
<1>5. CASE CloseMark \/ Crash
  BY <1>2, <1>5 DEF CloseMark, Crash
<1>6. CASE \/ StartRun \/ \E n \in Run, raised \in BOOLEAN : RunEnds(n, raised)
           \/ Close \/ CascadeClose \/ CloseSave \/ CloseSaveFails \/ CloseStore \/ CloseFinish
           \/ UNCHANGED vars
  BY <1>1, <1>6 DEF StartRun, RunEnds, Close, CascadeClose, CloseSave, CloseSaveFails, CloseStore,
     CloseFinish, vars, callVars
<1>. QED
  BY <1>3, <1>4, <1>5, <1>6 DEF Next, Closing

LEMMA StoreInit == Init => StoreInv
  BY DEF Init, StoreInv, Saved, Covers, Fresh, Held, Marked

\* What is saved is what was read, or the one call that its tool records.
LEMMA SavedAsRead ==
    ASSUME TypeOK, [Next]_vars, NEW c \in Call, Saved(c)'
    PROVE  Saved(c) \/ (SaveRecord(c) /\ call'[c] \notin Unrecorded)
<1>1. ASSUME UNCHANGED <<record, to_save, data>> PROVE Saved(c)
  BY <1>1 DEF Saved
<1>2. Fresh.pending = {}
  BY DEF Fresh
<1>3. ASSUME NEW r \in Resumer, NEW state, Leave(r, state), UNCHANGED to_save,
             record' = record \/ record'.pending \subseteq data[r].pending
      PROVE  Saved(c)
  BY <1>2, <1>3 DEF Leave, Saved, TypeOK
<1>4. ASSUME NEW d \in Call, Tool(d)
      PROVE  Saved(c) \/ (SaveRecord(c) /\ call'[c] \notin Unrecorded)
  <2>1. CASE SaveRecord(d)
    <3>1. record'.pending = {d} /\ UNCHANGED <<to_save, data>>
      BY <2>1 DEF SaveRecord, Save, closeVars, resumeVars
    <3>2. call'[d] \notin Unrecorded
      BY <2>1 DEF SaveRecord, Recorded, Settle, SetCall, TypeOK, Unrecorded, Asking
    <3>. QED
      BY <2>1, <3>1, <3>2 DEF Saved
  <2>2. CASE ~SaveRecord(d)
    BY <1>1, <1>4, <2>2 DEF Tool, Ask, SaveCheckpoint, LoadRecord, GiveUp, storeVars, resumeVars, closeVars
  <2>. QED
    BY <2>1, <2>2
<1>5. ASSUME NEW r \in Resumer, ResumeStep(r) \/ \E d \in Call : Resume(r, {d})
      PROVE  Saved(c)
  <2>1. CASE \E d \in Call : Resume(r, {d})
    <3>1. UNCHANGED <<record, to_save>> /\ (data' = data \/ data' = [data EXCEPT ![r] = record])
      BY <2>1 DEF Resume, storeVars, closeVars
    <3>. QED
      BY <3>1 DEF Saved, TypeOK
  <2>2. CASE Acquire(r)
    BY <1>1, <1>3, <2>2 DEF Acquire, storeVars, closeVars
  <2>3. CASE Refuse(r)
    BY <1>3, <2>3 DEF Refuse, storeVars, closeVars
  <2>4. CASE LoadCheckpoint(r)
    <3>1. CASE SaveData(r, "resuming", data[r].pending) /\ UNCHANGED to_save
      <4>1. record'.pending = data[r].pending /\ data' = [data EXCEPT ![r] = record']
        BY <3>1 DEF SaveData, Save
      <4>. QED
        BY <3>1, <4>1 DEF Saved, TypeOK
    <3>. QED
      BY <1>1, <2>4, <3>1 DEF LoadCheckpoint, closeVars
  <2>5. CASE SaveActive(r) \/ SaveBack(r)
    <3>1. /\ UNCHANGED to_save /\ record'.pending \subseteq data[r].pending
          /\ Leave(r, "resumed") \/ Leave(r, "failed")
      BY <2>5 DEF SaveActive, SaveBack, Save, closeVars
    <3>. QED
      BY <1>3, <3>1
  <2>6. CASE \/ Resolve(r) \/ RunFromCheckpoint(r) \/ NothingToRun(r) \/ NoRunFromCheckpoint(r)
             \/ StartFails(r)
    BY <1>1, <2>6 DEF Resolve, RunFromCheckpoint, NothingToRun, NoRunFromCheckpoint, Discard, StartFails,
                      storeVars, closeVars
  <2>7. CASE CancelResume(r) \/ CancelRunning(r)
    BY <1>3, <2>7 DEF CancelResume, CancelRunning, storeVars, closeVars
  <2>. QED
    BY <1>5, <2>1, <2>2, <2>3, <2>4, <2>5, <2>6, <2>7 DEF ResumeStep
<1>6. CASE StartRun
  BY <1>6 DEF StartRun, Save, Saved, resumeVars, closeVars
<1>7. CASE Close \/ CascadeClose \/ CloseSaveFails \/ CloseMark
  BY <1>2, <1>7 DEF Close, CascadeClose, CloseSaveFails, CloseMark, Saved, storeVars, resumeVars
<1>8. CASE CloseSave \/ CloseStore
  BY <1>8 DEF CloseSave, CloseStore, Save, Saved, resumeVars
<1>9. CASE Crash
  BY <1>2, <1>9 DEF Crash, Saved, storeVars
<1>10. CASE CloseFinish \/ (\E n \in Run, raised \in BOOLEAN : RunEnds(n, raised)) \/ UNCHANGED vars
  BY <1>1, <1>10 DEF CloseFinish, RunEnds, vars, storeVars, resumeVars, closeVars
<1>. QED
  BY <1>4, <1>5, <1>6, <1>7, <1>8, <1>9, <1>10 DEF Next, Closing

\* A resume that has not returned covers the record it has loaded.
LEMMA CoversKept ==
    ASSUME TypeOK, StoreInv, NEW r \in Resumer, resumer[r] \in Held \cup {"queued"},
           payload'[r] = payload[r],
           data'[r] = data[r] \/ data'[r].pending \subseteq data[r].pending
    PROVE  Covers(r)'
<1>1. PICK c \in Call : payload[r] = {c} /\ data[r].pending \subseteq {c}
  BY DEF StoreInv, Covers
<1>. QED
  BY <1>1 DEF Covers

LEMMA CoversNext ==
    ASSUME TypeOK, StoreInv, [Next]_vars, NEW r \in Resumer, resumer'[r] \in Held \cup {"queued"}
    PROVE  Covers(r)'
<1>1. ASSUME UNCHANGED <<resumer, payload, data>> PROVE Covers(r)'
  BY <1>1, CoversKept
<1>2. ASSUME NEW q \in Resumer, NEW state \in {"failed", "resumed", "cut"}, Leave(q, state)
      PROVE  Covers(r)'
  <2>1. r # q
    BY <1>2 DEF Leave, SetResumer, TypeOK, Held, Marked
  <2>2. resumer'[r] = resumer[r] /\ payload'[r] = payload[r] /\ data'[r] = data[r]
    BY <1>2, <2>1 DEF Leave, SetResumer, TypeOK
  <2>. QED
    BY <2>2, CoversKept
<1>3. ASSUME NEW q \in Resumer, NEW c \in Call, Resume(q, {c}) PROVE Covers(r)'
  <2>1. CASE r # q
    <3>1. resumer'[r] = resumer[r] /\ payload'[r] = payload[r] /\ data'[r] = data[r]
      BY <1>3, <2>1 DEF Resume, SetResumer, TypeOK
    <3>. QED
      BY <3>1, CoversKept
  <2>2. CASE r = q
    <3>1. resumer'[q] # "failed"
      BY <2>2 DEF Held, Marked
    <3>2. payload'[q] = {c} /\ data'[q] = record /\ record.pending \subseteq {c}
      BY <1>3, <3>1 DEF Resume, SetResumer, TypeOK
    <3>. QED
      BY <2>2, <3>2 DEF Covers
  <2>. QED
    BY <2>1, <2>2
<1>4. ASSUME NEW q \in Resumer, ResumeStep(q) PROVE Covers(r)'
  <2>1. CASE Leave(q, "failed") \/ Leave(q, "resumed")
    BY <1>2, <2>1
  <2>2. ASSUME NEW state, SetResumer(q, state), resumer[q] \in Held \cup {"queued"},
               UNCHANGED payload, data' = data \/ data' = [data EXCEPT ![q] = record'],
               data' # data => record'.pending = data[q].pending
        PROVE  Covers(r)'
    <3>1. resumer[r] \in Held \cup {"queued"}
      BY <2>2 DEF SetResumer, TypeOK
    <3>2. data'[r] = data[r] \/ data'[r].pending = data[r].pending
      BY <2>2 DEF TypeOK
    <3>. QED
      BY <2>2, <3>1, <3>2, CoversKept
  <2>3. CASE Acquire(q) \/ Refuse(q)
    BY <2>1, <2>2, <2>3 DEF Acquire, Refuse
  <2>4. CASE LoadCheckpoint(q)
    BY <2>2, <2>4 DEF LoadCheckpoint, SaveData, Save, Held
  <2>5. CASE \/ Resolve(q) \/ RunFromCheckpoint(q) \/ NothingToRun(q) \/ NoRunFromCheckpoint(q)
             \/ StartFails(q)
    BY <2>2, <2>5 DEF Resolve, RunFromCheckpoint, NothingToRun, NoRunFromCheckpoint, Discard, StartFails,
                      Held, Marked
  <2>6. CASE SaveActive(q) \/ SaveBack(q)
    BY <2>1, <2>6 DEF SaveActive, SaveBack
  <2>7. CASE CancelResume(q) \/ CancelRunning(q)
    BY <1>2, <2>7 DEF CancelResume, CancelRunning, Interrupted
  <2>. QED
    BY <1>4, <2>3, <2>4, <2>5, <2>6, <2>7 DEF ResumeStep
<1>5. ASSUME NEW n \in Run, NEW raised \in BOOLEAN, RunEnds(n, raised) PROVE Covers(r)'
  <2>1. resumer[r] \in Held \cup {"queued"} /\ UNCHANGED <<payload, data>>
    BY <1>5 DEF RunEnds, Drivers, Followers, Held, Marked
  <2>. QED
    BY <2>1, CoversKept
<1>6. CASE Crash
  BY <1>6 DEF Crash, Held, Marked, ResumerStates, TypeOK
<1>7. CASE CloseFinish
  <2>1. resumer[r] \in Held \cup {"queued"} /\ UNCHANGED <<payload, data>>
    BY <1>7 DEF CloseFinish, Followers, Held, Marked
  <2>. QED
    BY <2>1, CoversKept
<1>8. CASE \/ StartRun \/ Close \/ CascadeClose \/ UNCHANGED vars
           \/ CloseSave \/ CloseSaveFails \/ CloseMark \/ CloseStore
           \/ \E c \in Call : Tool(c)
  BY <1>1, <1>8 DEF StartRun, Close, CascadeClose, CloseSave, CloseSaveFails, CloseMark,
     CloseStore, Tool, Ask, SaveCheckpoint, LoadRecord, SaveRecord, GiveUp, vars, resumeVars
<1>. QED
  BY <1>3, <1>4, <1>5, <1>6, <1>7, <1>8 DEF Next, Closing

LEMMA StoreNext ==
    ASSUME TypeOK, StoreInv, [Next]_vars
    PROVE  StoreInv'
<1>1. \A c \in Call : call'[c] \in Unrecorded => ~Saved(c)'
  BY CallsGoOn, SavedAsRead DEF StoreInv
<1>2. \A r \in Resumer : resumer'[r] \in Held \cup {"queued"} => Covers(r)'
  BY CoversNext
<1>3. closer' = "saving" => to_save'.pending # {}
  <2>1. CASE UNCHANGED closeVars
    BY <2>1 DEF closeVars, StoreInv
  <2>2. CASE Close \/ CascadeClose \/ Closing \/ Crash
    BY <2>2 DEF Close, CascadeClose, Closing, CloseSave, CloseSaveFails, CloseMark, CloseStore,
       CloseFinish, Crash, StoreInv
  <2>3. CASE StartRun \/ (\E n \in Run, raised \in BOOLEAN : RunEnds(n, raised)) \/ UNCHANGED vars
    BY <2>1, <2>3 DEF StartRun, RunEnds, vars
  <2>4. ASSUME NEW c \in Call, Tool(c) PROVE UNCHANGED closeVars
    BY <2>4 DEF Tool, Ask, SaveCheckpoint, LoadRecord, SaveRecord, GiveUp
  <2>5. ASSUME NEW r \in Resumer, ResumeStep(r) \/ \E c \in Call : Resume(r, {c})
        PROVE  UNCHANGED closeVars
    BY <2>5 DEF ResumeStep, Acquire, Refuse, Resolve, LoadCheckpoint, RunFromCheckpoint,
       NothingToRun, NoRunFromCheckpoint, Discard, StartFails, SaveActive, SaveBack, CancelResume,
       CancelRunning, Resume
  <2>. QED
    BY <2>1, <2>2, <2>3, <2>4, <2>5 DEF Next
<1>. QED
  BY <1>1, <1>2, <1>3 DEF StoreInv

-----------------------------------------------------------------------------
(***************************************************************************)
(* The answers, while no step has acted on stale data.  A record that can  *)
(* be resumed names a pending call; a call that is pending has no answer,  *)
(* but that which the holder of the lock has just given it.                *)
(***************************************************************************)
\* What a resume is about to do with the answers it brings.
Replaying == {"loading", "starting", "running", "following", "saving_back"}

AskedBy(c) == call[c] \in OpenStates /\ asker[c] = current

PendingInv ==
    /\ record.status = "checkpointed" => record.pending # {}
    /\ \A r \in Resumer : resumer[r] \in Replaying => record.pending # {}
    /\ \A r \in Resumer :
          resumer[r] \in {"starting", "running", "following"} => record.pending = payload[r]

GivenInv ==
    /\ \A c \in Call : answers[c] > 0 /\ c \in record.pending =>
          \E r \in Resumer : resumer[r] \in {"running", "saving_active"} /\ c \in payload[r]
    /\ \A r \in Resumer : resumer[r] = "starting" => \A c \in payload[r] : answers[c] = 0
    /\ \A r \in Resumer : resumer[r] = "running" =>
          \A c \in payload[r] : answers[c] > 0 <=> c \notin dropped
    /\ \A r \in Resumer : resumer[r] = "following" => payload[r] \subseteq dropped
    /\ \A r \in Resumer : resumer[r] = "saving_active" =>
          \A c \in payload[r] : answers[c] > 0 \/ c \in dropped

OnceInv ==
    /\ \A c \in Call : call[c] \in Unrecorded \/ AskedBy(c) => answers[c] = 0
    /\ \A c \in Call : answers[c] <= 1

NotedInv == \A c \in noted : c \in record.pending \/ answers[c] > 0 \/ c \in dropped

AnswerInv == PendingInv /\ GivenInv /\ OnceInv /\ NotedInv

LEMMA AnswerInit == Init => AnswerInv
  BY DEF Init, AnswerInv, PendingInv, GivenInv, OnceInv, NotedInv, Fresh, Replaying

\* A call is asked by the current run only when it has just been asked.
LEMMA AskersStay ==
    ASSUME TypeOK, RunsInv, [Next]_vars, NEW c \in Call, AskedBy(c)'
    PROVE  AskedBy(c) \/ call[c] = "none"
<1>1. CASE UNCHANGED <<call, asker, current>>
  BY <1>1 DEF AskedBy
<1>2. 0 \notin executing
  BY DEF TypeOK, Run
<1>3. ASSUME NEW calls, NEW state \in {"parked", "answered", "failed"}, Settle(calls, state),
             current' = current \/ current' = 0
      PROVE  AskedBy(c)
  BY <1>2, <1>3 DEF Settle, AskedBy, OpenStates, Asking, RunsInv
<1>4. ASSUME NewRun, UNCHANGED callVars PROVE AskedBy(c)
  <2>1. NewId \notin executing
    BY <1>4, NewIdIsFree DEF NewRun
  <2>. QED
    BY <1>4, <2>1 DEF NewRun, AskedBy, RunsInv, callVars
<1>5. ASSUME NEW d \in Call, Tool(d) PROVE AskedBy(c) \/ call[c] = "none"
  <2>1. ASSUME Recorded(d), call[d] \in OpenStates, current' = current PROVE AskedBy(c)
    BY <1>3, <2>1 DEF Recorded, SetCall, TypeOK, AskedBy
  <2>2. CASE GiveUp(d)
    BY <1>3, <2>2 DEF GiveUp, runVars
  <2>3. CASE Ask(d)
    BY <2>3 DEF Ask, SetCall, TypeOK, runVars, AskedBy
  <2>4. CASE SaveCheckpoint(d) \/ LoadRecord(d) \/ SaveRecord(d)
    BY <2>1, <2>4 DEF SaveCheckpoint, LoadRecord, SaveRecord, SetCall, TypeOK, AskedBy,
                      OpenStates, Asking, runVars
  <2>. QED
    BY <1>5, <2>2, <2>3, <2>4 DEF Tool
<1>6. ASSUME NEW r \in Resumer, ResumeStep(r) \/ \E d \in Call : Resume(r, {d})
      PROVE  AskedBy(c)
  <2>1. CASE Resolve(r)
    BY <1>3, <2>1 DEF Resolve, runVars
  <2>2. CASE RunFromCheckpoint(r)
    BY <1>4, <2>2 DEF RunFromCheckpoint
  <2>3. UNCHANGED <<call, asker, current>> => AskedBy(c)
    BY DEF AskedBy
  <2>4. CASE \/ Acquire(r) \/ Refuse(r) \/ LoadCheckpoint(r) \/ NothingToRun(r)
             \/ NoRunFromCheckpoint(r) \/ StartFails(r) \/ SaveActive(r) \/ SaveBack(r)
             \/ CancelResume(r) \/ \E d \in Call : Resume(r, {d})
    BY <2>3, <2>4 DEF Acquire, Refuse, LoadCheckpoint, NothingToRun, NoRunFromCheckpoint, Discard,
                      StartFails, SaveActive, SaveBack, CancelResume, Resume, runVars, callVars
  <2>5. CASE CancelRunning(r)
    BY <1>2, <2>5 DEF CancelRunning, RunOver, AskedBy, RunsInv
  <2>. QED
    BY <1>6, <2>1, <2>2, <2>4, <2>5 DEF ResumeStep
<1>7. CASE CloseMark \/ Crash
  BY <1>3, <1>7 DEF CloseMark, Crash
<1>8. CASE StartRun
  BY <1>4, <1>8 DEF StartRun
<1>9. ASSUME NEW n \in Run, NEW raised \in BOOLEAN, RunEnds(n, raised) PROVE AskedBy(c)
  BY <1>2, <1>9 DEF RunEnds, RunOver, AskedBy, RunsInv
<1>10. CASE \/ Close \/ CascadeClose \/ CloseSave \/ CloseSaveFails \/ CloseStore \/ CloseFinish
            \/ UNCHANGED vars
  BY <1>1, <1>10 DEF Close, CascadeClose, CloseSave, CloseSaveFails, CloseStore, CloseFinish, vars,
     runVars, callVars
<1>. QED
  BY <1>5, <1>6, <1>7, <1>8, <1>9, <1>10 DEF Next, Closing

LEMMA OnceKept ==
    ASSUME TypeOK, RunsInv, OnceInv, [Next]_vars,
           \A c \in Call : answers'[c] = 0 \/ answers'[c] = answers[c]
    PROVE  OnceInv'
<1>1. \A c \in Call : call'[c] \in Unrecorded \/ AskedBy(c)' => answers[c] = 0
  BY CallsGoOn, AskersStay DEF OnceInv, Unrecorded
<1>2. \A c \in Call : answers'[c] <= 1
  BY DEF OnceInv
<1>. QED
  BY <1>1, <1>2 DEF OnceInv

\* Steps that give and drop no answer, and take no resume to or from where it is about
\* to: pending calls stay in the record, or a tool records one in a record without any.
LEMMA OtherSteps ==
    ASSUME TypeOK, StoreInv, RunsInv, AnswerInv, [Next]_vars,
           UNCHANGED <<answers, dropped>>,
           \A r \in Resumer :
              resumer[r] \in Replaying \cup {"saving_active"}
                 \/ resumer'[r] \in Replaying \cup {"saving_active"} =>
              resumer'[r] = resumer[r] /\ payload'[r] = payload[r],
           \/ /\ UNCHANGED noted /\ record'.pending = record.pending
              /\ \/ record'.status = record.status \/ record'.status # "checkpointed"
                 \/ record.pending # {}
           \/ \E c \in Call : /\ call[c] \in Unrecorded /\ noted' = noted \cup {c}
                              /\ record.pending = {} /\ record'.pending = {c}
    PROVE  AnswerInv'
<1>1. OnceInv'
  BY OnceKept DEF AnswerInv
<1>2. \A r \in Resumer : resumer'[r] \in Replaying \cup {"saving_active"} =>
                            resumer'[r] = resumer[r] /\ payload'[r] = payload[r]
  OBVIOUS
<1>3. CASE UNCHANGED noted /\ record'.pending = record.pending
           /\ \/ record'.status = record.status \/ record'.status # "checkpointed"
              \/ record.pending # {}
  <2>1. PendingInv'
    BY <1>2, <1>3 DEF AnswerInv, PendingInv, Replaying
  <2>2. GivenInv'
    BY <1>2, <1>3 DEF AnswerInv, GivenInv, Replaying
  <2>3. NotedInv'
    BY <1>3 DEF AnswerInv, NotedInv
  <2>. QED
    BY <1>1, <2>1, <2>2, <2>3 DEF AnswerInv
<1>4. ASSUME NEW c \in Call, call[c] \in Unrecorded, noted' = noted \cup {c},
             record.pending = {}, record'.pending = {c}
      PROVE  AnswerInv'
  <2>1. \A r \in Resumer : resumer'[r] \notin Replaying
    BY <1>2, <1>4 DEF AnswerInv, PendingInv, Replaying
  <2>2. PendingInv'
    BY <1>4, <2>1 DEF PendingInv, Replaying
  <2>3. answers[c] = 0
    BY <1>4 DEF AnswerInv, OnceInv
  <2>4. GivenInv'
    BY <1>2, <1>4, <2>1, <2>3 DEF AnswerInv, GivenInv, Replaying
  <2>5. NotedInv'
    BY <1>4 DEF AnswerInv, NotedInv
  <2>. QED
    BY <1>1, <2>2, <2>4, <2>5 DEF AnswerInv
<1>. QED
  BY <1>3, <1>4

LEMMA OneHolder ==
    ASSUME LockIsExclusive, NEW r \in Resumer, NEW q \in Resumer,
           resumer[r] \in Replaying \cup {"validating", "saving_active"},
           resumer[q] \in Replaying \cup {"validating", "saving_active"}
    PROVE  q = r
  BY DEF LockIsExclusive, Replaying, Held, Marked

\* Messages, tools, closes, and resumes that only come or go.
LEMMA AnswersOthers ==
    ASSUME TypeOK, StoreInv, RunsInv, AnswerInv, [Next]_vars, ~stale',
           \/ StartRun \/ Close \/ CascadeClose \/ UNCHANGED vars
           \/ CloseSave \/ CloseSaveFails \/ CloseMark \/ CloseStore
           \/ \E c \in Call : Tool(c)
           \/ \E r \in Resumer : Acquire(r) \/ Refuse(r) \/ \E c \in Call : Resume(r, {c})
    PROVE  AnswerInv'
<1>1. CASE StartRun
  <2>1. /\ UNCHANGED <<answers, dropped, noted, resumer, payload>>
        /\ record'.pending = record.pending
        /\ record'.status = record.status \/ record'.status # "checkpointed"
    BY <1>1 DEF StartRun, Save, resumeVars
  <2>. QED
    BY <2>1, OtherSteps
<1>2. CASE CloseSave
  <2>1. record = to_save /\ record'.pending = to_save.pending /\ to_save.pending # {}
    BY <1>2 DEF CloseSave, Save, StoreInv
  <2>2. UNCHANGED <<answers, dropped, noted, resumer, payload>>
    BY <1>2 DEF CloseSave, resumeVars
  <2>. QED
    BY <2>1, <2>2, OtherSteps
<1>3. CASE CloseStore
  <2>1. /\ UNCHANGED <<answers, dropped, noted, resumer, payload>>
        /\ record'.pending = record.pending /\ record'.status # "checkpointed"
    BY <1>3 DEF CloseStore, Save, resumeVars
  <2>. QED
    BY <2>1, OtherSteps
<1>4. CASE Close \/ CascadeClose \/ CloseSaveFails \/ CloseMark \/ UNCHANGED vars
  <2>1. UNCHANGED <<answers, dropped, noted, resumer, payload, record>>
    BY <1>4 DEF Close, CascadeClose, CloseSaveFails, CloseMark, vars, storeVars,
                resumeVars, historyVars
  <2>. QED
    BY <2>1, OtherSteps
<1>5. ASSUME NEW c \in Call, Tool(c) PROVE AnswerInv'
  <2>1. CASE SaveRecord(c)
    <3>1. UNCHANGED <<answers, dropped, resumer, payload>> /\ noted' = noted \cup {c}
      BY <2>1 DEF SaveRecord, resumeVars
    <3>2. record = Fresh /\ record'.pending = {c}
      BY <2>1 DEF SaveRecord, Save
    <3>3. record.pending = {}
      BY <3>2 DEF Fresh
    <3>4. call[c] \in Unrecorded
      BY <2>1 DEF SaveRecord, Unrecorded, Asking
    <3>. QED
      BY <3>1, <3>2, <3>3, <3>4, OtherSteps
  <2>2. CASE ~SaveRecord(c)
    <3>1. UNCHANGED <<answers, dropped, noted, resumer, payload, record>>
      BY <1>5, <2>2 DEF Tool, Ask, SaveCheckpoint, LoadRecord, GiveUp, storeVars, resumeVars, historyVars
    <3>. QED
      BY <3>1, OtherSteps
  <2>. QED
    BY <2>1, <2>2
<1>6. ASSUME NEW r \in Resumer, Acquire(r) \/ Refuse(r) \/ \E c \in Call : Resume(r, {c})
      PROVE  AnswerInv'
  <2>1. UNCHANGED <<answers, dropped, noted, record>>
    BY <1>6 DEF Acquire, Refuse, Resume, storeVars, historyVars
  <2>2. resumer[r] \notin Replaying \cup {"saving_active"}
    BY <1>6 DEF Acquire, Refuse, Resume, Replaying
  <2>3. /\ resumer'[r] \notin Replaying \cup {"saving_active"}
        /\ \A q \in Resumer : q # r => resumer'[q] = resumer[q] /\ payload'[q] = payload[q]
    BY <1>6 DEF Acquire, Refuse, Resume, Leave, SetResumer, TypeOK, Replaying
  <2>. QED
    BY <2>1, <2>2, <2>3, OtherSteps
<1>. QED
  BY <1>1, <1>2, <1>3, <1>4, <1>5, <1>6

\* Futures are resolved.  A resume that goes on from here has found a pending call in
\* the record.
LEMMA AnswersResolve ==
    ASSUME TypeOK, StoreInv, RunsInv, AnswerInv, LockIsExclusive, [Next]_vars, ~stale',
           NEW r \in Resumer, Resolve(r)
    PROVE  AnswerInv'
<1> DEFINE found == payload[r] \cap registry
           waiting == {c \in found : call[c] = "waiting"}
<1>1. /\ resumer[r] = "validating" /\ UNCHANGED <<record, payload, noted, current>>
      /\ Settle(waiting, "answered")
      /\ answers' = [c \in Call |-> IF c \in waiting THEN answers[c] + 1 ELSE answers[c]]
      /\ dropped' = dropped \cup (found \ waiting)
      /\ resumer' = [resumer EXCEPT ![r] =
                       IF current = 0 THEN "loading"
                       ELSE IF found = payload[r] THEN "saving_active" ELSE "saving_back"]
  BY DEF Resolve, SetResumer, storeVars, runVars
<1>2. \A q \in Resumer : q # r =>
         resumer'[q] = resumer[q] /\ resumer[q] \notin Replaying \cup {"saving_active"}
  BY <1>1, OneHolder DEF TypeOK
<1>3. waiting \subseteq Call /\ \A c \in waiting : AskedBy(c)
  BY DEF TypeOK, RunsInv, AskedBy, OpenStates
<1>4. \A c \in waiting : answers[c] = 0
  BY <1>3 DEF AnswerInv, OnceInv
<1>5. PICK c \in Call : payload[r] = {c}
  BY <1>1 DEF StoreInv, Covers, Held
<1>6. resumer'[r] = "saving_active" \/ record.pending # {}
  <2>1. CASE record.status = "checkpointed"
    BY <2>1 DEF AnswerInv, PendingInv
  <2>2. CASE record.status # "checkpointed"
    <3>1. payload[r] \subseteq registry
      BY <2>2 DEF Resolve, Valid
    <3>2. found = payload[r] /\ registry # {}
      BY <1>5, <3>1
    <3>3. current # 0
      BY <3>2 DEF RunsInv
    <3>. QED
      BY <1>1, <3>2, <3>3 DEF TypeOK
  <2>. QED
    BY <2>1, <2>2
<1>7. resumer'[r] \in {"loading", "saving_active", "saving_back"}
  BY <1>1 DEF TypeOK
<1>8. PendingInv'
  BY <1>1, <1>2, <1>6, <1>7 DEF AnswerInv, PendingInv, Replaying
<1>9. resumer'[r] = "saving_active" => found = payload[r]
  BY <1>1 DEF TypeOK
<1>10. waiting # {} => current # 0 /\ found = payload[r] /\ payload[r] = waiting
  BY <1>5 DEF RunsInv
<1>11. waiting # {} => resumer'[r] = "saving_active"
  BY <1>1, <1>10 DEF TypeOK
<1> HIDE DEF waiting
<1>12. GivenInv'
  <2>1. ASSUME NEW d \in Call, answers'[d] > 0, d \in record'.pending
        PROVE  \E q \in Resumer : resumer'[q] \in {"running", "saving_active"} /\ d \in payload'[q]
    <3>1. CASE d \in waiting
      BY <1>1, <1>10, <1>11, <3>1
    <3>2. CASE d \notin waiting
      <4>1. answers[d] > 0 /\ d \in record.pending
        BY <1>1, <2>1, <3>2
      <4>2. PICK q \in Resumer : resumer[q] \in {"running", "saving_active"} /\ d \in payload[q]
        BY <4>1 DEF AnswerInv, GivenInv
      <4>. QED
        BY <1>1, <1>2, <4>2 DEF Replaying
    <3>. QED
      BY <3>1, <3>2
  <2>2. ASSUME resumer'[r] = "saving_active", NEW d \in payload[r]
        PROVE  answers'[d] > 0 \/ d \in dropped'
    BY <1>1, <1>4, <1>5, <1>9, <2>2 DEF TypeOK
  <2>. QED
    BY <1>1, <1>2, <1>7, <2>1, <2>2 DEF GivenInv, Replaying
<1>13. OnceInv'
  <2>1. \A d \in Call : call'[d] \in Unrecorded \/ AskedBy(d)' => answers[d] = 0
    BY CallsGoOn, AskersStay DEF AnswerInv, OnceInv, Unrecorded
  <2>2. \A d \in waiting : call'[d] \notin Unrecorded /\ ~AskedBy(d)'
    BY <1>1, <1>3 DEF Settle, Unrecorded, Asking, AskedBy, OpenStates
  <2>. QED
    BY <1>1, <1>4, <2>1, <2>2 DEF AnswerInv, OnceInv
<1>14. NotedInv'
  BY <1>1, <1>4 DEF AnswerInv, NotedInv, TypeOK
<1>. QED
  BY <1>8, <1>12, <1>13, <1>14 DEF AnswerInv

\* A resume goes from one state to another, and answers change only for its calls.
LEMMA HolderAnswers ==
    ASSUME TypeOK, StoreInv, RunsInv, AnswerInv, LockIsExclusive, [Next]_vars,
           NEW r \in Resumer, resumer[r] \in Replaying \cup {"saving_active"},
           \A q \in Resumer : q # r => resumer'[q] = resumer[q],
           UNCHANGED noted,
           \A c \in Call : answers'[c] = 0 \/ answers'[c] = answers[c],
           \* The record.
           record'.status = "checkpointed" => record'.pending # {},
           resumer'[r] \in Replaying => record'.pending # {},
           resumer'[r] \in {"starting", "running", "following"} => record'.pending = payload'[r],
           \* The answers.
           \A c \in Call : answers'[c] > 0 /\ c \in record'.pending =>
               resumer'[r] \in {"running", "saving_active"} /\ c \in payload'[r],
           resumer'[r] = "starting" => \A c \in payload'[r] : answers'[c] = 0,
           resumer'[r] = "running" =>
               \A c \in payload'[r] : answers'[c] > 0 <=> c \notin dropped',
           resumer'[r] = "following" => payload'[r] \subseteq dropped',
           resumer'[r] = "saving_active" =>
               \A c \in payload'[r] : answers'[c] > 0 \/ c \in dropped',
           NotedInv'
    PROVE  AnswerInv'
<1>1. \A q \in Resumer : q # r => resumer'[q] \notin Replaying \cup {"saving_active"}
  BY OneHolder
<1>2. PendingInv'
  BY <1>1 DEF PendingInv, Replaying
<1>3. GivenInv'
  BY <1>1 DEF GivenInv, Replaying
<1>4. OnceInv'
  BY OnceKept DEF AnswerInv
<1>. QED
  BY <1>2, <1>3, <1>4 DEF AnswerInv

\* The resume whose run has ended, when nobody else runs from the checkpoint.
LEMMA AnswersSave ==
    ASSUME TypeOK, StoreInv, RunsInv, AnswerInv, LockIsExclusive, [Next]_vars, ~stale',
           NEW r \in Resumer, SaveActive(r) \/ SaveBack(r)
    PROVE  AnswerInv'
<1>1. CASE SaveActive(r)
  <2>1. /\ resumer[r] = "saving_active" /\ UNCHANGED <<answers, dropped, noted>>
        /\ record = data[r] /\ record'.status = "active" /\ record'.pending = {}
        /\ Leave(r, "resumed")
    BY <1>1 DEF SaveActive, Save
  <2>2. resumer'[r] = "resumed" /\ \A q \in Resumer : q # r => resumer'[q] = resumer[q]
    BY <2>1 DEF Leave, SetResumer, TypeOK
  <2>3. \A c \in record.pending : answers[c] > 0 \/ c \in dropped
    BY <2>1 DEF StoreInv, Covers, Held, Marked, AnswerInv, GivenInv
  <2>4. NotedInv'
    BY <2>1, <2>3 DEF AnswerInv, NotedInv
  <2>. QED
    BY <2>1, <2>2, <2>4, HolderAnswers DEF Replaying
<1>2. CASE SaveBack(r)
  <2>1. /\ resumer[r] = "saving_back" /\ UNCHANGED <<answers, dropped, noted>>
        /\ record = data[r] /\ record'.pending = data[r].pending
        /\ Leave(r, "failed")
    BY <1>2 DEF SaveBack, Save
  <2>2. resumer'[r] = "failed" /\ \A q \in Resumer : q # r => resumer'[q] = resumer[q]
    BY <2>1 DEF Leave, SetResumer, TypeOK
  <2>3. record'.pending = record.pending /\ record.pending # {}
    BY <2>1 DEF AnswerInv, PendingInv, Replaying
  <2>4. NotedInv'
    BY <2>1, <2>3 DEF AnswerInv, NotedInv
  <2>5. \A c \in Call : ~(answers'[c] > 0 /\ c \in record'.pending)
    <3>1. ASSUME NEW c \in Call, answers[c] > 0, c \in record.pending PROVE FALSE
      <4>1. PICK q \in Resumer : resumer[q] \in {"running", "saving_active"}
        BY <3>1 DEF AnswerInv, GivenInv
      <4>2. q = r
        BY <2>1, <4>1, OneHolder DEF Replaying
      <4>. QED
        BY <2>1, <4>1, <4>2
    <3>. QED
      BY <2>1, <2>3, <3>1
  <2>. QED
    BY <2>1, <2>2, <2>3, <2>4, <2>5, HolderAnswers DEF Replaying
<1>. QED
  BY <1>1, <1>2

\* A pending call whose resume is not past the run has no answer.
LEMMA PendingIsUnanswered ==
    ASSUME LockIsExclusive, AnswerInv, NEW r \in Resumer,
           resumer[r] \in {"loading", "starting", "following", "saving_back"},
           NEW c \in Call, c \in record.pending, TypeOK
    PROVE  answers[c] = 0
<1>1. SUFFICES ASSUME answers[c] > 0 PROVE FALSE
  BY DEF TypeOK
<1>2. PICK q \in Resumer : resumer[q] \in {"running", "saving_active"}
  BY <1>1 DEF AnswerInv, GivenInv
<1>3. q = r
  BY <1>2, OneHolder DEF Replaying
<1>. QED
  BY <1>2, <1>3

LEMMA AnswersLoad ==
    ASSUME TypeOK, StoreInv, RunsInv, AnswerInv, LockIsExclusive, [Next]_vars, ~stale',
           NEW r \in Resumer, LoadCheckpoint(r)
    PROVE  AnswerInv'
<1>1. resumer[r] = "loading" /\ UNCHANGED <<answers, dropped, noted, payload>>
  BY DEF LoadCheckpoint
<1>2. record.pending # {}
  BY <1>1 DEF AnswerInv, PendingInv, Replaying
<1>3. PICK d \in Call : payload[r] = {d} /\ data[r].pending \subseteq {d}
  BY <1>1 DEF StoreInv, Covers, Held
<1>4. \A c \in record.pending : c \in Call /\ answers[c] = 0
  BY <1>1, PendingIsUnanswered DEF TypeOK, Record
<1>5. CASE SetResumer(r, "saving_back") /\ record' = record
  <2>1. resumer'[r] = "saving_back" /\ \A q \in Resumer : q # r => resumer'[q] = resumer[q]
    BY <1>5 DEF SetResumer, TypeOK
  <2>2. NotedInv'
    BY <1>1, <1>5 DEF AnswerInv, NotedInv
  <2>3. record'.status = "checkpointed" => record'.pending # {}
    BY <1>2, <1>5
  <2>. QED
    BY <1>1, <1>2, <1>4, <1>5, <2>1, <2>2, <2>3, HolderAnswers DEF Replaying
<1>6. CASE SetResumer(r, "starting") /\ SaveData(r, "resuming", data[r].pending)
  <2>1. resumer'[r] = "starting" /\ \A q \in Resumer : q # r => resumer'[q] = resumer[q]
    BY <1>6 DEF SetResumer, TypeOK
  <2>2. record = data[r] /\ record'.pending = data[r].pending /\ record'.status = "resuming"
    BY <1>6 DEF SaveData, Save
  <2>3. record'.pending = {d} /\ record.pending = {d}
    BY <1>2, <1>3, <2>2
  <2>4. NotedInv'
    BY <1>1, <2>3 DEF AnswerInv, NotedInv
  <2>5. answers[d] = 0
    BY <1>4, <2>3
  <2>. QED
    BY <1>1, <1>3, <2>1, <2>2, <2>3, <2>4, <2>5, HolderAnswers DEF Replaying
<1>. QED
  BY <1>5, <1>6 DEF LoadCheckpoint

\* The checkpoint is replayed, or the answers go nowhere.
LEMMA AnswersRun ==
    ASSUME TypeOK, StoreInv, RunsInv, AnswerInv, LockIsExclusive, [Next]_vars,
           NEW r \in Resumer, RunFromCheckpoint(r) \/ NothingToRun(r) \/ NoRunFromCheckpoint(r)
    PROVE  AnswerInv'
<1>1. /\ resumer[r] = "starting" /\ UNCHANGED <<record, noted, payload, call>>
      /\ \A q \in Resumer : q # r => resumer'[q] = resumer[q]
      /\ resumer'[r] \in {"running", "following", "saving_active"}
  BY DEF RunFromCheckpoint, NothingToRun, NoRunFromCheckpoint, Discard, SetResumer, TypeOK, storeVars,
         callVars
<1>2. record.pending = payload[r] /\ record.pending # {} /\ payload[r] \subseteq Call
  BY <1>1 DEF AnswerInv, PendingInv, Replaying, TypeOK
<1>3. \A c \in payload[r] : answers[c] = 0
  BY <1>1 DEF AnswerInv, GivenInv
<1>4. CASE NothingToRun(r) \/ NoRunFromCheckpoint(r)
  <2>1. /\ UNCHANGED answers /\ dropped' = dropped \cup payload[r]
        /\ resumer'[r] # "running"
    BY <1>4 DEF NothingToRun, NoRunFromCheckpoint, Discard, SetResumer, TypeOK
  <2>2. NotedInv'
    BY <1>1, <2>1 DEF AnswerInv, NotedInv
  <2>. QED
    BY <1>1, <1>2, <1>3, <2>1, <2>2, HolderAnswers DEF Replaying
<1>5. CASE RunFromCheckpoint(r)
  <2> DEFINE given == payload[r] \cap checkpoint
  <2>1. /\ answers' = [c \in Call |-> IF c \in given THEN answers[c] + 1 ELSE answers[c]]
        /\ dropped' = (dropped \cup payload[r]) \ given
        /\ resumer'[r] = "running"
    BY <1>5 DEF RunFromCheckpoint, SetResumer, TypeOK
  <2>2. \A q \in Resumer : q # r => resumer'[q] \notin Replaying \cup {"saving_active"}
    BY <1>1, OneHolder DEF Replaying
  <2>3. PendingInv'
    BY <1>1, <1>2, <2>2 DEF AnswerInv, PendingInv, Replaying
  <2>4. \A c \in payload[r] : answers'[c] > 0 <=> c \notin dropped'
    BY <1>2, <1>3, <2>1
  <2>5. GivenInv'
    BY <1>1, <1>2, <2>1, <2>2, <2>4 DEF GivenInv, Replaying
  <2>6. \A c \in Call : call'[c] \in Unrecorded \/ AskedBy(c)' => answers[c] = 0 /\ c \notin payload[r]
    <3>1. \A c \in payload[r] : call[c] \notin Unrecorded
      BY <1>2 DEF StoreInv, Saved
    <3>2. \A c \in Call : ~AskedBy(c)'
      <4>1. NewId \notin executing
        BY <1>5, NewIdIsFree DEF RunFromCheckpoint, NewRun
      <4>. QED
        BY <1>5, <4>1 DEF RunFromCheckpoint, NewRun, callVars, AskedBy, RunsInv
    <3>. QED
      BY <1>1, <3>1, <3>2 DEF AnswerInv, OnceInv
  <2>7. OnceInv'
    BY <1>3, <2>1, <2>6 DEF AnswerInv, OnceInv
  <2>8. NotedInv'
    BY <1>1, <1>2, <2>1 DEF AnswerInv, NotedInv, TypeOK
  <2>. QED
    BY <2>3, <2>5, <2>7, <2>8 DEF AnswerInv
<1>. QED
  BY <1>4, <1>5

\* One who follows a run, which has been given no answer, is told that it is over.
LEMMA AnswersFollow ==
    ASSUME TypeOK, StoreInv, RunsInv, AnswerInv, LockIsExclusive, [Next]_vars,
           UNCHANGED <<record, payload, answers, dropped, noted>>,
           \A q \in Resumer :
              resumer'[q] = IF q \in Followers THEN "saving_active" ELSE resumer[q]
    PROVE  AnswerInv'
<1>1. CASE Followers = {}
  BY <1>1, OtherSteps
<1>2. ASSUME NEW r \in Followers PROVE AnswerInv'
  <2>1. r \in Resumer /\ resumer[r] = "following"
    BY DEF Followers
  <2>2. /\ resumer'[r] = "saving_active"
        /\ \A q \in Resumer : q # r => resumer'[q] = resumer[q]
    BY <1>2, <2>1, OneHolder DEF Followers, Replaying
  <2>3. record.pending # {} /\ payload[r] \subseteq dropped
    BY <2>1 DEF AnswerInv, PendingInv, GivenInv, Replaying
  <2>4. \A c \in Call : c \in record.pending => answers[c] = 0
    BY <2>1, PendingIsUnanswered
  <2>5. NotedInv'
    BY DEF AnswerInv, NotedInv
  <2>. QED
    BY <2>1, <2>2, <2>3, <2>4, <2>5, HolderAnswers DEF Replaying
<1>. QED
  BY <1>1, <1>2

\* The run that a resume drives ends; when it has raised, the answers it was given count
\* no more, and the calls are in the record.
LEMMA AnswersRunEnds ==
    ASSUME TypeOK, StoreInv, RunsInv, AnswerInv, LockIsExclusive, [Next]_vars,
           NEW n \in Run, NEW raised \in BOOLEAN, RunEnds(n, raised)
    PROVE  AnswerInv'
<1>1. /\ UNCHANGED <<record, payload, dropped, noted>>
      /\ resumer' = [q \in Resumer |->
                       CASE q \in Drivers(n) /\ raised -> "saving_back"
                         [] ~raised /\ q \in Drivers(n) \cup Followers -> "saving_active"
                         [] OTHER -> resumer[q]]
      /\ answers' = [c \in Call |->
                       IF raised /\ \E q \in Drivers(n) : c \in payload[q] \ dropped
                       THEN 0 ELSE answers[c]]
  BY DEF RunEnds, storeVars
<1>2. CASE Drivers(n) = {} /\ raised
  <2>1. resumer' = resumer /\ answers' = answers
    BY <1>1, <1>2 DEF TypeOK
  <2>. QED
    BY <1>1, <2>1, OtherSteps
<1>3. CASE Drivers(n) = {} /\ ~raised
  <2>1. answers' = answers
    BY <1>1, <1>3 DEF TypeOK
  <2>2. \A q \in Resumer : resumer'[q] = IF q \in Followers THEN "saving_active" ELSE resumer[q]
    BY <1>1, <1>3
  <2>. QED
    BY <1>1, <2>1, <2>2, AnswersFollow
<1>4. ASSUME NEW r \in Drivers(n) PROVE AnswerInv'
  <2>1. r \in Resumer /\ resumer[r] = "running"
    BY DEF Drivers
  <2>2. \A q \in Resumer : q # r => q \notin Drivers(n) \cup Followers
    BY <2>1, OneHolder DEF Drivers, Followers, Replaying
  <2>3. /\ resumer'[r] = IF raised THEN "saving_back" ELSE "saving_active"
        /\ \A q \in Resumer : q # r => resumer'[q] = resumer[q]
    BY <1>1, <1>4, <2>1, <2>2
  <2>4. \A c \in Call : answers'[c] = IF raised /\ c \in payload[r] \ dropped THEN 0 ELSE answers[c]
    <3>1. \A c \in Call : (\E q \in Drivers(n) : c \in payload[q] \ dropped) <=> c \in payload[r] \ dropped
      BY <1>4, <2>2 DEF Drivers
    <3>. QED
      BY <1>1, <3>1
  <2>5. record.pending = payload[r] /\ record.pending # {} /\ payload[r] \subseteq Call
    BY <2>1 DEF AnswerInv, PendingInv, Replaying, TypeOK
  <2>6. \A c \in payload[r] : answers[c] > 0 <=> c \notin dropped
    BY <2>1 DEF AnswerInv, GivenInv
  <2>7. NotedInv'
    BY <1>1, <2>4, <2>5 DEF AnswerInv, NotedInv, TypeOK
  <2>8. CASE raised
    <3>1. \A c \in payload[r] : ~(answers'[c] > 0)
      BY <2>4, <2>5, <2>6, <2>8
    <3>. QED
      BY <1>1, <2>1, <2>3, <2>4, <2>5, <2>7, <2>8, <3>1, HolderAnswers DEF Replaying
  <2>9. CASE ~raised
    BY <1>1, <2>1, <2>3, <2>4, <2>5, <2>6, <2>7, <2>9, HolderAnswers DEF Replaying
  <2>. QED
    BY <2>8, <2>9
<1>. QED
  BY <1>2, <1>3, <1>4

\* The agent cannot be set up: the record is as it was.
LEMMA AnswersStartFails ==
    ASSUME TypeOK, StoreInv, RunsInv, AnswerInv, LockIsExclusive, [Next]_vars,
           NEW r \in Resumer, StartFails(r)
    PROVE  AnswerInv'
<1>1. /\ resumer[r] = "starting" /\ UNCHANGED <<record, payload, answers, dropped, noted>>
      /\ resumer'[r] = "saving_back" /\ \A q \in Resumer : q # r => resumer'[q] = resumer[q]
  BY DEF StartFails, SetResumer, TypeOK, storeVars, historyVars
<1>2. record.pending # {} /\ \A c \in Call : c \in record.pending => answers[c] = 0
  BY <1>1, PendingIsUnanswered DEF AnswerInv, PendingInv, Replaying
<1>3. NotedInv'
  BY <1>1 DEF AnswerInv, NotedInv
<1>. QED
  BY <1>1, <1>2, <1>3, HolderAnswers DEF Replaying

\* A resume is cancelled: what it has not saved is still in the record, and the answers of
\* a run that was cancelled with it count no more.
LEMMA AnswersCancel ==
    ASSUME TypeOK, StoreInv, RunsInv, AnswerInv, LockIsExclusive, [Next]_vars, ~stale',
           NEW r \in Resumer, CancelResume(r) \/ CancelRunning(r)
    PROVE  AnswerInv'
<1>1. /\ UNCHANGED <<record, dropped, noted>> /\ Leave(r, Interrupted(r))
      /\ Interrupted(r) \in {"failed", "cut"}
  BY DEF CancelResume, CancelRunning, storeVars, Interrupted
<1>2. /\ resumer'[r] \in {"failed", "cut"}
      /\ \A q \in Resumer : q # r => resumer'[q] = resumer[q] /\ payload'[q] = payload[q]
  BY <1>1 DEF Leave, SetResumer, TypeOK
<1>3. CASE resumer[r] \notin Replaying \cup {"saving_active"}
  <2>1. answers' = answers
    BY <1>3 DEF CancelResume, CancelRunning, Replaying
  <2>. QED
    BY <1>1, <1>2, <1>3, <2>1, OtherSteps DEF Replaying
<1>4. CASE resumer[r] \in Replaying \cup {"saving_active"}
  <2>1. \A c \in Call : answers'[c] = 0 \/ answers'[c] = answers[c]
    BY DEF CancelResume, CancelRunning, TypeOK
  <2>2. record.status = "checkpointed" => record.pending # {}
    BY DEF AnswerInv, PendingInv
  <2>3. \A c \in Call : c \in record.pending => ~(answers'[c] > 0)
    <3>1. CASE resumer[r] = "running"
      <4>1. answers' = [c \in Call |-> IF c \in payload[r] \ dropped THEN 0 ELSE answers[c]]
        BY <3>1 DEF CancelResume, CancelRunning
      <4>2. record.pending = payload[r] /\ \A c \in payload[r] : answers[c] > 0 <=> c \notin dropped
        BY <3>1 DEF AnswerInv, PendingInv, GivenInv
      <4>. QED
        BY <4>1, <4>2
    <3>2. CASE resumer[r] = "saving_active"
      <4>1. answers' = answers /\ \A c \in payload[r] : ~(answers[c] > 0)
        BY <3>2 DEF CancelResume, CancelRunning
      <4>2. ASSUME NEW c \in Call, c \in record.pending, answers[c] > 0 PROVE FALSE
        <5>1. PICK q \in Resumer : resumer[q] \in {"running", "saving_active"} /\ c \in payload[q]
          BY <4>2 DEF AnswerInv, GivenInv
        <5>2. q = r
          BY <3>2, <5>1, OneHolder DEF Replaying
        <5>. QED
          BY <4>1, <4>2, <5>1, <5>2
      <4>. QED
        BY <4>1, <4>2
    <3>3. CASE resumer[r] \in {"loading", "starting", "following", "saving_back"}
      <4>1. answers' = answers
        BY <3>3 DEF CancelResume, CancelRunning
      <4>. QED
        BY <3>3, <4>1, PendingIsUnanswered
    <3>. QED
      BY <1>4, <3>1, <3>2, <3>3 DEF Replaying
  <2>4. NotedInv'
    <3>1. \A c \in noted : c \in record.pending \/ c \in dropped \/ answers'[c] = answers[c]
      <4>1. CASE resumer[r] = "running"
        <5>1. record.pending = payload[r]
          BY <4>1 DEF AnswerInv, PendingInv
        <5>. QED
          BY <4>1, <5>1 DEF CancelResume, CancelRunning, TypeOK
      <4>2. CASE resumer[r] # "running"
        BY <4>2 DEF CancelResume, CancelRunning
      <4>. QED
        BY <4>1, <4>2
    <3>. QED
      BY <1>1, <3>1 DEF AnswerInv, NotedInv
  <2>. QED
    BY <1>1, <1>2, <1>4, <2>1, <2>2, <2>3, <2>4, HolderAnswers DEF Replaying
<1>. QED
  BY <1>3, <1>4

LEMMA AnswersCrash ==
    ASSUME TypeOK, RunsInv, AnswerInv, [Next]_vars, Crash
    PROVE  AnswerInv'
<1>1. /\ UNCHANGED <<record, dropped, noted>>
      /\ \A r \in Resumer : resumer'[r] \notin Replaying \cup {"saving_active"}
      /\ answers' = [c \in Call |-> IF c \in record.pending THEN 0 ELSE answers[c]]
  BY DEF Crash, storeVars, Replaying, Held, Marked, ResumerStates, TypeOK
<1>2. OnceInv'
  BY <1>1, OnceKept DEF AnswerInv
<1>3. PendingInv' /\ GivenInv'
  BY <1>1 DEF AnswerInv, PendingInv, GivenInv, Replaying
<1>4. NotedInv'
  BY <1>1 DEF AnswerInv, NotedInv, TypeOK
<1>. QED
  BY <1>2, <1>3, <1>4 DEF AnswerInv

LEMMA AnswerNext ==
    ASSUME TypeOK, StoreInv, RunsInv, AnswerInv, LockIsExclusive, [Next]_vars, ~stale'
    PROVE  AnswerInv'
<1>1. ASSUME NEW r \in Resumer, ResumeStep(r) \/ \E c \in Call : Resume(r, {c}) PROVE AnswerInv'
  BY <1>1, AnswersOthers, AnswersResolve, AnswersLoad, AnswersRun, AnswersStartFails, AnswersSave,
     AnswersCancel DEF ResumeStep
<1>2. CASE CloseFinish
  <2>1. /\ UNCHANGED <<record, payload, answers, dropped, noted>>
        /\ \A q \in Resumer :
              resumer'[q] = IF q \in Followers THEN "saving_active" ELSE resumer[q]
    BY <1>2 DEF CloseFinish, storeVars, historyVars
  <2>. QED
    BY <2>1, AnswersFollow
<1>. QED
  BY <1>1, <1>2, AnswersOthers, AnswersRunEnds, AnswersCrash DEF Next, Closing

\* A step on stale data is not forgotten.
LEMMA StaleStays == ASSUME [Next]_vars, stale PROVE stale'
<1>1. ASSUME NEW seen, NEW status, NEW pending, Save(seen, status, pending) PROVE stale'
  BY <1>1 DEF Save
<1>2. ASSUME UNCHANGED stale PROVE stale'
  BY <1>2
<1>3. ASSUME NEW c \in Call, Tool(c) PROVE stale'
  BY <1>1, <1>2, <1>3 DEF Tool, Ask, SaveCheckpoint, LoadRecord, SaveRecord, GiveUp, historyVars
<1>4. ASSUME NEW r \in Resumer, ResumeStep(r) \/ \E c \in Call : Resume(r, {c}) PROVE stale'
  BY <1>1, <1>2, <1>4 DEF ResumeStep, Acquire, Refuse, Resolve, LoadCheckpoint, SaveData,
     RunFromCheckpoint, NothingToRun, NoRunFromCheckpoint, Discard, StartFails, SaveActive, SaveBack,
     CancelResume, CancelRunning, Resume, historyVars
<1>5. CASE Close \/ CascadeClose \/ Closing \/ Crash
  BY <1>1, <1>2, <1>5 DEF Close, CascadeClose, Closing, CloseSave, CloseSaveFails, CloseMark, CloseStore,
     CloseFinish, Crash, historyVars
<1>6. CASE StartRun \/ (\E n \in Run, raised \in BOOLEAN : RunEnds(n, raised)) \/ UNCHANGED vars
  BY <1>1, <1>2, <1>6 DEF StartRun, RunEnds, vars, historyVars
<1>. QED
  BY <1>3, <1>4, <1>5, <1>6 DEF Next

\* The inductive invariant of the answers.
AnswersInv ==
    /\ TypeOK /\ ResumeInv /\ RunsInv /\ StoreInv
    /\ stale \/ AnswerInv

LEMMA AnswersInit == Init => AnswersInv
  BY TypeInit, InvInit, RunsInit, StoreInit, AnswerInit DEF AnswersInv

LEMMA AnswersNext == AnswersInv /\ [Next]_vars => AnswersInv'
<1> SUFFICES ASSUME AnswersInv, [Next]_vars PROVE AnswersInv'
  OBVIOUS
<1>1. TypeOK /\ ResumeInv /\ RunsInv /\ StoreInv /\ LockIsExclusive
  BY DEF AnswersInv, ResumeInv
<1>2. TypeOK' /\ ResumeInv' /\ RunsInv' /\ StoreInv'
  BY <1>1, TypeNext, InvNext, RunsNext, StoreNext
<1>3. stale' \/ AnswerInv'
  BY <1>1, AnswerNext, StaleStays DEF AnswersInv
<1>. QED
  BY <1>2, <1>3 DEF AnswersInv

-----------------------------------------------------------------------------
\* The answer of an elicitation reaches at most one run, and once, through any number of
\* resumes, closes and crashes, until a step acts on a record or on futures that others
\* have changed since it looked at them, or a resume that has given an answer is
\* cancelled before it saves that.
THEOREM AnswersReachOneRun == Spec => []AnsweredOnce
<1>1. AnswersInv => AnsweredOnce
  BY DEF AnswersInv, AnswerInv, OnceInv, AnsweredOnce
<1>. QED
  BY <1>1, AnswersInit, AnswersNext, PTL DEF Spec

\* A call that was saved in the record is there until a resume that brings its answer has
\* saved the record as active, whatever resumes fail or are cancelled before, under the
\* same condition.
THEOREM CallsStayRecorded == Spec => []PendingUntilAnswer
<1>1. AnswersInv => PendingUntilAnswer
  BY DEF AnswersInv, AnswerInv, NotedInv, PendingUntilAnswer
<1>. QED
  BY <1>1, AnswersInit, AnswersNext, PTL DEF Spec
=============================================================================
