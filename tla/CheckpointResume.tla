-------------------------- MODULE CheckpointResume --------------------------
(***************************************************************************)
(* Deferred elicitations of one session: a run that asks the user writes a *)
(* checkpoint and marks the session record, so that the answer can reach   *)
(* the run while it waits, or start it again from the checkpoint after it  *)
(* has ended, the session was closed or the process has crashed.           *)
(*                                                                         *)
(* Tools of the run, resume_session calls and close_session all load the   *)
(* record, await, and save it whole.  Runs and the session are in memory   *)
(* and lost in a crash; record and checkpoint are stored.                  *)
(***************************************************************************)
EXTENDS Naturals, FiniteSets

CONSTANTS Call,       \* elicitations, each asked once
          Bridged,    \* those of MCP tools: the run does not wait for the answer
          Resumer,    \* resume_session calls
          None,
          MaxRuns,    \* runs of the session at one time (bound)
          MaxCrashes  \* crashes of the process (bound)

ASSUME BridgedAssumption == Bridged \subseteq Call
ASSUME BoundsAssumption == MaxRuns \in Nat /\ MaxCrashes \in Nat
ASSUME NoneAssumption == None \notin Resumer

Run == 1..MaxRuns

VARIABLES
    \* Stored.
    record,      \* SessionData: status and pending_deferred_calls
    checkpoint,  \* pending calls of the checkpoint; {}: there is none
    \* In memory.
    session,     \* SessionState: absent, live or is_closing
    current,     \* current_run_id, 0: none
    executing,   \* runs whose coroutine has not ended
    call,        \* where the code that asks is
    asker,       \* the run that has asked, 0: none
    registry,    \* the futures of the current run
    resumer,     \* where each resume_session call is
    payload,     \* the calls whose answers it brings
    data,        \* the record as it has loaded or saved it
    allow,       \* those that found the future of every answer (allow_active_run)
    drives,      \* the run each has started, 0: none
    lock,        \* who holds the resume lock of the session
    closer,      \* where close_session is
    to_save,     \* the record it loaded
    crashes,
    \* What became of the answers (history).
    answers,     \* how often a run that did not fail was given the answer
    dropped,     \* calls whose answer a resume took and gave to no run
    noted,       \* calls that were saved in the record
    stale        \* a step has acted on what it had read before others changed it, or
                 \* a resume has given an answer and was cancelled before it saved that

storeVars == <<record, checkpoint>>
runVars == <<session, current, executing>>
callVars == <<call, asker, registry>>
resumeVars == <<resumer, payload, data, allow, drives, lock>>
closeVars == <<closer, to_save>>
historyVars == <<answers, dropped, noted, stale>>
vars == <<storeVars, runVars, callVars, resumeVars, closeVars, historyVars, crashes>>

Statuses == {"active", "checkpointed", "resuming", "closed"}
Record == [status : Statuses, pending : SUBSET Call]
Asking == {"asked", "saved", "recording"}
CallStates == Asking \cup {"none", "waiting", "parked", "answered", "failed"}
\* The record may say "resuming" on account of a call that is here.
Marked == {"starting", "running", "following", "saving_active", "saving_back"}
Held == Marked \cup {"validating", "loading"}
ResumerStates == Held \cup {"idle", "queued", "failed", "resumed", "cut"}
CloserStates == {"none", "saving", "saved", "unsaved", "storing", "leaving"}

TypeOK ==
    /\ record \in Record
    /\ checkpoint \subseteq Call
    /\ session \in {"absent", "live", "closing"}
    /\ current \in 0..MaxRuns
    /\ executing \subseteq Run
    /\ call \in [Call -> CallStates]
    /\ asker \in [Call -> 0..MaxRuns]
    /\ registry \subseteq Call
    /\ resumer \in [Resumer -> ResumerStates]
    /\ payload \in [Resumer -> SUBSET Call]
    /\ data \in [Resumer -> Record]
    /\ allow \subseteq Resumer
    /\ drives \in [Resumer -> 0..MaxRuns]
    /\ lock \in Resumer \cup {None}
    /\ closer \in CloserStates
    /\ to_save \in Record
    /\ crashes \in 0..MaxCrashes
    /\ answers \in [Call -> Nat]
    /\ dropped \subseteq Call /\ noted \subseteq Call
    /\ stale \in BOOLEAN

Fresh == [status |-> "active", pending |-> {}]

Init ==
    /\ record = Fresh /\ checkpoint = {}
    /\ session = "live" /\ current = 0 /\ executing = {}
    /\ call = [c \in Call |-> "none"]
    /\ asker = [c \in Call |-> 0]
    /\ registry = {}
    /\ resumer = [r \in Resumer |-> "idle"]
    /\ payload = [r \in Resumer |-> {}]
    /\ data = [r \in Resumer |-> Fresh]
    /\ allow = {}
    /\ drives = [r \in Resumer |-> 0]
    /\ lock = None /\ closer = "none" /\ to_save = Fresh /\ crashes = 0
    /\ answers = [c \in Call |-> 0] /\ dropped = {} /\ noted = {} /\ stale = FALSE

\* The record is saved by one who has last seen it as seen.
Save(seen, status, pending) ==
    /\ record' = [status |-> status, pending |-> pending]
    /\ stale' = (stale \/ record # seen)

-----------------------------------------------------------------------------
(***************************************************************************)
(* Runs.  A run is started by a message, or by a resume (below); it ends   *)
(* when every tool of it has returned.                                     *)
(***************************************************************************)
\* Ids of ended runs, which nothing refers to, are used again.
NewId == CHOOSE n \in Run \ executing : \A m \in Run \ executing : n <= m

\* Mutant: the run enters its set by the id of the session, before that is assigned.
WrongNewRun ==
    /\ executing # Run
    /\ current' = NewId
    /\ executing' = executing \cup {current}
    /\ session' = "live"

NewRun ==
    /\ executing # Run
    /\ current' = NewId
    /\ executing' = executing \cup {NewId}
    /\ session' = "live"

\* A message to a session without a run (external: SessionRun has the details).
\* A session that is not in memory is created; its record is kept, but ACP
\* session/resume makes a closed one active again.
StartRun ==
    /\ current = 0 /\ session # "closing"
    /\ NewRun
    /\ IF session = "absent" /\ record.status = "closed"
       THEN Save(record, "active", record.pending) ELSE UNCHANGED <<record, stale>>
    /\ UNCHANGED <<checkpoint, callVars, resumeVars, closeVars, answers, dropped, noted,
                   crashes>>

Open(n) ==
    {c \in Call : asker[c] = n /\ call[c] \in Asking \cup {"waiting"}}

Drivers(n) == {r \in Resumer : resumer[r] = "running" /\ drives[r] = n}

\* The coroutine of the run is over; its tools have returned.
RunOver(n) ==
    /\ Open(n) = {}
    /\ executing' = executing \ {n}
    /\ current' = IF current = n THEN 0 ELSE current
    /\ registry' = IF current = n THEN {} ELSE registry

Followers == {r \in Resumer : resumer[r] = "following"}

\* The run ends: with an event, also an error event or that of a cancelled turn, which
\* is what those wait for that follow a run of the session, or by an exception.
RunEnds(n, raised) ==
    /\ n \in executing
    /\ RunOver(n)
    /\ resumer' = [r \in Resumer |->
                     CASE r \in Drivers(n) /\ raised -> "saving_back"
                       [] ~raised /\ r \in Drivers(n) \cup Followers -> "saving_active"
                       [] OTHER -> resumer[r]]
    /\ answers' = [c \in Call |->
                     IF raised /\ \E r \in Drivers(n) : c \in payload[r] \ dropped
                     THEN 0 ELSE answers[c]]
    /\ UNCHANGED <<storeVars, session, call, asker, payload, data, allow, drives, lock,
                   closeVars, dropped, noted, stale, crashes>>

-----------------------------------------------------------------------------
(***************************************************************************)
(* A tool of the run asks (handle_elicitation, elicitation bridge).        *)
(***************************************************************************)
SetCall(c, state) == call' = [call EXCEPT ![c] = state]

\* The run no longer waits for these calls.
Settle(calls, state) ==
    /\ call' = [c \in Call |-> IF c \in calls THEN state ELSE call[c]]
    /\ asker' = [c \in Call |-> IF c \in calls THEN 0 ELSE asker[c]]

\* The event is published: from now on the client can answer.  The bridge
\* registers the future with it, a local tool does so at the end.
Ask(c) ==
    /\ call[c] = "none" /\ current # 0
    /\ SetCall(c, "asked")
    /\ asker' = [asker EXCEPT ![c] = current]
    /\ registry' = IF c \in Bridged THEN registry \cup {c} ELSE registry
    /\ UNCHANGED <<storeVars, runVars, resumeVars, closeVars, historyVars, crashes>>

\* The checkpoint replaces an earlier one; when no provider stores it, the
\* tool goes on.
SaveCheckpoint(c) ==
    /\ call[c] = "asked"
    /\ SetCall(c, "saved")
    /\ checkpoint' \in {checkpoint, {c}}
    /\ UNCHANGED <<record, runVars, asker, registry, resumeVars, closeVars, historyVars, crashes>>

\* A bridged call is parked: nobody waits for its future.  A local tool registers one
\* (in the registry of its run, which nobody sees when the run is not the current one)
\* and waits.
Recorded(c) ==
    IF c \in Bridged
    THEN Settle({c}, "parked") /\ UNCHANGED registry
    ELSE /\ SetCall(c, "waiting")
         /\ registry' = IF asker[c] = current THEN registry \cup {c} ELSE registry
         /\ UNCHANGED asker

\* The record is loaded; only an active one is marked.
LoadRecord(c) ==
    /\ call[c] = "saved"
    /\ IF record.status = "active"
       THEN SetCall(c, "recording") /\ UNCHANGED <<asker, registry>>
       ELSE Recorded(c)
    /\ UNCHANGED <<storeVars, runVars, resumeVars, closeVars, historyVars, crashes>>

SaveRecord(c) ==
    /\ call[c] = "recording"
    /\ Save(Fresh, "checkpointed", {c})
    /\ Recorded(c)
    /\ noted' = noted \cup {c}
    /\ UNCHANGED <<checkpoint, runVars, resumeVars, closeVars, answers, dropped, crashes>>

\* The elicitation times out, or the run is cancelled.
GiveUp(c) ==
    /\ call[c] = "waiting"
    /\ Settle({c}, "failed")
    /\ registry' = registry \ {c}
    /\ UNCHANGED <<storeVars, runVars, resumeVars, closeVars, historyVars, crashes>>

-----------------------------------------------------------------------------
(***************************************************************************)
(* resume_session.                                                         *)
(***************************************************************************)
SetResumer(r, state) == resumer' = [resumer EXCEPT ![r] = state]

\* The call returns or raises: the lock is released, its locals are gone.
Leave(r, state) ==
    /\ SetResumer(r, state)
    /\ lock' = IF lock = r THEN None ELSE lock
    /\ data' = [data EXCEPT ![r] = Fresh]
    /\ drives' = [drives EXCEPT ![r] = 0]
    /\ payload' = [payload EXCEPT ![r] = {}]
    /\ allow' = allow \ {r}

\* The record is loaded and the answers are compared with it, before the lock.
Resume(r, calls) ==
    /\ resumer[r] = "idle"
    /\ calls # {} /\ \A c \in calls : call[c] # "none"
    /\ LET in_process == calls \subseteq registry IN
       IF (current = 0 \/ in_process) /\ record.pending \subseteq calls
       THEN /\ SetResumer(r, "queued")
            /\ payload' = [payload EXCEPT ![r] = calls]
            /\ data' = [data EXCEPT ![r] = record]
            /\ allow' = IF in_process THEN allow \cup {r} ELSE allow
       ELSE SetResumer(r, "failed") /\ UNCHANGED <<payload, data, allow>>
    /\ UNCHANGED <<storeVars, runVars, callVars, drives, lock, closeVars, historyVars, crashes>>

\* The lock is taken; the run is looked at again, unless the answers are for it.
Acquire(r) ==
    /\ resumer[r] = "queued" /\ lock = None
    /\ IF r \notin allow /\ current # 0
       THEN Leave(r, "failed")
       ELSE /\ SetResumer(r, "validating") /\ lock' = r
            /\ UNCHANGED <<payload, data, allow, drives>>
    /\ UNCHANGED <<storeVars, runVars, callVars, closeVars, historyVars, crashes>>

\* Mutant: a status for which there is nothing to resume is accepted.
WrongValid(r) == record.status \in {"active", "checkpointed"}

Valid(r) == record.status = "checkpointed" \/ (r \in allow /\ record.status = "active")

Refuse(r) ==
    /\ resumer[r] = "validating"
    /\ ~Valid(r)
    /\ Leave(r, "failed")
    /\ UNCHANGED <<storeVars, runVars, callVars, closeVars, historyVars, crashes>>

\* The status is loaded; futures that are there are resolved.  When all are, the run
\* goes on; when some are missing the resume fails, or goes by the checkpoint if no run
\* is left.  An active record is then one that only the futures, read before the lock,
\* have made valid, and the failed resume is going to save it as checkpointed.
Resolve(r) ==
    /\ resumer[r] = "validating"
    /\ Valid(r)
    /\ LET found == payload[r] \cap registry
           waiting == {c \in found : call[c] = "waiting"} IN
         /\ registry' = registry \ found
         /\ Settle(waiting, "answered")
         /\ answers' = [c \in Call |-> IF c \in waiting THEN answers[c] + 1 ELSE answers[c]]
         /\ dropped' = dropped \cup (found \ waiting)
         /\ SetResumer(r, IF current = 0 THEN "loading"
                          ELSE IF found = payload[r] THEN "saving_active" ELSE "saving_back")
    /\ stale' = (stale \/ (r \in allow /\ record.status = "active"
                            /\ ~(payload[r] \subseteq registry)))
    /\ UNCHANGED <<storeVars, runVars, payload, data, allow, drives, lock, closeVars, noted,
                   crashes>>

\* data.model_copy(update=...), then save_session.
SaveData(r, status, pending) ==
    /\ Save(data[r], status, pending)
    /\ data' = [data EXCEPT ![r] = record']

\* Mutant: the pending calls are cleared before the run has succeeded.
WrongLoadCheckpoint(r) ==
    /\ resumer[r] = "loading"
    /\ \/ /\ SetResumer(r, "saving_back")
          /\ UNCHANGED <<record, data, stale>>
       \/ /\ checkpoint # {}
          /\ SaveData(r, "resuming", {})
          /\ SetResumer(r, "starting")
    /\ UNCHANGED <<checkpoint, runVars, callVars, payload, allow, drives, lock, closeVars,
                   answers, dropped, noted, crashes>>

\* Without a checkpoint, or an agent, the resume fails.
LoadCheckpoint(r) ==
    /\ resumer[r] = "loading"
    /\ \/ /\ SetResumer(r, "saving_back")
          /\ UNCHANGED <<record, data, stale>>
       \/ /\ checkpoint # {}
          /\ SaveData(r, "resuming", data[r].pending)
          /\ SetResumer(r, "starting")
    /\ UNCHANGED <<checkpoint, runVars, callVars, payload, allow, drives, lock, closeVars,
                   answers, dropped, noted, crashes>>

\* run_stream with the answers as results of the calls of the checkpoint, and the empty
\* prompt: start() has a turn only when something is staged for the session's agent.
RunFromCheckpoint(r) ==
    /\ resumer[r] = "starting"
    /\ session = "live" /\ current = 0
    /\ NewRun
    /\ SetResumer(r, "running")
    /\ drives' = [drives EXCEPT ![r] = NewId]
    /\ LET given == payload[r] \cap checkpoint IN
         /\ answers' = [c \in Call |-> IF c \in given THEN answers[c] + 1 ELSE answers[c]]
         /\ dropped' = (dropped \cup payload[r]) \ given
    /\ UNCHANGED <<storeVars, callVars, payload, data, allow, lock, closeVars, noted,
                   stale, crashes>>

\* The answers go nowhere.
Discard(r, state) ==
    /\ dropped' = dropped \cup payload[r]
    /\ SetResumer(r, state)
    /\ UNCHANGED <<storeVars, current, executing, callVars, payload, data, allow, drives, lock,
                   closeVars, answers, noted, stale, crashes>>

\* With nothing staged, start("") returns at once; so does run_stream when there is no
\* agent.  That the resume takes for the end of the run.
NothingToRun(r) ==
    /\ resumer[r] = "starting"
    /\ session # "closing" /\ current = 0
    /\ session' = "live"
    /\ Discard(r, "saving_active")

\* run_stream on a session that closes returns at once, with a run it follows that.
NoRunFromCheckpoint(r) ==
    /\ resumer[r] = "starting"
    /\ session = "closing" \/ current # 0
    /\ Discard(r, IF session = "closing" THEN "saving_active" ELSE "following")
    /\ UNCHANGED session

\* The agent cannot be set up.
StartFails(r) ==
    /\ resumer[r] = "starting"
    /\ SetResumer(r, "saving_back")
    /\ UNCHANGED <<storeVars, runVars, callVars, payload, data, allow, drives, lock, closeVars,
                   historyVars, crashes>>

\* The pending calls are cleared.
SaveActive(r) ==
    /\ resumer[r] = "saving_active"
    /\ Save(data[r], "active", {})
    /\ Leave(r, "resumed")
    /\ UNCHANGED <<checkpoint, runVars, callVars, closeVars, answers, dropped,
                   noted, crashes>>

\* Mutant: the status is left as it is.
WrongSaveBack(r) ==
    /\ resumer[r] = "saving_back"
    /\ Leave(r, "failed")
    /\ UNCHANGED <<storeVars, runVars, callVars, closeVars, historyVars, crashes>>

\* The resume has failed: the record becomes what was loaded first.
SaveBack(r) ==
    /\ resumer[r] = "saving_back"
    /\ Save(data[r], "checkpointed", data[r].pending)
    /\ Leave(r, "failed")
    /\ UNCHANGED <<checkpoint, runVars, callVars, closeVars, answers, dropped,
                   noted, crashes>>

\* A cancelled call saves nothing ("except Exception" is not for CancelledError): a
\* record that it has marked is left to say "resuming".
Interrupted(r) ==
    IF record.status = "resuming" /\ resumer[r] \in Marked THEN "cut" ELSE "failed"

CancelResume(r) ==
    /\ resumer[r] \in (Held \cup {"queued"}) \ {"running"}
    /\ Leave(r, Interrupted(r))
    /\ stale' = (stale \/ (resumer[r] = "saving_active" /\ \E c \in payload[r] : answers[c] > 0))
    /\ UNCHANGED <<storeVars, runVars, callVars, closeVars, answers, dropped, noted, crashes>>

\* The run is driven in the task of the resume and cancelled with it.
CancelRunning(r) ==
    /\ resumer[r] = "running"
    /\ Leave(r, Interrupted(r))
    /\ RunOver(drives[r])
    /\ answers' = [c \in Call |-> IF c \in payload[r] \ dropped THEN 0 ELSE answers[c]]
    /\ UNCHANGED <<storeVars, session, call, asker, closeVars, dropped, noted, stale, crashes>>

-----------------------------------------------------------------------------
(***************************************************************************)
(* close_session, one at a time.                                           *)
(***************************************************************************)
\* Pending calls are loaded, to be saved before the session is locked.
Close ==
    /\ session = "live" /\ closer = "none"
    /\ closer' = IF record.pending # {} THEN "saving" ELSE "unsaved"
    /\ to_save' = IF record.pending # {} THEN record ELSE to_save
    /\ UNCHANGED <<storeVars, runVars, callVars, resumeVars, historyVars, crashes>>

\* The parent closes: the session is closed with it, whatever is pending.
CascadeClose ==
    /\ session = "live" /\ closer = "none"
    /\ closer' = "unsaved"
    /\ UNCHANGED <<storeVars, runVars, callVars, resumeVars, to_save, historyVars, crashes>>

CloseSave ==
    /\ closer = "saving"
    /\ Save(to_save, "checkpointed", to_save.pending)
    /\ closer' = "saved"
    /\ UNCHANGED <<checkpoint, runVars, callVars, resumeVars, to_save, answers, dropped, noted,
                   crashes>>

\* The record cannot be saved: the session stays.
CloseSaveFails ==
    /\ closer = "saving"
    /\ closer' = "none" /\ to_save' = Fresh
    /\ UNCHANGED <<storeVars, runVars, callVars, resumeVars, historyVars, crashes>>

\* is_closing is set, futures are rejected, the run is taken out of the session; its
\* coroutine goes on.
CloseMark ==
    /\ closer \in {"saved", "unsaved"}
    /\ closer' = IF closer = "saved" THEN "leaving" ELSE "storing"
    /\ session' = "closing"
    /\ registry' = {}
    /\ Settle({c \in registry : call[c] = "waiting"}, "failed")
    /\ current' = 0
    /\ to_save' = Fresh
    /\ UNCHANGED <<storeVars, executing, resumeVars, historyVars, crashes>>

\* _mark_session_closed.
CloseStore ==
    /\ closer = "storing"
    /\ Save(record, "closed", record.pending)
    /\ closer' = "leaving"
    /\ UNCHANGED <<checkpoint, runVars, callVars, resumeVars, to_save, answers, dropped, noted,
                   crashes>>

\* The event streams of the session are closed: nobody follows it any more.
CloseFinish ==
    /\ closer = "leaving"
    /\ closer' = "none"
    /\ session' = "absent"
    /\ resumer' = [r \in Resumer |-> IF r \in Followers THEN "saving_active" ELSE resumer[r]]
    /\ UNCHANGED <<storeVars, current, executing, callVars, payload, data, allow, drives, lock,
                   to_save, historyVars, crashes>>

-----------------------------------------------------------------------------
\* The process ends and is started again: only what is stored remains, and the answers
\* of calls that the store has as pending are forgotten with their runs.
Crash ==
    /\ crashes < MaxCrashes
    /\ crashes' = crashes + 1
    /\ session' = "absent" /\ current' = 0 /\ executing' = {}
    /\ Settle({c \in Call : call[c] \in Asking \cup {"waiting"}}, "failed")
    /\ registry' = {}
    /\ resumer' = [r \in Resumer |->
                     IF resumer[r] \in Held \cup {"queued"} THEN "failed" ELSE resumer[r]]
    /\ lock' = None /\ closer' = "none" /\ to_save' = Fresh
    /\ data' = [r \in Resumer |-> Fresh]
    /\ drives' = [r \in Resumer |-> 0]
    /\ answers' = [c \in Call |-> IF c \in record.pending THEN 0 ELSE answers[c]]
    /\ allow' = {}
    /\ payload' = [r \in Resumer |-> {}]
    /\ UNCHANGED <<storeVars, dropped, noted, stale>>

-----------------------------------------------------------------------------
Tool(c) == Ask(c) \/ SaveCheckpoint(c) \/ LoadRecord(c) \/ SaveRecord(c) \/ GiveUp(c)

ResumeStep(r) ==
    \/ Acquire(r) \/ Refuse(r) \/ Resolve(r) \/ LoadCheckpoint(r)
    \/ RunFromCheckpoint(r) \/ NothingToRun(r) \/ NoRunFromCheckpoint(r) \/ StartFails(r)
    \/ SaveActive(r) \/ SaveBack(r) \/ CancelResume(r) \/ CancelRunning(r)

Closing ==
    CloseSave \/ CloseSaveFails \/ CloseMark \/ CloseStore \/ CloseFinish

Next ==
    \/ StartRun
    \/ \E n \in Run, raised \in BOOLEAN : RunEnds(n, raised)
    \/ \E c \in Call : Tool(c)
    \/ \E r \in Resumer : ResumeStep(r) \/ \E c \in Call : Resume(r, {c})
    \/ Close \/ CascadeClose \/ Closing
    \/ Crash

Spec == Init /\ [][Next]_vars

-----------------------------------------------------------------------------
(***************************************************************************)
(* The first two hold until the record no longer tells what has happened   *)
(* (stale); what happens then is in the README.                            *)
(***************************************************************************)
\* The answer of a call reaches one run, and once: no resume replays the
\* checkpoint of a call that has been answered in the process, or that another
\* resume has replayed (session_pool.py: resume lock, status check).
AnsweredOnce == stale \/ \A c \in Call : answers[c] <= 1

\* A call that was saved in the record stays there, through failed and cancelled resumes,
\* closes and crashes, until a resume that brings its answer has saved the record as
\* active (session_pool.py: pending_deferred_calls).  Whether a run was given that
\* answer is the next property.
PendingUntilAnswer ==
    stale \/ \A c \in noted : c \in record.pending \/ answers[c] > 0 \/ c \in dropped

\* What resume_session says of itself, "Clear pending_deferred_calls ONLY after
\* agent.run() succeeds": a call leaves the record only when a run was given its answer.
\* It does not hold.
NoCallForgotten == stale \/ \A c \in noted : c \in record.pending \/ answers[c] > 0

HolderOfMark == lock # None /\ resumer[lock] \in Marked

\* But for a crash, or a resume that was cancelled on the way, a session in the status
\* "resuming", which nobody can resume, has a resume at work that will save another
\* status.
ResumingIsHeld ==
    \/ crashes > 0 \/ \E r \in Resumer : resumer[r] = "cut"
    \/ record.status = "resuming" => HolderOfMark

\* What resume_session says of itself, "On failure, keep status as checkpointed":
\* however it ends, the record does not stay in the status "resuming".  It does not hold.
FailedResumeIsUndone == crashes > 0 \/ (record.status = "resuming" => HolderOfMark)
=============================================================================
