----------------------------- MODULE SessionRun -----------------------------
(***************************************************************************)
(* One session of the orchestrator: how messages are routed to it, how its *)
(* RunHandles are created, chained, cancelled and cleaned up, and how it   *)
(* is closed (orchestrator/session_controller_runs.py, run.py,             *)
(* session_controller.py, session_controller_close.py, session_pool*.py).  *)
(*                                                                         *)
(* The code runs on one asyncio loop, so an action is what one task does   *)
(* between two suspensions.  An asyncio.Lock is FIFO: it is the sequence   *)
(* of its holder (the head) followed by its waiters.                       *)
(*                                                                         *)
(* SessionState._request_lock has no variable: nobody suspends while he    *)
(* holds it (what is published under it goes to a synchronous journal and  *)
(* an EventBus that does not suspend), so it is free whenever a task runs, *)
(* and what is done under it is part of one step.  For the same reason     *)
(* run_stream's second look at current_run_id, under that lock, never      *)
(* finds another value than the first one.                                 *)
(*                                                                         *)
(* A RunHandle executes one prompt, so the prompt names the run: run m is  *)
(* the RunHandle whose initial prompt is the message m.                    *)
(***************************************************************************)
EXTENDS Naturals, Sequences, SequencesExt

CONSTANTS
    Msg,          \* the messages callers submit, each once
    None,         \* no run: current_run_id is None
    NativeAgent,  \* turns are NativeTurns, which set active_agent_run; an ACPTurn does not
    Events        \* which entry points and faults the environment may use

AllEvents ==
    {"queue", "steer", "background", "inject", "followup", "process", "empty", "revoke",
     "cancel", "raise", "member", "error", "close", "close_timeout"}

ASSUME ConstantsAssumption ==
    /\ None \notin Msg
    /\ NativeAgent \in BOOLEAN
    /\ Events \subseteq AllEvents

VARIABLES
    pc,              \* how far the call that submitted a message has got
    phase,           \* how far the RunHandle of a prompt has got
    task,            \* run -> first run of its _consume_run task, None: the caller drives it
    runs,            \* the keys of SessionController._runs
    complete,        \* the runs whose complete_event is set
    interrupted,     \* the runs whose task.cancel() is not delivered yet
    queued_steer,    \* run -> run_ctx.queued_steer_messages
    delivered,       \* the messages handed to an active agent_run
    current_run_id,
    prompt_queue,
    feedback_queue,
    turn_lock,
    is_closing,
    closing,         \* how far close_session has got
    retried          \* close_session has timed out and begun again

handleVars == <<phase, task, complete, interrupted, queued_steer>>
sessionVars == <<runs, current_run_id, prompt_queue, feedback_queue>>
closeVars == <<is_closing, closing, retried>>
vars == <<pc, handleVars, sessionVars, delivered, turn_lock, closeVars>>

\* A call that awaits the session's agent, then is settled.
Waiting   == {"queue", "steer"}
Resolving == {"resolve_agent", "resolve_empty"}
Settled   == {"started", "queued", "steered", "rejected", "dropped", "revoked"}
CallState == {"unsent"} \cup Waiting \cup Resolving \cup Settled

\* Where a RunHandle can be; in TurnPhases its start() holds turn_lock.
WaitPhases == {"wait_turn", "wait_empty"}
TurnPhases == {"starting", "active", "stopping", "ending", "unwinding"}
EndPhases  == {"failing", "failed", "cancelled", "done"}
Phase == {"none", "created"} \cup WaitPhases \cup TurnPhases \cup EndPhases

TypeOK ==
    /\ pc \in [Msg -> CallState]
    /\ phase \in [Msg -> Phase]
    /\ task \in [Msg -> Msg \cup {None}]
    /\ runs \subseteq Msg
    /\ complete \subseteq Msg
    /\ interrupted \subseteq Msg
    /\ queued_steer \in [Msg -> Seq(Msg)]
    /\ delivered \subseteq Msg
    /\ current_run_id \in Msg \cup {None}
    /\ prompt_queue \in Seq(Msg)
    /\ feedback_queue \in Seq(Msg)
    /\ turn_lock \in Seq(Msg)
    /\ is_closing \in BOOLEAN
    /\ closing \in {"open", "waiting", "marked", "exited", "closed"}
    /\ retried \in BOOLEAN

Init ==
    /\ pc = [m \in Msg |-> "unsent"]
    /\ phase = [m \in Msg |-> "none"]
    /\ task = [m \in Msg |-> None]
    /\ runs = {}
    /\ complete = {}
    /\ interrupted = {}
    /\ queued_steer = [m \in Msg |-> <<>>]
    /\ delivered = {}
    /\ current_run_id = None
    /\ prompt_queue = <<>>
    /\ feedback_queue = <<>>
    /\ turn_lock = <<>>
    /\ is_closing = FALSE
    /\ closing = "open"
    /\ retried = FALSE

-----------------------------------------------------------------------------
(***************************************************************************)
(* Helpers.  A definition that begins with "Wrong" is a plausible bug of   *)
(* the definition after it; no specification uses one.                     *)
(***************************************************************************)

Settle(m, s) == pc' = [pc EXCEPT ![m] = s]
GoTo(r, p) == phase' = [phase EXCEPT ![r] = p]

WrongHoldsTurnLock(r) == TRUE
HoldsTurnLock(r) == turn_lock # <<>> /\ Head(turn_lock) = r

\* q without x, which it holds at most once.
Without(q, x) ==
    IF Contains(q, x) THEN RemoveAt(q, CHOOSE i \in 1..Len(q) : q[i] = x) ELSE q

\* active_agent_run is set: while the agent loop runs, and until a turn that failed or was
\* cancelled in the loop has left it.
AgentActive(r) == NativeAgent /\ phase[r] \in {"active", "stopping"}

\* RunHandle.steer: into the active agent_run, or to feedback_queue for the
\* next RunHandle.
Steer(m, r) ==
    IF AgentActive(r)
    THEN delivered' = delivered \cup {m} /\ UNCHANGED feedback_queue
    ELSE feedback_queue' = Append(feedback_queue, m) /\ UNCHANGED delivered

\* Registering a RunHandle in _runs and as the session's current run.
Register(r, driver) ==
    /\ runs' = runs \cup {r}
    /\ current_run_id' = r
    /\ task' = [task EXCEPT ![r] = driver]

\* RunHandle.start up to its first suspension: feedback_queue is drained
\* before turn_lock is awaited, and a free turn_lock is taken at once.
WrongEntered(lock) == "starting"
Entered(lock) == IF lock = <<>> THEN "starting" ELSE "wait_turn"

WrongEnterStart(r, lock) ==
    /\ queued_steer' = [queued_steer EXCEPT ![r] = feedback_queue]
    /\ UNCHANGED feedback_queue
    /\ turn_lock' = Append(lock, r)

EnterStart(r, lock) ==
    /\ queued_steer' = [queued_steer EXCEPT ![r] = feedback_queue]
    /\ feedback_queue' = <<>>
    /\ turn_lock' = Append(lock, r)

\* start() is over for r: turn_lock is left and the finally sets complete_event.
WrongLeaveStart(r) ==
    /\ complete' = complete \cup {r}
    /\ UNCHANGED turn_lock

LeaveStart(r) ==
    /\ complete' = complete \cup {r}
    /\ turn_lock' = Without(turn_lock, r)

\* _consume_run pops its run and clears current_run_id if it names that run...
Pop(r) ==
    /\ runs' = runs \ {r}
    /\ current_run_id' = IF current_run_id = r THEN None ELSE current_run_id

\* ... process_prompt and run_stream clear it whatever run it names.
PopDriven(r) ==
    /\ runs' = runs \ {r}
    /\ current_run_id' = None

\* A cancelled task runs nothing before the CancelledError reaches it.
Runnable(r) == r \notin interrupted

-----------------------------------------------------------------------------
(***************************************************************************)
(* SessionController._route_message, behind SessionPool.send_message.      *)
(***************************************************************************)

\* send_message looks the session up, then awaits its agent.
SendMessage(m) ==
    /\ pc[m] = "unsent"
    /\ \E priority \in Waiting \cap Events :
          Settle(m, IF closing = "closed" THEN "rejected" ELSE priority)
    /\ UNCHANGED <<handleVars, sessionVars, delivered, turn_lock, closeVars>>

\* Stale-run detection: the current run is gone or completed.
Stale == current_run_id \notin runs \ complete
Idle == current_run_id = None \/ Stale

RouteReject(m) ==
    /\ pc[m] \in Waiting
    /\ is_closing
    /\ Settle(m, "rejected")
    /\ UNCHANGED <<handleVars, sessionVars, delivered, turn_lock, closeVars>>

\* An idle session: _start_run_handle; the _consume_run task has not begun.
RouteIdle(m) ==
    /\ pc[m] \in Waiting
    /\ ~is_closing
    /\ Idle
    /\ Settle(m, "started")
    /\ Register(m, m)
    /\ GoTo(m, "created")
    /\ UNCHANGED <<complete, interrupted, queued_steer, prompt_queue, feedback_queue,
                   delivered, turn_lock, closeVars>>

RouteSteer(m) ==
    /\ pc[m] = "steer"
    /\ ~is_closing
    /\ ~Idle
    /\ Settle(m, "steered")
    /\ Steer(m, current_run_id)
    /\ UNCHANGED <<handleVars, runs, current_run_id, prompt_queue, turn_lock, closeVars>>

RouteQueue(m) ==
    /\ pc[m] = "queue"
    /\ ~is_closing
    /\ ~Idle
    /\ Settle(m, "queued")
    /\ prompt_queue' = Append(prompt_queue, m)
    /\ UNCHANGED <<handleVars, runs, current_run_id, feedback_queue, delivered,
                   turn_lock, closeVars>>

-----------------------------------------------------------------------------
(***************************************************************************)
(* Entry points that do not go through _route_message.                     *)
(***************************************************************************)

\* _get_active_run_handle: a registered run, completed or not.
HasRunHandle == current_run_id \in runs

\* A registered run is steered; without one the message is settled as otherwise.
SteerRegistered(m, otherwise) ==
    IF HasRunHandle
    THEN Settle(m, "steered") /\ Steer(m, current_run_id)
    ELSE Settle(m, otherwise) /\ UNCHANGED <<feedback_queue, delivered>>

\* SessionPool.steer and inject_prompt: without a registered run, None.
InjectPrompt(m) ==
    /\ "inject" \in Events
    /\ pc[m] = "unsent"
    /\ SteerRegistered(m, "rejected")
    /\ UNCHANGED <<handleVars, runs, current_run_id, prompt_queue, turn_lock, closeVars>>

\* steer_from_background_task leaves the message for the next RunHandle if there is none.
BackgroundSteer(m) ==
    /\ "background" \in Events
    /\ pc[m] = "unsent"
    /\ \/ /\ closing = "closed"
          /\ Settle(m, "rejected")
          /\ UNCHANGED <<feedback_queue, delivered>>
       \/ /\ closing # "closed" /\ HasRunHandle
          /\ Settle(m, "steered")
          /\ Steer(m, current_run_id)
       \/ /\ closing # "closed" /\ ~HasRunHandle
          /\ Settle(m, "steered")
          /\ feedback_queue' = Append(feedback_queue, m)
          /\ UNCHANGED delivered
    /\ UNCHANGED <<handleVars, runs, current_run_id, prompt_queue, turn_lock, closeVars>>

\* SessionPool.followup and queue_prompt: RunHandle.followup on a registered run.
Followup(m) ==
    /\ "followup" \in Events
    /\ pc[m] = "unsent"
    /\ \/ /\ ~HasRunHandle
          /\ Settle(m, "rejected")
          /\ UNCHANGED <<prompt_queue, delivered>>
       \/ /\ HasRunHandle
          /\ Settle(m, "queued")
          /\ IF AgentActive(current_run_id)
             THEN delivered' = delivered \cup {m} /\ UNCHANGED prompt_queue
             ELSE prompt_queue' = Append(prompt_queue, m) /\ UNCHANGED delivered
    /\ UNCHANGED <<handleVars, runs, current_run_id, feedback_queue, turn_lock,
                   closeVars>>

\* SessionState.revoke drops a message that still waits in feedback_queue.
Revoke(m) ==
    /\ "revoke" \in Events
    /\ Contains(feedback_queue, m)
    /\ feedback_queue' = Without(feedback_queue, m)
    /\ Settle(m, "revoked")
    /\ UNCHANGED <<handleVars, runs, current_run_id, prompt_queue, delivered, turn_lock,
                   closeVars>>

\* process_prompt and run_stream check is_closing, then await the session's agent;
\* the prompt may be empty, as the one of a resumed session is.
ProcessPrompt(m) ==
    /\ pc[m] = "unsent"
    /\ closing # "closed"
    /\ \/ "process" \in Events /\ Settle(m, IF is_closing THEN "rejected" ELSE "resolve_agent")
       \/ "empty" \in Events /\ Settle(m, IF is_closing THEN "rejected" ELSE "resolve_empty")
    /\ UNCHANGED <<handleVars, sessionVars, delivered, turn_lock, closeVars>>

\* They steer the current run; a current run that is gone drops the prompt...
ProcessBusy(m) ==
    /\ pc[m] \in Resolving
    /\ current_run_id # None
    /\ SteerRegistered(m, "dropped")
    /\ UNCHANGED <<handleVars, runs, current_run_id, prompt_queue, turn_lock, closeVars>>

\* ... or create a RunHandle and drive its start() themselves, also when the session has
\* begun to close.  Content that is staged for the agent stands in for a prompt.
ProcessIdle(m) ==
    /\ pc[m] \in Resolving
    /\ current_run_id = None
    /\ Settle(m, "started")
    /\ Register(m, None)
    /\ GoTo(m, Entered(turn_lock))
    /\ EnterStart(m, turn_lock)
    /\ UNCHANGED <<complete, interrupted, prompt_queue, delivered, closeVars>>

\* start() without a prompt and without staged content drains feedback_queue and returns
\* under turn_lock without a turn; with a free lock all of that is one step.
ProcessEmpty(m) ==
    /\ pc[m] = "resolve_empty"
    /\ current_run_id = None
    /\ turn_lock = <<>>
    /\ Settle(m, "started")
    /\ GoTo(m, "done")
    /\ complete' = complete \cup {m}
    /\ queued_steer' = [queued_steer EXCEPT ![m] = feedback_queue]
    /\ feedback_queue' = <<>>
    /\ UNCHANGED <<task, interrupted, runs, current_run_id, prompt_queue, delivered,
                   turn_lock, closeVars>>

ProcessEmptyWaits(m) ==
    /\ pc[m] = "resolve_empty"
    /\ current_run_id = None
    /\ turn_lock # <<>>
    /\ Settle(m, "started")
    /\ Register(m, None)
    /\ GoTo(m, "wait_empty")
    /\ EnterStart(m, turn_lock)
    /\ UNCHANGED <<complete, interrupted, prompt_queue, delivered, closeVars>>

-----------------------------------------------------------------------------
(***************************************************************************)
(* RunHandle.start and _execute_turn.                                      *)
(***************************************************************************)

\* The first step of a _consume_run task.
BeginConsume(r) ==
    /\ phase[r] = "created"
    /\ GoTo(r, Entered(turn_lock))
    /\ EnterStart(r, turn_lock)
    /\ UNCHANGED <<pc, task, complete, interrupted, runs, current_run_id, prompt_queue,
                   delivered, closeVars>>

\* turn_lock is acquired; for an empty prompt content was staged meanwhile.
TakeTurn(r) ==
    /\ Runnable(r)
    /\ phase[r] \in WaitPhases
    /\ HoldsTurnLock(r)
    /\ GoTo(r, "starting")
    /\ UNCHANGED <<pc, task, complete, interrupted, queued_steer, sessionVars, delivered,
                   turn_lock, closeVars>>

\* An empty prompt returns as soon as it has turn_lock.
ReturnFromStart(r) ==
    /\ Runnable(r)
    /\ phase[r] = "wait_empty"
    /\ HoldsTurnLock(r)
    /\ LeaveStart(r)
    /\ PopDriven(r)
    /\ GoTo(r, "done")
    /\ UNCHANGED <<pc, task, interrupted, queued_steer, prompt_queue, feedback_queue,
                   delivered, closeVars>>

\* drain_queued_steer_messages, which only a NativeTurn calls: everything the run has
\* taken so far goes to the agent_run.
DrainQueuedSteer(r) ==
    IF NativeAgent
    THEN /\ delivered' = delivered \cup ToSet(queued_steer[r])
         /\ queued_steer' = [queued_steer EXCEPT ![r] = <<>>]
    ELSE UNCHANGED <<delivered, queued_steer>>

\* The agent loop begins: a NativeTurn sets active_agent_run and drains.
Activate(r) ==
    /\ Runnable(r)
    /\ phase[r] = "starting"
    /\ GoTo(r, "active")
    /\ DrainQueuedSteer(r)
    /\ UNCHANGED <<pc, task, complete, interrupted, sessionVars, turn_lock, closeVars>>

\* An error inside execute() becomes a RunErrorEvent, or a hook denies the turn before it
\* has an agent_run.  A queued prompt may be empty, too, and what was staged for it used by
\* an earlier turn: then start() returns.
TurnError(r) ==
    /\ Runnable(r)
    /\ \/ "error" \in Events /\ phase[r] \in {"starting", "active"}
       \/ "empty" \in Events /\ phase[r] = "starting"
    /\ GoTo(r, IF phase[r] = "active" THEN "stopping" ELSE "ending")
    /\ UNCHANGED <<pc, task, complete, interrupted, queued_steer, sessionVars, delivered,
                   turn_lock, closeVars>>

\* The agent loop is over and active_agent_run cleared; the post-turn hooks run.
StopAgent(r) ==
    /\ Runnable(r)
    /\ phase[r] = "active"
    /\ GoTo(r, "ending")
    /\ UNCHANGED <<pc, task, complete, interrupted, queued_steer, sessionVars, delivered,
                   turn_lock, closeVars>>

TurnEnds(r) == Runnable(r) /\ phase[r] \in {"stopping", "ending"}

\* The turn of a run whose caller drives start(): nobody looks at prompt_queue.
EndDriven(r) ==
    /\ TurnEnds(r)
    /\ task[r] = None
    /\ LeaveStart(r)
    /\ PopDriven(r)
    /\ GoTo(r, "done")
    /\ UNCHANGED <<pc, task, interrupted, queued_steer, prompt_queue, feedback_queue,
                   delivered, closeVars>>

\* start() raises before the turn executes (create_turn or a publication fails): the
\* run's task ends without looking at prompt_queue...
RaiseFromStart(r) ==
    /\ "raise" \in Events
    /\ Runnable(r)
    /\ phase[r] = "starting"
    /\ LeaveStart(r)
    /\ IF task[r] = None THEN PopDriven(r) ELSE Pop(r)
    /\ GoTo(r, "failed")
    /\ UNCHANGED <<pc, task, interrupted, queued_steer, prompt_queue, feedback_queue,
                   delivered, closeVars>>

\* ... and in the session of a team member it notifies the lead's session first.
RaiseInMember(r) ==
    /\ {"raise", "member"} \subseteq Events
    /\ Runnable(r)
    /\ phase[r] = "starting"
    /\ task[r] # None
    /\ ~is_closing
    /\ LeaveStart(r)
    /\ GoTo(r, "failing")
    /\ UNCHANGED <<pc, task, interrupted, queued_steer, sessionVars, delivered,
                   closeVars>>

-----------------------------------------------------------------------------
(***************************************************************************)
(* _consume_run after start().                                             *)
(***************************************************************************)

LeadNotified(r) ==
    /\ phase[r] = "failing"
    /\ Pop(r)
    /\ GoTo(r, "failed")
    /\ UNCHANGED <<pc, task, complete, interrupted, queued_steer, prompt_queue,
                   feedback_queue, delivered, turn_lock, closeVars>>

WrongChainCondition == prompt_queue # <<>>
WrongChainLast == ~is_closing /\ Len(prompt_queue) > 1
ChainCondition == ~is_closing /\ prompt_queue # <<>>

\* The end of the turn and of the task.
GoIdle(r) ==
    /\ TurnEnds(r)
    /\ task[r] # None
    /\ ~ChainCondition
    /\ LeaveStart(r)
    /\ Pop(r)
    /\ GoTo(r, "done")
    /\ UNCHANGED <<pc, task, interrupted, queued_steer, prompt_queue, feedback_queue,
                   delivered, closeVars>>

\* _create_per_prompt_handle for the next queued prompt, whatever run is current by
\* then; the same task goes straight into its start().
ChainNext(r) ==
    /\ TurnEnds(r)
    /\ task[r] # None
    /\ ChainCondition
    /\ LET n == Head(prompt_queue)
           lock == Without(turn_lock, r)
       IN /\ runs' = (runs \ {r}) \cup {n}
          /\ current_run_id' = n
          /\ task' = [task EXCEPT ![n] = task[r]]
          /\ phase' = [phase EXCEPT ![r] = "done", ![n] = Entered(lock)]
          /\ EnterStart(n, lock)
    /\ complete' = complete \cup {r}
    /\ prompt_queue' = Tail(prompt_queue)
    /\ UNCHANGED <<pc, interrupted, delivered, closeVars>>

\* _cleanup_run touches the session of a run that is registered and current.
WrongOwnsSession(rid) == rid \in runs /\ closing # "closed"
OwnsSession(rid) == rid \in runs /\ current_run_id = rid /\ closing # "closed"

\* The done callback of a cancelled task: _cleanup_run for the run the task
\* was created with, then _drain_prompt_queue.
CleanupCancelled(r) ==
    /\ phase[r] = "cancelled"
    /\ LET rid == task[r]
           n == Head(prompt_queue)
       IN /\ complete' = complete \cup ({rid} \cap runs)
          /\ IF OwnsSession(rid) /\ ChainCondition
             THEN /\ runs' = (runs \ {rid}) \cup {n}
                  /\ current_run_id' = n
                  /\ task' = [task EXCEPT ![n] = n]
                  /\ phase' = [phase EXCEPT ![r] = "done", ![n] = "created"]
                  /\ prompt_queue' = Tail(prompt_queue)
             ELSE /\ runs' = runs \ {rid}
                  /\ current_run_id' = IF OwnsSession(rid) THEN None ELSE current_run_id
                  /\ GoTo(r, "done")
                  /\ UNCHANGED <<task, prompt_queue>>
    /\ UNCHANGED <<pc, interrupted, queued_steer, feedback_queue, delivered, turn_lock,
                   closeVars>>

-----------------------------------------------------------------------------
(***************************************************************************)
(* RunHandle.cancel and the CancelledError it sends.                       *)
(***************************************************************************)

\* start() sets current_task: before that cancel() only sets run_ctx.cancelled, which
\* _execute_turn resets.
Interrupted(r) == IF phase[r] = "created" THEN interrupted ELSE interrupted \cup {r}

\* cancel_run_for_session and cancel_run.
CancelRun(r) ==
    /\ "cancel" \in Events
    /\ r \in runs \ complete
    /\ interrupted' = Interrupted(r)
    /\ UNCHANGED <<pc, phase, task, complete, queued_steer, sessionVars, delivered,
                   turn_lock, closeVars>>

\* Caught by the turn, which yields a cancelled StreamCompleteEvent.
CancelGracefully(r) ==
    /\ r \in interrupted
    /\ phase[r] = "active"
    /\ interrupted' = interrupted \ {r}
    /\ GoTo(r, "stopping")
    /\ UNCHANGED <<pc, task, complete, queued_steer, sessionVars, delivered, turn_lock,
                   closeVars>>

\* Raised anywhere else in the turn, whose finally blocks run before start() publishes
\* RunFailedEvent.
CancelTurn(r) ==
    /\ r \in interrupted
    /\ phase[r] \in TurnPhases \ {"unwinding"}
    /\ interrupted' = interrupted \ {r}
    /\ GoTo(r, "unwinding")
    /\ UNCHANGED <<pc, task, complete, queued_steer, sessionVars, delivered, turn_lock,
                   closeVars>>

\* A CancelledError leaves start(): after the finally blocks of the turn, which a second
\* one may cut short, or while start() waits for turn_lock.  A _consume_run task ends,
\* its done callback to come; a caller that drives start() clears the session.
LeaveCancelled(r) ==
    /\ \/ phase[r] = "unwinding"
       \/ phase[r] \in WaitPhases /\ r \in interrupted
    /\ interrupted' = interrupted \ {r}
    /\ LeaveStart(r)
    /\ IF task[r] = None
       THEN PopDriven(r) /\ GoTo(r, "done")
       ELSE GoTo(r, "cancelled") /\ UNCHANGED <<runs, current_run_id>>
    /\ UNCHANGED <<pc, task, queued_steer, prompt_queue, feedback_queue, delivered,
                   closeVars>>

-----------------------------------------------------------------------------
(***************************************************************************)
(* Closing the session.                                                    *)
(***************************************************************************)

CloseSession ==
    /\ "close" \in Events
    /\ closing = "open"
    /\ closing' = "waiting"
    /\ UNCHANGED <<pc, handleVars, sessionVars, delivered, turn_lock, is_closing, retried>>

\* The close waits for the controller's lock and the store; then is_closing is set, and
\* steps 1 and 2: RunHandle.close only sets complete_event, so the wait for it is over
\* before the turn is.
ClosingRun == IF HasRunHandle THEN {current_run_id} ELSE {}

CloseMark ==
    /\ closing = "waiting"
    /\ closing' = "marked"
    /\ is_closing' = TRUE
    /\ complete' = complete \cup ClosingRun
    /\ runs' = runs \ ClosingRun
    /\ current_run_id' = IF HasRunHandle THEN None ELSE current_run_id
    /\ UNCHANGED <<pc, phase, task, interrupted, queued_steer, prompt_queue,
                   feedback_queue, delivered, turn_lock, retried>>

\* Steps 3 and 4: MCP cleanup, agent.__aexit__.
CloseAgent ==
    /\ closing = "marked"
    /\ closing' = "exited"
    /\ UNCHANGED <<pc, handleVars, sessionVars, delivered, turn_lock, is_closing, retried>>

\* The rest of the close: the session leaves _sessions.
CloseFinish ==
    /\ closing = "exited"
    /\ closing' = "closed"
    /\ UNCHANGED <<pc, handleVars, sessionVars, delivered, turn_lock, is_closing, retried>>

RetryClose == closing' = "waiting" /\ retried' = TRUE

\* After 15 s the close is given up wherever it waits, the current run is cancelled, and
\* the close begins again, once and without a time limit.
CloseTimeout ==
    /\ "close_timeout" \in Events
    /\ closing \in {"waiting", "marked", "exited"}
    /\ ~retried
    /\ RetryClose
    /\ interrupted' = IF current_run_id \in runs \ complete
                      THEN Interrupted(current_run_id) ELSE interrupted
    /\ UNCHANGED <<pc, phase, task, complete, queued_steer, sessionVars, delivered,
                   turn_lock, is_closing>>

-----------------------------------------------------------------------------
Call(m) ==
    \/ SendMessage(m) \/ InjectPrompt(m) \/ BackgroundSteer(m) \/ Followup(m)
    \/ ProcessPrompt(m) \/ Revoke(m)

Route(m) ==
    \/ RouteReject(m) \/ RouteIdle(m) \/ RouteSteer(m) \/ RouteQueue(m)
    \/ ProcessBusy(m) \/ ProcessIdle(m) \/ ProcessEmpty(m) \/ ProcessEmptyWaits(m)

Execute(r) ==
    \/ BeginConsume(r) \/ TakeTurn(r) \/ ReturnFromStart(r) \/ Activate(r) \/ StopAgent(r)
    \/ EndDriven(r) \/ LeadNotified(r) \/ GoIdle(r) \/ ChainNext(r)
    \/ CancelGracefully(r) \/ CancelTurn(r) \/ LeaveCancelled(r) \/ CleanupCancelled(r)

Fault(r) == TurnError(r) \/ RaiseFromStart(r) \/ RaiseInMember(r) \/ CancelRun(r)

Close == CloseSession \/ CloseMark \/ CloseAgent \/ CloseFinish \/ CloseTimeout

Next ==
    \/ \E m \in Msg : Call(m) \/ Route(m) \/ Execute(m) \/ Fault(m)
    \/ Close

Spec == Init /\ [][Next]_vars

\* The event loop runs every task that can run, agents end their turns and the steps of
\* a close end; nobody has to call.
Fairness ==
    /\ \A m \in Msg : WF_vars(Route(m)) /\ WF_vars(Execute(m))
    /\ WF_vars(CloseMark \/ CloseAgent \/ CloseFinish)

FairSpec == Spec /\ Fairness

-----------------------------------------------------------------------------
(***************************************************************************)
(* Properties.                                                             *)
(***************************************************************************)

\* Two turns of one session never overlap, even when two _consume_run tasks
\* or process_prompt callers are alive at once (SessionState.turn_lock).
OneTurnAtATime ==
    \A r, s \in Msg : phase[r] \in TurnPhases /\ phase[s] \in TurnPhases => r = s

\* A run whose turn has begun has turn_lock.
TurnLockHeld == \A r \in Msg : phase[r] \in TurnPhases => HoldsTurnLock(r)

\* A message that waits in a queue, or has a run, was settled accordingly.
SettledMessages ==
    /\ \A m \in ToSet(feedback_queue) : pc[m] \in {"steered", "revoked"}
    /\ \A m \in ToSet(prompt_queue) : pc[m] = "queued"
    /\ \A m \in Msg : phase[m] # "none" => pc[m] \in {"started", "queued"}

\* The inductive invariant behind TypeOK and OneTurnAtATime.
IndInv ==
    /\ TypeOK
    /\ TurnLockHeld
    /\ SettledMessages

\* Every place that holds message m: a position of a queue, its own run, or
\* the agent it was handed to.
Places(m) ==
    {<<"prompt_queue", i>> : i \in {j \in DOMAIN prompt_queue : prompt_queue[j] = m}}
    \cup {<<"feedback_queue", i>> : i \in {j \in DOMAIN feedback_queue : feedback_queue[j] = m}}
    \cup (UNION {{<<r, i>> : i \in {j \in DOMAIN queued_steer[r] : queued_steer[r][j] = m}}
                    : r \in Msg})
    \cup (IF phase[m] # "none" THEN {<<"run">>} ELSE {})
    \cup (IF m \in delivered THEN {<<"agent">>} ELSE {})

\* A message the session took is in exactly one place: none vanishes in the hand-over
\* between queues and runs, none is executed or injected twice.  A steer message may
\* stay for good in the queued_steer_messages of a run that is over: see
\* TakenSteersReachAgent.
MessageInOnePlace ==
    \A m \in Msg :
        Cardinality(Places(m)) = IF pc[m] \in {"started", "queued", "steered"} THEN 1 ELSE 0

\* Until the session closes, a run that is not over is the one current_run_id names:
\* neither routing, nor chaining, nor a driven run, nor the clean-up of a cancelled one
\* makes a second live RunHandle or forgets the one there is (docstring of _consume_run).
LiveRunIsCurrent == ~is_closing => runs \ complete \subseteq {current_run_id}

\* A steer message that a run has taken out of feedback_queue reaches an agent before
\* the run ends (comment in RunHandle.start, docstring of RunHandle.steer).
TakenSteersReachAgent ==
    \A r \in Msg : phase[r] \in EndPhases => queued_steer[r] = <<>>

\* The session is not marked busy by a run whose task is over: somebody is
\* still going to clear or replace current_run_id (_consume_run, _cleanup_run).
BusyRunIsDriven == current_run_id # None => phase[current_run_id] # "done"

\* The agent is exited only after the running turn: close_session awaits the
\* completion of the RunHandle (step 2) before Agent.__aexit__ (step 4).
AgentExitAwaitsTurn ==
    closing \in {"exited", "closed"} => \A r \in Msg : phase[r] \notin TurnPhases

\* Once is_closing is set no RunHandle is created, by routing, by chaining or
\* by the clean-up of a cancelled run.  Only a process_prompt or run_stream call that
\* has passed its check and awaits the session's agent still creates one.
NoRunWhileClosing ==
    [][is_closing => \A r \in runs' \ runs : pc[r] \in Resolving]_vars

\* Every RunHandle ends, whoever drives it, whether it waits for turn_lock, is cancelled
\* by the retry of a close, raises, or runs on after its session was closed.
RunsEnd == \A r \in Msg : phase[r] # "none" ~> phase[r] \in {"done", "failed"}

\* close_session ends, whatever runs and calls are in its way, and wherever the timeout
\* cuts it.
CloseEnds == closing = "waiting" ~> closing = "closed"

\* A queued prompt leaves prompt_queue for a run of its own, nobody has to send another
\* message for that, unless the session closes, a start() raises, or a caller drives a
\* run itself: those do not look at prompt_queue.
QueuedPromptsRun ==
    \A m \in Msg :
        Contains(prompt_queue, m) ~>
            \/ phase[m] # "none"
            \/ is_closing
            \/ \E r \in Msg : \/ phase[r] \in {"failing", "failed"}
                              \/ phase[r] # "none" /\ task[r] = None

\* The session implements the abstract prompt service.
InTurn == {r \in Msg : phase[r] \in TurnPhases}
Service == INSTANCE PromptService WITH
    accepted <- {m \in Msg : Contains(prompt_queue, m) \/ phase[m] # "none"},
    turn <- IF InTurn = {} THEN None ELSE CHOOSE r \in InTurn : TRUE,
    over <- {m \in Msg : phase[m] \in EndPhases}

ServiceSpec == Service!Spec
=============================================================================
