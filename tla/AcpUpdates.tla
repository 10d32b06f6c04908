---------------------------- MODULE AcpUpdates ----------------------------
(***************************************************************************)
(* A session with a remote ACP agent, seen from the client: the agent's    *)
(* session/update notifications overtake, or are overtaken by, the         *)
(* response to the request they belong to.                                 *)
(*                                                                         *)
(* The receive loop queues notifications for a dispatcher, which starts a  *)
(* task for each, and resolves responses directly.  ACPTurn awaits the     *)
(* response to session/prompt and only then drains the updates; the drain  *)
(* ends with the first round that finds none.  load_session yields to the  *)
(* event loop once and takes what was replayed by then.  That nothing is   *)
(* missed depends on the order in which the event loop runs what is ready, *)
(* so the loop's queue of ready callbacks is part of the state.            *)
(***************************************************************************)
EXTENDS Naturals, Sequences, FiniteSets, SequencesExt

CONSTANTS MaxUpdates,   \* updates the agent sends in one behaviour (bound)
          MaxRequests   \* turns and loads in one behaviour (bound)

ASSUME BoundsAssumption == MaxUpdates \in Nat /\ MaxRequests \in Nat

Update == 1..MaxUpdates
Request == 1..MaxRequests

\* "text" stands for everything that is only queued for the stream; "mode"
\* (mode, model, config) changes the state and is not queued; "commands" does both.
Kind == {"text", "mode", "commands"}

Message == [kind : {"update"}, id : Update] \cup [kind : {"response", "error"}, id : Request]

\* Callbacks of the event loop: the task that runs next, and for the task of a
\* notification its update.
Callback == [task : {"receive", "dispatch", "caller"}] \cup [task : {"notify", "resume"}, update : Update]
Receiver == [task |-> "receive"]
Dispatcher == [task |-> "dispatch"]
Caller == [task |-> "caller"]
Notification(u) == [task |-> "notify", update |-> u]
Resumption(u) == [task |-> "resume", update |-> u]

VARIABLES
    \* The agent.
    sent,          \* the updates it has sent: kind and request (0: none) of each
    serving,       \* requests it has received and not answered, in order
    \* The event loop and the connection.
    ready,         \* the callbacks that can run, in the order in which they will
    inbox,         \* lines read and not processed
    queue,         \* the dispatcher's queue
    \* The client handler and ACPSessionState.
    emitting,      \* notifications that await state_updated.emit
    updates,       \* ACPSessionState.updates
    is_loading,
    load_updates,  \* ACPSessionState._load_updates
    update_event,
    \* The caller: one turn or load after the other.
    caller,        \* where it is
    request,       \* the number of its latest request
    answer,        \* what its future was resolved with, or "none"
    drained_any,
    outcome,       \* how each request ended
    streamed,      \* the updates a turn has streamed, or a load has captured
    stale          \* turns whose first wait found the event set and no update

agentVars == <<sent, serving>>
loopVars == <<ready, inbox, queue>>
stateVars == <<emitting, updates, is_loading, load_updates, update_event>>
callerVars == <<caller, request, answer, drained_any, outcome, streamed, stale>>
vars == <<agentVars, loopVars, stateVars, callerVars>>

CallerStates == {"idle", "prompting", "waiting", "woken", "expired", "draining", "yielding",
                 "loading", "settling"}
Outcomes == {"none", "open", "done", "failed", "cancelled", "loaded"}

TypeOK ==
    /\ sent \in Seq([kind : Kind, for : Request \cup {0}])
    /\ Len(sent) <= MaxUpdates
    /\ serving \in Seq(Request)
    /\ ready \in Seq(Callback)
    /\ inbox \in Seq(Message)
    /\ queue \in Seq(Update)
    /\ emitting \subseteq Update
    /\ updates \in Seq(Update)
    /\ is_loading \in BOOLEAN
    /\ load_updates \in Seq(Update)
    /\ update_event \in BOOLEAN
    /\ caller \in CallerStates
    /\ request \in 0..MaxRequests
    /\ answer \in {"none", "response", "error"}
    /\ drained_any \in BOOLEAN
    /\ outcome \in [Request -> Outcomes]
    /\ streamed \in [Request -> Seq(Update)]
    /\ stale \subseteq Request

Init ==
    /\ sent = <<>> /\ serving = <<>>
    /\ ready = <<>> /\ inbox = <<>> /\ queue = <<>>
    /\ emitting = {} /\ updates = <<>> /\ load_updates = <<>>
    /\ is_loading = FALSE /\ update_event = FALSE
    /\ caller = "idle" /\ request = 0 /\ answer = "none" /\ drained_any = FALSE
    /\ outcome = [r \in Request |-> "none"]
    /\ streamed = [r \in Request |-> <<>>]
    /\ stale = {}

-----------------------------------------------------------------------------
(***************************************************************************)
(* The agent (external).  What it says in answer to a request it sends     *)
(* before its response; state changes it may announce at any time.         *)
(***************************************************************************)
\* Lines that arrive before the receive loop runs are one chunk to it.
Running(task) == ready # <<>> /\ Head(ready).task = task

Arrive(message) ==
    /\ inbox' = Append(inbox, message)
    /\ ready' = IF inbox = <<>> THEN Append(ready, Receiver) ELSE ready

SendUpdate(kind) ==
    /\ Len(sent) < MaxUpdates
    /\ kind = "text" => serving # <<>>
    /\ sent' = Append(sent, [kind |-> kind, for |-> IF serving = <<>> THEN 0 ELSE Head(serving)])
    /\ Arrive([kind |-> "update", id |-> Len(sent) + 1])
    /\ UNCHANGED <<serving, queue, stateVars, callerVars>>

Respond(kind) ==
    /\ serving # <<>>
    /\ Arrive([kind |-> kind, id |-> Head(serving)])
    /\ serving' = Tail(serving)
    /\ UNCHANGED <<sent, queue, stateVars, callerVars>>

-----------------------------------------------------------------------------
(***************************************************************************)
(* The connection.                                                         *)
(***************************************************************************)
\* The receive loop does not suspend between the lines of a chunk: it stays
\* in front until the chunk is processed.
AfterLine == IF Len(inbox) = 1 THEN Tail(ready) ELSE ready

\* A notification: queue.publish, which wakes the dispatcher.
ReceiveUpdate ==
    /\ Running("receive")
    /\ Head(inbox).kind = "update"
    /\ queue' = Append(queue, Head(inbox).id)
    /\ ready' = IF queue = <<>> THEN Append(AfterLine, Dispatcher) ELSE AfterLine
    /\ inbox' = Tail(inbox)
    /\ UNCHANGED <<agentVars, stateVars, callerVars>>

\* The caller still awaits the response to request r.
Awaited(r) == caller \in {"prompting", "loading"} /\ r = request /\ answer = "none"

\* A response: the future is resolved or rejected, unless nobody awaits it.
ReceiveResponse ==
    /\ Running("receive")
    /\ Head(inbox).kind # "update"
    /\ IF Awaited(Head(inbox).id)
       THEN /\ answer' = Head(inbox).kind
            /\ ready' = Append(AfterLine, Caller)
       ELSE /\ ready' = AfterLine
            /\ UNCHANGED answer
    /\ inbox' = Tail(inbox)
    /\ UNCHANGED <<agentVars, queue, stateVars, caller, request, drained_any, outcome,
                   streamed, stale>>

\* Mutant: the newest notification is started first.
WrongDispatch ==
    /\ Running("dispatch")
    /\ ready' = Tail(ready) \o [i \in DOMAIN queue |-> Notification(Reverse(queue)[i])]
    /\ queue' = <<>>
    /\ UNCHANGED <<agentVars, inbox, stateVars, callerVars>>

\* The dispatcher starts a task for every queued notification.
Dispatch ==
    /\ Running("dispatch")
    /\ ready' = Tail(ready) \o [i \in DOMAIN queue |-> Notification(queue[i])]
    /\ queue' = <<>>
    /\ UNCHANGED <<agentVars, inbox, stateVars, callerVars>>

-----------------------------------------------------------------------------
(***************************************************************************)
(* The client handler: session_update.                                     *)
(***************************************************************************)
\* Event.set(): a caller that waits for the event becomes ready.
SetEvent ==
    /\ update_event' = TRUE
    /\ IF caller = "waiting"
       THEN caller' = "woken" /\ ready' = Append(Tail(ready), Caller)
       ELSE ready' = Tail(ready) /\ UNCHANGED caller

\* Mutant: the position of the update is counted from 0.
WrongAddUpdate(u) ==
    /\ updates' = Append(updates, u - 1)
    /\ load_updates' = IF is_loading THEN Append(load_updates, u) ELSE load_updates

AddUpdate(u) ==
    /\ updates' = Append(updates, u)
    /\ load_updates' = IF is_loading THEN Append(load_updates, u) ELSE load_updates

\* A change of mode or commands is announced first, which may suspend.
EmitUpdate ==
    /\ Running("notify")
    /\ sent[Head(ready).update].kind # "text"
    /\ emitting' = emitting \cup {Head(ready).update}
    /\ ready' = Tail(ready)
    /\ UNCHANGED <<agentVars, inbox, queue, updates, is_loading, load_updates, update_event,
                   callerVars>>

Emitted(u) ==
    /\ u \in emitting
    /\ emitting' = emitting \ {u}
    /\ ready' = Append(ready, Resumption(u))
    /\ UNCHANGED <<agentVars, inbox, queue, updates, is_loading, load_updates, update_event,
                   callerVars>>

\* The rest of session_update; without a suspension, all of it.
StoreUpdate ==
    /\ Running("notify") \/ Running("resume")
    /\ LET u == Head(ready).update IN
         IF sent[u].kind = "mode" THEN UNCHANGED <<updates, load_updates>> ELSE AddUpdate(u)
    /\ SetEvent
    /\ UNCHANGED <<agentVars, inbox, queue, emitting, is_loading, request, answer,
                   drained_any, outcome, streamed, stale>>

-----------------------------------------------------------------------------
(***************************************************************************)
(* A turn: ACPTurn.execute over ACPAgentAPI.prompt and stream_events.      *)
(***************************************************************************)
SetCaller(state) == caller' = state

\* A request is written and registered; the caller awaits its future.
Begin(state) ==
    /\ caller = "idle"
    /\ request < MaxRequests
    /\ request' = request + 1
    /\ outcome' = [outcome EXCEPT ![request + 1] = "open"]
    /\ serving' = Append(serving, request + 1)
    /\ SetCaller(state)
    /\ UNCHANGED <<sent, loopVars, emitting, update_event, answer, drained_any, streamed, stale>>

\* ACPAgent._stream_events clears the updates before it prompts, a turn made by
\* create_turn does not.
BeginTurn(clear) ==
    /\ Begin("prompting")
    /\ updates' = IF clear THEN <<>> ELSE updates
    /\ UNCHANGED <<is_loading, load_updates>>

End(result) ==
    /\ SetCaller("idle")
    /\ outcome' = [outcome EXCEPT ![request] = result]
    /\ answer' = "none"
    /\ drained_any' = FALSE

\* Mutant: the first round does not wait for an update.
WrongNextRound ==
    /\ drained_any' = FALSE
    /\ update_event' = FALSE
    /\ SetCaller("draining")
    /\ UNCHANGED ready

\* Mutant: drained_any is not reset, so that every round is followed by one.
WrongRound ==
    /\ UNCHANGED drained_any
    /\ IF update_event
       THEN update_event' = FALSE /\ SetCaller("draining") /\ UNCHANGED ready
       ELSE SetCaller("waiting") /\ ready' = Tail(ready) /\ UNCHANGED update_event

\* wait_with_timeout: an event that is set is not waited for.
NextRound ==
    /\ drained_any' = FALSE
    /\ IF update_event
       THEN update_event' = FALSE /\ SetCaller("draining") /\ UNCHANGED ready
       ELSE SetCaller("waiting") /\ ready' = Tail(ready) /\ UNCHANGED update_event

\* The response has arrived: stream_events begins.
BeginStream ==
    /\ Running("caller") /\ caller = "prompting" /\ answer = "response"
    /\ NextRound
    /\ stale' = IF update_event /\ updates = <<>> THEN stale \cup {request} ELSE stale
    /\ UNCHANGED <<agentVars, inbox, queue, emitting, updates, is_loading, load_updates,
                   request, answer, outcome, streamed>>

\* The request was rejected: the turn ends with a RunErrorEvent.
PromptFails ==
    /\ Running("caller") /\ caller = "prompting" /\ answer = "error"
    /\ End("failed")
    /\ ready' = Tail(ready)
    /\ UNCHANGED <<agentVars, inbox, queue, stateVars, request, streamed, stale>>

\* The 50 ms are over, also when the event has just been set.
Timeout ==
    /\ caller \in {"waiting", "woken"}
    /\ SetCaller("expired")
    /\ ready' = IF caller = "waiting" THEN Append(ready, Caller) ELSE ready
    /\ UNCHANGED <<agentVars, inbox, queue, stateVars, request, answer, drained_any, outcome,
                   streamed, stale>>

\* The wait is over; only a wait that was not timed out clears the event.
EndWait ==
    /\ Running("caller") /\ caller \in {"woken", "expired"}
    /\ update_event' = (update_event /\ caller = "expired")
    /\ SetCaller("draining")
    /\ UNCHANGED <<agentVars, loopVars, emitting, updates, is_loading, load_updates, request,
                   answer, drained_any, outcome, streamed, stale>>

\* pop_update and yield: the consumer of the stream suspends, or does not.
Pop(suspend) ==
    /\ Running("caller") /\ caller = "draining"
    /\ updates # <<>>
    /\ updates' = Tail(updates)
    /\ streamed' = [streamed EXCEPT ![request] = Append(@, Head(updates))]
    /\ drained_any' = TRUE
    /\ IF suspend THEN SetCaller("yielding") /\ ready' = Tail(ready)
                  ELSE UNCHANGED <<caller, ready>>
    /\ UNCHANGED <<agentVars, inbox, queue, emitting, is_loading, load_updates, update_event,
                   request, answer, outcome, stale>>

ConsumerResumes ==
    /\ caller = "yielding"
    /\ SetCaller("draining")
    /\ ready' = Append(ready, Caller)
    /\ UNCHANGED <<agentVars, inbox, queue, stateVars, request, answer, drained_any, outcome,
                   streamed, stale>>

\* Another round when this one has drained something.
DrainAgain ==
    /\ Running("caller") /\ caller = "draining"
    /\ updates = <<>> /\ drained_any
    /\ NextRound
    /\ UNCHANGED <<agentVars, inbox, queue, emitting, updates, is_loading, load_updates,
                   request, answer, outcome, streamed, stale>>

\* A round that drained nothing ends the stream, and the turn.
EndTurn ==
    /\ Running("caller") /\ caller = "draining"
    /\ updates = <<>> /\ ~drained_any
    /\ End("done")
    /\ ready' = Tail(ready)
    /\ UNCHANGED <<agentVars, inbox, queue, stateVars, request, streamed, stale>>

-----------------------------------------------------------------------------
(***************************************************************************)
(* load_session.                                                           *)
(***************************************************************************)
BeginLoad ==
    /\ Begin("loading")
    /\ is_loading' = TRUE
    /\ load_updates' = <<>>
    /\ UNCHANGED updates

FinishLoad ==
    /\ is_loading' = FALSE
    /\ load_updates' = <<>>

\* Mutant: the loop is not yielded to.
WrongSettle ==
    /\ Running("caller") /\ caller = "loading" /\ answer = "response"
    /\ SetCaller("settling")
    /\ UNCHANGED <<agentVars, loopVars, stateVars, request, answer, drained_any, outcome,
                   streamed, stale>>

\* The response has arrived: asyncio.sleep(0) puts the caller behind the
\* callbacks that are ready.
Settle ==
    /\ Running("caller") /\ caller = "loading" /\ answer = "response"
    /\ SetCaller("settling")
    /\ ready' = Append(Tail(ready), Caller)
    /\ UNCHANGED <<agentVars, inbox, queue, stateVars, request, answer, drained_any, outcome,
                   streamed, stale>>

Capture ==
    /\ Running("caller") /\ caller = "settling"
    /\ streamed' = [streamed EXCEPT ![request] = load_updates]
    /\ FinishLoad
    /\ End("loaded")
    /\ ready' = Tail(ready)
    /\ UNCHANGED <<agentVars, inbox, queue, emitting, updates, update_event, request, stale>>

LoadFails ==
    /\ Running("caller") /\ caller = "loading" /\ answer = "error"
    /\ FinishLoad
    /\ End("failed")
    /\ ready' = Tail(ready)
    /\ UNCHANGED <<agentVars, inbox, queue, emitting, updates, update_event, request, streamed,
                   stale>>

\* The task of the turn or load is cancelled: what it awaits is abandoned.
Cancel ==
    /\ caller # "idle"
    /\ End("cancelled")
    /\ \/ Caller \notin ToSet(ready) /\ UNCHANGED ready
       \/ \E i \in DOMAIN ready : ready[i] = Caller /\ ready' = RemoveAt(ready, i)
    /\ UNCHANGED <<agentVars, inbox, queue, stateVars, request, streamed, stale>>

-----------------------------------------------------------------------------
Agent == (\E kind \in Kind : SendUpdate(kind)) \/ Respond("response") \/ Respond("error")

Connection == ReceiveUpdate \/ ReceiveResponse \/ Dispatch

Handler == EmitUpdate \/ StoreUpdate

TurnStep ==
    \/ BeginStream \/ PromptFails \/ EndWait \/ \E b \in BOOLEAN : Pop(b)
    \/ DrainAgain \/ EndTurn

LoadStep == Settle \/ Capture \/ LoadFails

Client == (\E b \in BOOLEAN : BeginTurn(b)) \/ BeginLoad \/ Cancel

Next ==
    \/ Agent \/ Client
    \/ Connection \/ Handler \/ TurnStep \/ LoadStep
    \/ Timeout \/ ConsumerResumes \/ \E u \in emitting : Emitted(u)

Spec == Init /\ [][Next]_vars

\* The event loop runs what is ready, timers fire, the consumer of
\* a turn takes the next event.
Fairness ==
    /\ WF_vars(Connection \/ Handler \/ TurnStep \/ LoadStep)
    /\ WF_vars(Timeout)
    /\ WF_vars(ConsumerResumes)

FairSpec == Spec /\ Fairness

-----------------------------------------------------------------------------
(***************************************************************************)
(* Properties.                                                             *)
(***************************************************************************)
IsText(u) == sent[u].kind = "text"
Texts(r) == {u \in DOMAIN sent : IsText(u) /\ sent[u].for = r}

\* Turns r that ended by themselves after draining.  A stale event ends the
\* drain before the last notifications have run, so such turns are set apart.
Drained(r) == outcome[r] = "done" /\ r \notin stale

\* A turn has streamed all text the agent sent for it before its response, although
\* notifications take a longer way than the response; and, as long as every earlier
\* request was a turn that drained its own, no text of another request.
TurnsAreSeparate ==
    \A r \in Request :
        /\ Drained(r) => Texts(r) \subseteq ToSet(streamed[r])
        /\ /\ outcome[r] \in {"open", "done"}
           /\ \A q \in 1..(r - 1) : Drained(q)
           => \A i \in DOMAIN streamed[r] :
                IsText(streamed[r][i]) => sent[streamed[r][i]].for = r

\* load_session captures the whole replayed history, although notifications may
\* be in flight when the response arrives (comment in ACPAgent.load_session).
LoadIsComplete ==
    \A r \in Request : outcome[r] = "loaded" => Texts(r) \subseteq ToSet(streamed[r])

\* What turns stream, one after the other, is what the agent said in its order:
\* no text is streamed twice, none overtakes another.
Streamed(r) == {i \in DOMAIN streamed[r] : outcome[r] # "loaded" /\ IsText(streamed[r][i])}

AgentOrder ==
    \A q, r \in Request : \A i \in Streamed(q), j \in Streamed(r) :
        (q < r \/ (q = r /\ i < j)) => streamed[q][i] < streamed[r][j]

\* A turn or load whose request is answered ends.
AnsweredRequestsEnd ==
    \A r \in Request :
        (outcome[r] = "open" /\ \E k \in {"response", "error"} :
            Contains(inbox, [kind |-> k, id |-> r])) ~> outcome[r] # "open"
=============================================================================
