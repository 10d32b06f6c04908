--------------------------- MODULE AcpConnection ---------------------------
(***************************************************************************)
(* One JSON-RPC connection (acp.connection.Connection): outgoing calls and *)
(* their answers, incoming requests and their handlers, and the staged     *)
(* shutdown that issue #320 asked for.                                     *)
(*                                                                         *)
(* Four tasks share the connection: the receive loop publishes what the    *)
(* peer sends to a queue, the dispatcher starts a handler task for each    *)
(* entry, the sender writes what callers and handlers put in the outbox,   *)
(* and close() stops them one after the other.  Callers are not tasks of   *)
(* the connection, handlers are.                                           *)
(***************************************************************************)
EXTENDS Naturals, Sequences, FiniteSets, SequencesExt

CONSTANTS Call,       \* outgoing requests and notifications, each made once
          Incoming,   \* the peer's requests and notifications, each sent once
          None,       \* no call: the answer of a response that carries none
          End         \* the sentinel of both queues

ASSUME DistinctNames ==
    /\ None \notin Call \cup Incoming
    /\ End \notin Call \cup Incoming
    /\ Call \cap Incoming = {}

Id == Nat

VARIABLES
    next_request_id,
    call,          \* where each outgoing call is
    outgoing,      \* InMemoryMessageStateStore._outgoing: id and call of each record
    answer,        \* the call whose answer a request has returned with
    peer,          \* requests the peer has read: their id, and the call that made them
    receiver, sender, dispatcher,
    outbox,        \* MessageSender._queue
    queue,         \* InMemoryMessageQueue._queue
    queue_closed,
    incoming,      \* where each incoming message is
    status,        \* IncomingMessage.status
    replies,       \* what has been written for each incoming request
    supervisor_closed,
    closer,        \* where close() is
    lost           \* what reached a closed queue or a closed supervisor

callVars == <<next_request_id, call, outgoing, answer, peer>>
incomingVars == <<incoming, status, replies>>
taskVars == <<receiver, sender, dispatcher>>
vars == <<callVars, taskVars, outbox, queue, queue_closed, incomingVars, supervisor_closed,
          closer, lost>>

\* "dropped": its record was rejected while its request waits to be written.
CallStates == {"idle", "sending", "dropped", "awaiting", "returned", "raised", "rejected",
               "unsent", "sent", "cancelled"}
IncomingStates == {"unsent", "queued_request", "queued_notice", "request", "notice",
                   "replying", "done", "crashed", "cancelled"}
Stages == {"open", "receiver", "dispatcher", "sender", "tasks", "closed"}

Item == [kind : {"request", "notification", "result", "error"}, of : Call \cup Incoming, id : Id]
Record == [id : Id, call : Call]

TypeOK ==
    /\ next_request_id \in Nat
    /\ call \in [Call -> CallStates]
    /\ outgoing \subseteq Record
    /\ answer \in [Call -> Call \cup {None}]
    /\ peer \subseteq Record
    /\ receiver \in {"running", "ended"}
    /\ sender \in {"running", "failed", "ended"}
    /\ dispatcher \in {"running", "ended"}
    /\ outbox \in Seq(Item \cup {End})
    /\ queue \in Seq(Incoming \cup {End})
    /\ queue_closed \in BOOLEAN
    /\ incoming \in [Incoming -> IncomingStates]
    /\ status \in [Incoming -> {"none", "pending", "completed", "failed"}]
    /\ replies \in [Incoming -> Seq({"result", "error"})]
    /\ supervisor_closed \in BOOLEAN
    /\ closer \in Stages
    /\ lost \subseteq Incoming

Init ==
    /\ next_request_id = 0
    /\ call = [c \in Call |-> "idle"]
    /\ outgoing = {} /\ peer = {}
    /\ answer = [c \in Call |-> None]
    /\ receiver = "running" /\ sender = "running" /\ dispatcher = "running"
    /\ outbox = <<>> /\ queue = <<>> /\ queue_closed = FALSE
    /\ incoming = [n \in Incoming |-> "unsent"]
    /\ status = [n \in Incoming |-> "none"]
    /\ replies = [n \in Incoming |-> <<>>]
    /\ supervisor_closed = FALSE /\ closer = "open" /\ lost = {}

-----------------------------------------------------------------------------
(***************************************************************************)
(* Outgoing calls.                                                         *)
(***************************************************************************)
SetCall(c, state) == call' = [call EXCEPT ![c] = state]

\* Mutant: the counter is not advanced.
WrongRegister(c) ==
    /\ call[c] = "idle"
    /\ UNCHANGED next_request_id
    /\ outgoing' = outgoing \cup {[id |-> next_request_id, call |-> c]}

Register(c) ==
    /\ call[c] = "idle"
    /\ next_request_id' = next_request_id + 1
    /\ outgoing' = outgoing \cup {[id |-> next_request_id, call |-> c]}

\* send_request up to its first await.  A closed connection is not refused.
SendRequest(c) ==
    /\ Register(c)
    /\ SetCall(c, "sending")
    /\ outbox' = Append(outbox, [kind |-> "request", of |-> c, id |-> next_request_id])
    /\ UNCHANGED <<answer, peer, taskVars, queue, queue_closed, incomingVars,
                   supervisor_closed, closer, lost>>

\* The parameters cannot be serialised: the record stays.
SendRequestFails(c) ==
    /\ Register(c)
    /\ SetCall(c, "unsent")
    /\ UNCHANGED <<answer, peer, taskVars, outbox, queue, queue_closed, incomingVars,
                   supervisor_closed, closer, lost>>

SendNotification(c) ==
    /\ call[c] = "idle"
    /\ SetCall(c, "sending")
    /\ outbox' = Append(outbox, [kind |-> "notification", of |-> c, id |-> 0])
    /\ UNCHANGED <<next_request_id, outgoing, answer, peer, taskVars, queue, queue_closed,
                   incomingVars, supervisor_closed, closer, lost>>

\* The caller's task is cancelled; what it queued and registered stays.
CancelCall(c) ==
    /\ call[c] \in {"sending", "dropped", "awaiting"}
    /\ SetCall(c, "cancelled")
    /\ UNCHANGED <<next_request_id, outgoing, answer, peer, taskVars, outbox, queue,
                   queue_closed, incomingVars, supervisor_closed, closer, lost>>

\* Mutant: the records are dropped without their futures.
WrongRejectAll ==
    /\ outgoing' = {}
    /\ UNCHANGED call

\* reject_all_outgoing.
RejectAll ==
    /\ call' = [c \in Call |->
                  IF \A r \in outgoing : r.call # c THEN call[c]
                  ELSE IF call[c] = "awaiting" THEN "rejected"
                  ELSE IF call[c] = "sending" THEN "dropped"
                  ELSE call[c]]
    /\ outgoing' = {}

-----------------------------------------------------------------------------
(***************************************************************************)
(* The sender.                                                             *)
(***************************************************************************)
NextItem == Head(outbox)

Sending == sender = "running" /\ outbox # <<>> /\ NextItem # End

\* An item of a caller is written, and send() returns.
WriteCall ==
    /\ Sending /\ NextItem.kind \in {"request", "notification"}
    /\ LET c == NextItem.of IN
         call' = [call EXCEPT ![c] =
                    CASE @ = "sending" /\ NextItem.kind = "request" -> "awaiting"
                      [] @ = "sending" /\ NextItem.kind = "notification" -> "sent"
                      [] @ = "dropped" -> "rejected"
                      [] OTHER -> @]
    /\ peer' = IF NextItem.kind = "request"
               THEN peer \cup {[id |-> NextItem.id, call |-> NextItem.of]} ELSE peer
    /\ outbox' = Tail(outbox)
    /\ UNCHANGED <<next_request_id, outgoing, answer, taskVars, queue, queue_closed,
                   incomingVars, supervisor_closed, closer, lost>>

\* An answer is written: the handler's task ends and its record is closed.
WriteReply ==
    /\ Sending /\ NextItem.kind \in {"result", "error"}
    /\ LET n == NextItem.of IN
         /\ replies' = [replies EXCEPT ![n] = Append(@, NextItem.kind)]
         /\ incoming' = [incoming EXCEPT ![n] = "done"]
         /\ status' = [status EXCEPT ![n] =
                         IF NextItem.kind = "result" THEN "completed" ELSE "failed"]
    /\ outbox' = Tail(outbox)
    /\ UNCHANGED <<callVars, taskVars, queue, queue_closed, supervisor_closed, closer, lost>>

\* The writer raises: send() raises for this item only, and the loop ends.
WriteCallFails ==
    /\ Sending /\ NextItem.kind \in {"request", "notification"}
    /\ call' = [call EXCEPT ![NextItem.of] = IF @ = "cancelled" THEN @ ELSE "unsent"]
    /\ sender' = "failed"
    /\ outbox' = Tail(outbox)
    /\ UNCHANGED <<next_request_id, outgoing, answer, peer, receiver, dispatcher, queue,
                   queue_closed, incomingVars, supervisor_closed, closer, lost>>

\* A handler that cannot send its result sends an error; one that cannot send
\* its error ends.
WriteReplyFails ==
    /\ Sending /\ NextItem.kind \in {"result", "error"}
    /\ IF NextItem.kind = "result"
       THEN /\ outbox' = Append(Tail(outbox), [NextItem EXCEPT !.kind = "error"])
            /\ UNCHANGED <<incoming, status>>
       ELSE /\ outbox' = Tail(outbox)
            /\ incoming' = [incoming EXCEPT ![NextItem.of] = "crashed"]
            /\ status' = [status EXCEPT ![NextItem.of] = "failed"]
    /\ sender' = "failed"
    /\ UNCHANGED <<callVars, replies, receiver, dispatcher, queue, queue_closed,
                   supervisor_closed, closer, lost>>

SenderEnds ==
    /\ sender = "running" /\ outbox # <<>> /\ NextItem = End
    /\ sender' = "ended"
    /\ outbox' = Tail(outbox)
    /\ UNCHANGED <<callVars, receiver, dispatcher, queue, queue_closed, incomingVars,
                   supervisor_closed, closer, lost>>

-----------------------------------------------------------------------------
(***************************************************************************)
(* The receive loop.  The peer (external) answers the requests it has read *)
(* in any order, possibly more than once, and sends its own at any time.   *)
(***************************************************************************)
ReceiveResponse(m, kind) ==
    /\ receiver = "running"
    /\ m \in peer
    /\ LET records == {r \in outgoing : r.id = m.id}
           open == {c \in Call : call[c] = "awaiting" /\ [id |-> m.id, call |-> c] \in records} IN
         /\ outgoing' = outgoing \ records
         /\ call' = [c \in Call |-> IF c \notin open THEN call[c]
                                    ELSE IF kind = "error" THEN "raised" ELSE "returned"]
         /\ answer' = [c \in Call |-> IF c \in open /\ kind = "result" THEN m.call ELSE answer[c]]
    /\ UNCHANGED <<next_request_id, peer, taskVars, outbox, queue, queue_closed, incomingVars,
                   supervisor_closed, closer, lost>>

SetIncoming(n, state) == incoming' = [incoming EXCEPT ![n] = state]

\* queue.publish; on a closed queue it raises, which ends the loop silently.
Receive(n, kind) ==
    /\ receiver = "running"
    /\ incoming[n] = "unsent"
    /\ IF queue_closed
       THEN /\ lost' = lost \cup {n}
            /\ receiver' = "ended"
            /\ UNCHANGED <<queue, incoming>>
       ELSE /\ queue' = Append(queue, n)
            /\ SetIncoming(n, kind)
            /\ UNCHANGED <<lost, receiver>>
    /\ UNCHANGED <<callVars, sender, dispatcher, outbox, queue_closed, status, replies,
                   supervisor_closed, closer>>

\* The end of the stream ends the loop and rejects nothing.
StreamEnds ==
    /\ receiver = "running"
    /\ receiver' = "ended"
    /\ UNCHANGED <<callVars, sender, dispatcher, outbox, queue, queue_closed, incomingVars,
                   supervisor_closed, closer, lost>>

\* Another exception does: _on_receive_error.
StreamFails ==
    /\ receiver = "running"
    /\ receiver' = "ended"
    /\ RejectAll
    /\ UNCHANGED <<next_request_id, answer, peer, sender, dispatcher, outbox, queue,
                   queue_closed, incomingVars, supervisor_closed, closer, lost>>

-----------------------------------------------------------------------------
(***************************************************************************)
(* The dispatcher and the handlers.                                        *)
(***************************************************************************)
\* The dispatcher starts a task; a closed supervisor refuses, which ends it.
Dispatch ==
    /\ dispatcher = "running" /\ queue # <<>> /\ Head(queue) # End
    /\ LET n == Head(queue) IN
         /\ status' = [status EXCEPT ![n] =
                         IF incoming[n] = "queued_request" THEN "pending" ELSE @]
         /\ IF supervisor_closed
            THEN /\ lost' = lost \cup {n}
                 /\ dispatcher' = "ended"
                 /\ UNCHANGED incoming
            ELSE /\ SetIncoming(n, IF incoming[n] = "queued_request" THEN "request" ELSE "notice")
                 /\ UNCHANGED <<lost, dispatcher>>
    /\ queue' = Tail(queue)
    /\ UNCHANGED <<callVars, receiver, sender, outbox, queue_closed, replies,
                   supervisor_closed, closer>>

DispatcherEnds ==
    /\ dispatcher = "running" /\ queue # <<>> /\ Head(queue) = End
    /\ dispatcher' = "ended"
    /\ queue' = Tail(queue)
    /\ UNCHANGED <<callVars, receiver, sender, outbox, queue_closed, incomingVars,
                   supervisor_closed, closer, lost>>

\* Mutant: the record is completed before the answer is sent.
WrongReply(n, kind) ==
    /\ incoming[n] = "request"
    /\ SetIncoming(n, "replying")
    /\ status' = [status EXCEPT ![n] = IF kind = "result" THEN "completed" ELSE "failed"]
    /\ outbox' = Append(outbox, [kind |-> kind, of |-> n, id |-> 0])
    /\ UNCHANGED <<callVars, taskVars, queue, queue_closed, replies, supervisor_closed, closer,
                   lost>>

\* The handler of a request returns or raises, and its answer is queued.
Reply(n, kind) ==
    /\ incoming[n] = "request"
    /\ SetIncoming(n, "replying")
    /\ outbox' = Append(outbox, [kind |-> kind, of |-> n, id |-> 0])
    /\ UNCHANGED <<callVars, taskVars, queue, queue_closed, status, replies,
                   supervisor_closed, closer, lost>>

\* Its result cannot be serialised: the payload of the error still holds the
\* result, so that the error cannot be sent either.
ReplyFails(n) ==
    /\ incoming[n] = "request"
    /\ SetIncoming(n, "crashed")
    /\ status' = [status EXCEPT ![n] = "failed"]
    /\ UNCHANGED <<callVars, taskVars, outbox, queue, queue_closed, replies,
                   supervisor_closed, closer, lost>>

\* The handler of a notification returns, or raises and is ignored.
NoticeHandled(n) ==
    /\ incoming[n] = "notice"
    /\ SetIncoming(n, "done")
    /\ UNCHANGED <<callVars, taskVars, outbox, queue, queue_closed, status, replies,
                   supervisor_closed, closer, lost>>

-----------------------------------------------------------------------------
(***************************************************************************)
(* close().                                                                *)
(***************************************************************************)
\* Mutant: the receive loop is left to the last sweep (before issue #320).
WrongClose ==
    /\ closer = "open"
    /\ closer' = "receiver"
    /\ UNCHANGED <<callVars, taskVars, outbox, queue, queue_closed, incomingVars,
                   supervisor_closed, lost>>

\* The receive loop is cancelled first.
Close ==
    /\ closer = "open"
    /\ closer' = "receiver"
    /\ receiver' = "ended"
    /\ UNCHANGED <<callVars, sender, dispatcher, outbox, queue, queue_closed, incomingVars,
                   supervisor_closed, lost>>

\* Mutant: the dispatcher, which waits for the queue, is not woken.
WrongStopDispatcher ==
    /\ closer = "receiver"
    /\ closer' = "dispatcher"
    /\ queue_closed' = TRUE
    /\ UNCHANGED <<callVars, taskVars, outbox, queue, incomingVars, supervisor_closed, lost>>

\* Then the dispatcher is told to stop, and awaited.
StopDispatcher ==
    /\ closer = "receiver"
    /\ closer' = "dispatcher"
    /\ queue_closed' = TRUE
    /\ queue' = Append(queue, End)
    /\ UNCHANGED <<callVars, taskVars, outbox, incomingVars, supervisor_closed, lost>>

\* Mutant: the sender stops before it has sent what waits.
WrongStopSender ==
    /\ closer = "dispatcher" /\ dispatcher = "ended"
    /\ closer' = "sender"
    /\ outbox' = <<End>> \o outbox
    /\ UNCHANGED <<callVars, taskVars, queue, queue_closed, incomingVars, supervisor_closed, lost>>

\* Then the sender.
StopSender ==
    /\ closer = "dispatcher" /\ dispatcher = "ended"
    /\ closer' = "sender"
    /\ outbox' = Append(outbox, End)
    /\ UNCHANGED <<callVars, taskVars, queue, queue_closed, incomingVars, supervisor_closed, lost>>

\* Then the handlers that still run are cancelled, and awaited.
StopTasks ==
    /\ closer = "sender" /\ sender # "running"
    /\ closer' = "tasks"
    /\ supervisor_closed' = TRUE
    /\ UNCHANGED <<callVars, taskVars, outbox, queue, queue_closed, incomingVars, lost>>

Handling(n) == incoming[n] \in {"request", "notice", "replying"}

\* Mutant: the record of a cancelled request gets a status of its own.
WrongHandlerCancelled(n) ==
    /\ supervisor_closed
    /\ Handling(n)
    /\ SetIncoming(n, "cancelled")
    /\ status' = [status EXCEPT ![n] = "cancelled"]
    /\ UNCHANGED <<callVars, taskVars, outbox, queue, queue_closed, replies,
                   supervisor_closed, closer, lost>>

HandlerCancelled(n) ==
    /\ supervisor_closed
    /\ Handling(n)
    /\ SetIncoming(n, "cancelled")
    /\ UNCHANGED <<callVars, taskVars, outbox, queue, queue_closed, status, replies,
                   supervisor_closed, closer, lost>>

FinishClose ==
    /\ closer = "tasks"
    /\ \A n \in Incoming : ~Handling(n)
    /\ closer' = "closed"
    /\ RejectAll
    /\ UNCHANGED <<next_request_id, answer, peer, taskVars, outbox, queue, queue_closed,
                   incomingVars, supervisor_closed, lost>>

\* close() is cancelled: the task it awaits is, and both cancellations are swallowed.
CancelClose ==
    /\ \/ /\ closer = "dispatcher" /\ dispatcher = "running"
          /\ dispatcher' = "ended"
          /\ UNCHANGED sender
       \/ /\ closer = "sender" /\ sender = "running"
          /\ sender' = "failed"
          /\ UNCHANGED dispatcher
    /\ UNCHANGED <<callVars, receiver, outbox, queue, queue_closed, incomingVars,
                   supervisor_closed, closer, lost>>

-----------------------------------------------------------------------------
Caller(c) == SendRequest(c) \/ SendRequestFails(c) \/ SendNotification(c) \/ CancelCall(c)

Sender == WriteCall \/ WriteReply \/ WriteCallFails \/ WriteReplyFails \/ SenderEnds

Receiver ==
    \/ \E m \in peer, kind \in {"result", "bare_error", "error"} : ReceiveResponse(m, kind)
    \/ \E n \in Incoming, kind \in {"queued_request", "queued_notice"} : Receive(n, kind)
    \/ StreamEnds \/ StreamFails

Dispatcher == Dispatch \/ DispatcherEnds

Handler(n) ==
    \/ \E kind \in {"result", "error"} : Reply(n, kind)
    \/ ReplyFails(n) \/ NoticeHandled(n) \/ HandlerCancelled(n)

Closer == Close \/ StopDispatcher \/ StopSender \/ StopTasks \/ FinishClose

Next ==
    \/ \E c \in Call : Caller(c)
    \/ Sender \/ Receiver \/ Dispatcher
    \/ \E n \in Incoming : Handler(n)
    \/ Closer \/ CancelClose

Spec == Init /\ [][Next]_vars

\* The connection's tasks run when they can, the writer accepts or refuses what it is
\* given, and handlers return, raise or, when cancelled, end.
Fairness ==
    /\ WF_vars(Sender)
    /\ WF_vars(Dispatcher)
    /\ WF_vars(StopDispatcher \/ StopSender \/ StopTasks \/ FinishClose)
    /\ \A n \in Incoming : WF_vars(Handler(n))

FairSpec == Spec /\ Fairness

-----------------------------------------------------------------------------
(***************************************************************************)
(* Properties.                                                             *)
(***************************************************************************)
Registered(c) == \E r \in outgoing : r.call = c

\* A request returns with the peer's answer to it, in whatever order answers come,
\* also when requests were cancelled or answered twice.
OwnAnswer == \A c \in Call : answer[c] \in {c, None}

\* A request that waits for its answer has a record under an id of its own: only so
\* can an answer, a broken stream or the end of close() wake it.
WaitersRegistered ==
    /\ \A c \in Call : call[c] = "awaiting" => Registered(c)
    /\ \A r, s \in outgoing : r.id = s.id => r = s

\* The peer gets at most one answer to a request and none to a notification, and the
\* record of a request says what the peer was told.
RepliesMatchRecords ==
    \A n \in Incoming :
        /\ Len(replies[n]) <= 1
        /\ status[n] = "none" => replies[n] = <<>>
        /\ status[n] = "completed" <=> replies[n] = <<"result">>
        /\ replies[n] = <<"error">> => status[n] = "failed"

\* Nothing is published to the closed queue, and no task is created after the last
\* sweep (issue #320); a closed connection has no task left, and no request that was
\* written waits for an answer that nobody would read.
OrderlyClose ==
    /\ lost = {}
    /\ closer = "closed" =>
         /\ receiver = "ended" /\ dispatcher = "ended" /\ sender # "running"
         /\ \A n \in Incoming : ~Handling(n)
         /\ \A c \in Call : call[c] # "awaiting"

\* close() ends, also when a failed writer left handlers waiting.
CloseEnds == closer = "receiver" ~> closer = "closed"

\* close() flushes: an answer that was queued before the sender was told to stop is
\* written, unless the writer fails or close() is cancelled.
QueuedAnswersAreWritten ==
    \A n \in Incoming :
        (incoming[n] = "replying" /\ closer \in {"open", "receiver", "dispatcher"})
            ~> (replies[n] # <<>> \/ sender = "failed")
=============================================================================
