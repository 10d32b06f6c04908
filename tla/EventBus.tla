------------------------------ MODULE EventBus ------------------------------
(***************************************************************************)
(* The event bus between sessions and the consumers of their events        *)
(* (orchestrator/event_bus.py): bounded subscriber queues with an overflow *)
(* policy, replay buffers, resumption from the last event a consumer saw.  *)
(*                                                                         *)
(* No critical section of the bus suspends, so its lock is never contended *)
(* and subscribe, unsubscribe, publish and close_session are each one step *)
(* of the event loop.  What interleaves is the reading of the queues.      *)
(*                                                                         *)
(* An event is identified by its event_id, its position in log.            *)
(***************************************************************************)
EXTENDS Naturals, FiniteSets, Sequences, SequencesExt

CONSTANTS
    Session,          \* session identifiers
    Client,           \* consumers; each has one subscription at a time
    Profiles,         \* what a client may subscribe to
    Inputs,           \* the events producers may publish
    Parent,           \* the session tree: Session -> Session or NoParent
    NoParent,
    max_queue_size,
    replay_buffer_size,
    MaxEvents         \* bound: events published in a behaviour

Scope  == {"session", "descendants", "subtree", "all"}
Policy == {"drop_oldest", "drop_newest", "drop_subscriber"}
Hint   == {"none", "bridge"}
Source == [sid : Session, hint : Hint]
Profile == [sid : Session, scope : Scope, exclude : SUBSET (Hint \ {"none"})]

ASSUME BusAssumption ==
    /\ NoParent \notin Session
    /\ Parent \in [Session -> Session \cup {NoParent}]
    /\ Profiles \subseteq Profile
    /\ Inputs \subseteq Source
    /\ max_queue_size \in Nat \ {0}
    /\ replay_buffer_size \in Nat \ {0}
    /\ MaxEvents \in Nat

VARIABLES
    policy,       \* overflow_policy
    profile,      \* client -> the arguments of its subscriptions
    log,          \* every event published so far
    replay,       \* session -> ids in its replay buffer, oldest first
    buffers,      \* the keys of _replay_buffers, in order of insertion
    subscribers,  \* the clients with an entry in _subscribers
    queue,        \* client -> ids in its queue
    shut,         \* the clients whose queue is shut down
    reading,      \* the clients that read their queue
    received,     \* client -> ids it has read, over all resumed subscriptions
    since         \* client -> id of the last event before its subscription

busVars == <<log, replay, buffers, subscribers, shut>>
vars == <<policy, profile, busVars, queue, reading, received, since>>

Id == 1..MaxEvents

TypeOK ==
    /\ policy \in Policy
    /\ profile \in [Client -> Profiles]
    /\ log \in Seq(Inputs)
    /\ Len(log) <= MaxEvents
    /\ replay \in [Session -> Seq(1..Len(log))]
    /\ \A s \in Session : Len(replay[s]) <= replay_buffer_size
    /\ buffers \in Seq(Session)
    /\ ToSet(buffers) = {s \in Session : replay[s] # <<>>}
    /\ subscribers \subseteq Client
    /\ queue \in [Client -> Seq(1..Len(log))]
    /\ \A c \in Client : Len(queue[c]) <= max_queue_size
    /\ shut \subseteq Client
    /\ reading \subseteq Client
    /\ received \in [Client -> Seq(1..Len(log))]
    /\ since \in [Client -> 0..Len(log)]

Init ==
    /\ policy \in Policy
    /\ profile \in [Client -> Profiles]
    /\ log = <<>>
    /\ replay = [s \in Session |-> <<>>]
    /\ buffers = <<>>
    /\ subscribers = {}
    /\ queue = [c \in Client |-> <<>>]
    /\ shut = {}
    /\ reading = {}
    /\ received = [c \in Client |-> <<>>]
    /\ since = [c \in Client |-> 0]

-----------------------------------------------------------------------------
(***************************************************************************)
(* Who receives what.                                                      *)
(***************************************************************************)

\* _is_descendant: there is a path of parents from child up to ancestor.
IsDescendant(child, ancestor) ==
    \E n \in 1..Cardinality(Session) : \E path \in [0..n -> Session] :
        /\ path[0] = child
        /\ path[n] = ancestor
        /\ \A i \in 1..n : path[i] = Parent[path[i - 1]]

AreSiblings(s, t) == Parent[s] # NoParent /\ Parent[s] = Parent[t]

ShouldReceive(published, subscriber, scope) ==
    \/ published = subscriber
    \/ scope = "descendants" /\ IsDescendant(published, subscriber)
    \/ scope = "subtree" /\ (published = Parent[subscriber] \/ AreSiblings(published, subscriber))
    \/ scope = "all"

Excluded(c, event) == event.hint \in profile[c].exclude

\* The clients of session s.
SubscribersOf(s) == {c \in subscribers : profile[c].sid = s}

-----------------------------------------------------------------------------
(***************************************************************************)
(* subscribe and the replayed history.                                     *)
(***************************************************************************)

\* The elements of the sequence that are in the set, in their order.
Keep(seq, set) ==
    LET kept[n \in 0..Len(seq)] ==
            IF n = 0 THEN <<>>
            ELSE IF seq[n] \in set THEN Append(kept[n - 1], seq[n])
            ELSE kept[n - 1]
    IN kept[Len(seq)]

\* The collected history: one buffer, or all of them one after the other.
Collected(c) ==
    IF profile[c].scope = "all"
    THEN FlattenSeq([i \in DOMAIN buffers |-> replay[buffers[i]]])
    ELSE replay[profile[c].sid]

\* Events after last_event_id; everything if the oldest one shows a gap.
WrongAfter(history, last_event_id) == Keep(history, {i \in DOMAIN log : i >= last_event_id})
WrongAfterNext(history, last_event_id) == Keep(history, {i \in DOMAIN log : i > last_event_id + 1})
After(history, last_event_id) ==
    IF history # <<>> /\ history[1] > last_event_id + 1
    THEN history
    ELSE Keep(history, {i \in DOMAIN log : i > last_event_id})

WrongNotExcluded(c, history) == history
NotExcluded(c, history) == Keep(history, {i \in DOMAIN log : ~Excluded(c, log[i])})

\* put_nowait until the queue is full.
Fill(history) == SubSeq(history, 1, IF Len(history) < max_queue_size
                                    THEN Len(history) ELSE max_queue_size)

Connect(c, history, got) ==
    /\ c \notin reading
    /\ subscribers' = subscribers \cup {c}
    /\ shut' = shut \ {c}
    /\ reading' = reading \cup {c}
    /\ queue' = [queue EXCEPT ![c] = Fill(NotExcluded(c, history))]
    /\ received' = [received EXCEPT ![c] = got]
    /\ since' = [since EXCEPT ![c] = Len(log)]
    /\ UNCHANGED <<policy, profile, log, replay, buffers>>

\* subscribe(replay=False) and subscribe(replay=True).
Subscribe(c) == \E history \in {<<>>, Collected(c)} : Connect(c, history, <<>>)

\* subscribe(last_event_id=...) with the last id the client has seen.
Resume(c) ==
    /\ received[c] # <<>>
    /\ Connect(c, After(Collected(c), Last(received[c])), received[c])

\* The queue is shut down; its reader may go on to read what is left in it.
WrongUnsubscribe(c) ==
    /\ c \in reading \cap subscribers
    /\ subscribers' = subscribers \ {c}
    /\ UNCHANGED <<policy, profile, log, replay, buffers, shut, reading, queue, received, since>>

Unsubscribe(c) ==
    /\ c \in reading \cap subscribers
    /\ subscribers' = subscribers \ {c}
    /\ shut' = shut \cup {c}
    /\ reading' \in {reading, reading \ {c}}
    /\ UNCHANGED <<policy, profile, log, replay, buffers, queue, received, since>>

-----------------------------------------------------------------------------
(***************************************************************************)
(* publish.                                                                *)
(***************************************************************************)

\* deque(maxlen=replay_buffer_size).append
WrongRemember(buffer, id) == Append(buffer, id)
Remember(buffer, id) ==
    IF Len(buffer) = replay_buffer_size THEN Append(Tail(buffer), id) ELSE Append(buffer, id)

Targets(event) ==
    {c \in subscribers : ~Excluded(c, event)
                            /\ ShouldReceive(event.sid, profile[c].sid, profile[c].scope)}

Full(c) == Len(queue[c]) = max_queue_size

\* _enqueue returns False: the queue is shut down, or full and not to be relieved.
WrongDead(c) == c \in shut
Dead(c) == c \in shut \/ (policy = "drop_subscriber" /\ Full(c))

Enqueued(c, id) ==
    IF Dead(c) THEN queue[c]
    ELSE IF ~Full(c) THEN Append(queue[c], id)
    ELSE IF policy = "drop_oldest" THEN Append(Tail(queue[c]), id)
    ELSE queue[c]

WrongRemoveDead(dead) == subscribers' = subscribers \ dead /\ UNCHANGED shut
RemoveDead(dead) == subscribers' = subscribers \ dead /\ shut' = shut \cup dead

Publish(event) ==
    LET id == Len(log) + 1
        targets == Targets(event)
    IN /\ id <= MaxEvents
       /\ log' = Append(log, event)
       /\ replay' = [replay EXCEPT ![event.sid] = Remember(@, id)]
       /\ buffers' = IF Contains(buffers, event.sid) THEN buffers
                     ELSE Append(buffers, event.sid)
       /\ queue' = [c \in Client |-> IF c \in targets THEN Enqueued(c, id) ELSE queue[c]]
       /\ RemoveDead({c \in targets : Dead(c)})
       /\ UNCHANGED <<policy, profile, reading, received, since>>

-----------------------------------------------------------------------------
(***************************************************************************)
(* The end of a turn's history or of a session.                            *)
(***************************************************************************)

Forget(s) ==
    /\ replay' = [replay EXCEPT ![s] = <<>>]
    /\ buffers' = Keep(buffers, Session \ {s})

ClearReplayBuffer(s) ==
    /\ replay[s] # <<>>
    /\ Forget(s)
    /\ UNCHANGED <<policy, profile, log, subscribers, queue, shut, reading, received, since>>

CloseSession(s) ==
    /\ Forget(s)
    /\ RemoveDead(SubscribersOf(s))
    /\ UNCHANGED <<policy, profile, log, queue, reading, received, since>>

-----------------------------------------------------------------------------
(***************************************************************************)
(* A client reads its queue: queue.get().                                  *)
(***************************************************************************)

Read(c) ==
    /\ c \in reading
    /\ queue[c] # <<>>
    /\ received' = [received EXCEPT ![c] = Append(@, Head(queue[c]))]
    /\ queue' = [queue EXCEPT ![c] = Tail(@)]
    /\ UNCHANGED <<policy, profile, busVars, reading, since>>

\* QueueShutDown: only once what was queued has been read.
EndOfStream(c) ==
    /\ c \in reading \cap shut
    /\ queue[c] = <<>>
    /\ reading' = reading \ {c}
    /\ UNCHANGED <<policy, profile, busVars, queue, received, since>>

Next ==
    \/ \E c \in Client :
          Subscribe(c) \/ Resume(c) \/ Unsubscribe(c) \/ Read(c) \/ EndOfStream(c)
    \/ \E event \in Inputs : Publish(event)
    \/ \E s \in Session : ClearReplayBuffer(s) \/ CloseSession(s)

Spec == Init /\ [][Next]_vars

\* A reader that waits for an event is resumed when there is one, or the end.
Fairness == \A c \in Client : WF_vars(Read(c) \/ EndOfStream(c))
FairSpec == Spec /\ Fairness

-----------------------------------------------------------------------------
(***************************************************************************)
(* Properties.                                                             *)
(***************************************************************************)

Stream(c) == received[c] \o queue[c]

Increasing(s) == \A i, j \in DOMAIN s : i < j => s[i] < s[j]

\* A consumer sees the events of a bus in the order of their ids and none
\* twice, also over an overflow and when it resumes where it stopped.
StreamsInOrder ==
    \A c \in Client : profile[c].scope # "all" => Increasing(Stream(c))

\* A client gets event i: of its scope, and not excluded.
Asked(c, i) ==
    /\ ~Excluded(c, log[i])
    /\ ShouldReceive(log[i].sid, profile[c].sid, profile[c].scope)

\* The live events of a subscription.
Live(c) == {i \in since[c] + 1..Len(log) : Asked(c, i)}

\* Nothing a client excludes, or of a session out of its scope, reaches it, neither live
\* nor from a replay buffer.  A consumer that stays subscribed misses nothing of the rest
\* under drop_subscriber, and under drop_oldest never the newest event, which may be the
\* terminal one.
SubscribedGetsEvents ==
    /\ \A c \in Client : \A i \in ToSet(Stream(c)) : Asked(c, i)
    /\ \A c \in subscribers \ shut :
          /\ policy = "drop_subscriber" => Live(c) \subseteq ToSet(Stream(c))
          /\ policy = "drop_oldest" =>
                \A i \in Live(c) : i \in ToSet(Stream(c)) \/ \E j \in ToSet(Stream(c)) : j > i

\* Nobody reads a queue that is fed by no subscription and not shut down: a
\* consumer that was removed, or whose session was closed, learns of it.
NoReaderStranded == reading \subseteq subscribers \cup shut

\* A consumer that resumes gets every later event its session's buffer holds.
ResumeMissesNothing ==
    [][\A c \in Client :
          c \in reading' \ reading /\ received'[c] # <<>> =>
              {i \in ToSet(replay[profile[c].sid]) :
                  i > Last(received[c]) /\ ~Excluded(c, log[i])}
                 \subseteq ToSet(queue'[c])]_vars

\* A consumer that is no longer subscribed comes to its end, whatever is left
\* in its queue.
ReadersEnd == \A c \in Client : c \in reading \ subscribers ~> c \notin reading
=============================================================================
