------------------------- MODULE AcpConnectionProofs -------------------------
(***************************************************************************)
(* Theorems about AcpConnection, for every set of outgoing calls and of    *)
(* messages of the peer.                                                   *)
(***************************************************************************)
EXTENDS AcpConnection, SequenceTheorems, TLAPS

-----------------------------------------------------------------------------
(***************************************************************************)
(* The inductive invariant.                                                *)
(***************************************************************************)
ItemsOf(q) == {q[i] : i \in DOMAIN q} \ {End}

\* No caller and no handler has two items in q.
OneItemEach(q) ==
    \A i, j \in DOMAIN q : q[i] # End /\ q[j] # End /\ q[i].of = q[j].of => i = j

CallKinds == {"request", "notification"}

OutboxIsTyped ==
    /\ OneItemEach(outbox)
    /\ \A x \in ItemsOf(outbox) :
         IF x.kind \in CallKinds THEN x.of \in Call ELSE x.of \in Incoming

\* Every record of an outgoing request that was made up to now.
Issued ==
    outgoing \cup peer
    \cup {[id |-> x.id, call |-> x.of] : x \in {y \in ItemsOf(outbox) : y.kind = "request"}}

\* An id belongs to one call, wherever it shows up.
IdsAreIssuedOnce ==
    /\ \A r \in Issued : r.id < next_request_id
    /\ \A r, s \in Issued : r.id = s.id => r.call = s.call

\* What a call has left in the outbox, in the store and with the peer.
CallIsConsistent(c) ==
    /\ answer[c] \in {c, None}
    /\ call[c] = "idle" => \A x \in ItemsOf(outbox) : x.of # c
    /\ call[c] = "awaiting" => Registered(c)
    /\ (call[c] = "sending" /\ \E x \in ItemsOf(outbox) : x.of = c /\ x.kind = "request")
          => Registered(c)
    /\ (\E m \in peer : m.call = c) => call[c] \notin {"idle", "sending", "dropped"}

CallsAreConsistent == \A c \in Call : CallIsConsistent(c)

\* The dispatcher's queue holds messages that no handler has seen, each once.
QueueIsTyped ==
    /\ \A i \in DOMAIN queue : queue[i] # End => incoming[queue[i]] \in {"queued_request", "queued_notice"}
    /\ \A i, j \in DOMAIN queue : queue[i] # End /\ queue[i] = queue[j] => i = j

\* The record of message n and its replies, by where n is.
MessageIsConsistent(n) ==
    /\ Len(replies[n]) <= 1
    /\ status[n] = "none" => replies[n] = <<>>
    /\ status[n] = "completed" <=> replies[n] = <<"result">>
    /\ replies[n] = <<"error">> => status[n] = "failed"
    /\ incoming[n] \in {"unsent", "queued_request", "queued_notice", "notice"} =>
          replies[n] = <<>> /\ status[n] \in {"none", "pending"}
    /\ incoming[n] \in {"request", "replying"} => replies[n] = <<>> /\ status[n] = "pending"
    /\ (\E x \in ItemsOf(outbox) : x.of = n) =>
          /\ incoming[n] \in {"replying", "cancelled"}
          /\ replies[n] = <<>> /\ status[n] = "pending"

MessagesAreConsistent == \A n \in Incoming : MessageIsConsistent(n)

\* What each stage of close() has seen to.
StagesAreOrdered ==
    /\ closer # "open" => receiver = "ended"
    /\ queue_closed => closer \notin {"open", "receiver"}
    /\ closer \in {"sender", "tasks", "closed"} => dispatcher = "ended"
    /\ supervisor_closed => closer \in {"tasks", "closed"}
    /\ closer \in {"tasks", "closed"} => sender # "running"
    /\ closer = "closed" =>
         /\ \A n \in Incoming : ~Handling(n)
         /\ \A c \in Call : call[c] # "awaiting"
    /\ lost = {}

ConnectionInv ==
    /\ TypeOK
    /\ OutboxIsTyped
    /\ IdsAreIssuedOnce
    /\ CallsAreConsistent
    /\ QueueIsTyped
    /\ MessagesAreConsistent
    /\ StagesAreOrdered

-----------------------------------------------------------------------------
(***************************************************************************)
(* Queues.                                                                 *)
(***************************************************************************)

\* An item of one who has none in q, or the sentinel, is put at the end.
LEMMA AddItem ==
    ASSUME NEW S, NEW q \in Seq(S), NEW x \in S, OneItemEach(q),
           x # End => \A y \in ItemsOf(q) : y.of # x.of
    PROVE  /\ Append(q, x) \in Seq(S)
           /\ OneItemEach(Append(q, x))
           /\ ItemsOf(Append(q, x)) \subseteq (ItemsOf(q) \cup {x}) \ {End}
<1> DEFINE p == Append(q, x)
<1>1. /\ p \in Seq(S) /\ Len(p) = Len(q) + 1 /\ Len(q) \in Nat
      /\ \A i \in 1..Len(q) : p[i] = q[i]
      /\ p[Len(q) + 1] = x
  BY AppendProperties
<1>2. DOMAIN q = 1..Len(q) /\ DOMAIN p = 1..(Len(q) + 1)
  BY <1>1
<1> HIDE DEF p
<1>3. ASSUME NEW i \in DOMAIN p PROVE (i \in DOMAIN q /\ p[i] = q[i]) \/ (i = Len(q) + 1 /\ p[i] = x)
  BY <1>1, <1>2
<1>4. ItemsOf(p) \subseteq (ItemsOf(q) \cup {x}) \ {End}
  BY <1>3 DEF ItemsOf
<1>5. ASSUME NEW i \in DOMAIN p, NEW j \in DOMAIN p, p[i] # End, p[j] # End, p[i].of = p[j].of
      PROVE  i = j
  <2>1. CASE i \in DOMAIN q /\ p[i] = q[i] /\ j \in DOMAIN q /\ p[j] = q[j]
    BY <1>5, <2>1 DEF OneItemEach
  <2>2. CASE i \in DOMAIN q /\ p[i] = q[i] /\ j = Len(q) + 1 /\ p[j] = x
    BY <1>5, <2>2 DEF ItemsOf
  <2>3. CASE i = Len(q) + 1 /\ p[i] = x /\ j \in DOMAIN q /\ p[j] = q[j]
    BY <1>5, <2>3 DEF ItemsOf
  <2>4. CASE i = Len(q) + 1 /\ j = Len(q) + 1
    BY <2>4
  <2>. QED
    BY <1>3, <2>1, <2>2, <2>3, <2>4
<1>6. OneItemEach(p)
  BY <1>5 DEF OneItemEach
<1>. QED
  BY <1>1, <1>4, <1>6 DEF p

\* The head of q is taken: its owner has no other item.
LEMMA TakeItem ==
    ASSUME NEW S, NEW q \in Seq(S), q # <<>>, OneItemEach(q)
    PROVE  /\ Head(q) \in S
           /\ Tail(q) \in Seq(S)
           /\ OneItemEach(Tail(q))
           /\ ItemsOf(Tail(q)) \subseteq ItemsOf(q)
           /\ Head(q) # End => /\ Head(q) \in ItemsOf(q)
                               /\ \A y \in ItemsOf(Tail(q)) : y.of # Head(q).of
<1> DEFINE p == Tail(q)
<1>1. /\ Head(q) \in S /\ p \in Seq(S) /\ Len(p) = Len(q) - 1
      /\ \A i \in 1..Len(p) : p[i] = q[i + 1]
  BY HeadTailProperties
<1>2. /\ Len(q) \in Nat \ {0} /\ DOMAIN q = 1..Len(q) /\ DOMAIN p = 1..(Len(q) - 1)
  BY <1>1, EmptySeq
<1>3. Head(q) = q[1] /\ 1 \in DOMAIN q
  BY <1>2
<1> HIDE DEF p
<1>4. ASSUME NEW i \in DOMAIN p PROVE i + 1 \in DOMAIN q /\ p[i] = q[i + 1] /\ i + 1 # 1
  BY <1>1, <1>2
<1>5. ItemsOf(p) \subseteq ItemsOf(q)
  BY <1>4 DEF ItemsOf
<1>6. ASSUME NEW i \in DOMAIN p, NEW j \in DOMAIN p, p[i] # End, p[j] # End, p[i].of = p[j].of
      PROVE  i = j
  <2>1. i + 1 = j + 1
    BY <1>4, <1>6 DEF OneItemEach
  <2>. QED
    BY <2>1, <1>2
<1>7. OneItemEach(p)
  BY <1>6 DEF OneItemEach
<1>8. ASSUME Head(q) # End, NEW y \in ItemsOf(p) PROVE y.of # Head(q).of
  <2>1. PICK i \in DOMAIN p : y = p[i] /\ p[i] # End
    BY DEF ItemsOf
  <2>. QED
    BY <1>3, <1>4, <1>8, <2>1 DEF OneItemEach
<1>9. Head(q) # End => Head(q) \in ItemsOf(q)
  BY <1>3 DEF ItemsOf
<1>. QED
  BY <1>1, <1>5, <1>7, <1>8, <1>9 DEF p

\* What the items of the outbox are.
LEMMA ItemTypes ==
    ASSUME TypeOK
    PROVE  /\ outbox \in Seq(Item \cup {End})
           /\ ItemsOf(outbox) \subseteq Item
           /\ outbox # <<>> /\ NextItem # End => NextItem \in Item
<1>1. outbox \in Seq(Item \cup {End})
  BY DEF TypeOK
<1>2. ItemsOf(outbox) \subseteq Item
  BY <1>1 DEF ItemsOf
<1>3. outbox # <<>> => NextItem \in Item \cup {End}
  BY <1>1, HeadTailProperties DEF NextItem
<1>. QED
  BY <1>1, <1>2, <1>3

\* The head of the outbox is taken.
LEMMA ItemTaken ==
    ASSUME TypeOK, OutboxIsTyped, outbox # <<>>, outbox' = Tail(outbox)
    PROVE  /\ outbox' \in Seq(Item \cup {End})
           /\ OutboxIsTyped'
           /\ ItemsOf(outbox') \subseteq ItemsOf(outbox)
           /\ NextItem # End => /\ NextItem \in Item
                                /\ NextItem \in ItemsOf(outbox)
                                /\ \A y \in ItemsOf(outbox') : y.of # NextItem.of
<1>1. /\ outbox' \in Seq(Item \cup {End})
      /\ OneItemEach(outbox')
      /\ ItemsOf(outbox') \subseteq ItemsOf(outbox)
      /\ NextItem # End => /\ NextItem \in ItemsOf(outbox)
                           /\ \A y \in ItemsOf(outbox') : y.of # NextItem.of
  BY TakeItem DEF TypeOK, OutboxIsTyped, NextItem
<1>2. NextItem # End => NextItem \in Item
  BY ItemTypes
<1>3. OutboxIsTyped'
  BY <1>1 DEF OutboxIsTyped
<1>. QED
  BY <1>1, <1>2, <1>3

\* A caller or a handler that has nothing in the outbox queues an item.
LEMMA ItemQueued ==
    ASSUME TypeOK, OutboxIsTyped, NEW x \in Item,
           IF x.kind \in CallKinds THEN x.of \in Call ELSE x.of \in Incoming,
           \A y \in ItemsOf(outbox) : y.of # x.of,
           outbox' = Append(outbox, x)
    PROVE  /\ outbox' \in Seq(Item \cup {End})
           /\ OutboxIsTyped'
           /\ ItemsOf(outbox') \subseteq ItemsOf(outbox) \cup {x}
<1>1. /\ outbox' \in Seq(Item \cup {End})
      /\ OneItemEach(outbox')
      /\ ItemsOf(outbox') \subseteq (ItemsOf(outbox) \cup {x}) \ {End}
  <2>1. outbox \in Seq(Item \cup {End}) /\ OneItemEach(outbox) /\ x \in Item \cup {End}
    BY DEF TypeOK, OutboxIsTyped
  <2>2. /\ Append(outbox, x) \in Seq(Item \cup {End})
        /\ OneItemEach(Append(outbox, x))
        /\ ItemsOf(Append(outbox, x)) \subseteq (ItemsOf(outbox) \cup {x}) \ {End}
    BY <2>1, AddItem
  <2>. QED
    BY <2>2
<1>2. OutboxIsTyped'
  BY <1>1 DEF OutboxIsTyped
<1>. QED
  BY <1>1, <1>2

\* The sender is told to stop.
LEMMA EndQueued ==
    ASSUME TypeOK, OutboxIsTyped, outbox' = Append(outbox, End)
    PROVE  /\ outbox' \in Seq(Item \cup {End})
           /\ OutboxIsTyped'
           /\ ItemsOf(outbox') \subseteq ItemsOf(outbox)
<1>1. /\ outbox' \in Seq(Item \cup {End})
      /\ OneItemEach(outbox')
      /\ ItemsOf(outbox') \subseteq (ItemsOf(outbox) \cup {End}) \ {End}
  <2>1. outbox \in Seq(Item \cup {End}) /\ OneItemEach(outbox) /\ End \in Item \cup {End}
    BY DEF TypeOK, OutboxIsTyped
  <2>2. /\ Append(outbox, End) \in Seq(Item \cup {End})
        /\ OneItemEach(Append(outbox, End))
        /\ ItemsOf(Append(outbox, End)) \subseteq (ItemsOf(outbox) \cup {End}) \ {End}
    BY <2>1, AddItem
  <2>. QED
    BY <2>2
<1>2. OutboxIsTyped'
  BY <1>1 DEF OutboxIsTyped
<1>. QED
  BY <1>1, <1>2

-----------------------------------------------------------------------------
(***************************************************************************)
(* What a step that does not concern a conjunct leaves of it.              *)
(***************************************************************************)
\* Every item that is new in the outbox was put there by a handler.
OnlyReplies == \A x \in ItemsOf(outbox') : x \in ItemsOf(outbox) \/ x.of \in Incoming

\* Every item that is new in the outbox was put there by a caller.
OnlyCalls == \A x \in ItemsOf(outbox') : x \in ItemsOf(outbox) \/ x.of \in Call

LEMMA IssuedTypes ==
    ASSUME TypeOK, OutboxIsTyped
    PROVE  Issued \subseteq Record
<1>1. \A x \in ItemsOf(outbox) : x.kind = "request" => x.of \in Call /\ x.id \in Nat
  BY ItemTypes DEF OutboxIsTyped, CallKinds, Item, Id
<1>. QED
  BY <1>1 DEF TypeOK, Issued, Record, Id

LEMMA IssuedShrinks ==
    ASSUME IdsAreIssuedOnce, next_request_id' = next_request_id, Issued' \subseteq Issued
    PROVE  IdsAreIssuedOnce'
  BY DEF IdsAreIssuedOnce

LEMMA IdsStay ==
    ASSUME OutboxIsTyped, OutboxIsTyped', IdsAreIssuedOnce, OnlyReplies, UNCHANGED callVars
    PROVE  IdsAreIssuedOnce'
<1>1. \A x \in ItemsOf(outbox') : x.kind = "request" => x \in ItemsOf(outbox)
  BY DistinctNames DEF OutboxIsTyped, OnlyReplies, CallKinds
<1>2. Issued' \subseteq Issued
  BY <1>1 DEF Issued, callVars
<1>. QED
  BY <1>2, IssuedShrinks DEF callVars

LEMMA CallsStay ==
    ASSUME CallsAreConsistent, OnlyReplies, UNCHANGED callVars
    PROVE  CallsAreConsistent'
<1> SUFFICES ASSUME NEW c \in Call PROVE CallIsConsistent(c)'
  BY DEF CallsAreConsistent
<1>1. CallIsConsistent(c)
  BY DEF CallsAreConsistent
<1>2. \A x \in ItemsOf(outbox') : x.of = c => x \in ItemsOf(outbox)
  BY DistinctNames DEF OnlyReplies
<1>. QED
  BY <1>1, <1>2 DEF CallIsConsistent, Registered, callVars

LEMMA MessagesStay ==
    ASSUME MessagesAreConsistent, OnlyCalls, UNCHANGED incomingVars
    PROVE  MessagesAreConsistent'
<1> SUFFICES ASSUME NEW n \in Incoming PROVE MessageIsConsistent(n)'
  BY DEF MessagesAreConsistent
<1>1. MessageIsConsistent(n)
  BY DEF MessagesAreConsistent
<1>2. \A x \in ItemsOf(outbox') : x.of = n => x \in ItemsOf(outbox)
  BY DistinctNames DEF OnlyCalls
<1>. QED
  BY <1>1, <1>2 DEF MessageIsConsistent, incomingVars

LEMMA QueueStays ==
    ASSUME TypeOK, QueueIsTyped, queue' = queue,
           \A n \in Incoming : incoming[n] \in {"queued_request", "queued_notice"}
                                  => incoming'[n] = incoming[n]
    PROVE  QueueIsTyped'
<1>1. \A i \in DOMAIN queue : queue[i] # End => queue[i] \in Incoming
  BY DEF TypeOK
<1>. QED
  BY <1>1 DEF QueueIsTyped

-----------------------------------------------------------------------------
(***************************************************************************)
(* The callers.                                                            *)
(***************************************************************************)
LEMMA InvInit == Init => ConnectionInv
<1> SUFFICES ASSUME Init PROVE ConnectionInv
  OBVIOUS
<1>1. ItemsOf(outbox) = {} /\ outgoing = {} /\ peer = {}
  BY DEF Init, ItemsOf
<1>2. TypeOK
  <2>1. outbox \in Seq(Item \cup {End}) /\ queue \in Seq(Incoming \cup {End})
    BY DEF Init
  <2>2. call \in [Call -> CallStates] /\ answer \in [Call -> Call \cup {None}]
    BY DEF Init, CallStates
  <2>3. /\ incoming \in [Incoming -> IncomingStates]
        /\ status \in [Incoming -> {"none", "pending", "completed", "failed"}]
        /\ replies \in [Incoming -> Seq({"result", "error"})]
    BY DEF Init, IncomingStates
  <2>4. closer \in Stages /\ queue_closed \in BOOLEAN /\ supervisor_closed \in BOOLEAN
    BY DEF Init, Stages
  <2>. QED
    BY <2>1, <2>2, <2>3, <2>4 DEF Init, TypeOK
<1>3. OutboxIsTyped
  BY <1>1 DEF Init, OutboxIsTyped, OneItemEach
<1>4. IdsAreIssuedOnce
  BY <1>1 DEF IdsAreIssuedOnce, Issued
<1>5. CallsAreConsistent
  BY <1>1 DEF Init, CallsAreConsistent, CallIsConsistent
<1>6. QueueIsTyped
  BY DEF Init, QueueIsTyped
<1>7. MessagesAreConsistent
  BY <1>1 DEF Init, MessagesAreConsistent, MessageIsConsistent
<1>8. StagesAreOrdered
  BY DEF Init, StagesAreOrdered
<1>. QED
  BY <1>2, <1>3, <1>4, <1>5, <1>6, <1>7, <1>8 DEF ConnectionInv

\* A new record has an id that nobody has.
LEMMA RegisterIds ==
    ASSUME TypeOK, OutboxIsTyped, IdsAreIssuedOnce, NEW c \in Call, Register(c), peer' = peer,
           \A x \in ItemsOf(outbox') :
              \/ x \in ItemsOf(outbox)
              \/ x = [kind |-> "request", of |-> c, id |-> next_request_id]
    PROVE  /\ IdsAreIssuedOnce'
           /\ next_request_id' \in Nat
           /\ outgoing' \subseteq Record
<1> DEFINE r0 == [id |-> next_request_id, call |-> c]
<1>1. r0 \in Record /\ next_request_id \in Nat /\ next_request_id' = next_request_id + 1
  BY DEF TypeOK, Record, Id, Register
<1>2. outgoing' = outgoing \cup {r0}
  BY DEF Register
<1>3. Issued' \subseteq Issued \cup {r0}
  BY <1>2 DEF Issued
<1>4. \A r \in Issued : r.id \in Nat /\ r.id < next_request_id
  BY IssuedTypes DEF Record, Id, IdsAreIssuedOnce
<1>5. r0.id = next_request_id
  OBVIOUS
<1> HIDE DEF r0
<1>6. \A r \in Issued' : r.id < next_request_id'
  BY <1>1, <1>3, <1>4, <1>5
<1>7. ASSUME NEW r \in Issued', NEW s \in Issued', r.id = s.id PROVE r.call = s.call
  <2>1. CASE r \in Issued /\ s \in Issued
    BY <1>7, <2>1 DEF IdsAreIssuedOnce
  <2>2. CASE r = r0 /\ s = r0
    BY <2>2
  <2>3. ~(r \in Issued /\ s = r0) /\ ~(r = r0 /\ s \in Issued)
    BY <1>1, <1>4, <1>5, <1>7
  <2>. QED
    BY <1>3, <2>1, <2>2, <2>3
<1>8. outgoing' \subseteq Record
  BY <1>1, <1>2 DEF TypeOK
<1>. QED
  BY <1>1, <1>6, <1>7, <1>8 DEF IdsAreIssuedOnce

\* One call moves, gets an item at most, and no record is taken from any.
LEMMA OneCallMoves ==
    ASSUME TypeOK, CallsAreConsistent, NEW c \in Call, NEW state \in CallStates \ {"idle", "awaiting"},
           call' = [call EXCEPT ![c] = state],
           answer' = answer, peer' = peer, outgoing \subseteq outgoing',
           \A x \in ItemsOf(outbox') : x \in ItemsOf(outbox) \/ x.of = c,
           (\E x \in ItemsOf(outbox') : x.of = c /\ x.kind = "request") /\ state = "sending"
              => Registered(c)',
           state \in {"sending", "dropped"} => \A m \in peer : m.call # c
    PROVE  CallsAreConsistent'
<1> SUFFICES ASSUME NEW d \in Call PROVE CallIsConsistent(d)'
  BY DEF CallsAreConsistent
<1>1. CallIsConsistent(d)
  BY DEF CallsAreConsistent
<1>2. Registered(d) => Registered(d)'
  BY DEF Registered
<1>3. CASE d = c
  <2>1. call'[d] = state
    BY <1>3 DEF TypeOK
  <2>. QED
    BY <1>1, <1>2, <1>3, <2>1 DEF CallIsConsistent
<1>4. CASE d # c
  <2>1. call'[d] = call[d] /\ \A x \in ItemsOf(outbox') : x.of = d => x \in ItemsOf(outbox)
    BY <1>4 DEF TypeOK
  <2>. QED
    BY <1>1, <1>2, <2>1 DEF CallIsConsistent
<1>. QED
  BY <1>3, <1>4

\* What no caller touches.
LEMMA CallersLeave ==
    ASSUME ConnectionInv, OnlyCalls,
           UNCHANGED <<receiver, dispatcher, queue, queue_closed, incomingVars,
                       supervisor_closed, closer, lost>>,
           sender # "running" => sender' # "running",
           closer = "closed" => \A c \in Call : call'[c] # "awaiting"
    PROVE  QueueIsTyped' /\ MessagesAreConsistent' /\ StagesAreOrdered'
<1>1. QueueIsTyped'
  BY QueueStays DEF ConnectionInv, incomingVars
<1>2. MessagesAreConsistent'
  BY MessagesStay DEF ConnectionInv
<1>3. StagesAreOrdered'
  BY DEF ConnectionInv, StagesAreOrdered, Handling, incomingVars
<1>. QED
  BY <1>1, <1>2, <1>3

LEMMA SendRequestKeeps ==
    ASSUME ConnectionInv, NEW c \in Call, SendRequest(c)
    PROVE  ConnectionInv'
<1> DEFINE x == [kind |-> "request", of |-> c, id |-> next_request_id]
<1>1. x \in Item /\ x.kind = "request" /\ x.of = c
  BY DEF ConnectionInv, TypeOK, Item, Id
<1>2. call[c] = "idle" /\ CallIsConsistent(c)
  BY DEF SendRequest, Register, ConnectionInv, CallsAreConsistent
<1>3. \A y \in ItemsOf(outbox) : y.of # c
  BY <1>2 DEF CallIsConsistent
<1>4. outbox' = Append(outbox, x)
  BY DEF SendRequest
<1> HIDE DEF x
<1>5. /\ outbox' \in Seq(Item \cup {End})
      /\ OutboxIsTyped'
      /\ ItemsOf(outbox') \subseteq ItemsOf(outbox) \cup {x}
  BY <1>1, <1>3, <1>4, ItemQueued DEF ConnectionInv, CallKinds
<1>6. IdsAreIssuedOnce' /\ next_request_id' \in Nat /\ outgoing' \subseteq Record
  BY <1>5, RegisterIds DEF ConnectionInv, SendRequest, x
<1>7. call' = [call EXCEPT ![c] = "sending"] /\ call' \in [Call -> CallStates]
  BY DEF SendRequest, SetCall, ConnectionInv, TypeOK, CallStates
<1>8. TypeOK'
  BY <1>5, <1>6, <1>7 DEF SendRequest, ConnectionInv, TypeOK, taskVars, incomingVars
<1>9. CallsAreConsistent'
  <2>1. Registered(c)' /\ outgoing \subseteq outgoing'
    <3>1. outgoing' = outgoing \cup {[id |-> next_request_id, call |-> c]}
      BY DEF SendRequest, Register
    <3>2. [id |-> next_request_id, call |-> c].call = c
      OBVIOUS
    <3>. QED
      BY <3>1, <3>2 DEF Registered
  <2>2. \A m \in peer : m.call # c
    BY <1>2 DEF CallIsConsistent
  <2>3. \A y \in ItemsOf(outbox') : y \in ItemsOf(outbox) \/ y.of = c
    BY <1>1, <1>5
  <2>4. answer' = answer /\ peer' = peer /\ "sending" \in CallStates \ {"idle", "awaiting"}
    BY DEF SendRequest, CallStates
  <2>. QED
    BY <1>7, <2>1, <2>2, <2>3, <2>4, OneCallMoves DEF ConnectionInv
<1>10. QueueIsTyped' /\ MessagesAreConsistent' /\ StagesAreOrdered'
  <2>1. OnlyCalls
    BY <1>1, <1>5 DEF OnlyCalls
  <2>2. closer = "closed" => \A d \in Call : call'[d] # "awaiting"
    BY <1>7 DEF ConnectionInv, TypeOK, StagesAreOrdered
  <2>. QED
    BY <2>1, <2>2, CallersLeave DEF SendRequest, taskVars
<1>. QED
  BY <1>5, <1>6, <1>8, <1>9, <1>10 DEF ConnectionInv

LEMMA SendRequestFailsKeeps ==
    ASSUME ConnectionInv, NEW c \in Call, SendRequestFails(c)
    PROVE  ConnectionInv'
<1>1. outbox' = outbox /\ peer' = peer /\ answer' = answer /\ Register(c)
  BY DEF SendRequestFails
<1>2. IdsAreIssuedOnce' /\ next_request_id' \in Nat /\ outgoing' \subseteq Record
  BY <1>1, RegisterIds DEF ConnectionInv
<1>3. call' = [call EXCEPT ![c] = "unsent"] /\ call' \in [Call -> CallStates]
  BY DEF SendRequestFails, SetCall, ConnectionInv, TypeOK, CallStates
<1>4. TypeOK'
  BY <1>1, <1>2, <1>3 DEF SendRequestFails, ConnectionInv, TypeOK, taskVars, incomingVars
<1>5. OutboxIsTyped'
  BY <1>1 DEF ConnectionInv, OutboxIsTyped
<1>6. CallsAreConsistent'
  <2>1. outgoing \subseteq outgoing' /\ "unsent" \in CallStates \ {"idle", "awaiting"}
    BY <1>1 DEF Register, CallStates
  <2>. QED
    BY <1>1, <1>3, <2>1, OneCallMoves DEF ConnectionInv
<1>7. QueueIsTyped' /\ MessagesAreConsistent' /\ StagesAreOrdered'
  <2>1. OnlyCalls
    BY <1>1 DEF OnlyCalls
  <2>2. closer = "closed" => \A d \in Call : call'[d] # "awaiting"
    BY <1>3 DEF ConnectionInv, TypeOK, StagesAreOrdered
  <2>. QED
    BY <2>1, <2>2, CallersLeave DEF SendRequestFails, taskVars
<1>. QED
  BY <1>2, <1>4, <1>5, <1>6, <1>7 DEF ConnectionInv

LEMMA SendNotificationKeeps ==
    ASSUME ConnectionInv, NEW c \in Call, SendNotification(c)
    PROVE  ConnectionInv'
<1> DEFINE x == [kind |-> "notification", of |-> c, id |-> 0]
<1>1. x \in Item /\ x.kind = "notification" /\ x.of = c
  BY DEF Item, Id
<1>2. call[c] = "idle" /\ CallIsConsistent(c)
  BY DEF SendNotification, ConnectionInv, CallsAreConsistent
<1>3. \A y \in ItemsOf(outbox) : y.of # c
  BY <1>2 DEF CallIsConsistent
<1>4. outbox' = Append(outbox, x)
  BY DEF SendNotification
<1> HIDE DEF x
<1>5. /\ outbox' \in Seq(Item \cup {End})
      /\ OutboxIsTyped'
      /\ ItemsOf(outbox') \subseteq ItemsOf(outbox) \cup {x}
  BY <1>1, <1>3, <1>4, ItemQueued DEF ConnectionInv, CallKinds
<1>6. IdsAreIssuedOnce'
  <2>1. Issued' \subseteq Issued
    BY <1>1, <1>5 DEF Issued, SendNotification
  <2>. QED
    BY <2>1, IssuedShrinks DEF SendNotification, ConnectionInv
<1>7. call' = [call EXCEPT ![c] = "sending"] /\ call' \in [Call -> CallStates]
  BY DEF SendNotification, SetCall, ConnectionInv, TypeOK, CallStates
<1>8. TypeOK'
  BY <1>5, <1>7 DEF SendNotification, ConnectionInv, TypeOK, taskVars, incomingVars
<1>9. CallsAreConsistent'
  <2>1. \A m \in peer : m.call # c
    BY <1>2 DEF CallIsConsistent
  <2>2. \A y \in ItemsOf(outbox') : y \in ItemsOf(outbox) \/ y.of = c
    BY <1>1, <1>5
  <2>3. \A y \in ItemsOf(outbox') : y.of = c => y.kind # "request"
    BY <1>1, <1>3, <1>5
  <2>4. /\ answer' = answer /\ peer' = peer /\ outgoing' = outgoing
        /\ "sending" \in CallStates \ {"idle", "awaiting"}
    BY DEF SendNotification, CallStates
  <2>. QED
    BY <1>7, <2>1, <2>2, <2>3, <2>4, OneCallMoves DEF ConnectionInv
<1>10. QueueIsTyped' /\ MessagesAreConsistent' /\ StagesAreOrdered'
  <2>1. OnlyCalls
    BY <1>1, <1>5 DEF OnlyCalls
  <2>2. closer = "closed" => \A d \in Call : call'[d] # "awaiting"
    BY <1>7 DEF ConnectionInv, TypeOK, StagesAreOrdered
  <2>. QED
    BY <2>1, <2>2, CallersLeave DEF SendNotification, taskVars
<1>. QED
  BY <1>5, <1>6, <1>8, <1>9, <1>10 DEF ConnectionInv

LEMMA CancelCallKeeps ==
    ASSUME ConnectionInv, NEW c \in Call, CancelCall(c)
    PROVE  ConnectionInv'
<1>1. /\ UNCHANGED <<next_request_id, outgoing, answer, peer, outbox>>
      /\ "cancelled" \in CallStates \ {"idle", "awaiting"}
  BY DEF CancelCall, CallStates
<1>2. call' = [call EXCEPT ![c] = "cancelled"] /\ call' \in [Call -> CallStates]
  BY DEF CancelCall, SetCall, ConnectionInv, TypeOK, CallStates
<1>3. TypeOK'
  BY <1>2 DEF CancelCall, ConnectionInv, TypeOK, taskVars, incomingVars
<1>4. OutboxIsTyped'
  BY <1>1 DEF ConnectionInv, OutboxIsTyped
<1>5. IdsAreIssuedOnce'
  BY <1>1 DEF ConnectionInv, IdsAreIssuedOnce, Issued
<1>6. CallsAreConsistent'
  BY <1>1, <1>2, OneCallMoves DEF ConnectionInv
<1>7. QueueIsTyped' /\ MessagesAreConsistent' /\ StagesAreOrdered'
  <2>1. OnlyCalls
    BY <1>1 DEF OnlyCalls
  <2>2. closer = "closed" => \A d \in Call : call'[d] # "awaiting"
    BY <1>2 DEF ConnectionInv, TypeOK, StagesAreOrdered
  <2>. QED
    BY <2>1, <2>2, CallersLeave DEF CancelCall, taskVars
<1>. QED
  BY <1>3, <1>4, <1>5, <1>6, <1>7 DEF ConnectionInv

-----------------------------------------------------------------------------
(***************************************************************************)
(* The sender.                                                             *)
(***************************************************************************)
\* What the sender takes from the outbox when a call is written.
LEMMA CallTaken ==
    ASSUME ConnectionInv, Sending, NextItem.kind \in CallKinds, outbox' = Tail(outbox)
    PROVE  /\ NextItem.of \in Call /\ NextItem \in Item
           /\ NextItem \in ItemsOf(outbox) /\ call[NextItem.of] # "idle"
           /\ outbox' \in Seq(Item \cup {End}) /\ OutboxIsTyped'
           /\ ItemsOf(outbox') \subseteq ItemsOf(outbox)
           /\ \A y \in ItemsOf(outbox') : y.of # NextItem.of
<1>1. outbox # <<>> /\ NextItem # End
  BY DEF Sending
<1>2. /\ outbox' \in Seq(Item \cup {End}) /\ OutboxIsTyped'
      /\ ItemsOf(outbox') \subseteq ItemsOf(outbox)
      /\ NextItem \in Item /\ NextItem \in ItemsOf(outbox)
      /\ \A y \in ItemsOf(outbox') : y.of # NextItem.of
  BY <1>1, ItemTaken DEF ConnectionInv
<1>3. NextItem.of \in Call
  BY <1>2 DEF ConnectionInv, OutboxIsTyped
<1>4. CallIsConsistent(NextItem.of)
  BY <1>3 DEF ConnectionInv, CallsAreConsistent
<1>5. call[NextItem.of] # "idle"
  BY <1>2, <1>4 DEF CallIsConsistent
<1>. QED
  BY <1>2, <1>3, <1>5

\* What it takes when an answer is.
LEMMA ReplyTaken ==
    ASSUME ConnectionInv, Sending, NextItem.kind \in {"result", "error"}
    PROVE  /\ NextItem.of \in Incoming /\ NextItem \in Item
           /\ incoming[NextItem.of] \in {"replying", "cancelled"}
           /\ replies[NextItem.of] = <<>> /\ status[NextItem.of] = "pending"
<1>1. outbox # <<>> /\ NextItem # End
  BY DEF Sending
<1>2. NextItem \in Item /\ NextItem \in ItemsOf(outbox)
  <2>1. outbox \in Seq(Item \cup {End}) /\ OneItemEach(outbox)
    BY DEF ConnectionInv, TypeOK, OutboxIsTyped
  <2>. QED
    BY <1>1, <2>1, TakeItem, ItemTypes DEF ConnectionInv, NextItem
<1>3. NextItem.of \in Incoming
  BY <1>2 DEF ConnectionInv, OutboxIsTyped, CallKinds
<1>4. MessageIsConsistent(NextItem.of)
  BY <1>3 DEF ConnectionInv, MessagesAreConsistent
<1>. QED
  BY <1>2, <1>3, <1>4 DEF MessageIsConsistent

LEMMA WriteCallKeeps ==
    ASSUME ConnectionInv, WriteCall
    PROVE  ConnectionInv'
<1> DEFINE x == NextItem
           c == NextItem.of
<1>1. Sending /\ x.kind \in CallKinds /\ outbox' = Tail(outbox)
  BY DEF WriteCall, CallKinds
<1>2. /\ c \in Call /\ x \in Item /\ x \in ItemsOf(outbox) /\ call[c] # "idle"
      /\ outbox' \in Seq(Item \cup {End}) /\ OutboxIsTyped'
      /\ ItemsOf(outbox') \subseteq ItemsOf(outbox)
      /\ \A y \in ItemsOf(outbox') : y.of # c
  BY <1>1, CallTaken
<1>3. /\ \A d \in Call : d # c => call'[d] = call[d]
      /\ call[c] = "sending" /\ x.kind = "request" => call'[c] = "awaiting"
      /\ call[c] = "sending" /\ x.kind = "notification" => call'[c] = "sent"
      /\ call[c] = "dropped" => call'[c] = "rejected"
      /\ call[c] \notin {"sending", "dropped"} => call'[c] = call[c]
      /\ x.kind \in {"request", "notification"}
  <2>1. x.kind \in {"request", "notification"}
    BY <1>1 DEF CallKinds
  <2>2. call'[c] = CASE call[c] = "sending" /\ x.kind = "request" -> "awaiting"
                     [] call[c] = "sending" /\ x.kind = "notification" -> "sent"
                     [] call[c] = "dropped" -> "rejected"
                     [] OTHER -> call[c]
    BY <1>2 DEF WriteCall, ConnectionInv, TypeOK
  <2>3. \A d \in Call : d # c => call'[d] = call[d]
    BY <1>2 DEF WriteCall, ConnectionInv, TypeOK
  <2>4. CASE call[c] = "sending" /\ x.kind = "request"
    BY <2>1, <2>2, <2>3, <2>4
  <2>5. CASE call[c] = "sending" /\ x.kind = "notification"
    BY <2>1, <2>2, <2>3, <2>5
  <2>6. CASE call[c] # "sending"
    BY <2>1, <2>2, <2>3, <2>6
  <2>. QED
    BY <2>1, <2>4, <2>5, <2>6
<1>4. call' \in [Call -> CallStates]
  <2>1. call' = [call EXCEPT ![c] = call'[c]]
    BY <1>2 DEF WriteCall, ConnectionInv, TypeOK
  <2>2. call[c] \in CallStates
    BY <1>2 DEF ConnectionInv, TypeOK
  <2>3. call'[c] \in CallStates
    <3>1. CASE call[c] \in {"sending", "dropped"}
      BY <1>3, <3>1 DEF CallStates
    <3>2. CASE call[c] \notin {"sending", "dropped"}
      BY <1>3, <2>2, <3>2
    <3>. QED
      BY <3>1, <3>2
  <2>. QED
    BY <2>1, <2>3 DEF ConnectionInv, TypeOK
<1>5. UNCHANGED <<next_request_id, outgoing, answer>>
  BY DEF WriteCall
<1>6. peer' \subseteq peer \cup {m \in Record : x.kind = "request" /\ m = [id |-> x.id, call |-> c]}
  BY <1>2 DEF WriteCall, Item, Record
<1> HIDE DEF x, c
<1>7. TypeOK'
  BY <1>2, <1>4, <1>6 DEF WriteCall, ConnectionInv, TypeOK, taskVars, incomingVars
<1>8. IdsAreIssuedOnce'
  <2>1. peer' \subseteq Issued
    BY <1>2, <1>6 DEF Issued, x, c
  <2>2. Issued' \subseteq Issued
    BY <1>2, <1>5, <2>1 DEF Issued
  <2>. QED
    BY <1>5, <2>2, IssuedShrinks DEF ConnectionInv
<1>9. CallsAreConsistent'
  <2> SUFFICES ASSUME NEW d \in Call PROVE CallIsConsistent(d)'
    BY DEF CallsAreConsistent
  <2>1. CallIsConsistent(d) /\ Registered(d)' = Registered(d)
    BY <1>5 DEF ConnectionInv, CallsAreConsistent, Registered
  <2>2. CASE d # c
    <3>1. \A m \in peer' : m.call = d => m \in peer
      BY <1>6, <2>2
    <3>. QED
      BY <1>2, <1>3, <1>5, <2>1, <2>2, <3>1 DEF CallIsConsistent
  <2>3. CASE d = c
    <3>1. /\ call'[d] \notin {"idle", "sending", "dropped"}
          /\ call'[d] = "awaiting" => call[d] = "awaiting" \/ (call[d] = "sending" /\ x.kind = "request")
      <4>1. CASE call[c] = "sending"
        BY <1>3, <2>3, <4>1
      <4>2. CASE call[c] = "dropped"
        BY <1>3, <2>3, <4>2
      <4>3. CASE call[c] \notin {"sending", "dropped"}
        BY <1>2, <1>3, <2>3, <4>3
      <4>. QED
        BY <4>1, <4>2, <4>3
    <3>2. call'[d] = "awaiting" => Registered(d)
      BY <1>2, <2>1, <2>3, <3>1 DEF CallIsConsistent, c, x
    <3>. QED
      BY <1>5, <2>1, <3>1, <3>2 DEF CallIsConsistent
  <2>. QED
    BY <2>2, <2>3
<1>10. QueueIsTyped' /\ MessagesAreConsistent' /\ StagesAreOrdered'
  <2>1. OnlyCalls
    BY <1>2 DEF OnlyCalls
  <2>2. closer # "closed"
    BY <1>1 DEF Sending, ConnectionInv, StagesAreOrdered
  <2>. QED
    BY <2>1, <2>2, CallersLeave DEF WriteCall, taskVars
<1>. QED
  BY <1>2, <1>7, <1>8, <1>9, <1>10 DEF ConnectionInv

LEMMA WriteCallFailsKeeps ==
    ASSUME ConnectionInv, WriteCallFails
    PROVE  ConnectionInv'
<1> DEFINE c == NextItem.of
           state == IF call[c] = "cancelled" THEN "cancelled" ELSE "unsent"
<1>1. /\ c \in Call
      /\ outbox' \in Seq(Item \cup {End}) /\ OutboxIsTyped'
      /\ ItemsOf(outbox') \subseteq ItemsOf(outbox)
      /\ \A y \in ItemsOf(outbox') : y.of # c
  BY CallTaken DEF WriteCallFails, CallKinds
<1>2. /\ UNCHANGED <<next_request_id, outgoing, answer, peer>>
      /\ state \in CallStates \ {"idle", "awaiting"} /\ state \notin {"sending", "dropped"}
  BY DEF WriteCallFails, CallStates
<1>3. call' = [call EXCEPT ![c] = state]
  BY DEF WriteCallFails
<1> HIDE DEF c, state
<1>4. call' \in [Call -> CallStates] /\ call'[c] = state
  BY <1>1, <1>2, <1>3 DEF ConnectionInv, TypeOK
<1>5. TypeOK'
  BY <1>1, <1>4 DEF WriteCallFails, ConnectionInv, TypeOK, incomingVars
<1>6. IdsAreIssuedOnce'
  <2>1. Issued' \subseteq Issued
    BY <1>1, <1>2 DEF Issued
  <2>. QED
    BY <1>2, <2>1, IssuedShrinks DEF ConnectionInv
<1>7. CallsAreConsistent'
  BY <1>1, <1>2, <1>3, OneCallMoves DEF ConnectionInv
<1>8. QueueIsTyped' /\ MessagesAreConsistent' /\ StagesAreOrdered'
  <2>1. OnlyCalls
    BY <1>1 DEF OnlyCalls
  <2>2. closer # "closed" /\ sender' # "running"
    BY DEF WriteCallFails, Sending, ConnectionInv, StagesAreOrdered
  <2>. QED
    BY <2>1, <2>2, CallersLeave DEF WriteCallFails
<1>. QED
  BY <1>1, <1>5, <1>6, <1>7, <1>8 DEF ConnectionInv

\* What the answer to a message and its record leave alone.
LEMMA RepliesLeave ==
    ASSUME ConnectionInv, OutboxIsTyped', OnlyReplies, NEW n \in Incoming,
           incoming[n] \notin {"queued_request", "queued_notice"},
           \A k \in Incoming : k # n => incoming'[k] = incoming[k],
           incoming'[n] \in {"request", "notice", "replying"} => closer # "closed",
           sender # "running" => sender' # "running",
           UNCHANGED <<callVars, receiver, dispatcher, queue, queue_closed, supervisor_closed,
                       closer, lost>>
    PROVE  IdsAreIssuedOnce' /\ CallsAreConsistent' /\ QueueIsTyped' /\ StagesAreOrdered'
<1>1. IdsAreIssuedOnce' /\ CallsAreConsistent'
  BY IdsStay, CallsStay DEF ConnectionInv
<1>2. QueueIsTyped'
  BY QueueStays DEF ConnectionInv
<1>3. closer = "closed" => \A k \in Incoming : ~Handling(k)'
  BY DEF ConnectionInv, StagesAreOrdered, Handling
<1>4. StagesAreOrdered'
  BY <1>3 DEF ConnectionInv, StagesAreOrdered, callVars
<1>. QED
  BY <1>1, <1>2, <1>4

LEMMA WriteReplyKeeps ==
    ASSUME ConnectionInv, WriteReply
    PROVE  ConnectionInv'
<1> DEFINE x == NextItem
           n == NextItem.of
<1>1. /\ n \in Incoming /\ x \in Item /\ incoming[n] \in {"replying", "cancelled"}
      /\ replies[n] = <<>> /\ x.kind \in {"result", "error"}
  BY ReplyTaken DEF WriteReply
<1>2. /\ outbox' \in Seq(Item \cup {End}) /\ OutboxIsTyped'
      /\ ItemsOf(outbox') \subseteq ItemsOf(outbox)
      /\ \A y \in ItemsOf(outbox') : y.of # n
  BY ItemTaken DEF ConnectionInv, WriteReply, Sending
<1>3. /\ replies' = [replies EXCEPT ![n] = Append(@, x.kind)]
      /\ incoming' = [incoming EXCEPT ![n] = "done"]
      /\ status' = [status EXCEPT ![n] = IF x.kind = "result" THEN "completed" ELSE "failed"]
  BY DEF WriteReply
<1>4. Append(replies[n], x.kind) = <<x.kind>>
  BY <1>1
<1> HIDE DEF x, n
<1>5. /\ \A k \in Incoming : k # n => /\ incoming'[k] = incoming[k]
                                      /\ status'[k] = status[k] /\ replies'[k] = replies[k]
      /\ incoming'[n] = "done" /\ replies'[n] = <<x.kind>>
      /\ status'[n] = IF x.kind = "result" THEN "completed" ELSE "failed"
  BY <1>1, <1>3, <1>4 DEF ConnectionInv, TypeOK
<1>6. TypeOK'
  <2>1. replies' \in [Incoming -> Seq({"result", "error"})]
    <3>1. <<x.kind>> \in Seq({"result", "error"})
      BY <1>1
    <3>2. replies' = [replies EXCEPT ![n] = <<x.kind>>]
      BY <1>1, <1>3, <1>4 DEF ConnectionInv, TypeOK
    <3>. QED
      BY <3>1, <3>2 DEF ConnectionInv, TypeOK
  <2>2. incoming' \in [Incoming -> IncomingStates]
    BY <1>3 DEF ConnectionInv, TypeOK, IncomingStates
  <2>3. status' \in [Incoming -> {"none", "pending", "completed", "failed"}]
    BY <1>3 DEF ConnectionInv, TypeOK
  <2>. QED
    BY <1>2, <2>1, <2>2, <2>3 DEF WriteReply, ConnectionInv, TypeOK, callVars, taskVars
<1>7. IdsAreIssuedOnce' /\ CallsAreConsistent' /\ QueueIsTyped' /\ StagesAreOrdered'
  <2>1. OnlyReplies
    BY <1>2 DEF OnlyReplies
  <2>2. incoming[n] \notin {"queued_request", "queued_notice"}
    BY <1>1
  <2>. QED
    BY <1>1, <1>2, <1>5, <2>1, <2>2, RepliesLeave DEF WriteReply, taskVars
<1>8. MessagesAreConsistent'
  <2> SUFFICES ASSUME NEW k \in Incoming PROVE MessageIsConsistent(k)'
    BY DEF MessagesAreConsistent
  <2>1. MessageIsConsistent(k)
    BY DEF ConnectionInv, MessagesAreConsistent
  <2>2. CASE k # n
    BY <1>2, <1>5, <2>1, <2>2 DEF MessageIsConsistent
  <2>3. CASE k = n
    <3>1. Len(<<x.kind>>) = 1 /\ <<x.kind>> # <<>>
      OBVIOUS
    <3>2. <<x.kind>> = <<"result">> <=> x.kind = "result"
      OBVIOUS
    <3>3. <<x.kind>> = <<"error">> => x.kind = "error"
      OBVIOUS
    <3>4. status'[k] \in {"completed", "failed"} /\ (status'[k] = "completed" <=> x.kind = "result")
      BY <1>5, <2>3
    <3>5. Len(replies'[k]) <= 1 /\ (replies'[k] = <<"error">> => x.kind = "error")
      <4>1. replies'[k] = <<x.kind>>
        BY <1>5, <2>3
      <4>2. Len(replies'[k]) = 1
        BY <3>1, <4>1
      <4>. QED
        BY <3>3, <4>1, <4>2
    <3>6. replies'[k] = <<"result">> <=> x.kind = "result"
      BY <1>5, <2>3, <3>2
    <3>7. status'[k] = "failed" <=> x.kind = "error"
      BY <1>1, <1>5, <2>3
    <3>8. incoming'[k] = "done" /\ \A y \in ItemsOf(outbox') : y.of # k
      BY <1>2, <1>5, <2>3
    <3>. QED
      BY <3>4, <3>5, <3>6, <3>7, <3>8 DEF MessageIsConsistent
  <2>. QED
    BY <2>2, <2>3
<1>. QED
  BY <1>2, <1>6, <1>7, <1>8 DEF ConnectionInv

LEMMA WriteReplyFailsKeeps ==
    ASSUME ConnectionInv, WriteReplyFails
    PROVE  ConnectionInv'
<1> DEFINE x == NextItem
           n == NextItem.of
           again == [NextItem EXCEPT !.kind = "error"]
           rest == Tail(outbox)
<1>1. /\ n \in Incoming /\ x \in Item /\ incoming[n] \in {"replying", "cancelled"}
      /\ replies[n] = <<>> /\ status[n] = "pending" /\ x.kind \in {"result", "error"}
  BY ReplyTaken DEF WriteReplyFails
<1>2. /\ rest \in Seq(Item \cup {End}) /\ OneItemEach(rest)
      /\ ItemsOf(rest) \subseteq ItemsOf(outbox)
      /\ \A y \in ItemsOf(rest) : y.of # n
  <2>1. outbox \in Seq(Item \cup {End}) /\ OneItemEach(outbox) /\ outbox # <<>> /\ NextItem # End
    BY DEF ConnectionInv, TypeOK, OutboxIsTyped, WriteReplyFails, Sending
  <2>. QED
    BY <2>1, TakeItem DEF NextItem
<1>3. again \in Item /\ again.of = n /\ again.kind = "error"
  BY <1>1 DEF Item
<1>4. \/ x.kind = "result" /\ outbox' = Append(rest, again) /\ UNCHANGED <<incoming, status>>
      \/ /\ outbox' = rest
         /\ incoming' = [incoming EXCEPT ![n] = "crashed"]
         /\ status' = [status EXCEPT ![n] = "failed"]
  BY DEF WriteReplyFails
<1> HIDE DEF x, n, again, rest
<1>5. /\ outbox' \in Seq(Item \cup {End}) /\ OneItemEach(outbox')
      /\ \A y \in ItemsOf(outbox') : y \in ItemsOf(outbox) \/ y = again
  <2>1. CASE outbox' = Append(rest, again)
    <3>1. again \in Item \cup {End} /\ \A y \in ItemsOf(rest) : y.of # again.of
      BY <1>2, <1>3
    <3>2. /\ Append(rest, again) \in Seq(Item \cup {End}) /\ OneItemEach(Append(rest, again))
          /\ ItemsOf(Append(rest, again)) \subseteq (ItemsOf(rest) \cup {again}) \ {End}
      BY <1>2, <3>1, AddItem
    <3>. QED
      BY <1>2, <2>1, <3>2
  <2>2. CASE outbox' = rest
    BY <1>2, <2>2
  <2>. QED
    BY <1>4, <2>1, <2>2
<1>6. OutboxIsTyped' /\ OnlyReplies
  BY <1>1, <1>3, <1>5 DEF ConnectionInv, OutboxIsTyped, OnlyReplies, CallKinds
<1>7. /\ \A k \in Incoming : k # n => incoming'[k] = incoming[k] /\ status'[k] = status[k]
      /\ \/ incoming'[n] = incoming[n] /\ status'[n] = status[n]
         \/ incoming'[n] = "crashed" /\ status'[n] = "failed" /\ outbox' = rest
  BY <1>1, <1>4 DEF ConnectionInv, TypeOK
<1>8. TypeOK'
  <2>1. incoming' \in [Incoming -> IncomingStates]
    BY <1>4 DEF ConnectionInv, TypeOK, IncomingStates
  <2>2. status' \in [Incoming -> {"none", "pending", "completed", "failed"}]
    BY <1>4 DEF ConnectionInv, TypeOK
  <2>. QED
    BY <1>5, <2>1, <2>2 DEF WriteReplyFails, ConnectionInv, TypeOK, callVars
<1>9. IdsAreIssuedOnce' /\ CallsAreConsistent' /\ QueueIsTyped' /\ StagesAreOrdered'
  <2>1. incoming[n] \notin {"queued_request", "queued_notice"} /\ closer # "closed"
    BY <1>1 DEF WriteReplyFails, Sending, ConnectionInv, StagesAreOrdered
  <2>2. sender # "running" => sender' # "running"
    BY DEF WriteReplyFails
  <2>. QED
    BY <1>1, <1>6, <1>7, <2>1, <2>2, RepliesLeave DEF WriteReplyFails
<1>10. MessagesAreConsistent'
  <2> SUFFICES ASSUME NEW k \in Incoming PROVE MessageIsConsistent(k)'
    BY DEF MessagesAreConsistent
  <2>1. MessageIsConsistent(k) /\ replies'[k] = replies[k]
    BY DEF ConnectionInv, MessagesAreConsistent, WriteReplyFails
  <2>2. CASE k # n
    <3>1. \A y \in ItemsOf(outbox') : y.of = k => y \in ItemsOf(outbox)
      BY <1>3, <1>5, <2>2
    <3>. QED
      BY <1>7, <2>1, <2>2, <3>1 DEF MessageIsConsistent
  <2>3. CASE k = n /\ incoming'[n] = incoming[n] /\ status'[n] = status[n]
    BY <1>1, <2>1, <2>3 DEF MessageIsConsistent
  <2>4. CASE k = n /\ incoming'[n] = "crashed" /\ status'[n] = "failed" /\ outbox' = rest
    <3>1. replies'[k] = <<>> /\ \A y \in ItemsOf(outbox') : y.of # k
      BY <1>1, <1>2, <2>1, <2>4
    <3>2. Len(<<>>) = 0 /\ <<>> # <<"result">> /\ <<>> # <<"error">>
      OBVIOUS
    <3>. QED
      BY <2>4, <3>1, <3>2 DEF MessageIsConsistent
  <2>. QED
    BY <1>7, <2>2, <2>3, <2>4
<1>. QED
  BY <1>6, <1>8, <1>9, <1>10 DEF ConnectionInv

LEMMA SenderEndsKeeps ==
    ASSUME ConnectionInv, SenderEnds
    PROVE  ConnectionInv'
<1>1. /\ outbox' \in Seq(Item \cup {End}) /\ OutboxIsTyped'
      /\ ItemsOf(outbox') \subseteq ItemsOf(outbox)
  BY ItemTaken DEF ConnectionInv, SenderEnds
<1>2. TypeOK'
  BY <1>1 DEF SenderEnds, ConnectionInv, TypeOK, callVars, incomingVars
<1>3. OnlyReplies /\ OnlyCalls
  BY <1>1 DEF OnlyReplies, OnlyCalls
<1>4. IdsAreIssuedOnce' /\ CallsAreConsistent'
  BY <1>1, <1>3, IdsStay, CallsStay DEF ConnectionInv, SenderEnds
<1>5. QueueIsTyped' /\ MessagesAreConsistent' /\ StagesAreOrdered'
  <2>1. sender' # "running" /\ closer = "closed" => \A c \in Call : call'[c] # "awaiting"
    BY DEF SenderEnds, ConnectionInv, StagesAreOrdered, callVars
  <2>. QED
    BY <1>3, <2>1, CallersLeave DEF SenderEnds
<1>. QED
  BY <1>1, <1>2, <1>4, <1>5 DEF ConnectionInv

-----------------------------------------------------------------------------
(***************************************************************************)
(* The receive loop.                                                       *)
(***************************************************************************)
LEMMA ReceiveResponseKeeps ==
    ASSUME ConnectionInv, NEW m \in peer, NEW kind \in {"result", "bare_error", "error"},
           ReceiveResponse(m, kind)
    PROVE  ConnectionInv'
<1> DEFINE records == {r \in outgoing : r.id = m.id}
           open == {c \in Call : call[c] = "awaiting" /\ [id |-> m.id, call |-> c] \in records}
           end == IF kind = "error" THEN "raised" ELSE "returned"
<1>1. /\ outgoing' = outgoing \ records
      /\ call' = [c \in Call |-> IF c \notin open THEN call[c] ELSE end]
      /\ answer' = [c \in Call |-> IF c \in open /\ kind = "result" THEN m.call ELSE answer[c]]
      /\ UNCHANGED <<next_request_id, peer, outbox>>
  BY DEF ReceiveResponse
<1>2. m \in Record /\ m \in Issued /\ outgoing \subseteq Issued /\ outgoing \subseteq Record
  BY DEF ConnectionInv, TypeOK, Issued
<1>3. \A r \in outgoing : r \in records => r.call = m.call
  BY <1>2 DEF ConnectionInv, IdsAreIssuedOnce
<1>4. \A c \in open : c = m.call
  <2>1. ASSUME NEW c \in open PROVE c = m.call
    <3>1. [id |-> m.id, call |-> c] \in records /\ [id |-> m.id, call |-> c].call = c
      OBVIOUS
    <3>. QED
      BY <1>3, <3>1
  <2>. QED
    BY <2>1
<1>5. \A c \in Call : (\E r \in records : r.call = c) /\ call[c] = "awaiting" => c \in open
  <2>1. ASSUME NEW c \in Call, NEW r \in records, r.call = c, call[c] = "awaiting" PROVE c \in open
    <3>1. r = [id |-> m.id, call |-> c] /\ r \in records
      BY <1>2, <2>1 DEF Record
    <3>. QED
      BY <2>1, <3>1
  <2>. QED
    BY <2>1
<1>6. open \subseteq {c \in Call : call[c] = "awaiting"} /\ records \subseteq outgoing
  OBVIOUS
<1>7. end \in {"raised", "returned"}
  OBVIOUS
<1> HIDE DEF records, open, end
<1>8. TypeOK'
  <2>1. call' \in [Call -> CallStates]
    BY <1>1, <1>7 DEF ConnectionInv, TypeOK, CallStates
  <2>2. answer' \in [Call -> Call \cup {None}]
    BY <1>1, <1>2 DEF ConnectionInv, TypeOK, Record
  <2>. QED
    BY <1>1, <2>1, <2>2 DEF ReceiveResponse, ConnectionInv, TypeOK, taskVars, incomingVars
<1>9. OutboxIsTyped'
  BY <1>1 DEF ConnectionInv, OutboxIsTyped
<1>10. IdsAreIssuedOnce'
  <2>1. Issued' \subseteq Issued
    BY <1>1 DEF Issued
  <2>. QED
    BY <1>1, <2>1, IssuedShrinks DEF ConnectionInv
<1>11. CallsAreConsistent'
  <2> SUFFICES ASSUME NEW c \in Call PROVE CallIsConsistent(c)'
    BY DEF CallsAreConsistent
  <2>1. CallIsConsistent(c)
    BY DEF ConnectionInv, CallsAreConsistent
  <2>2. /\ call'[c] = IF c \notin open THEN call[c] ELSE end
        /\ answer'[c] = IF c \in open /\ kind = "result" THEN m.call ELSE answer[c]
    BY <1>1
  <2>3. CASE c \in open
    <3>1. call'[c] \in {"raised", "returned"} /\ answer'[c] \in {c, None}
      BY <1>4, <1>7, <2>1, <2>2, <2>3 DEF CallIsConsistent
    <3>. QED
      BY <3>1 DEF CallIsConsistent
  <2>4. CASE c \notin open
    <3>1. call'[c] = call[c] /\ answer'[c] = answer[c]
      BY <2>2, <2>4
    <3>2. call[c] = "awaiting" /\ Registered(c) => Registered(c)'
      <4>1. call[c] = "awaiting" => \A r \in records : r.call # c
        BY <1>5, <2>4
      <4>. QED
        BY <1>1, <4>1 DEF Registered
    <3>3. call[c] = "sending" /\ Registered(c) => Registered(c)'
      <4>1. call[c] = "sending" => m.call # c
        BY <2>1 DEF CallIsConsistent
      <4>2. call[c] = "sending" => \A r \in records : r.call # c
        BY <1>3, <1>6, <4>1
      <4>. QED
        BY <1>1, <4>2 DEF Registered
    <3>. QED
      BY <1>1, <2>1, <3>1, <3>2, <3>3 DEF CallIsConsistent
  <2>. QED
    BY <2>3, <2>4
<1>12. QueueIsTyped' /\ MessagesAreConsistent' /\ StagesAreOrdered'
  <2>1. OnlyCalls
    BY <1>1 DEF OnlyCalls
  <2>2. closer # "closed"
    BY DEF ReceiveResponse, ConnectionInv, StagesAreOrdered
  <2>. QED
    BY <2>1, <2>2, CallersLeave DEF ReceiveResponse, taskVars
<1>. QED
  BY <1>8, <1>9, <1>10, <1>11, <1>12 DEF ConnectionInv

\* A rejected store leaves nobody waiting.
LEMMA RejectAllKeeps ==
    ASSUME ConnectionInv, RejectAll, UNCHANGED <<next_request_id, answer, peer, outbox>>
    PROVE  /\ call' \in [Call -> CallStates] /\ outgoing' = {}
           /\ OutboxIsTyped' /\ IdsAreIssuedOnce' /\ CallsAreConsistent'
           /\ \A c \in Call : call'[c] # "awaiting"
<1>1. /\ outgoing' = {}
      /\ \A c \in Call : call'[c] = IF ~Registered(c) THEN call[c]
                                    ELSE IF call[c] = "awaiting" THEN "rejected"
                                    ELSE IF call[c] = "sending" THEN "dropped"
                                    ELSE call[c]
  BY DEF RejectAll, Registered
<1>2. call' \in [Call -> CallStates]
  BY DEF RejectAll, ConnectionInv, TypeOK, CallStates
<1>3. OutboxIsTyped'
  BY DEF ConnectionInv, OutboxIsTyped
<1>4. IdsAreIssuedOnce'
  <2>1. Issued' \subseteq Issued
    BY <1>1 DEF Issued
  <2>. QED
    BY <2>1, IssuedShrinks DEF ConnectionInv
<1>5. ASSUME NEW c \in Call PROVE CallIsConsistent(c)' /\ call'[c] # "awaiting"
  <2>1. CallIsConsistent(c)
    BY DEF ConnectionInv, CallsAreConsistent
  <2>2. CASE ~Registered(c)
    <3>1. call'[c] = call[c] /\ call[c] # "awaiting"
      BY <1>1, <2>1, <2>2 DEF CallIsConsistent
    <3>. QED
      BY <2>1, <2>2, <3>1 DEF CallIsConsistent
  <2>3. CASE Registered(c)
    <3>1. /\ call'[c] \notin {"awaiting", "sending"}
          /\ call'[c] = "idle" => call[c] = "idle"
          /\ call'[c] = "dropped" => call[c] \in {"sending", "dropped"}
      BY <1>1, <2>3
    <3>. QED
      BY <2>1, <3>1 DEF CallIsConsistent
  <2>. QED
    BY <2>2, <2>3
<1>. QED
  BY <1>1, <1>2, <1>3, <1>4, <1>5 DEF CallsAreConsistent

LEMMA StreamFailsKeeps ==
    ASSUME ConnectionInv, StreamFails
    PROVE  ConnectionInv'
<1>1. /\ call' \in [Call -> CallStates] /\ outgoing' = {}
      /\ OutboxIsTyped' /\ IdsAreIssuedOnce' /\ CallsAreConsistent'
      /\ \A c \in Call : call'[c] # "awaiting"
  BY RejectAllKeeps DEF StreamFails
<1>2. TypeOK'
  BY <1>1 DEF StreamFails, ConnectionInv, TypeOK, incomingVars
<1>3. QueueIsTyped'
  BY QueueStays DEF StreamFails, ConnectionInv, incomingVars
<1>4. MessagesAreConsistent'
  BY MessagesStay DEF StreamFails, ConnectionInv, OnlyCalls
<1>5. StagesAreOrdered'
  BY <1>1 DEF StreamFails, ConnectionInv, StagesAreOrdered, Handling, incomingVars
<1>. QED
  BY <1>1, <1>2, <1>3, <1>4, <1>5 DEF ConnectionInv

LEMMA ReceiveKeeps ==
    ASSUME ConnectionInv, NEW n \in Incoming, NEW kind \in {"queued_request", "queued_notice"},
           Receive(n, kind)
    PROVE  ConnectionInv'
<1>1. ~queue_closed /\ incoming[n] = "unsent"
  BY DEF Receive, ConnectionInv, StagesAreOrdered
<1>2. /\ queue' = Append(queue, n) /\ incoming' = [incoming EXCEPT ![n] = kind]
      /\ UNCHANGED <<callVars, taskVars, outbox, queue_closed, status, replies,
                     supervisor_closed, closer, lost>>
  BY <1>1 DEF Receive, SetIncoming, taskVars
<1>3. incoming'[n] = kind /\ \A k \in Incoming : k # n => incoming'[k] = incoming[k]
  BY <1>2 DEF ConnectionInv, TypeOK
<1>4. /\ queue' \in Seq(Incoming \cup {End}) /\ Len(queue) \in Nat
      /\ DOMAIN queue = 1..Len(queue) /\ DOMAIN queue' = 1..(Len(queue) + 1)
      /\ \A i \in 1..Len(queue) : queue'[i] = queue[i]
      /\ queue'[Len(queue) + 1] = n
  <2>1. queue \in Seq(Incoming \cup {End}) /\ n \in Incoming \cup {End}
    BY DEF ConnectionInv, TypeOK
  <2>. QED
    BY <1>2, <2>1, AppendProperties
<1>5. TypeOK'
  <2>1. incoming' \in [Incoming -> IncomingStates]
    BY <1>2 DEF ConnectionInv, TypeOK, IncomingStates
  <2>. QED
    BY <1>2, <1>4, <2>1 DEF ConnectionInv, TypeOK, callVars, taskVars
<1>6. OutboxIsTyped' /\ IdsAreIssuedOnce' /\ CallsAreConsistent'
  <2>1. OutboxIsTyped' /\ OnlyReplies
    BY <1>2 DEF ConnectionInv, OutboxIsTyped, OnlyReplies
  <2>. QED
    BY <1>2, <2>1, IdsStay, CallsStay DEF ConnectionInv
<1>7. QueueIsTyped'
  <2>1. \A i \in DOMAIN queue : queue[i] # End => /\ queue[i] \in Incoming /\ queue[i] # n
                                                  /\ incoming[queue[i]] \in {"queued_request", "queued_notice"}
    BY <1>1 DEF ConnectionInv, TypeOK, QueueIsTyped
  <2>2. ASSUME NEW i \in DOMAIN queue'
        PROVE  \/ i \in DOMAIN queue /\ queue'[i] = queue[i]
               \/ i = Len(queue) + 1 /\ queue'[i] = n
    BY <1>4
  <2>3. ASSUME NEW i \in DOMAIN queue', queue'[i] # End
        PROVE  incoming'[queue'[i]] \in {"queued_request", "queued_notice"}
    BY <1>3, <2>1, <2>2, <2>3
  <2>4. ASSUME NEW i \in DOMAIN queue', NEW j \in DOMAIN queue', queue'[i] # End, queue'[i] = queue'[j]
        PROVE  i = j
    <3>1. CASE i \in DOMAIN queue /\ queue'[i] = queue[i] /\ j \in DOMAIN queue /\ queue'[j] = queue[j]
      BY <2>4, <3>1 DEF ConnectionInv, QueueIsTyped
    <3>. QED
      BY <2>1, <2>2, <2>4, <3>1
  <2>. QED
    BY <2>3, <2>4 DEF QueueIsTyped
<1>8. MessagesAreConsistent'
  <2> SUFFICES ASSUME NEW k \in Incoming PROVE MessageIsConsistent(k)'
    BY DEF MessagesAreConsistent
  <2>1. MessageIsConsistent(k)
    BY DEF ConnectionInv, MessagesAreConsistent
  <2>. QED
    BY <1>1, <1>2, <1>3, <2>1 DEF MessageIsConsistent
<1>9. StagesAreOrdered'
  <2>1. \A k \in Incoming : ~Handling(k) => ~Handling(k)'
    BY <1>3 DEF Handling
  <2>. QED
    BY <1>2, <2>1 DEF ConnectionInv, StagesAreOrdered, callVars, taskVars
<1>. QED
  BY <1>5, <1>6, <1>7, <1>8, <1>9 DEF ConnectionInv

-----------------------------------------------------------------------------
(***************************************************************************)
(* The dispatcher and the handlers.                                        *)
(***************************************************************************)
\* The head of the dispatcher's queue is taken: it is nowhere else in the queue.
LEMMA MessageTaken ==
    ASSUME TypeOK, QueueIsTyped, queue # <<>>, queue' = Tail(queue)
    PROVE  /\ queue' \in Seq(Incoming \cup {End})
           /\ \A i \in DOMAIN queue' : queue'[i] # End =>
                 /\ queue'[i] \in Incoming /\ queue'[i] # Head(queue)
                 /\ incoming[queue'[i]] \in {"queued_request", "queued_notice"}
           /\ \A i, j \in DOMAIN queue' : queue'[i] # End /\ queue'[i] = queue'[j] => i = j
           /\ Head(queue) # End => /\ Head(queue) \in Incoming
                                   /\ incoming[Head(queue)] \in {"queued_request", "queued_notice"}
<1>1. queue \in Seq(Incoming \cup {End})
  BY DEF TypeOK
<1>2. /\ queue' \in Seq(Incoming \cup {End})
      /\ Len(queue') = Len(queue) - 1
      /\ \A i \in 1..Len(queue') : queue'[i] = queue[i + 1]
  BY <1>1, HeadTailProperties
<1>3. /\ Len(queue) \in Nat \ {0}
      /\ DOMAIN queue = 1..Len(queue) /\ DOMAIN queue' = 1..(Len(queue) - 1)
  BY <1>1, <1>2, EmptySeq
<1>4. Head(queue) = queue[1] /\ 1 \in DOMAIN queue
  BY <1>1, <1>3
<1>5. ASSUME NEW i \in DOMAIN queue'
      PROVE  i + 1 \in DOMAIN queue /\ queue'[i] = queue[i + 1] /\ i + 1 # 1
  BY <1>2, <1>3
<1>6. \A i \in DOMAIN queue : queue[i] # End =>
         queue[i] \in Incoming /\ incoming[queue[i]] \in {"queued_request", "queued_notice"}
  BY <1>1 DEF QueueIsTyped
<1>7. ASSUME NEW i \in DOMAIN queue', queue'[i] # End
      PROVE  /\ queue'[i] \in Incoming /\ queue'[i] # Head(queue)
             /\ incoming[queue'[i]] \in {"queued_request", "queued_notice"}
  <2>1. queue[i + 1] # queue[1]
    BY <1>4, <1>5, <1>7 DEF QueueIsTyped
  <2>. QED
    BY <1>4, <1>5, <1>6, <1>7, <2>1
<1>8. ASSUME NEW i \in DOMAIN queue', NEW j \in DOMAIN queue', queue'[i] # End, queue'[i] = queue'[j]
      PROVE  i = j
  <2>1. i + 1 = j + 1
    BY <1>5, <1>8 DEF QueueIsTyped
  <2>. QED
    BY <1>3, <2>1
<1>. QED
  BY <1>2, <1>4, <1>6, <1>7, <1>8

LEMMA DispatchKeeps ==
    ASSUME ConnectionInv, Dispatch
    PROVE  ConnectionInv'
<1> DEFINE n == Head(queue)
<1>1. queue # <<>> /\ queue' = Tail(queue) /\ n # End /\ dispatcher = "running"
  BY DEF Dispatch
<1>2. ~supervisor_closed
  BY <1>1 DEF ConnectionInv, StagesAreOrdered
<1>3. /\ queue' \in Seq(Incoming \cup {End})
      /\ \A i \in DOMAIN queue' : queue'[i] # End =>
            /\ queue'[i] \in Incoming /\ queue'[i] # n
            /\ incoming[queue'[i]] \in {"queued_request", "queued_notice"}
      /\ \A i, j \in DOMAIN queue' : queue'[i] # End /\ queue'[i] = queue'[j] => i = j
      /\ n \in Incoming /\ incoming[n] \in {"queued_request", "queued_notice"}
  BY <1>1, MessageTaken DEF ConnectionInv
<1>4. /\ status' = [status EXCEPT ![n] = IF incoming[n] = "queued_request" THEN "pending" ELSE @]
      /\ incoming' = [incoming EXCEPT ![n] = IF incoming[n] = "queued_request" THEN "request"
                                             ELSE "notice"]
      /\ UNCHANGED <<callVars, taskVars, outbox, queue_closed, replies, supervisor_closed,
                     closer, lost>>
  BY <1>2 DEF Dispatch, SetIncoming, taskVars
<1> HIDE DEF n
<1>5. /\ \A k \in Incoming : k # n => incoming'[k] = incoming[k] /\ status'[k] = status[k]
      /\ \/ incoming[n] = "queued_request" /\ incoming'[n] = "request" /\ status'[n] = "pending"
         \/ incoming[n] = "queued_notice" /\ incoming'[n] = "notice" /\ status'[n] = status[n]
  BY <1>3, <1>4 DEF ConnectionInv, TypeOK
<1>6. TypeOK'
  <2>1. incoming' \in [Incoming -> IncomingStates]
    BY <1>4 DEF ConnectionInv, TypeOK, IncomingStates
  <2>2. status' \in [Incoming -> {"none", "pending", "completed", "failed"}]
    BY <1>3, <1>4 DEF ConnectionInv, TypeOK
  <2>. QED
    BY <1>3, <1>4, <2>1, <2>2 DEF ConnectionInv, TypeOK, callVars, taskVars
<1>7. OutboxIsTyped' /\ IdsAreIssuedOnce' /\ CallsAreConsistent'
  <2>1. OutboxIsTyped' /\ OnlyReplies
    BY <1>4 DEF ConnectionInv, OutboxIsTyped, OnlyReplies
  <2>. QED
    BY <1>4, <2>1, IdsStay, CallsStay DEF ConnectionInv
<1>8. QueueIsTyped'
  BY <1>3, <1>5 DEF QueueIsTyped
<1>9. MessagesAreConsistent'
  <2> SUFFICES ASSUME NEW k \in Incoming PROVE MessageIsConsistent(k)'
    BY DEF MessagesAreConsistent
  <2>1. MessageIsConsistent(k) /\ outbox' = outbox /\ replies' = replies
    BY <1>4 DEF ConnectionInv, MessagesAreConsistent
  <2>2. CASE k # n
    BY <1>5, <2>1, <2>2 DEF MessageIsConsistent
  <2>3. CASE k = n
    <3>1. /\ replies[k] = <<>> /\ status[k] \in {"none", "pending"}
          /\ \A x \in ItemsOf(outbox) : x.of # k
      BY <1>3, <2>1, <2>3 DEF MessageIsConsistent
    <3>2. incoming'[k] \in {"request", "notice"} /\ (incoming'[k] = "request" => status'[k] = "pending")
      BY <1>5, <2>3
    <3>3. status'[k] \in {"none", "pending"}
      BY <1>5, <2>3, <3>1
    <3>. QED
      BY <2>1, <3>1, <3>2, <3>3 DEF MessageIsConsistent
  <2>. QED
    BY <2>2, <2>3
<1>10. StagesAreOrdered'
  <2>1. closer # "closed"
    BY <1>1 DEF ConnectionInv, StagesAreOrdered
  <2>. QED
    BY <1>4, <2>1 DEF ConnectionInv, StagesAreOrdered, taskVars
<1>. QED
  BY <1>6, <1>7, <1>8, <1>9, <1>10 DEF ConnectionInv

\* What a step of the connection's own tasks leaves alone.
LEMMA OthersStay ==
    ASSUME ConnectionInv, UNCHANGED <<callVars, outbox, incomingVars>>
    PROVE  OutboxIsTyped' /\ IdsAreIssuedOnce' /\ CallsAreConsistent' /\ MessagesAreConsistent'
<1>1. OutboxIsTyped' /\ OnlyReplies /\ OnlyCalls
  BY DEF ConnectionInv, OutboxIsTyped, OnlyReplies, OnlyCalls
<1>. QED
  BY <1>1, IdsStay, CallsStay, MessagesStay DEF ConnectionInv

LEMMA DispatcherEndsKeeps ==
    ASSUME ConnectionInv, DispatcherEnds
    PROVE  ConnectionInv'
<1>1. /\ queue' \in Seq(Incoming \cup {End})
      /\ \A i \in DOMAIN queue' : queue'[i] # End =>
            incoming[queue'[i]] \in {"queued_request", "queued_notice"}
      /\ \A i, j \in DOMAIN queue' : queue'[i] # End /\ queue'[i] = queue'[j] => i = j
  BY MessageTaken DEF ConnectionInv, DispatcherEnds
<1>2. TypeOK'
  BY <1>1 DEF DispatcherEnds, ConnectionInv, TypeOK, callVars, incomingVars
<1>3. OutboxIsTyped' /\ IdsAreIssuedOnce' /\ CallsAreConsistent' /\ MessagesAreConsistent'
  BY OthersStay DEF DispatcherEnds
<1>4. QueueIsTyped'
  BY <1>1 DEF QueueIsTyped, DispatcherEnds, incomingVars
<1>5. StagesAreOrdered'
  BY DEF DispatcherEnds, ConnectionInv, StagesAreOrdered, Handling, callVars, incomingVars
<1>. QED
  BY <1>2, <1>3, <1>4, <1>5 DEF ConnectionInv

LEMMA ReplyKeeps ==
    ASSUME ConnectionInv, NEW n \in Incoming, NEW kind \in {"result", "error"}, Reply(n, kind)
    PROVE  ConnectionInv'
<1> DEFINE x == [kind |-> kind, of |-> n, id |-> 0]
<1>1. x \in Item /\ x.kind \notin CallKinds /\ x.of = n
  BY DEF Item, Id, CallKinds
<1>2. incoming[n] = "request" /\ MessageIsConsistent(n)
  BY DEF Reply, ConnectionInv, MessagesAreConsistent
<1>3. \A y \in ItemsOf(outbox) : y.of # n
  BY <1>2 DEF MessageIsConsistent
<1>4. outbox' = Append(outbox, x) /\ incoming' = [incoming EXCEPT ![n] = "replying"]
  BY DEF Reply, SetIncoming
<1> HIDE DEF x
<1>5. /\ outbox' \in Seq(Item \cup {End})
      /\ OutboxIsTyped'
      /\ ItemsOf(outbox') \subseteq ItemsOf(outbox) \cup {x}
  BY <1>1, <1>3, <1>4, ItemQueued DEF ConnectionInv
<1>6. incoming'[n] = "replying" /\ \A k \in Incoming : k # n => incoming'[k] = incoming[k]
  BY <1>4 DEF ConnectionInv, TypeOK
<1>7. TypeOK'
  <2>1. incoming' \in [Incoming -> IncomingStates]
    BY <1>4 DEF ConnectionInv, TypeOK, IncomingStates
  <2>. QED
    BY <1>5, <2>1 DEF Reply, ConnectionInv, TypeOK, callVars, taskVars
<1>8. IdsAreIssuedOnce' /\ CallsAreConsistent' /\ QueueIsTyped' /\ StagesAreOrdered'
  <2>1. OnlyReplies
    BY <1>1, <1>5 DEF OnlyReplies
  <2>2. closer # "closed"
    BY <1>2 DEF ConnectionInv, StagesAreOrdered, Handling
  <2>. QED
    BY <1>2, <1>5, <1>6, <2>1, <2>2, RepliesLeave DEF Reply, taskVars
<1>9. MessagesAreConsistent'
  <2> SUFFICES ASSUME NEW k \in Incoming PROVE MessageIsConsistent(k)'
    BY DEF MessagesAreConsistent
  <2>1. MessageIsConsistent(k) /\ replies' = replies /\ status' = status
    BY DEF Reply, ConnectionInv, MessagesAreConsistent
  <2>2. CASE k # n
    <3>1. \A y \in ItemsOf(outbox') : y.of = k => y \in ItemsOf(outbox)
      BY <1>1, <1>5, <2>2
    <3>. QED
      BY <1>6, <2>1, <2>2, <3>1 DEF MessageIsConsistent
  <2>3. CASE k = n
    BY <1>2, <1>6, <2>1, <2>3 DEF MessageIsConsistent
  <2>. QED
    BY <2>2, <2>3
<1>. QED
  BY <1>5, <1>7, <1>8, <1>9 DEF ConnectionInv

\* A handler ends without an answer: it has no item in the outbox, or its record stays as it was.
LEMMA HandlerEndsKeeps ==
    ASSUME ConnectionInv, NEW n \in Incoming, ReplyFails(n) \/ NoticeHandled(n) \/ HandlerCancelled(n)
    PROVE  ConnectionInv'
<1>1. /\ incoming[n] \in {"request", "notice", "replying"}
      /\ UNCHANGED <<callVars, taskVars, outbox, queue, queue_closed, replies, supervisor_closed,
                     closer, lost>>
  BY DEF ReplyFails, NoticeHandled, HandlerCancelled, Handling
<1>2. \/ /\ incoming[n] = "request" /\ incoming' = [incoming EXCEPT ![n] = "crashed"]
         /\ status' = [status EXCEPT ![n] = "failed"]
      \/ /\ incoming[n] = "notice" /\ incoming' = [incoming EXCEPT ![n] = "done"]
         /\ status' = status
      \/ /\ incoming' = [incoming EXCEPT ![n] = "cancelled"]
         /\ status' = status
  BY DEF ReplyFails, NoticeHandled, HandlerCancelled, SetIncoming
<1>3. /\ \A k \in Incoming : k # n => incoming'[k] = incoming[k] /\ status'[k] = status[k]
      /\ \/ incoming[n] = "request" /\ incoming'[n] = "crashed" /\ status'[n] = "failed"
         \/ incoming[n] = "notice" /\ incoming'[n] = "done" /\ status'[n] = status[n]
         \/ incoming'[n] = "cancelled" /\ status'[n] = status[n]
  BY <1>2 DEF ConnectionInv, TypeOK
<1>4. TypeOK'
  <2>1. incoming' \in [Incoming -> IncomingStates]
    BY <1>2 DEF ConnectionInv, TypeOK, IncomingStates
  <2>2. status' \in [Incoming -> {"none", "pending", "completed", "failed"}]
    BY <1>2 DEF ConnectionInv, TypeOK
  <2>. QED
    BY <1>1, <2>1, <2>2 DEF ConnectionInv, TypeOK, callVars, taskVars
<1>5. OutboxIsTyped' /\ OnlyReplies
  BY <1>1 DEF ConnectionInv, OutboxIsTyped, OnlyReplies
<1>6. IdsAreIssuedOnce' /\ CallsAreConsistent' /\ QueueIsTyped' /\ StagesAreOrdered'
  <2>1. incoming'[n] \notin {"request", "notice", "replying"}
    BY <1>3
  <2>2. incoming[n] \notin {"queued_request", "queued_notice"}
    BY <1>1
  <2>. QED
    BY <1>1, <1>3, <1>5, <2>1, <2>2, RepliesLeave DEF taskVars
<1>7. MessagesAreConsistent'
  <2> SUFFICES ASSUME NEW k \in Incoming PROVE MessageIsConsistent(k)'
    BY DEF MessagesAreConsistent
  <2>1. MessageIsConsistent(k) /\ replies' = replies /\ outbox' = outbox
    BY <1>1 DEF ConnectionInv, MessagesAreConsistent
  <2>2. CASE k # n
    BY <1>3, <2>1, <2>2 DEF MessageIsConsistent
  <2>3. CASE k = n /\ incoming[n] = "request" /\ incoming'[n] = "crashed" /\ status'[n] = "failed"
    <3>1. replies[k] = <<>> /\ \A x \in ItemsOf(outbox) : x.of # k
      BY <2>1, <2>3 DEF MessageIsConsistent
    <3>2. Len(<<>>) = 0 /\ <<>> # <<"result">> /\ <<>> # <<"error">>
      OBVIOUS
    <3>. QED
      BY <2>1, <2>3, <3>1, <3>2 DEF MessageIsConsistent
  <2>4. CASE k = n /\ incoming[n] = "notice" /\ incoming'[n] = "done" /\ status'[n] = status[n]
    BY <2>1, <2>4 DEF MessageIsConsistent
  <2>5. CASE k = n /\ incoming'[n] = "cancelled" /\ status'[n] = status[n]
    <3>1. \A x \in ItemsOf(outbox) : x.of = k => replies[k] = <<>> /\ status[k] = "pending"
      BY <2>1 DEF MessageIsConsistent
    <3>. QED
      BY <2>1, <2>5, <3>1 DEF MessageIsConsistent
  <2>. QED
    BY <1>3, <2>2, <2>3, <2>4, <2>5
<1>. QED
  BY <1>4, <1>5, <1>6, <1>7 DEF ConnectionInv

-----------------------------------------------------------------------------
(***************************************************************************)
(* close(), and the end of the stream.                                     *)
(***************************************************************************)
\* The steps that only move a task or the stage of close().
LEMMA StageKeeps ==
    ASSUME ConnectionInv, StreamEnds \/ Close \/ StopTasks \/ CancelClose
    PROVE  ConnectionInv'
<1>1. UNCHANGED <<callVars, outbox, queue, queue_closed, incomingVars, lost>>
  BY DEF StreamEnds, Close, StopTasks, CancelClose
<1>2. OutboxIsTyped' /\ IdsAreIssuedOnce' /\ CallsAreConsistent' /\ MessagesAreConsistent'
  BY <1>1, OthersStay
<1>3. QueueIsTyped'
  BY <1>1, QueueStays DEF ConnectionInv, incomingVars
<1>4. TypeOK'
  <2>1. CASE StreamEnds
    BY <2>1, <1>1 DEF StreamEnds, ConnectionInv, TypeOK, callVars, incomingVars
  <2>2. CASE Close
    BY <2>2, <1>1 DEF Close, ConnectionInv, TypeOK, Stages, callVars, incomingVars
  <2>3. CASE StopTasks
    BY <2>3, <1>1 DEF StopTasks, ConnectionInv, TypeOK, Stages, callVars, taskVars, incomingVars
  <2>4. CASE CancelClose
    BY <2>4, <1>1 DEF CancelClose, ConnectionInv, TypeOK, callVars, incomingVars
  <2>. QED
    BY <2>1, <2>2, <2>3, <2>4
<1>5. StagesAreOrdered'
  <2>1. CASE StreamEnds
    BY <2>1 DEF StreamEnds, ConnectionInv, StagesAreOrdered, Handling, callVars, incomingVars
  <2>2. CASE Close
    BY <2>2 DEF Close, ConnectionInv, StagesAreOrdered
  <2>3. CASE StopTasks
    BY <2>3 DEF StopTasks, ConnectionInv, StagesAreOrdered, taskVars
  <2>4. CASE CancelClose
    BY <2>4 DEF CancelClose, ConnectionInv, StagesAreOrdered
  <2>. QED
    BY <2>1, <2>2, <2>3, <2>4
<1>. QED
  BY <1>2, <1>3, <1>4, <1>5 DEF ConnectionInv

LEMMA StopDispatcherKeeps ==
    ASSUME ConnectionInv, StopDispatcher
    PROVE  ConnectionInv'
<1>1. /\ queue' \in Seq(Incoming \cup {End}) /\ Len(queue) \in Nat
      /\ DOMAIN queue = 1..Len(queue) /\ DOMAIN queue' = 1..(Len(queue) + 1)
      /\ \A i \in 1..Len(queue) : queue'[i] = queue[i]
      /\ queue'[Len(queue) + 1] = End
  <2>1. queue \in Seq(Incoming \cup {End}) /\ End \in Incoming \cup {End}
    BY DEF ConnectionInv, TypeOK
  <2>2. queue' = Append(queue, End)
    BY DEF StopDispatcher
  <2>. QED
    BY <2>1, <2>2, AppendProperties
<1>2. TypeOK'
  BY <1>1 DEF StopDispatcher, ConnectionInv, TypeOK, Stages, callVars, taskVars, incomingVars
<1>3. OutboxIsTyped' /\ IdsAreIssuedOnce' /\ CallsAreConsistent' /\ MessagesAreConsistent'
  BY OthersStay DEF StopDispatcher
<1>4. QueueIsTyped'
  <2>1. \A i \in DOMAIN queue' : queue'[i] # End => i \in DOMAIN queue /\ queue'[i] = queue[i]
    BY <1>1
  <2>2. incoming' = incoming
    BY DEF StopDispatcher, incomingVars
  <2>3. ASSUME NEW i \in DOMAIN queue', NEW j \in DOMAIN queue', queue'[i] # End, queue'[i] = queue'[j]
        PROVE  i = j
    <3>1. queue[i] # End /\ queue[i] = queue[j] /\ i \in DOMAIN queue /\ j \in DOMAIN queue
      BY <2>1, <2>3
    <3>. QED
      BY <3>1 DEF ConnectionInv, QueueIsTyped
  <2>4. ASSUME NEW i \in DOMAIN queue', queue'[i] # End
        PROVE  incoming'[queue'[i]] \in {"queued_request", "queued_notice"}
    <3>1. i \in DOMAIN queue /\ queue'[i] = queue[i]
      BY <2>1, <2>4
    <3>. QED
      BY <2>2, <2>4, <3>1 DEF ConnectionInv, QueueIsTyped
  <2>. QED
    BY <2>3, <2>4 DEF QueueIsTyped
<1>5. StagesAreOrdered'
  BY DEF StopDispatcher, ConnectionInv, StagesAreOrdered, taskVars
<1>. QED
  BY <1>2, <1>3, <1>4, <1>5 DEF ConnectionInv

LEMMA StopSenderKeeps ==
    ASSUME ConnectionInv, StopSender
    PROVE  ConnectionInv'
<1>1. /\ outbox' \in Seq(Item \cup {End}) /\ OutboxIsTyped'
      /\ ItemsOf(outbox') \subseteq ItemsOf(outbox)
  BY EndQueued DEF ConnectionInv, StopSender
<1>2. TypeOK'
  BY <1>1 DEF StopSender, ConnectionInv, TypeOK, Stages, callVars, taskVars, incomingVars
<1>3. OnlyReplies /\ OnlyCalls
  BY <1>1 DEF OnlyReplies, OnlyCalls
<1>4. IdsAreIssuedOnce' /\ CallsAreConsistent' /\ MessagesAreConsistent'
  BY <1>1, <1>3, IdsStay, CallsStay, MessagesStay DEF ConnectionInv, StopSender
<1>5. QueueIsTyped'
  BY QueueStays DEF ConnectionInv, StopSender, incomingVars
<1>6. StagesAreOrdered'
  BY DEF StopSender, ConnectionInv, StagesAreOrdered, taskVars
<1>. QED
  BY <1>1, <1>2, <1>4, <1>5, <1>6 DEF ConnectionInv

LEMMA FinishCloseKeeps ==
    ASSUME ConnectionInv, FinishClose
    PROVE  ConnectionInv'
<1>1. /\ call' \in [Call -> CallStates] /\ outgoing' = {}
      /\ OutboxIsTyped' /\ IdsAreIssuedOnce' /\ CallsAreConsistent'
      /\ \A c \in Call : call'[c] # "awaiting"
  BY RejectAllKeeps DEF FinishClose
<1>2. TypeOK'
  BY <1>1 DEF FinishClose, ConnectionInv, TypeOK, Stages, taskVars, incomingVars
<1>3. QueueIsTyped'
  BY QueueStays DEF FinishClose, ConnectionInv, incomingVars
<1>4. MessagesAreConsistent'
  BY MessagesStay DEF FinishClose, ConnectionInv, OnlyCalls
<1>5. StagesAreOrdered'
  BY <1>1 DEF FinishClose, ConnectionInv, StagesAreOrdered, Handling, taskVars, incomingVars
<1>. QED
  BY <1>1, <1>2, <1>3, <1>4, <1>5 DEF ConnectionInv

-----------------------------------------------------------------------------
(***************************************************************************)
(* Theorems.                                                               *)
(***************************************************************************)
LEMMA InvNext == ConnectionInv /\ [Next]_vars => ConnectionInv'
<1> SUFFICES ASSUME ConnectionInv, [Next]_vars PROVE ConnectionInv'
  OBVIOUS
<1>1. ASSUME NEW c \in Call, Caller(c) PROVE ConnectionInv'
  BY <1>1, SendRequestKeeps, SendRequestFailsKeeps, SendNotificationKeeps, CancelCallKeeps
  DEF Caller
<1>2. CASE Sender
  BY <1>2, WriteCallKeeps, WriteReplyKeeps, WriteCallFailsKeeps, WriteReplyFailsKeeps,
     SenderEndsKeeps DEF Sender
<1>3. CASE Receiver
  BY <1>3, ReceiveResponseKeeps, ReceiveKeeps, StageKeeps, StreamFailsKeeps DEF Receiver
<1>4. CASE Dispatcher
  BY <1>4, DispatchKeeps, DispatcherEndsKeeps DEF Dispatcher
<1>5. ASSUME NEW n \in Incoming, Handler(n) PROVE ConnectionInv'
  BY <1>5, ReplyKeeps, HandlerEndsKeeps DEF Handler
<1>6. CASE Closer \/ CancelClose
  BY <1>6, StageKeeps, StopDispatcherKeeps, StopSenderKeeps, FinishCloseKeeps DEF Closer
<1>7. CASE UNCHANGED vars
  <2>1. /\ UNCHANGED <<callVars, taskVars, outbox, queue, queue_closed, incomingVars>>
        /\ UNCHANGED <<supervisor_closed, closer, lost>>
    BY <1>7 DEF vars
  <2>2. OutboxIsTyped' /\ IdsAreIssuedOnce' /\ CallsAreConsistent' /\ MessagesAreConsistent'
    BY <2>1, OthersStay
  <2>3. TypeOK'
    BY <2>1 DEF ConnectionInv, TypeOK, callVars, taskVars, incomingVars
  <2>4. QueueIsTyped'
    BY <2>1, QueueStays DEF ConnectionInv, incomingVars
  <2>5. StagesAreOrdered'
    BY <2>1 DEF ConnectionInv, StagesAreOrdered, Handling, callVars, taskVars, incomingVars
  <2>. QED
    BY <2>2, <2>3, <2>4, <2>5 DEF ConnectionInv
<1>. QED
  BY <1>1, <1>2, <1>3, <1>4, <1>5, <1>6, <1>7 DEF Next

\* The invariant that the properties of one connection rest on: where each call and
\* each message of the peer is, in the queues, in the store, with the peer.
THEOREM Invariance == Spec => []ConnectionInv
<1>1. Init => ConnectionInv
  BY InvInit
<1>2. ConnectionInv /\ [Next]_vars => ConnectionInv'
  BY InvNext
<1>. QED
  BY <1>1, <1>2, PTL DEF Spec

THEOREM TypeCorrectness == Spec => []TypeOK
<1>1. ConnectionInv => TypeOK
  BY DEF ConnectionInv
<1>. QED
  BY <1>1, Invariance, PTL

\* send_request: whatever the order of answers, and also when requests were cancelled
\* or answered twice, a request returns with the answer to it.
THEOREM RequestsGetTheirAnswer == Spec => []OwnAnswer
<1>1. ConnectionInv => OwnAnswer
  BY DEF ConnectionInv, CallsAreConsistent, CallIsConsistent, OwnAnswer
<1>. QED
  BY <1>1, Invariance, PTL

\* InMemoryMessageStateStore: every request that waits for its answer has a record, and
\* no two records have one id.
THEOREM WaitersAreRegistered == Spec => []WaitersRegistered
<1>1. ASSUME ConnectionInv PROVE WaitersRegistered
  <2>1. \A c \in Call : call[c] = "awaiting" => Registered(c)
    BY <1>1 DEF ConnectionInv, CallsAreConsistent, CallIsConsistent
  <2>2. ASSUME NEW r \in outgoing, NEW s \in outgoing, r.id = s.id PROVE r = s
    <3>1. r.call = s.call
      BY <1>1, <2>2 DEF ConnectionInv, IdsAreIssuedOnce, Issued
    <3>2. r \in Record /\ s \in Record
      BY <1>1 DEF ConnectionInv, TypeOK
    <3>. QED
      BY <2>2, <3>1, <3>2 DEF Record
  <2>. QED
    BY <2>1, <2>2 DEF WaitersRegistered
<1>. QED
  BY <1>1, Invariance, PTL

\* The peer gets at most one answer to each request, and the request's record says which.
THEOREM RecordsTellTheReply == Spec => []RepliesMatchRecords
<1>1. ConnectionInv => RepliesMatchRecords
  BY DEF ConnectionInv, MessagesAreConsistent, MessageIsConsistent, RepliesMatchRecords
<1>. QED
  BY <1>1, Invariance, PTL

\* Issue #320: the stages of close() lose nothing that the peer sent, and when close()
\* has returned no task runs and no request waits.
THEOREM CloseIsOrderly == Spec => []OrderlyClose
<1>1. ConnectionInv => OrderlyClose
  BY DEF ConnectionInv, StagesAreOrdered, OrderlyClose
<1>. QED
  BY <1>1, Invariance, PTL
=============================================================================
