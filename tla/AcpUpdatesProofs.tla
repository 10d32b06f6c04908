-------------------------- MODULE AcpUpdatesProofs --------------------------
(***************************************************************************)
(* Theorems about AcpUpdates, for any number of updates and requests.      *)
(***************************************************************************)
EXTENDS AcpUpdates, SequenceTheorems, TLAPS

-----------------------------------------------------------------------------
(***************************************************************************)
(* The inductive invariant.                                                *)
(***************************************************************************)
\* Every pair of elements, in the order of the sequence, is in the relation.
Sorted(q, order) == \A i, j \in DOMAIN q : i < j => <<q[i], q[j]>> \in order

\* The elements of the sequence that have an x in front of them.
Behind(q, x) == {q[j] : j \in {k \in DOMAIN q : \E i \in DOMAIN q : i < k /\ q[i] = x}}

Increasing == {p \in Nat \X Nat : p[1] < p[2]}

\* A callback of the loop, the dispatcher or the caller is ready once, notifications
\* are in the order of their updates.
ReadyOrder ==
    {p \in Callback \X Callback :
        p[1].task = p[2].task => \/ p[1].task = "resume"
                                 \/ p[1].task = "notify" /\ p[1].update < p[2].update}

\* Updates come in their order, and a request is answered once.
InboxOrder ==
    {p \in Message \X Message :
        /\ p[1].kind = "update" /\ p[2].kind = "update" => p[1].id < p[2].id
        /\ p[1].kind # "update" /\ p[2].kind # "update" => p[1].id # p[2].id}

NotifiedIn(q) == {u \in Update : Notification(u) \in ToSet(q)}
ResumingIn(q) == {u \in Update : Resumption(u) \in ToSet(q)}
LateIn(q) == {u \in Update : Notification(u) \in Behind(q, Caller)}

Notified == NotifiedIn(ready)
Resuming == ResumingIn(ready)
Late == LateIn(ready)
Arriving == {u \in Update : [kind |-> "update", id |-> u] \in ToSet(inbox)}
Replies == {r \in Request : \E k \in {"response", "error"} : [kind |-> k, id |-> r] \in ToSet(inbox)}

\* What the client has not stored yet.
Ahead == Notified \cup ToSet(queue) \cup Arriving

Text(u) == u \in DOMAIN sent /\ IsText(u)
IsOf(u, r) == Text(u) /\ sent[u].for = r

Turning == {"prompting", "waiting", "woken", "expired", "draining", "yielding"}
Loading == {"loading", "settling"}
Requesting == {"prompting", "loading"}

\* The event loop has a callback ready for each task that has something to do.
LoopInv ==
    /\ Sorted(ready, ReadyOrder)
    /\ Receiver \in ToSet(ready) <=> inbox # <<>>
    /\ Dispatcher \in ToSet(ready) <=> queue # <<>>
    /\ caller \in {"idle", "waiting", "yielding"} => Caller \notin ToSet(ready)
    /\ caller \in Requesting /\ answer = "none" => Caller \notin ToSet(ready)
    /\ caller = "idle" => answer = "none"

\* Updates on their way were sent.
KnownInv ==
    /\ Ahead \cup ToSet(updates) \cup ToSet(load_updates) \subseteq DOMAIN sent
    /\ \A r \in Request : ToSet(streamed[r]) \subseteq DOMAIN sent
    /\ \A u \in emitting \cup Resuming : u \in DOMAIN sent /\ ~IsText(u)

\* A request that was answered is not answered again, and nothing is said for it.
Answered(r) == outcome[r] \in {"done", "loaded"} \/ (r = request /\ answer # "none")

RequestInv ==
    /\ \A r \in ToSet(serving) \cup Replies : r <= request
    /\ Sorted(serving, Increasing)
    /\ ToSet(serving) \cap Replies = {}
    /\ Sorted(inbox, InboxOrder)
    /\ \A r \in Request : Answered(r) => r \notin ToSet(serving) \cup Replies
    /\ \A r \in Request : r > request => outcome[r] = "none" /\ streamed[r] = <<>>
    /\ \A r \in Request : outcome[r] = "open" <=> r = request /\ caller # "idle"
    /\ caller # "idle" => request \in Request
    /\ caller \in {"loading", "settling"} => streamed[request] = <<>>
    /\ \A r \in stale : r <= request
    /\ caller \in {"prompting", "loading", "settling"} => request \notin stale
    /\ \A u \in DOMAIN sent : IsText(u) => sent[u].for \in 1..request

\* What is said for a request precedes its answer.
SaidOrder ==
    {p \in Message \X Message :
        p[1].kind # "update" /\ p[2].kind = "update" => ~IsOf(p[2].id, p[1].id)}

SaidBefore ==
    /\ Sorted(inbox, SaidOrder)
    /\ \A r \in Request : Answered(r) => \A u \in Arriving : ~IsOf(u, r)

\* The texts overtake each other nowhere.
TextOrder == {p \in Update \X Update : Text(p[1]) /\ Text(p[2]) => p[1] < p[2]}

StreamOrder ==
    /\ \A r \in Request : outcome[r] # "loaded" => Sorted(streamed[r], TextOrder)
    /\ \A q, r \in Request : q < r /\ outcome[q] # "loaded" /\ outcome[r] # "loaded" =>
         \A u \in ToSet(streamed[q]), v \in ToSet(streamed[r]) : <<u, v>> \in TextOrder

OrderInv ==
    /\ Sorted(queue, Increasing)
    /\ \A u \in Notified, v \in ToSet(queue) : u < v
    /\ \A u \in Notified \cup ToSet(queue), v \in Arriving : u < v
    /\ Sorted(updates, TextOrder)
    /\ \A u \in ToSet(updates), v \in Ahead : <<u, v>> \in TextOrder
    /\ StreamOrder
    /\ \A r \in Request, v \in Ahead \cup ToSet(updates) : outcome[r] # "loaded" =>
         \A u \in ToSet(streamed[r]) : <<u, v>> \in TextOrder

\* The caller runs on without having suspended since the answer came, and is going to
\* suspend before it ends.
RunsOn ==
    /\ caller = "draining" /\ ready # <<>> /\ Head(ready) = Caller
    /\ ~update_event
    /\ drained_any \/ updates # <<>>

DispatcherLate == Dispatcher \in Behind(ready, Caller)

\* Where the texts of the current request are.
OnTheWay ==
    /\ caller \in Turning => Texts(request) \subseteq Ahead \cup ToSet(updates) \cup ToSet(streamed[request])
    /\ caller \in Loading => is_loading /\ Texts(request) \subseteq Ahead \cup ToSet(load_updates)

\* They have left the dispatcher's queue when the caller has seen the answer, ...
QueueClear ==
    /\ caller \in Requesting /\ answer # "none" /\ DispatcherLate => \A u \in ToSet(queue) : ~IsOf(u, request)
    /\ caller \notin Requesting \cup {"idle"} => answer # "none" /\ \A u \in ToSet(queue) : ~IsOf(u, request)

\* ... and none of their tasks runs after it, once it has suspended.
Resumed == {"woken", "expired", "draining", "settling"}

LateClear == caller \in Resumed => request \in stale \/ RunsOn \/ \A u \in Late : ~IsOf(u, request)

Arrived == \A r \in Request : outcome[r] = "loaded" \/ Drained(r) => Texts(r) \subseteq ToSet(streamed[r])

DeliveryInv == OnTheWay /\ QueueClear /\ LateClear /\ Arrived

\* A client whose requests were all turns that drained their own texts has no others.
OwnTexts ==
    \A r \in Request :
        outcome[r] \in {"open", "done"} /\ (\A q \in 1..(r - 1) : Drained(q)) =>
            \A u \in ToSet(streamed[r]) : IsText(u) => sent[u].for = r

SeparateInv ==
    /\ caller # "idle" /\ (\A q \in 1..(request - 1) : Drained(q)) =>
         \A u \in Ahead \cup ToSet(updates) : IsText(u) => sent[u].for = request
    /\ caller = "idle" /\ (\A q \in 1..request : Drained(q)) =>
         \A u \in Ahead \cup ToSet(updates) : ~IsText(u)
    /\ OwnTexts

AcpInv ==
    /\ TypeOK
    /\ LoopInv
    /\ KnownInv
    /\ RequestInv
    /\ SaidBefore
    /\ OrderInv
    /\ DeliveryInv
    /\ SeparateInv

-----------------------------------------------------------------------------
(***************************************************************************)
(* Sequences: their elements, their order, and what is behind an element.  *)
(***************************************************************************)
LEMMA Appended ==
    ASSUME NEW S, NEW q \in Seq(S), NEW x \in S
    PROVE  /\ Append(q, x) \in Seq(S) /\ Append(q, x) # <<>>
           /\ ToSet(Append(q, x)) = ToSet(q) \cup {x}
           /\ q # <<>> => Head(Append(q, x)) = Head(q)
<1> DEFINE p == Append(q, x)
<1>1. /\ p \in Seq(S) /\ p # <<>> /\ Len(p) = Len(q) + 1
      /\ \A i \in 1..Len(q) : p[i] = q[i]
      /\ p[Len(q) + 1] = x
  BY AppendProperties
<1>2. DOMAIN p = 1..(Len(q) + 1) /\ DOMAIN q = 1..Len(q) /\ Len(q) \in Nat
  BY <1>1
<1> HIDE DEF p
<1>3. ToSet(p) = ToSet(q) \cup {x}
  <2>1. ASSUME NEW y \in ToSet(p) PROVE y \in ToSet(q) \cup {x}
    BY <1>1, <1>2, <2>1 DEF ToSet
  <2>2. ASSUME NEW y \in ToSet(q) PROVE y \in ToSet(p)
    BY <1>1, <1>2 DEF ToSet
  <2>3. x \in ToSet(p)
    BY <1>1, <1>2 DEF ToSet
  <2>. QED
    BY <2>1, <2>2, <2>3
<1>4. q # <<>> => Head(p) = Head(q)
  BY HeadTailAppend DEF p
<1>. QED
  BY <1>1, <1>3, <1>4 DEF p

LEMMA AppendedSorted ==
    ASSUME NEW S, NEW q \in Seq(S), NEW x \in S, NEW order, Sorted(q, order),
           \A y \in ToSet(q) : <<y, x>> \in order
    PROVE  Sorted(Append(q, x), order)
<1> DEFINE p == Append(q, x)
<1>1. /\ Len(p) = Len(q) + 1
      /\ \A i \in 1..Len(q) : p[i] = q[i]
      /\ p[Len(q) + 1] = x
      /\ p \in Seq(S)
  BY AppendProperties
<1>2. DOMAIN p = 1..(Len(q) + 1) /\ DOMAIN q = 1..Len(q) /\ Len(q) \in Nat
  BY <1>1
<1>3. \A i \in 1..Len(q) : q[i] \in ToSet(q)
  BY <1>2 DEF ToSet
<1> HIDE DEF p
<1>4. ASSUME NEW i \in DOMAIN p, NEW j \in DOMAIN p, i < j PROVE <<p[i], p[j]>> \in order
  <2>1. i \in 1..Len(q) /\ p[i] = q[i]
    BY <1>1, <1>2, <1>4
  <2>2. CASE j = Len(q) + 1
    BY <1>1, <1>3, <2>1, <2>2
  <2>3. CASE j # Len(q) + 1
    <3>1. j \in 1..Len(q) /\ p[j] = q[j]
      BY <1>1, <1>2, <2>3
    <3>. QED
      BY <1>2, <1>4, <2>1, <3>1 DEF Sorted
  <2>. QED
    BY <2>2, <2>3
<1>5. Sorted(p, order)
  BY <1>4 DEF Sorted
<1>. QED
  BY <1>5 DEF p

LEMMA AppendedBehind ==
    ASSUME NEW S, NEW q \in Seq(S), NEW x \in S, NEW y
    PROVE  Behind(Append(q, x), y) = Behind(q, y) \cup (IF y \in ToSet(q) THEN {x} ELSE {})
<1> DEFINE p == Append(q, x)
<1>1. /\ Len(p) = Len(q) + 1
      /\ \A i \in 1..Len(q) : p[i] = q[i]
      /\ p[Len(q) + 1] = x
      /\ p \in Seq(S)
  BY AppendProperties
<1>2. DOMAIN p = 1..(Len(q) + 1) /\ DOMAIN q = 1..Len(q) /\ Len(q) \in Nat
  BY <1>1
<1> HIDE DEF p
<1>3. ASSUME NEW z \in Behind(p, y) PROVE z \in Behind(q, y) \cup (IF y \in ToSet(q) THEN {x} ELSE {})
  <2>1. PICK j \in DOMAIN p, i \in DOMAIN p : i < j /\ p[i] = y /\ p[j] = z
    BY <1>3 DEF Behind
  <2>2. i \in DOMAIN q /\ q[i] = y
    BY <1>1, <1>2, <2>1
  <2>3. CASE j = Len(q) + 1
    BY <1>1, <2>1, <2>2, <2>3 DEF ToSet
  <2>4. CASE j # Len(q) + 1
    <3>1. j \in DOMAIN q /\ q[j] = z
      BY <1>1, <1>2, <2>1, <2>4
    <3>. QED
      BY <2>1, <2>2, <3>1 DEF Behind
  <2>. QED
    BY <2>3, <2>4
<1>4. ASSUME NEW z \in Behind(q, y) PROVE z \in Behind(p, y)
  <2>1. PICK j \in DOMAIN q, i \in DOMAIN q : i < j /\ q[i] = y /\ q[j] = z
    BY <1>4 DEF Behind
  <2>2. /\ j \in DOMAIN p /\ i \in DOMAIN p
        /\ p[i] = y /\ p[j] = z
    BY <1>1, <1>2, <2>1
  <2>. QED
    BY <2>1, <2>2 DEF Behind
<1>5. ASSUME y \in ToSet(q) PROVE x \in Behind(p, y)
  <2>1. PICK i \in DOMAIN q : q[i] = y
    BY <1>5 DEF ToSet
  <2>2. /\ i \in DOMAIN p /\ p[i] = y /\ i < Len(q) + 1
        /\ Len(q) + 1 \in DOMAIN p /\ p[Len(q) + 1] = x
    BY <1>1, <1>2, <2>1
  <2>. QED
    BY <2>2 DEF Behind
<1>6. Behind(p, y) = Behind(q, y) \cup (IF y \in ToSet(q) THEN {x} ELSE {})
  BY <1>3, <1>4, <1>5
<1>. QED
  BY <1>6 DEF p

\* The first element leaves.
LEMMA Shortened ==
    ASSUME NEW S, NEW q \in Seq(S), q # <<>>
    PROVE  /\ Head(q) \in S /\ Tail(q) \in Seq(S)
           /\ ToSet(q) = {Head(q)} \cup ToSet(Tail(q))
           /\ \A y : Behind(Tail(q), y) \subseteq Behind(q, y)
           /\ \A y : y # Head(q) => Behind(Tail(q), y) = Behind(q, y)
           /\ Behind(q, Head(q)) = ToSet(Tail(q))
           /\ Len(q) = 1 <=> Tail(q) = <<>>
<1> DEFINE p == Tail(q)
<1>1. /\ p \in Seq(S)
      /\ Len(p) = Len(q) - 1
      /\ \A i \in 1..Len(p) : p[i] = q[i + 1]
      /\ Head(q) \in S /\ Head(q) = q[1]
  BY HeadTailProperties
<1>2. /\ Len(q) \in Nat \ {0}
      /\ DOMAIN q = 1..Len(q)
      /\ DOMAIN p = 1..(Len(q) - 1)
  BY <1>1, EmptySeq
<1> HIDE DEF p
<1>3. ASSUME NEW i \in DOMAIN p PROVE i + 1 \in DOMAIN q /\ i + 1 # 1 /\ p[i] = q[i + 1]
  BY <1>1, <1>2
<1>4. ASSUME NEW i \in DOMAIN q, i # 1 PROVE i - 1 \in DOMAIN p /\ p[i - 1] = q[i]
  BY <1>1, <1>2, <1>4
<1>5. 1 \in DOMAIN q /\ \A i \in DOMAIN q : i \in Nat /\ 1 <= i
  BY <1>2
<1>6. ToSet(q) = {Head(q)} \cup ToSet(p)
  <2>1. ASSUME NEW y \in ToSet(q) PROVE y = Head(q) \/ y \in ToSet(p)
    <3>1. PICK i \in DOMAIN q : q[i] = y
      BY <2>1 DEF ToSet
    <3>. QED
      BY <1>1, <1>4, <3>1 DEF ToSet
  <2>2. ASSUME NEW y \in ToSet(p) PROVE y \in ToSet(q)
    BY <1>3, <2>2 DEF ToSet
  <2>3. Head(q) \in ToSet(q)
    BY <1>1, <1>5 DEF ToSet
  <2>. QED
    BY <2>1, <2>2, <2>3
<1>7. ASSUME NEW y, NEW z \in Behind(p, y) PROVE z \in Behind(q, y)
  <2>1. PICK j \in DOMAIN p, i \in DOMAIN p : i < j /\ p[i] = y /\ p[j] = z
    BY <1>7 DEF Behind
  <2>2. /\ i + 1 \in DOMAIN q /\ j + 1 \in DOMAIN q /\ q[i + 1] = y /\ q[j + 1] = z
        /\ i + 1 < j + 1
    BY <1>2, <1>3, <2>1
  <2>. QED
    BY <2>2 DEF Behind
<1>8. ASSUME NEW y, y # Head(q), NEW z \in Behind(q, y) PROVE z \in Behind(p, y)
  <2>1. PICK j \in DOMAIN q, i \in DOMAIN q : i < j /\ q[i] = y /\ q[j] = z
    BY <1>8 DEF Behind
  <2>2. i # 1 /\ j # 1
    BY <1>1, <1>5, <1>8, <2>1
  <2>3. /\ i - 1 \in DOMAIN p /\ j - 1 \in DOMAIN p /\ p[i - 1] = y /\ p[j - 1] = z
        /\ i - 1 < j - 1
    BY <1>4, <1>5, <2>1, <2>2
  <2>. QED
    BY <2>3 DEF Behind
<1>9. Behind(q, Head(q)) = ToSet(p)
  <2>1. ASSUME NEW z \in Behind(q, Head(q)) PROVE z \in ToSet(p)
    <3>1. PICK j \in DOMAIN q, i \in DOMAIN q : i < j /\ q[j] = z
      BY <2>1 DEF Behind
    <3>2. j # 1
      BY <1>5, <3>1
    <3>. QED
      BY <1>4, <3>1, <3>2 DEF ToSet
  <2>2. ASSUME NEW z \in ToSet(p) PROVE z \in Behind(q, Head(q))
    <3>1. PICK i \in DOMAIN p : p[i] = z
      BY <2>2 DEF ToSet
    <3>2. i + 1 \in DOMAIN q /\ q[i + 1] = z /\ 1 < i + 1 /\ q[1] = Head(q)
      BY <1>1, <1>2, <1>3, <3>1
    <3>. QED
      BY <1>5, <3>2 DEF Behind
  <2>. QED
    BY <2>1, <2>2
<1>10. Len(q) = 1 <=> p = <<>>
  <2>1. p # <<>> => Len(p) # 0
    BY <1>1, EmptySeq
  <2>2. p = <<>> => Len(p) = 0
    OBVIOUS
  <2>. QED
    BY <1>1, <1>2, <2>1, <2>2
<1>. QED
  BY <1>1, <1>6, <1>7, <1>8, <1>9, <1>10 DEF p

LEMMA ShortenedSorted ==
    ASSUME NEW S, NEW q \in Seq(S), q # <<>>, NEW order, Sorted(q, order)
    PROVE  /\ Sorted(Tail(q), order)
           /\ \A y \in ToSet(Tail(q)) : <<Head(q), y>> \in order
<1> DEFINE p == Tail(q)
<1>1. /\ p \in Seq(S)
      /\ Len(p) = Len(q) - 1
      /\ \A i \in 1..Len(p) : p[i] = q[i + 1]
      /\ Head(q) = q[1]
  BY HeadTailProperties
<1>2. /\ Len(q) \in Nat \ {0}
      /\ DOMAIN q = 1..Len(q)
      /\ DOMAIN p = 1..(Len(q) - 1)
  BY <1>1, EmptySeq
<1> HIDE DEF p
<1>3. ASSUME NEW i \in DOMAIN p PROVE i + 1 \in DOMAIN q /\ 1 < i + 1 /\ p[i] = q[i + 1]
  BY <1>1, <1>2
<1>4. Sorted(p, order)
  <2>1. ASSUME NEW i \in DOMAIN p, NEW j \in DOMAIN p, i < j PROVE <<p[i], p[j]>> \in order
    <3>1. i + 1 < j + 1
      BY <1>2, <2>1
    <3>. QED
      BY <1>3, <3>1 DEF Sorted
  <2>. QED
    BY <2>1 DEF Sorted
<1>5. ASSUME NEW y \in ToSet(p) PROVE <<Head(q), y>> \in order
  <2>1. PICK i \in DOMAIN p : p[i] = y
    BY <1>5 DEF ToSet
  <2>2. 1 \in DOMAIN q
    BY <1>2
  <2>. QED
    BY <1>1, <1>3, <2>1, <2>2 DEF Sorted
<1>. QED
  BY <1>4, <1>5 DEF p

\* Another sequence is put behind.
LEMMA Joined ==
    ASSUME NEW S, NEW q \in Seq(S), NEW t \in Seq(S)
    PROVE  /\ q \o t \in Seq(S)
           /\ ToSet(q \o t) = ToSet(q) \cup ToSet(t)
           /\ \A y \in S : y \notin ToSet(t) =>
                 Behind(q \o t, y) = Behind(q, y) \cup (IF y \in ToSet(q) THEN ToSet(t) ELSE {})
<1> DEFINE p == q \o t
<1>1. /\ p \in Seq(S) /\ Len(p) = Len(q) + Len(t)
      /\ \A i \in 1..(Len(q) + Len(t)) : p[i] = IF i <= Len(q) THEN q[i] ELSE t[i - Len(q)]
  BY ConcatProperties
<1>2. /\ DOMAIN p = 1..(Len(q) + Len(t)) /\ DOMAIN q = 1..Len(q) /\ DOMAIN t = 1..Len(t)
      /\ Len(q) \in Nat /\ Len(t) \in Nat
  BY <1>1
<1> HIDE DEF p
<1>3. ASSUME NEW i \in DOMAIN q PROVE i \in DOMAIN p /\ p[i] = q[i] /\ i <= Len(q) /\ i \in Nat
  BY <1>1, <1>2
<1>4. ASSUME NEW i \in DOMAIN t
      PROVE  i + Len(q) \in DOMAIN p /\ p[i + Len(q)] = t[i] /\ i + Len(q) > Len(q)
  <2>1. i + Len(q) \in 1..(Len(q) + Len(t)) /\ ~(i + Len(q) <= Len(q)) /\ (i + Len(q)) - Len(q) = i
    BY <1>2
  <2>. QED
    BY <1>1, <1>2, <2>1
<1>5. ASSUME NEW i \in DOMAIN p, i \notin DOMAIN q
      PROVE  i - Len(q) \in DOMAIN t /\ p[i] = t[i - Len(q)]
  BY <1>1, <1>2, <1>5
<1>6. ToSet(p) = ToSet(q) \cup ToSet(t)
  <2>1. ASSUME NEW y \in ToSet(p) PROVE y \in ToSet(q) \cup ToSet(t)
    <3>1. PICK i \in DOMAIN p : p[i] = y
      BY <2>1 DEF ToSet
    <3>. QED
      BY <1>3, <1>5, <3>1 DEF ToSet
  <2>2. ASSUME NEW y \in ToSet(q) \cup ToSet(t) PROVE y \in ToSet(p)
    BY <1>3, <1>4, <2>2 DEF ToSet
  <2>. QED
    BY <2>1, <2>2
<1>7. ASSUME NEW y, y \notin ToSet(t)
      PROVE  Behind(p, y) = Behind(q, y) \cup (IF y \in ToSet(q) THEN ToSet(t) ELSE {})
  <2>1. ASSUME NEW z \in Behind(p, y)
        PROVE  z \in Behind(q, y) \cup (IF y \in ToSet(q) THEN ToSet(t) ELSE {})
    <3>1. PICK j \in DOMAIN p, i \in DOMAIN p : i < j /\ p[i] = y /\ p[j] = z
      BY <2>1 DEF Behind
    <3>2. i \in DOMAIN q /\ q[i] = y
      BY <1>3, <1>5, <1>7, <3>1 DEF ToSet
    <3>3. CASE j \in DOMAIN q
      BY <1>3, <3>1, <3>2, <3>3 DEF Behind
    <3>4. CASE j \notin DOMAIN q
      BY <1>5, <3>1, <3>2, <3>4 DEF ToSet
    <3>. QED
      BY <3>3, <3>4
  <2>2. ASSUME NEW z \in Behind(q, y) PROVE z \in Behind(p, y)
    BY <1>3, <2>2 DEF Behind
  <2>3. ASSUME y \in ToSet(q), NEW z \in ToSet(t) PROVE z \in Behind(p, y)
    <3>1. PICK i \in DOMAIN q : q[i] = y
      BY <2>3 DEF ToSet
    <3>2. PICK j \in DOMAIN t : t[j] = z
      BY <2>3 DEF ToSet
    <3>3. i \in DOMAIN p /\ p[i] = y /\ j + Len(q) \in DOMAIN p /\ p[j + Len(q)] = z /\ i < j + Len(q)
      BY <1>2, <1>3, <1>4, <3>1, <3>2
    <3>. QED
      BY <3>3 DEF Behind
  <2>. QED
    BY <2>1, <2>2, <2>3
<1>. QED
  BY <1>1, <1>6, <1>7 DEF p

LEMMA JoinedSorted ==
    ASSUME NEW S, NEW q \in Seq(S), NEW t \in Seq(S), NEW order, Sorted(q, order), Sorted(t, order),
           \A x \in ToSet(q), y \in ToSet(t) : <<x, y>> \in order
    PROVE  Sorted(q \o t, order)
<1> DEFINE p == q \o t
<1>1. /\ p \in Seq(S) /\ Len(p) = Len(q) + Len(t)
      /\ \A i \in 1..(Len(q) + Len(t)) : p[i] = IF i <= Len(q) THEN q[i] ELSE t[i - Len(q)]
  BY ConcatProperties
<1>2. /\ DOMAIN p = 1..(Len(q) + Len(t)) /\ DOMAIN q = 1..Len(q) /\ DOMAIN t = 1..Len(t)
      /\ Len(q) \in Nat /\ Len(t) \in Nat
  BY <1>1
<1> HIDE DEF p
<1>3. ASSUME NEW i \in DOMAIN p, i \in DOMAIN q PROVE p[i] = q[i] /\ q[i] \in ToSet(q)
  BY <1>1, <1>2, <1>3 DEF ToSet
<1>4. ASSUME NEW i \in DOMAIN p, i \notin DOMAIN q
      PROVE  i - Len(q) \in DOMAIN t /\ p[i] = t[i - Len(q)] /\ p[i] \in ToSet(t)
  <2>1. i - Len(q) \in DOMAIN t /\ p[i] = t[i - Len(q)]
    BY <1>1, <1>2, <1>4
  <2>. QED
    BY <2>1 DEF ToSet
<1>5. ASSUME NEW i \in DOMAIN p, NEW j \in DOMAIN p, i < j PROVE <<p[i], p[j]>> \in order
  <2>1. CASE j \in DOMAIN q
    <3>1. i \in DOMAIN q
      BY <1>2, <1>5, <2>1
    <3>. QED
      BY <1>3, <1>5, <2>1, <3>1 DEF Sorted
  <2>2. CASE i \in DOMAIN q /\ j \notin DOMAIN q
    BY <1>3, <1>4, <2>2
  <2>3. CASE i \notin DOMAIN q /\ j \notin DOMAIN q
    <3>1. i - Len(q) < j - Len(q)
      BY <1>2, <1>5
    <3>. QED
      BY <1>4, <2>3, <3>1 DEF Sorted
  <2>. QED
    BY <2>1, <2>2, <2>3
<1>6. Sorted(p, order)
  BY <1>5 DEF Sorted
<1>. QED
  BY <1>6 DEF p

\* An element is taken out.
LEMMA TakenOut ==
    ASSUME NEW S, NEW q \in Seq(S), NEW k \in DOMAIN q, NEW order, Sorted(q, order),
           <<q[k], q[k]>> \notin order
    PROVE  /\ RemoveAt(q, k) \in Seq(S)
           /\ ToSet(RemoveAt(q, k)) = ToSet(q) \ {q[k]}
           /\ Sorted(RemoveAt(q, k), order)
<1> DEFINE a == SubSeq(q, 1, k - 1)
           b == SubSeq(q, k + 1, Len(q))
<1>1. /\ Len(q) \in Nat /\ DOMAIN q = 1..Len(q) /\ k \in 1..Len(q)
      /\ \A i \in 1..Len(q) : q[i] \in S
  OBVIOUS
<1>2. /\ a \in Seq(S) /\ Len(a) = k - 1
      /\ \A i \in 1..(k - 1) : a[i] = q[i]
  <2>1. \A i \in 1..(k - 1) : q[i] \in S
    BY <1>1
  <2>2. Len(a) = (IF 1 <= k - 1 THEN (k - 1) - 1 + 1 ELSE 0)
    BY <1>1, <2>1, SubSeqProperties, 1 \in Int, k - 1 \in Int
  <2>. QED
    BY <1>1, <2>1, <2>2, SubSeqProperties
<1>3. /\ b \in Seq(S) /\ Len(b) = Len(q) - k
      /\ \A i \in 1..(Len(q) - k) : b[i] = q[k + i]
  <2>1. \A i \in (k + 1)..Len(q) : q[i] \in S
    BY <1>1
  <2>. QED
    BY <1>1, <2>1, SubSeqProperties
<1>4. RemoveAt(q, k) = a \o b
  BY DEF RemoveAt
<1> HIDE DEF a, b
<1>5. DOMAIN a = 1..(k - 1) /\ DOMAIN b = 1..(Len(q) - k)
  BY <1>2, <1>3
<1>6. ASSUME NEW i \in DOMAIN a PROVE i \in DOMAIN q /\ i < k /\ a[i] = q[i]
  BY <1>1, <1>2, <1>5
<1>7. ASSUME NEW i \in DOMAIN b PROVE k + i \in DOMAIN q /\ k < k + i /\ b[i] = q[k + i]
  <2>1. i \in 1..(Len(q) - k)
    BY <1>5
  <2>2. k + i \in 1..Len(q) /\ k < k + i
    BY <1>1, <2>1
  <2>. QED
    BY <1>1, <1>3, <2>1, <2>2
<1>8. ToSet(a) \cup ToSet(b) = ToSet(q) \ {q[k]}
  <2>1. ASSUME NEW y \in ToSet(a) \cup ToSet(b) PROVE y \in ToSet(q) \ {q[k]}
    <3>1. CASE y \in ToSet(a)
      <4>1. PICK i \in DOMAIN a : a[i] = y
        BY <3>1 DEF ToSet
      <4>2. <<q[i], q[k]>> \in order
        BY <1>6, <4>1 DEF Sorted
      <4>. QED
        BY <1>6, <4>1, <4>2 DEF ToSet
    <3>2. CASE y \in ToSet(b)
      <4>1. PICK i \in DOMAIN b : b[i] = y
        BY <3>2 DEF ToSet
      <4>2. <<q[k], q[k + i]>> \in order
        BY <1>7, <4>1 DEF Sorted
      <4>. QED
        BY <1>7, <4>1, <4>2 DEF ToSet
    <3>. QED
      BY <2>1, <3>1, <3>2
  <2>2. ASSUME NEW y \in ToSet(q), y # q[k] PROVE y \in ToSet(a) \cup ToSet(b)
    <3>1. PICK i \in DOMAIN q : q[i] = y
      BY <2>2 DEF ToSet
    <3>2. CASE i < k
      <4>1. i \in DOMAIN a
        BY <1>1, <1>5, <3>2
      <4>. QED
        BY <1>6, <3>1, <4>1 DEF ToSet
    <3>3. CASE i > k
      <4>1. i - k \in DOMAIN b /\ k + (i - k) = i
        BY <1>1, <1>5, <3>3
      <4>. QED
        BY <1>7, <3>1, <4>1 DEF ToSet
    <3>. QED
      BY <1>1, <2>2, <3>1, <3>2, <3>3
  <2>. QED
    BY <2>1, <2>2
<1>9. Sorted(a, order)
  BY <1>6 DEF Sorted
<1>10. Sorted(b, order)
  <2>1. ASSUME NEW i \in DOMAIN b, NEW j \in DOMAIN b, i < j PROVE <<b[i], b[j]>> \in order
    <3>1. k + i < k + j
      BY <1>1, <1>5, <2>1
    <3>. QED
      BY <1>7, <3>1 DEF Sorted
  <2>. QED
    BY <2>1 DEF Sorted
<1>11. \A x \in ToSet(a), y \in ToSet(b) : <<x, y>> \in order
  <2>1. ASSUME NEW x \in ToSet(a), NEW y \in ToSet(b) PROVE <<x, y>> \in order
    <3>1. PICK i \in DOMAIN a : a[i] = x
      BY <2>1 DEF ToSet
    <3>2. PICK j \in DOMAIN b : b[j] = y
      BY <2>1 DEF ToSet
    <3>3. i < k + j
      BY <1>1, <1>5, <1>6, <1>7
    <3>. QED
      BY <1>6, <1>7, <3>1, <3>2, <3>3 DEF Sorted
  <2>. QED
    BY <2>1
<1>. QED
  BY <1>2, <1>3, <1>4, <1>8, <1>9, <1>10, <1>11, Joined, JoinedSorted

\* Nothing is behind what is not there.
LEMMA NoneBehind ==
    ASSUME NEW q, NEW y, y \notin ToSet(q)
    PROVE  Behind(q, y) = {}
  BY DEF Behind, ToSet

LEMMA BehindMembers ==
    ASSUME NEW q, NEW y
    PROVE  Behind(q, y) \subseteq ToSet(q)
  BY DEF Behind, ToSet

-----------------------------------------------------------------------------
(***************************************************************************)
(* Callbacks and messages.                                                 *)
(***************************************************************************)
LEMMA Callbacks ==
    /\ {Receiver, Dispatcher, Caller} \subseteq Callback
    /\ \A u \in Update : Notification(u) \in Callback /\ Resumption(u) \in Callback
    /\ Receiver.task = "receive" /\ Dispatcher.task = "dispatch" /\ Caller.task = "caller"
    /\ \A u : Notification(u).task = "notify" /\ Notification(u).update = u
    /\ \A u : Resumption(u).task = "resume" /\ Resumption(u).update = u
  BY DEF Callback, Receiver, Dispatcher, Caller, Notification, Resumption

LEMMA CallbackKinds ==
    ASSUME NEW c \in Callback
    PROVE  \/ c \in {Receiver, Dispatcher, Caller}
           \/ \E u \in Update : c.update = u /\ (c = Notification(u) \/ c = Resumption(u))
<1>1. CASE c \in [task : {"receive", "dispatch", "caller"}]
  BY <1>1 DEF Receiver, Dispatcher, Caller
<1>2. CASE c \in [task : {"notify", "resume"}, update : Update]
  BY <1>2 DEF Notification, Resumption
<1>. QED
  BY <1>1, <1>2 DEF Callback

LEMMA Messages ==
    /\ \A u \in Update : [kind |-> "update", id |-> u] \in Message
    /\ \A r \in Request : \A k \in {"response", "error"} : [kind |-> k, id |-> r] \in Message
  BY DEF Message

LEMMA MessageKinds ==
    ASSUME NEW m \in Message
    PROVE  \/ m.kind = "update" /\ m.id \in Update /\ m = [kind |-> "update", id |-> m.id]
           \/ m.kind \in {"response", "error"} /\ m.id \in Request /\ m = [kind |-> m.kind, id |-> m.id]
  BY DEF Message

\* The tasks of the notifications, in the order of the queue.
Tasks(q) == [i \in DOMAIN q |-> Notification(q[i])]

LEMMA TasksOf ==
    ASSUME NEW q \in Seq(Update)
    PROVE  /\ Tasks(q) \in Seq(Callback)
           /\ \A u : Notification(u) \in ToSet(Tasks(q)) <=> u \in ToSet(q)
           /\ \A c \in ToSet(Tasks(q)) : c.task = "notify" /\ c.update \in ToSet(q)
           /\ Sorted(q, Increasing) => Sorted(Tasks(q), ReadyOrder)
<1>1. DOMAIN q = 1..Len(q) /\ Len(q) \in Nat /\ \A i \in DOMAIN q : q[i] \in Update
  OBVIOUS
<1>2. DOMAIN Tasks(q) = 1..Len(q) /\ \A i \in DOMAIN q : Tasks(q)[i] = Notification(q[i])
  BY <1>1 DEF Tasks
<1>3. \A i \in DOMAIN q : Tasks(q)[i] \in Callback
  BY <1>1, <1>2, Callbacks
<1>4. Tasks(q) \in Seq(Callback)
  BY <1>1, <1>2, <1>3 DEF Tasks
<1>5. ASSUME NEW c \in ToSet(Tasks(q)) PROVE \E i \in DOMAIN q : c = Notification(q[i])
  BY <1>1, <1>2, <1>5 DEF ToSet
<1>6. ASSUME NEW u, Notification(u) \in ToSet(Tasks(q)) PROVE u \in ToSet(q)
  <2>1. PICK i \in DOMAIN q : Notification(u) = Notification(q[i])
    BY <1>5, <1>6
  <2>2. u = q[i]
    BY <2>1, Callbacks
  <2>. QED
    BY <2>2 DEF ToSet
<1>7. \A u : u \in ToSet(q) => Notification(u) \in ToSet(Tasks(q))
  BY <1>1, <1>2 DEF ToSet
<1>8. ASSUME NEW c \in ToSet(Tasks(q)) PROVE c.task = "notify" /\ c.update \in ToSet(q)
  <2>1. PICK i \in DOMAIN q : c = Notification(q[i])
    BY <1>5
  <2>2. c.task = "notify" /\ c.update = q[i]
    BY <2>1, Callbacks
  <2>. QED
    BY <2>2 DEF ToSet
<1>9. ASSUME Sorted(q, Increasing), NEW i \in DOMAIN q, NEW j \in DOMAIN q, i < j
      PROVE  <<Tasks(q)[i], Tasks(q)[j]>> \in ReadyOrder
  <2>1. q[i] < q[j]
    BY <1>9 DEF Sorted, Increasing
  <2>2. /\ Tasks(q)[i].task = "notify" /\ Tasks(q)[i].update = q[i]
        /\ Tasks(q)[j].task = "notify" /\ Tasks(q)[j].update = q[j]
    BY <1>2, Callbacks
  <2>3. Tasks(q)[i] \in Callback /\ Tasks(q)[j] \in Callback
    BY <1>3
  <2>. QED
    BY <2>1, <2>2, <2>3 DEF ReadyOrder
<1>. QED
  BY <1>1, <1>2, <1>4, <1>6, <1>7, <1>8, <1>9 DEF Sorted

-----------------------------------------------------------------------------
(***************************************************************************)
(* Type correctness.                                                       *)
(***************************************************************************)
LEMMA TypeInit == Init => TypeOK
<1> SUFFICES ASSUME Init PROVE TypeOK
  OBVIOUS
<1>1. /\ sent \in Seq([kind : Kind, for : Request \cup {0}]) /\ Len(sent) <= MaxUpdates
      /\ serving \in Seq(Request) /\ ready \in Seq(Callback) /\ inbox \in Seq(Message)
      /\ queue \in Seq(Update) /\ updates \in Seq(Update) /\ load_updates \in Seq(Update)
  BY EmptySeq, BoundsAssumption DEF Init
<1>2. outcome \in [Request -> Outcomes] /\ streamed \in [Request -> Seq(Update)]
  BY EmptySeq DEF Init, Outcomes
<1>3. request \in 0..MaxRequests /\ caller \in CallerStates
  BY BoundsAssumption DEF Init, CallerStates
<1>. QED
  BY <1>1, <1>2, <1>3 DEF Init, TypeOK

\* What the transport and the connection do to the lines and callbacks.
LEMMA ArriveTypes ==
    ASSUME TypeOK, NEW m \in Message, Arrive(m)
    PROVE  inbox' \in Seq(Message) /\ ready' \in Seq(Callback)
  BY Appended, Callbacks DEF TypeOK, Arrive

LEMMA AfterLineTypes ==
    ASSUME TypeOK, ready # <<>>
    PROVE  AfterLine \in Seq(Callback)
  BY Shortened DEF TypeOK, AfterLine

LEMMA AgentTypes ==
    ASSUME TypeOK, Agent
    PROVE  TypeOK'
<1>1. ASSUME NEW kind \in Kind, SendUpdate(kind) PROVE TypeOK'
  <2> DEFINE entry == [kind |-> kind, for |-> IF serving = <<>> THEN 0 ELSE Head(serving)]
  <2>1. entry \in [kind : Kind, for : Request \cup {0}]
    <3>1. serving # <<>> => Head(serving) \in Request
      BY Shortened DEF TypeOK
    <3>. QED
      BY <3>1
  <2>2. Len(sent) + 1 \in Update /\ Len(sent) \in Nat
    BY <1>1, BoundsAssumption DEF SendUpdate, TypeOK, Update
  <2>3. inbox' \in Seq(Message) /\ ready' \in Seq(Callback)
    BY <1>1, <2>2, Messages, ArriveTypes DEF SendUpdate
  <2> HIDE DEF entry
  <2>4. sent' = Append(sent, entry)
    BY <1>1 DEF SendUpdate, entry
  <2>5. sent' \in Seq([kind : Kind, for : Request \cup {0}]) /\ Len(sent') = Len(sent) + 1
    BY <2>1, <2>4, AppendProperties DEF TypeOK
  <2>. QED
    BY <1>1, <2>2, <2>3, <2>5, BoundsAssumption
       DEF SendUpdate, TypeOK, stateVars, callerVars, Update
<1>2. ASSUME NEW k \in {"response", "error"}, Respond(k) PROVE TypeOK'
  <2>1. Head(serving) \in Request /\ serving' \in Seq(Request)
    BY <1>2, Shortened DEF TypeOK, Respond
  <2>2. inbox' \in Seq(Message) /\ ready' \in Seq(Callback)
    BY <1>2, <2>1, Messages, ArriveTypes DEF Respond
  <2>. QED
    BY <1>2, <2>1, <2>2 DEF Respond, TypeOK, stateVars, callerVars
<1>. QED
  BY <1>1, <1>2 DEF Agent

LEMMA ConnectionTypes ==
    ASSUME TypeOK, Running("receive") => inbox # <<>>, Connection
    PROVE  TypeOK'
<1>1. CASE ReceiveUpdate
  <2>1. Head(inbox) \in Message /\ inbox' \in Seq(Message)
    BY <1>1, Shortened DEF TypeOK, ReceiveUpdate
  <2>2. Head(inbox).id \in Update
    BY <1>1, <2>1, MessageKinds DEF ReceiveUpdate
  <2>3. ready' \in Seq(Callback)
    BY <1>1, AfterLineTypes, Callbacks, Appended DEF ReceiveUpdate, Running
  <2>4. queue' \in Seq(Update)
    BY <1>1, <2>2, Appended DEF ReceiveUpdate, TypeOK
  <2>. QED
    BY <1>1, <2>1, <2>3, <2>4 DEF ReceiveUpdate, TypeOK, agentVars, stateVars, callerVars
<1>2. CASE ReceiveResponse
  <2>1. Head(inbox) \in Message /\ inbox' \in Seq(Message)
    BY <1>2, Shortened DEF TypeOK, ReceiveResponse
  <2>2. Head(inbox).kind \in {"response", "error"}
    BY <1>2, <2>1, MessageKinds DEF ReceiveResponse
  <2>3. ready' \in Seq(Callback)
    BY <1>2, AfterLineTypes, Callbacks, Appended DEF ReceiveResponse, Running
  <2>4. answer' \in {"none", "response", "error"}
    BY <1>2, <2>2 DEF ReceiveResponse, TypeOK
  <2>. QED
    BY <1>2, <2>1, <2>3, <2>4 DEF ReceiveResponse, TypeOK, agentVars, stateVars, callerVars
<1>3. CASE Dispatch
  <2>1. ready' = Tail(ready) \o Tasks(queue) /\ ready # <<>>
    BY <1>3 DEF Dispatch, Tasks, Running
  <2>2. ready' \in Seq(Callback)
    BY <2>1, Shortened, TasksOf, Joined DEF TypeOK
  <2>. QED
    BY <1>3, <2>2, EmptySeq DEF Dispatch, TypeOK, agentVars, stateVars, callerVars
<1>. QED
  BY <1>1, <1>2, <1>3 DEF Connection

LEMMA HandlerTypes ==
    ASSUME TypeOK, \/ Handler
                   \/ \E u \in emitting : Emitted(u)
    PROVE  TypeOK'
<1>1. CASE EmitUpdate
  <2>1. ready # <<>> /\ Head(ready) \in Callback /\ ready' \in Seq(Callback) /\ Head(ready).task = "notify"
    BY <1>1, Shortened DEF TypeOK, EmitUpdate, Running
  <2>2. Head(ready).update \in Update
    BY <2>1, CallbackKinds, Callbacks
  <2>. QED
    BY <1>1, <2>1, <2>2 DEF EmitUpdate, TypeOK, agentVars, callerVars
<1>2. CASE StoreUpdate
  <2> DEFINE u == Head(ready).update
  <2>1. ready # <<>> /\ Head(ready) \in Callback /\ Tail(ready) \in Seq(Callback)
        /\ Head(ready).task \in {"notify", "resume"}
    BY <1>2, Shortened DEF TypeOK, StoreUpdate, Running
  <2>2. u \in Update
    BY <2>1, CallbackKinds, Callbacks
  <2>3. ready' \in Seq(Callback) /\ caller' \in CallerStates /\ update_event' \in BOOLEAN
    <3>1. Append(Tail(ready), Caller) \in Seq(Callback)
      BY <2>1, Callbacks, Appended
    <3>. QED
      BY <1>2, <2>1, <3>1 DEF StoreUpdate, SetEvent, TypeOK, CallerStates
  <2>4. updates' \in Seq(Update) /\ load_updates' \in Seq(Update)
    <3>1. Append(updates, u) \in Seq(Update) /\ Append(load_updates, u) \in Seq(Update)
      BY <2>2, Appended DEF TypeOK
    <3>. QED
      BY <1>2, <3>1 DEF StoreUpdate, AddUpdate, TypeOK
  <2>. QED
    BY <1>2, <2>3, <2>4 DEF StoreUpdate, TypeOK, agentVars
<1>3. ASSUME NEW u \in emitting, Emitted(u) PROVE TypeOK'
  <2>1. ready' \in Seq(Callback)
    BY <1>3, Callbacks, Appended DEF Emitted, TypeOK
  <2>. QED
    BY <1>3, <2>1 DEF Emitted, TypeOK, agentVars, callerVars
<1>. QED
  BY <1>1, <1>2, <1>3 DEF Handler

LEMMA NextRoundTypes ==
    ASSUME TypeOK, ready # <<>>, NextRound
    PROVE  /\ drained_any' \in BOOLEAN /\ update_event' \in BOOLEAN
           /\ caller' \in CallerStates /\ ready' \in Seq(Callback)
<1>1. Tail(ready) \in Seq(Callback)
  BY Shortened DEF TypeOK
<1>2. CASE update_event
  BY <1>2 DEF TypeOK, NextRound, SetCaller, CallerStates
<1>3. CASE ~update_event
  BY <1>1, <1>3 DEF TypeOK, NextRound, SetCaller, CallerStates
<1>. QED
  BY <1>2, <1>3

LEMMA EndTypes ==
    ASSUME TypeOK, NEW result \in Outcomes, End(result)
    PROVE  /\ drained_any' \in BOOLEAN /\ answer' \in {"none", "response", "error"}
           /\ caller' \in CallerStates /\ outcome' \in [Request -> Outcomes]
  BY DEF TypeOK, End, SetCaller, CallerStates

LEMMA TurnTypes ==
    ASSUME TypeOK, caller # "idle" => request \in Request,
           TurnStep \/ Timeout \/ ConsumerResumes
    PROVE  TypeOK'
<1> USE DEF agentVars, stateVars, loopVars
<1>1. CASE BeginStream
  <2>2. stale' \subseteq Request
    BY <1>1 DEF BeginStream, TypeOK
  <2>. QED
    BY <1>1, <2>2, NextRoundTypes DEF BeginStream, TypeOK, Running
<1>2. CASE PromptFails
  BY <1>2, EndTypes, Shortened DEF PromptFails, TypeOK, Outcomes, Running
<1>3. CASE EndWait
  BY <1>3 DEF EndWait, TypeOK, SetCaller, CallerStates
<1>4. ASSUME NEW b \in BOOLEAN, Pop(b) PROVE TypeOK'
  <2>1. Head(updates) \in Update /\ updates' \in Seq(Update)
    BY <1>4, Shortened DEF Pop, TypeOK
  <2>2. streamed' \in [Request -> Seq(Update)]
    <3>1. \A r \in Request : Append(streamed[r], Head(updates)) \in Seq(Update)
      BY <2>1, Appended DEF TypeOK
    <3>. QED
      BY <1>4, <3>1 DEF Pop, TypeOK
  <2>3. ready' \in Seq(Callback) /\ caller' \in CallerStates
    <3>1. Tail(ready) \in Seq(Callback)
      BY <1>4, Shortened DEF Pop, TypeOK, Running
    <3>. QED
      BY <1>4, <3>1 DEF Pop, TypeOK, SetCaller, CallerStates
  <2>. QED
    BY <1>4, <2>1, <2>2, <2>3 DEF Pop, TypeOK
<1>5. CASE DrainAgain
  BY <1>5, NextRoundTypes DEF DrainAgain, TypeOK, Running
<1>6. CASE EndTurn
  BY <1>6, EndTypes, Shortened DEF EndTurn, TypeOK, Outcomes, Running
<1>7. CASE Timeout
  BY <1>7, Callbacks, Appended DEF Timeout, TypeOK, SetCaller, CallerStates
<1>8. CASE ConsumerResumes
  BY <1>8, Callbacks, Appended DEF ConsumerResumes, TypeOK, SetCaller, CallerStates
<1>. QED
  BY <1>1, <1>2, <1>3, <1>4, <1>5, <1>6, <1>7, <1>8 DEF TurnStep

LEMMA LoadTypes ==
    ASSUME TypeOK, LoadStep
    PROVE  TypeOK'
<1> USE DEF agentVars, stateVars
<1>1. CASE Settle
  BY <1>1, Callbacks, Shortened, Appended DEF Settle, TypeOK, SetCaller, CallerStates, Running
<1>2. CASE Capture
  BY <1>2, EndTypes, Shortened, EmptySeq DEF Capture, FinishLoad, TypeOK, Outcomes, Running
<1>3. CASE LoadFails
  BY <1>3, EndTypes, Shortened, EmptySeq DEF LoadFails, FinishLoad, TypeOK, Outcomes, Running
<1>. QED
  BY <1>1, <1>2, <1>3 DEF LoadStep

\* The caller's callback is taken out of what is ready.
LEMMA CallerLeaves ==
    ASSUME ready \in Seq(Callback), Sorted(ready, ReadyOrder),
           \/ Caller \notin ToSet(ready) /\ UNCHANGED ready
           \/ \E i \in DOMAIN ready : ready[i] = Caller /\ ready' = RemoveAt(ready, i)
    PROVE  /\ ready' \in Seq(Callback) /\ Sorted(ready, ReadyOrder)'
           /\ ToSet(ready') = ToSet(ready) \ {Caller}
<1>1. CASE Caller \notin ToSet(ready) /\ UNCHANGED ready
  BY <1>1
<1>2. ASSUME NEW i \in DOMAIN ready, ready[i] = Caller, ready' = RemoveAt(ready, i)
      PROVE  /\ ready' \in Seq(Callback) /\ Sorted(ready, ReadyOrder)'
             /\ ToSet(ready') = ToSet(ready) \ {Caller}
  <2>1. <<Caller, Caller>> \notin ReadyOrder
    BY Callbacks DEF ReadyOrder
  <2>2. /\ RemoveAt(ready, i) \in Seq(Callback) /\ Sorted(RemoveAt(ready, i), ReadyOrder)
        /\ ToSet(RemoveAt(ready, i)) = ToSet(ready) \ {ready[i]}
    BY <1>2, <2>1, TakenOut
  <2>. QED
    BY <1>2, <2>2
<1>. QED
  BY <1>1, <1>2

LEMMA ClientTypes ==
    ASSUME TypeOK, Sorted(ready, ReadyOrder), Client
    PROVE  TypeOK'
<1> USE DEF agentVars, stateVars, loopVars
<1>1. ASSUME NEW state \in CallerStates, Begin(state)
      PROVE  /\ request' \in 0..MaxRequests /\ outcome' \in [Request -> Outcomes]
             /\ serving' \in Seq(Request) /\ caller' \in CallerStates
  <2>1. request + 1 \in Request
    BY <1>1, BoundsAssumption DEF Begin, TypeOK, Request
  <2>2. serving' \in Seq(Request)
    BY <1>1, <2>1, Appended DEF Begin, TypeOK
  <2>. QED
    BY <1>1, <2>1, <2>2 DEF Begin, TypeOK, SetCaller, Outcomes, Request
<1>2. {"prompting", "loading"} \subseteq CallerStates
  BY DEF CallerStates
<1>3. ASSUME NEW b \in BOOLEAN, BeginTurn(b) PROVE TypeOK'
  <2>1. updates' \in Seq(Update)
    BY <1>3, EmptySeq DEF BeginTurn, TypeOK
  <2>. QED
    BY <1>1, <1>2, <1>3, <2>1 DEF BeginTurn, Begin, TypeOK
<1>4. CASE BeginLoad
  BY <1>1, <1>2, <1>4, EmptySeq DEF BeginLoad, Begin, TypeOK
<1>5. CASE Cancel
  <2>1. ready' \in Seq(Callback)
    BY <1>5, CallerLeaves DEF Cancel, TypeOK
  <2>. QED
    BY <1>5, <2>1, EndTypes DEF Cancel, TypeOK, Outcomes
<1>. QED
  BY <1>3, <1>4, <1>5 DEF Client

LEMMA TypeNext == AcpInv /\ [Next]_vars => TypeOK'
<1> SUFFICES ASSUME AcpInv, [Next]_vars PROVE TypeOK'
  OBVIOUS
<1>1. TypeOK /\ Sorted(ready, ReadyOrder) /\ (caller # "idle" => request \in Request)
  BY DEF AcpInv, LoopInv, RequestInv
<1>2. ASSUME Running("receive") PROVE inbox # <<>>
  <2>1. Head(ready) \in ToSet(ready) /\ Head(ready) \in Callback
    BY <1>1, <1>2, Shortened DEF Running, TypeOK
  <2>2. Head(ready) = Receiver
    BY <1>2, <2>1, CallbackKinds, Callbacks DEF Running
  <2>. QED
    BY <2>1, <2>2 DEF AcpInv, LoopInv
<1>3. CASE Agent \/ Client
  BY <1>1, <1>3, AgentTypes, ClientTypes
<1>4. CASE Connection
  BY <1>1, <1>2, <1>4, ConnectionTypes
<1>5. CASE Handler \/ \E u \in emitting : Emitted(u)
  BY <1>1, <1>5, HandlerTypes
<1>6. CASE TurnStep \/ Timeout \/ ConsumerResumes
  BY <1>1, <1>6, TurnTypes
<1>7. CASE LoadStep
  BY <1>1, <1>7, LoadTypes
<1>8. CASE UNCHANGED vars
  BY <1>1, <1>8 DEF TypeOK, vars, agentVars, loopVars, stateVars, callerVars
<1>. QED
  BY <1>3, <1>4, <1>5, <1>6, <1>7, <1>8 DEF Next

-----------------------------------------------------------------------------
(***************************************************************************)
(* The ready queue.                                                        *)
(***************************************************************************)
\* A callback other than that of a notification is put behind.
LEMMA PutBehind ==
    ASSUME NEW q \in Seq(Callback), Sorted(q, ReadyOrder), NEW c \in Callback,
           c.task # "notify", c.task = "resume" \/ c \notin ToSet(q)
    PROVE  /\ Append(q, c) \in Seq(Callback) /\ Sorted(Append(q, c), ReadyOrder)
           /\ ToSet(Append(q, c)) = ToSet(q) \cup {c}
           /\ NotifiedIn(Append(q, c)) = NotifiedIn(q)
           /\ ResumingIn(Append(q, c)) = ResumingIn(q) \cup {u \in Update : c = Resumption(u)}
           /\ LateIn(Append(q, c)) = LateIn(q)
           /\ Behind(Append(q, c), Caller) =
                Behind(q, Caller) \cup (IF Caller \in ToSet(q) THEN {c} ELSE {})
           /\ Append(q, c) # <<>> /\ (q # <<>> => Head(Append(q, c)) = Head(q))
<1>1. /\ Append(q, c) \in Seq(Callback) /\ ToSet(Append(q, c)) = ToSet(q) \cup {c}
      /\ Append(q, c) # <<>> /\ (q # <<>> => Head(Append(q, c)) = Head(q))
  BY Appended
<1>2. Behind(Append(q, c), Caller) = Behind(q, Caller) \cup (IF Caller \in ToSet(q) THEN {c} ELSE {})
  BY AppendedBehind
<1>3. \A y \in ToSet(q) : y \in Callback
  BY DEF ToSet
<1>4. ASSUME NEW y \in ToSet(q) PROVE <<y, c>> \in ReadyOrder
  <2>1. CASE c.task = "resume"
    BY <1>3, <2>1 DEF ReadyOrder
  <2>2. CASE c.task # "resume"
    <3>1. c \in {Receiver, Dispatcher, Caller} /\ y # c
      BY <2>2, CallbackKinds, Callbacks
    <3>2. y.task # c.task
      BY <1>3, <3>1, CallbackKinds, Callbacks
    <3>. QED
      BY <1>3, <3>2 DEF ReadyOrder
  <2>. QED
    BY <2>1, <2>2
<1>5. Sorted(Append(q, c), ReadyOrder)
  BY <1>4, AppendedSorted
<1>6. \A u \in Update : c # Notification(u)
  BY Callbacks
<1>7. NotifiedIn(Append(q, c)) = NotifiedIn(q)
  BY <1>1, <1>6 DEF NotifiedIn
<1>8. ResumingIn(Append(q, c)) = ResumingIn(q) \cup {u \in Update : c = Resumption(u)}
  BY <1>1 DEF ResumingIn
<1>9. LateIn(Append(q, c)) = LateIn(q)
  BY <1>2, <1>6 DEF LateIn
<1>. QED
  BY <1>1, <1>2, <1>5, <1>7, <1>8, <1>9

\* So is the caller, when it is not there yet.
LEMMA PutCaller ==
    ASSUME NEW q \in Seq(Callback), Sorted(q, ReadyOrder), Caller \notin ToSet(q)
    PROVE  /\ Append(q, Caller) \in Seq(Callback) /\ Sorted(Append(q, Caller), ReadyOrder)
           /\ ToSet(Append(q, Caller)) = ToSet(q) \cup {Caller}
           /\ NotifiedIn(Append(q, Caller)) = NotifiedIn(q)
           /\ ResumingIn(Append(q, Caller)) = ResumingIn(q)
           /\ LateIn(Append(q, Caller)) = LateIn(q)
           /\ Behind(Append(q, Caller), Caller) = Behind(q, Caller)
<1>1. /\ Caller \in Callback /\ Caller.task # "notify"
      /\ {u \in Update : Caller = Resumption(u)} = {}
  BY Callbacks
<1> DEFINE c == Caller
<1>2. /\ c \in Callback /\ c.task # "notify" /\ c \notin ToSet(q)
      /\ {u \in Update : c = Resumption(u)} = {}
  BY <1>1
<1> HIDE DEF c
<1>3. /\ Append(q, c) \in Seq(Callback) /\ Sorted(Append(q, c), ReadyOrder)
      /\ ToSet(Append(q, c)) = ToSet(q) \cup {c}
      /\ NotifiedIn(Append(q, c)) = NotifiedIn(q)
      /\ ResumingIn(Append(q, c)) = ResumingIn(q) \cup {u \in Update : c = Resumption(u)}
      /\ LateIn(Append(q, c)) = LateIn(q)
      /\ Behind(Append(q, c), Caller) =
            Behind(q, Caller) \cup (IF Caller \in ToSet(q) THEN {c} ELSE {})
  BY <1>2, PutBehind
<1>. QED
  BY <1>2, <1>3 DEF c

\* The callback in front has run.
LEMMA TakeFront ==
    ASSUME NEW q \in Seq(Callback), q # <<>>, Sorted(q, ReadyOrder)
    PROVE  /\ Head(q) \in Callback
           /\ Tail(q) \in Seq(Callback) /\ Sorted(Tail(q), ReadyOrder)
           /\ ToSet(q) = {Head(q)} \cup ToSet(Tail(q))
           /\ Head(q).task # "resume" => Head(q) \notin ToSet(Tail(q))
           /\ NotifiedIn(q) = NotifiedIn(Tail(q)) \cup {u \in Update : Head(q) = Notification(u)}
           /\ \A u \in Update : Head(q) = Notification(u) => \A v \in NotifiedIn(Tail(q)) : u < v
           /\ ResumingIn(Tail(q)) \subseteq ResumingIn(q)
           /\ LateIn(Tail(q)) \subseteq LateIn(q)
           /\ Behind(Tail(q), Caller) \subseteq Behind(q, Caller)
           /\ Head(q) # Caller => Behind(Tail(q), Caller) = Behind(q, Caller)
           /\ Head(q) = Caller => /\ Behind(q, Caller) = ToSet(Tail(q)) /\ LateIn(q) = NotifiedIn(q)
                                  /\ Behind(Tail(q), Caller) = {} /\ LateIn(Tail(q)) = {}
<1>1. /\ Head(q) \in Callback /\ Tail(q) \in Seq(Callback)
      /\ ToSet(q) = {Head(q)} \cup ToSet(Tail(q))
      /\ Behind(Tail(q), Caller) \subseteq Behind(q, Caller)
      /\ Head(q) # Caller => Behind(Tail(q), Caller) = Behind(q, Caller)
      /\ Behind(q, Head(q)) = ToSet(Tail(q))
  BY Shortened
<1>2. Sorted(Tail(q), ReadyOrder) /\ \A y \in ToSet(Tail(q)) : <<Head(q), y>> \in ReadyOrder
  BY ShortenedSorted
<1>3. ASSUME Head(q).task # "resume", Head(q) \in ToSet(Tail(q)) PROVE FALSE
  <2>1. <<Head(q), Head(q)>> \in ReadyOrder
    BY <1>2, <1>3
  <2>2. Head(q).task = "notify" /\ Head(q).update < Head(q).update
    BY <1>3, <2>1 DEF ReadyOrder
  <2>3. Head(q).update \in Nat
    <3>1. Head(q).update \in Update
      BY <1>1, <2>2, CallbackKinds, Callbacks
    <3>. QED
      BY <3>1 DEF Update
  <2>. QED
    BY <2>2, <2>3
<1>4. NotifiedIn(q) = NotifiedIn(Tail(q)) \cup {u \in Update : Head(q) = Notification(u)}
  BY <1>1 DEF NotifiedIn
<1>5. ASSUME NEW u \in Update, Head(q) = Notification(u), NEW v \in NotifiedIn(Tail(q)) PROVE u < v
  <2>1. <<Notification(u), Notification(v)>> \in ReadyOrder
    BY <1>2, <1>5 DEF NotifiedIn
  <2>. QED
    BY <2>1, Callbacks DEF ReadyOrder
<1>6. ResumingIn(Tail(q)) \subseteq ResumingIn(q) /\ LateIn(Tail(q)) \subseteq LateIn(q)
  BY <1>1 DEF ResumingIn, LateIn
<1>7. ASSUME Head(q) = Caller
      PROVE  /\ Behind(q, Caller) = ToSet(Tail(q)) /\ LateIn(q) = NotifiedIn(q)
             /\ Behind(Tail(q), Caller) = {} /\ LateIn(Tail(q)) = {}
  <2>1. Caller \notin ToSet(Tail(q))
    BY <1>3, <1>7, Callbacks
  <2>2. Behind(Tail(q), Caller) = {}
    BY <2>1, NoneBehind
  <2>3. \A u \in Update : Head(q) # Notification(u)
    BY <1>7, Callbacks
  <2>. QED
    BY <1>1, <1>4, <1>7, <2>2, <2>3 DEF LateIn, NotifiedIn
<1>. QED
  BY <1>1, <1>2, <1>3, <1>4, <1>5, <1>6, <1>7

\* The dispatcher puts the tasks of notifications behind.
LEMMA PutTasks ==
    ASSUME NEW q \in Seq(Callback), Sorted(q, ReadyOrder), NEW t \in Seq(Update),
           Sorted(t, Increasing), \A u \in NotifiedIn(q), v \in ToSet(t) : u < v
    PROVE  /\ q \o Tasks(t) \in Seq(Callback) /\ Sorted(q \o Tasks(t), ReadyOrder)
           /\ \A c \in {Receiver, Dispatcher, Caller} : c \in ToSet(q \o Tasks(t)) <=> c \in ToSet(q)
           /\ NotifiedIn(q \o Tasks(t)) = NotifiedIn(q) \cup ToSet(t)
           /\ ResumingIn(q \o Tasks(t)) = ResumingIn(q)
           /\ LateIn(q \o Tasks(t)) \subseteq LateIn(q) \cup ToSet(t)
           /\ Dispatcher \in Behind(q \o Tasks(t), Caller) => Dispatcher \in Behind(q, Caller)
<1>1. /\ Tasks(t) \in Seq(Callback) /\ Sorted(Tasks(t), ReadyOrder)
      /\ \A u : Notification(u) \in ToSet(Tasks(t)) <=> u \in ToSet(t)
      /\ \A c \in ToSet(Tasks(t)) : c.task = "notify" /\ c.update \in ToSet(t)
  BY TasksOf
<1>2. /\ q \o Tasks(t) \in Seq(Callback)
      /\ ToSet(q \o Tasks(t)) = ToSet(q) \cup ToSet(Tasks(t))
  BY <1>1, Joined
<1>3. Behind(q \o Tasks(t), Caller) \subseteq Behind(q, Caller) \cup ToSet(Tasks(t))
  <2>1. Caller \notin ToSet(Tasks(t)) /\ Caller \in Callback
    BY <1>1, Callbacks
  <2>. QED
    BY <1>1, <2>1, Joined
<1>4. \A c \in ToSet(q) \cup ToSet(Tasks(t)) : c \in Callback
  BY <1>1 DEF ToSet
<1>5. ASSUME NEW x \in ToSet(q), NEW y \in ToSet(Tasks(t)) PROVE <<x, y>> \in ReadyOrder
  <2>1. y.task = "notify" /\ y.update \in ToSet(t)
    BY <1>1
  <2>2. CASE x.task = "notify"
    <3>1. x = Notification(x.update) /\ x.update \in Update
      BY <1>4, <2>2, CallbackKinds, Callbacks
    <3>2. x.update \in NotifiedIn(q)
      BY <3>1 DEF NotifiedIn
    <3>. QED
      BY <1>4, <2>1, <3>2 DEF ReadyOrder
  <2>3. CASE x.task # "notify"
    BY <1>4, <2>1, <2>3 DEF ReadyOrder
  <2>. QED
    BY <2>2, <2>3
<1>6. Sorted(q \o Tasks(t), ReadyOrder)
  BY <1>1, <1>5, JoinedSorted
<1>7. \A c \in {Receiver, Dispatcher, Caller} : c \notin ToSet(Tasks(t))
  BY <1>1, Callbacks
<1>8. \A u \in Update : Resumption(u) \notin ToSet(Tasks(t))
  BY <1>1, Callbacks
<1>9. \A u \in ToSet(t) : u \in Update
  BY DEF ToSet
<1>. QED
  BY <1>1, <1>2, <1>3, <1>6, <1>7, <1>8, <1>9 DEF NotifiedIn, ResumingIn, LateIn

-----------------------------------------------------------------------------
(***************************************************************************)
(* What each action does to the ready queue.                               *)
(***************************************************************************)
ReadyOK == ready \in Seq(Callback) /\ Sorted(ready, ReadyOrder)

\* What is ready for the tasks other than the caller.
Others == <<Notified, Resuming, Receiver \in ToSet(ready), Dispatcher \in ToSet(ready)>>

LEMMA FrontCallback ==
    ASSUME ReadyOK
    PROVE  /\ Running("receive") => ready # <<>> /\ Head(ready) = Receiver
           /\ Running("dispatch") => ready # <<>> /\ Head(ready) = Dispatcher
           /\ Running("caller") => ready # <<>> /\ Head(ready) = Caller
           /\ Running("notify") => /\ ready # <<>> /\ Head(ready).update \in Update
                                   /\ Head(ready) = Notification(Head(ready).update)
           /\ Running("resume") => /\ ready # <<>> /\ Head(ready).update \in Update
                                   /\ Head(ready) = Resumption(Head(ready).update)
           /\ ready # <<>> => Head(ready) \in ToSet(ready)
<1> SUFFICES ASSUME ready # <<>>
             PROVE  /\ Running("receive") => Head(ready) = Receiver
                    /\ Running("dispatch") => Head(ready) = Dispatcher
                    /\ Running("caller") => Head(ready) = Caller
                    /\ Running("notify") => /\ Head(ready).update \in Update
                                            /\ Head(ready) = Notification(Head(ready).update)
                    /\ Running("resume") => /\ Head(ready).update \in Update
                                            /\ Head(ready) = Resumption(Head(ready).update)
                    /\ Head(ready) \in ToSet(ready)
  BY DEF Running
<1>1. Head(ready) \in Callback /\ Head(ready) \in ToSet(ready)
  BY Shortened DEF ReadyOK
<1>2. CASE Head(ready) \in {Receiver, Dispatcher, Caller}
  BY <1>1, <1>2, Callbacks DEF Running
<1>3. ASSUME NEW u \in Update, Head(ready).update = u, Head(ready) = Notification(u) \/ Head(ready) = Resumption(u)
      PROVE  /\ ~Running("receive") /\ ~Running("dispatch") /\ ~Running("caller")
             /\ Running("notify") => Head(ready) = Notification(u)
             /\ Running("resume") => Head(ready) = Resumption(u)
  BY <1>3, Callbacks DEF Running
<1>. QED
  BY <1>1, <1>2, <1>3, CallbackKinds

\* The caller suspends.
LEMMA CallerStops ==
    ASSUME ReadyOK, Running("caller"), ready' = Tail(ready)
    PROVE  ReadyOK' /\ UNCHANGED Others /\ Caller \notin ToSet(ready') /\ Late' = {} /\ ~DispatcherLate'
<1>1. ready # <<>> /\ Head(ready) = Caller
  BY FrontCallback
<1>2. \A u \in Update : Notification(u) # Caller /\ Resumption(u) # Caller
  BY Callbacks
<1>3. Receiver # Caller /\ Dispatcher # Caller /\ Caller.task # "resume"
  BY Callbacks
<1>4. /\ Tail(ready) \in Seq(Callback) /\ Sorted(Tail(ready), ReadyOrder)
      /\ ToSet(ready) = {Caller} \cup ToSet(Tail(ready)) /\ Caller \notin ToSet(Tail(ready))
      /\ LateIn(Tail(ready)) = {} /\ Behind(Tail(ready), Caller) = {}
  BY <1>1, <1>3, TakeFront DEF ReadyOK
<1>. QED
  BY <1>2, <1>3, <1>4 DEF ReadyOK, Others, Notified, Resuming, NotifiedIn, ResumingIn, Late, DispatcherLate

\* The caller is made ready.
LEMMA CallerJoins ==
    ASSUME ReadyOK, Caller \notin ToSet(ready), ready' = Append(ready, Caller)
    PROVE  ReadyOK' /\ UNCHANGED Others /\ Caller \in ToSet(ready') /\ Late' = {} /\ ~DispatcherLate'
<1>1. \A u \in Update : Notification(u) # Caller /\ Resumption(u) # Caller
  BY Callbacks
<1>2. Receiver # Caller /\ Dispatcher # Caller /\ Caller.task = "caller" /\ Caller \in Callback
  BY Callbacks
<1>3. /\ Append(ready, Caller) \in Seq(Callback) /\ Sorted(Append(ready, Caller), ReadyOrder)
      /\ ToSet(Append(ready, Caller)) = ToSet(ready) \cup {Caller}
      /\ Behind(Append(ready, Caller), Caller) = Behind(ready, Caller)
  BY <1>2, PutBehind DEF ReadyOK
<1>4. Behind(ready, Caller) = {}
  BY NoneBehind
<1>. QED
  BY <1>1, <1>2, <1>3, <1>4
     DEF ReadyOK, Others, Notified, Resuming, NotifiedIn, ResumingIn, Late, LateIn, DispatcherLate

LEMMA CallerCancelled ==
    ASSUME ReadyOK, Cancel
    PROVE  ReadyOK' /\ UNCHANGED Others /\ Caller \notin ToSet(ready')
<1>1. \A u \in Update : Notification(u) # Caller /\ Resumption(u) # Caller
  BY Callbacks
<1>2. Receiver # Caller /\ Dispatcher # Caller
  BY Callbacks
<1>3. ready' \in Seq(Callback) /\ Sorted(ready, ReadyOrder)' /\ ToSet(ready') = ToSet(ready) \ {Caller}
  BY CallerLeaves DEF Cancel, ReadyOK
<1>. QED
  BY <1>1, <1>2, <1>3 DEF ReadyOK, Others, Notified, Resuming, NotifiedIn, ResumingIn

\* The caller goes behind everything that is ready.
LEMMA CallerYields ==
    ASSUME ReadyOK, Running("caller"), ready' = Append(Tail(ready), Caller)
    PROVE  ReadyOK' /\ UNCHANGED Others /\ Caller \in ToSet(ready') /\ Late' = {} /\ ~DispatcherLate'
<1>1. ready # <<>> /\ Head(ready) = Caller
  BY FrontCallback
<1>2. \A u \in Update : Notification(u) # Caller /\ Resumption(u) # Caller
  BY Callbacks
<1>3. Receiver # Caller /\ Dispatcher # Caller /\ Caller.task = "caller" /\ Caller \in Callback
  BY Callbacks
<1>4. /\ Tail(ready) \in Seq(Callback) /\ Sorted(Tail(ready), ReadyOrder)
      /\ ToSet(ready) = {Caller} \cup ToSet(Tail(ready)) /\ Caller \notin ToSet(Tail(ready))
      /\ Behind(Tail(ready), Caller) = {}
  BY <1>1, <1>3, TakeFront DEF ReadyOK
<1>5. /\ ready' \in Seq(Callback) /\ Sorted(ready', ReadyOrder)
      /\ ToSet(ready') = ToSet(Tail(ready)) \cup {Caller}
      /\ Behind(ready', Caller) = {}
  <2>1. /\ Append(Tail(ready), Caller) \in Seq(Callback) /\ Sorted(Append(Tail(ready), Caller), ReadyOrder)
        /\ ToSet(Append(Tail(ready), Caller)) = ToSet(Tail(ready)) \cup {Caller}
        /\ Behind(Append(Tail(ready), Caller), Caller) = Behind(Tail(ready), Caller)
    <3>1. Caller.task # "notify" /\ Caller \in Callback /\ Caller \notin ToSet(Tail(ready))
      BY <1>3, <1>4
    <3>2. Tail(ready) \in Seq(Callback) /\ Sorted(Tail(ready), ReadyOrder)
      BY <1>4
    <3>3. Behind(Append(Tail(ready), Caller), Caller) = Behind(Tail(ready), Caller) \cup {}
      BY <3>1, <3>2, PutBehind
    <3>. QED
      BY <3>1, <3>2, <3>3, PutBehind
  <2>. QED
    BY <1>4, <2>1
<1>. QED
  BY <1>2, <1>3, <1>4, <1>5
     DEF ReadyOK, Others, Notified, Resuming, NotifiedIn, ResumingIn, Late, LateIn, DispatcherLate

LEMMA ArriveReady ==
    ASSUME ReadyOK, Receiver \in ToSet(ready) <=> inbox # <<>>, NEW m, Arrive(m)
    PROVE  /\ ReadyOK' /\ Notified' = Notified /\ Resuming' = Resuming /\ Late' = Late
           /\ DispatcherLate' <=> DispatcherLate
           /\ Receiver \in ToSet(ready')
           /\ \A c \in {Dispatcher, Caller} : c \in ToSet(ready') <=> c \in ToSet(ready)
           /\ ready # <<>> => ready' # <<>> /\ Head(ready') = Head(ready)
<1>1. CASE inbox # <<>>
  <2>1. ready' = ready
    BY <1>1 DEF Arrive
  <2>. QED
    BY <1>1, <2>1
       DEF ReadyOK, Notified, Resuming, NotifiedIn, ResumingIn, Late, LateIn, DispatcherLate
<1>2. CASE inbox = <<>>
  <2>1. ready' = Append(ready, Receiver) /\ Receiver \notin ToSet(ready)
    BY <1>2 DEF Arrive
  <2>2. /\ Receiver \in Callback /\ Receiver.task = "receive" /\ Receiver # Dispatcher /\ Receiver # Caller
        /\ \A u \in Update : Receiver # Resumption(u)
    BY Callbacks
  <2>3. /\ ready' \in Seq(Callback) /\ Sorted(ready', ReadyOrder)
        /\ ToSet(ready') = ToSet(ready) \cup {Receiver}
        /\ NotifiedIn(ready') = NotifiedIn(ready)
        /\ ResumingIn(ready') = ResumingIn(ready) \cup {u \in Update : Receiver = Resumption(u)}
        /\ LateIn(ready') = LateIn(ready)
        /\ Behind(ready', Caller) = Behind(ready, Caller) \cup (IF Caller \in ToSet(ready) THEN {Receiver} ELSE {})
        /\ ready' # <<>> /\ (ready # <<>> => Head(ready') = Head(ready))
    BY <2>1, <2>2, PutBehind DEF ReadyOK
  <2>. QED
    BY <2>2, <2>3 DEF ReadyOK, Notified, Resuming, Late, DispatcherLate
<1>. QED
  BY <1>1, <1>2

\* The receive loop has processed a line.
LEMMA LineReady ==
    ASSUME ReadyOK, Running("receive"), inbox \in Seq(Message), inbox # <<>>
    PROVE  /\ AfterLine \in Seq(Callback) /\ Sorted(AfterLine, ReadyOrder)
           /\ NotifiedIn(AfterLine) = Notified /\ ResumingIn(AfterLine) = Resuming /\ LateIn(AfterLine) = Late
           /\ Behind(AfterLine, Caller) = Behind(ready, Caller)
           /\ Receiver \in ToSet(AfterLine) <=> Tail(inbox) # <<>>
           /\ \A c \in {Dispatcher, Caller} : c \in ToSet(AfterLine) <=> c \in ToSet(ready)
<1>1. ready # <<>> /\ Head(ready) = Receiver /\ Receiver \in ToSet(ready)
  BY FrontCallback
<1>2. Len(inbox) = 1 <=> Tail(inbox) = <<>>
  BY Shortened
<1>3. CASE Len(inbox) = 1
  <2>1. AfterLine = Tail(ready)
    BY <1>3 DEF AfterLine
  <2>2. /\ \A u \in Update : Notification(u) # Receiver /\ Resumption(u) # Receiver
        /\ Receiver # Dispatcher /\ Receiver # Caller /\ Receiver.task # "resume"
    BY Callbacks
  <2>3. /\ Tail(ready) \in Seq(Callback) /\ Sorted(Tail(ready), ReadyOrder)
        /\ ToSet(ready) = {Receiver} \cup ToSet(Tail(ready)) /\ Receiver \notin ToSet(Tail(ready))
        /\ Behind(Tail(ready), Caller) = Behind(ready, Caller)
    BY <1>1, <2>2, TakeFront DEF ReadyOK
  <2>. QED
    BY <1>2, <1>3, <2>1, <2>2, <2>3 DEF Notified, Resuming, Late, NotifiedIn, ResumingIn, LateIn
<1>4. CASE Len(inbox) # 1
  BY <1>1, <1>2, <1>4 DEF AfterLine, ReadyOK, Notified, Resuming, Late
<1>. QED
  BY <1>3, <1>4

LEMMA ReceiveUpdateReady ==
    ASSUME ReadyOK, inbox \in Seq(Message), inbox # <<>>, Dispatcher \in ToSet(ready) <=> queue # <<>>,
           ReceiveUpdate
    PROVE  /\ ReadyOK' /\ Notified' = Notified /\ Resuming' = Resuming /\ Late' = Late
           /\ DispatcherLate' => DispatcherLate \/ queue = <<>>
           /\ Receiver \in ToSet(ready') <=> inbox' # <<>>
           /\ Dispatcher \in ToSet(ready')
           /\ Caller \in ToSet(ready') <=> Caller \in ToSet(ready)
<1>1. Running("receive") /\ inbox' = Tail(inbox)
      /\ ready' = IF queue = <<>> THEN Append(AfterLine, Dispatcher) ELSE AfterLine
  BY DEF ReceiveUpdate
<1>2. /\ AfterLine \in Seq(Callback) /\ Sorted(AfterLine, ReadyOrder)
      /\ NotifiedIn(AfterLine) = Notified /\ ResumingIn(AfterLine) = Resuming /\ LateIn(AfterLine) = Late
      /\ Behind(AfterLine, Caller) = Behind(ready, Caller)
      /\ Receiver \in ToSet(AfterLine) <=> Tail(inbox) # <<>>
      /\ \A c \in {Dispatcher, Caller} : c \in ToSet(AfterLine) <=> c \in ToSet(ready)
  BY <1>1, LineReady
<1>3. CASE queue # <<>>
  BY <1>1, <1>2, <1>3 DEF ReadyOK, Notified, Resuming, Late, DispatcherLate
<1>4. CASE queue = <<>>
  <2>1. /\ Dispatcher \in Callback /\ Dispatcher.task = "dispatch" /\ Receiver # Dispatcher
        /\ Dispatcher # Caller /\ \A u \in Update : Dispatcher # Resumption(u)
        /\ Dispatcher \notin ToSet(AfterLine)
    BY <1>2, <1>4, Callbacks
  <2>2. /\ ready' \in Seq(Callback) /\ Sorted(ready', ReadyOrder)
        /\ ToSet(ready') = ToSet(AfterLine) \cup {Dispatcher}
        /\ NotifiedIn(ready') = NotifiedIn(AfterLine)
        /\ ResumingIn(ready') = ResumingIn(AfterLine) \cup {u \in Update : Dispatcher = Resumption(u)}
        /\ LateIn(ready') = LateIn(AfterLine)
    BY <1>1, <1>2, <1>4, <2>1, PutBehind
  <2>. QED
    BY <1>1, <1>2, <1>4, <2>1, <2>2 DEF ReadyOK, Notified, Resuming, Late
<1>. QED
  BY <1>3, <1>4

LEMMA ReceiveResponseReady ==
    ASSUME ReadyOK, inbox \in Seq(Message), inbox # <<>>,
           Awaited(Head(inbox).id) => Caller \notin ToSet(ready), ReceiveResponse
    PROVE  /\ ReadyOK' /\ Notified' = Notified /\ Resuming' = Resuming
           /\ Late' = Late /\ (DispatcherLate' <=> DispatcherLate)
           /\ Awaited(Head(inbox).id) => ~DispatcherLate'
           /\ Receiver \in ToSet(ready') <=> inbox' # <<>>
           /\ Dispatcher \in ToSet(ready') <=> Dispatcher \in ToSet(ready)
           /\ ~Awaited(Head(inbox).id) => (Caller \in ToSet(ready') <=> Caller \in ToSet(ready))
<1>1. Running("receive") /\ inbox' = Tail(inbox)
      /\ ready' = IF Awaited(Head(inbox).id) THEN Append(AfterLine, Caller) ELSE AfterLine
  BY DEF ReceiveResponse
<1>2. /\ AfterLine \in Seq(Callback) /\ Sorted(AfterLine, ReadyOrder)
      /\ NotifiedIn(AfterLine) = Notified /\ ResumingIn(AfterLine) = Resuming /\ LateIn(AfterLine) = Late
      /\ Behind(AfterLine, Caller) = Behind(ready, Caller)
      /\ Receiver \in ToSet(AfterLine) <=> Tail(inbox) # <<>>
      /\ \A c \in {Dispatcher, Caller} : c \in ToSet(AfterLine) <=> c \in ToSet(ready)
  BY <1>1, LineReady
<1>3. CASE ~Awaited(Head(inbox).id)
  BY <1>1, <1>2, <1>3 DEF ReadyOK, Notified, Resuming, Late, DispatcherLate
<1>4. CASE Awaited(Head(inbox).id)
  <2>1. /\ Caller \in Callback /\ Caller.task = "caller" /\ Receiver # Caller
        /\ Dispatcher # Caller /\ \A u \in Update : Caller # Resumption(u)
        /\ Caller \notin ToSet(AfterLine)
    BY <1>2, <1>4, Callbacks
  <2>2. /\ ready' \in Seq(Callback) /\ Sorted(ready', ReadyOrder)
        /\ ToSet(ready') = ToSet(AfterLine) \cup {Caller}
        /\ NotifiedIn(ready') = NotifiedIn(AfterLine)
        /\ ResumingIn(ready') = ResumingIn(AfterLine) \cup {u \in Update : Caller = Resumption(u)}
        /\ LateIn(ready') = LateIn(AfterLine)
        /\ Behind(ready', Caller) = Behind(AfterLine, Caller)
    BY <1>1, <1>2, <1>4, <2>1, PutBehind
  <2>3. Behind(AfterLine, Caller) = {}
    BY <2>1, NoneBehind
  <2>. QED
    BY <1>1, <1>2, <1>4, <2>1, <2>2, <2>3 DEF ReadyOK, Notified, Resuming, Late, DispatcherLate
<1>. QED
  BY <1>3, <1>4

LEMMA DispatchReady ==
    ASSUME ReadyOK, queue \in Seq(Update), Sorted(queue, Increasing),
           \A u \in Notified, v \in ToSet(queue) : u < v, Dispatch
    PROVE  /\ ReadyOK' /\ Notified' = Notified \cup ToSet(queue) /\ Resuming' = Resuming
           /\ Late' \subseteq Late \cup ToSet(queue) /\ ~DispatcherLate'
           /\ Dispatcher \notin ToSet(ready')
           /\ \A c \in {Receiver, Caller} : c \in ToSet(ready') <=> c \in ToSet(ready)
<1>1. Running("dispatch") /\ ready' = Tail(ready) \o Tasks(queue)
  BY DEF Dispatch, Tasks
<1>2. ready # <<>> /\ Head(ready) = Dispatcher
  BY <1>1, FrontCallback
<1>3. /\ \A u \in Update : Notification(u) # Dispatcher /\ Resumption(u) # Dispatcher
      /\ Dispatcher # Receiver /\ Dispatcher # Caller /\ Dispatcher.task # "resume"
  BY Callbacks
<1>4. /\ Tail(ready) \in Seq(Callback) /\ Sorted(Tail(ready), ReadyOrder)
      /\ ToSet(ready) = {Dispatcher} \cup ToSet(Tail(ready)) /\ Dispatcher \notin ToSet(Tail(ready))
      /\ LateIn(Tail(ready)) \subseteq LateIn(ready)
      /\ NotifiedIn(ready) = NotifiedIn(Tail(ready)) \cup {u \in Update : Dispatcher = Notification(u)}
  BY <1>2, <1>3, TakeFront DEF ReadyOK
<1>5. NotifiedIn(Tail(ready)) = Notified /\ ResumingIn(Tail(ready)) = Resuming
  BY <1>3, <1>4 DEF Notified, Resuming, NotifiedIn, ResumingIn
<1>6. /\ ready' \in Seq(Callback) /\ Sorted(ready', ReadyOrder)
      /\ \A c \in {Receiver, Dispatcher, Caller} : c \in ToSet(ready') <=> c \in ToSet(Tail(ready))
      /\ NotifiedIn(ready') = NotifiedIn(Tail(ready)) \cup ToSet(queue)
      /\ ResumingIn(ready') = ResumingIn(Tail(ready))
      /\ LateIn(ready') \subseteq LateIn(Tail(ready)) \cup ToSet(queue)
      /\ Dispatcher \in Behind(ready', Caller) => Dispatcher \in Behind(Tail(ready), Caller)
  <2>1. Sorted(queue, Increasing) /\ \A u \in NotifiedIn(Tail(ready)), v \in ToSet(queue) : u < v
    BY <1>5
  <2>2. /\ Tail(ready) \o Tasks(queue) \in Seq(Callback) /\ Sorted(Tail(ready) \o Tasks(queue), ReadyOrder)
        /\ \A c \in {Receiver, Dispatcher, Caller} :
              c \in ToSet(Tail(ready) \o Tasks(queue)) <=> c \in ToSet(Tail(ready))
        /\ NotifiedIn(Tail(ready) \o Tasks(queue)) = NotifiedIn(Tail(ready)) \cup ToSet(queue)
        /\ ResumingIn(Tail(ready) \o Tasks(queue)) = ResumingIn(Tail(ready))
        /\ LateIn(Tail(ready) \o Tasks(queue)) \subseteq LateIn(Tail(ready)) \cup ToSet(queue)
        /\ Dispatcher \in Behind(Tail(ready) \o Tasks(queue), Caller) => Dispatcher \in Behind(Tail(ready), Caller)
    <3>1. Tail(ready) \in Seq(Callback) /\ Sorted(Tail(ready), ReadyOrder)
      BY <1>4
    <3>. QED
      BY <2>1, <3>1, PutTasks
  <2>. QED
    BY <1>1, <2>2
<1>7. Dispatcher \notin Behind(Tail(ready), Caller)
  BY <1>4, BehindMembers
<1>. QED
  BY <1>3, <1>4, <1>5, <1>6, <1>7 DEF ReadyOK, Notified, Resuming, Late, DispatcherLate

\* The task of a notification leaves: to the emission, or for good.
LEMMA NotificationReady ==
    ASSUME ReadyOK, Running("notify") \/ Running("resume"),
           \/ ready' = Tail(ready)
           \/ ready' = Append(Tail(ready), Caller) /\ Caller \notin ToSet(ready)
    PROVE  /\ ReadyOK' /\ Resuming' \subseteq Resuming /\ Late' \subseteq Late
           /\ Running("resume") => Notified' = Notified
           /\ Running("notify") => /\ Notified = Notified' \cup {Head(ready).update}
                                   /\ \A v \in Notified' : Head(ready).update < v
           /\ DispatcherLate' => DispatcherLate
           /\ \A c \in {Receiver, Dispatcher} : c \in ToSet(ready') <=> c \in ToSet(ready)
           /\ ready' = Tail(ready) => (Caller \in ToSet(ready') <=> Caller \in ToSet(ready))
<1> DEFINE u == Head(ready).update
<1>1. /\ ready # <<>> /\ u \in Update
      /\ Running("notify") => Head(ready) = Notification(u)
      /\ Running("resume") => Head(ready) = Resumption(u)
  BY FrontCallback
<1>2. /\ \A v \in Update : Notification(v) = Head(ready) <=> (Running("notify") /\ v = u)
      /\ Head(ready) \notin {Receiver, Dispatcher, Caller}
  BY <1>1, Callbacks
<1>3. /\ Tail(ready) \in Seq(Callback) /\ Sorted(Tail(ready), ReadyOrder)
      /\ ToSet(ready) = {Head(ready)} \cup ToSet(Tail(ready))
      /\ NotifiedIn(ready) = NotifiedIn(Tail(ready)) \cup {v \in Update : Head(ready) = Notification(v)}
      /\ \A w \in Update : Head(ready) = Notification(w) => \A v \in NotifiedIn(Tail(ready)) : w < v
      /\ ResumingIn(Tail(ready)) \subseteq ResumingIn(ready)
      /\ LateIn(Tail(ready)) \subseteq LateIn(ready)
      /\ Behind(Tail(ready), Caller) \subseteq Behind(ready, Caller)
  BY <1>1, TakeFront DEF ReadyOK
<1>4. /\ ready' \in Seq(Callback) /\ Sorted(ready', ReadyOrder)
      /\ NotifiedIn(ready') = NotifiedIn(Tail(ready))
      /\ ResumingIn(ready') = ResumingIn(Tail(ready)) /\ LateIn(ready') = LateIn(Tail(ready))
      /\ Behind(ready', Caller) = Behind(Tail(ready), Caller)
      /\ \A c \in {Receiver, Dispatcher} : c \in ToSet(ready') <=> c \in ToSet(Tail(ready))
  <2>1. CASE ready' = Tail(ready)
    BY <1>3, <2>1
  <2>2. CASE ready' = Append(Tail(ready), Caller) /\ Caller \notin ToSet(ready)
    <3>1. /\ Caller \in Callback /\ Caller.task = "caller" /\ Caller \notin ToSet(Tail(ready))
          /\ Caller # Receiver /\ Caller # Dispatcher /\ \A v \in Update : Caller # Resumption(v)
      BY <1>3, <2>2, Callbacks
    <3>2. /\ ready' \in Seq(Callback) /\ Sorted(ready', ReadyOrder)
          /\ ToSet(ready') = ToSet(Tail(ready)) \cup {Caller}
          /\ NotifiedIn(ready') = NotifiedIn(Tail(ready))
          /\ ResumingIn(ready') = ResumingIn(Tail(ready))
          /\ LateIn(ready') = LateIn(Tail(ready))
          /\ Behind(ready', Caller) = Behind(Tail(ready), Caller)
      BY <1>3, <2>2, <3>1, PutCaller
    <3>. QED
      BY <3>1, <3>2
  <2>. QED
    BY <2>1, <2>2
<1>5. Running("notify") => Notified = Notified' \cup {u} /\ \A v \in Notified' : u < v
  BY <1>1, <1>2, <1>3, <1>4 DEF Notified
<1>6. Running("resume") => Notified' = Notified
  <2>1. Running("resume") => ~Running("notify")
    BY DEF Running
  <2>. QED
    BY <1>2, <1>3, <1>4, <2>1 DEF Notified
<1>. QED
  BY <1>2, <1>3, <1>4, <1>5, <1>6 DEF ReadyOK, Resuming, Late, DispatcherLate

LEMMA EmittedReady ==
    ASSUME ReadyOK, NEW u \in Update, ready' = Append(ready, Resumption(u))
    PROVE  /\ ReadyOK' /\ Notified' = Notified /\ Resuming' = Resuming \cup {u} /\ Late' = Late
           /\ DispatcherLate' <=> DispatcherLate
           /\ \A c \in {Receiver, Dispatcher, Caller} : c \in ToSet(ready') <=> c \in ToSet(ready)
           /\ ready # <<>> => ready' # <<>> /\ Head(ready') = Head(ready)
<1>1. /\ Resumption(u) \in Callback /\ Resumption(u).task = "resume"
      /\ Resumption(u) \notin {Receiver, Dispatcher, Caller}
      /\ \A v \in Update : Resumption(u) = Resumption(v) => u = v
  BY Callbacks
<1>2. /\ ready' \in Seq(Callback) /\ Sorted(ready', ReadyOrder)
      /\ ToSet(ready') = ToSet(ready) \cup {Resumption(u)}
      /\ NotifiedIn(ready') = NotifiedIn(ready)
      /\ ResumingIn(ready') = ResumingIn(ready) \cup {v \in Update : Resumption(u) = Resumption(v)}
      /\ LateIn(ready') = LateIn(ready)
      /\ Behind(ready', Caller) = Behind(ready, Caller) \cup (IF Caller \in ToSet(ready) THEN {Resumption(u)} ELSE {})
      /\ ready' # <<>> /\ (ready # <<>> => Head(ready') = Head(ready))
  BY <1>1, PutBehind DEF ReadyOK
<1>. QED
  BY <1>1, <1>2 DEF ReadyOK, Notified, Resuming, Late, DispatcherLate

-----------------------------------------------------------------------------
(***************************************************************************)
(* What each action does to the updates on their way.                      *)
(***************************************************************************)
\* What the invariant says of the parts an action meets.
LEMMA Parts ==
    ASSUME AcpInv
    PROVE  /\ TypeOK /\ LoopInv /\ KnownInv /\ RequestInv /\ SaidBefore /\ OrderInv /\ DeliveryInv /\ SeparateInv
           /\ ReadyOK /\ inbox \in Seq(Message)
           /\ queue \in Seq(Update) /\ updates \in Seq(Update) /\ serving \in Seq(Request)
           /\ DOMAIN sent \subseteq Update
           /\ Running("receive") => inbox # <<>>
<1>1. ReadyOK
  BY DEF AcpInv, TypeOK, LoopInv, ReadyOK
<1>2. Running("receive") => inbox # <<>>
  BY <1>1, FrontCallback DEF AcpInv, LoopInv
<1>3. DOMAIN sent \subseteq Update
  <2>1. DOMAIN sent = 1..Len(sent) /\ Len(sent) \in Nat /\ Len(sent) <= MaxUpdates
    BY DEF AcpInv, TypeOK
  <2>. QED
    BY <2>1, BoundsAssumption DEF Update
<1>. QED
  BY <1>1, <1>2, <1>3 DEF AcpInv, TypeOK

\* A line is put behind the lines that were read.
LEMMA LineArrives ==
    ASSUME AcpInv, NEW m \in Message, Arrive(m)
    PROVE  /\ ReadyOK' /\ Notified' = Notified /\ Resuming' = Resuming /\ Late' = Late
           /\ DispatcherLate' <=> DispatcherLate
           /\ \A c \in {Dispatcher, Caller} : c \in ToSet(ready') <=> c \in ToSet(ready)
           /\ ready # <<>> => ready' # <<>> /\ Head(ready') = Head(ready)
           /\ Receiver \in ToSet(ready') /\ inbox' # <<>> /\ inbox' = Append(inbox, m)
           /\ Arriving' = Arriving \cup {u \in Update : m.kind = "update" /\ m.id = u}
           /\ Replies' = Replies \cup {r \in Request : m.kind # "update" /\ m.id = r}
<1>1. ReadyOK /\ inbox \in Seq(Message) /\ (Receiver \in ToSet(ready) <=> inbox # <<>>)
  BY Parts DEF LoopInv
<1>2. inbox' = Append(inbox, m) /\ inbox' # <<>> /\ ToSet(inbox') = ToSet(inbox) \cup {m}
  BY <1>1, Appended DEF Arrive
<1>3. Arriving' = Arriving \cup {u \in Update : m.kind = "update" /\ m.id = u}
  <2>1. \A u \in Update : m = [kind |-> "update", id |-> u] <=> m.kind = "update" /\ m.id = u
    BY MessageKinds
  <2>. QED
    BY <1>2, <2>1 DEF Arriving
<1>4. Replies' = Replies \cup {r \in Request : m.kind # "update" /\ m.id = r}
  <2>1. \A r \in Request : (\E k \in {"response", "error"} : m = [kind |-> k, id |-> r])
                             <=> m.kind # "update" /\ m.id = r
    BY MessageKinds
  <2>. QED
    BY <1>2, <2>1 DEF Replies
<1>. QED
  BY <1>1, <1>2, <1>3, <1>4, ArriveReady

\* The receive loop takes the first line.
LEMMA LineTaken ==
    ASSUME AcpInv, Running("receive")
    PROVE  /\ Head(inbox) \in Message
           /\ Tail(inbox) \in Seq(Message) /\ Sorted(Tail(inbox), InboxOrder) /\ Sorted(Tail(inbox), SaidOrder)
           /\ ToSet(inbox) = {Head(inbox)} \cup ToSet(Tail(inbox))
           /\ \A m \in ToSet(Tail(inbox)) : <<Head(inbox), m>> \in InboxOrder \cap SaidOrder
  BY Parts, Shortened, ShortenedSorted DEF RequestInv, SaidBefore

LEMMA UpdateTaken ==
    ASSUME AcpInv, Running("receive"), Head(inbox).kind = "update", inbox' = Tail(inbox)
    PROVE  /\ Head(inbox).id \in Update
           /\ Arriving = Arriving' \cup {Head(inbox).id} /\ Replies' = Replies
           /\ \A v \in Arriving' : Head(inbox).id < v
<1>1. /\ Head(inbox) \in Message /\ ToSet(inbox) = {Head(inbox)} \cup ToSet(inbox')
      /\ \A m \in ToSet(inbox') : <<Head(inbox), m>> \in InboxOrder
  BY LineTaken
<1>2. /\ Head(inbox).id \in Update /\ Head(inbox) = [kind |-> "update", id |-> Head(inbox).id]
      /\ \A r \in Request, k \in {"response", "error"} : Head(inbox) # [kind |-> k, id |-> r]
  BY <1>1, MessageKinds
<1>3. Arriving = Arriving' \cup {Head(inbox).id} /\ Replies' = Replies
  <2>1. \A v \in Update : Head(inbox) = [kind |-> "update", id |-> v] <=> v = Head(inbox).id
    BY <1>2
  <2>2. Arriving = Arriving' \cup {Head(inbox).id}
    BY <1>1, <1>2, <2>1 DEF Arriving
  <2>3. Replies' = Replies
    BY <1>1, <1>2 DEF Replies
  <2>. QED
    BY <2>2, <2>3
<1>4. ASSUME NEW v \in Arriving' PROVE Head(inbox).id < v
  <2> DEFINE m == [kind |-> "update", id |-> v]
  <2>1. m \in ToSet(inbox') /\ m.kind = "update" /\ m.id = v
    BY <1>4 DEF Arriving
  <2>2. <<Head(inbox), m>> \in InboxOrder
    BY <1>1, <2>1
  <2> HIDE DEF m
  <2>. QED
    BY <2>1, <2>2 DEF InboxOrder
<1>. QED
  BY <1>2, <1>3, <1>4

LEMMA ReplyTaken ==
    ASSUME AcpInv, Running("receive"), Head(inbox).kind # "update", inbox' = Tail(inbox)
    PROVE  /\ Head(inbox).id \in Request /\ Head(inbox).kind \in {"response", "error"}
           /\ Arriving' = Arriving
           /\ Replies = Replies' \cup {Head(inbox).id} /\ Head(inbox).id \notin Replies'
           /\ \A v \in Arriving : ~IsOf(v, Head(inbox).id)
<1>1. /\ Head(inbox) \in Message /\ ToSet(inbox) = {Head(inbox)} \cup ToSet(inbox')
      /\ \A m \in ToSet(inbox') : <<Head(inbox), m>> \in InboxOrder \cap SaidOrder
  BY LineTaken
<1>2. /\ Head(inbox).id \in Request /\ Head(inbox).kind \in {"response", "error"}
      /\ Head(inbox) = [kind |-> Head(inbox).kind, id |-> Head(inbox).id]
      /\ \A u \in Update : Head(inbox) # [kind |-> "update", id |-> u]
  BY <1>1, MessageKinds
<1>3. Arriving' = Arriving
  BY <1>1, <1>2 DEF Arriving
<1>4. Replies = Replies' \cup {Head(inbox).id}
  <2>1. \A r \in Request : (\E k \in {"response", "error"} : Head(inbox) = [kind |-> k, id |-> r])
                             <=> r = Head(inbox).id
    BY <1>2
  <2>. QED
    BY <1>1, <1>2, <2>1 DEF Replies
<1>5. Head(inbox).id \notin Replies'
  <2> SUFFICES ASSUME NEW k \in {"response", "error"}, NEW m, m = [kind |-> k, id |-> Head(inbox).id],
                      m \in ToSet(inbox')
               PROVE  FALSE
    BY DEF Replies
  <2>1. <<Head(inbox), m>> \in InboxOrder /\ m.kind # "update" /\ m.id = Head(inbox).id
    BY <1>1
  <2>. QED
    BY <2>1 DEF InboxOrder
<1>6. ASSUME NEW v \in Arriving PROVE ~IsOf(v, Head(inbox).id)
  <2> DEFINE m == [kind |-> "update", id |-> v]
  <2>1. m \in ToSet(inbox') /\ m.kind = "update" /\ m.id = v
    BY <1>3, <1>6 DEF Arriving
  <2>2. <<Head(inbox), m>> \in SaidOrder
    BY <1>1, <2>1
  <2> HIDE DEF m
  <2>. QED
    BY <2>1, <2>2 DEF SaidOrder
<1>. QED
  BY <1>2, <1>3, <1>4, <1>5, <1>6

\* The agent sends an update.
LEMMA SendUpdateEffect ==
    ASSUME AcpInv, NEW kind \in Kind, SendUpdate(kind), NEW n, n = Len(sent) + 1
    PROVE  /\ n \in Update /\ n \notin DOMAIN sent /\ DOMAIN sent' = DOMAIN sent \cup {n}
           /\ \A u \in DOMAIN sent : u \in Update /\ u < n /\ sent'[u] = sent[u]
           /\ sent'[n].kind = kind
           /\ kind = "text" => serving # <<>> /\ sent'[n].for = Head(serving) /\ Head(serving) \in ToSet(serving)
           /\ Arriving' = Arriving \cup {n} /\ Replies' = Replies /\ Ahead' = Ahead \cup {n}
           /\ inbox' = Append(inbox, [kind |-> "update", id |-> n])
           /\ UNCHANGED <<serving, queue, stateVars, callerVars>>
           /\ ReadyOK' /\ Notified' = Notified /\ Resuming' = Resuming /\ Late' = Late
           /\ DispatcherLate' <=> DispatcherLate
           /\ \A c \in {Dispatcher, Caller} : c \in ToSet(ready') <=> c \in ToSet(ready)
           /\ ready # <<>> => ready' # <<>> /\ Head(ready') = Head(ready)
           /\ Receiver \in ToSet(ready') /\ inbox' # <<>>
<1> DEFINE entry == [kind |-> kind, for |-> IF serving = <<>> THEN 0 ELSE Head(serving)]
           m == [kind |-> "update", id |-> n]
<1>1. /\ Len(sent) < MaxUpdates /\ sent' = Append(sent, entry) /\ Arrive(m)
      /\ kind = "text" => serving # <<>>
      /\ UNCHANGED <<serving, queue, stateVars, callerVars>>
  BY DEF SendUpdate
<1>2. n \in Update /\ n \in Nat
  BY <1>1, BoundsAssumption DEF AcpInv, TypeOK, Update
<1>3. entry.kind = kind /\ (serving # <<>> => entry.for = Head(serving))
  OBVIOUS
<1>4. serving # <<>> => Head(serving) \in Request /\ Head(serving) \in ToSet(serving)
  BY Parts, Shortened
<1>5. entry \in [kind : Kind, for : Request \cup {0}]
  BY <1>4
<1>6. m \in Message /\ m.kind = "update" /\ m.id = n
  BY <1>2, Messages
<1> HIDE DEF entry, m
<1>7. /\ DOMAIN sent' = DOMAIN sent \cup {n} /\ n \notin DOMAIN sent
      /\ \A u \in DOMAIN sent : u < n /\ sent'[u] = sent[u]
      /\ sent'[n] = entry
  <2>1. sent \in Seq([kind : Kind, for : Request \cup {0}])
    BY DEF AcpInv, TypeOK
  <2>2. /\ DOMAIN sent = 1..Len(sent) /\ Len(sent) \in Nat
        /\ Len(sent') = Len(sent) + 1 /\ sent' \in Seq([kind : Kind, for : Request \cup {0}])
        /\ \A i \in 1..Len(sent) : sent'[i] = sent[i]
        /\ sent'[Len(sent) + 1] = entry
    BY <1>1, <1>5, <2>1, AppendProperties
  <2>. QED
    BY <2>2
<1>8. /\ ReadyOK' /\ Notified' = Notified /\ Resuming' = Resuming /\ Late' = Late
      /\ DispatcherLate' <=> DispatcherLate
      /\ \A c \in {Dispatcher, Caller} : c \in ToSet(ready') <=> c \in ToSet(ready)
      /\ ready # <<>> => ready' # <<>> /\ Head(ready') = Head(ready)
      /\ Receiver \in ToSet(ready') /\ inbox' # <<>> /\ inbox' = Append(inbox, m)
      /\ Arriving' = Arriving \cup {u \in Update : m.kind = "update" /\ m.id = u}
      /\ Replies' = Replies \cup {r \in Request : m.kind # "update" /\ m.id = r}
  BY <1>1, <1>6, LineArrives
<1>9. Arriving' = Arriving \cup {n} /\ Replies' = Replies
  BY <1>2, <1>6, <1>8
<1>10. Ahead' = Ahead \cup {n}
  BY <1>1, <1>8, <1>9 DEF Ahead
<1>11. \A u \in DOMAIN sent : u \in Update
  BY Parts
<1>. QED
  BY <1>1, <1>2, <1>3, <1>4, <1>7, <1>8, <1>9, <1>10, <1>11 DEF m

\* What is a text stays one, and only a text that is sent becomes one.
LEMMA SendUpdateTexts ==
    ASSUME AcpInv, NEW kind \in Kind, SendUpdate(kind), NEW n, n = Len(sent) + 1
    PROVE  /\ \A u : Text(u)' <=> Text(u) \/ (u = n /\ kind = "text")
           /\ \A u, r : IsOf(u, r)' <=> IsOf(u, r) \/ (u = n /\ kind = "text" /\ r = Head(serving))
           /\ \A u \in DOMAIN sent : IsText(u)' <=> IsText(u)
           /\ kind = "text" => \A r \in Request : Answered(r) => r # Head(serving)
<1>1. /\ n \notin DOMAIN sent /\ DOMAIN sent' = DOMAIN sent \cup {n}
      /\ \A u \in DOMAIN sent : sent'[u] = sent[u]
      /\ sent'[n].kind = kind
      /\ kind = "text" => sent'[n].for = Head(serving) /\ Head(serving) \in ToSet(serving)
  BY SendUpdateEffect
<1>2. \A r \in Request : Answered(r) => r \notin ToSet(serving)
  BY Parts DEF RequestInv
<1>. QED
  BY <1>1, <1>2 DEF Text, IsOf, IsText

\* The agent answers the first request.
LEMMA RespondEffect ==
    ASSUME AcpInv, NEW k \in {"response", "error"}, Respond(k)
    PROVE  /\ serving # <<>> /\ Head(serving) \in Request /\ ToSet(serving) = {Head(serving)} \cup ToSet(serving')
           /\ \A r \in ToSet(serving') : Head(serving) < r
           /\ serving' \in Seq(Request) /\ Sorted(serving', Increasing)
           /\ Arriving' = Arriving /\ Replies' = Replies \cup {Head(serving)} /\ Ahead' = Ahead
           /\ inbox' = Append(inbox, [kind |-> k, id |-> Head(serving)])
           /\ UNCHANGED <<sent, queue, stateVars, callerVars>>
           /\ ReadyOK' /\ Notified' = Notified /\ Resuming' = Resuming /\ Late' = Late
           /\ DispatcherLate' <=> DispatcherLate
           /\ \A c \in {Dispatcher, Caller} : c \in ToSet(ready') <=> c \in ToSet(ready)
           /\ ready # <<>> => ready' # <<>> /\ Head(ready') = Head(ready)
           /\ Receiver \in ToSet(ready') /\ inbox' # <<>>
<1> DEFINE m == [kind |-> k, id |-> Head(serving)]
<1>1. /\ serving # <<>> /\ Arrive(m) /\ serving' = Tail(serving)
      /\ UNCHANGED <<sent, queue, stateVars, callerVars>>
  BY DEF Respond
<1>2. /\ Head(serving) \in Request /\ serving' \in Seq(Request)
      /\ ToSet(serving) = {Head(serving)} \cup ToSet(serving')
  BY <1>1, Parts, Shortened
<1>3. Sorted(serving', Increasing) /\ \A r \in ToSet(serving') : <<Head(serving), r>> \in Increasing
  BY <1>1, Parts, ShortenedSorted DEF RequestInv
<1>4. m \in Message /\ m.kind # "update" /\ m.id = Head(serving)
  BY <1>2, Messages
<1> HIDE DEF m
<1>5. /\ ReadyOK' /\ Notified' = Notified /\ Resuming' = Resuming /\ Late' = Late
      /\ DispatcherLate' <=> DispatcherLate
      /\ \A c \in {Dispatcher, Caller} : c \in ToSet(ready') <=> c \in ToSet(ready)
      /\ ready # <<>> => ready' # <<>> /\ Head(ready') = Head(ready)
      /\ Receiver \in ToSet(ready') /\ inbox' # <<>> /\ inbox' = Append(inbox, m)
      /\ Arriving' = Arriving \cup {u \in Update : m.kind = "update" /\ m.id = u}
      /\ Replies' = Replies \cup {r \in Request : m.kind # "update" /\ m.id = r}
  BY <1>1, <1>4, LineArrives
<1>6. Arriving' = Arriving /\ Replies' = Replies \cup {Head(serving)}
  BY <1>2, <1>4, <1>5
<1>7. Ahead' = Ahead
  BY <1>1, <1>5, <1>6 DEF Ahead
<1>. QED
  BY <1>1, <1>2, <1>3, <1>5, <1>6, <1>7 DEF m, Increasing

\* The receive loop queues an update.
LEMMA ReceiveUpdateEffect ==
    ASSUME AcpInv, ReceiveUpdate, NEW u, u = Head(inbox).id
    PROVE  /\ u \in Arriving /\ Arriving = Arriving' \cup {u} /\ Replies' = Replies /\ Ahead' = Ahead
           /\ \A v \in Arriving' : u < v
           /\ queue' = Append(queue, u) /\ ToSet(queue') = ToSet(queue) \cup {u} /\ queue' # <<>>
           /\ Sorted(inbox', InboxOrder) /\ Sorted(inbox', SaidOrder)
           /\ UNCHANGED <<agentVars, stateVars, callerVars>>
           /\ ReadyOK' /\ Notified' = Notified /\ Resuming' = Resuming /\ Late' = Late
           /\ DispatcherLate' => DispatcherLate \/ queue = <<>>
           /\ Receiver \in ToSet(ready') <=> inbox' # <<>>
           /\ Dispatcher \in ToSet(ready')
           /\ Caller \in ToSet(ready') <=> Caller \in ToSet(ready)
           /\ Head(ready) # Caller
<1>1. /\ Running("receive") /\ Head(inbox).kind = "update" /\ queue' = Append(queue, u)
      /\ inbox' = Tail(inbox) /\ UNCHANGED <<agentVars, stateVars, callerVars>>
  BY DEF ReceiveUpdate
<1>2. /\ u \in Update /\ Arriving = Arriving' \cup {u} /\ Replies' = Replies
      /\ \A v \in Arriving' : u < v
  BY <1>1, UpdateTaken
<1>3. ToSet(queue') = ToSet(queue) \cup {u} /\ queue' # <<>>
  BY <1>1, <1>2, Parts, Appended, SMTT(20)
<1>4. Sorted(inbox', InboxOrder) /\ Sorted(inbox', SaidOrder)
  BY <1>1, LineTaken
<1>5. /\ ReadyOK' /\ Notified' = Notified /\ Resuming' = Resuming /\ Late' = Late
      /\ DispatcherLate' => DispatcherLate \/ queue = <<>>
      /\ Receiver \in ToSet(ready') <=> inbox' # <<>>
      /\ Dispatcher \in ToSet(ready')
      /\ Caller \in ToSet(ready') <=> Caller \in ToSet(ready)
  BY <1>1, Parts, ReceiveUpdateReady DEF LoopInv
<1>6. Ahead' = Ahead
  BY <1>2, <1>3, <1>5 DEF Ahead
<1>7. Head(ready) # Caller
  BY <1>1, Parts, FrontCallback, Callbacks
<1>. QED
  BY <1>1, <1>2, <1>3, <1>4, <1>5, <1>6, <1>7

\* The receive loop resolves the future of a request.
LEMMA ReceiveResponseEffect ==
    ASSUME AcpInv, ReceiveResponse, NEW r, r = Head(inbox).id
    PROVE  /\ r \in Replies /\ r \in Request /\ Arriving' = Arriving /\ Ahead' = Ahead
           /\ Replies = Replies' \cup {r} /\ r \notin Replies'
           /\ \A v \in Arriving : ~IsOf(v, r)
           /\ Sorted(inbox', InboxOrder) /\ Sorted(inbox', SaidOrder)
           /\ UNCHANGED <<agentVars, queue, stateVars, caller, request, drained_any, outcome,
                          streamed, stale>>
           /\ Awaited(r) => answer' # "none" /\ ~DispatcherLate'
           /\ ~Awaited(r) => answer' = answer /\ (Caller \in ToSet(ready') <=> Caller \in ToSet(ready))
           /\ ReadyOK' /\ Notified' = Notified /\ Resuming' = Resuming /\ Late' = Late
           /\ DispatcherLate' <=> DispatcherLate
           /\ Receiver \in ToSet(ready') <=> inbox' # <<>>
           /\ Dispatcher \in ToSet(ready') <=> Dispatcher \in ToSet(ready)
           /\ Head(ready) # Caller
<1>1. /\ Running("receive") /\ Head(inbox).kind # "update" /\ inbox' = Tail(inbox)
      /\ IF Awaited(r) THEN answer' = Head(inbox).kind ELSE UNCHANGED answer
      /\ UNCHANGED <<agentVars, queue, stateVars, caller, request, drained_any, outcome,
                     streamed, stale>>
  BY DEF ReceiveResponse
<1>2. /\ r \in Request /\ Head(inbox).kind \in {"response", "error"} /\ Arriving' = Arriving
      /\ Replies = Replies' \cup {r} /\ r \notin Replies'
      /\ \A v \in Arriving : ~IsOf(v, r)
  BY <1>1, ReplyTaken
<1>3. Sorted(inbox', InboxOrder) /\ Sorted(inbox', SaidOrder)
  BY <1>1, LineTaken
<1>4. Awaited(r) => Caller \notin ToSet(ready)
  BY Parts DEF LoopInv, Awaited, Requesting
<1>5. /\ ReadyOK' /\ Notified' = Notified /\ Resuming' = Resuming
      /\ Late' = Late /\ (DispatcherLate' <=> DispatcherLate)
      /\ Awaited(r) => ~DispatcherLate'
      /\ Receiver \in ToSet(ready') <=> inbox' # <<>>
      /\ Dispatcher \in ToSet(ready') <=> Dispatcher \in ToSet(ready)
      /\ ~Awaited(r) => (Caller \in ToSet(ready') <=> Caller \in ToSet(ready))
  BY <1>1, <1>4, Parts, ReceiveResponseReady
<1>6. Ahead' = Ahead
  BY <1>1, <1>2, <1>5 DEF Ahead
<1>7. Head(ready) # Caller
  BY <1>1, Parts, FrontCallback, Callbacks
<1>. QED
  BY <1>1, <1>2, <1>3, <1>5, <1>6, <1>7

LEMMA DispatchEffect ==
    ASSUME AcpInv, Dispatch
    PROVE  /\ queue' = <<>> /\ Notified' = Notified \cup ToSet(queue) /\ ToSet(queue') = {} /\ Ahead' = Ahead
           /\ UNCHANGED <<agentVars, inbox, stateVars, callerVars>>
           /\ Arriving' = Arriving /\ Replies' = Replies
           /\ ReadyOK' /\ Resuming' = Resuming /\ Late' \subseteq Late \cup ToSet(queue) /\ ~DispatcherLate'
           /\ Dispatcher \notin ToSet(ready')
           /\ \A c \in {Receiver, Caller} : c \in ToSet(ready') <=> c \in ToSet(ready)
           /\ Head(ready) # Caller
<1>1. /\ Running("dispatch") /\ queue' = <<>> /\ UNCHANGED <<agentVars, inbox, stateVars, callerVars>>
  BY DEF Dispatch
<1>2. /\ ReadyOK' /\ Notified' = Notified \cup ToSet(queue) /\ Resuming' = Resuming
      /\ Late' \subseteq Late \cup ToSet(queue) /\ ~DispatcherLate'
      /\ Dispatcher \notin ToSet(ready')
      /\ \A c \in {Receiver, Caller} : c \in ToSet(ready') <=> c \in ToSet(ready)
  BY Parts, DispatchReady DEF OrderInv
<1>3. Arriving' = Arriving /\ Replies' = Replies
  BY <1>1 DEF Arriving, Replies
<1>4. ToSet(queue') = {}
  BY <1>1 DEF ToSet
<1>5. Ahead' = Ahead
  BY <1>2, <1>3, <1>4 DEF Ahead
<1>6. Head(ready) # Caller
  BY <1>1, Parts, FrontCallback, Callbacks
<1>. QED
  BY <1>1, <1>2, <1>3, <1>4, <1>5, <1>6

\* A notification that is announced first leaves for the emission.
LEMMA EmitEffect ==
    ASSUME AcpInv, EmitUpdate, NEW u, u = Head(ready).update
    PROVE  /\ u \in DOMAIN sent /\ ~IsText(u) /\ emitting' = emitting \cup {u}
           /\ Notified = Notified' \cup {u} /\ Ahead' \subseteq Ahead /\ Ahead \subseteq Ahead' \cup {u}
           /\ UNCHANGED <<agentVars, inbox, queue, updates, is_loading, load_updates, update_event,
                          callerVars>>
           /\ Arriving' = Arriving /\ Replies' = Replies
           /\ ReadyOK' /\ Resuming' \subseteq Resuming /\ Late' \subseteq Late
           /\ DispatcherLate' => DispatcherLate
           /\ \A c \in {Receiver, Dispatcher, Caller} : c \in ToSet(ready') <=> c \in ToSet(ready)
           /\ Head(ready) # Caller
<1>1. /\ Running("notify") /\ sent[u].kind # "text" /\ emitting' = emitting \cup {u} /\ ready' = Tail(ready)
      /\ UNCHANGED <<agentVars, inbox, queue, updates, is_loading, load_updates, update_event,
                     callerVars>>
  BY DEF EmitUpdate
<1>2. /\ ReadyOK' /\ Resuming' \subseteq Resuming /\ Late' \subseteq Late
      /\ Notified = Notified' \cup {u}
      /\ DispatcherLate' => DispatcherLate
      /\ \A c \in {Receiver, Dispatcher} : c \in ToSet(ready') <=> c \in ToSet(ready)
      /\ Caller \in ToSet(ready') <=> Caller \in ToSet(ready)
  BY <1>1, Parts, NotificationReady
<1>3. Arriving' = Arriving /\ Replies' = Replies
  BY <1>1 DEF Arriving, Replies
<1>4. u \in DOMAIN sent
  BY <1>2, Parts DEF KnownInv, Ahead
<1>5. ToSet(queue') = ToSet(queue)
  BY <1>1
<1>6. Ahead' \subseteq Ahead /\ Ahead \subseteq Ahead' \cup {u}
  BY <1>2, <1>3, <1>5 DEF Ahead
<1>7. Head(ready) # Caller
  BY <1>1, Parts, FrontCallback, Callbacks
<1>. QED
  BY <1>1, <1>2, <1>3, <1>4, <1>6, <1>7 DEF IsText

LEMMA EmittedEffect ==
    ASSUME AcpInv, NEW u \in emitting, Emitted(u)
    PROVE  /\ u \in DOMAIN sent /\ ~IsText(u) /\ emitting' \subseteq emitting
           /\ UNCHANGED <<agentVars, inbox, queue, updates, is_loading, load_updates, update_event,
                          callerVars>>
           /\ Arriving' = Arriving /\ Replies' = Replies /\ Ahead' = Ahead
           /\ ReadyOK' /\ Notified' = Notified /\ Resuming' = Resuming \cup {u} /\ Late' = Late
           /\ DispatcherLate' <=> DispatcherLate
           /\ \A c \in {Receiver, Dispatcher, Caller} : c \in ToSet(ready') <=> c \in ToSet(ready)
           /\ ready # <<>> => ready' # <<>> /\ Head(ready') = Head(ready)
<1>1. /\ emitting' = emitting \ {u} /\ ready' = Append(ready, Resumption(u))
      /\ UNCHANGED <<agentVars, inbox, queue, updates, is_loading, load_updates, update_event,
                     callerVars>>
  BY DEF Emitted
<1>2. u \in Update /\ u \in DOMAIN sent /\ ~IsText(u)
  BY Parts DEF KnownInv
<1>3. /\ ReadyOK' /\ Notified' = Notified /\ Resuming' = Resuming \cup {u} /\ Late' = Late
      /\ DispatcherLate' <=> DispatcherLate
      /\ \A c \in {Receiver, Dispatcher, Caller} : c \in ToSet(ready') <=> c \in ToSet(ready)
      /\ ready # <<>> => ready' # <<>> /\ Head(ready') = Head(ready)
  BY <1>1, <1>2, Parts, EmittedReady
<1>4. Arriving' = Arriving /\ Replies' = Replies /\ ToSet(queue') = ToSet(queue)
  BY <1>1 DEF Arriving, Replies
<1>5. Ahead' = Ahead
  BY <1>3, <1>4 DEF Ahead
<1>. QED
  BY <1>1, <1>2, <1>3, <1>4, <1>5

\* The rest of session_update, of a notification or after the emission.
LEMMA StoreEffect ==
    ASSUME AcpInv, StoreUpdate, NEW u, u = Head(ready).update
    PROVE  /\ u \in Update /\ u \in DOMAIN sent
           /\ \/ updates' = Append(updates, u)
                 /\ load_updates' = IF is_loading THEN Append(load_updates, u) ELSE load_updates
              \/ UNCHANGED <<updates, load_updates>> /\ ~IsText(u)
           /\ \/ Notified = Notified' \cup {u} /\ \A v \in Notified' : u < v
              \/ Notified = Notified' /\ ~IsText(u)
           /\ UNCHANGED <<agentVars, inbox, queue, emitting, is_loading, request, answer,
                          drained_any, outcome, streamed, stale>>
           /\ update_event'
           /\ IF caller = "waiting" THEN caller' = "woken" /\ Late' = {}
                                    ELSE caller' = caller /\ (Caller \in ToSet(ready') <=> Caller \in ToSet(ready))
           /\ Arriving' = Arriving /\ Replies' = Replies
           /\ ReadyOK' /\ Resuming' \subseteq Resuming /\ Late' \subseteq Late
           /\ DispatcherLate' => DispatcherLate
           /\ \A c \in {Receiver, Dispatcher} : c \in ToSet(ready') <=> c \in ToSet(ready)
           /\ Head(ready) # Caller
<1>1. /\ Running("notify") \/ Running("resume")
      /\ IF sent[u].kind = "mode" THEN UNCHANGED <<updates, load_updates>> ELSE AddUpdate(u)
      /\ SetEvent
      /\ UNCHANGED <<agentVars, inbox, queue, emitting, is_loading, request, answer,
                     drained_any, outcome, streamed, stale>>
  BY DEF StoreUpdate
<1>2. \/ ready' = Tail(ready)
      \/ ready' = Append(Tail(ready), Caller) /\ Caller \notin ToSet(ready)
  <2>1. caller = "waiting" => Caller \notin ToSet(ready)
    BY Parts DEF LoopInv
  <2>. QED
    BY <1>1, <2>1 DEF SetEvent
<1>3. /\ ReadyOK' /\ Resuming' \subseteq Resuming /\ Late' \subseteq Late
      /\ Running("resume") => Notified' = Notified
      /\ Running("notify") => Notified = Notified' \cup {u} /\ \A v \in Notified' : u < v
      /\ DispatcherLate' => DispatcherLate
      /\ \A c \in {Receiver, Dispatcher} : c \in ToSet(ready') <=> c \in ToSet(ready)
      /\ ready' = Tail(ready) => (Caller \in ToSet(ready') <=> Caller \in ToSet(ready))
  BY <1>1, <1>2, Parts, NotificationReady
<1>4. /\ Running("notify") => ready # <<>> /\ u \in Update /\ Head(ready) = Notification(u)
      /\ Running("resume") => ready # <<>> /\ u \in Update /\ Head(ready) = Resumption(u)
      /\ ready # <<>> => Head(ready) \in ToSet(ready)
  BY Parts, FrontCallback
<1>5. /\ Running("notify") => u \in DOMAIN sent
      /\ Running("resume") => u \in DOMAIN sent /\ ~IsText(u)
  <2>1. Running("notify") => u \in Notified
    BY <1>3
  <2>2. Running("resume") => u \in Resuming
    BY <1>4 DEF Resuming, ResumingIn
  <2>. QED
    BY <2>1, <2>2, Parts DEF KnownInv, Ahead
<1>6. \/ updates' = Append(updates, u)
         /\ load_updates' = IF is_loading THEN Append(load_updates, u) ELSE load_updates
      \/ UNCHANGED <<updates, load_updates>> /\ ~IsText(u)
  BY <1>1 DEF AddUpdate, IsText
<1>7. \/ Notified = Notified' \cup {u} /\ \A v \in Notified' : u < v
      \/ Notified = Notified' /\ ~IsText(u)
  BY <1>1, <1>3, <1>5
<1>8. /\ update_event'
      /\ IF caller = "waiting" THEN caller' = "woken" ELSE caller' = caller /\ ready' = Tail(ready)
  BY <1>1 DEF SetEvent
<1>9. caller = "waiting" => Late = {}
  <2>1. caller = "waiting" => Caller \notin ToSet(ready)
    BY Parts DEF LoopInv
  <2>. QED
    BY <2>1, NoneBehind DEF Late, LateIn
<1>10. Arriving' = Arriving /\ Replies' = Replies
  BY <1>1 DEF Arriving, Replies
<1>11. Head(ready) # Caller
  BY <1>1, <1>4, Callbacks
<1>. QED
  BY <1>1, <1>3, <1>4, <1>5, <1>6, <1>7, <1>8, <1>9, <1>10, <1>11

\* What is stored.
LEMMA StoredSets ==
    ASSUME AcpInv, StoreUpdate, NEW u, u = Head(ready).update
    PROVE  /\ ToSet(updates') \subseteq ToSet(updates) \cup {u} /\ ToSet(updates) \subseteq ToSet(updates')
           /\ IsText(u) => u \in ToSet(updates')
           /\ IsText(u) /\ is_loading => u \in ToSet(load_updates')
           /\ ToSet(load_updates') \subseteq ToSet(load_updates) \cup {u}
           /\ ToSet(load_updates) \subseteq ToSet(load_updates')
           /\ Ahead' \subseteq Ahead /\ Ahead \subseteq Ahead' \cup {u}
<1>1. /\ u \in Update
      /\ \/ updates' = Append(updates, u)
            /\ load_updates' = IF is_loading THEN Append(load_updates, u) ELSE load_updates
         \/ UNCHANGED <<updates, load_updates>> /\ ~IsText(u)
      /\ \/ Notified = Notified' \cup {u}
         \/ Notified = Notified'
      /\ Arriving' = Arriving /\ queue' = queue
  BY StoreEffect
<1>2. /\ ToSet(Append(updates, u)) = ToSet(updates) \cup {u}
      /\ ToSet(Append(load_updates, u)) = ToSet(load_updates) \cup {u}
  BY <1>1, Appended DEF AcpInv, TypeOK
<1>3. Ahead' \subseteq Ahead /\ Ahead \subseteq Ahead' \cup {u}
  BY <1>1 DEF Ahead
<1>4. CASE UNCHANGED <<updates, load_updates>> /\ ~IsText(u)
  BY <1>3, <1>4
<1>5. CASE updates' = Append(updates, u) /\ load_updates' = IF is_loading THEN Append(load_updates, u) ELSE load_updates
  BY <1>2, <1>3, <1>5
<1>. QED
  BY <1>1, <1>4, <1>5

\* A turn or load begins.
LEMMA BeginEffect ==
    ASSUME AcpInv, NEW state \in Requesting, Begin(state)
    PROVE  /\ caller = "idle" /\ caller' = state /\ request' = request + 1 /\ request' \in Request
           /\ request \in Nat /\ answer = "none" /\ answer' = "none" /\ Caller \notin ToSet(ready)
           /\ outcome[request'] = "none" /\ streamed[request'] = <<>> /\ request' \notin stale
           /\ outcome'[request'] = "open"
           /\ \A r \in Request : r # request' => outcome'[r] = outcome[r]
           /\ serving' = Append(serving, request') /\ ToSet(serving') = ToSet(serving) \cup {request'}
           /\ UNCHANGED <<sent, loopVars, emitting, update_event, drained_any, streamed, stale>>
           /\ UNCHANGED <<Notified, Resuming, Arriving, Replies, Ahead, Late, DispatcherLate>>
           /\ ReadyOK'
           /\ \A u : ~IsOf(u, request')
           /\ \A r \in Request : Answered(r)' => Answered(r)
<1>1. /\ caller = "idle" /\ request < MaxRequests /\ request' = request + 1 /\ caller' = state
      /\ outcome' = [outcome EXCEPT ![request + 1] = "open"]
      /\ serving' = Append(serving, request + 1)
      /\ UNCHANGED <<sent, loopVars, emitting, update_event, answer, drained_any, streamed, stale>>
  BY DEF Begin, SetCaller
<1>2. request' \in Request /\ request \in Nat /\ outcome \in [Request -> Outcomes]
  BY <1>1, BoundsAssumption DEF AcpInv, TypeOK, Request
<1>3. answer = "none" /\ Caller \notin ToSet(ready)
  BY <1>1, Parts DEF LoopInv
<1>4. /\ \A r \in Request : r > request => outcome[r] = "none" /\ streamed[r] = <<>>
      /\ \A r \in stale : r <= request
      /\ \A u \in DOMAIN sent : IsText(u) => sent[u].for \in 1..request
  BY Parts DEF RequestInv
<1>5. request' > request /\ request' \notin stale /\ request' \notin 1..request
  BY <1>1, <1>2, <1>4
<1>6. outcome'[request'] = "open" /\ \A r \in Request : r # request' => outcome'[r] = outcome[r]
  BY <1>1, <1>2
<1>7. ToSet(serving') = ToSet(serving) \cup {request'}
  BY <1>1, <1>2, Appended DEF AcpInv, TypeOK
<1>8. UNCHANGED <<Notified, Resuming, Arriving, Replies, Ahead, Late, DispatcherLate>> /\ ReadyOK'
  BY <1>1, Parts DEF Notified, Resuming, Arriving, Replies, Ahead, Late, DispatcherLate, ReadyOK, loopVars
<1>9. \A u : ~IsOf(u, request')
  BY <1>4, <1>5 DEF IsOf, Text
<1>10. \A r \in Request : Answered(r)' => Answered(r)
  BY <1>1, <1>3, <1>6 DEF Answered
<1>. QED
  BY <1>1, <1>2, <1>3, <1>4, <1>5, <1>6, <1>7, <1>8, <1>9, <1>10

\* The steps of a turn or load that has begun.
CallerStep == TurnStep \/ LoadStep \/ Timeout \/ ConsumerResumes \/ Cancel

\* What is on its way stays as it is.
LEMMA CallerReady ==
    ASSUME AcpInv, CallerStep
    PROVE  /\ ReadyOK' /\ UNCHANGED Others
           /\ caller' \in {"idle", "waiting", "yielding"} => Caller \notin ToSet(ready')
<1>1. ReadyOK
  BY Parts
<1>2. CASE ready' = Tail(ready) /\ Running("caller")
  BY <1>1, <1>2, CallerStops
<1>3. CASE ready' = Append(Tail(ready), Caller) /\ Running("caller") /\ caller' = "settling"
  BY <1>1, <1>3, CallerYields
<1>4. CASE ready' = Append(ready, Caller) /\ caller \in {"waiting", "yielding"} /\ caller' \in {"expired", "draining"}
  <2>1. Caller \notin ToSet(ready)
    BY <1>4, Parts DEF LoopInv
  <2>. QED
    BY <1>1, <1>4, <2>1, CallerJoins
<1>5. CASE ready' = ready /\ caller' \in {"draining", "expired"}
  BY <1>1, <1>5 DEF ReadyOK, Others, Notified, Resuming
<1>6. CASE Cancel
  BY <1>1, <1>6, CallerCancelled
<1>. USE DEF SetCaller, loopVars
<1>7. CASE BeginStream \/ DrainAgain
  BY <1>2, <1>5, <1>7 DEF BeginStream, DrainAgain, NextRound
<1>8. CASE PromptFails \/ EndTurn \/ Capture \/ LoadFails
  BY <1>2, <1>8 DEF PromptFails, EndTurn, Capture, LoadFails
<1>9. CASE EndWait
  BY <1>5, <1>9 DEF EndWait
<1>10. CASE \E b \in BOOLEAN : Pop(b)
  <2>1. (ready' = Tail(ready) /\ Running("caller")) \/ (ready' = ready /\ caller' = "draining")
    <3>1. PICK b \in BOOLEAN : Pop(b)
      BY <1>10
    <3>2. Running("caller") /\ caller = "draining"
      BY <3>1 DEF Pop
    <3>3. ready' = Tail(ready) \/ (ready' = ready /\ caller' = caller)
      BY <3>1 DEF Pop
    <3>. QED
      BY <3>2, <3>3
  <2>. QED
    BY <1>2, <1>5, <2>1
<1>11. CASE Settle
  BY <1>3, <1>11 DEF Settle
<1>12. CASE Timeout
  BY <1>4, <1>5, <1>12 DEF Timeout
<1>13. CASE ConsumerResumes
  BY <1>4, <1>13 DEF ConsumerResumes
<1>. QED
  BY <1>6, <1>7, <1>8, <1>9, <1>10, <1>11, <1>12, <1>13 DEF CallerStep, TurnStep, LoadStep

LEMMA CallerPipe ==
    ASSUME AcpInv, CallerStep
    PROVE  /\ UNCHANGED <<sent, serving, inbox, queue, emitting, request>>
           /\ UNCHANGED <<Notified, Resuming, Arriving, Replies, Ahead>>
           /\ \A c \in {Receiver, Dispatcher} : c \in ToSet(ready') <=> c \in ToSet(ready)
<1>1. UNCHANGED <<sent, serving, inbox, queue, emitting, request>>
  BY DEF CallerStep, TurnStep, LoadStep, BeginStream, DrainAgain, PromptFails, EndTurn, Capture, LoadFails,
         EndWait, Pop, Settle, Timeout, ConsumerResumes, Cancel, agentVars, loopVars, stateVars
<1>2. /\ Notified' = Notified /\ Resuming' = Resuming
      /\ \A c \in {Receiver, Dispatcher} : c \in ToSet(ready') <=> c \in ToSet(ready)
  BY CallerReady DEF Others
<1>3. Arriving' = Arriving /\ Replies' = Replies
  BY <1>1 DEF Arriving, Replies
<1>4. Ahead' = Ahead
  BY <1>1, <1>2, <1>3 DEF Ahead
<1>. QED
  BY <1>1, <1>2, <1>3, <1>4

\* A step of the caller either goes on with the request, or ends it.
LEMMA CallerGoesOn ==
    ASSUME AcpInv, CallerStep
    PROVE  /\ caller # "idle" /\ request \in Request /\ outcome[request] = "open"
           /\ \/ /\ outcome' = outcome /\ answer' = answer
                 /\ caller' \in {"waiting", "expired", "draining", "yielding", "settling"}
                 /\ caller' = "settling" => caller = "loading"
                 /\ caller \in Requesting => answer # "none"
              \/ /\ outcome'[request] \in {"done", "failed", "cancelled", "loaded"}
                 /\ \A r \in Request : r # request => outcome'[r] = outcome[r]
                 /\ outcome'[request] \in {"done", "loaded"} => answer # "none"
                 /\ caller' = "idle" /\ answer' = "none"
           /\ stale \subseteq stale' /\ stale' \subseteq stale \cup {request}
           /\ \A r \in Request : r # request => streamed'[r] = streamed[r]
           /\ \A r \in Request : Answered(r)' => Answered(r)
<1>1. caller # "idle"
  BY DEF CallerStep, TurnStep, LoadStep, BeginStream, DrainAgain, PromptFails, EndTurn, Capture, LoadFails,
         EndWait, Pop, Settle, Timeout, ConsumerResumes, Cancel
<1>2. /\ request \in Request /\ outcome[request] = "open" /\ outcome \in [Request -> Outcomes]
      /\ streamed \in [Request -> Seq(Update)]
  BY <1>1, Parts DEF RequestInv, TypeOK
<1>3. caller \in {"draining", "settling"} => answer # "none"
  BY Parts DEF DeliveryInv, QueueClear, Requesting
<1>. DEFINE
       GoesOn ==
         /\ outcome' = outcome /\ answer' = answer
         /\ caller' \in {"waiting", "expired", "draining", "yielding", "settling"}
         /\ caller' = "settling" => caller = "loading"
         /\ caller \in Requesting => answer # "none"
       Ends ==
         /\ outcome'[request] \in {"done", "failed", "cancelled", "loaded"}
         /\ \A r \in Request : r # request => outcome'[r] = outcome[r]
         /\ outcome'[request] \in {"done", "loaded"} => answer # "none"
         /\ caller' = "idle" /\ answer' = "none"
<1>4. ASSUME NEW result \in {"done", "failed", "cancelled", "loaded"}, End(result),
             result \in {"done", "loaded"} => answer # "none"
      PROVE  Ends
  BY <1>2, <1>4 DEF End, SetCaller
<1>5. CASE BeginStream \/ DrainAgain
  <2>1. GoesOn
    BY <1>3, <1>5 DEF BeginStream, DrainAgain, NextRound, SetCaller, Requesting
  <2>2. stale \subseteq stale' /\ stale' \subseteq stale \cup {request} /\ streamed' = streamed
    BY <1>5 DEF BeginStream, DrainAgain
  <2>. QED
    BY <1>1, <1>2, <2>1, <2>2, CallerPipe DEF Answered
<1>6. ASSUME PromptFails \/ EndTurn \/ LoadFails \/ Cancel \/ Capture
      PROVE  Ends /\ stale' = stale /\ \A r \in Request : r # request => streamed'[r] = streamed[r]
  <2>1. Ends
    BY <1>3, <1>4, <1>6 DEF PromptFails, EndTurn, LoadFails, Cancel, Capture
  <2>2. stale' = stale /\ \A r \in Request : r # request => streamed'[r] = streamed[r]
    BY <1>2, <1>6 DEF PromptFails, EndTurn, LoadFails, Cancel, Capture
  <2>. QED
    BY <2>1, <2>2
<1>7. ASSUME EndWait \/ Settle \/ Timeout \/ ConsumerResumes \/ \E b \in BOOLEAN : Pop(b)
      PROVE  GoesOn /\ stale' = stale /\ \A r \in Request : r # request => streamed'[r] = streamed[r]
  <2>1. GoesOn
    BY <1>7 DEF EndWait, Settle, Timeout, ConsumerResumes, Pop, SetCaller, Requesting
  <2>2. stale' = stale /\ \A r \in Request : r # request => streamed'[r] = streamed[r]
    BY <1>2, <1>7 DEF EndWait, Settle, Timeout, ConsumerResumes, Pop
  <2>. QED
    BY <2>1, <2>2
<1>8. ASSUME Ends PROVE \A r \in Request : Answered(r)' => Answered(r)
  BY <1>8 DEF Answered
<1>9. ASSUME GoesOn PROVE \A r \in Request : Answered(r)' => Answered(r)
  BY <1>9, CallerPipe DEF Answered
<1>. QED
  BY <1>1, <1>2, <1>5, <1>6, <1>7, <1>8, <1>9 DEF CallerStep, TurnStep, LoadStep

-----------------------------------------------------------------------------
(***************************************************************************)
(* The invariant, part by part.                                            *)
(***************************************************************************)
LEMMA LoopNext == AcpInv /\ [Next]_vars => LoopInv'
<1> SUFFICES ASSUME AcpInv, [Next]_vars PROVE LoopInv'
  OBVIOUS
<1>1. LoopInv
  BY Parts
<1>2. ASSUME NEW kind \in Kind, SendUpdate(kind) PROVE LoopInv'
  <2> DEFINE n == Len(sent) + 1
  <2>1. /\ ReadyOK' /\ Receiver \in ToSet(ready') /\ inbox' # <<>>
        /\ \A c \in {Dispatcher, Caller} : c \in ToSet(ready') <=> c \in ToSet(ready)
        /\ UNCHANGED <<queue, callerVars>>
    BY <1>2, SendUpdateEffect
  <2>. QED
    BY <1>1, <2>1 DEF LoopInv, ReadyOK, callerVars
<1>3. ASSUME NEW k \in {"response", "error"}, Respond(k) PROVE LoopInv'
  <2>1. /\ ReadyOK' /\ Receiver \in ToSet(ready') /\ inbox' # <<>>
        /\ \A c \in {Dispatcher, Caller} : c \in ToSet(ready') <=> c \in ToSet(ready)
        /\ UNCHANGED <<queue, callerVars>>
    BY <1>3, RespondEffect
  <2>. QED
    BY <1>1, <2>1 DEF LoopInv, ReadyOK, callerVars
<1>4. CASE ReceiveUpdate
  <2>1. /\ ReadyOK' /\ queue' # <<>> /\ UNCHANGED callerVars
        /\ Receiver \in ToSet(ready') <=> inbox' # <<>>
        /\ Dispatcher \in ToSet(ready')
        /\ Caller \in ToSet(ready') <=> Caller \in ToSet(ready)
    BY <1>4, ReceiveUpdateEffect
  <2>. QED
    BY <1>1, <2>1 DEF LoopInv, ReadyOK, callerVars
<1>5. CASE ReceiveResponse
  <2>1. /\ ReadyOK' /\ UNCHANGED <<queue, caller>>
        /\ Receiver \in ToSet(ready') <=> inbox' # <<>>
        /\ Dispatcher \in ToSet(ready') <=> Dispatcher \in ToSet(ready)
        /\ \/ answer' # "none" /\ caller \in {"prompting", "loading"}
           \/ answer' = answer /\ (Caller \in ToSet(ready') <=> Caller \in ToSet(ready))
    BY <1>5, ReceiveResponseEffect DEF Awaited
  <2>. QED
    BY <1>1, <2>1 DEF LoopInv, ReadyOK, Requesting
<1>6. CASE Dispatch
  <2>1. /\ ReadyOK' /\ UNCHANGED <<inbox, callerVars>> /\ queue' = <<>>
        /\ Dispatcher \notin ToSet(ready')
        /\ \A c \in {Receiver, Caller} : c \in ToSet(ready') <=> c \in ToSet(ready)
    BY <1>6, DispatchEffect
  <2>. QED
    BY <1>1, <2>1 DEF LoopInv, ReadyOK, callerVars
<1>7. ASSUME EmitUpdate \/ \E u \in emitting : Emitted(u) PROVE LoopInv'
  <2>1. /\ ReadyOK' /\ UNCHANGED <<inbox, queue, callerVars>>
        /\ \A c \in {Receiver, Dispatcher, Caller} : c \in ToSet(ready') <=> c \in ToSet(ready)
    BY <1>7, EmitEffect, EmittedEffect
  <2>. QED
    BY <1>1, <2>1 DEF LoopInv, ReadyOK, callerVars
<1>8. CASE StoreUpdate
  <2>1. /\ ReadyOK' /\ UNCHANGED <<inbox, queue, answer>>
        /\ IF caller = "waiting" THEN caller' = "woken"
                                 ELSE caller' = caller /\ (Caller \in ToSet(ready') <=> Caller \in ToSet(ready))
        /\ \A c \in {Receiver, Dispatcher} : c \in ToSet(ready') <=> c \in ToSet(ready)
    BY <1>8, StoreEffect
  <2>. QED
    BY <1>1, <2>1 DEF LoopInv, ReadyOK, Requesting
<1>9. ASSUME NEW state \in Requesting, Begin(state) PROVE LoopInv'
  <2>1. /\ ReadyOK' /\ UNCHANGED loopVars /\ caller' = state /\ Caller \notin ToSet(ready)
    BY <1>9, BeginEffect
  <2>. QED
    BY <1>1, <2>1 DEF LoopInv, ReadyOK, Requesting, loopVars
<1>10. CASE CallerStep
  <2>1. ReadyOK' /\ (caller' \in {"idle", "waiting", "yielding"} => Caller \notin ToSet(ready'))
    BY <1>10, CallerReady
  <2>2. /\ UNCHANGED <<inbox, queue>>
        /\ \A c \in {Receiver, Dispatcher} : c \in ToSet(ready') <=> c \in ToSet(ready)
    BY <1>10, CallerPipe
  <2>3. caller' \notin Requesting /\ (caller' = "idle" => answer' = "none")
    BY <1>10, CallerGoesOn DEF Requesting
  <2>. QED
    BY <1>1, <2>1, <2>2, <2>3 DEF LoopInv, ReadyOK
<1>11. CASE UNCHANGED vars
  BY <1>1, <1>11 DEF LoopInv, vars, loopVars, callerVars
<1>. QED
  BY <1>2, <1>3, <1>4, <1>5, <1>6, <1>7, <1>8, <1>9, <1>10, <1>11
     DEF Next, Agent, Client, Connection, Handler, CallerStep, BeginTurn, BeginLoad, Requesting

LEMMA KnownNext == AcpInv /\ [Next]_vars => KnownInv'
<1> SUFFICES ASSUME AcpInv, [Next]_vars PROVE KnownInv'
  OBVIOUS
<1>1. KnownInv /\ TypeOK
  BY Parts
<1>2. ASSUME NEW kind \in Kind, SendUpdate(kind) PROVE KnownInv'
  <2>1. PICK n : n = Len(sent) + 1
    OBVIOUS
  <2>2. /\ n \notin DOMAIN sent /\ DOMAIN sent' = DOMAIN sent \cup {n}
        /\ Ahead' = Ahead \cup {n} /\ Resuming' = Resuming
        /\ UNCHANGED <<stateVars, callerVars>>
    BY <1>2, <2>1, SendUpdateEffect
  <2>3. \A u \in DOMAIN sent : IsText(u)' <=> IsText(u)
    BY <1>2, <2>1, SendUpdateTexts
  <2>. QED
    BY <1>1, <2>2, <2>3 DEF KnownInv, stateVars, callerVars
<1>3. ASSUME UNCHANGED <<sent, updates, load_updates, emitting, streamed>>,
             Ahead' \subseteq Ahead, Resuming' \subseteq Resuming
      PROVE  KnownInv'
  BY <1>1, <1>3 DEF KnownInv, IsText
<1>4. CASE \E k \in {"response", "error"} : Respond(k)
  BY <1>3, <1>4, RespondEffect DEF stateVars, callerVars
<1>5. CASE ReceiveUpdate
  BY <1>3, <1>5, ReceiveUpdateEffect DEF agentVars, stateVars, callerVars
<1>6. CASE ReceiveResponse
  BY <1>3, <1>6, ReceiveResponseEffect DEF agentVars, stateVars
<1>7. CASE Dispatch
  BY <1>3, <1>7, DispatchEffect DEF agentVars, stateVars, callerVars
<1>8. CASE EmitUpdate
  <2>1. PICK u : u = Head(ready).update
    OBVIOUS
  <2>2. /\ u \in DOMAIN sent /\ ~IsText(u) /\ emitting' = emitting \cup {u}
        /\ Ahead' \subseteq Ahead /\ Resuming' \subseteq Resuming
        /\ UNCHANGED <<agentVars, updates, load_updates, callerVars>>
    BY <1>8, <2>1, EmitEffect
  <2>. QED
    BY <1>1, <2>2 DEF KnownInv, IsText, agentVars, callerVars
<1>9. ASSUME NEW u \in emitting, Emitted(u) PROVE KnownInv'
  <2>1. /\ u \in DOMAIN sent /\ ~IsText(u) /\ emitting' \subseteq emitting
        /\ Ahead' = Ahead /\ Resuming' = Resuming \cup {u}
        /\ UNCHANGED <<agentVars, updates, load_updates, callerVars>>
    BY <1>9, EmittedEffect
  <2>. QED
    BY <1>1, <2>1 DEF KnownInv, IsText, agentVars, callerVars
<1>10. CASE StoreUpdate
  <2>1. PICK u : u = Head(ready).update
    OBVIOUS
  <2>2. /\ u \in DOMAIN sent /\ Resuming' \subseteq Resuming
        /\ UNCHANGED <<agentVars, emitting, streamed>>
    BY <1>10, <2>1, StoreEffect
  <2>3. /\ ToSet(updates') \subseteq ToSet(updates) \cup {u}
        /\ ToSet(load_updates') \subseteq ToSet(load_updates) \cup {u}
        /\ Ahead' \subseteq Ahead
    BY <1>10, <2>1, StoredSets
  <2>. QED
    BY <1>1, <2>2, <2>3 DEF KnownInv, IsText, agentVars
<1>11. ASSUME NEW state \in Requesting, Begin(state),
              updates' \in {updates, <<>>}, load_updates' \in {load_updates, <<>>}
       PROVE  KnownInv'
  <2>1. UNCHANGED <<sent, emitting, streamed, Resuming, Ahead>>
    BY <1>11, BeginEffect
  <2>2. ToSet(updates') \subseteq ToSet(updates) /\ ToSet(load_updates') \subseteq ToSet(load_updates)
    BY <1>11 DEF ToSet
  <2>. QED
    BY <1>1, <2>1, <2>2 DEF KnownInv, IsText
<1>12. CASE CallerStep
  <2>1. UNCHANGED <<sent, emitting, Resuming, Ahead>>
    BY <1>12, CallerPipe
  <2>2. ASSUME NEW b \in BOOLEAN, Pop(b) PROVE KnownInv'
    <3>1. /\ updates # <<>> /\ updates' = Tail(updates) /\ load_updates' = load_updates
          /\ streamed' = [streamed EXCEPT ![request] = Append(@, Head(updates))]
      BY <2>2 DEF Pop
    <3>2. ToSet(updates) = {Head(updates)} \cup ToSet(updates') /\ Head(updates) \in Update
      BY <1>1, <3>1, Shortened DEF TypeOK
    <3>3. \A r \in Request : ToSet(streamed'[r]) \subseteq ToSet(streamed[r]) \cup {Head(updates)}
      <4>1. \A r \in Request : ToSet(Append(streamed[r], Head(updates))) = ToSet(streamed[r]) \cup {Head(updates)}
        BY <1>1, <3>2, Appended DEF TypeOK
      <4>. QED
        BY <1>1, <3>1, <4>1 DEF TypeOK
    <3>. QED
      BY <1>1, <2>1, <3>1, <3>2, <3>3 DEF KnownInv, IsText
  <2>3. CASE Capture
    <3>1. /\ updates' = updates /\ load_updates' = <<>>
          /\ streamed' = [streamed EXCEPT ![request] = load_updates]
      BY <2>3 DEF Capture, FinishLoad
    <3>2. \A r \in Request : streamed'[r] \in {streamed[r], load_updates}
      BY <1>1, <3>1 DEF TypeOK
    <3>3. ToSet(load_updates') = {}
      BY <3>1 DEF ToSet
    <3>. QED
      BY <1>1, <2>1, <3>1, <3>2, <3>3 DEF KnownInv, IsText
  <2>4. CASE LoadFails
    <3>1. updates' = updates /\ load_updates' = <<>> /\ streamed' = streamed
      BY <2>4 DEF LoadFails, FinishLoad
    <3>2. ToSet(load_updates') = {}
      BY <3>1 DEF ToSet
    <3>. QED
      BY <1>1, <2>1, <3>1, <3>2 DEF KnownInv, IsText
  <2>5. CASE UNCHANGED <<updates, load_updates, streamed>>
    BY <1>3, <2>1, <2>5
  <2>. QED
    BY <1>12, <2>2, <2>3, <2>4, <2>5
       DEF CallerStep, TurnStep, LoadStep, BeginStream, PromptFails, EndWait, DrainAgain, EndTurn, Settle,
           Timeout, ConsumerResumes, Cancel, stateVars
<1>13. CASE UNCHANGED vars
  BY <1>1, <1>13 DEF KnownInv, IsText, Ahead, Notified, Resuming, Arriving, vars, agentVars, loopVars, stateVars, callerVars
<1>. QED
  BY <1>2, <1>4, <1>5, <1>6, <1>7, <1>8, <1>9, <1>10, <1>11, <1>12, <1>13
     DEF Next, Agent, Client, Connection, Handler, CallerStep, BeginTurn, BeginLoad, Requesting

LEMMA InboxMembers ==
    ASSUME AcpInv, NEW m \in ToSet(inbox)
    PROVE  /\ m \in Message
           /\ m.kind = "update" => m.id \in Arriving
           /\ m.kind # "update" => m.id \in Replies
<1>1. m \in Message
  BY Parts DEF ToSet
<1>. QED
  BY <1>1, MessageKinds DEF Arriving, Replies

\* The order of the lines that were read.
LEMMA InboxNext ==
    ASSUME AcpInv, [Next]_vars
    PROVE  Sorted(inbox, InboxOrder)' /\ Sorted(inbox, SaidOrder)'
<1>1. /\ inbox \in Seq(Message) /\ Sorted(inbox, InboxOrder) /\ Sorted(inbox, SaidOrder)
      /\ ToSet(serving) \cap Replies = {} /\ Arriving \subseteq DOMAIN sent
  BY Parts DEF RequestInv, SaidBefore, KnownInv, Ahead
<1>2. ASSUME NEW kind \in Kind, SendUpdate(kind)
      PROVE  Sorted(inbox, InboxOrder)' /\ Sorted(inbox, SaidOrder)'
  <2>1. PICK n : n = Len(sent) + 1
    OBVIOUS
  <2> DEFINE m == [kind |-> "update", id |-> n]
  <2>2. /\ n \in Update /\ n \notin DOMAIN sent /\ \A u \in DOMAIN sent : u < n
        /\ inbox' = Append(inbox, m)
        /\ kind = "text" => Head(serving) \in ToSet(serving)
    BY <1>2, <2>1, SendUpdateEffect
  <2>3. \A u, r : IsOf(u, r)' <=> IsOf(u, r) \/ (u = n /\ kind = "text" /\ r = Head(serving))
    BY <1>2, <2>1, SendUpdateTexts
  <2>4. m \in Message /\ m.kind = "update" /\ m.id = n
    BY <2>2, Messages
  <2> HIDE DEF m
  <2>5. \A y \in ToSet(inbox) : <<y, m>> \in InboxOrder
    BY <1>1, <2>2, <2>4, InboxMembers DEF InboxOrder
  <2>6. \A y \in ToSet(inbox) : <<y, m>> \in SaidOrder'
    <3> SUFFICES ASSUME NEW y \in ToSet(inbox), y.kind # "update" PROVE ~IsOf(n, y.id)'
      BY <2>4, InboxMembers DEF SaidOrder
    <3>1. y.id \in Replies
      BY InboxMembers
    <3>2. ~IsOf(n, y.id)
      BY <2>2 DEF IsOf, Text
    <3>. QED
      BY <1>1, <2>2, <2>3, <3>1, <3>2
  <2>7. Sorted(inbox, SaidOrder')
    <3> SUFFICES ASSUME NEW i \in DOMAIN inbox, NEW j \in DOMAIN inbox, i < j
                 PROVE  <<inbox[i], inbox[j]>> \in SaidOrder'
      BY DEF Sorted
    <3>1. inbox[i] \in ToSet(inbox) /\ inbox[j] \in ToSet(inbox) /\ <<inbox[i], inbox[j]>> \in SaidOrder
      BY <1>1 DEF ToSet, Sorted
    <3>2. inbox[j].kind = "update" => inbox[j].id # n
      BY <1>1, <2>2, <3>1, InboxMembers
    <3>. QED
      BY <2>3, <3>1, <3>2 DEF SaidOrder
  <2>8. Sorted(inbox', InboxOrder)
    BY <1>1, <2>2, <2>4, <2>5, AppendedSorted
  <2>9. Sorted(inbox', SaidOrder')
    BY <1>1, <2>2, <2>4, <2>6, <2>7, AppendedSorted
  <2>. QED
    BY <2>8, <2>9 DEF Sorted, InboxOrder
<1>3. ASSUME NEW k \in {"response", "error"}, Respond(k)
      PROVE  Sorted(inbox, InboxOrder)' /\ Sorted(inbox, SaidOrder)'
  <2> DEFINE m == [kind |-> k, id |-> Head(serving)]
  <2>1. /\ Head(serving) \in Request /\ Head(serving) \in ToSet(serving)
        /\ inbox' = Append(inbox, m) /\ sent' = sent
    BY <1>3, RespondEffect
  <2>2. m \in Message /\ m.kind # "update" /\ m.id = Head(serving)
    BY <2>1, Messages
  <2> HIDE DEF m
  <2>3. \A y \in ToSet(inbox) : <<y, m>> \in InboxOrder
    BY <1>1, <2>1, <2>2, InboxMembers DEF InboxOrder
  <2>4. \A y \in ToSet(inbox) : <<y, m>> \in SaidOrder
    BY <2>2, InboxMembers DEF SaidOrder
  <2>5. Sorted(inbox', InboxOrder) /\ Sorted(inbox', SaidOrder)
    BY <1>1, <2>1, <2>2, <2>3, <2>4, AppendedSorted
  <2>. QED
    BY <2>1, <2>5 DEF Sorted, SaidOrder, IsOf, Text, IsText
<1>4. ASSUME Sorted(inbox', InboxOrder), Sorted(inbox', SaidOrder), sent' = sent
      PROVE  Sorted(inbox, InboxOrder)' /\ Sorted(inbox, SaidOrder)'
  BY <1>4 DEF Sorted, SaidOrder, IsOf, Text, IsText
<1>5. CASE ReceiveUpdate
  BY <1>4, <1>5, ReceiveUpdateEffect DEF agentVars
<1>6. CASE ReceiveResponse
  BY <1>4, <1>6, ReceiveResponseEffect DEF agentVars
<1>7. CASE UNCHANGED <<inbox, sent>>
  BY <1>1, <1>4, <1>7
<1>8. CASE Dispatch \/ Handler \/ \E u \in emitting : Emitted(u)
  BY <1>7, <1>8 DEF Dispatch, Handler, EmitUpdate, StoreUpdate, Emitted, agentVars
<1>9. CASE BeginLoad \/ \E b \in BOOLEAN : BeginTurn(b)
  BY <1>7, <1>9 DEF BeginLoad, BeginTurn, Begin, loopVars
<1>10. CASE CallerStep
  BY <1>7, <1>10, CallerPipe
<1>11. CASE UNCHANGED vars
  BY <1>7, <1>11 DEF vars, agentVars, loopVars
<1>. QED
  BY <1>2, <1>3, <1>5, <1>6, <1>8, <1>9, <1>10, <1>11 DEF Next, Agent, Client, Connection, CallerStep

LEMMA RequestNext == AcpInv /\ [Next]_vars => RequestInv'
<1> SUFFICES ASSUME AcpInv, [Next]_vars PROVE RequestInv'
  OBVIOUS
<1>1. RequestInv /\ TypeOK /\ Sorted(inbox, InboxOrder)'
  BY Parts, InboxNext
<1>2. ASSUME NEW kind \in Kind, SendUpdate(kind) PROVE RequestInv'
  <2>1. PICK n : n = Len(sent) + 1
    OBVIOUS
  <2>2. /\ DOMAIN sent' = DOMAIN sent \cup {n} /\ sent'[n].kind = kind
        /\ \A u \in DOMAIN sent : sent'[u] = sent[u]
        /\ kind = "text" => sent'[n].for = Head(serving) /\ Head(serving) \in ToSet(serving)
        /\ Replies' = Replies
        /\ UNCHANGED <<serving, callerVars>>
    BY <1>2, <2>1, SendUpdateEffect
  <2>3. \A r \in ToSet(serving) : r \in 1..request
    <3>1. \A r \in ToSet(serving) : r \in Request
      BY Parts DEF ToSet
    <3>. QED
      BY <1>1, <3>1, BoundsAssumption DEF RequestInv, Request, TypeOK
  <2>4. \A u \in DOMAIN sent' : IsText(u)' => sent'[u].for \in 1..request
    BY <1>1, <2>2, <2>3 DEF RequestInv, IsText
  <2>. QED
    BY <1>1, <2>2, <2>4 DEF RequestInv, Answered, callerVars
<1>3. ASSUME NEW k \in {"response", "error"}, Respond(k) PROVE RequestInv'
  <2>1. /\ Head(serving) \in Request /\ ToSet(serving) = {Head(serving)} \cup ToSet(serving')
        /\ \A r \in ToSet(serving') : Head(serving) < r
        /\ Sorted(serving', Increasing) /\ Replies' = Replies \cup {Head(serving)}
        /\ UNCHANGED <<sent, callerVars>>
    BY <1>3, RespondEffect
  <2>2. Head(serving) \notin ToSet(serving')
    BY <2>1 DEF Request
  <2>3. ToSet(serving') \cap Replies' = {} /\ ToSet(serving') \cup Replies' = ToSet(serving) \cup Replies
    BY <1>1, <2>1, <2>2 DEF RequestInv
  <2>4. Sorted(serving, Increasing)'
    BY <2>1 DEF Sorted, Increasing
  <2>. QED
    BY <1>1, <2>1, <2>3, <2>4 DEF RequestInv, Answered, IsText, callerVars
<1>4. ASSUME UNCHANGED <<sent, serving, request, answer, outcome, streamed, stale>>, Replies' = Replies,
             \/ caller' = caller
             \/ caller = "waiting" /\ caller' = "woken"
      PROVE  RequestInv'
  <2>1. Sorted(serving, Increasing)'
    BY <1>1, <1>4 DEF RequestInv, Sorted, Increasing
  <2>2. /\ caller' # "idle" <=> caller # "idle"
        /\ caller' \in {"loading", "settling"} => caller \in {"loading", "settling"}
        /\ caller' \in {"prompting", "loading", "settling"} => caller \in {"prompting", "loading", "settling"}
    BY <1>4
  <2>. QED
    BY <1>1, <1>4, <2>1, <2>2 DEF RequestInv, Answered, IsText
<1>5. CASE ReceiveUpdate
  BY <1>4, <1>5, ReceiveUpdateEffect DEF agentVars, callerVars
<1>6. CASE Dispatch
  BY <1>4, <1>6, DispatchEffect DEF agentVars, callerVars
<1>7. CASE EmitUpdate
  BY <1>4, <1>7, EmitEffect DEF agentVars, callerVars
<1>8. ASSUME NEW u \in emitting, Emitted(u) PROVE RequestInv'
  BY <1>4, <1>8, EmittedEffect DEF agentVars, callerVars
<1>9. CASE StoreUpdate
  BY <1>4, <1>9, StoreEffect DEF agentVars
<1>10. CASE ReceiveResponse
  <2>1. PICK r : r = Head(inbox).id
    OBVIOUS
  <2>2. /\ r \in Replies /\ r \in Request
        /\ Replies = Replies' \cup {r} /\ r \notin Replies'
        /\ UNCHANGED <<agentVars, caller, request, outcome, streamed, stale>>
        /\ \/ Awaited(r)
           \/ answer' = answer
    BY <1>10, <2>1, ReceiveResponseEffect
  <2>3. r \notin ToSet(serving)
    BY <1>1, <2>2 DEF RequestInv
  <2>4. \A q \in Request : Answered(q)' => Answered(q) \/ q = r
    BY <2>2 DEF Answered, Awaited
  <2>5. Sorted(serving, Increasing)'
    BY <1>1, <2>2 DEF RequestInv, Sorted, Increasing, agentVars
  <2>6. \A q \in Request : Answered(q)' => q \notin ToSet(serving') \cup Replies'
    BY <1>1, <2>2, <2>3, <2>4 DEF RequestInv, agentVars
  <2>. QED
    BY <1>1, <2>2, <2>5, <2>6 DEF RequestInv, IsText, agentVars
<1>11. ASSUME NEW state \in Requesting, Begin(state) PROVE RequestInv'
  <2>1. /\ caller = "idle" /\ caller' \in Requesting /\ request' = request + 1 /\ request' \in Request
        /\ request \in Nat
        /\ outcome[request'] = "none" /\ streamed[request'] = <<>> /\ request' \notin stale
        /\ outcome'[request'] = "open"
        /\ \A r \in Request : r # request' => outcome'[r] = outcome[r]
        /\ serving' = Append(serving, request') /\ ToSet(serving') = ToSet(serving) \cup {request'}
        /\ UNCHANGED <<sent, streamed, stale, Replies>>
        /\ \A r \in Request : Answered(r)' => Answered(r)
    BY <1>11, BeginEffect
  <2>2. \A r \in ToSet(serving) \cup Replies \cup stale : r \in Request /\ r <= request
    <3>1. \A r \in ToSet(serving) : r \in Request
      BY Parts DEF ToSet
    <3>. QED
      BY <1>1, <3>1 DEF RequestInv, Replies, TypeOK
  <2>3. Sorted(serving', Increasing)
    <3>1. \A r \in ToSet(serving) : <<r, request'>> \in Increasing
      BY <2>1, <2>2 DEF Increasing, Request
    <3>2. Sorted(serving, Increasing) /\ serving \in Seq(Request)
      BY <1>1 DEF RequestInv, TypeOK
    <3>. QED
      BY <2>1, <3>1, <3>2, AppendedSorted
  <2>4. request' \notin ToSet(serving) \cup Replies
    BY <2>1, <2>2
  <2>5. /\ \A r \in ToSet(serving') \cup Replies' : r <= request'
        /\ ToSet(serving') \cap Replies' = {}
        /\ \A r \in stale' : r <= request'
    BY <1>1, <2>1, <2>2, <2>4 DEF RequestInv, Request
  <2>6. \A r \in Request : Answered(r)' => r \notin ToSet(serving') \cup Replies'
    <3> SUFFICES ASSUME NEW r \in Request, Answered(r)' PROVE r \notin ToSet(serving') \cup Replies'
      OBVIOUS
    <3>1. r # request'
      BY <1>11, <2>1, BeginEffect DEF Answered
    <3>2. Answered(r)
      BY <2>1
    <3>3. r \notin ToSet(serving) \cup Replies
      BY <1>1, <3>2 DEF RequestInv
    <3>. QED
      BY <2>1, <3>1, <3>3
  <2>7. \A r \in Request : r > request' => outcome'[r] = "none" /\ streamed'[r] = <<>>
    BY <1>1, <2>1 DEF RequestInv, Request
  <2>8. \A r \in Request : outcome'[r] = "open" <=> r = request' /\ caller' # "idle"
    BY <1>1, <2>1 DEF RequestInv, Requesting
  <2>9. \A u \in DOMAIN sent' : IsText(u)' => sent'[u].for \in 1..request'
    BY <1>1, <2>1 DEF RequestInv, IsText
  <2>. QED
    BY <1>1, <2>1, <2>3, <2>5, <2>6, <2>7, <2>8, <2>9 DEF RequestInv, Sorted, Increasing
<1>12. CASE CallerStep
  <2>1. UNCHANGED <<sent, serving, request, Replies>>
    BY <1>12, CallerPipe
  <2>2. /\ caller # "idle" /\ request \in Request
        /\ stale \subseteq stale' /\ stale' \subseteq stale \cup {request}
        /\ \A r \in Request : r # request => streamed'[r] = streamed[r]
        /\ \A r \in Request : Answered(r)' => Answered(r)
    BY <1>12, CallerGoesOn
  <2>3. /\ \A r \in Request : r # request => outcome'[r] = outcome[r]
        /\ outcome'[request] = "open" <=> caller' # "idle"
        /\ caller' \notin {"prompting", "loading"}
    BY <1>12, CallerGoesOn
  <2>4. caller' = "settling" => stale' = stale /\ streamed' = streamed /\ caller = "loading"
    BY <1>12 DEF CallerStep, TurnStep, LoadStep, BeginStream, DrainAgain, NextRound, PromptFails, EndTurn, Capture, LoadFails,
           EndWait, Pop, Settle, Timeout, ConsumerResumes, Cancel, End, SetCaller
  <2>5. Sorted(serving, Increasing)'
    BY <1>1, <2>1 DEF RequestInv, Sorted, Increasing
  <2>6. \A r \in Request : r > request => outcome'[r] = "none" /\ streamed'[r] = <<>>
    BY <1>1, <2>2, <2>3 DEF RequestInv, Request
  <2>7. \A r \in Request : outcome'[r] = "open" <=> r = request /\ caller' # "idle"
    BY <1>1, <2>2, <2>3 DEF RequestInv
  <2>8. \A r \in stale' : r <= request
    BY <1>1, <2>2 DEF RequestInv, Request
  <2>9. /\ caller' \in {"loading", "settling"} => streamed'[request] = <<>>
        /\ caller' \in {"prompting", "loading", "settling"} => request \notin stale'
    BY <1>1, <2>3, <2>4 DEF RequestInv
  <2>. QED
    BY <1>1, <2>1, <2>2, <2>5, <2>6, <2>7, <2>8, <2>9 DEF RequestInv, IsText
<1>13. CASE UNCHANGED vars
  BY <1>4, <1>13 DEF Replies, vars, agentVars, loopVars, callerVars
<1>. QED
  BY <1>2, <1>3, <1>5, <1>6, <1>7, <1>8, <1>9, <1>10, <1>11, <1>12, <1>13
     DEF Next, Agent, Client, Connection, Handler, CallerStep, BeginTurn, BeginLoad, Requesting

LEMMA SaidNext == AcpInv /\ [Next]_vars => SaidBefore'
<1> SUFFICES ASSUME AcpInv, [Next]_vars PROVE SaidBefore'
  OBVIOUS
<1>1. SaidBefore /\ RequestInv /\ Arriving \subseteq DOMAIN sent
  BY Parts DEF KnownInv, Ahead
<1> DEFINE AllSaid == \A r \in Request : Answered(r) => \A u \in Arriving : ~IsOf(u, r)
<1>2. SUFFICES AllSaid'
  BY InboxNext DEF SaidBefore
<1>3. ASSUME NEW kind \in Kind, SendUpdate(kind) PROVE AllSaid'
  <2>1. PICK n : n = Len(sent) + 1
    OBVIOUS
  <2>2. n \notin DOMAIN sent /\ Arriving' = Arriving \cup {n} /\ UNCHANGED callerVars
    BY <1>3, <2>1, SendUpdateEffect
  <2>3. /\ \A u, r : IsOf(u, r)' <=> IsOf(u, r) \/ (u = n /\ kind = "text" /\ r = Head(serving))
        /\ kind = "text" => \A r \in Request : Answered(r) => r # Head(serving)
    BY <1>3, <2>1, SendUpdateTexts
  <2>4. \A r \in Request : Answered(r)' <=> Answered(r)
    BY <2>2 DEF Answered, callerVars
  <2>5. \A r : ~IsOf(n, r)
    BY <2>2 DEF IsOf, Text
  <2>. QED
    BY <1>1, <2>2, <2>3, <2>4, <2>5 DEF SaidBefore
<1>4. ASSUME sent' = sent, Arriving' \subseteq Arriving, \A r \in Request : Answered(r)' => Answered(r)
      PROVE  AllSaid'
  BY <1>1, <1>4 DEF SaidBefore, IsOf, Text, IsText
<1>5. ASSUME UNCHANGED <<sent, request, answer, outcome>>, Arriving' \subseteq Arriving
      PROVE  AllSaid'
  <2>1. \A r \in Request : Answered(r)' => Answered(r)
    BY <1>5 DEF Answered
  <2>. QED
    BY <1>4, <1>5, <2>1
<1>6. CASE \E k \in {"response", "error"} : Respond(k)
  BY <1>5, <1>6, RespondEffect DEF callerVars
<1>7. CASE ReceiveUpdate
  BY <1>5, <1>7, ReceiveUpdateEffect DEF agentVars, callerVars
<1>8. CASE Dispatch
  BY <1>5, <1>8, DispatchEffect DEF agentVars, callerVars
<1>9. CASE EmitUpdate
  BY <1>5, <1>9, EmitEffect DEF agentVars, callerVars
<1>10. CASE \E u \in emitting : Emitted(u)
  BY <1>5, <1>10, EmittedEffect DEF agentVars, callerVars
<1>11. CASE StoreUpdate
  BY <1>5, <1>11, StoreEffect DEF agentVars
<1>12. CASE ReceiveResponse
  <2>1. PICK r : r = Head(inbox).id
    OBVIOUS
  <2>2. /\ Arriving' = Arriving /\ \A v \in Arriving : ~IsOf(v, r)
        /\ UNCHANGED <<agentVars, request, outcome>>
        /\ Awaited(r) \/ answer' = answer
    BY <1>12, <2>1, ReceiveResponseEffect
  <2>3. \A q \in Request : Answered(q)' => Answered(q) \/ q = r
    BY <2>2 DEF Answered, Awaited
  <2>. QED
    BY <1>1, <2>2, <2>3 DEF SaidBefore, IsOf, Text, IsText, agentVars
<1>13. ASSUME NEW state \in Requesting, Begin(state) PROVE AllSaid'
  <2>1. /\ UNCHANGED <<sent, Arriving>>
        /\ \A r \in Request : Answered(r)' => Answered(r)
    BY <1>13, BeginEffect
  <2>. QED
    BY <1>4, <2>1
<1>14. CASE CallerStep
  <2>1. UNCHANGED <<sent, Arriving>>
    BY <1>14, CallerPipe
  <2>2. \A r \in Request : Answered(r)' => Answered(r)
    BY <1>14, CallerGoesOn
  <2>. QED
    BY <1>4, <2>1, <2>2
<1>15. CASE UNCHANGED vars
  BY <1>5, <1>15 DEF Arriving, vars, agentVars, loopVars, callerVars
<1>. QED
  BY <1>3, <1>6, <1>7, <1>8, <1>9, <1>10, <1>11, <1>12, <1>13, <1>14, <1>15
     DEF Next, Agent, Client, Connection, Handler, CallerStep, BeginTurn, BeginLoad, Requesting

\* A step that sends nothing new on its way, and stores and streams nothing.
LEMMA OrderStays ==
    ASSUME AcpInv, sent' = sent, queue' = queue, Notified' \subseteq Notified, Arriving' \subseteq Arriving,
           updates' \in {updates, <<>>},
           \A r \in Request : outcome'[r] # "loaded" => outcome[r] # "loaded" /\ streamed'[r] = streamed[r]
    PROVE  OrderInv'
<1>1. OrderInv
  BY Parts
<1>2. TextOrder' = TextOrder
  BY DEF TextOrder, Text, IsText
<1>3. Ahead' \subseteq Ahead
  BY DEF Ahead
<1>4. Sorted(updates', TextOrder) /\ ToSet(updates') \subseteq ToSet(updates)
  <2>1. CASE updates' = <<>>
    BY <2>1 DEF Sorted, ToSet
  <2>2. CASE updates' = updates
    BY <1>1, <2>2 DEF OrderInv
  <2>. QED
    BY <2>1, <2>2
<1>5. Sorted(queue, Increasing)' /\ Sorted(updates, TextOrder)'
  BY <1>1, <1>2, <1>4 DEF OrderInv, Sorted, Increasing
<1>6. StreamOrder'
  <2>1. \A r \in Request : outcome'[r] # "loaded" => Sorted(streamed'[r], TextOrder)
    BY <1>1 DEF OrderInv, StreamOrder
  <2>2. \A r \in Request : outcome'[r] # "loaded" => Sorted(streamed[r], TextOrder)'
    BY <1>2, <2>1 DEF Sorted
  <2>. QED
    BY <1>1, <1>2, <2>2 DEF OrderInv, StreamOrder
<1>7. /\ \A u \in Notified', v \in ToSet(queue') : u < v
      /\ \A u \in Notified' \cup ToSet(queue'), v \in Arriving' : u < v
      /\ \A u \in ToSet(updates'), v \in Ahead' : <<u, v>> \in TextOrder
  BY <1>1, <1>3, <1>4 DEF OrderInv
<1>8. \A r \in Request, v \in Ahead' \cup ToSet(updates') : outcome'[r] # "loaded" =>
        \A u \in ToSet(streamed'[r]) : <<u, v>> \in TextOrder
  BY <1>1, <1>3, <1>4 DEF OrderInv
<1>. QED
  BY <1>2, <1>5, <1>6, <1>7, <1>8 DEF OrderInv

LEMMA SendUpdateOrder ==
    ASSUME AcpInv, NEW kind \in Kind, SendUpdate(kind)
    PROVE  OrderInv'
<1>1. PICK n : n = Len(sent) + 1
  OBVIOUS
<1>2. /\ n \in Update /\ n \notin DOMAIN sent
      /\ \A u \in DOMAIN sent : u \in Update /\ u < n
      /\ Arriving' = Arriving \cup {n} /\ Ahead' = Ahead \cup {n} /\ Notified' = Notified
      /\ UNCHANGED <<queue, stateVars, callerVars>>
  BY <1>1, SendUpdateEffect
<1>3. \A u : Text(u)' <=> Text(u) \/ (u = n /\ kind = "text")
  BY <1>1, SendUpdateTexts
<1>4. OrderInv /\ KnownInv
  BY Parts
<1>5. ASSUME NEW u \in DOMAIN sent, NEW v, v = n \/ <<u, v>> \in TextOrder
      PROVE  <<u, v>> \in TextOrder'
  <2>1. v \in Update
    BY <1>2, <1>5 DEF TextOrder
  <2>2. v = n => u < v
    BY <1>2
  <2>3. u # n
    BY <1>2
  <2>4. u \in Update /\ v \in Update
    BY <1>2, <2>1
  <2>5. Text(u)' /\ Text(v)' => u < v
    BY <1>3, <1>5, <2>2, <2>3 DEF TextOrder
  <2>. QED
    BY <2>4, <2>5 DEF TextOrder
<1>6. ASSUME NEW q, ToSet(q) \subseteq DOMAIN sent, Sorted(q, TextOrder)
      PROVE  Sorted(q, TextOrder')
  <2>1. \A i \in DOMAIN q : q[i] \in DOMAIN sent
    BY <1>6 DEF ToSet
  <2>. QED
    BY <1>5, <1>6, <2>1 DEF Sorted
<1>7. /\ ToSet(updates) \subseteq DOMAIN sent /\ Ahead \subseteq DOMAIN sent
      /\ \A r \in Request : ToSet(streamed[r]) \subseteq DOMAIN sent
      /\ ToSet(queue) \subseteq DOMAIN sent /\ Notified \subseteq DOMAIN sent
  BY <1>4 DEF KnownInv, Ahead
<1>8. Sorted(queue, Increasing)' /\ Sorted(updates, TextOrder)'
  <2>1. Sorted(updates, TextOrder')
    BY <1>4, <1>6, <1>7 DEF OrderInv
  <2>. QED
    BY <1>2, <1>4, <2>1 DEF OrderInv, Sorted, Increasing, stateVars
<1>9. StreamOrder'
  <2>1. ASSUME NEW r \in Request, outcome[r] # "loaded" PROVE Sorted(streamed[r], TextOrder')
    BY <1>4, <1>6, <1>7, <2>1 DEF OrderInv, StreamOrder
  <2>2. ASSUME NEW r \in Request, outcome[r] # "loaded" PROVE Sorted(streamed[r], TextOrder)'
    BY <1>2, <2>1, <2>2 DEF Sorted, callerVars
  <2>3. \A q, r \in Request : q < r /\ outcome[q] # "loaded" /\ outcome[r] # "loaded" =>
          \A u \in ToSet(streamed[q]), v \in ToSet(streamed[r]) : <<u, v>> \in TextOrder'
    BY <1>4, <1>5, <1>7 DEF OrderInv, StreamOrder
  <2>. QED
    BY <1>2, <2>2, <2>3 DEF StreamOrder, callerVars
<1>10. /\ \A u \in Notified', v \in ToSet(queue') : u < v
       /\ \A u \in Notified' \cup ToSet(queue'), v \in Arriving' : u < v
  BY <1>2, <1>4, <1>7 DEF OrderInv, stateVars
<1>11. \A u \in ToSet(updates'), v \in Ahead' : <<u, v>> \in TextOrder'
  BY <1>2, <1>4, <1>5, <1>7 DEF OrderInv, stateVars
<1>12. \A r \in Request, v \in Ahead' \cup ToSet(updates') : outcome'[r] # "loaded" =>
        \A u \in ToSet(streamed'[r]) : <<u, v>> \in TextOrder'
  BY <1>2, <1>4, <1>5, <1>7 DEF OrderInv, stateVars, callerVars
<1>. QED
  BY <1>8, <1>9, <1>10, <1>11, <1>12 DEF OrderInv

\* The queue takes and gives away updates; what is ahead of the client is the same.
LEMMA QueueOrder ==
    ASSUME AcpInv, ReceiveUpdate \/ Dispatch
    PROVE  OrderInv'
<1>1. OrderInv /\ queue \in Seq(Update)
  BY Parts
<1>2. UNCHANGED <<sent, updates, outcome, streamed>> /\ Ahead' = Ahead
  BY ReceiveUpdateEffect, DispatchEffect DEF agentVars, stateVars, callerVars
<1>3. SUFFICES /\ Sorted(queue', Increasing)
               /\ \A u \in Notified', v \in ToSet(queue') : u < v
               /\ \A u \in Notified' \cup ToSet(queue'), v \in Arriving' : u < v
  <2>1. TextOrder' = TextOrder
    BY <1>2 DEF TextOrder, Text, IsText
  <2>2. StreamOrder'
    BY <1>1, <1>2, <2>1 DEF OrderInv, StreamOrder, Sorted
  <2>3. Sorted(updates, TextOrder)' /\ (Sorted(queue', Increasing) => Sorted(queue, Increasing)')
    BY <1>1, <1>2, <2>1 DEF OrderInv, Sorted, Increasing
  <2>. QED
    BY <1>1, <1>2, <2>1, <2>2, <2>3 DEF OrderInv
<1>4. CASE ReceiveUpdate
  <2>1. PICK u : u = Head(inbox).id
    OBVIOUS
  <2>2. /\ u \in Arriving /\ Arriving = Arriving' \cup {u}
        /\ \A v \in Arriving' : u < v
        /\ queue' = Append(queue, u) /\ ToSet(queue') = ToSet(queue) \cup {u}
        /\ Notified' = Notified
    BY <1>4, <2>1, ReceiveUpdateEffect
  <2>3. u \in Update /\ \A v \in ToSet(queue) : v \in Update /\ v < u
    BY <1>1, <2>2, SMTT(20) DEF OrderInv, Arriving, ToSet
  <2>4. \A v \in ToSet(queue) : <<v, u>> \in Increasing
    BY <2>3 DEF Increasing, Update
  <2>5. Sorted(queue', Increasing)
    BY <1>1, <2>2, <2>3, <2>4, AppendedSorted DEF OrderInv
  <2>. QED
    BY <1>1, <2>2, <2>5 DEF OrderInv
<1>5. CASE Dispatch
  <2>1. queue' = <<>> /\ Notified' = Notified \cup ToSet(queue) /\ ToSet(queue') = {} /\ Arriving' = Arriving
    BY <1>5, DispatchEffect
  <2>2. Sorted(queue', Increasing)
    BY <2>1 DEF Sorted
  <2>. QED
    BY <1>1, <2>1, <2>2 DEF OrderInv
<1>. QED
  BY <1>4, <1>5

LEMMA StoreOrder ==
    ASSUME AcpInv, StoreUpdate
    PROVE  OrderInv'
<1>1. OrderInv /\ updates \in Seq(Update)
  BY Parts
<1>2. PICK u : u = Head(ready).update
  OBVIOUS
<1>3. /\ u \in Update /\ u \in DOMAIN sent
      /\ updates' = Append(updates, u) \/ (updates' = updates /\ ~IsText(u))
      /\ \/ Notified = Notified' \cup {u} /\ \A v \in Notified' : u < v
         \/ Notified = Notified' /\ ~IsText(u)
      /\ UNCHANGED <<sent, queue, outcome, streamed>>
      /\ Arriving' = Arriving
  BY <1>2, StoreEffect DEF agentVars
<1>4. /\ ToSet(updates') \subseteq ToSet(updates) \cup {u}
      /\ Ahead' \subseteq Ahead /\ Ahead \subseteq Ahead' \cup {u}
  BY <1>2, StoredSets
<1>5. Ahead \subseteq Update
  BY Parts DEF KnownInv
<1>6. TextOrder' = TextOrder
  BY <1>3 DEF TextOrder, Text, IsText
<1>7. \A v \in Ahead' : <<u, v>> \in TextOrder
  <2>1. CASE ~IsText(u)
    BY <1>3, <1>4, <1>5, <2>1 DEF TextOrder, Text
  <2>2. CASE IsText(u)
    <3>1. u \in Notified /\ \A v \in Notified' : u < v
      BY <1>3, <2>2
    <3>2. \A v \in ToSet(queue) \cup Arriving : u < v
      BY <1>1, <3>1 DEF OrderInv
    <3>3. \A v \in Ahead' : u < v
      BY <1>3, <3>1, <3>2 DEF Ahead
    <3>. QED
      BY <1>3, <1>4, <1>5, <3>3 DEF TextOrder
  <2>. QED
    BY <2>1, <2>2
<1>8. \A v \in ToSet(updates) : <<v, u>> \in TextOrder
  <2>1. \A v \in ToSet(updates) : v \in Update
    BY <1>1 DEF ToSet
  <2>2. CASE ~IsText(u)
    BY <1>3, <2>1, <2>2 DEF TextOrder, Text
  <2>3. CASE IsText(u)
    <3>1. u \in Ahead
      BY <1>3, <2>3 DEF Ahead
    <3>. QED
      BY <1>1, <3>1 DEF OrderInv
  <2>. QED
    BY <2>2, <2>3
<1>9. \A r \in Request : outcome[r] # "loaded" => \A v \in ToSet(streamed[r]) : <<v, u>> \in TextOrder
  <2>1. \A r \in Request : \A v \in ToSet(streamed[r]) : v \in Update
    BY Parts DEF KnownInv
  <2>2. CASE ~IsText(u)
    BY <1>3, <2>1, <2>2 DEF TextOrder, Text
  <2>3. CASE IsText(u)
    <3>1. u \in Ahead
      BY <1>3, <2>3 DEF Ahead
    <3>. QED
      BY <1>1, <3>1 DEF OrderInv
  <2>. QED
    BY <2>2, <2>3
<1>10. Sorted(updates', TextOrder)
  <2>1. Sorted(Append(updates, u), TextOrder)
    BY <1>1, <1>3, <1>8, AppendedSorted DEF OrderInv
  <2>. QED
    BY <1>1, <1>3, <2>1 DEF OrderInv
<1>11. Sorted(updates, TextOrder)' /\ Sorted(queue, Increasing)' /\ StreamOrder'
  BY <1>1, <1>3, <1>6, <1>10 DEF OrderInv, StreamOrder, Sorted, Increasing
<1>12. /\ \A v \in Notified', w \in ToSet(queue') : v < w
       /\ \A v \in Notified' \cup ToSet(queue'), w \in Arriving' : v < w
  BY <1>1, <1>3 DEF OrderInv
<1>13. \A v \in ToSet(updates'), w \in Ahead' : <<v, w>> \in TextOrder
  BY <1>1, <1>4, <1>7 DEF OrderInv
<1>14. \A r \in Request, w \in Ahead' \cup ToSet(updates') : outcome[r] # "loaded" =>
         \A v \in ToSet(streamed[r]) : <<v, w>> \in TextOrder
  BY <1>1, <1>4, <1>9 DEF OrderInv
<1>. QED
  BY <1>3, <1>6, <1>11, <1>12, <1>13, <1>14 DEF OrderInv

LEMMA PopEffect ==
    ASSUME AcpInv, NEW b \in BOOLEAN, Pop(b)
    PROVE  /\ caller = "draining" /\ updates # <<>> /\ Head(updates) \in Update
           /\ updates' = Tail(updates) /\ updates' \in Seq(Update)
           /\ ToSet(updates) = {Head(updates)} \cup ToSet(updates')
           /\ streamed'[request] = Append(streamed[request], Head(updates))
           /\ ToSet(streamed'[request]) = ToSet(streamed[request]) \cup {Head(updates)}
           /\ \A r \in Request : r # request => streamed'[r] = streamed[r]
           /\ streamed \in [Request -> Seq(Update)] /\ request \in Request
           /\ drained_any' /\ caller' \in {"draining", "yielding"}
           /\ caller' = "draining" => ready' = ready
           /\ ready # <<>> /\ Head(ready) = Caller
           /\ UNCHANGED <<sent, queue, is_loading, load_updates, update_event, request, answer, outcome, stale>>
<1>1. /\ Running("caller") /\ caller = "draining" /\ updates # <<>> /\ updates' = Tail(updates) /\ drained_any'
      /\ streamed' = [streamed EXCEPT ![request] = Append(@, Head(updates))]
      /\ caller' \in {"draining", "yielding"}
      /\ caller' = "draining" => ready' = ready
      /\ UNCHANGED <<sent, queue, is_loading, load_updates, update_event, request, answer, outcome, stale>>
  BY DEF Pop, SetCaller, agentVars
<1>2. streamed \in [Request -> Seq(Update)] /\ request \in Request
  BY <1>1, Parts DEF TypeOK, RequestInv
<1>3. /\ Head(updates) \in Update /\ updates' \in Seq(Update)
      /\ ToSet(updates) = {Head(updates)} \cup ToSet(updates')
  BY <1>1, Parts, Shortened
<1>4. ToSet(Append(streamed[request], Head(updates))) = ToSet(streamed[request]) \cup {Head(updates)}
  BY <1>2, <1>3, Appended
<1>5. /\ streamed'[request] = Append(streamed[request], Head(updates))
      /\ \A r \in Request : r # request => streamed'[r] = streamed[r]
  BY <1>1, <1>2
<1>6. ready # <<>> /\ Head(ready) = Caller
  BY <1>1, Parts, FrontCallback
<1>. QED
  BY <1>1, <1>2, <1>3, <1>4, <1>5, <1>6

LEMMA PopOrder ==
    ASSUME AcpInv, NEW b \in BOOLEAN, Pop(b)
    PROVE  OrderInv'
<1>1. OrderInv /\ RequestInv /\ updates \in Seq(Update)
  BY Parts
<1>2. PICK u : u = Head(updates)
  OBVIOUS
<1>3. /\ updates # <<>> /\ u \in Update
      /\ updates' = Tail(updates) /\ updates' \in Seq(Update)
      /\ ToSet(updates) = {u} \cup ToSet(updates')
      /\ streamed'[request] = Append(streamed[request], u)
      /\ ToSet(streamed'[request]) = ToSet(streamed[request]) \cup {u}
      /\ \A r \in Request : r # request => streamed'[r] = streamed[r]
      /\ streamed \in [Request -> Seq(Update)] /\ request \in Request
      /\ UNCHANGED <<sent, queue, request, outcome>>
  BY <1>2, PopEffect
<1>4. UNCHANGED <<Notified, Arriving, Ahead>>
  BY CallerPipe DEF CallerStep, TurnStep
<1>5. TextOrder' = TextOrder
  BY <1>3 DEF TextOrder, Text, IsText
<1>6. Sorted(updates', TextOrder) /\ \A v \in ToSet(updates') : <<u, v>> \in TextOrder
  BY <1>1, <1>2, <1>3, ShortenedSorted DEF OrderInv
<1>7. /\ \A r \in Request : outcome[r] # "loaded" => \A v \in ToSet(streamed[r]) : <<v, u>> \in TextOrder
      /\ \A v \in Ahead : <<u, v>> \in TextOrder
  BY <1>1, <1>3 DEF OrderInv
<1>8. \A r \in Request : outcome[r] # "loaded" => Sorted(streamed'[r], TextOrder)
  <2>1. outcome[request] # "loaded" => Sorted(Append(streamed[request], u), TextOrder)
    <3> SUFFICES ASSUME outcome[request] # "loaded" PROVE Sorted(Append(streamed[request], u), TextOrder)
      OBVIOUS
    <3>1. Sorted(streamed[request], TextOrder) /\ \A v \in ToSet(streamed[request]) : <<v, u>> \in TextOrder
      BY <1>1, <1>3, <1>7 DEF OrderInv, StreamOrder
    <3>2. streamed[request] \in Seq(Update)
      BY <1>3
    <3>. QED
      BY <1>3, <3>1, <3>2, AppendedSorted
  <2>. QED
    BY <1>1, <1>3, <2>1 DEF OrderInv, StreamOrder
<1>9. \A q, r \in Request : q < r /\ outcome[q] # "loaded" /\ outcome[r] # "loaded" =>
        \A v \in ToSet(streamed'[q]), w \in ToSet(streamed'[r]) : <<v, w>> \in TextOrder
  <2> SUFFICES ASSUME NEW q \in Request, NEW r \in Request, q < r, outcome[q] # "loaded", outcome[r] # "loaded",
                      NEW v \in ToSet(streamed'[q]), NEW w \in ToSet(streamed'[r])
               PROVE  <<v, w>> \in TextOrder
    OBVIOUS
  <2>1. CASE q = request
    <3>1. r > request /\ r # request
      BY <2>1 DEF Request
    <3>2. streamed'[r] = <<>>
      BY <1>1, <1>3, <3>1 DEF RequestInv
    <3>. QED
      BY <3>2 DEF ToSet
  <2>2. CASE q # request /\ r = request
    BY <1>1, <1>3, <1>7, <2>2 DEF OrderInv, StreamOrder
  <2>3. CASE q # request /\ r # request
    BY <1>1, <1>3, <2>3 DEF OrderInv, StreamOrder
  <2>. QED
    BY <2>1, <2>2, <2>3
<1>10. StreamOrder'
  <2>1. \A r \in Request : outcome[r] # "loaded" => Sorted(streamed[r], TextOrder)'
    BY <1>5, <1>8 DEF Sorted
  <2>. QED
    BY <1>3, <1>5, <1>9, <2>1 DEF StreamOrder
<1>11. Sorted(updates, TextOrder)' /\ Sorted(queue, Increasing)'
  BY <1>1, <1>3, <1>5, <1>6 DEF OrderInv, Sorted, Increasing
<1>12. \A r \in Request, w \in Ahead \cup ToSet(updates') : outcome[r] # "loaded" =>
         \A v \in ToSet(streamed'[r]) : <<v, w>> \in TextOrder
  BY <1>1, <1>3, <1>6, <1>7 DEF OrderInv
<1>13. /\ \A v \in Notified, w \in ToSet(queue') : v < w
       /\ \A v \in Notified \cup ToSet(queue'), w \in Arriving : v < w
       /\ \A v \in ToSet(updates'), w \in Ahead : <<v, w>> \in TextOrder
  BY <1>1, <1>3 DEF OrderInv
<1>. QED
  BY <1>3, <1>4, <1>5, <1>10, <1>11, <1>12, <1>13 DEF OrderInv

LEMMA OrderNext == AcpInv /\ [Next]_vars => OrderInv'
<1> SUFFICES ASSUME AcpInv, [Next]_vars PROVE OrderInv'
  OBVIOUS
<1>1. ASSUME UNCHANGED <<sent, queue, outcome, streamed>>, Notified' \subseteq Notified, Arriving' \subseteq Arriving,
             updates' = updates
      PROVE  OrderInv'
  BY <1>1, OrderStays
<1>2. ASSUME NEW k \in {"response", "error"}, Respond(k) PROVE OrderInv'
  BY <1>1, <1>2, RespondEffect DEF stateVars, callerVars
<1>3. CASE ReceiveResponse
  BY <1>1, <1>3, ReceiveResponseEffect DEF agentVars, stateVars
<1>4. CASE EmitUpdate
  BY <1>1, <1>4, EmitEffect DEF agentVars, callerVars
<1>5. ASSUME NEW u \in emitting, Emitted(u) PROVE OrderInv'
  BY <1>1, <1>5, EmittedEffect DEF agentVars, callerVars
<1>6. ASSUME NEW state \in Requesting, Begin(state), updates' \in {updates, <<>>} PROVE OrderInv'
  <2>1. /\ UNCHANGED <<sent, queue, Notified, Arriving, streamed>>
        /\ outcome[request'] = "none" /\ \A r \in Request : r # request' => outcome'[r] = outcome[r]
    BY <1>6, BeginEffect DEF loopVars
  <2>2. \A r \in Request : outcome'[r] # "loaded" => outcome[r] # "loaded"
    BY <2>1
  <2>. QED
    BY <1>6, <2>1, <2>2, OrderStays
<1>7. CASE CallerStep /\ ~ \E b \in BOOLEAN : Pop(b)
  <2>1. UNCHANGED <<sent, queue, Notified, Arriving>>
    BY <1>7, CallerPipe
  <2>2. /\ request \in Request /\ outcome[request] = "open"
        /\ \A r \in Request : r # request => outcome'[r] = outcome[r] /\ streamed'[r] = streamed[r]
    BY <1>7, CallerGoesOn
  <2>3. updates' = updates
    BY <1>7 DEF CallerStep, TurnStep, LoadStep, BeginStream, PromptFails, EndWait, DrainAgain, EndTurn, Settle,
           Capture, LoadFails, Timeout, ConsumerResumes, Cancel, stateVars
  <2>4. outcome'[request] = "loaded" \/ streamed' = streamed
    <3>1. CASE Capture
      BY <2>2, <3>1, Parts DEF Capture, End, TypeOK
    <3>2. CASE ~Capture
      BY <1>7, <3>2 DEF CallerStep, TurnStep, LoadStep, BeginStream, PromptFails, EndWait, DrainAgain, EndTurn, Settle,
           LoadFails, Timeout, ConsumerResumes, Cancel
    <3>. QED
      BY <3>1, <3>2
  <2>5. \A r \in Request : outcome'[r] # "loaded" => outcome[r] # "loaded" /\ streamed'[r] = streamed[r]
    BY <2>2, <2>4
  <2>. QED
    BY <2>1, <2>3, <2>5, OrderStays
<1>8. CASE UNCHANGED vars
  BY <1>1, <1>8 DEF Notified, Arriving, vars, agentVars, loopVars, stateVars, callerVars
<1>9. CASE (\E kind \in Kind : SendUpdate(kind)) \/ ReceiveUpdate \/ Dispatch \/ StoreUpdate \/ \E b \in BOOLEAN : Pop(b)
  BY <1>9, SendUpdateOrder, QueueOrder, StoreOrder, PopOrder
<1>. QED
  BY <1>2, <1>3, <1>4, <1>5, <1>6, <1>7, <1>8, <1>9
     DEF Next, Agent, Client, Connection, Handler, CallerStep, BeginTurn, BeginLoad, Requesting

LEMMA TextsOf ==
    ASSUME NEW r
    PROVE  \A u : u \in Texts(r) <=> IsOf(u, r)
  BY DEF Texts, IsOf, Text, IsText

LEMMA LateIsAhead ==
    ASSUME AcpInv
    PROVE  Late \subseteq Notified /\ Notified \subseteq Ahead /\ Ahead \subseteq DOMAIN sent
<1>1. Late \subseteq Notified
  BY BehindMembers DEF Late, LateIn, Notified, NotifiedIn
<1>. QED
  BY <1>1, Parts DEF Ahead, KnownInv

\* A step that brings the texts on, of which none is sent, streamed or captured.
LEMMA WayStays ==
    ASSUME AcpInv, UNCHANGED <<sent, request, outcome, streamed, is_loading>>, stale \subseteq stale',
           ToSet(updates) \subseteq ToSet(updates'), ToSet(load_updates) \subseteq ToSet(load_updates'),
           \A u \in Ahead : \/ u \in Ahead' \/ ~IsText(u)
                            \/ u \in ToSet(updates') /\ (is_loading => u \in ToSet(load_updates')),
           caller' \in Turning => caller \in Turning, caller' \in Loading => caller \in Loading
    PROVE  OnTheWay' /\ Arrived'
<1>1. OnTheWay /\ Arrived
  BY Parts DEF DeliveryInv
<1>2. /\ \A r : Texts(r)' = Texts(r)
      /\ \A r : \A u \in Texts(r) : IsText(u)
  BY DEF Texts, IsText
<1>3. OnTheWay'
  BY <1>1, <1>2 DEF OnTheWay
<1>4. \A r \in Request : Drained(r)' => Drained(r)
  BY DEF Drained
<1>5. Arrived'
  BY <1>1, <1>2, <1>4 DEF Arrived
<1>. QED
  BY <1>3, <1>5

\* A step that neither queues a text of the request nor lets the caller see the answer.
LEMMA QueueStays ==
    ASSUME AcpInv, UNCHANGED <<sent, request>>,
           \A u \in ToSet(queue') : u \in ToSet(queue) \/ (answer # "none" /\ caller # "idle" => ~IsOf(u, request)),
           DispatcherLate' => DispatcherLate \/ queue = <<>>,
           \/ caller' = caller /\ answer' = answer
           \/ caller \notin Requesting \cup {"idle"} /\ caller' \notin Requesting /\ answer' = answer
           \/ caller' = "idle"
    PROVE  QueueClear'
<1>1. QueueClear
  BY Parts DEF DeliveryInv
<1>2. \A u, r : IsOf(u, r)' <=> IsOf(u, r)
  BY DEF IsOf, Text, IsText
<1>3. queue = <<>> => ToSet(queue) = {}
  BY DEF ToSet
<1>. QED
  BY <1>1, <1>2, <1>3 DEF QueueClear, Requesting

\* A step after which no more texts of the request are late.
LEMMA LateStays ==
    ASSUME AcpInv, UNCHANGED <<sent, request>>, stale \subseteq stale', Late' \subseteq Late \cup ToSet(queue),
           caller' \in Resumed => caller \in Resumed, RunsOn => RunsOn'
    PROVE  LateClear'
<1>1. LateClear /\ QueueClear
  BY Parts DEF DeliveryInv
<1>2. \A u, r : IsOf(u, r)' <=> IsOf(u, r)
  BY DEF IsOf, Text, IsText
<1>3. caller \in Resumed => \A u \in ToSet(queue) : ~IsOf(u, request)
  BY <1>1 DEF QueueClear, Resumed, Requesting
<1>. QED
  BY <1>1, <1>2, <1>3 DEF LateClear

LEMMA SendUpdateDelivery ==
    ASSUME AcpInv, NEW kind \in Kind, SendUpdate(kind)
    PROVE  DeliveryInv'
<1>1. PICK n : n = Len(sent) + 1
  OBVIOUS
<1>2. /\ n \notin DOMAIN sent
      /\ Ahead' = Ahead \cup {n} /\ Late' = Late
      /\ DispatcherLate' <=> DispatcherLate
      /\ ready # <<>> => ready' # <<>> /\ Head(ready') = Head(ready)
      /\ UNCHANGED <<queue, stateVars, callerVars>>
  BY <1>1, SendUpdateEffect
<1>3. /\ \A u, r : IsOf(u, r)' <=> IsOf(u, r) \/ (u = n /\ kind = "text" /\ r = Head(serving))
      /\ kind = "text" => \A r \in Request : Answered(r) => r # Head(serving)
  BY <1>1, SendUpdateTexts
<1>4. DeliveryInv
  BY Parts
<1>5. /\ \A r : Texts(r) \subseteq Texts(r)' /\ Texts(r)' \subseteq Texts(r) \cup {n}
      /\ \A r \in Request : Answered(r) => Texts(r)' = Texts(r)
  <2>1. \A r, u : u \in Texts(r)' <=> IsOf(u, r)'
    BY DEF Texts, IsOf, Text, IsText
  <2>. QED
    BY <1>3, <2>1, TextsOf
<1>6. OnTheWay'
  BY <1>2, <1>4, <1>5 DEF DeliveryInv, OnTheWay, stateVars, callerVars
<1>7. Late \subseteq DOMAIN sent /\ ToSet(queue) \subseteq DOMAIN sent
  BY LateIsAhead DEF Ahead
<1>8. \A u \in Late \cup ToSet(queue) : IsOf(u, request)' <=> IsOf(u, request)
  BY <1>2, <1>3, <1>7 DEF callerVars
<1>9. QueueClear'
  <2>1. \A u \in ToSet(queue) : IsOf(u, request)' <=> IsOf(u, request)
    BY <1>8
  <2>. QED
    BY <1>2, <1>4, <2>1 DEF DeliveryInv, QueueClear, callerVars
<1>10. LateClear'
  <2>1. RunsOn => RunsOn'
    BY <1>2 DEF RunsOn, stateVars, callerVars
  <2>. QED
    BY <1>2, <1>4, <1>8, <2>1 DEF DeliveryInv, LateClear, callerVars
<1>11. Arrived'
  <2>1. \A r \in Request : outcome[r] = "loaded" \/ Drained(r) => Answered(r)
    BY DEF Drained, Answered
  <2>. QED
    BY <1>2, <1>4, <1>5, <2>1 DEF DeliveryInv, Arrived, Drained, callerVars
<1>. QED
  BY <1>6, <1>9, <1>10, <1>11 DEF DeliveryInv

\* The rest of what goes on beside the caller.
LEMMA PipeDelivery ==
    ASSUME AcpInv, \/ \E k \in {"response", "error"} : Respond(k)
                   \/ ReceiveUpdate \/ Dispatch \/ EmitUpdate
                   \/ \E u \in emitting : Emitted(u)
                   \/ UNCHANGED vars
    PROVE  DeliveryInv'
<1>1. ASSUME NEW q, UNCHANGED <<sent, callerVars>>, UNCHANGED <<updates, load_updates, is_loading, update_event>>,
             \A u \in Ahead : u \in Ahead' \/ ~IsText(u),
             \A u \in ToSet(queue') : u \in ToSet(queue) \/ (answer # "none" /\ caller # "idle" => ~IsOf(u, request)),
             DispatcherLate' => DispatcherLate \/ queue = <<>>,
             Late' \subseteq Late \cup ToSet(queue),
             \/ ready # <<>> => ready' # <<>> /\ Head(ready') = Head(ready)
             \/ Head(ready) # Caller
      PROVE  DeliveryInv'
  <2>1. OnTheWay' /\ Arrived'
    <3>1. UNCHANGED <<caller, request, outcome, streamed, stale>>
      BY <1>1 DEF callerVars
    <3>2. ToSet(updates) \subseteq ToSet(updates') /\ ToSet(load_updates) \subseteq ToSet(load_updates')
      BY <1>1
    <3>. QED
      BY <1>1, <3>1, <3>2, WayStays
  <2>2. QueueClear'
    BY <1>1, QueueStays DEF callerVars
  <2>3. RunsOn => RunsOn'
    BY <1>1 DEF RunsOn, callerVars
  <2>4. LateClear'
    BY <1>1, <2>3, LateStays DEF callerVars
  <2>. QED
    BY <2>1, <2>2, <2>4 DEF DeliveryInv
<1>2. ASSUME NEW k \in {"response", "error"}, Respond(k) PROVE DeliveryInv'
  BY <1>1, <1>2, RespondEffect DEF stateVars
<1>3. CASE ReceiveUpdate
  <2>1. PICK u : u = Head(inbox).id
    OBVIOUS
  <2>2. /\ u \in Arriving /\ Ahead' = Ahead /\ ToSet(queue') = ToSet(queue) \cup {u}
        /\ UNCHANGED <<agentVars, stateVars, callerVars>>
        /\ Late' = Late
        /\ DispatcherLate' => DispatcherLate \/ queue = <<>>
        /\ Head(ready) # Caller
    BY <1>3, <2>1, ReceiveUpdateEffect
  <2>3. answer # "none" /\ caller # "idle" => ~IsOf(u, request)
    BY <2>2, Parts DEF SaidBefore, RequestInv, Answered
  <2>. QED
    BY <1>1, <2>2, <2>3 DEF agentVars, stateVars
<1>4. CASE Dispatch
  <2>1. /\ UNCHANGED <<agentVars, stateVars, callerVars>> /\ Ahead' = Ahead
        /\ ToSet(queue') = {} /\ Late' \subseteq Late \cup ToSet(queue) /\ ~DispatcherLate'
        /\ Head(ready) # Caller
    BY <1>4, DispatchEffect
  <2>. QED
    BY <1>1, <2>1 DEF agentVars, stateVars
<1>5. CASE EmitUpdate
  BY <1>1, <1>5, EmitEffect DEF agentVars
<1>6. ASSUME NEW u \in emitting, Emitted(u) PROVE DeliveryInv'
  BY <1>1, <1>6, EmittedEffect DEF agentVars
<1>7. CASE UNCHANGED vars
  <2>1. UNCHANGED <<Ahead, Late, DispatcherLate>>
    BY <1>7 DEF Ahead, Notified, Arriving, Late, DispatcherLate, vars, loopVars
  <2>. QED
    BY <1>1, <1>7, <2>1 DEF vars, agentVars, loopVars, stateVars
<1>. QED
  BY <1>2, <1>3, <1>4, <1>5, <1>6, <1>7

LEMMA ReceiveResponseDelivery ==
    ASSUME AcpInv, ReceiveResponse
    PROVE  DeliveryInv'
<1>1. PICK r : r = Head(inbox).id
  OBVIOUS
<1>2. /\ Ahead' = Ahead /\ Late' = Late
      /\ UNCHANGED <<agentVars, queue, stateVars, caller, request, outcome, streamed, stale>>
      /\ Awaited(r) => answer' # "none" /\ ~DispatcherLate'
      /\ ~Awaited(r) => answer' = answer
      /\ DispatcherLate' <=> DispatcherLate
      /\ Head(ready) # Caller
  BY <1>1, ReceiveResponseEffect
<1>3. OnTheWay' /\ Arrived'
  <2>1. UNCHANGED <<sent, is_loading, updates, load_updates>>
    BY <1>2 DEF agentVars, stateVars
  <2>2. ToSet(updates) \subseteq ToSet(updates') /\ ToSet(load_updates) \subseteq ToSet(load_updates')
    BY <2>1
  <2>. QED
    BY <1>2, <2>1, <2>2, WayStays
<1>4. QueueClear'
  <2>1. CASE ~Awaited(r)
    BY <1>2, <2>1, QueueStays DEF agentVars
  <2>2. CASE Awaited(r)
    BY <1>2, <2>2 DEF QueueClear, Awaited, Requesting
  <2>. QED
    BY <2>1, <2>2
<1>5. LateClear'
  BY <1>2, LateStays DEF RunsOn, agentVars
<1>. QED
  BY <1>3, <1>4, <1>5 DEF DeliveryInv

LEMMA StoreDelivery ==
    ASSUME AcpInv, StoreUpdate
    PROVE  DeliveryInv'
<1>1. PICK u : u = Head(ready).update
  OBVIOUS
<1>2. /\ UNCHANGED <<agentVars, inbox, queue, emitting, is_loading, request, answer,
                     drained_any, outcome, streamed, stale>>
      /\ IF caller = "waiting" THEN caller' = "woken" /\ Late' = {} ELSE caller' = caller
      /\ Late' \subseteq Late
      /\ DispatcherLate' => DispatcherLate
      /\ Head(ready) # Caller
  BY <1>1, StoreEffect
<1>3. /\ ToSet(updates) \subseteq ToSet(updates')
      /\ IsText(u) => u \in ToSet(updates')
      /\ IsText(u) /\ is_loading => u \in ToSet(load_updates')
      /\ ToSet(load_updates) \subseteq ToSet(load_updates')
      /\ Ahead \subseteq Ahead' \cup {u}
  BY <1>1, StoredSets
<1>4. OnTheWay' /\ Arrived'
  <2>1. \A v \in Ahead : \/ v \in Ahead' \/ ~IsText(v)
                         \/ v \in ToSet(updates') /\ (is_loading => v \in ToSet(load_updates'))
    <3> SUFFICES ASSUME NEW v \in Ahead, v \notin Ahead', IsText(v)
                 PROVE  v \in ToSet(updates') /\ (is_loading => v \in ToSet(load_updates'))
      OBVIOUS
    <3>1. v = u
      BY <1>3
    <3>. QED
      BY <1>3, <3>1
  <2>2. (caller' \in Turning => caller \in Turning) /\ (caller' \in Loading => caller \in Loading)
    BY <1>2 DEF Turning, Loading
  <2>. QED
    BY <1>2, <1>3, <2>1, <2>2, WayStays DEF agentVars
<1>5. QueueClear'
  BY <1>2, QueueStays DEF agentVars, Requesting
<1>6. LateClear'
  <2>1. CASE caller = "waiting"
    BY <1>2, <2>1 DEF LateClear
  <2>2. CASE caller # "waiting"
    BY <1>2, <2>2, LateStays DEF RunsOn, agentVars
  <2>. QED
    BY <2>1, <2>2
<1>. QED
  BY <1>4, <1>5, <1>6 DEF DeliveryInv

\* Nothing has been said for a request that begins.
LEMMA BeginDelivery ==
    ASSUME AcpInv, NEW state \in Requesting, Begin(state),
           state = "loading" => is_loading'
    PROVE  DeliveryInv'
<1>1. /\ caller = "idle" /\ caller' = state /\ answer' = "none" /\ request' \in Request
      /\ outcome[request'] = "none" /\ outcome'[request'] = "open"
      /\ \A r \in Request : r # request' => outcome'[r] = outcome[r]
      /\ UNCHANGED <<sent, streamed, stale>>
      /\ \A u : ~IsOf(u, request')
  BY BeginEffect
<1>2. \A r : Texts(r)' = Texts(r)
  BY <1>1 DEF Texts, IsText
<1>3. OnTheWay'
  <2>1. PICK r : r = request'
    OBVIOUS
  <2>2. Texts(r)' = {}
    BY <1>1, <1>2, <2>1, TextsOf
  <2>3. Texts(request)' = {}
    BY <2>1, <2>2 DEF Texts
  <2>. QED
    BY <1>1, <2>3 DEF OnTheWay, Turning, Loading, Requesting
<1>4. QueueClear' /\ LateClear'
  BY <1>1 DEF QueueClear, LateClear, Requesting, Resumed
<1>5. Arrived'
  <2>1. \A r \in Request : (outcome'[r] = "loaded" \/ Drained(r)') => (outcome[r] = "loaded" \/ Drained(r))
    BY <1>1 DEF Drained
  <2>2. Arrived
    BY Parts DEF DeliveryInv
  <2>. QED
    BY <1>1, <1>2, <2>1, <2>2 DEF Arrived
<1>. QED
  BY <1>3, <1>4, <1>5 DEF DeliveryInv

\* When the caller runs, every task that is ready is behind it.
LEMMA CallerFront ==
    ASSUME AcpInv, Running("caller")
    PROVE  /\ ready # <<>> /\ Head(ready) = Caller /\ Late = Notified
           /\ queue # <<>> => DispatcherLate
<1>1. ready # <<>> /\ Head(ready) = Caller /\ ready \in Seq(Callback) /\ Sorted(ready, ReadyOrder)
  BY Parts, FrontCallback DEF ReadyOK
<1>2. /\ ToSet(ready) = {Caller} \cup ToSet(Tail(ready))
      /\ Behind(ready, Caller) = ToSet(Tail(ready)) /\ LateIn(ready) = NotifiedIn(ready)
  BY <1>1, TakeFront
<1>3. queue # <<>> => Dispatcher \in ToSet(ready)
  BY Parts DEF LoopInv
<1>4. Dispatcher # Caller
  BY Callbacks
<1>. QED
  BY <1>1, <1>2, <1>3, <1>4 DEF Late, Notified, DispatcherLate

\* When it decides to end, nothing of the request is on its way any more.
LEMMA NothingAhead ==
    ASSUME AcpInv, Running("caller"), caller \in {"draining", "settling"}, request \notin stale, ~RunsOn
    PROVE  \A u \in Ahead : ~IsOf(u, request)
<1>1. QueueClear /\ LateClear /\ request \in Request
  BY Parts DEF DeliveryInv, RequestInv
<1>2. answer # "none" /\ \A u \in ToSet(queue) : ~IsOf(u, request)
  BY <1>1 DEF QueueClear, Requesting
<1>3. \A u \in Arriving : ~IsOf(u, request)
  BY <1>1, <1>2, Parts DEF SaidBefore, Answered
<1>4. \A u \in Notified : ~IsOf(u, request)
  BY <1>1, CallerFront DEF LateClear, Resumed
<1>. QED
  BY <1>2, <1>3, <1>4 DEF Ahead

\* The answer is seen: the dispatcher, behind the caller's callback, has nothing for the request.
LEMMA AnswerSeen ==
    ASSUME AcpInv, BeginStream \/ Settle
    PROVE  DeliveryInv'
<1>1. /\ Running("caller") /\ caller \in Requesting /\ answer # "none" /\ answer' = answer
      /\ caller' \notin Requesting \cup {"idle"}
      /\ caller' \in Turning => caller \in Turning
      /\ caller' \in Loading => caller \in Loading
      /\ UNCHANGED <<updates, load_updates, is_loading, outcome, streamed>>
      /\ stale \subseteq stale'
  BY DEF BeginStream, Settle, NextRound, SetCaller, Requesting, Turning, Loading, stateVars
<1>2. UNCHANGED <<sent, queue, request, Ahead>>
  BY CallerPipe DEF CallerStep, TurnStep, LoadStep
<1>3. QueueClear
  BY Parts DEF DeliveryInv
<1>4. OnTheWay' /\ Arrived'
  <2>1. ToSet(updates) \subseteq ToSet(updates') /\ ToSet(load_updates) \subseteq ToSet(load_updates')
    BY <1>1
  <2>. QED
    BY <1>1, <1>2, <2>1, WayStays
<1>5. QueueClear'
  <2>1. \A u \in ToSet(queue) : ~IsOf(u, request)
    <3>1. CASE queue = <<>>
      BY <3>1 DEF ToSet
    <3>2. CASE queue # <<>>
      BY <1>1, <1>3, <3>2, CallerFront DEF QueueClear
    <3>. QED
      BY <3>1, <3>2
  <2>. QED
    BY <1>1, <1>2, <2>1 DEF QueueClear, IsOf, Text, IsText
<1>6. LateClear'
  <2>1. CASE Settle
    <3>1. Late' = {}
      BY <2>1, Parts, CallerYields DEF Settle
    <3>. QED
      BY <3>1 DEF LateClear
  <2>2. CASE BeginStream /\ ~update_event
    <3>1. caller' = "waiting"
      BY <2>2 DEF BeginStream, NextRound, SetCaller
    <3>. QED
      BY <3>1 DEF LateClear, Resumed
  <2>3. CASE BeginStream /\ update_event /\ updates = <<>>
    BY <1>2, <2>3 DEF BeginStream, LateClear
  <2>4. CASE BeginStream /\ update_event /\ updates # <<>>
    <3>1. /\ caller' = "draining" /\ ready' = ready /\ update_event' = FALSE /\ updates' = updates
      BY <2>4 DEF BeginStream, NextRound, SetCaller
    <3>2. RunsOn'
      BY <1>1, <2>4, <3>1, CallerFront DEF RunsOn
    <3>. QED
      BY <3>2 DEF LateClear
  <2>. QED
    BY <2>1, <2>2, <2>3, <2>4
<1>. QED
  BY <1>4, <1>5, <1>6 DEF DeliveryInv

LEMMA RoundDelivery ==
    ASSUME AcpInv, DrainAgain \/ EndWait \/ Timeout \/ ConsumerResumes
    PROVE  DeliveryInv'
<1>1. /\ caller \in Turning \ {"prompting"} /\ caller' \in Turning \ {"prompting"} /\ answer' = answer
      /\ UNCHANGED <<updates, load_updates, is_loading, outcome, streamed, stale>>
  BY DEF DrainAgain, EndWait, Timeout, ConsumerResumes, NextRound, SetCaller, Turning, stateVars
<1>2. UNCHANGED <<sent, queue, request, Ahead>>
  BY CallerPipe DEF CallerStep, TurnStep
<1>3. OnTheWay' /\ Arrived'
  <2>1. ToSet(updates) \subseteq ToSet(updates') /\ ToSet(load_updates) \subseteq ToSet(load_updates')
    BY <1>1
  <2>2. caller' \notin Loading
    BY <1>1 DEF Turning, Loading
  <2>. QED
    BY <1>1, <1>2, <2>1, <2>2, WayStays
<1>4. QueueClear'
  <2>1. QueueClear
    BY Parts DEF DeliveryInv
  <2>. QED
    BY <1>1, <1>2, <2>1 DEF QueueClear, Requesting, Turning, IsOf, Text, IsText
<1>5. LateClear'
  <2>1. ASSUME Late' = Late, caller' \in Resumed => caller \in Resumed, ~RunsOn PROVE LateClear'
    BY <1>1, <1>2, <2>1, LateStays
  <2>2. CASE DrainAgain
    <3>1. CASE update_event
      <4>1. ready' = ready /\ caller = "draining"
        BY <2>2, <3>1 DEF DrainAgain, NextRound
      <4>2. Late' = Late
        BY <4>1 DEF Late
      <4>. QED
        BY <2>1, <3>1, <4>1, <4>2 DEF RunsOn, Resumed
    <3>2. CASE ~update_event
      BY <2>2, <3>2 DEF DrainAgain, NextRound, SetCaller, LateClear, Resumed
    <3>. QED
      BY <3>1, <3>2
  <2>3. CASE EndWait
    <3>1. ready' = ready /\ caller \in {"woken", "expired"}
      BY <2>3 DEF EndWait, loopVars
    <3>2. Late' = Late
      BY <3>1 DEF Late
    <3>. QED
      BY <2>1, <3>1, <3>2 DEF RunsOn, Resumed
  <2>4. CASE Timeout /\ caller = "woken"
    <3>1. ready' = ready
      BY <2>4 DEF Timeout
    <3>2. Late' = Late
      BY <3>1 DEF Late
    <3>. QED
      BY <2>1, <2>4, <3>2 DEF RunsOn, Resumed
  <2>5. CASE (Timeout /\ caller # "woken") \/ ConsumerResumes
    <3>1. ready' = Append(ready, Caller) /\ caller \in {"waiting", "yielding"}
      BY <2>5 DEF Timeout, ConsumerResumes
    <3>2. Caller \notin ToSet(ready)
      BY <3>1, Parts DEF LoopInv
    <3>3. Late' = {}
      BY <3>1, <3>2, Parts, CallerJoins
    <3>. QED
      BY <3>3 DEF LateClear
  <2>. QED
    BY <2>2, <2>3, <2>4, <2>5
<1>. QED
  BY <1>3, <1>4, <1>5 DEF DeliveryInv

LEMMA PopDelivery ==
    ASSUME AcpInv, NEW b \in BOOLEAN, Pop(b)
    PROVE  DeliveryInv'
<1>1. PICK u : u = Head(updates)
  OBVIOUS
<1>2. /\ caller = "draining" /\ updates # <<>>
      /\ ToSet(updates) = {u} \cup ToSet(updates')
      /\ ToSet(streamed'[request]) = ToSet(streamed[request]) \cup {u}
      /\ \A r \in Request : r # request => streamed'[r] = streamed[r]
      /\ request \in Request
      /\ drained_any' /\ caller' \in {"draining", "yielding"}
      /\ caller' = "draining" => ready' = ready
      /\ UNCHANGED <<sent, queue, is_loading, load_updates, update_event, request, answer, outcome, stale>>
  BY <1>1, PopEffect
<1>3. Ahead' = Ahead
  BY CallerPipe DEF CallerStep, TurnStep
<1>4. DeliveryInv
  BY Parts
<1>5. \A r : Texts(r)' = Texts(r)
  BY <1>2 DEF Texts, IsText
<1>6. OnTheWay'
  <2>1. Texts(request) \subseteq Ahead \cup ToSet(updates) \cup ToSet(streamed[request])
    BY <1>2, <1>4 DEF DeliveryInv, OnTheWay, Turning
  <2>2. Texts(request)' \subseteq Ahead' \cup ToSet(updates') \cup ToSet(streamed'[request])
    BY <1>2, <1>3, <1>5, <2>1
  <2>. QED
    BY <1>2, <2>2 DEF OnTheWay, Loading
<1>7. QueueClear'
  BY <1>2, <1>4 DEF DeliveryInv, QueueClear, Requesting, IsOf, Text, IsText
<1>8. LateClear'
  <2>1. CASE caller' = "yielding"
    BY <2>1 DEF LateClear, Resumed
  <2>2. CASE caller' = "draining"
    <3>1. Late' = Late
      BY <1>2, <2>2 DEF Late
    <3>2. RunsOn => RunsOn'
      BY <1>2, <2>2 DEF RunsOn
    <3>. QED
      BY <1>2, <3>1, <3>2, LateStays DEF Resumed
  <2>. QED
    BY <1>2, <2>1, <2>2
<1>9. Arrived'
  <2>1. \A r \in Request : ToSet(streamed[r]) \subseteq ToSet(streamed'[r])
    BY <1>2
  <2>2. \A r \in Request : Drained(r)' <=> Drained(r)
    BY <1>2 DEF Drained
  <2>. QED
    BY <1>2, <1>4, <1>5, <2>1, <2>2 DEF DeliveryInv, Arrived
<1>. QED
  BY <1>6, <1>7, <1>8, <1>9 DEF DeliveryInv

LEMMA EndDelivery ==
    ASSUME AcpInv, PromptFails \/ LoadFails \/ Cancel \/ EndTurn \/ Capture
    PROVE  DeliveryInv'
<1>1. UNCHANGED <<sent, request>>
  BY CallerPipe DEF CallerStep, TurnStep, LoadStep
<1>2. /\ caller' = "idle" /\ stale' = stale
      /\ \A r \in Request : r # request => outcome'[r] = outcome[r] /\ streamed'[r] = streamed[r]
  <2>1. caller' = "idle" /\ stale' = stale
    BY DEF PromptFails, LoadFails, Cancel, EndTurn, Capture, End, SetCaller
  <2>2. \A r \in Request : r # request => outcome'[r] = outcome[r] /\ streamed'[r] = streamed[r]
    BY CallerGoesOn DEF CallerStep, TurnStep, LoadStep
  <2>. QED
    BY <2>1, <2>2
<1>3. OnTheWay' /\ QueueClear' /\ LateClear'
  BY <1>2 DEF OnTheWay, QueueClear, LateClear, Turning, Loading, Requesting, Resumed
<1>4. /\ request \in Request /\ DeliveryInv /\ outcome \in [Request -> Outcomes]
      /\ streamed \in [Request -> Seq(Update)]
      /\ caller = "settling" => request \notin stale
  <2>1. caller # "idle"
    BY DEF PromptFails, LoadFails, Cancel, EndTurn, Capture
  <2>. QED
    BY <2>1, Parts DEF RequestInv, TypeOK
<1>5. \A r : Texts(r)' = Texts(r)
  BY <1>1 DEF Texts, IsText
<1>6. outcome'[request] = "loaded" \/ Drained(request)' => Texts(request) \subseteq ToSet(streamed'[request])
  <2>1. CASE PromptFails \/ LoadFails \/ Cancel
    <3>1. outcome'[request] \in {"failed", "cancelled"}
      BY <1>4, <2>1 DEF PromptFails, LoadFails, Cancel, End
    <3>. QED
      BY <1>1, <3>1 DEF Drained
  <2>2. CASE EndTurn
    <3>1. /\ Running("caller") /\ caller = "draining" /\ updates = <<>> /\ ~drained_any /\ streamed' = streamed
          /\ outcome'[request] = "done"
      BY <1>4, <2>2 DEF EndTurn, End
    <3>2. SUFFICES ASSUME request \notin stale PROVE Texts(request) \subseteq ToSet(streamed[request])
      BY <1>1, <1>2, <3>1 DEF Drained
    <3>3. \A u \in Ahead : ~IsOf(u, request)
      BY <3>1, <3>2, NothingAhead DEF RunsOn
    <3>4. Texts(request) \subseteq Ahead \cup ToSet(updates) \cup ToSet(streamed[request])
      BY <1>4, <3>1 DEF DeliveryInv, OnTheWay, Turning
    <3>5. ToSet(updates) = {}
      BY <3>1 DEF ToSet
    <3>. QED
      BY <3>3, <3>4, <3>5, TextsOf
  <2>3. CASE Capture
    <3>1. /\ Running("caller") /\ caller = "settling" /\ streamed'[request] = load_updates
      BY <1>4, <2>3 DEF Capture
    <3>2. \A u \in Ahead : ~IsOf(u, request)
      BY <1>4, <3>1, NothingAhead DEF RunsOn
    <3>3. Texts(request) \subseteq Ahead \cup ToSet(load_updates)
      BY <1>4, <3>1 DEF DeliveryInv, OnTheWay, Loading
    <3>. QED
      BY <3>1, <3>2, <3>3, TextsOf
  <2>. QED
    BY <2>1, <2>2, <2>3
<1>7. Arrived'
  <2>1. \A r \in Request : r # request => (Drained(r)' <=> Drained(r))
    BY <1>2 DEF Drained
  <2> SUFFICES ASSUME NEW r \in Request, outcome'[r] = "loaded" \/ Drained(r)'
               PROVE  Texts(r)' \subseteq ToSet(streamed'[r])
    BY DEF Arrived
  <2>2. CASE r = request
    BY <1>1, <1>5, <1>6, <2>2 DEF Drained
  <2>3. CASE r # request
    BY <1>2, <1>4, <1>5, <2>1, <2>3 DEF DeliveryInv, Arrived
  <2>. QED
    BY <2>2, <2>3
<1>. QED
  BY <1>3, <1>7 DEF DeliveryInv

LEMMA DeliveryNext == AcpInv /\ [Next]_vars => DeliveryInv'
<1> SUFFICES ASSUME AcpInv, [Next]_vars PROVE DeliveryInv'
  OBVIOUS
<1>1. CASE BeginLoad
  BY <1>1, BeginDelivery DEF BeginLoad, Requesting
<1>2. ASSUME NEW b \in BOOLEAN, BeginTurn(b) PROVE DeliveryInv'
  BY <1>2, BeginDelivery DEF BeginTurn, Requesting
<1>. QED
  BY <1>1, <1>2, SendUpdateDelivery, PipeDelivery, ReceiveResponseDelivery, StoreDelivery, AnswerSeen,
     RoundDelivery, PopDelivery, EndDelivery
     DEF Next, Agent, Client, Connection, Handler, TurnStep, LoadStep

\* A step that neither sends, streams nor ends.
LEMMA SeparateStays ==
    ASSUME AcpInv, UNCHANGED <<sent, request, outcome, streamed>>, stale \subseteq stale',
           caller' = "idle" <=> caller = "idle",
           \A u \in Ahead' \cup ToSet(updates') : IsText(u) => u \in Ahead \cup ToSet(updates)
    PROVE  SeparateInv'
<1>1. SeparateInv
  BY Parts
<1>2. \A r : Drained(r)' => Drained(r)
  BY DEF Drained
<1>. QED
  BY <1>1, <1>2 DEF SeparateInv, OwnTexts, IsText

LEMMA SendUpdateSeparate ==
    ASSUME AcpInv, NEW kind \in Kind, SendUpdate(kind)
    PROVE  SeparateInv'
<1>1. PICK n : n = Len(sent) + 1
  OBVIOUS
<1>2. /\ n \notin DOMAIN sent
      /\ \A u \in DOMAIN sent : sent'[u] = sent[u]
      /\ sent'[n].kind = kind
      /\ kind = "text" => sent'[n].for = Head(serving) /\ Head(serving) \in ToSet(serving)
      /\ Ahead' = Ahead \cup {n}
      /\ UNCHANGED <<stateVars, callerVars>>
  BY <1>1, SendUpdateEffect
<1>3. /\ SeparateInv /\ Ahead \cup ToSet(updates) \subseteq DOMAIN sent
      /\ \A r \in Request : ToSet(streamed[r]) \subseteq DOMAIN sent
      /\ request \in Nat
  BY Parts DEF KnownInv, TypeOK
<1>4. kind = "text" => Head(serving) \in 1..request /\ ~Drained(Head(serving))
  <2> SUFFICES ASSUME kind = "text" PROVE Head(serving) \in 1..request /\ ~Drained(Head(serving))
    OBVIOUS
  <2>1. Head(serving) \in Request /\ Head(serving) <= request /\ ~Answered(Head(serving))
    <3>1. \A r \in ToSet(serving) : r \in Request
      BY Parts DEF ToSet
    <3>. QED
      BY <1>2, <3>1, Parts DEF RequestInv
  <2>. QED
    BY <1>3, <2>1 DEF Request, Answered, Drained
<1>5. \A u \in DOMAIN sent : (IsText(u)' <=> IsText(u)) /\ sent'[u].for = sent[u].for
  BY <1>2 DEF IsText
<1>6. IsText(n)' => kind = "text"
  BY <1>2 DEF IsText
<1>7. \A r : Drained(r)' <=> Drained(r)
  BY <1>2 DEF Drained, callerVars
<1>8. OwnTexts'
  BY <1>2, <1>3, <1>5, <1>7 DEF SeparateInv, OwnTexts, callerVars
<1>9. caller # "idle" /\ (\A q \in 1..(request - 1) : Drained(q)) =>
         \A u \in Ahead' \cup ToSet(updates) : IsText(u)' => sent'[u].for = request
  <2> SUFFICES ASSUME caller # "idle", \A q \in 1..(request - 1) : Drained(q),
                      NEW u \in Ahead' \cup ToSet(updates), IsText(u)'
               PROVE  sent'[u].for = request
    OBVIOUS
  <2>1. CASE u = n
    <3>1. kind = "text"
      BY <1>6, <2>1
    <3>2. Head(serving) \in 1..request /\ Head(serving) \notin 1..(request - 1)
      BY <1>4, <3>1
    <3>3. Head(serving) = request
      BY <1>3, <3>2
    <3>. QED
      BY <1>2, <2>1, <3>1, <3>3
  <2>2. CASE u # n
    BY <1>2, <1>3, <1>5, <2>2 DEF SeparateInv
  <2>. QED
    BY <2>1, <2>2
<1>10. caller = "idle" /\ (\A q \in 1..request : Drained(q)) =>
         \A u \in Ahead' \cup ToSet(updates) : ~IsText(u)'
  BY <1>2, <1>3, <1>4, <1>5, <1>6 DEF SeparateInv
<1>. QED
  BY <1>2, <1>7, <1>8, <1>9, <1>10 DEF SeparateInv, stateVars, callerVars

LEMMA BeginSeparate ==
    ASSUME AcpInv, NEW state \in Requesting, Begin(state), updates' \in {updates, <<>>}
    PROVE  SeparateInv'
<1>1. /\ caller = "idle" /\ caller' = state /\ request' = request + 1 /\ request' \in Request
      /\ request \in Nat /\ streamed[request'] = <<>>
      /\ \A r \in Request : r # request' => outcome'[r] = outcome[r]
      /\ outcome'[request'] = "open"
      /\ UNCHANGED <<sent, streamed, stale, Ahead>>
  BY BeginEffect
<1>2. SeparateInv
  BY Parts
<1>3. ToSet(updates') \subseteq ToSet(updates)
  BY DEF ToSet
<1>4. \A q \in 1..request : q \in Request /\ q # request'
  BY <1>1, BoundsAssumption DEF Request
<1>5. \A q \in 1..request : Drained(q)' => Drained(q)
  BY <1>1, <1>4 DEF Drained
<1>6. (\A q \in 1..request : Drained(q)') => \A u \in Ahead' \cup ToSet(updates') : IsText(u)' => FALSE
  BY <1>1, <1>2, <1>3, <1>5 DEF SeparateInv, IsText
<1>7. request' - 1 = request
  BY <1>1
<1>8. OwnTexts'
  <2> SUFFICES ASSUME NEW r \in Request, outcome'[r] \in {"open", "done"},
                      \A q \in 1..(r - 1) : Drained(q)',
                      NEW u \in ToSet(streamed[r]), IsText(u)
               PROVE  sent[u].for = r
    BY <1>1 DEF OwnTexts, IsText
  <2>1. r # request'
    BY <1>1 DEF ToSet
  <2>2. \A q \in 1..(r - 1) : q # request'
    <3>1. outcome'[request'] # "done"
      BY <1>1
    <3>. QED
      BY <3>1 DEF Drained
  <2>3. \A q \in 1..(r - 1) : q \in Request
    BY BoundsAssumption DEF Request
  <2>4. \A q \in 1..(r - 1) : Drained(q)
    BY <1>1, <2>2, <2>3 DEF Drained
  <2>. QED
    BY <1>1, <1>2, <2>1, <2>4 DEF SeparateInv, OwnTexts
<1>. QED
  BY <1>1, <1>6, <1>7, <1>8 DEF SeparateInv, Requesting

LEMMA PopSeparate ==
    ASSUME AcpInv, NEW b \in BOOLEAN, Pop(b)
    PROVE  SeparateInv'
<1>1. PICK u : u = Head(updates)
  OBVIOUS
<1>2. /\ caller = "draining"
      /\ ToSet(updates) = {u} \cup ToSet(updates')
      /\ ToSet(streamed'[request]) = ToSet(streamed[request]) \cup {u}
      /\ \A r \in Request : r # request => streamed'[r] = streamed[r]
      /\ caller' \in {"draining", "yielding"}
      /\ UNCHANGED <<sent, request, outcome, stale>>
  BY <1>1, PopEffect
<1>3. Ahead' = Ahead
  BY CallerPipe DEF CallerStep, TurnStep
<1>4. SeparateInv
  BY Parts
<1>5. \A r : Drained(r)' <=> Drained(r)
  BY <1>2 DEF Drained
<1>6. OwnTexts'
  <2> SUFFICES ASSUME NEW r \in Request, outcome[r] \in {"open", "done"},
                      \A q \in 1..(r - 1) : Drained(q),
                      NEW v \in ToSet(streamed'[r]), IsText(v)
               PROVE  sent[v].for = r
    BY <1>2, <1>5 DEF OwnTexts, IsText
  <2>1. CASE v \in ToSet(streamed[r])
    BY <1>4, <2>1 DEF SeparateInv, OwnTexts
  <2>2. CASE v \notin ToSet(streamed[r])
    <3>1. r = request /\ v = u
      BY <1>2, <2>2
    <3>. QED
      BY <1>2, <1>4, <3>1 DEF SeparateInv
  <2>. QED
    BY <2>1, <2>2
<1>. QED
  BY <1>2, <1>3, <1>4, <1>5, <1>6 DEF SeparateInv, IsText

LEMMA EndSeparate ==
    ASSUME AcpInv, PromptFails \/ LoadFails \/ Cancel \/ EndTurn \/ Capture
    PROVE  SeparateInv'
<1>1. UNCHANGED <<sent, request, Ahead>>
  BY CallerPipe DEF CallerStep, TurnStep, LoadStep
<1>2. /\ caller # "idle" /\ caller' = "idle" /\ stale' = stale /\ updates' = updates
  BY DEF PromptFails, LoadFails, Cancel, EndTurn, Capture, End, SetCaller, stateVars
<1>3. /\ request \in Request /\ SeparateInv /\ TypeOK
      /\ \A r \in Request : r # request => outcome'[r] = outcome[r] /\ streamed'[r] = streamed[r]
  BY Parts, CallerGoesOn DEF CallerStep, TurnStep, LoadStep
<1>4. request \in 1..request
  BY <1>3 DEF Request
<1>5. ASSUME ~EndTurn PROVE outcome'[request] \notin {"open", "done"}
  BY <1>3, <1>5 DEF PromptFails, LoadFails, Cancel, Capture, End, TypeOK
<1>6. \A r \in Request : r # request => (Drained(r)' <=> Drained(r))
  BY <1>2, <1>3 DEF Drained
<1>7. ASSUME EndTurn PROVE streamed' = streamed /\ outcome[request] = "open"
  BY <1>2, <1>3, <1>7, Parts DEF EndTurn, RequestInv
<1>8. OwnTexts'
  <2> SUFFICES ASSUME NEW r \in Request, outcome'[r] \in {"open", "done"},
                      \A q \in 1..(r - 1) : Drained(q)',
                      NEW u \in ToSet(streamed'[r]), IsText(u)
               PROVE  sent[u].for = r
    BY <1>1 DEF OwnTexts, IsText
  <2>1. \A q \in 1..(r - 1) : q \in Request
    BY BoundsAssumption DEF Request
  <2>2. CASE request \notin 1..(r - 1)
    <3>1. \A q \in 1..(r - 1) : Drained(q)
      BY <1>6, <2>1, <2>2
    <3>2. outcome[r] \in {"open", "done"} /\ streamed'[r] = streamed[r]
      BY <1>3, <1>5, <1>7
    <3>. QED
      BY <1>3, <3>1, <3>2 DEF SeparateInv, OwnTexts
  <2>3. CASE request \in 1..(r - 1)
    <3>1. r > request /\ r # request
      BY <2>3 DEF Request
    <3>2. streamed'[r] = <<>>
      BY <1>3, <3>1, Parts DEF RequestInv
    <3>. QED
      BY <3>2 DEF ToSet
  <2>. QED
    BY <2>2, <2>3
<1>9. (\A q \in 1..request : Drained(q)') => \A u \in Ahead' \cup ToSet(updates') : ~IsText(u)'
  <2> SUFFICES ASSUME \A q \in 1..request : Drained(q)',
                      NEW u \in Ahead \cup ToSet(updates), IsText(u)
               PROVE  FALSE
    BY <1>1, <1>2 DEF IsText
  <2>1. EndTurn /\ request \notin stale
    <3>1. \A q : Drained(q)' => outcome'[q] = "done" /\ q \notin stale'
      BY DEF Drained
    <3>. QED
      BY <1>2, <1>4, <1>5, <3>1
  <2>2. \A q \in 1..(request - 1) : Drained(q)
    <3>1. \A q \in 1..(request - 1) : q \in 1..request /\ q # request /\ q \in Request
      BY <1>3, BoundsAssumption DEF Request
    <3>. QED
      BY <1>6, <3>1
  <2>3. sent[u].for = request
    BY <1>2, <1>3, <2>2 DEF SeparateInv
  <2>4. Running("caller") /\ caller = "draining" /\ updates = <<>> /\ ~drained_any
    BY <2>1 DEF EndTurn
  <2>5. u \in Ahead
    BY <2>4 DEF ToSet
  <2>6. u \in DOMAIN sent
    BY <2>5, LateIsAhead
  <2>7. \A v \in Ahead : ~IsOf(v, request)
    BY <2>1, <2>4, NothingAhead DEF RunsOn
  <2>. QED
    BY <2>3, <2>5, <2>6, <2>7 DEF IsOf, Text
<1>. QED
  BY <1>1, <1>2, <1>8, <1>9 DEF SeparateInv

LEMMA SeparateNext == AcpInv /\ [Next]_vars => SeparateInv'
<1> SUFFICES ASSUME AcpInv, [Next]_vars PROVE SeparateInv'
  OBVIOUS
<1>1. ASSUME UNCHANGED <<sent, request, outcome, streamed, stale, caller, updates>>, Ahead' \subseteq Ahead
      PROVE  SeparateInv'
  BY <1>1, SeparateStays
<1>2. ASSUME NEW k \in {"response", "error"}, Respond(k) PROVE SeparateInv'
  BY <1>1, <1>2, RespondEffect DEF stateVars, callerVars
<1>3. CASE ReceiveUpdate
  BY <1>1, <1>3, ReceiveUpdateEffect DEF agentVars, stateVars, callerVars
<1>4. CASE ReceiveResponse
  BY <1>1, <1>4, ReceiveResponseEffect DEF agentVars, stateVars
<1>5. CASE Dispatch
  BY <1>1, <1>5, DispatchEffect DEF agentVars, stateVars, callerVars
<1>6. CASE EmitUpdate
  BY <1>1, <1>6, EmitEffect DEF agentVars, callerVars
<1>7. ASSUME NEW u \in emitting, Emitted(u) PROVE SeparateInv'
  BY <1>1, <1>7, EmittedEffect DEF agentVars, callerVars
<1>8. CASE StoreUpdate
  <2>1. PICK u : u = Head(ready).update
    OBVIOUS
  <2>2. /\ \/ Notified = Notified' \cup {u}
           \/ ~IsText(u)
        /\ UNCHANGED <<agentVars, request, outcome, streamed, stale>>
        /\ IF caller = "waiting" THEN caller' = "woken" ELSE caller' = caller
    BY <1>8, <2>1, StoreEffect
  <2>3. ToSet(updates') \subseteq ToSet(updates) \cup {u} /\ Ahead' \subseteq Ahead
    BY <1>8, <2>1, StoredSets
  <2>4. IsText(u) => u \in Ahead
    BY <2>2 DEF Ahead
  <2>5. \A v \in Ahead' \cup ToSet(updates') : IsText(v) => v \in Ahead \cup ToSet(updates)
    BY <2>3, <2>4
  <2>6. caller' = "idle" <=> caller = "idle"
    BY <2>2
  <2>. QED
    BY <2>2, <2>5, <2>6, SeparateStays DEF agentVars
<1>9. CASE BeginLoad
  BY <1>9, BeginSeparate DEF BeginLoad, Requesting
<1>10. ASSUME NEW b \in BOOLEAN, BeginTurn(b) PROVE SeparateInv'
  BY <1>10, BeginSeparate DEF BeginTurn, Requesting
<1>11. CASE BeginStream \/ EndWait \/ DrainAgain \/ Settle \/ Timeout \/ ConsumerResumes
  <2>1. UNCHANGED <<sent, request, Ahead>>
    BY <1>11, CallerPipe DEF CallerStep, TurnStep, LoadStep
  <2>2. /\ UNCHANGED <<outcome, streamed, updates>> /\ stale \subseteq stale'
        /\ caller # "idle" /\ caller' # "idle"
    BY <1>11 DEF BeginStream, EndWait, DrainAgain, Settle, Timeout, ConsumerResumes, NextRound, SetCaller, stateVars
  <2>. QED
    BY <2>1, <2>2, SeparateStays
<1>12. CASE UNCHANGED vars
  BY <1>1, <1>12 DEF Ahead, Notified, Arriving, vars, agentVars, loopVars, stateVars, callerVars
<1>. QED
  BY <1>2, <1>3, <1>4, <1>5, <1>6, <1>7, <1>8, <1>9, <1>10, <1>11, <1>12,
     SendUpdateSeparate, PopSeparate, EndSeparate
     DEF Next, Agent, Client, Connection, Handler, TurnStep, LoadStep

-----------------------------------------------------------------------------
(***************************************************************************)
(* The theorems.                                                           *)
(***************************************************************************)
LEMMA AcpInit == Init => AcpInv
<1> SUFFICES ASSUME Init PROVE AcpInv
  OBVIOUS
<1>1. TypeOK
  BY TypeInit
<1>2. \A S, order : Sorted(<<>>, order) /\ ToSet(<<>>) = {} /\ Behind(<<>>, Caller) = {}
  BY DEF Sorted, ToSet, Behind
<1>3. /\ sent = <<>> /\ DOMAIN sent = {} /\ serving = <<>> /\ ready = <<>> /\ inbox = <<>> /\ queue = <<>>
      /\ emitting = {} /\ updates = <<>> /\ load_updates = <<>>
      /\ caller = "idle" /\ request = 0 /\ answer = "none" /\ stale = {}
      /\ \A r \in Request : outcome[r] = "none" /\ streamed[r] = <<>>
  BY DEF Init
<1>4. Notified = {} /\ Resuming = {} /\ Late = {} /\ Arriving = {} /\ Replies = {} /\ Ahead = {}
  BY <1>2, <1>3 DEF Notified, NotifiedIn, Resuming, ResumingIn, Late, LateIn, Arriving, Replies, Ahead
<1>5. LoopInv
  BY <1>2, <1>3 DEF LoopInv, Requesting
<1>6. KnownInv
  BY <1>2, <1>3, <1>4 DEF KnownInv
<1>7. \A r \in Request : ~Answered(r)
  BY <1>3 DEF Answered
<1>8. RequestInv
  BY <1>2, <1>3, <1>4, <1>7 DEF RequestInv
<1>9. SaidBefore
  BY <1>2, <1>3, <1>7 DEF SaidBefore
<1>10. OrderInv
  BY <1>2, <1>3, <1>4 DEF OrderInv, StreamOrder
<1>11. DeliveryInv
  BY <1>3 DEF DeliveryInv, OnTheWay, QueueClear, LateClear, Arrived, Drained, Turning, Loading, Requesting, Resumed
<1>12. SeparateInv
  BY <1>2, <1>3, <1>4 DEF SeparateInv, OwnTexts
<1>. QED
  BY <1>1, <1>5, <1>6, <1>8, <1>9, <1>10, <1>11, <1>12 DEF AcpInv

LEMMA AcpNext == AcpInv /\ [Next]_vars => AcpInv'
<1> SUFFICES ASSUME AcpInv, [Next]_vars PROVE AcpInv'
  OBVIOUS
<1>. QED
  BY TypeNext, LoopNext, KnownNext, RequestNext, SaidNext, OrderNext, DeliveryNext, SeparateNext DEF AcpInv

\* The invariant holds in every reachable state, for any number of requests and updates.
THEOREM AcpInvariant == Spec => []AcpInv
  BY AcpInit, AcpNext, PTL DEF Spec

\* Type correctness.
THEOREM TypeCorrectness == Spec => []TypeOK
<1>1. AcpInv => TypeOK
  BY DEF AcpInv
<1>. QED
  BY <1>1, AcpInvariant, PTL

\* load_session returns all text the agent replayed before its response, however the
\* notifications and the response are interleaved in the event loop.
THEOREM LoadsAreComplete == Spec => []LoadIsComplete
<1>1. AcpInv => LoadIsComplete
  BY DEF AcpInv, DeliveryInv, Arrived, LoadIsComplete
<1>. QED
  BY <1>1, AcpInvariant, PTL

\* A turn that drains streams all of its own text; and, as long as every earlier request
\* was such a turn, no text of another one.
THEOREM TurnsStreamTheirOwn == Spec => []TurnsAreSeparate
<1>1. ASSUME AcpInv PROVE TurnsAreSeparate
  <2>1. \A r \in Request : Drained(r) => Texts(r) \subseteq ToSet(streamed[r])
    BY <1>1 DEF AcpInv, DeliveryInv, Arrived
  <2>2. OwnTexts
    BY <1>1 DEF AcpInv, SeparateInv
  <2>3. \A r \in Request : \A i \in DOMAIN streamed[r] : streamed[r][i] \in ToSet(streamed[r])
    BY DEF ToSet
  <2>. QED
    BY <2>1, <2>2, <2>3 DEF OwnTexts, TurnsAreSeparate
<1>. QED
  BY <1>1, AcpInvariant, PTL

\* What the turns of a session stream is in the order in which the agent said it, and no
\* text is streamed twice.
THEOREM TurnsKeepTheOrder == Spec => []AgentOrder
<1>1. ASSUME AcpInv PROVE AgentOrder
  <2>1. StreamOrder /\ \A r \in Request : ToSet(streamed[r]) \subseteq DOMAIN sent
    BY <1>1 DEF AcpInv, OrderInv, KnownInv
  <2> SUFFICES ASSUME NEW q \in Request, NEW r \in Request, NEW i \in Streamed(q), NEW j \in Streamed(r),
                      q < r \/ (q = r /\ i < j)
               PROVE  streamed[q][i] < streamed[r][j]
    BY DEF AgentOrder
  <2>2. /\ i \in DOMAIN streamed[q] /\ outcome[q] # "loaded" /\ IsText(streamed[q][i])
        /\ j \in DOMAIN streamed[r] /\ outcome[r] # "loaded" /\ IsText(streamed[r][j])
    BY DEF Streamed
  <2>3. streamed[q][i] \in ToSet(streamed[q]) /\ streamed[r][j] \in ToSet(streamed[r])
    BY <2>2 DEF ToSet
  <2>4. <<streamed[q][i], streamed[r][j]>> \in TextOrder
    BY <2>1, <2>2, <2>3 DEF StreamOrder, Sorted
  <2>5. Text(streamed[q][i]) /\ Text(streamed[r][j])
    BY <2>1, <2>2, <2>3 DEF Text
  <2>. QED
    BY <2>4, <2>5 DEF TextOrder
<1>. QED
  BY <1>1, AcpInvariant, PTL
=============================================================================
