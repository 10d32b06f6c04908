--------------------------- MODULE EventBusProofs ---------------------------
(***************************************************************************)
(* Theorems about EventBus, for every set of clients and sessions, every   *)
(* session tree, policy, queue and buffer size.                            *)
(***************************************************************************)
EXTENDS EventBus, SequenceTheorems, WellFoundedInduction, TLAPS

-----------------------------------------------------------------------------
(***************************************************************************)
(* Readers are told of the end of their subscription.                      *)
(***************************************************************************)
\* A subscription that is removed, by a publication or by the end of its
\* session, has its queue shut down in the same step.
LEMMA RemovedAreShut ==
    ASSUME NoReaderStranded, NEW dead, RemoveDead(dead), UNCHANGED reading
    PROVE  NoReaderStranded'
  BY DEF NoReaderStranded, RemoveDead

\* No step strands a reader: whoever reads a queue that publish no longer
\* feeds is told so by its shutdown.
LEMMA StrandedStep ==
    ASSUME NoReaderStranded, [Next]_vars
    PROVE  NoReaderStranded'
<1> USE DEF NoReaderStranded
<1>1. ASSUME NEW c \in Client, Subscribe(c) \/ Resume(c)
      PROVE  NoReaderStranded'
  <2>1. PICK history, got : Connect(c, history, got)
    BY <1>1 DEF Subscribe, Resume
  <2> QED  BY <2>1 DEF Connect
<1>2. ASSUME NEW c \in Client, Unsubscribe(c)
      PROVE  NoReaderStranded'
  BY <1>2 DEF Unsubscribe
<1>3. ASSUME NEW c \in Client, Read(c)
      PROVE  NoReaderStranded'
  BY <1>3 DEF Read, busVars
<1>4. ASSUME NEW c \in Client, EndOfStream(c)
      PROVE  NoReaderStranded'
  BY <1>4 DEF EndOfStream, busVars
<1>5. ASSUME NEW event \in Inputs, Publish(event)
      PROVE  NoReaderStranded'
  <2>1. PICK dead : RemoveDead(dead)
    BY <1>5 DEF Publish
  <2>2. UNCHANGED reading
    BY <1>5 DEF Publish
  <2> QED  BY <2>1, <2>2, RemovedAreShut
<1>6. ASSUME NEW s \in Session, ClearReplayBuffer(s)
      PROVE  NoReaderStranded'
  BY <1>6 DEF ClearReplayBuffer
<1>7. ASSUME NEW s \in Session, CloseSession(s)
      PROVE  NoReaderStranded'
  <2>1. RemoveDead(SubscribersOf(s)) /\ UNCHANGED reading
    BY <1>7 DEF CloseSession
  <2> QED  BY <2>1, RemovedAreShut
<1>8. CASE UNCHANGED vars
  BY <1>8 DEF vars, busVars
<1> QED
  BY <1>1, <1>2, <1>3, <1>4, <1>5, <1>6, <1>7, <1>8 DEF Next

\* In every reachable state a consumer that reads a queue has a subscription
\* that feeds it, or the queue is shut down (publish, unsubscribe,
\* close_session).
THEOREM ReadersAreNotStranded == Spec => []NoReaderStranded
<1>1. Init => NoReaderStranded
  BY DEF Init, NoReaderStranded
<1>2. NoReaderStranded /\ [Next]_vars => NoReaderStranded'
  BY StrandedStep
<1> QED
  BY <1>1, <1>2, PTL DEF Spec

-----------------------------------------------------------------------------
(***************************************************************************)
(* Induction over the numbers, and what Keep and FlattenSeq return.        *)
(***************************************************************************)
\* A set of numbers has a smallest element.
LEMMA Smallest ==
    ASSUME NEW T, T \subseteq Nat, T # {}
    PROVE  \E x \in T : \A y \in T : x <= y
<1>1. PICK x \in T : \A y \in T : ~(<<y, x>> \in OpToRel(<, Nat))
  BY NatLessThanWellFounded, WFMin
<1>2. \A y \in T : ~ (y < x)
  BY <1>1 DEF OpToRel
<1>. QED BY <1>2

\* Induction: the sets below are of the numbers up to which a recursive definition is
\* understood.
LEMMA Counting ==
    ASSUME NEW T, T \subseteq Nat, 0 \in T, \A n \in T : n + 1 \in T
    PROVE  T = Nat
<1>1. SUFFICES ASSUME Nat \ T # {} PROVE FALSE
  OBVIOUS
<1>2. PICK x \in Nat \ T : \A y \in Nat \ T : x <= y
  BY Smallest, <1>1
<1>3. x - 1 \in Nat /\ x - 1 \in T
  BY <1>2
<1>. QED BY <1>2, <1>3

\* The functions that satisfy the recursion of Keep.
KeptFrom(seq, set, n) ==
   {f \in [0..n -> Seq(Range(seq))] :
       /\ f[0] = <<>>
       /\ \A i \in 1..n : f[i] = IF seq[i] \in set THEN Append(f[i - 1], seq[i]) ELSE f[i - 1]}

\* There is one,
LEMMA KeptExists ==
    ASSUME NEW S, NEW seq \in Seq(S), NEW set
    PROVE  KeptFrom(seq, set, Len(seq)) # {}
<1> DEFINE R == Range(seq)
           T == {n \in Nat : n <= Len(seq) => KeptFrom(seq, set, n) # {}}
<1>1. 0 \in T
  <2>1. [i \in 0..0 |-> <<>>] \in KeptFrom(seq, set, 0)
    BY DEF KeptFrom
  <2>. QED BY <2>1
<1>2. ASSUME NEW n \in T PROVE n + 1 \in T
  <2>1. SUFFICES ASSUME n + 1 <= Len(seq) PROVE KeptFrom(seq, set, n + 1) # {}
    OBVIOUS
  <2>2. PICK f : f \in KeptFrom(seq, set, n)
    BY <2>1
  <2> DEFINE last == IF seq[n + 1] \in set THEN Append(f[n], seq[n + 1]) ELSE f[n]
             g == [i \in 0..n + 1 |-> IF i <= n THEN f[i] ELSE last]
  <2>3. f[n] \in Seq(R) /\ seq[n + 1] \in R /\ n \in Nat
    BY <2>1, <2>2 DEF KeptFrom, Range
  <2>4. last \in Seq(R)
    BY <2>3, AppendProperties
  <2>5. g \in [0..n + 1 -> Seq(R)]
    BY <2>2, <2>3, <2>4 DEF KeptFrom
  <2>6. g[0] = <<>>
    BY <2>2, <2>3 DEF KeptFrom
  <2>7. ASSUME NEW i \in 1..n + 1 PROVE g[i] = IF seq[i] \in set THEN Append(g[i - 1], seq[i]) ELSE g[i - 1]
    <3>1. CASE i <= n
       <4>1. g[i] = f[i] /\ g[i - 1] = f[i - 1]
         BY <3>1, <2>3
       <4>. QED BY <4>1, <2>2, <3>1 DEF KeptFrom
    <3>2. CASE i = n + 1
       <4>1. g[i] = last /\ g[i - 1] = f[n]
         BY <3>2, <2>3
       <4>. QED BY <4>1, <3>2
    <3>. QED BY <3>1, <3>2, <2>3
  <2>8. g \in KeptFrom(seq, set, n + 1)
     BY <2>5, <2>6, <2>7 DEF KeptFrom
  <2>. QED BY <2>8
<1>3. T = Nat
  <2>. HIDE DEF T
  <2>1. T \subseteq Nat BY DEF T
  <2>. QED BY <2>1, <1>1, <1>2, Counting
<1>. QED BY <1>3

\* and Keep is its last value.
LEMMA KeepIs ==
    ASSUME NEW S, NEW seq \in Seq(S), NEW set
    PROVE  \E f \in KeptFrom(seq, set, Len(seq)) : Keep(seq, set) = f[Len(seq)]
<1> DEFINE D(f) == [n \in 0..Len(seq) |->
            IF n = 0 THEN <<>>
            ELSE IF seq[n] \in set THEN Append(f[n - 1], seq[n])
            ELSE f[n - 1]]
           kept == CHOOSE f : f = D(f)
<1>1. PICK f : f \in KeptFrom(seq, set, Len(seq))
  BY KeptExists
<1>2. f = D(f)
  <2>1. f = [n \in 0..Len(seq) |-> f[n]]
    BY <1>1 DEF KeptFrom
  <2>2. ASSUME NEW n \in 0..Len(seq)
        PROVE  f[n] = IF n = 0 THEN <<>> ELSE IF seq[n] \in set THEN Append(f[n - 1], seq[n]) ELSE f[n - 1]
    <3>1. Len(seq) \in Nat /\ f[0] = <<>>
      BY <1>1 DEF KeptFrom
    <3>2. CASE n = 0
      BY <3>1, <3>2
    <3>3. CASE n # 0
      <4>1. n \in 1..Len(seq)
        BY <3>1, <3>3
      <4>. QED BY <4>1, <3>3, <1>1 DEF KeptFrom
    <3>. QED BY <3>2, <3>3
  <2>3. [n \in 0..Len(seq) |-> f[n]] = D(f)
    BY <2>2
  <2>. QED BY <2>1, <2>3
<1>3. kept = D(kept)
  <2>. HIDE DEF D
  <2>. QED BY <1>2
<1>4. Keep(seq, set) = kept[Len(seq)]
  BY DEF Keep
<1>5. \A n \in 0..Len(seq) : kept[n] = f[n]
  <2> DEFINE T == {n \in Nat : n <= Len(seq) => kept[n] = f[n]}
  <2>. HIDE DEF kept
  <2>0. Len(seq) \in Nat
    OBVIOUS
  <2>1. 0 \in T
    BY <1>3, <2>0, <1>1 DEF KeptFrom
  <2>2. ASSUME NEW n \in T PROVE n + 1 \in T
    <3>1. SUFFICES ASSUME n + 1 <= Len(seq) PROVE kept[n + 1] = f[n + 1]
      OBVIOUS
    <3>2. kept[n] = f[n] /\ n + 1 # 0 /\ n + 1 \in 0..Len(seq) /\ (n + 1) - 1 = n
      BY <3>1
    <3>3. kept[n + 1] = IF seq[n + 1] \in set THEN Append(kept[n], seq[n + 1]) ELSE kept[n]
      BY <1>3, <3>2
    <3>4. f[n + 1] = IF seq[n + 1] \in set THEN Append(f[n], seq[n + 1]) ELSE f[n]
      BY <1>2, <3>2
    <3>. QED BY <3>2, <3>3, <3>4
  <2>3. T = Nat
    <3>. HIDE DEF T
    <3>1. T \subseteq Nat BY DEF T
    <3>. QED BY <3>1, <2>1, <2>2, Counting
  <2>. QED BY <2>3
<1>6. Keep(seq, set) = f[Len(seq)]
  <2>. HIDE DEF kept
  <2>1. Len(seq) \in 0..Len(seq)
    OBVIOUS
  <2>. QED BY <1>4, <1>5, <2>1
<1>. QED BY <1>1, <1>6


\* What Append does to the elements of a sequence,
LEMMA Appended ==
    ASSUME NEW S, NEW s \in Seq(S), NEW x \in S
    PROVE  /\ Append(s, x) \in Seq(S) /\ Append(s, x) # <<>>
           /\ Len(Append(s, x)) = Len(s) + 1
           /\ ToSet(Append(s, x)) = ToSet(s) \cup {x}
<1>1. /\ Append(s, x) \in Seq(S) /\ Len(Append(s, x)) = Len(s) + 1
      /\ \A i \in 1..Len(s) : Append(s, x)[i] = s[i]
      /\ Append(s, x)[Len(s) + 1] = x
  BY AppendProperties
<1>2. DOMAIN Append(s, x) = DOMAIN s \cup {Len(s) + 1}
  BY <1>1
<1>3. \A i \in DOMAIN s : Append(s, x)[i] = s[i]
  BY <1>1
<1>. QED
  BY <1>1, <1>2, <1>3 DEF ToSet

\* and to their order.
LEMMA AppendedIncreasing ==
    ASSUME NEW s \in Seq(Nat), NEW x \in Nat, Increasing(s), \A y \in ToSet(s) : y < x
    PROVE  Increasing(Append(s, x))
<1>1. \A i \in DOMAIN s : s[i] < x
  BY DEF ToSet
<1>2. /\ DOMAIN Append(s, x) = DOMAIN s \cup {Len(s) + 1}
      /\ \A i \in DOMAIN s : Append(s, x)[i] = s[i] /\ i <= Len(s)
      /\ Append(s, x)[Len(s) + 1] = x /\ Len(s) \in Nat
  BY AppendProperties
<1>3. ASSUME NEW i \in DOMAIN s \cup {Len(s) + 1}, NEW j \in DOMAIN s \cup {Len(s) + 1}, i < j
      PROVE  Append(s, x)[i] < Append(s, x)[j]
  <2>1. i \in DOMAIN s
    BY <1>2, <1>3
  <2>2. CASE j \in DOMAIN s
    BY <1>2, <1>3, <2>1, <2>2 DEF Increasing
  <2>3. CASE j = Len(s) + 1
    BY <1>1, <1>2, <2>1, <2>3
  <2>. QED
    BY <2>2, <2>3
<1>. QED
  BY <1>2, <1>3 DEF Increasing

LEMMA KeptStep ==
    ASSUME NEW S, NEW seq \in Seq(S), NEW set, NEW f \in KeptFrom(seq, set, Len(seq)), NEW n \in 1..Len(seq)
    PROVE  /\ f[n] \in Seq(S) /\ f[n - 1] \in Seq(S) /\ seq[n] \in S
           /\ seq[n] \in set => f[n] = Append(f[n - 1], seq[n])
           /\ seq[n] \notin set => f[n] = f[n - 1]
<1>1. f \in [0..Len(seq) -> Seq(Range(seq))] /\ f[n] = IF seq[n] \in set THEN Append(f[n - 1], seq[n]) ELSE f[n - 1]
  BY DEF KeptFrom
<1>2. Seq(Range(seq)) \subseteq Seq(S)
  <2>1. Range(seq) \subseteq S
    BY DEF Range
  <2>. QED
    BY <2>1, SeqMonotonic
<1>. QED
  BY <1>1, <1>2

\* s is what is kept of the first n elements of seq.
KeptOf(s, seq, set, n) ==
    /\ Len(s) <= n
    /\ \A x : x \in ToSet(s) <=> x \in set /\ \E i \in 1..n : seq[i] = x

LEMMA KeptFacts ==
    ASSUME NEW S, NEW seq \in Seq(S), NEW set, NEW f \in KeptFrom(seq, set, Len(seq))
    PROVE  \A m \in 0..Len(seq) : f[m] \in Seq(S) /\ KeptOf(f[m], seq, set, m)
<1> TAKE m \in 0..Len(seq)
<1> DEFINE P(n) == f[n] \in Seq(S) /\ KeptOf(f[n], seq, set, n)
           T == {n \in Nat : n <= Len(seq) => P(n)}
<1>1. P(0)
  <2>1. f[0] = <<>> /\ 1..0 = {}
    BY DEF KeptFrom
  <2>2. <<>> \in Seq(S) /\ Len(<<>>) = 0 /\ ToSet(<<>>) = {}
    BY DEF ToSet
  <2>. QED
    BY <2>1, <2>2 DEF KeptOf
<1>2. ASSUME NEW n \in Nat, n + 1 <= Len(seq), P(n)
      PROVE  P(n + 1)
  <2>1. /\ n + 1 \in 1..Len(seq) /\ (n + 1) - 1 = n
        /\ 1..n + 1 = (1..n) \cup {n + 1}
    BY <1>2
  <2>2. /\ seq[n + 1] \in S
        /\ seq[n + 1] \in set => f[n + 1] = Append(f[n], seq[n + 1])
        /\ seq[n + 1] \notin set => f[n + 1] = f[n]
    BY <2>1, KeptStep
  <2>3. \A x : (\E i \in 1..n + 1 : seq[i] = x) <=> x = seq[n + 1] \/ \E i \in 1..n : seq[i] = x
    BY <2>1
  <2>4. CASE seq[n + 1] \in set
    <3>1. /\ f[n + 1] \in Seq(S) /\ Len(f[n + 1]) = Len(f[n]) + 1
          /\ ToSet(f[n + 1]) = ToSet(f[n]) \cup {seq[n + 1]}
      <4>1. f[n] \in Seq(S) /\ f[n + 1] = Append(f[n], seq[n + 1])
        BY <1>2, <2>2, <2>4
      <4>. QED
        BY <4>1, <2>2, Appended
    <3>. QED
      BY <1>2, <2>3, <2>4, <3>1 DEF KeptOf
  <2>5. CASE seq[n + 1] \notin set
    BY <1>2, <2>2, <2>3, <2>5 DEF KeptOf
  <2>. QED
    BY <2>4, <2>5
<1>3. m \in T
  <2>. HIDE DEF P
  <2>1. T \subseteq Nat /\ 0 \in T
    BY <1>1
  <2>2. ASSUME NEW n \in T PROVE n + 1 \in T
    BY <1>2
  <2>3. T = Nat
    <3>. HIDE DEF T
    <3>. QED
      BY <2>1, <2>2, Counting
  <2>. QED
    BY <2>3
<1>4. P(m)
  <2>. HIDE DEF P
  <2>. QED
    BY <1>3
<1>. QED
  BY <1>4

LEMMA KeptIncreasing ==
    ASSUME NEW seq \in Seq(Nat), NEW set, NEW f \in KeptFrom(seq, set, Len(seq)), Increasing(seq),
           NEW m \in 0..Len(seq)
    PROVE  Increasing(f[m])
<1> DEFINE T == {n \in Nat : n <= Len(seq) => Increasing(f[n])}
<1>1. Increasing(f[0])
  BY DEF KeptFrom, Increasing
<1>2. ASSUME NEW n \in Nat, n + 1 <= Len(seq), Increasing(f[n])
      PROVE  Increasing(f[n + 1])
  <2>1. /\ n \in 0..Len(seq) /\ n + 1 \in 1..Len(seq) /\ (n + 1) - 1 = n
        /\ \A i \in 1..n : i \in DOMAIN seq /\ i < n + 1
        /\ n + 1 \in DOMAIN seq
    BY <1>2
  <2>2. /\ seq[n + 1] \in Nat
        /\ seq[n + 1] \in set => f[n + 1] = Append(f[n], seq[n + 1])
        /\ seq[n + 1] \notin set => f[n + 1] = f[n]
    BY <2>1, KeptStep
  <2>3. f[n] \in Seq(Nat) /\ KeptOf(f[n], seq, set, n)
    BY <2>1, KeptFacts
  <2>4. ASSUME NEW x \in ToSet(f[n])
        PROVE  x < seq[n + 1]
    BY <2>1, <2>3, <2>4 DEF Increasing, KeptOf
  <2>. QED
    BY <1>2, <2>2, <2>3, <2>4, AppendedIncreasing
<1>3. m \in T
  <2>1. T \subseteq Nat /\ 0 \in T
    BY <1>1
  <2>2. ASSUME NEW n \in T PROVE n + 1 \in T
    BY <1>2
  <2>3. T = Nat
    <3>. HIDE DEF T
    <3>. QED
      BY <2>1, <2>2, Counting
  <2>. QED
    BY <2>3
<1>. QED
  BY <1>3

\* Keep returns the elements of the sequence that are in the set,
LEMMA KeepProperties ==
    ASSUME NEW S, NEW seq \in Seq(S), NEW set
    PROVE  /\ Keep(seq, set) \in Seq(S)
           /\ Len(Keep(seq, set)) <= Len(seq)
           /\ ToSet(Keep(seq, set)) = ToSet(seq) \cap set
<1>1. PICK f \in KeptFrom(seq, set, Len(seq)) : Keep(seq, set) = f[Len(seq)]
  BY KeepIs
<1>2. Len(seq) \in 0..Len(seq) /\ DOMAIN seq = 1..Len(seq)
  OBVIOUS
<1>3. f[Len(seq)] \in Seq(S) /\ KeptOf(f[Len(seq)], seq, set, Len(seq))
  BY <1>2, KeptFacts
<1>4. \A x : x \in ToSet(seq) <=> \E i \in 1..Len(seq) : seq[i] = x
  BY <1>2 DEF ToSet
<1>. QED
  BY <1>1, <1>3, <1>4 DEF KeptOf

\* in the order of the sequence.
LEMMA KeepIncreasing ==
    ASSUME NEW seq \in Seq(Nat), NEW set, Increasing(seq)
    PROVE  Increasing(Keep(seq, set))
<1>1. PICK f \in KeptFrom(seq, set, Len(seq)) : Keep(seq, set) = f[Len(seq)]
  BY KeepIs
<1>2. Len(seq) \in 0..Len(seq)
  OBVIOUS
<1>. QED
  BY <1>1, <1>2, KeptIncreasing

\* The functions that satisfy the recursion of FlattenSeq.
FlatFrom(seqs, S, n) ==
    {f \in [1..n -> Seq(S)] :
        \A i \in 1..n : f[i] = IF i = 1 THEN seqs[i] ELSE f[i - 1] \o seqs[i]}

LEMMA FlatExists ==
    ASSUME NEW S, NEW seqs \in Seq(Seq(S)), seqs # <<>>
    PROVE  FlatFrom(seqs, S, Len(seqs)) # {}
<1> DEFINE T == {n \in Nat : n + 1 <= Len(seqs) => FlatFrom(seqs, S, n + 1) # {}}
<1>1. FlatFrom(seqs, S, 1) # {}
  <2>1. seqs[1] \in Seq(S)
    OBVIOUS
  <2>2. [i \in 1..1 |-> seqs[1]] \in FlatFrom(seqs, S, 1)
    BY <2>1 DEF FlatFrom
  <2>. QED
    BY <2>2
<1>2. ASSUME NEW n \in Nat, n + 2 <= Len(seqs), NEW f \in FlatFrom(seqs, S, n + 1)
      PROVE  FlatFrom(seqs, S, n + 2) # {}
  <2> DEFINE last == f[n + 1] \o seqs[n + 2]
             g == [i \in 1..n + 2 |-> IF i <= n + 1 THEN f[i] ELSE last]
  <2>1. f[n + 1] \in Seq(S) /\ seqs[n + 2] \in Seq(S)
    BY <1>2 DEF FlatFrom
  <2>2. last \in Seq(S)
    BY <2>1, ConcatProperties
  <2>3. g \in [1..n + 2 -> Seq(S)]
    BY <2>2 DEF FlatFrom
  <2>4. ASSUME NEW i \in 1..n + 2
        PROVE  g[i] = IF i = 1 THEN seqs[i] ELSE g[i - 1] \o seqs[i]
    <3>1. CASE i <= n + 1
      <4>1. g[i] = f[i] /\ i \in 1..n + 1
        BY <3>1
      <4>2. i # 1 => g[i - 1] = f[i - 1]
        BY <3>1
      <4>3. f[i] = IF i = 1 THEN seqs[i] ELSE f[i - 1] \o seqs[i]
        BY <4>1 DEF FlatFrom
      <4>. QED
        BY <4>1, <4>2, <4>3
    <3>2. CASE i = n + 2
      <4>1. i # 1 /\ i - 1 = n + 1 /\ ~(i <= n + 1) /\ i - 1 \in 1..n + 2
        BY <3>2
      <4>2. g[i] = last
        <5>. HIDE DEF last
        <5>. QED
          BY <4>1
      <4>3. g[i - 1] = f[n + 1]
        <5>. HIDE DEF last
        <5>. QED
          BY <4>1
      <4>. QED
        BY <4>1, <4>2, <4>3, <3>2
    <3>. QED
      BY <3>1, <3>2
  <2>5. g \in FlatFrom(seqs, S, n + 2)
    BY <2>3, <2>4 DEF FlatFrom
  <2>. QED
    BY <2>5
<1>3. Len(seqs) \in Nat /\ Len(seqs) # 0
  OBVIOUS
<1>4. Len(seqs) - 1 \in T
  <2>1. T \subseteq Nat /\ 0 \in T
    BY <1>1
  <2>2. ASSUME NEW n \in T PROVE n + 1 \in T
    <3>1. (n + 1) + 1 = n + 2 /\ n \in Nat
      OBVIOUS
    <3>. QED
      BY <1>2, <3>1
  <2>3. T = Nat
    <3>. HIDE DEF T
    <3>. QED
      BY <2>1, <2>2, Counting
  <2>4. Len(seqs) - 1 \in Nat
    BY <1>3
  <2>. QED
    BY <2>3, <2>4
<1>5. (Len(seqs) - 1) + 1 = Len(seqs)
  BY <1>3
<1>. QED
  BY <1>4, <1>5

\* FlattenSeq invents no element.
LEMMA FlattenType ==
    ASSUME NEW S, NEW seqs \in Seq(Seq(S))
    PROVE  FlattenSeq(seqs) \in Seq(S)
<1>1. CASE Len(seqs) = 0
  <2>1. seqs = <<>>
    BY <1>1
  <2>2. FlattenSeq(seqs) = seqs
    BY <1>1 DEF FlattenSeq
  <2>3. <<>> \in Seq(S)
    OBVIOUS
  <2>. QED
    BY <2>1, <2>2, <2>3
<1>2. CASE Len(seqs) # 0
  <2> DEFINE D(f) == [i \in 1..Len(seqs) |-> IF i = 1 THEN seqs[i] ELSE f[i - 1] \o seqs[i]]
             flatten == CHOOSE f : f = D(f)
             T == {n \in Nat : n + 1 <= Len(seqs) => flatten[n + 1] \in Seq(S)}
  <2>0. Len(seqs) \in Nat
    OBVIOUS
  <2>1. PICK f : f \in FlatFrom(seqs, S, Len(seqs))
    BY <1>2, FlatExists
  <2>2. f = D(f)
    <3>1. f = [i \in 1..Len(seqs) |-> f[i]]
      BY <2>1 DEF FlatFrom
    <3>2. [i \in 1..Len(seqs) |-> f[i]] = D(f)
      BY <2>1 DEF FlatFrom
    <3>. QED
      BY <3>1, <3>2
  <2>3. flatten = D(flatten)
    <3>. HIDE DEF D
    <3>. QED
      BY <2>2
  <2>4. FlattenSeq(seqs) = flatten[Len(seqs)]
    BY <1>2 DEF FlattenSeq
  <2>. HIDE DEF flatten
  <2>5. Len(seqs) - 1 \in T
    <3>1. T \subseteq Nat /\ 0 \in T
      <4>1. 1 <= Len(seqs) => flatten[1] = seqs[1] /\ seqs[1] \in Seq(S)
        BY <2>0, <2>3
      <4>. QED
        BY <4>1
    <3>2. ASSUME NEW n \in T PROVE n + 1 \in T
      <4>1. (n + 1) + 1 = n + 2 /\ n \in Nat
        OBVIOUS
      <4>2. SUFFICES ASSUME n + 2 <= Len(seqs) PROVE flatten[n + 2] \in Seq(S)
        BY <4>1
      <4>3. flatten[n + 1] \in Seq(S) /\ seqs[n + 2] \in Seq(S)
        BY <4>1, <4>2
      <4>4. n + 2 \in 1..Len(seqs) /\ n + 2 # 1 /\ (n + 2) - 1 = n + 1
        BY <4>1, <4>2
      <4>5. flatten[n + 2] = flatten[n + 1] \o seqs[n + 2]
        BY <2>3, <4>4
      <4>. QED
        BY <4>3, <4>5, ConcatProperties
    <3>3. T = Nat
      <4>. HIDE DEF T
      <4>. QED
        BY <3>1, <3>2, Counting
    <3>4. Len(seqs) - 1 \in Nat
      BY <2>0, <1>2
    <3>. QED
      BY <3>3, <3>4
  <2>. QED
    BY <2>0, <1>2, <2>4, <2>5
<1>. QED
  BY <1>1, <1>2

-----------------------------------------------------------------------------
(***************************************************************************)
(* Sequences and their order.                                              *)
(***************************************************************************)
LEMMA Empties ==
    /\ \A S : <<>> \in Seq(S)
    /\ Len(<<>>) = 0 /\ ToSet(<<>>) = {} /\ Increasing(<<>>)
  BY DEF ToSet, Increasing

LEMMA Elements ==
    ASSUME NEW S, NEW s \in Seq(S)
    PROVE  /\ ToSet(s) \subseteq S
           /\ Len(s) \in Nat /\ DOMAIN s = 1..Len(s)
           /\ s = <<>> <=> Len(s) = 0
           /\ \A T : ToSet(s) \subseteq T => s \in Seq(T)
<1>1. ToSet(s) \subseteq S /\ Len(s) \in Nat /\ DOMAIN s = 1..Len(s) /\ (s = <<>> <=> Len(s) = 0)
  BY DEF ToSet
<1>2. ASSUME NEW T, ToSet(s) \subseteq T
      PROVE  s \in Seq(T)
  <2>1. \A i \in 1..Len(s) : s[i] \in T
    BY <1>2 DEF ToSet
  <2>2. s = [i \in 1..Len(s) |-> s[i]]
    OBVIOUS
  <2>. QED
    BY <1>1, <2>1, <2>2, IsASeq
<1>. QED
  BY <1>1, <1>2

\* The elements of a concatenation and their order.
LEMMA Joined ==
    ASSUME NEW S, NEW s \in Seq(S), NEW t \in Seq(S)
    PROVE  /\ s \o t \in Seq(S)
           /\ ToSet(s \o t) = ToSet(s) \cup ToSet(t)
<1>1. /\ s \o t \in Seq(S) /\ Len(s \o t) = Len(s) + Len(t)
      /\ \A i \in 1..Len(s) : (s \o t)[i] = s[i]
      /\ \A i \in 1..Len(t) : (s \o t)[Len(s) + i] = t[i]
  BY ConcatProperties
<1>2. /\ ToSet(s) = {s[i] : i \in 1..Len(s)} /\ ToSet(t) = {t[i] : i \in 1..Len(t)}
      /\ ToSet(s \o t) = {(s \o t)[i] : i \in 1..Len(s) + Len(t)}
  BY <1>1 DEF ToSet
<1>3. Len(s) \in Nat /\ Len(t) \in Nat
  OBVIOUS
<1>4. ASSUME NEW i \in 1..Len(s) + Len(t)
      PROVE  (s \o t)[i] \in ToSet(s) \cup ToSet(t)
  <2>1. CASE i <= Len(s)
    BY <1>1, <1>2, <1>3, <2>1
  <2>2. CASE i > Len(s)
    <3>1. i - Len(s) \in 1..Len(t) /\ Len(s) + (i - Len(s)) = i
      BY <1>3, <2>2
    <3>. QED
      BY <1>1, <1>2, <3>1
  <2>. QED
    BY <1>3, <2>1, <2>2
<1>5. ASSUME NEW i \in 1..Len(s)
      PROVE  s[i] \in ToSet(s \o t)
  BY <1>1, <1>2, <1>3
<1>6. ASSUME NEW i \in 1..Len(t)
      PROVE  t[i] \in ToSet(s \o t)
  <2>1. Len(s) + i \in 1..Len(s) + Len(t)
    BY <1>3
  <2>. QED
    BY <1>1, <1>2, <2>1
<1>7. ToSet(s \o t) \subseteq ToSet(s) \cup ToSet(t)
  BY <1>2, <1>4
<1>8. ToSet(s) \subseteq ToSet(s \o t) /\ ToSet(t) \subseteq ToSet(s \o t)
  BY <1>2, <1>5, <1>6
<1>. QED
  BY <1>1, <1>7, <1>8

LEMMA JoinedIncreasing ==
    ASSUME NEW s \in Seq(Nat), NEW t \in Seq(Nat)
    PROVE  Increasing(s \o t) <=> /\ Increasing(s) /\ Increasing(t)
                                  /\ \A x \in ToSet(s), y \in ToSet(t) : x < y
<1>1. /\ DOMAIN (s \o t) = 1..Len(s) + Len(t) /\ DOMAIN s = 1..Len(s) /\ DOMAIN t = 1..Len(t)
      /\ \A i \in 1..Len(s) : (s \o t)[i] = s[i]
      /\ \A i \in 1..Len(t) : (s \o t)[Len(s) + i] = t[i]
      /\ Len(s) \in Nat /\ Len(t) \in Nat
  BY ConcatProperties
<1>2. \A i \in 1..Len(t) : Len(s) + i \in DOMAIN (s \o t)
  BY <1>1
<1>3. \A i \in 1..Len(s) : i \in DOMAIN (s \o t)
  BY <1>1
<1>4. ASSUME Increasing(s \o t)
      PROVE  /\ Increasing(s) /\ Increasing(t)
             /\ \A x \in ToSet(s), y \in ToSet(t) : x < y
  <2>1. Increasing(s)
    BY <1>1, <1>3, <1>4 DEF Increasing
  <2>2. Increasing(t)
    <3>1. ASSUME NEW i \in 1..Len(t), NEW j \in 1..Len(t), i < j
          PROVE  t[i] < t[j]
      <4>1. Len(s) + i < Len(s) + j
        BY <1>1, <3>1
      <4>2. (s \o t)[Len(s) + i] < (s \o t)[Len(s) + j]
        BY <1>2, <1>4, <4>1 DEF Increasing
      <4>. QED
        BY <1>1, <4>2
    <3>. QED
      BY <1>1, <3>1 DEF Increasing
  <2>3. ASSUME NEW i \in 1..Len(s), NEW j \in 1..Len(t)
        PROVE  s[i] < t[j]
    <3>1. i < Len(s) + j
      BY <1>1
    <3>2. (s \o t)[i] < (s \o t)[Len(s) + j]
      BY <1>2, <1>3, <1>4, <3>1 DEF Increasing
    <3>. QED
      BY <1>1, <3>2
  <2>. QED
    BY <1>1, <2>1, <2>2, <2>3 DEF ToSet
<1>5. ASSUME Increasing(s), Increasing(t), \A x \in ToSet(s), y \in ToSet(t) : x < y
      PROVE  Increasing(s \o t)
  <2>1. ASSUME NEW i \in 1..Len(s) + Len(t), NEW j \in 1..Len(s) + Len(t), i < j
        PROVE  (s \o t)[i] < (s \o t)[j]
    <3>1. \A k \in 1..Len(s) + Len(t) :
              \/ k \in 1..Len(s) /\ (s \o t)[k] = s[k]
              \/ /\ k > Len(s) /\ k - Len(s) \in 1..Len(t)
                 /\ (s \o t)[k] = t[k - Len(s)]
      <4> TAKE k \in 1..Len(s) + Len(t)
      <4>1. CASE k <= Len(s)
        BY <1>1, <4>1
      <4>2. CASE k > Len(s)
        <5>1. k - Len(s) \in 1..Len(t) /\ Len(s) + (k - Len(s)) = k
          BY <1>1, <4>2
        <5>. QED
          BY <1>1, <4>2, <5>1
      <4>. QED
        BY <1>1, <4>1, <4>2
    <3>2. CASE j \in 1..Len(s)
      <4>1. i \in 1..Len(s)
        BY <2>1, <3>2
      <4>. QED
        BY <1>1, <1>5, <2>1, <3>2, <4>1 DEF Increasing
    <3>3. CASE i \in 1..Len(s) /\ j \notin 1..Len(s)
      <4>1. j - Len(s) \in 1..Len(t) /\ (s \o t)[j] = t[j - Len(s)]
        BY <3>1, <3>3
      <4>2. s[i] \in ToSet(s) /\ t[j - Len(s)] \in ToSet(t)
        BY <1>1, <3>3, <4>1 DEF ToSet
      <4>. QED
        BY <1>1, <1>5, <3>3, <4>1, <4>2
    <3>4. CASE i \notin 1..Len(s) /\ j \notin 1..Len(s)
      <4>1. /\ j - Len(s) \in 1..Len(t) /\ (s \o t)[j] = t[j - Len(s)]
            /\ i - Len(s) \in 1..Len(t) /\ (s \o t)[i] = t[i - Len(s)]
        BY <3>1, <3>4
      <4>2. i - Len(s) < j - Len(s)
        BY <1>1, <2>1
      <4>. QED
        BY <1>1, <1>5, <4>1, <4>2 DEF Increasing
    <3>. QED
      BY <3>2, <3>3, <3>4
  <2>. QED
    BY <1>1, <2>1 DEF Increasing
<1>. QED
  BY <1>4, <1>5

LEMMA Tailed ==
    ASSUME NEW S, NEW s \in Seq(S), s # <<>>
    PROVE  /\ Tail(s) \in Seq(S) /\ Head(s) \in S
           /\ Len(Tail(s)) = Len(s) - 1
           /\ ToSet(Tail(s)) \subseteq ToSet(s)
           /\ \A i \in 1..Len(s) - 1 : Tail(s)[i] = s[i + 1]
<1>1. /\ Tail(s) \in Seq(S) /\ Head(s) \in S /\ Len(Tail(s)) = Len(s) - 1
      /\ \A i \in 1..Len(s) - 1 : Tail(s)[i] = s[i + 1]
  BY HeadTailProperties
<1>2. \A i \in 1..Len(s) - 1 : i + 1 \in DOMAIN s
  OBVIOUS
<1>. QED
  BY <1>1, <1>2 DEF ToSet

LEMMA TailedIncreasing ==
    ASSUME NEW s \in Seq(Nat), s # <<>>, Increasing(s)
    PROVE  Increasing(Tail(s))
<1>1. /\ DOMAIN Tail(s) = 1..Len(s) - 1 /\ \A i \in 1..Len(s) - 1 : Tail(s)[i] = s[i + 1]
  BY Tailed
<1>2. \A i \in 1..Len(s) - 1 : i + 1 \in DOMAIN s
  OBVIOUS
<1>3. ASSUME NEW i \in 1..Len(s) - 1, NEW j \in 1..Len(s) - 1, i < j
      PROVE  Tail(s)[i] < Tail(s)[j]
  <2>1. i + 1 < j + 1
    BY <1>3
  <2>. QED
    BY <1>1, <1>2, <2>1 DEF Increasing
<1>. QED
  BY <1>1, <1>3 DEF Increasing

\* Reading an event moves it, the stream of the reader is the same.
LEMMA HeadMoves ==
    ASSUME NEW S, NEW s \in Seq(S), NEW q \in Seq(S), q # <<>>
    PROVE  Append(s, Head(q)) \o Tail(q) = s \o q
<1>1. Head(q) \in S /\ Tail(q) \in Seq(S) /\ q = <<Head(q)>> \o Tail(q)
  BY HeadTailProperties
<1>2. Append(s, Head(q)) = s \o <<Head(q)>> /\ <<Head(q)>> \in Seq(S)
  BY <1>1, AppendIsConcat
<1>. QED
  BY <1>1, <1>2, ConcatAssociative

-----------------------------------------------------------------------------
(***************************************************************************)
(* What a subscription begins with.                                        *)
(***************************************************************************)
\* What a client resumes with: all that is later than what it has read, and, if the
\* history is in order, nothing else.
LEMMA AfterProperties ==
    ASSUME NEW S, S \subseteq DOMAIN log, DOMAIN log \subseteq Nat, NEW history \in Seq(S), NEW last \in Nat
    PROVE  /\ After(history, last) \in Seq(S)
           /\ Len(After(history, last)) <= Len(history)
           /\ {i \in ToSet(history) : i > last} \subseteq ToSet(After(history, last))
           /\ Increasing(history) => /\ Increasing(After(history, last))
                                     /\ \A i \in ToSet(After(history, last)) : i > last
<1> DEFINE later == {i \in DOMAIN log : i > last}
<1>1. history \in Seq(Nat) /\ ToSet(history) \subseteq S
  BY Elements
<1>2. CASE history # <<>> /\ history[1] > last + 1
  <2>1. After(history, last) = history
    BY <1>2 DEF After
  <2>2. ASSUME Increasing(history), NEW j \in DOMAIN history
        PROVE  history[j] > last
    <3>1. 1 \in DOMAIN history /\ history[1] \in Nat /\ history[j] \in Nat /\ (j = 1 \/ 1 < j)
      BY <1>1, <1>2
    <3>2. history[1] <= history[j]
      BY <2>2, <3>1 DEF Increasing
    <3>. QED
      BY <1>2, <3>1, <3>2
  <2>3. Increasing(history) => \A i \in ToSet(history) : i > last
    BY <2>2 DEF ToSet
  <2>4. Len(history) <= Len(history)
    BY <1>1
  <2>. QED
    BY <2>1, <2>3, <2>4
<1>3. CASE ~ (history # <<>> /\ history[1] > last + 1)
  <2>1. After(history, last) = Keep(history, later)
    BY <1>3 DEF After
  <2>2. /\ Keep(history, later) \in Seq(S) /\ Len(Keep(history, later)) <= Len(history)
        /\ ToSet(Keep(history, later)) = ToSet(history) \cap later
    BY KeepProperties
  <2>3. Increasing(history) => Increasing(Keep(history, later))
    BY <1>1, KeepIncreasing
  <2>. QED
    BY <1>1, <2>1, <2>2, <2>3
<1>. QED
  BY <1>2, <1>3

\* What fits into the queue.
LEMMA FillProperties ==
    ASSUME NEW S, NEW history \in Seq(S)
    PROVE  /\ Fill(history) \in Seq(S)
           /\ Len(Fill(history)) <= max_queue_size
           /\ ToSet(Fill(history)) \subseteq ToSet(history)
           /\ Len(history) <= max_queue_size => Fill(history) = history
           /\ S \subseteq Nat /\ Increasing(history) => Increasing(Fill(history))
<1> DEFINE n == IF Len(history) < max_queue_size THEN Len(history) ELSE max_queue_size
<1>1. Len(history) \in Nat /\ max_queue_size \in Nat
  BY BusAssumption
<1>2. n \in Nat /\ n <= Len(history) /\ n <= max_queue_size /\ (Len(history) <= max_queue_size => n = Len(history))
  BY <1>1
<1>. HIDE DEF n
<1>3. Fill(history) = SubSeq(history, 1, n)
  BY DEF Fill, n
<1>4. /\ Fill(history) \in Seq(S) /\ Len(Fill(history)) = n
      /\ \A i \in 1..n : Fill(history)[i] = history[i] /\ i \in DOMAIN history
      /\ DOMAIN Fill(history) = 1..n
  BY <1>1, <1>2, <1>3
<1>5. ToSet(Fill(history)) \subseteq ToSet(history)
  BY <1>4 DEF ToSet
<1>6. Len(history) <= max_queue_size => Fill(history) = history
  BY <1>2, <1>3
<1>7. ASSUME S \subseteq Nat, Increasing(history)
      PROVE  Increasing(Fill(history))
  BY <1>4, <1>7 DEF Increasing
<1>. QED
  BY <1>2, <1>4, <1>5, <1>6, <1>7

\* The queue a subscription begins with.
LEMMA ReplayedProperties ==
    ASSUME NEW c \in Client, NEW S, S \subseteq DOMAIN log, DOMAIN log \subseteq Nat, NEW history \in Seq(S)
    PROVE  LET q == Fill(NotExcluded(c, history))
               wanted == {i \in S : ~Excluded(c, log[i])}
           IN /\ q \in Seq(wanted)
              /\ Len(q) <= max_queue_size
              /\ ToSet(q) \subseteq ToSet(history)
              /\ Len(history) <= max_queue_size => {i \in ToSet(history) : ~Excluded(c, log[i])} \subseteq ToSet(q)
              /\ Increasing(history) => Increasing(q)
<1> DEFINE kept == {i \in DOMAIN log : ~Excluded(c, log[i])}
           q == Fill(NotExcluded(c, history))
           wanted == {i \in S : ~Excluded(c, log[i])}
           some == Keep(history, kept)
<1>1. NotExcluded(c, history) = some
  BY DEF NotExcluded
<1>2. history \in Seq(Nat) /\ ToSet(history) \subseteq S /\ Len(history) \in Nat
  BY Elements
<1>3. some \in Seq(S) /\ Len(some) <= Len(history) /\ ToSet(some) = ToSet(history) \cap kept
  BY KeepProperties
<1>4. Increasing(history) => Increasing(some)
  BY <1>2, KeepIncreasing
<1>5. /\ q \in Seq(S) /\ Len(q) <= max_queue_size /\ ToSet(q) \subseteq ToSet(some)
      /\ Len(some) <= max_queue_size => q = some
      /\ Increasing(some) => Increasing(q)
  BY <1>1, <1>3, FillProperties
<1>6. ToSet(q) \subseteq wanted
  BY <1>2, <1>3, <1>5
<1>7. q \in Seq(wanted)
  BY <1>5, <1>6, Elements
<1>8. Len(some) \in Nat /\ max_queue_size \in Nat
  BY <1>3, BusAssumption
<1>9. Len(history) <= max_queue_size => {i \in ToSet(history) : ~Excluded(c, log[i])} \subseteq ToSet(q)
  BY <1>2, <1>3, <1>5, <1>8
<1>10. ToSet(q) \subseteq ToSet(history) /\ (Increasing(history) => Increasing(q))
  BY <1>3, <1>4, <1>5
<1>. QED
  BY <1>5, <1>7, <1>9, <1>10

-----------------------------------------------------------------------------
(***************************************************************************)
(* The inductive invariant.                                                *)
(***************************************************************************)
\* What a replay buffer holds: events of its session, in their order.
Histories ==
    \A s \in Session :
        /\ Increasing(replay[s])
        /\ \A i \in ToSet(replay[s]) : log[i].sid = s

BusInv == TypeOK /\ Histories /\ StreamsInOrder /\ SubscribedGetsEvents

\* The ids of the events in the scope of client c.
InScope(c) == {i \in DOMAIN log : ShouldReceive(log[i].sid, profile[c].sid, profile[c].scope)}

LEMMA LogTypes ==
    ASSUME TypeOK
    PROVE  /\ Len(log) \in Nat /\ DOMAIN log = 1..Len(log) /\ DOMAIN log \subseteq Nat
           /\ \A i \in DOMAIN log : log[i] \in Inputs /\ log[i].sid \in Session
           /\ \A c \in Client : profile[c] \in Profiles /\ profile[c].sid \in Session
<1>1. log \in Seq(Inputs) /\ profile \in [Client -> Profiles] /\ Inputs \subseteq Source /\ Profiles \subseteq Profile
  BY BusAssumption DEF TypeOK
<1>2. Len(log) \in Nat /\ DOMAIN log = 1..Len(log) /\ \A i \in DOMAIN log : log[i] \in Inputs
  BY <1>1
<1>. QED
  BY <1>1, <1>2 DEF Source, Profile

\* The history a client may get is of its scope and, but for scope="all", in order.
LEMMA CollectedProperties ==
    ASSUME TypeOK, Histories, NEW c \in Client
    PROVE  /\ Collected(c) \in Seq(InScope(c))
           /\ profile[c].scope # "all" =>
                 /\ Collected(c) = replay[profile[c].sid] /\ Increasing(Collected(c))
                 /\ Len(Collected(c)) <= replay_buffer_size
<1>1. \A s \in Session : /\ replay[s] \in Seq(DOMAIN log) /\ ToSet(replay[s]) \subseteq DOMAIN log
                         /\ Len(replay[s]) <= replay_buffer_size
  <2> TAKE s \in Session
  <2>1. replay[s] \in Seq(DOMAIN log) /\ Len(replay[s]) <= replay_buffer_size
    BY LogTypes DEF TypeOK
  <2>. QED
    BY <2>1, Elements
<1>2. CASE profile[c].scope = "all"
  <2> DEFINE parts == [i \in DOMAIN buffers |-> replay[buffers[i]]]
  <2>1. Collected(c) = FlattenSeq(parts)
    BY <1>2 DEF Collected
  <2>2. InScope(c) = DOMAIN log
    BY <1>2 DEF InScope, ShouldReceive
  <2>3. parts \in Seq(Seq(DOMAIN log))
    <3>1. buffers \in Seq(Session)
      BY DEF TypeOK
    <3>2. DOMAIN buffers = 1..Len(buffers) /\ Len(buffers) \in Nat
      BY <3>1
    <3>3. \A i \in 1..Len(buffers) : replay[buffers[i]] \in Seq(DOMAIN log)
      BY <1>1, <3>1
    <3>. QED
      BY <3>2, <3>3, IsASeq
  <2>. QED
    BY <1>2, <2>1, <2>2, <2>3, FlattenType
<1>3. CASE profile[c].scope # "all"
  <2>1. Collected(c) = replay[profile[c].sid] /\ profile[c].sid \in Session
    BY <1>3, LogTypes DEF Collected
  <2>2. ToSet(Collected(c)) \subseteq InScope(c)
    BY <1>1, <2>1 DEF Histories, InScope, ShouldReceive
  <2>3. Collected(c) \in Seq(InScope(c))
    BY <1>1, <2>1, <2>2, Elements
  <2>. QED
    BY <1>1, <2>1, <2>3 DEF Histories
<1>. QED
  BY <1>2, <1>3

\* The facts of the invariant about one client.
Served(c) ==
    /\ queue[c] \in Seq(DOMAIN log) /\ received[c] \in Seq(DOMAIN log)
    /\ Len(queue[c]) <= max_queue_size /\ since[c] \in 0..Len(log)
    /\ profile[c].scope # "all" => Increasing(Stream(c))
    /\ \A i \in ToSet(Stream(c)) : Asked(c, i)
    /\ c \in subscribers \ shut =>
          /\ policy = "drop_subscriber" => Live(c) \subseteq ToSet(Stream(c))
          /\ policy = "drop_oldest" =>
                \A i \in Live(c) : i \in ToSet(Stream(c)) \/ \E j \in ToSet(Stream(c)) : j > i

\* What the clients share.
SharedOK ==
    /\ policy \in Policy /\ profile \in [Client -> Profiles]
    /\ log \in Seq(Inputs) /\ Len(log) <= MaxEvents
    /\ replay \in [Session -> Seq(DOMAIN log)]
    /\ \A s \in Session : /\ Len(replay[s]) <= replay_buffer_size /\ Increasing(replay[s])
                          /\ \A i \in ToSet(replay[s]) : log[i].sid = s
    /\ buffers \in Seq(Session) /\ ToSet(buffers) = {s \in Session : replay[s] # <<>>}
    /\ subscribers \subseteq Client /\ shut \subseteq Client /\ reading \subseteq Client

\* The invariant, client by client.
LEMMA BusParts ==
    BusInv <=> /\ SharedOK
               /\ queue = [c \in Client |-> queue[c]] /\ received = [c \in Client |-> received[c]]
               /\ since = [c \in Client |-> since[c]]
               /\ \A c \in Client : Served(c)
<1>1. ASSUME BusInv
      PROVE  /\ SharedOK
             /\ queue = [c \in Client |-> queue[c]] /\ received = [c \in Client |-> received[c]]
             /\ since = [c \in Client |-> since[c]]
             /\ \A c \in Client : Served(c)
  <2>1. TypeOK /\ DOMAIN log = 1..Len(log)
    BY <1>1, LogTypes DEF BusInv
  <2>2. SharedOK
    BY <1>1, <2>1 DEF BusInv, TypeOK, SharedOK, Histories
  <2>3. /\ queue = [c \in Client |-> queue[c]] /\ received = [c \in Client |-> received[c]]
        /\ since = [c \in Client |-> since[c]]
    BY <2>1 DEF TypeOK
  <2>4. ASSUME NEW c \in Client
        PROVE  Served(c)
    BY <1>1, <2>1 DEF BusInv, TypeOK, StreamsInOrder, SubscribedGetsEvents, Served
  <2>. QED
    BY <2>2, <2>3, <2>4
<1>2. ASSUME SharedOK,
             queue = [c \in Client |-> queue[c]], received = [c \in Client |-> received[c]],
             since = [c \in Client |-> since[c]],
             \A c \in Client : Served(c)
      PROVE  BusInv
  <2>1. DOMAIN log = 1..Len(log)
    BY <1>2 DEF SharedOK
  <2>2. /\ queue \in [Client -> Seq(1..Len(log))] /\ received \in [Client -> Seq(1..Len(log))]
        /\ since \in [Client -> 0..Len(log)]
    BY <1>2, <2>1 DEF Served
  <2>3. TypeOK /\ Histories
    BY <1>2, <2>1, <2>2 DEF SharedOK, Served, TypeOK, Histories
  <2>4. StreamsInOrder
    BY <1>2 DEF Served, StreamsInOrder
  <2>5. SubscribedGetsEvents
    BY <1>2 DEF SharedOK, Served, SubscribedGetsEvents
  <2>. QED
    BY <2>3, <2>4, <2>5 DEF BusInv
<1>. QED
  BY <1>1, <1>2

LEMMA BusPartsNext ==
    (/\ SharedOK
     /\ queue = [c \in Client |-> queue[c]] /\ received = [c \in Client |-> received[c]]
     /\ since = [c \in Client |-> since[c]]
     /\ \A c \in Client : Served(c))' => BusInv'
  BY BusParts, PTL

LEMMA BusInit == Init => BusInv
<1> SUFFICES ASSUME Init PROVE BusInv
  OBVIOUS
<1>1. /\ policy \in Policy /\ profile \in [Client -> Profiles] /\ log = <<>> /\ buffers = <<>>
      /\ replay = [s \in Session |-> <<>>] /\ subscribers = {} /\ shut = {} /\ reading = {}
      /\ queue = [c \in Client |-> <<>>] /\ received = [c \in Client |-> <<>>] /\ since = [c \in Client |-> 0]
  BY DEF Init
<1>2. max_queue_size \in Nat \ {0} /\ replay_buffer_size \in Nat \ {0} /\ MaxEvents \in Nat
  BY BusAssumption
<1>3. SharedOK
  <2>1. \A s \in Session : replay[s] = <<>>
    BY <1>1
  <2>2. Len(log) = 0 /\ <<>> \in Seq(DOMAIN log) /\ <<>> \in Seq(Inputs) /\ <<>> \in Seq(Session)
    BY <1>1
  <2>3. \A s \in Session : /\ Len(replay[s]) <= replay_buffer_size /\ Increasing(replay[s])
                          /\ \A i \in ToSet(replay[s]) : log[i].sid = s
    BY <2>1, <1>2, Empties
  <2>4. ToSet(buffers) = {s \in Session : replay[s] # <<>>}
    BY <2>1, <1>1, Empties
  <2>. QED
    BY <1>1, <1>2, <2>1, <2>2, <2>3, <2>4 DEF SharedOK
<1>4. ASSUME NEW c \in Client
      PROVE  Served(c)
  <2>1. queue[c] = <<>> /\ received[c] = <<>> /\ since[c] = 0 /\ Stream(c) = <<>>
    BY <1>1 DEF Stream
  <2>. QED
    BY <1>1, <1>2, <2>1, Empties DEF Served
<1>. QED
  BY <1>1, <1>3, <1>4, BusParts

\* A client of which nothing changes, while the log stands still.
LEMMA ServedAsBefore ==
    ASSUME NEW c \in Client, Served(c),
           UNCHANGED <<policy, profile, log>>,
           queue'[c] = queue[c], received'[c] = received[c], since'[c] = since[c],
           c \in (subscribers \ shut)' => c \in subscribers \ shut
    PROVE  Served(c)'
<1>1. Stream(c)' = Stream(c) /\ Live(c)' = Live(c) /\ \A i : Asked(c, i)' = Asked(c, i)
  BY DEF Stream, Live, Asked, Excluded
<1>. QED
  BY <1>1 DEF Served

LEMMA SharedAsBefore ==
    ASSUME SharedOK, UNCHANGED <<policy, profile, log, replay, buffers>>,
           subscribers' \subseteq Client, shut' \subseteq Client, reading' \subseteq Client
    PROVE  SharedOK'
  BY DEF SharedOK

\* A subscription, whose stream is what the client had got and then what is replayed.
LEMMA ConnectStep ==
    ASSUME BusInv, NEW c \in Client, NEW history \in Seq(InScope(c)), NEW got \in Seq(DOMAIN log),
           Connect(c, history, got),
           \A i \in ToSet(got) : Asked(c, i),
           profile[c].scope # "all" =>
               Increasing(history) /\ Increasing(got) /\ \A i \in ToSet(got), j \in ToSet(history) : i < j
    PROVE  BusInv'
<1> DEFINE q == Fill(NotExcluded(c, history))
<1>1. /\ SharedOK
      /\ queue = [d \in Client |-> queue[d]] /\ received = [d \in Client |-> received[d]]
      /\ since = [d \in Client |-> since[d]]
      /\ \A d \in Client : Served(d)
  BY BusParts
<1>2. TypeOK /\ Len(log) \in Nat /\ DOMAIN log = 1..Len(log) /\ DOMAIN log \subseteq Nat
  BY LogTypes DEF BusInv
<1>3. /\ subscribers' = subscribers \cup {c} /\ shut' = shut \ {c} /\ reading' = reading \cup {c}
      /\ queue' = [queue EXCEPT ![c] = q]
      /\ received' = [received EXCEPT ![c] = got]
      /\ since' = [since EXCEPT ![c] = Len(log)]
      /\ UNCHANGED <<policy, profile, log, replay, buffers>>
  BY DEF Connect
<1>4. InScope(c) \subseteq DOMAIN log
  BY DEF InScope
<1>5. /\ q \in Seq({i \in InScope(c) : ~Excluded(c, log[i])})
      /\ Len(q) <= max_queue_size /\ ToSet(q) \subseteq ToSet(history)
      /\ Increasing(history) => Increasing(q)
  BY <1>2, <1>4, ReplayedProperties
<1>. HIDE DEF q
<1>6. ToSet(q) \subseteq {i \in InScope(c) : ~Excluded(c, log[i])}
  BY <1>5, Elements
<1>7. q \in Seq(DOMAIN log) /\ q \in Seq(Nat) /\ got \in Seq(Nat)
  BY <1>2, <1>4, <1>5, <1>6, Elements
<1>8. SharedOK'
  BY <1>1, <1>3, SharedAsBefore DEF SharedOK
<1>9. Served(c)'
  <2>1. queue'[c] = q /\ received'[c] = got /\ since'[c] = Len(log)
    BY <1>1, <1>3
  <2>2. Stream(c)' = got \o q
    BY <2>1 DEF Stream
  <2>3. ToSet(got \o q) = ToSet(got) \cup ToSet(q)
    BY <1>7, Joined
  <2>4. \A i : Asked(c, i)' = Asked(c, i)
    BY <1>3 DEF Asked, Excluded
  <2>5. \A i \in ToSet(q) : Asked(c, i)
    BY <1>6 DEF Asked, InScope
  <2>6. (profile[c].scope # "all")' => Increasing(got \o q)
    BY <1>3, <1>5, <1>7, JoinedIncreasing
  <2>7. Live(c)' = {}
    BY <1>2, <1>3, <2>1 DEF Live
  <2>8. (queue[c] \in Seq(DOMAIN log) /\ received[c] \in Seq(DOMAIN log) /\ since[c] \in 0..Len(log) /\ Len(queue[c]) <= max_queue_size)'
    BY <1>2, <1>3, <1>5, <1>7, <2>1
  <2>. QED
    BY <2>2, <2>3, <2>4, <2>5, <2>6, <2>7, <2>8 DEF Served
<1>10. ASSUME NEW d \in Client, d # c
       PROVE  Served(d)'
  BY <1>1, <1>3, <1>10, ServedAsBefore
<1>11. /\ queue' = [d \in Client |-> queue'[d]] /\ received' = [d \in Client |-> received'[d]]
       /\ since' = [d \in Client |-> since'[d]]
  BY <1>1, <1>3
<1>12. \A d \in Client : Served(d)'
  BY <1>9, <1>10
<1>. QED
  BY <1>8, <1>11, <1>12, BusPartsNext

-----------------------------------------------------------------------------
(***************************************************************************)
(* The steps.                                                              *)
(***************************************************************************)
LEMMA SubscribeStep ==
    ASSUME BusInv, NEW c \in Client, Subscribe(c)
    PROVE  BusInv'
<1>1. PICK history \in {<<>>, Collected(c)} : Connect(c, history, <<>>)
  BY DEF Subscribe
<1>2. /\ Collected(c) \in Seq(InScope(c))
      /\ profile[c].scope # "all" => Increasing(Collected(c))
  BY CollectedProperties DEF BusInv
<1>3. history \in Seq(InScope(c)) /\ (profile[c].scope # "all" => Increasing(history))
  BY <1>2, Empties
<1>4. <<>> \in Seq(DOMAIN log) /\ ToSet(<<>>) = {} /\ Increasing(<<>>)
  BY Empties
<1>. QED
  BY <1>1, <1>3, <1>4, ConnectStep

LEMMA LastOfIncreasing ==
    ASSUME NEW s \in Seq(Nat), s # <<>>
    PROVE  /\ Last(s) \in ToSet(s) /\ Last(s) \in Nat
           /\ Increasing(s) => \A i \in ToSet(s) : i <= Last(s)
<1>1. Last(s) = s[Len(s)] /\ Len(s) \in DOMAIN s /\ \A i \in DOMAIN s : i < Len(s) \/ i = Len(s)
  BY DEF Last
<1>2. \A i \in DOMAIN s : s[i] \in Nat
  OBVIOUS
<1>3. ASSUME Increasing(s), NEW i \in DOMAIN s
      PROVE  s[i] <= s[Len(s)]
  <2>1. CASE i < Len(s)
    BY <1>1, <1>2, <1>3, <2>1 DEF Increasing
  <2>2. CASE i = Len(s)
    BY <1>1, <1>2, <2>2
  <2>. QED
    BY <1>1, <2>1, <2>2
<1>. QED
  BY <1>1, <1>2, <1>3 DEF ToSet

\* The stream of a client is what it has got and what is queued for it.
LEMMA StreamParts ==
    ASSUME BusInv, NEW c \in Client
    PROVE  /\ queue[c] \in Seq(DOMAIN log) /\ received[c] \in Seq(DOMAIN log) /\ Served(c)
           /\ queue[c] \in Seq(Nat) /\ received[c] \in Seq(Nat)
           /\ Stream(c) \in Seq(DOMAIN log) /\ ToSet(Stream(c)) = ToSet(received[c]) \cup ToSet(queue[c])
           /\ profile[c].scope # "all" =>
                 /\ Increasing(received[c]) /\ Increasing(queue[c])
                 /\ \A i \in ToSet(received[c]), j \in ToSet(queue[c]) : i < j
<1>1. Served(c) /\ DOMAIN log \subseteq Nat
  BY BusParts, LogTypes DEF BusInv
<1>2. queue[c] \in Seq(DOMAIN log) /\ received[c] \in Seq(DOMAIN log)
  BY <1>1 DEF Served
<1>3. queue[c] \in Seq(Nat) /\ received[c] \in Seq(Nat)
  BY <1>1, <1>2, SeqMonotonic
<1>4. Stream(c) \in Seq(DOMAIN log) /\ ToSet(Stream(c)) = ToSet(received[c]) \cup ToSet(queue[c])
  BY <1>2, Joined DEF Stream
<1>. QED
  BY <1>1, <1>2, <1>3, <1>4, JoinedIncreasing DEF Served, Stream

LEMMA ResumeStep ==
    ASSUME BusInv, NEW c \in Client, Resume(c)
    PROVE  BusInv'
<1> DEFINE history == After(Collected(c), Last(received[c]))
<1>1. received[c] # <<>> /\ Connect(c, history, received[c])
  BY DEF Resume
<1>2. /\ Collected(c) \in Seq(InScope(c))
      /\ profile[c].scope # "all" => Increasing(Collected(c))
  BY CollectedProperties DEF BusInv
<1>3. /\ received[c] \in Seq(DOMAIN log) /\ received[c] \in Seq(Nat)
      /\ \A i \in ToSet(received[c]) : Asked(c, i)
      /\ profile[c].scope # "all" => Increasing(received[c])
  BY StreamParts DEF Served
<1>4. InScope(c) \subseteq DOMAIN log /\ DOMAIN log \subseteq Nat
  BY LogTypes DEF InScope, BusInv
<1>5. /\ Last(received[c]) \in Nat
      /\ profile[c].scope # "all" => \A i \in ToSet(received[c]) : i <= Last(received[c])
  BY <1>1, <1>3, LastOfIncreasing
<1>6. /\ history \in Seq(InScope(c))
      /\ profile[c].scope # "all" => Increasing(history) /\ \A j \in ToSet(history) : j > Last(received[c])
  BY <1>2, <1>4, <1>5, AfterProperties
<1>. HIDE DEF history
<1>7. ToSet(history) \subseteq Nat /\ ToSet(received[c]) \subseteq Nat
  BY <1>3, <1>4, <1>6, Elements
<1>8. profile[c].scope # "all" => \A i \in ToSet(received[c]), j \in ToSet(history) : i < j
  BY <1>5, <1>6, <1>7
<1>. QED
  BY <1>1, <1>3, <1>6, <1>8, ConnectStep

\* The queues, the streams and the log stand still.
LEMMA QuietStep ==
    ASSUME BusInv, UNCHANGED <<policy, profile, log, queue, received, since>>,
           subscribers' \subseteq subscribers, shut \subseteq shut', shut' \subseteq Client, reading' \subseteq Client,
           \/ UNCHANGED <<replay, buffers>>
           \/ \E s \in Session : Forget(s)
    PROVE  BusInv'
<1>1. /\ SharedOK
      /\ queue = [d \in Client |-> queue[d]] /\ received = [d \in Client |-> received[d]]
      /\ since = [d \in Client |-> since[d]]
      /\ \A d \in Client : Served(d)
  BY BusParts
<1>2. ASSUME NEW d \in Client
      PROVE  Served(d)'
  BY <1>1, ServedAsBefore
<1>3. SharedOK'
  <2>1. CASE UNCHANGED <<replay, buffers>>
    BY <1>1, <2>1, SharedAsBefore DEF SharedOK
  <2>2. ASSUME NEW s \in Session, Forget(s)
        PROVE  SharedOK'
    <3>1. /\ replay' = [replay EXCEPT ![s] = <<>>] /\ buffers' = Keep(buffers, Session \ {s})
          /\ replay \in [Session -> Seq(DOMAIN log)] /\ buffers \in Seq(Session)
          /\ ToSet(buffers) = {t \in Session : replay[t] # <<>>}
      BY <1>1, <2>2 DEF Forget, SharedOK
    <3>2. buffers' \in Seq(Session) /\ ToSet(buffers') = ToSet(buffers) \cap (Session \ {s})
      BY <3>1, KeepProperties
    <3>3. /\ replay'[s] = <<>> /\ \A t \in Session : t # s => replay'[t] = replay[t]
          /\ replay' \in [Session -> Seq(DOMAIN log)]
      BY <3>1
    <3>4. ToSet(buffers') = {t \in Session : replay'[t] # <<>>}
      BY <3>1, <3>2, <3>3
    <3>5. replay_buffer_size \in Nat
      BY BusAssumption
    <3>6. \A t \in Session : /\ Len(replay'[t]) <= replay_buffer_size /\ Increasing(replay'[t])
                             /\ \A i \in ToSet(replay'[t]) : log[i].sid = t
      <4> TAKE t \in Session
      <4>1. CASE t = s
        BY <3>3, <3>5, <4>1, Empties
      <4>2. CASE t # s
        BY <1>1, <3>3, <4>2 DEF SharedOK
      <4>. QED
        BY <4>1, <4>2
    <3>7. UNCHANGED <<policy, profile, log>> /\ subscribers' \subseteq Client
      BY <1>1 DEF SharedOK
    <3>8. (ToSet(buffers) = {t \in Session : replay[t] # <<>>})'
      BY <3>4
    <3>9. (\A t \in Session : /\ Len(replay[t]) <= replay_buffer_size /\ Increasing(replay[t])
                             /\ \A i \in ToSet(replay[t]) : log[i].sid = t)'
      BY <3>6, <3>7
    <3>. QED
      BY <1>1, <3>2, <3>3, <3>7, <3>8, <3>9 DEF SharedOK
  <2>. QED
    BY <2>1, <2>2
<1>4. /\ queue' = [d \in Client |-> queue'[d]] /\ received' = [d \in Client |-> received'[d]]
      /\ since' = [d \in Client |-> since'[d]]
  BY <1>1
<1>. QED
  BY <1>2, <1>3, <1>4, BusPartsNext

LEMMA UnsubscribeStep ==
    ASSUME BusInv, NEW c \in Client, Unsubscribe(c)
    PROVE  BusInv'
  BY QuietStep DEF BusInv, TypeOK, Unsubscribe

LEMMA EndOfStreamStep ==
    ASSUME BusInv, NEW c \in Client, EndOfStream(c)
    PROVE  BusInv'
  BY QuietStep DEF BusInv, TypeOK, EndOfStream, busVars

LEMMA ClearReplayBufferStep ==
    ASSUME BusInv, NEW s \in Session, ClearReplayBuffer(s)
    PROVE  BusInv'
  BY QuietStep DEF BusInv, TypeOK, ClearReplayBuffer

LEMMA CloseSessionStep ==
    ASSUME BusInv, NEW s \in Session, CloseSession(s)
    PROVE  BusInv'
<1>1. SubscribersOf(s) \subseteq Client
  BY DEF BusInv, TypeOK, SubscribersOf
<1>. QED
  BY <1>1, QuietStep DEF BusInv, TypeOK, CloseSession, RemoveDead

LEMMA ReadStep ==
    ASSUME BusInv, NEW c \in Client, Read(c)
    PROVE  BusInv'
<1>1. /\ SharedOK
      /\ queue = [d \in Client |-> queue[d]] /\ received = [d \in Client |-> received[d]]
      /\ since = [d \in Client |-> since[d]]
      /\ \A d \in Client : Served(d)
  BY BusParts
<1>2. /\ queue[c] # <<>>
      /\ received' = [received EXCEPT ![c] = Append(received[c], Head(queue[c]))]
      /\ queue' = [queue EXCEPT ![c] = Tail(queue[c])]
      /\ UNCHANGED <<policy, profile, log, replay, buffers, subscribers, shut, reading, since>>
  BY DEF Read, busVars
<1>3. SharedOK'
  BY <1>1, <1>2, SharedAsBefore DEF SharedOK
<1>4. Served(c)'
  <2>1. queue'[c] = Tail(queue[c]) /\ received'[c] = Append(received[c], Head(queue[c])) /\ since'[c] = since[c]
    BY <1>1, <1>2
  <2>2. queue[c] \in Seq(DOMAIN log) /\ received[c] \in Seq(DOMAIN log)
    BY StreamParts
  <2>3. /\ Tail(queue[c]) \in Seq(DOMAIN log) /\ Head(queue[c]) \in DOMAIN log
        /\ Len(Tail(queue[c])) = Len(queue[c]) - 1
    BY <1>2, <2>2, Tailed
  <2>4. Append(received[c], Head(queue[c])) \in Seq(DOMAIN log)
    BY <2>2, <2>3, Appended
  <2>5. Stream(c)' = Stream(c)
    BY <1>2, <2>1, <2>2, HeadMoves DEF Stream
  <2>6. Live(c)' = Live(c) /\ \A i : Asked(c, i)' = Asked(c, i)
    BY <1>2, <2>1 DEF Live, Asked, Excluded
  <2>7. Len(Tail(queue[c])) <= max_queue_size
    <3>1. Len(queue[c]) \in Nat /\ max_queue_size \in Nat
      BY <2>2, Elements, BusAssumption
    <3>2. Len(queue[c]) <= max_queue_size
      BY <1>1 DEF Served
    <3>. QED
      BY <2>3, <3>1, <3>2
  <2>8. (queue[c] \in Seq(DOMAIN log) /\ received[c] \in Seq(DOMAIN log) /\ since[c] \in 0..Len(log) /\ Len(queue[c]) <= max_queue_size)'
    BY <1>1, <1>2, <2>1, <2>3, <2>4, <2>7 DEF Served
  <2>. QED
    BY <1>1, <1>2, <2>5, <2>6, <2>8 DEF Served
<1>5. ASSUME NEW d \in Client, d # c
      PROVE  Served(d)'
  BY <1>1, <1>2, <1>5, ServedAsBefore
<1>6. /\ queue' = [d \in Client |-> queue'[d]] /\ received' = [d \in Client |-> received'[d]]
      /\ since' = [d \in Client |-> since'[d]]
  BY <1>1, <1>2
<1>7. \A d \in Client : Served(d)'
  BY <1>4, <1>5
<1>. QED
  BY <1>3, <1>6, <1>7, BusPartsNext

\* What a buffer remembers: the new event, and of the others all or all but the oldest.
LEMMA RememberProperties ==
    ASSUME NEW n \in Nat, NEW buffer \in Seq(1..n), Len(buffer) <= replay_buffer_size, Increasing(buffer)
    PROVE  /\ Remember(buffer, n + 1) \in Seq(1..n + 1) /\ Remember(buffer, n + 1) # <<>>
           /\ Len(Remember(buffer, n + 1)) <= replay_buffer_size
           /\ Increasing(Remember(buffer, n + 1))
           /\ ToSet(Remember(buffer, n + 1)) \subseteq ToSet(buffer) \cup {n + 1}
<1>1. replay_buffer_size \in Nat /\ replay_buffer_size # 0
  BY BusAssumption
<1>2. PICK rest : /\ Remember(buffer, n + 1) = Append(rest, n + 1)
                  /\ rest \in Seq(1..n) /\ ToSet(rest) \subseteq ToSet(buffer) /\ Increasing(rest)
                  /\ Len(rest) + 1 <= replay_buffer_size
  <2>1. buffer \in Seq(Nat) /\ Len(buffer) \in Nat /\ (buffer = <<>> <=> Len(buffer) = 0)
    BY Elements
  <2>2. CASE Len(buffer) = replay_buffer_size
    <3>1. buffer # <<>>
      BY <1>1, <2>1, <2>2
    <3>2. /\ Tail(buffer) \in Seq(1..n) /\ Len(Tail(buffer)) = Len(buffer) - 1
          /\ ToSet(Tail(buffer)) \subseteq ToSet(buffer)
      BY <3>1, Tailed
    <3>3. Increasing(Tail(buffer))
      BY <2>1, <3>1, TailedIncreasing
    <3>4. Len(Tail(buffer)) + 1 <= replay_buffer_size
      BY <1>1, <2>2, <3>2
    <3>5. Remember(buffer, n + 1) = Append(Tail(buffer), n + 1)
      BY <2>2 DEF Remember
    <3>. QED
      BY <3>2, <3>3, <3>4, <3>5
  <2>3. CASE Len(buffer) # replay_buffer_size
    <3>1. Len(buffer) + 1 <= replay_buffer_size
      BY <1>1, <2>1, <2>3
    <3>2. Remember(buffer, n + 1) = Append(buffer, n + 1)
      BY <2>3 DEF Remember
    <3>. QED
      BY <3>1, <3>2
  <2>. QED
    BY <2>2, <2>3
<1>3. /\ rest \in Seq(1..n + 1) /\ n + 1 \in 1..n + 1 /\ rest \in Seq(Nat)
      /\ \A x \in ToSet(rest) : x < n + 1
  <2>1. ToSet(rest) \subseteq 1..n
    BY <1>2, Elements
  <2>2. 1..n \subseteq 1..n + 1 /\ 1..n \subseteq Nat
    OBVIOUS
  <2>. QED
    BY <1>2, <2>1, <2>2, SeqMonotonic
<1>4. /\ Append(rest, n + 1) \in Seq(1..n + 1) /\ Append(rest, n + 1) # <<>>
      /\ Len(Append(rest, n + 1)) = Len(rest) + 1
      /\ ToSet(Append(rest, n + 1)) = ToSet(rest) \cup {n + 1}
  BY <1>3, Appended, SMTT(20)
<1>5. Increasing(Append(rest, n + 1))
  BY <1>2, <1>3, AppendedIncreasing
<1>. QED
  BY <1>2, <1>4, <1>5

\* What a publication does to the queue of a client.
LEMMA EnqueuedProperties ==
    ASSUME BusInv, NEW c \in Client, NEW event \in Inputs, Publish(event)
    PROVE  LET id == Len(log) + 1
           IN \/ /\ queue'[c] = queue[c]
                 /\ c \notin Targets(event) \/ c \in shut' \/ policy = "drop_newest"
              \/ /\ c \in Targets(event)
                 /\ \E rest \in {queue[c], Tail(queue[c])} :
                        /\ queue'[c] = Append(rest, id)
                        /\ rest = queue[c] \/ (queue[c] # <<>> /\ policy = "drop_oldest")
                        /\ Len(rest) + 1 <= max_queue_size
<1> DEFINE id == Len(log) + 1
<1>1. queue'[c] = IF c \in Targets(event) THEN Enqueued(c, id) ELSE queue[c]
  BY DEF Publish
<1>2. queue[c] \in Seq(DOMAIN log) /\ Len(queue[c]) <= max_queue_size /\ Len(queue[c]) \in Nat
      /\ max_queue_size \in Nat /\ max_queue_size # 0 /\ (queue[c] = <<>> <=> Len(queue[c]) = 0)
  BY StreamParts, Elements, BusAssumption DEF Served
<1>3. CASE c \notin Targets(event)
  BY <1>1, <1>3
<1>4. CASE c \in Targets(event) /\ Dead(c)
  <2>1. c \in shut'
    BY <1>4 DEF Publish, RemoveDead
  <2>. QED
    BY <1>1, <1>4, <2>1 DEF Enqueued
<1>5. CASE c \in Targets(event) /\ ~Dead(c) /\ ~Full(c)
  <2>1. queue'[c] = Append(queue[c], id) /\ Len(queue[c]) + 1 <= max_queue_size
    BY <1>1, <1>2, <1>5 DEF Enqueued, Full
  <2>. QED
    BY <1>5, <2>1
<1>6. CASE c \in Targets(event) /\ ~Dead(c) /\ Full(c) /\ policy = "drop_oldest"
  <2>1. queue'[c] = Append(Tail(queue[c]), id) /\ queue[c] # <<>>
    BY <1>1, <1>2, <1>6 DEF Enqueued, Full
  <2>2. Len(Tail(queue[c])) = Len(queue[c]) - 1
    BY <1>2, <2>1, Tailed
  <2>3. Len(Tail(queue[c])) + 1 <= max_queue_size
    BY <1>2, <2>2
  <2>. QED
    BY <1>6, <2>1, <2>3
<1>7. CASE c \in Targets(event) /\ ~Dead(c) /\ Full(c) /\ policy # "drop_oldest"
  <2>1. queue'[c] = queue[c] /\ policy # "drop_subscriber"
    BY <1>1, <1>7 DEF Enqueued, Dead
  <2>2. policy \in {"drop_oldest", "drop_newest", "drop_subscriber"}
    BY DEF BusInv, TypeOK, Policy
  <2>. QED
    BY <1>7, <2>1, <2>2
<1>. QED
  BY <1>3, <1>4, <1>5, <1>6, <1>7

\* A publication serves every client.
LEMMA PublishedServed ==
    ASSUME BusInv, NEW c \in Client, NEW event \in Inputs, Publish(event), NEW id, id = Len(log) + 1
    PROVE  Served(c)'
<1> DEFINE wanted == ~Excluded(c, event) /\ ShouldReceive(event.sid, profile[c].sid, profile[c].scope)
<1>1. /\ Len(log) \in Nat /\ DOMAIN log = 1..Len(log) /\ DOMAIN log \subseteq Nat
  BY LogTypes DEF BusInv
<1>2. /\ log' = Append(log, event) /\ UNCHANGED <<policy, profile, reading, received, since>>
      /\ subscribers' \subseteq subscribers /\ shut \subseteq shut'
  BY DEF Publish, RemoveDead
<1>3. /\ Len(log') = id /\ DOMAIN log' = DOMAIN log \cup {id} /\ log'[id] = event
      /\ \A i \in DOMAIN log : log'[i] = log[i]
  <2>1. log \in Seq(Inputs)
    BY DEF BusInv, TypeOK
  <2>. QED
    BY <1>1, <1>2, <2>1
<1>4. /\ queue[c] \in Seq(DOMAIN log) /\ received[c] \in Seq(DOMAIN log) /\ Served(c)
      /\ queue[c] \in Seq(Nat) /\ received[c] \in Seq(Nat)
      /\ ToSet(Stream(c)) = ToSet(received[c]) \cup ToSet(queue[c])
      /\ profile[c].scope # "all" =>
            /\ Increasing(received[c]) /\ Increasing(queue[c])
            /\ \A i \in ToSet(received[c]), j \in ToSet(queue[c]) : i < j
  BY StreamParts
<1>5. /\ \A i \in DOMAIN log : Asked(c, i)' = Asked(c, i)
      /\ Asked(c, id)' = wanted
  <2>1. profile' = profile
    BY <1>2
  <2>2. \A i \in DOMAIN log : Asked(c, i)' = Asked(c, i)
    BY <1>3, <2>1 DEF Asked, Excluded
  <2>3. Asked(c, id)' = wanted
    BY <1>3, <2>1 DEF Asked, Excluded
  <2>. QED
    BY <2>2, <2>3
<1>6. Live(c)' = Live(c) \cup {i \in {id} : wanted}
  <2>1. since'[c] = since[c] /\ since[c] \in 0..Len(log)
    BY <1>2, <1>4 DEF Served
  <2>2. since[c] + 1..id = (since[c] + 1..Len(log)) \cup {id}
    BY <1>1, <2>1
  <2>3. since[c] + 1..Len(log) \subseteq DOMAIN log
    BY <1>1, <2>1
  <2>4. Live(c)' = {i \in (since[c] + 1..Len(log)) \cup {id} : Asked(c, i)'}
    BY <1>3, <2>1, <2>2 DEF Live
  <2>. HIDE DEF wanted
  <2>5. {i \in (since[c] + 1..Len(log)) \cup {id} : Asked(c, i)'}
        = {i \in since[c] + 1..Len(log) : Asked(c, i)} \cup {i \in {id} : wanted}
    BY <1>5, <2>3
  <2>. QED
    BY <2>4, <2>5 DEF Live
<1>7. c \in Targets(event) => wanted
  BY DEF Targets
<1>8. c \in subscribers /\ wanted => c \in Targets(event)
  BY DEF Targets
<1>9. /\ ToSet(received[c]) \subseteq DOMAIN log /\ ToSet(queue[c]) \subseteq DOMAIN log
      /\ DOMAIN log \subseteq DOMAIN log' /\ id \in DOMAIN log' /\ \A i \in DOMAIN log : i < id
  BY <1>1, <1>3, <1>4, Elements
<1>. HIDE DEF wanted
<1>10. received'[c] = received[c] /\ received[c] \in Seq(DOMAIN log') /\ since'[c] \in 0..Len(log')
  <2>1. since'[c] = since[c] /\ since[c] \in 0..Len(log)
    BY <1>2, <1>4 DEF Served
  <2>2. received[c] \in Seq(DOMAIN log')
    BY <1>4, <1>9, SeqMonotonic
  <2>3. since[c] \in 0..Len(log')
    BY <1>1, <1>3, <2>1
  <2>. QED
    BY <1>2, <2>1, <2>2, <2>3
<1>11. CASE /\ queue'[c] = queue[c]
            /\ c \notin Targets(event) \/ c \in shut' \/ policy = "drop_newest"
  <2>1. Stream(c)' = Stream(c)
    BY <1>10, <1>11 DEF Stream
  <2>2. queue[c] \in Seq(DOMAIN log')
    BY <1>4, <1>9, SeqMonotonic
  <2>3. (c \in subscribers \ shut)' => c \in subscribers \ shut /\ (Live(c)' = Live(c) \/ policy = "drop_newest")
    BY <1>2, <1>6, <1>8, <1>11
  <2>4. \A i \in ToSet(Stream(c)) : Asked(c, i)'
    BY <1>4, <1>5, <1>9 DEF Served
  <2>. QED
    BY <1>2, <1>4, <1>10, <1>11, <2>1, <2>2, <2>3, <2>4 DEF Served
<1>12. ASSUME NEW rest \in {queue[c], Tail(queue[c])},
              c \in Targets(event), queue'[c] = Append(rest, id),
              rest = queue[c] \/ (queue[c] # <<>> /\ policy = "drop_oldest"),
              Len(rest) + 1 <= max_queue_size
       PROVE  Served(c)'
  <2>1. /\ rest \in Seq(DOMAIN log) /\ ToSet(rest) \subseteq ToSet(queue[c])
        /\ Increasing(queue[c]) => Increasing(rest)
    BY <1>4, <1>12, Tailed, TailedIncreasing
  <2>2. rest \in Seq(Nat) /\ rest \in Seq(DOMAIN log')
    BY <1>1, <1>9, <2>1, SeqMonotonic
  <2>3. /\ queue'[c] \in Seq(DOMAIN log') /\ Len(queue'[c]) = Len(rest) + 1
        /\ ToSet(queue'[c]) = ToSet(rest) \cup {id}
    BY <1>9, <1>12, <2>2, Appended
  <2>4. ToSet(Stream(c)') = ToSet(received[c]) \cup ToSet(rest) \cup {id}
    BY <1>10, <2>3, Joined DEF Stream
  <2>5. profile[c].scope # "all" => Increasing(Stream(c)')
    <3>1. SUFFICES ASSUME profile[c].scope # "all"
                   PROVE  Increasing(received[c] \o queue'[c])
      BY <1>10 DEF Stream
    <3>2. Increasing(queue'[c])
      BY <1>4, <1>9, <1>12, <2>1, <2>2, <3>1, AppendedIncreasing
    <3>3. \A i \in ToSet(received[c]), j \in ToSet(queue'[c]) : i < j
      BY <1>4, <1>9, <2>1, <2>3, <3>1
    <3>4. queue'[c] \in Seq(Nat)
      BY <1>1, <1>12, <2>2, Appended
    <3>. QED
      BY <1>4, <3>1, <3>2, <3>3, <3>4, JoinedIncreasing
  <2>6. \A i \in ToSet(Stream(c)') : Asked(c, i)'
    <3>1. \A i \in ToSet(received[c]) \cup ToSet(rest) : i \in DOMAIN log /\ Asked(c, i)
      BY <1>4, <1>9, <2>1 DEF Served
    <3>2. wanted
      BY <1>7, <1>12
    <3>. QED
      BY <1>5, <2>4, <3>1, <3>2
  <2>7. /\ (c \in subscribers \ shut)' => c \in subscribers \ shut
        /\ rest # queue[c] => policy = "drop_oldest"
    BY <1>2, <1>12
  <2>8. ASSUME (c \in subscribers \ shut)', policy = "drop_subscriber"
        PROVE  Live(c)' \subseteq ToSet(Stream(c)')
    BY <1>4, <1>6, <2>4, <2>7, <2>8 DEF Served
  <2>9. ASSUME (c \in subscribers \ shut)', policy = "drop_oldest", NEW i \in Live(c)'
        PROVE  i \in ToSet(Stream(c)') \/ \E j \in ToSet(Stream(c)') : j > i
    <3>1. i = id \/ i < id
      <4>1. Live(c) \subseteq DOMAIN log
        BY <1>1, <1>4 DEF Live, Served
      <4>. QED
        BY <1>6, <1>9, <2>9, <4>1
    <3>2. id \in ToSet(Stream(c)')
      BY <2>4
    <3>3. i < id => id > i
      OBVIOUS
    <3>. QED
      BY <3>1, <3>2, <3>3
  <2>. QED
    BY <1>2, <1>10, <1>12, <2>3, <2>5, <2>6, <2>8, <2>9 DEF Served
<1>. QED
  BY <1>11, <1>12, EnqueuedProperties

LEMMA PublishStep ==
    ASSUME BusInv, NEW event \in Inputs, Publish(event)
    PROVE  BusInv'
<1> DEFINE id == Len(log) + 1
           sid == event.sid
<1>1. SharedOK /\ \A c \in Client : Served(c)
  BY BusParts
<1>2. /\ Len(log) \in Nat /\ DOMAIN log = 1..Len(log) /\ DOMAIN log \subseteq Nat
      /\ log \in Seq(Inputs)
  BY LogTypes DEF BusInv, TypeOK
<1>3. /\ id <= MaxEvents /\ log' = Append(log, event)
      /\ replay' = [replay EXCEPT ![sid] = Remember(replay[sid], id)]
      /\ buffers' = IF Contains(buffers, sid) THEN buffers ELSE Append(buffers, sid)
      /\ UNCHANGED <<policy, profile, reading, received, since>>
      /\ subscribers' \subseteq subscribers
  BY DEF Publish, RemoveDead
<1>4. /\ Len(log') = id /\ DOMAIN log' = DOMAIN log \cup {id} /\ log'[id] = event
      /\ \A i \in DOMAIN log : log'[i] = log[i]
      /\ log' \in Seq(Inputs) /\ DOMAIN log' = 1..id
  BY <1>2, <1>3
<1>5. sid \in Session
  BY BusAssumption DEF Source
<1>6. /\ replay[sid] \in Seq(1..Len(log)) /\ Len(replay[sid]) <= replay_buffer_size /\ Increasing(replay[sid])
      /\ \A i \in ToSet(replay[sid]) : log[i].sid = sid
      /\ replay \in [Session -> Seq(DOMAIN log)]
  BY <1>1, <1>2, <1>5 DEF SharedOK
<1>7. /\ Remember(replay[sid], id) \in Seq(DOMAIN log') /\ Remember(replay[sid], id) # <<>>
      /\ Len(Remember(replay[sid], id)) <= replay_buffer_size
      /\ Increasing(Remember(replay[sid], id))
      /\ ToSet(Remember(replay[sid], id)) \subseteq ToSet(replay[sid]) \cup {id}
  BY <1>2, <1>4, <1>6, RememberProperties
<1>8. Seq(DOMAIN log) \subseteq Seq(DOMAIN log')
  BY <1>4, SeqMonotonic
<1>9. /\ replay'[sid] = Remember(replay[sid], id)
      /\ \A s \in Session : s # sid => replay'[s] = replay[s]
      /\ replay' \in [Session -> Seq(DOMAIN log')]
  BY <1>3, <1>5, <1>6, <1>7, <1>8
<1>10. \A s \in Session : /\ Len(replay'[s]) <= replay_buffer_size /\ Increasing(replay'[s])
                          /\ \A i \in ToSet(replay'[s]) : log'[i].sid = s
  <2> TAKE s \in Session
  <2>1. \A t \in Session : \A i \in ToSet(replay[t]) : i \in DOMAIN log /\ log[i].sid = t
    BY <1>1, <1>6, Elements DEF SharedOK
  <2>2. CASE s = sid
    BY <1>4, <1>5, <1>7, <1>9, <2>1, <2>2
  <2>3. CASE s # sid
    BY <1>1, <1>4, <1>9, <2>1, <2>3 DEF SharedOK
  <2>. QED
    BY <2>2, <2>3
<1>11. buffers' \in Seq(Session) /\ ToSet(buffers') = {s \in Session : replay'[s] # <<>>}
  <2>1. buffers \in Seq(Session) /\ ToSet(buffers) = {s \in Session : replay[s] # <<>>}
    BY <1>1 DEF SharedOK
  <2>2. Contains(buffers, sid) => sid \in ToSet(buffers)
    BY <2>1 DEF Contains, ToSet
  <2>3. buffers' \in Seq(Session) /\ ToSet(buffers') = ToSet(buffers) \cup {sid}
    BY <1>3, <1>5, <2>1, <2>2, Appended
  <2>. QED
    BY <1>5, <1>7, <1>9, <2>1, <2>3
<1>12. SharedOK'
  <2>1. (\A s \in Session : /\ Len(replay[s]) <= replay_buffer_size /\ Increasing(replay[s])
                            /\ \A i \in ToSet(replay[s]) : log[i].sid = s)'
    BY <1>10
  <2>2. (buffers \in Seq(Session) /\ ToSet(buffers) = {s \in Session : replay[s] # <<>>})'
    BY <1>11
  <2>3. subscribers' \subseteq Client /\ shut' \subseteq Client
    BY <1>1, <1>3 DEF SharedOK, Publish, RemoveDead, Targets
  <2>. QED
    BY <1>1, <1>3, <1>4, <1>9, <2>1, <2>2, <2>3 DEF SharedOK
<1>13. /\ queue' = [c \in Client |-> queue'[c]] /\ received' = [c \in Client |-> received'[c]]
       /\ since' = [c \in Client |-> since'[c]]
  <2>1. received = [c \in Client |-> received[c]] /\ since = [c \in Client |-> since[c]]
    BY BusParts
  <2>2. queue' = [c \in Client |-> queue'[c]]
    BY DEF Publish
  <2>. QED
    BY <1>3, <2>1, <2>2
<1>14. \A c \in Client : Served(c)'
  BY PublishedServed
<1>. QED
  BY <1>12, <1>13, <1>14, BusPartsNext

LEMMA BusNext == BusInv /\ [Next]_vars => BusInv'
<1> SUFFICES ASSUME BusInv, [Next]_vars PROVE BusInv'
  OBVIOUS
<1>1. ASSUME NEW c \in Client, Subscribe(c) \/ Resume(c) \/ Unsubscribe(c) \/ Read(c) \/ EndOfStream(c)
      PROVE  BusInv'
  BY <1>1, SubscribeStep, ResumeStep, UnsubscribeStep, ReadStep, EndOfStreamStep
<1>2. ASSUME NEW event \in Inputs, Publish(event)
      PROVE  BusInv'
  BY <1>2, PublishStep
<1>3. ASSUME NEW s \in Session, ClearReplayBuffer(s) \/ CloseSession(s)
      PROVE  BusInv'
  BY <1>3, ClearReplayBufferStep, CloseSessionStep
<1>4. CASE UNCHANGED vars
  BY <1>4, QuietStep DEF vars, busVars, BusInv, TypeOK
<1>. QED
  BY <1>1, <1>2, <1>3, <1>4 DEF Next

\* The invariant holds in every reachable state, for any number of clients, sessions and events.
THEOREM BusInvariant == Spec => []BusInv
  BY BusInit, BusNext, PTL DEF Spec

-----------------------------------------------------------------------------
(***************************************************************************)
(* The theorems.                                                           *)
(***************************************************************************)
\* Type correctness: no queue and no replay buffer outgrows its size.
THEOREM TypeCorrectness == Spec => []TypeOK
<1>1. BusInv => TypeOK
  BY DEF BusInv
<1>. QED
  BY <1>1, BusInvariant, PTL

\* A consumer sees ids in order and none twice, over overflows (put_nowait on a full queue),
\* evictions from the replay buffer and its own resumptions.
THEOREM ConsumersKeepTheOrder == Spec => []StreamsInOrder
<1>1. BusInv => StreamsInOrder
  BY DEF BusInv
<1>. QED
  BY <1>1, BusInvariant, PTL

\* A consumer gets nothing it did not ask for; while it is subscribed it misses nothing under
\* drop_subscriber, and never the newest event under drop_oldest.
THEOREM ConsumersGetTheirEvents == Spec => []SubscribedGetsEvents
<1>1. BusInv => SubscribedGetsEvents
  BY DEF BusInv
<1>. QED
  BY <1>1, BusInvariant, PTL

\* Where the queue has room for a replay buffer, a resumed client gets what is later in its buffer.
LEMMA ResumedGet ==
    ASSUME BusInv, NEW c \in Client, Resume(c), profile[c].scope # "all", replay_buffer_size <= max_queue_size
    PROVE  {i \in ToSet(replay[profile[c].sid]) : i > Last(received[c]) /\ ~Excluded(c, log[i])} \subseteq ToSet(queue'[c])
<1> DEFINE history == After(Collected(c), Last(received[c]))
<1>1. received[c] # <<>> /\ queue'[c] = Fill(NotExcluded(c, history))
  BY BusParts DEF Resume, Connect
<1>2. /\ Collected(c) \in Seq(InScope(c)) /\ Collected(c) = replay[profile[c].sid]
      /\ Len(Collected(c)) <= replay_buffer_size
  BY CollectedProperties DEF BusInv
<1>3. InScope(c) \subseteq DOMAIN log /\ DOMAIN log \subseteq Nat
  BY LogTypes DEF InScope, BusInv
<1>4. Last(received[c]) \in Nat
  BY <1>1, StreamParts, LastOfIncreasing
<1>5. /\ history \in Seq(InScope(c)) /\ Len(history) <= Len(Collected(c))
      /\ {i \in ToSet(Collected(c)) : i > Last(received[c])} \subseteq ToSet(history)
  BY <1>2, <1>3, <1>4, AfterProperties
<1>. HIDE DEF history
<1>6. Len(history) <= max_queue_size
  <2>1. Len(history) \in Nat /\ Len(Collected(c)) \in Nat
    BY <1>2, <1>5, Elements
  <2>. QED
    BY <1>2, <1>5, <2>1, BusAssumption
<1>7. {i \in ToSet(history) : ~Excluded(c, log[i])} \subseteq ToSet(Fill(NotExcluded(c, history)))
  BY <1>3, <1>5, <1>6, ReplayedProperties
<1>. QED
  BY <1>1, <1>2, <1>5, <1>7

\* subscribe(last_event_id=...) misses no event of the buffer, also when there is a gap.  It needs
\* both assumptions: the replay stops at a full queue, and over the buffers of several sessions
\* (scope="all") the gap check looks at the first event only.
THEOREM ResumingMissesNothing ==
    ASSUME replay_buffer_size <= max_queue_size, \A p \in Profiles : p.scope # "all"
    PROVE  Spec => ResumeMissesNothing
<1>1. ASSUME BusInv, [Next]_vars, NEW c \in Client, c \in reading' \ reading, received'[c] # <<>>
      PROVE  {i \in ToSet(replay[profile[c].sid]) : i > Last(received[c]) /\ ~Excluded(c, log[i])}
                 \subseteq ToSet(queue'[c])
  <2>2. PICK d \in Client : Subscribe(d) \/ Resume(d)
    BY <1>1 DEF Next, vars, busVars, Unsubscribe, Read, EndOfStream, Publish, ClearReplayBuffer, CloseSession
  <2>3. PICK history, got : Connect(d, history, got)
    BY <2>2 DEF Subscribe, Resume
  <2>4. c = d
    BY <1>1, <2>3 DEF Connect
  <2>5. CASE Subscribe(d)
    <3>1. PICK h : Connect(d, h, <<>>)
      BY <2>5 DEF Subscribe
    <3>2. received'[c] = <<>>
      BY <1>1, <2>4, <3>1, BusParts DEF Connect
    <3>. QED
      BY <1>1, <3>2
  <2>6. CASE Resume(d)
    <3>1. profile[c] \in Profiles
      BY <1>1, LogTypes DEF BusInv
    <3>. QED
      BY <1>1, <2>4, <2>6, <3>1, ResumedGet
  <2>. QED
    BY <2>2, <2>5, <2>6
<1>2. BusInv /\ [Next]_vars =>
      [\A c \in Client :
          c \in reading' \ reading /\ received'[c] # <<>> =>
              {i \in ToSet(replay[profile[c].sid]) :
                  i > Last(received[c]) /\ ~Excluded(c, log[i])}
                 \subseteq ToSet(queue'[c])]_vars
  BY <1>1
<1>. QED
  BY <1>2, BusInvariant, PTL DEF Spec, ResumeMissesNothing
=============================================================================
