----------------------------- MODULE SendingProofs -----------------------------
(***************************************************************************)
(* What the sending side promises, for any values of the constants.        *)
(*                                                                         *)
(* RtpSenderEgress: numbers leave without gaps and batches are closed, the *)
(* counters are those of what the transport took, protection uses the      *)
(* parameters set last and, unless keyframes flush the pacer, no packet    *)
(* stays pending without a retransmission on its way.                      *)
(*                                                                         *)
(* VideoSendStreamImpl: the allocator observes the stream only while it    *)
(* runs, with the limits it has now, and throttling never brings an older  *)
(* allocation back.                                                        *)
(***************************************************************************)
EXTENDS RtpSenderEgress, VideoSendStream, SequenceTheorems, FiniteSetTheorems, TLAPS

Shaped == [type : {"media", "retransmission", "padding", "fec"}, stream : Streams,
           orig : Int, seq : Int, transport : Int,
           key : BOOLEAN, again : BOOLEAN, protect : BOOLEAN]

\* Packets somewhere in the egress; only a retransmission or padding is of another.
Sound == {p \in Shaped : /\ HasCorrectSsrc(p)
                         /\ p.type = "media" => p.orig = None
                         /\ p.type = "retransmission" => p.orig # None}

\* A packet has no transport-wide number before its turn, and a number of its
\* stream from then on.
Packets == {p \in Sound : p.transport = None}
Numbered == {p \in Sound : TakesNumber(p) => p.seq \in Nat}

Lasts == [media : Int, rtx : Int]
CounterSet == [transmitted : Nat, retransmitted : Nat, fec : Nat]
Remembered == [seq : Nat, pending : BOOLEAN]
Members == [last : Lasts, checks : BOOLEAN, batch : Seq(Packets \cap Numbered),
            pending : Int, mediaSent : BOOLEAN]
Wires == [gap : BOOLEAN, last : Lasts, transport : Int, closed : BOOLEAN,
          taken : [Streams -> CounterSet]]

TypeOK ==
    /\ conf \in Configurations
    /\ queue \in IF conf.paced THEN Seq(Packets) ELSE Seq(Seq(Packets))
    /\ turn \in {"idle", "task", "pacing", "batch"}
    /\ current \in Seq(Packets)
    /\ numbers \in [media : Nat, rtx : Nat, transport : Nat]
    /\ e \in Members
    /\ stats \in [media : CounterSet, rtx : CounterSet]
    /\ observed \in [Streams -> CounterSet]
    /\ history \in Seq(Remembered)
    /\ fec \in [params : Int, protected : Nat, ready : Nat]
    /\ wire \in Wires
    /\ asked \in Int
    /\ made \in [media : Nat, nacks : Nat, fec : Nat, padding : Nat, params : Nat]

\* A task runs without a pacer, a batch is filled and emptied with one; no batch
\* is left unless it is being emptied.
TurnInv ==
    /\ turn = "task" => ~conf.paced
    /\ turn \in {"pacing", "batch"} => conf.paced
    /\ turn # "task" => current = <<>>
    /\ e.batch # <<>> => conf.batching /\ turn \in {"pacing", "batch"}
    /\ conf.batching => wire.closed \/ (turn = "batch" /\ e.batch # <<>>)

\* What leaves next follows what was checked last.
NumbersInv ==
    /\ e.checks
    /\ Follows(e.last.media, numbers.media)
    /\ Follows(e.last.rtx, numbers.rtx)

\* The last numbers after packet p, when they were l before.
After(l, p) == IF TakesNumber(p) THEN [l EXCEPT ![p.stream] = p.seq] ELSE l

InTurn(l, p) == TakesNumber(p) => Follows(l[p.stream], p.seq)

\* The packets of batch, one after the other, take the last numbers from first to
\* last: ls[k] are those after k packets.
Chained(first, batch, last) ==
    \E ls \in [0 .. Len(batch) -> Lasts] :
        /\ ls[0] = first /\ ls[Len(batch)] = last
        /\ \A k \in 1 .. Len(batch) :
            InTurn(ls[k - 1], batch[k]) /\ ls[k] = After(ls[k - 1], batch[k])

WireInv ==
    /\ ~wire.gap
    /\ Chained(wire.last, e.batch, e.last)
    /\ ~conf.paced => wire.transport = numbers.transport

Together(a, b) ==
    [transmitted |-> a.transmitted + b.transmitted,
     retransmitted |-> a.retransmitted + b.retransmitted, fec |-> a.fec + b.fec]

\* Every stream's counters: without a callback FlexFEC counts as media.
CountersInv ==
    IF conf.callback THEN observed = wire.taken
    ELSE /\ stats.rtx = wire.taken["rtx"]
         /\ stats.media = Together(wire.taken["media"], wire.taken["flexfec"])

\* Parameters set last wait in e or are in use.
FecInv == IF e.pending = None THEN fec.params = asked ELSE e.pending = asked

IInv ==
    /\ TypeOK /\ TurnInv /\ NumbersInv /\ WireInv /\ CountersInv /\ FecInv
    /\ ~conf.flush => RequestableAgain

-------------------------------------------------------------------------------
(* Sequences *)

\* The ranks of the places are 1 to their number, so that each is taken once.
LEMMA AtIs ==
  ASSUME NEW S, NEW s \in Seq(S), NEW places \in SUBSET (1 .. Len(s))
  PROVE  /\ At(s, places) \in Seq(S)
         /\ ToSet(At(s, places)) = {s[i] : i \in places}
<1> DEFINE Upto(i) == {j \in places : j <= i}
           Rank(i) == Cardinality(Upto(i))
           n == Cardinality(places)
           Place(k) == CHOOSE i \in places : Rank(i) = k
           rank == [i \in places |-> Rank(i)]
<1>1. IsFiniteSet(places) /\ n \in Nat /\ places \subseteq Int
  <2>1. Len(s) \in Nat
    BY LenProperties
  <2>2. IsFiniteSet(1 .. Len(s))
    BY <2>1, FS_Interval
  <2>3. IsFiniteSet(places)
    BY <2>2, FS_Subset
  <2>4. QED
    BY <2>1, <2>3, FS_CardinalityType
<1>2. \A i \in places : IsFiniteSet(Upto(i)) /\ Rank(i) \in 1 .. n
  <2>1. TAKE i \in places
  <2>2. IsFiniteSet(Upto(i)) /\ Rank(i) <= n /\ Rank(i) \in Nat
    BY <1>1, FS_Subset, FS_CardinalityType
  <2>3. i \in Upto(i)
    BY <1>1
  <2>4. Rank(i) # 0
    BY <2>2, <2>3, FS_EmptySet
  <2>5. QED
    BY <1>1, <2>2, <2>4
<1>3. \A i, j \in places : i < j => Rank(i) < Rank(j)
  <2>1. SUFFICES ASSUME NEW i \in places, NEW j \in places, i < j
                 PROVE  Rank(i) < Rank(j)
    OBVIOUS
  <2>2. Upto(i) \in SUBSET Upto(j) /\ Upto(i) # Upto(j)
    <3>1. \A x \in places : x <= i => x <= j
      BY <1>1, <2>1
    <3>2. j \in Upto(j) /\ j \notin Upto(i)
      BY <1>1, <2>1
    <3>3. QED
      BY <3>1, <3>2
  <2>3. Rank(i) <= Rank(j) /\ Rank(i) # Rank(j)
    BY <1>2, <2>2, FS_Subset
  <2>4. Rank(i) \in Nat /\ Rank(j) \in Nat
    BY <1>2, FS_CardinalityType
  <2> HIDE DEF Rank
  <2>5. QED
    BY <2>3, <2>4
<1>4. \A i, j \in places : Rank(i) = Rank(j) => i = j
  <2> HIDE DEF Rank
  <2>1. \A i, j \in places : i < j \/ j < i \/ i = j
    BY <1>1
  <2>2. \A i \in places : Rank(i) \in Int
    BY <1>2, FS_CardinalityType DEF Rank
  <2>3. QED
    BY <1>3, <2>1, <2>2
<1>5. \A k \in 1 .. n : \E i \in places : Rank(i) = k
  <2>1. rank \in [places -> 1 .. n]
    BY <1>2
  <2>2. rank \in Injection(places, 1 .. n)
    BY <1>4, <2>1 DEF Injection, IsInjective
  <2>3. IsFiniteSet(1 .. n) /\ Cardinality(1 .. n) = n
    BY <1>1, FS_Interval
  <2>4. rank \in Surjection(places, 1 .. n)
    BY <2>2, <2>3, FS_Injection
  <2>5. QED
    BY <2>4 DEF Surjection
<1> HIDE DEF Rank
<1>6. \A k \in 1 .. n : Place(k) \in places /\ Rank(Place(k)) = k
  BY <1>5
<1>7. \A i \in places : Place(Rank(i)) = i
  <2>1. TAKE i \in places
  <2>2. Place(Rank(i)) \in places /\ Rank(Place(Rank(i))) = Rank(i)
    BY <1>2, <1>6
  <2>3. QED
    BY <1>4, <2>2
<1>8. At(s, places) = [k \in 1 .. n |-> s[Place(k)]]
  BY DEF At, Rank
<1> HIDE DEF Place, n
<1> DEFINE t == [k \in 1 .. n |-> s[Place(k)]]
<1>9. \A i \in places : s[i] \in S
  BY ElementOfSeq
<1>10. t \in Seq(S) /\ DOMAIN t = 1 .. n
  <2>1. t \in [1 .. n -> S]
    BY <1>6, <1>9
  <2>2. QED
    BY <1>1, <2>1
<1>11. {t[k] : k \in 1 .. n} = {s[i] : i \in places}
  <2>1. \A k \in 1 .. n : t[k] = s[Place(k)] /\ Place(k) \in places
    BY <1>6
  <2>2. \A i \in places : Rank(i) \in 1 .. n /\ t[Rank(i)] = s[i]
    <3>1. \A k \in 1 .. n : t[k] = s[Place(k)]
      OBVIOUS
    <3> HIDE DEF t
    <3>2. QED
      BY <1>2, <1>7, <3>1 DEF n
  <2>3. \A x : (\E k \in 1 .. n : x = t[k]) <=> (\E i \in places : x = s[i])
    <3> HIDE DEF t
    <3>1. QED
      BY <2>1, <2>2
  <2> HIDE DEF t
  <2>4. QED
    BY <2>3
<1>12. At(s, places) = t
  BY <1>8
<1> HIDE DEF t
<1>13. ToSet(t) = {s[i] : i \in places}
  BY <1>10, <1>11 DEF ToSet
<1>14. QED
  BY <1>10, <1>12, <1>13

LEMMA ElementsOf ==
  ASSUME NEW S, NEW s \in Seq(S)
  PROVE  /\ DOMAIN s = 1 .. Len(s) /\ Len(s) \in Nat
         /\ \A x : x \in ToSet(s) <=> \E i \in 1 .. Len(s) : x = s[i]
         /\ ToSet(s) \subseteq S
BY ElementOfSeq, LenProperties DEF ToSet

LEMMA EmptyIs ==
  ToSet(<<>>) = {} /\ Len(<<>>) = 0 /\ \A S : <<>> \in Seq(S)
BY DEF ToSet

LEMMA ConcatIs ==
  ASSUME NEW S, NEW s \in Seq(S), NEW t \in Seq(S)
  PROVE  s \o t \in Seq(S) /\ ToSet(s \o t) = ToSet(s) \cup ToSet(t)
<1>1. /\ s \o t \in Seq(S) /\ Len(s \o t) = Len(s) + Len(t)
      /\ \A i \in 1 .. Len(s) + Len(t) :
            (s \o t)[i] = IF i <= Len(s) THEN s[i] ELSE t[i - Len(s)]
  BY ConcatProperties
<1>2. Len(s) \in Nat /\ Len(t) \in Nat
  BY LenProperties
<1>3. /\ \A x : x \in ToSet(s) <=> \E i \in 1 .. Len(s) : x = s[i]
      /\ \A x : x \in ToSet(t) <=> \E i \in 1 .. Len(t) : x = t[i]
      /\ \A x : x \in ToSet(s \o t) <=> \E i \in 1 .. Len(s \o t) : x = (s \o t)[i]
  BY <1>1, ElementsOf
<1> DEFINE u == s \o t
           m == Len(s)
           n == Len(t)
<1>4. ASSUME NEW i \in 1 .. m + n
      PROVE  (\E j \in 1 .. m : u[i] = s[j]) \/ (\E j \in 1 .. n : u[i] = t[j])
  <2> HIDE DEF u, m, n
  <2>1. CASE i <= m
    BY <1>1, <1>2, <2>1 DEF u, m, n
  <2>2. CASE ~(i <= m)
    <3>1. i - m \in 1 .. n
      BY <1>2, <2>2 DEF m, n
    <3>2. u[i] = t[i - m]
      BY <1>1, <2>2 DEF u, m, n
    <3>3. QED
      BY <3>1, <3>2
  <2>3. QED
    BY <2>1, <2>2
<1>5. \A i \in 1 .. m : i \in 1 .. m + n /\ u[i] = s[i]
  BY <1>1, <1>2
<1>6. \A i \in 1 .. n : i + m \in 1 .. m + n /\ u[i + m] = t[i]
  <2>1. TAKE i \in 1 .. n
  <2>2. i + m \in 1 .. m + n /\ ~(i + m <= m) /\ i + m - m = i
    BY <1>2
  <2>3. QED
    BY <1>1, <2>2
<1> HIDE DEF u, m, n
<1>7. Len(u) = m + n
  BY <1>1 DEF u, m, n
<1>8. \A x : x \in ToSet(u) <=> x \in ToSet(s) \/ x \in ToSet(t)
  <2>1. \A x : x \in ToSet(u) <=> \E i \in 1 .. m + n : x = u[i]
    BY <1>3, <1>7 DEF u
  <2>2. /\ \A x : x \in ToSet(s) <=> \E i \in 1 .. m : x = s[i]
        /\ \A x : x \in ToSet(t) <=> \E i \in 1 .. n : x = t[i]
    BY <1>3 DEF m, n
  <2>3. \A x : x \in ToSet(u) => x \in ToSet(s) \/ x \in ToSet(t)
    BY <1>4, <2>1, <2>2
  <2>4. \A x : x \in ToSet(s) => x \in ToSet(u)
    BY <1>5, <2>1, <2>2
  <2>5. ASSUME NEW x, x \in ToSet(t) PROVE x \in ToSet(u)
    <3>1. PICK i \in 1 .. n : x = t[i]
      BY <2>2, <2>5
    <3>2. i + m \in 1 .. m + n /\ u[i + m] = x
      BY <1>6, <3>1
    <3>3. QED
      BY <2>1, <3>2
  <2>6. QED
    BY <2>3, <2>4, <2>5
<1>9. QED
  BY <1>1, <1>8 DEF u

LEMMA SingletonIs ==
  ASSUME NEW S, NEW x \in S
  PROVE  <<x>> \in Seq(S) /\ ToSet(<<x>>) = {x}
<1>1. <<x>> \in Seq(S)
  OBVIOUS
<1>2. ToSet(<<x>>) = {x}
  BY DEF ToSet
<1>3. QED
  BY <1>1, <1>2

LEMMA AppendIs ==
  ASSUME NEW S, NEW s \in Seq(S), NEW x \in S
  PROVE  /\ Append(s, x) \in Seq(S) /\ Append(s, x) # <<>>
         /\ ToSet(Append(s, x)) = ToSet(s) \cup {x}
<1> DEFINE one == <<x>>
<1>1. Append(s, x) \in Seq(S) /\ Append(s, x) # <<>> /\ Append(s, x) = s \o one
  BY AppendProperties, AppendIsConcat
<1>2. one \in Seq(S) /\ ToSet(one) = {x}
  BY SingletonIs
<1> HIDE DEF one
<1>3. ToSet(s \o one) = ToSet(s) \cup ToSet(one)
  BY <1>2, ConcatIs
<1>4. QED
  BY <1>1, <1>2, <1>3

LEMMA HeadTailIs ==
  ASSUME NEW S, NEW s \in Seq(S), s # <<>>
  PROVE  /\ Head(s) \in S /\ Tail(s) \in Seq(S)
         /\ ToSet(s) = {Head(s)} \cup ToSet(Tail(s))
<1> DEFINE one == <<Head(s)>>
           t == Tail(s)
<1>1. Head(s) \in S /\ t \in Seq(S)
  BY HeadTailProperties
<1>2. s = one \o t
  OBVIOUS
<1>3. one \in Seq(S) /\ ToSet(one) = {Head(s)}
  BY <1>1, SingletonIs
<1> HIDE DEF one, t
<1>4. ToSet(one \o t) = ToSet(one) \cup ToSet(t)
  BY <1>1, <1>3, ConcatIs
<1>5. Tail(s) = t
  BY DEF t
<1>6. QED
  BY <1>1, <1>2, <1>3, <1>4, <1>5

LEMMA RemoveAtIs ==
  ASSUME NEW S, NEW s \in Seq(S), NEW i \in 1 .. Len(s)
  PROVE  /\ RemoveAt(s, i) \in Seq(S)
         /\ ToSet(s) = {s[i]} \cup ToSet(RemoveAt(s, i))
<1> DEFINE before == SubSeq(s, 1, i - 1)
           after == SubSeq(s, i + 1, Len(s))
           rest == SubSeq(s, i, Len(s))
           one == <<s[i]>>
<1>1. Len(s) \in Nat /\ \A j \in 1 .. Len(s) : s[j] \in S
  BY ElementOfSeq, LenProperties
<1>2. before \in Seq(S) /\ after \in Seq(S)
  BY <1>1, SubSeqProperties
<1>3. rest = one \o after
  BY <1>1, SubSeqRecursiveFirst
<1>4. s = before \o rest
  <2>1. SubSeq(s, 1, Len(s)) = s
    BY SubSeqFull
  <2>2. 1 \in 1 .. Len(s) + 1 /\ i - 1 \in 1 - 1 .. Len(s) /\ Len(s) \in i - 1 .. Len(s)
        /\ (i - 1) + 1 = i
    BY <1>1
  <2>3. SubSeq(s, 1, i - 1) \o SubSeq(s, (i - 1) + 1, Len(s)) = SubSeq(s, 1, Len(s))
    BY <2>2, ConcatAdjacentSubSeq
  <2>4. QED
    BY <2>1, <2>2, <2>3
<1>5. RemoveAt(s, i) = before \o after
  BY DEF RemoveAt
<1>6. one \in Seq(S) /\ ToSet(one) = {s[i]}
  BY <1>1, SingletonIs
<1> HIDE DEF before, after, rest, one
<1>7. rest \in Seq(S) /\ ToSet(rest) = {s[i]} \cup ToSet(after)
  <2>1. one \o after \in Seq(S) /\ ToSet(one \o after) = ToSet(one) \cup ToSet(after)
    BY <1>2, <1>6, ConcatIs
  <2>2. QED
    BY <1>3, <1>6, <2>1
<1>8. ToSet(s) = ToSet(before) \cup ToSet(rest)
  <2>1. ToSet(before \o rest) = ToSet(before) \cup ToSet(rest)
    BY <1>2, <1>7, ConcatIs
  <2>2. QED
    BY <1>4, <2>1
<1>9. before \o after \in Seq(S) /\ ToSet(before \o after) = ToSet(before) \cup ToSet(after)
  BY <1>2, ConcatIs
<1>10. QED
  BY <1>5, <1>7, <1>8, <1>9

-------------------------------------------------------------------------------
(* Chains of numbers *)

LEMMA AfterIs ==
  ASSUME NEW l \in Lasts, NEW p \in Numbered
  PROVE  After(l, p) \in Lasts
<1>1. TakesNumber(p) => p.stream \in {"media", "rtx"}
  BY DEF TakesNumber
<1>2. p.seq \in Int
  BY DEF Numbered, Sound, Shaped
<1>3. QED
  BY <1>1, <1>2 DEF After, Lasts

LEMMA ChainOfNone ==
  ASSUME NEW l \in Lasts
  PROVE  /\ Chained(l, <<>>, l)
         /\ \A m : Chained(l, <<>>, m) => m = l
<1> DEFINE ls == [k \in 0 .. 0 |-> l]
<1>1. Len(<<>>) = 0
  OBVIOUS
<1>2. ls \in [0 .. 0 -> Lasts] /\ ls[0] = l
  OBVIOUS
<1> HIDE DEF ls
<1>3. QED
  BY <1>1, <1>2 DEF Chained

LEMMA ChainAppend ==
  ASSUME NEW S, NEW b \in Seq(S), NEW p \in Numbered, p \in S,
         NEW first, NEW last \in Lasts, Chained(first, b, last), InTurn(last, p)
  PROVE  Chained(first, Append(b, p), After(last, p))
<1> DEFINE n == Len(b)
           c == Append(b, p)
<1>1. n \in Nat /\ Len(c) = n + 1 /\ c[n + 1] = p /\ \A k \in 1 .. n : c[k] = b[k]
  BY AppendProperties, LenProperties
<1>2. PICK ls \in [0 .. n -> Lasts] :
        /\ ls[0] = first /\ ls[n] = last
        /\ \A k \in 1 .. n : InTurn(ls[k - 1], b[k]) /\ ls[k] = After(ls[k - 1], b[k])
  BY DEF Chained
<1> DEFINE ms == [k \in 0 .. n + 1 |-> IF k = n + 1 THEN After(last, p) ELSE ls[k]]
<1>3. After(last, p) \in Lasts
  BY AfterIs
<1> HIDE DEF n, c
<1>4. \A k \in 0 .. n : k \in 0 .. n + 1 /\ k # n + 1
  BY <1>1
<1>5. \A k \in 0 .. n + 1 : k \in 0 .. n \/ k = n + 1
  BY <1>1
<1>6. ms \in [0 .. n + 1 -> Lasts] /\ ms[n + 1] = After(last, p)
      /\ \A k \in 0 .. n : ms[k] = ls[k]
  <2>1. n + 1 \in 0 .. n + 1
    BY <1>1
  <2>2. QED
    BY <1>3, <1>4, <1>5, <2>1
<1> HIDE DEF ms
<1>7. ASSUME NEW k \in 1 .. n + 1
      PROVE  InTurn(ms[k - 1], c[k]) /\ ms[k] = After(ms[k - 1], c[k])
  <2>1. k - 1 \in 0 .. n /\ ms[k - 1] = ls[k - 1]
    BY <1>1, <1>6
  <2>2. CASE k = n + 1
    <3>1. k - 1 = n
      BY <1>1, <2>2
    <3>2. QED
      BY <1>1, <1>2, <1>6, <2>1, <2>2, <3>1
  <2>3. CASE k # n + 1
    <3>1. k \in 1 .. n /\ k \in 0 .. n
      BY <1>1, <2>3
    <3>2. QED
      BY <1>1, <1>2, <1>6, <2>1, <3>1
  <2>4. QED
    BY <2>2, <2>3
<1>8. ms[0] = first
  BY <1>1, <1>2, <1>6
<1>9. Chained(first, c, After(last, p))
  BY <1>1, <1>6, <1>7, <1>8 DEF Chained
<1>10. QED
  BY <1>9 DEF c

LEMMA ChainTail ==
  ASSUME NEW S, NEW b \in Seq(S), b # <<>>, NEW first, NEW last, Chained(first, b, last)
  PROVE  InTurn(first, Head(b)) /\ Chained(After(first, Head(b)), Tail(b), last)
<1> DEFINE n == Len(b)
           c == Tail(b)
<1>1. n \in Nat /\ n > 0 /\ Len(c) = n - 1 /\ b[1] = Head(b)
      /\ \A k \in 1 .. n - 1 : c[k] = b[k + 1]
  BY HeadTailProperties, LenProperties, EmptySeq
<1>2. PICK ls \in [0 .. n -> Lasts] :
        /\ ls[0] = first /\ ls[n] = last
        /\ \A k \in 1 .. n : InTurn(ls[k - 1], b[k]) /\ ls[k] = After(ls[k - 1], b[k])
  BY DEF Chained
<1> DEFINE ms == [k \in 0 .. n - 1 |-> ls[k + 1]]
<1> HIDE DEF n, c
<1>3. \A k \in 0 .. n - 1 : k + 1 \in 0 .. n
  BY <1>1
<1>4. ms \in [0 .. n - 1 -> Lasts] /\ \A k \in 0 .. n - 1 : ms[k] = ls[k + 1]
  BY <1>3
<1> HIDE DEF ms
<1>5. InTurn(first, Head(b)) /\ ls[1] = After(first, Head(b))
  <2>1. 1 \in 1 .. n /\ 1 - 1 = 0
    BY <1>1
  <2>2. QED
    BY <1>1, <1>2, <2>1
<1>6. ms[0] = After(first, Head(b)) /\ ms[n - 1] = last
  <2>1. 0 \in 0 .. n - 1 /\ n - 1 \in 0 .. n - 1 /\ 0 + 1 = 1 /\ (n - 1) + 1 = n
    BY <1>1
  <2>2. QED
    BY <1>2, <1>4, <1>5, <2>1
<1>7. ASSUME NEW k \in 1 .. n - 1
      PROVE  InTurn(ms[k - 1], c[k]) /\ ms[k] = After(ms[k - 1], c[k])
  <2>1. k \in 0 .. n - 1 /\ k - 1 \in 0 .. n - 1 /\ k + 1 \in 1 .. n
        /\ (k - 1) + 1 = k /\ (k + 1) - 1 = k
    BY <1>1
  <2>2. ms[k - 1] = ls[k] /\ ms[k] = ls[k + 1] /\ c[k] = b[k + 1]
    BY <1>1, <1>4, <2>1
  <2>3. QED
    BY <1>2, <2>1, <2>2
<1>8. QED
  BY <1>1, <1>4, <1>5, <1>6, <1>7 DEF Chained, c

-------------------------------------------------------------------------------
(* The history *)

\* Nothing is pending in h that is not pending in the history already, under the
\* same number.
NoMorePending(h) ==
    \A x \in ToSet(h) : x.pending => \E y \in ToSet(history) : y.pending /\ y.seq = x.seq

LEMMA MarkedIs ==
  ASSUME NEW seqs, history \in Seq(Remembered)
  PROVE  /\ MarkedAsSent(seqs) \in Seq(Remembered) /\ NoMorePending(MarkedAsSent(seqs))
         /\ \A x \in ToSet(MarkedAsSent(seqs)) : x.pending => x.seq \notin seqs
<1> DEFINE n == Len(history)
           h == MarkedAsSent(seqs)
           Marked(x) == [x EXCEPT !.pending = @ /\ x.seq \notin seqs]
<1>1. n \in Nat /\ DOMAIN history = 1 .. n /\ \A i \in 1 .. n : history[i] \in Remembered
      /\ \A x : x \in ToSet(history) <=> \E j \in 1 .. n : x = history[j]
  BY ElementsOf, ElementOfSeq
<1>2. \A x \in Remembered : /\ Marked(x) \in Remembered /\ Marked(x).seq = x.seq
                            /\ Marked(x).pending => x.pending /\ x.seq \notin seqs
  BY DEF Remembered
<1> HIDE DEF Marked
<1>3. h = [i \in 1 .. n |-> Marked(history[i])]
  BY <1>1 DEF MarkedAsSent, Marked
<1> HIDE DEF n, h
<1>4. h \in [1 .. n -> Remembered] /\ \A i \in 1 .. n : h[i] = Marked(history[i])
  BY <1>1, <1>2, <1>3
<1>5. h \in Seq(Remembered)
  BY <1>1, <1>4
<1>6. \A x : x \in ToSet(h) <=> \E i \in 1 .. n : x = h[i]
  BY <1>4 DEF ToSet
<1>7. ASSUME NEW x \in ToSet(h), x.pending
      PROVE  x.seq \notin seqs /\ \E y \in ToSet(history) : y.pending /\ y.seq = x.seq
  <2>1. PICK i \in 1 .. n : x = Marked(history[i])
    BY <1>4, <1>6, <1>7
  <2>2. history[i] \in ToSet(history) /\ history[i] \in Remembered
    BY <1>1
  <2>3. QED
    BY <1>2, <1>7, <2>1, <2>2
<1>8. QED
  BY <1>5, <1>7 DEF NoMorePending, h

LEMMA PutIs ==
  ASSUME NEW p, p.seq \in Nat, history \in Seq(Remembered)
  PROVE  PutRtpPacket(p) \in Seq(Remembered) /\ NoMorePending(PutRtpPacket(p))
<1> DEFINE others == {i \in DOMAIN history : history[i].seq # p.seq}
           g == At(history, others)
           kept == {k \in DOMAIN g : \E i \in 1 .. k :
                        g[i].pending \/ Len(g) - i + 1 < HistorySize}
           h == At(g, kept)
           new == [seq |-> p.seq, pending |-> FALSE]
<1>1. g \in Seq(Remembered) /\ ToSet(g) \subseteq ToSet(history)
  <2>1. DOMAIN history = 1 .. Len(history)
        /\ \A x : x \in ToSet(history) <=> \E i \in 1 .. Len(history) : x = history[i]
    BY ElementsOf
  <2>2. others \in SUBSET (1 .. Len(history))
    BY <2>1
  <2> HIDE DEF others
  <2>3. g \in Seq(Remembered) /\ ToSet(g) = {history[i] : i \in others}
    BY <2>2, AtIs
  <2>4. QED
    BY <2>1, <2>2, <2>3
<1> HIDE DEF g
<1>2. h \in Seq(Remembered) /\ ToSet(h) \subseteq ToSet(g)
  <2>1. DOMAIN g = 1 .. Len(g)
        /\ \A x : x \in ToSet(g) <=> \E i \in 1 .. Len(g) : x = g[i]
    BY <1>1, ElementsOf
  <2>2. kept \in SUBSET (1 .. Len(g))
    BY <2>1
  <2> HIDE DEF kept
  <2>3. h \in Seq(Remembered) /\ ToSet(h) = {g[i] : i \in kept}
    BY <1>1, <2>2, AtIs
  <2>4. QED
    BY <2>1, <2>2, <2>3
<1>3. PutRtpPacket(p) = Append(h, new)
  BY DEF PutRtpPacket, Culled, g
<1> HIDE DEF h
<1>4. new \in Remembered /\ ~new.pending
  BY DEF Remembered
<1> HIDE DEF new
<1>5. Append(h, new) \in Seq(Remembered) /\ ToSet(Append(h, new)) = ToSet(h) \cup {new}
  BY <1>2, <1>4, AppendIs
<1>6. QED
  BY <1>1, <1>2, <1>3, <1>4, <1>5 DEF NoMorePending

\* Whatever becomes of packet p, the packet it retransmits is not pending then.
LEMMA HistoryAfterIs ==
  ASSUME NEW p \in Numbered, NEW success, history \in Seq(Remembered)
  PROVE  /\ HistoryAfter(p, success) \in Seq(Remembered)
         /\ NoMorePending(HistoryAfter(p, success))
         /\ \A x \in ToSet(HistoryAfter(p, success)) :
                x.pending /\ p.orig # None => x.seq # p.orig
<1>1. CASE p.type = "media" /\ p.again
  <2>1. p.seq \in Nat /\ p.orig = None
    BY <1>1 DEF Numbered, Sound, HasCorrectSsrc, TakesNumber
  <2>2. QED
    BY <1>1, <2>1, PutIs DEF HistoryAfter
<1>2. CASE ~(p.type = "media" /\ p.again) /\ p.orig # None
  <2>1. HistoryAfter(p, success) = MarkedAsSent({p.orig})
    BY <1>2 DEF HistoryAfter
  <2>2. /\ MarkedAsSent({p.orig}) \in Seq(Remembered)
        /\ NoMorePending(MarkedAsSent({p.orig}))
        /\ \A x \in ToSet(MarkedAsSent({p.orig})) : x.pending => x.seq \notin {p.orig}
    BY MarkedIs
  <2>3. QED
    BY <2>1, <2>2
<1>3. CASE ~(p.type = "media" /\ p.again) /\ p.orig = None
  BY <1>3 DEF HistoryAfter, NoMorePending
<1>4. QED
  BY <1>1, <1>2, <1>3

-------------------------------------------------------------------------------
(* The counters *)

LEMMA CountedIs ==
  ASSUME NEW c \in CounterSet, NEW type
  PROVE  Counted(c, type) \in CounterSet
BY DEF Counted, CounterSet

\* Counting keeps a sum a sum.
LEMMA CountedSum ==
  ASSUME NEW a \in CounterSet, NEW b \in CounterSet, NEW type
  PROVE  /\ Counted(Together(a, b), type) = Together(Counted(a, type), b)
         /\ Counted(Together(a, b), type) = Together(a, Counted(b, type))
BY DEF Counted, CounterSet, Together

LEMMA CountersAfter ==
  ASSUME TypeOK, CountersInv, conf' = conf, NEW p \in Numbered, UpdateRtpStats(p),
         wire'.taken = [wire.taken EXCEPT ![p.stream] = Counted(@, p.type)]
  PROVE  /\ stats' \in [media : CounterSet, rtx : CounterSet]
         /\ observed' \in [Streams -> CounterSet]
         /\ CountersInv'
<1> DEFINE taken == wire.taken
           Types == [media : CounterSet, rtx : CounterSet]
<1>1. p.stream \in Streams
  BY DEF Numbered, Sound, Shaped
<1>2. taken \in [Streams -> CounterSet]
  BY DEF TypeOK, Wires
<1>3. stats \in Types /\ observed \in [Streams -> CounterSet]
  BY DEF TypeOK
<1>4. CASE conf.callback
  <2> DEFINE after == Counted(observed[p.stream], p.type)
  <2>1. after \in CounterSet
    BY <1>1, <1>3, CountedIs
  <2>2. stats' = [stats EXCEPT !["media"] = after]
        /\ observed' = [observed EXCEPT ![p.stream] = after]
    BY <1>4 DEF UpdateRtpStats, Counters
  <2>3. observed = wire.taken
    BY <1>4 DEF CountersInv
  <2> HIDE DEF after
  <2>4. stats' \in Types /\ observed' \in [Streams -> CounterSet]
    BY <1>1, <1>3, <2>1, <2>2
  <2>5. observed' = wire'.taken
    BY <2>2, <2>3 DEF after
  <2>6. QED
    BY <1>4, <2>4, <2>5 DEF CountersInv
<1>5. CASE ~conf.callback
  <2>1. observed' = observed /\ stats.rtx = taken["rtx"] /\ stats.media = Together(taken["media"], taken["flexfec"])
    BY <1>5 DEF UpdateRtpStats, CountersInv
  <2>2. CASE p.stream = "rtx"
    <3> DEFINE after == Counted(stats.rtx, p.type)
    <3>1. after \in CounterSet
      BY <1>3, CountedIs
    <3>2. stats' = [stats EXCEPT !["rtx"] = after]
      BY <1>5, <2>2 DEF UpdateRtpStats, Counters
    <3>3. wire'.taken = [taken EXCEPT !["rtx"] = after]
      BY <1>2, <2>1, <2>2 DEF Streams
    <3> HIDE DEF after, taken
    <3>4. stats' \in Types /\ stats'.rtx = after /\ stats'.media = stats.media
      BY <1>3, <3>1, <3>2
    <3>5. wire'.taken["rtx"] = after /\ Together(wire'.taken["media"], wire'.taken["flexfec"]) = Together(taken["media"], taken["flexfec"])
      BY <1>2, <3>3 DEF Streams
    <3>6. QED
      BY <1>3, <1>5, <2>1, <3>4, <3>5 DEF CountersInv
  <2>3. CASE p.stream \in {"media", "flexfec"}
    <3> DEFINE after == Counted(stats.media, p.type)
               more == Counted(taken[p.stream], p.type)
    <3>1. after \in CounterSet
      BY <1>3, CountedIs
    <3>2. stats' = [stats EXCEPT !["media"] = after]
      BY <1>5, <2>3 DEF UpdateRtpStats, Counters
    <3>3. wire'.taken = [taken EXCEPT ![p.stream] = more]
      OBVIOUS
    <3>4. taken["media"] \in CounterSet /\ taken["flexfec"] \in CounterSet
      BY <1>2 DEF Streams
    <3>5. \/ after = Together(more, taken["flexfec"]) /\ p.stream = "media"
          \/ after = Together(taken["media"], more) /\ p.stream = "flexfec"
      BY <2>1, <2>3, <3>4, CountedSum
    <3> HIDE DEF after, taken, more
    <3>6. stats' \in Types /\ stats'.media = after /\ stats'.rtx = stats.rtx
      BY <1>3, <3>1, <3>2
    <3>7. Together(wire'.taken["media"], wire'.taken["flexfec"]) = after /\ wire'.taken["rtx"] = taken["rtx"]
      BY <1>2, <2>3, <3>3, <3>5 DEF Streams
    <3>8. QED
      BY <1>3, <1>5, <2>1, <3>6, <3>7 DEF CountersInv
  <2>4. QED
    BY <1>1, <2>2, <2>3 DEF Streams
<1>6. QED
  BY <1>4, <1>5

-------------------------------------------------------------------------------
(* Completing and sending a packet *)

\* The transport-wide number of p, if it has one, is the next.
NextTransport(p) == p.transport # None => p.transport = wire.transport + 1

LEMMA CompletedIs ==
  ASSUME TypeOK, CountersInv, conf' = conf, NEW member \in Members, NEW p \in Numbered,
         NEW last \in BOOLEAN, CompleteSendPacket(member, p, last)
  PROVE  /\ e' \in Members /\ e'.last = member.last /\ e'.checks = member.checks
         /\ e'.batch = member.batch /\ e'.pending = member.pending
         /\ wire' \in Wires /\ wire'.last = After(wire.last, p) /\ wire'.closed = last
         /\ wire'.transport = IF p.transport = None THEN wire.transport ELSE p.transport
         /\ ~wire.gap /\ InTurn(wire.last, p) /\ NextTransport(p) => ~wire'.gap
         /\ stats' \in [media : CounterSet, rtx : CounterSet]
         /\ observed' \in [Streams -> CounterSet]
         /\ CountersInv'
         /\ history' \in Seq(Remembered) /\ NoMorePending(history')
         /\ \A x \in ToSet(history') : x.pending /\ p.orig # None => x.seq # p.orig
<1>1. PICK success \in BOOLEAN :
        /\ wire' = OnWire(p, success, last)
        /\ history' = HistoryAfter(p, success)
        /\ e' = [member EXCEPT !.mediaSent = @ \/ success]
        /\ IF success THEN UpdateRtpStats(p) ELSE UNCHANGED <<stats, observed>>
  BY DEF CompleteSendPacket
<1>2. /\ e' \in Members /\ e'.last = member.last /\ e'.checks = member.checks
      /\ e'.batch = member.batch /\ e'.pending = member.pending
  BY <1>1 DEF Members
<1>3. history \in Seq(Remembered) /\ wire \in Wires
  BY DEF TypeOK
<1>4. /\ history' \in Seq(Remembered) /\ NoMorePending(history')
      /\ \A x \in ToSet(history') : x.pending /\ p.orig # None => x.seq # p.orig
  <2>1. /\ HistoryAfter(p, success) \in Seq(Remembered)
        /\ NoMorePending(HistoryAfter(p, success))
        /\ \A x \in ToSet(HistoryAfter(p, success)) :
                x.pending /\ p.orig # None => x.seq # p.orig
    BY <1>3, HistoryAfterIs
  <2>2. QED
    BY <1>1, <2>1
<1>5. /\ wire'.last = After(wire.last, p) /\ wire'.closed = last
      /\ wire'.transport = IF p.transport = None THEN wire.transport ELSE p.transport
      /\ wire'.taken = IF success THEN [wire.taken EXCEPT ![p.stream] = Counted(@, p.type)]
                       ELSE wire.taken
      /\ ~wire.gap /\ InTurn(wire.last, p) /\ NextTransport(p) => ~wire'.gap
  BY <1>1 DEF OnWire, After, InTurn, NextTransport
<1>6. wire' \in Wires
  <2>1. p.stream \in Streams /\ p.transport \in Int
    BY DEF Numbered, Sound, Shaped
  <2>2. After(wire.last, p) \in Lasts
    BY <1>3, AfterIs DEF Wires
  <2>3. wire.taken \in [Streams -> CounterSet] /\ wire.transport \in Int /\ wire.gap \in BOOLEAN
    BY <1>3 DEF Wires
  <2>4. wire'.taken \in [Streams -> CounterSet]
    <3>1. Counted(wire.taken[p.stream], p.type) \in CounterSet
      BY <2>1, <2>3, CountedIs
    <3>2. QED
      BY <1>5, <2>1, <2>3, <3>1
  <2>5. DOMAIN wire' = {"gap", "last", "transport", "closed", "taken"}
        /\ wire' = [gap |-> wire'.gap, last |-> wire'.last, transport |-> wire'.transport,
                    closed |-> wire'.closed, taken |-> wire'.taken]
    BY <1>1 DEF OnWire
  <2>6. wire'.gap \in BOOLEAN
    BY <1>1, <2>3 DEF OnWire
  <2>7. QED
    BY <1>5, <2>1, <2>2, <2>3, <2>4, <2>5, <2>6 DEF Wires
<1>7. /\ stats' \in [media : CounterSet, rtx : CounterSet]
      /\ observed' \in [Streams -> CounterSet]
      /\ CountersInv'
  <2>1. CASE success
    BY <1>1, <1>5, <2>1, CountersAfter
  <2>2. CASE ~success
    BY <1>1, <1>5, <2>2 DEF CountersInv, TypeOK
  <2>3. QED
    BY <2>1, <2>2
<1>8. QED
  BY <1>2, <1>4, <1>5, <1>6, <1>7

\* A packet that is sent is protected with the parameters set last.
LEMMA ProtectIs ==
  ASSUME TypeOK, FecInv, asked' = asked, NEW p, Protect(p),
         e'.pending = IF IsProtected(p) THEN None ELSE e.pending
  PROVE  /\ fec' \in [params : Int, protected : Nat, ready : Nat] /\ FecInv'
         /\ fec'.protected # fec.protected => fec'.params = asked
<1>1. fec \in [params : Int, protected : Nat, ready : Nat] /\ e.pending \in Int
  BY DEF TypeOK, Members
<1>2. CASE IsProtected(p)
  <2>1. PICK more \in {0, 1} :
            fec' = [params |-> ProtectionParameters, protected |-> fec.protected + 1,
                    ready |-> fec.ready + more]
    BY <1>2 DEF Protect
  <2>2. ProtectionParameters = asked /\ asked \in Int
    BY DEF ProtectionParameters, FecInv, TypeOK
  <2>3. QED
    BY <1>1, <1>2, <2>1, <2>2 DEF FecInv
<1>3. CASE ~IsProtected(p)
  BY <1>1, <1>3 DEF Protect, FecInv
<1>4. QED
  BY <1>2, <1>3

\* Packet p is ready for SendPacket: it is in turn, it has a transport-wide number
\* only without a pacer.
Ready(p) ==
    /\ p \in Numbered
    /\ InTurn(e.last, p)
    /\ NextTransport(p)
    /\ conf.paced => p.transport = None

LEMMA SendPacketIs ==
  ASSUME TypeOK, TurnInv, NumbersInv, WireInv, CountersInv, FecInv,
         conf' = conf, asked' = asked, NEW p, Ready(p), SendPacket(p)
  PROVE  /\ e' \in Members /\ e'.checks /\ e'.last = After(e.last, p)
         /\ e'.batch = IF conf.batching THEN Append(e.batch, p) ELSE <<>>
         /\ wire' \in Wires /\ ~wire'.gap /\ Chained(wire'.last, e'.batch, e'.last)
         /\ wire'.transport = IF p.transport = None THEN wire.transport ELSE p.transport
         /\ conf.batching => wire'.closed = wire.closed
         /\ stats' \in [media : CounterSet, rtx : CounterSet]
         /\ observed' \in [Streams -> CounterSet]
         /\ CountersInv'
         /\ fec' \in [params : Int, protected : Nat, ready : Nat] /\ FecInv'
         /\ fec'.protected # fec.protected => fec'.params = asked
         /\ history' \in Seq(Remembered) /\ NoMorePending(history')
         /\ ~conf.batching => \A x \in ToSet(history') :
                                x.pending /\ p.orig # None => x.seq # p.orig
<1> DEFINE pending == IF IsProtected(p) THEN None ELSE e.pending
           member == [Checked(p) EXCEPT !.pending = IF IsProtected(p) THEN None ELSE @]
<1>1. p \in Numbered /\ InTurn(e.last, p) /\ NextTransport(p)
      /\ (conf.paced => p.transport = None)
  BY DEF Ready
<1>2. e \in Members /\ conf \in Configurations /\ e.last \in Lasts
  BY DEF TypeOK, Members
<1>3. After(e.last, p) \in Lasts
  BY <1>1, <1>2, AfterIs
<1>4. HasCorrectSsrc(p) /\ (p.type = "retransmission" => p.orig # None)
  BY <1>1 DEF Numbered, Sound
<1>5. e.checks /\ e.pending \in Int /\ e.batch \in Seq(Packets \cap Numbered)
  BY <1>2 DEF NumbersInv, Members
<1>6. /\ member \in Members /\ member.last = After(e.last, p) /\ member.checks
      /\ member.batch = e.batch /\ member.pending = pending
  <2>1. Checked(p) = [e EXCEPT !.checks = TRUE, !.last = After(e.last, p)]
    <3>1. (/\ e.checks
           /\ TakesNumber(p) => Follows(e.last[p.stream], p.seq)
           /\ HasCorrectSsrc(p)
           /\ p.type = "retransmission" => p.orig # None) = TRUE
      BY <1>1, <1>4, <1>5 DEF InTurn
    <3>2. QED
      BY <3>1 DEF Checked, After
  <2> DEFINE l == After(e.last, p)
  <2> HIDE DEF l
  <2>2. member = [e EXCEPT !.checks = TRUE, !.last = l, !.pending = pending]
    BY <1>2, <2>1 DEF l, Members
  <2>3. pending \in Int /\ l \in Lasts
    BY <1>3, <1>5 DEF None, l
  <2> HIDE DEF pending, member
  <2>4. QED
    BY <1>2, <2>2, <2>3 DEF Members, l
<1>7. Protect(p)
  BY DEF SendPacket
<1>8. CASE conf.batching
  <2>1. e' = [member EXCEPT !.batch = Append(@, p)] /\ UNCHANGED <<wire, history, stats, observed>>
    BY <1>8 DEF SendPacket
  <2>2. p \in Packets
    <3>1. conf.paced
      BY <1>2, <1>8, EgressAssumption
    <3>2. QED
      BY <1>1, <3>1 DEF Packets, Numbered
  <2>3. Append(e.batch, p) \in Seq(Packets \cap Numbered)
    BY <1>1, <1>5, <2>2
  <2> HIDE DEF member, pending
  <2>4. /\ e' \in Members /\ e'.last = After(e.last, p) /\ e'.checks
        /\ e'.batch = Append(e.batch, p) /\ e'.pending = pending
    BY <1>6, <2>1, <2>3 DEF Members
  <2>5. Chained(wire.last, Append(e.batch, p), After(e.last, p))
    BY <1>1, <1>2, <1>5, <2>2, ChainAppend DEF WireInv
  <2>6. /\ fec' \in [params : Int, protected : Nat, ready : Nat] /\ FecInv'
        /\ fec'.protected # fec.protected => fec'.params = asked
    BY <1>7, <2>4, ProtectIs DEF pending
  <2>7. wire' \in Wires /\ ~wire'.gap /\ CountersInv'
        /\ stats' \in [media : CounterSet, rtx : CounterSet]
        /\ observed' \in [Streams -> CounterSet]
        /\ history' \in Seq(Remembered) /\ NoMorePending(history')
    BY <2>1 DEF TypeOK, WireInv, CountersInv, NoMorePending
  <2>8. p.transport = None
    BY <2>2 DEF Packets
  <2>9. QED
    BY <1>8, <2>1, <2>4, <2>5, <2>6, <2>7, <2>8
<1>9. CASE ~conf.batching
  <2>1. CompleteSendPacket(member, p, FALSE)
    BY <1>9 DEF SendPacket
  <2> HIDE DEF member, pending
  <2>2. e.batch = <<>> /\ wire.last = e.last
    <3>1. e.batch = <<>>
      BY <1>9 DEF TurnInv
    <3>2. wire.last \in Lasts
      BY DEF TypeOK, Wires
    <3>3. QED
      BY <3>1, <3>2, ChainOfNone DEF WireInv
  <2>3. /\ e' \in Members /\ e'.last = After(e.last, p) /\ e'.checks
        /\ e'.batch = <<>> /\ e'.pending = pending
        /\ wire' \in Wires /\ wire'.last = After(e.last, p) /\ ~wire'.gap
        /\ wire'.transport = IF p.transport = None THEN wire.transport ELSE p.transport
        /\ stats' \in [media : CounterSet, rtx : CounterSet]
        /\ observed' \in [Streams -> CounterSet]
        /\ CountersInv'
        /\ history' \in Seq(Remembered) /\ NoMorePending(history')
        /\ \A x \in ToSet(history') : x.pending /\ p.orig # None => x.seq # p.orig
    <3>1. ~wire.gap
      BY DEF WireInv
    <3>2. QED
      BY <1>1, <1>6, <2>1, <2>2, <3>1, CompletedIs
  <2>4. Chained(After(e.last, p), <<>>, After(e.last, p))
    BY <1>3, ChainOfNone
  <2>5. /\ fec' \in [params : Int, protected : Nat, ready : Nat] /\ FecInv'
        /\ fec'.protected # fec.protected => fec'.params = asked
    BY <1>7, <2>3, ProtectIs DEF pending
  <2>6. QED
    BY <1>9, <2>3, <2>4, <2>5
<1>10. QED
  BY <1>8, <1>9

-------------------------------------------------------------------------------
(* New packets, and their numbers *)

LEMMA PacketsAre ==
  ASSUME TypeOK
  PROVE  /\ \A media \in Media : MediaPacket(media) \in Packets
         /\ FecPackets \in Seq(Packets) /\ (fec.ready = 0 => FecPackets = <<>>)
         /\ \A orig \in Int : PaddingPacket(orig) \in Packets
         /\ \A seq \in Nat : Retransmission(seq) \in Packets /\ Retransmission(seq).orig = seq
<1>1. /\ Media \subseteq [key : BOOLEAN, again : BOOLEAN, protect : BOOLEAN]
      /\ conf.rtx \in BOOLEAN /\ conf.fec \in {"none", "ulp", "flex"}
  BY EgressAssumption DEF TypeOK
<1>2. ASSUME NEW media \in Media
      PROVE  MediaPacket(media) \in Packets
  <2>1. media.key \in BOOLEAN /\ media.again \in BOOLEAN /\ media.protect \in BOOLEAN
    BY <1>1
  <2> DEFINE p == Packet("media", "media", None)
             q == MediaPacket(media)
  <2>2. p \in Shaped /\ p.type = "media" /\ p.stream = "media" /\ p.orig = None
        /\ p.transport = None
    BY DEF Packet, Shaped, Streams, None
  <2>3. q = [p EXCEPT !.key = media.key, !.again = media.again, !.protect = media.protect]
    BY DEF MediaPacket
  <2> HIDE DEF p, q
  <2>4. q \in Shaped /\ q.type = "media" /\ q.stream = "media" /\ q.orig = None
        /\ q.transport = None
    BY <2>1, <2>2, <2>3 DEF Shaped
  <2>5. q \in Packets
    BY <2>4 DEF Packets, Sound, HasCorrectSsrc
  <2>6. QED
    BY <2>5 DEF q
<1>3. FecPacket \in Packets
  BY <1>1 DEF FecPacket, Packet, Packets, Sound, Shaped, HasCorrectSsrc, Streams, None
<1>4. FecPackets \in Seq(Packets) /\ (fec.ready = 0 => FecPackets = <<>>)
  <2>1. fec.ready \in Nat
    BY DEF TypeOK
  <2> DEFINE n == fec.ready
             p == FecPacket
  <2>2. p \in Packets /\ n \in Nat /\ FecPackets = [i \in 1 .. n |-> p]
    BY <1>3, <2>1 DEF FecPackets
  <2> HIDE DEF n, p
  <2>3. FecPackets \in Seq(Packets) /\ (n = 0 => FecPackets = <<>>)
    BY <2>2
  <2>4. QED
    BY <2>3 DEF n
<1>5. ASSUME NEW orig \in Int
      PROVE  PaddingPacket(orig) \in Packets
  <2> DEFINE s == IF conf.rtx THEN "rtx" ELSE "media"
             p == Packet("padding", s, orig)
  <2>1. s \in {"media", "rtx"} /\ s \in Streams
    BY DEF Streams
  <2> HIDE DEF s
  <2>2. p \in Shaped /\ p.type = "padding" /\ p.stream = s /\ p.transport = None
    BY <2>1 DEF Packet, Shaped, None
  <2> HIDE DEF p
  <2>3. p \in Packets
    BY <2>1, <2>2 DEF Packets, Sound, HasCorrectSsrc
  <2>4. QED
    BY <2>3 DEF p, s, PaddingPacket
<1>6. ASSUME NEW seq \in Nat
      PROVE  Retransmission(seq) \in Packets /\ Retransmission(seq).orig = seq
  <2>1. seq # None /\ seq \in Int
    BY DEF None
  <2> DEFINE p == Packet("retransmission", "rtx", seq)
             q == Packet("retransmission", "media", seq)
             r == [q EXCEPT !.seq = seq]
  <2>2. /\ p \in Shaped /\ p.type = "retransmission" /\ p.stream = "rtx" /\ p.orig = seq
        /\ p.transport = None
        /\ q \in Shaped /\ q.type = "retransmission" /\ q.stream = "media" /\ q.orig = seq
        /\ q.transport = None
    BY <2>1 DEF Packet, Shaped, Streams, None
  <2> HIDE DEF p, q
  <2>3. /\ r \in Shaped /\ r.type = "retransmission" /\ r.stream = "media" /\ r.orig = seq
        /\ r.transport = None
    BY <2>1, <2>2 DEF Shaped
  <2> HIDE DEF r
  <2>4. p \in Packets /\ r \in Packets
    BY <2>1, <2>2, <2>3 DEF Packets, Sound, HasCorrectSsrc
  <2>5. Retransmission(seq) = IF conf.rtx THEN p ELSE r
    BY DEF Retransmission, p, q, r
  <2>6. QED
    BY <2>2, <2>3, <2>4, <2>5
<1>7. QED
  BY <1>2, <1>4, <1>5, <1>6

\* A packet that takes the next number of its stream is in turn, and the number
\* after it follows.
LEMMA SequencedIs ==
  ASSUME TypeOK, NumbersInv, NEW p \in Packets
  PROVE  LET q == Sequenced(p, numbers)
             m == SequencerAfter(p, numbers)
         IN  /\ q \in Packets /\ q \in Numbered /\ InTurn(e.last, q) /\ q.orig = p.orig
             /\ q.stream = p.stream
             /\ m \in [media : Nat, rtx : Nat, transport : Nat]
             /\ m.transport = numbers.transport
             /\ Follows(After(e.last, q).media, m.media)
             /\ Follows(After(e.last, q).rtx, m.rtx)
<1> DEFINE q == Sequenced(p, numbers)
           m == SequencerAfter(p, numbers)
           T == [media : Nat, rtx : Nat, transport : Nat]
<1>1. numbers \in T /\ e.last \in Lasts /\ Numbers \in Nat \ {0}
      /\ Follows(e.last.media, numbers.media) /\ Follows(e.last.rtx, numbers.rtx)
  BY EgressAssumption DEF TypeOK, Members, NumbersInv
<1>2. CASE TakesNumber(p)
  <2> DEFINE n == numbers[p.stream]
             next == (n + 1) % Numbers
  <2>1. p.stream \in {"media", "rtx"} /\ n \in Nat /\ Follows(e.last[p.stream], n)
    BY <1>1, <1>2 DEF TakesNumber
  <2>2. next \in Nat
    BY <1>1, <2>1
  <2>3. q = [p EXCEPT !.seq = n] /\ m = [numbers EXCEPT ![p.stream] = next]
    BY <1>2 DEF Sequenced, SequencerAfter
  <2> HIDE DEF next, n, q, m
  <2>4. /\ q.seq = n /\ q.type = p.type /\ q.stream = p.stream /\ q.orig = p.orig
        /\ q.transport = p.transport /\ q \in Shaped
    BY <2>1, <2>3 DEF Packets, Sound, Shaped
  <2>5. q \in Packets /\ q \in Numbered /\ TakesNumber(q)
    BY <1>2, <2>1, <2>4 DEF Packets, Numbered, Sound, TakesNumber, HasCorrectSsrc
  <2>6. InTurn(e.last, q) /\ After(e.last, q) = [e.last EXCEPT ![p.stream] = n]
    BY <2>1, <2>4, <2>5 DEF InTurn, After
  <2>7. m \in T /\ m.transport = numbers.transport /\ m[p.stream] = next
        /\ \A s \in {"media", "rtx"} \ {p.stream} : m[s] = numbers[s]
    BY <1>1, <2>1, <2>2, <2>3
  <2>8. Follows(n, next)
    BY DEF Follows, next
  <2>9. /\ Follows(After(e.last, q).media, m.media)
        /\ Follows(After(e.last, q).rtx, m.rtx)
    <3>1. CASE p.stream = "media"
      BY <1>1, <2>6, <2>7, <2>8, <3>1 DEF Lasts
    <3>2. CASE p.stream = "rtx"
      BY <1>1, <2>6, <2>7, <2>8, <3>2 DEF Lasts
    <3>3. QED
      BY <2>1, <3>1, <3>2
  <2>10. QED
    BY <2>4, <2>5, <2>6, <2>7, <2>9 DEF q, m
<1>3. CASE ~TakesNumber(p)
  <2>1. q = p /\ m = numbers
    BY <1>3 DEF Sequenced, SequencerAfter
  <2>2. q \in Numbered /\ After(e.last, q) = e.last /\ InTurn(e.last, q)
    BY <1>3, <2>1 DEF Packets, Numbered, After, InTurn
  <2> HIDE DEF q, m
  <2>3. QED
    BY <1>1, <2>1, <2>2 DEF q, m
<1>4. QED
  BY <1>2, <1>3

-------------------------------------------------------------------------------
(* The actions *)

\* Of the packets the history holds as pending none is in gone, and those under way
\* of another stay.
LEMMA StillRequestable ==
  ASSUME ~conf.flush => RequestableAgain, conf' = conf, NEW gone,
         NoMorePending(history'),
         \A x \in ToSet(history') : x.pending => x.seq \notin gone,
         \A x \in Underway : x.orig \notin gone => \E y \in Underway' : y.orig = x.orig
  PROVE  (~conf.flush => RequestableAgain)'
<1>1. SUFFICES ASSUME ~conf.flush, NEW h \in ToSet(history'), h.pending
               PROVE  \E y \in Underway' : y.orig = h.seq
  BY DEF RequestableAgain
<1>2. PICK g \in ToSet(history) : g.pending /\ g.seq = h.seq
  BY <1>1 DEF NoMorePending
<1>3. PICK x \in Underway : x.orig = h.seq
  BY <1>1, <1>2 DEF RequestableAgain
<1>4. QED
  BY <1>1, <1>3

\* What is under way, when it stays and the history does too.
LEMMA RequestableStays ==
  ASSUME IInv, conf' = conf, history' = history, Underway \subseteq Underway'
  PROVE  (~conf.flush => RequestableAgain)'
<1> DEFINE none == {}
<1>1. NoMorePending(history') /\ \A x \in ToSet(history') : x.pending => x.seq \notin none
  BY DEF NoMorePending
<1>2. \A x \in Underway : x.orig \notin none => \E y \in Underway' : y.orig = x.orig
  OBVIOUS
<1>3. ~conf.flush => RequestableAgain
  BY DEF IInv
<1> HIDE DEF none
<1>4. QED
  BY <1>1, <1>2, <1>3, StillRequestable

LEMMA InitIInv ==
  Init => IInv
<1>1. SUFFICES ASSUME Init PROVE IInv
  OBVIOUS
<1>2. Numbers - 1 \in Nat
  BY EgressAssumption
<1>3. NoCounters \in CounterSet /\ Together(NoCounters, NoCounters) = NoCounters
  BY DEF NoCounters, CounterSet, Together
<1>4. e = [last |-> [media |-> None, rtx |-> None], checks |-> TRUE, batch |-> <<>>,
           pending |-> None, mediaSent |-> FALSE]
      /\ wire = [gap |-> FALSE, last |-> [media |-> None, rtx |-> None], transport |-> 0,
                 closed |-> TRUE, taken |-> [stream \in Streams |-> NoCounters]]
  BY <1>1 DEF Init
<1>5. e \in Members /\ wire \in Wires
  BY <1>3, <1>4 DEF Members, Wires, Lasts, None
<1>6. TypeOK
  <2>1. /\ numbers \in [media : Nat, rtx : Nat, transport : Nat]
        /\ fec \in [params : Int, protected : Nat, ready : Nat]
        /\ made \in [media : Nat, nacks : Nat, fec : Nat, padding : Nat, params : Nat]
        /\ asked \in Int
    BY <1>1, <1>2 DEF Init, None
  <2>2. stats \in [media : CounterSet, rtx : CounterSet] /\ observed \in [Streams -> CounterSet]
    BY <1>1, <1>3 DEF Init
  <2>3. /\ conf \in Configurations /\ queue = <<>> /\ current = <<>> /\ history = <<>>
        /\ turn = "idle"
    BY <1>1 DEF Init
  <2>4. QED
    BY <1>5, <2>1, <2>2, <2>3 DEF TypeOK
<1>7. TurnInv
  BY <1>1 DEF Init, TurnInv
<1>8. NumbersInv
  BY <1>1 DEF Init, NumbersInv, Follows
<1>9. WireInv
  <2>1. e.last = wire.last /\ e.batch = <<>> /\ wire.last \in Lasts
    BY <1>4, <1>5 DEF Wires
  <2>2. Chained(wire.last, e.batch, e.last)
    BY <2>1, ChainOfNone
  <2>3. QED
    BY <1>1, <1>4, <2>2 DEF Init, WireInv
<1>10. CountersInv
  BY <1>1, <1>3 DEF Init, CountersInv, Streams
<1>11. FecInv
  BY <1>1 DEF Init, FecInv
<1>12. RequestableAgain
  BY <1>1, EmptyIs DEF Init, RequestableAgain
<1>13. QED
  BY <1>6, <1>7, <1>8, <1>9, <1>10, <1>11, <1>12 DEF IInv

LEMMA SetParametersIInv ==
  ASSUME IInv, SetFecProtectionParameters PROVE IInv'
<1> DEFINE n == made.params + 1
<1>1. /\ made' = [made EXCEPT !.params = n] /\ asked' = n /\ e' = [e EXCEPT !.pending = n]
      /\ UNCHANGED <<conf, queue, turn, current, numbers, stats, observed, history, fec, wire>>
  BY DEF SetFecProtectionParameters
<1>2. TypeOK /\ TurnInv /\ NumbersInv /\ WireInv /\ CountersInv
  BY DEF IInv
<1>3. n \in Nat /\ n # None
  <2>1. made.params \in Nat
    BY <1>2 DEF TypeOK
  <2>2. QED
    BY <2>1 DEF None
<1> HIDE DEF n
<1>4. /\ e' \in Members /\ e'.pending = n /\ e'.last = e.last /\ e'.checks = e.checks
      /\ e'.batch = e.batch
  <2>1. e \in Members /\ n \in Int /\ e' = [e EXCEPT !.pending = n]
    BY <1>1, <1>2, <1>3 DEF TypeOK
  <2>2. QED
    BY <2>1 DEF Members
<1>5. TypeOK'
  <2>1. made' \in [media : Nat, nacks : Nat, fec : Nat, padding : Nat, params : Nat]
    BY <1>1, <1>2, <1>3 DEF TypeOK
  <2>2. asked' \in Int
    BY <1>1, <1>3
  <2>3. QED
    BY <1>1, <1>2, <1>4, <2>1, <2>2 DEF TypeOK
<1>6. TurnInv' /\ NumbersInv' /\ WireInv' /\ CountersInv' /\ FecInv'
  BY <1>1, <1>2, <1>3, <1>4 DEF TurnInv, NumbersInv, WireInv, CountersInv, FecInv
<1>7. (~conf.flush => RequestableAgain)'
  <2>1. Underway \subseteq Underway'
    BY <1>1, <1>4 DEF Underway
  <2>2. QED
    BY <1>1, <2>1, RequestableStays
<1>8. QED
  BY <1>5, <1>6, <1>7 DEF IInv

LEMMA RunTaskIInv ==
  ASSUME IInv, RunTask PROVE IInv'
<1>1. /\ ~conf.paced /\ turn = "idle" /\ queue # <<>>
      /\ turn' = "task" /\ current' = Head(queue) /\ queue' = Tail(queue)
      /\ UNCHANGED <<conf, numbers, e, stats, observed, history, fec, wire, asked, made>>
  BY DEF RunTask
<1>2. TypeOK /\ TurnInv /\ NumbersInv /\ WireInv /\ CountersInv /\ FecInv
  BY DEF IInv
<1>3. queue \in Seq(Seq(Packets))
  BY <1>1, <1>2 DEF TypeOK
<1>4. /\ Head(queue) \in Seq(Packets) /\ Tail(queue) \in Seq(Seq(Packets))
      /\ ToSet(queue) = {Head(queue)} \cup ToSet(Tail(queue))
  BY <1>1, <1>3, HeadTailIs
<1>5. TypeOK'
  BY <1>1, <1>2, <1>4 DEF TypeOK
<1>6. TurnInv' /\ NumbersInv' /\ WireInv' /\ CountersInv' /\ FecInv'
  <2>1. TurnInv'
    BY <1>1, <1>2, EgressAssumption DEF TurnInv, TypeOK
  <2>2. QED
    BY <1>1, <1>2, <2>1 DEF NumbersInv, WireInv, CountersInv, FecInv
<1>7. (~conf.flush => RequestableAgain)'
  <2>1. current = <<>>
    BY <1>1, <1>2 DEF TurnInv
  <2>2. Underway = ToSet(e.batch) \cup UNION {ToSet(task) : task \in ToSet(queue)}
    BY <1>1, <2>1, EmptyIs DEF Underway
  <2>3. Underway' = ToSet(Head(queue)) \cup ToSet(e.batch)
                    \cup UNION {ToSet(task) : task \in ToSet(Tail(queue))}
    BY <1>1 DEF Underway
  <2>4. Underway \subseteq Underway'
    BY <1>4, <2>2, <2>3
  <2>5. QED
    BY <1>1, <2>4, RequestableStays
<1>8. QED
  BY <1>5, <1>6, <1>7 DEF IInv

LEMMA SendOfTaskIInv ==
  ASSUME IInv, SendOfTask
  PROVE  IInv' /\ (fec'.protected # fec.protected => fec'.params = asked)
<1> DEFINE p == Head(current)
           s == Sequenced(p, numbers)
           q == PrepareForSend(p)
           m == SequencerAfter(p, numbers)
<1>1. /\ turn = "task" /\ current # <<>> /\ SendPacket(q)
      /\ numbers' = NumbersAfter(p) /\ current' = Tail(current)
      /\ UNCHANGED <<conf, queue, turn, asked, made>>
  BY DEF SendOfTask
<1>2. TypeOK /\ TurnInv /\ NumbersInv /\ WireInv /\ CountersInv /\ FecInv
      /\ (~conf.flush => RequestableAgain)
  BY DEF IInv
<1>3. ~conf.paced /\ ~conf.batching
  BY <1>1, <1>2, EgressAssumption DEF TurnInv, TypeOK
<1>4. /\ p \in Packets /\ Tail(current) \in Seq(Packets)
      /\ ToSet(current) = {p} \cup ToSet(Tail(current))
  BY <1>1, <1>2, HeadTailIs DEF TypeOK
<1>5. /\ s \in Packets /\ s \in Numbered /\ InTurn(e.last, s) /\ s.orig = p.orig
      /\ s.stream = p.stream
      /\ m \in [media : Nat, rtx : Nat, transport : Nat] /\ m.transport = numbers.transport
      /\ Follows(After(e.last, s).media, m.media) /\ Follows(After(e.last, s).rtx, m.rtx)
  BY <1>2, <1>4, SequencedIs
<1> DEFINE t == IF HasTransportNumber(p) THEN numbers.transport + 1 ELSE None
           u == IF HasTransportNumber(p) THEN numbers.transport + 1 ELSE numbers.transport
<1>6. numbers.transport \in Nat /\ t \in Int /\ u \in Nat /\ (t = None => u = numbers.transport)
      /\ (t # None => t = numbers.transport + 1 /\ u = t)
  <2>1. numbers.transport \in Nat
    BY <1>2 DEF TypeOK
  <2>2. QED
    BY <2>1 DEF None
<1>7. q = [s EXCEPT !.transport = t] /\ NumbersAfter(p) = [m EXCEPT !.transport = u]
  BY <1>5 DEF PrepareForSend, NumbersAfter
<1> HIDE DEF p, s, q, m, t, u
<1>8. /\ q \in Shaped /\ q.transport = t /\ q.type = s.type /\ q.stream = s.stream
      /\ q.orig = s.orig /\ q.seq = s.seq
  BY <1>5, <1>6, <1>7 DEF Packets, Sound, Shaped
<1>9. q \in Numbered /\ InTurn(e.last, q) /\ After(e.last, q) = After(e.last, s)
  BY <1>5, <1>8 DEF Numbered, Packets, Sound, HasCorrectSsrc, TakesNumber, InTurn, After
<1>10. /\ numbers' \in [media : Nat, rtx : Nat, transport : Nat]
       /\ numbers'.transport = u /\ numbers'.media = m.media /\ numbers'.rtx = m.rtx
  BY <1>1, <1>5, <1>6, <1>7
<1>11. wire.transport = numbers.transport
  BY <1>2, <1>3 DEF WireInv
<1>12. Ready(q)
  BY <1>3, <1>6, <1>8, <1>9, <1>11 DEF Ready, NextTransport
<1>13. /\ e' \in Members /\ e'.checks /\ e'.last = After(e.last, q) /\ e'.batch = <<>>
       /\ wire' \in Wires /\ ~wire'.gap /\ Chained(wire'.last, e'.batch, e'.last)
       /\ wire'.transport = IF q.transport = None THEN wire.transport ELSE q.transport
       /\ stats' \in [media : CounterSet, rtx : CounterSet]
       /\ observed' \in [Streams -> CounterSet]
       /\ CountersInv'
       /\ fec' \in [params : Int, protected : Nat, ready : Nat] /\ FecInv'
       /\ (fec'.protected # fec.protected => fec'.params = asked)
       /\ history' \in Seq(Remembered) /\ NoMorePending(history')
       /\ \A x \in ToSet(history') : x.pending /\ q.orig # None => x.seq # q.orig
  BY <1>1, <1>2, <1>3, <1>12, SendPacketIs
<1>14. TypeOK'
  BY <1>1, <1>2, <1>4, <1>10, <1>13 DEF TypeOK
<1>15. TurnInv' /\ NumbersInv'
  BY <1>1, <1>2, <1>3, <1>5, <1>9, <1>10, <1>13 DEF TurnInv, NumbersInv
<1>16. WireInv'
  BY <1>6, <1>8, <1>10, <1>11, <1>13 DEF WireInv
<1>17. (~conf.flush => RequestableAgain)'
  <2> DEFINE gone == {p.orig}
  <2>1. \A x \in ToSet(history') : x.pending => x.seq \notin gone
    <3>1. \A x \in ToSet(history') : x.seq # None
      <4>1. ToSet(history') \subseteq Remembered
        BY <1>13, ElementsOf
      <4>2. QED
        BY <4>1 DEF Remembered, None
    <3>2. QED
      BY <1>5, <1>8, <1>13, <3>1
  <2>2. \A x \in Underway : x.orig \notin gone => x \in Underway'
    <3>1. e.batch = <<>>
      BY <1>2, <1>3 DEF TurnInv
    <3>2. QED
      BY <1>1, <1>3, <1>4, <3>1, EmptyIs DEF Underway
  <2> HIDE DEF gone
  <2>3. QED
    BY <1>1, <1>2, <1>13, <2>1, <2>2, StillRequestable
<1>18. QED
  BY <1>13, <1>14, <1>15, <1>16, <1>17 DEF IInv

\* The FEC packets are fetched: what that changes of fec and made.
LEMMA FetchIs ==
  ASSUME TypeOK, FecInv, FetchFecPackets, asked' = asked, e' = e
  PROVE  /\ fec' \in [params : Int, protected : Nat, ready : Nat]
         /\ fec'.protected = fec.protected /\ FecInv'
         /\ made' \in [media : Nat, nacks : Nat, fec : Nat, padding : Nat, params : Nat]
<1>1. /\ fec \in [params : Int, protected : Nat, ready : Nat]
      /\ made \in [media : Nat, nacks : Nat, fec : Nat, padding : Nat, params : Nat]
  BY DEF TypeOK
<1>2. fec' = [fec EXCEPT !.ready = 0] /\ made' = [made EXCEPT !.fec = @ + fec.ready]
  BY DEF FetchFecPackets
<1>3. fec' \in [params : Int, protected : Nat, ready : Nat] /\ fec'.protected = fec.protected
      /\ fec'.params = fec.params
  BY <1>1, <1>2
<1>4. QED
  BY <1>1, <1>2, <1>3 DEF FecInv

LEMMA EndOfTaskIInv ==
  ASSUME IInv, EndOfTask PROVE IInv' /\ fec'.protected = fec.protected
<1>1. /\ turn = "task" /\ current = <<>> /\ FetchFecPackets /\ current' = FecPackets
      /\ turn' = IF fec.ready > 0 THEN "task" ELSE "idle"
      /\ UNCHANGED <<conf, queue, numbers, e, stats, observed, history, wire, asked>>
  BY DEF EndOfTask
<1>2. TypeOK /\ TurnInv /\ NumbersInv /\ WireInv /\ CountersInv /\ FecInv
  BY DEF IInv
<1>3. FecPackets \in Seq(Packets) /\ (fec.ready = 0 => FecPackets = <<>>)
  BY <1>2, PacketsAre
<1>4. /\ fec' \in [params : Int, protected : Nat, ready : Nat]
      /\ fec'.protected = fec.protected /\ FecInv'
      /\ made' \in [media : Nat, nacks : Nat, fec : Nat, padding : Nat, params : Nat]
  BY <1>1, <1>2, FetchIs
<1>5. TypeOK'
  BY <1>1, <1>2, <1>3, <1>4 DEF TypeOK
<1>6. TurnInv'
  <2>1. fec.ready \in Nat /\ conf \in Configurations
    BY <1>2 DEF TypeOK
  <2>2. QED
    BY <1>1, <1>2, <1>3, <2>1, EgressAssumption DEF TurnInv
<1>7. NumbersInv' /\ WireInv' /\ CountersInv'
  BY <1>1, <1>2 DEF NumbersInv, WireInv, CountersInv
<1>8. (~conf.flush => RequestableAgain)'
  <2>1. Underway \subseteq Underway'
    BY <1>1, EmptyIs DEF Underway
  <2>2. QED
    BY <1>1, <2>1, RequestableStays
<1>9. QED
  BY <1>4, <1>5, <1>6, <1>7, <1>8 DEF IInv

LEMMA StartPacingIInv ==
  ASSUME IInv, StartPacing PROVE IInv'
<1>1. /\ conf.paced /\ turn = "idle" /\ turn' = "pacing"
      /\ UNCHANGED <<conf, queue, current, numbers, e, stats, observed, history, fec, wire,
                     asked, made>>
  BY DEF StartPacing
<1>2. TypeOK /\ TurnInv /\ NumbersInv /\ WireInv /\ CountersInv /\ FecInv
  BY DEF IInv
<1>3. TypeOK' /\ TurnInv' /\ NumbersInv' /\ WireInv' /\ CountersInv' /\ FecInv'
  BY <1>1, <1>2 DEF TypeOK, TurnInv, NumbersInv, WireInv, CountersInv, FecInv
<1>4. Underway \subseteq Underway'
  BY <1>1 DEF Underway
<1>5. QED
  BY <1>1, <1>3, <1>4, RequestableStays DEF IInv

LEMMA StopPacingIInv ==
  ASSUME IInv, StopPacing PROVE IInv'
<1>1. /\ turn = "pacing" /\ turn' = "batch"
      /\ UNCHANGED <<conf, queue, current, numbers, e, stats, observed, history, fec, wire,
                     asked, made>>
  BY DEF StopPacing
<1>2. TypeOK /\ TurnInv /\ NumbersInv /\ WireInv /\ CountersInv /\ FecInv
  BY DEF IInv
<1>3. TypeOK' /\ TurnInv' /\ NumbersInv' /\ WireInv' /\ CountersInv' /\ FecInv'
  BY <1>1, <1>2 DEF TypeOK, TurnInv, NumbersInv, WireInv, CountersInv, FecInv
<1>4. Underway \subseteq Underway'
  BY <1>1 DEF Underway
<1>5. QED
  BY <1>1, <1>3, <1>4, RequestableStays DEF IInv

LEMMA SendPacedIInv ==
  ASSUME IInv, SendPaced
  PROVE  IInv' /\ (fec'.protected # fec.protected => fec'.params = asked)
<1>1. turn = "pacing" /\ UNCHANGED <<conf, turn, current, asked, made>>
  BY DEF SendPaced
<1>2. PICK i \in DOMAIN queue :
        /\ SendPacket(Sequenced(queue[i], numbers))
        /\ numbers' = SequencerAfter(queue[i], numbers)
        /\ queue' = RemoveAt(queue, i)
  BY DEF SendPaced
<1>3. TypeOK /\ TurnInv /\ NumbersInv /\ WireInv /\ CountersInv /\ FecInv
      /\ (~conf.flush => RequestableAgain)
  BY DEF IInv
<1>4. conf.paced /\ queue \in Seq(Packets)
  BY <1>1, <1>3 DEF TurnInv, TypeOK
<1> DEFINE p == queue[i]
           q == Sequenced(p, numbers)
           m == SequencerAfter(p, numbers)
           rest == RemoveAt(queue, i)
<1>5. p \in Packets /\ rest \in Seq(Packets) /\ ToSet(queue) = {p} \cup ToSet(rest)
  <2>1. i \in 1 .. Len(queue)
    BY <1>4, ElementsOf
  <2>2. QED
    BY <1>4, <2>1, RemoveAtIs, ElementOfSeq
<1>6. /\ q \in Packets /\ q \in Numbered /\ InTurn(e.last, q) /\ q.orig = p.orig
      /\ m \in [media : Nat, rtx : Nat, transport : Nat] /\ m.transport = numbers.transport
      /\ Follows(After(e.last, q).media, m.media) /\ Follows(After(e.last, q).rtx, m.rtx)
  BY <1>3, <1>5, SequencedIs
<1>7. SendPacket(q) /\ numbers' = m /\ queue' = rest
  BY <1>2
<1> HIDE DEF p, q, m, rest
<1>8. q.transport = None /\ Ready(q)
  BY <1>6 DEF Ready, NextTransport, Packets
<1>9. /\ e' \in Members /\ e'.checks /\ e'.last = After(e.last, q)
      /\ e'.batch = IF conf.batching THEN Append(e.batch, q) ELSE <<>>
      /\ wire' \in Wires /\ ~wire'.gap /\ Chained(wire'.last, e'.batch, e'.last)
      /\ conf.batching => wire'.closed = wire.closed
      /\ stats' \in [media : CounterSet, rtx : CounterSet]
      /\ observed' \in [Streams -> CounterSet]
      /\ CountersInv'
      /\ fec' \in [params : Int, protected : Nat, ready : Nat] /\ FecInv'
      /\ fec'.protected # fec.protected => fec'.params = asked
      /\ history' \in Seq(Remembered) /\ NoMorePending(history')
      /\ ~conf.batching => \A x \in ToSet(history') :
                                x.pending /\ q.orig # None => x.seq # q.orig
  BY <1>1, <1>3, <1>7, <1>8, SendPacketIs
<1>10. TypeOK'
  BY <1>1, <1>3, <1>4, <1>5, <1>6, <1>7, <1>9 DEF TypeOK
<1>11. TurnInv' /\ NumbersInv' /\ WireInv'
  <2>1. TurnInv'
    BY <1>1, <1>3, <1>4, <1>9 DEF TurnInv
  <2>2. NumbersInv' /\ WireInv'
    BY <1>1, <1>4, <1>6, <1>7, <1>9 DEF NumbersInv, WireInv
  <2>3. QED
    BY <2>1, <2>2
<1>12. (~conf.flush => RequestableAgain)'
  <2>1. current' = current /\ conf' = conf
    BY <1>1
  <2>2. Underway = ToSet(current) \cup ToSet(e.batch) \cup {p} \cup ToSet(rest)
        /\ Underway' = ToSet(current) \cup ToSet(e'.batch) \cup ToSet(rest)
    BY <1>4, <1>5, <1>7, <2>1 DEF Underway
  <2>3. CASE conf.batching
    <3> DEFINE gone == {}
    <3>1. e'.batch = Append(e.batch, q) /\ e.batch \in Seq(Packets \cap Numbered)
      BY <1>3, <1>9, <2>3 DEF TypeOK, Members
    <3>2. ToSet(e'.batch) = ToSet(e.batch) \cup {q}
      <4>1. q \in Packets \cap Numbered
        BY <1>6
      <4>2. QED
        BY <3>1, <4>1, AppendIs
    <3>3. \A x \in Underway : \E y \in Underway' : y.orig = x.orig
      BY <1>6, <2>2, <3>2
    <3>4. \A x \in ToSet(history') : x.pending => x.seq \notin gone
      OBVIOUS
    <3> HIDE DEF gone
    <3>5. QED
      BY <1>3, <1>9, <2>1, <3>3, <3>4, StillRequestable
  <2>4. CASE ~conf.batching
    <3> DEFINE gone == {p.orig}
    <3>1. \A x \in ToSet(history') : x.pending => x.seq \notin gone
      <4>1. \A x \in ToSet(history') : x.seq # None
        <5>1. ToSet(history') \subseteq Remembered
          BY <1>9, ElementsOf
        <5>2. QED
          BY <5>1 DEF Remembered, None
      <4>2. QED
        BY <1>6, <1>9, <2>4, <4>1
    <3>2. e.batch = <<>>
      BY <1>3, <2>4 DEF TurnInv
    <3>3. \A x \in Underway : x.orig \notin gone => x \in Underway'
      BY <2>2, <3>2, EmptyIs
    <3> HIDE DEF gone
    <3>4. QED
      BY <1>3, <1>9, <2>1, <3>1, <3>3, StillRequestable
  <2>5. QED
    BY <2>3, <2>4
<1>13. QED
  BY <1>9, <1>10, <1>11, <1>12 DEF IInv

LEMMA FetchFecIInv ==
  ASSUME IInv, FetchFec PROVE IInv' /\ fec'.protected = fec.protected
<1>1. /\ turn = "pacing" /\ FetchFecPackets /\ queue' = queue \o FecPackets
      /\ UNCHANGED <<conf, turn, current, numbers, e, stats, observed, history, wire, asked>>
  BY DEF FetchFec
<1>2. TypeOK /\ TurnInv /\ NumbersInv /\ WireInv /\ CountersInv /\ FecInv
  BY DEF IInv
<1>3. conf.paced /\ queue \in Seq(Packets) /\ FecPackets \in Seq(Packets)
  BY <1>1, <1>2, PacketsAre DEF TurnInv, TypeOK
<1>4. queue' \in Seq(Packets) /\ ToSet(queue) \subseteq ToSet(queue')
  BY <1>1, <1>3, ConcatIs
<1>5. /\ fec' \in [params : Int, protected : Nat, ready : Nat]
      /\ fec'.protected = fec.protected /\ FecInv'
      /\ made' \in [media : Nat, nacks : Nat, fec : Nat, padding : Nat, params : Nat]
  BY <1>1, <1>2, FetchIs
<1>6. TypeOK' /\ TurnInv' /\ NumbersInv' /\ WireInv' /\ CountersInv'
  BY <1>1, <1>2, <1>3, <1>4, <1>5 DEF TypeOK, TurnInv, NumbersInv, WireInv, CountersInv
<1>7. Underway \subseteq Underway'
  BY <1>1, <1>3, <1>4 DEF Underway
<1>8. QED
  BY <1>1, <1>5, <1>6, <1>7, RequestableStays DEF IInv

LEMMA AddPaddingIInv ==
  ASSUME IInv, AddPadding PROVE IInv'
<1>1. /\ turn = "pacing" /\ queue = <<>>
      /\ made' = [made EXCEPT !.padding = @ + 1]
      /\ UNCHANGED <<conf, turn, current, numbers, e, stats, observed, history, fec, wire, asked>>
  BY DEF AddPadding
<1>2. PICK orig \in PaddingOrigins : queue' = <<PaddingPacket(orig)>>
  BY DEF AddPadding
<1>3. TypeOK /\ TurnInv /\ NumbersInv /\ WireInv /\ CountersInv /\ FecInv
  BY DEF IInv
<1>4. orig \in Int
  <2>1. ToSet(history) \subseteq Remembered
    BY <1>3, ElementsOf DEF TypeOK
  <2>2. QED
    BY <2>1 DEF PaddingOrigins, Remembered, None
<1>5. conf.paced /\ queue' \in Seq(Packets)
  <2>1. PaddingPacket(orig) \in Packets
    BY <1>3, <1>4, PacketsAre
  <2>2. QED
    BY <1>1, <1>2, <1>3, <2>1 DEF TurnInv
<1>6. made' \in [media : Nat, nacks : Nat, fec : Nat, padding : Nat, params : Nat]
  <2>1. made \in [media : Nat, nacks : Nat, fec : Nat, padding : Nat, params : Nat]
    BY <1>3 DEF TypeOK
  <2>2. QED
    BY <1>1, <2>1
<1>7. TypeOK' /\ TurnInv' /\ NumbersInv' /\ WireInv' /\ CountersInv' /\ FecInv'
  BY <1>1, <1>3, <1>5, <1>6 DEF TypeOK, TurnInv, NumbersInv, WireInv, CountersInv, FecInv
<1>8. Underway \subseteq Underway'
  BY <1>1, <1>5, EmptyIs DEF Underway
<1>9. QED
  BY <1>1, <1>7, <1>8, RequestableStays DEF IInv

LEMMA OnBatchCompleteIInv ==
  ASSUME IInv, OnBatchComplete PROVE IInv'
<1>1. turn = "batch" /\ UNCHANGED <<conf, queue, current, numbers, fec, asked, made>>
  BY DEF OnBatchComplete
<1>2. TypeOK /\ TurnInv /\ NumbersInv /\ WireInv /\ CountersInv /\ FecInv
      /\ (~conf.flush => RequestableAgain)
  BY DEF IInv
<1>3. conf.paced
  BY <1>1, <1>2 DEF TurnInv
<1>4. CASE e.batch = <<>>
  <2>1. turn' = "idle" /\ UNCHANGED <<e, stats, observed, history, wire>>
    BY <1>4 DEF OnBatchComplete
  <2>2. TypeOK' /\ TurnInv' /\ NumbersInv' /\ WireInv' /\ CountersInv' /\ FecInv'
    BY <1>1, <1>2, <1>4, <2>1 DEF TypeOK, TurnInv, NumbersInv, WireInv, CountersInv, FecInv
  <2>3. Underway \subseteq Underway'
    BY <1>1, <2>1 DEF Underway
  <2>4. QED
    BY <1>1, <2>1, <2>2, <2>3, RequestableStays DEF IInv
<1>5. CASE e.batch # <<>>
  <2> DEFINE b == e.batch
             p == Head(b)
             member == [e EXCEPT !.batch = Tail(b)]
             last == Len(b) = 1
  <2>1. CompleteSendPacket(member, p, last) /\ turn' = turn
    BY <1>5 DEF OnBatchComplete
  <2>2. e \in Members /\ b \in Seq(Packets \cap Numbered)
    BY <1>2 DEF TypeOK, Members
  <2>3. /\ p \in Packets /\ p \in Numbered /\ Tail(b) \in Seq(Packets \cap Numbered)
        /\ ToSet(b) = {p} \cup ToSet(Tail(b))
    BY <1>5, <2>2, HeadTailIs
  <2>4. Len(b) \in Nat /\ Len(Tail(b)) = Len(b) - 1
    BY <1>5, <2>2, HeadTailProperties, LenProperties
  <2>5. (last => Tail(b) = <<>>) /\ (~last => Tail(b) # <<>>)
    <3>1. Tail(b) # <<>> => Len(Tail(b)) # 0
      BY <2>3, EmptySeq
    <3>2. Tail(b) = <<>> => Len(Tail(b)) = 0
      BY EmptyIs
    <3> DEFINE n == Len(b)
               m == Len(Tail(b))
    <3>3. n \in Nat /\ m = n - 1 /\ (Tail(b) = <<>> <=> m = 0)
      BY <2>4, <3>1, <3>2
    <3> HIDE DEF n, m
    <3>4. (n = 1 => Tail(b) = <<>>) /\ (n # 1 => Tail(b) # <<>>)
      BY <3>3
    <3>5. QED
      BY <3>4 DEF n
  <2>6. InTurn(wire.last, p) /\ Chained(After(wire.last, p), Tail(b), e.last)
    BY <1>2, <1>5, <2>2, ChainTail DEF WireInv
  <2>7. last \in BOOLEAN
    OBVIOUS
  <2>8. member \in Members /\ member.last = e.last /\ member.checks = e.checks
        /\ member.batch = Tail(b) /\ member.pending = e.pending
    <3> DEFINE t == Tail(b)
    <3>1. t \in Seq(Packets \cap Numbered) /\ member = [e EXCEPT !.batch = t]
      BY <2>3
    <3> HIDE DEF t, member, p, b
    <3>2. QED
      BY <2>2, <3>1 DEF Members, t
  <2> HIDE DEF p, last, member
  <2>9. /\ e' \in Members /\ e'.last = e.last /\ e'.checks = e.checks
        /\ e'.batch = Tail(b) /\ e'.pending = e.pending
        /\ wire' \in Wires /\ wire'.last = After(wire.last, p) /\ wire'.closed = last
        /\ ~wire.gap /\ InTurn(wire.last, p) /\ NextTransport(p) => ~wire'.gap
        /\ stats' \in [media : CounterSet, rtx : CounterSet]
        /\ observed' \in [Streams -> CounterSet]
        /\ CountersInv'
        /\ history' \in Seq(Remembered) /\ NoMorePending(history')
        /\ \A x \in ToSet(history') : x.pending /\ p.orig # None => x.seq # p.orig
    BY <1>1, <1>2, <2>1, <2>3, <2>7, <2>8, CompletedIs
  <2>10. TypeOK'
    BY <1>1, <1>2, <2>1, <2>9 DEF TypeOK
  <2>11. TurnInv'
    BY <1>1, <1>2, <1>5, <2>1, <2>5, <2>9 DEF TurnInv
  <2>12. NumbersInv' /\ FecInv'
    BY <1>1, <1>2, <2>9 DEF NumbersInv, FecInv
  <2>13. WireInv'
    <3>1. NextTransport(p)
      BY <2>3 DEF NextTransport, Packets
    <3>2. QED
      BY <1>1, <1>2, <1>3, <2>6, <2>9, <3>1 DEF WireInv
  <2>14. (~conf.flush => RequestableAgain)'
    <3> DEFINE gone == {p.orig}
    <3>1. \A x \in ToSet(history') : x.pending => x.seq \notin gone
      <4>1. \A x \in ToSet(history') : x.seq # None
        <5>1. ToSet(history') \subseteq Remembered
          BY <2>9, ElementsOf
        <5>2. QED
          BY <5>1 DEF Remembered, None
      <4>2. QED
        BY <2>9, <4>1
    <3>2. \A x \in Underway : x.orig \notin gone => x \in Underway'
      BY <1>1, <1>3, <2>3, <2>9 DEF Underway
    <3> HIDE DEF gone
    <3>3. QED
      BY <1>1, <1>2, <2>9, <3>1, <3>2, StillRequestable
  <2>15. QED
    BY <2>9, <2>10, <2>11, <2>12, <2>13, <2>14 DEF IInv
<1>6. QED
  BY <1>4, <1>5

LEMMA EnqueueFrameIInv ==
  ASSUME IInv, EnqueueFrame PROVE IInv'
<1>1. PICK frame \in UNION {[1 .. n -> Media] : n \in {1, 2}} :
        LET packets == [i \in DOMAIN frame |-> MediaPacket(frame[i])]
        IN  /\ made' = [made EXCEPT !.media = @ + Len(frame)]
            /\ IF conf.paced
               THEN /\ turn = "idle"
                    /\ queue' = Flushed(packets[1]) \o packets
                    /\ UNCHANGED <<turn, current>>
               ELSE PostPackets(packets)
            /\ UNCHANGED <<conf, numbers, e, stats, observed, history, fec, wire, asked>>
  BY DEF EnqueueFrame
<1> DEFINE packets == [i \in DOMAIN frame |-> MediaPacket(frame[i])]
           stay == Flushed(packets[1])
<1>2. /\ made' = [made EXCEPT !.media = @ + Len(frame)]
      /\ UNCHANGED <<conf, turn, current, numbers, e, stats, observed, history, fec, wire, asked>>
      /\ conf.paced => queue' = stay \o packets
      /\ ~conf.paced => queue' = Append(queue, packets)
  BY <1>1 DEF PostPackets
<1>3. TypeOK /\ TurnInv /\ NumbersInv /\ WireInv /\ CountersInv /\ FecInv
  BY DEF IInv
<1>4. packets \in Seq(Packets) /\ Len(frame) \in Nat
  <2>1. PICK n \in {1, 2} : frame \in [1 .. n -> Media]
    OBVIOUS
  <2>2. \A i \in 1 .. n : frame[i] \in Media /\ MediaPacket(frame[i]) \in Packets
    BY <1>3, <2>1, PacketsAre
  <2>3. packets \in [1 .. n -> Packets] /\ n \in Nat /\ frame \in Seq(Media)
    BY <2>1, <2>2
  <2>4. QED
    BY <2>3, LenProperties
<1> HIDE DEF packets
<1>5. made' \in [media : Nat, nacks : Nat, fec : Nat, padding : Nat, params : Nat]
  <2>1. made \in [media : Nat, nacks : Nat, fec : Nat, padding : Nat, params : Nat]
    BY <1>3 DEF TypeOK
  <2>2. made.media + Len(frame) \in Nat
    BY <1>4, <2>1
  <2>3. QED
    BY <1>2, <2>1, <2>2
<1>6. /\ queue' \in IF conf.paced THEN Seq(Packets) ELSE Seq(Seq(Packets))
      /\ ~conf.flush => Underway \subseteq Underway'
  <2>1. CASE conf.paced
    <3>1. queue \in Seq(Packets)
      BY <1>3, <2>1 DEF TypeOK
    <3>2. stay \in Seq(Packets) /\ (~conf.flush => stay = queue)
      <4> DEFINE places == {i \in DOMAIN queue : queue[i].stream = "flexfec"}
      <4>1. places \in SUBSET (1 .. Len(queue))
        BY <3>1, ElementsOf
      <4>2. stay = queue \/ (conf.flush /\ stay = At(queue, places))
        BY DEF Flushed
      <4> HIDE DEF places, stay
      <4>3. At(queue, places) \in Seq(Packets)
        BY <3>1, <4>1, AtIs
      <4>4. QED
        BY <3>1, <4>2, <4>3
    <3> HIDE DEF stay
    <3>3. stay \o packets \in Seq(Packets)
          /\ ToSet(stay \o packets) = ToSet(stay) \cup ToSet(packets)
      BY <1>4, <3>2, ConcatIs
    <3>4. QED
      BY <1>2, <2>1, <3>2, <3>3 DEF Underway
  <2>2. CASE ~conf.paced
    <3>1. queue \in Seq(Seq(Packets))
      BY <1>3, <2>2 DEF TypeOK
    <3>2. Append(queue, packets) \in Seq(Seq(Packets))
          /\ ToSet(Append(queue, packets)) = ToSet(queue) \cup {packets}
      BY <1>4, <3>1, AppendIs
    <3>3. QED
      BY <1>2, <2>2, <3>2 DEF Underway
  <2>3. QED
    BY <2>1, <2>2
<1>7. TypeOK' /\ TurnInv' /\ NumbersInv' /\ WireInv' /\ CountersInv' /\ FecInv'
  BY <1>2, <1>3, <1>5, <1>6 DEF TypeOK, TurnInv, NumbersInv, WireInv, CountersInv, FecInv
<1>8. (~conf.flush => RequestableAgain)'
  <2>1. CASE conf.flush
    BY <1>2, <2>1
  <2>2. CASE ~conf.flush
    BY <1>2, <1>6, <2>2, RequestableStays
  <2>3. QED
    BY <2>1, <2>2
<1>9. QED
  BY <1>7, <1>8 DEF IInv

LEMMA OnNackIInv ==
  ASSUME IInv, OnNack PROVE IInv'
<1>1. PICK i \in DOMAIN history :
        /\ turn = "idle"
        /\ made' = [made EXCEPT !.nacks = @ + 1]
        /\ history' = [history EXCEPT ![i].pending = TRUE]
        /\ LET packet == Retransmission(history[i].seq)
           IN  IF conf.paced
               THEN /\ queue' = Append(queue, packet)
                    /\ UNCHANGED <<turn, current>>
               ELSE SendNow(<<packet>>)
        /\ UNCHANGED <<conf, numbers, e, stats, observed, fec, wire, asked>>
  BY DEF OnNack
<1> DEFINE h == history[i]
           p == Retransmission(h.seq)
<1>2. TypeOK /\ TurnInv /\ NumbersInv /\ WireInv /\ CountersInv /\ FecInv
      /\ (~conf.flush => RequestableAgain)
  BY DEF IInv
<1>3. /\ history \in Seq(Remembered) /\ i \in 1 .. Len(history) /\ DOMAIN history = 1 .. Len(history)
      /\ \A x : x \in ToSet(history) <=> \E j \in 1 .. Len(history) : x = history[j]
      /\ \A j \in 1 .. Len(history) : history[j] \in Remembered
  BY <1>2, ElementsOf, ElementOfSeq DEF TypeOK
<1> DEFINE g == [h EXCEPT !.pending = TRUE]
<1>4. h \in Remembered /\ g \in Remembered /\ g.seq = h.seq /\ history' = [history EXCEPT ![i] = g]
  BY <1>1, <1>3 DEF Remembered
<1>5. h.seq \in Nat
  BY <1>4 DEF Remembered
<1>6. p \in Packets /\ p.orig = h.seq
  BY <1>2, <1>5, PacketsAre
<1>7. /\ conf.paced => queue' = Append(queue, p) /\ UNCHANGED <<turn, current>>
      /\ ~conf.paced => turn' = "task" /\ current' = <<p>> /\ queue' = queue
  BY <1>1 DEF SendNow
<1> HIDE DEF h, p, g
<1>8. /\ history' \in Seq(Remembered)
      /\ \A x \in ToSet(history') : x = g \/ x \in ToSet(history)
  <2>1. /\ history' \in Seq(Remembered) /\ Len(history') = Len(history)
        /\ \A j \in 1 .. Len(history) : history'[j] = IF j = i THEN g ELSE history[j]
    BY <1>3, <1>4, ExceptSeq
  <2>2. \A x : x \in ToSet(history') <=> \E j \in 1 .. Len(history') : x = history'[j]
    BY <2>1, ElementsOf
  <2>3. QED
    BY <1>3, <2>1, <2>2
<1>9. made' \in [media : Nat, nacks : Nat, fec : Nat, padding : Nat, params : Nat]
  <2>1. made \in [media : Nat, nacks : Nat, fec : Nat, padding : Nat, params : Nat]
    BY <1>2 DEF TypeOK
  <2>2. QED
    BY <1>1, <2>1
<1>10. current = <<>>
  BY <1>1, <1>2 DEF TurnInv
<1>11. /\ queue' \in IF conf.paced THEN Seq(Packets) ELSE Seq(Seq(Packets))
       /\ current' \in Seq(Packets) /\ turn' \in {"idle", "task"}
       /\ turn' = "task" => ~conf.paced
       /\ turn' # "task" => current' = <<>>
       /\ Underway \cup {p} \subseteq Underway'
  <2>1. CASE conf.paced
    <3>1. queue \in Seq(Packets)
      BY <1>2, <2>1 DEF TypeOK
    <3>2. Append(queue, p) \in Seq(Packets) /\ ToSet(Append(queue, p)) = ToSet(queue) \cup {p}
      BY <1>6, <3>1, AppendIs
    <3>3. QED
      BY <1>1, <1>2, <1>7, <1>10, <2>1, <3>2 DEF Underway, TypeOK
  <2>2. CASE ~conf.paced
    <3>1. <<p>> \in Seq(Packets) /\ ToSet(<<p>>) = {p}
      BY <1>6 DEF ToSet
    <3>2. QED
      BY <1>1, <1>2, <1>7, <1>10, <2>2, <3>1, EmptyIs DEF Underway, TypeOK
  <2>3. QED
    BY <2>1, <2>2
<1>12. TypeOK'
  BY <1>1, <1>2, <1>8, <1>9, <1>11 DEF TypeOK
<1>13. TurnInv'
  <2>1. e.batch = <<>> /\ (conf.batching => wire.closed)
    BY <1>1, <1>2 DEF TurnInv
  <2>2. QED
    BY <1>1, <1>11, <2>1 DEF TurnInv
<1>14. NumbersInv' /\ WireInv' /\ CountersInv' /\ FecInv'
  BY <1>1, <1>2 DEF NumbersInv, WireInv, CountersInv, FecInv
<1>15. (~conf.flush => RequestableAgain)'
  <2>1. SUFFICES ASSUME ~conf.flush, NEW x \in ToSet(history'), x.pending
                 PROVE  \E y \in Underway' : y.orig = x.seq
    BY <1>1 DEF RequestableAgain
  <2>2. CASE x = g
    BY <1>4, <1>6, <1>11, <2>2
  <2>3. CASE x \in ToSet(history)
    BY <1>2, <1>11, <2>1, <2>3 DEF RequestableAgain
  <2>4. QED
    BY <1>8, <2>2, <2>3
<1>16. QED
  BY <1>12, <1>13, <1>14, <1>15 DEF IInv

LEMMA AbortRetransmissionsIInv ==
  ASSUME IInv, AbortRetransmissions PROVE IInv'
<1> DEFINE aborted == {i \in DOMAIN queue : queue[i].type = "retransmission"}
           gone == {queue[i].orig : i \in aborted}
           places == DOMAIN queue \ aborted
           stay == At(queue, places)
<1>1. /\ conf.paced /\ turn = "idle" /\ history' = MarkedAsSent(gone) /\ queue' = stay
      /\ UNCHANGED <<conf, turn, current, numbers, e, stats, observed, fec, wire, asked, made>>
  BY DEF AbortRetransmissions, OnAbortedRetransmissions
<1>2. TypeOK /\ TurnInv /\ NumbersInv /\ WireInv /\ CountersInv /\ FecInv
      /\ (~conf.flush => RequestableAgain)
  BY DEF IInv
<1>3. /\ queue \in Seq(Packets) /\ DOMAIN queue = 1 .. Len(queue)
      /\ \A x : x \in ToSet(queue) <=> \E j \in 1 .. Len(queue) : x = queue[j]
  <2>1. queue \in Seq(Packets)
    BY <1>1, <1>2 DEF TypeOK
  <2>2. QED
    BY <2>1, ElementsOf
<1>4. /\ \A i \in places : i \in 1 .. Len(queue)
      /\ \A i \in 1 .. Len(queue) : i \in places \/ queue[i].orig \in gone
  BY <1>3
<1> HIDE DEF gone, places
<1>5. stay \in Seq(Packets) /\ ToSet(stay) = {queue[i] : i \in places}
  BY <1>3, <1>4, AtIs
<1>6. \A x \in ToSet(queue) : x.orig \notin gone => x \in ToSet(stay)
  BY <1>3, <1>4, <1>5
<1> HIDE DEF stay
<1>7. /\ history' \in Seq(Remembered) /\ NoMorePending(history')
      /\ \A x \in ToSet(history') : x.pending => x.seq \notin gone
  <2>1. history \in Seq(Remembered)
    BY <1>2 DEF TypeOK
  <2>2. /\ MarkedAsSent(gone) \in Seq(Remembered) /\ NoMorePending(MarkedAsSent(gone))
        /\ \A x \in ToSet(MarkedAsSent(gone)) : x.pending => x.seq \notin gone
    BY <2>1, MarkedIs
  <2>3. QED
    BY <1>1, <2>2
<1>8. TypeOK' /\ TurnInv' /\ NumbersInv' /\ WireInv' /\ CountersInv' /\ FecInv'
  BY <1>1, <1>2, <1>5, <1>7 DEF TypeOK, TurnInv, NumbersInv, WireInv, CountersInv, FecInv
<1>9. \A x \in Underway : x.orig \notin gone => \E y \in Underway' : y.orig = x.orig
  BY <1>1, <1>6 DEF Underway
<1>10. (~conf.flush => RequestableAgain)'
  BY <1>1, <1>2, <1>7, <1>9, StillRequestable
<1>11. QED
  BY <1>8, <1>10 DEF IInv

-------------------------------------------------------------------------------
(* What follows from the invariant *)

\* Only a packet that is sent is protected.
LEMMA StepIInv ==
  IInv /\ [Next]_vars => IInv' /\ (fec'.protected # fec.protected => fec'.params = asked)
<1>1. SUFFICES ASSUME IInv, [Next]_vars
               PROVE  IInv' /\ (fec'.protected # fec.protected => fec'.params = asked)
  OBVIOUS
<1>2. CASE SetFecProtectionParameters
  BY <1>1, <1>2, SetParametersIInv DEF SetFecProtectionParameters
<1>3. CASE RunTask
  BY <1>1, <1>3, RunTaskIInv DEF RunTask
<1>4. CASE SendOfTask
  BY <1>1, <1>4, SendOfTaskIInv
<1>5. CASE EndOfTask
  BY <1>1, <1>5, EndOfTaskIInv
<1>6. CASE StartPacing
  BY <1>1, <1>6, StartPacingIInv DEF StartPacing
<1>7. CASE SendPaced
  BY <1>1, <1>7, SendPacedIInv
<1>8. CASE FetchFec
  BY <1>1, <1>8, FetchFecIInv
<1>9. CASE AddPadding
  BY <1>1, <1>9, AddPaddingIInv DEF AddPadding
<1>10. CASE StopPacing
  BY <1>1, <1>10, StopPacingIInv DEF StopPacing
<1>11. CASE OnBatchComplete
  BY <1>1, <1>11, OnBatchCompleteIInv DEF OnBatchComplete
<1>12. CASE EnqueueFrame
  BY <1>1, <1>12, EnqueueFrameIInv DEF EnqueueFrame
<1>13. CASE OnNack
  BY <1>1, <1>13, OnNackIInv DEF OnNack
<1>14. CASE AbortRetransmissions
  BY <1>1, <1>14, AbortRetransmissionsIInv DEF AbortRetransmissions
<1>15. CASE UNCHANGED vars
  <2>1. /\ conf' = conf /\ queue' = queue /\ turn' = turn /\ current' = current
        /\ numbers' = numbers /\ e' = e /\ stats' = stats /\ observed' = observed
        /\ history' = history /\ fec' = fec /\ wire' = wire /\ asked' = asked /\ made' = made
    BY <1>15 DEF vars
  <2>2. TypeOK' /\ TurnInv' /\ NumbersInv' /\ WireInv' /\ CountersInv' /\ FecInv'
    BY <1>1, <2>1 DEF IInv, TypeOK, TurnInv, NumbersInv, WireInv, CountersInv, FecInv
  <2>3. Underway \subseteq Underway'
    BY <2>1 DEF Underway
  <2>4. QED
    BY <1>1, <2>1, <2>2, <2>3, RequestableStays DEF IInv
<1>16. QED
  BY <1>1, <1>2, <1>3, <1>4, <1>5, <1>6, <1>7, <1>8, <1>9, <1>10, <1>11, <1>12, <1>13, <1>14,
     <1>15 DEF Next

\* The members, the queues and what left go together, whatever the configuration.
THEOREM Invariance == Spec => []IInv
<1>1. IInv /\ [Next]_vars => IInv'
  BY StepIInv
<1>2. QED
  BY InitIInv, <1>1, PTL DEF Spec

\* SendPacket's RTC_DCHECKs hold, the numbers of a stream and the transport-wide
\* numbers leave one by one, and no batch is left open.
THEOREM NumbersInOrder == Spec => []InOrder
<1>1. IInv => InOrder
  BY DEF IInv, InOrder, NumbersInv, WireInv, TurnInv
<1>2. QED
  BY Invariance, <1>1, PTL

\* GetDataCounters reports what the transport took, with a callback and without.
THEOREM CountersAreTheWire == Spec => []CountersMatchWire
<1>1. ASSUME IInv PROVE CountersMatchWire
  <2>1. wire.taken \in [Streams -> CounterSet] /\ CountersInv
    BY <1>1 DEF IInv, TypeOK, Wires
  <2>2. \A a, b \in CounterSet : Together(a, b) = [c \in DOMAIN NoCounters |-> a[c] + b[c]]
    BY DEF Together, CounterSet, NoCounters
  <2>3. wire.taken["media"] \in CounterSet /\ wire.taken["flexfec"] \in CounterSet
    BY <2>1 DEF Streams
  <2>4. CASE conf.callback
    BY <2>1, <2>4 DEF CountersInv, CountersMatchWire, GetDataCounters
  <2>5. CASE ~conf.callback
    BY <2>1, <2>2, <2>3, <2>5 DEF CountersInv, CountersMatchWire, GetDataCounters
  <2>6. QED
    BY <2>4, <2>5
<1>2. QED
  BY Invariance, <1>1, PTL

\* Every protected packet is protected with the parameters that
\* SetFecProtectionParameters was given last.
THEOREM ProtectionIsLatest == Spec => FecUsesLatest
<1>1. IInv /\ [Next]_vars => [fec'.protected # fec.protected => fec'.params = asked]_vars
  BY StepIInv
<1>2. QED
  BY Invariance, <1>1, PTL DEF Spec, FecUsesLatest

\* Where no keyframe flushes the pacer, every packet that the history holds as
\* pending has a retransmission on its way, so that it can be requested again.
THEOREM NothingStaysPending == Spec => [](~conf.flush => RequestableAgain)
<1>1. IInv => (~conf.flush => RequestableAgain)
  BY DEF IInv
<1>2. QED
  BY Invariance, <1>1, PTL


-------------------------------------------------------------------------------
(* VideoSendStream: types *)

\* q has the members of VideoSendStreamImpl; what the limits and rates can be is
\* left open, since they are computed from the configurations.
StreamMembers(q) ==
    /\ q = [active |-> q.active, running |-> q.running, hasEncodings |-> q.hasEncodings,
            activity |-> q.activity, checking |-> q.checking, timedOut |-> q.timedOut,
            disablePadding |-> q.disablePadding, maxPadding |-> q.maxPadding,
            encoderMin |-> q.encoderMin, encoderMax |-> q.encoderMax,
            configuredMax |-> q.configuredMax, target |-> q.target, context |-> q.context,
            allocator |-> q.allocator, encoderRate |-> q.encoderRate]
    /\ q.context = [last |-> q.context.last, throttled |-> q.context.throttled,
                    recent |-> q.context.recent]
    /\ q.active \in BOOLEAN /\ q.running \in BOOLEAN /\ q.hasEncodings \in BOOLEAN
    /\ q.activity \in BOOLEAN /\ q.checking \in BOOLEAN /\ q.timedOut \in BOOLEAN
    /\ q.disablePadding \in BOOLEAN /\ q.context.recent \in BOOLEAN

Task ==
    [kind : {"image"}, what : {Nothing}, old : BOOLEAN]
        \cup [kind : {"configuration"}, what : Encodings, old : BOOLEAN]
        \cup [kind : {"allocation"}, what : Allocations, old : BOOLEAN]

StreamTypeOK ==
    /\ StreamMembers(self)
    /\ tasks \in Seq(Task)
    /\ life \in {"alive", "stopped"}
    /\ accepted \in Allocations \cup {NoAllocation}

\* An allocation that waits is one the encoder made.
ContextOK(q) ==
    /\ q.context.last \in Allocations \cup {NoAllocation}
    /\ q.context.throttled \in Allocations \cup {NoAllocation}

StreamIInv == StreamTypeOK /\ ContextOK(self)

-------------------------------------------------------------------------------
(* VideoSendStream: what the methods do to the members *)

\* The allocator is never told of a negative maximum.
LEMMA ConfigIsObserved == \A q : GetAllocationConfig(q) # NotObserved
<1> SUFFICES ASSUME NEW q PROVE GetAllocationConfig(q).max # NotObserved.max
  OBVIOUS
<1>1. MaxOf(0, q.encoderMax) # Nothing
  BY DEF MaxOf, Nothing
<1>2. QED
  BY <1>1 DEF GetAllocationConfig, NotObserved

LEMMA NoneIsNoAllocation == NoAllocation \notin Allocations
  BY SendStreamAssumption DEF NoAllocation, Nothing

\* The posted tasks, and the one that runs.
LEMMA TasksPosted ==
  ASSUME tasks \in Seq(Task), NEW task \in Task
  PROVE  Append(tasks, task) \in Seq(Task)
  BY AppendProperties

LEMMA TaskTaken ==
  ASSUME tasks \in Seq(Task), tasks # <<>>
  PROVE  /\ Head(tasks) \in Task
         /\ Tail(tasks) \in Seq(Task)
         /\ Head(tasks).kind = "configuration" => Head(tasks).what \in Encodings
         /\ Head(tasks).kind = "allocation" => Head(tasks).what \in Allocations
<1>1. Head(tasks) \in Task /\ Tail(tasks) \in Seq(Task)
  BY HeadTailProperties
<1>2. QED
  BY <1>1 DEF Task

LEMMA TasksAged ==
  ASSUME tasks \in Seq(Task)
  PROVE  [i \in DOMAIN tasks |-> [tasks[i] EXCEPT !.old = TRUE]] \in Seq(Task)
<1> DEFINE aged == [i \in DOMAIN tasks |-> [tasks[i] EXCEPT !.old = TRUE]]
<1>1. Len(tasks) \in Nat /\ DOMAIN tasks = 1 .. Len(tasks)
  BY LenProperties
<1>2. ASSUME NEW i \in DOMAIN tasks PROVE [tasks[i] EXCEPT !.old = TRUE] \in Task
  <2>1. tasks[i] \in Task
    BY <1>1, ElementOfSeq
  <2>2. QED
    BY <2>1 DEF Task
<1>3. aged \in [1 .. Len(tasks) -> Task]
  BY <1>1, <1>2
<1>4. QED
  BY <1>1, <1>3, SeqDef

-------------------------------------------------------------------------------
(* VideoSendStream: the inductive invariant *)

LEMMA HasActiveIsBoolean == \A config : HasActiveEncodings(config) \in BOOLEAN
  BY DEF HasActiveEncodings

LEMMA StreamInitIInv == StreamInit => StreamIInv
<1> SUFFICES ASSUME StreamInit PROVE StreamIInv
  OBVIOUS
<1>1. PICK config \in EncoderConfigs :
        self = [active |-> FALSE, running |-> FALSE, hasEncodings |-> HasActiveEncodings(config),
                activity |-> FALSE, checking |-> FALSE, timedOut |-> FALSE,
                disablePadding |-> TRUE, maxPadding |-> 0, encoderMin |-> 0,
                encoderMax |-> GetConfiguredMaxVideoBitrate(config),
                configuredMax |-> config.max, target |-> 0, context |-> NoContext,
                allocator |-> NotObserved, encoderRate |-> 0]
  BY DEF StreamInit
<1>2. StreamMembers(self)
  <2> DEFINE has == HasActiveEncodings(config)
             max == GetConfiguredMaxVideoBitrate(config)
  <2>1. has \in BOOLEAN
    BY HasActiveIsBoolean
  <2>2. self = [active |-> FALSE, running |-> FALSE, hasEncodings |-> has,
                activity |-> FALSE, checking |-> FALSE, timedOut |-> FALSE,
                disablePadding |-> TRUE, maxPadding |-> 0, encoderMin |-> 0,
                encoderMax |-> max,
                configuredMax |-> config.max, target |-> 0, context |-> NoContext,
                allocator |-> NotObserved, encoderRate |-> 0]
    BY <1>1, Zenon
  <2> HIDE DEF has, max
  <2>3. QED
    BY <2>1, <2>2 DEF StreamMembers, NoContext
<1>3. tasks \in Seq(Task)
  BY EmptySeq DEF StreamInit
<1>4. QED
  BY <1>2, <1>3 DEF StreamInit, StreamIInv, StreamTypeOK, ContextOK, NoContext

\* Calls of the application and the allocator, and the activity check.
LEMMA CallsIInv ==
  ASSUME StreamIInv,
         \/ OnBitrateUpdated \/ CheckEncoderActivity \/ ResetActivity
         \/ Start \/ Stop \/ ReconfigureVideoEncoder \/ StopPermanentlyAndGetRtpStates
         \/ ThrottleTimePasses
  PROVE  StreamIInv'
<1> USE DEF StreamIInv, StreamTypeOK, ContextOK, StreamMembers
<1>1. CASE OnBitrateUpdated
  BY <1>1 DEF OnBitrateUpdated
<1>2. CASE CheckEncoderActivity
  <2>1. StreamMembers(self') /\ self'.context = self.context
    BY <1>2 DEF CheckEncoderActivity, ActivityChecked, SignalEncoderTimedOut, SignalEncoderActive,
                AddObserver, RemoveObserver
  <2>2. QED
    BY <1>2, <2>1 DEF CheckEncoderActivity
<1>3. CASE Start
  BY <1>3 DEF Start, StartupVideoSendStream, AddObserver
<1>4. CASE Stop
  BY <1>4 DEF Stop, Stopped, StopVideoSendStream, RemoveObserver
<1>5. CASE ReconfigureVideoEncoder
  <2>1. PICK config \in EncoderConfigs :
          LET q == [self EXCEPT !.hasEncodings = HasActiveEncodings(config),
                             !.configuredMax = config.max]
          IN  self' = IF q.hasEncodings /\ q.active /\ ~q.running THEN StartupVideoSendStream(q)
                   ELSE IF ~q.hasEncodings /\ q.running THEN StopVideoSendStream(q)
                   ELSE q
    BY <1>5 DEF ReconfigureVideoEncoder
  <2> DEFINE has == HasActiveEncodings(config)
  <2>2. has \in BOOLEAN
    BY HasActiveIsBoolean
  <2> HIDE DEF has
  <2>3. StreamMembers(self') /\ self'.context = self.context
    BY <2>1, <2>2 DEF has, StartupVideoSendStream, StopVideoSendStream, AddObserver,
                      RemoveObserver
  <2>4. QED
    BY <1>5, <2>3 DEF ReconfigureVideoEncoder
<1>6. CASE StopPermanentlyAndGetRtpStates
  BY <1>6 DEF StopPermanentlyAndGetRtpStates, Stopped, StopVideoSendStream, RemoveObserver
<1>7. CASE ThrottleTimePasses
  BY <1>7 DEF ThrottleTimePasses
<1>8. CASE ResetActivity
  <2>1. StreamMembers(self') /\ self'.context = self.context
    BY <1>8 DEF ResetActivity
  <2>2. tasks' \in Seq(Task)
    BY <1>8, TasksAged DEF ResetActivity
  <2>3. QED
    BY <1>8, <2>1, <2>2 DEF ResetActivity
<1>9. QED
  BY <1>1, <1>2, <1>3, <1>4, <1>5, <1>6, <1>7, <1>8

\* The encoder's threads, which only post.
LEMMA EncoderIInv ==
  ASSUME StreamIInv,
         \/ OnEncodedImage \/ OnFrameDropped
         \/ OnEncoderConfigurationChanged \/ OnBitrateAllocationUpdated
  PROVE  StreamIInv'
<1>1. tasks \in Seq(Task)
  BY DEF StreamIInv, StreamTypeOK
<1>2. tasks' \in Seq(Task)
  <2>1. CASE UNCHANGED tasks
    BY <1>1, <2>1
  <2>2. CASE \E task \in Task : tasks' = Append(tasks, task)
    BY <1>1, <2>2, TasksPosted
  <2>3. \/ UNCHANGED tasks
        \/ \E task \in Task : tasks' = Append(tasks, task)
    BY DEF OnEncodedImage, OnFrameDropped, OnEncoderConfigurationChanged,
           OnBitrateAllocationUpdated, Post, Task
  <2>4. QED
    BY <2>1, <2>2, <2>3
<1>3. /\ self' \in {self, [self EXCEPT !.activity = TRUE]}
      /\ UNCHANGED <<life, accepted>>
  BY DEF OnEncodedImage, OnFrameDropped, OnEncoderConfigurationChanged,
         OnBitrateAllocationUpdated
<1>4. StreamMembers(self') /\ self'.context = self.context
  BY <1>3 DEF StreamIInv, StreamTypeOK, StreamMembers
<1>5. QED
  BY <1>2, <1>3, <1>4 DEF StreamIInv, StreamTypeOK, ContextOK

\* What is sent or waits is an allocation.
LEMMA AllocatedOK ==
  ASSUME NEW q, StreamMembers(q), ContextOK(q),
         NEW allocation \in Allocations \cup {NoAllocation}
  PROVE  StreamMembers(Allocated(q, allocation)) /\ ContextOK(Allocated(q, allocation))
<1>1. StreamMembers(Sent(q, allocation)) /\ ContextOK(Sent(q, allocation))
  <2> DEFINE context == [last |-> allocation, throttled |-> NoAllocation, recent |-> TRUE]
             d == [q EXCEPT !.context = context]
  <2>1. /\ context = [last |-> context.last, throttled |-> context.throttled,
                      recent |-> context.recent]
        /\ context.last = allocation /\ context.throttled = NoAllocation
        /\ context.recent \in BOOLEAN
    OBVIOUS
  <2> HIDE DEF context
  <2>2. StreamMembers(d) /\ d.context = context
    BY <2>1 DEF StreamMembers
  <2>3. Sent(q, allocation) = d
    BY DEF Sent, context
  <2> HIDE DEF d
  <2>4. QED
    BY <2>1, <2>2, <2>3 DEF ContextOK
<1> DEFINE r == [q EXCEPT !.context.throttled = allocation]
<1>2. StreamMembers(r) /\ ContextOK(r)
  BY DEF StreamMembers, ContextOK
<1>3. Allocated(q, allocation) \in {q, r, Sent(q, allocation)}
  BY DEF Allocated
<1> HIDE DEF r
<1>4. QED
  BY <1>1, <1>2, <1>3

\* What they have posted.
LEMMA TasksIInv ==
  ASSUME StreamIInv, AllocationTask \/ ImageTask \/ ConfigurationTask
  PROVE  StreamIInv'
<1> USE DEF StreamIInv, StreamTypeOK
<1>1. CASE AllocationTask
  <2>1. Head(tasks).what \in Allocations /\ Tail(tasks) \in Seq(Task)
    BY <1>1, TaskTaken DEF AllocationTask
  <2>2. StreamMembers(self') /\ ContextOK(self')
    BY <1>1, <2>1, AllocatedOK DEF AllocationTask
  <2>3. QED
    BY <1>1, <2>1, <2>2 DEF AllocationTask, ContextOK
<1>2. CASE ImageTask
  <2> DEFINE q == PaddingEnabled(self)
  <2>6. ASSUME ~self.disablePadding PROVE StreamMembers(q) /\ ContextOK(q)
    BY <2>6 DEF PaddingEnabled
  <2>7. ASSUME self.disablePadding /\ ~self.running PROVE StreamMembers(q) /\ ContextOK(q)
    BY <2>7 DEF PaddingEnabled, SignalEncoderActive, StreamMembers, ContextOK
  <2>8. ASSUME self.disablePadding /\ self.running PROVE StreamMembers(q) /\ ContextOK(q)
    BY <2>8 DEF PaddingEnabled, SignalEncoderActive, AddObserver, StreamMembers, ContextOK
  <2>1. StreamMembers(q) /\ ContextOK(q)
    <3>1. (self.disablePadding \in BOOLEAN) /\ (self.running \in BOOLEAN)
      BY DEF StreamMembers
    <3>2. QED
      BY <2>6, <2>7, <2>8, <3>1
  <2> HIDE DEF q
  <2>2. StreamMembers(Retried(q)) /\ ContextOK(Retried(q))
    BY <2>1, AllocatedOK DEF Retried, ContextOK
  <2>3. StreamMembers(self') /\ ContextOK(self')
    BY <1>2, <2>2 DEF ImageTask, q
  <2>4. tasks' \in Seq(Task)
    BY <1>2, TaskTaken DEF ImageTask
  <2>5. QED
    BY <1>2, <2>3, <2>4 DEF ImageTask, ContextOK
<1> USE DEF ContextOK, StreamMembers
<1>3. CASE ConfigurationTask
  <2>1. StreamMembers(self') /\ self'.context = self.context
    BY <1>3 DEF ConfigurationTask, ConfigurationTaken, EncodingTaken, AddObserver
  <2>2. tasks' \in Seq(Task)
    BY <1>3, TaskTaken DEF ConfigurationTask
  <2>3. QED
    BY <1>3, <2>1, <2>2 DEF ConfigurationTask
<1>4. QED
  BY <1>1, <1>2, <1>3

LEMMA StreamNextIInv == StreamIInv /\ [StreamNext]_streamVars => StreamIInv'
<1> SUFFICES ASSUME StreamIInv, [StreamNext]_streamVars PROVE StreamIInv'
  OBVIOUS
<1>1. CASE UNCHANGED streamVars
  BY <1>1 DEF StreamIInv, StreamTypeOK, ContextOK, StreamMembers, streamVars
<1>2. CASE StreamNext
  BY <1>2, CallsIInv, EncoderIInv, TasksIInv DEF StreamNext
<1>3. QED
  BY <1>1, <1>2

\* Members and posted tasks have their types in every state of the send stream.
THEOREM StreamInvariance == StreamSpec => []StreamIInv
  BY StreamInitIInv, StreamNextIInv, PTL DEF StreamSpec

-------------------------------------------------------------------------------
(* VideoSendStream: the allocator observes what it should *)

LEMMA NextObserved ==
  ASSUME StreamIInv, ObservedWhileRunning, [StreamNext]_streamVars
  PROVE  ObservedWhileRunning'
<1> USE ConfigIsObserved DEF StreamIInv, StreamTypeOK, StreamMembers, ObservedWhileRunning
<1> USE DEF AddObserver, RemoveObserver
<1>1. CASE OnBitrateUpdated
  BY <1>1 DEF OnBitrateUpdated
<1>2. CASE CheckEncoderActivity
  BY <1>2 DEF CheckEncoderActivity, ActivityChecked, SignalEncoderTimedOut, SignalEncoderActive
<1>3. CASE Start
  BY <1>3 DEF Start, StartupVideoSendStream
<1>4. CASE Stop
  BY <1>4 DEF Stop, Stopped, StopVideoSendStream
<1>5. CASE ReconfigureVideoEncoder
  BY <1>5 DEF ReconfigureVideoEncoder, StartupVideoSendStream, StopVideoSendStream
<1>6. CASE StopPermanentlyAndGetRtpStates
  BY <1>6 DEF StopPermanentlyAndGetRtpStates, Stopped, StopVideoSendStream
<1>7. CASE OnEncodedImage \/ OnFrameDropped \/ ResetActivity
  BY <1>7 DEF OnEncodedImage, OnFrameDropped, ResetActivity
<1>8. CASE AllocationTask
  BY <1>8 DEF AllocationTask, Allocated, Sent
<1>9. CASE ImageTask
  BY <1>9 DEF ImageTask, Retried, PaddingEnabled, Allocated, Sent, SignalEncoderActive
<1>10. CASE ConfigurationTask
  BY <1>10 DEF ConfigurationTask, ConfigurationTaken, EncodingTaken
<1>11. CASE ThrottleTimePasses
  BY <1>11 DEF ThrottleTimePasses
<1>12. CASE UNCHANGED <<self, life>>
  BY <1>12
<1>13. QED
  BY <1>1, <1>2, <1>3, <1>4, <1>5, <1>6, <1>7, <1>8, <1>9, <1>10, <1>11, <1>12
     DEF StreamNext, streamVars, OnEncoderConfigurationChanged, OnBitrateAllocationUpdated

\* Whatever the encoder has posted before a stop, a time-out or a new
\* configuration, and whenever it runs, the allocator observes a stream only while
\* it runs, and always one whose encoder has not timed out.
THEOREM ObservedAsItRuns == StreamSpec => []ObservedWhileRunning
<1>1. StreamInit => ObservedWhileRunning
  BY DEF StreamInit, ObservedWhileRunning
<1>2. QED
  BY <1>1, StreamInvariance, NextObserved, PTL DEF StreamSpec

LEMMA NextUpToDate ==
  ASSUME StreamIInv, ObservedWhileRunning, AllocatorUpToDate, [StreamNext]_streamVars
  PROVE  AllocatorUpToDate'
<1> USE DEF StreamIInv, StreamTypeOK, StreamMembers, ObservedWhileRunning, AllocatorUpToDate
<1> USE DEF AddObserver, RemoveObserver, GetAllocationConfig
<1>1. CASE OnBitrateUpdated
  BY <1>1 DEF OnBitrateUpdated
<1>2. CASE CheckEncoderActivity
  <2>1. CASE self.activity /\ self.timedOut
    BY <1>2, <2>1 DEF CheckEncoderActivity, ActivityChecked, SignalEncoderActive
  <2>2. CASE self.activity /\ ~self.timedOut
    BY <1>2, <2>2 DEF CheckEncoderActivity, ActivityChecked
  <2>3. CASE ~self.activity /\ self.timedOut
    BY <1>2, <2>3 DEF CheckEncoderActivity, ActivityChecked
  <2>4. CASE ~self.activity /\ ~self.timedOut
    BY <1>2, <2>4 DEF CheckEncoderActivity, ActivityChecked, SignalEncoderTimedOut
  <2>5. QED
    BY <2>1, <2>2, <2>3, <2>4
<1>3. CASE Start
  BY <1>3 DEF Start, StartupVideoSendStream
<1>4. CASE Stop
  BY <1>4 DEF Stop, Stopped, StopVideoSendStream
<1>5. CASE ReconfigureVideoEncoder
  BY <1>5 DEF ReconfigureVideoEncoder, StartupVideoSendStream, StopVideoSendStream
<1>6. CASE StopPermanentlyAndGetRtpStates
  BY <1>6 DEF StopPermanentlyAndGetRtpStates, Stopped, StopVideoSendStream
<1>7. CASE OnEncodedImage \/ OnFrameDropped \/ ResetActivity
  <2>1. CASE OnEncodedImage
    BY <2>1 DEF OnEncodedImage
  <2>2. CASE OnFrameDropped
    BY <2>2 DEF OnFrameDropped
  <2>3. CASE ResetActivity
    BY <2>3 DEF ResetActivity
  <2>4. QED
    BY <1>7, <2>1, <2>2, <2>3
<1>8. CASE AllocationTask
  BY <1>8 DEF AllocationTask, Allocated, Sent
<1>9. CASE ImageTask
  BY <1>9 DEF ImageTask, Retried, PaddingEnabled, Allocated, Sent, SignalEncoderActive
<1>10. CASE ConfigurationTask
  BY <1>10 DEF ConfigurationTask, ConfigurationTaken, EncodingTaken
<1>11. CASE ThrottleTimePasses
  BY <1>11 DEF ThrottleTimePasses
<1>12. CASE UNCHANGED self
  BY <1>12
<1>13. QED
  BY <1>1, <1>2, <1>3, <1>4, <1>5, <1>6, <1>7, <1>8, <1>9, <1>10, <1>11, <1>12
     DEF StreamNext, streamVars, OnEncoderConfigurationChanged, OnBitrateAllocationUpdated

\* The allocator never works with the limits of an earlier configuration, nor with
\* padding that was turned off, except for an encoder that has timed out.
THEOREM AllocatorIsUpToDate == StreamSpec => []AllocatorUpToDate
<1>1. StreamInit => AllocatorUpToDate
  BY DEF StreamInit, AllocatorUpToDate
<1>2. QED
  BY <1>1, StreamInvariance, ObservedAsItRuns, NextUpToDate, PTL DEF StreamSpec

-------------------------------------------------------------------------------
(* VideoSendStream: throttling *)

\* Only the two tasks touch the context, the last rate or what was accepted.
LEMMA NextNewest ==
  ASSUME StreamIInv, NewestAllocation, [StreamNext]_streamVars
  PROVE  NewestAllocation'
<1> USE NoneIsNoAllocation DEF StreamIInv, StreamTypeOK, StreamMembers, ContextOK, NewestAllocation
<1> USE DEF AddObserver, RemoveObserver
<1>1. CASE AllocationTask
  BY <1>1, TaskTaken DEF AllocationTask, Allocated, Sent
<1>2. CASE ImageTask
  BY <1>2 DEF ImageTask, Retried, PaddingEnabled, Allocated, Sent, SignalEncoderActive
<1>3. CASE ThrottleTimePasses
  BY <1>3 DEF ThrottleTimePasses
<1>4. CASE OnBitrateUpdated
  BY <1>4 DEF OnBitrateUpdated
<1>5. CASE CheckEncoderActivity
  BY <1>5 DEF CheckEncoderActivity, ActivityChecked, SignalEncoderTimedOut, SignalEncoderActive
<1>6. CASE Start
  BY <1>6 DEF Start, StartupVideoSendStream
<1>7. CASE Stop \/ StopPermanentlyAndGetRtpStates
  BY <1>7 DEF Stop, StopPermanentlyAndGetRtpStates, Stopped, StopVideoSendStream
<1>8. CASE ReconfigureVideoEncoder
  BY <1>8 DEF ReconfigureVideoEncoder, StartupVideoSendStream, StopVideoSendStream
<1>9. CASE ConfigurationTask
  BY <1>9 DEF ConfigurationTask, ConfigurationTaken, EncodingTaken
<1>10. CASE OnEncodedImage \/ OnFrameDropped \/ ResetActivity
  BY <1>10 DEF OnEncodedImage, OnFrameDropped, ResetActivity
<1>11. CASE UNCHANGED <<self, accepted>>
  BY <1>11
<1>12. QED
  BY <1>1, <1>2, <1>3, <1>4, <1>5, <1>6, <1>7, <1>8, <1>9, <1>10, <1>11
     DEF StreamNext, streamVars, OnEncoderConfigurationChanged, OnBitrateAllocationUpdated

\* The newest allocation the encoder made while it had a rate is the one that was
\* sent last or the one that waits: what was throttled is replaced, or sent by the
\* next image, or dropped in favour of a newer one.
THEOREM NewestIsKept == StreamSpec => []NewestAllocation
<1>1. StreamInit => NewestAllocation
  BY DEF StreamInit, NewestAllocation, NoContext
<1>2. QED
  BY <1>1, StreamInvariance, NextNewest, PTL DEF StreamSpec
===============================================================================
