------------------------ MODULE PacingControllerProofs ------------------------
(***************************************************************************)
(* Proofs about PacingController, for any configurations, rates, packets   *)
(* and constants of the controller: types; that a controller that may not  *)
(* send, or that pads silence, sends its keep-alives in time; and that     *)
(* what is sent because its time has come keeps to the pace.               *)
(***************************************************************************)
EXTENDS PacingController, SequenceTheorems, FiniteSetTheorems, TLAPS

-------------------------------------------------------------------------------
(* Functions that are defined by recursion, and the queue *)

Least(S) == CHOOSE m \in S : \A n \in S : m <= n

LEMMA LeastExists ==
  ASSUME NEW S \in SUBSET Nat, S # {}
  PROVE  Least(S) \in S /\ \A n \in S : Least(S) <= n
<1> DEFINE Below == {0 .. n : n \in S}
<1>1. Below \subseteq FiniteSubsetsOf(Nat) /\ Below # {}
  <2>1. \A n \in S : 0 .. n \in SUBSET Nat /\ IsFiniteSet(0 .. n)
    BY FS_Interval
  <2>2. QED
    BY <2>1 DEF FiniteSubsetsOf
<1>2. \E x \in Below : \A y \in Below : ~ (<<y, x>> \in StrictSubsetOrdering(Nat))
  BY <1>1, WFMin, FS_StrictSubsetOrderingWellFounded
<1>3. PICK m \in S : \A n \in S : ~ (<<0 .. n, 0 .. m>> \in StrictSubsetOrdering(Nat))
  BY <1>2
<1>4. ASSUME NEW n \in S, n < m PROVE FALSE
  <2>1. 0 .. n \in SUBSET Nat /\ 0 .. m \in SUBSET Nat
    OBVIOUS
  <2>2. 0 .. n \subseteq 0 .. m /\ m \in 0 .. m /\ m \notin 0 .. n
    BY <1>4
  <2>3. QED
    BY <1>3, <2>1, <2>2 DEF StrictSubsetOrdering
<1>5. \A n \in S : m <= n
  BY <1>4
<1>6. QED
  BY <1>5 DEF Least

\* A set that has 0 and is closed under successors up to N has all of 0 .. N.
LEMMA InductionUpTo ==
  ASSUME NEW N \in Nat, NEW T, 0 \in T, \A n \in 1 .. N : n - 1 \in T => n \in T
  PROVE  0 .. N \subseteq T
<1> DEFINE Missing == {n \in 0 .. N : n \notin T}
<1> SUFFICES ASSUME Missing # {} PROVE FALSE
  OBVIOUS
<1>1. Missing \in SUBSET Nat
  OBVIOUS
<1> DEFINE m == Least(Missing)
<1>2. m \in Missing /\ \A n \in Missing : m <= n
  <2> HIDE DEF Missing
  <2>1. QED
    BY <1>1, LeastExists
<1> HIDE DEF m
<1>3. m \in 1 .. N /\ m - 1 \in 0 .. N /\ ~ (m <= m - 1)
  BY <1>2
<1>4. m - 1 \in T
  BY <1>2, <1>3
<1>5. QED
  BY <1>2, <1>3, <1>4

\* A function by recursion over 0 .. N, each value from the one before, exists.
HasRecursion(N, V, b, g) ==
    \E f \in [0 .. N -> V] :
        \A n \in 0 .. N : f[n] = IF n = 0 THEN b ELSE g[<<n, f[n - 1]>>]

LEMMA RecursionExists ==
  ASSUME NEW N \in Nat, NEW V, NEW b \in V, NEW g \in [(1 .. N) \X V -> V]
  PROVE  HasRecursion(N, V, b, g)
<1> DEFINE Upto(m, f) == \A n \in 0 .. m : f[n] = IF n = 0 THEN b ELSE g[<<n, f[n - 1]>>]
           T == {m \in 0 .. N : \E f \in [0 .. m -> V] : Upto(m, f)}
<1>1. 0 \in T
  <2> DEFINE f == [n \in 0 .. 0 |-> b]
  <2>1. f \in [0 .. 0 -> V] /\ \A n \in 0 .. 0 : n = 0 /\ f[n] = b
    OBVIOUS
  <2> HIDE DEF f
  <2>2. Upto(0, f) /\ 0 \in 0 .. N
    BY <2>1
  <2>3. QED
    BY <2>1, <2>2
<1>2. ASSUME NEW m \in 1 .. N, m - 1 \in T PROVE m \in T
  <2>1. PICK f \in [0 .. m - 1 -> V] : Upto(m - 1, f)
    BY <1>2
  <2> DEFINE h == [n \in 0 .. m |-> IF n = m THEN g[<<m, f[m - 1]>>] ELSE f[n]]
  <2>2. m - 1 \in 0 .. m - 1 /\ f[m - 1] \in V /\ \A n \in 0 .. m : n # m => n \in 0 .. m - 1
    BY <2>1
  <2>3. g[<<m, f[m - 1]>>] \in V
    BY <2>2
  <2>4. h \in [0 .. m -> V]
    BY <2>2, <2>3
  <2>5. ASSUME NEW n \in 0 .. m
        PROVE  h[n] = IF n = 0 THEN b ELSE g[<<n, h[n - 1]>>]
    <3>1. CASE n = m
      <4>1. m # 0 /\ m - 1 \in 0 .. m /\ m - 1 # m
        OBVIOUS
      <4>2. h[n] = g[<<m, f[m - 1]>>] /\ h[n - 1] = f[m - 1]
        BY <3>1, <4>1
      <4>3. QED
        BY <3>1, <4>1, <4>2
    <3>2. CASE n # m
      <4>1. n \in 0 .. m - 1 /\ (n # 0 => n - 1 \in 0 .. m /\ n - 1 # m)
        BY <3>2
      <4>2. h[n] = f[n] /\ (n # 0 => h[n - 1] = f[n - 1])
        BY <3>2, <4>1
      <4>3. f[n] = IF n = 0 THEN b ELSE g[<<n, f[n - 1]>>]
        BY <2>1, <4>1
      <4>4. QED
        BY <4>2, <4>3
    <3>3. QED
      BY <3>1, <3>2
  <2> HIDE DEF h
  <2>6. QED
    BY <2>4, <2>5
<1> HIDE DEF T
<1>3. 0 .. N \subseteq T
  BY <1>1, <1>2, InductionUpTo
<1>4. N \in T
  BY <1>3
<1>5. QED
  BY <1>4 DEF T, HasRecursion

\* What the queue holds.
Types == {"audio", "retransmission", "video", "fec", "padding"}
QueuedPackets == [type : Types, size : Nat, key : BOOLEAN, at : Nat]

LEMMA SizeIs ==
  ASSUME NEW queue \in Seq(QueuedPackets)
  PROVE  SizeInBytes(queue) \in Nat
<1> DEFINE N == Len(queue)
           Body(f) == [n \in 0 .. N |-> IF n = 0 THEN 0 ELSE f[n - 1] + queue[n].size]
           size == CHOOSE f : f = Body(f)
           g == [x \in (1 .. N) \X Nat |-> x[2] + queue[x[1]].size]
           T == {n \in 0 .. N : size[n] \in Nat}
<1>1. SizeInBytes(queue) = size[N]
  BY DEF SizeInBytes
<1>2. N \in Nat /\ \A n \in 1 .. N : queue[n].size \in Nat
  <2>1. N \in Nat
    BY LenProperties
  <2>2. \A n \in 1 .. N : queue[n] \in QueuedPackets
    BY ElementOfSeq
  <2>3. QED
    BY <2>1, <2>2 DEF QueuedPackets
<1>3. g \in [(1 .. N) \X Nat -> Nat]
  BY <1>2
<1>4. \A n \in 1 .. N, s \in Nat : g[<<n, s>>] = s + queue[n].size
  OBVIOUS
<1> HIDE DEF g
<1>5. PICK f \in [0 .. N -> Nat] :
        \A n \in 0 .. N : f[n] = IF n = 0 THEN 0 ELSE g[<<n, f[n - 1]>>]
  <2>1. HasRecursion(N, Nat, 0, g)
    <3> HIDE DEF N
    <3>1. N \in Nat /\ 0 \in Nat
      BY <1>2
    <3>2. QED
      BY <1>3, <3>1, RecursionExists
  <2>2. QED
    BY <2>1 DEF HasRecursion
<1>6. f = Body(f)
  <2>1. ASSUME NEW n \in 0 .. N
        PROVE  f[n] = IF n = 0 THEN 0 ELSE f[n - 1] + queue[n].size
    <3>1. n # 0 => n \in 1 .. N /\ n - 1 \in 0 .. N
      BY <1>2
    <3>2. n # 0 => f[n - 1] \in Nat
      BY <3>1
    <3>3. QED
      BY <1>4, <1>5, <3>1, <3>2
  <2>2. QED
    BY <2>1
<1>7. size = Body(size)
  <2> HIDE DEF Body
  <2>1. QED
    BY <1>6
<1> HIDE DEF size
<1>8. \A n \in 0 .. N : size[n] = IF n = 0 THEN 0 ELSE size[n - 1] + queue[n].size
  BY <1>7
<1>9. 0 .. N \subseteq T
  <2>1. 0 \in T
    BY <1>2, <1>8
  <2>2. ASSUME NEW n \in 1 .. N, n - 1 \in T PROVE n \in T
    BY <1>2, <1>8, <2>2
  <2> HIDE DEF T, N
  <2>3. QED
    BY <1>2, <2>1, <2>2, InductionUpTo
<1>10. QED
  BY <1>1, <1>2, <1>9

LEMMA KeptIs ==
  ASSUME NEW S, NEW queue \in Seq(S), NEW types
  PROVE  Kept(queue, types) \in Seq(S)
<1> DEFINE N == Len(queue)
           Keeps(n, s) == IF queue[n].type \in types THEN Append(s, queue[n]) ELSE s
           Body(f) == [n \in 0 .. N |->
                          IF n = 0 THEN <<>>
                          ELSE IF queue[n].type \in types THEN Append(f[n - 1], queue[n])
                          ELSE f[n - 1]]
           kept == CHOOSE f : f = Body(f)
           g == [x \in (1 .. N) \X Seq(S) |-> Keeps(x[1], x[2])]
           T == {n \in 0 .. N : kept[n] \in Seq(S)}
<1>1. Kept(queue, types) = kept[N]
  BY DEF Kept
<1>2. N \in Nat /\ \A n \in 1 .. N : queue[n] \in S
  BY LenProperties, ElementOfSeq
<1>3. \A n \in 1 .. N, s \in Seq(S) : Keeps(n, s) \in Seq(S)
  BY <1>2, AppendProperties
<1>4. <<>> \in Seq(S)
  OBVIOUS
<1> DEFINE none == <<>>
<1> HIDE DEF Keeps
<1>5. /\ g \in [(1 .. N) \X Seq(S) -> Seq(S)]
      /\ \A n \in 1 .. N, s \in Seq(S) : g[<<n, s>>] = Keeps(n, s)
  BY <1>3
<1> HIDE DEF g
<1>6. PICK f \in [0 .. N -> Seq(S)] :
        \A n \in 0 .. N : f[n] = IF n = 0 THEN none ELSE g[<<n, f[n - 1]>>]
  <2>1. none \in Seq(S)
    BY <1>4
  <2> DEFINE V == Seq(S)
  <2> HIDE DEF N, none, V
  <2>2. none \in V /\ g \in [(1 .. N) \X V -> V]
    BY <1>5, <2>1 DEF V
  <2>3. HasRecursion(N, V, none, g)
    BY <1>2, <2>2, RecursionExists
  <2>4. QED
    BY <2>3 DEF V, HasRecursion
<1>7. f = Body(f)
  <2>1. ASSUME NEW n \in 0 .. N
        PROVE  f[n] = IF n = 0 THEN <<>> ELSE Keeps(n, f[n - 1])
    <3>1. n # 0 => n \in 1 .. N /\ n - 1 \in 0 .. N
      BY <1>2
    <3>2. n # 0 => f[n - 1] \in Seq(S)
      BY <3>1
    <3>3. QED
      BY <1>5, <1>6, <3>1, <3>2
  <2>2. QED
    BY <2>1 DEF Keeps
<1>8. kept = Body(kept)
  <2> HIDE DEF Body
  <2>1. QED
    BY <1>7
<1> HIDE DEF kept
<1>9. \A n \in 0 .. N : kept[n] = IF n = 0 THEN <<>> ELSE Keeps(n, kept[n - 1])
  BY <1>8 DEF Keeps
<1>10. 0 .. N \subseteq T
  <2>1. 0 \in T
    <3>1. 0 \in 0 .. N
      BY <1>2
    <3>2. kept[0] = <<>>
      BY <1>9, <3>1
    <3>3. kept[0] \in Seq(S)
      BY <1>4, <3>2
    <3>4. QED
      BY <3>1, <3>3
  <2>2. ASSUME NEW n \in 1 .. N, n - 1 \in T PROVE n \in T
    <3>1. n \in 0 .. N /\ n # 0 /\ kept[n - 1] \in Seq(S)
      BY <1>2, <2>2
    <3>2. kept[n] = Keeps(n, kept[n - 1])
      BY <1>9, <3>1
    <3>3. QED
      BY <1>3, <3>1, <3>2
  <2> HIDE DEF T, N
  <2>3. QED
    BY <1>2, <2>1, <2>2, InductionUpTo
<1>11. QED
  BY <1>1, <1>2, <1>10

-------------------------------------------------------------------------------
(* The invariant *)

\* What the queue may hold at time t.
PacketsAt(t) == [type : Types, size : Nat, key : BOOLEAN, at : 0 .. t]

Probes == [left : Nat, active : BOOLEAN, next : Nat \cup {None}]

ControllersAt(t) ==
    [conf : Configurations, queue : Seq(PacketsAt(t)),
     paused : BOOLEAN, congested : BOOLEAN, seenFirst : BOOLEAN, probeFailed : BOOLEAN,
     lastProcess : 0 .. t + MaxEarlyProbe, lastSend : 0 .. t,
     mediaDebt : Nat, paddingDebt : Nat, adjusted : Nat,
     rates : [pacing : Nat, padding : Nat, burst : Nat],
     probe : Probes]

RatesOK(q) == q.rates.pacing <= q.adjusted /\ q.rates.padding <= q.rates.pacing

ProbeOK(q) == q.probe.next # None => q.probe.next <= q.lastSend + ProbeDelta

ControllerOK(q, t) == q \in ControllersAt(t) /\ RatesOK(q) /\ ProbeOK(q)

USE DEF Probes

LEMMA Constants ==
    /\ {CongestedInterval, MaxElapsedTime, MaxDebtInTime, TargetPaddingDuration,
        QueueTimeLimit, ProbeSize, ProbeDelta, RecommendedProbeSize} \subseteq Nat \ {0}
    /\ {MaxPaddingReplay, MaxEarlyProbe, MaxBurstSize, MaxProbeDelay, Late,
        MaxCalls, MaxTime} \subseteq Nat
    /\ ProbeDelta <= CongestedInterval
  BY PacingAssumption, ProbesAreFrequent

LEMMA MinMaxNat ==
  ASSUME NEW a \in Nat, NEW b \in Nat
  PROVE  MinOf(a, b) \in Nat /\ MaxOf(a, b) \in Nat
  BY DEF MinOf, MaxOf

LEMMA ProductNat == ASSUME NEW a \in Nat, NEW b \in Nat PROVE a * b \in Nat
  OBVIOUS

LEMMA QuotientNat == ASSUME NEW a \in Nat, NEW b \in Nat, b > 0 PROVE a \div b \in Nat
  OBVIOUS

\* What a controller is, field by field.
LEMMA Fields ==
  ASSUME NEW t \in Nat, NEW q, ControllerOK(q, t)
  PROVE  /\ q.conf \in Configurations /\ q.queue \in Seq(PacketsAt(t))
         /\ {q.paused, q.congested, q.seenFirst, q.probeFailed} \subseteq BOOLEAN
         /\ q.lastProcess \in 0 .. t + MaxEarlyProbe /\ q.lastSend \in 0 .. t
         /\ {q.mediaDebt, q.paddingDebt, q.adjusted} \subseteq Nat
         /\ {q.rates.pacing, q.rates.padding, q.rates.burst} \subseteq Nat
         /\ q.rates \in [pacing : Nat, padding : Nat, burst : Nat]
         /\ q.probe \in Probes
         /\ q.rates.pacing <= q.adjusted /\ q.rates.padding <= q.rates.pacing
         /\ q.probe.next # None => q.probe.next <= q.lastSend + ProbeDelta
  BY DEF ControllerOK, ControllersAt, RatesOK, ProbeOK

-------------------------------------------------------------------------------
(* The queue *)

LEMMA PacketsAre ==
  ASSUME NEW t \in Nat, NEW queue \in Seq(PacketsAt(t)), NEW i \in DOMAIN queue
  PROVE  /\ queue[i] \in PacketsAt(t)
         /\ queue[i].type \in Types /\ queue[i].size \in Nat /\ queue[i].at \in 0 .. t
         /\ Priority(queue[i]) \in 0 .. 3
<1>1. queue[i] \in PacketsAt(t)
  BY ElementOfSeq, LenProperties
<1>2. queue[i].type \in Types /\ queue[i].size \in Nat /\ queue[i].at \in 0 .. t
  BY <1>1 DEF PacketsAt
<1>3. QED
  BY <1>1, <1>2 DEF Types, Priority

\* Time passes.
LEMMA PacketsLater ==
  ASSUME NEW t \in Nat, NEW queue \in Seq(PacketsAt(t))
  PROVE  queue \in Seq(PacketsAt(t + 1))
<1>1. PacketsAt(t) \subseteq PacketsAt(t + 1)
  <2>1. ASSUME NEW k \in PacketsAt(t) PROVE k \in PacketsAt(t + 1)
    BY DEF PacketsAt
  <2>2. QED
    BY <2>1
<1> HIDE DEF PacketsAt
<1>2. QED
  BY <1>1

LEMMA BytesAre ==
  ASSUME NEW t \in Nat, NEW queue \in Seq(PacketsAt(t))
  PROVE  SizeInBytes(queue) \in Nat
<1>1. PacketsAt(t) \subseteq QueuedPackets
  <2>1. ASSUME NEW k \in PacketsAt(t) PROVE k \in QueuedPackets
    BY DEF PacketsAt, QueuedPackets
  <2>2. QED
    BY <2>1
<1>2. queue \in Seq(QueuedPackets)
  BY <1>1
<1>3. QED
  BY <1>2, SizeIs

LEMMA RemovedIs ==
  ASSUME NEW S, NEW queue \in Seq(S), NEW i \in 1 .. Len(queue)
  PROVE  RemoveAt(queue, i) \in Seq(S)
<1> DEFINE before == SubSeq(queue, 1, i - 1)
           after == SubSeq(queue, i + 1, Len(queue))
<1>1. before \in Seq(S)
  OBVIOUS
<1>2. after \in Seq(S)
  OBVIOUS
<1> HIDE DEF before, after
<1>3. before \o after \in Seq(S)
  BY <1>1, <1>2, ConcatProperties
<1>4. QED
  BY <1>3 DEF RemoveAt, before, after

-------------------------------------------------------------------------------
(* Debt and rates *)

LEMMA DrainedOK ==
  ASSUME NEW t \in Nat, NEW q, ControllerOK(q, t), NEW u \in 0 .. t + MaxEarlyProbe
  PROVE  ControllerOK(Drained(q, u), t) /\ Drained(q, u).lastSend = q.lastSend
<1> DEFINE last == MaxOf(q.lastProcess, u)
           media == MaxOf(0, q.mediaDebt - q.adjusted * ElapsedTo(q, u))
           padding == MaxOf(0, q.paddingDebt - q.rates.padding * ElapsedTo(q, u))
           r == Drained(q, u)
<1>1. last \in 0 .. t + MaxEarlyProbe
  BY Fields DEF MaxOf
<1>2. ElapsedTo(q, u) \in Nat
  <2>1. MaxElapsedTime \in Nat /\ MaxEarlyProbe \in Nat
    BY Constants
  <2>2. q.lastProcess \in Nat
    BY <2>1, Fields
  <2>3. QED
    BY <2>1, <2>2 DEF ElapsedTo, MinOf
<1>3. media \in Nat
  <2>1. q.adjusted * ElapsedTo(q, u) \in Nat /\ q.mediaDebt \in Nat
    BY <1>2, Fields, ProductNat
  <2>2. QED
    BY <2>1 DEF MaxOf
<1>4. padding \in Nat
  <2>1. q.rates.padding * ElapsedTo(q, u) \in Nat /\ q.paddingDebt \in Nat
    BY <1>2, Fields, ProductNat
  <2>2. QED
    BY <2>1 DEF MaxOf
<1>5. r = [q EXCEPT !.lastProcess = last, !.mediaDebt = media, !.paddingDebt = padding]
  BY DEF Drained
<1> HIDE DEF last, media, padding, r
<1>6. q \in ControllersAt(t)
  BY DEF ControllerOK
<1>7. r \in ControllersAt(t)
  BY <1>1, <1>3, <1>4, <1>5, <1>6 DEF ControllersAt
<1>8. r.lastSend = q.lastSend /\ r.rates = q.rates /\ r.adjusted = q.adjusted /\ r.probe = q.probe
  BY <1>5, <1>6 DEF ControllersAt
<1>9. QED
  BY <1>7, <1>8 DEF ControllerOK, RatesOK, ProbeOK, r

LEMMA OwesPaddingOK ==
  ASSUME NEW t \in Nat, NEW q, ControllerOK(q, t), NEW size \in Nat
  PROVE  ControllerOK(OwesPadding(q, size), t) /\ OwesPadding(q, size).lastSend = q.lastSend
<1> DEFINE debt == MinOf(q.paddingDebt + size, q.rates.padding * MaxDebtInTime)
           r == OwesPadding(q, size)
<1>1. debt \in Nat
  <2>1. q.rates.padding \in Nat /\ MaxDebtInTime \in Nat /\ q.paddingDebt \in Nat
    BY Fields, Constants
  <2>2. q.rates.padding * MaxDebtInTime \in Nat /\ q.paddingDebt + size \in Nat
    BY <2>1, ProductNat
  <2>3. QED
    BY <2>2, MinMaxNat
<1>2. r = [q EXCEPT !.paddingDebt = debt]
  BY DEF OwesPadding
<1> HIDE DEF debt, r
<1>3. q \in ControllersAt(t)
  BY DEF ControllerOK
<1>4. r \in ControllersAt(t)
  BY <1>1, <1>2, <1>3 DEF ControllersAt
<1>5. r.lastSend = q.lastSend /\ r.rates = q.rates /\ r.adjusted = q.adjusted /\ r.probe = q.probe
  BY <1>2, <1>3 DEF ControllersAt
<1>6. QED
  BY <1>4, <1>5 DEF ControllerOK, RatesOK, ProbeOK, r

LEMMA OwesOK ==
  ASSUME NEW t \in Nat, NEW q, ControllerOK(q, t), NEW size \in Nat
  PROVE  ControllerOK(Owes(q, size), t) /\ Owes(q, size).lastSend = q.lastSend
<1> DEFINE debt == MinOf(q.mediaDebt + size, q.adjusted * MaxDebtInTime)
           r == [q EXCEPT !.mediaDebt = debt]
<1>1. debt \in Nat
  <2>1. q.adjusted \in Nat /\ MaxDebtInTime \in Nat /\ q.mediaDebt \in Nat
    BY Fields, Constants
  <2>2. q.adjusted * MaxDebtInTime \in Nat /\ q.mediaDebt + size \in Nat
    BY <2>1, ProductNat
  <2>3. QED
    BY <2>2, MinMaxNat
<1>2. r = [q EXCEPT !.mediaDebt = debt]
  OBVIOUS
<1>3. Owes(q, size) = OwesPadding(r, size)
  BY DEF Owes
<1> HIDE DEF debt, r
<1>4. q \in ControllersAt(t)
  BY DEF ControllerOK
<1>5. r \in ControllersAt(t)
  BY <1>1, <1>2, <1>4 DEF ControllersAt
<1>6. r.lastSend = q.lastSend /\ r.rates = q.rates /\ r.adjusted = q.adjusted /\ r.probe = q.probe
  BY <1>2, <1>4 DEF ControllersAt
<1>7. ControllerOK(r, t)
  BY <1>5, <1>6 DEF ControllerOK, RatesOK, ProbeOK
<1>8. QED
  BY <1>3, <1>6, <1>7, OwesPaddingOK

\* A packet that is sent is the last that was.
LEMMA OnPacketSentOK ==
  ASSUME NEW t \in Nat, NEW q, ControllerOK(q, t), NEW type, NEW size \in Nat
  PROVE  ControllerOK(OnPacketSent(q, type, size, t), t)
         /\ OnPacketSent(q, type, size, t).lastSend = t
<1> DEFINE owing == IF type # "audio" /\ size > 0 THEN Owes(q, size) ELSE q
           r == OnPacketSent(q, type, size, t)
<1>1. ControllerOK(owing, t)
  BY OwesOK
<1>2. r = [owing EXCEPT !.lastSend = t]
  BY DEF OnPacketSent
<1> HIDE DEF owing, r
<1>3. owing \in ControllersAt(t)
  BY <1>1 DEF ControllerOK
<1>4. r \in ControllersAt(t)
  <2>1. t \in 0 .. t
    OBVIOUS
  <2>2. QED
    BY <1>2, <1>3, <2>1 DEF ControllersAt
<1>5. /\ r.lastSend = t /\ r.rates = owing.rates
      /\ r.adjusted = owing.adjusted /\ r.probe = owing.probe
  BY <1>2, <1>3 DEF ControllersAt
<1>6. r.probe.next # None => r.probe.next <= t + ProbeDelta
  <2>1. /\ owing.probe.next # None => owing.probe.next <= owing.lastSend + ProbeDelta
        /\ owing.lastSend \in 0 .. t /\ owing.probe.next \in Nat \cup {None}
    BY <1>1, Fields
  <2>2. ProbeDelta \in Nat
    BY Constants
  <2>3. QED
    BY <1>5, <2>1, <2>2
<1>7. QED
  BY <1>1, <1>4, <1>5, <1>6 DEF ControllerOK, RatesOK, ProbeOK, r

LEMMA RateAdjustedOK ==
  ASSUME NEW t \in Nat, NEW q \in ControllersAt(t), q.rates.padding <= q.rates.pacing, ProbeOK(q),
         NEW r \in RateAdjusted(q, t)
  PROVE  ControllerOK(r, t) /\ r.lastSend = q.lastSend
<1>1. q.rates.pacing \in Nat /\ q.queue \in Seq(PacketsAt(t))
  BY DEF ControllersAt
<1>2. PICK a : r = [q EXCEPT !.adjusted = a] /\ a \in Nat /\ a >= q.rates.pacing
  <2>1. CASE q.conf.drainLargeQueues /\ q.queue # <<>>
    <3>1. PICK rate \in RatesNeeded(q, t) : r = [q EXCEPT !.adjusted = MaxOf(q.rates.pacing, rate)]
      BY <2>1 DEF RateAdjusted
    <3>2. PICK average \in 0 .. t - q.queue[1].at :
            rate = SizeInBytes(q.queue) \div MaxOf(1, QueueTimeLimit - average)
      BY <3>1 DEF RatesNeeded
    <3>3. rate \in Nat
      <4>1. SizeInBytes(q.queue) \in Nat
        BY <1>1, BytesAre
      <4>2. MaxOf(1, QueueTimeLimit - average) \in Nat /\ MaxOf(1, QueueTimeLimit - average) > 0
        BY Constants DEF MaxOf
      <4>3. QED
        BY <3>2, <4>1, <4>2, QuotientNat
    <3>4. MaxOf(q.rates.pacing, rate) \in Nat /\ MaxOf(q.rates.pacing, rate) >= q.rates.pacing
      BY <1>1, <3>3 DEF MaxOf
    <3>5. QED
      BY <3>1, <3>4
  <2>2. CASE ~ (q.conf.drainLargeQueues /\ q.queue # <<>>)
    BY <1>1, <2>2 DEF RateAdjusted
  <2>3. QED
    BY <2>1, <2>2
<1>3. r \in ControllersAt(t)
  BY <1>2 DEF ControllersAt
<1>4. r.lastSend = q.lastSend /\ r.rates = q.rates /\ r.adjusted = a /\ r.probe = q.probe
  BY <1>2 DEF ControllersAt
<1>5. QED
  BY <1>2, <1>3, <1>4 DEF ControllerOK, RatesOK, ProbeOK

-------------------------------------------------------------------------------
(* When to send *)

\* While these hold, only keep-alives may go out.
Quiet(q) == q.conf.padIfSilent \/ q.paused \/ q.congested \/ ~q.seenFirst

\* There is a first unpaced packet, and it is not from the future.
LEMMA UnpacedTime ==
  ASSUME NEW t \in Nat, NEW q, ControllerOK(q, t), Unpaced(q) # {}
  PROVE  NextUnpacedSendTime(q) \in 0 .. t
<1> DEFINE Before(i, j) == \/ Priority(q.queue[i]) < Priority(q.queue[j])
                           \/ Priority(q.queue[i]) = Priority(q.queue[j]) /\ i <= j
           first == CHOOSE i \in Unpaced(q) : \A j \in Unpaced(q) : Before(i, j)
           priorities == {Priority(q.queue[i]) : i \in Unpaced(q)}
<1>1. q.queue \in Seq(PacketsAt(t))
  BY Fields
<1>2. \A i \in Unpaced(q) : i \in DOMAIN q.queue /\ i \in Nat /\ Priority(q.queue[i]) \in Nat
  <2>1. ASSUME NEW i \in Unpaced(q)
        PROVE  i \in DOMAIN q.queue /\ i \in Nat /\ Priority(q.queue[i]) \in Nat
    <3>1. i \in DOMAIN q.queue
      BY DEF Unpaced
    <3>2. i \in Nat
      BY <1>1, <3>1, LenProperties
    <3>3. QED
      BY <1>1, <3>1, <3>2, PacketsAre
  <2>2. QED
    BY <2>1
<1>3. PICK k \in Unpaced(q) : \A j \in Unpaced(q) : Priority(q.queue[k]) <= Priority(q.queue[j])
  <2>1. priorities \in SUBSET Nat /\ priorities # {}
    BY <1>2
  <2> HIDE DEF priorities
  <2>2. Least(priorities) \in priorities /\ \A n \in priorities : Least(priorities) <= n
    BY <2>1, LeastExists
  <2>3. PICK k \in Unpaced(q) : Least(priorities) = Priority(q.queue[k])
    BY <2>2 DEF priorities
  <2>4. \A j \in Unpaced(q) : Priority(q.queue[j]) \in priorities
    BY DEF priorities
  <2>5. QED
    BY <2>2, <2>3, <2>4
<1> DEFINE best == {i \in Unpaced(q) : Priority(q.queue[i]) = Priority(q.queue[k])}
           l == Least(best)
<1>4. l \in best /\ \A n \in best : l <= n
  <2>1. best \in SUBSET Nat /\ best # {}
    BY <1>2
  <2> HIDE DEF best
  <2>2. QED
    BY <2>1, LeastExists
<1> HIDE DEF l
<1>5. \A j \in Unpaced(q) : Before(l, j)
  <2>1. ASSUME NEW j \in Unpaced(q) PROVE Before(l, j)
    <3>1. l \in Unpaced(q) /\ Priority(q.queue[l]) = Priority(q.queue[k])
      BY <1>4
    <3>2. CASE j \in best
      BY <1>4, <3>1, <3>2
    <3>3. CASE j \notin best
      <4>1. /\ Priority(q.queue[j]) \in Nat /\ Priority(q.queue[k]) \in Nat
            /\ Priority(q.queue[j]) # Priority(q.queue[k])
        BY <1>2, <3>3
      <4>2. Priority(q.queue[k]) <= Priority(q.queue[j])
        BY <1>3
      <4>3. Priority(q.queue[k]) < Priority(q.queue[j])
        BY <4>1, <4>2
      <4>4. QED
        BY <3>1, <4>3
    <3>4. QED
      BY <3>2, <3>3
  <2>2. QED
    BY <2>1
<1>6. l \in Unpaced(q)
  BY <1>4
<1> HIDE DEF best, Before
<1>7. first \in Unpaced(q)
  BY <1>5, <1>6
<1>8. NextUnpacedSendTime(q) = q.queue[first].at
  BY DEF NextUnpacedSendTime, Before
<1> HIDE DEF first
<1>9. QED
  BY <1>1, <1>2, <1>7, <1>8, PacketsAre

LEMMA PacedTime ==
  ASSUME NEW t \in Nat, NEW q, ControllerOK(q, t)
  PROVE  /\ NextPacedTime(q) \in Nat
         /\ q.conf.padIfSilent => NextPacedTime(q) <= q.lastSend + CongestedInterval
<1>1. /\ {q.lastProcess, q.lastSend, q.mediaDebt, q.paddingDebt, q.adjusted} \subseteq Nat
      /\ {q.rates.pacing, q.rates.padding, CongestedInterval} \subseteq Nat
      /\ q.rates.padding <= q.rates.pacing /\ q.rates.pacing <= q.adjusted
  <2>1. MaxEarlyProbe \in Nat /\ CongestedInterval \in Nat
    BY Constants
  <2>2. QED
    BY <2>1, Fields
<1>2. q.adjusted > 0 => MediaDrainTime(q) \in Nat /\ NextMediaTime(q) \in Nat
  <2>1. q.adjusted > 0 => MediaDrainTime(q) \in Nat
    BY <1>1, QuotientNat DEF MediaDrainTime
  <2>2. QED
    BY <1>1, <2>1 DEF NextMediaTime
<1>3. q.rates.padding > 0 => NextPaddingTime(q) \in Nat
  <2> SUFFICES ASSUME q.rates.padding > 0 PROVE NextPaddingTime(q) \in Nat
    OBVIOUS
  <2>1. MediaDrainTime(q) \in Nat /\ q.paddingDebt \div q.rates.padding \in Nat
    BY <1>1, <1>2, QuotientNat
  <2>2. PaddingDrainTime(q) \in Nat
    BY <2>1, MinMaxNat DEF PaddingDrainTime
  <2>3. MaxOf(1, PaddingDrainTime(q)) \in Nat
    BY <2>2, MinMaxNat
  <2>4. QED
    BY <1>1, <2>2, <2>3 DEF NextPaddingTime
<1> DEFINE time == IF q.adjusted > 0 /\ q.queue # <<>> THEN NextMediaTime(q)
                   ELSE IF q.rates.padding > 0 /\ q.queue = <<>> THEN NextPaddingTime(q)
                   ELSE q.lastProcess + CongestedInterval
<1>4. time \in Nat
  BY <1>1, <1>2, <1>3
<1>5. NextPacedTime(q) =
        IF q.conf.padIfSilent THEN MinOf(time, q.lastSend + CongestedInterval) ELSE time
  BY DEF NextPacedTime
<1> HIDE DEF time
<1>6. QED
  BY <1>1, <1>4, <1>5 DEF MinOf

LEMMA LastSendNat ==
  ASSUME NEW t \in Nat, NEW q, ControllerOK(q, t)
  PROVE  q.lastSend \in Nat /\ CongestedInterval \in Nat
<1>1. q.lastSend \in 0 .. t
  BY Fields
<1>2. CongestedInterval \in Nat
  BY Constants
<1>3. QED
  BY <1>1, <1>2

\* However the controller stands, a quiet one that need not run now wakes up for
\* its next keep-alive.
LEMMA SendTime ==
  ASSUME NEW t \in Nat, NEW q, ControllerOK(q, t)
  PROVE  /\ NextSendTime(q, t) \in Nat
         /\ Quiet(q) => \/ NextSendTime(q, t) <= t
                        \/ NextSendTime(q, t) <= q.lastSend + CongestedInterval
<1>1. q.lastSend \in Nat /\ CongestedInterval \in Nat
  BY LastSendNat
<1>2. CASE q.paused
  BY <1>1, <1>2 DEF NextSendTime
<1>3. CASE ~q.paused /\ IsProbing(q) /\ ~q.probeFailed
  <2>1. NextSendTime(q, t) = IF q.probe.next = None THEN t ELSE q.probe.next
    BY <1>3 DEF NextSendTime, ProbeIsNext
  <2>2. /\ q.probe.next \in Nat \cup {None} /\ ProbeDelta \in Nat
        /\ q.probe.next # None => q.probe.next <= q.lastSend + ProbeDelta
        /\ ProbeDelta <= CongestedInterval
    BY Fields, Constants
  <2>3. QED
    BY <1>1, <2>1, <2>2
<1>4. CASE ~q.paused /\ ~(IsProbing(q) /\ ~q.probeFailed) /\ Unpaced(q) # {}
  <2>1. NextSendTime(q, t) = NextUnpacedSendTime(q)
    BY <1>4 DEF NextSendTime, ProbeIsNext
  <2>2. QED
    BY <1>4, <2>1, UnpacedTime
<1>5. CASE ~q.paused /\ ~(IsProbing(q) /\ ~q.probeFailed) /\ Unpaced(q) = {}
  <2>1. CASE q.congested \/ ~q.seenFirst
    <3>1. NextSendTime(q, t) = q.lastSend + CongestedInterval
      BY <1>5, <2>1 DEF NextSendTime, ProbeIsNext
    <3>2. QED
      BY <1>1, <3>1
  <2>2. CASE ~q.congested /\ q.seenFirst
    <3>1. NextSendTime(q, t) = NextPacedTime(q)
      BY <1>5, <2>2 DEF NextSendTime, ProbeIsNext
    <3>2. Quiet(q) => q.conf.padIfSilent
      BY <1>5, <2>2 DEF Quiet
    <3>3. QED
      BY <3>1, <3>2, PacedTime
  <2>3. QED
    BY <2>1, <2>2
<1>6. QED
  BY <1>2, <1>3, <1>4, <1>5

-------------------------------------------------------------------------------
(* What the handlers do to the controller *)

LEMMA QueueOK ==
  ASSUME NEW t \in Nat, NEW q, ControllerOK(q, t), NEW queue \in Seq(PacketsAt(t)),
         NEW r, r = [q EXCEPT !.queue = queue]
  PROVE  ControllerOK(r, t) /\ r.lastSend = q.lastSend
<1>1. q \in ControllersAt(t)
  BY DEF ControllerOK
<1>2. r \in ControllersAt(t)
  BY <1>1 DEF ControllersAt
<1>3. r.lastSend = q.lastSend /\ r.rates = q.rates /\ r.adjusted = q.adjusted /\ r.probe = q.probe
  BY <1>1 DEF ControllersAt
<1>4. QED
  BY <1>2, <1>3 DEF ControllerOK, RatesOK, ProbeOK

LEMMA ProbeChangedOK ==
  ASSUME NEW t \in Nat, NEW q, ControllerOK(q, t),
         NEW probe \in Probes,
         probe.next # None => probe.next <= q.lastSend + ProbeDelta,
         NEW r, r = [q EXCEPT !.probe = probe]
  PROVE  ControllerOK(r, t) /\ r.lastSend = q.lastSend
<1>1. q \in ControllersAt(t)
  BY DEF ControllerOK
<1>2. r \in ControllersAt(t)
  BY <1>1 DEF ControllersAt
<1>3. r.lastSend = q.lastSend /\ r.rates = q.rates /\ r.adjusted = q.adjusted /\ r.probe = probe
  BY <1>1 DEF ControllersAt
<1>4. QED
  BY <1>2, <1>3 DEF ControllerOK, RatesOK, ProbeOK

LEMMA EnqueuedOK ==
  ASSUME NEW t \in Nat, NEW q, ControllerOK(q, t),
         NEW packet, packet.type \in Types, packet.size \in Nat, packet.key \in BOOLEAN,
         NEW r \in Enqueued(q, packet, t)
  PROVE  ControllerOK(r, t) /\ r.lastSend = q.lastSend
<1> DEFINE flushed == Flushed(q, packet)
           prepared == [flushed EXCEPT !.probe = Incoming(@)]
           ready == FastForwarded(prepared, t)
           queue == Append(ready.queue, Queued(packet, t))
           pushed == [ready EXCEPT !.queue = Append(@, Queued(packet, t)), !.seenFirst = TRUE]
<1>1. ControllerOK(flushed, t) /\ flushed.lastSend = q.lastSend
  <2>1. CASE flushed = q
    BY <2>1
  <2>2. CASE flushed = [q EXCEPT !.queue = Kept(@, {"audio", "fec"})]
    <3>1. q.queue \in Seq(PacketsAt(t))
      BY Fields
    <3> DEFINE kept == Kept(q.queue, {"audio", "fec"})
    <3>2. kept \in Seq(PacketsAt(t))
      BY <3>1, KeptIs
    <3>3. flushed = [q EXCEPT !.queue = kept]
      BY <2>2
    <3> HIDE DEF flushed, kept
    <3>4. QED
      BY <3>2, <3>3, QueueOK
  <2>3. QED
    BY <2>1, <2>2 DEF Flushed
<1>2. ControllerOK(prepared, t) /\ prepared.lastSend = q.lastSend
  <2>1. /\ flushed.probe \in Probes
        /\ flushed.probe.next # None => flushed.probe.next <= flushed.lastSend + ProbeDelta
    <3> HIDE DEF flushed
    <3>1. QED
      BY <1>1, Fields
  <2> DEFINE probe == Incoming(flushed.probe)
  <2>2. prepared = [flushed EXCEPT !.probe = probe]
    OBVIOUS
  <2> HIDE DEF flushed, prepared
  <2>3. /\ probe \in Probes
        /\ probe.next = flushed.probe.next
    BY <2>1 DEF Incoming
  <2> HIDE DEF probe
  <2>4. QED
    BY <1>1, <2>1, <2>2, <2>3, ProbeChangedOK
<1> HIDE DEF prepared
<1>3. ControllerOK(ready, t) /\ ready.lastSend = q.lastSend
  <2>1. NextSendTime(prepared, t) \in Nat
    BY <1>2, SendTime
  <2> DEFINE until == MinOf(t, NextSendTime(prepared, t))
  <2>2. until \in 0 .. t + MaxEarlyProbe
    BY <2>1, Constants DEF MinOf
  <2>3. ready = IF prepared.queue = <<>> THEN Drained(prepared, until) ELSE prepared
    BY DEF FastForwarded
  <2> HIDE DEF until, ready
  <2>4. QED
    BY <1>2, <2>2, <2>3, DrainedOK
<1> HIDE DEF ready
<1>4. queue \in Seq(PacketsAt(t))
  <2>1. ready.queue \in Seq(PacketsAt(t))
    BY <1>3, Fields
  <2>2. Queued(packet, t) \in PacketsAt(t)
    BY DEF Queued, PacketsAt
  <2> DEFINE S == PacketsAt(t)
             k == Queued(packet, t)
  <2> HIDE DEF S, k
  <2>3. ready.queue \in Seq(S) /\ k \in S
    BY <2>1, <2>2 DEF S, k
  <2>4. Append(ready.queue, k) \in Seq(S)
    BY <2>3, AppendProperties
  <2>5. QED
    BY <2>4 DEF S, k
<1>5. pushed = [ready EXCEPT !.queue = queue, !.seenFirst = TRUE]
  OBVIOUS
<1>6. ready \in ControllersAt(t)
  BY <1>3 DEF ControllerOK
<1> HIDE DEF queue, pushed
<1>7. pushed \in ControllersAt(t)
  BY <1>4, <1>5, <1>6 DEF ControllersAt
<1>8. pushed.lastSend = ready.lastSend /\ pushed.rates = ready.rates /\ pushed.probe = ready.probe
  BY <1>5, <1>6 DEF ControllersAt
<1>9. pushed.rates.padding <= pushed.rates.pacing /\ ProbeOK(pushed)
  BY <1>3, <1>8 DEF ControllerOK, RatesOK, ProbeOK
<1>10. r \in RateAdjusted(pushed, t)
  BY DEF Enqueued, pushed, ready, prepared, queue
<1>11. QED
  BY <1>3, <1>7, <1>8, <1>9, <1>10, RateAdjustedOK

LEMMA CaughtUpOK ==
  ASSUME now \in Nat, NEW q, ControllerOK(q, now)
  PROVE  ControllerOK(CaughtUp(q), now) /\ CaughtUp(q).lastSend = q.lastSend
<1> DEFINE last == Replayed(q.lastProcess)
           r == CaughtUp(q)
<1>1. last \in 0 .. now + MaxEarlyProbe
  <2>1. /\ q.lastProcess \in 0 .. now + MaxEarlyProbe
        /\ {MaxPaddingReplay, MaxEarlyProbe} \subseteq Nat
    BY Fields, Constants
  <2>2. QED
    BY <2>1 DEF Replayed, MaxOf
<1>2. r = [q EXCEPT !.lastProcess = last]
  BY DEF CaughtUp
<1>3. q \in ControllersAt(now)
  BY DEF ControllerOK
<1> HIDE DEF last, r
<1>4. r \in ControllersAt(now)
  BY <1>1, <1>2, <1>3 DEF ControllersAt
<1>5. r.lastSend = q.lastSend /\ r.rates = q.rates /\ r.adjusted = q.adjusted /\ r.probe = q.probe
  BY <1>2, <1>3 DEF ControllersAt
<1>6. QED
  BY <1>4, <1>5 DEF ControllerOK, RatesOK, ProbeOK, r

LEMMA KeepalivesOK ==
  ASSUME now \in Nat, NEW q, ControllerOK(q, now), NEW r \in Keepalives(q)
  PROVE  ControllerOK(r, now)
<1>1. CASE r = q
  BY <1>1
<1>2. CASE r # q
  <2>1. PICK size \in {0} \cup PaddingSizes : r = OnPacketSent(q, "padding", size, now)
    BY <1>2 DEF Keepalives
  <2>2. size \in Nat
    BY PacingAssumption
  <2>3. QED
    BY <2>1, <2>2, OnPacketSentOK
<1>3. QED
  BY <1>1, <1>2

-------------------------------------------------------------------------------
(* The inductive invariant *)

\* Whatever the send loop has sent, it has sent just now.
SentNow == loop.at \in {"pass", "end"} /\ loop.sent # 0 => p.lastSend = now

\* The owner of a quiet controller will call it for its next keep-alive.
WakesInTime ==
    loop = Idle /\ Quiet(p) => wake <= now \/ wake <= p.lastSend + CongestedInterval

ControlInv ==
    /\ now \in Nat /\ wake \in Nat
    /\ ControllerOK(p, now)
    /\ loop \in LoopType
    /\ SentNow
    /\ WakesInTime

IInv == ControlInv /\ vain \in Nat /\ calls \in Nat /\ level \in Int

LEMMA BecomesInv ==
  ASSUME now \in Nat, NEW q, ControllerOK(q, now), Becomes(q)
  PROVE  ControlInv'
<1>1. /\ now' = now /\ p' = q /\ wake' = NextSendTime(q, now)
      /\ loop' = IF wake' <= now THEN Due ELSE Idle
  BY DEF Becomes
<1>2. wake' \in Nat /\ (Quiet(q) => wake' <= now \/ wake' <= q.lastSend + CongestedInterval)
  BY <1>1, SendTime
<1>3. now' \in Nat /\ wake' \in Nat /\ ControllerOK(p', now')
  BY <1>1, <1>2
<1>4. loop' \in LoopType /\ loop' \in {Due, Idle}
  BY <1>1 DEF LoopType
<1>5. SentNow'
  BY <1>4 DEF SentNow, Due, Idle
<1>6. WakesInTime'
  BY <1>1, <1>2 DEF WakesInTime, Due, Idle
<1>7. QED
  BY <1>3, <1>4, <1>5, <1>6 DEF ControlInv

LEMMA InitInv == Init => IInv
<1> SUFFICES ASSUME Init PROVE IInv
  OBVIOUS
<1>1. PICK conf \in Configurations :
        p = [conf |-> conf, queue |-> <<>>, paused |-> FALSE, congested |-> FALSE,
             seenFirst |-> FALSE, lastProcess |-> 0, lastSend |-> 0,
             mediaDebt |-> 0, paddingDebt |-> 0, adjusted |-> 0,
             rates |-> [pacing |-> 0, padding |-> 0, burst |-> 0],
             probe |-> NoCluster, probeFailed |-> FALSE]
  BY DEF Init
<1>2. now = 0 /\ wake = CongestedInterval /\ loop = Idle /\ level = 0 /\ vain = 0 /\ calls = 0
  BY DEF Init
<1>3. CongestedInterval \in Nat /\ MaxEarlyProbe \in Nat
  BY Constants
<1>4. ControllerOK(p, 0)
  <2> DEFINE none == <<>>
  <2>1. none \in Seq(PacketsAt(0))
    OBVIOUS
  <2>2. 0 \in 0 .. 0 /\ 0 \in 0 .. 0 + MaxEarlyProbe
    BY <1>3
  <2>3. NoCluster \in Probes /\ NoCluster.next = None
    BY DEF NoCluster
  <2>4. p.queue = none
    BY <1>1
  <2>5. p \in ControllersAt(0)
    BY <1>1, <2>1, <2>2, <2>3 DEF ControllersAt
  <2>6. QED
    BY <1>1, <2>3, <2>5 DEF ControllerOK, RatesOK, ProbeOK
<1>5. SentNow
  BY <1>2 DEF SentNow, Idle
<1>6. WakesInTime
  BY <1>1, <1>2, <1>3 DEF WakesInTime
<1>7. loop \in LoopType
  BY <1>2 DEF LoopType
<1>8. QED
  BY <1>2, <1>3, <1>4, <1>5, <1>6, <1>7 DEF IInv, ControlInv

LEMMA ApplicationInv == ControlInv /\ Application => ControlInv'
<1> SUFFICES ASSUME ControlInv, Application PROVE ControlInv'
  OBVIOUS
<1>1. now \in Nat /\ ControllerOK(p, now) /\ p \in ControllersAt(now)
  BY DEF ControlInv, ControllerOK
<1>2. CASE SetPacerConfig
  <2>1. PICK rates \in Rates :
          \E q \in RateAdjusted([p EXCEPT !.rates =
                      [rates EXCEPT !.padding = MinOf(@, rates.pacing)]], now) : Becomes(q)
    BY <1>2 DEF SetPacerConfig
  <2> DEFINE capped == [rates EXCEPT !.padding = MinOf(@, rates.pacing)]
             set == [p EXCEPT !.rates = capped]
  <2>2. rates \in [pacing : Nat, padding : Nat, burst : Nat]
    BY PacingAssumption
  <2>3. capped \in [pacing : Nat, padding : Nat, burst : Nat] /\ capped.padding <= capped.pacing
    BY <2>2 DEF MinOf
  <2>4. PICK q \in RateAdjusted(set, now) : Becomes(q)
    BY <2>1
  <2>5. set = [p EXCEPT !.rates = capped]
    OBVIOUS
  <2> HIDE DEF capped, set
  <2>6. set \in ControllersAt(now)
    BY <1>1, <2>3, <2>5 DEF ControllersAt
  <2>7. set.rates = capped /\ set.probe = p.probe /\ set.lastSend = p.lastSend
    BY <1>1, <2>5 DEF ControllersAt
  <2>8. set.rates.padding <= set.rates.pacing /\ ProbeOK(set)
    BY <1>1, <2>3, <2>7 DEF ControllerOK, ProbeOK
  <2>9. ControllerOK(q, now)
    BY <1>1, <2>4, <2>6, <2>8, RateAdjustedOK
  <2>10. QED
    BY <1>1, <2>4, <2>9, BecomesInv
<1>3. CASE Pause \/ Resume
  <2>1. PICK b \in BOOLEAN : Becomes([p EXCEPT !.paused = b])
    BY <1>3 DEF Pause, Resume
  <2> DEFINE q == [p EXCEPT !.paused = b]
  <2>2. q = [p EXCEPT !.paused = b]
    OBVIOUS
  <2> HIDE DEF q
  <2>3. q \in ControllersAt(now)
    BY <1>1, <2>2 DEF ControllersAt
  <2>4. q.lastSend = p.lastSend /\ q.rates = p.rates /\ q.adjusted = p.adjusted /\ q.probe = p.probe
    BY <1>1, <2>2 DEF ControllersAt
  <2>5. ControllerOK(q, now)
    BY <1>1, <2>3, <2>4 DEF ControllerOK, RatesOK, ProbeOK
  <2>6. QED
    BY <1>1, <2>1, <2>2, <2>5, BecomesInv
<1>4. CASE SetCongested
  <2> DEFINE r == IF p.congested THEN Drained(p, now) ELSE p
             q == [r EXCEPT !.congested = ~@]
  <2>1. ControllerOK(r, now)
    <3>1. now \in 0 .. now + MaxEarlyProbe
      BY <1>1, Constants
    <3>2. QED
      BY <1>1, <3>1, DrainedOK
  <2>2. Becomes(q) /\ q = [r EXCEPT !.congested = ~@]
    BY <1>4 DEF SetCongested
  <2> HIDE DEF r, q
  <2>3. r \in ControllersAt(now)
    BY <2>1 DEF ControllerOK
  <2>4. q \in ControllersAt(now)
    BY <2>2, <2>3 DEF ControllersAt
  <2>5. q.lastSend = r.lastSend /\ q.rates = r.rates /\ q.adjusted = r.adjusted /\ q.probe = r.probe
    BY <2>2, <2>3 DEF ControllersAt
  <2>6. ControllerOK(q, now)
    BY <2>1, <2>4, <2>5 DEF ControllerOK, RatesOK, ProbeOK
  <2>7. QED
    BY <1>1, <2>2, <2>6, BecomesInv
<1>5. CASE RemovePacketsForSsrc
  <2>1. PICK types : Becomes([p EXCEPT !.queue = Kept(@, types)])
    BY <1>5 DEF RemovePacketsForSsrc
  <2> DEFINE kept == Kept(p.queue, types)
             q == [p EXCEPT !.queue = kept]
  <2>2. kept \in Seq(PacketsAt(now))
    <3>1. p.queue \in Seq(PacketsAt(now))
      BY <1>1, Fields
    <3>2. QED
      BY <3>1, KeptIs
  <2>3. Becomes(q) /\ q = [p EXCEPT !.queue = kept]
    BY <2>1
  <2> HIDE DEF kept, q
  <2>4. ControllerOK(q, now)
    BY <1>1, <2>2, <2>3, QueueOK
  <2>5. QED
    BY <1>1, <2>3, <2>4, BecomesInv
<1>6. CASE CreateProbeCluster
  <2> DEFINE probe == [NoCluster EXCEPT !.left = ProbeSize]
             q == [p EXCEPT !.probe = probe]
  <2>1. probe \in Probes /\ probe.next = None
    BY Constants DEF NoCluster
  <2>2. Becomes(q) /\ q = [p EXCEPT !.probe = probe]
    BY <1>6 DEF CreateProbeCluster
  <2> HIDE DEF probe, q
  <2>3. ControllerOK(q, now)
    BY <1>1, <2>1, <2>2, ProbeChangedOK
  <2>4. QED
    BY <1>1, <2>2, <2>3, BecomesInv
<1>7. CASE EnqueuePacket
  <2>1. PICK packet \in MediaPackets : \E q \in Enqueued(p, packet, now) :
          \/ Becomes(q)
          \/ p' = q /\ loop' = Batch /\ UNCHANGED <<now, wake>>
    BY <1>7 DEF EnqueuePacket
  <2> PICK q \in Enqueued(p, packet, now) :
          \/ Becomes(q)
          \/ p' = q /\ loop' = Batch /\ UNCHANGED <<now, wake>>
    BY <2>1
  <2>2. packet.type \in Types /\ packet.size \in Nat /\ packet.key \in BOOLEAN
    BY PacingAssumption DEF Types
  <2>3. ControllerOK(q, now)
    BY <1>1, <2>2, EnqueuedOK
  <2>4. CASE Becomes(q)
    BY <1>1, <2>3, <2>4, BecomesInv
  <2>5. CASE p' = q /\ loop' = Batch /\ UNCHANGED <<now, wake>>
    <3>1. loop' \in LoopType /\ loop'.at = "batch" /\ loop' # Idle
      BY <2>5 DEF LoopType, Batch, Idle
    <3>2. SentNow' /\ WakesInTime'
      BY <3>1 DEF SentNow, WakesInTime
    <3>3. QED
      BY <2>3, <2>5, <3>1, <3>2 DEF ControlInv
  <2>6. QED
    BY <2>1, <2>4, <2>5
<1>8. QED
  BY <1>2, <1>3, <1>4, <1>5, <1>6, <1>7 DEF Application

LEMMA LaterOK ==
  ASSUME NEW t \in Nat, NEW q, ControllerOK(q, t)
  PROVE  ControllerOK(q, t + 1)
<1>1. q \in ControllersAt(t) /\ MaxEarlyProbe \in Nat
  BY Constants DEF ControllerOK
<1>2. q.queue \in Seq(PacketsAt(t + 1))
  BY Fields, PacketsLater
<1>3. q.lastSend \in 0 .. t + 1 /\ q.lastProcess \in 0 .. (t + 1) + MaxEarlyProbe
  BY <1>1, Fields
<1> DEFINE later == Seq(PacketsAt(t + 1))
           earlier == Seq(PacketsAt(t))
<1> HIDE DEF later, earlier
<1>4. q.queue \in later
  BY <1>2 DEF later
<1>5. q \in [conf : Configurations, queue : earlier,
             paused : BOOLEAN, congested : BOOLEAN, seenFirst : BOOLEAN, probeFailed : BOOLEAN,
             lastProcess : 0 .. t + MaxEarlyProbe, lastSend : 0 .. t,
             mediaDebt : Nat, paddingDebt : Nat, adjusted : Nat,
             rates : [pacing : Nat, padding : Nat, burst : Nat],
             probe : Probes]
  BY <1>1 DEF ControllersAt, earlier
<1>6. q \in [conf : Configurations, queue : later,
             paused : BOOLEAN, congested : BOOLEAN, seenFirst : BOOLEAN, probeFailed : BOOLEAN,
             lastProcess : 0 .. (t + 1) + MaxEarlyProbe, lastSend : 0 .. t + 1,
             mediaDebt : Nat, paddingDebt : Nat, adjusted : Nat,
             rates : [pacing : Nat, padding : Nat, burst : Nat],
             probe : Probes]
  BY <1>3, <1>4, <1>5
<1>7. q \in ControllersAt(t + 1)
  BY <1>6 DEF ControllersAt, later
<1>8. QED
  BY <1>7 DEF ControllerOK

LEMMA TickInv == ControlInv /\ Tick => ControlInv'
<1> SUFFICES ASSUME ControlInv, Tick PROVE ControlInv'
  OBVIOUS
<1>1. now' = now + 1 /\ p' = p /\ loop' = loop /\ wake' = wake /\ loop = Idle
  BY DEF Tick
<1>2. now \in Nat /\ wake \in Nat /\ ControllerOK(p, now) /\ loop \in LoopType
  BY DEF ControlInv
<1>3. ControllerOK(p', now')
  BY <1>1, <1>2, LaterOK
<1>4. SentNow'
  BY <1>1 DEF SentNow, Idle
<1>5. WakesInTime'
  <2>1. Quiet(p) => wake <= now \/ wake <= p.lastSend + CongestedInterval
    BY <1>1 DEF ControlInv, WakesInTime
  <2>2. QED
    BY <1>1, <1>2, <2>1 DEF WakesInTime
<1>6. QED
  BY <1>1, <1>2, <1>3, <1>4, <1>5 DEF ControlInv

-------------------------------------------------------------------------------
(* ProcessPackets *)

Loops == [at : {"pass", "end"}, target : Nat, sent : Nat, passes : Nat, probing : BOOLEAN,
          recommended : {0, RecommendedProbeSize}, firstProbe : BOOLEAN, timedOut : BOOLEAN]

LEMMA Looping ==
  ASSUME loop \in LoopType, loop.at \in {"pass", "end"}
  PROVE  loop \in Loops
  BY DEF LoopType, Loops, Idle, Due, Batch

\* A step within the send loop.
LEMMA LoopStep ==
  ASSUME now \in Nat, wake \in Nat, UNCHANGED <<now, wake>>, ControllerOK(p', now),
         loop' \in Loops, loop'.sent # 0 => p'.lastSend = now
  PROVE  ControlInv'
<1>1. loop' \in LoopType /\ loop' # Idle
  BY DEF LoopType, Loops, Idle
<1>2. SentNow' /\ WakesInTime'
  BY <1>1 DEF SentNow, WakesInTime
<1>3. QED
  BY <1>1, <1>2 DEF ControlInv

LEMMA SendNothingInv == ControlInv /\ SendNothing => ControlInv'
<1> SUFFICES ASSUME ControlInv, SendNothing PROVE ControlInv'
  OBVIOUS
<1>1. now \in Nat /\ ControllerOK(p, now)
  BY DEF ControlInv
<1>2. PICK q \in Keepalives(p) : Becomes(IF q.paused THEN q ELSE Drained(q, now))
  BY DEF SendNothing
<1>3. ControllerOK(q, now)
  BY <1>1, KeepalivesOK
<1>4. now \in 0 .. now + MaxEarlyProbe
  BY <1>1, Constants
<1>5. ControllerOK(IF q.paused THEN q ELSE Drained(q, now), now)
  BY <1>1, <1>3, <1>4, DrainedOK
<1>6. QED
  BY <1>1, <1>2, <1>5, BecomesInv

LEMMA StartSendingInv == ControlInv /\ StartSending => ControlInv'
<1> SUFFICES ASSUME ControlInv, StartSending PROVE ControlInv'
  OBVIOUS
<1>1. now \in Nat /\ wake \in Nat /\ ControllerOK(p, now) /\ MaxEarlyProbe \in Nat
  BY Constants DEF ControlInv
<1> DEFINE TooLate(q) == IsProbing(q) /\ TimedOut(q.probe, now)
           Probing(q) == IsProbing(q) /\ ~TooLate(q)
<1>2. PICK q \in Keepalives(p) :
        /\ ~TooEarly(q)
        /\ p' = [Drained(q, NextSendTime(q, now)) EXCEPT
                   !.probe = IF TooLate(q) THEN NoCluster ELSE @]
        /\ loop' = [at |-> "pass", target |-> NextSendTime(q, now), sent |-> 0, passes |-> 0,
                    probing |-> Probing(q),
                    recommended |-> IF Probing(q) THEN RecommendedProbeSize ELSE 0,
                    firstProbe |-> Probing(q) /\ q.probe.left = ProbeSize,
                    timedOut |-> TooLate(q)]
  BY DEF StartSending
<1> DEFINE target == NextSendTime(q, now)
           drained == Drained(q, target)
           probe == IF TooLate(q) THEN NoCluster ELSE drained.probe
<1>3. ControllerOK(q, now)
  BY <1>1, KeepalivesOK
<1>4. target \in 0 .. now + MaxEarlyProbe
  <2>1. target \in Nat
    BY <1>1, <1>3, SendTime
  <2>2. target <= now + Margin(q)
    <3>1. ~ (now + Margin(q) < target)
      BY <1>2 DEF TooEarly
    <3>2. now + Margin(q) \in Nat
      BY <1>1 DEF Margin
    <3> HIDE DEF target
    <3>3. QED
      BY <2>1, <3>1, <3>2
  <2> HIDE DEF target
  <2>3. QED
    BY <1>1, <2>1, <2>2 DEF Margin
<1>5. Probing(q) \in BOOLEAN /\ TooLate(q) \in BOOLEAN
  OBVIOUS
<1>6. loop' \in Loops /\ loop'.sent = 0
  <2> DEFINE probing == Probing(q)
             first == Probing(q) /\ q.probe.left = ProbeSize
             timedOut == TooLate(q)
  <2>1. probing \in BOOLEAN /\ first \in BOOLEAN /\ timedOut \in BOOLEAN /\ target \in Nat
    BY <1>1, <1>4
  <2>2. loop' = [at |-> "pass", target |-> target, sent |-> 0, passes |-> 0,
                 probing |-> probing, recommended |-> IF probing THEN RecommendedProbeSize ELSE 0,
                 firstProbe |-> first, timedOut |-> timedOut]
    BY <1>2
  <2> HIDE DEF target, probing, first, timedOut
  <2>3. QED
    BY <2>1, <2>2 DEF Loops
<1>7. p' = [drained EXCEPT !.probe = probe]
  BY <1>2
<1>8. UNCHANGED <<now, wake>>
  BY DEF StartSending
<1> HIDE DEF target
<1>9. ControllerOK(drained, now)
  BY <1>1, <1>3, <1>4, DrainedOK
<1> HIDE DEF drained
<1>10. /\ probe \in Probes
       /\ probe.next # None => probe.next <= drained.lastSend + ProbeDelta
  BY <1>1, <1>9, Fields DEF NoCluster
<1> HIDE DEF probe
<1>11. ControllerOK(p', now)
  BY <1>1, <1>7, <1>9, <1>10, ProbeChangedOK
<1>12. QED
  BY <1>1, <1>6, <1>8, <1>11, LoopStep

LEMMA SentInv ==
  ASSUME ControlInv, loop.at = "pass", NEW q, ControllerOK(q, now),
         NEW packet, packet.size \in Nat, Sent(q, packet), UNCHANGED <<now, wake>>
  PROVE  ControlInv'
<1>1. now \in Nat /\ wake \in Nat /\ loop \in Loops
  BY Looping DEF ControlInv
<1> DEFINE S(r) == OnPacketSent(r, packet.type, packet.size, now)
           sent == loop.sent + packet.size
           Upto(r) == MinOf(NextSendTime(S(r), now), now)
           Leaves(r) == \/ loop.probing /\ sent >= loop.recommended
                        \/ ~loop.probing /\ NextSendTime(S(r), now) > now
<1>2. PICK r \in FecEnqueued(q, packet) :
        /\ p' = IF Leaves(r) THEN S(r) ELSE Drained(S(r), Upto(r))
        /\ loop' = [loop EXCEPT !.sent = sent, !.firstProbe = FALSE, !.timedOut = FALSE,
                                !.at = IF Leaves(r) THEN "end" ELSE "pass",
                                !.passes = @ + 1, !.target = Upto(r)]
  BY DEF Sent
<1>3. ControllerOK(r, now)
  <2> DEFINE fec == [type |-> "fec", size |-> 1, key |-> FALSE]
  <2>1. fec.type \in Types /\ fec.size \in Nat /\ fec.key \in BOOLEAN
    BY DEF Types
  <2>2. r = q \/ r \in Enqueued(q, fec, now)
    BY DEF FecEnqueued
  <2> HIDE DEF fec
  <2>3. QED
    BY <1>1, <2>1, <2>2, EnqueuedOK
<1> DEFINE s == S(r)
           target == Upto(r)
           leave == Leaves(r)
<1>4. ControllerOK(s, now) /\ s.lastSend = now
  BY <1>1, <1>3, OnPacketSentOK
<1>5. target \in 0 .. now /\ target \in 0 .. now + MaxEarlyProbe
  <2>1. NextSendTime(s, now) \in Nat /\ MaxEarlyProbe \in Nat
    <3> HIDE DEF s
    <3>1. QED
      BY <1>1, <1>4, SendTime, Constants
  <2>2. target = MinOf(NextSendTime(s, now), now)
    OBVIOUS
  <2> HIDE DEF s, target
  <2>3. QED
    BY <1>1, <2>1, <2>2 DEF MinOf
<1>6. p' = IF leave THEN s ELSE Drained(s, target)
  BY <1>2
<1>7. loop' = [loop EXCEPT !.sent = sent, !.firstProbe = FALSE, !.timedOut = FALSE,
                           !.at = IF leave THEN "end" ELSE "pass",
                           !.passes = @ + 1, !.target = target]
  BY <1>2
<1>8. sent \in Nat
  BY <1>1 DEF Loops
<1> HIDE DEF s, target, leave, sent
<1>9. ControllerOK(p', now) /\ p'.lastSend = now
  BY <1>1, <1>4, <1>5, <1>6, DrainedOK
<1>10. loop' \in Loops
  <2> DEFINE at == IF leave THEN "end" ELSE "pass"
             passes == loop.passes + 1
  <2>1. at \in {"pass", "end"} /\ passes \in Nat /\ target \in Nat
    BY <1>1, <1>5 DEF Loops
  <2>2. loop' = [loop EXCEPT !.sent = sent, !.firstProbe = FALSE, !.timedOut = FALSE, !.at = at,
                             !.passes = passes, !.target = target]
    BY <1>7
  <2> HIDE DEF at, passes
  <2>3. QED
    BY <1>1, <1>8, <2>1, <2>2 DEF Loops
<1>11. QED
  BY <1>1, <1>9, <1>10, LoopStep

LEMMA PassInv == ControlInv /\ (SendProbePadding \/ SendQueued) => ControlInv'
<1> SUFFICES ASSUME ControlInv, SendProbePadding \/ SendQueued PROVE ControlInv'
  OBVIOUS
<1>1. now \in Nat /\ ControllerOK(p, now) /\ p.queue \in Seq(PacketsAt(now))
  BY Fields DEF ControlInv
<1>2. loop.at = "pass" /\ UNCHANGED <<now, wake>>
  BY DEF SendProbePadding, SendQueued, CanPass
<1>3. CASE SendProbePadding
  <2>1. PICK size \in PaddingSizes : Sent(p, [type |-> "padding", size |-> size])
    BY <1>3 DEF SendProbePadding
  <2> DEFINE packet == [type |-> "padding", size |-> size]
  <2>2. packet.size \in Nat /\ Sent(p, packet)
    BY <2>1, PacingAssumption
  <2> HIDE DEF packet
  <2>3. QED
    BY <1>1, <1>2, <2>2, SentInv
<1>4. CASE SendQueued
  <2>1. PICK i \in Heads(p.queue) : Sent([p EXCEPT !.queue = RemoveAt(@, i)], p.queue[i])
    BY <1>4 DEF SendQueued
  <2>2. i \in DOMAIN p.queue
    BY DEF Heads
  <2>3. i \in 1 .. Len(p.queue)
    BY <1>1, <2>2, LenProperties
  <2> DEFINE packet == p.queue[i]
             queue == RemoveAt(p.queue, i)
             q == [p EXCEPT !.queue = queue]
  <2>4. packet.size \in Nat
    BY <1>1, <2>2, PacketsAre
  <2>5. queue \in Seq(PacketsAt(now))
    BY <1>1, <2>3, RemovedIs
  <2>6. Sent(q, packet) /\ q = [p EXCEPT !.queue = queue]
    BY <2>1
  <2> HIDE DEF packet, queue, q
  <2>7. ControllerOK(q, now)
    BY <1>1, <2>5, <2>6, QueueOK
  <2>8. QED
    BY <1>2, <2>4, <2>6, <2>7, SentInv
<1>5. QED
  BY <1>3, <1>4

LEMMA PaddingNat ==
  ASSUME ControlInv, loop.at = "pass"
  PROVE  PaddingToAdd(p, loop) \in Nat
<1>1. loop \in Loops /\ ControllerOK(p, now) /\ now \in Nat
  BY Looping DEF ControlInv
<1>2. loop.recommended \in Nat /\ loop.sent \in Nat
  BY <1>1, Constants DEF Loops
<1>3. TargetPaddingDuration * p.rates.padding \in Nat
  <2>1. TargetPaddingDuration \in Nat /\ p.rates.padding \in Nat
    BY <1>1, Fields, Constants
  <2>2. QED
    BY <2>1, ProductNat
<1>4. MaxOf(0, loop.recommended - loop.sent) \in Nat
  BY <1>2 DEF MaxOf
<1>5. p.congested \in BOOLEAN
  BY <1>1, Fields
<1>6. CASE p.queue # <<>> \/ p.congested
  BY <1>6 DEF PaddingToAdd
<1>7. CASE p.queue = <<>> /\ ~p.congested /\ loop.recommended > 0
  BY <1>4, <1>7 DEF PaddingToAdd
<1>8. CASE p.queue = <<>> /\ ~p.congested /\ ~(loop.recommended > 0)
  BY <1>3, <1>8 DEF PaddingToAdd
<1>9. QED
  BY <1>6, <1>7, <1>8

LEMMA HeldBackInv == ControlInv /\ (AddPadding \/ LeaveLoop) => ControlInv'
<1> SUFFICES ASSUME ControlInv, AddPadding \/ LeaveLoop PROVE ControlInv'
  OBVIOUS
<1>1. /\ now \in Nat /\ wake \in Nat /\ ControllerOK(p, now)
      /\ loop \in LoopType /\ SentNow
  BY DEF ControlInv
<1>2. loop.at = "pass" /\ UNCHANGED <<now, wake>>
  BY DEF AddPadding, LeaveLoop, CanPass
<1>3. loop \in Loops
  BY <1>1, <1>2, Looping
<1> DEFINE target == Replayed(loop.target)
           q == CaughtUp(p)
<1>4. target \in Nat
  <2>1. loop.target \in Nat /\ MaxPaddingReplay \in Nat
    BY <1>3, Constants DEF Loops
  <2>2. QED
    BY <1>1, <2>1 DEF Replayed, MaxOf
<1>5. ControllerOK(q, now) /\ q.lastSend = p.lastSend
  BY <1>1, CaughtUpOK
<1>6. loop.sent # 0 => p.lastSend = now
  BY <1>1, <1>2 DEF SentNow
<1>7. CASE AddPadding
  <2>1. PICK size \in PaddingSizes :
          p' \in Enqueued(CaughtUp(p), [type |-> "padding", size |-> size, key |-> FALSE], now)
    BY <1>7 DEF AddPadding
  <2> DEFINE packet == [type |-> "padding", size |-> size, key |-> FALSE]
             passes == loop.passes + 1
  <2>2. packet.type \in Types /\ packet.size \in Nat /\ packet.key \in BOOLEAN
    BY PacingAssumption DEF Types
  <2>3. p' \in Enqueued(q, packet, now)
    BY <2>1
  <2>4. loop' = [loop EXCEPT !.target = target, !.passes = passes]
    BY <1>7 DEF AddPadding
  <2>5. passes \in Nat
    BY <1>3 DEF Loops
  <2> HIDE DEF packet, target, passes, q
  <2>6. ControllerOK(p', now) /\ p'.lastSend = p.lastSend
    BY <1>1, <1>5, <2>2, <2>3, EnqueuedOK
  <2>7. loop' \in Loops /\ loop'.sent = loop.sent
    BY <1>3, <1>4, <2>4, <2>5 DEF Loops
  <2>8. QED
    BY <1>1, <1>2, <1>6, <2>6, <2>7, LoopStep
<1>8. CASE LeaveLoop
  <2> DEFINE wanted == PaddingToAdd(p, loop)
  <2>1. wanted \in Nat
    BY <1>2, PaddingNat
  <2>2. p' = IF wanted > 0 THEN OwesPadding(q, wanted) ELSE q
    BY <1>8 DEF LeaveLoop
  <2>3. loop' = [loop EXCEPT !.target = target, !.at = "end"]
    BY <1>8 DEF LeaveLoop
  <2> HIDE DEF wanted, target, q
  <2>4. ControllerOK(p', now) /\ p'.lastSend = p.lastSend
    BY <1>1, <1>5, <2>1, <2>2, OwesPaddingOK
  <2>5. loop' \in Loops /\ loop'.sent = loop.sent
    BY <1>3, <1>4, <2>3 DEF Loops
  <2>6. QED
    BY <1>1, <1>2, <1>6, <2>4, <2>5, LoopStep
<1>9. QED
  BY <1>7, <1>8

LEMMA BreakCircuitInv == ControlInv /\ BreakCircuit => ControlInv'
<1> SUFFICES ASSUME ControlInv, BreakCircuit PROVE ControlInv'
  OBVIOUS
<1>1. now \in Nat /\ ControllerOK(p, now) /\ p \in ControllersAt(now) /\ MaxEarlyProbe \in Nat
  BY Constants DEF ControlInv, ControllerOK
<1> DEFINE q == [p EXCEPT !.lastSend = now, !.lastProcess = now]
<1>2. Becomes(q)
  BY DEF BreakCircuit
<1>3. q = [p EXCEPT !.lastSend = now, !.lastProcess = now]
  OBVIOUS
<1> HIDE DEF q
<1>4. q \in ControllersAt(now)
  <2>1. now \in 0 .. now /\ now \in 0 .. now + MaxEarlyProbe
    BY <1>1
  <2>2. QED
    BY <1>1, <1>3, <2>1 DEF ControllersAt
<1>5. q.lastSend = now /\ q.rates = p.rates /\ q.adjusted = p.adjusted /\ q.probe = p.probe
  BY <1>1, <1>3 DEF ControllersAt
<1>6. q.probe.next # None => q.probe.next <= now + ProbeDelta
  <2>1. /\ p.probe.next # None => p.probe.next <= p.lastSend + ProbeDelta
        /\ p.lastSend \in 0 .. now /\ p.probe.next \in Nat \cup {None}
    BY <1>1, Fields
  <2>2. ProbeDelta \in Nat
    BY Constants
  <2>3. QED
    BY <1>1, <1>5, <2>1, <2>2
<1>7. ControllerOK(q, now)
  BY <1>1, <1>4, <1>5, <1>6 DEF ControllerOK, RatesOK, ProbeOK
<1>8. QED
  BY <1>1, <1>2, <1>7, BecomesInv

LEMMA FinishSendingInv == ControlInv /\ FinishSending => ControlInv'
<1> SUFFICES ASSUME ControlInv, FinishSending PROVE ControlInv'
  OBVIOUS
<1>1. /\ now \in Nat /\ ControllerOK(p, now) /\ p \in ControllersAt(now)
      /\ loop \in LoopType /\ SentNow
  BY DEF ControlInv, ControllerOK
<1>2. loop.at = "end"
  BY DEF FinishSending
<1>3. loop \in Loops
  BY <1>1, <1>2, Looping
<1> DEFINE failed == loop.sent = 0
           probe == IF loop.sent = 0 THEN p.probe ELSE ProbeSent(p.probe, now, loop.sent)
           probed == [p EXCEPT !.probeFailed = failed, !.probe = probe]
           q == Probed(p, loop)
<1>4. q = p \/ q = probed
  BY DEF Probed
<1>5. /\ p.probe \in Probes
      /\ p.probe.next # None => p.probe.next <= p.lastSend + ProbeDelta
  BY <1>1, Fields
<1>6. /\ probe \in Probes
      /\ probe.next # None => probe.next <= p.lastSend + ProbeDelta
  <2>1. CASE loop.sent = 0
    BY <1>5, <2>1
  <2>2. CASE loop.sent # 0
    <3>1. p.lastSend = now
      BY <1>1, <1>2, <2>2 DEF SentNow
    <3> DEFINE left == p.probe.left - loop.sent
               next == now + ProbeDelta
    <3>2. CASE loop.sent >= p.probe.left
      <4>1. probe = NoCluster
        BY <2>2, <3>2 DEF ProbeSent
      <4>2. /\ NoCluster \in Probes
            /\ NoCluster.next = None
        BY DEF NoCluster
      <4> HIDE DEF probe
      <4>3. QED
        BY <4>1, <4>2
    <3>3. CASE ~ (loop.sent >= p.probe.left)
      <4>1. probe = [p.probe EXCEPT !.left = left, !.next = next]
        BY <2>2, <3>3 DEF ProbeSent
      <4>2. left \in Nat /\ next \in Nat
        BY <1>1, <1>3, <1>5, <3>3, Constants DEF Loops
      <4>3. next = p.lastSend + ProbeDelta
        BY <3>1
      <4> HIDE DEF probe, left, next
      <4>4. probe \in Probes /\ probe.next = next
        BY <1>5, <4>1, <4>2
      <4> DEFINE limit == p.lastSend + ProbeDelta
      <4>5. next = limit /\ next \in Nat
        BY <4>2, <4>3
      <4> HIDE DEF limit
      <4>6. probe.next <= limit
        BY <4>4, <4>5
      <4>7. QED
        BY <4>4, <4>6 DEF limit
    <3>4. QED
      BY <3>2, <3>3
  <2>3. QED
    BY <2>1, <2>2
<1>7. failed \in BOOLEAN
  OBVIOUS
<1>8. probed = [p EXCEPT !.probeFailed = failed, !.probe = probe]
  OBVIOUS
<1> HIDE DEF failed, probe, probed
<1>9. probed \in ControllersAt(now)
  BY <1>1, <1>6, <1>7, <1>8 DEF ControllersAt
<1>10. probed.lastSend = p.lastSend /\ probed.rates = p.rates /\ probed.probe = probe
  BY <1>1, <1>8 DEF ControllersAt
<1>11. probed.rates.padding <= probed.rates.pacing /\ ProbeOK(probed)
  BY <1>1, <1>6, <1>10 DEF ControllerOK, RatesOK, ProbeOK
<1>12. q \in ControllersAt(now) /\ q.rates.padding <= q.rates.pacing /\ ProbeOK(q)
  BY <1>1, <1>4, <1>9, <1>11 DEF ControllerOK, RatesOK
<1>13. PICK r \in RateAdjusted(q, now) : Becomes(r)
  BY DEF FinishSending
<1> HIDE DEF q
<1>14. ControllerOK(r, now)
  BY <1>1, <1>12, <1>13, RateAdjustedOK
<1>15. QED
  BY <1>1, <1>13, <1>14, BecomesInv

-------------------------------------------------------------------------------
(* The theorems *)

LEMMA CountersInv ==
  ASSUME IInv, [Next]_vars
  PROVE  (vain \in Nat /\ calls \in Nat /\ level \in Int)'
<1>1. /\ vain \in Nat /\ calls \in Nat /\ level \in Int /\ now \in Nat
      /\ ControllerOK(p, now) /\ p.adjusted \in Nat
  BY Fields DEF IInv, ControlInv
<1>2. CASE Application
  <2>1. vain' = vain /\ calls' = calls + 1 /\ (SetPacerConfig \/ level' = level)
    BY <1>2 DEF Application
  <2>2. CASE SetPacerConfig
    <3>1. PICK q : Becomes(q) /\ level' = LevelAfterRates(q)
      BY <2>2 DEF SetPacerConfig
    <3>2. p' = q /\ now' = now /\ ControlInv'
      BY <1>2, <3>1, ApplicationInv DEF Becomes, IInv
    <3>3. ControllerOK(q, now) /\ MaxDebtInTime \in Nat
      BY <3>2, Constants DEF ControlInv
    <3>4. /\ q.mediaDebt \in Nat /\ q.adjusted \in Nat
          /\ q.lastProcess \in Int
      BY <1>1, <3>3, Fields
    <3> DEFINE owed == MinOf(q.mediaDebt, q.adjusted * MaxDebtInTime)
                       - q.adjusted * (now - q.lastProcess)
    <3>5. owed \in Int
      <4>1. q.adjusted * MaxDebtInTime \in Nat /\ q.adjusted * (now - q.lastProcess) \in Int
        BY <1>1, <3>3, <3>4
      <4>2. MinOf(q.mediaDebt, q.adjusted * MaxDebtInTime) \in Nat
        BY <3>4, <4>1, MinMaxNat
      <4>3. QED
        BY <4>1, <4>2
    <3>6. level' \in {MinOf(level, owed), MinOf(level, MaxOf(0, owed))}
      BY <3>1 DEF LevelAfterRates
    <3> HIDE DEF owed
    <3>7. level' \in Int
      BY <1>1, <3>5, <3>6 DEF MinOf, MaxOf
    <3>8. QED
      BY <1>1, <2>1, <3>7
  <2>3. CASE level' = level
    BY <1>1, <2>1, <2>3
  <2>4. QED
    BY <2>1, <2>2, <2>3
<1>3. CASE Tick
  <2>1. vain' = vain /\ calls' = calls /\ level' = LevelAfterTick
    BY <1>3 DEF Tick
  <2> DEFINE drained == level - p.adjusted
  <2>2. drained \in Int /\ MaxOf(0, drained) \in Int
    BY <1>1 DEF MaxOf
  <2>3. LevelAfterTick \in {drained, level, MaxOf(0, drained)}
    BY DEF LevelAfterTick
  <2>4. QED
    BY <1>1, <2>1, <2>2, <2>3
<1>4. CASE ProcessPackets
  <2>1. calls' = calls
    BY <1>4 DEF ProcessPackets, SendNothing, StartSending, SendProbePadding, SendQueued, AddPadding,
                LeaveLoop, BreakCircuit, FinishSending
  <2>2. vain' \in {vain, vain + 1, 0}
    BY <1>4 DEF ProcessPackets, SendNothing, StartSending, SendProbePadding, SendQueued, AddPadding,
                LeaveLoop, BreakCircuit, FinishSending, Vain
  <2>3. level' \in Int
    <3>1. CASE SendQueued
      <4>1. PICK i \in Heads(p.queue) : level' = LevelAfterSending(p.queue[i], p'.queue = <<>>)
        BY <3>1 DEF SendQueued
      <4>2. p.queue[i].size \in Nat
        <5>1. i \in DOMAIN p.queue /\ p.queue \in Seq(PacketsAt(now))
          BY <1>1, Fields DEF Heads
        <5>2. QED
          BY <1>1, <5>1, PacketsAre
      <4> DEFINE more == level + p.queue[i].size
      <4>3. {level, more, MaxOf(0, level), MaxOf(0, more)} \subseteq Int
        BY <1>1, <4>2 DEF MaxOf
      <4>4. level' \in {level, more, MaxOf(0, level), MaxOf(0, more)}
        BY <4>1 DEF LevelAfterSending
      <4>5. QED
        BY <4>3, <4>4
    <3>2. CASE BreakCircuit
      <4>1. level' = level - p.adjusted * MaxOf(0, p.lastProcess - now)
        BY <3>2 DEF BreakCircuit
      <4>2. p.lastProcess \in Int
        BY <1>1, Fields
      <4>3. MaxOf(0, p.lastProcess - now) \in Int
        BY <1>1, <4>2 DEF MaxOf
      <4>4. QED
        BY <1>1, <4>1, <4>3
    <3>3. CASE ~SendQueued /\ ~BreakCircuit
      <4>1. level' = level
        BY <1>4, <3>3 DEF ProcessPackets, SendNothing, StartSending, SendProbePadding, AddPadding,
                          LeaveLoop, FinishSending
      <4>2. QED
        BY <1>1, <4>1
    <3>4. QED
      BY <3>1, <3>2, <3>3
  <2>4. QED
    BY <1>1, <2>1, <2>2, <2>3
<1>5. CASE UNCHANGED vars
  BY <1>1, <1>5 DEF vars
<1>6. QED
  BY <1>2, <1>3, <1>4, <1>5 DEF Next

LEMMA NextInv == IInv /\ [Next]_vars => IInv'
<1> SUFFICES ASSUME IInv, [Next]_vars PROVE IInv'
  OBVIOUS
<1>1. ControlInv
  BY DEF IInv
<1>2. ControlInv'
  <2>1. CASE Application BY <1>1, <2>1, ApplicationInv
  <2>2. CASE Tick BY <1>1, <2>2, TickInv
  <2>3. CASE ProcessPackets
    BY <1>1, <2>3, SendNothingInv, StartSendingInv, PassInv, HeldBackInv, BreakCircuitInv,
       FinishSendingInv DEF ProcessPackets
  <2>4. CASE UNCHANGED vars
    <3>1. UNCHANGED <<now, p, loop, wake>>
      BY <2>4 DEF vars
    <3>2. SentNow' /\ WakesInTime'
      BY <1>1, <3>1 DEF ControlInv, SentNow, WakesInTime
    <3>3. QED
      BY <1>1, <3>1, <3>2 DEF ControlInv
  <2>5. QED
    BY <2>1, <2>2, <2>3, <2>4 DEF Next
<1>3. QED
  BY <1>2, CountersInv DEF IInv

LEMMA SpecInv == Spec => []IInv
  BY InitInv, NextInv, PTL DEF Spec

\* Every variable keeps its type: no send time, debt or rate is negative, nothing was
\* enqueued or sent in the future, and padding is never faster than media.
THEOREM TypeCorrect == Spec => []TypeOK
<1>1. IInv => TypeOK
  <2> SUFFICES ASSUME IInv PROVE TypeOK
    OBVIOUS
  <2>1. now \in Nat /\ wake \in Nat /\ ControllerOK(p, now) /\ loop \in LoopType
    BY DEF IInv, ControlInv
  <2>2. ASSUME NEW i \in DOMAIN p.queue PROVE p.queue[i].at \in 0 .. now
    <3>1. p.queue \in Seq(PacketsAt(now))
      BY <2>1, Fields
    <3>2. QED
      BY <2>1, <3>1, PacketsAre
  <2>3. /\ p.lastSend \in 0 .. now /\ p.lastProcess \in 0 .. now + MaxEarlyProbe
        /\ p.adjusted >= p.rates.pacing /\ p.rates.padding \in 0 .. p.rates.pacing
        /\ {p.mediaDebt, p.paddingDebt} \subseteq Nat
    BY <2>1, Fields
  <2>4. QED
    BY <2>1, <2>2, <2>3 DEF IInv, TypeOK
<1>2. QED
  BY <1>1, SpecInv, PTL

\* Whatever the application does, however late the owner is and however packets,
\* probes and padding come between: a controller that may not send, or that pads
\* silence, has sent a keep-alive within the interval when all that is due is done.
THEOREM KeepalivesInTime == Spec => []NeverSilent
<1>1. IInv => NeverSilent
  <2> SUFFICES ASSUME IInv, loop = Idle, now < wake, Quiet(p)
               PROVE  now - p.lastSend < CongestedInterval
    BY DEF NeverSilent, Quiet
  <2>1. now \in Nat /\ wake \in Nat /\ ControllerOK(p, now) /\ WakesInTime
    BY DEF IInv, ControlInv
  <2>2. p.lastSend \in Nat /\ CongestedInterval \in Nat
    BY <2>1, LastSendNat
  <2>3. wake <= now \/ wake <= p.lastSend + CongestedInterval
    BY <2>1 DEF WakesInTime
  <2>4. QED
    BY <2>1, <2>2, <2>3
<1>2. QED
  BY <1>1, SpecInv, PTL

-------------------------------------------------------------------------------
(* Room for what is sent because of its pace *)

LEMMA Products ==
  ASSUME NEW a \in Nat, NEW x \in Int, NEW y \in Int
  PROVE  /\ a * x \in Int
         /\ a * (x + y) = a * x + a * y
         /\ a * (x - y) = a * x - a * y
         /\ x <= y => a * x <= a * y
<1>1. a * x \in Int /\ a * (x + y) = a * x + a * y /\ a * (x - y) = a * x - a * y
  OBVIOUS
<1>2. ASSUME x <= y PROVE a * x <= a * y
  <2>1. y - x \in Nat
    BY <1>2
  <2>2. a * (y - x) \in Nat
    BY <2>1
  <2>3. a * (y - x) = a * y - a * x
    OBVIOUS
  <2>4. QED
    BY <2>2, <2>3
<1>3. QED
  BY <1>1, <1>2

LEMMA Quotients ==
  ASSUME NEW a \in Nat, a > 0, NEW d \in Nat
  PROVE  d \div a \in Nat /\ a * (d \div a) <= d /\ d < a * (d \div a) + a
  OBVIOUS

\* What is owed of a debt when time u has come.
TimeTo(last, u) == IF u < last THEN 0 ELSE MinOf(u - last, MaxElapsedTime)
DebtAt(rate, debt, last, u) == MaxOf(0, debt - rate * TimeTo(last, u))

\* What a bucket may hold at time t that is drained at the same rate: what is owed, less
\* what is drained since, and what may be sent for afterwards.
Room(rate, debt, last, t) == MinOf(debt, rate * MaxDebtInTime) + rate * (last + Slack - t)

LEMMA SlackIs == Slack \in Nat /\ Late <= Slack /\ MaxPaddingReplay <= Slack
  BY Constants DEF Slack, MaxOf

LEMMA DebtAtIs ==
  ASSUME NEW rate \in Nat, NEW debt \in Nat, NEW last \in Nat, NEW u \in Nat
  PROVE  /\ TimeTo(last, u) \in Nat /\ TimeTo(last, u) <= MaxElapsedTime
         /\ last + TimeTo(last, u) <= MaxOf(last, u)
         /\ DebtAt(rate, debt, last, u) \in Nat /\ DebtAt(rate, debt, last, u) <= debt
         /\ rate * TimeTo(last, u) \in Nat
         /\ debt <= DebtAt(rate, debt, last, u) + rate * TimeTo(last, u)
<1>1. TimeTo(last, u) \in Nat /\ TimeTo(last, u) <= MaxElapsedTime
      /\ last + TimeTo(last, u) <= MaxOf(last, u)
  BY Constants DEF TimeTo, MinOf, MaxOf
<1> DEFINE drained == rate * TimeTo(last, u)
<1>2. drained \in Nat
  BY <1>1
<1>3. DebtAt(rate, debt, last, u) = MaxOf(0, debt - drained)
  BY DEF DebtAt
<1> HIDE DEF drained
<1>4. /\ DebtAt(rate, debt, last, u) \in Nat /\ DebtAt(rate, debt, last, u) <= debt
      /\ debt <= DebtAt(rate, debt, last, u) + drained
  BY <1>2, <1>3 DEF MaxOf
<1>5. QED
  BY <1>1, <1>2, <1>4 DEF drained

LEMMA RoomIs ==
  ASSUME NEW rate \in Nat, NEW debt \in Nat, NEW last \in Nat, NEW t \in Nat
  PROVE  /\ Room(rate, debt, last, t) \in Int
         /\ rate * MaxDebtInTime \in Nat
         /\ t <= last + Slack => 0 <= Room(rate, debt, last, t)
<1> DEFINE limit == rate * MaxDebtInTime
           kept == rate * (last + Slack - t)
<1>1. limit \in Nat /\ Slack \in Nat
  BY Constants, SlackIs
<1>2. last + Slack - t \in Int
  BY <1>1
<1>3. kept \in Int /\ (t <= last + Slack => kept \in Nat)
  <2>1. kept \in Int
    BY <1>2
  <2>2. ASSUME t <= last + Slack PROVE kept \in Nat
    <3>1. last + Slack - t \in Nat
      BY <1>1, <2>2
    <3>2. QED
      BY <3>1
  <2>3. QED
    BY <2>1, <2>2
<1>4. Room(rate, debt, last, t) = MinOf(debt, limit) + kept
  BY DEF Room
<1> HIDE DEF limit, kept
<1>5. Room(rate, debt, last, t) \in Int /\ (t <= last + Slack => 0 <= Room(rate, debt, last, t))
  BY <1>1, <1>3, <1>4 DEF MinOf
<1>6. QED
  BY <1>1, <1>5 DEF limit

\* More debt, or a debt of later, leaves more room.
LEMMA RoomGrows ==
  ASSUME NEW rate \in Nat, NEW debt \in Nat, NEW more \in Nat,
         NEW last \in Nat, NEW later \in Nat, NEW t \in Nat,
         last <= later,
         MinOf(debt, rate * MaxDebtInTime) <= more + rate * (later - last)
  PROVE  Room(rate, debt, last, t) <= Room(rate, more, later, t)
<1> DEFINE limit == rate * MaxDebtInTime
           kept == rate * (last + Slack - t)
           gained == rate * (later - last)
<1>1. limit \in Nat /\ Slack \in Nat
  BY Constants, SlackIs
<1>2. gained \in Nat
  <2>1. later - last \in Nat
    OBVIOUS
  <2>2. QED
    BY <2>1
<1>3. kept \in Int /\ rate * (later + Slack - t) = kept + gained
  <2> DEFINE x == last + Slack - t
             y == later - last
  <2>1. x \in Int /\ y \in Int /\ later + Slack - t = x + y
    BY <1>1
  <2> HIDE DEF x, y
  <2>2. rate * x \in Int /\ rate * (x + y) = rate * x + rate * y
    BY <2>1, Products
  <2>3. QED
    BY <2>1, <2>2 DEF x, y
<1>4. /\ Room(rate, debt, last, t) = MinOf(debt, limit) + kept
      /\ Room(rate, more, later, t) = MinOf(more, limit) + (kept + gained)
  BY <1>3 DEF Room
<1>5. MinOf(debt, limit) <= more + gained
  OBVIOUS
<1> HIDE DEF limit, kept, gained
<1>6. QED
  BY <1>1, <1>2, <1>3, <1>4, <1>5 DEF MinOf

\* So does a debt that is drained.
LEMMA RoomDrained ==
  ASSUME NEW rate \in Nat, NEW debt \in Nat, NEW last \in Nat, NEW u \in Nat, NEW t \in Nat
  PROVE  Room(rate, debt, last, t) <= Room(rate, DebtAt(rate, debt, last, u), MaxOf(last, u), t)
<1> DEFINE less == DebtAt(rate, debt, last, u)
           later == MaxOf(last, u)
           time == TimeTo(last, u)
<1>1. /\ less \in Nat /\ time \in Nat /\ rate * time \in Nat
      /\ debt <= less + rate * time /\ last + time <= later
  BY DebtAtIs
<1>2. later \in Nat /\ last <= later
  BY DEF MaxOf
<1> HIDE DEF less, later, time
<1>3. rate * time <= rate * (later - last) /\ rate * (later - last) \in Int
  <2>1. later - last \in Int /\ time <= later - last
    BY <1>1, <1>2
  <2>2. QED
    BY <1>1, <2>1, Products
<1>4. MinOf(debt, rate * MaxDebtInTime) <= debt
  <2>1. rate * MaxDebtInTime \in Nat
    BY Constants
  <2>2. QED
    BY <2>1 DEF MinOf
<1>5. MinOf(debt, rate * MaxDebtInTime) \in Nat
  <2>1. rate * MaxDebtInTime \in Nat
    BY Constants
  <2>2. QED
    BY <2>1 DEF MinOf
<1>6. MinOf(debt, rate * MaxDebtInTime) <= less + rate * (later - last)
  BY <1>1, <1>3, <1>4, <1>5
<1>7. Room(rate, debt, last, t) <= Room(rate, less, later, t)
  BY <1>1, <1>2, <1>6, RoomGrows
<1>8. QED
  BY <1>7 DEF less, later

\* And one that was drained before: at most MaxElapsedTime counts at a time, but then
\* nothing is owed any more.
LEMMA RoomDrainedTwice ==
  ASSUME NEW rate \in Nat, NEW debt \in Nat, NEW last \in Nat, NEW m \in Nat, NEW u \in Nat,
         NEW t \in Nat, debt <= rate * MaxElapsedTime
  PROVE  Room(rate, DebtAt(rate, debt, last, u), MaxOf(last, u), t)
         <= Room(rate, DebtAt(rate, DebtAt(rate, debt, last, m), MaxOf(last, m), u),
                 MaxOf(MaxOf(last, m), u), t)
<1> DEFINE once == DebtAt(rate, debt, last, u)
           first == DebtAt(rate, debt, last, m)
           mid == MaxOf(last, m)
           twice == DebtAt(rate, first, mid, u)
           end == MaxOf(last, u)
           later == MaxOf(mid, u)
           time == TimeTo(last, u)
           before == TimeTo(last, m)
           after == TimeTo(mid, u)
<1>1. mid \in Nat /\ end \in Nat /\ later \in Nat /\ end <= later
  BY DEF MaxOf
<1>2. /\ first \in Nat /\ before \in Nat /\ rate * before \in Nat
      /\ debt <= first + rate * before
      /\ once \in Nat /\ time \in Nat /\ once <= debt
  BY DebtAtIs
<1>3. twice \in Nat /\ after \in Nat /\ rate * after \in Nat /\ first <= twice + rate * after
  <2> HIDE DEF first, mid
  <2>1. QED
    BY <1>1, <1>2, DebtAtIs
<1>4. once = MaxOf(0, debt - rate * time)
  BY DEF DebtAt
<1>5. MaxElapsedTime \in Nat
  BY Constants
<1>6. \/ time = MaxElapsedTime
      \/ before + after <= time + (later - end)
  <2>1. CASE u < last
    BY <1>5, <2>1 DEF TimeTo, MaxOf, MinOf
  <2>2. CASE last <= u /\ m < last
    BY <1>5, <2>2 DEF TimeTo, MaxOf, MinOf
  <2>3. CASE last <= u /\ last <= m /\ m <= u
    BY <1>5, <2>3 DEF TimeTo, MaxOf, MinOf
  <2>4. CASE last <= u /\ u < m
    BY <1>5, <2>4 DEF TimeTo, MaxOf, MinOf
  <2>5. QED
    BY <2>1, <2>2, <2>3, <2>4
<1> HIDE DEF once, first, mid, twice, end, later, time, before, after
<1>7. once <= twice + rate * (later - end)
  <2>1. rate * time \in Nat /\ later - end \in Nat /\ rate * (later - end) \in Nat
    BY <1>1, <1>2
  <2>2. CASE time = MaxElapsedTime
    <3>1. once = 0
      BY <1>2, <1>4, <2>1, <2>2 DEF MaxOf
    <3>2. QED
      BY <1>3, <2>1, <3>1
  <2>3. CASE before + after <= time + (later - end)
    <3>1. rate * (before + after) <= rate * (time + (later - end))
      BY <1>1, <1>2, <1>3, <2>3, Products
    <3>2. /\ rate * (before + after) = rate * before + rate * after
          /\ rate * (time + (later - end)) = rate * time + rate * (later - end)
      BY <1>1, <1>2, <1>3, Products
    <3>3. debt - rate * time <= twice + rate * (later - end)
      BY <1>2, <1>3, <2>1, <3>1, <3>2
    <3>4. QED
      BY <1>2, <1>3, <1>4, <2>1, <3>3 DEF MaxOf
  <2>4. QED
    BY <1>6, <2>2, <2>3
<1>8. MinOf(once, rate * MaxDebtInTime) <= twice + rate * (later - end)
  <2>1. rate * MaxDebtInTime \in Nat /\ rate * (later - end) \in Int
    BY <1>1, Constants
  <2>2. QED
    BY <1>2, <1>3, <1>7, <2>1 DEF MinOf
<1>9. Room(rate, once, end, t) <= Room(rate, twice, later, t)
  BY <1>1, <1>2, <1>3, <1>8, RoomGrows
<1>10. QED
  BY <1>9 DEF once, first, mid, twice, end, later

\* More debt, at the same time.
LEMMA RoomOwed ==
  ASSUME NEW rate \in Nat, NEW debt \in Nat, NEW more \in Nat, NEW last \in Nat, NEW t \in Nat,
         debt <= more \/ rate * MaxDebtInTime <= more
  PROVE  Room(rate, debt, last, t) <= Room(rate, more, last, t)
<1>1. rate * (last - last) = 0 /\ rate * MaxDebtInTime \in Nat
  BY Constants
<1>2. MinOf(debt, rate * MaxDebtInTime) <= more + rate * (last - last)
  BY <1>1 DEF MinOf
<1>3. QED
  BY <1>2, RoomGrows

LEMMA DebtGrows ==
  ASSUME NEW rate \in Nat, NEW debt \in Nat, NEW more \in Nat, NEW last \in Nat, NEW u \in Nat,
         debt <= more
  PROVE  DebtAt(rate, debt, last, u) <= DebtAt(rate, more, last, u)
<1> DEFINE drained == rate * TimeTo(last, u)
<1>1. drained \in Nat
  BY DebtAtIs
<1>2. /\ DebtAt(rate, debt, last, u) = MaxOf(0, debt - drained)
      /\ DebtAt(rate, more, last, u) = MaxOf(0, more - drained)
  BY DEF DebtAt
<1> HIDE DEF drained
<1>3. QED
  BY <1>1, <1>2 DEF MaxOf

\* The bucket is drained by a tick.
LEMMA RoomNextTick ==
  ASSUME NEW rate \in Nat, NEW debt \in Nat, NEW last \in Nat, NEW t \in Nat
  PROVE  Room(rate, debt, last, t + 1) = Room(rate, debt, last, t) - rate
<1> DEFINE x == last + Slack - t
           limited == MinOf(debt, rate * MaxDebtInTime)
<1>1. x \in Int /\ last + Slack - (t + 1) = x - 1
  BY SlackIs
<1>2. limited \in Int
  BY RoomIs DEF MinOf
<1>3. /\ Room(rate, debt, last, t) = limited + rate * x
      /\ Room(rate, debt, last, t + 1) = limited + rate * (x - 1)
  BY <1>1 DEF Room
<1> HIDE DEF x, limited
<1>4. rate * (x - 1) = rate * x - rate * 1 /\ rate * x \in Int /\ rate * 1 = rate
  BY <1>1, Products
<1>5. QED
  BY <1>2, <1>3, <1>4

-------------------------------------------------------------------------------
(* What keeps to the pace *)

\* The bucket holds no more than there is room for; or than there will be when the
\* controller has counted the time up to u.
Held(q, l, t) == l <= Room(q.adjusted, q.mediaDebt, q.lastProcess, t)
Fits(q, u, l, t) ==
    l <= Room(q.adjusted, DebtAt(q.adjusted, q.mediaDebt, q.lastProcess, u),
              MaxOf(q.lastProcess, u), t)

Waits(q) == q.queue # <<>> /\ ~q.congested

Budgeted(q, l, t) == l <= 0 \/ Held(q, l, t)

\* There is room even were nothing owed; or there will be when something waits.
Ahead(q, l, t) == l <= Room(q.adjusted, 0, q.lastProcess, t)
Spare(q, l, t) == (q.queue = <<>> /\ l <= 0) \/ Ahead(q, l, t)

\* Before the loop: a packet that waits will find room when it is sent, or when
\* the probe is that comes first.
Promised(q, l, t) ==
    Waits(q) => /\ q.mediaDebt > q.adjusted * MaxDebtInTime => Held(q, l, t)
                /\ IF ProbeIsNext(q) THEN q.probe.next # None => Fits(q, q.probe.next, l, t)
                   ELSE Held(q, l, t)

SizedPackets == [type : Types, size : PacketSizes, key : BOOLEAN, at : Nat]

PacedOK(q) ==
    /\ ~q.conf.drainLargeQueues
    /\ q.adjusted = q.rates.pacing
    /\ q.adjusted > 0 => \E rates \in Rates : /\ rates.pacing = q.adjusted
                                              /\ rates.burst = q.rates.burst
    /\ q.queue \in Seq(SizedPackets)
    /\ q.queue # <<>> \/ q.probe.active => q.adjusted > 0
    /\ q.queue # <<>> => q.seenFirst
    /\ q.probe.active \/ q.probe.next = None

LEMMA Numbers ==
  ASSUME NEW t \in Nat, NEW q, ControllerOK(q, t)
  PROVE  q.adjusted \in Nat /\ q.mediaDebt \in Nat /\ q.lastProcess \in Nat
  BY Fields, Constants

LEMMA DebtIsSoonDrained ==
  ASSUME DebtIsRecent, NEW t \in Nat, NEW q, ControllerOK(q, t),
         ~ (q.mediaDebt > q.adjusted * MaxDebtInTime)
  PROVE  q.mediaDebt <= q.adjusted * MaxElapsedTime
<1>1. q.adjusted \in Nat /\ q.mediaDebt \in Nat
  BY Numbers
<1>2. MaxDebtInTime \in Int /\ MaxElapsedTime \in Int /\ MaxDebtInTime <= MaxElapsedTime
  BY Constants DEF DebtIsRecent
<1> DEFINE limit == q.adjusted * MaxDebtInTime
           most == q.adjusted * MaxElapsedTime
<1>3. limit \in Int /\ most \in Int /\ limit <= most
  BY <1>1, <1>2, Products
<1>4. ~ (q.mediaDebt > limit)
  OBVIOUS
<1> HIDE DEF limit, most
<1>5. q.mediaDebt <= most
  BY <1>1, <1>3, <1>4
<1>6. QED
  BY <1>5 DEF most

\* Time that is counted leaves more room.
LEMMA AheadLater ==
  ASSUME NEW t \in Nat, NEW q, ControllerOK(q, t), NEW l \in Int, Ahead(q, l, t),
         NEW r, r.adjusted = q.adjusted, r.lastProcess \in Nat, q.lastProcess <= r.lastProcess
  PROVE  Ahead(r, l, t)
<1> DEFINE rate == q.adjusted
           last == q.lastProcess
           later == r.lastProcess
           gained == rate * (later - last)
           limit == rate * MaxDebtInTime
<1>1. rate \in Nat /\ last \in Nat /\ later \in Nat /\ last <= later
  BY Numbers
<1>2. gained \in Nat /\ limit \in Nat
  <2>1. later - last \in Nat /\ MaxDebtInTime \in Nat
    BY <1>1, Constants
  <2> HIDE DEF rate, later, last
  <2>2. QED
    BY <1>1, <2>1, ProductNat
<1>3. MinOf(0, limit) <= 0 + gained
  <2> HIDE DEF gained, limit
  <2>1. QED
    BY <1>2 DEF MinOf
<1>4. l <= Room(rate, 0, last, t)
  BY DEF Ahead
<1> HIDE DEF rate, last, later
<1>5. Room(rate, 0, last, t) <= Room(rate, 0, later, t)
  BY <1>1, <1>3, RoomGrows
<1>6. Room(rate, 0, last, t) \in Int /\ Room(rate, 0, later, t) \in Int
  BY <1>1, RoomIs
<1>7. l <= Room(rate, 0, later, t)
  BY <1>4, <1>5, <1>6
<1>8. QED
  BY <1>7 DEF Ahead, rate, later

LEMMA AheadNow ==
  ASSUME NEW t \in Nat, NEW r, r.adjusted \in Nat, r.lastProcess \in Nat,
         NEW l \in Int, l <= 0, t <= r.lastProcess + Slack
  PROVE  Ahead(r, l, t)
<1>1. 0 <= Room(r.adjusted, 0, r.lastProcess, t) /\ Room(r.adjusted, 0, r.lastProcess, t) \in Int
  BY RoomIs
<1>2. l <= Room(r.adjusted, 0, r.lastProcess, t)
  BY <1>1
<1>3. QED
  BY <1>2 DEF Ahead

LEMMA HeldFits ==
  ASSUME NEW t \in Nat, NEW q, ControllerOK(q, t), NEW l \in Int, NEW u \in Nat, Held(q, l, t)
  PROVE  Fits(q, u, l, t)
<1> DEFINE less == DebtAt(q.adjusted, q.mediaDebt, q.lastProcess, u)
           later == MaxOf(q.lastProcess, u)
<1>1. q.adjusted \in Nat /\ q.mediaDebt \in Nat /\ q.lastProcess \in Nat
  BY Numbers
<1>2. less \in Nat /\ later \in Nat
  BY <1>1, DebtAtIs, MinMaxNat
<1>3. Room(q.adjusted, q.mediaDebt, q.lastProcess, t) <= Room(q.adjusted, less, later, t)
  BY <1>1, RoomDrained
<1> HIDE DEF less, later
<1>4. /\ Room(q.adjusted, q.mediaDebt, q.lastProcess, t) \in Int
      /\ Room(q.adjusted, less, later, t) \in Int
  BY <1>1, <1>2, RoomIs
<1>5. l <= Room(q.adjusted, less, later, t)
  BY <1>3, <1>4 DEF Held
<1>6. QED
  BY <1>5 DEF Fits, less, later

LEMMA HeldPromised ==
  ASSUME NEW t \in Nat, NEW q, ControllerOK(q, t), NEW l \in Int,
         Waits(q) => Held(q, l, t)
  PROVE  Promised(q, l, t)
<1>1. q.probe.next \in Nat \cup {None}
  BY Fields
<1>2. QED
  BY <1>1, HeldFits DEF Promised

\* Time up to u is counted when that is recent.
LEMMA RecentFits ==
  ASSUME NEW t \in Nat, NEW q, ControllerOK(q, t), NEW l \in Int, NEW u \in Nat,
         Budgeted(q, l, t), t <= u + Slack
  PROVE  Fits(q, u, l, t)
<1>1. CASE Held(q, l, t)
  BY <1>1, HeldFits
<1>2. CASE l <= 0
  <2> DEFINE less == DebtAt(q.adjusted, q.mediaDebt, q.lastProcess, u)
             later == MaxOf(q.lastProcess, u)
  <2>1. q.adjusted \in Nat /\ q.mediaDebt \in Nat /\ q.lastProcess \in Nat
    BY Numbers
  <2>2. less \in Nat /\ later \in Nat
    BY <2>1, DebtAtIs, MinMaxNat
  <2>3. t <= later + Slack
    BY <2>1, SlackIs DEF MaxOf
  <2> HIDE DEF less, later
  <2>4. 0 <= Room(q.adjusted, less, later, t) /\ Room(q.adjusted, less, later, t) \in Int
    BY <2>1, <2>2, <2>3, RoomIs
  <2>5. l <= Room(q.adjusted, less, later, t)
    BY <1>2, <2>4
  <2>6. QED
    BY <2>5 DEF Fits, less, later
<1>3. QED
  BY <1>1, <1>2 DEF Budgeted

\* The same debt.
SameDebt(q, r) == /\ r.adjusted = q.adjusted /\ r.mediaDebt = q.mediaDebt
                  /\ r.lastProcess = q.lastProcess

\* The debt when time u has come.
DrainedDebt(q, u, r) ==
    /\ r.adjusted = q.adjusted
    /\ r.mediaDebt = DebtAt(q.adjusted, q.mediaDebt, q.lastProcess, u)
    /\ r.lastProcess = MaxOf(q.lastProcess, u)

LEMMA SameDebtHeld ==
  ASSUME NEW q, NEW r, SameDebt(q, r), NEW l, NEW t
  PROVE  /\ Held(r, l, t) <=> Held(q, l, t)
         /\ Budgeted(r, l, t) <=> Budgeted(q, l, t)
         /\ \A u : Fits(r, u, l, t) <=> Fits(q, u, l, t)
  BY DEF SameDebt, Held, Budgeted, Fits

LEMMA DrainedDebtHeld ==
  ASSUME NEW q, NEW u, NEW r, DrainedDebt(q, u, r), NEW l, NEW t
  PROVE  Held(r, l, t) <=> Fits(q, u, l, t)
  BY DEF DrainedDebt, Held, Fits

LEMMA DrainedDebtBudgeted ==
  ASSUME NEW t \in Nat, NEW q, ControllerOK(q, t), NEW l \in Int, NEW u \in Nat,
         NEW r, DrainedDebt(q, u, r), Budgeted(q, l, t)
  PROVE  Budgeted(r, l, t)
  BY HeldFits, DrainedDebtHeld DEF Budgeted

LEMMA FitsDrained ==
  ASSUME NEW t \in Nat, NEW q, ControllerOK(q, t),
         q.mediaDebt <= q.adjusted * MaxElapsedTime, NEW l \in Int,
         NEW m \in Nat, NEW u \in Nat, NEW r, DrainedDebt(q, m, r), Fits(q, u, l, t)
  PROVE  Fits(r, u, l, t)
<1> DEFINE less == DebtAt(q.adjusted, q.mediaDebt, q.lastProcess, u)
           later == MaxOf(q.lastProcess, u)
           twice == DebtAt(r.adjusted, r.mediaDebt, r.lastProcess, u)
           end == MaxOf(r.lastProcess, u)
<1>1. q.adjusted \in Nat /\ q.mediaDebt \in Nat /\ q.lastProcess \in Nat
  BY Numbers
<1>2. q.mediaDebt <= q.adjusted * MaxElapsedTime
  OBVIOUS
<1>3. /\ r.adjusted = q.adjusted
      /\ r.mediaDebt = DebtAt(q.adjusted, q.mediaDebt, q.lastProcess, m)
      /\ r.lastProcess = MaxOf(q.lastProcess, m)
  BY DEF DrainedDebt
<1>4. Room(q.adjusted, less, later, t) <= Room(q.adjusted, twice, end, t)
  BY <1>1, <1>2, <1>3, RoomDrainedTwice
<1>5. less \in Nat /\ later \in Nat
  BY <1>1, DebtAtIs, MinMaxNat
<1>6. r.mediaDebt \in Nat /\ r.lastProcess \in Nat
  <2>1. /\ DebtAt(q.adjusted, q.mediaDebt, q.lastProcess, m) \in Nat
        /\ MaxOf(q.lastProcess, m) \in Nat
    BY <1>1, DebtAtIs, MinMaxNat
  <2>2. QED
    BY <1>3, <2>1
<1>7. twice \in Nat /\ end \in Nat
  BY <1>1, <1>3, <1>6, DebtAtIs, MinMaxNat
<1>8. l <= Room(q.adjusted, less, later, t)
  BY DEF Fits
<1> HIDE DEF less, later, twice, end
<1>9. /\ Room(q.adjusted, less, later, t) \in Int
      /\ Room(q.adjusted, twice, end, t) \in Int
  BY <1>1, <1>5, <1>7, RoomIs
<1>10. l <= Room(r.adjusted, twice, end, t)
  BY <1>3, <1>4, <1>8, <1>9
<1>11. QED
  BY <1>10 DEF Fits, twice, end

\* The debt when a packet was sent.
OwedDebt(q, size, r) ==
    /\ r.adjusted = q.adjusted /\ r.lastProcess = q.lastProcess
    /\ r.mediaDebt = MinOf(q.mediaDebt + size, q.adjusted * MaxDebtInTime)

LEMMA OwedDebtHeld ==
  ASSUME NEW t \in Nat, NEW q, ControllerOK(q, t), NEW l \in Int, NEW size \in Nat,
         NEW r, OwedDebt(q, size, r)
  PROVE  /\ Held(q, l, t) => Held(r, l, t)
         /\ Budgeted(q, l, t) => Budgeted(r, l, t)
         /\ Held(q, l, t) /\ q.mediaDebt + size <= q.adjusted * MaxDebtInTime
              => Held(r, l + size, t)
         /\ Ahead(q, l, t) /\ size <= q.adjusted * MaxDebtInTime => Held(r, l + size, t)
         /\ q.mediaDebt <= q.adjusted * MaxDebtInTime
              => \A u \in Nat : Fits(q, u, l, t) => Fits(r, u, l, t)
<1>1. q.adjusted \in Nat /\ q.mediaDebt \in Nat /\ q.lastProcess \in Nat
  BY Numbers
<1> DEFINE limit == q.adjusted * MaxDebtInTime
<1>2. limit \in Nat
  BY <1>1, RoomIs
<1>3. /\ r.mediaDebt \in Nat /\ r.adjusted = q.adjusted /\ r.lastProcess = q.lastProcess
      /\ r.mediaDebt = MinOf(q.mediaDebt + size, limit)
  <2>1. /\ r.adjusted = q.adjusted /\ r.lastProcess = q.lastProcess
        /\ r.mediaDebt = MinOf(q.mediaDebt + size, limit)
    BY DEF OwedDebt
  <2> HIDE DEF limit
  <2>2. MinOf(q.mediaDebt + size, limit) \in Nat
    BY <1>1, <1>2 DEF MinOf
  <2>3. QED
    BY <2>1, <2>2
<1>4. q.mediaDebt <= r.mediaDebt \/ limit <= r.mediaDebt
  <2> HIDE DEF limit
  <2>1. QED
    BY <1>1, <1>2, <1>3 DEF MinOf
<1> DEFINE Here(d) == Room(q.adjusted, d, q.lastProcess, t)
<1>5. Here(q.mediaDebt) \in Int /\ Here(r.mediaDebt) \in Int
      /\ Here(q.mediaDebt) <= Here(r.mediaDebt)
  BY <1>1, <1>3, <1>4, RoomIs, RoomOwed
<1>6. Held(q, l, t) => Held(r, l, t)
  <2>1. /\ Held(q, l, t) <=> l <= Here(q.mediaDebt)
        /\ Held(r, l, t) <=> l <= Here(r.mediaDebt)
    BY <1>3 DEF Held
  <2> HIDE DEF Here
  <2>2. QED
    BY <1>5, <2>1
<1>7. ASSUME Held(q, l, t), q.mediaDebt + size <= limit PROVE Held(r, l + size, t)
  <2> DEFINE kept == q.adjusted * (q.lastProcess + Slack - t)
  <2>1. kept \in Int
    <3>1. q.lastProcess + Slack - t \in Int
      BY <1>1, SlackIs
    <3>2. QED
      BY <1>1, <3>1, Products
  <2>2. r.mediaDebt = q.mediaDebt + size
    <3> HIDE DEF limit
    <3>1. QED
      BY <1>1, <1>2, <1>3, <1>7 DEF MinOf
  <2>3. /\ Here(q.mediaDebt) = MinOf(q.mediaDebt, limit) + kept
        /\ Here(r.mediaDebt) = MinOf(q.mediaDebt + size, limit) + kept
    BY <2>2 DEF Room
  <2>4. /\ l <= Here(q.mediaDebt)
        /\ Held(r, l + size, t) <=> l + size <= Here(r.mediaDebt)
    BY <1>3, <1>7 DEF Held
  <2> HIDE DEF Here, kept, limit
  <2>5. Here(r.mediaDebt) = Here(q.mediaDebt) + size
    BY <1>1, <1>2, <1>7, <2>1, <2>3 DEF MinOf
  <2>6. QED
    BY <1>5, <2>4, <2>5
<1>8. ASSUME q.mediaDebt <= limit, NEW u \in Nat, Fits(q, u, l, t) PROVE Fits(r, u, l, t)
  <2> DEFINE less == DebtAt(q.adjusted, q.mediaDebt, q.lastProcess, u)
             more == DebtAt(q.adjusted, r.mediaDebt, q.lastProcess, u)
             later == MaxOf(q.lastProcess, u)
  <2>1. q.mediaDebt <= r.mediaDebt
    <3> HIDE DEF limit
    <3>1. QED
      BY <1>1, <1>2, <1>3, <1>4, <1>8
  <2>2. less <= more
    BY <1>1, <1>3, <2>1, DebtGrows
  <2>3. less \in Nat /\ more \in Nat /\ later \in Nat
    BY <1>1, <1>3, DebtAtIs, MinMaxNat
  <2>4. /\ l <= Room(q.adjusted, less, later, t)
        /\ Fits(r, u, l, t) <=> l <= Room(q.adjusted, more, later, t)
    BY <1>3, <1>8 DEF Fits
  <2> HIDE DEF less, more, later
  <2>5. /\ Room(q.adjusted, less, later, t) <= Room(q.adjusted, more, later, t)
        /\ Room(q.adjusted, less, later, t) \in Int /\ Room(q.adjusted, more, later, t) \in Int
    BY <1>1, <2>2, <2>3, RoomIs, RoomOwed
  <2>6. QED
    BY <2>4, <2>5
<1>9. Budgeted(q, l, t) => Budgeted(r, l, t)
  BY <1>6 DEF Budgeted
<1>10. ASSUME Ahead(q, l, t), size <= limit PROVE Held(r, l + size, t)
  <2> DEFINE kept == q.adjusted * (q.lastProcess + Slack - t)
  <2>1. kept \in Int
    <3>1. q.lastProcess + Slack - t \in Int
      BY <1>1, SlackIs
    <3>2. QED
      BY <1>1, <3>1, Products
  <2>2. /\ Here(0) = MinOf(0, limit) + kept
        /\ Here(r.mediaDebt) = MinOf(r.mediaDebt, limit) + kept
    BY DEF Room
  <2>3. /\ l <= Here(0)
        /\ Held(r, l + size, t) <=> l + size <= Here(r.mediaDebt)
    BY <1>3, <1>10 DEF Ahead, Held
  <2> HIDE DEF Here, kept, limit
  <2>4. size <= MinOf(r.mediaDebt, limit) /\ MinOf(0, limit) = 0
        /\ MinOf(r.mediaDebt, limit) \in Int
    BY <1>1, <1>2, <1>3, <1>10 DEF MinOf
  <2>5. QED
    BY <2>1, <2>2, <2>3, <2>4
<1>11. QED
  BY <1>6, <1>7, <1>8, <1>9, <1>10

-------------------------------------------------------------------------------
(* What stays the same *)

SameControls(q, r) ==
    /\ r.conf = q.conf /\ r.queue = q.queue /\ r.paused = q.paused
    /\ r.congested = q.congested /\ r.seenFirst = q.seenFirst /\ r.rates = q.rates
    /\ r.adjusted = q.adjusted /\ r.probe = q.probe /\ r.probeFailed = q.probeFailed

LEMMA DrainedIs ==
  ASSUME NEW t \in Nat, NEW q, ControllerOK(q, t), NEW u
  PROVE  /\ SameControls(q, Drained(q, u)) /\ DrainedDebt(q, u, Drained(q, u))
         /\ Drained(q, u).lastSend = q.lastSend
<1> DEFINE media == DebtAt(q.adjusted, q.mediaDebt, q.lastProcess, u)
           padding == MaxOf(0, q.paddingDebt - q.rates.padding * ElapsedTo(q, u))
           last == MaxOf(q.lastProcess, u)
           r == Drained(q, u)
<1>1. r = [q EXCEPT !.lastProcess = last, !.mediaDebt = media, !.paddingDebt = padding]
  BY DEF Drained, DebtAt, ElapsedTo, TimeTo
<1>2. q \in ControllersAt(t)
  BY DEF ControllerOK
<1> HIDE DEF media, padding, last, r
<1>3. SameControls(q, r) /\ r.lastSend = q.lastSend
  BY <1>1, <1>2 DEF ControllersAt, SameControls
<1>4. r.adjusted = q.adjusted /\ r.mediaDebt = media /\ r.lastProcess = last
  BY <1>1, <1>2 DEF ControllersAt
<1>5. QED
  BY <1>3, <1>4 DEF DrainedDebt, r, media, last

LEMMA SentIs ==
  ASSUME NEW t \in Nat, NEW q, ControllerOK(q, t), NEW type, NEW size \in Nat,
         NEW r, r = OnPacketSent(q, type, size, t)
  PROVE  /\ SameControls(q, r) /\ r.lastSend = t
         /\ IF type # "audio" /\ size > 0 THEN OwedDebt(q, size, r) ELSE SameDebt(q, r)
<1>1. q \in ControllersAt(t)
  BY DEF ControllerOK
<1>2. CASE type # "audio" /\ size > 0
  <2> DEFINE media == MinOf(q.mediaDebt + size, q.adjusted * MaxDebtInTime)
             owing == [q EXCEPT !.mediaDebt = media]
             padding == MinOf(owing.paddingDebt + size, owing.rates.padding * MaxDebtInTime)
  <2>1. r = [[owing EXCEPT !.paddingDebt = padding] EXCEPT !.lastSend = t]
    BY <1>2 DEF OnPacketSent, Owes, OwesPadding
  <2>2. owing = [q EXCEPT !.mediaDebt = media]
    OBVIOUS
  <2> HIDE DEF media, owing, padding
  <2>3. r = [q EXCEPT !.mediaDebt = media, !.paddingDebt = padding, !.lastSend = t]
    BY <1>1, <2>1, <2>2 DEF ControllersAt
  <2>4. SameControls(q, r) /\ r.lastSend = t
    BY <1>1, <2>3 DEF ControllersAt, SameControls
  <2>5. r.adjusted = q.adjusted /\ r.mediaDebt = media /\ r.lastProcess = q.lastProcess
    BY <1>1, <2>3 DEF ControllersAt
  <2>6. QED
    BY <1>2, <2>4, <2>5 DEF OwedDebt, media
<1>3. CASE ~ (type # "audio" /\ size > 0)
  <2>1. r = [q EXCEPT !.lastSend = t]
    BY <1>3 DEF OnPacketSent
  <2>2. SameControls(q, r) /\ r.lastSend = t /\ SameDebt(q, r)
    BY <1>1, <2>1 DEF ControllersAt, SameControls, SameDebt
  <2>3. QED
    BY <1>3, <2>2
<1>4. QED
  BY <1>2, <1>3

\* While long queues are not drained, the rate is that of the config.
LEMMA RateKept ==
  ASSUME NEW t \in Nat, NEW q \in ControllersAt(t), ~q.conf.drainLargeQueues,
         q.adjusted = q.rates.pacing, NEW r \in RateAdjusted(q, t)
  PROVE  r = q
<1>1. r = [q EXCEPT !.adjusted = q.rates.pacing]
  BY DEF RateAdjusted
<1>2. QED
  BY <1>1 DEF ControllersAt

\* What keeps PacedOK: the rates stay, and nothing is queued before there is a rate.
LEMMA PacedStep ==
  ASSUME NEW q, PacedOK(q),
         NEW r, r.conf = q.conf, r.rates = q.rates, r.adjusted = q.adjusted,
         r.queue \in Seq(SizedPackets),
         r.queue # <<>> \/ r.probe.active => q.adjusted > 0,
         r.queue # <<>> => r.seenFirst,
         r.probe.active \/ r.probe.next = None
  PROVE  PacedOK(r)
  BY DEF PacedOK

LEMMA ControlsPaced ==
  ASSUME NEW q, PacedOK(q), NEW r, SameControls(q, r)
  PROVE  PacedOK(r)
  BY PacedStep DEF SameControls, PacedOK

LEMMA SentPaced ==
  ASSUME NEW t \in Nat, NEW q, ControllerOK(q, t), PacedOK(q),
         NEW type, NEW size \in Nat, NEW r, r = OnPacketSent(q, type, size, t)
  PROVE  PacedOK(r)
  BY SentIs, ControlsPaced

-------------------------------------------------------------------------------
(* When what waits is due *)

\* Only a first probe is always due at once.
LEMMA SendTimeStays ==
  ASSUME NEW q, NEW t, NEW u, q.paused \/ ~ProbeIsNext(q) \/ q.probe.next # None
  PROVE  NextSendTime(q, u) = NextSendTime(q, t)
  BY DEF NextSendTime

LEMMA PacedSendTime ==
  ASSUME NEW t, NEW q, ~q.paused, ~ProbeIsNext(q), Unpaced(q) = {}, ~q.congested, q.seenFirst
  PROVE  NextSendTime(q, t) = NextPacedTime(q)
  BY DEF NextSendTime

\* A packet waits no longer than it takes to drain the debt.
LEMMA PacedWake ==
  ASSUME NEW t \in Nat, NEW q, ControllerOK(q, t), q.adjusted > 0, q.queue # <<>>, q.seenFirst,
         ~q.paused, ~q.congested, ~ProbeIsNext(q), Unpaced(q) = {}
  PROVE  NextSendTime(q, t) <= q.lastProcess + q.mediaDebt \div q.adjusted
<1> DEFINE drain == q.mediaDebt \div q.adjusted
           silent == q.lastSend + CongestedInterval
<1>1. drain \in Nat /\ q.lastProcess \in Nat /\ silent \in Nat
  <2>1. q.adjusted \in Nat /\ q.mediaDebt \in Nat /\ q.lastProcess \in Nat
    BY Numbers
  <2>2. drain \in Nat
    BY <2>1, Quotients
  <2>3. q.lastSend \in Nat /\ CongestedInterval \in Nat
    BY LastSendNat
  <2>4. QED
    BY <2>1, <2>2, <2>3
<1>2. NextMediaTime(q) \in {q.lastProcess + 0, q.lastProcess + drain}
  BY DEF NextMediaTime, MediaDrainTime
<1>3. NextPacedTime(q) = IF q.conf.padIfSilent THEN MinOf(NextMediaTime(q), silent)
                         ELSE NextMediaTime(q)
  BY DEF NextPacedTime
<1>4. NextSendTime(q, t) = NextPacedTime(q)
  BY PacedSendTime
<1> HIDE DEF drain, silent
<1>5. NextSendTime(q, t) <= q.lastProcess + drain
  BY <1>1, <1>2, <1>3, <1>4 DEF MinOf
<1>6. QED
  BY <1>5 DEF drain

\* What is owed when the next packet is due is less than a burst.
LEMMA DueDebt ==
  ASSUME NEW rate \in Nat, rate > 0, NEW debt \in Nat,
         NEW last \in Nat, NEW time \in Nat, NEW burst \in Nat,
         \/ time = last /\ debt \div rate < burst
         \/ last + debt \div rate <= time /\ debt <= rate * MaxElapsedTime
  PROVE  DebtAt(rate, debt, last, time) < rate * MaxOf(burst, 1)
<1> DEFINE drain == debt \div rate
           most == MaxOf(burst, 1)
           less == DebtAt(rate, debt, last, time)
           spent == TimeTo(last, time)
<1>1. /\ drain \in Nat /\ rate * drain \in Nat
      /\ rate * drain <= debt /\ debt < rate * drain + rate
  BY Quotients
<1>2. most \in Nat /\ 1 <= most /\ burst <= most
  BY DEF MaxOf
<1>3. /\ less \in Nat /\ less <= debt /\ spent \in Nat /\ rate * spent \in Nat
      /\ less = MaxOf(0, debt - rate * spent)
  BY DebtAtIs DEF DebtAt
<1>4. rate * most \in Nat /\ rate * 1 = rate /\ rate * 1 <= rate * most
  BY <1>2, Products
<1>5. MaxElapsedTime \in Nat
  BY Constants
<1>6. \/ time = last /\ drain < burst
      \/ last + drain <= time /\ debt <= rate * MaxElapsedTime
  OBVIOUS
<1>7. last + drain <= time /\ drain <= MaxElapsedTime => drain <= spent
  BY <1>1, <1>5 DEF TimeTo, MinOf
<1> HIDE DEF drain, most, less, spent
<1>8. debt <= rate * MaxElapsedTime => drain <= MaxElapsedTime
  <2> SUFFICES ASSUME debt <= rate * MaxElapsedTime, MaxElapsedTime + 1 <= drain PROVE FALSE
    BY <1>1, <1>5
  <2>1. /\ rate * (MaxElapsedTime + 1) <= rate * drain
        /\ rate * (MaxElapsedTime + 1) = rate * MaxElapsedTime + rate * 1
        /\ rate * MaxElapsedTime \in Int
    BY <1>1, <1>5, Products
  <2>2. QED
    BY <1>1, <1>4, <2>1
<1>9. CASE drain < burst
  <2>1. /\ rate * (drain + 1) <= rate * most
        /\ rate * (drain + 1) = rate * drain + rate * 1
    BY <1>1, <1>2, <1>9, Products
  <2>2. less < rate * most
    BY <1>1, <1>3, <1>4, <2>1
  <2>3. QED
    BY <2>2 DEF less, most
<1>10. CASE last + drain <= time /\ debt <= rate * MaxElapsedTime
  <2>1. rate * drain <= rate * spent
    BY <1>1, <1>3, <1>7, <1>8, <1>10, Products
  <2>2. debt - rate * spent < rate
    BY <1>1, <1>3, <2>1
  <2>3. less < rate
    BY <1>3, <2>2 DEF MaxOf
  <2>4. less < rate * most
    BY <1>3, <1>4, <2>3
  <2>5. QED
    BY <2>4 DEF less, most
<1>11. QED
  BY <1>6, <1>9, <1>10

\* What is owed beyond the time that counts as elapsed has at least been waited for.
LEMMA DueRoom ==
  ASSUME DebtIsRecent, NEW rate \in Nat, rate > 0, NEW debt \in Nat,
         ~ (debt <= rate * MaxElapsedTime),
         NEW last \in Nat, NEW time \in Nat, last + debt \div rate <= time, NEW t \in Nat
  PROVE  Room(rate, debt, last, t) <= Room(rate, 0, time, t)
<1> DEFINE drain == debt \div rate
           limit == rate * MaxDebtInTime
           gained == rate * (time - last)
           most == rate * MaxElapsedTime
<1>1. drain \in Nat /\ rate * drain <= debt /\ debt < rate * drain + rate
  BY Quotients
<1>2. MaxDebtInTime \in Nat /\ MaxElapsedTime \in Nat /\ MaxDebtInTime <= MaxElapsedTime
  BY Constants DEF DebtIsRecent
<1>3. last + drain <= time
  OBVIOUS
<1>4. most \in Nat /\ limit \in Nat /\ limit <= most /\ ~ (debt <= most)
  BY <1>2, Products
<1> HIDE DEF drain
<1>5. time - last \in Int /\ drain <= time - last /\ last <= time
  BY <1>1, <1>3
<1>6. rate * drain \in Int /\ gained \in Int /\ rate * drain <= gained
  BY <1>1, <1>5, Products
<1>7. limit <= gained
  <2>1. MaxElapsedTime <= drain
    <3> SUFFICES ASSUME drain + 1 <= MaxElapsedTime PROVE FALSE
      BY <1>1, <1>2
    <3>1. /\ rate * (drain + 1) <= rate * MaxElapsedTime
          /\ rate * (drain + 1) = rate * drain + rate * 1 /\ rate * 1 = rate
      BY <1>1, <1>2, Products
    <3> HIDE DEF most
    <3>2. rate * drain + rate <= most
      BY <3>1 DEF most
    <3>3. QED
      BY <1>1, <1>4, <1>6, <3>2
  <2>2. most <= rate * drain
    BY <1>1, <1>2, <2>1, Products
  <2> HIDE DEF most, limit, gained
  <2>3. QED
    BY <1>4, <1>6, <2>2
<1> HIDE DEF most
<1>8. MinOf(debt, limit) <= 0 + gained
  <2> HIDE DEF limit, gained
  <2>1. QED
    BY <1>4, <1>6, <1>7 DEF MinOf
<1>9. QED
  BY <1>5, <1>8, RoomGrows

LEMMA PacedDue ==
  ASSUME DebtIsRecent, NEW t \in Nat, NEW q, ControllerOK(q, t), PacedOK(q),
         Quiet(q) => t < q.lastSend + CongestedInterval,
         ~q.congested, ~ProbeIsNext(q), Unpaced(q) = {},
         q.queue # <<>> \/ q.rates.padding > 0,
         NextSendTime(q, t) <= t, NEW r, DrainedDebt(q, NextSendTime(q, t), r),
         r.queue = q.queue, NEW l \in Int, Budgeted(q, l, t), Waits(q) => Held(q, l, t)
  PROVE  /\ r.lastProcess <= t
         /\ r.mediaDebt < q.adjusted * MaxOf(q.rates.burst, 1) \/ Spare(r, l, t)
<1> DEFINE silent == q.lastSend + CongestedInterval
           drain == q.mediaDebt \div q.adjusted
           time == NextSendTime(q, t)
<1>1. silent \in Nat /\ q.lastProcess \in Nat /\ q.mediaDebt \in Nat /\ q.adjusted \in Nat
      /\ q.rates.burst \in Nat /\ q.rates.padding \in Nat /\ time \in Nat
  <2>1. q.lastSend \in Nat /\ q.rates.burst \in Nat /\ q.rates.padding \in Nat
    BY Fields
  <2>2. CongestedInterval \in Nat
    BY Constants
  <2>3. q.lastProcess \in Nat /\ q.mediaDebt \in Nat /\ q.adjusted \in Nat
    BY Numbers
  <2>4. time \in Nat
    BY SendTime
  <2>5. QED
    BY <2>1, <2>2, <2>3, <2>4
<1>2. q.adjusted > 0
  <2>1. q.rates.padding <= q.rates.pacing /\ q.rates.pacing <= q.adjusted /\ q.rates.pacing \in Nat
    BY Fields
  <2>2. q.queue # <<>> => q.adjusted > 0
    BY DEF PacedOK
  <2>3. QED
    BY <1>1, <2>1, <2>2
<1>3. ~q.paused /\ q.seenFirst
  <2>1. CASE q.paused
    <3>1. time = silent /\ t < silent
      BY <2>1 DEF NextSendTime, Quiet
    <3> HIDE DEF time, silent
    <3>2. ~ (time <= t)
      BY <1>1, <3>1
    <3>3. QED
      BY <3>2 DEF time
  <2>2. CASE ~q.paused /\ ~q.seenFirst
    <3>1. time = silent /\ t < silent
      BY <2>2 DEF NextSendTime, Quiet
    <3> HIDE DEF time, silent
    <3>2. ~ (time <= t)
      BY <1>1, <3>1
    <3>3. QED
      BY <3>2 DEF time
  <2>3. QED
    BY <2>1, <2>2
<1>4. time = NextPacedTime(q)
  BY <1>3, PacedSendTime
<1> DEFINE paced == IF q.queue # <<>> THEN NextMediaTime(q) ELSE NextPaddingTime(q)
<1>5. time = IF q.conf.padIfSilent THEN MinOf(paced, silent) ELSE paced
  BY <1>2, <1>4 DEF NextPacedTime
<1>6. q.conf.padIfSilent => t < silent
  BY DEF Quiet
<1>7. time <= t
  OBVIOUS
<1>8. drain \in Nat
  BY <1>1, <1>2, Quotients
<1>9. /\ q.queue # <<>> /\ BurstInterval(q) > drain => paced = q.lastProcess + 0
      /\ q.queue # <<>> /\ ~(BurstInterval(q) > drain) => paced = q.lastProcess + drain
  BY DEF NextMediaTime, MediaDrainTime
<1>10. q.queue = <<>> => paced \in Nat /\ q.lastProcess + drain <= paced
  <2> SUFFICES ASSUME q.queue = <<>> PROVE paced \in Nat /\ q.lastProcess + drain <= paced
    OBVIOUS
  <2> DEFINE other == q.paddingDebt \div q.rates.padding
  <2>1. other \in Nat
    BY <1>1, Fields, QuotientNat
  <2>2. /\ PaddingDrainTime(q) = MaxOf(drain, other)
        /\ paced \in {q.lastProcess + MaxOf(1, PaddingDrainTime(q)),
                      q.lastProcess + PaddingDrainTime(q)}
    BY DEF PaddingDrainTime, MediaDrainTime, NextPaddingTime
  <2> HIDE DEF drain, other, paced
  <2>3. QED
    BY <1>1, <1>8, <2>1, <2>2 DEF MaxOf
<1>11. paced \in Nat
  <2> HIDE DEF drain, paced
  <2>1. QED
    BY <1>1, <1>8, <1>9, <1>10
<1>12. time = paced
  <2> HIDE DEF time, paced, silent
  <2>1. QED
    BY <1>1, <1>5, <1>6, <1>7, <1>11 DEF MinOf
<1>13. BurstInterval(q) > drain => drain < q.rates.burst
  <2>1. MaxBurstSize \div q.adjusted \in Nat
    BY <1>1, <1>2, QuotientNat, Constants
  <2> HIDE DEF drain
  <2>2. QED
    BY <1>1, <1>8, <2>1 DEF BurstInterval, MinOf
<1>14. \/ time = q.lastProcess /\ drain < q.rates.burst
       \/ q.lastProcess + drain <= time
  <2> HIDE DEF drain, paced, time
  <2>1. QED
    BY <1>1, <1>8, <1>9, <1>10, <1>12, <1>13
<1>15. (q.queue = <<>> /\ l <= 0) \/ Held(q, l, t)
  BY DEF Budgeted, Waits
<1>16. r.adjusted = q.adjusted
       /\ r.mediaDebt = DebtAt(q.adjusted, q.mediaDebt, q.lastProcess, time)
       /\ r.lastProcess = MaxOf(q.lastProcess, time)
  BY DEF DrainedDebt
<1>17. q.lastProcess <= time
  <2> HIDE DEF drain, time
  <2>1. QED
    BY <1>1, <1>8, <1>14
<1> HIDE DEF time
<1>18. CASE \/ time = q.lastProcess /\ drain < q.rates.burst
            \/ q.lastProcess + drain <= time /\ q.mediaDebt <= q.adjusted * MaxElapsedTime
  <2>1. DebtAt(q.adjusted, q.mediaDebt, q.lastProcess, time) < q.adjusted * MaxOf(q.rates.burst, 1)
    BY <1>1, <1>2, <1>18, DueDebt
  <2>2. QED
    BY <1>1, <1>7, <1>16, <1>17, <2>1 DEF MaxOf, time
<1>19. CASE q.lastProcess + drain <= time /\ ~ (q.mediaDebt <= q.adjusted * MaxElapsedTime)
  <2>1. r.lastProcess = time
    BY <1>1, <1>16, <1>17 DEF MaxOf
  <2>2. CASE q.queue = <<>> /\ l <= 0
    BY <1>7, <2>1, <2>2 DEF Spare, time
  <2>3. CASE Held(q, l, t)
    <3>1. l <= Room(q.adjusted, q.mediaDebt, q.lastProcess, t)
      BY <2>3 DEF Held
    <3>2. Room(q.adjusted, q.mediaDebt, q.lastProcess, t) <= Room(q.adjusted, 0, time, t)
      BY <1>1, <1>2, <1>19, DueRoom
    <3>3. /\ Room(q.adjusted, q.mediaDebt, q.lastProcess, t) \in Int
          /\ Room(q.adjusted, 0, time, t) \in Int
      BY <1>1, RoomIs
    <3>4. l <= Room(q.adjusted, 0, time, t)
      BY <3>1, <3>2, <3>3
    <3>5. Ahead(r, l, t)
      BY <1>16, <2>1, <3>4 DEF Ahead
    <3>6. QED
      BY <1>7, <2>1, <3>5 DEF Spare, time
  <2>4. QED
    BY <1>15, <2>2, <2>3
<1>20. QED
  BY <1>14, <1>18, <1>19

-------------------------------------------------------------------------------
(* What is enqueued *)

LEMMA KeptEmpty == ASSUME NEW types PROVE Kept(<<>>, types) = <<>>
<1>1. <<>> \in Seq({})
  OBVIOUS
<1>2. Kept(<<>>, types) \in Seq({})
  BY <1>1, KeptIs
<1>3. QED
  BY <1>2

\* A packet that starts a waiting cluster makes its first probe due, at once.
LEMMA IncomingTime ==
  ASSUME NEW t \in Nat, NEW q, ControllerOK(q, t), q.queue = <<>>,
         q.probe.active \/ q.probe.next = None,
         NEW r, r = [q EXCEPT !.probe = Incoming(q.probe)]
  PROVE  NextSendTime(r, t) \in {t, NextSendTime(q, t)}
<1>1. q \in ControllersAt(t) /\ q.probe \in Probes
  BY Fields DEF ControllerOK
<1>2. /\ r.conf = q.conf /\ r.queue = <<>> /\ r.paused = q.paused
      /\ r.congested = q.congested /\ r.seenFirst = q.seenFirst /\ r.rates = q.rates
      /\ r.adjusted = q.adjusted /\ r.probeFailed = q.probeFailed
      /\ r.lastSend = q.lastSend /\ r.lastProcess = q.lastProcess
      /\ r.mediaDebt = q.mediaDebt /\ r.paddingDebt = q.paddingDebt
  BY <1>1 DEF ControllersAt
<1>3. r.probe = Incoming(q.probe)
  BY <1>1 DEF ControllersAt
<1>4. NextPacedTime(r) = NextPacedTime(q)
  BY <1>2 DEF NextPacedTime, NextPaddingTime, PaddingDrainTime, MediaDrainTime
<1>5. Unpaced(r) = {} /\ Unpaced(q) = {}
  BY <1>2 DEF Unpaced
<1>6. CASE q.paused
  BY <1>2, <1>6 DEF NextSendTime
<1>7. CASE ~q.paused /\ (ProbeIsNext(r) <=> ProbeIsNext(q)) /\ r.probe.next = q.probe.next
  BY <1>2, <1>4, <1>5, <1>7 DEF NextSendTime
<1>8. CASE ~q.paused /\ ~ (ProbeIsNext(r) <=> ProbeIsNext(q))
  <2>1. r.probe # q.probe
    BY <1>2, <1>8 DEF ProbeIsNext, IsProbing
  <2>2. ~q.probe.active /\ r.probe = [q.probe EXCEPT !.active = TRUE]
    BY <1>1, <1>3, <2>1 DEF Incoming
  <2>3. r.probe.next = None
    BY <1>1, <2>2
  <2>4. ~ProbeIsNext(q)
    BY <2>2 DEF ProbeIsNext, IsProbing
  <2>5. QED
    BY <1>2, <1>8, <2>3, <2>4 DEF NextSendTime
<1>9. r.probe.next = q.probe.next
  BY <1>1, <1>3 DEF Incoming
<1>10. QED
  BY <1>6, <1>7, <1>8, <1>9

\* The same, but for the queue and the probes.
SameSettings(q, r) ==
    /\ r.conf = q.conf /\ r.paused = q.paused /\ r.congested = q.congested
    /\ r.rates = q.rates /\ r.adjusted = q.adjusted /\ r.probeFailed = q.probeFailed

LEMMA EnqueuedIs ==
  ASSUME NEW t \in Nat, NEW q, ControllerOK(q, t), PacedOK(q), q.adjusted > 0,
         NEW packet, packet.type \in Types, packet.size \in PacketSizes, packet.size \in Nat,
         packet.key \in BOOLEAN,
         NEW r \in Enqueued(q, packet, t)
  PROVE  /\ SameSettings(q, r) /\ r.lastSend = q.lastSend
         /\ r.queue # <<>> /\ r.queue \in Seq(SizedPackets) /\ r.seenFirst
         /\ r.probe = Incoming(q.probe)
         /\ \/ SameDebt(q, r) /\ q.queue # <<>>
            \/ \E u \in 0 .. t : /\ DrainedDebt(q, u, r)
                                 /\ q.queue = <<>> => u = t \/ u = NextSendTime(q, t)
<1> DEFINE flushed == Flushed(q, packet)
           prepared == [flushed EXCEPT !.probe = Incoming(@)]
           ready == FastForwarded(prepared, t)
           new == Queued(packet, t)
           queue == Append(ready.queue, new)
           pushed == [ready EXCEPT !.queue = Append(@, Queued(packet, t)), !.seenFirst = TRUE]
           until == MinOf(t, NextSendTime(prepared, t))
<1>1. q \in ControllersAt(t) /\ q.queue \in Seq(SizedPackets)
  BY DEF ControllerOK, PacedOK
<1>2. /\ \E kept : flushed = [q EXCEPT !.queue = kept] /\ kept \in Seq(SizedPackets)
                   /\ kept \in Seq(PacketsAt(t)) /\ (q.queue = <<>> => kept = <<>>)
  <2>1. CASE flushed = q
    <3>1. flushed = [q EXCEPT !.queue = q.queue]
      BY <1>1, <2>1 DEF ControllersAt
    <3>2. q.queue \in Seq(PacketsAt(t))
      BY Fields
    <3>3. QED
      BY <1>1, <3>1, <3>2
  <2>2. CASE flushed = [q EXCEPT !.queue = Kept(@, {"audio", "fec"})]
    <3> DEFINE kept == Kept(q.queue, {"audio", "fec"})
    <3>1. kept \in Seq(SizedPackets) /\ (q.queue = <<>> => kept = <<>>)
      BY <1>1, KeptIs, KeptEmpty
    <3>2. kept \in Seq(PacketsAt(t))
      BY Fields, KeptIs
    <3>3. flushed = [q EXCEPT !.queue = kept]
      BY <2>2
    <3>4. QED
      BY <3>1, <3>2, <3>3
  <2>3. QED
    BY <2>1, <2>2 DEF Flushed
<1>3. PICK kept : /\ flushed = [q EXCEPT !.queue = kept] /\ kept \in Seq(SizedPackets)
                  /\ kept \in Seq(PacketsAt(t)) /\ (q.queue = <<>> => kept = <<>>)
  BY <1>2
<1>4. prepared = [flushed EXCEPT !.probe = Incoming(flushed.probe)]
  OBVIOUS
<1>5. ready = IF prepared.queue = <<>> THEN Drained(prepared, until) ELSE prepared
  BY DEF FastForwarded
<1>6. pushed = [ready EXCEPT !.queue = queue, !.seenFirst = TRUE]
  OBVIOUS
<1>7. r \in RateAdjusted(pushed, t)
  BY DEF Enqueued
<1> HIDE DEF flushed, prepared, ready, queue, pushed
<1>8. ControllerOK(flushed, t)
  BY <1>3, QueueOK
<1>9. /\ SameSettings(q, flushed) /\ flushed.lastSend = q.lastSend /\ flushed.probe = q.probe
      /\ flushed.queue = kept /\ SameDebt(q, flushed)
  BY <1>1, <1>3 DEF ControllersAt, SameSettings, SameDebt
<1>10. Incoming(q.probe) \in Probes /\ Incoming(q.probe).next = q.probe.next
       /\ q.probe \in Probes
  <2>1. q.probe \in Probes
    BY Fields
  <2>2. QED
    BY <2>1 DEF Incoming
<1>11. flushed \in ControllersAt(t)
  BY <1>8 DEF ControllerOK
<1>12. ControllerOK(prepared, t)
  <2>1. flushed.probe.next # None => flushed.probe.next <= flushed.lastSend + ProbeDelta
    BY <1>8, Fields
  <2> DEFINE probe == Incoming(flushed.probe)
  <2>2. probe \in Probes /\ (probe.next # None => probe.next <= flushed.lastSend + ProbeDelta)
    BY <1>9, <1>10, <2>1
  <2>3. prepared = [flushed EXCEPT !.probe = probe]
    BY <1>4
  <2> HIDE DEF probe
  <2>4. QED
    BY <1>8, <2>2, <2>3, ProbeChangedOK
<1>13. /\ SameSettings(q, prepared) /\ prepared.lastSend = q.lastSend
       /\ prepared.probe = Incoming(q.probe)
       /\ prepared.queue = kept /\ SameDebt(q, prepared)
  BY <1>4, <1>9, <1>11 DEF ControllersAt, SameSettings, SameDebt
<1>14. q.queue = <<>> => NextSendTime(prepared, t) \in {t, NextSendTime(q, t)}
  <2> SUFFICES ASSUME q.queue = <<>> PROVE NextSendTime(prepared, t) \in {t, NextSendTime(q, t)}
    OBVIOUS
  <2>1. flushed = q
    <3>1. flushed = [q EXCEPT !.queue = q.queue]
      BY <1>3
    <3>2. QED
      BY <1>1, <3>1 DEF ControllersAt
  <2>2. q.probe.active \/ q.probe.next = None
    BY DEF PacedOK
  <2>3. prepared = [q EXCEPT !.probe = Incoming(q.probe)]
    BY <1>4, <2>1
  <2>4. QED
    BY <2>2, <2>3, IncomingTime
<1>15. until \in 0 .. t /\ (q.queue = <<>> => until = t \/ until = NextSendTime(q, t))
  <2>1. NextSendTime(prepared, t) \in Nat
    BY <1>12, SendTime
  <2>2. until \in 0 .. t /\ (until = t \/ until = NextSendTime(prepared, t))
    BY <2>1 DEF MinOf
  <2> HIDE DEF until
  <2>3. QED
    BY <1>14, <2>2
<1> HIDE DEF until
<1>16. ControllerOK(ready, t)
  <2>1. MaxEarlyProbe \in Nat
    BY Constants
  <2>2. until \in 0 .. t + MaxEarlyProbe
    BY <1>15, <2>1
  <2>3. QED
    BY <1>5, <1>12, <2>2, DrainedOK
<1>17. /\ SameSettings(q, ready) /\ ready.lastSend = q.lastSend
       /\ ready.probe = Incoming(q.probe) /\ ready.queue = kept
       /\ \/ SameDebt(q, ready) /\ kept # <<>>
          \/ DrainedDebt(q, until, ready)
  <2>1. CASE prepared.queue = <<>>
    <3>1. /\ SameControls(prepared, ready) /\ DrainedDebt(prepared, until, ready)
          /\ ready.lastSend = prepared.lastSend
      BY <1>5, <1>12, <2>1, DrainedIs
    <3>2. QED
      BY <1>13, <3>1 DEF SameSettings, SameControls, DrainedDebt, SameDebt
  <2>2. CASE prepared.queue # <<>>
    BY <1>5, <1>13, <2>2
  <2>3. QED
    BY <2>1, <2>2
<1>18. queue \in Seq(SizedPackets) /\ queue \in Seq(PacketsAt(t)) /\ queue # <<>>
  <2>1. new \in SizedPackets /\ new \in PacketsAt(t)
    BY DEF Queued, SizedPackets, PacketsAt
  <2> HIDE DEF new
  <2>2. /\ Append(kept, new) \in Seq(SizedPackets)
        /\ Append(kept, new) # <<>>
    BY <1>3, <2>1, AppendProperties
  <2>3. Append(kept, new) \in Seq(PacketsAt(t))
    BY <1>3, <2>1, AppendProperties
  <2>4. QED
    BY <1>17, <2>2, <2>3 DEF queue
<1>19. ready \in ControllersAt(t)
  BY <1>16 DEF ControllerOK
<1>20. pushed \in ControllersAt(t)
  BY <1>6, <1>18, <1>19 DEF ControllersAt
<1>21. /\ SameSettings(ready, pushed) /\ pushed.lastSend = ready.lastSend
       /\ pushed.probe = ready.probe /\ pushed.queue = queue /\ pushed.seenFirst
       /\ SameDebt(ready, pushed)
  BY <1>6, <1>19 DEF ControllersAt, SameSettings, SameDebt
<1>22. r = pushed
  <2>1. ~pushed.conf.drainLargeQueues /\ pushed.adjusted = pushed.rates.pacing
    BY <1>17, <1>21 DEF PacedOK, SameSettings
  <2>2. QED
    BY <1>7, <1>20, <2>1, RateKept
<1>23. SameSettings(q, r) /\ r.lastSend = q.lastSend /\ r.probe = Incoming(q.probe)
  BY <1>17, <1>21, <1>22 DEF SameSettings
<1>24. \/ SameDebt(q, r) /\ kept # <<>>
       \/ DrainedDebt(q, until, r)
  BY <1>17, <1>21, <1>22 DEF SameDebt, DrainedDebt
<1>25. QED
  BY <1>3, <1>15, <1>18, <1>21, <1>22, <1>23, <1>24

LEMMA EnqueuedKeeps ==
  ASSUME NEW t \in Nat, NEW q, ControllerOK(q, t), PacedOK(q), q.adjusted > 0,
         NEW packet, packet.type \in Types, packet.size \in PacketSizes, packet.size \in Nat,
         packet.key \in BOOLEAN,
         NEW r \in Enqueued(q, packet, t)
  PROVE  SameSettings(q, r) /\ r.probe = Incoming(q.probe) /\ r.queue # <<>>
<1>1. /\ SameSettings(q, r)
      /\ r.queue # <<>> /\ r.queue \in Seq(SizedPackets) /\ r.seenFirst
      /\ r.probe = Incoming(q.probe)
      /\ SameDebt(q, r) \/ \E u \in 0 .. t : DrainedDebt(q, u, r)
  BY EnqueuedIs
<1>2. QED
  BY <1>1

LEMMA EnqueuedHeld ==
  ASSUME NEW t \in Nat, NEW q, ControllerOK(q, t), PacedOK(q), q.adjusted > 0,
         NEW packet, packet.type \in Types, packet.size \in PacketSizes, packet.size \in Nat,
         packet.key \in BOOLEAN,
         NEW r \in Enqueued(q, packet, t), NEW l \in Int
  PROVE  /\ PacedOK(r)
         /\ Held(q, l, t) => Held(r, l, t)
         /\ Budgeted(q, l, t) => Budgeted(r, l, t)
         /\ Ahead(q, l, t) => Ahead(r, l, t)
         /\ r.mediaDebt <= q.mediaDebt
         /\ q.lastProcess <= t => r.lastProcess <= t
<1>1. /\ SameSettings(q, r)
      /\ r.queue # <<>> /\ r.queue \in Seq(SizedPackets) /\ r.seenFirst
      /\ r.probe = Incoming(q.probe)
      /\ SameDebt(q, r) \/ \E u \in 0 .. t : DrainedDebt(q, u, r)
  BY EnqueuedIs
<1>2. q.adjusted \in Nat /\ q.mediaDebt \in Nat /\ q.lastProcess \in Nat
  BY Numbers
<1>3. /\ r.mediaDebt \in Nat /\ r.mediaDebt <= q.mediaDebt
      /\ q.lastProcess <= t => r.lastProcess <= t
      /\ r.lastProcess \in Nat /\ q.lastProcess <= r.lastProcess
  <2>1. CASE SameDebt(q, r)
    BY <1>2, <2>1 DEF SameDebt
  <2>2. CASE \E u \in 0 .. t : DrainedDebt(q, u, r)
    <3>1. PICK u \in 0 .. t : DrainedDebt(q, u, r)
      BY <2>2
    <3>2. /\ r.mediaDebt = DebtAt(q.adjusted, q.mediaDebt, q.lastProcess, u)
          /\ r.lastProcess = MaxOf(q.lastProcess, u)
      BY <3>1 DEF DrainedDebt
    <3>3. /\ DebtAt(q.adjusted, q.mediaDebt, q.lastProcess, u) \in Nat
          /\ DebtAt(q.adjusted, q.mediaDebt, q.lastProcess, u) <= q.mediaDebt
      <4>1. u \in Nat
        OBVIOUS
      <4>2. QED
        BY <1>2, <4>1, DebtAtIs
    <3>4. /\ q.lastProcess <= t => MaxOf(q.lastProcess, u) <= t
          /\ MaxOf(q.lastProcess, u) \in Nat /\ q.lastProcess <= MaxOf(q.lastProcess, u)
      BY <1>2 DEF MaxOf
    <3>5. QED
      BY <3>2, <3>3, <3>4
  <2>3. QED
    BY <1>1, <2>1, <2>2
<1>4. r.probe.active \/ r.probe.next = None
  <2>1. q.probe.active \/ q.probe.next = None
    BY DEF PacedOK
  <2>2. q.probe \in Probes
    BY Fields
  <2>3. QED
    BY <1>1, <2>1, <2>2 DEF Incoming
<1>5. PacedOK(r)
  BY <1>1, <1>4, PacedStep DEF SameSettings
<1>6. Held(q, l, t) => Held(r, l, t)
  <2> SUFFICES ASSUME Held(q, l, t) PROVE Held(r, l, t)
    OBVIOUS
  <2>1. CASE SameDebt(q, r)
    BY <2>1, SameDebtHeld
  <2>2. ASSUME NEW u \in 0 .. t, DrainedDebt(q, u, r) PROVE Held(r, l, t)
    <3>1. u \in Nat
      OBVIOUS
    <3>2. Fits(q, u, l, t)
      BY <3>1, HeldFits
    <3>3. QED
      BY <2>2, <3>2, DrainedDebtHeld
  <2>3. QED
    BY <1>1, <2>1, <2>2
<1>7. Budgeted(q, l, t) => Budgeted(r, l, t)
  BY <1>6 DEF Budgeted
<1>8. Ahead(q, l, t) => Ahead(r, l, t)
  BY <1>1, <1>3, AheadLater DEF SameSettings
<1>9. QED
  BY <1>3, <1>5, <1>6, <1>7, <1>8

\* A packet that comes before the loop leaves what was promised, if the owner is in time.
LEMMA EnqueuedPromised ==
  ASSUME DebtIsRecent, NEW t \in Nat, NEW q, ControllerOK(q, t), PacedOK(q), q.adjusted > 0,
         NEW packet, packet.type \in Types, packet.size \in PacketSizes, packet.size \in Nat,
         packet.key \in BOOLEAN,
         NEW r \in Enqueued(q, packet, t), ControllerOK(r, t), NEW l \in Int,
         Budgeted(q, l, t), Promised(q, l, t),
         q.queue = <<>> => t <= NextSendTime(q, t) + Slack
  PROVE  Promised(r, l, t)
<1> SUFFICES ASSUME Waits(r) PROVE Promised(r, l, t)
  BY DEF Promised
<1>1. /\ SameSettings(q, r) /\ r.probe = Incoming(q.probe)
      /\ \/ SameDebt(q, r) /\ q.queue # <<>>
         \/ \E u \in 0 .. t : /\ DrainedDebt(q, u, r)
                              /\ q.queue = <<>> => u = t \/ u = NextSendTime(q, t)
  BY EnqueuedIs
<1>2. ~q.congested
  BY <1>1 DEF Waits, SameSettings
<1>3. ASSUME Held(r, l, t) PROVE Promised(r, l, t)
  BY <1>3, HeldPromised
<1>4. CASE q.queue = <<>>
  <2>1. PICK u \in 0 .. t : DrainedDebt(q, u, r) /\ (u = t \/ u = NextSendTime(q, t))
    BY <1>1, <1>4
  <2>2. t <= u + Slack
    BY <1>4, <2>1, SlackIs
  <2>3. Fits(q, u, l, t)
    BY <2>2, RecentFits
  <2>4. QED
    BY <1>3, <2>1, <2>3, DrainedDebtHeld
<1>5. CASE q.queue # <<>>
  <2>1. Waits(q)
    BY <1>2, <1>5 DEF Waits
  <2>2. Held(q, l, t) => Held(r, l, t)
    <3>1. CASE SameDebt(q, r)
      BY <3>1, SameDebtHeld
    <3>2. ASSUME NEW u \in 0 .. t, DrainedDebt(q, u, r), Held(q, l, t) PROVE Held(r, l, t)
      <4>1. u \in Nat
        OBVIOUS
      <4>2. Fits(q, u, l, t)
        BY <3>2, <4>1, HeldFits
      <4>3. QED
        BY <3>2, <4>2, DrainedDebtHeld
    <3>3. QED
      BY <1>1, <3>1, <3>2
  <2>3. CASE ~ProbeIsNext(q)
    BY <1>3, <2>1, <2>2, <2>3 DEF Promised
  <2>4. CASE ProbeIsNext(q) /\ q.mediaDebt > q.adjusted * MaxDebtInTime
    BY <1>3, <2>1, <2>2, <2>4 DEF Promised
  <2>5. CASE ProbeIsNext(q) /\ ~ (q.mediaDebt > q.adjusted * MaxDebtInTime)
    <3>1. r.probe = q.probe /\ q.probe.next \in Nat \cup {None}
      <4>1. q.probe.active /\ q.probe \in Probes
        BY <2>5, Fields DEF ProbeIsNext, IsProbing
      <4>2. QED
        BY <1>1, <4>1 DEF Incoming
    <3>2. ProbeIsNext(r)
      BY <1>1, <2>5, <3>1 DEF ProbeIsNext, IsProbing, SameSettings
    <3>3. q.probe.next # None => Fits(r, q.probe.next, l, t)
      <4> SUFFICES ASSUME q.probe.next # None PROVE Fits(r, q.probe.next, l, t)
        OBVIOUS
      <4>1. Fits(q, q.probe.next, l, t) /\ q.probe.next \in Nat
        BY <2>1, <2>5, <3>1 DEF Promised
      <4>2. CASE SameDebt(q, r)
        BY <4>1, <4>2, SameDebtHeld
      <4>3. ASSUME NEW u \in 0 .. t, DrainedDebt(q, u, r) PROVE Fits(r, q.probe.next, l, t)
        <5>1. u \in Nat /\ q.mediaDebt <= q.adjusted * MaxElapsedTime
          BY <2>5, DebtIsSoonDrained
        <5>2. QED
          BY <4>1, <4>3, <5>1, FitsDrained
      <4>4. QED
        BY <1>1, <4>2, <4>3
    <3>4. r.mediaDebt > r.adjusted * MaxDebtInTime => Held(r, l, t)
      <4> SUFFICES ASSUME r.mediaDebt > r.adjusted * MaxDebtInTime PROVE Held(r, l, t)
        OBVIOUS
      <4>1. q.adjusted \in Nat /\ q.mediaDebt \in Nat /\ q.lastProcess \in Nat
        BY Numbers
      <4>2. r.adjusted = q.adjusted /\ r.mediaDebt \in Nat /\ r.mediaDebt <= q.mediaDebt
        <5>1. CASE SameDebt(q, r)
          BY <4>1, <5>1 DEF SameDebt
        <5>2. ASSUME NEW u \in 0 .. t, DrainedDebt(q, u, r)
              PROVE  r.adjusted = q.adjusted /\ r.mediaDebt \in Nat /\ r.mediaDebt <= q.mediaDebt
          <6>1. /\ r.mediaDebt = DebtAt(q.adjusted, q.mediaDebt, q.lastProcess, u)
                /\ r.adjusted = q.adjusted
            BY <5>2 DEF DrainedDebt
          <6>2. /\ DebtAt(q.adjusted, q.mediaDebt, q.lastProcess, u) \in Nat
                /\ DebtAt(q.adjusted, q.mediaDebt, q.lastProcess, u) <= q.mediaDebt
            <7>1. u \in Nat
              OBVIOUS
            <7>2. QED
              BY <4>1, <7>1, DebtAtIs
          <6>3. QED
            BY <6>1, <6>2
        <5>3. QED
          BY <1>1, <5>1, <5>2
      <4> DEFINE limit == q.adjusted * MaxDebtInTime
      <4>3. limit \in Nat /\ r.mediaDebt > limit
        BY <4>1, <4>2, RoomIs
      <4> HIDE DEF limit
      <4>4. q.mediaDebt > limit
        BY <4>1, <4>2, <4>3
      <4>5. Held(q, l, t)
        BY <2>1, <4>4 DEF Promised, limit
      <4>6. QED
        BY <2>2, <4>5
    <3>5. QED
      BY <3>1, <3>2, <3>3, <3>4 DEF Promised
  <2>6. QED
    BY <2>3, <2>4, <2>5
<1>6. QED
  BY <1>4, <1>5

\* So does a keep-alive.
LEMMA KeepalivesPaced ==
  ASSUME now \in Nat, NEW q, ControllerOK(q, now), PacedOK(q),
         NEW r \in Keepalives(q), NEW l \in Int, Budgeted(q, l, now), Promised(q, l, now)
  PROVE  /\ SameControls(q, r) /\ PacedOK(r)
         /\ Budgeted(r, l, now) /\ Promised(r, l, now)
         /\ Quiet(r) => now < r.lastSend + CongestedInterval
<1>1. CASE r = q /\ ~ShouldSendKeepalive(q, now)
  <2>1. q.lastSend \in Nat /\ CongestedInterval \in Nat
    BY LastSendNat
  <2>2. Quiet(q) => now < q.lastSend + CongestedInterval
    BY <1>1, <2>1 DEF ShouldSendKeepalive, Quiet
  <2>3. QED
    BY <1>1, <2>2 DEF SameControls
<1>2. CASE \E size \in {0} \cup PaddingSizes : r = OnPacketSent(q, "padding", size, now)
  <2>1. PICK size \in {0} \cup PaddingSizes : r = OnPacketSent(q, "padding", size, now)
    BY <1>2
  <2>2. size \in Nat
    BY PacingAssumption
  <2>3. /\ SameControls(q, r) /\ r.lastSend = now
        /\ IF size > 0 THEN OwedDebt(q, size, r) ELSE SameDebt(q, r)
    BY <2>1, <2>2, SentIs
  <2>4. PacedOK(r)
    BY <2>1, <2>2, SentPaced
  <2>5. CongestedInterval \in Nat \ {0}
    BY Constants
  <2>6. now < r.lastSend + CongestedInterval
    BY <2>3, <2>5
  <2>7. ProbeIsNext(r) = ProbeIsNext(q) /\ r.probe = q.probe
    BY <2>3 DEF SameControls, ProbeIsNext, IsProbing
  <2>8. CASE ~(size > 0)
    <3>1. SameDebt(q, r)
      BY <2>3, <2>8
    <3>2. Budgeted(r, l, now)
      BY <3>1, SameDebtHeld
    <3>3. Promised(r, l, now)
      <4>1. Waits(r) = Waits(q) /\ r.mediaDebt = q.mediaDebt /\ r.adjusted = q.adjusted
        BY <2>3, <3>1 DEF Waits, SameControls, SameDebt
      <4>2. /\ Held(r, l, now) <=> Held(q, l, now)
            /\ Fits(r, q.probe.next, l, now) <=> Fits(q, q.probe.next, l, now)
        BY <3>1, SameDebtHeld
      <4>3. QED
        BY <2>7, <4>1, <4>2 DEF Promised
    <3>4. QED
      BY <2>3, <2>4, <2>6, <3>2, <3>3
  <2>9. CASE size > 0
    <3>1. OwedDebt(q, size, r)
      BY <2>3, <2>9
    <3>2. /\ Held(q, l, now) => Held(r, l, now)
          /\ Budgeted(r, l, now)
          /\ q.mediaDebt <= q.adjusted * MaxDebtInTime
               => \A u \in Nat : Fits(q, u, l, now) => Fits(r, u, l, now)
      BY <2>2, <3>1, OwedDebtHeld
    <3>3. Promised(r, l, now)
      <4> SUFFICES ASSUME Waits(r) PROVE Promised(r, l, now)
        BY DEF Promised
      <4>1. ControllerOK(r, now)
        BY <2>1, <2>2, OnPacketSentOK
      <4>2. Waits(q)
        BY <2>3 DEF Waits, SameControls
      <4>3. ASSUME Held(q, l, now) PROVE Promised(r, l, now)
        BY <3>2, <4>1, <4>3, HeldPromised
      <4>4. CASE ~ProbeIsNext(q) \/ q.mediaDebt > q.adjusted * MaxDebtInTime
        BY <4>2, <4>3, <4>4 DEF Promised
      <4>5. CASE ProbeIsNext(q) /\ ~ (q.mediaDebt > q.adjusted * MaxDebtInTime)
        <5>1. q.mediaDebt \in Nat /\ q.adjusted * MaxDebtInTime \in Nat
          BY Numbers, RoomIs
        <5> DEFINE limit == q.adjusted * MaxDebtInTime
        <5> HIDE DEF limit
        <5>2. limit \in Nat /\ q.mediaDebt <= limit
          BY <4>5, <5>1 DEF limit
        <5>3. r.adjusted = q.adjusted /\ r.mediaDebt = MinOf(q.mediaDebt + size, limit)
          BY <3>1 DEF OwedDebt, limit
        <5>4. ~ (r.mediaDebt > limit)
          BY <2>2, <5>1, <5>2, <5>3 DEF MinOf
        <5>5. q.probe.next # None => q.probe.next \in Nat /\ Fits(q, q.probe.next, l, now)
          BY <4>2, <4>5, Fields DEF Promised
        <5>6. q.probe.next # None => Fits(r, q.probe.next, l, now)
          BY <3>2, <5>2, <5>5 DEF limit
        <5>7. ~ (r.mediaDebt > r.adjusted * MaxDebtInTime)
          BY <5>3, <5>4 DEF limit
        <5>8. QED
          BY <2>7, <4>5, <5>6, <5>7 DEF Promised
      <4>6. QED
        BY <4>4, <4>5
    <3>4. QED
      BY <2>3, <2>4, <2>6, <3>2, <3>3
  <2>10. QED
    BY <2>8, <2>9
<1>3. QED
  BY <1>1, <1>2 DEF Keepalives

-------------------------------------------------------------------------------
(* The invariant that keeps the pace *)

\* What PacedBound asks of the bucket.
WithinPace(l) ==
    \/ l <= 0
    \/ \E rates \in Rates, size \in PacketSizes :
          l <= rates.pacing * (MaxOf(rates.burst, 1) + Slack) - 1 + size

\* The owner is in time for what waits, and nothing waits that is due at once.
WakesForPackets ==
    loop = Idle => /\ now <= wake + Late /\ wake = NextSendTime(p, now)
                   /\ p.paused \/ ProbeIsNext(p) \/ Unpaced(p) = {}
                   /\ p.paused \/ ~ProbeIsNext(p) \/ p.probe.next # None

\* A pass that sends because its time has come finds less debt than a burst; or what is
\* owed since the rate was higher has been waited for.
PassDue(q, pass, l, t) ==
    /\ pass.at = "pass" /\ ~pass.probing /\ ~pass.timedOut
    /\ ~q.congested /\ ~ProbeIsNext(q) /\ Unpaced(q) = {}
    /\ q.queue = <<>> => q.rates.padding > 0
    => /\ q.lastProcess <= t
       /\ q.mediaDebt < q.adjusted * MaxOf(q.rates.burst, 1) \/ Spare(q, l, t)
DueForPass == PassDue(p, loop, level, now)

InLoop == loop.at \in {"pass", "end"}

PaceInv ==
    /\ PacedOK(p)
    /\ Budgeted(p, level, now) /\ WithinPace(level)
    /\ IF InLoop THEN /\ Waits(p) => Held(p, level, now)
                      /\ loop.probing => p.probe.active
                      /\ loop.firstProbe => loop.probing
                      /\ ~loop.probing => loop.recommended = 0
       ELSE Promised(p, level, now)
    /\ loop = Batch => p.queue # <<>>
    /\ WakesForPackets
    /\ DueForPass

LEMMA SizesNat == PacketSizes \subseteq Nat
<1>1. ASSUME NEW packet \in MediaPackets PROVE packet.size \in Nat
  BY PacingAssumption
<1>2. PaddingSizes \subseteq Nat
  BY PacingAssumption
<1>3. ASSUME NEW size \in PacketSizes PROVE size \in Nat
  <2>1. (\E packet \in MediaPackets : size = packet.size) \/ size \in PaddingSizes \/ size = 1
    BY DEF PacketSizes
  <2>2. CASE \E packet \in MediaPackets : size = packet.size
    BY <1>1, <2>2
  <2>3. CASE size \in PaddingSizes
    BY <1>2, <2>3
  <2>4. CASE size = 1
    BY <2>4
  <2>5. QED
    BY <2>1, <2>2, <2>3, <2>4
<1>4. QED
  BY <1>3

LEMMA WithinLess ==
  ASSUME NEW l \in Int, WithinPace(l), NEW less \in Int, less <= l \/ less <= 0
  PROVE  WithinPace(less)
<1>1. CASE l <= 0 \/ less <= 0
  BY <1>1 DEF WithinPace
<1>2. CASE ~ (l <= 0 \/ less <= 0)
  <2>1. PICK rates \in Rates, size \in PacketSizes :
          l <= rates.pacing * (MaxOf(rates.burst, 1) + Slack) - 1 + size
    BY <1>2 DEF WithinPace
  <2> DEFINE most == rates.pacing * (MaxOf(rates.burst, 1) + Slack)
  <2>2. most \in Nat /\ size \in Nat
    <3>1. rates.pacing \in Nat /\ rates.burst \in Nat /\ size \in Nat
      BY PacingAssumption, SizesNat
    <3>2. MaxOf(rates.burst, 1) + Slack \in Nat
      BY <3>1, SlackIs DEF MaxOf
    <3>3. QED
      BY <3>1, <3>2
  <2>3. l <= most - 1 + size
    BY <2>1
  <2> HIDE DEF most
  <2>4. less <= most - 1 + size
    BY <1>2, <2>2, <2>3
  <2>5. QED
    BY <2>4 DEF WithinPace, most
<1>3. QED
  BY <1>1, <1>2

LEMMA SamePromised ==
  ASSUME NEW q, NEW r, NEW l, NEW t, SameDebt(q, r), Budgeted(q, l, t), Promised(q, l, t),
         Waits(r) => Waits(q), ProbeIsNext(r) <=> ProbeIsNext(q), r.probe.next = q.probe.next
  PROVE  Budgeted(r, l, t) /\ Promised(r, l, t)
<1>1. r.mediaDebt = q.mediaDebt /\ r.adjusted = q.adjusted
  BY DEF SameDebt
<1>2. /\ Held(r, l, t) <=> Held(q, l, t)
      /\ Fits(r, q.probe.next, l, t) <=> Fits(q, q.probe.next, l, t)
      /\ Budgeted(r, l, t)
  BY SameDebtHeld
<1>3. QED
  BY <1>1, <1>2 DEF Promised

LEMMA BecomesPaced ==
  ASSUME now \in Nat, level \in Int, NEW q, ControllerOK(q, now), PacedOK(q), Becomes(q),
         WithinPace(level), level' \in Int, level' <= level,
         Budgeted(q, level', now), Promised(q, level', now)
  PROVE  PaceInv'
<1>1. /\ now' = now /\ p' = q /\ wake' = NextSendTime(q, now)
      /\ loop' = IF wake' <= now THEN Due ELSE Idle
  BY DEF Becomes
<1>2. NextSendTime(q, now) \in Nat /\ Late \in Nat
  BY SendTime, Constants
<1>3. WithinPace(level')
  BY WithinLess
<1>4. loop'.at \notin {"pass", "end"} /\ loop' # Batch /\ loop'.at # "pass"
  BY <1>1 DEF Idle, Due, Batch
<1>5. WakesForPackets'
  <2> SUFFICES ASSUME loop' = Idle
               PROVE  /\ now' <= wake' + Late /\ wake' = NextSendTime(p', now')
                      /\ p'.paused \/ ProbeIsNext(p') \/ Unpaced(p') = {}
                      /\ p'.paused \/ ~ProbeIsNext(p') \/ p'.probe.next # None
    BY DEF WakesForPackets
  <2>1. ~ (wake' <= now)
    BY <1>1 DEF Idle, Due
  <2> DEFINE time == NextSendTime(q, now)
  <2>2. time \in Nat /\ ~ (time <= now)
    BY <1>1, <1>2, <2>1
  <2>3. q.paused \/ ProbeIsNext(q) \/ Unpaced(q) = {}
    <3> SUFFICES ASSUME ~q.paused, ~ProbeIsNext(q), Unpaced(q) # {} PROVE FALSE
      OBVIOUS
    <3>1. time = NextUnpacedSendTime(q) /\ NextUnpacedSendTime(q) \in 0 .. now
      BY UnpacedTime DEF NextSendTime
    <3> HIDE DEF time
    <3>2. QED
      BY <2>2, <3>1
  <2>4. q.paused \/ ~ProbeIsNext(q) \/ q.probe.next # None
    <3> SUFFICES ASSUME ~q.paused, ProbeIsNext(q), q.probe.next = None PROVE FALSE
      OBVIOUS
    <3>1. time = now
      BY DEF NextSendTime
    <3> HIDE DEF time
    <3>2. QED
      BY <2>2, <3>1
  <2>5. now' <= wake' + Late /\ wake' = NextSendTime(p', now')
    <3> HIDE DEF time
    <3>1. now <= time + Late
      BY <1>2, <2>2
    <3>2. QED
      BY <1>1, <3>1 DEF time
  <2>6. QED
    BY <1>1, <2>3, <2>4, <2>5
<1>6. DueForPass'
  BY <1>4 DEF DueForPass, PassDue
<1>7. ~InLoop'
  BY <1>4 DEF InLoop
<1>8. QED
  BY <1>1, <1>3, <1>4, <1>5, <1>6, <1>7 DEF PaceInv

\* Nothing in the loop, nothing in the bucket.
LEMMA InitPaced ==
  ASSUME Init, ~p.conf.drainLargeQueues
  PROVE  PaceInv
<1>1. PICK conf \in Configurations :
        p = [conf |-> conf, queue |-> <<>>, paused |-> FALSE, congested |-> FALSE,
             seenFirst |-> FALSE, lastProcess |-> 0, lastSend |-> 0,
             mediaDebt |-> 0, paddingDebt |-> 0, adjusted |-> 0,
             rates |-> [pacing |-> 0, padding |-> 0, burst |-> 0],
             probe |-> NoCluster, probeFailed |-> FALSE]
  BY DEF Init
<1>2. now = 0 /\ wake = CongestedInterval /\ loop = Idle /\ level = 0
  BY DEF Init
<1>3. CongestedInterval \in Nat /\ Late \in Nat /\ MaxElapsedTime \in Nat
  BY Constants
<1>4. p.queue = <<>> /\ ~p.probe.active /\ p.probe.next = None
  BY <1>1 DEF NoCluster
<1>6. PacedOK(p)
  <2>1. <<>> \in Seq(SizedPackets)
    OBVIOUS
  <2>2. p.adjusted = 0 /\ p.rates.pacing = 0
    BY <1>1
  <2>3. QED
    BY <1>4, <2>1, <2>2 DEF PacedOK
<1>7. Budgeted(p, level, now) /\ WithinPace(level)
  BY <1>2 DEF Budgeted, WithinPace
<1>8. Promised(p, level, now)
  BY <1>4 DEF Promised, Waits
<1>9. WakesForPackets
  <2>1. ~ProbeIsNext(p) /\ Unpaced(p) = {}
    BY <1>4 DEF ProbeIsNext, IsProbing, Unpaced
  <2>2. NextSendTime(p, now) = 0 + CongestedInterval
    BY <1>1, <2>1 DEF NextSendTime
  <2>3. QED
    BY <1>2, <1>3, <2>1, <2>2 DEF WakesForPackets
<1>10. DueForPass /\ ~InLoop /\ loop # Batch
  BY <1>2 DEF DueForPass, PassDue, InLoop, Idle, Batch
<1>11. QED
  BY <1>6, <1>7, <1>8, <1>9, <1>10 DEF PaceInv

LEMMA TickPaced ==
  ASSUME IInv, PaceInv, Tick
  PROVE  PaceInv'
<1>1. /\ now' = now + 1 /\ p' = p /\ loop' = loop /\ wake' = wake
      /\ loop = Idle /\ now < wake + Late /\ level' = LevelAfterTick
  BY DEF Tick
<1>2. /\ now \in Nat /\ wake \in Nat /\ ControllerOK(p, now) /\ level \in Int
      /\ Late \in Nat /\ p.adjusted \in Nat /\ p.mediaDebt \in Nat /\ p.lastProcess \in Nat
  BY Numbers, Constants DEF IInv, ControlInv
<1>3. /\ PacedOK(p) /\ Budgeted(p, level, now) /\ WithinPace(level)
      /\ Promised(p, level, now) /\ WakesForPackets
  BY <1>1 DEF PaceInv, InLoop, Idle
<1>4. ControllerOK(p, now + 1)
  BY <1>2, LaterOK
<1> DEFINE drained == level - p.adjusted
<1>5. /\ drained \in Int /\ drained <= level
      /\ level' \in Int /\ (level' = drained \/ level' <= 0)
      /\ level' <= level \/ level' <= 0
      /\ level > 0 => level' = drained \/ level' = 0
  <2>1. drained \in Int /\ drained <= level
    BY <1>2
  <2>2. level' \in {drained, IF level <= 0 THEN level ELSE MaxOf(0, drained)}
    BY <1>1 DEF LevelAfterTick
  <2> HIDE DEF drained
  <2>3. QED
    BY <1>2, <2>1, <2>2 DEF MaxOf
<1>6. /\ Held(p, level, now) => Held(p, drained, now + 1)
      /\ \A u \in Nat : Fits(p, u, level, now) => Fits(p, u, drained, now + 1)
  <2>1. ASSUME NEW debt \in Nat, NEW last \in Nat, level <= Room(p.adjusted, debt, last, now)
        PROVE  drained <= Room(p.adjusted, debt, last, now + 1)
    <3>1. Room(p.adjusted, debt, last, now) \in Int
      BY <1>2, RoomIs
    <3>2. p.adjusted \in Nat /\ now \in Nat
      BY <1>2
    <3>3. Room(p.adjusted, debt, last, now + 1) = Room(p.adjusted, debt, last, now) - p.adjusted
      BY <3>2, RoomNextTick
    <3>4. QED
      BY <1>2, <2>1, <3>1, <3>3
  <2>2. Held(p, level, now) => Held(p, drained, now + 1)
    BY <1>2, <2>1 DEF Held
  <2>3. ASSUME NEW u \in Nat, Fits(p, u, level, now) PROVE Fits(p, u, drained, now + 1)
    <3> DEFINE debt == DebtAt(p.adjusted, p.mediaDebt, p.lastProcess, u)
               last == MaxOf(p.lastProcess, u)
    <3>1. debt \in Nat /\ last \in Nat
      BY <1>2, DebtAtIs, MinMaxNat
    <3>2. level <= Room(p.adjusted, debt, last, now)
      BY <2>3 DEF Fits
    <3> HIDE DEF debt, last, drained
    <3>3. drained <= Room(p.adjusted, debt, last, now + 1)
      BY <2>1, <3>1, <3>2
    <3>4. QED
      BY <3>3 DEF Fits, debt, last
  <2>4. QED
    BY <2>2, <2>3
<1>7. Budgeted(p, level', now + 1)
  <2> HIDE DEF drained
  <2>1. CASE level <= 0
    <3>1. level' <= 0
      BY <1>2, <1>5, <2>1
    <3>2. QED
      BY <3>1 DEF Budgeted
  <2>2. CASE ~ (level <= 0)
    <3>1. Held(p, drained, now + 1)
      BY <1>3, <1>6, <2>2 DEF Budgeted
    <3>2. level' = drained \/ level' <= 0
      BY <1>5
    <3>3. QED
      BY <3>1, <3>2 DEF Budgeted
  <2>3. QED
    BY <2>1, <2>2
<1>8. WithinPace(level')
  BY <1>2, <1>3, <1>5, WithinLess
<1>9. Promised(p, level', now + 1)
  <2> SUFFICES ASSUME Waits(p) PROVE Promised(p, level', now + 1)
    BY DEF Promised
  <2>1. p.queue # <<>> /\ ~p.congested /\ p.adjusted > 0 /\ p.seenFirst
    BY <1>3 DEF Waits, PacedOK
  <2>2. CASE p.paused \/ p.mediaDebt > p.adjusted * MaxDebtInTime
    <3>1. level' = drained
      BY <1>1, <2>1, <2>2 DEF LevelAfterTick
    <3>2. p.probe.next \in Nat \cup {None}
      BY <1>2, Fields
    <3>3. QED
      BY <1>3, <1>6, <3>1, <3>2 DEF Promised
  <2>3. CASE ~p.paused /\ ~ (p.mediaDebt > p.adjusted * MaxDebtInTime)
    <3>1. wake = NextSendTime(p, now)
      BY <1>1, <1>3 DEF WakesForPackets
    <3>2. CASE ProbeIsNext(p)
      <4>1. p.probe.next # None /\ p.probe.next \in Nat
        BY <1>1, <1>2, <1>3, <2>3, <3>2, Fields DEF WakesForPackets
      <4>2. wake = p.probe.next
        BY <2>3, <3>1, <3>2, <4>1 DEF NextSendTime
      <4>3. now + 1 <= p.probe.next + Slack
        BY <1>1, <1>2, <4>2, SlackIs
      <4>4. Fits(p, p.probe.next, level', now + 1)
        <5>1. now + 1 \in Nat /\ level' \in Int
          BY <1>2, <1>5
        <5>2. QED
          BY <1>4, <1>7, <4>1, <4>3, <5>1, RecentFits
      <4>5. QED
        BY <2>3, <3>2, <4>4 DEF Promised
    <3>3. CASE ~ProbeIsNext(p)
      <4>1. Unpaced(p) = {}
        BY <1>1, <1>3, <2>3, <3>3 DEF WakesForPackets
      <4> DEFINE drain == p.mediaDebt \div p.adjusted
                 limit == p.adjusted * MaxDebtInTime
                 kept == p.adjusted * (p.lastProcess + Slack - (now + 1))
                 room == Room(p.adjusted, p.mediaDebt, p.lastProcess, now + 1)
      <4>2. wake <= p.lastProcess + drain
        BY <1>2, <2>1, <2>3, <3>1, <3>3, <4>1, PacedWake
      <4>3. drain \in Nat /\ p.adjusted * drain \in Nat /\ p.adjusted * drain <= p.mediaDebt
        <5>1. drain \in Nat /\ p.adjusted * drain <= p.mediaDebt
          BY <1>2, <2>1, Quotients
        <5> HIDE DEF drain
        <5>2. QED
          BY <1>2, <5>1
      <4>4. 0 <= room /\ room \in Int
        <5>1. limit \in Nat /\ p.mediaDebt <= limit
          <6>1. limit \in Nat /\ ~ (p.mediaDebt > limit)
            BY <1>2, <2>3, RoomIs
          <6> HIDE DEF limit
          <6>2. QED
            BY <1>2, <6>1
        <5>2. room = MinOf(p.mediaDebt, limit) + kept
          BY DEF Room
        <5>3. kept \in Int /\ 0 - p.adjusted * drain <= kept
          <6> DEFINE x == p.lastProcess + Slack - (now + 1)
          <6>1. 0 - drain <= x /\ x \in Int
            <7> HIDE DEF drain
            <7>1. QED
              BY <1>1, <1>2, <4>2, <4>3, SlackIs
          <6> HIDE DEF x, drain
          <6>2. /\ p.adjusted * (0 - drain) <= p.adjusted * x /\ p.adjusted * x \in Int
                /\ p.adjusted * (0 - drain) = p.adjusted * 0 - p.adjusted * drain
                /\ p.adjusted * 0 = 0
            BY <1>2, <4>3, <6>1, Products
          <6>3. QED
            BY <6>2 DEF x
        <5> HIDE DEF drain, limit, kept, room
        <5>4. QED
          BY <1>2, <4>3, <5>1, <5>2, <5>3 DEF MinOf
      <4>5. Held(p, level', now + 1)
        <5>1. CASE level' = drained
          BY <1>3, <1>6, <3>3, <5>1 DEF Promised
        <5>2. CASE level' <= 0
          <6>1. level' <= room
            <7> HIDE DEF room
            <7>1. QED
              BY <1>5, <4>4, <5>2
          <6>2. QED
            BY <6>1 DEF Held
        <5>3. QED
          BY <1>5, <5>1, <5>2
      <4>6. QED
        BY <3>3, <4>5 DEF Promised
    <3>4. QED
      BY <3>2, <3>3
  <2>4. QED
    BY <2>2, <2>3
<1>10. WakesForPackets'
  <2>1. /\ wake = NextSendTime(p, now)
        /\ p.paused \/ ProbeIsNext(p) \/ Unpaced(p) = {}
        /\ p.paused \/ ~ProbeIsNext(p) \/ p.probe.next # None
    BY <1>1, <1>3 DEF WakesForPackets
  <2>2. NextSendTime(p, now + 1) = NextSendTime(p, now)
    BY <2>1, SendTimeStays
  <2>3. now + 1 <= wake + Late
    BY <1>1, <1>2
  <2>4. QED
    BY <1>1, <2>1, <2>2, <2>3 DEF WakesForPackets
<1>11. DueForPass' /\ ~InLoop' /\ loop' # Batch
  BY <1>1 DEF DueForPass, PassDue, InLoop, Idle, Batch
<1>12. QED
  BY <1>1, <1>3, <1>7, <1>8, <1>9, <1>10, <1>11 DEF PaceInv

-------------------------------------------------------------------------------
(* The application keeps the pace *)

LEMMA PaceParts ==
  ASSUME IInv, PaceInv
  PROVE  /\ now \in Nat /\ wake \in Nat /\ level \in Int
         /\ ControllerOK(p, now) /\ p \in ControllersAt(now)
         /\ loop \in LoopType
         /\ PacedOK(p) /\ Budgeted(p, level, now) /\ WithinPace(level)
         /\ p.probe \in Probes /\ (p.probe.active \/ p.probe.next = None)
         /\ {p.adjusted, p.mediaDebt, p.lastProcess} \subseteq Nat
         /\ p.queue \in Seq(SizedPackets) /\ p.queue \in Seq(PacketsAt(now))
<1>1. /\ now \in Nat /\ wake \in Nat /\ level \in Int
      /\ ControllerOK(p, now) /\ p \in ControllersAt(now) /\ loop \in LoopType
  BY DEF IInv, ControlInv, ControllerOK
<1>2. PacedOK(p) /\ Budgeted(p, level, now) /\ WithinPace(level)
  BY DEF PaceInv
<1>3. p.probe \in Probes /\ p.queue \in Seq(PacketsAt(now))
  BY <1>1, Fields
<1>4. {p.adjusted, p.mediaDebt, p.lastProcess} \subseteq Nat
  BY <1>1, Numbers
<1>5. p.queue \in Seq(SizedPackets) /\ (p.probe.active \/ p.probe.next = None)
  BY <1>2 DEF PacedOK
<1>6. QED
  BY <1>1, <1>2, <1>3, <1>4, <1>5

\* Calls that change neither the debt nor the level, and add no packet.
LEMMA SameDebtPaced ==
  ASSUME IInv, PaceInv, ~InLoop, NEW q, ControllerOK(q, now), PacedOK(q), Becomes(q),
         UNCHANGED level, SameDebt(p, q), Waits(q) => Waits(p),
         ProbeIsNext(q) <=> ProbeIsNext(p), q.probe.next = p.probe.next
  PROVE  PaceInv'
<1>1. now \in Nat /\ level \in Int /\ Budgeted(p, level, now) /\ WithinPace(level)
  BY PaceParts
<1>2. Promised(p, level, now)
  BY DEF PaceInv
<1>3. Budgeted(q, level, now) /\ Promised(q, level, now)
  BY <1>1, <1>2, SamePromised
<1>4. level' = level /\ level <= level
  BY <1>1
<1>5. Budgeted(q, level', now) /\ Promised(q, level', now) /\ level' <= level /\ level' \in Int
  BY <1>1, <1>3, <1>4
<1>6. QED
  BY <1>1, <1>5, BecomesPaced

LEMMA PausePaced ==
  ASSUME IInv, PaceInv, ~InLoop, Pause \/ Resume, UNCHANGED level
  PROVE  PaceInv'
<1>1. /\ now \in Nat /\ ControllerOK(p, now) /\ p \in ControllersAt(now) /\ PacedOK(p)
      /\ p.mediaDebt \in Nat
  BY PaceParts
<1>2. PICK b \in BOOLEAN : Becomes([p EXCEPT !.paused = b])
  BY DEF Pause, Resume
<1> DEFINE q == [p EXCEPT !.paused = b]
<1>3. q = [p EXCEPT !.paused = b] /\ Becomes(q)
  BY <1>2
<1> HIDE DEF q
<1>4. q \in ControllersAt(now)
  BY <1>1, <1>3 DEF ControllersAt
<1>5. /\ q.conf = p.conf /\ q.queue = p.queue /\ q.congested = p.congested
      /\ q.seenFirst = p.seenFirst /\ q.rates = p.rates /\ q.adjusted = p.adjusted
      /\ q.probe = p.probe /\ q.probeFailed = p.probeFailed /\ q.lastSend = p.lastSend
      /\ q.mediaDebt = p.mediaDebt /\ q.lastProcess = p.lastProcess
  BY <1>1, <1>3 DEF ControllersAt
<1>6. ControllerOK(q, now)
  BY <1>1, <1>4, <1>5 DEF ControllerOK, RatesOK, ProbeOK
<1>7. PacedOK(q)
  BY <1>1, <1>5 DEF PacedOK
<1>8. SameDebt(p, q) /\ (Waits(q) => Waits(p)) /\ (ProbeIsNext(q) <=> ProbeIsNext(p))
  BY <1>5 DEF SameDebt, Waits, ProbeIsNext, IsProbing
<1>9. QED
  BY <1>3, <1>5, <1>6, <1>7, <1>8, SameDebtPaced

LEMMA RemovePaced ==
  ASSUME IInv, PaceInv, ~InLoop, RemovePacketsForSsrc, UNCHANGED level
  PROVE  PaceInv'
<1>1. /\ now \in Nat /\ ControllerOK(p, now) /\ p \in ControllersAt(now) /\ PacedOK(p)
      /\ p.queue \in Seq(SizedPackets) /\ p.queue \in Seq(PacketsAt(now))
  BY PaceParts
<1>2. PICK types : Becomes([p EXCEPT !.queue = Kept(@, types)])
  BY DEF RemovePacketsForSsrc
<1> DEFINE kept == Kept(p.queue, types)
           q == [p EXCEPT !.queue = kept]
<1>3. q = [p EXCEPT !.queue = kept] /\ Becomes(q)
  BY <1>2
<1>4. /\ kept \in Seq(SizedPackets) /\ kept \in Seq(PacketsAt(now))
      /\ p.queue = <<>> => kept = <<>>
  BY <1>1, KeptIs, KeptEmpty
<1> HIDE DEF q, kept
<1>5. ControllerOK(q, now)
  BY <1>1, <1>3, <1>4, QueueOK
<1>6. /\ q.conf = p.conf /\ q.queue = kept /\ q.congested = p.congested
      /\ q.seenFirst = p.seenFirst /\ q.rates = p.rates /\ q.adjusted = p.adjusted
      /\ q.probe = p.probe /\ q.probeFailed = p.probeFailed
      /\ q.mediaDebt = p.mediaDebt /\ q.lastProcess = p.lastProcess
  BY <1>1, <1>3 DEF ControllersAt
<1>7. PacedOK(q)
  BY <1>1, <1>4, <1>6 DEF PacedOK
<1>8. SameDebt(p, q) /\ (Waits(q) => Waits(p)) /\ (ProbeIsNext(q) <=> ProbeIsNext(p))
  BY <1>4, <1>6 DEF SameDebt, Waits, ProbeIsNext, IsProbing
<1>9. QED
  BY <1>3, <1>5, <1>6, <1>7, <1>8, SameDebtPaced

LEMMA CreateClusterPaced ==
  ASSUME IInv, PaceInv, ~InLoop, CreateProbeCluster, UNCHANGED level
  PROVE  PaceInv'
<1>1. /\ now \in Nat /\ ControllerOK(p, now) /\ p \in ControllersAt(now) /\ PacedOK(p)
      /\ p.probe = NoCluster
  BY PaceParts DEF CreateProbeCluster
<1> DEFINE probe == [NoCluster EXCEPT !.left = ProbeSize]
           q == [p EXCEPT !.probe = probe]
<1>2. q = [p EXCEPT !.probe = probe] /\ Becomes(q)
  BY DEF CreateProbeCluster
<1>3. probe \in Probes /\ ~probe.active /\ probe.next = None
  BY Constants DEF NoCluster
<1> HIDE DEF q, probe
<1>4. ControllerOK(q, now)
  BY <1>1, <1>2, <1>3, ProbeChangedOK
<1>5. /\ q.conf = p.conf /\ q.queue = p.queue /\ q.congested = p.congested
      /\ q.seenFirst = p.seenFirst /\ q.rates = p.rates /\ q.adjusted = p.adjusted
      /\ q.probe = probe /\ q.mediaDebt = p.mediaDebt /\ q.lastProcess = p.lastProcess
  BY <1>1, <1>2 DEF ControllersAt
<1>6. ~NoCluster.active /\ NoCluster.next = None
  BY DEF NoCluster
<1>7. PacedOK(q)
  BY <1>1, <1>3, <1>5 DEF PacedOK
<1>8. /\ SameDebt(p, q) /\ (Waits(q) => Waits(p)) /\ (ProbeIsNext(q) <=> ProbeIsNext(p))
      /\ q.probe.next = p.probe.next
  BY <1>1, <1>3, <1>5, <1>6 DEF SameDebt, Waits, ProbeIsNext, IsProbing
<1>9. QED
  BY <1>2, <1>4, <1>7, <1>8, SameDebtPaced

LEMMA SetCongestedPaced ==
  ASSUME IInv, PaceInv, ~InLoop, SetCongested, UNCHANGED level
  PROVE  PaceInv'
<1>1. /\ now \in Nat /\ level \in Int /\ ControllerOK(p, now) /\ p \in ControllersAt(now)
      /\ PacedOK(p) /\ Budgeted(p, level, now) /\ WithinPace(level)
  BY PaceParts
<1> DEFINE r == IF p.congested THEN Drained(p, now) ELSE p
           q == [r EXCEPT !.congested = ~@]
<1>2. now \in 0 .. now + MaxEarlyProbe
  BY <1>1, Constants
<1>3. /\ SameControls(p, r) /\ ControllerOK(r, now) /\ PacedOK(r)
      /\ Budgeted(r, level, now)
      /\ p.congested => Held(r, level, now)
  <2>1. CASE p.congested
    <3>1. /\ SameControls(p, r) /\ DrainedDebt(p, now, r) /\ ControllerOK(r, now)
      BY <1>1, <1>2, <2>1, DrainedIs, DrainedOK
    <3>2. Fits(p, now, level, now)
      BY <1>1, SlackIs, RecentFits
    <3>3. PacedOK(r)
      BY <1>1, <3>1, ControlsPaced
    <3> HIDE DEF r
    <3>4. Held(r, level, now)
      BY <3>1, <3>2, DrainedDebtHeld
    <3>5. QED
      BY <3>1, <3>3, <3>4 DEF Budgeted
  <2>2. CASE ~p.congested
    BY <1>1, <2>2 DEF SameControls
  <2>3. QED
    BY <2>1, <2>2
<1>4. Becomes(q) /\ q = [r EXCEPT !.congested = ~r.congested]
  BY DEF SetCongested
<1> HIDE DEF r, q
<1>5. r \in ControllersAt(now)
  BY <1>3 DEF ControllerOK
<1>6. q \in ControllersAt(now)
  BY <1>4, <1>5 DEF ControllersAt
<1>7. /\ q.conf = r.conf /\ q.queue = r.queue /\ q.congested = ~r.congested
      /\ q.seenFirst = r.seenFirst /\ q.rates = r.rates /\ q.adjusted = r.adjusted
      /\ q.probe = r.probe /\ q.probeFailed = r.probeFailed /\ q.lastSend = r.lastSend
      /\ q.mediaDebt = r.mediaDebt /\ q.lastProcess = r.lastProcess
  BY <1>4, <1>5 DEF ControllersAt
<1>8. ControllerOK(q, now)
  BY <1>3, <1>6, <1>7 DEF ControllerOK, RatesOK, ProbeOK
<1>9. PacedOK(q)
  BY <1>3, <1>7 DEF PacedOK
<1>10. SameDebt(r, q)
  BY <1>7 DEF SameDebt
<1>11. Budgeted(q, level, now)
  BY <1>3, <1>10, SameDebtHeld
<1>12. Waits(q) => Held(q, level, now)
  BY <1>3, <1>7, <1>10, SameDebtHeld DEF Waits, SameControls
<1>13. Promised(q, level, now)
  BY <1>1, <1>8, <1>12, HeldPromised
<1>14. level' = level /\ level <= level
  BY <1>1
<1>15. Budgeted(q, level', now) /\ Promised(q, level', now) /\ level' <= level /\ level' \in Int
  BY <1>1, <1>11, <1>13, <1>14
<1>16. QED
  BY <1>1, <1>4, <1>8, <1>9, <1>15, BecomesPaced

LEMMA EnqueuePaced ==
  ASSUME DebtIsRecent, IInv, PaceInv, loop \in {Idle, Batch}, EnqueuePacket,
         UNCHANGED level
  PROVE  PaceInv'
<1>1. /\ now \in Nat /\ level \in Int /\ ControllerOK(p, now)
      /\ PacedOK(p) /\ Budgeted(p, level, now) /\ WithinPace(level)
  BY PaceParts
<1>2. PICK packet \in MediaPackets : \E q \in Enqueued(p, packet, now) :
        \/ Becomes(q)
        \/ p' = q /\ loop' = Batch /\ UNCHANGED <<now, wake>>
  BY DEF EnqueuePacket
<1>3. PICK q \in Enqueued(p, packet, now) :
        \/ Becomes(q)
        \/ p' = q /\ loop' = Batch /\ UNCHANGED <<now, wake>>
  BY <1>2
<1>4. /\ packet.type \in Types /\ packet.size \in Nat /\ packet.key \in BOOLEAN
      /\ packet.size \in PacketSizes
  BY PacingAssumption DEF Types, PacketSizes
<1>5. p.adjusted > 0
  BY <1>1 DEF EnqueuePacket, PacedOK
<1>6. ~InLoop /\ Promised(p, level, now)
  BY DEF InLoop, Idle, Batch, PaceInv
<1>7. p.queue = <<>> => now <= NextSendTime(p, now) + Slack
  <2> SUFFICES ASSUME p.queue = <<>> PROVE now <= NextSendTime(p, now) + Slack
    OBVIOUS
  <2>1. loop = Idle
    BY DEF PaceInv
  <2>2. now <= wake + Late /\ wake = NextSendTime(p, now)
    BY <2>1 DEF PaceInv, WakesForPackets
  <2>3. wake \in Nat /\ Late \in Nat
    BY PaceParts, Constants
  <2>4. QED
    BY <1>1, <2>2, <2>3, SlackIs
<1>8. ControllerOK(q, now)
  BY <1>1, <1>4, EnqueuedOK
<1>9. PacedOK(q) /\ Budgeted(q, level, now)
  BY <1>1, <1>4, <1>5, EnqueuedHeld
<1>10. Promised(q, level, now)
  BY <1>1, <1>4, <1>5, <1>6, <1>7, <1>8, EnqueuedPromised
<1>11. q.queue # <<>>
  BY <1>1, <1>4, <1>5, EnqueuedIs
<1>12. CASE Becomes(q)
  <2>1. level' = level /\ level <= level
    BY <1>1
  <2>2. Budgeted(q, level', now) /\ Promised(q, level', now) /\ level' <= level /\ level' \in Int
    BY <1>1, <1>9, <1>10, <2>1
  <2>3. QED
    BY <1>1, <1>8, <1>9, <1>12, <2>2, BecomesPaced
<1>13. CASE p' = q /\ loop' = Batch /\ UNCHANGED <<now, wake>>
  <2>1. /\ now' = now /\ level' = level
        /\ ~InLoop' /\ WakesForPackets' /\ DueForPass'
    BY <1>13 DEF InLoop, WakesForPackets, DueForPass, PassDue, Batch, Idle
  <2>2. QED
    BY <1>1, <1>9, <1>10, <1>11, <1>13, <2>1 DEF PaceInv
<1>14. QED
  BY <1>3, <1>12, <1>13

\* What is owed at the new rate is what may have been sent before.
LEMMA SetRatesPaced ==
  ASSUME RatesPositive, IInv, PaceInv, ~InLoop, SetPacerConfig
  PROVE  PaceInv'
<1>1. /\ now \in Nat /\ level \in Int /\ ControllerOK(p, now) /\ p \in ControllersAt(now)
      /\ PacedOK(p) /\ Budgeted(p, level, now) /\ WithinPace(level)
      /\ p.mediaDebt \in Nat /\ p.lastProcess \in Nat
  BY PaceParts
<1>2. PICK rates \in Rates :
        \E q \in RateAdjusted([p EXCEPT !.rates =
                    [rates EXCEPT !.padding = MinOf(@, rates.pacing)]], now) :
            Becomes(q) /\ level' = LevelAfterRates(q)
  BY DEF SetPacerConfig
<1> DEFINE capped == [rates EXCEPT !.padding = MinOf(@, rates.pacing)]
           set == [p EXCEPT !.rates = capped]
<1>3. PICK q \in RateAdjusted(set, now) : Becomes(q) /\ level' = LevelAfterRates(q)
  BY <1>2
<1>4. rates \in [pacing : Nat, padding : Nat, burst : Nat]
  BY PacingAssumption
<1>5. /\ capped \in [pacing : Nat, padding : Nat, burst : Nat]
      /\ capped.pacing = rates.pacing /\ capped.burst = rates.burst
      /\ capped.padding <= capped.pacing
  BY <1>4 DEF MinOf
<1>6. set = [p EXCEPT !.rates = capped]
  OBVIOUS
<1> HIDE DEF capped, set
<1>7. set \in ControllersAt(now)
  BY <1>1, <1>5, <1>6 DEF ControllersAt
<1>8. /\ set.conf = p.conf /\ set.rates = capped /\ set.probe = p.probe
      /\ set.lastSend = p.lastSend /\ set.queue = p.queue
  BY <1>1, <1>6 DEF ControllersAt
<1>9. set.rates.padding <= set.rates.pacing /\ ProbeOK(set)
  BY <1>1, <1>5, <1>8 DEF ControllerOK, ProbeOK
<1>10. ControllerOK(q, now)
  BY <1>1, <1>3, <1>7, <1>9, RateAdjustedOK
<1>11. q = [p EXCEPT !.rates = capped, !.adjusted = rates.pacing]
  <2>1. ~set.conf.drainLargeQueues
    BY <1>1, <1>8 DEF PacedOK
  <2>2. q = [set EXCEPT !.adjusted = set.rates.pacing]
    BY <1>3, <2>1 DEF RateAdjusted
  <2>3. set.rates.pacing = rates.pacing
    BY <1>5, <1>8
  <2>4. QED
    BY <1>1, <1>6, <2>2, <2>3 DEF ControllersAt
<1>12. /\ q.conf = p.conf /\ q.rates = capped /\ q.adjusted = rates.pacing
       /\ q.queue = p.queue /\ q.congested = p.congested /\ q.seenFirst = p.seenFirst
       /\ q.probe = p.probe /\ q.mediaDebt = p.mediaDebt /\ q.lastProcess = p.lastProcess
  BY <1>1, <1>11 DEF ControllersAt
<1>13. PacedOK(q)
  <2>1. rates.pacing > 0
    BY DEF RatesPositive
  <2>2. q.rates.pacing = q.adjusted /\ q.rates.burst = rates.burst
    BY <1>5, <1>12
  <2>3. QED
    BY <1>1, <1>12, <2>1, <2>2 DEF PacedOK
<1> DEFINE limited == MinOf(q.mediaDebt, q.adjusted * MaxDebtInTime)
           since == q.adjusted * (now - q.lastProcess)
           owed == limited - since
           room == Room(q.adjusted, q.mediaDebt, q.lastProcess, now)
<1>14. /\ limited \in Nat /\ since \in Int
       /\ q.adjusted \in Nat /\ q.mediaDebt \in Nat /\ q.lastProcess \in Nat
  <2>1. q.adjusted \in Nat /\ q.mediaDebt \in Nat /\ q.lastProcess \in Nat
    BY <1>10, <1>1, Numbers
  <2>2. q.adjusted * MaxDebtInTime \in Nat
    BY <2>1, Constants
  <2>3. limited \in Nat
    BY <2>1, <2>2, MinMaxNat
  <2>4. now - q.lastProcess \in Int
    BY <1>1, <2>1
  <2>5. QED
    BY <2>1, <2>3, <2>4, Products
<1>15. owed <= room /\ room \in Int
  <2>1. room = limited + q.adjusted * (q.lastProcess + Slack - now)
    BY DEF Room
  <2>2. q.adjusted * (q.lastProcess + Slack - now) >= 0 - since
    <3> DEFINE x == now - q.lastProcess
               y == q.lastProcess + Slack - now
    <3>1. x \in Int /\ y \in Int /\ 0 - x <= y
      BY <1>1, <1>14, SlackIs
    <3> HIDE DEF x, y
    <3>2. /\ q.adjusted * (0 - x) <= q.adjusted * y
          /\ q.adjusted * (0 - x) = q.adjusted * 0 - q.adjusted * x
          /\ q.adjusted * 0 = 0 /\ q.adjusted * x \in Int /\ q.adjusted * y \in Int
      BY <1>14, <3>1, Products
    <3>3. q.adjusted * y >= 0 - q.adjusted * x
      BY <3>2
    <3>4. QED
      BY <3>3 DEF x, y
  <2>3. room \in Int
    BY <1>1, <1>14, RoomIs
  <2> DEFINE kept == q.adjusted * (q.lastProcess + Slack - now)
  <2>4. kept \in Int
    <3>1. q.lastProcess + Slack - now \in Int
      BY <1>1, <1>14, SlackIs
    <3>2. QED
      BY <1>14, <3>1, Products
  <2>5. room = limited + kept /\ kept >= 0 - since
    BY <2>1, <2>2
  <2> HIDE DEF limited, since, room, kept
  <2>6. QED
    BY <1>14, <2>3, <2>4, <2>5
<1>16. level' = MinOf(level, IF q.queue = <<>> \/ q.congested THEN MaxOf(0, owed) ELSE owed)
  BY <1>3 DEF LevelAfterRates
<1>17. owed \in Int
  <2> HIDE DEF limited, since
  <2>1. QED
    BY <1>14
<1>18. Held(q, owed, now)
  BY <1>15 DEF Held
<1> HIDE DEF owed, room
<1>19. /\ level' \in Int /\ level' <= level
       /\ level' <= 0 \/ level' <= owed
       /\ Waits(q) => level' <= owed
  BY <1>1, <1>16, <1>17 DEF MinOf, MaxOf, Waits
<1>20. level' <= owed => Held(q, level', now)
  <2>1. owed <= room
    BY <1>15 DEF owed
  <2>2. level' <= owed => level' <= room
    BY <1>15, <1>17, <1>19, <2>1
  <2>3. QED
    BY <2>2 DEF Held, room
<1>21. Budgeted(q, level', now)
  BY <1>19, <1>20 DEF Budgeted
<1>22. Promised(q, level', now)
  BY <1>1, <1>10, <1>19, <1>20, HeldPromised
<1>23. QED
  BY <1>1, <1>3, <1>10, <1>13, <1>19, <1>21, <1>22, BecomesPaced

LEMMA ApplicationPaced ==
  ASSUME DebtIsRecent, RatesPositive, IInv, PaceInv, Application
  PROVE  PaceInv'
<1>1. \/ loop = Idle /\ SetPacerConfig
      \/ loop = Idle /\ (Pause \/ Resume) /\ UNCHANGED level
      \/ loop = Idle /\ SetCongested /\ UNCHANGED level
      \/ loop = Idle /\ RemovePacketsForSsrc /\ UNCHANGED level
      \/ loop = Idle /\ CreateProbeCluster /\ UNCHANGED level
      \/ loop \in {Idle, Batch} /\ EnqueuePacket /\ UNCHANGED level
  BY DEF Application
<1>2. loop = Idle => ~InLoop
  BY DEF InLoop, Idle
<1>3. QED
  BY <1>1, <1>2, SetRatesPaced, PausePaced, SetCongestedPaced, RemovePaced, CreateClusterPaced,
     EnqueuePaced

-------------------------------------------------------------------------------
(* ProcessPackets keeps the pace *)

LEMMA SendNothingPaced ==
  ASSUME IInv, PaceInv, loop \in {Idle, Due}, SendNothing
  PROVE  PaceInv'
<1>1. /\ now \in Nat /\ level \in Int /\ ControllerOK(p, now)
      /\ PacedOK(p) /\ Budgeted(p, level, now) /\ WithinPace(level)
  BY PaceParts
<1>2. Promised(p, level, now)
  BY DEF PaceInv, InLoop, Idle, Due
<1>3. PICK q \in Keepalives(p) : Becomes(IF q.paused THEN q ELSE Drained(q, now))
  BY DEF SendNothing
<1>4. ControllerOK(q, now) /\ PacedOK(q) /\ Budgeted(q, level, now) /\ Promised(q, level, now)
  BY <1>1, <1>2, KeepalivesOK, KeepalivesPaced
<1>5. level' = level /\ level' <= level /\ level' \in Int
  BY <1>1 DEF SendNothing
<1>6. CASE q.paused
  <2>1. Becomes(q) /\ Budgeted(q, level', now) /\ Promised(q, level', now)
    BY <1>3, <1>4, <1>5, <1>6
  <2>2. QED
    BY <1>1, <1>4, <1>5, <2>1, BecomesPaced
<1>7. CASE ~q.paused
  <2> DEFINE r == Drained(q, now)
  <2>1. now \in 0 .. now + MaxEarlyProbe
    BY <1>1, Constants
  <2>2. ControllerOK(r, now) /\ SameControls(q, r) /\ DrainedDebt(q, now, r)
    BY <1>1, <1>4, <2>1, DrainedOK, DrainedIs
  <2>3. Becomes(r)
    BY <1>3, <1>7
  <2> HIDE DEF r
  <2>4. PacedOK(r)
    BY <1>1, <1>4, <2>2, ControlsPaced
  <2>5. Fits(q, now, level, now)
    BY <1>1, <1>4, SlackIs, RecentFits
  <2>6. Held(r, level, now)
    BY <2>2, <2>5, DrainedDebtHeld
  <2>7. Budgeted(r, level', now) /\ Promised(r, level', now)
    BY <1>1, <1>5, <2>2, <2>6, HeldPromised DEF Budgeted
  <2>8. QED
    BY <1>1, <1>5, <2>2, <2>3, <2>4, <2>7, BecomesPaced
<1>8. QED
  BY <1>6, <1>7

LEMMA StartSendingPaced ==
  ASSUME DebtIsRecent, IInv, PaceInv, loop \in {Idle, Due}, StartSending
  PROVE  PaceInv'
<1>1. /\ now \in Nat /\ level \in Int /\ ControllerOK(p, now)
      /\ PacedOK(p) /\ Budgeted(p, level, now) /\ WithinPace(level)
  BY PaceParts
<1>2. Promised(p, level, now)
  BY DEF PaceInv, InLoop, Idle, Due
<1> DEFINE TooLate(q) == IsProbing(q) /\ TimedOut(q.probe, now)
           Probing(q) == IsProbing(q) /\ ~TooLate(q)
<1>3. PICK q \in Keepalives(p) :
        /\ ~q.paused /\ ~TooEarly(q)
        /\ p' = [Drained(q, NextSendTime(q, now)) EXCEPT
                   !.probe = IF TooLate(q) THEN NoCluster ELSE @]
        /\ loop' = [at |-> "pass", target |-> NextSendTime(q, now), sent |-> 0, passes |-> 0,
                    probing |-> Probing(q),
                    recommended |-> IF Probing(q) THEN RecommendedProbeSize ELSE 0,
                    firstProbe |-> Probing(q) /\ q.probe.left = ProbeSize,
                    timedOut |-> TooLate(q)]
  BY DEF StartSending
<1> DEFINE target == NextSendTime(q, now)
           r == Drained(q, target)
           probe == IF TooLate(q) THEN NoCluster ELSE r.probe
<1>4. /\ ControllerOK(q, now) /\ PacedOK(q) /\ Budgeted(q, level, now) /\ Promised(q, level, now)
      /\ Quiet(q) => now < q.lastSend + CongestedInterval
  BY <1>1, <1>2, KeepalivesOK, KeepalivesPaced
<1>5. target \in Nat /\ MaxEarlyProbe \in Nat
  BY <1>1, <1>4, SendTime, Constants
<1>6. target <= now + MaxEarlyProbe /\ (~IsProbing(q) => target <= now)
  <2>1. ~ (now + Margin(q) < target)
    BY <1>3 DEF TooEarly
  <2>2. Margin(q) = IF IsProbing(q) THEN MaxEarlyProbe ELSE 0
    BY DEF Margin
  <2> HIDE DEF target
  <2>3. QED
    BY <1>1, <1>5, <2>1, <2>2
<1>7. p' = [r EXCEPT !.probe = probe]
  BY <1>3
<1>8. /\ loop'.at = "pass" /\ loop'.probing = Probing(q) /\ loop'.timedOut = TooLate(q)
      /\ (~loop'.probing => loop'.recommended = 0) /\ (loop'.firstProbe => loop'.probing)
      /\ now' = now /\ level' = level /\ loop' # Idle /\ loop' # Batch
  BY <1>3 DEF StartSending, Idle, Batch
<1>9. SameControls(q, r) /\ DrainedDebt(q, target, r)
  BY <1>1, <1>4, DrainedIs
<1>10. ControllerOK(r, now)
  <2>1. target \in 0 .. now + MaxEarlyProbe
    <3> HIDE DEF target
    <3>1. QED
      BY <1>1, <1>5, <1>6
  <2>2. QED
    BY <1>1, <1>4, <2>1, DrainedOK
<1> HIDE DEF r, target
<1>11. PacedOK(r)
  BY <1>1, <1>4, <1>5, <1>9, ControlsPaced
<1>12. Budgeted(r, level, now)
  BY <1>1, <1>4, <1>5, <1>9, DrainedDebtBudgeted
<1>13. Waits(r) => Held(r, level, now)
  <2> SUFFICES ASSUME Waits(r) PROVE Held(r, level, now)
    OBVIOUS
  <2>1. Waits(q)
    BY <1>9 DEF Waits, SameControls
  <2>2. Fits(q, target, level, now)
    <3>1. CASE ProbeIsNext(q) /\ q.probe.next # None
      <4>1. target = q.probe.next
        BY <1>3, <3>1 DEF NextSendTime, target
      <4>2. QED
        BY <1>4, <2>1, <3>1, <4>1 DEF Promised
    <3>2. CASE ProbeIsNext(q) /\ q.probe.next = None
      <4>1. target = now
        BY <1>3, <3>2 DEF NextSendTime, target
      <4>2. QED
        BY <1>1, <1>4, <4>1, SlackIs, RecentFits
    <3>3. CASE ~ProbeIsNext(q)
      <4>1. Held(q, level, now)
        BY <1>4, <2>1, <3>3 DEF Promised
      <4>2. QED
        BY <1>1, <1>4, <1>5, <4>1, HeldFits
    <3>4. QED
      BY <3>1, <3>2, <3>3
  <2>3. QED
    BY <1>9, <2>2, DrainedDebtHeld
<1>14. r \in ControllersAt(now)
  BY <1>10 DEF ControllerOK
<1>15. r.probe = q.probe /\ q.probe \in Probes
  BY <1>1, <1>4, <1>9, Fields DEF SameControls
<1> HIDE DEF probe
<1>16. /\ p'.conf = r.conf /\ p'.queue = r.queue /\ p'.congested = r.congested
       /\ p'.seenFirst = r.seenFirst /\ p'.rates = r.rates /\ p'.adjusted = r.adjusted
       /\ p'.probe = probe /\ p'.probeFailed = r.probeFailed
       /\ p'.mediaDebt = r.mediaDebt /\ p'.lastProcess = r.lastProcess
  BY <1>7, <1>14 DEF ControllersAt
<1>17. /\ probe.active => r.probe.active
       /\ probe.active \/ probe.next = None
       /\ Probing(q) => probe = q.probe /\ probe.active
  <2>1. r.probe.active \/ r.probe.next = None
    BY <1>11 DEF PacedOK
  <2>2. ~NoCluster.active /\ NoCluster.next = None
    BY DEF NoCluster
  <2>3. Probing(q) => ~TooLate(q) /\ q.probe.active
    BY DEF IsProbing
  <2>4. probe = IF TooLate(q) THEN NoCluster ELSE r.probe
    BY DEF probe
  <2> HIDE DEF TooLate, Probing
  <2>5. QED
    BY <1>15, <2>1, <2>2, <2>3, <2>4
<1>18. PacedOK(p')
  BY <1>11, <1>16, <1>17 DEF PacedOK
<1>19. SameDebt(r, p')
  BY <1>16 DEF SameDebt
<1>20. /\ Budgeted(p', level, now)
       /\ Waits(p') => Held(p', level, now)
  BY <1>12, <1>13, <1>16, <1>19, SameDebtHeld DEF Waits
<1>21. DueForPass'
  <2> SUFFICES ASSUME ~loop'.probing, ~loop'.timedOut, ~p'.congested, Unpaced(p') = {},
                      p'.queue = <<>> => p'.rates.padding > 0
               PROVE  /\ p'.lastProcess <= now
                      /\ \/ p'.mediaDebt < p'.adjusted * MaxOf(p'.rates.burst, 1)
                         \/ Spare(p', level, now)
    BY <1>8 DEF DueForPass, PassDue
  <2>1. ~IsProbing(q)
    BY <1>8
  <2>2. target <= now /\ ~ProbeIsNext(q)
    BY <1>6, <2>1 DEF ProbeIsNext
  <2>3. ~q.congested /\ Unpaced(q) = {} /\ (q.queue # <<>> \/ q.rates.padding > 0)
    BY <1>9, <1>16 DEF SameControls, Unpaced
  <2>4. NextSendTime(q, now) <= now /\ DrainedDebt(q, NextSendTime(q, now), r)
    BY <1>9, <2>2 DEF target
  <2>5. r.queue = q.queue /\ (Waits(q) => Held(q, level, now))
    BY <1>4, <1>9, <2>2 DEF SameControls, Promised
  <2>6. /\ r.lastProcess <= now
        /\ r.mediaDebt < q.adjusted * MaxOf(q.rates.burst, 1) \/ Spare(r, level, now)
    BY <1>1, <1>4, <2>2, <2>3, <2>4, <2>5, PacedDue
  <2>7. Spare(r, level, now) => Spare(p', level, now)
    BY <1>16 DEF Spare, Ahead
  <2>8. QED
    BY <1>9, <1>16, <2>6, <2>7 DEF SameControls
<1>22. /\ InLoop' /\ (loop'.probing => p'.probe.active) /\ WakesForPackets'
  BY <1>8, <1>16, <1>17 DEF InLoop, WakesForPackets
<1>23. QED
  BY <1>1, <1>8, <1>18, <1>20, <1>21, <1>22 DEF PaceInv

\* What a packet that is sent leaves in the bucket, with the FEC packet it may bring.
LEMMA SentLevel ==
  ASSUME DebtIsRecent, now \in Nat, NEW q, ControllerOK(q, now), PacedOK(q), q.adjusted > 0,
         NEW packet, packet.size \in Nat, Sent(q, packet), now' = now,
         NEW l \in Int, NEW m \in Int,
         loop.probing \/ q.congested \/ Held(q, l, now),
         \/ m = l
         \/ /\ m = l + packet.size /\ packet.type # "audio" /\ Held(q, l, now)
            /\ \/ q.mediaDebt + packet.size <= q.adjusted * MaxDebtInTime
               \/ Ahead(q, l, now) /\ packet.size <= q.adjusted * MaxDebtInTime
  PROVE  /\ PacedOK(p') /\ p'.congested = q.congested
         /\ Held(q, l, now) => Held(p', m, now)
         /\ m = l /\ Budgeted(q, l, now) => Budgeted(p', l, now)
         /\ packet.type # "video" => p'.queue = q.queue
         /\ q.probe.active => p'.probe.active
         /\ PassDue(p', loop', m, now)
<1> DEFINE S(r) == OnPacketSent(r, packet.type, packet.size, now)
           sent == loop.sent + packet.size
           Upto(r) == MinOf(NextSendTime(S(r), now), now)
           Leaves(r) == \/ loop.probing /\ sent >= loop.recommended
                        \/ ~loop.probing /\ NextSendTime(S(r), now) > now
<1>1. PICK r \in FecEnqueued(q, packet) :
        /\ p' = IF Leaves(r) THEN S(r) ELSE Drained(S(r), Upto(r))
        /\ loop' = [loop EXCEPT !.sent = sent, !.firstProbe = FALSE, !.timedOut = FALSE,
                                !.at = IF Leaves(r) THEN "end" ELSE "pass",
                                !.passes = @ + 1, !.target = Upto(r)]
  BY DEF Sent
<1>2. /\ ControllerOK(r, now) /\ PacedOK(r)
      /\ Held(q, l, now) => Held(r, l, now)
      /\ Budgeted(q, l, now) => Budgeted(r, l, now)
      /\ Ahead(q, l, now) => Ahead(r, l, now)
      /\ r.mediaDebt <= q.mediaDebt /\ r.adjusted = q.adjusted /\ r.congested = q.congested
      /\ packet.type # "video" => r.queue = q.queue
      /\ q.probe.active => r.probe.active
  <2>1. CASE r = q
    <3>1. q.mediaDebt <= q.mediaDebt
      BY Numbers
    <3>2. QED
      BY <2>1, <3>1
  <2>2. CASE packet.type = "video" /\ \E fec : /\ fec = [type |-> "fec", size |-> 1, key |-> FALSE]
                                               /\ r \in Enqueued(q, fec, now)
    <3>1. PICK fec : fec = [type |-> "fec", size |-> 1, key |-> FALSE] /\ r \in Enqueued(q, fec, now)
      BY <2>2
    <3>2. /\ fec.type \in Types /\ fec.size \in Nat /\ fec.key \in BOOLEAN
          /\ fec.size \in PacketSizes
      BY <3>1 DEF Types, PacketSizes
    <3>3. ControllerOK(r, now)
      BY <3>1, <3>2, EnqueuedOK
    <3>4. /\ PacedOK(r) /\ r.mediaDebt <= q.mediaDebt
          /\ Held(q, l, now) => Held(r, l, now)
          /\ Budgeted(q, l, now) => Budgeted(r, l, now)
          /\ Ahead(q, l, now) => Ahead(r, l, now)
      BY <3>1, <3>2, EnqueuedHeld
    <3>5. SameSettings(q, r) /\ r.probe = Incoming(q.probe)
      <4>1. r \in Enqueued(q, fec, now)
        BY <3>1
      <4>2. QED
        BY <3>2, <4>1, EnqueuedKeeps
    <3>6. q.probe.active => r.probe.active
      <4>1. q.probe \in Probes
        BY Fields
      <4>2. QED
        BY <3>5, <4>1 DEF Incoming
    <3>7. QED
      BY <2>2, <3>3, <3>4, <3>5, <3>6 DEF SameSettings
  <2>3. QED
    BY <2>1, <2>2 DEF FecEnqueued
<1> DEFINE s == S(r)
           time == NextSendTime(s, now)
           target == Upto(r)
           leave == Leaves(r)
<1>3. /\ ControllerOK(s, now) /\ PacedOK(s) /\ SameControls(r, s) /\ s.lastSend = now
      /\ IF packet.type # "audio" /\ packet.size > 0 THEN OwedDebt(r, packet.size, s)
         ELSE SameDebt(r, s)
  BY <1>2, OnPacketSentOK, SentPaced, SentIs
<1>4. p' = IF leave THEN s ELSE Drained(s, target)
  BY <1>1
<1>5. /\ loop'.at = "pass" /\ ~loop'.probing => ~leave /\ ~loop.probing
  BY <1>1
<1>6. leave = (\/ loop.probing /\ sent >= loop.recommended
               \/ ~loop.probing /\ time > now)
      /\ target = MinOf(time, now)
  OBVIOUS
<1> HIDE DEF s
<1>7. time \in Nat /\ target \in Nat
  <2>1. time \in Nat
    BY <1>3, SendTime
  <2> HIDE DEF time, target
  <2>2. target \in Nat
    BY <1>6, <2>1, MinMaxNat
  <2>3. QED
    BY <2>1, <2>2
<1> HIDE DEF time, target, leave, S, sent, Upto, Leaves
<1>8. /\ Held(q, l, now) => Held(s, m, now)
      /\ m = l /\ Budgeted(q, l, now) => Budgeted(s, l, now)
  <2>1. CASE packet.type # "audio" /\ packet.size > 0
    <3>1. OwedDebt(r, packet.size, s)
      BY <1>3, <2>1
    <3>2. /\ Held(r, l, now) => Held(s, l, now)
          /\ Budgeted(r, l, now) => Budgeted(s, l, now)
          /\ Held(r, l, now) /\ r.mediaDebt + packet.size <= r.adjusted * MaxDebtInTime
               => Held(s, l + packet.size, now)
          /\ Ahead(r, l, now) /\ packet.size <= r.adjusted * MaxDebtInTime
               => Held(s, l + packet.size, now)
      BY <1>2, <3>1, OwedDebtHeld
    <3>3. q.mediaDebt + packet.size <= q.adjusted * MaxDebtInTime
            => r.mediaDebt + packet.size <= r.adjusted * MaxDebtInTime
      <4> DEFINE limit == q.adjusted * MaxDebtInTime
      <4>1. limit \in Nat /\ q.mediaDebt \in Nat /\ r.mediaDebt \in Nat
            /\ r.adjusted * MaxDebtInTime = limit
        <5>1. q.adjusted \in Nat /\ q.mediaDebt \in Nat /\ r.mediaDebt \in Nat
          BY <1>2, Numbers
        <5>2. limit \in Nat
          BY <5>1, Constants, ProductNat
        <5>3. QED
          BY <1>2, <5>1, <5>2
      <4> HIDE DEF limit
      <4>2. q.mediaDebt + packet.size <= limit => r.mediaDebt + packet.size <= limit
        BY <1>2, <4>1
      <4>3. QED
        BY <4>1, <4>2 DEF limit
    <3>4. QED
      BY <1>2, <3>2, <3>3
  <2>2. CASE ~ (packet.type # "audio" /\ packet.size > 0)
    <3>1. SameDebt(r, s)
      BY <1>3, <2>2
    <3>2. m = l
      BY <2>2
    <3>3. QED
      BY <1>2, <3>1, <3>2, SameDebtHeld
  <2>3. QED
    BY <2>1, <2>2
<1>9. CASE leave
  <2>1. p' = s
    BY <1>4, <1>9
  <2>2. PassDue(p', loop', m, now)
    BY <1>5, <1>9 DEF PassDue
  <2>3. QED
    BY <1>2, <1>3, <1>8, <2>1, <2>2 DEF SameControls
<1>10. CASE ~leave
  <2>1. p' = Drained(s, target)
    BY <1>4, <1>10
  <2>2. SameControls(s, p') /\ DrainedDebt(s, target, p')
    BY <1>3, <2>1, DrainedIs
  <2>3. PacedOK(p')
    BY <1>3, <1>7, <2>2, ControlsPaced
  <2>4. Held(s, m, now) => Held(p', m, now)
    BY <1>3, <1>7, <2>2, HeldFits, DrainedDebtHeld
  <2>5. Budgeted(s, l, now) => Budgeted(p', l, now)
    BY <1>3, <1>7, <2>2, DrainedDebtBudgeted
  <2>6. PassDue(p', loop', m, now)
    <3> SUFFICES ASSUME loop'.at = "pass", ~loop'.probing, ~p'.congested, ~ProbeIsNext(p'),
                        Unpaced(p') = {}, p'.queue = <<>> => p'.rates.padding > 0
                 PROVE  /\ p'.lastProcess <= now
                        /\ \/ p'.mediaDebt < p'.adjusted * MaxOf(p'.rates.burst, 1)
                           \/ Spare(p', m, now)
      BY DEF PassDue
    <3>1. time <= now /\ target = time
      <4>1. ~ (time > now)
        BY <1>5, <1>6, <1>10
      <4>2. QED
        BY <1>6, <1>7, <4>1 DEF MinOf
    <3>2. /\ ~s.congested /\ ~ProbeIsNext(s) /\ Unpaced(s) = {}
          /\ s.queue # <<>> \/ s.rates.padding > 0
      BY <2>2 DEF SameControls, ProbeIsNext, IsProbing, Unpaced
    <3>3. now < s.lastSend + CongestedInterval
      BY <1>3, Constants
    <3>4. NextSendTime(s, now) <= now /\ DrainedDebt(s, NextSendTime(s, now), p')
      BY <2>2, <3>1 DEF time
    <3>5. Held(s, m, now) /\ p'.queue = s.queue
      BY <1>2, <1>3, <1>5, <1>8, <2>2, <3>2 DEF SameControls
    <3>6. /\ p'.lastProcess <= now
          /\ p'.mediaDebt < s.adjusted * MaxOf(s.rates.burst, 1) \/ Spare(p', m, now)
      BY <1>3, <3>2, <3>3, <3>4, <3>5, PacedDue DEF Budgeted
    <3>7. QED
      BY <2>2, <3>6 DEF SameControls
  <2>7. QED
    BY <1>2, <1>3, <1>8, <2>2, <2>3, <2>4, <2>5, <2>6 DEF SameControls
<1>11. QED
  BY <1>9, <1>10

\* The loop goes on, or ends, with the same probe.
LEMMA SentLoop ==
  ASSUME loop \in LoopType, loop.at = "pass", NEW q, NEW packet, packet.size \in Nat,
         Sent(q, packet)
  PROVE  /\ loop'.at \in {"pass", "end"} /\ loop' # Idle /\ loop' # Batch
         /\ loop'.probing = loop.probing /\ loop'.recommended = loop.recommended
         /\ ~loop'.firstProbe
<1> DEFINE S(r) == OnPacketSent(r, packet.type, packet.size, now)
           sent == loop.sent + packet.size
           Upto(r) == MinOf(NextSendTime(S(r), now), now)
           Leaves(r) == \/ loop.probing /\ sent >= loop.recommended
                        \/ ~loop.probing /\ NextSendTime(S(r), now) > now
<1>1. loop \in Loops
  BY Looping
<1>2. PICK r : loop' = [loop EXCEPT !.sent = sent, !.firstProbe = FALSE, !.timedOut = FALSE,
                                !.at = IF Leaves(r) THEN "end" ELSE "pass",
                                !.passes = @ + 1, !.target = Upto(r)]
  BY DEF Sent
<1> DEFINE at == IF Leaves(r) THEN "end" ELSE "pass"
           passes == loop.passes + 1
           target == Upto(r)
<1>3. loop' = [loop EXCEPT !.sent = sent, !.firstProbe = FALSE, !.timedOut = FALSE,
                           !.at = at, !.passes = passes, !.target = target]
  BY <1>2
<1>4. at \in {"pass", "end"}
  OBVIOUS
<1> HIDE DEF sent, at, passes, target, S, Upto, Leaves
<1>5. /\ loop'.at = at /\ loop'.probing = loop.probing
      /\ loop'.recommended = loop.recommended /\ loop'.firstProbe = FALSE
  BY <1>1, <1>3 DEF Loops
<1>6. QED
  BY <1>4, <1>5 DEF Idle, Batch

LEMMA SendProbePaddingPaced ==
  ASSUME DebtIsRecent, IInv, PaceInv, SendProbePadding
  PROVE  PaceInv'
<1>1. /\ now \in Nat /\ level \in Int /\ ControllerOK(p, now) /\ loop \in LoopType
      /\ PacedOK(p) /\ Budgeted(p, level, now) /\ WithinPace(level)
  BY PaceParts
<1>2. loop.at = "pass" /\ InLoop /\ loop.firstProbe /\ now' = now /\ level' = level
  BY DEF SendProbePadding, CanPass, InLoop
<1>3. /\ Waits(p) => Held(p, level, now)
      /\ p.probe.active /\ loop.probing
  BY <1>2 DEF PaceInv
<1>4. PICK size \in PaddingSizes : Sent(p, [type |-> "padding", size |-> size])
  BY DEF SendProbePadding
<1> DEFINE packet == [type |-> "padding", size |-> size]
<1>5. packet.size \in Nat /\ packet.type # "video" /\ Sent(p, packet)
  BY <1>4, PacingAssumption
<1> HIDE DEF packet
<1>6. p.adjusted > 0
  BY <1>1, <1>3 DEF PacedOK
<1>7. /\ PacedOK(p') /\ p'.congested = p.congested /\ p'.queue = p.queue
      /\ Held(p, level, now) => Held(p', level, now)
      /\ Budgeted(p', level, now) /\ p'.probe.active
  BY <1>1, <1>2, <1>3, <1>5, <1>6, SentLevel
<1>8. /\ loop'.at \in {"pass", "end"} /\ loop' # Idle /\ loop' # Batch
      /\ loop'.probing = loop.probing /\ ~loop'.firstProbe
  BY <1>1, <1>2, <1>5, SentLoop
<1>9. InLoop' /\ WakesForPackets' /\ DueForPass'
  BY <1>3, <1>8 DEF InLoop, WakesForPackets, DueForPass, PassDue
<1>10. Waits(p') => Held(p', level, now)
  BY <1>3, <1>7 DEF Waits
<1>11. QED
  BY <1>1, <1>2, <1>3, <1>7, <1>8, <1>9, <1>10 DEF PaceInv

\* There is room for a packet that is paced.
LEMMA RoomForPaced ==
  ASSUME BurstsFit, IInv, PaceInv, loop.at = "pass", ~HeldBack(p, loop, now),
         NEW packet, packet.size \in PacketSizes, packet.size \in Nat, Paced(packet)
  PROVE  /\ Held(p, level, now)
         /\ \/ p.mediaDebt + packet.size <= p.adjusted * MaxDebtInTime
            \/ Ahead(p, level, now) /\ packet.size <= p.adjusted * MaxDebtInTime
         /\ WithinPace(level + packet.size)
<1>1. /\ now \in Nat /\ level \in Int /\ PacedOK(p) /\ p.adjusted \in Nat
      /\ p.mediaDebt \in Nat /\ p.lastProcess \in Nat /\ p.rates.burst \in Nat
  BY PaceParts, Fields
<1>2. Unpaced(p) = {} /\ ~loop.probing /\ ~loop.timedOut /\ ~ProbeIsNext(p)
  BY DEF Paced
<1>3. p.queue # <<>> /\ ~p.congested
  BY <1>2 DEF HeldBack
<1>4. Held(p, level, now)
  BY <1>3 DEF PaceInv, InLoop, Waits
<1>5. /\ p.lastProcess <= now
      /\ p.mediaDebt < p.adjusted * MaxOf(p.rates.burst, 1) \/ Ahead(p, level, now)
  BY <1>2, <1>3 DEF PaceInv, DueForPass, PassDue, Spare
<1>6. PICK rates \in Rates : rates.pacing = p.adjusted /\ rates.burst = p.rates.burst
  BY <1>1, <1>3 DEF PacedOK
<1> DEFINE most == MaxOf(p.rates.burst, 1)
           burst == p.adjusted * most
           limit == p.adjusted * MaxDebtInTime
           spare == p.adjusted * Slack
           late == p.adjusted * (p.lastProcess + Slack - now)
<1>7. burst - 1 + packet.size <= limit
  BY <1>6 DEF BurstsFit
<1>8. most \in Nat /\ 1 <= most /\ Slack \in Nat
  BY <1>1, SlackIs DEF MaxOf
<1>9. /\ burst \in Int /\ 1 <= burst
      /\ limit \in Nat /\ spare \in Int /\ late \in Int /\ late <= spare
      /\ p.adjusted * (most + Slack) = burst + spare
  <2>1. p.lastProcess + Slack - now \in Int /\ p.lastProcess + Slack - now <= Slack
    BY <1>1, <1>5, <1>8
  <2>2. limit \in Nat
    BY <1>1, RoomIs
  <2>3. p.adjusted >= 1
    BY <1>1, <1>3 DEF PacedOK
  <2> HIDE DEF most
  <2>4. p.adjusted * 1 <= burst /\ p.adjusted * 1 = p.adjusted /\ burst \in Int
    BY <1>1, <1>8, Products
  <2>5. spare \in Int /\ late \in Int /\ late <= spare
    BY <1>1, <1>8, <2>1, Products
  <2>6. p.adjusted * (most + Slack) = burst + spare
    BY <1>1, <1>8, Products
  <2> HIDE DEF burst, limit, spare, late
  <2>7. QED
    BY <1>1, <2>2, <2>3, <2>4, <2>5, <2>6
<1>10. /\ Room(p.adjusted, p.mediaDebt, p.lastProcess, now) = MinOf(p.mediaDebt, limit) + late
       /\ Room(p.adjusted, 0, p.lastProcess, now) = MinOf(0, limit) + late
  BY DEF Room
<1>11. level <= MinOf(p.mediaDebt, limit) + late
  BY <1>4, <1>10 DEF Held
<1>12. p.mediaDebt < burst \/ level <= MinOf(0, limit) + late
  BY <1>5, <1>10 DEF Ahead
<1>13. p.adjusted * (most + Slack) = rates.pacing * (MaxOf(rates.burst, 1) + Slack)
  BY <1>6
<1>14. level + packet.size <= p.adjusted * (most + Slack) - 1 + packet.size
  <2> HIDE DEF most, burst, limit, spare, late
  <2>1. level <= burst - 1 + late
    BY <1>1, <1>9, <1>11, <1>12 DEF MinOf
  <2>2. QED
    BY <1>1, <1>9, <2>1
<1>15. WithinPace(level + packet.size)
  BY <1>6, <1>13, <1>14 DEF WithinPace
<1>16. \/ p.mediaDebt + packet.size <= limit
       \/ Ahead(p, level, now) /\ packet.size <= limit
  <2>1. p.mediaDebt < burst \/ Ahead(p, level, now)
    BY <1>5
  <2> HIDE DEF burst, limit
  <2>2. QED
    BY <1>1, <1>7, <1>9, <2>1
<1>17. QED
  BY <1>4, <1>15, <1>16

LEMMA SendQueuedPaced ==
  ASSUME BurstsFit, DebtIsRecent, IInv, PaceInv, SendQueued
  PROVE  PaceInv'
<1>1. /\ now \in Nat /\ level \in Int /\ ControllerOK(p, now) /\ loop \in LoopType
      /\ p \in ControllersAt(now) /\ p.queue \in Seq(PacketsAt(now))
      /\ p.queue \in Seq(SizedPackets)
      /\ PacedOK(p) /\ Budgeted(p, level, now) /\ WithinPace(level)
  BY PaceParts
<1>2. loop.at = "pass" /\ InLoop /\ ~HeldBack(p, loop, now) /\ now' = now
  BY DEF SendQueued, CanPass, InLoop
<1>3. /\ Waits(p) => Held(p, level, now)
      /\ loop.probing => p.probe.active
      /\ ~loop.probing => loop.recommended = 0
  BY <1>2 DEF PaceInv
<1>4. PICK i \in Heads(p.queue) :
        /\ Sent([p EXCEPT !.queue = RemoveAt(@, i)], p.queue[i])
        /\ level' = LevelAfterSending(p.queue[i], p'.queue = <<>>)
  BY DEF SendQueued
<1> DEFINE packet == p.queue[i]
           kept == RemoveAt(p.queue, i)
           q == [p EXCEPT !.queue = kept]
           m == IF Paced(packet) THEN level + packet.size ELSE level
<1>5. i \in 1 .. Len(p.queue) /\ p.queue # <<>>
  <2>1. i \in DOMAIN p.queue
    BY DEF Heads
  <2>2. QED
    BY <1>1, <2>1, LenProperties
<1>6. packet.size \in PacketSizes /\ packet.size \in Nat
  <2>1. packet \in SizedPackets
    BY <1>1, <1>5, ElementOfSeq
  <2> HIDE DEF packet
  <2>2. QED
    BY <2>1, SizesNat DEF SizedPackets
<1>7. kept \in Seq(SizedPackets) /\ kept \in Seq(PacketsAt(now))
  BY <1>1, <1>5, RemovedIs
<1>8. Sent(q, packet) /\ q = [p EXCEPT !.queue = kept]
  BY <1>4
<1>9. level' = IF p'.queue = <<>> THEN MaxOf(0, m) ELSE m
  BY <1>4 DEF LevelAfterSending
<1>10. m \in Int
  BY <1>1, <1>6
<1> HIDE DEF packet, kept, q
<1>11. ControllerOK(q, now)
  BY <1>1, <1>7, <1>8, QueueOK
<1>12. /\ q.conf = p.conf /\ q.queue = kept /\ q.congested = p.congested
       /\ q.seenFirst = p.seenFirst /\ q.rates = p.rates /\ q.adjusted = p.adjusted
       /\ q.probe = p.probe /\ q.mediaDebt = p.mediaDebt /\ q.lastProcess = p.lastProcess
  BY <1>1, <1>8 DEF ControllersAt
<1>13. PacedOK(q) /\ q.adjusted > 0 /\ SameDebt(p, q)
  BY <1>1, <1>5, <1>7, <1>12 DEF PacedOK, SameDebt
<1>14. (Held(q, level, now) <=> Held(p, level, now)) /\ Budgeted(q, level, now)
  BY <1>1, <1>13, SameDebtHeld
<1>15. ASSUME Paced(packet)
       PROVE  /\ m = level + packet.size /\ packet.type # "audio" /\ Held(q, level, now)
              /\ \/ q.mediaDebt + packet.size <= q.adjusted * MaxDebtInTime
                 \/ Ahead(q, level, now) /\ packet.size <= q.adjusted * MaxDebtInTime
              /\ WithinPace(m)
  <2>1. /\ Held(p, level, now)
        /\ \/ p.mediaDebt + packet.size <= p.adjusted * MaxDebtInTime
           \/ Ahead(p, level, now) /\ packet.size <= p.adjusted * MaxDebtInTime
        /\ WithinPace(level + packet.size)
    BY <1>2, <1>6, <1>15, RoomForPaced
  <2>2. Ahead(q, level, now) <=> Ahead(p, level, now)
    BY <1>12 DEF Ahead
  <2>3. QED
    BY <1>12, <1>14, <1>15, <2>1, <2>2 DEF Paced
<1>16. ~Paced(packet) => m = level
  OBVIOUS
<1> HIDE DEF m
<1>17. /\ PacedOK(p') /\ p'.congested = q.congested
       /\ Held(q, level, now) => Held(p', m, now)
       /\ m = level /\ Budgeted(q, level, now) => Budgeted(p', level, now)
       /\ q.probe.active => p'.probe.active
       /\ PassDue(p', loop', m, now)
  <2>1. \/ m = level
        \/ /\ m = level + packet.size /\ packet.type # "audio" /\ Held(q, level, now)
           /\ \/ q.mediaDebt + packet.size <= q.adjusted * MaxDebtInTime
              \/ Ahead(q, level, now) /\ packet.size <= q.adjusted * MaxDebtInTime
    BY <1>15, <1>16
  <2>2. q.congested \/ Held(q, level, now)
    BY <1>3, <1>5, <1>12, <1>14 DEF Waits
  <2>3. QED
    BY <1>1, <1>2, <1>6, <1>8, <1>10, <1>11, <1>13, <2>1, <2>2, SentLevel
<1>18. Budgeted(p', m, now) /\ WithinPace(m)
  BY <1>1, <1>14, <1>15, <1>16, <1>17 DEF Budgeted
<1>19. /\ level' \in Int /\ (level' = m \/ level' <= 0) /\ (level' <= m \/ level' <= 0)
       /\ p'.queue # <<>> => level' = m
  BY <1>9, <1>10 DEF MaxOf
<1>20. Budgeted(p', level', now) /\ WithinPace(level')
  BY <1>10, <1>18, <1>19, WithinLess DEF Budgeted
<1>21. Waits(p') => Held(p', level', now)
  <2>1. Waits(p') => Waits(p) /\ level' = m
    BY <1>5, <1>12, <1>17, <1>19 DEF Waits
  <2>2. QED
    BY <1>3, <1>14, <1>17, <2>1
<1>22. /\ loop'.at \in {"pass", "end"} /\ loop' # Idle /\ loop' # Batch
       /\ loop'.probing = loop.probing /\ loop'.recommended = loop.recommended
       /\ ~loop'.firstProbe
  BY <1>1, <1>2, <1>6, <1>8, SentLoop
<1>23. InLoop' /\ WakesForPackets'
  BY <1>22 DEF InLoop, WakesForPackets
<1>24. Spare(p', m, now) => Spare(p', level', now)
  BY <1>9, <1>10 DEF Spare, MaxOf
<1>25. DueForPass'
  BY <1>2, <1>17, <1>24 DEF DueForPass, PassDue
<1>26. QED
  BY <1>2, <1>3, <1>12, <1>17, <1>20, <1>21, <1>22, <1>23, <1>25 DEF PaceInv

\* With nothing to send, the bucket's level is held whatever time has passed.
LEMMA CaughtUpIs ==
  ASSUME now \in Nat, NEW q, ControllerOK(q, now), PacedOK(q), NEW r, r = CaughtUp(q),
         NEW l \in Int
  PROVE  /\ SameControls(q, r) /\ r.mediaDebt = q.mediaDebt /\ r.lastProcess \in Nat
         /\ q.lastProcess <= now => r.lastProcess <= now
         /\ PacedOK(r)
         /\ Budgeted(q, l, now) => Held(r, l, now)
         /\ Spare(q, l, now) => Ahead(r, l, now)
<1>1. q \in ControllersAt(now) /\ q.adjusted \in Nat /\ q.mediaDebt \in Nat /\ q.lastProcess \in Nat
  BY Numbers DEF ControllerOK
<1> DEFINE last == Replayed(q.lastProcess)
<1>2. r = [q EXCEPT !.lastProcess = last]
  BY DEF CaughtUp
<1>3. MaxPaddingReplay \in Nat /\ Slack \in Nat /\ MaxPaddingReplay <= Slack
  BY Constants, SlackIs
<1>4. /\ last \in Nat /\ q.lastProcess <= last /\ now <= last + Slack
      /\ q.lastProcess <= now => last <= now
  BY <1>1, <1>3 DEF Replayed, MaxOf
<1> HIDE DEF last
<1>5. SameControls(q, r)
  BY <1>1, <1>2 DEF ControllersAt, SameControls
<1>6. r.mediaDebt = q.mediaDebt /\ r.lastProcess = last
  BY <1>1, <1>2 DEF ControllersAt
<1>7. PacedOK(r)
  BY <1>5, ControlsPaced
<1> DEFINE before == Room(q.adjusted, q.mediaDebt, q.lastProcess, now)
           after == Room(q.adjusted, q.mediaDebt, last, now)
<1>8. 0 <= after /\ after \in Int /\ before \in Int
  BY <1>1, <1>4, RoomIs
<1>9. before <= after
  <2> DEFINE limit == q.adjusted * MaxDebtInTime
             gained == q.adjusted * (last - q.lastProcess)
  <2>1. limit \in Nat /\ gained \in Nat
    <3>1. last - q.lastProcess \in Nat
      BY <1>1, <1>4
    <3>2. QED
      BY <1>1, <3>1, RoomIs, ProductNat
  <2>2. MinOf(q.mediaDebt, limit) <= q.mediaDebt + gained
    <3> HIDE DEF limit, gained
    <3>1. QED
      BY <1>1, <2>1 DEF MinOf
  <2>3. QED
    BY <1>1, <1>4, <2>2, RoomGrows
<1>10. ASSUME Budgeted(q, l, now) PROVE Held(r, l, now)
  <2>1. l <= 0 \/ l <= before
    BY <1>10 DEF Budgeted, Held
  <2> HIDE DEF before, after
  <2>2. l <= after
    BY <1>8, <1>9, <2>1
  <2>3. QED
    BY <1>5, <1>6, <2>2 DEF Held, SameControls, after
<1>11. r.adjusted = q.adjusted
  BY <1>5 DEF SameControls
<1>12. Spare(q, l, now) => Ahead(r, l, now)
  <2>1. ASSUME l <= 0 PROVE Ahead(r, l, now)
    BY <1>1, <1>4, <1>6, <1>11, <2>1, AheadNow
  <2>2. ASSUME Ahead(q, l, now) PROVE Ahead(r, l, now)
    BY <1>4, <1>6, <1>11, <2>2, AheadLater
  <2>3. QED
    BY <2>1, <2>2 DEF Spare
<1>13. QED
  BY <1>4, <1>5, <1>6, <1>7, <1>10, <1>12

LEMMA AddPaddingPaced ==
  ASSUME IInv, PaceInv, AddPadding
  PROVE  PaceInv'
<1>1. /\ now \in Nat /\ level \in Int /\ ControllerOK(p, now) /\ loop \in LoopType
      /\ PacedOK(p) /\ Budgeted(p, level, now) /\ WithinPace(level)
      /\ p.probe \in Probes /\ p.mediaDebt \in Nat /\ p.lastProcess \in Nat /\ p.adjusted \in Nat
  BY PaceParts
<1>2. loop.at = "pass" /\ InLoop /\ now' = now /\ level' = level
  BY DEF AddPadding, CanPass, InLoop
<1>3. /\ loop.probing => p.probe.active
      /\ ~loop.probing => loop.recommended = 0
      /\ loop.firstProbe => loop.probing
      /\ DueForPass
  BY <1>2 DEF PaceInv
<1>4. PICK size \in PaddingSizes :
        p' \in Enqueued(CaughtUp(p), [type |-> "padding", size |-> size, key |-> FALSE], now)
  BY DEF AddPadding
<1> DEFINE r == CaughtUp(p)
           packet == [type |-> "padding", size |-> size, key |-> FALSE]
<1>5. /\ packet.type \in Types /\ packet.size \in PacketSizes /\ packet.size \in Nat
      /\ packet.key \in BOOLEAN /\ p' \in Enqueued(r, packet, now)
  BY <1>4, PacingAssumption DEF Types, PacketSizes
<1>6. /\ SameControls(p, r) /\ r.mediaDebt = p.mediaDebt
      /\ p.lastProcess <= now => r.lastProcess <= now
      /\ PacedOK(r) /\ Held(r, level, now)
      /\ Spare(p, level, now) => Ahead(r, level, now)
  BY <1>1, CaughtUpIs
<1>7. ControllerOK(r, now)
  BY <1>1, CaughtUpOK
<1> HIDE DEF r, packet
<1>8. /\ p.queue = <<>> /\ ~p.congested
      /\ ~loop.probing => p.rates.padding > 0
  <2>1. PaddingToAdd(p, loop) > 0
    BY DEF AddPadding
  <2>2. p.queue = <<>> /\ ~p.congested
    BY <2>1 DEF PaddingToAdd
  <2>3. ASSUME ~loop.probing PROVE p.rates.padding > 0
    <3>1. PaddingToAdd(p, loop) \in {TargetPaddingDuration * p.rates.padding, 0}
      BY <1>3, <2>2, <2>3 DEF PaddingToAdd
    <3>2. p.rates.padding \in Nat /\ TargetPaddingDuration \in Nat
      BY <1>1, Fields, Constants
    <3>3. p.rates.padding # 0
      BY <2>1, <3>1, <3>2
    <3>4. QED
      BY <3>2, <3>3
  <2>4. QED
    BY <2>2, <2>3
<1>9. p.adjusted > 0
  <2>1. CASE loop.probing
    BY <1>1, <1>3, <2>1 DEF PacedOK
  <2>2. CASE ~loop.probing
    <3>1. p.rates.padding <= p.rates.pacing /\ p.rates.pacing <= p.adjusted
      BY <1>1, Fields
    <3>2. p.rates.padding \in Nat /\ p.rates.pacing \in Nat
      BY <1>1, Fields
    <3>3. QED
      BY <1>1, <1>8, <2>2, <3>1, <3>2
  <2>3. QED
    BY <2>1, <2>2
<1>10. r.adjusted > 0
  BY <1>6, <1>9 DEF SameControls
<1>11. /\ PacedOK(p') /\ Held(p', level, now) /\ p'.mediaDebt <= p.mediaDebt
       /\ Spare(p, level, now) => Ahead(p', level, now)
       /\ p.lastProcess <= now => p'.lastProcess <= now
  BY <1>1, <1>5, <1>6, <1>7, <1>10, EnqueuedHeld
<1>12. SameSettings(p, p') /\ p'.probe = Incoming(p.probe)
  <2>1. SameSettings(r, p') /\ p'.probe = Incoming(r.probe)
    BY <1>1, <1>5, <1>6, <1>7, <1>10, EnqueuedIs
  <2>2. QED
    BY <1>6, <2>1 DEF SameSettings, SameControls
<1>13. p.probe.active => p'.probe = p.probe
  BY <1>1, <1>12 DEF Incoming
<1>14. loop' = [loop EXCEPT !.target = Replayed(@), !.passes = @ + 1]
  BY DEF AddPadding
<1>15. /\ loop'.at = "pass" /\ loop'.probing = loop.probing /\ loop'.timedOut = loop.timedOut
       /\ loop'.recommended = loop.recommended /\ loop'.firstProbe = loop.firstProbe
  BY <1>1, <1>2, <1>14, Looping DEF Loops
<1>16. DueForPass'
  <2> SUFFICES ASSUME ~loop'.probing, ~loop'.timedOut, ~ProbeIsNext(p')
               PROVE  /\ p'.lastProcess <= now
                      /\ \/ p'.mediaDebt < p'.adjusted * MaxOf(p'.rates.burst, 1)
                         \/ Spare(p', level, now)
    BY <1>2 DEF DueForPass, PassDue
  <2>1. ~ProbeIsNext(p)
    BY <1>12, <1>13 DEF ProbeIsNext, IsProbing, SameSettings
  <2>2. Unpaced(p) = {}
    BY <1>8 DEF Unpaced
  <2>3. /\ p.lastProcess <= now
        /\ p.mediaDebt < p.adjusted * MaxOf(p.rates.burst, 1) \/ Spare(p, level, now)
    BY <1>2, <1>3, <1>8, <1>15, <2>1, <2>2 DEF DueForPass, PassDue
  <2> DEFINE most == p.adjusted * MaxOf(p.rates.burst, 1)
  <2>4. p'.mediaDebt \in Nat /\ most \in Nat
    <3>1. ControllerOK(p', now)
      BY <1>1, <1>5, <1>7, EnqueuedOK
    <3>2. p'.mediaDebt \in Nat /\ p.rates.burst \in Nat
      BY <1>1, <3>1, Fields
    <3>3. QED
      BY <1>1, <3>2, MinMaxNat, ProductNat
  <2>5. p'.adjusted * MaxOf(p'.rates.burst, 1) = most
    BY <1>12 DEF SameSettings
  <2>6. p.mediaDebt < most \/ Spare(p, level, now)
    BY <2>3
  <2> HIDE DEF most
  <2>7. p'.mediaDebt < most \/ Spare(p', level, now)
    BY <1>1, <1>11, <2>4, <2>6 DEF Spare
  <2>8. QED
    BY <1>11, <2>3, <2>5, <2>7
<1>17. loop' # Idle /\ loop' # Batch /\ InLoop' /\ WakesForPackets'
  BY <1>15 DEF Idle, Batch, InLoop, WakesForPackets
<1>18. Budgeted(p', level', now') /\ WithinPace(level') /\ (Waits(p') => Held(p', level', now'))
  BY <1>1, <1>2, <1>11 DEF Budgeted
<1>19. QED
  BY <1>3, <1>11, <1>13, <1>15, <1>16, <1>17, <1>18 DEF PaceInv

LEMMA LeaveLoopPaced ==
  ASSUME IInv, PaceInv, LeaveLoop
  PROVE  PaceInv'
<1>1. /\ now \in Nat /\ level \in Int /\ ControllerOK(p, now) /\ loop \in LoopType
      /\ PacedOK(p) /\ Budgeted(p, level, now) /\ WithinPace(level)
  BY PaceParts
<1>2. loop.at = "pass" /\ InLoop /\ now' = now /\ level' = level
  BY DEF LeaveLoop, CanPass, InLoop
<1>3. /\ loop.probing => p.probe.active
      /\ ~loop.probing => loop.recommended = 0
      /\ loop.firstProbe => loop.probing
  BY <1>2 DEF PaceInv
<1> DEFINE r == CaughtUp(p)
           size == PaddingToAdd(p, loop)
           padding == MinOf(r.paddingDebt + size, r.rates.padding * MaxDebtInTime)
<1>4. SameControls(p, r) /\ PacedOK(r) /\ Held(r, level, now) /\ r \in ControllersAt(now)
  <2>1. ControllerOK(r, now)
    BY <1>1, CaughtUpOK
  <2>2. QED
    BY <1>1, <2>1, CaughtUpIs DEF ControllerOK
<1>5. p' = r \/ p' = [r EXCEPT !.paddingDebt = padding]
  BY DEF LeaveLoop, OwesPadding
<1> HIDE DEF r, padding
<1>6. SameControls(r, p') /\ SameDebt(r, p')
  BY <1>4, <1>5 DEF ControllersAt, SameControls, SameDebt
<1>7. PacedOK(p')
  BY <1>4, <1>6 DEF PacedOK, SameControls, SameDebt
<1>8. Held(p', level, now)
  BY <1>4, <1>6, SameDebtHeld
<1>9. loop' = [loop EXCEPT !.target = Replayed(@), !.at = "end"]
  BY DEF LeaveLoop
<1>10. /\ loop'.at = "end" /\ loop'.probing = loop.probing
       /\ loop'.recommended = loop.recommended /\ loop'.firstProbe = loop.firstProbe
  BY <1>1, <1>2, <1>9, Looping DEF Loops
<1>11. /\ loop' # Idle /\ loop' # Batch
       /\ InLoop' /\ WakesForPackets' /\ DueForPass'
  BY <1>10 DEF Idle, Batch, InLoop, WakesForPackets, DueForPass, PassDue
<1>12. Budgeted(p', level', now') /\ WithinPace(level') /\ (Waits(p') => Held(p', level', now'))
  BY <1>1, <1>2, <1>8 DEF Budgeted
<1>13. p'.probe = p.probe
  BY <1>4, <1>6 DEF SameControls
<1>14. QED
  BY <1>3, <1>7, <1>10, <1>11, <1>12, <1>13 DEF PaceInv

\* The time given back is taken out of the bucket.
LEMMA BreakCircuitPaced ==
  ASSUME IInv, PaceInv, BreakCircuit
  PROVE  PaceInv'
<1>1. /\ now \in Nat /\ level \in Int /\ ControllerOK(p, now) /\ p \in ControllersAt(now)
      /\ PacedOK(p) /\ Budgeted(p, level, now) /\ WithinPace(level)
      /\ p.mediaDebt \in Nat /\ p.lastProcess \in Nat /\ p.adjusted \in Nat
  BY PaceParts
<1>2. InLoop
  BY DEF BreakCircuit, InLoop
<1>3. Waits(p) => Held(p, level, now)
  BY <1>2 DEF PaceInv
<1> DEFINE q == [p EXCEPT !.lastSend = now, !.lastProcess = now]
           back == p.adjusted * MaxOf(0, p.lastProcess - now)
<1>4. Becomes(q) /\ level' = level - back
  BY DEF BreakCircuit
<1>5. q = [p EXCEPT !.lastSend = now, !.lastProcess = now]
  OBVIOUS
<1>6. ControllerOK(q, now)
  <2>1. ControlInv'
    BY BreakCircuitInv DEF IInv
  <2>2. p' = q /\ now' = now
    BY <1>4 DEF Becomes
  <2>3. QED
    BY <2>1, <2>2 DEF ControlInv
<1> HIDE DEF q
<1>7. /\ q.conf = p.conf /\ q.queue = p.queue /\ q.congested = p.congested
      /\ q.seenFirst = p.seenFirst /\ q.rates = p.rates /\ q.adjusted = p.adjusted
      /\ q.probe = p.probe /\ q.mediaDebt = p.mediaDebt /\ q.lastProcess = now
  BY <1>1, <1>5 DEF ControllersAt
<1>8. PacedOK(q)
  BY <1>1, <1>7 DEF PacedOK
<1>9. back \in Nat
  <2>1. MaxOf(0, p.lastProcess - now) \in Nat
    BY <1>1 DEF MaxOf
  <2>2. QED
    BY <1>1, <2>1, ProductNat
<1> DEFINE before == Room(p.adjusted, p.mediaDebt, p.lastProcess, now)
           after == Room(p.adjusted, p.mediaDebt, now, now)
<1>10. before \in Int /\ after \in Int
  BY <1>1, RoomIs
<1>11. before - back <= after
  <2>1. CASE p.lastProcess <= now
    <3> DEFINE limit == p.adjusted * MaxDebtInTime
               gained == p.adjusted * (now - p.lastProcess)
    <3>1. limit \in Nat /\ gained \in Nat
      <4>1. now - p.lastProcess \in Nat
        BY <1>1, <2>1
      <4>2. QED
        BY <1>1, <4>1, RoomIs, ProductNat
    <3>2. MinOf(p.mediaDebt, limit) <= p.mediaDebt + gained
      <4> HIDE DEF limit, gained
      <4>1. QED
        BY <1>1, <3>1 DEF MinOf
    <3>3. before <= after
      BY <1>1, <2>1, <3>2, RoomGrows
    <3> HIDE DEF before, after, back
    <3>4. QED
      BY <1>9, <1>10, <3>3
  <2>2. CASE now < p.lastProcess
    <3> DEFINE limited == MinOf(p.mediaDebt, p.adjusted * MaxDebtInTime)
               x == p.lastProcess + Slack - now
               y == now + Slack - now
               ahead == p.lastProcess - now
    <3>1. before = limited + p.adjusted * x /\ after = limited + p.adjusted * y
      BY DEF Room
    <3>2. x \in Int /\ ahead \in Int /\ y = x - ahead /\ MaxOf(0, ahead) = ahead
      BY <1>1, <2>2, SlackIs DEF MaxOf
    <3>3. limited \in Int
      <4> DEFINE limit == p.adjusted * MaxDebtInTime
      <4>1. limit \in Nat
        BY <1>1, RoomIs
      <4>2. limited = MinOf(p.mediaDebt, limit)
        OBVIOUS
      <4> HIDE DEF limit, limited
      <4>3. QED
        BY <1>1, <4>1, <4>2 DEF MinOf
    <3>4. back = p.adjusted * ahead
      BY <3>2
    <3> HIDE DEF limited, x, y, ahead, before, after, back
    <3>5. /\ p.adjusted * y = p.adjusted * x - p.adjusted * ahead
          /\ p.adjusted * x \in Int /\ p.adjusted * ahead \in Int
      BY <1>1, <3>2, Products
    <3>6. after = before - back
      BY <3>1, <3>3, <3>4, <3>5
    <3>7. QED
      BY <1>9, <1>10, <3>6
  <2>3. QED
    BY <1>1, <2>1, <2>2
<1>12. Held(p, level, now) => Held(q, level', now)
  <2>1. level <= before => level' <= after
    <3> HIDE DEF before, after, back
    <3>1. QED
      BY <1>1, <1>4, <1>9, <1>10, <1>11
  <2>2. QED
    BY <1>7, <2>1 DEF Held
<1> HIDE DEF back
<1>13. level' \in Int /\ level' <= level /\ (level <= 0 => level' <= 0)
  BY <1>1, <1>4, <1>9
<1>14. Budgeted(q, level', now)
  BY <1>1, <1>12, <1>13 DEF Budgeted
<1>15. Waits(q) => Held(q, level', now)
  BY <1>3, <1>7, <1>12 DEF Waits
<1>16. Promised(q, level', now)
  BY <1>1, <1>6, <1>13, <1>15, HeldPromised
<1>17. QED
  BY <1>1, <1>4, <1>6, <1>8, <1>13, <1>14, <1>16, BecomesPaced

LEMMA FinishSendingPaced ==
  ASSUME IInv, PaceInv, FinishSending
  PROVE  PaceInv'
<1>1. /\ now \in Nat /\ level \in Int /\ ControllerOK(p, now) /\ p \in ControllersAt(now)
      /\ PacedOK(p) /\ Budgeted(p, level, now) /\ WithinPace(level)
      /\ p.probe \in Probes /\ loop \in LoopType
  BY PaceParts
<1>2. loop.at = "end" /\ InLoop /\ loop \in Loops
  BY <1>1, Looping DEF FinishSending, InLoop
<1>3. /\ Waits(p) => Held(p, level, now)
      /\ loop.probing => p.probe.active
  BY <1>2 DEF PaceInv
<1> DEFINE failed == loop.sent = 0
           probe == IF loop.sent = 0 THEN p.probe ELSE ProbeSent(p.probe, now, loop.sent)
           probed == [p EXCEPT !.probeFailed = failed, !.probe = probe]
           q == Probed(p, loop)
<1>4. IF loop.probing THEN q = probed ELSE q = p
  BY DEF Probed
<1>5. /\ probe \in Probes
      /\ p.probe.active => probe.active \/ probe.next = None
  <2> DEFINE left == p.probe.left - loop.sent
             next == now + ProbeDelta
  <2>1. NoCluster \in Probes /\ NoCluster.next = None
    BY DEF NoCluster
  <2>2. CASE loop.sent = 0
    BY <1>1, <2>2
  <2>3. CASE loop.sent # 0 /\ loop.sent >= p.probe.left
    <3>1. probe = NoCluster
      BY <2>3 DEF ProbeSent
    <3> HIDE DEF probe
    <3>2. QED
      BY <2>1, <3>1
  <2>4. CASE loop.sent # 0 /\ ~ (loop.sent >= p.probe.left)
    <3>1. probe = [p.probe EXCEPT !.left = left, !.next = next]
      BY <2>4 DEF ProbeSent
    <3>2. left \in Nat /\ next \in Nat
      BY <1>1, <1>2, <2>4, Constants DEF Loops
    <3> HIDE DEF probe, left, next
    <3>3. QED
      BY <1>1, <3>1, <3>2
  <2>5. QED
    BY <2>2, <2>3, <2>4
<1>6. failed \in BOOLEAN /\ probed = [p EXCEPT !.probeFailed = failed, !.probe = probe]
  OBVIOUS
<1>7. PICK r \in RateAdjusted(q, now) : Becomes(r)
  BY DEF FinishSending
<1>8. ControllerOK(p', now) /\ p' = r
  <2>1. ControlInv'
    BY FinishSendingInv DEF IInv
  <2>2. p' = r /\ now' = now
    BY <1>7 DEF Becomes
  <2>3. QED
    BY <2>1, <2>2 DEF ControlInv
<1> HIDE DEF failed, probe, probed, q
<1>9. probed \in ControllersAt(now)
  BY <1>1, <1>5, <1>6 DEF ControllersAt
<1>10. /\ probed.conf = p.conf /\ probed.queue = p.queue /\ probed.congested = p.congested
       /\ probed.seenFirst = p.seenFirst /\ probed.rates = p.rates
       /\ probed.adjusted = p.adjusted /\ probed.probe = probe
       /\ probed.mediaDebt = p.mediaDebt /\ probed.lastProcess = p.lastProcess
  BY <1>1, <1>6 DEF ControllersAt
<1>11. /\ q \in ControllersAt(now) /\ PacedOK(q) /\ SameDebt(p, q) /\ (Waits(q) => Waits(p))
  <2>1. CASE loop.probing
    <3>1. PacedOK(probed)
      BY <1>1, <1>3, <1>5, <1>10, <2>1 DEF PacedOK
    <3>2. QED
      BY <1>4, <1>9, <1>10, <2>1, <3>1 DEF SameDebt, Waits
  <2>2. CASE ~loop.probing
    BY <1>1, <1>4, <2>2 DEF SameDebt
  <2>3. QED
    BY <2>1, <2>2
<1>12. r = q
  BY <1>1, <1>7, <1>11, RateKept DEF PacedOK
<1>13. ControllerOK(q, now) /\ Becomes(q)
  BY <1>7, <1>8, <1>12
<1>14. Budgeted(q, level, now) /\ (Waits(q) => Held(q, level, now))
  BY <1>1, <1>3, <1>11, SameDebtHeld
<1>15. Promised(q, level, now)
  BY <1>1, <1>13, <1>14, HeldPromised
<1>16. level' = level /\ level <= level
  BY <1>1 DEF FinishSending
<1>17. Budgeted(q, level', now) /\ Promised(q, level', now) /\ level' <= level /\ level' \in Int
  BY <1>1, <1>14, <1>15, <1>16
<1>18. QED
  BY <1>1, <1>11, <1>13, <1>17, BecomesPaced

-------------------------------------------------------------------------------
(* The configuration stays *)

LEMMA DebtConf ==
  ASSUME NEW q, NEW t, NEW type, NEW size
  PROVE  /\ Drained(q, t).conf = q.conf
         /\ OwesPadding(q, size).conf = q.conf
         /\ OnPacketSent(q, type, size, t).conf = q.conf
         /\ CaughtUp(q).conf = q.conf
         /\ Probed(q, loop).conf = q.conf
         /\ \A r \in Keepalives(q) : r.conf = q.conf
         /\ \A r \in RateAdjusted(q, t) : r.conf = q.conf
<1>1. Drained(q, t).conf = q.conf
  BY DEF Drained
<1>2. OwesPadding(q, size).conf = q.conf
  BY DEF OwesPadding
<1>3. ASSUME NEW s, NEW u PROVE OnPacketSent(q, type, s, u).conf = q.conf
  BY DEF OnPacketSent, Owes, OwesPadding
<1>4. ASSUME NEW s PROVE OnPacketSent(q, "padding", s, now).conf = q.conf
  BY DEF OnPacketSent, Owes, OwesPadding
<1>5. CaughtUp(q).conf = q.conf
  BY DEF CaughtUp
<1>6. Probed(q, loop).conf = q.conf
  BY DEF Probed
<1>7. \A r \in Keepalives(q) : r.conf = q.conf
  BY <1>4 DEF Keepalives
<1>8. \A r \in RateAdjusted(q, t) : r.conf = q.conf
  <2> SUFFICES ASSUME NEW r \in RateAdjusted(q, t) PROVE r.conf = q.conf
    OBVIOUS
  <2>1. \E x : r = [q EXCEPT !.adjusted = x]
    BY DEF RateAdjusted
  <2>2. QED
    BY <2>1
<1>9. QED
  BY <1>1, <1>2, <1>3, <1>5, <1>6, <1>7, <1>8

LEMMA EnqueuedConf ==
  ASSUME NEW q, NEW packet, NEW t, NEW r \in Enqueued(q, packet, t)
  PROVE  r.conf = q.conf
<1> DEFINE flushed == Flushed(q, packet)
           prepared == [flushed EXCEPT !.probe = Incoming(@)]
           ready == FastForwarded(prepared, t)
           pushed == [ready EXCEPT !.queue = Append(@, Queued(packet, t)), !.seenFirst = TRUE]
<1>1. flushed.conf = q.conf
  BY DEF Flushed
<1>2. prepared.conf = flushed.conf
  OBVIOUS
<1>3. ready.conf = prepared.conf
  BY DebtConf DEF FastForwarded
<1>4. pushed.conf = ready.conf
  OBVIOUS
<1>5. r.conf = pushed.conf
  BY DebtConf DEF Enqueued
<1>6. QED
  BY <1>1, <1>2, <1>3, <1>4, <1>5

LEMMA SentConf ==
  ASSUME NEW q, NEW packet, Sent(q, packet)
  PROVE  p'.conf = q.conf
<1> DEFINE S(r) == OnPacketSent(r, packet.type, packet.size, now)
<1>1. PICK r \in FecEnqueued(q, packet) : p' = S(r) \/ \E u : p' = Drained(S(r), u)
  BY DEF Sent
<1>2. r.conf = q.conf
  BY EnqueuedConf DEF FecEnqueued
<1>3. S(r).conf = r.conf
  BY DebtConf
<1>4. p'.conf = S(r).conf
  <2>1. ASSUME NEW u PROVE Drained(S(r), u).conf = S(r).conf
    BY DebtConf
  <2> HIDE DEF S
  <2>2. QED
    BY <1>1, <2>1
<1>5. QED
  BY <1>2, <1>3, <1>4

LEMMA ApplicationConf == Application => p'.conf = p.conf
<1>1. ASSUME NEW q, Becomes(q) PROVE p' = q
  BY <1>1 DEF Becomes
<1>2. ASSUME SetPacerConfig PROVE p'.conf = p.conf
  <2>1. PICK rates : \E q \in RateAdjusted([p EXCEPT !.rates = rates], now) : Becomes(q)
    BY <1>2 DEF SetPacerConfig
  <2>2. PICK q \in RateAdjusted([p EXCEPT !.rates = rates], now) : Becomes(q)
    BY <2>1
  <2>3. q.conf = [p EXCEPT !.rates = rates].conf
    BY DebtConf
  <2>4. [p EXCEPT !.rates = rates].conf = p.conf
    OBVIOUS
  <2>5. QED
    BY <1>1, <2>2, <2>3, <2>4
<1>3. ASSUME EnqueuePacket PROVE p'.conf = p.conf
  BY <1>1, <1>3, EnqueuedConf DEF EnqueuePacket
<1>4. ASSUME Pause \/ Resume PROVE p'.conf = p.conf
  <2>1. PICK b : Becomes([p EXCEPT !.paused = b])
    BY <1>4 DEF Pause, Resume
  <2>2. p' = [p EXCEPT !.paused = b]
    BY <1>1, <2>1
  <2>3. QED
    BY <2>2
<1>5. ASSUME SetCongested PROVE p'.conf = p.conf
  <2> DEFINE q == IF p.congested THEN Drained(p, now) ELSE p
  <2>1. Becomes([q EXCEPT !.congested = ~@])
    BY <1>5 DEF SetCongested
  <2>2. p' = [q EXCEPT !.congested = ~@]
    BY <1>1, <2>1
  <2>3. q.conf = p.conf
    BY DebtConf
  <2> HIDE DEF q
  <2>4. p'.conf = q.conf
    BY <2>2
  <2>5. QED
    BY <2>3, <2>4
<1>6. ASSUME RemovePacketsForSsrc PROVE p'.conf = p.conf
  <2>1. PICK kept : Becomes([p EXCEPT !.queue = kept])
    BY <1>6 DEF RemovePacketsForSsrc
  <2>2. p' = [p EXCEPT !.queue = kept]
    BY <1>1, <2>1
  <2>3. QED
    BY <2>2
<1>7. ASSUME CreateProbeCluster PROVE p'.conf = p.conf
  <2>1. PICK probe : Becomes([p EXCEPT !.probe = probe])
    BY <1>7 DEF CreateProbeCluster
  <2>2. p' = [p EXCEPT !.probe = probe]
    BY <1>1, <2>1
  <2>3. QED
    BY <2>2
<1>8. QED
  BY <1>2, <1>3, <1>4, <1>5, <1>6, <1>7 DEF Application

LEMMA ProcessPacketsConf == ProcessPackets => p'.conf = p.conf
<1>1. ASSUME NEW q, Becomes(q) PROVE p' = q
  BY <1>1 DEF Becomes
<1>2. ASSUME SendNothing PROVE p'.conf = p.conf
  <2>1. PICK q \in Keepalives(p) : Becomes(IF q.paused THEN q ELSE Drained(q, now))
    BY <1>2 DEF SendNothing
  <2>2. p' = q \/ p' = Drained(q, now)
    BY <1>1, <2>1
  <2>3. q.conf = p.conf /\ Drained(q, now).conf = q.conf
    BY DebtConf
  <2>4. QED
    BY <2>2, <2>3
<1>3. ASSUME StartSending PROVE p'.conf = p.conf
  <2>0. PICK q \in Keepalives(p) :
          \E probe : p' = [Drained(q, NextSendTime(q, now)) EXCEPT !.probe = probe]
    BY <1>3 DEF StartSending
  <2>1. PICK probe : p' = [Drained(q, NextSendTime(q, now)) EXCEPT !.probe = probe]
    BY <2>0
  <2> DEFINE r == Drained(q, NextSendTime(q, now))
  <2>2. r.conf = q.conf /\ q.conf = p.conf
    BY DebtConf
  <2>3. p' = [r EXCEPT !.probe = probe]
    BY <2>1
  <2> HIDE DEF r
  <2>4. p'.conf = r.conf
    BY <2>3
  <2>5. QED
    BY <2>2, <2>4
<1>4. ASSUME SendProbePadding PROVE p'.conf = p.conf
  BY <1>4, SentConf DEF SendProbePadding
<1>5. ASSUME SendQueued PROVE p'.conf = p.conf
  <2>1. PICK kept, packet : Sent([p EXCEPT !.queue = kept], packet)
    BY <1>5 DEF SendQueued
  <2>2. p'.conf = [p EXCEPT !.queue = kept].conf
    BY <2>1, SentConf
  <2>3. QED
    BY <2>2
<1>6. ASSUME AddPadding PROVE p'.conf = p.conf
  BY <1>6, EnqueuedConf, DebtConf DEF AddPadding
<1>7. ASSUME LeaveLoop PROVE p'.conf = p.conf
  BY <1>7, DebtConf DEF LeaveLoop
<1>8. ASSUME BreakCircuit PROVE p'.conf = p.conf
  <2>1. p' = [p EXCEPT !.lastSend = now, !.lastProcess = now]
    BY <1>1, <1>8 DEF BreakCircuit
  <2>2. QED
    BY <2>1
<1>9. ASSUME FinishSending PROVE p'.conf = p.conf
  <2>1. PICK q \in RateAdjusted(Probed(p, loop), now) : Becomes(q)
    BY <1>9 DEF FinishSending
  <2>2. q.conf = Probed(p, loop).conf /\ Probed(p, loop).conf = p.conf
    BY DebtConf
  <2>3. QED
    BY <1>1, <2>1, <2>2
<1>10. QED
  BY <1>2, <1>3, <1>4, <1>5, <1>6, <1>7, <1>8, <1>9 DEF ProcessPackets

LEMMA NextConf == [Next]_vars => p'.conf = p.conf
  BY ApplicationConf, ProcessPacketsConf DEF Next, Tick, vars

-------------------------------------------------------------------------------
(* The pace *)

PacedOrDrains == ~p.conf.drainLargeQueues => PaceInv

LEMMA NextPaced ==
  ASSUME BurstsFit, DebtIsRecent, RatesPositive, IInv, PacedOrDrains, [Next]_vars
  PROVE  PacedOrDrains'
<1> SUFFICES ASSUME ~p'.conf.drainLargeQueues PROVE PaceInv'
  BY DEF PacedOrDrains
<1>1. PaceInv
  BY NextConf DEF PacedOrDrains
<1>2. CASE UNCHANGED vars
  BY <1>1, <1>2 DEF vars, PaceInv, InLoop, WakesForPackets, DueForPass, Unpaced, ProbeIsNext,
     IsProbing
<1>3. CASE Application
  BY <1>1, <1>3, ApplicationPaced
<1>4. CASE Tick
  BY <1>1, <1>4, TickPaced
<1>5. CASE ProcessPackets
  <2>1. CASE (loop = Due \/ (loop = Idle /\ now + Margin(p) >= wake)) /\ SendNothing
    BY <1>1, <2>1, SendNothingPaced
  <2>2. CASE (loop = Due \/ (loop = Idle /\ now + Margin(p) >= wake)) /\ StartSending
    BY <1>1, <2>2, StartSendingPaced
  <2>3. CASE SendProbePadding
    BY <1>1, <2>3, SendProbePaddingPaced
  <2>4. CASE SendQueued
    BY <1>1, <2>4, SendQueuedPaced
  <2>5. CASE AddPadding
    BY <1>1, <2>5, AddPaddingPaced
  <2>6. CASE LeaveLoop
    BY <1>1, <2>6, LeaveLoopPaced
  <2>7. CASE BreakCircuit
    BY <1>1, <2>7, BreakCircuitPaced
  <2>8. CASE FinishSending
    BY <1>1, <2>8, FinishSendingPaced
  <2>9. QED
    BY <1>5, <2>1, <2>2, <2>3, <2>4, <2>5, <2>6, <2>7, <2>8 DEF ProcessPackets
<1>6. QED
  BY <1>2, <1>3, <1>4, <1>5 DEF Next

\* However late the owner is, whatever the application asks for and in whatever order, what
\* is sent because its time has come keeps to a leaky bucket of a burst, one packet more,
\* and the time that may be sent for afterwards.
THEOREM KeepsPace ==
  ASSUME BurstsFit, DebtIsRecent, RatesPositive
  PROVE  Spec => []PacedBound
<1>1. Init => PacedOrDrains
  BY InitPaced DEF PacedOrDrains
<1>2. IInv /\ PacedOrDrains /\ [Next]_vars => PacedOrDrains'
  BY NextPaced
<1>3. PacedOrDrains => PacedBound
  BY DEF PacedOrDrains, PaceInv, WithinPace, PacedBound
<1>4. QED
  BY <1>1, <1>2, <1>3, SpecInv, PTL DEF Spec
===============================================================================
