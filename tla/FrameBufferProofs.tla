--------------------------- MODULE FrameBufferProofs ---------------------------
(***************************************************************************)
(* What FrameBuffer promises for any stream, any capacity and any history  *)
(* window: it implements DecodableStream, every accepted frame is          *)
(* accounted for, and its caches hide no decodable unit.                   *)
(*                                                                         *)
(* The lemmas are about the operators of FrameBufferOps on a buffer b that *)
(* satisfies BufferOK; the state machine comes last.                       *)
(***************************************************************************)
EXTENDS FrameBuffer, FiniteSetTheorems, WellFoundedInduction, TLAPS

-------------------------------------------------------------------------------
(* Least and greatest elements *)

LEMMA LeastExists ==
  ASSUME NEW S \in SUBSET Nat, S # {}
  PROVE  Least(S) \in S /\ \A n \in S : Least(S) <= n
<1> DEFINE Below == {0 .. n : n \in S}
<1>1. Below \subseteq FiniteSubsetsOf(Nat) /\ Below # {}
  <2>1. \A n \in S : 0 .. n \in SUBSET Nat /\ IsFiniteSet(0 .. n)
    BY FS_Interval
  <2>2. QED
    BY <2>1 DEF FiniteSubsetsOf
<1>2. \E x \in Below : \A y \in Below : ~ (<<y, x>> \in StrictSubsetOrdering(Nat))
  BY <1>1, WFMin, FS_StrictSubsetOrderingWellFounded
<1>3. PICK m \in S : \A n \in S : ~ (<<0 .. n, 0 .. m>> \in StrictSubsetOrdering(Nat))
  BY <1>2
<1>4. ASSUME NEW n \in S, n < m PROVE FALSE
  <2>1. 0 .. n \in SUBSET Nat /\ 0 .. m \in SUBSET Nat
    OBVIOUS
  <2>2. 0 .. n \subseteq 0 .. m /\ m \in 0 .. m /\ m \notin 0 .. n
    BY <1>4
  <2>3. QED
    BY <1>3, <2>1, <2>2 DEF StrictSubsetOrdering
<1>5. \A n \in S : m <= n
  BY <1>4
<1>6. QED
  BY <1>5 DEF Least

\* A least counterexample would have an element less.
LEMMA GreatestExists ==
  ASSUME NEW S \in SUBSET Int, IsFiniteSet(S), S # {}
  PROVE  Greatest(S) \in S /\ \A n \in S : n <= Greatest(S)
<1> DEFINE HasMax(T) == \E m \in T : \A n \in T : n <= m
           Bad == {n \in Nat : \E T \in SUBSET S : T # {} /\ Cardinality(T) = n /\ ~ HasMax(T)}
<1>1. \A T \in SUBSET S : IsFiniteSet(T) /\ Cardinality(T) \in Nat
  BY FS_Subset, FS_CardinalityType
<1>2. ASSUME Bad # {} PROVE FALSE
  <2>1. Least(Bad) \in Bad /\ \A n \in Bad : Least(Bad) <= n
    BY <1>2, LeastExists
  <2>2. PICK T \in SUBSET S : T # {} /\ Cardinality(T) = Least(Bad) /\ ~ HasMax(T)
    BY <2>1
  <2>3. PICK x \in T : TRUE
    BY <2>2
  <2> DEFINE U == T \ {x}
  <2>4. Cardinality(U) = Cardinality(T) - 1 /\ Cardinality(T) \in Nat /\ Cardinality(U) \in Nat
    BY <1>1, <2>3, FS_RemoveElement
  <2>5. Cardinality(U) \notin Bad
    <3> DEFINE k == Cardinality(U)
               l == Least(Bad)
    <3>1. k \in Nat /\ l \in Nat /\ k = l - 1 /\ \A n \in Bad : l <= n
      BY <2>1, <2>2, <2>4
    <3> HIDE DEF k, l, Bad
    <3>2. k \notin Bad
      BY <3>1
    <3>3. QED
      BY <3>2 DEF k
  <2>6. U = {} \/ HasMax(U)
    BY <2>4, <2>5
  <2>7. CASE U = {}
    <3>1. T = {x} /\ x \in Int
      BY <2>3, <2>7
    <3>2. QED
      BY <2>2, <3>1
  <2>8. CASE HasMax(U)
    <3>1. PICK m \in U : \A n \in U : n <= m
      BY <2>8
    <3>2. x \in Int /\ m \in Int /\ \A n \in T : n \in Int /\ (n = x \/ n \in U)
      BY <2>3
    <3>3. CASE m <= x
      <4>1. \A n \in T : n <= x
        BY <3>1, <3>2, <3>3
      <4>2. QED
        BY <2>2, <2>3, <4>1
    <3>4. CASE x <= m
      <4>1. \A n \in T : n <= m
        BY <3>1, <3>2, <3>4
      <4>2. QED
        BY <2>2, <3>1, <4>1
    <3>5. QED
      BY <3>2, <3>3, <3>4
  <2>9. QED
    BY <2>6, <2>7, <2>8
<1>3. HasMax(S)
  BY <1>1, <1>2
<1>4. QED
  BY <1>3 DEF Greatest

-------------------------------------------------------------------------------
(* A buffer *)

\* The fields of the record.
Shape(b) ==
    b = [frames |-> b.frames, continuous |-> b.continuous, lastFrame |-> b.lastFrame,
         lastUnit |-> b.lastUnit, next |-> b.next, info |-> b.info, decoded |-> b.decoded,
         lastDecoded |-> b.lastDecoded, lastDecodedTs |-> b.lastDecodedTs,
         numContinuous |-> b.numContinuous, numDropped |-> b.numDropped]

\* The frames are frames of the stream that InsertFrame let in, all newer than what
\* was decoded.
FramesOK(b) ==
    /\ Shape(b)
    /\ Ids(b) \subseteq Nat /\ IsFiniteSet(Ids(b)) /\ Cardinality(Ids(b)) <= MaxSize
    /\ \A i \in Ids(b) : /\ b.frames[i] \in Stream /\ b.frames[i].id = i
                         /\ ValidReferences(b.frames[i])
                         /\ b.lastDecoded < i
    /\ b.continuous \subseteq Ids(b)
    /\ b.lastFrame \in OptionalId /\ b.lastUnit \in OptionalId
    /\ b.decoded \subseteq Nat /\ b.lastDecoded \in OptionalId
    /\ b.numContinuous \in Nat /\ b.numDropped \in Nat

\* Nothing that could be continuous is not: no set of other frames supports itself.
Complete(b) == \A C \in SUBSET (Ids(b) \ b.continuous) : SelfSupporting(b, C) => C = {}

\* The scan reaches every continuous unit.
Reached(b) == \A l \in b.continuous : b.frames[l].last => l <= b.lastUnit

\* The next unit is the one a scan finds.
Fresh(b) == FindNextAndLast(b) = b

BufferOK(b) == FramesOK(b) /\ Complete(b) /\ Reached(b) /\ Fresh(b)

-------------------------------------------------------------------------------
(* FindNextAndLastDecodableTemporalUnit *)

\* What is decodable depends on the frames and the decode history alone.
LEMMA SameEnds ==
  ASSUME NEW b, NEW d, d.frames = b.frames, d.decoded = b.decoded, d.lastUnit = b.lastUnit
  PROVE  /\ \A l : UnitEndingAt(d, l) = UnitEndingAt(b, l)
         /\ DecodableEnds(d) = DecodableEnds(b)
<1>1. Ids(d) = Ids(b)
  BY DEF Ids
<1>2. \A l : UnitEndingAt(d, l) = UnitEndingAt(b, l)
  BY <1>1 DEF UnitEndingAt
<1>3. \A l : Decodable(d, l) <=> Decodable(b, l)
  BY <1>2 DEF Decodable, WasDecoded
<1>4. QED
  BY <1>1, <1>2, <1>3 DEF DecodableEnds

LEMMA FindKeeps ==
  ASSUME NEW b, Shape(b)
  PROVE  LET n == FindNextAndLast(b)
         IN  /\ Shape(n) /\ n.frames = b.frames /\ n.continuous = b.continuous
             /\ n.lastFrame = b.lastFrame /\ n.lastUnit = b.lastUnit
             /\ n.decoded = b.decoded /\ n.lastDecoded = b.lastDecoded
             /\ n.lastDecodedTs = b.lastDecodedTs
             /\ n.numContinuous = b.numContinuous /\ n.numDropped = b.numDropped
             /\ Fresh(n)
<1> DEFINE n == FindNextAndLast(b)
           e == DecodableEnds(b)
           l == Least(e)
           next == IF e = {} THEN NoUnit ELSE [first |-> Least(UnitEndingAt(b, l)), last |-> l]
           info == IF e = {} THEN NoInfo ELSE [next |-> b.frames[l].ts, last |-> b.frames[Greatest(e)].ts]
<1>1. n = [b EXCEPT !.next = next, !.info = info]
  BY DEF FindNextAndLast
<1> HIDE DEF next, info
<1>2. /\ Shape(n) /\ n.frames = b.frames /\ n.continuous = b.continuous
      /\ n.lastFrame = b.lastFrame /\ n.lastUnit = b.lastUnit
      /\ n.decoded = b.decoded /\ n.lastDecoded = b.lastDecoded
      /\ n.lastDecodedTs = b.lastDecodedTs
      /\ n.numContinuous = b.numContinuous /\ n.numDropped = b.numDropped
      /\ n.next = next /\ n.info = info
  BY <1>1 DEF Shape
<1>3. DecodableEnds(n) = e /\ UnitEndingAt(n, l) = UnitEndingAt(b, l)
  BY <1>2, SameEnds
<1>4. FindNextAndLast(n) = [n EXCEPT !.next = next, !.info = info]
  BY <1>2, <1>3 DEF FindNextAndLast, next, info
<1>5. [n EXCEPT !.next = next, !.info = info] = n
  BY <1>2 DEF Shape
<1>6. QED
  BY <1>2, <1>4, <1>5 DEF Fresh

\* A fresh scan has found the first decodable unit, whole.
LEMMA NextIsUnit ==
  ASSUME NEW b, FramesOK(b), Fresh(b), HasNext(b)
  PROVE  LET l == b.next.last
         IN  /\ l \in Ids(b) /\ b.frames[l].last /\ Decodable(b, l)
             /\ NextUnit(b) = UnitEndingAt(b, l) /\ l \in NextUnit(b)
             /\ b.next.first \in NextUnit(b)
             /\ \A i \in NextUnit(b) : i <= l /\ b.frames[i].ts = b.frames[l].ts
             /\ l = Least(DecodableEnds(b)) /\ b.info.next = b.frames[l].ts
<1> DEFINE e == DecodableEnds(b)
           l == Least(e)
           u == UnitEndingAt(b, l)
<1>1. e # {}
  <2>1. CASE e = {}
    <3>1. FindNextAndLast(b).next = NoUnit
      BY <2>1 DEF FindNextAndLast, FramesOK, Shape
    <3>2. QED
      BY <3>1 DEF Fresh, HasNext
  <2>2. QED
    BY <2>1
<1>2. e \in SUBSET Nat /\ Ids(b) \subseteq Nat
  BY DEF DecodableEnds, FramesOK
<1>3. l \in e
  BY <1>1, <1>2, LeastExists
<1>4. l \in Ids(b) /\ l \in Nat /\ b.frames[l].last /\ Decodable(b, l)
  BY <1>2, <1>3 DEF DecodableEnds
<1>5. b.next = [first |-> Least(u), last |-> l]
  <2>1. FindNextAndLast(b).next = [first |-> Least(u), last |-> l]
    BY <1>1 DEF FindNextAndLast, FramesOK, Shape
  <2>2. QED
    BY <2>1 DEF Fresh
<1>6. l \in u /\ u \in SUBSET Nat
  BY <1>2, <1>4 DEF UnitEndingAt
<1>7. Least(u) \in u /\ \A n \in u : Least(u) <= n
  BY <1>6, LeastExists
<1> HIDE DEF l, e
<1>8. NextUnit(b) = u
  <2>1. \A i \in u : Least(u) <= i /\ i <= l /\ i \in Ids(b)
    BY <1>7 DEF UnitEndingAt
  <2>2. ASSUME NEW i \in Ids(b), Least(u) <= i, i <= l PROVE i \in u
    <3>1. \A j \in Ids(b) : Least(u) <= j /\ j <= l => b.frames[j].ts = b.frames[l].ts
      BY <1>7 DEF UnitEndingAt
    <3>2. \A j \in Ids(b) : i <= j => Least(u) <= j
      <4>1. Least(u) \in Nat /\ i \in Nat /\ \A j \in Ids(b) : j \in Nat
        BY <1>2, <1>6, <1>7
      <4>2. QED
        BY <2>2, <4>1
    <3>3. QED
      BY <2>2, <3>1, <3>2 DEF UnitEndingAt
  <2>3. NextUnit(b) = {i \in Ids(b) : Least(u) <= i /\ i <= l}
    BY <1>5 DEF NextUnit
  <2>4. QED
    BY <2>1, <2>2, <2>3
<1>9. \A i \in u : i <= l /\ b.frames[i].ts = b.frames[l].ts
  BY <1>2 DEF UnitEndingAt
<1>10. b.next.last = l /\ b.next.first \in u
  BY <1>5, <1>7
<1>11. b.info.next = b.frames[l].ts
  <2>1. FindNextAndLast(b).info.next = b.frames[l].ts
    BY <1>1 DEF FindNextAndLast, FramesOK, Shape, l, e
  <2>2. QED
    BY <2>1 DEF Fresh
<1>12. QED
  BY <1>4, <1>6, <1>8, <1>9, <1>10, <1>11 DEF l, e

LEMMA FindOK ==
  ASSUME NEW b, FramesOK(b), Complete(b), Reached(b)
  PROVE  BufferOK(FindNextAndLast(b))
<1> DEFINE n == FindNextAndLast(b)
<1>1. /\ Shape(n) /\ n.frames = b.frames /\ n.continuous = b.continuous
      /\ n.lastFrame = b.lastFrame /\ n.lastUnit = b.lastUnit
      /\ n.decoded = b.decoded /\ n.lastDecoded = b.lastDecoded
      /\ n.numContinuous = b.numContinuous /\ n.numDropped = b.numDropped
      /\ Fresh(n)
  BY FindKeeps DEF FramesOK
<1> HIDE DEF n
<1>2. FramesOK(n)
  BY <1>1 DEF FramesOK, Ids
<1>3. Complete(n)
  BY <1>1 DEF Complete, SelfSupporting, WasDecoded, Ids
<1>4. Reached(n)
  BY <1>1 DEF Reached
<1>5. QED
  BY <1>1, <1>2, <1>3, <1>4 DEF BufferOK, n

-------------------------------------------------------------------------------
(* InsertFrame *)

LEMMA EmptyOK ==
  ASSUME NEW b, b.numContinuous \in Nat, b.numDropped \in Nat
  PROVE  LET d == Clear(b)
         IN  /\ BufferOK(d) /\ Ids(d) = {} /\ d.decoded = {} /\ d.lastDecoded = None
             /\ d.numDropped = b.numDropped
<1> DEFINE d == Clear(b)
<1>1. /\ d.frames = [i \in {} |-> None] /\ d.continuous = {}
      /\ d.lastFrame = None /\ d.lastUnit = None /\ d.next = NoUnit /\ d.info = NoInfo
      /\ d.decoded = {} /\ d.lastDecoded = None
      /\ d.numContinuous = b.numContinuous /\ d.numDropped = b.numDropped
      /\ Shape(d)
  <2> DEFINE empty == [i \in {} |-> None]
  <2>1. EmptyBuffer = [frames |-> empty, continuous |-> {}, lastFrame |-> None,
                       lastUnit |-> None, next |-> NoUnit, info |-> NoInfo, decoded |-> {},
                       lastDecoded |-> None, lastDecodedTs |-> None,
                       numContinuous |-> 0, numDropped |-> 0]
    BY DEF EmptyBuffer
  <2> HIDE DEF empty
  <2> DEFINE e == EmptyBuffer
  <2>2. /\ e.frames = empty /\ e.continuous = {}
        /\ e.lastFrame = None /\ e.lastUnit = None /\ e.next = NoUnit /\ e.info = NoInfo
        /\ e.decoded = {} /\ e.lastDecoded = None /\ Shape(e)
    BY <2>1 DEF Shape
  <2>3. d = [e EXCEPT !.numContinuous = b.numContinuous, !.numDropped = b.numDropped]
    BY DEF Clear
  <2> HIDE DEF d, e
  <2>4. /\ d.frames = empty /\ d.continuous = {}
        /\ d.lastFrame = None /\ d.lastUnit = None /\ d.next = NoUnit /\ d.info = NoInfo
        /\ d.decoded = {} /\ d.lastDecoded = None
        /\ d.numContinuous = b.numContinuous /\ d.numDropped = b.numDropped
        /\ Shape(d)
    BY <2>2, <2>3 DEF Shape
  <2>5. QED
    BY <2>4 DEF empty
<1>2. Ids(d) = {}
  BY <1>1 DEF Ids
<1>3. FramesOK(d)
  <2>1. Cardinality({}) = 0 /\ IsFiniteSet({})
    BY FS_EmptySet
  <2>2. None \in OptionalId
    BY DEF OptionalId
  <2>3. MaxSize \in Nat /\ 0 <= MaxSize
    <3>1. MaxSize \in Nat
      BY BufferAssumption
    <3>2. QED
      BY <3>1
  <2> HIDE DEF d
  <2>4. /\ Ids(d) \subseteq Nat /\ IsFiniteSet(Ids(d)) /\ Cardinality(Ids(d)) <= MaxSize
        /\ d.continuous \subseteq Ids(d)
    BY <1>1, <1>2, <2>1, <2>3
  <2>5. \A i \in Ids(d) : /\ d.frames[i] \in Stream /\ d.frames[i].id = i
                          /\ ValidReferences(d.frames[i])
                          /\ d.lastDecoded < i
    BY <1>2
  <2>6. QED
    BY <1>1, <2>2, <2>4, <2>5 DEF FramesOK
<1>4. Complete(d) /\ Reached(d)
  BY <1>1, <1>2 DEF Complete, Reached
<1>5. Fresh(d)
  <2>1. DecodableEnds(d) = {}
    BY <1>2 DEF DecodableEnds
  <2>2. FindNextAndLast(d) = [d EXCEPT !.next = NoUnit, !.info = NoInfo]
    BY <2>1 DEF FindNextAndLast
  <2> HIDE DEF d
  <2>3. [d EXCEPT !.next = NoUnit, !.info = NoInfo] = d
    BY <1>1 DEF Shape
  <2>4. QED
    BY <2>2, <2>3 DEF Fresh
<1>6. QED
  BY <1>1, <1>2, <1>3, <1>4, <1>5 DEF BufferOK

\* A buffer is cleared for one reason or the other.
LEMMA ClearedIs ==
  ASSUME NEW b, BufferOK(b), NEW f
  PROVE  Cleared(b, f) =
            IF (DecodedPast(b, f) /\ IdJump(b, f)) \/ (Full(b) /\ IsKeyframe(f))
            THEN Clear(b) ELSE b
<1>1. b.numContinuous \in Nat /\ b.numDropped \in Nat
  BY DEF BufferOK, FramesOK
<1>2. ~ Full(Clear(b))
  <2>1. Ids(Clear(b)) = {}
    BY <1>1, EmptyOK
  <2>2. QED
    BY <2>1, FS_EmptySet, BufferAssumption DEF Full
<1>3. QED
  BY <1>2 DEF Cleared

LEMMA ClearedOK ==
  ASSUME NEW b, BufferOK(b), NEW f
  PROVE  BufferOK(Cleared(b, f)) /\ Cleared(b, f).numDropped = b.numDropped
<1>1. b.numContinuous \in Nat /\ b.numDropped \in Nat
  BY DEF BufferOK, FramesOK
<1>2. BufferOK(Clear(b)) /\ Clear(b).numDropped = b.numDropped
  BY <1>1, EmptyOK
<1>3. QED
  BY <1>2, ClearedIs

\* What PropagateContinuity marks supports itself, and is all that does.
LEMMA NewlySupported ==
  ASSUME NEW b, NEW from
  PROVE  LET new == NewlyContinuous(b, from)
         IN  /\ new \subseteq Candidates(b, from)
             /\ SelfSupporting(b, new)
             /\ \A C \in SUBSET Candidates(b, from) : SelfSupporting(b, C) => C \subseteq new
  BY DEF NewlyContinuous, SelfSupporting

\* The fields once a frame is let in and what it makes continuous is marked.
LEMMA PropagateFields ==
  ASSUME NEW b, Shape(b), NEW f
  PROVE  LET e == Emplace(b, f)
             p == PropagateContinuity(e, f.id)
             new == NewlyContinuous(e, f.id)
             ends == {i \in new : e.frames[i].last}
         IN  /\ Shape(p) /\ Ids(e) = Ids(b) \cup {f.id} /\ e.continuous = b.continuous
             /\ e.decoded = b.decoded /\ e.frames = p.frames
             /\ p.frames = [i \in Ids(b) \cup {f.id} |-> IF i = f.id THEN f ELSE b.frames[i]]
             /\ p.continuous = b.continuous \cup new
             /\ p.lastFrame = Greatest(new \cup {b.lastFrame})
             /\ p.lastUnit = Greatest(ends \cup {b.lastUnit})
             /\ p.decoded = b.decoded /\ p.lastDecoded = b.lastDecoded
             /\ p.numContinuous = b.numContinuous + Cardinality(ends)
             /\ p.numDropped = b.numDropped
<1> DEFINE e == Emplace(b, f)
           p == PropagateContinuity(e, f.id)
           new == NewlyContinuous(e, f.id)
           ends == {i \in new : e.frames[i].last}
           frames == [i \in DOMAIN b.frames \cup {f.id} |-> IF i = f.id THEN f ELSE b.frames[i]]
<1>1. /\ Shape(e) /\ e.frames = frames /\ e.continuous = b.continuous
      /\ e.lastFrame = b.lastFrame /\ e.lastUnit = b.lastUnit /\ e.decoded = b.decoded
      /\ e.lastDecoded = b.lastDecoded /\ e.numContinuous = b.numContinuous
      /\ e.numDropped = b.numDropped
  BY DEF Emplace, Shape
<1> HIDE DEF e
<1>2. p = [e EXCEPT !.continuous = e.continuous \cup new,
                    !.lastFrame = Greatest(new \cup {e.lastFrame}),
                    !.lastUnit = Greatest(ends \cup {e.lastUnit}),
                    !.numContinuous = e.numContinuous + Cardinality(ends)]
  BY DEF PropagateContinuity
<1> HIDE DEF p, new, ends
<1>3. /\ Shape(p) /\ p.frames = e.frames /\ p.continuous = e.continuous \cup new
      /\ p.lastFrame = Greatest(new \cup {e.lastFrame})
      /\ p.lastUnit = Greatest(ends \cup {e.lastUnit})
      /\ p.decoded = e.decoded /\ p.lastDecoded = e.lastDecoded
      /\ p.numContinuous = e.numContinuous + Cardinality(ends)
      /\ p.numDropped = e.numDropped
  BY <1>1, <1>2 DEF Shape
<1>4. QED
  BY <1>1, <1>3 DEF Ids, e, p, new, ends

\* n is b with frame f: the frames that have become continuous have their references,
\* and one of them ends a unit if num_continuous_temporal_units_ grew.
GainedUnits(b, n) == b.numContinuous < n.numContinuous

Grown(b, f, n) ==
    /\ n.frames[f.id] = f /\ \A i \in Ids(b) : n.frames[i] = b.frames[i]
    /\ b.continuous \subseteq n.continuous
    /\ \A i \in n.continuous \ b.continuous : \A r \in Refs(n.frames[i]) :
            r \in b.decoded \cup n.continuous
    /\ b.lastUnit <= n.lastUnit
    /\ \A i \in n.continuous \ b.continuous : n.frames[i].last => GainedUnits(b, n)

LEMMA PropagateOK ==
  ASSUME NEW b, BufferOK(b), NEW f \in Stream, ValidReferences(f), f.id \notin Ids(b),
         ~ Full(b), b.lastDecoded < f.id
  PROVE  LET p == PropagateContinuity(Emplace(b, f), f.id)
         IN  /\ FramesOK(p) /\ Complete(p) /\ Reached(p)
             /\ Ids(p) = Ids(b) \cup {f.id}
             /\ p.decoded = b.decoded /\ p.lastDecoded = b.lastDecoded
             /\ p.numDropped = b.numDropped
             /\ Grown(b, f, p)
<1> DEFINE e == Emplace(b, f)
           p == PropagateContinuity(e, f.id)
           new == NewlyContinuous(e, f.id)
           ends == {i \in new : e.frames[i].last}
<1>1. FramesOK(b) /\ Complete(b) /\ Reached(b)
  BY DEF BufferOK
<1>2. /\ Shape(p) /\ Ids(e) = Ids(b) \cup {f.id} /\ e.continuous = b.continuous
      /\ e.decoded = b.decoded /\ e.frames = p.frames
      /\ p.frames = [i \in Ids(b) \cup {f.id} |-> IF i = f.id THEN f ELSE b.frames[i]]
      /\ p.continuous = b.continuous \cup new
      /\ p.lastFrame = Greatest(new \cup {b.lastFrame})
      /\ p.lastUnit = Greatest(ends \cup {b.lastUnit})
      /\ p.decoded = b.decoded /\ p.lastDecoded = b.lastDecoded
      /\ p.numContinuous = b.numContinuous + Cardinality(ends)
      /\ p.numDropped = b.numDropped
  BY <1>1, PropagateFields DEF FramesOK
<1>3. f.id \in Nat /\ Ids(b) \subseteq Nat
  BY <1>1, StreamAssumption DEF FramesOK, Frame
<1>4. /\ new \subseteq Candidates(e, f.id) /\ SelfSupporting(e, new)
      /\ \A C \in SUBSET Candidates(e, f.id) : SelfSupporting(e, C) => C \subseteq new
  BY NewlySupported
<1> HIDE DEF e, p, new
<1>5. /\ Ids(p) = Ids(b) \cup {f.id}
      /\ p.frames[f.id] = f /\ \A i \in Ids(b) : p.frames[i] = b.frames[i]
  BY <1>2 DEF Ids
<1>6. new \subseteq Ids(p) \ b.continuous /\ \A i \in new : i >= f.id
  BY <1>2, <1>4, <1>5 DEF Candidates
<1>7. IsFiniteSet(Ids(p)) /\ Cardinality(Ids(p)) = Cardinality(Ids(b)) + 1
  <2>1. IsFiniteSet(Ids(b))
    BY <1>1 DEF FramesOK
  <2>2. QED
    BY <1>5, <2>1, FS_AddElement
<1>8. /\ IsFiniteSet(new) /\ IsFiniteSet(ends) /\ Cardinality(ends) \in Nat
      /\ new \subseteq Nat /\ ends \subseteq new
  BY <1>3, <1>5, <1>6, <1>7, FS_Subset, FS_CardinalityType
<1>9. b.lastFrame \in Nat \cup {-1} /\ b.lastUnit \in Nat \cup {-1}
  BY <1>1 DEF FramesOK, OptionalId, None
<1>10. p.lastFrame \in OptionalId
  <2> DEFINE S == new \cup {b.lastFrame}
  <2>1. S \in SUBSET Int /\ IsFiniteSet(S) /\ S # {}
    <3>1. IsFiniteSet(S)
      BY <1>8, FS_AddElement
    <3>2. new \subseteq Int /\ b.lastFrame \in Int
      BY <1>8, <1>9
    <3>3. QED
      BY <3>1, <3>2
  <2>2. Greatest(S) \in S
    BY <2>1, GreatestExists
  <2>3. QED
    BY <1>2, <1>8, <1>9, <2>2 DEF OptionalId, None
<1>11. /\ p.lastUnit \in OptionalId /\ b.lastUnit <= p.lastUnit
       /\ \A l \in ends : l <= p.lastUnit
  <2> HIDE DEF ends
  <2> DEFINE S == ends \cup {b.lastUnit}
  <2>1. S \in SUBSET Int /\ IsFiniteSet(S) /\ S # {}
    <3>1. IsFiniteSet(S)
      BY <1>8, FS_AddElement
    <3>2. ends \subseteq Int /\ b.lastUnit \in Int
      BY <1>8, <1>9
    <3>3. QED
      BY <3>1, <3>2
  <2>2. Greatest(S) \in S /\ \A n \in S : n <= Greatest(S)
    BY <2>1, GreatestExists
  <2>3. QED
    BY <1>2, <1>8, <1>9, <2>2 DEF OptionalId, None
<1>12. FramesOK(p)
  <2>1. Cardinality(Ids(p)) <= MaxSize
    <3>1. Cardinality(Ids(b)) \in Nat /\ Cardinality(Ids(b)) <= MaxSize
          /\ Cardinality(Ids(b)) # MaxSize /\ MaxSize \in Nat
      BY <1>1, FS_CardinalityType, BufferAssumption DEF FramesOK, Full
    <3>2. QED
      BY <1>7, <3>1
  <2>2. \A i \in Ids(p) : /\ p.frames[i] \in Stream /\ p.frames[i].id = i
                          /\ ValidReferences(p.frames[i])
                          /\ p.lastDecoded < i
    BY <1>1, <1>2, <1>5 DEF FramesOK
  <2>3. p.numContinuous \in Nat
    <3> HIDE DEF ends
    <3>1. b.numContinuous \in Nat
      BY <1>1 DEF FramesOK
    <3>2. QED
      BY <1>2, <1>8, <3>1
  <2>4. p.continuous \subseteq Ids(p)
    BY <1>1, <1>2, <1>5, <1>6 DEF FramesOK
  <2>5. QED
    BY <1>1, <1>2, <1>3, <1>5, <1>7, <1>10, <1>11, <2>1, <2>2, <2>3, <2>4 DEF FramesOK
<1>13. Reached(p)
  <2>1. ASSUME NEW l \in b.continuous, p.frames[l].last PROVE l <= p.lastUnit
    <3>1. l \in Ids(b) /\ p.frames[l] = b.frames[l]
      BY <1>1, <1>5 DEF FramesOK
    <3>2. l <= b.lastUnit
      BY <1>1, <2>1, <3>1 DEF Reached
    <3>3. l \in Int /\ b.lastUnit \in Int /\ p.lastUnit \in Int
      BY <1>3, <1>9, <1>11, <3>1 DEF OptionalId, None
    <3>4. QED
      BY <1>11, <3>2, <3>3
  <2>2. ASSUME NEW l \in new, p.frames[l].last PROVE l <= p.lastUnit
    BY <1>2, <1>11, <2>2
  <2>3. QED
    BY <1>2, <2>1, <2>2 DEF Reached
<1>14. Complete(p)
  <2>1. SUFFICES ASSUME NEW C \in SUBSET (Ids(p) \ p.continuous), SelfSupporting(p, C)
                 PROVE  C = {}
    BY DEF Complete
  <2> DEFINE Low == {i \in C : i < f.id}
  <2>2. \A i \in C : i \in Nat /\ \A r \in Refs(p.frames[i]) :
            (WasDecoded(b, r) \/ r \in b.continuous \/ r \in new \/ r \in C)
    BY <1>2, <1>3, <1>5, <2>1 DEF SelfSupporting, WasDecoded
  <2>3. Low = {}
    <3>1. Low \in SUBSET (Ids(b) \ b.continuous)
      <4>1. \A i \in Low : i # f.id
        BY <1>3
      <4>2. QED
        BY <1>2, <1>5, <4>1
    <3>2. SelfSupporting(b, Low)
      <4>1. SUFFICES ASSUME NEW i \in Low, NEW r \in Refs(b.frames[i])
                     PROVE  WasDecoded(b, r) \/ r \in b.continuous \/ r \in Low
        BY DEF SelfSupporting
      <4>2. i \in Ids(b) /\ p.frames[i] = b.frames[i]
        BY <1>5, <3>1
      <4>3. r < i /\ i < f.id /\ i \in Nat
        BY <1>1, <1>3, <4>2 DEF FramesOK, ValidReferences
      <4>4. r \in Int
        <5>1. b.frames[i] \in Frame
          BY <1>1, <4>2, StreamAssumption DEF FramesOK
        <5>2. b.frames[i].refs \in Seq(Int)
          BY <5>1 DEF Frame
        <5>3. QED
          BY <5>2 DEF Refs
      <4>5. r \notin new
        BY <1>3, <1>6, <4>3, <4>4
      <4>6. r \in C => r \in Low
        BY <1>3, <4>3, <4>4
      <4>7. QED
        BY <2>2, <4>2, <4>5, <4>6
    <3>3. QED
      BY <1>1, <3>1, <3>2 DEF Complete
  <2>4. C \subseteq Candidates(e, f.id)
    <3>1. \A i \in C : i >= f.id
      BY <1>3, <2>2, <2>3
    <3>2. QED
      BY <1>2, <1>5, <3>1 DEF Candidates
  <2>5. SelfSupporting(e, C \cup new)
    <3>1. \A i \in C \cup new : \A r \in Refs(e.frames[i]) :
            (WasDecoded(e, r) \/ r \in e.continuous \/ r \in C \cup new)
      BY <1>2, <1>4, <2>2 DEF SelfSupporting, WasDecoded
    <3>2. QED
      BY <3>1 DEF SelfSupporting
  <2>6. C \cup new \subseteq new
    BY <1>4, <2>4, <2>5
  <2>7. QED
    BY <1>2, <2>6
<1>15. Grown(b, f, p)
  <2>1. \A i \in p.continuous \ b.continuous : \A r \in Refs(p.frames[i]) :
            r \in b.decoded \cup p.continuous
    BY <1>2, <1>4 DEF SelfSupporting, WasDecoded
  <2>2. ASSUME ~ GainedUnits(b, p), NEW i \in p.continuous \ b.continuous, p.frames[i].last
        PROVE  FALSE
    <3>1. i \in ends
      BY <1>2, <2>2
    <3> HIDE DEF ends
    <3>2. Cardinality(ends) # 0
      BY <1>8, <3>1, FS_EmptySet
    <3>3. b.numContinuous \in Nat
      BY <1>1 DEF FramesOK
    <3>4. QED
      BY <1>2, <1>8, <2>2, <3>2, <3>3 DEF GainedUnits
  <2>3. QED
    BY <1>2, <1>5, <1>11, <2>1, <2>2 DEF Grown
<1>16. QED
  BY <1>2, <1>5, <1>12, <1>13, <1>14, <1>15 DEF e, p

\* InsertFrame, as it returns.
LEMMA AcceptedOK ==
  ASSUME NEW b, BufferOK(b), NEW f \in Stream, Accepts(b, f)
  PROVE  LET n == InsertFrame(b, f)
             r == Cleared(b, f)
         IN  /\ BufferOK(n) /\ Ids(n) = Ids(r) \cup {f.id} /\ f.id \notin Ids(r)
             /\ n.decoded = r.decoded /\ n.lastDecoded = r.lastDecoded
             /\ n.numDropped = b.numDropped
             /\ Grown(r, f, n)
<1> DEFINE r == Cleared(b, f)
           p == PropagateContinuity(Emplace(r, f), f.id)
<1>1. BufferOK(r) /\ r.numDropped = b.numDropped
  BY ClearedOK
<1>2. f.id \in Nat
  BY StreamAssumption DEF Frame
<1>3. r.lastDecoded < f.id
  <2>1. b.numContinuous \in Nat /\ b.numDropped \in Nat /\ b.lastDecoded \in Nat \cup {-1}
    BY DEF BufferOK, FramesOK, OptionalId, None
  <2>2. Clear(b).lastDecoded = -1
    BY <2>1, EmptyOK DEF None
  <2>3. CASE r = Clear(b)
    BY <1>2, <2>2, <2>3
  <2>4. CASE r # Clear(b)
    <3>1. r = b /\ ~ (DecodedPast(b, f) /\ IdJump(b, f))
      BY <2>4, ClearedIs
    <3>2. ~ DecodedPast(b, f)
      BY <3>1 DEF Accepts
    <3>3. QED
      BY <1>2, <2>1, <3>1, <3>2 DEF DecodedPast
  <2>5. QED
    BY <2>3, <2>4
<1>4. ValidReferences(f) /\ ~ Full(r) /\ f.id \notin Ids(r)
  BY DEF Accepts
<1>5. InsertFrame(b, f) = FindNextAndLast(p)
  BY DEF InsertFrame
<1> HIDE DEF r
<1>6. /\ FramesOK(p) /\ Complete(p) /\ Reached(p)
      /\ Ids(p) = Ids(r) \cup {f.id}
      /\ p.decoded = r.decoded /\ p.lastDecoded = r.lastDecoded
      /\ p.numDropped = r.numDropped
      /\ Grown(r, f, p)
  BY <1>1, <1>3, <1>4, PropagateOK
<1> HIDE DEF p
<1>7. Shape(p)
  BY <1>6 DEF FramesOK
<1>8. /\ BufferOK(FindNextAndLast(p)) /\ FindNextAndLast(p).frames = p.frames
      /\ FindNextAndLast(p).decoded = p.decoded
      /\ FindNextAndLast(p).lastDecoded = p.lastDecoded
      /\ FindNextAndLast(p).numDropped = p.numDropped
      /\ FindNextAndLast(p).continuous = p.continuous
      /\ FindNextAndLast(p).lastUnit = p.lastUnit
      /\ FindNextAndLast(p).numContinuous = p.numContinuous
  BY <1>6, <1>7, FindOK, FindKeeps
<1>9. Ids(FindNextAndLast(p)) = Ids(p)
  BY <1>8 DEF Ids
<1>10. Grown(r, f, FindNextAndLast(p))
  BY <1>6, <1>8 DEF Grown, GainedUnits
<1>11. QED
  BY <1>1, <1>4, <1>5, <1>6, <1>8, <1>9, <1>10 DEF r

-------------------------------------------------------------------------------
(* ExtractNextDecodableTemporalUnit and DropNextDecodableTemporalUnit *)

\* n holds some frames of b, unchanged.
KeptOf(b, n) ==
    /\ Ids(n) \subseteq Ids(b) /\ \A i \in Ids(n) : n.frames[i] = b.frames[i]
    /\ n.continuous = b.continuous \cap Ids(n)

\* The next unit is erased with all that is older; d is b once the unit is marked
\* as decoded, or b.
LEMMA EraseOK ==
  ASSUME NEW b, BufferOK(b), HasNext(b),
         NEW d, Shape(d), d.frames = b.frames, d.continuous = b.continuous, d.next = b.next,
         d.lastFrame = b.lastFrame, d.lastUnit = b.lastUnit,
         d.decoded \subseteq b.decoded \cup NextUnit(b),
         d.lastDecoded \in {b.lastDecoded, b.next.last},
         d.numContinuous = b.numContinuous, d.numDropped = b.numDropped,
         NEW drops \in Nat
  PROVE  LET n == EraseNext(d, drops)
         IN  /\ BufferOK(n) /\ Ids(n) = Ids(b) \ Erased(b)
             /\ n.decoded = d.decoded /\ n.lastDecoded = d.lastDecoded
             /\ n.numDropped = b.numDropped + drops
             /\ KeptOf(b, n)
<1> DEFINE kept == Ids(b) \ Erased(b)
           k == [d EXCEPT !.frames = [i \in kept |-> d.frames[i]],
                          !.continuous = d.continuous \cap kept,
                          !.numDropped = d.numDropped + drops]
           l == b.next.last
<1>1. FramesOK(b) /\ Complete(b) /\ Reached(b) /\ Fresh(b)
  BY DEF BufferOK
<1>2. /\ l \in Ids(b) /\ Decodable(b, l)
      /\ NextUnit(b) = UnitEndingAt(b, l) /\ l \in NextUnit(b)
      /\ NextUnit(b) \subseteq Ids(b)
  BY <1>1, NextIsUnit DEF NextUnit
<1>3. Ids(d) = Ids(b) /\ Erased(d) = Erased(b)
  BY DEF Ids, Erased
<1>4. EraseNext(d, drops) = FindNextAndLast(k)
  BY <1>3 DEF EraseNext
<1> HIDE DEF kept, l
<1>5. /\ Shape(k) /\ k.frames = [i \in kept |-> d.frames[i]]
      /\ k.continuous = b.continuous \cap kept
      /\ k.lastFrame = b.lastFrame /\ k.lastUnit = b.lastUnit /\ k.decoded = d.decoded
      /\ k.lastDecoded = d.lastDecoded /\ k.numContinuous = b.numContinuous
      /\ k.numDropped = b.numDropped + drops
  <2> DEFINE frames == [i \in kept |-> d.frames[i]]
  <2> HIDE DEF frames
  <2>1. k = [d EXCEPT !.frames = frames, !.continuous = d.continuous \cap kept,
                      !.numDropped = d.numDropped + drops]
    BY DEF frames
  <2> HIDE DEF k
  <2>2. /\ Shape(k) /\ k.frames = frames
        /\ k.continuous = b.continuous \cap kept
        /\ k.lastFrame = b.lastFrame /\ k.lastUnit = b.lastUnit /\ k.decoded = d.decoded
        /\ k.lastDecoded = d.lastDecoded /\ k.numContinuous = b.numContinuous
        /\ k.numDropped = b.numDropped + drops
    BY <2>1 DEF Shape
  <2>3. QED
    BY <2>2 DEF frames
<1> HIDE DEF k
<1>6. Ids(k) = kept /\ \A i \in kept : k.frames[i] = b.frames[i]
  BY <1>5 DEF Ids
<1>7. kept \subseteq Ids(b) /\ \A i \in kept : i > l
  <2>1. \A i \in Ids(b) : i \in Nat
    BY <1>1 DEF FramesOK
  <2>2. QED
    BY <1>2, <2>1 DEF kept, Erased, l
<1>8. FramesOK(k)
  <2>1. IsFiniteSet(kept) /\ Cardinality(kept) <= MaxSize
    <3>1. IsFiniteSet(Ids(b)) /\ Cardinality(Ids(b)) <= MaxSize
      BY <1>1 DEF FramesOK
    <3>2. IsFiniteSet(kept) /\ Cardinality(kept) <= Cardinality(Ids(b))
      BY <1>7, <3>1, FS_Subset
    <3>3. Cardinality(kept) \in Nat /\ Cardinality(Ids(b)) \in Nat /\ MaxSize \in Nat
      BY <3>1, <3>2, FS_CardinalityType, BufferAssumption
    <3>4. QED
      BY <3>1, <3>2, <3>3
  <2>2. \A i \in kept : /\ k.frames[i] \in Stream /\ k.frames[i].id = i
                        /\ ValidReferences(k.frames[i])
                        /\ k.lastDecoded < i
    <3>1. \A i \in kept : b.lastDecoded < i /\ l < i
      BY <1>1, <1>7 DEF FramesOK
    <3>2. \A i \in kept : k.lastDecoded < i
      BY <1>5, <3>1 DEF l
    <3>3. QED
      BY <1>1, <1>6, <1>7, <3>2 DEF FramesOK
  <2>3. /\ b.numDropped + drops \in Nat /\ b.numContinuous \in Nat
        /\ b.lastFrame \in OptionalId /\ b.lastUnit \in OptionalId
    BY <1>1 DEF FramesOK
  <2>4. d.decoded \subseteq Nat /\ d.lastDecoded \in OptionalId
    BY <1>1, <1>2 DEF FramesOK, OptionalId, l
  <2>5. kept \subseteq Nat
    BY <1>1, <1>7 DEF FramesOK
  <2>6. QED
    BY <1>5, <1>6, <2>1, <2>2, <2>3, <2>4, <2>5 DEF FramesOK
\* The unit that leaves was continuous, so what it supported is so as well.
<1>9. NextUnit(b) \subseteq b.continuous
  <2> DEFINE U == NextUnit(b) \ b.continuous
  <2>1. U \in SUBSET (Ids(b) \ b.continuous)
    BY <1>2
  <2>2. SelfSupporting(b, U)
    BY <1>2 DEF SelfSupporting, Decodable
  <2>3. U = {}
    BY <1>1, <2>1, <2>2 DEF Complete
  <2>4. QED
    BY <2>3
<1>10. Complete(k)
  <2>1. SUFFICES ASSUME NEW C \in SUBSET (Ids(k) \ k.continuous), SelfSupporting(k, C)
                 PROVE  C = {}
    BY DEF Complete
  <2>2. C \in SUBSET (Ids(b) \ b.continuous)
    BY <1>5, <1>6, <1>7
  <2>3. SelfSupporting(b, C)
    BY <1>5, <1>6, <1>9, <2>1 DEF SelfSupporting, WasDecoded
  <2>4. QED
    BY <1>1, <2>2, <2>3 DEF Complete
<1>11. Reached(k)
  BY <1>1, <1>5, <1>6 DEF Reached
<1>12. /\ BufferOK(FindNextAndLast(k)) /\ FindNextAndLast(k).frames = k.frames
       /\ FindNextAndLast(k).decoded = k.decoded
       /\ FindNextAndLast(k).lastDecoded = k.lastDecoded
       /\ FindNextAndLast(k).numDropped = k.numDropped
       /\ FindNextAndLast(k).continuous = k.continuous
  BY <1>5, <1>8, <1>10, <1>11, FindOK, FindKeeps
<1>13. Ids(FindNextAndLast(k)) = kept
  BY <1>6, <1>12 DEF Ids
<1>14. KeptOf(b, FindNextAndLast(k))
  BY <1>5, <1>6, <1>12, <1>13 DEF KeptOf
<1>15. QED
  BY <1>4, <1>5, <1>12, <1>13, <1>14 DEF kept

LEMMA ErasedCounts ==
  ASSUME NEW b, FramesOK(b), Fresh(b), HasNext(b)
  PROVE  /\ Cardinality(Erased(b)) \in Nat /\ Cardinality(NextUnit(b)) \in Nat
         /\ DropsOfExtract(b) \in Nat
         /\ Cardinality(Erased(b)) = Cardinality(NextUnit(b)) + DropsOfExtract(b)
         /\ Cardinality(Ids(b) \ Erased(b)) = Cardinality(Ids(b)) - Cardinality(Erased(b))
         /\ Cardinality(Ids(b)) \in Nat /\ Cardinality(Ids(b) \ Erased(b)) \in Nat
<1>1. /\ NextUnit(b) \subseteq Erased(b) /\ Erased(b) \subseteq Ids(b)
      /\ IsFiniteSet(Ids(b))
  BY DEF NextUnit, Erased, FramesOK
<1>2. IsFiniteSet(Erased(b)) /\ IsFiniteSet(NextUnit(b))
  BY <1>1, FS_Subset
<1>3. Erased(b) \cap NextUnit(b) = NextUnit(b) /\ Ids(b) \cap Erased(b) = Erased(b)
  BY <1>1
<1>4. /\ IsFiniteSet(Erased(b) \ NextUnit(b))
      /\ Cardinality(Erased(b) \ NextUnit(b)) = Cardinality(Erased(b)) - Cardinality(NextUnit(b))
  BY <1>2, <1>3, FS_Difference
<1>5. /\ IsFiniteSet(Ids(b) \ Erased(b))
      /\ Cardinality(Ids(b) \ Erased(b)) = Cardinality(Ids(b)) - Cardinality(Erased(b))
  BY <1>1, <1>3, FS_Difference
<1>6. /\ Cardinality(Erased(b)) \in Nat /\ Cardinality(NextUnit(b)) \in Nat
      /\ Cardinality(Erased(b) \ NextUnit(b)) \in Nat /\ Cardinality(Ids(b)) \in Nat
      /\ Cardinality(Ids(b) \ Erased(b)) \in Nat
  BY <1>1, <1>2, <1>4, <1>5, FS_CardinalityType
<1>7. QED
  BY <1>4, <1>5, <1>6 DEF DropsOfExtract

\* DropNextDecodableTemporalUnit.
LEMMA DroppedOK ==
  ASSUME NEW b, BufferOK(b), HasNext(b)
  PROVE  LET n == DropNext(b)
         IN  /\ BufferOK(n) /\ Ids(n) = Ids(b) \ Erased(b)
             /\ n.decoded = b.decoded /\ n.lastDecoded = b.lastDecoded
             /\ n.numDropped = b.numDropped + Cardinality(Erased(b))
             /\ KeptOf(b, n)
<1>1. FramesOK(b) /\ Fresh(b) /\ Shape(b)
  BY DEF BufferOK, FramesOK
<1>2. Cardinality(Erased(b)) \in Nat
  BY <1>1, ErasedCounts
<1>3. DropNext(b) = EraseNext(b, Cardinality(Erased(b)))
  BY DEF DropNext
<1>4. QED
  BY <1>1, <1>2, <1>3, EraseOK

\* ExtractNextDecodableTemporalUnit.
LEMMA ExtractedOK ==
  ASSUME NEW b, BufferOK(b), HasNext(b)
  PROVE  LET n == ExtractNext(b)
         IN  /\ BufferOK(n) /\ Ids(n) = Ids(b) \ Erased(b)
             /\ n.decoded \subseteq b.decoded \cup NextUnit(b)
             /\ n.lastDecoded = b.next.last
             /\ n.numDropped = b.numDropped + DropsOfExtract(b)
             /\ KeptOf(b, n)
<1> DEFINE d == MarkDecoded(b)
           decoded == {i \in b.decoded \cup NextUnit(b) : i > b.next.last - History}
<1>1. FramesOK(b) /\ Fresh(b) /\ Shape(b)
  BY DEF BufferOK, FramesOK
<1>2. DropsOfExtract(b) \in Nat
  BY <1>1, ErasedCounts
<1>3. ExtractNext(b) = EraseNext(d, DropsOfExtract(b))
  BY DEF ExtractNext
<1>4. decoded \subseteq b.decoded \cup NextUnit(b)
  OBVIOUS
<1>5. d = [b EXCEPT !.decoded = decoded, !.lastDecoded = b.next.last,
                    !.lastDecodedTs = b.frames[b.next.last].ts]
  BY DEF MarkDecoded
<1> HIDE DEF d, decoded
<1>6. /\ Shape(d) /\ d.frames = b.frames /\ d.continuous = b.continuous /\ d.next = b.next
      /\ d.lastFrame = b.lastFrame /\ d.lastUnit = b.lastUnit
      /\ d.decoded = decoded /\ d.lastDecoded = b.next.last
      /\ d.numContinuous = b.numContinuous /\ d.numDropped = b.numDropped
  BY <1>1, <1>5 DEF Shape
<1>7. QED
  BY <1>2, <1>3, <1>4, <1>6, EraseOK

-------------------------------------------------------------------------------
(* Layers of a unit *)

\* A sender that numbers frames in order: one frame has an id, the frames of a unit
\* are next to each other, and is_last_spatial_layer is the highest one's.
Regular ==
    /\ \A f, g \in Stream : f.id = g.id => f = g
    /\ \A f, g, h \in Stream : f.id <= g.id /\ g.id <= h.id /\ f.ts = h.ts => g.ts = f.ts
    /\ \A f, g \in Stream : f.last /\ g.ts = f.ts => g.id <= f.id

Unit(ts) == {f \in Stream : f.ts = ts}

\* With a frame of a unit, what it refers to in the unit.
ClosedInUnit(S) == \A f \in S, g \in Stream : g.ts = f.ts /\ g.id \in Refs(f) => g \in S

\* A unit's last frame depends, itself or through others, on every frame of the unit
\* that a frame of the unit refers to; or on every frame of the unit.
TopNeedsReferenced ==
    \A l \in Stream, S \in SUBSET Stream :
        l.last /\ l \in S /\ S \subseteq Unit(l.ts) /\ ClosedInUnit(S) =>
            \A f, g \in Unit(l.ts) : f.id \in Refs(g) => f \in S

TopNeedsAll ==
    \A l \in Stream, S \in SUBSET Stream :
        l.last /\ l \in S /\ S \subseteq Unit(l.ts) /\ ClosedInUnit(S) => S = Unit(l.ts)

\* Continuous frames have what they need of their unit, and no frame of a unit that was
\* decoded is still to come.
UnitsOK(b) ==
    /\ \A i \in b.continuous, g \in Stream :
            g.ts = b.frames[i].ts /\ g.id \in Refs(b.frames[i]) => g.id \in b.continuous
    /\ \A f, g \in Stream : f.id \in b.decoded /\ g.ts = f.ts => g.id <= b.lastDecoded

\* A buffer that is filled from the stream, extracted from and dropped from.
StreamOK(b) ==
    /\ BufferOK(b)
    /\ \A i \in b.decoded : i <= b.lastDecoded
    /\ Regular => UnitsOK(b)

LEMMA EmptyStreamOK ==
  ASSUME NEW b, b.numContinuous \in Nat, b.numDropped \in Nat
  PROVE  StreamOK(Clear(b)) /\ Ids(Clear(b)) = {} /\ Clear(b).decoded = {}
<1> DEFINE d == Clear(b)
<1>1. BufferOK(d) /\ Ids(d) = {} /\ d.decoded = {}
  BY EmptyOK
<1> HIDE DEF d
<1>2. d.continuous = {}
  BY <1>1 DEF BufferOK, FramesOK
<1>3. StreamOK(d)
  BY <1>1, <1>2 DEF StreamOK, UnitsOK
<1>4. QED
  BY <1>1, <1>3 DEF d

\* What is decodable is continuous.
LEMMA DecodableIsContinuous ==
  ASSUME NEW b, BufferOK(b), NEW l \in Ids(b), Decodable(b, l)
  PROVE  l \in UnitEndingAt(b, l) /\ UnitEndingAt(b, l) \subseteq b.continuous
<1> DEFINE U == UnitEndingAt(b, l) \ b.continuous
<1>1. Complete(b) /\ Ids(b) \subseteq Nat
  BY DEF BufferOK, FramesOK
<1>2. U \in SUBSET (Ids(b) \ b.continuous)
  BY DEF UnitEndingAt
<1>3. SelfSupporting(b, U)
  BY DEF SelfSupporting, Decodable
<1>4. U = {}
  BY <1>1, <1>2, <1>3 DEF Complete
<1>5. l \in UnitEndingAt(b, l)
  BY <1>1 DEF UnitEndingAt
<1>6. QED
  BY <1>4, <1>5

\* In a regular stream the frames of a unit are those with its timestamp.
LEMMA UnitByTimestamp ==
  ASSUME Regular, NEW b, FramesOK(b), NEW l \in Ids(b)
  PROVE  UnitEndingAt(b, l) = {i \in Ids(b) : i <= l /\ b.frames[i].ts = b.frames[l].ts}
<1>1. \A i \in Ids(b) : i \in Nat /\ b.frames[i] \in Stream /\ b.frames[i].id = i
  BY DEF FramesOK
<1>2. \A i \in UnitEndingAt(b, l) : i \in Ids(b) /\ i <= l /\ b.frames[i].ts = b.frames[l].ts
  BY <1>1 DEF UnitEndingAt
<1>3. ASSUME NEW i \in Ids(b), i <= l, b.frames[i].ts = b.frames[l].ts,
             NEW j \in Ids(b), i <= j, j <= l
      PROVE  b.frames[j].ts = b.frames[l].ts
  BY <1>1, <1>3 DEF Regular
<1>4. QED
  BY <1>2, <1>3 DEF UnitEndingAt

LEMMA NextInfo ==
  ASSUME NEW b, BufferOK(b)
  PROVE  /\ HasNext(b) <=> DecodableEnds(b) # {}
         /\ HasNext(b) => \E f \in Stream : b.info.next = f.ts
<1>1. FramesOK(b) /\ Fresh(b)
  BY DEF BufferOK
<1>2. HasNext(b) => DecodableEnds(b) # {}
  <2>1. DecodableEnds(b) = {} => FindNextAndLast(b).next = NoUnit
    BY <1>1 DEF FindNextAndLast, FramesOK, Shape
  <2>2. QED
    BY <1>1, <2>1 DEF Fresh, HasNext
<1>3. DecodableEnds(b) # {} => HasNext(b)
  <2> SUFFICES ASSUME DecodableEnds(b) # {} PROVE HasNext(b)
    OBVIOUS
  <2> DEFINE e == DecodableEnds(b)
             first == Least(UnitEndingAt(b, Least(e)))
  <2>1. e \in SUBSET Nat
    BY <1>1 DEF DecodableEnds, FramesOK
  <2>2. Least(e) \in Nat
    BY <2>1, LeastExists
  <2>3. FindNextAndLast(b).next = [first |-> first, last |-> Least(e)]
    BY <1>1 DEF FindNextAndLast, FramesOK, Shape
  <2> HIDE DEF e, first
  <2>4. b.next.last = Least(e)
    BY <1>1, <2>3 DEF Fresh
  <2>5. QED
    BY <2>2, <2>4 DEF HasNext, NoUnit, None
<1>4. HasNext(b) => \E f \in Stream : b.info.next = f.ts
  <2>1. HasNext(b) => b.next.last \in Ids(b) /\ b.info.next = b.frames[b.next.last].ts
    BY <1>1, NextIsUnit
  <2>2. QED
    BY <1>1, <2>1 DEF FramesOK
<1>5. QED
  BY <1>2, <1>3, <1>4

\* Erasing a unit takes no frame from a later one.
LEMMA ErasedUnits ==
  ASSUME Regular, NEW b, BufferOK(b), HasNext(b), UnitsOK(b),
         NEW n, Ids(n) = Ids(b) \ Erased(b), KeptOf(b, n),
         NEW i \in n.continuous, NEW g \in Stream,
         g.ts = n.frames[i].ts, g.id \in Refs(n.frames[i])
  PROVE  g.id \in n.continuous
<1> DEFINE l == b.next.last
<1>1. FramesOK(b) /\ Fresh(b)
  BY DEF BufferOK
<1>2. l \in Ids(b) /\ b.frames[l].last
  BY <1>1, NextIsUnit
<1>3. i \in b.continuous /\ i \in Ids(n) /\ i \in Ids(b) /\ n.frames[i] = b.frames[i]
  BY DEF KeptOf
<1>4. g.id \in b.continuous /\ g.id \in Ids(b)
  BY <1>1, <1>3 DEF UnitsOK, FramesOK
<1>5. ~ (g.id <= l)
  <2>1. SUFFICES ASSUME g.id <= l PROVE FALSE
    OBVIOUS
  <2>2. /\ b.frames[i] \in Stream /\ b.frames[i].id = i
        /\ b.frames[l] \in Stream /\ b.frames[l].id = l
        /\ l \in Nat /\ i \in Nat
    BY <1>1, <1>2, <1>3 DEF FramesOK
  <2>3. ~ (i <= l)
    BY <1>3 DEF Erased
  <2>4. l <= i
    BY <2>2, <2>3
  <2>5. b.frames[l].ts = b.frames[i].ts
    BY <1>3, <2>1, <2>2, <2>4 DEF Regular
  <2>6. b.frames[i].id <= b.frames[l].id
    BY <1>2, <2>2, <2>5 DEF Regular
  <2>7. QED
    BY <2>2, <2>3, <2>6
<1>6. QED
  BY <1>4, <1>5 DEF KeptOf, Erased

LEMMA DropStreamOK ==
  ASSUME NEW b, StreamOK(b), HasNext(b)
  PROVE  LET n == DropNext(b)
         IN  StreamOK(n) /\ n.decoded = b.decoded /\ n.lastDecoded = b.lastDecoded
<1> DEFINE n == DropNext(b)
<1>1. BufferOK(b) /\ FramesOK(b) /\ Fresh(b)
  BY DEF StreamOK, BufferOK
<1>2. /\ BufferOK(n) /\ Ids(n) = Ids(b) \ Erased(b) /\ KeptOf(b, n)
      /\ n.decoded = b.decoded /\ n.lastDecoded = b.lastDecoded
  BY <1>1, DroppedOK
<1> HIDE DEF n
<1>3. ASSUME Regular PROVE UnitsOK(n)
  BY <1>1, <1>2, <1>3, ErasedUnits DEF StreamOK, UnitsOK
<1>4. QED
  BY <1>2, <1>3 DEF StreamOK, n

LEMMA ExtractStreamOK ==
  ASSUME NEW b, StreamOK(b), HasNext(b)
  PROVE  LET n == ExtractNext(b)
         IN  /\ StreamOK(n) /\ n.lastDecoded = b.next.last
             /\ n.decoded \subseteq b.decoded \cup NextUnit(b)
<1> DEFINE n == ExtractNext(b)
           l == b.next.last
<1>1. BufferOK(b) /\ FramesOK(b) /\ Fresh(b)
  BY DEF StreamOK, BufferOK
<1>2. /\ BufferOK(n) /\ Ids(n) = Ids(b) \ Erased(b) /\ KeptOf(b, n)
      /\ n.decoded \subseteq b.decoded \cup NextUnit(b) /\ n.lastDecoded = l
  BY <1>1, ExtractedOK
<1>3. /\ l \in Ids(b) /\ b.frames[l].last
      /\ NextUnit(b) \subseteq Ids(b)
      /\ \A i \in NextUnit(b) : i <= l /\ b.frames[i].ts = b.frames[l].ts
  BY <1>1, NextIsUnit DEF NextUnit
<1>4. /\ \A i \in Ids(b) : i \in Nat /\ b.frames[i] \in Stream /\ b.frames[i].id = i
      /\ b.lastDecoded \in Int /\ b.lastDecoded < l /\ b.decoded \subseteq Nat
  BY <1>1, <1>3 DEF FramesOK, OptionalId, None
<1> HIDE DEF n, l
<1>5. \A i \in n.decoded : i <= n.lastDecoded
  <2>1. ASSUME NEW i \in b.decoded PROVE i <= l
    <3>1. i <= b.lastDecoded
      BY DEF StreamOK
    <3>2. QED
      BY <1>3, <1>4, <3>1
  <2>2. QED
    BY <1>2, <1>3, <2>1
<1>6. ASSUME Regular PROVE UnitsOK(n)
  <2>1. UnitsOK(b)
    BY <1>6 DEF StreamOK
  <2>2. \A i \in n.continuous, g \in Stream :
            g.ts = n.frames[i].ts /\ g.id \in Refs(n.frames[i]) => g.id \in n.continuous
    BY <1>1, <1>2, <1>6, <2>1, ErasedUnits
  <2>3. ASSUME NEW f \in Stream, NEW g \in Stream, f.id \in n.decoded, g.ts = f.ts
        PROVE  g.id <= l
    <3>1. g.id \in Nat
      BY StreamAssumption DEF Frame
    <3>2. CASE f.id \in b.decoded
      <4>1. g.id <= b.lastDecoded
        BY <2>1, <2>3, <3>2 DEF UnitsOK
      <4>2. QED
        BY <1>3, <1>4, <3>1, <4>1
    <3>3. CASE f.id \in NextUnit(b)
      <4>1. f = b.frames[f.id]
        BY <1>3, <1>4, <1>6, <3>3 DEF Regular
      <4>2. f.ts = b.frames[l].ts
        BY <1>3, <3>3, <4>1
      <4>3. g.id <= b.frames[l].id
        BY <1>3, <1>4, <1>6, <2>3, <4>2 DEF Regular
      <4>4. QED
        BY <1>3, <1>4, <4>3
    <3>4. QED
      BY <1>2, <2>3, <3>2, <3>3
  <2>4. QED
    BY <1>2, <2>2, <2>3 DEF UnitsOK
<1>7. QED
  BY <1>2, <1>5, <1>6 DEF StreamOK, n, l

\* InsertFrame keeps the decode history or, where it clears the buffer, empties it.
LEMMA InsertStreamOK ==
  ASSUME NEW b, StreamOK(b), NEW f \in Stream
  PROVE  LET n == InsertFrame(b, f)
         IN  /\ StreamOK(n)
             /\ \/ n.decoded = b.decoded /\ n.lastDecoded = b.lastDecoded
                \/ n.decoded = {}
<1> DEFINE n == InsertFrame(b, f)
           r == Cleared(b, f)
<1>1. BufferOK(b) /\ b.numContinuous \in Nat /\ b.numDropped \in Nat
  BY DEF StreamOK, BufferOK, FramesOK
<1>2. StreamOK(r) /\ (r = b \/ r.decoded = {})
  <2>1. r = b \/ r = Clear(b)
    BY <1>1, ClearedIs
  <2>2. QED
    BY <1>1, <2>1, EmptyStreamOK
<1> HIDE DEF r
<1>3. CASE Accepts(b, f)
  <2>1. /\ BufferOK(n) /\ Ids(n) = Ids(r) \cup {f.id} /\ f.id \notin Ids(r)
        /\ n.decoded = r.decoded /\ n.lastDecoded = r.lastDecoded /\ Grown(r, f, n)
    BY <1>1, <1>3, AcceptedOK DEF r
  <2> HIDE DEF n
  <2>2. ASSUME Regular PROVE UnitsOK(n)
    <3>1. UnitsOK(r) /\ FramesOK(r) /\ FramesOK(n)
      BY <1>2, <2>1, <2>2 DEF StreamOK, BufferOK
    <3>2. ASSUME NEW i \in n.continuous, NEW g \in Stream,
                 g.ts = n.frames[i].ts, g.id \in Refs(n.frames[i])
          PROVE  g.id \in n.continuous
      <4>1. CASE i \in r.continuous
        <5>1. n.frames[i] = r.frames[i]
          BY <2>1, <3>1, <4>1 DEF Grown, FramesOK
        <5>2. QED
          BY <2>1, <3>1, <3>2, <4>1, <5>1 DEF UnitsOK, Grown
      <4>2. CASE i \notin r.continuous
        <5>1. g.id \in r.decoded \cup n.continuous
          BY <2>1, <3>2, <4>2 DEF Grown
        <5>2. i \in Ids(n) /\ n.frames[i] \in Stream /\ n.frames[i].id = i /\ n.lastDecoded < i
              /\ i \in Nat /\ n.lastDecoded \in Int
          BY <3>1 DEF FramesOK, OptionalId, None
        <5>3. g.id \in r.decoded => i <= r.lastDecoded
          BY <3>1, <3>2, <5>2 DEF UnitsOK
        <5>4. QED
          BY <2>1, <5>1, <5>2, <5>3
      <4>3. QED
        BY <4>1, <4>2
    <3>3. QED
      BY <2>1, <3>1, <3>2 DEF UnitsOK
  <2>3. StreamOK(n)
    BY <1>2, <2>1, <2>2 DEF StreamOK
  <2>4. QED
    BY <1>2, <2>1, <2>3 DEF n
<1>4. CASE ~ Accepts(b, f)
  BY <1>2, <1>4 DEF InsertFrame, r
<1>5. QED
  BY <1>3, <1>4

\* An insertion that does not add to num_continuous_temporal_units_ makes no unit
\* decodable that was not; nor, if units need all their frames, does one cease to be.
LEMMA QuietInsert ==
  ASSUME NEW b, StreamOK(b), NEW f \in Stream, Regular, TopNeedsReferenced,
         ~ GainedUnits(b, InsertFrame(b, f)), HasNext(InsertFrame(b, f))
  PROVE  HasNext(b) /\ (TopNeedsAll => InsertFrame(b, f).info.next = b.info.next)
<1> DEFINE n == InsertFrame(b, f)
           r == Cleared(b, f)
<1>1. BufferOK(b) /\ FramesOK(b) /\ Reached(b) /\ UnitsOK(b) /\ b.numContinuous \in Nat
      /\ b.numDropped \in Nat
  BY DEF StreamOK, BufferOK, FramesOK
<1>2. BufferOK(n) /\ DecodableEnds(n) # {}
  BY InsertStreamOK, NextInfo DEF StreamOK
<1>3. r = b \/ (r = Clear(b) /\ Ids(r) = {} /\ r.continuous = {}
                  /\ r.numContinuous = b.numContinuous /\ BufferOK(r))
  <2>1. r = b \/ r = Clear(b)
    BY <1>1, ClearedIs
  <2>2. BufferOK(Clear(b)) /\ Ids(Clear(b)) = {}
    BY <1>1, EmptyOK
  <2>3. Clear(b).continuous = {} /\ Clear(b).numContinuous = b.numContinuous
    BY DEF Clear, EmptyBuffer
  <2>4. QED
    BY <2>1, <2>2, <2>3
<1>4. CASE ~ Accepts(b, f)
  <2>1. n = b \/ n = r
    BY <1>4 DEF InsertFrame
  <2>2. Ids(n) # {}
    BY <1>2 DEF DecodableEnds
  <2>3. n = b
    BY <1>3, <2>1, <2>2
  <2>4. QED
    BY <2>3
<1>5. CASE Accepts(b, f)
  <2>1. /\ Ids(n) = Ids(r) \cup {f.id} /\ f.id \notin Ids(r)
        /\ n.decoded = r.decoded /\ n.lastDecoded = r.lastDecoded /\ Grown(r, f, n)
    BY <1>1, <1>5, AcceptedOK
  <2>2. ~ GainedUnits(r, n)
    BY <1>3 DEF GainedUnits
  <2> HIDE DEF n
  \* The end of a unit that is decodable now was continuous before.
  <2>3. ASSUME NEW l \in DecodableEnds(n) PROVE l \in r.continuous
    <3>1. l \in Ids(n) /\ n.frames[l].last /\ Decodable(n, l)
      BY DEF DecodableEnds
    <3>2. l \in n.continuous
      BY <1>2, <3>1, DecodableIsContinuous
    <3>3. QED
      BY <2>1, <2>2, <3>1, <3>2 DEF Grown
  <2>4. r = b
    <3>1. PICK l \in DecodableEnds(n) : TRUE
      BY <1>2
    <3>2. QED
      BY <1>3, <2>3, <3>1
  <2>5. /\ \A i \in Ids(b) : n.frames[i] = b.frames[i] /\ i \in Ids(n) /\ i # f.id
        /\ n.frames[f.id] = f /\ FramesOK(n)
        /\ \A i \in Ids(b) : i \in Nat /\ b.frames[i] \in Stream /\ b.frames[i].id = i
        /\ b.continuous \subseteq Ids(b)
    BY <1>1, <1>2, <2>1, <2>4 DEF Grown, BufferOK, FramesOK
  \* The frames of a unit that are continuous, of which f is none.
  <2>6. ASSUME NEW l \in b.continuous, b.frames[l].last
        PROVE  LET S == {g \in Unit(b.frames[l].ts) : g.id \in b.continuous}
               IN  S \subseteq Unit(b.frames[l].ts) /\ ClosedInUnit(S)
                   /\ b.frames[l] \in S /\ f \notin S
    <3> DEFINE S == {g \in Unit(b.frames[l].ts) : g.id \in b.continuous}
    <3>1. ASSUME NEW g \in S, NEW h \in Stream, h.ts = g.ts, h.id \in Refs(g)
          PROVE  h \in S
      <4>1. g \in Stream /\ g.ts = b.frames[l].ts /\ g.id \in b.continuous
        BY DEF Unit
      <4>2. g = b.frames[g.id]
        BY <2>5, <4>1 DEF Regular
      <4>3. h.id \in b.continuous
        BY <1>1, <3>1, <4>1, <4>2 DEF UnitsOK
      <4>4. QED
        BY <3>1, <4>1, <4>3 DEF Unit
    <3>2. f \notin S
      BY <2>5
    <3>3. QED
      BY <2>5, <3>1, <3>2 DEF ClosedInUnit, Unit
  <2>7. ASSUME NEW l \in DecodableEnds(n) PROVE l \in DecodableEnds(b)
    <3>1. l \in b.continuous /\ l \in Ids(b) /\ l \in Ids(n)
      BY <2>3, <2>4, <2>5, <2>7
    <3>2. b.frames[l].last /\ n.frames[l] = b.frames[l] /\ Decodable(n, l)
      BY <2>5, <3>1 DEF DecodableEnds
    <3>3. l <= b.lastUnit
      BY <1>1, <3>1, <3>2 DEF Reached
    <3>4. /\ UnitEndingAt(n, l) = {i \in Ids(n) : i <= l /\ n.frames[i].ts = n.frames[l].ts}
          /\ UnitEndingAt(b, l) = {i \in Ids(b) : i <= l /\ b.frames[i].ts = b.frames[l].ts}
      BY <1>1, <2>5, <3>1, UnitByTimestamp
    <3>5. ASSUME NEW i \in UnitEndingAt(b, l), NEW q \in Refs(b.frames[i])
          PROVE  WasDecoded(b, q) \/ q \in UnitEndingAt(b, l)
      <4>1. i \in UnitEndingAt(n, l) /\ n.frames[i] = b.frames[i]
        BY <2>5, <3>2, <3>4
      <4>2. WasDecoded(b, q) \/ q \in UnitEndingAt(n, l)
        BY <2>1, <2>4, <3>2, <3>5, <4>1 DEF Decodable, WasDecoded
      <4>3. ASSUME q = f.id, q \in UnitEndingAt(n, l) PROVE FALSE
        <5>1. f.ts = b.frames[l].ts
          BY <2>5, <3>2, <3>4, <4>3
        <5>2. b.frames[i] \in Unit(b.frames[l].ts) /\ f \in Unit(b.frames[l].ts)
          BY <2>5, <3>4, <5>1 DEF Unit
        <5> DEFINE S == {g \in Unit(b.frames[l].ts) : g.id \in b.continuous}
        <5>3. S \subseteq Unit(b.frames[l].ts) /\ ClosedInUnit(S)
              /\ b.frames[l] \in S /\ f \notin S
          BY <2>6, <3>1, <3>2
        <5>4. b.frames[l] \in Stream /\ S \in SUBSET Stream
          BY <2>5, <3>1 DEF Unit
        <5> HIDE DEF S
        <5>5. f \in S
          BY <3>2, <3>5, <4>3, <5>2, <5>3, <5>4 DEF TopNeedsReferenced
        <5>6. QED
          BY <5>3, <5>5
      <4>4. ASSUME q \in UnitEndingAt(n, l), q # f.id PROVE q \in UnitEndingAt(b, l)
        BY <2>1, <2>4, <2>5, <3>2, <3>4, <4>4
      <4>5. QED
        BY <4>2, <4>3, <4>4
    <3>6. Decodable(b, l)
      BY <3>5 DEF Decodable
    <3>7. QED
      BY <3>1, <3>2, <3>3, <3>6 DEF DecodableEnds
  <2>8. ASSUME TopNeedsAll, NEW l \in DecodableEnds(b) PROVE l \in DecodableEnds(n)
    <3>1. l \in Ids(b) /\ l \in Ids(n) /\ b.frames[l].last /\ Decodable(b, l) /\ l <= b.lastUnit
          /\ n.frames[l] = b.frames[l]
      BY <2>5, <2>8 DEF DecodableEnds
    <3>2. l \in b.continuous
      BY <1>1, <3>1, DecodableIsContinuous
    <3>3. f.ts # b.frames[l].ts
      <4> DEFINE S == {g \in Unit(b.frames[l].ts) : g.id \in b.continuous}
      <4>1. S \subseteq Unit(b.frames[l].ts) /\ ClosedInUnit(S)
            /\ b.frames[l] \in S /\ f \notin S
        BY <2>6, <3>1, <3>2
      <4>2. b.frames[l] \in Stream /\ S \in SUBSET Stream
        BY <2>5, <3>1 DEF Unit
      <4> HIDE DEF S
      <4>3. S = Unit(b.frames[l].ts)
        BY <2>8, <3>1, <4>1, <4>2 DEF TopNeedsAll
      <4>4. QED
        BY <4>1, <4>3 DEF Unit
    <3>4. /\ UnitEndingAt(n, l) = {i \in Ids(n) : i <= l /\ n.frames[i].ts = n.frames[l].ts}
          /\ UnitEndingAt(b, l) = {i \in Ids(b) : i <= l /\ b.frames[i].ts = b.frames[l].ts}
      BY <1>1, <2>5, <3>1, UnitByTimestamp
    <3>5. UnitEndingAt(n, l) = UnitEndingAt(b, l)
      BY <2>1, <2>4, <2>5, <3>1, <3>3, <3>4
    <3>6. \A i \in UnitEndingAt(b, l) : n.frames[i] = b.frames[i]
      BY <2>5, <3>4
    <3>7. Decodable(n, l)
      BY <2>1, <2>4, <3>1, <3>5, <3>6 DEF Decodable, WasDecoded
    <3>8. l <= n.lastUnit
      <4>1. b.lastUnit <= n.lastUnit /\ b.lastUnit \in Int /\ n.lastUnit \in Int /\ l \in Int
        BY <1>1, <2>1, <2>4, <2>5, <3>1 DEF Grown, FramesOK, OptionalId, None
      <4>2. QED
        BY <3>1, <4>1
    <3>9. QED
      BY <3>1, <3>7, <3>8 DEF DecodableEnds
  <2>9. HasNext(b)
    BY <1>1, <1>2, <2>7, NextInfo
  <2>10. ASSUME TopNeedsAll PROVE n.info.next = b.info.next
    <3>1. DecodableEnds(n) = DecodableEnds(b)
      BY <2>7, <2>8, <2>10
    <3>2. /\ n.next.last = Least(DecodableEnds(n)) /\ n.info.next = n.frames[n.next.last].ts
          /\ b.next.last = Least(DecodableEnds(b)) /\ b.info.next = b.frames[b.next.last].ts
          /\ b.next.last \in Ids(b)
      BY <1>1, <1>2, <2>9, NextIsUnit DEF BufferOK, n
    <3>3. QED
      BY <2>5, <3>1, <3>2
  <2>11. QED
    BY <2>9, <2>10 DEF n
<1>6. QED
  BY <1>4, <1>5

-------------------------------------------------------------------------------
(* The state machine *)

\* What was extracted since the last Clear() is what the history knows and what
\* is older than the frames that wait.
OutputInv ==
    /\ output \subseteq Stream
    /\ \A f \in output : f.id <= buf.lastDecoded
    /\ buf.decoded \subseteq {f.id : f \in output}

CountersInv ==
    /\ accepted \in Nat /\ cleared \in Nat /\ extracted \in Nat
    /\ FramesAccounted

IInv == BufferOK(buf) /\ OutputInv /\ CountersInv

LEMMA InitIInv == Init => IInv
<1> SUFFICES ASSUME Init PROVE IInv
  OBVIOUS
<1>1. /\ buf = EmptyBuffer /\ output = {} /\ accepted = 0 /\ cleared = 0 /\ extracted = 0
  BY DEF Init
<1>2. EmptyBuffer.numContinuous = 0 /\ EmptyBuffer.numDropped = 0
  BY DEF EmptyBuffer
<1>3. Clear(EmptyBuffer) = EmptyBuffer
  <2> DEFINE e == EmptyBuffer
  <2>1. Shape(e)
    BY DEF EmptyBuffer, Shape
  <2>2. Clear(e) = [e EXCEPT !.numContinuous = e.numContinuous, !.numDropped = e.numDropped]
    BY DEF Clear
  <2> HIDE DEF e
  <2>3. QED
    BY <2>1, <2>2 DEF Shape, e
<1>4. /\ BufferOK(buf) /\ Ids(buf) = {} /\ buf.decoded = {} /\ buf.numDropped = 0
  BY <1>1, <1>2, <1>3, EmptyOK
<1>5. Cardinality({}) = 0
  BY FS_EmptySet
<1>6. QED
  BY <1>1, <1>4, <1>5 DEF IInv, OutputInv, CountersInv, FramesAccounted

\* Whether a frame clears the buffer is what the ghosts say.
LEMMA ClearsIs ==
  ASSUME IInv, NEW f \in Stream
  PROVE  /\ Clears(f) => Cleared(buf, f) = Clear(buf)
         /\ ~ Clears(f) /\ ValidReferences(f) /\ (DecodedPast(buf, f) => IdJump(buf, f))
                => Cleared(buf, f) = buf
         /\ ~ (ValidReferences(f) /\ (DecodedPast(buf, f) => IdJump(buf, f)))
                => ~ Clears(f) /\ ~ Accepts(buf, f)
         /\ Accepts(buf, f) => ValidReferences(f) /\ (DecodedPast(buf, f) => IdJump(buf, f))
<1>1. BufferOK(buf)
  BY DEF IInv
<1>2. Cleared(buf, f) =
        IF (DecodedPast(buf, f) /\ IdJump(buf, f)) \/ (Full(buf) /\ IsKeyframe(f))
        THEN Clear(buf) ELSE buf
  BY <1>1, ClearedIs
<1>3. QED
  BY <1>2 DEF Clears, Accepts

LEMMA InsertIInv ==
  ASSUME IInv, NEW f \in Stream, Insert(f)
  PROVE  IInv' /\ (output' = output \/ output' = {})
<1> DEFINE r == Cleared(buf, f)
           lost == IF Clears(f) THEN Cardinality(Ids(buf)) ELSE 0
<1>1. /\ BufferOK(buf) /\ buf' = InsertFrame(buf, f)
      /\ accepted' = IF Accepts(buf, f) THEN accepted + 1 ELSE accepted
      /\ cleared' = IF Clears(f) THEN cleared + Cardinality(Ids(buf)) ELSE cleared
      /\ output' = (IF Clears(f) THEN {} ELSE output) /\ extracted' = extracted
  BY DEF IInv, Insert
<1>2. FramesOK(buf) /\ buf.numDropped \in Nat /\ buf.numContinuous \in Nat
  BY <1>1 DEF BufferOK, FramesOK
<1>3. IsFiniteSet(Ids(buf)) /\ Cardinality(Ids(buf)) \in Nat
  BY <1>2, FS_CardinalityType DEF FramesOK
\* What is left once the buffer was cleared, or not.
<1>4. ASSUME ValidReferences(f), DecodedPast(buf, f) => IdJump(buf, f)
      PROVE  /\ BufferOK(r) /\ r.numDropped = buf.numDropped
             /\ \A g \in output' : g.id <= r.lastDecoded
             /\ r.decoded \subseteq {g.id : g \in output'}
             /\ output' \subseteq Stream
             /\ IsFiniteSet(Ids(r)) /\ Cardinality(Ids(r)) \in Nat
             /\ Cardinality(Ids(buf)) + cleared = Cardinality(Ids(r)) + cleared'
  <2>1. BufferOK(r) /\ r.numDropped = buf.numDropped
    BY <1>1, ClearedOK
  <2>2. IsFiniteSet(Ids(r)) /\ Cardinality(Ids(r)) \in Nat
    BY <2>1, FS_CardinalityType DEF BufferOK, FramesOK
  <2>3. CASE Clears(f)
    <3>1. r = Clear(buf)
      BY <2>3, ClearsIs
    <3>2. Ids(r) = {} /\ r.decoded = {} /\ Cardinality({}) = 0
      BY <1>2, <3>1, EmptyOK, FS_EmptySet
    <3> HIDE DEF r
    <3>3. output' = {} /\ cleared' = cleared + Cardinality(Ids(buf))
      BY <1>1, <2>3
    <3>4. QED
      BY <1>3, <2>1, <2>2, <3>2, <3>3 DEF IInv, CountersInv
  <2>4. CASE ~ Clears(f)
    <3>1. r = buf
      BY <1>4, <2>4, ClearsIs
    <3>2. output' = output /\ cleared' = cleared
      BY <1>1, <2>4
    <3> HIDE DEF r
    <3>3. QED
      BY <2>1, <2>2, <3>1, <3>2 DEF IInv, OutputInv
  <2>5. QED
    BY <2>3, <2>4
<1>5. CASE Accepts(buf, f)
  <2>1. ValidReferences(f) /\ (DecodedPast(buf, f) => IdJump(buf, f))
    BY <1>5, ClearsIs
  <2>2. /\ BufferOK(buf') /\ Ids(buf') = Ids(r) \cup {f.id} /\ f.id \notin Ids(r)
        /\ buf'.decoded = r.decoded /\ buf'.lastDecoded = r.lastDecoded
        /\ buf'.numDropped = buf.numDropped
    BY <1>1, <1>5, AcceptedOK
  <2> HIDE DEF r
  <2>3. OutputInv'
    BY <1>4, <2>1, <2>2 DEF OutputInv
  <2>4. Cardinality(Ids(buf')) = Cardinality(Ids(r)) + 1
    BY <1>4, <2>1, <2>2, FS_AddElement
  <2>5. accepted' = accepted + 1
    BY <1>1, <1>5
  <2>6. CountersInv'
    BY <1>1, <1>2, <1>3, <1>4, <2>1, <2>2, <2>4, <2>5 DEF IInv, CountersInv, FramesAccounted
  <2>7. QED
    BY <1>1, <2>2, <2>3, <2>6 DEF IInv
<1>6. CASE ~ Accepts(buf, f) /\ ValidReferences(f) /\ (DecodedPast(buf, f) => IdJump(buf, f))
  <2>1. buf' = r
    BY <1>1, <1>6 DEF InsertFrame
  <2> HIDE DEF r
  <2>2. OutputInv'
    BY <1>4, <1>6, <2>1 DEF OutputInv
  <2>3. accepted' = accepted
    BY <1>1, <1>6
  <2>4. CountersInv'
    BY <1>1, <1>2, <1>3, <1>4, <1>6, <2>1, <2>3 DEF IInv, CountersInv, FramesAccounted
  <2>5. QED
    BY <1>1, <1>4, <1>6, <2>1, <2>2, <2>4 DEF IInv
<1>7. CASE ~ (ValidReferences(f) /\ (DecodedPast(buf, f) => IdJump(buf, f)))
  <2>1. ~ Clears(f) /\ ~ Accepts(buf, f)
    BY <1>7, ClearsIs
  <2>2. buf' = buf
    BY <1>1, <1>7, <2>1 DEF InsertFrame
  <2>3. UNCHANGED <<output, accepted, cleared, extracted>>
    BY <1>1, <2>1
  <2>4. QED
    BY <2>2, <2>3 DEF IInv, OutputInv, CountersInv, FramesAccounted
<1>8. QED
  BY <1>5, <1>6, <1>7

\* What Extract hands out is a unit the decoder can take.
LEMMA ExtractIInv ==
  ASSUME IInv, Extract
  PROVE  IInv' /\ \E unit \in SUBSET Stream : Decoder!Deliver(unit)
<1> DEFINE u == NextUnit(buf)
           l == buf.next.last
           unit == {buf.frames[i] : i \in u}
<1>1. /\ BufferOK(buf) /\ HasNext(buf) /\ buf' = ExtractNext(buf)
      /\ output' = output \cup unit
      /\ extracted' = extracted + Cardinality(u)
      /\ UNCHANGED <<accepted, cleared>>
  BY DEF IInv, Extract
<1>2. FramesOK(buf) /\ Fresh(buf)
  BY <1>1 DEF BufferOK
<1>3. /\ l \in Ids(buf) /\ buf.frames[l].last /\ Decodable(buf, l)
      /\ u = UnitEndingAt(buf, l) /\ l \in u
      /\ \A i \in u : i <= l /\ buf.frames[i].ts = buf.frames[l].ts
  BY <1>1, <1>2, NextIsUnit
<1>4. u \subseteq Ids(buf)
  BY DEF NextUnit
<1>5. /\ BufferOK(buf') /\ Ids(buf') = Ids(buf) \ Erased(buf)
      /\ buf'.decoded \subseteq buf.decoded \cup u
      /\ buf'.lastDecoded = l
      /\ buf'.numDropped = buf.numDropped + DropsOfExtract(buf)
  BY <1>1, ExtractedOK
<1> HIDE DEF u, l
<1>6. \A i \in u : /\ buf.frames[i] \in Stream /\ buf.frames[i].id = i
                   /\ i \in Nat /\ buf.lastDecoded < i
  BY <1>2, <1>4 DEF FramesOK
<1>7. /\ unit \subseteq Stream
      /\ \A f \in unit : f.id \in u /\ f = buf.frames[f.id]
      /\ \A i \in u : i \in {f.id : f \in unit}
  BY <1>6
<1>8. buf.lastDecoded \in Nat \cup {-1} /\ l \in Nat
  BY <1>2, <1>3 DEF FramesOK, OptionalId, None
<1>9. \A g \in output : g.id <= buf.lastDecoded /\ g.id \in Nat
  BY StreamAssumption DEF IInv, OutputInv, Frame
<1> HIDE DEF unit
<1>10. OutputInv'
  <2>1. \A f \in output' : f.id <= l
    <3>1. \A f \in unit : f.id <= l
      BY <1>3, <1>7
    <3>2. \A f \in output : f.id <= l
      BY <1>3, <1>6, <1>8, <1>9
    <3>3. QED
      BY <1>1, <3>1, <3>2
  <2>2. buf'.decoded \subseteq {f.id : f \in output'}
    BY <1>1, <1>5, <1>7 DEF IInv, OutputInv
  <2>3. QED
    BY <1>1, <1>5, <1>7, <2>1, <2>2 DEF IInv, OutputInv
<1>11. CountersInv'
  <2>1. /\ Cardinality(Erased(buf)) \in Nat /\ Cardinality(u) \in Nat
        /\ DropsOfExtract(buf) \in Nat
        /\ Cardinality(Erased(buf)) = Cardinality(u) + DropsOfExtract(buf)
        /\ Cardinality(Ids(buf) \ Erased(buf)) = Cardinality(Ids(buf)) - Cardinality(Erased(buf))
        /\ Cardinality(Ids(buf)) \in Nat /\ Cardinality(Ids(buf) \ Erased(buf)) \in Nat
    BY <1>1, <1>2, ErasedCounts DEF u
  <2>2. buf.numDropped \in Nat
    BY <1>2 DEF FramesOK
  <2>3. QED
    BY <1>1, <1>5, <2>1, <2>2 DEF IInv, CountersInv, FramesAccounted
<1>12. Decoder!Deliver(unit)
  <2>1. Decoder!IsUnit(unit)
    <3>1. buf.frames[l] \in unit
      BY <1>3 DEF unit
    <3>2. \A f, g \in unit : f.ts = g.ts /\ (f.id = g.id => f = g)
      <4>1. \A f \in unit : f.ts = buf.frames[l].ts
        BY <1>3, <1>7
      <4>2. QED
        BY <1>7, <4>1
    <3>3. \A g \in unit : g.id <= buf.frames[l].id
      BY <1>3, <1>6, <1>7
    <3>4. QED
      BY <1>3, <3>1, <3>2, <3>3 DEF Decoder!IsUnit
  <2>2. \A f \in unit, g \in output : g.id < f.id
    BY <1>6, <1>7, <1>8, <1>9
  <2>3. \A f \in unit : Decoder!References(f) \subseteq Decoder!IdsOf(output \cup unit)
    <3>1. SUFFICES ASSUME NEW f \in unit, NEW r \in Refs(f)
                   PROVE  r \in {g.id : g \in output \cup unit}
      BY DEF Decoder!References, Decoder!IdsOf, Refs
    <3>2. r \in buf.decoded \/ r \in u
      BY <1>3, <1>7 DEF Decodable, WasDecoded
    <3>3. QED
      BY <1>7, <3>2 DEF IInv, OutputInv
  <2>4. QED
    BY <1>1, <2>1, <2>2, <2>3 DEF Decoder!Deliver
<1>13. QED
  BY <1>5, <1>7, <1>10, <1>11, <1>12 DEF IInv

LEMMA DropIInv ==
  ASSUME IInv, Drop
  PROVE  IInv' /\ output' = output
<1>1. /\ BufferOK(buf) /\ HasNext(buf) /\ buf' = DropNext(buf)
      /\ UNCHANGED <<output, accepted, cleared, extracted>>
  BY DEF IInv, Drop
<1>2. FramesOK(buf) /\ Fresh(buf) /\ buf.numDropped \in Nat
  BY <1>1 DEF BufferOK, FramesOK
<1>3. /\ BufferOK(buf') /\ Ids(buf') = Ids(buf) \ Erased(buf)
      /\ buf'.decoded = buf.decoded /\ buf'.lastDecoded = buf.lastDecoded
      /\ buf'.numDropped = buf.numDropped + Cardinality(Erased(buf))
  BY <1>1, DroppedOK
<1>4. /\ Cardinality(Erased(buf)) \in Nat
      /\ Cardinality(Ids(buf) \ Erased(buf)) = Cardinality(Ids(buf)) - Cardinality(Erased(buf))
      /\ Cardinality(Ids(buf)) \in Nat /\ Cardinality(Ids(buf) \ Erased(buf)) \in Nat
  BY <1>1, <1>2, ErasedCounts
<1>5. OutputInv'
  BY <1>1, <1>3 DEF IInv, OutputInv
<1>6. CountersInv'
  BY <1>1, <1>2, <1>3, <1>4 DEF IInv, CountersInv, FramesAccounted
<1>7. QED
  BY <1>1, <1>3, <1>5, <1>6 DEF IInv

LEMMA NextIInv == IInv /\ [Next]_vars => IInv'
<1> SUFFICES ASSUME IInv, [Next]_vars PROVE IInv'
  OBVIOUS
<1>1. CASE UNCHANGED vars
  BY <1>1 DEF vars, IInv, OutputInv, CountersInv, FramesAccounted
<1>2. QED
  BY <1>1, InsertIInv, ExtractIInv, DropIInv DEF Next

\* The inductive invariant holds for any stream, capacity, history window and
\* field trial.
THEOREM Invariance == Spec => []IInv
  BY InitIInv, NextIInv, PTL DEF Spec

\* The buffer's fields have their types and frames_ never exceeds max_size_.
THEOREM TypeCorrect == Spec => []TypeOK
<1>1. IInv => TypeOK
  BY DEF IInv, BufferOK, FramesOK, OutputInv, CountersInv, TypeOK
<1>2. QED
  BY <1>1, Invariance, PTL

\* next_decodable_temporal_unit_ and decodable_temporal_units_info_ are what a new
\* scan would find, although some calls skip it: no call leaves them stale.
THEOREM CacheIsFresh == Spec => []NextUnitFresh
<1>1. IInv => NextUnitFresh
  BY DEF IInv, BufferOK, Fresh, NextUnitFresh
<1>2. QED
  BY <1>1, Invariance, PTL

\* Whatever the order of arrival, PropagateContinuity has marked every frame of a
\* complete and decodable unit, so that the scan does not stop before it.
THEOREM NoUnitHidden == Spec => []DecodableUnitsFound
<1>1. IInv => DecodableUnitsFound
  <2> SUFFICES ASSUME IInv, NEW l \in Ids(buf), buf.frames[l].last, Decodable(buf, l)
               PROVE  l <= buf.lastUnit
    BY DEF DecodableUnitsFound
  <2>1. FramesOK(buf) /\ Complete(buf) /\ Reached(buf)
    BY DEF IInv, BufferOK
  <2> DEFINE U == UnitEndingAt(buf, l) \ buf.continuous
  <2>2. U \in SUBSET (Ids(buf) \ buf.continuous)
    BY DEF UnitEndingAt
  <2>3. SelfSupporting(buf, U)
    BY DEF SelfSupporting, Decodable, UnitEndingAt
  <2>4. U = {}
    BY <2>1, <2>2, <2>3 DEF Complete
  <2>5. l \in UnitEndingAt(buf, l)
    <3>1. l \in Nat /\ \A j \in Ids(buf) : j \in Nat
      BY <2>1 DEF FramesOK
    <3>2. \A j \in Ids(buf) : l <= j /\ j <= l => j = l
      BY <3>1
    <3>3. QED
      BY <3>1, <3>2 DEF UnitEndingAt
  <2>6. l \in buf.continuous
    BY <2>4, <2>5
  <2>7. QED
    BY <2>1, <2>6 DEF Reached
<1>2. QED
  BY <1>1, Invariance, PTL

\* Frames that InsertFrame accepts are buffered, handed out, counted as dropped
\* or cleared, each once.
THEOREM FramesAreAccounted == Spec => []FramesAccounted
<1>1. IInv => FramesAccounted
  BY DEF IInv, CountersInv
<1>2. QED
  BY <1>1, Invariance, PTL

\* FrameBuffer implements DecodableStream: an extraction delivers a whole, newer
\* unit whose references were delivered, a Clear() restarts the stream, and
\* nothing else shows.
THEOREM Implements == Spec => ImplementsDecodableStream
<1>1. Init => Decoder!StreamInit
  BY DEF Init, Decoder!StreamInit
<1>2. IInv /\ [Next]_vars => [Decoder!StreamNext]_output
  <2> SUFFICES ASSUME IInv, [Next]_vars PROVE [Decoder!StreamNext]_output
    OBVIOUS
  <2>1. ASSUME NEW f \in Stream, Insert(f) PROVE [Decoder!StreamNext]_output
    BY <2>1, InsertIInv DEF Decoder!StreamNext, Decoder!Restart
  <2>2. CASE Extract
    BY <2>2, ExtractIInv DEF Decoder!StreamNext
  <2>3. CASE Drop
    BY <2>3, DropIInv
  <2>4. CASE UNCHANGED vars
    BY <2>4 DEF vars
  <2>5. QED
    BY <2>1, <2>2, <2>3, <2>4 DEF Next
<1>3. QED
  BY <1>1, <1>2, Invariance, PTL DEF Spec, ImplementsDecodableStream, Decoder!StreamSpec
===============================================================================
