----------------------- MODULE VideoReceiveStreamProofs -----------------------
(***************************************************************************)
(* What the decode cycle promises for any stream, buffer size and bounds:  *)
(* the timeout is armed while the decoder waits and, for the streams the   *)
(* theorems name, a decodable unit is scheduled, the scheduled unit is the *)
(* one that is next, and the decoder has what its frames refer to.         *)
(***************************************************************************)
EXTENDS VideoReceiveStream, SequenceTheorems, FiniteSetTheorems, TLAPS

\* What is proved of the operators of FrameBuffer, and what it calls a stream.
Buffer == INSTANCE FrameBufferProofs WITH
              buf <- ctrl.buf, output <- fed, accepted <- inserts,
              cleared <- 0, extracted <- 0, MaxAccepted <- MaxInserts

Timestamps == {None} \cup {f.ts : f \in Stream}

\* The controller's members; what is scheduled is a timestamp of the stream.
CtrlOK(c) ==
    /\ c = [buf |-> c.buf, ready |-> c.ready, keyframeRequired |-> c.keyframeRequired,
            scheduled |-> c.scheduled, timer |-> c.timer]
    /\ Buffer!StreamOK(c.buf)
    /\ c.ready \in BOOLEAN /\ c.keyframeRequired \in BOOLEAN /\ c.timer \in BOOLEAN
    /\ c.scheduled \in Timestamps

IsFrameTask(q, k) == k \in DOMAIN q /\ q[k].kind = "frame"
HasFrame(q) == \E k \in DOMAIN q : IsFrameTask(q, k)
OneFrame(q) == \A j, k \in DOMAIN q : IsFrameTask(q, j) /\ IsFrameTask(q, k) => j = k

\* The decoder waits for a frame, has one in its queue, or has a result on its way; only
\* a decoder that waits, and not for a keyframe, has a release scheduled.
Turn(c, queue, res, kr) ==
    /\ c.ready => ~ HasFrame(queue) /\ res = <<>> /\ (kr => c.keyframeRequired)
    /\ res # <<>> => Len(res) = 1 /\ ~ HasFrame(queue)
    /\ OneFrame(queue)
    /\ c.scheduled # None => c.ready /\ ~ c.keyframeRequired

\* The decoded frames a buffer knows were given to the decoder, or are older than a
\* keyframe that was.
Feeds(b, S) ==
    \A i \in b.decoded :
        \/ \E f \in S : f.id = i
        \/ \E k \in S : IsKeyframe(k) /\ i < k.id /\ k.id <= b.lastDecoded

\* Either a keyframe is required and nothing was given since, or the decoder knows what
\* the history knows.
Known(c, queue, res, kr, S) ==
    \/ S = {} /\ kr /\ ~ HasFrame(queue) /\ res = <<>>
    \/ Feeds(c.buf, S) /\ ~ (c.ready /\ c.keyframeRequired)

\* A frame after a keyframe refers to nothing before it.
KeyframesCut ==
    \A k, f \in Stream : IsKeyframe(k) /\ k.id <= f.id => \A r \in Refs(f) : k.id <= r

\* What the frames of S refer to is in S.
ClosedSet(S) == \A f \in S : \A r \in Refs(f) : \E g \in S : g.id = r

\* What the decoder was given, for a controller that waits for what the stream requires.
Given(c, queue, res, kr, S) ==
    /\ c.ready => c.keyframeRequired = kr
    /\ Known(c, queue, res, kr, S)
    /\ KeyframesCut => ClosedSet(S)

\* The unit that is next is the scheduled one, or one at least is scheduled, where the
\* last frames of the units stand for the others.
Scheduling(c) ==
    /\ Buffer!Regular /\ Buffer!TopNeedsReferenced =>
           (c.ready /\ HasNext(c.buf) => c.scheduled # None)
    /\ Buffer!Regular /\ Buffer!TopNeedsAll =>
           (c.ready /\ HasNext(c.buf) => c.scheduled = c.buf.info.next)

\* The controller between two calls.
Settled(c) == CtrlOK(c) /\ (c.ready => c.timer) /\ Scheduling(c)

Types ==
    /\ {running, stopping, required, requested, generating,
        decoderStopped, frameDecoded, rested, keyed} \subseteq BOOLEAN
    /\ decodeQueue \in Seq(Task)
    /\ results \in Seq(Result)
    /\ fed \subseteq Stream
    /\ inserts \in 0 .. MaxInserts /\ starts \in 0 .. MaxStarts

\* Nothing has happened before the first Start().
Unstarted == required /\ ~ ctrl.ready /\ ~ HasFrame(decodeQueue) /\ results = <<>>

\* The first Start() finds the cycle at rest and a keyframe required; a later one may find
\* a release scheduled, or a result on its way.
IInv ==
    /\ Types
    /\ Settled(ctrl)
    /\ rested => Turn(ctrl, decodeQueue, results, required)
    /\ keyed => rested /\ Given(ctrl, decodeQueue, results, required, fed)
    /\ starts <= 1 => keyed
    /\ starts = 0 => Unstarted

-------------------------------------------------------------------------------
(* The buffer *)

LEMMA SameOperators ==
  /\ Buffer!None = None /\ Buffer!NoUnit = NoUnit /\ Buffer!EmptyBuffer = EmptyBuffer
  /\ \A f : Buffer!Refs(f) = Refs(f)
  /\ \A f : Buffer!IsKeyframe(f) <=> IsKeyframe(f)
  /\ \A b : Buffer!Ids(b) = Ids(b)
  /\ \A b : Buffer!HasNext(b) <=> HasNext(b)
  /\ \A b : Buffer!NextUnit(b) = NextUnit(b)
  /\ \A b, d : Buffer!GainedUnits(b, d) <=> GainedUnits(b, d)
<1>1. Buffer!None = None
  BY DEF Buffer!None, None
<1>2. Buffer!NoUnit = NoUnit /\ Buffer!NoInfo = NoInfo
  BY <1>1 DEF Buffer!NoUnit, NoUnit, Buffer!NoInfo, NoInfo
<1>3. Buffer!EmptyBuffer = EmptyBuffer
  BY <1>1, <1>2 DEF Buffer!EmptyBuffer, EmptyBuffer
<1>4. \A b : Buffer!HasNext(b) <=> HasNext(b)
  BY <1>2 DEF Buffer!HasNext, HasNext
<1>5. \A b : Buffer!Ids(b) = Ids(b)
  BY DEF Buffer!Ids, Ids
<1>6. \A b : Buffer!NextUnit(b) = NextUnit(b)
  BY <1>5 DEF Buffer!NextUnit, NextUnit
<1>7. QED
  BY <1>1, <1>2, <1>3, <1>4, <1>5, <1>6
     DEF Buffer!Refs, Refs, Buffer!IsKeyframe, IsKeyframe,
         Buffer!GainedUnits, GainedUnits

\* What FrameBufferProofs assumes.
LEMMA Assumptions == Buffer!BufferAssumption /\ Buffer!StreamAssumption
<1>1. Buffer!Frame = Frame
  BY DEF Buffer!Frame, Frame
<1>2. QED
  BY <1>1, BufferAssumption, StreamAssumption DEF Buffer!BufferAssumption, Buffer!StreamAssumption

LEMMA SameFind == \A b : Buffer!FindNextAndLast(b) = FindNextAndLast(b)
<1>1. Buffer!NoUnit = NoUnit /\ Buffer!NoInfo = NoInfo
  BY DEF Buffer!NoUnit, NoUnit, Buffer!NoInfo, NoInfo, Buffer!None, None
<1>2. \A S : Buffer!Least(S) = Least(S) /\ Buffer!Greatest(S) = Greatest(S)
  BY DEF Buffer!Least, Least, Buffer!Greatest, Greatest
<1>3. \A b, l : Buffer!UnitEndingAt(b, l) = UnitEndingAt(b, l)
  BY SameOperators DEF Buffer!UnitEndingAt, UnitEndingAt
<1>4. \A b, l : Buffer!Decodable(b, l) <=> Decodable(b, l)
  BY <1>3, SameOperators DEF Buffer!Decodable, Decodable, Buffer!WasDecoded, WasDecoded
<1>5. \A b : Buffer!DecodableEnds(b) = DecodableEnds(b)
  BY <1>4, SameOperators DEF Buffer!DecodableEnds, DecodableEnds
<1>6. QED
  BY <1>1, <1>2, <1>3, <1>5 DEF Buffer!FindNextAndLast, FindNextAndLast

LEMMA SameErase ==
  /\ \A b : Buffer!DropNext(b) = DropNext(b)
  /\ \A b : Buffer!ExtractNext(b) = ExtractNext(b)
<1>1. \A b : Buffer!Erased(b) = Erased(b)
  BY SameOperators DEF Buffer!Erased, Erased
<1>2. \A S : Buffer!Cardinality(S) = Cardinality(S)
  BY DEF Buffer!Cardinality, Cardinality
<1>3. \A b, drops : Buffer!EraseNext(b, drops) = EraseNext(b, drops)
  BY <1>1, SameFind, SameOperators DEF Buffer!EraseNext, EraseNext
<1>4. \A b : Buffer!DropsOfExtract(b) = DropsOfExtract(b)
  BY <1>1, <1>2, SameOperators DEF Buffer!DropsOfExtract, DropsOfExtract
<1>5. \A b : Buffer!MarkDecoded(b) = MarkDecoded(b)
  BY SameOperators DEF Buffer!MarkDecoded, MarkDecoded
<1>6. QED
  BY <1>1, <1>2, <1>3, <1>4, <1>5, SameOperators
     DEF Buffer!DropNext, DropNext, Buffer!ExtractNext, ExtractNext

LEMMA SameInsert == \A b, f : Buffer!InsertFrame(b, f) = InsertFrame(b, f)
<1>1. \A S : Buffer!Greatest(S) = Greatest(S) /\ Buffer!Cardinality(S) = Cardinality(S)
  BY DEF Buffer!Greatest, Greatest, Buffer!Cardinality, Cardinality
<1>2. \A b : Buffer!Clear(b) = Clear(b)
  BY SameOperators DEF Buffer!Clear, Clear
<1>3. \A b : Buffer!Full(b) <=> Full(b)
  BY <1>1, SameOperators DEF Buffer!Full, Full
<1>4. \A b, f : /\ Buffer!DecodedPast(b, f) <=> DecodedPast(b, f)
                /\ Buffer!IdJump(b, f) <=> IdJump(b, f)
  BY SameOperators
     DEF Buffer!DecodedPast, DecodedPast, Buffer!IdJump, IdJump, Buffer!Legacy, Legacy,
         Buffer!AheadOf, AheadOf
<1>5. \A b, f : Buffer!Cleared(b, f) = Cleared(b, f)
  BY <1>2, <1>3, <1>4, SameOperators DEF Buffer!Cleared, Cleared
<1>6. \A f : Buffer!ValidReferences(f) <=> ValidReferences(f)
  BY SameOperators DEF Buffer!ValidReferences, ValidReferences
<1>7. \A b, f : Buffer!Accepts(b, f) <=> Accepts(b, f)
  BY <1>3, <1>4, <1>5, <1>6, SameOperators DEF Buffer!Accepts, Accepts
<1>8. \A b, S : Buffer!SelfSupporting(b, S) <=> SelfSupporting(b, S)
  BY SameOperators DEF Buffer!SelfSupporting, SelfSupporting, Buffer!WasDecoded, WasDecoded
<1>9. \A b, from : Buffer!NewlyContinuous(b, from) = NewlyContinuous(b, from)
  BY <1>8, SameOperators DEF Buffer!NewlyContinuous, NewlyContinuous, Buffer!Candidates, Candidates
<1>10. \A b, from : Buffer!PropagateContinuity(b, from) = PropagateContinuity(b, from)
  BY <1>1, <1>9 DEF Buffer!PropagateContinuity, PropagateContinuity
<1>11. \A b, f : Buffer!Emplace(b, f) = Emplace(b, f)
  BY DEF Buffer!Emplace, Emplace
<1>12. QED
  BY <1>4, <1>5, <1>6, <1>7, <1>10, <1>11, SameFind
     DEF Buffer!InsertFrame, InsertFrame

-------------------------------------------------------------------------------
(* The loops over the buffer *)

\* The buffers the loop of ForceKeyFrameReleaseImmediately goes through, by the
\* number of units it has skipped.
LEMMA SkippingOK ==
  ASSUME NEW b, Buffer!StreamOK(b)
  PROVE  \A x \in Skipping(b) : Buffer!StreamOK(x)
<1> DEFINE Step(S) == {ExtractNext(x) : x \in {y \in S : Skips(y)}}
           Upto(m, f) == f = [n \in 0 .. m |-> IF n = 0 THEN {b} ELSE Step(f[n - 1])]
           after == CHOOSE f : Upto(MaxSize, f)
           Without == {m \in Nat : \A f : ~ Upto(m, f)}
           Wrong == {n \in 0 .. MaxSize : \E x \in after[n] : ~ Buffer!StreamOK(x)}
<1>1. Skipping(b) = UNION {after[n] : n \in 0 .. MaxSize}
  BY DEF Skipping
<1>2. MaxSize \in Nat
  BY BufferAssumption
<1> HIDE DEF Step
<1>3. Without = {}
  <2> SUFFICES ASSUME Without # {} PROVE FALSE
    OBVIOUS
  <2> DEFINE m == Buffer!Least(Without)
  <2> HIDE DEF Upto
  <2>10. Without \in SUBSET Nat
    OBVIOUS
  <2> HIDE DEF Without
  <2>11. m \in Without /\ \A k \in Without : m <= k
    BY <2>10, Assumptions, Buffer!LeastExists
  <2>1. m \in Nat /\ ~ (\E f : Upto(m, f)) /\ \A k \in Without : m <= k
    BY <2>11 DEF Without
  <2> HIDE DEF m
  <2>2. m # 0
    <3> SUFFICES ASSUME m = 0 PROVE FALSE
      OBVIOUS
    <3> DEFINE f == [n \in 0 .. 0 |-> {b}]
    <3>1. Upto(0, f)
      BY DEF Upto
    <3>2. QED
      BY <2>1, <3>1
  <2>3. m - 1 \in Nat /\ ~ (m <= m - 1)
    BY <2>1, <2>2
  <2>4. PICK g : Upto(m - 1, g)
    BY <2>1, <2>3 DEF Without
  <2> DEFINE f == [n \in 0 .. m |-> IF n = m THEN Step(g[m - 1]) ELSE g[n]]
  <2>5. Upto(m, f)
    <3>1. DOMAIN f = 0 .. m
      OBVIOUS
    <3>2. ASSUME NEW n \in 0 .. m
          PROVE  f[n] = IF n = 0 THEN {b} ELSE Step(f[n - 1])
      <4>1. CASE n = m
        BY <2>1, <2>2, <4>1
      <4>2. CASE n # m
        <5>1. n \in 0 .. m - 1 /\ (n # 0 => n - 1 \in 0 .. m /\ n - 1 # m)
          BY <2>1, <4>2
        <5>2. g[n] = IF n = 0 THEN {b} ELSE Step(g[n - 1])
          BY <2>4, <5>1 DEF Upto
        <5>3. QED
          BY <4>2, <5>1, <5>2
      <4>3. QED
        BY <4>1, <4>2
    <3>3. QED
      BY <3>1, <3>2 DEF Upto
  <2>6. QED
    BY <2>1, <2>5
<1>4. Upto(MaxSize, after)
  <2> HIDE DEF Upto
  <2>1. \E f : Upto(MaxSize, f)
    BY <1>2, <1>3
  <2>2. QED
    BY <2>1
<1> HIDE DEF after
<1>5. after[0] = {b} /\ \A n \in 1 .. MaxSize : after[n] = Step(after[n - 1])
  <2>1. \A n \in 0 .. MaxSize : after[n] = IF n = 0 THEN {b} ELSE Step(after[n - 1])
    BY <1>4
  <2>2. 0 \in 0 .. MaxSize /\ \A n \in 1 .. MaxSize : n \in 0 .. MaxSize /\ n # 0
    BY <1>2
  <2>3. QED
    BY <2>1, <2>2
<1> HIDE DEF Upto, Without
<1>6. Wrong = {}
  <2> SUFFICES ASSUME Wrong # {} PROVE FALSE
    OBVIOUS
  <2> DEFINE n == Buffer!Least(Wrong)
  <2>10. Wrong \in SUBSET Nat
    BY <1>2
  <2> HIDE DEF Wrong
  <2>1. n \in Wrong /\ \A k \in Wrong : n <= k
    BY <2>10, Assumptions, Buffer!LeastExists
  <2> HIDE DEF n
  <2>2. PICK x \in after[n] : ~ Buffer!StreamOK(x)
    BY <2>1 DEF Wrong
  <2>3. n \in 1 .. MaxSize /\ n - 1 \in 0 .. MaxSize /\ n - 1 \notin Wrong
    <3>1. n \in 0 .. MaxSize
      BY <2>1 DEF Wrong
    <3>2. n # 0
      BY <1>5, <2>2
    <3>3. QED
      BY <1>2, <2>1, <3>1, <3>2
  <2>4. PICK y \in after[n - 1] : Skips(y) /\ x = ExtractNext(y)
    BY <1>5, <2>2, <2>3 DEF Step
  <2>5. Buffer!StreamOK(y) /\ Buffer!HasNext(y)
    BY <2>3, <2>4, SameOperators DEF Skips, Wrong
  <2>6. QED
    BY <2>2, <2>4, <2>5, SameErase, Assumptions, Buffer!ExtractStreamOK
<1>7. QED
  BY <1>1, <1>6 DEF Wrong

\* The same for the units MaybeScheduleFrameForRelease drops; the history stays.
Dropped(b, x) == Buffer!StreamOK(x) /\ x.decoded = b.decoded /\ x.lastDecoded = b.lastDecoded

LEMMA DroppingOK ==
  ASSUME NEW b, Buffer!StreamOK(b)
  PROVE  \A x \in Dropping(b) : Dropped(b, x)
<1> DEFINE Step(S) == {DropNext(x) : x \in {y \in S : MayDrop(y)}}
           Upto(m, f) == f = [n \in 0 .. m |-> IF n = 0 THEN {b} ELSE Step(f[n - 1])]
           after == CHOOSE f : Upto(MaxSize, f)
           Without == {m \in Nat : \A f : ~ Upto(m, f)}
           Wrong == {n \in 0 .. MaxSize : \E x \in after[n] : ~ Dropped(b, x)}
<1>1. Dropping(b) = UNION {after[n] : n \in 0 .. MaxSize}
  BY DEF Dropping
<1>2. MaxSize \in Nat
  BY BufferAssumption
<1> HIDE DEF Step
<1>3. Without = {}
  <2> SUFFICES ASSUME Without # {} PROVE FALSE
    OBVIOUS
  <2> DEFINE m == Buffer!Least(Without)
  <2> HIDE DEF Upto
  <2>10. Without \in SUBSET Nat
    OBVIOUS
  <2> HIDE DEF Without
  <2>11. m \in Without /\ \A k \in Without : m <= k
    BY <2>10, Assumptions, Buffer!LeastExists
  <2>1. m \in Nat /\ ~ (\E f : Upto(m, f)) /\ \A k \in Without : m <= k
    BY <2>11 DEF Without
  <2> HIDE DEF m
  <2>2. m # 0
    <3> SUFFICES ASSUME m = 0 PROVE FALSE
      OBVIOUS
    <3> DEFINE f == [n \in 0 .. 0 |-> {b}]
    <3>1. Upto(0, f)
      BY DEF Upto
    <3>2. QED
      BY <2>1, <3>1
  <2>3. m - 1 \in Nat /\ ~ (m <= m - 1)
    BY <2>1, <2>2
  <2>4. PICK g : Upto(m - 1, g)
    BY <2>1, <2>3 DEF Without
  <2> DEFINE f == [n \in 0 .. m |-> IF n = m THEN Step(g[m - 1]) ELSE g[n]]
  <2>5. Upto(m, f)
    <3>1. DOMAIN f = 0 .. m
      OBVIOUS
    <3>2. ASSUME NEW n \in 0 .. m
          PROVE  f[n] = IF n = 0 THEN {b} ELSE Step(f[n - 1])
      <4>1. CASE n = m
        BY <2>1, <2>2, <4>1
      <4>2. CASE n # m
        <5>1. n \in 0 .. m - 1 /\ (n # 0 => n - 1 \in 0 .. m /\ n - 1 # m)
          BY <2>1, <4>2
        <5>2. g[n] = IF n = 0 THEN {b} ELSE Step(g[n - 1])
          BY <2>4, <5>1 DEF Upto
        <5>3. QED
          BY <4>2, <5>1, <5>2
      <4>3. QED
        BY <4>1, <4>2
    <3>3. QED
      BY <3>1, <3>2 DEF Upto
  <2>6. QED
    BY <2>1, <2>5
<1>4. Upto(MaxSize, after)
  <2> HIDE DEF Upto
  <2>1. \E f : Upto(MaxSize, f)
    BY <1>2, <1>3
  <2>2. QED
    BY <2>1
<1> HIDE DEF after
<1>5. after[0] = {b} /\ \A n \in 1 .. MaxSize : after[n] = Step(after[n - 1])
  <2>1. \A n \in 0 .. MaxSize : after[n] = IF n = 0 THEN {b} ELSE Step(after[n - 1])
    BY <1>4
  <2>2. 0 \in 0 .. MaxSize /\ \A n \in 1 .. MaxSize : n \in 0 .. MaxSize /\ n # 0
    BY <1>2
  <2>3. QED
    BY <2>1, <2>2
<1> HIDE DEF Upto, Without
<1>6. Wrong = {}
  <2> SUFFICES ASSUME Wrong # {} PROVE FALSE
    OBVIOUS
  <2> DEFINE n == Buffer!Least(Wrong)
  <2>10. Wrong \in SUBSET Nat
    BY <1>2
  <2> HIDE DEF Wrong
  <2>1. n \in Wrong /\ \A k \in Wrong : n <= k
    BY <2>10, Assumptions, Buffer!LeastExists
  <2> HIDE DEF n
  <2>2. PICK x \in after[n] : ~ Dropped(b, x)
    BY <2>1 DEF Wrong
  <2>3. n \in 1 .. MaxSize /\ n - 1 \in 0 .. MaxSize /\ n - 1 \notin Wrong
    <3>1. n \in 0 .. MaxSize
      BY <2>1 DEF Wrong
    <3>2. n # 0
      BY <1>5, <2>2 DEF Dropped
    <3>3. QED
      BY <1>2, <2>1, <3>1, <3>2
  <2>4. PICK y \in after[n - 1] : MayDrop(y) /\ x = DropNext(y)
    BY <1>5, <2>2, <2>3 DEF Step
  <2>5. Dropped(b, y) /\ Buffer!HasNext(y)
    BY <2>3, <2>4, SameOperators DEF MayDrop, Wrong
  <2>6. QED
    BY <2>2, <2>4, <2>5, SameErase, Assumptions, Buffer!DropStreamOK DEF Dropped
<1>7. QED
  BY <1>1, <1>6 DEF Wrong

-------------------------------------------------------------------------------
(* What the calls of the controller leave behind *)

SameHistory(b, d) == d.decoded = b.decoded /\ d.lastDecoded = b.lastDecoded

\* o is an outcome of a call in which c has come to MaybeScheduleFrameForRelease, and
\* nothing was released: a schedule is new only if the decoder waits and needs no
\* keyframe, and if it waits the next unit is the scheduled one.
Waits(c, o) ==
    /\ o.out = {}
    /\ o.ctrl.ready = c.ready /\ o.ctrl.keyframeRequired = c.keyframeRequired
    /\ o.ctrl.scheduled = c.scheduled \/ (c.ready /\ ~ c.keyframeRequired)
    /\ SameHistory(c.buf, o.ctrl.buf) \/ (c.ready /\ c.keyframeRequired)
    /\ c.ready /\ HasNext(o.ctrl.buf) => o.ctrl.scheduled = o.ctrl.buf.info.next

\* Frames out are the next unit of a buffer b that becomes d.
ReleasedFrom(b, out, d) ==
    /\ Buffer!StreamOK(b) /\ HasNext(b)
    /\ out = FramesOf(b, NextUnit(b)) /\ d = ExtractNext(b)

\* Or a keyframe was released at once.
Releases(c, o) ==
    /\ c.ready /\ c.keyframeRequired
    /\ ~ o.ctrl.ready /\ o.ctrl.scheduled = c.scheduled
    /\ \E b : NextIsKeyframe(b) /\ ReleasedFrom(b, o.out, o.ctrl.buf)

Outcome(c, o) ==
    /\ CtrlOK(o.ctrl) /\ o.ctrl.timer = c.timer /\ o.out \subseteq Stream
    /\ Waits(c, o) \/ Releases(c, o)

\* d has the named members and no other.
Members(d, b, r, k, t, tm) ==
    /\ d.buf = b /\ d.ready = r /\ d.keyframeRequired = k
    /\ d.scheduled = t /\ d.timer = tm

LEMMA MembersOK ==
  ASSUME NEW d, NEW b, Buffer!StreamOK(b), NEW r \in BOOLEAN, NEW k \in BOOLEAN,
         NEW t \in Timestamps, NEW tm \in BOOLEAN,
         d = [buf |-> b, ready |-> r, keyframeRequired |-> k, scheduled |-> t, timer |-> tm]
  PROVE  CtrlOK(d) /\ Members(d, b, r, k, t, tm)
<1>1. Members(d, b, r, k, t, tm)
  BY DEF Members
<1>2. d = [buf |-> d.buf, ready |-> d.ready, keyframeRequired |-> d.keyframeRequired,
           scheduled |-> d.scheduled, timer |-> d.timer]
  OBVIOUS
<1>3. QED
  BY <1>1, <1>2 DEF Members, CtrlOK, Timestamps

\* The controller with members replaced.
LEMMA Replaced ==
  ASSUME NEW b, NEW r, NEW k, NEW t, NEW tm,
         NEW c, c = [buf |-> b, ready |-> r, keyframeRequired |-> k, scheduled |-> t, timer |-> tm],
         NEW nb, NEW nk, NEW nt, NEW d
  PROVE  /\ d = [c EXCEPT !.buf = nb, !.scheduled = nt] =>
               d = [buf |-> nb, ready |-> r, keyframeRequired |-> k, scheduled |-> nt, timer |-> tm]
         /\ d = [c EXCEPT !.timer = TRUE, !.keyframeRequired = nk, !.ready = TRUE] =>
               d = [buf |-> b, ready |-> TRUE, keyframeRequired |-> nk, scheduled |-> t, timer |-> TRUE]
         /\ d = [c EXCEPT !.scheduled = None, !.timer = FALSE, !.ready = FALSE] =>
               d = [buf |-> b, ready |-> FALSE, keyframeRequired |-> k, scheduled |-> None, timer |-> FALSE]
         /\ d = [c EXCEPT !.timer = FALSE, !.ready = FALSE] =>
               d = [buf |-> b, ready |-> FALSE, keyframeRequired |-> k, scheduled |-> t, timer |-> FALSE]
         /\ d = [c EXCEPT !.scheduled = None] =>
               d = [buf |-> b, ready |-> r, keyframeRequired |-> k, scheduled |-> None, timer |-> tm]
<1>1. ASSUME d = [c EXCEPT !.buf = nb, !.scheduled = nt]
      PROVE  d = [buf |-> nb, ready |-> r, keyframeRequired |-> k, scheduled |-> nt, timer |-> tm]
  BY <1>1
<1>2. ASSUME d = [c EXCEPT !.timer = TRUE, !.keyframeRequired = nk, !.ready = TRUE]
      PROVE  d = [buf |-> b, ready |-> TRUE, keyframeRequired |-> nk, scheduled |-> t, timer |-> TRUE]
  BY <1>2
<1>3. ASSUME d = [c EXCEPT !.scheduled = None, !.timer = FALSE, !.ready = FALSE]
      PROVE  d = [buf |-> b, ready |-> FALSE, keyframeRequired |-> k, scheduled |-> None, timer |-> FALSE]
  BY <1>3
<1>4. ASSUME d = [c EXCEPT !.timer = FALSE, !.ready = FALSE]
      PROVE  d = [buf |-> b, ready |-> FALSE, keyframeRequired |-> k, scheduled |-> t, timer |-> FALSE]
  BY <1>4
<1>5. ASSUME d = [c EXCEPT !.scheduled = None]
      PROVE  d = [buf |-> b, ready |-> r, keyframeRequired |-> k, scheduled |-> None, timer |-> tm]
  BY <1>5
<1>6. QED
  BY <1>1, <1>2, <1>3, <1>4, <1>5

LEMMA ExceptOK ==
  ASSUME NEW c, CtrlOK(c), NEW b, Buffer!StreamOK(b)
  PROVE  LET d == [c EXCEPT !.buf = b]
         IN  CtrlOK(d) /\ Members(d, b, c.ready, c.keyframeRequired, c.scheduled, c.timer)
<1> DEFINE d == [c EXCEPT !.buf = b]
<1>1. d = [buf |-> b, ready |-> c.ready, keyframeRequired |-> c.keyframeRequired,
           scheduled |-> c.scheduled, timer |-> c.timer]
  BY DEF CtrlOK
<1> HIDE DEF d
<1>2. CtrlOK(d) /\ Members(d, b, c.ready, c.keyframeRequired, c.scheduled, c.timer)
  BY <1>1, MembersOK DEF CtrlOK, Timestamps
<1>3. QED
  BY <1>2 DEF d

LEMMA ReleaseIs ==
  ASSUME NEW c, CtrlOK(c), HasNext(c.buf)
  PROVE  LET o == Release(c)
         IN  /\ CtrlOK(o.ctrl) /\ o.out \subseteq Stream
             /\ o.ctrl.timer = c.timer /\ ~ o.ctrl.ready /\ o.ctrl.scheduled = c.scheduled
             /\ ReleasedFrom(c.buf, o.out, o.ctrl.buf)
<1> DEFINE o == Release(c)
           kr == c.keyframeRequired /\ ~ NextIsKeyframe(c.buf)
<1>1. Buffer!StreamOK(c.buf) /\ Buffer!StreamOK(ExtractNext(c.buf))
  BY SameErase, SameOperators, Assumptions, Buffer!ExtractStreamOK DEF CtrlOK
<1>2. o.out = FramesOf(c.buf, NextUnit(c.buf))
      /\ o.ctrl = [c EXCEPT !.buf = ExtractNext(c.buf), !.keyframeRequired = kr, !.ready = FALSE]
  BY DEF Release
<1>3. o.out \subseteq Stream
  <2>1. \A i \in Ids(c.buf) : c.buf.frames[i] \in Stream
    BY <1>1, SameOperators DEF Buffer!StreamOK, Buffer!BufferOK, Buffer!FramesOK
  <2>2. QED
    BY <1>2, <2>1 DEF FramesOf, NextUnit
<1>4. kr \in BOOLEAN
  OBVIOUS
<1> HIDE DEF o, kr
<1>5. /\ CtrlOK(o.ctrl) /\ o.ctrl.timer = c.timer /\ o.ctrl.ready = FALSE
      /\ o.ctrl.scheduled = c.scheduled /\ o.ctrl.buf = ExtractNext(c.buf)
  BY <1>1, <1>2, <1>4 DEF CtrlOK
<1>6. QED
  BY <1>1, <1>2, <1>3, <1>5 DEF o, ReleasedFrom

LEMMA ForceOutcome ==
  ASSUME NEW c, CtrlOK(c), c.ready, c.keyframeRequired,
         NEW o \in ForceKeyFrameReleaseImmediately(c)
  PROVE  Outcome(c, o)
<1>1. PICK b \in Skipping(c.buf) :
          /\ ~ Skips(b)
          /\ o = IF HasNext(b) THEN Release([c EXCEPT !.buf = b]) ELSE Quiet([c EXCEPT !.buf = b])
  BY DEF ForceKeyFrameReleaseImmediately
<1> DEFINE d == [c EXCEPT !.buf = b]
<1>2. Buffer!StreamOK(b)
  BY SkippingOK DEF CtrlOK
<1>3. CtrlOK(d) /\ d.buf = b /\ d.ready = c.ready /\ d.timer = c.timer
      /\ d.keyframeRequired = c.keyframeRequired /\ d.scheduled = c.scheduled
  BY <1>2, ExceptOK DEF Members
<1> HIDE DEF d
<1>4. CASE HasNext(b)
  <2>1. o = Release(d) /\ NextIsKeyframe(b)
    BY <1>1, <1>4 DEF Skips, d
  <2>2. /\ CtrlOK(o.ctrl) /\ o.out \subseteq Stream
        /\ o.ctrl.timer = c.timer /\ ~ o.ctrl.ready /\ o.ctrl.scheduled = c.scheduled
        /\ ReleasedFrom(b, o.out, o.ctrl.buf)
    BY <1>3, <1>4, <2>1, ReleaseIs
  <2>3. Releases(c, o)
    BY <2>1, <2>2 DEF Releases
  <2>4. QED
    BY <2>2, <2>3 DEF Outcome
<1>5. CASE ~ HasNext(b)
  <2>1. o.out = {} /\ o.ctrl = d
    BY <1>1, <1>5 DEF Quiet, d
  <2>2. QED
    BY <1>3, <1>5, <2>1 DEF Outcome, Waits
<1>6. QED
  BY <1>4, <1>5

LEMMA ScheduleOutcome ==
  ASSUME NEW c, CtrlOK(c), c.ready, ~ c.keyframeRequired, NEW o \in ScheduleNext(c)
  PROVE  Outcome(c, o)
<1>1. PICK b \in Dropping(c.buf) :
          o = Quiet([c EXCEPT !.buf = b,
                              !.scheduled = IF HasNext(b) THEN b.info.next ELSE c.scheduled])
  BY DEF ScheduleNext
<1> DEFINE t == IF HasNext(b) THEN b.info.next ELSE c.scheduled
           d == [c EXCEPT !.buf = b, !.scheduled = t]
<1>2. Buffer!StreamOK(b) /\ SameHistory(c.buf, b)
  BY DroppingOK DEF CtrlOK, Dropped, SameHistory
<1>3. t \in Timestamps
  <2>1. HasNext(b) => \E f \in Stream : b.info.next = f.ts
    BY <1>2, SameOperators, Assumptions, Buffer!NextInfo DEF Buffer!StreamOK
  <2>2. QED
    BY <2>1 DEF CtrlOK, Timestamps
<1>4. HasNext(b) => t = b.info.next
  OBVIOUS
<1>5. o.out = {} /\ o.ctrl = d
  BY <1>1 DEF Quiet
<1> HIDE DEF t
<1>9. d = [c EXCEPT !.buf = b, !.scheduled = t]
  OBVIOUS
<1> HIDE DEF d
<1>8. d = [buf |-> b, ready |-> c.ready, keyframeRequired |-> c.keyframeRequired,
           scheduled |-> t, timer |-> c.timer]
  BY <1>9, Replaced DEF CtrlOK
<1>6. CtrlOK(d) /\ d.buf = b /\ d.ready = c.ready /\ d.timer = c.timer
      /\ d.keyframeRequired = c.keyframeRequired /\ d.scheduled = t
  BY <1>2, <1>3, <1>8, MembersOK DEF CtrlOK, Members
<1>7. QED
  BY <1>2, <1>4, <1>5, <1>6 DEF Outcome, Waits

LEMMA MaybeScheduleOutcome ==
  ASSUME NEW c, CtrlOK(c), NEW o \in MaybeScheduleFrameForRelease(c)
  PROVE  Outcome(c, o)
<1>1. ASSUME o = Quiet(c),
             c.ready /\ HasNext(c.buf) => c.scheduled = c.buf.info.next
      PROVE  Outcome(c, o)
  <2>1. o.out = {} /\ o.ctrl = c
    BY <1>1 DEF Quiet
  <2>2. QED
    BY <1>1, <2>1 DEF Outcome, Waits, SameHistory
<1>2. CASE ~ c.ready \/ ~ HasNext(c.buf)
  BY <1>1, <1>2 DEF MaybeScheduleFrameForRelease
<1>3. CASE c.ready /\ HasNext(c.buf)
  <2>1. CASE c.keyframeRequired
    BY <1>3, <2>1, ForceOutcome DEF MaybeScheduleFrameForRelease
  <2>2. CASE ~ c.keyframeRequired /\ AlreadyScheduled(c)
    BY <1>1, <1>3, <2>2 DEF MaybeScheduleFrameForRelease, AlreadyScheduled
  <2>3. CASE ~ c.keyframeRequired /\ ~ AlreadyScheduled(c)
    BY <1>3, <2>3, ScheduleOutcome DEF MaybeScheduleFrameForRelease
  <2>4. QED
    BY <2>1, <2>2, <2>3
<1>4. QED
  BY <1>2, <1>3

LEMMA StartOutcome ==
  ASSUME NEW c, CtrlOK(c), NEW kr \in BOOLEAN, NEW o \in StartNextDecode(c, kr)
  PROVE  \E d : /\ CtrlOK(d) /\ d.buf = c.buf /\ d.scheduled = c.scheduled
                /\ d.ready /\ d.timer /\ d.keyframeRequired = kr
                /\ Outcome(d, o)
<1> DEFINE d == [c EXCEPT !.timer = TRUE, !.keyframeRequired = kr, !.ready = TRUE]
<1>1. o \in MaybeScheduleFrameForRelease(d)
  BY DEF StartNextDecode, TimerOnStart
<1>6. d = [c EXCEPT !.timer = TRUE, !.keyframeRequired = kr, !.ready = TRUE]
  OBVIOUS
<1> HIDE DEF d
<1>4. d = [buf |-> c.buf, ready |-> TRUE, keyframeRequired |-> kr,
           scheduled |-> c.scheduled, timer |-> TRUE]
  BY <1>6, Replaced DEF CtrlOK
<1>2. /\ CtrlOK(d) /\ d.buf = c.buf /\ d.scheduled = c.scheduled
      /\ d.ready = TRUE /\ d.timer = TRUE /\ d.keyframeRequired = kr
  BY <1>4, MembersOK DEF CtrlOK, Members
<1>3. Outcome(d, o)
  BY <1>1, <1>2, MaybeScheduleOutcome
<1>5. QED
  BY <1>2, <1>3

-------------------------------------------------------------------------------
(* What the decoder is given *)

LEMMA ReleasedUnit ==
  ASSUME NEW b, NEW out, NEW n, ReleasedFrom(b, out, n)
  PROVE  /\ Buffer!StreamOK(n) /\ out \subseteq Stream /\ out # {}
         /\ n.decoded \subseteq b.decoded \cup {f.id : f \in out}
         /\ \A i \in b.decoded : i \in Nat /\ i <= b.lastDecoded
         /\ b.lastDecoded \in Int /\ n.lastDecoded \in Int /\ b.lastDecoded <= n.lastDecoded
         /\ \A f \in out : /\ f.id \in Int /\ b.lastDecoded < f.id /\ f.id <= n.lastDecoded
                           /\ \A r \in Refs(f) : r \in b.decoded \/ \E g \in out : g.id = r
         /\ NextIsKeyframe(b) => \E k \in out : IsKeyframe(k) /\ \A f \in out : k.id <= f.id
<1> DEFINE l == b.next.last
<1>1. /\ Buffer!StreamOK(b) /\ HasNext(b) /\ Buffer!HasNext(b)
      /\ out = FramesOf(b, NextUnit(b)) /\ n = ExtractNext(b)
  BY SameOperators DEF ReleasedFrom
<1>2. Buffer!BufferOK(b) /\ Buffer!FramesOK(b) /\ Buffer!Fresh(b)
      /\ \A i \in b.decoded : i <= b.lastDecoded
  BY <1>1 DEF Buffer!StreamOK, Buffer!BufferOK
<1>3. /\ Buffer!StreamOK(n) /\ n.lastDecoded = l
      /\ n.decoded \subseteq b.decoded \cup NextUnit(b)
  BY <1>1, SameErase, SameOperators, Assumptions, Buffer!ExtractStreamOK
<1>4. /\ l \in Ids(b) /\ Buffer!Decodable(b, l)
      /\ NextUnit(b) = Buffer!UnitEndingAt(b, l) /\ l \in NextUnit(b)
      /\ b.next.first \in NextUnit(b)
      /\ \A i \in NextUnit(b) : i <= l
  BY <1>1, <1>2, SameOperators, Assumptions, Buffer!NextIsUnit
<1>5. /\ \A i \in Ids(b) : i \in Nat /\ b.frames[i] \in Stream /\ b.frames[i].id = i
                            /\ b.lastDecoded < i
      /\ b.decoded \subseteq Nat /\ b.lastDecoded \in Int
  BY <1>2, SameOperators DEF Buffer!FramesOK, Buffer!OptionalId, Buffer!None
<1>6. \A i \in NextUnit(b) : i \in Ids(b) /\ b.next.first <= i
  BY DEF NextUnit
<1>7. \A i \in NextUnit(b) : \A r \in Refs(b.frames[i]) : r \in b.decoded \/ r \in NextUnit(b)
  BY <1>4, SameOperators DEF Buffer!Decodable, Buffer!WasDecoded
<1> HIDE DEF l
<1>8. \A f \in out : \E i \in NextUnit(b) : f = b.frames[i] /\ f.id = i
  BY <1>1, <1>5, <1>6 DEF FramesOf
<1>9. \A i \in NextUnit(b) : b.frames[i] \in out /\ b.frames[i].id = i
  BY <1>1, <1>5, <1>6 DEF FramesOf
<1>10. /\ out \subseteq Stream /\ out # {}
       /\ n.decoded \subseteq b.decoded \cup {f.id : f \in out}
  BY <1>3, <1>4, <1>5, <1>6, <1>8, <1>9
<1>11. n.lastDecoded \in Int /\ b.lastDecoded <= n.lastDecoded
  BY <1>3, <1>4, <1>5
<1>12. ASSUME NEW f \in out
       PROVE  /\ f.id \in Int /\ b.lastDecoded < f.id /\ f.id <= n.lastDecoded
              /\ \A r \in Refs(f) : r \in b.decoded \/ \E g \in out : g.id = r
  <2>1. PICK i \in NextUnit(b) : f = b.frames[i] /\ f.id = i
    BY <1>8
  <2>2. QED
    BY <1>3, <1>4, <1>5, <1>6, <1>7, <1>9, <2>1
<1>13. ASSUME NextIsKeyframe(b)
       PROVE  \E k \in out : IsKeyframe(k) /\ \A f \in out : k.id <= f.id
  <2> DEFINE k == b.frames[b.next.first]
  <2>1. k \in out /\ k.id = b.next.first /\ IsKeyframe(k)
    BY <1>4, <1>9, <1>13 DEF NextIsKeyframe
  <2>2. \A f \in out : b.next.first <= f.id
    BY <1>6, <1>8
  <2> HIDE DEF k
  <2>3. QED
    BY <2>1, <2>2
<1>14. QED
  BY <1>2, <1>3, <1>5, <1>10, <1>11, <1>12, <1>13

\* What the decoder knows after the release of a unit: to a decoder that knew the
\* decoded frames, or to one that is given a keyframe after it was given nothing.
LEMMA ReleaseFeeds ==
  ASSUME NEW b, NEW out, NEW n, ReleasedFrom(b, out, n), NEW S, S \subseteq Stream,
         Feeds(b, S) \/ (S = {} /\ NextIsKeyframe(b))
  PROVE  Feeds(n, S \cup out)
<1> SUFFICES ASSUME NEW i \in n.decoded
             PROVE  \/ \E f \in S \cup out : f.id = i
                    \/ \E k \in S \cup out : IsKeyframe(k) /\ i < k.id /\ k.id <= n.lastDecoded
  BY DEF Feeds
<1>1. CASE \E f \in out : f.id = i
  BY <1>1
<1>2. CASE i \in b.decoded
  <2>1. CASE Feeds(b, S)
    <3>1. CASE \E f \in S : f.id = i
      BY <3>1
    <3>2. CASE \E k \in S : IsKeyframe(k) /\ i < k.id /\ k.id <= b.lastDecoded
      <4>1. PICK k \in S : IsKeyframe(k) /\ i < k.id /\ k.id <= b.lastDecoded
        BY <3>2
      <4>2. k.id \in Int
        BY <4>1, StreamAssumption DEF Frame
      <4>3. k.id <= n.lastDecoded
        BY <4>1, <4>2, ReleasedUnit
      <4>4. QED
        BY <4>1, <4>3
    <3>3. QED
      BY <1>2, <2>1, <3>1, <3>2 DEF Feeds
  <2>2. CASE NextIsKeyframe(b)
    <3>1. PICK k \in out : IsKeyframe(k)
      BY <2>2, ReleasedUnit
    <3>2. i < k.id /\ k.id <= n.lastDecoded
      BY <1>2, ReleasedUnit
    <3>3. QED
      BY <3>1, <3>2
  <2>3. QED
    BY <2>1, <2>2
<1>3. QED
  BY <1>1, <1>2, ReleasedUnit

\* Nothing is given to the decoder before what it refers to.
LEMMA ReleaseClosed ==
  ASSUME KeyframesCut, NEW b, NEW out, NEW n, ReleasedFrom(b, out, n),
         NEW S, S \subseteq Stream, ClosedSet(S),
         Feeds(b, S) \/ (S = {} /\ NextIsKeyframe(b))
  PROVE  ClosedSet(S \cup out)
<1> SUFFICES ASSUME NEW f \in S \cup out, NEW r \in Refs(f)
             PROVE  \E g \in S \cup out : g.id = r
  BY DEF ClosedSet
<1>1. CASE f \in S
  BY <1>1 DEF ClosedSet
<1>2. CASE f \in out /\ r \in b.decoded
  <2>1. r \in Nat /\ r <= b.lastDecoded /\ b.lastDecoded \in Int /\ f \in Stream
        /\ f.id \in Int /\ b.lastDecoded < f.id
    BY <1>2, ReleasedUnit
  <2>2. \A k \in Stream : k.id \in Int
    BY StreamAssumption DEF Frame
  <2>3. CASE Feeds(b, S)
    <3>1. ASSUME NEW k \in S, IsKeyframe(k), r < k.id, k.id <= b.lastDecoded
          PROVE  FALSE
      <4>1. k \in Stream /\ k.id \in Int /\ k.id <= f.id
        BY <2>1, <2>2, <3>1
      <4>2. k.id <= r
        BY <2>1, <3>1, <4>1 DEF KeyframesCut
      <4>3. QED
        BY <2>1, <3>1, <4>1, <4>2
    <3>2. QED
      BY <1>2, <2>3, <3>1 DEF Feeds
  <2>4. CASE NextIsKeyframe(b)
    <3>1. PICK k \in out : IsKeyframe(k) /\ \A g \in out : k.id <= g.id
      BY <2>4, ReleasedUnit
    <3>2. k \in Stream /\ k.id \in Int /\ k.id <= f.id /\ b.lastDecoded < k.id
      BY <1>2, <3>1, ReleasedUnit
    <3>3. k.id <= r
      BY <2>1, <3>1, <3>2 DEF KeyframesCut
    <3>4. QED
      BY <2>1, <3>2, <3>3
  <2>5. QED
    BY <2>3, <2>4
<1>3. CASE f \in out /\ r \notin b.decoded
  BY <1>3, ReleasedUnit
<1>4. QED
  BY <1>1, <1>2, <1>3

-------------------------------------------------------------------------------
(* The tasks of the decode queue *)

LEMMA TaskTypes ==
  /\ StartTask \in Task /\ StopTask \in Task
  /\ StartTask.kind = "start" /\ StopTask.kind = "stop"
  /\ \A key, kr, due \in BOOLEAN :
         FrameTask(key, kr, due) \in Task /\ FrameTask(key, kr, due).kind = "frame"
  /\ \A t \in Task : t.kind = "frame" => t.key \in BOOLEAN /\ t.required \in BOOLEAN
                                         /\ t.due \in BOOLEAN
<1>1. /\ StartTask \in Task /\ StopTask \in Task
      /\ StartTask.kind = "start" /\ StopTask.kind = "stop"
  BY DEF Task, StartTask, StopTask
<1>2. ASSUME NEW key \in BOOLEAN, NEW kr \in BOOLEAN, NEW due \in BOOLEAN
      PROVE  FrameTask(key, kr, due) \in Task /\ FrameTask(key, kr, due).kind = "frame"
  BY DEF Task, FrameTask
<1>3. ASSUME NEW t \in Task, t.kind = "frame"
      PROVE  t.key \in BOOLEAN /\ t.required \in BOOLEAN /\ t.due \in BOOLEAN
  <2>1. \E key, kr, due \in BOOLEAN : t = FrameTask(key, kr, due)
    BY <1>1, <1>3 DEF Task
  <2>2. QED
    BY <2>1 DEF FrameTask
<1>4. QED
  BY <1>1, <1>2, <1>3

LEMMA AppendTask ==
  ASSUME NEW q \in Seq(Task), NEW t \in Task
  PROVE  LET p == Append(q, t)
         IN  /\ p \in Seq(Task)
             /\ HasFrame(p) <=> HasFrame(q) \/ t.kind = "frame"
             /\ t.kind # "frame" /\ OneFrame(q) => OneFrame(p)
             /\ ~ HasFrame(q) => OneFrame(p)
<1> DEFINE p == Append(q, t)
<1>1. /\ p \in Seq(Task) /\ Len(p) = Len(q) + 1 /\ Len(q) \in Nat
      /\ DOMAIN p = 1 .. Len(q) + 1 /\ DOMAIN q = 1 .. Len(q)
      /\ \A k \in 1 .. Len(q) : p[k] = q[k]
      /\ p[Len(q) + 1] = t
  OBVIOUS
<1> HIDE DEF p
<1>2. \A k : IsFrameTask(p, k) <=> IsFrameTask(q, k) \/ (k = Len(q) + 1 /\ t.kind = "frame")
  BY <1>1 DEF IsFrameTask
<1>3. HasFrame(p) <=> HasFrame(q) \/ t.kind = "frame"
  <2>1. Len(q) + 1 \in DOMAIN p
    BY <1>1
  <2>2. HasFrame(p) <=> \E k : IsFrameTask(p, k)
    BY DEF HasFrame, IsFrameTask
  <2>3. HasFrame(q) <=> \E k : IsFrameTask(q, k)
    BY DEF HasFrame, IsFrameTask
  <2>4. QED
    BY <1>2, <2>2, <2>3
<1>4. t.kind # "frame" /\ OneFrame(q) => OneFrame(p)
  BY <1>2 DEF OneFrame, IsFrameTask
<1>5. ~ HasFrame(q) => OneFrame(p)
  BY <1>2 DEF OneFrame, HasFrame, IsFrameTask
<1>6. QED
  BY <1>1, <1>3, <1>4, <1>5 DEF p

LEMMA TailTask ==
  ASSUME NEW q \in Seq(Task), q # <<>>
  PROVE  LET p == Tail(q)
         IN  /\ p \in Seq(Task) /\ Head(q) \in Task
             /\ HasFrame(p) => HasFrame(q)
             /\ OneFrame(q) => OneFrame(p)
             /\ Head(q).kind = "frame" => HasFrame(q) /\ (OneFrame(q) => ~ HasFrame(p))
<1> DEFINE p == Tail(q)
<1>1. /\ p \in Seq(Task) /\ Len(q) \in Nat /\ Len(q) >= 1 /\ Head(q) = q[1]
      /\ DOMAIN p = 1 .. Len(q) - 1 /\ DOMAIN q = 1 .. Len(q)
      /\ \A k \in 1 .. Len(q) - 1 : p[k] = q[k + 1]
      /\ q[1] \in Task
  OBVIOUS
<1> HIDE DEF p
<1>2. \A k : IsFrameTask(p, k) => k \in Nat /\ k >= 1 /\ IsFrameTask(q, k + 1)
  BY <1>1 DEF IsFrameTask
<1>3. Head(q).kind = "frame" => IsFrameTask(q, 1)
  BY <1>1 DEF IsFrameTask
<1>4. OneFrame(q) => OneFrame(p)
  <2> SUFFICES ASSUME OneFrame(q), NEW j \in DOMAIN p, NEW k \in DOMAIN p,
                      IsFrameTask(p, j), IsFrameTask(p, k)
               PROVE  j = k
    BY DEF OneFrame
  <2>1. j \in Nat /\ k \in Nat /\ IsFrameTask(q, j + 1) /\ IsFrameTask(q, k + 1)
    BY <1>2
  <2>2. j + 1 = k + 1
    BY <2>1 DEF OneFrame, IsFrameTask
  <2>3. QED
    BY <2>1, <2>2
<1>5. Head(q).kind = "frame" /\ OneFrame(q) => ~ HasFrame(p)
  <2> SUFFICES ASSUME IsFrameTask(q, 1), OneFrame(q), NEW k, IsFrameTask(p, k) PROVE FALSE
    BY <1>3 DEF HasFrame
  <2>1. k \in Nat /\ k >= 1 /\ IsFrameTask(q, k + 1)
    BY <1>2
  <2>2. k + 1 = 1
    BY <2>1 DEF OneFrame, IsFrameTask
  <2>3. QED
    BY <2>1, <2>2
<1>6. HasFrame(p) => HasFrame(q)
  BY <1>2 DEF HasFrame, IsFrameTask
<1>7. Head(q).kind = "frame" => HasFrame(q)
  BY <1>3 DEF HasFrame, IsFrameTask
<1>8. QED
  BY <1>1, <1>4, <1>5, <1>6, <1>7 DEF p

-------------------------------------------------------------------------------
(* What a call of the controller keeps *)

\* The decode queue after a call that passed the frames out on.
Posted(queue, out, key, kr, due) ==
    IF out = {} THEN queue ELSE Append(queue, FrameTask(key, kr, due))

LEMMA PostedOK ==
  ASSUME NEW q \in Seq(Task), NEW out,
         NEW key \in BOOLEAN, NEW kr \in BOOLEAN, NEW due \in BOOLEAN
  PROVE  LET p == Posted(q, out, key, kr, due)
         IN  /\ p \in Seq(Task)
             /\ out = {} => p = q
             /\ ~ HasFrame(q) => OneFrame(p)
<1>1. CASE out = {}
  BY <1>1 DEF Posted, OneFrame, HasFrame
<1>2. CASE out # {}
  BY <1>2, TaskTypes, AppendTask DEF Posted
<1>3. QED
  BY <1>1, <1>2

\* No unit is scheduled wrongly where the decoder does not wait or has nothing to wait
\* for; what a timestamp is.
LEMMA NothingToSchedule ==
  ASSUME NEW c
  PROVE  /\ ~ c.ready \/ ~ HasNext(c.buf) => Scheduling(c)
         /\ Buffer!StreamOK(c.buf) /\ c.scheduled = c.buf.info.next => Scheduling(c)
<1>1. ~ c.ready \/ ~ HasNext(c.buf) => Scheduling(c)
  BY DEF Scheduling
<1>2. ASSUME Buffer!StreamOK(c.buf), c.scheduled = c.buf.info.next PROVE Scheduling(c)
  <2>1. ASSUME HasNext(c.buf) PROVE c.buf.info.next # None
    <3>1. PICK f \in Stream : c.buf.info.next = f.ts
      BY <1>2, <2>1, SameOperators, Assumptions, Buffer!NextInfo DEF Buffer!StreamOK
    <3>2. f.ts \in 0 .. TsMod - 1 /\ TsMod \in Nat
      BY StreamAssumption, BufferAssumption DEF Frame
    <3>3. QED
      BY <3>1, <3>2 DEF None
  <2>2. QED
    BY <1>2, <2>1 DEF Scheduling
<1>3. QED
  BY <1>1, <1>2

LEMMA OutcomeSettles ==
  ASSUME NEW c, CtrlOK(c), c.ready => c.timer, NEW o, Outcome(c, o)
  PROVE  Settled(o.ctrl)
<1> DEFINE d == o.ctrl
<1>1. CtrlOK(d) /\ d.timer = c.timer /\ Buffer!StreamOK(d.buf)
  BY DEF Outcome, CtrlOK
<1>2. CASE Waits(c, o)
  <2>1. d.ready = c.ready /\ (c.ready /\ HasNext(d.buf) => d.scheduled = d.buf.info.next)
    BY <1>2 DEF Waits
  <2> HIDE DEF d
  <2>2. Scheduling(d)
    BY <1>1, <2>1, NothingToSchedule
  <2>3. QED
    BY <1>1, <2>1, <2>2 DEF Settled, d
<1>3. CASE Releases(c, o)
  <2>1. ~ d.ready
    BY <1>3 DEF Releases
  <2> HIDE DEF d
  <2>2. Scheduling(d)
    BY <2>1, NothingToSchedule
  <2>3. QED
    BY <1>1, <2>1, <2>2 DEF Settled, d
<1>4. QED
  BY <1>2, <1>3 DEF Outcome

LEMMA OutcomeCycles ==
  ASSUME NEW q \in Seq(Task), NEW key \in BOOLEAN, NEW kr \in BOOLEAN, NEW due \in BOOLEAN,
         NEW c, NEW o, NEW res, NEW S \in SUBSET Stream,
         CtrlOK(c), Outcome(c, o), Turn(c, q, res, kr)
  PROVE  LET p == Posted(q, o.out, key, kr, due)
         IN  /\ Turn(o.ctrl, p, res, kr)
             /\ Given(c, q, res, kr, S) => Given(o.ctrl, p, res, kr, S \cup o.out)
<1> DEFINE d == o.ctrl
           p == Posted(q, o.out, key, kr, due)
<1>2. /\ o.out = {} => p = q
      /\ ~ HasFrame(q) => OneFrame(p)
  BY PostedOK
<1> HIDE DEF p
<1>3. CASE Waits(c, o)
  <2>1. /\ o.out = {} /\ p = q /\ S \cup o.out = S
        /\ d.ready = c.ready /\ d.keyframeRequired = c.keyframeRequired
        /\ d.scheduled = c.scheduled \/ (c.ready /\ ~ c.keyframeRequired)
        /\ SameHistory(c.buf, d.buf) \/ (c.ready /\ c.keyframeRequired)
    BY <1>2, <1>3 DEF Waits
  <2> HIDE DEF d
  <2>2. Turn(d, p, res, kr)
    BY <2>1 DEF Turn
  <2>3. ASSUME Given(c, q, res, kr, S) PROVE Given(d, p, res, kr, S)
    <3>1. Known(c, q, res, kr, S)
      BY <2>3 DEF Given
    <3>2. Known(d, p, res, kr, S)
      BY <2>1, <3>1 DEF Known, Feeds, SameHistory
    <3>3. QED
      BY <2>1, <2>3, <3>2 DEF Given
  <2>5. QED
    BY <2>1, <2>2, <2>3 DEF d, p
<1>4. CASE Releases(c, o)
  <2>1. c.ready /\ c.keyframeRequired /\ ~ d.ready /\ d.scheduled = c.scheduled
    BY <1>4 DEF Releases
  <2>2. ~ HasFrame(q) /\ res = <<>> /\ c.scheduled = None
    BY <2>1 DEF Turn
  <2>3. PICK b : NextIsKeyframe(b) /\ ReleasedFrom(b, o.out, d.buf)
    BY <1>4 DEF Releases
  <2> DEFINE n == d.buf
  <2>9. ReleasedFrom(b, o.out, n) /\ n = d.buf
    BY <2>3
  <2> HIDE DEF d, n
  <2>6. Turn(d, p, res, kr)
    BY <1>2, <2>1, <2>2 DEF Turn
  <2>4. ASSUME Given(c, q, res, kr, S) PROVE Given(d, p, res, kr, S \cup o.out)
    <3>1. kr /\ S = {} /\ ClosedSet(S)
      BY <2>1, <2>4 DEF Given, Known, ClosedSet
    <3>2. Feeds(n, S \cup o.out)
      BY <2>3, <2>9, <3>1, ReleaseFeeds
    <3>3. KeyframesCut => ClosedSet(S \cup o.out)
      BY <2>3, <2>9, <3>1, ReleaseClosed
    <3>4. Known(d, p, res, kr, S \cup o.out)
      BY <2>1, <2>9, <3>2 DEF Known
    <3>5. QED
      BY <2>1, <3>3, <3>4 DEF Given
  <2>8. QED
    BY <2>4, <2>6 DEF d, p
<1>5. QED
  BY <1>3, <1>4 DEF Outcome

\* What Apply leaves.
LEMMA ApplyIs ==
  ASSUME NEW outcomes, NEW q, NEW S, Apply(outcomes, q, S)
  PROVE  \E o \in outcomes : \E key, due \in BOOLEAN :
             /\ ctrl' = o.ctrl /\ fed' = S \cup o.out
             /\ decodeQueue' = Posted(q, o.out, key, required', due)
<1>1. PICK o \in outcomes, due \in RequestDue :
          /\ ctrl' = o.ctrl
          /\ fed' = S \cup o.out
          /\ decodeQueue' =
                IF o.out = {} THEN q
                ELSE Append(q, FrameTask(\E f \in o.out : IsKeyframe(f), required', due))
  BY DEF Apply
<1>2. due \in BOOLEAN
  BY DEF RequestDue
<1> DEFINE key == \E f \in o.out : IsKeyframe(f)
<1>3. key \in BOOLEAN
  OBVIOUS
<1>4. decodeQueue' = IF o.out = {} THEN q ELSE Append(q, FrameTask(key, required', due))
  BY <1>1
<1> HIDE DEF key
<1>5. decodeQueue' = Posted(q, o.out, key, required', due)
  BY <1>4 DEF Posted
<1>6. QED
  BY <1>1, <1>2, <1>3, <1>5

LEMMA StartSettles ==
  ASSUME NEW c, CtrlOK(c), NEW k \in BOOLEAN, NEW o \in StartNextDecode(c, k)
  PROVE  Settled(o.ctrl) /\ o.out \subseteq Stream
  BY StartOutcome, OutcomeSettles DEF Outcome

LEMMA StartTurns ==
  ASSUME NEW c, CtrlOK(c), NEW k \in BOOLEAN, NEW o \in StartNextDecode(c, k),
         NEW q \in Seq(Task), NEW key \in BOOLEAN, NEW due \in BOOLEAN,
         NEW kr \in BOOLEAN, kr => k, NEW res, res = <<>>,
         ~ HasFrame(q), c.scheduled # None => ~ k
  PROVE  Turn(o.ctrl, Posted(q, o.out, key, kr, due), res, kr)
<1>1. PICK d : /\ CtrlOK(d) /\ d.scheduled = c.scheduled
               /\ d.ready /\ d.keyframeRequired = k
               /\ Outcome(d, o)
  BY StartOutcome
<1>2. Turn(d, q, res, kr)
  BY <1>1 DEF Turn, OneFrame, HasFrame
<1> PICK S : S = {}
  OBVIOUS
<1>3. QED
  BY <1>1, <1>2, OutcomeCycles

LEMMA StartGives ==
  ASSUME NEW c, CtrlOK(c), NEW k \in BOOLEAN, NEW o \in StartNextDecode(c, k),
         NEW q \in Seq(Task), NEW key \in BOOLEAN, NEW due \in BOOLEAN,
         NEW res, res = <<>>, ~ HasFrame(q), c.scheduled # None => ~ k,
         NEW S \in SUBSET Stream,
         (k /\ S = {}) \/ (~ k /\ Feeds(c.buf, S)),
         KeyframesCut => ClosedSet(S)
  PROVE  Given(o.ctrl, Posted(q, o.out, key, k, due), res, k, S \cup o.out)
<1>1. PICK d : /\ CtrlOK(d) /\ d.buf = c.buf /\ d.scheduled = c.scheduled
               /\ d.ready /\ d.keyframeRequired = k
               /\ Outcome(d, o)
  BY StartOutcome
<1>2. Turn(d, q, res, k)
  BY <1>1 DEF Turn, OneFrame, HasFrame
<1>3. Given(d, q, res, k, S)
  BY <1>1 DEF Given, Known
<1>4. QED
  BY <1>1, <1>2, <1>3, OutcomeCycles

\* The controller with nothing scheduled, or not waiting.
LEMMA QuietKeeps ==
  ASSUME NEW c, CtrlOK(c)
  PROVE  /\ LET d == [c EXCEPT !.scheduled = None]
            IN  CtrlOK(d) /\ Members(d, c.buf, c.ready, c.keyframeRequired, None, c.timer)
         /\ LET d == ControllerStop(c)
            IN  CtrlOK(d) /\ Members(d, c.buf, FALSE, c.keyframeRequired, None, FALSE)
         /\ LET d == ControllerTimeout(c)
            IN  CtrlOK(d) /\ Members(d, c.buf, FALSE, c.keyframeRequired, c.scheduled, FALSE)
<1>1. /\ c = [buf |-> c.buf, ready |-> c.ready, keyframeRequired |-> c.keyframeRequired,
              scheduled |-> c.scheduled, timer |-> c.timer]
      /\ Buffer!StreamOK(c.buf) /\ c.ready \in BOOLEAN /\ c.keyframeRequired \in BOOLEAN
      /\ c.timer \in BOOLEAN /\ c.scheduled \in Timestamps
  BY DEF CtrlOK
<1>2. None \in Timestamps
  BY DEF Timestamps
<1>3. ASSUME NEW d, d = [c EXCEPT !.scheduled = None]
      PROVE  CtrlOK(d) /\ Members(d, c.buf, c.ready, c.keyframeRequired, None, c.timer)
  <2>1. d = [buf |-> c.buf, ready |-> c.ready, keyframeRequired |-> c.keyframeRequired,
             scheduled |-> None, timer |-> c.timer]
    BY <1>1, <1>3, Replaced
  <2>2. QED
    BY <1>1, <1>2, <2>1, MembersOK
<1>4. ASSUME NEW d, d = ControllerStop(c)
      PROVE  CtrlOK(d) /\ Members(d, c.buf, FALSE, c.keyframeRequired, None, FALSE)
  <2>1. d = [buf |-> c.buf, ready |-> FALSE, keyframeRequired |-> c.keyframeRequired,
             scheduled |-> None, timer |-> FALSE]
    BY <1>1, <1>4, Replaced DEF ControllerStop
  <2>2. QED
    BY <1>1, <1>2, <2>1, MembersOK
<1>5. ASSUME NEW d, d = ControllerTimeout(c)
      PROVE  CtrlOK(d) /\ Members(d, c.buf, FALSE, c.keyframeRequired, c.scheduled, FALSE)
  <2>1. d = [buf |-> c.buf, ready |-> FALSE, keyframeRequired |-> c.keyframeRequired,
             scheduled |-> c.scheduled, timer |-> FALSE]
    BY <1>1, <1>5, Replaced DEF ControllerTimeout
  <2>2. QED
    BY <1>1, <2>1, MembersOK
<1>6. QED
  BY <1>3, <1>4, <1>5

-------------------------------------------------------------------------------
(* The inductive invariant *)

LEMMA InitIInv == Init => IInv
<1> SUFFICES ASSUME Init PROVE IInv
  OBVIOUS
<1> DEFINE e == EmptyBuffer
<1>1. e.numContinuous = 0 /\ e.numDropped = 0 /\ e.decoded = {} /\ e.next = NoUnit
  BY DEF EmptyBuffer
<1>2. Buffer!Clear(e) = e
  <2>1. /\ e = [frames |-> e.frames, continuous |-> e.continuous, lastFrame |-> e.lastFrame,
                lastUnit |-> e.lastUnit, next |-> e.next, info |-> e.info,
                decoded |-> e.decoded, lastDecoded |-> e.lastDecoded,
                lastDecodedTs |-> e.lastDecodedTs, numContinuous |-> e.numContinuous,
                numDropped |-> e.numDropped]
    BY DEF EmptyBuffer
  <2>2. Buffer!Clear(e) = [e EXCEPT !.numContinuous = e.numContinuous, !.numDropped = e.numDropped]
    BY SameOperators DEF Buffer!Clear
  <2> HIDE DEF e
  <2>3. QED
    BY <2>1, <2>2
<1>3. Buffer!StreamOK(e) /\ Feeds(e, {})
  <2> HIDE DEF e
  <2>1. e.numContinuous \in Nat /\ e.numDropped \in Nat
    BY <1>1
  <2>3. Buffer!StreamOK(Buffer!Clear(e))
    BY <2>1, Assumptions, Buffer!EmptyStreamOK
  <2>2. QED
    BY <1>1, <1>2, <2>3 DEF Feeds
<1>4. ctrl = [buf |-> e, ready |-> FALSE, keyframeRequired |-> FALSE,
              scheduled |-> None, timer |-> FALSE]
  BY DEF Init, InitialController
<1> HIDE DEF e
<1>5. CtrlOK(ctrl) /\ Members(ctrl, e, FALSE, FALSE, None, FALSE)
  <2>1. None \in Timestamps
    BY DEF Timestamps
  <2>2. QED
    BY <1>3, <1>4, <2>1, MembersOK
<1>6. Settled(ctrl)
  BY <1>5, NothingToSchedule DEF Settled, Members
<1>7. /\ required = TRUE /\ decodeQueue = <<>> /\ results = <<>> /\ fed = {}
      /\ ~ HasFrame(decodeQueue) /\ OneFrame(decodeQueue)
  BY DEF Init, HasFrame, OneFrame, IsFrameTask
<1>8. /\ Turn(ctrl, decodeQueue, results, required)
      /\ Given(ctrl, decodeQueue, results, required, fed)
      /\ Unstarted
  BY <1>5, <1>7 DEF Turn, Given, Known, ClosedSet, Members, Unstarted
<1>11. rested = TRUE /\ keyed = TRUE
  BY DEF Init
<1>9. Types
  <2>1. << >> \in Seq(Task) /\ << >> \in Seq(Result)
    OBVIOUS
  <2>2. inserts \in 0 .. MaxInserts /\ starts \in 0 .. MaxStarts
    BY StreamAssumption DEF Init
  <2>3. QED
    BY <1>7, <1>11, <2>1, <2>2 DEF Init, Types
<1>10. QED
  BY <1>6, <1>8, <1>9, <1>11 DEF IInv

LEMMA InsertIInv ==
  ASSUME IInv, NEW f \in Stream, OnCompleteFrame(f)
  PROVE  IInv'
<1> DEFINE b == ctrl.buf
           n == InsertFrame(b, f)
           c == [ctrl EXCEPT !.buf = n]
<1>1. Types /\ Settled(ctrl) /\ CtrlOK(ctrl) /\ Buffer!StreamOK(b)
  BY DEF IInv, Settled, CtrlOK
<1>2. /\ UNCHANGED <<running, stopping, required, requested, generating, decoderStopped,
                     frameDecoded, results, rested, keyed, starts>>
      /\ inserts < MaxInserts /\ inserts' = inserts + 1
      /\ Apply(ControllerInsert(ctrl, f), decodeQueue, fed)
  BY DEF OnCompleteFrame, streamVars, decodeVars, startVars
<1>3. requested' \in BOOLEAN /\ required' \in BOOLEAN /\ decodeQueue \in Seq(Task)
      /\ fed \subseteq Stream
  BY <1>1, <1>2 DEF Types
<1>4. PICK o \in ControllerInsert(ctrl, f), key \in BOOLEAN, due \in BOOLEAN :
          /\ ctrl' = o.ctrl /\ fed' = fed \cup o.out
          /\ decodeQueue' = Posted(decodeQueue, o.out, key, required', due)
  BY <1>2, <1>3, ApplyIs
<1>5. Buffer!StreamOK(n) /\ (SameHistory(b, n) \/ n.decoded = {})
  BY <1>1, SameInsert, Assumptions, Buffer!InsertStreamOK DEF SameHistory
<1>6. /\ c = [ctrl EXCEPT !.buf = InsertFrame(@, f)] /\ CtrlOK(c)
      /\ Members(c, n, ctrl.ready, ctrl.keyframeRequired, ctrl.scheduled, ctrl.timer)
  BY <1>1, <1>5, ExceptOK
<1>7. o \in IF GainedUnits(b, n) THEN MaybeScheduleFrameForRelease(c) ELSE {Quiet(c)}
  BY <1>4, <1>6 DEF ControllerInsert, Members
<1>8. ~ GainedUnits(b, n) /\ HasNext(n) /\ Buffer!Regular /\ Buffer!TopNeedsReferenced =>
          HasNext(b) /\ (Buffer!TopNeedsAll => n.info.next = b.info.next)
  BY <1>1, SameInsert, SameOperators, Assumptions, Buffer!QuietInsert
<1>9. Buffer!TopNeedsAll => Buffer!TopNeedsReferenced
  BY DEF Buffer!TopNeedsAll, Buffer!TopNeedsReferenced
<1> HIDE DEF c, n
<1>10. Settled(o.ctrl) /\ o.out \subseteq Stream
  <2>1. CASE GainedUnits(b, n)
    <3>1. Outcome(c, o)
      BY <1>6, <1>7, <2>1, MaybeScheduleOutcome
    <3>2. c.ready => c.timer
      BY <1>1, <1>6 DEF Members, Settled
    <3>3. QED
      BY <1>6, <3>1, <3>2, OutcomeSettles DEF Outcome
  <2>2. CASE ~ GainedUnits(b, n)
    <3>1. o.ctrl = c /\ o.out = {}
      BY <1>7, <2>2 DEF Quiet
    <3>2. Scheduling(c)
      BY <1>1, <1>6, <1>8, <1>9, <2>2 DEF Settled, Scheduling, Members
    <3>3. QED
      BY <1>1, <1>6, <3>1, <3>2 DEF Settled, Members
  <2>3. QED
    BY <2>1, <2>2
<1>11. ASSUME Turn(ctrl, decodeQueue, results, required)
       PROVE  /\ Turn(ctrl, decodeQueue, results, required)'
              /\ Given(ctrl, decodeQueue, results, required, fed) =>
                     Given(ctrl, decodeQueue, results, required, fed)'
  <2>1. Turn(c, decodeQueue, results, required)
    BY <1>6, <1>11 DEF Turn, Members
  <2>2. Given(ctrl, decodeQueue, results, required, fed) =>
            Given(c, decodeQueue, results, required, fed)
    BY <1>5, <1>6 DEF Given, Known, Feeds, SameHistory, Members
  <2>3. CASE GainedUnits(b, n)
    <3>1. Outcome(c, o)
      BY <1>6, <1>7, <2>3, MaybeScheduleOutcome
    <3>5. required \in BOOLEAN /\ fed \in SUBSET Stream
      BY <1>1 DEF Types
    <3> DEFINE p == Posted(decodeQueue, o.out, key, required, due)
    <3>2. /\ Turn(o.ctrl, p, results, required)
          /\ Given(c, decodeQueue, results, required, fed) =>
                 Given(o.ctrl, p, results, required, fed \cup o.out)
      BY <1>3, <1>6, <2>1, <3>1, <3>5, OutcomeCycles
    <3>3. QED
      BY <1>2, <1>4, <2>2, <3>2
  <2>4. CASE ~ GainedUnits(b, n)
    <3>1. o.ctrl = c /\ o.out = {}
      BY <1>7, <2>4 DEF Quiet
    <3>2. decodeQueue' = decodeQueue /\ fed' = fed
      BY <1>4, <3>1 DEF Posted
    <3>3. QED
      BY <1>2, <1>4, <2>1, <2>2, <3>1, <3>2
  <2>5. QED
    BY <2>3, <2>4
<1>12. ASSUME starts = 0 PROVE Unstarted'
  <2>1. Unstarted /\ ~ ctrl.ready /\ ~ HasFrame(decodeQueue)
    BY <1>12 DEF IInv, Unstarted
  <2>2. o.out = {} /\ ~ o.ctrl.ready
    <3>1. ~ c.ready
      BY <1>6, <2>1 DEF Members
    <3>2. o = Quiet(c)
      BY <1>7, <3>1 DEF MaybeScheduleFrameForRelease
    <3>3. QED
      BY <3>1, <3>2 DEF Quiet
  <2>3. decodeQueue' = decodeQueue /\ ~ ctrl'.ready
    BY <1>4, <2>2 DEF Posted
  <2>4. QED
    BY <1>2, <2>1, <2>3 DEF Unstarted
<1>13. Types'
  <2>1. decodeQueue' \in Seq(Task) /\ fed' \subseteq Stream
    BY <1>3, <1>4, <1>10, PostedOK
  <2>2. QED
    BY <1>1, <1>2, <2>1, StreamAssumption DEF Types
<1>14. QED
  BY <1>2, <1>4, <1>10, <1>11, <1>12, <1>13 DEF IInv

LEMMA FireIInv ==
  ASSUME IInv, Fire
  PROVE  IInv'
<1> DEFINE c == [ctrl EXCEPT !.scheduled = None]
           o == FrameReadyForDecode(ctrl)
<1>1. Types /\ Settled(ctrl) /\ CtrlOK(ctrl)
  BY DEF IInv, Settled
<1>2. /\ UNCHANGED <<running, stopping, required, requested, generating, decoderStopped,
                     frameDecoded, results, inserts, rested, keyed, starts>>
      /\ ctrl.scheduled # None
      /\ Apply({FrameReadyForDecode(ctrl)}, decodeQueue, fed)
  BY DEF Fire, streamVars, decodeVars, startVars
<1>3. requested' \in BOOLEAN /\ required' \in BOOLEAN /\ decodeQueue \in Seq(Task)
      /\ fed \in SUBSET Stream
  BY <1>1, <1>2 DEF Types
<1>5. CtrlOK(c) /\ Members(c, ctrl.buf, ctrl.ready, ctrl.keyframeRequired, None, ctrl.timer)
  BY <1>1, QuietKeeps
<1>6. o = IF HasNext(ctrl.buf) THEN Release(c) ELSE Quiet(c)
  BY DEF FrameReadyForDecode
<1> DEFINE outcomes == {o}
<1>9. Apply(outcomes, decodeQueue, fed) /\ \A x \in outcomes : x = o
  BY <1>2
<1> HIDE DEF c, o, outcomes
<1>4. PICK key \in BOOLEAN, due \in BOOLEAN :
          /\ ctrl' = o.ctrl /\ fed' = fed \cup o.out
          /\ decodeQueue' = Posted(decodeQueue, o.out, key, required', due)
  BY <1>3, <1>9, ApplyIs
<1>7. CASE HasNext(ctrl.buf)
  <2>1. /\ CtrlOK(o.ctrl) /\ o.out \subseteq Stream
        /\ o.ctrl.timer = ctrl.timer /\ ~ o.ctrl.ready /\ o.ctrl.scheduled = None
        /\ ReleasedFrom(ctrl.buf, o.out, o.ctrl.buf)
    BY <1>5, <1>6, <1>7, ReleaseIs DEF Members
  <2>2. Settled(o.ctrl)
    BY <2>1, NothingToSchedule DEF Settled
  <2>3. ASSUME Turn(ctrl, decodeQueue, results, required)
        PROVE  /\ Turn(ctrl, decodeQueue, results, required)'
               /\ Given(ctrl, decodeQueue, results, required, fed) =>
                      Given(ctrl, decodeQueue, results, required, fed)'
    <3>1. ctrl.ready /\ ~ required /\ ~ HasFrame(decodeQueue) /\ results = <<>>
      BY <1>1, <1>2, <2>3 DEF Turn, Types
    <3>2. OneFrame(decodeQueue')
      BY <1>3, <1>4, <3>1, PostedOK
    <3>3. Turn(o.ctrl, decodeQueue', results, required)
      BY <2>1, <3>1, <3>2 DEF Turn
    <3>4. ASSUME Given(ctrl, decodeQueue, results, required, fed)
          PROVE  Given(o.ctrl, decodeQueue', results, required, fed \cup o.out)
      <4>1. Feeds(ctrl.buf, fed) /\ (KeyframesCut => ClosedSet(fed))
        BY <3>1, <3>4 DEF Given, Known
      <4>2. Feeds(o.ctrl.buf, fed \cup o.out)
        BY <1>3, <2>1, <4>1, ReleaseFeeds
      <4>3. KeyframesCut => ClosedSet(fed \cup o.out)
        BY <1>3, <2>1, <4>1, ReleaseClosed
      <4>4. Known(o.ctrl, decodeQueue', results, required, fed \cup o.out)
        BY <2>1, <4>2 DEF Known
      <4>5. QED
        BY <2>1, <4>3, <4>4 DEF Given
    <3>9. QED
      BY <1>2, <1>4, <3>3, <3>4
  <2>4. starts # 0
    <3>1. starts = 0 => ctrl.scheduled = None
      BY <1>1 DEF IInv, Types, Unstarted, Turn
    <3>2. QED
      BY <1>2, <3>1
  <2>5. Types'
    <3>1. decodeQueue' \in Seq(Task) /\ fed' \subseteq Stream
      BY <1>3, <1>4, <2>1, PostedOK
    <3>2. QED
      BY <1>1, <1>2, <3>1 DEF Types
  <2>6. QED
    BY <1>2, <1>4, <2>2, <2>3, <2>4, <2>5 DEF IInv
<1>8. CASE ~ HasNext(ctrl.buf)
  <2>1. o.ctrl = c /\ o.out = {}
    BY <1>6, <1>8 DEF Quiet
  <2>2. ctrl' = c /\ fed' = fed /\ decodeQueue' = decodeQueue
    BY <1>4, <2>1 DEF Posted
  <2>3. Settled(c)
    BY <1>1, <1>5, <1>8, NothingToSchedule DEF Settled, Members
  <2>4. /\ Turn(ctrl, decodeQueue, results, required) =>
               Turn(c, decodeQueue, results, required)
        /\ Given(ctrl, decodeQueue, results, required, fed) =>
               Given(c, decodeQueue, results, required, fed)
    BY <1>5 DEF Turn, Given, Known, Members
  <2>5. starts = 0 => Unstarted'
    BY <1>2, <1>5, <2>2 DEF IInv, Unstarted, Members
  <2>6. Types'
    BY <1>1, <1>2, <2>2 DEF Types
  <2>7. QED
    BY <1>2, <2>2, <2>3, <2>4, <2>5, <2>6 DEF IInv
<1>10. QED
  BY <1>7, <1>8

LEMMA TimeoutIInv ==
  ASSUME IInv, Timeout
  PROVE  IInv'
<1> DEFINE c == ControllerTimeout(ctrl)
           S == FedAfter(required)
<1>1. Types /\ Settled(ctrl) /\ CtrlOK(ctrl)
  BY DEF IInv, Settled
<1>2. UNCHANGED <<running, stopping, required, generating, decoderStopped, frameDecoded,
                  results, inserts, rested, keyed, starts>>
  BY DEF Timeout, decodeVars, startVars
<1>3. CtrlOK(c) /\ Members(c, ctrl.buf, FALSE, ctrl.keyframeRequired, ctrl.scheduled, FALSE)
  BY <1>1, QuietKeeps
<1>4. Settled(c)
  BY <1>3, NothingToSchedule DEF Settled, Members
<1>5. starts = 0 => ~ ctrl.ready
  BY DEF IInv, Unstarted
<1>6. CASE ~ ctrl.ready
  <2>1. ctrl' = c /\ UNCHANGED <<requested, decodeQueue, fed>>
    BY <1>6 DEF Timeout
  <2> HIDE DEF c
  <2>2. /\ Turn(ctrl, decodeQueue, results, required) =>
               Turn(c, decodeQueue, results, required)
        /\ Given(ctrl, decodeQueue, results, required, fed) =>
               Given(c, decodeQueue, results, required, fed)
    BY <1>3, <1>6 DEF Turn, Given, Known, Members
  <2>3. starts = 0 => Unstarted'
    BY <1>2, <1>3, <2>1 DEF IInv, Unstarted, Members
  <2>4. Types'
    BY <1>1, <1>2, <2>1 DEF Types
  <2>5. QED
    BY <1>2, <1>4, <2>1, <2>2, <2>3, <2>4 DEF IInv
<1>7. CASE ctrl.ready
  <2>1. requested' \in {requested, TRUE}
        /\ Apply(StartNextDecode(c, required), decodeQueue, S)
    BY <1>7 DEF Timeout
  <2>2. requested' \in BOOLEAN /\ required \in BOOLEAN /\ decodeQueue \in Seq(Task)
        /\ S \subseteq Stream
    BY <1>1, <2>1 DEF Types, FedAfter
  <2>3. S = IF required THEN {} ELSE fed
    BY DEF FedAfter
  <2> HIDE DEF c, S
  <2>4. PICK o \in StartNextDecode(c, required), key \in BOOLEAN, due \in BOOLEAN :
            /\ ctrl' = o.ctrl /\ fed' = S \cup o.out
            /\ decodeQueue' = Posted(decodeQueue, o.out, key, required, due)
    BY <1>2, <2>1, <2>2, ApplyIs
  <2>5. Settled(o.ctrl) /\ o.out \subseteq Stream
    BY <1>3, <2>2, <2>4, StartSettles
  <2>6. ASSUME Turn(ctrl, decodeQueue, results, required)
        PROVE  /\ Turn(ctrl, decodeQueue, results, required)'
               /\ Given(ctrl, decodeQueue, results, required, fed) =>
                      Given(ctrl, decodeQueue, results, required, fed)'
    <3>2. /\ ~ HasFrame(decodeQueue) /\ results = <<>>
          /\ c.scheduled # None => ~ required
      BY <1>3, <1>7, <2>6 DEF Turn, Members
    <3> DEFINE p == Posted(decodeQueue, o.out, key, required, due)
    <3>3. Turn(o.ctrl, p, results, required)
      BY <1>3, <2>2, <2>4, <3>2, StartTurns
    <3>4. ASSUME Given(ctrl, decodeQueue, results, required, fed)
          PROVE  Given(o.ctrl, p, results, required, S \cup o.out)
      <4>1. (required /\ S = {}) \/ (~ required /\ Feeds(c.buf, S))
        BY <1>3, <2>2, <2>3, <3>4 DEF Given, Known, Members
      <4>2. KeyframesCut => ClosedSet(S)
        BY <2>3, <3>4 DEF Given, ClosedSet
      <4>3. QED
        BY <1>3, <2>2, <2>4, <3>2, <4>1, <4>2, StartGives
    <3>6. QED
      BY <1>2, <2>4, <3>2, <3>3, <3>4
  <2>7. Types'
    <3>1. decodeQueue' \in Seq(Task) /\ fed' \subseteq Stream
      BY <2>2, <2>4, <2>5, PostedOK
    <3>2. QED
      BY <1>1, <1>2, <2>2, <3>1 DEF Types
  <2>8. QED
    BY <1>2, <1>5, <1>7, <2>4, <2>5, <2>6, <2>7 DEF IInv
<1>8. QED
  BY <1>6, <1>7

LEMMA ResultIInv ==
  ASSUME IInv, OnDecodeResult
  PROVE  IInv'
<1> DEFINE r == Head(results)
           S == FedAfter(r.required)
<1>1. Types /\ Settled(ctrl) /\ CtrlOK(ctrl)
  BY DEF IInv, Settled
<1>2. /\ results # <<>> /\ results' = Tail(results) /\ required' = r.required
      /\ generating' = (generating /\ ~r.key)
      /\ \E request \in RequestsKeyFrame(r) : requested' = (requested \/ request)
      /\ UNCHANGED <<running, stopping, decoderStopped, frameDecoded, inserts,
                     rested, keyed, starts>>
      /\ Apply(StartNextDecode(ctrl, r.required), decodeQueue, S)
  BY DEF OnDecodeResult, decodeVars, startVars, NextDecodeRequires
<1>3. /\ r \in Result /\ results' \in Seq(Result)
      /\ Len(results) = 1 => results' = <<>>
  <2>1. results \in Seq(Result)
    BY <1>1 DEF Types
  <2>2. QED
    BY <1>2, <2>1
<1>4. r.required \in BOOLEAN /\ r.key \in BOOLEAN
  BY <1>3 DEF Result
<1>5. RequestsKeyFrame(r) \subseteq BOOLEAN
  BY DEF RequestsKeyFrame
<1>6. /\ requested' \in BOOLEAN /\ generating' \in BOOLEAN
      /\ required' \in BOOLEAN /\ decodeQueue \in Seq(Task) /\ S \subseteq Stream
  BY <1>1, <1>2, <1>4 DEF Types, FedAfter
<1>7. S = IF r.required THEN {} ELSE fed
  BY DEF FedAfter
<1> DEFINE outcomes == StartNextDecode(ctrl, r.required)
<1>14. Apply(outcomes, decodeQueue, S)
  BY <1>2
<1> HIDE DEF S, r, outcomes
<1>15. PICK o \in outcomes, key \in BOOLEAN, due \in BOOLEAN :
          /\ ctrl' = o.ctrl /\ fed' = S \cup o.out
          /\ decodeQueue' = Posted(decodeQueue, o.out, key, required', due)
  BY <1>6, <1>14, ApplyIs
<1>8. /\ o \in StartNextDecode(ctrl, r.required)
      /\ ctrl' = o.ctrl /\ fed' = S \cup o.out
      /\ decodeQueue' = Posted(decodeQueue, o.out, key, required', due)
  BY <1>15 DEF outcomes
<1>9. Settled(o.ctrl) /\ o.out \subseteq Stream
  BY <1>1, <1>4, <1>8, StartSettles
<1>10. ASSUME Turn(ctrl, decodeQueue, results, required)
       PROVE  /\ Turn(ctrl, decodeQueue, results, required)'
              /\ Given(ctrl, decodeQueue, results, required, fed) =>
                     Given(ctrl, decodeQueue, results, required, fed)'
  <2>2. ~ HasFrame(decodeQueue) /\ results' = <<>> /\ ctrl.scheduled = None
    BY <1>2, <1>3, <1>10 DEF Turn
  <2> DEFINE p == Posted(decodeQueue, o.out, key, r.required, due)
  <2>3. Turn(o.ctrl, p, results', r.required)
    BY <1>1, <1>4, <1>6, <1>8, <2>2, StartTurns
  <2>4. ASSUME Given(ctrl, decodeQueue, results, required, fed)
        PROVE  Given(o.ctrl, p, results', r.required, S \cup o.out)
    <3>1. Feeds(ctrl.buf, fed) /\ (KeyframesCut => ClosedSet(fed))
      BY <1>2, <2>4 DEF Given, Known
    <3>2. (r.required /\ S = {}) \/ (~ r.required /\ Feeds(ctrl.buf, S))
      BY <1>4, <1>7, <3>1
    <3>3. KeyframesCut => ClosedSet(S)
      BY <1>7, <3>1 DEF ClosedSet
    <3>4. QED
      BY <1>1, <1>4, <1>6, <1>8, <2>2, <3>2, <3>3, StartGives
  <2>6. QED
    BY <1>2, <1>8, <2>2, <2>3, <2>4
<1>11. starts # 0
  BY <1>2 DEF IInv, Unstarted
<1>12. Types'
  <2>1. decodeQueue' \in Seq(Task) /\ fed' \subseteq Stream
    BY <1>6, <1>8, <1>9, PostedOK
  <2>2. QED
    BY <1>1, <1>2, <1>3, <1>6, <2>1 DEF Types
<1>13. QED
  BY <1>2, <1>8, <1>9, <1>10, <1>11, <1>12 DEF IInv

LEMMA GenerateIInv ==
  ASSUME IInv, GenerateKeyFrame
  PROVE  IInv'
<1>1. /\ requested' = TRUE /\ generating' = TRUE
      /\ UNCHANGED <<ctrl, running, stopping, required, decodeQueue, decoderStopped,
                     frameDecoded, results, fed, inserts, rested, keyed, starts>>
  BY DEF GenerateKeyFrame, decodeVars, startVars
<1>2. Types'
  BY <1>1 DEF IInv, Types
<1>3. starts = 0 => Unstarted'
  BY <1>1 DEF IInv, Unstarted
<1>4. QED
  BY <1>1, <1>2, <1>3 DEF IInv

LEMMA StartIInv ==
  ASSUME IInv, Start
  PROVE  IInv'
<1>16. PICK q : q = Append(decodeQueue, StartTask)
  OBVIOUS
<1>15. PICK none : none = {}
  OBVIOUS
<1>1. Types /\ Settled(ctrl) /\ CtrlOK(ctrl)
  BY DEF IInv, Settled
<1>2. /\ starts < MaxStarts /\ starts' = starts + 1 /\ running' = TRUE
      /\ UNCHANGED <<stopping, required, requested, generating, decoderStopped, frameDecoded,
                     results, inserts>>
      /\ rested' = (rested /\ AtRest) /\ keyed' = (keyed /\ AtRest /\ required)
      /\ Apply(StartNextDecode(ctrl, TRUE), q, none)
  BY <1>15, <1>16 DEF Start, decodeVars
<1>3. /\ requested' \in BOOLEAN /\ required' \in BOOLEAN
      /\ starts \in Nat /\ starts' \in 0 .. MaxStarts
  BY <1>1, <1>2, StreamAssumption DEF Types
<1>4. q \in Seq(Task) /\ (~ HasFrame(decodeQueue) => ~ HasFrame(q))
  BY <1>1, <1>16, AppendTask, TaskTypes DEF Types
<1>5. none \subseteq Stream /\ ClosedSet(none) /\ none = {} /\ TRUE \in BOOLEAN
  BY <1>15 DEF ClosedSet
<1> DEFINE outcomes == StartNextDecode(ctrl, TRUE)
<1>12. Apply(outcomes, q, none)
  BY <1>2
<1> HIDE DEF outcomes
<1>13. PICK o \in outcomes, key \in BOOLEAN, due \in BOOLEAN :
          /\ ctrl' = o.ctrl /\ fed' = none \cup o.out
          /\ decodeQueue' = Posted(q, o.out, key, required', due)
  BY <1>12, ApplyIs
<1>6. /\ o \in StartNextDecode(ctrl, TRUE)
      /\ ctrl' = o.ctrl /\ fed' = none \cup o.out
      /\ decodeQueue' = Posted(q, o.out, key, required', due)
  BY <1>13 DEF outcomes
<1>7. Settled(o.ctrl) /\ o.out \subseteq Stream
  BY <1>1, <1>5, <1>6, StartSettles
<1>14. AtRest => ~ HasFrame(q) /\ results = <<>> /\ ctrl.scheduled = None
  BY <1>4 DEF AtRest, HasFrame, IsFrameTask
<1>8. ASSUME AtRest
      PROVE  /\ Turn(ctrl, decodeQueue, results, required)'
             /\ required => Given(ctrl, decodeQueue, results, required, fed)'
  <2>1. required \in BOOLEAN
    BY <1>1 DEF Types
  <2>5. CtrlOK(ctrl) /\ o \in StartNextDecode(ctrl, TRUE) /\ q \in Seq(Task)
    BY <1>1, <1>4, <1>6
  <2>6. ~ HasFrame(q) /\ results = <<>> /\ (ctrl.scheduled # None => ~ TRUE)
    BY <1>8, <1>14
  <2>2. Turn(o.ctrl, Posted(q, o.out, key, required, due), results, required)
    BY <2>1, <2>5, <2>6, StartTurns, ZenonT(60)
  <2>3. ASSUME required = TRUE
        PROVE  Given(o.ctrl, Posted(q, o.out, key, TRUE, due), results, TRUE, none \cup o.out)
    <3>1. none \in SUBSET Stream /\ none = {} /\ (KeyframesCut => ClosedSet(none))
      BY <1>5
    <3>2. QED
      BY <2>5, <2>6, <3>1, StartGives
  <2>4. QED
    BY <1>2, <1>6, <2>1, <2>2, <2>3
<1>17. starts' <= 1 => keyed'
  <2>1. starts = 0 => keyed /\ rested /\ Unstarted /\ Turn(ctrl, decodeQueue, results, required)
    BY DEF IInv
  <2>2. starts = 0 => AtRest /\ required
    BY <2>1 DEF Unstarted, Turn, AtRest, HasFrame, IsFrameTask
  <2>3. QED
    BY <1>2, <1>3, <2>1, <2>2
<1>18. /\ rested' => Turn(ctrl, decodeQueue, results, required)'
       /\ keyed' => rested' /\ Given(ctrl, decodeQueue, results, required, fed)'
  <2>1. keyed => rested
    BY DEF IInv
  <2>2. QED
    BY <1>2, <1>8, <2>1
<1>9. starts' # 0
  BY <1>2, <1>3
<1>10. Types'
  <2>1. decodeQueue' \in Seq(Task) /\ fed' \subseteq Stream
    BY <1>3, <1>4, <1>5, <1>6, <1>7, PostedOK
  <2>2. QED
    BY <1>1, <1>2, <1>3, <2>1 DEF Types
<1>11. QED
  BY <1>6, <1>7, <1>9, <1>10, <1>17, <1>18 DEF IInv

LEMMA StopIInv ==
  ASSUME IInv, Stop
  PROVE  IInv'
<1> DEFINE c == ControllerStop(ctrl)
<1>1. Types /\ Settled(ctrl) /\ CtrlOK(ctrl)
  BY DEF IInv, Settled
<1>2. /\ ctrl' = c /\ stopping' = running
      /\ decodeQueue' = IF running THEN Append(decodeQueue, StopTask) ELSE decodeQueue
      /\ UNCHANGED <<running, required, requested, generating, decoderStopped, frameDecoded,
                     results, fed, inserts, rested, keyed, starts>>
  BY DEF Stop, StopWaits, decodeVars, startVars
<1>3. CtrlOK(c) /\ Members(c, ctrl.buf, FALSE, ctrl.keyframeRequired, None, FALSE)
  BY <1>1, QuietKeeps
<1>4. Settled(c)
  BY <1>3, NothingToSchedule DEF Settled, Members
<1>5. /\ decodeQueue' \in Seq(Task)
      /\ HasFrame(decodeQueue') <=> HasFrame(decodeQueue)
      /\ OneFrame(decodeQueue) => OneFrame(decodeQueue')
  BY <1>1, <1>2, AppendTask, TaskTypes DEF Types
<1> HIDE DEF c
<1>6. /\ Turn(ctrl, decodeQueue, results, required) =>
             Turn(c, decodeQueue', results, required)
      /\ Given(ctrl, decodeQueue, results, required, fed) =>
             Given(c, decodeQueue', results, required, fed)
  BY <1>3, <1>5 DEF Turn, Given, Known, Members
<1>7. starts = 0 => Unstarted'
  BY <1>2, <1>3, <1>5 DEF IInv, Unstarted, Members
<1>8. Types'
  BY <1>1, <1>2, <1>5 DEF Types
<1>9. QED
  BY <1>2, <1>4, <1>6, <1>7, <1>8 DEF IInv

LEMMA DecodeIInv ==
  ASSUME IInv, DecodeFrame
  PROVE  IInv'
<1> DEFINE t == Head(decodeQueue)
<1>1. Types
  BY DEF IInv
<1>2. /\ decodeQueue # <<>> /\ t.kind = "frame" /\ decodeQueue' = Tail(decodeQueue)
      /\ UNCHANGED <<ctrl, running, stopping, required, requested, generating,
                     decoderStopped, fed, inserts, rested, keyed, starts>>
  BY DEF DecodeFrame, streamVars, startVars
<1>3. /\ decodeQueue' \in Seq(Task) /\ t \in Task
      /\ HasFrame(decodeQueue)
      /\ OneFrame(decodeQueue) => OneFrame(decodeQueue') /\ ~ HasFrame(decodeQueue')
  BY <1>1, <1>2, TailTask DEF Types
<1>4. /\ frameDecoded' \in BOOLEAN
      /\ results' = results \/ \E r \in Result : results' = Append(results, r)
  <2>1. CASE decoderStopped
    BY <1>1, <2>1 DEF DecodeFrame, Types
  <2>2. CASE ~ decoderStopped
    <3>1. PICK outcome \in {"ok", "ok request keyframe", "error"} :
              /\ frameDecoded' = (frameDecoded \/ outcome # "error")
              /\ results' = Append(results, DecodeResult(t, outcome))
      BY <2>2 DEF DecodeFrame, Reports
    <3>2. t.key \in BOOLEAN /\ t.due \in BOOLEAN
      BY <1>2, <1>3, TaskTypes
    <3>3. DecodeResult(t, outcome) \in Result
      BY <3>2 DEF DecodeResult, Result
    <3>4. QED
      BY <3>1, <3>3
  <2>3. QED
    BY <2>1, <2>2
<1>5. results' \in Seq(Result) /\ (results = <<>> => results' = <<>> \/ Len(results') = 1)
  <2>1. results \in Seq(Result)
    BY <1>1 DEF Types
  <2>2. CASE results' = results
    BY <2>1, <2>2
  <2>3. CASE \E r \in Result : results' = Append(results, r)
    <3>1. PICK r \in Result : results' = Append(results, r)
      BY <2>3
    <3>2. results' \in Seq(Result) /\ Len(results') = Len(results) + 1
      BY <2>1, <3>1
    <3>3. results = <<>> => Len(results) = 0
      OBVIOUS
    <3>4. QED
      BY <3>2, <3>3
  <2>4. QED
    BY <1>4, <2>2, <2>3
<1>6. ASSUME Turn(ctrl, decodeQueue, results, required)
      PROVE  /\ Turn(ctrl, decodeQueue, results, required)'
             /\ Given(ctrl, decodeQueue, results, required, fed) =>
                    Given(ctrl, decodeQueue, results, required, fed)'
  <2>2. /\ ~ ctrl.ready /\ results = <<>> /\ ctrl.scheduled = None
        /\ ~ HasFrame(decodeQueue') /\ OneFrame(decodeQueue')
    BY <1>3, <1>6 DEF Turn
  <2>3. Turn(ctrl, decodeQueue', results', required)
    BY <1>5, <2>2 DEF Turn
  <2>4. ASSUME Given(ctrl, decodeQueue, results, required, fed)
        PROVE  Given(ctrl, decodeQueue', results', required, fed)
    <3>1. Feeds(ctrl.buf, fed)
      BY <1>3, <2>4 DEF Given, Known
    <3>2. Known(ctrl, decodeQueue', results', required, fed)
      BY <2>2, <3>1 DEF Known
    <3>3. QED
      BY <2>2, <2>4, <3>2 DEF Given
  <2>6. QED
    BY <1>2, <2>3, <2>4
<1>7. starts # 0
  BY <1>3 DEF IInv, Unstarted
<1>8. Types'
  BY <1>1, <1>2, <1>3, <1>4, <1>5 DEF Types
<1>9. QED
  BY <1>2, <1>6, <1>7, <1>8 DEF IInv

LEMMA StartStopIInv ==
  ASSUME IInv, DecodeStartStop
  PROVE  IInv'
<1> DEFINE t == Head(decodeQueue)
<1>1. Types
  BY DEF IInv
<1>2. /\ decodeQueue # <<>> /\ t.kind # "frame" /\ decodeQueue' = Tail(decodeQueue)
      /\ decoderStopped' \in BOOLEAN /\ stopping' \in {stopping, FALSE}
      /\ running' \in {running, FALSE}
      /\ UNCHANGED <<ctrl, required, requested, generating, frameDecoded, results, fed,
                     inserts, rested, keyed, starts>>
  BY DEF DecodeStartStop, startVars
<1>3. /\ decodeQueue' \in Seq(Task)
      /\ HasFrame(decodeQueue') => HasFrame(decodeQueue)
      /\ OneFrame(decodeQueue) => OneFrame(decodeQueue')
  BY <1>1, <1>2, TailTask DEF Types
<1>4. /\ Turn(ctrl, decodeQueue, results, required) =>
             Turn(ctrl, decodeQueue', results, required)
      /\ Given(ctrl, decodeQueue, results, required, fed) =>
             Given(ctrl, decodeQueue', results, required, fed)
  BY <1>3 DEF Turn, Given, Known
<1>5. starts = 0 => Unstarted'
  BY <1>2, <1>3 DEF IInv, Unstarted
<1>6. Types'
  BY <1>1, <1>2, <1>3 DEF Types
<1>7. QED
  BY <1>2, <1>4, <1>5, <1>6 DEF IInv

LEMMA NextIInv == IInv /\ [Next]_vars => IInv'
<1> SUFFICES ASSUME IInv, [Next]_vars PROVE IInv'
  OBVIOUS
<1>1. CASE UNCHANGED vars
  BY <1>1 DEF IInv, Types, Unstarted, vars, streamVars, decodeVars, startVars
<1>2. CASE Next
  BY <1>2, InsertIInv, FireIInv, TimeoutIInv, ResultIInv, GenerateIInv, StartIInv, StopIInv,
     DecodeIInv, StartStopIInv DEF Next
<1>3. QED
  BY <1>1, <1>2

-------------------------------------------------------------------------------
(* The theorems *)

\* The controller is settled and the turn is kept in every state of the receive stream.
THEOREM Invariance == Spec => []IInv
<1>1. QED
  BY InitIInv, NextIInv, PTL DEF Spec

\* The members of the stream, its controller and their queues keep their types, and the
\* buffer holds at most MaxSize frames of the stream.
THEOREM TypeCorrect == Spec => []TypeOK
<1>1. IInv => TypeOK
  <2> SUFFICES ASSUME IInv PROVE TypeOK
    OBVIOUS
  <2>1. Types /\ CtrlOK(ctrl) /\ Buffer!FramesOK(ctrl.buf)
    BY DEF IInv, Settled, CtrlOK, Buffer!StreamOK, Buffer!BufferOK
  <2>2. /\ Cardinality(Ids(ctrl.buf)) <= MaxSize
        /\ \A i \in Ids(ctrl.buf) : ctrl.buf.frames[i] \in Stream
    <3>1. Buffer!Cardinality(Ids(ctrl.buf)) = Cardinality(Ids(ctrl.buf))
      BY DEF Buffer!Cardinality, Cardinality
    <3>2. QED
      BY <2>1, <3>1, SameOperators DEF Buffer!FramesOK
  <2>3. QED
    BY <2>1, <2>2 DEF TypeOK, Types, CtrlOK, Timestamps
<1>2. QED
  BY <1>1, Invariance, PTL

\* While the decoder waits for a frame, the timeout that asks for a keyframe is armed.
THEOREM TimeoutIsArmed == Spec => []TimeoutArmed
<1>1. IInv => TimeoutArmed
  BY DEF IInv, Settled, TimeoutArmed
<1>2. QED
  BY <1>1, Invariance, PTL

\* No lost wakeup: MaybeScheduleFrameForRelease is called at every change that makes a
\* unit decodable, where the last frame of a unit depends on what the others refer to.
THEOREM DecodableUnitsScheduled ==
  ASSUME Buffer!Regular, Buffer!TopNeedsReferenced
  PROVE  Spec => []DecodableIsScheduled
<1>1. IInv => DecodableIsScheduled
  BY DEF IInv, Settled, Scheduling, DecodableIsScheduled
<1>2. QED
  BY <1>1, Invariance, PTL

\* FrameReadyForDecode is called for the unit that is next, where the last frame of a
\* unit depends on all the others, over starts that found the decode cycle at rest, as
\* the first one does (starts <= 1 => keyed in IInv).
THEOREM ScheduledUnitIsNext ==
  ASSUME Buffer!Regular, Buffer!TopNeedsAll
  PROVE  Spec => []ScheduledIsNext
<1>1. IInv => ScheduledIsNext
  BY DEF IInv, Settled, Scheduling, Turn, ScheduledIsNext
<1>2. QED
  BY <1>1, Invariance, PTL

\* The decoder is given nothing it cannot decode, where no frame refers to one before
\* a keyframe it follows, over starts that found the decode cycle at rest and a keyframe
\* required, as the first one does.
THEOREM DecoderGetsDecodable ==
  ASSUME KeyframesCut
  PROVE  Spec => []DecoderInputDecodable
<1>1. IInv => DecoderInputDecodable
  BY DEF IInv, Given, ClosedSet, DecoderInputDecodable
<1>2. QED
  BY <1>1, Invariance, PTL
===============================================================================
