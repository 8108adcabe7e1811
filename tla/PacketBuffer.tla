----------------------------- MODULE PacketBuffer -----------------------------
(***************************************************************************)
(* webrtc::video_coding::PacketBuffer (modules/video_coding/              *)
(* packet_buffer.{h,cc}): RTP packets and padding come in any order, some  *)
(* never and some more than once, and whole frames are handed out.         *)
(*                                                                         *)
(* Sequence numbers count modulo SeqMod (2^16).  The slots of buffer_ are  *)
(* a set of packets: a packet's slot is its sequence number modulo size.   *)
(***************************************************************************)
EXTENDS Integers, FiniteSets

CONSTANTS Streams,        \* what a sender may send: records packets, padding, spsPps
          SeqMod,         \* sequence numbers count modulo SeqMod
          StartBufferSize, MaxBufferSize,
          MaxPaddingAge   \* kMaxPaddingAge

PowersOfTwo == {1, 2, 4, 8, 16, 32, 64, 128, 256, 512, 1024, 2048, 4096, 8192, 16384,
                32768, 65536}

\* "Buffer size must always be a power of 2."
ASSUME PacketBufferAssumption ==
    /\ {SeqMod, StartBufferSize, MaxBufferSize} \subseteq PowersOfTwo
    /\ StartBufferSize <= MaxBufferSize /\ MaxBufferSize < SeqMod
    /\ MaxPaddingAge \in Nat \ {0}

\* The packets of one timestamp are of one codec: FindFrames gives up where a packet
\* inside an H.264 frame has no H.264 header, which the model leaves out.
ASSUME OneCodec ==
    \A s \in Streams : \A p, q \in s.packets : p.ts = q.ts => p.h264 = q.h264

None == -1
SeqNum == 0 .. SeqMod - 1
Succ(n) == (n + 1) % SeqMod
Back(n, k) == (n - k) % SeqMod

\* ForwardDiff and AheadOf of two sequence numbers.
ForwardDiff(a, b) == (b - a) % SeqMod
AheadOf(a, b) ==
    /\ a # b
    /\ \/ 2 * ForwardDiff(b, a) < SeqMod
       \/ 2 * ForwardDiff(b, a) = SeqMod /\ a > b

LeastOf(S) == CHOOSE m \in S : \A n \in S : m <= n

EmptyBuffer ==
    [size |-> StartBufferSize,  \* buffer_.size()
     stored |-> {},             \* the packets in buffer_
     continuous |-> {},         \* sequence numbers of those whose continuous is set
     first |-> 0,               \* first_seq_num_
     received |-> FALSE,        \* first_packet_received_
     clearedTo |-> FALSE,       \* is_cleared_to_first_seq_num_
     newest |-> None,           \* newest_inserted_seq_num_
     missing |-> {},            \* missing_packets_
     padding |-> {}]            \* received_padding_

\* What the slot of number n holds: one packet or none, of whatever number.
Slot(b, n) == {p \in b.stored : p.seq % b.size = n % b.size}

\* ClearInternal: the slots stay as many as they are, first_seq_num_ stays.
ClearInternal(b) == [EmptyBuffer EXCEPT !.size = b.size, !.first = b.first]

-------------------------------------------------------------------------------
(* UpdateMissingPackets and FindFrames *)

FillGap(b, n) == [b EXCEPT !.missing = @ \ {n}]

UpdateMissingPackets(b, n) ==
    LET newest == IF b.newest = None THEN n ELSE b.newest
        old == Back(n, MaxPaddingAge)
        from == IF AheadOf(old, newest) THEN old ELSE newest
    IN IF AheadOf(n, newest)
       THEN [b EXCEPT !.newest = n,
                      !.missing = {m \in @ : ~AheadOf(old, m)}
                          \cup {m \in SeqNum : AheadOf(m, from) /\ AheadOf(n, m)}]
       ELSE FillGap([b EXCEPT !.newest = newest], n)

\* Wrong variant: the packet in the slot before it is not looked at closely.
PotentialBySlot(b, n) ==
    \E p \in b.stored :
        /\ p.seq = n
        /\ p.first \/ \E q \in Slot(b, Back(n, 1)) : q.seq \in b.continuous

\* The packet with number n continues a frame whose packets are all there.
PotentialNewFrame(b, n) ==
    \E p \in b.stored :
        /\ p.seq = n
        /\ \/ p.first
           \/ \E q \in b.stored : /\ q.seq = Back(n, 1) /\ q.ts = p.ts
                                  /\ q.seq \in b.continuous

\* How many packets of one timestamp lie behind n, by slot.
SameTimestamp(b, n) ==
    LET ts == {p.ts : p \in Slot(b, n)}
        breaks == {k \in 1 .. b.size - 1 : {p.ts : p \in Slot(b, Back(n, k))} # ts}
    IN LeastOf(breaks \cup {b.size}) - 1

\* How far back the H.264 walk from n goes before a generic descriptor ends
\* it; None if the frame has no such descriptor.
GenericFrom(b, n) ==
    LET offsets == IF \E p \in Slot(b, n) : p.h264 THEN 0 .. SameTimestamp(b, n) ELSE {0}
        generic == {k \in offsets : \E p \in Slot(b, Back(n, k)) : p.generic \/ ~p.h264}
    IN IF generic = {} THEN None ELSE LeastOf(generic)

\* Where the walk from k slots behind n stops: an empty slot, or is_first.
Stops(b, n, k) ==
    {i \in k .. b.size - 1 : \A p \in Slot(b, Back(n, i)) : p.first}

IsH264Keyframe(nalus, spsPps) ==
    "idr" \in nalus /\ (spsPps => {"sps", "pps"} \subseteq nalus)

\* The packets in the slots of numbers from to n.
InSlots(b, from, n) == UNION {Slot(b, Back(n, k)) : k \in 0 .. ForwardDiff(from, n)}

\* The frame that ends with packet n: found is whether its start was found.
FrameEndingAt(b, n, spsPps) ==
    LET g == GenericFrom(b, n)
        stops == Stops(b, n, g)
        from == IF g = None THEN Back(n, SameTimestamp(b, n))
                ELSE IF stops = {} THEN Back(n, b.size - 1)
                ELSE Back(n, LeastOf(stops))
        packets == InSlots(b, from, n)
    IN [from |-> from, to |-> n, packets |-> packets, h264 |-> g = None,
        key |-> g = None /\ IsH264Keyframe(UNION {p.nalus : p \in packets}, spsPps),
        found |-> g = None \/ (stops # {} /\ Slot(b, from) # {})]

\* Wrong variant: a delta frame is handed out whatever precedes it.
BlockedNever(b, f) == FALSE

\* An H.264 delta frame waits for every missing packet up to its start.
Blocked(b, f) == f.h264 /\ ~f.key /\ \E m \in b.missing : ~AheadOf(m, f.from)

HandOut(b, f, start) ==
    [b EXCEPT
        !.stored = @ \ f.packets,
        !.continuous = @ \ {p.seq : p \in f.packets},
        !.missing = {m \in @ : AheadOf(m, f.to)},
        !.padding = {m \in @ : AheadOf(start, m) \/ AheadOf(m, f.to)}]

\* One round of the loop of FindFrames; w is the buffer, the number looked at,
\* the frames found and whether the loop has ended.
FindStep(w, start, spsPps) ==
    IF w.ended THEN w
    ELSE IF w.seq \in w.b.padding THEN [w EXCEPT !.seq = Succ(@)]
    ELSE IF ~PotentialNewFrame(w.b, w.seq) THEN [w EXCEPT !.ended = TRUE]
    ELSE LET marked == [w.b EXCEPT !.continuous = @ \cup {w.seq}]
             f == FrameEndingAt(marked, w.seq, spsPps)
         IN IF \E p \in Slot(marked, w.seq) : ~p.last
            THEN [w EXCEPT !.b = marked, !.seq = Succ(@)]
            ELSE IF Blocked(marked, f) THEN [w EXCEPT !.b = marked, !.ended = TRUE]
            ELSE IF f.found
            THEN [w EXCEPT !.b = HandOut(marked, f, start), !.seq = Succ(@),
                           !.out = @ \cup {f}]
            ELSE [w EXCEPT !.b = marked, !.seq = Succ(@)]

\* Wrong variant: the loop ends one round early.
FindFramesShort(b, start, spsPps) ==
    LET walk[i \in 0 .. b.size] ==
            IF i = 0 THEN [b |-> b, seq |-> start, out |-> {}, ended |-> FALSE]
            ELSE FindStep(walk[i - 1], start, spsPps)
    IN walk[b.size - 1]

FindFrames(b, start, spsPps) ==
    LET walk[i \in 0 .. b.size] ==
            IF i = 0 THEN [b |-> b, seq |-> start, out |-> {}, ended |-> FALSE]
            ELSE FindStep(walk[i - 1], start, spsPps)
    IN walk[b.size]

-------------------------------------------------------------------------------
(* InsertPacket, InsertPadding, ClearTo *)

Old(b, n) == b.received /\ AheadOf(b.first, n)

\* The number jumped back by more than the buffer can hold.
LargeJump(b, n) ==
    /\ ForwardDiff(b.first, n) >= MaxBufferSize
    /\ 2 * ForwardDiff(n, b.first) >= MaxBufferSize

\* The buffer a packet that is not ignored goes into.
Admit(b, n) ==
    IF ~b.received \/ Old(b, n)
    THEN [(IF Old(b, n) /\ LargeJump(b, n) THEN ClearInternal(b) ELSE b)
            EXCEPT !.first = n, !.received = TRUE]
    ELSE b

Ignored(b, n) == Old(b, n) /\ b.clearedTo

\* ExpandBufferSize until the slot of n is free or the size is max_size_.
Expand(b, n) ==
    LET sizes == {s \in PowersOfTwo : b.size <= s /\ s <= MaxBufferSize}
        free == {s \in sizes : \A p \in b.stored : p.seq % s # n % s}
    IN [b EXCEPT !.size = IF free = {} THEN MaxBufferSize ELSE LeastOf(free)]

\* Padding a quarter of the buffer behind the packet is forgotten.
ForgetPadding(b, n) ==
    [b EXCEPT !.padding = {m \in @ : ~AheadOf(Back(n, b.size \div 4), m)}]

Place(b, p) ==
    ForgetPadding(UpdateMissingPackets([b EXCEPT !.stored = @ \cup {p}], p.seq), p.seq)

Returns(b, out, cleared) == [b |-> b, out |-> out, cleared |-> cleared]

\* The outcome of a call: the buffer, the frames and buffer_cleared.
InsertPacket(b, p, spsPps) ==
    LET b1 == Admit(b, p.seq)
        b2 == Expand(b1, p.seq)
    IN IF Ignored(b, p.seq) THEN Returns(b, {}, FALSE)
       ELSE IF p \in Slot(b1, p.seq) THEN Returns(b1, {}, FALSE)
       ELSE IF Slot(b2, p.seq) # {} THEN Returns(ClearInternal(b2), {}, TRUE)
       ELSE LET w == FindFrames(Place(b2, p), p.seq, spsPps)
            IN Returns(w.b, w.out, FALSE)

InsertPadding(b, n, spsPps) ==
    LET b1 == UpdateMissingPackets(b, n)
        w == FindFrames([b1 EXCEPT !.padding = @ \cup {n}], Succ(n), spsPps)
    IN Returns(w.b, w.out, FALSE)

\* The slots the loop of ClearTo visits, from first_seq_num_ on.
Visited(b, upto) ==
    LET count == ForwardDiff(b.first, upto)
    IN {p \in b.stored : \/ count >= b.size
                         \/ ForwardDiff(b.first, p.seq) % b.size < count}

ClearTo(b, n) ==
    LET upto == Succ(n)
        gone == {p \in Visited(b, upto) : AheadOf(upto, p.seq)}
    IN IF AheadOf(b.first, n) \/ ~b.received THEN b
       ELSE [b EXCEPT
               !.stored = @ \ gone,
               !.continuous = @ \ {p.seq : p \in gone},
               !.first = upto, !.clearedTo = TRUE,
               !.missing = {m \in @ : ~AheadOf(upto, m)},
               !.padding = {m \in @ : ~AheadOf(upto, m)}]

-------------------------------------------------------------------------------
VARIABLES
    buffer,        \* the PacketBuffer
    sent,     \* what the sender sends, and whether sps_pps_idr_is_h264_keyframe_ is set
    result,   \* ghost: the frames the last call returned
    handed,   \* ghost: the last numbers of all frames returned since the last clear
    seen,     \* ghost: the numbers inserted since the last clear
    origin,   \* ghost: the first of them, where tracking starts
    forgiven  \* ghost: gaps up to here no longer matter: a keyframe or ClearTo

vars == <<buffer, sent, result, handed, seen, origin, forgiven>>

Init ==
    /\ buffer = EmptyBuffer
    /\ sent \in Streams
    /\ result = {} /\ handed = {} /\ seen = {}
    /\ origin = None /\ forgiven = None

Newest(S) == CHOOSE m \in S : \A n \in S : ~AheadOf(n, m)

\* The ghosts after an insertion of n that returned r: a call that emptied the
\* buffer (a full one, or a large jump) starts them afresh.
Observe(n, r, fresh) ==
    LET keys == {f.to : f \in {g \in r.out : g.key}}
        gone == keys \cup (IF fresh THEN {} ELSE {forgiven} \ {None})
    IN /\ buffer' = r.b
       /\ result' = r.out
       /\ handed' = (IF fresh THEN {} ELSE handed) \cup {f.to : f \in r.out}
       /\ seen' = (IF fresh THEN {} ELSE seen) \cup (IF r.cleared THEN {} ELSE {n})
       /\ origin' = (IF seen' = {} THEN None ELSE IF fresh \/ seen = {} THEN n ELSE origin)
       /\ forgiven' = (IF gone = {} THEN None ELSE Newest(gone))
       /\ UNCHANGED sent

Packet(p) ==
    LET r == InsertPacket(buffer, p, sent.spsPps)
        jumped == Old(buffer, p.seq) /\ ~buffer.clearedTo /\ LargeJump(buffer, p.seq)
    IN Observe(p.seq, r, r.cleared \/ jumped)

Padding(n) == Observe(n, InsertPadding(buffer, n, sent.spsPps), FALSE)

\* The owner clears up to the end of a frame it was given.
ClearToFrame(n) ==
    /\ buffer' = ClearTo(buffer, n)
    /\ result' = {}
    /\ forgiven' = IF buffer.received
                   THEN Newest({n} \cup ({forgiven} \ {None})) ELSE forgiven
    /\ UNCHANGED <<sent, handed, seen, origin>>

Clear ==
    /\ buffer' = ClearInternal(buffer)
    /\ result' = {} /\ handed' = {} /\ seen' = {}
    /\ origin' = None /\ forgiven' = None
    /\ UNCHANGED sent

Next ==
    \/ \E p \in sent.packets : Packet(p)
    \/ \E n \in sent.padding : Padding(n)
    \/ \E n \in handed : ClearToFrame(n)
    \/ Clear

Spec == Init /\ [][Next]_vars

-------------------------------------------------------------------------------
(* Properties *)

\* One packet to a slot, no more than the largest buffer holds, the numbers it
\* keeps apart disjoint.
TypeOK ==
    /\ buffer.size \in StartBufferSize .. MaxBufferSize
    /\ buffer.stored \subseteq sent.packets
    /\ \A p, q \in buffer.stored : p.seq % buffer.size = q.seq % buffer.size => p = q
    /\ buffer.continuous \subseteq {p.seq : p \in buffer.stored}
    /\ buffer.first \in SeqNum /\ buffer.received \in BOOLEAN /\ buffer.clearedTo \in BOOLEAN
    /\ buffer.newest \in SeqNum \cup {None}
    /\ buffer.missing \subseteq SeqNum \ {p.seq : p \in buffer.stored}
    /\ buffer.padding \subseteq sent.padding

\* What a sender sends with a timestamp, and whether its start is marked.
FrameOf(s, ts) == {p \in s.packets : p.ts = ts}
StartIsMarked(frame) == \A p \in frame : ~p.h264 \/ \E q \in frame : q.generic

SentFrame(ts) == FrameOf(sent, ts)
IsGeneric(ts) == StartIsMarked(SentFrame(ts))

\* A frame has the numbers that end with that of its last packet, no more than the
\* buffer has slots.  Its first packet is marked as such, in H.264 by a descriptor that
\* no other packet has; H.264 without a descriptor may mark any packet as the first.
RegularFrame(frame) ==
    \E end \in SeqNum, len \in 1 .. StartBufferSize :
        /\ {p.seq : p \in frame} = {Back(end, k) : k \in 0 .. len - 1}
        /\ \A p, q \in frame : p.h264 = q.h264
        /\ \A p \in frame :
              /\ p.last <=> p.seq = end
              /\ StartIsMarked(frame) =>
                    /\ p.first <=> p.seq = Back(end, len - 1)
                    /\ p.h264 => (p.generic <=> p.first)

\* Numbers are given once, and span less than half of those there are by what padding is
\* remembered for.  Either all frames have their start marked or none has.
RegularStream(s) ==
    /\ s.spsPps \in BOOLEAN
    /\ \A p \in s.packets : /\ p.seq \in SeqNum
                            /\ {p.first, p.last, p.h264, p.generic} \subseteq BOOLEAN
    /\ \A p, q \in s.packets : p.seq = q.seq => p = q
    /\ \A p \in s.packets : p.seq \notin s.padding
    /\ s.padding \subseteq SeqNum
    /\ \E base \in SeqNum : \A n \in {p.seq : p \in s.packets} \cup s.padding :
          2 * (ForwardDiff(base, n) + MaxPaddingAge + 1) < SeqMod
    /\ \A p \in s.packets : RegularFrame(FrameOf(s, p.ts))
    /\ \A p, q \in s.packets :
          StartIsMarked(FrameOf(s, p.ts)) <=> StartIsMarked(FrameOf(s, q.ts))

\* What WholeFrames and CompleteFrameLeaves ask of a sender.
RegularStreams == \A s \in Streams : RegularStream(s)

\* The slots of a frame that is handed out hold the packets of its numbers, one each
\* (RTC_DCHECK_EQ in FindFrames).
SlotsHoldFrame ==
    \A f \in result :
        {p.seq : p \in f.packets} = {Back(f.to, k) : k \in 0 .. ForwardDiff(f.from, f.to)}

\* The frames handed out are made of the packets of their numbers and of one
\* timestamp; a frame whose start is marked is exactly what was sent, whatever was
\* lost, repeated or reordered.
WholeFrames ==
    /\ SlotsHoldFrame
    /\ \A f \in result : \A p \in f.packets :
          /\ p.ts = (CHOOSE q \in f.packets : TRUE).ts
          /\ IsGeneric(p.ts) => f.packets = SentFrame(p.ts)

\* A complete frame does not stay in the buffer, whichever of its packets came last.
CompleteFrameLeaves ==
    \A p \in buffer.stored : IsGeneric(p.ts) => ~(SentFrame(p.ts) \subseteq buffer.stored)

\* "If this is not a keyframe, make sure there are no gaps in the packet
\* sequence numbers up until this point": an H.264 delta frame is handed out
\* only if every number sent before it, since the first one inserted and the
\* last keyframe or ClearTo, has been inserted or is too old to be tracked.
DeltaWaitsForGaps ==
    [][\A f \in result', p \in sent.packets :
         f.h264 /\ ~f.key /\ AheadOf(f.from, p.seq)
           => \/ p.seq \in seen'
              \/ AheadOf(origin', p.seq)
              \/ ~AheadOf(p.seq, Back(buffer'.newest, MaxPaddingAge))
              \/ forgiven # None /\ ~AheadOf(p.seq, forgiven)
              \/ \E g \in result' : g.key /\ ~AheadOf(p.seq, g.to) /\ AheadOf(f.from, g.to)]_vars
===============================================================================
