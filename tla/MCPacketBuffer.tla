---------------------------- MODULE MCPacketBuffer ----------------------------
EXTENDS PacketBuffer

P(seq, ts, first, last, nalus) ==
    [seq |-> seq, ts |-> ts, first |-> first, last |-> last, nalus |-> nalus,
     h264 |-> TRUE, generic |-> FALSE]

\* A stream whose descriptor marks the first packets of frames.
Marked(packets) == {[p EXCEPT !.h264 = FALSE] : p \in packets}

\* H.264 without a descriptor: is_first_packet_in_frame is set on every NAL unit.
Lying(packets) == {[p EXCEPT !.first = TRUE] : p \in packets}

\* H.264 with a generic frame descriptor on the first packets of frames.
Described(packets) == {[p EXCEPT !.generic = p.first] : p \in packets}

\* A keyframe of two packets, a delta frame, padding, a delta frame of two
\* packets and a keyframe; the numbers wrap round.
Numbers ==
    {P(30, 1, TRUE, FALSE, {"sps", "pps"}), P(31, 1, FALSE, TRUE, {"idr"}),
     P(0, 2, TRUE, TRUE, {}),
     P(2, 3, TRUE, FALSE, {}), P(3, 3, FALSE, TRUE, {}),
     P(4, 4, TRUE, TRUE, {"idr"})}

Sends(packets, spsPps) == [packets |-> packets, padding |-> {1}, spsPps |-> spsPps]

AllStreams ==
    {Sends(Marked(Numbers), FALSE), Sends(Described(Numbers), FALSE),
     Sends(Lying(Numbers), FALSE), Sends(Numbers, TRUE)}

\* What WholeFrames and CompleteFrameLeaves take for granted holds of these.
ASSUME StreamsAreRegular == RegularStreams
===============================================================================
