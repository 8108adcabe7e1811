---------------------------- MODULE RtpSenderEgress ----------------------------
(***************************************************************************)
(* webrtc::RtpSenderEgress (modules/rtp_rtcp/source/rtp_sender_egress.cc), *)
(* the last step of an outgoing RTP packet: numbers are checked, media is  *)
(* protected by FEC, packets are collected into batches, handed to the     *)
(* transport, kept for retransmission and counted.                         *)
(*                                                                         *)
(* All of it runs on the worker queue.  With a pacer, packets wait in its  *)
(* queue and each run of the pacer sends some of them as one batch;        *)
(* without one, NonPacedPacketSender sends them in tasks of their own.     *)
(***************************************************************************)
EXTENDS Integers, Sequences, FiniteSets, SequencesExt

CONSTANTS Configurations,  \* how a stream may be set up; extension: the streams
                           \* with transport-wide numbers
          Media,           \* what the encoder makes: records key, again, protect
          Numbers,          \* 2^16
          HistorySize,     \* number_to_store of the packet history
          MaxMedia, MaxNacks, MaxFec, MaxPadding, MaxParams   \* bounds of the model

Streams == {"media", "rtx", "flexfec"}

\* Nothing but a pacer calls OnBatchComplete.
ASSUME EgressAssumption ==
    /\ Configurations \subseteq
            [paced : BOOLEAN, batching : BOOLEAN, rtx : BOOLEAN, callback : BOOLEAN,
             flush : BOOLEAN, fec : {"none", "ulp", "flex"}, extension : SUBSET Streams]
    /\ \A c \in Configurations : c.batching => c.paced
    /\ Media \subseteq [key : BOOLEAN, again : BOOLEAN, protect : BOOLEAN]
    /\ Numbers \in Nat \ {0}
    /\ {HistorySize, MaxMedia, MaxNacks, MaxFec, MaxPadding, MaxParams} \subseteq Nat

None == -1

VARIABLES conf,      \* how the stream is set up
          queue,     \* packets the pacer holds; without one, posted tasks
          turn,      \* what the worker queue is doing
          current,   \* without a pacer: the packets of the running task
          numbers,   \* PacketSequencer, and the transport numbers of NonPacedPacketSender
          e,         \* the members of RtpSenderEgress
          stats,     \* of them, rtp_stats_ and rtx_rtp_stats_
          observed,  \* the counters behind rtp_stats_callback_, by stream
          history,   \* RtpPacketHistory
          fec,       \* the FEC generator
          wire,      \* history: what the transport was given, and what it took
          asked,     \* history: the protection parameters set last
          made       \* how much the environment did, for the bounds

vars == <<conf, queue, turn, current, numbers, e, stats, observed, history, fec,
          wire, asked, made>>

\* What a sequence holds at some of its places, in the same order.
At(s, places) ==
    LET Rank(i) == Cardinality({j \in places : j <= i})
    IN  [k \in 1 .. Cardinality(places) |-> s[CHOOSE i \in places : Rank(i) = k]]

Packet(type, stream, orig) ==
    [type |-> type, stream |-> stream, orig |-> orig, seq |-> None, transport |-> None,
     key |-> FALSE, again |-> FALSE, protect |-> FALSE]

MediaPacket(media) ==
    [Packet("media", "media", None) EXCEPT !.key = media.key, !.again = media.again,
                                           !.protect = media.protect]

FecPacket == Packet("fec", IF conf.fec = "flex" THEN "flexfec" ELSE "media", None)

PaddingPacket(orig) == Packet("padding", IF conf.rtx THEN "rtx" ELSE "media", orig)

Retransmission(seq) ==
    IF conf.rtx THEN Packet("retransmission", "rtx", seq)
    ELSE [Packet("retransmission", "media", seq) EXCEPT !.seq = seq]

-------------------------------------------------------------------------------
(* The packet sequencer and the packet history, which are not in the repository *)

\* FlexFEC packets and retransmissions on the media stream have their number.
TakesNumber(packet) ==
    \/ packet.stream = "rtx"
    \/ packet.stream = "media" /\ packet.type # "retransmission"

Sequenced(packet, n) ==
    IF TakesNumber(packet) THEN [packet EXCEPT !.seq = n[packet.stream]] ELSE packet

SequencerAfter(packet, n) ==
    IF TakesNumber(packet) THEN [n EXCEPT ![packet.stream] = (@ + 1) % Numbers] ELSE n

\* Oldest first, down to one less than HistorySize; a packet that waits for its
\* retransmission stops it, and keeps those after it too.
Culled(h) ==
    LET Stops(i) == h[i].pending \/ Len(h) - i + 1 < HistorySize
    IN  At(h, {k \in DOMAIN h : \E i \in 1 .. k : Stops(i)})

PutRtpPacket(packet) ==
    Append(Culled(At(history, {i \in DOMAIN history : history[i].seq # packet.seq})),
           [seq |-> packet.seq, pending |-> FALSE])

MarkedAsSent(seqs) ==
    [i \in DOMAIN history |->
        [history[i] EXCEPT !.pending = @ /\ history[i].seq \notin seqs]]

Follows(last, seq) == last = None \/ seq = (last + 1) % Numbers

-------------------------------------------------------------------------------
(* Completing a packet *)

NoCounters == [transmitted |-> 0, retransmitted |-> 0, fec |-> 0]

Counted(c, type) ==
    [transmitted |-> c.transmitted + 1,
     retransmitted |-> c.retransmitted + (IF type = "retransmission" THEN 1 ELSE 0),
     fec |-> c.fec + (IF type = "fec" THEN 1 ELSE 0)]

\* The member a packet is counted in.
Counters(packet) == IF packet.stream = "rtx" /\ ~conf.callback THEN "rtx" ELSE "media"

\* Wrong variant: rtp_stats_ is not read back from the callback first.
UpdateRtpStatsNotRead(packet) ==
    LET after == Counted(stats[Counters(packet)], packet.type)
    IN  /\ stats' = [stats EXCEPT ![Counters(packet)] = after]
        /\ observed' = IF conf.callback THEN [observed EXCEPT ![packet.stream] = after]
                       ELSE observed

\* With a callback rtp_stats_ only carries the counters of the packet's stream.
UpdateRtpStats(packet) ==
    LET before == IF conf.callback THEN observed[packet.stream] ELSE stats[Counters(packet)]
        after == Counted(before, packet.type)
    IN  /\ stats' = [stats EXCEPT ![Counters(packet)] = after]
        /\ observed' = IF conf.callback THEN [observed EXCEPT ![packet.stream] = after]
                       ELSE observed

GetDataCounters == IF conf.callback THEN observed ELSE stats

\* Wrong variant: a retransmission the transport refuses is not marked.
HistoryAfterUnlessRefused(packet, success) ==
    IF packet.type = "media" /\ packet.again THEN PutRtpPacket(packet)
    ELSE IF packet.orig # None /\ success THEN MarkedAsSent({packet.orig})
    ELSE history

\* Whether the transport took the packet or not.
HistoryAfter(packet, success) ==
    IF packet.type = "media" /\ packet.again THEN PutRtpPacket(packet)
    ELSE IF packet.orig # None THEN MarkedAsSent({packet.orig})
    ELSE history

\* What the model remembers of a packet that is given to the transport: whether
\* its number and its transport-wide number follow those before, and whether it
\* is the last of a batch.
OnWire(packet, success, lastInBatch) ==
    [gap |-> \/ wire.gap
             \/ TakesNumber(packet) /\ ~Follows(wire.last[packet.stream], packet.seq)
             \/ packet.transport # None /\ packet.transport # wire.transport + 1,
     last |-> IF TakesNumber(packet) THEN [wire.last EXCEPT ![packet.stream] = packet.seq]
              ELSE wire.last,
     transport |-> IF packet.transport # None THEN packet.transport ELSE wire.transport,
     closed |-> lastInBatch,
     taken |-> IF success THEN [wire.taken EXCEPT ![packet.stream] = Counted(@, packet.type)]
               ELSE wire.taken]

\* member is e as the caller leaves it; the transport may refuse the packet.
CompleteSendPacket(member, packet, lastInBatch) ==
    \E success \in BOOLEAN :
        /\ wire' = OnWire(packet, success, lastInBatch)
        /\ history' = HistoryAfter(packet, success)
        /\ e' = [member EXCEPT !.mediaSent = @ \/ success]
        /\ IF success THEN UpdateRtpStats(packet) ELSE UNCHANGED <<stats, observed>>

-------------------------------------------------------------------------------
(* SendPacket *)

HasCorrectSsrc(packet) ==
    CASE packet.type = "media" -> packet.stream = "media"
      [] packet.type \in {"retransmission", "padding"} -> packet.stream \in {"media", "rtx"}
      [] packet.type = "fec" -> packet.stream \in {"media", "flexfec"}

\* The RTC_DCHECKs of SendPacket, and the numbers they compare with.
Checked(packet) ==
    [e EXCEPT !.checks = /\ @
                         /\ TakesNumber(packet) => Follows(e.last[packet.stream], packet.seq)
                         /\ HasCorrectSsrc(packet)
                         /\ packet.type = "retransmission" => packet.orig # None,
              !.last = IF TakesNumber(packet) THEN [@ EXCEPT ![packet.stream] = packet.seq]
                       ELSE @]

IsProtected(packet) == conf.fec # "none" /\ packet.protect

\* Wrong variant: pending parameters are only taken over by a generator without any.
ProtectionParametersKept == IF fec.params = None THEN e.pending ELSE fec.params

ProtectionParameters == IF e.pending = None THEN fec.params ELSE e.pending

\* A protected packet takes pending parameters over, and may complete an FEC packet.
Protect(packet) ==
    IF IsProtected(packet)
    THEN \E more \in {0, 1} :
            /\ made.fec + fec.ready + more <= MaxFec
            /\ fec' = [params |-> ProtectionParameters, protected |-> fec.protected + 1,
                       ready |-> fec.ready + more]
    ELSE UNCHANGED fec

SendPacket(packet) ==
    LET member == [Checked(packet) EXCEPT
                        !.pending = IF IsProtected(packet) THEN None ELSE @]
    IN  /\ Protect(packet)
        /\ IF conf.batching
           THEN /\ e' = [member EXCEPT !.batch = Append(@, packet)]
                /\ UNCHANGED <<wire, history, stats, observed>>
           ELSE CompleteSendPacket(member, packet, FALSE)

SetFecProtectionParameters ==
    /\ turn = "idle"
    /\ made.params < MaxParams
    /\ made' = [made EXCEPT !.params = @ + 1]
    /\ asked' = made.params + 1
    /\ e' = [e EXCEPT !.pending = made.params + 1]
    /\ UNCHANGED <<conf, queue, turn, current, numbers, stats, observed, history, fec, wire>>

-------------------------------------------------------------------------------
(* Without a pacer *)

HasTransportNumber(packet) == packet.stream \in conf.extension

\* Wrong variant: the transport number is spent without the extension as well.
NumbersAfterSpent(packet) ==
    [SequencerAfter(packet, numbers) EXCEPT !.transport = @ + 1]

NumbersAfter(packet) ==
    [SequencerAfter(packet, numbers) EXCEPT
        !.transport = IF HasTransportNumber(packet) THEN @ + 1 ELSE @]

PrepareForSend(packet) ==
    [Sequenced(packet, numbers) EXCEPT
        !.transport = IF HasTransportNumber(packet) THEN numbers.transport + 1 ELSE None]

\* NonPacedPacketSender::EnqueuePackets on another thread posts itself.
PostPackets(packets) ==
    /\ queue' = Append(queue, packets)
    /\ UNCHANGED <<turn, current>>

\* On the worker queue it starts at once.
SendNow(packets) ==
    /\ turn' = "task"
    /\ current' = packets
    /\ UNCHANGED queue

RunTask ==
    /\ ~conf.paced /\ turn = "idle" /\ queue # <<>>
    /\ turn' = "task"
    /\ current' = Head(queue)
    /\ queue' = Tail(queue)
    /\ UNCHANGED <<conf, numbers, e, stats, observed, history, fec, wire, asked, made>>

SendOfTask ==
    /\ turn = "task" /\ current # <<>>
    /\ SendPacket(PrepareForSend(Head(current)))
    /\ numbers' = NumbersAfter(Head(current))
    /\ current' = Tail(current)
    /\ UNCHANGED <<conf, queue, turn, asked, made>>

\* FetchFecPackets.
FetchFecPackets ==
    /\ fec' = [fec EXCEPT !.ready = 0]
    /\ made' = [made EXCEPT !.fec = @ + fec.ready]

FecPackets == [i \in 1 .. fec.ready |-> FecPacket]

\* The FEC packets of the task are sent by the same call, then it ends.
EndOfTask ==
    /\ turn = "task" /\ current = <<>>
    /\ FetchFecPackets
    /\ current' = FecPackets
    /\ turn' = IF fec.ready > 0 THEN "task" ELSE "idle"
    /\ UNCHANGED <<conf, queue, numbers, e, stats, observed, history, wire, asked>>

-------------------------------------------------------------------------------
(* With a pacer: PacingController::ProcessPackets sends what it may *)

StartPacing ==
    /\ conf.paced /\ turn = "idle"
    /\ turn' = "pacing"
    /\ UNCHANGED <<conf, queue, current, numbers, e, stats, observed, history, fec, wire,
                   asked, made>>

\* A packet nobody of its type is before; the packet router has it numbered.
SendPaced ==
    /\ turn = "pacing" /\ fec.ready = 0
    /\ \E i \in DOMAIN queue :
        /\ \A j \in 1 .. i - 1 : queue[j].type # queue[i].type
        /\ SendPacket(Sequenced(queue[i], numbers))
        /\ numbers' = SequencerAfter(queue[i], numbers)
        /\ queue' = RemoveAt(queue, i)
    /\ UNCHANGED <<conf, turn, current, asked, made>>

FetchFec ==
    /\ turn = "pacing" /\ fec.ready > 0
    /\ FetchFecPackets
    /\ queue' = queue \o FecPackets
    /\ UNCHANGED <<conf, turn, current, numbers, e, stats, observed, history, wire, asked>>

\* Plain padding, or with the payload of a packet of the history over RTX.
PaddingOrigins ==
    {None} \cup (IF conf.rtx THEN {h.seq : h \in {x \in ToSet(history) : ~x.pending}} ELSE {})

AddPadding ==
    /\ turn = "pacing" /\ queue = <<>> /\ fec.ready = 0
    /\ e.mediaSent
    /\ made.padding < MaxPadding
    /\ made' = [made EXCEPT !.padding = @ + 1]
    /\ \E orig \in PaddingOrigins : queue' = <<PaddingPacket(orig)>>
    /\ UNCHANGED <<conf, turn, current, numbers, e, stats, observed, history, fec, wire, asked>>

StopPacing ==
    /\ turn = "pacing" /\ fec.ready = 0
    /\ turn' = "batch"
    /\ UNCHANGED <<conf, queue, current, numbers, e, stats, observed, history, fec, wire,
                   asked, made>>

\* OnBatchComplete, one packet a step.
OnBatchComplete ==
    /\ turn = "batch"
    /\ IF e.batch = <<>>
       THEN /\ turn' = "idle"
            /\ UNCHANGED <<e, stats, observed, history, wire>>
       ELSE /\ CompleteSendPacket([e EXCEPT !.batch = Tail(@)], Head(e.batch), Len(e.batch) = 1)
            /\ UNCHANGED turn
    /\ UNCHANGED <<conf, queue, current, numbers, fec, asked, made>>

\* PacingController::EnqueuePacket: the first packet of a keyframe flushes what
\* the pacer holds of its stream, retransmissions too.
Flushed(packet) ==
    IF conf.flush /\ packet.key /\ (\A i \in DOMAIN queue : ~queue[i].key)
    THEN At(queue, {i \in DOMAIN queue : queue[i].stream = "flexfec"})
    ELSE queue

-------------------------------------------------------------------------------
(* Packets to send *)

\* The encoder's thread has a frame of one packet or two.
EnqueueFrame ==
    \E frame \in UNION {[1 .. n -> Media] : n \in {1, 2}} :
        LET packets == [i \in DOMAIN frame |-> MediaPacket(frame[i])]
        IN  /\ made.media + Len(frame) <= MaxMedia
            /\ made' = [made EXCEPT !.media = @ + Len(frame)]
            /\ IF conf.paced
               THEN /\ turn = "idle"
                    /\ queue' = Flushed(packets[1]) \o packets
                    /\ UNCHANGED <<turn, current>>
               ELSE PostPackets(packets)
            /\ UNCHANGED <<conf, numbers, e, stats, observed, history, fec, wire, asked>>

\* A NACK for a packet of the history, which is not answered while an answer is
\* on its way.
OnNack ==
    \E i \in DOMAIN history :
        /\ turn = "idle"
        /\ ~history[i].pending
        /\ made.nacks < MaxNacks
        /\ made' = [made EXCEPT !.nacks = @ + 1]
        /\ history' = [history EXCEPT ![i].pending = TRUE]
        /\ LET packet == Retransmission(history[i].seq)
           IN  IF conf.paced
               THEN /\ queue' = Append(queue, packet)
                    /\ UNCHANGED <<turn, current>>
               ELSE SendNow(<<packet>>)
        /\ UNCHANGED <<conf, numbers, e, stats, observed, fec, wire, asked>>

\* Marked as sent, rather than left in a pending state.
OnAbortedRetransmissions(seqs) == history' = MarkedAsSent(seqs)

\* A pacer that drops its retransmissions and says so.
AbortRetransmissions ==
    LET aborted == {i \in DOMAIN queue : queue[i].type = "retransmission"}
    IN  /\ conf.paced /\ turn = "idle" /\ aborted # {}
        /\ OnAbortedRetransmissions({queue[i].orig : i \in aborted})
        /\ queue' = At(queue, DOMAIN queue \ aborted)
        /\ UNCHANGED <<conf, turn, current, numbers, e, stats, observed, fec, wire, asked, made>>

-------------------------------------------------------------------------------
Init ==
    /\ conf \in Configurations
    /\ queue = <<>> /\ turn = "idle" /\ current = <<>>
    /\ numbers = [media |-> Numbers - 1, rtx |-> 0, transport |-> 0]
    /\ e = [last |-> [media |-> None, rtx |-> None], checks |-> TRUE, batch |-> <<>>,
            pending |-> None, mediaSent |-> FALSE]
    /\ stats = [media |-> NoCounters, rtx |-> NoCounters]
    /\ observed = [stream \in Streams |-> NoCounters]
    /\ history = <<>>
    /\ fec = [params |-> None, protected |-> 0, ready |-> 0]
    /\ wire = [gap |-> FALSE, last |-> [media |-> None, rtx |-> None], transport |-> 0,
               closed |-> TRUE, taken |-> [stream \in Streams |-> NoCounters]]
    /\ asked = None
    /\ made = [media |-> 0, nacks |-> 0, fec |-> 0, padding |-> 0, params |-> 0]

Next ==
    \/ SetFecProtectionParameters
    \/ RunTask \/ SendOfTask \/ EndOfTask
    \/ StartPacing \/ SendPaced \/ FetchFec \/ AddPadding \/ StopPacing \/ OnBatchComplete
    \/ EnqueueFrame \/ OnNack \/ AbortRetransmissions

Spec == Init /\ [][Next]_vars

-------------------------------------------------------------------------------
(* Properties *)

\* The receiver sees no gap that is not a loss: whichever thread, batch or FEC
\* packet was in between, the numbers of a stream and the transport-wide numbers
\* leave one by one (the RTC_DCHECKs of SendPacket), no batch is left open and
\* the last packet of each says that it is.
InOrder ==
    /\ e.checks
    /\ ~wire.gap
    /\ turn = "idle" => e.batch = <<>>
    /\ turn = "idle" /\ conf.batching => wire.closed

\* The packets that will still reach CompleteSendPacket.
Underway ==
    ToSet(current) \cup ToSet(e.batch)
    \cup (IF conf.paced THEN ToSet(queue) ELSE UNION {ToSet(task) : task \in ToSet(queue)})

\* A packet the history holds as pending has a retransmission on its way;
\* without one it could not be requested again.
RequestableAgain ==
    \A h \in ToSet(history) : h.pending => \E x \in Underway : x.orig = h.seq

\* What GetDataCounters reports of the media and the RTX stream is what the
\* transport took of each, although with a callback one member counts for all;
\* without one FlexFEC counts as media.
CountersMatchWire ==
    /\ GetDataCounters["rtx"] = wire.taken["rtx"]
    /\ GetDataCounters["media"] =
        IF conf.callback THEN wire.taken["media"]
        ELSE [c \in DOMAIN NoCounters |-> wire.taken["media"][c] + wire.taken["flexfec"][c]]

\* A packet is protected with the parameters that were set last.
FecUsesLatest ==
    [][fec'.protected # fec.protected => fec'.params = asked]_vars
===============================================================================
