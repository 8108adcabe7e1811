--------------------------- MODULE PacingController ---------------------------
(***************************************************************************)
(* webrtc::PacingController (modules/pacing/pacing_controller.cc): packets *)
(* are queued, and ProcessPackets sends them no faster than a leaky bucket *)
(* of "debt" allows, with padding, probes and keep-alives in between.      *)
(*                                                                         *)
(* Time is counted in ticks and data in units; a rate is units per tick.   *)
(* The controller runs on one task queue, so handlers do not interleave;   *)
(* ProcessPackets is one step per pass of its send loop.  The owner calls  *)
(* ProcessPackets when NextSendTime has come, at most Late ticks after.    *)
(* There is one audio stream and one video stream with RTX.                *)
(***************************************************************************)
EXTENDS Integers, Sequences, FiniteSets, SequencesExt

CONSTANTS Configurations,     \* constructor arguments and field trials
          Rates,              \* PacerConfigs: records pacing, padding, burst
          MediaPackets,       \* what may be enqueued: records type, size, key; a
                              \* keyframe is one packet
          PaddingSizes,       \* sizes of the padding packets an RTP module makes
          CongestedInterval,  \* kCongestedPacketInterval = kPausedProcessInterval
          MaxElapsedTime, MaxDebtInTime, TargetPaddingDuration,
          MaxPaddingReplay, MaxEarlyProbe, MaxBurstSize, QueueTimeLimit,
          ProbeSize, ProbeDelta, MaxProbeDelay, RecommendedProbeSize, \* of the prober
          Late,               \* how late the owner's task may run
          MaxCalls, MaxTime   \* bounds of the model: calls by the application, ticks

ASSUME PacingAssumption ==
    /\ {CongestedInterval, MaxElapsedTime, MaxDebtInTime, TargetPaddingDuration,
        QueueTimeLimit, ProbeSize, ProbeDelta, RecommendedProbeSize} \subseteq Nat \ {0}
    /\ {MaxPaddingReplay, MaxEarlyProbe, MaxBurstSize, MaxProbeDelay, Late,
        MaxCalls, MaxTime} \subseteq Nat
    /\ PaddingSizes \subseteq Nat \ {0}
    /\ Configurations \subseteq
         [drainLargeQueues : BOOLEAN, padIfSilent : BOOLEAN, paceAudio : BOOLEAN,
          fastRetransmissions : BOOLEAN, keyframeFlushing : BOOLEAN, fec : BOOLEAN,
          breaker : Nat]
    /\ Rates \subseteq [pacing : Nat, padding : Nat, burst : Nat]
    /\ MediaPackets \subseteq
         [type : {"audio", "retransmission", "video"}, size : Nat \ {0}, key : BOOLEAN]

\* The prober spaces probes by milliseconds, keep-alives are half a second apart.
ASSUME ProbesAreFrequent == ProbeDelta <= CongestedInterval

VARIABLES now,      \* clock_
          p,        \* the members of the controller
          loop,     \* the locals of ProcessPackets, or Idle
          wake,     \* when the owner's next task is due
          level,    \* history: a leaky bucket of what was sent because of its pace
          vain,     \* history: calls of ProcessPackets in a row that sent nothing
          calls     \* how often the application called, for the bound

vars == <<now, p, loop, wake, level, vain, calls>>

\* ProcessPackets is not running; it must run at once; more packets of a batch come.
Idle == [at |-> "idle"]
Due == [at |-> "due"]
Batch == [at |-> "batch"]
MinOf(a, b) == IF a < b THEN a ELSE b
MaxOf(a, b) == IF a > b THEN a ELSE b
None == -1

-------------------------------------------------------------------------------
(* The packet queue and the prober, which are not in the repository *)

Priority(packet) ==
    CASE packet.type = "audio" -> 0
      [] packet.type = "retransmission" -> 1
      [] packet.type \in {"video", "fec"} -> 2
      [] packet.type = "padding" -> 3

\* The positions of packets nobody is before.
Heads(queue) ==
    {i \in DOMAIN queue : \A j \in DOMAIN queue :
        \/ Priority(queue[i]) < Priority(queue[j])
        \/ Priority(queue[i]) = Priority(queue[j]) /\ i <= j}

SizeInBytes(queue) ==
    LET size[n \in 0 .. Len(queue)] == IF n = 0 THEN 0 ELSE size[n - 1] + queue[n].size
    IN  size[Len(queue)]

\* The packets of some types, in the same order.
Kept(queue, types) ==
    LET kept[n \in 0 .. Len(queue)] ==
            IF n = 0 THEN <<>>
            ELSE IF queue[n].type \in types THEN Append(kept[n - 1], queue[n])
            ELSE kept[n - 1]
    IN  kept[Len(queue)]

\* A packet enqueued at time t.
Queued(packet, t) ==
    [type |-> packet.type, size |-> packet.size, key |-> packet.key, at |-> t]

NoCluster == [left |-> 0, active |-> FALSE, next |-> None]
IsProbing(q) == q.probe.left > 0 /\ q.probe.active

\* OnIncomingPacket: a waiting cluster starts with the next packet, at once.
Incoming(probe) == IF probe.left > 0 THEN [probe EXCEPT !.active = TRUE] ELSE probe

\* CurrentCluster drops a cluster whose next probe is too late.
TimedOut(probe, t) == probe.next # None /\ t - probe.next > MaxProbeDelay

ProbeSent(probe, t, size) ==
    IF size >= probe.left THEN NoCluster
    ELSE [probe EXCEPT !.left = @ - size, !.next = t + ProbeDelta]

-------------------------------------------------------------------------------
(* Debt *)

\* UpdateBudgetWithElapsedTime(UpdateTimeAndGetElapsed(t))
ElapsedTo(q, t) == IF t < q.lastProcess THEN 0 ELSE MinOf(t - q.lastProcess, MaxElapsedTime)
Drained(q, t) ==
    [q EXCEPT !.lastProcess = MaxOf(@, t),
              !.mediaDebt = MaxOf(0, @ - q.adjusted * ElapsedTo(q, t)),
              !.paddingDebt = MaxOf(0, @ - q.rates.padding * ElapsedTo(q, t))]

OwesPadding(q, size) ==
    [q EXCEPT !.paddingDebt = MinOf(@ + size, q.rates.padding * MaxDebtInTime)]
Owes(q, size) ==
    OwesPadding([q EXCEPT !.mediaDebt = MinOf(@ + size, q.adjusted * MaxDebtInTime)], size)

\* OnPacketSent; account_for_audio_ is false.
OnPacketSent(q, type, size, t) ==
    [IF type # "audio" /\ size > 0 THEN Owes(q, size) ELSE q EXCEPT !.lastSend = t]

\* MaybeUpdateMediaRateDueToLongQueue.  AverageQueueTime leaves out time spent
\* paused, so it is anything up to the age of the oldest packet.
RatesNeeded(q, t) ==
    {SizeInBytes(q.queue) \div MaxOf(1, QueueTimeLimit - average) :
        average \in 0 .. t - q.queue[1].at}
RateAdjusted(q, t) ==
    IF q.conf.drainLargeQueues /\ q.queue # <<>>
    THEN {[q EXCEPT !.adjusted = MaxOf(q.rates.pacing, rate)] : rate \in RatesNeeded(q, t)}
    ELSE {[q EXCEPT !.adjusted = q.rates.pacing]}

-------------------------------------------------------------------------------
(* When to send *)

\* The packets whose target send time is when they were enqueued.
UnpacedTypes(conf) ==
    (IF conf.paceAudio THEN {} ELSE {"audio"})
    \cup (IF conf.fastRetransmissions THEN {"retransmission"} ELSE {})

\* NextUnpacedSendTime is that of the first unpaced head of the queue.
Unpaced(q) == {i \in DOMAIN q.queue : q.queue[i].type \in UnpacedTypes(q.conf)}
NextUnpacedSendTime(q) ==
    LET first == CHOOSE i \in Unpaced(q) : \A j \in Unpaced(q) :
                    \/ Priority(q.queue[i]) < Priority(q.queue[j])
                    \/ Priority(q.queue[i]) = Priority(q.queue[j]) /\ i <= j
    IN  q.queue[first].at

BurstInterval(q) == MinOf(q.rates.burst, MaxBurstSize \div q.adjusted)
MediaDrainTime(q) == q.mediaDebt \div q.adjusted

NextMediaTime(q) ==
    q.lastProcess + (IF BurstInterval(q) > MediaDrainTime(q) THEN 0 ELSE MediaDrainTime(q))

PaddingDrainTime(q) == MaxOf(MediaDrainTime(q), q.paddingDebt \div q.rates.padding)

\* Wrong variant: a debt too small for a tick is ignored.
NextPaddingTimeRoundedDown(q) == q.lastProcess + PaddingDrainTime(q)

\* A debt too small for a tick still takes one to drain.
NextPaddingTime(q) ==
    q.lastProcess + (IF q.mediaDebt + q.paddingDebt > 0 THEN MaxOf(1, PaddingDrainTime(q))
                     ELSE PaddingDrainTime(q))

NextPacedTime(q) ==
    LET time == IF q.adjusted > 0 /\ q.queue # <<>> THEN NextMediaTime(q)
                ELSE IF q.rates.padding > 0 /\ q.queue = <<>> THEN NextPaddingTime(q)
                ELSE q.lastProcess + CongestedInterval
    IN  IF q.conf.padIfSilent THEN MinOf(time, q.lastSend + CongestedInterval) ELSE time

\* Wrong variant: while congested, as if the queue could be sent.
NextSendTimeCongested(q, t) == IF q.paused THEN q.lastSend + CongestedInterval ELSE NextPacedTime(q)

ProbeIsNext(q) == IsProbing(q) /\ ~q.probeFailed

NextSendTime(q, t) ==
    IF q.paused THEN q.lastSend + CongestedInterval
    ELSE IF ProbeIsNext(q)
         THEN IF q.probe.next = None THEN t ELSE q.probe.next
    ELSE IF Unpaced(q) # {} THEN NextUnpacedSendTime(q)
    ELSE IF q.congested \/ ~q.seenFirst THEN q.lastSend + CongestedInterval
    ELSE NextPacedTime(q)

ShouldSendKeepalive(q, t) ==
    /\ q.conf.padIfSilent \/ q.paused \/ q.congested \/ ~q.seenFirst
    /\ t - q.lastSend >= CongestedInterval

\* Wrong variant: padding although packets wait.
PaddingToAddAlways(q, l) ==
    IF q.paddingDebt = 0 THEN TargetPaddingDuration * q.rates.padding ELSE 0

\* How much padding to send, given the size a probe should have and has so far.
PaddingToAdd(q, l) ==
    CASE q.queue # <<>> \/ q.congested -> 0
      [] q.queue = <<>> /\ ~q.congested /\ l.recommended > 0 ->
            MaxOf(0, l.recommended - l.sent)
      [] OTHER -> IF q.paddingDebt = 0 THEN TargetPaddingDuration * q.rates.padding ELSE 0

\* The head of the queue is held back: GetPendingPacket returns nothing.
HeldBack(q, l, t) ==
    \/ q.queue = <<>>
    \/ /\ Unpaced(q) = {} /\ ~l.probing
       /\ \/ q.congested
          \/ /\ t <= l.target /\ q.rates.burst = 0
             /\ t + MediaDrainTime(q) > l.target

-------------------------------------------------------------------------------
(* EnqueuePacket *)

\* The first packet of a keyframe drops the stream's and its RTX packets.
Flushed(q, packet) ==
    IF /\ q.conf.keyframeFlushing
       /\ packet.type = "video" /\ packet.key
       /\ \A i \in DOMAIN q.queue : ~q.queue[i].key
    THEN [q EXCEPT !.queue = Kept(@, {"audio", "fec"})]
    ELSE q

\* Wrong variant: time that passed with nothing to send stays budget.
FastForwardedNever(q, t) == q

FastForwarded(q, t) ==
    IF q.queue = <<>> THEN Drained(q, MinOf(t, NextSendTime(q, t))) ELSE q

Enqueued(q, packet, t) ==
    LET prepared == [Flushed(q, packet) EXCEPT !.probe = Incoming(@)]
        ready == FastForwarded(prepared, t)
        pushed == [ready EXCEPT !.queue = Append(@, Queued(packet, t)), !.seenFirst = TRUE]
    IN  RateAdjusted(pushed, t)

-------------------------------------------------------------------------------
(* The application.  After every call the owner asks for NextSendTime, and      *)
(* calls ProcessPackets at once while that has come *)

Margin(q) == IF IsProbing(q) THEN MaxEarlyProbe ELSE 0

Init ==
    /\ now = 0 /\ wake = CongestedInterval
    /\ \E conf \in Configurations :
        p = [conf |-> conf, queue |-> <<>>, paused |-> FALSE, congested |-> FALSE,
             seenFirst |-> FALSE, lastProcess |-> 0, lastSend |-> 0,
             mediaDebt |-> 0, paddingDebt |-> 0, adjusted |-> 0,
             rates |-> [pacing |-> 0, padding |-> 0, burst |-> 0],
             probe |-> NoCluster, probeFailed |-> FALSE]
    /\ loop = Idle
    /\ level = 0 /\ vain = 0 /\ calls = 0

Becomes(q) ==
    /\ p' = q /\ wake' = NextSendTime(q, now)
    /\ loop' = IF wake' <= now THEN Due ELSE Idle
    /\ UNCHANGED now

\* With new rates a new bucket begins, of what is owed then: the controller counts all
\* the time since lastProcess at the new rate, and forgets debt above its limit.
LevelAfterRates(q) ==
    LET owed == MinOf(q.mediaDebt, q.adjusted * MaxDebtInTime)
                - q.adjusted * (now - q.lastProcess)
    IN  MinOf(level, IF q.queue = <<>> \/ q.congested THEN MaxOf(0, owed) ELSE owed)

SetPacerConfig ==
    \E rates \in Rates \ {p.rates} :
        \E q \in RateAdjusted([p EXCEPT !.rates =
                    [rates EXCEPT !.padding = MinOf(@, rates.pacing)]], now) :
            Becomes(q) /\ level' = LevelAfterRates(q)

EnqueuePacket ==
    /\ p.rates.pacing > 0
    /\ \E packet \in MediaPackets : \E q \in Enqueued(p, packet, now) :
        \/ Becomes(q)
        \/ p' = q /\ loop' = Batch /\ UNCHANGED <<now, wake>>

Pause == ~p.paused /\ Becomes([p EXCEPT !.paused = TRUE])
Resume == p.paused /\ Becomes([p EXCEPT !.paused = FALSE])

\* When congestion ends, the time since lastProcess is no budget.
SetCongested ==
    Becomes([IF p.congested THEN Drained(p, now) ELSE p EXCEPT !.congested = ~@])

RemovePacketsForSsrc ==
    LET types == {p.queue[i].type : i \in DOMAIN p.queue}
    IN  \E type \in types : Becomes([p EXCEPT !.queue = Kept(@, types \ {type})])

CreateProbeCluster ==
    p.probe = NoCluster /\ Becomes([p EXCEPT !.probe = [NoCluster EXCEPT !.left = ProbeSize]])

Application ==
    /\ calls < MaxCalls /\ calls' = calls + 1
    /\ UNCHANGED vain
    /\ \/ loop = Idle /\ SetPacerConfig
       \/ /\ \/ /\ loop = Idle
                /\ \/ Pause \/ Resume \/ SetCongested
                   \/ RemovePacketsForSsrc \/ CreateProbeCluster
             \/ loop \in {Idle, Batch} /\ EnqueuePacket
          /\ UNCHANGED level

\* Time that packets in the queue spend paused is kept as budget, until they are
\* sent; so is time they wait for a debt above the limit a lower rate has set, as the
\* next packet sent brings it down to the limit.
LevelAfterTick ==
    LET kept == /\ p.queue # <<>>
                /\ p.paused \/ p.mediaDebt > p.adjusted * MaxDebtInTime
    IN  IF kept THEN level - p.adjusted
        ELSE IF level <= 0 THEN level ELSE MaxOf(0, level - p.adjusted)

Tick ==
    /\ loop = Idle /\ now < wake + Late /\ now < MaxTime
    /\ now' = now + 1
    /\ level' = LevelAfterTick
    /\ UNCHANGED <<p, loop, wake, vain, calls>>

-------------------------------------------------------------------------------
(* ProcessPackets *)

\* A keep-alive goes out whatever the budget, but a first packet must come first.
Keepalives(q) ==
    IF ShouldSendKeepalive(q, now)
    THEN {OnPacketSent(q, "padding", size, now) :
            size \in {0} \cup (IF q.seenFirst THEN PaddingSizes ELSE {})}
    ELSE {q}

TooEarly(q) == now + Margin(q) < NextSendTime(q, now)

Vain(nothing) == vain' = IF loop' = Due /\ nothing THEN vain + 1 ELSE 0

\* Paused, or before the time: nothing but a keep-alive.
SendNothing ==
    /\ \E q \in Keepalives(p) :
        /\ q.paused \/ TooEarly(q)
        /\ Becomes(IF q.paused THEN q ELSE Drained(q, now))
    /\ Vain(TRUE)
    /\ UNCHANGED <<level, calls>>

StartSending ==
    /\ \E q \in Keepalives(p) :
        /\ ~q.paused /\ ~TooEarly(q)
        /\ LET target == NextSendTime(q, now)
               late == IsProbing(q) /\ TimedOut(q.probe, now)
               probing == IsProbing(q) /\ ~late
           IN  /\ p' = [Drained(q, target) EXCEPT !.probe = IF late THEN NoCluster ELSE @]
               /\ loop' = [at |-> "pass", target |-> target, sent |-> 0, passes |-> 0,
                           probing |-> probing,
                           recommended |-> IF probing THEN RecommendedProbeSize ELSE 0,
                           firstProbe |-> probing /\ q.probe.left = ProbeSize,
                           timedOut |-> late]
    /\ UNCHANGED <<now, wake, level, vain, calls>>

CanPass == loop.at = "pass" /\ loop.passes < p.conf.breaker

\* Video is protected: one FEC packet comes of each, when FEC is on.
FecEnqueued(q, packet) ==
    IF q.conf.fec /\ packet.type = "video"
    THEN Enqueued(q, [type |-> "fec", size |-> 1, key |-> FALSE], now)
    ELSE {q}

\* After SendPacket: leave the loop, or catch up with the time the next is due.
Sent(q, packet) ==
    \E r \in FecEnqueued(q, packet) :
        LET s == OnPacketSent(r, packet.type, packet.size, now)
            sent == loop.sent + packet.size
            next == NextSendTime(s, now)
            leave == \/ loop.probing /\ sent >= loop.recommended
                     \/ ~loop.probing /\ next > now
            target == MinOf(next, now)
        IN  /\ p' = IF leave THEN s ELSE Drained(s, target)
            /\ loop' = [loop EXCEPT !.sent = sent, !.firstProbe = FALSE, !.timedOut = FALSE,
                                    !.at = IF leave THEN "end" ELSE "pass",
                                    !.passes = @ + 1, !.target = target]

\* A probe begins with a small padding packet, when there can be one.
SendProbePadding ==
    /\ CanPass /\ loop.firstProbe
    /\ \E size \in PaddingSizes : Sent(p, [type |-> "padding", size |-> size])
    /\ UNCHANGED <<now, wake, level, vain, calls>>

\* What goes out because of its pace: not for a probe, or in place of one that timed
\* out.  Audio is not accounted for, whether it is paced or not.
Paced(packet) ==
    /\ packet.type # "audio" /\ Unpaced(p) = {}
    /\ ~loop.probing /\ ~loop.timedOut /\ ~ProbeIsNext(p)

LevelAfterSending(packet, emptied) ==
    LET added == IF Paced(packet) THEN level + packet.size ELSE level
    IN  IF emptied THEN MaxOf(0, added) ELSE added

SendQueued ==
    /\ CanPass /\ ~HeldBack(p, loop, now)
    /\ \E i \in Heads(p.queue) :
        /\ Sent([p EXCEPT !.queue = RemoveAt(@, i)], p.queue[i])
        /\ level' = LevelAfterSending(p.queue[i], p'.queue = <<>>)
    /\ UNCHANGED <<now, wake, vain, calls>>

\* With nothing to send, no more than MaxPaddingReplay is caught up with;
\* lastProcess is never before the target.
Replayed(t) == MaxOf(t, now - MaxPaddingReplay)
CaughtUp(q) == [q EXCEPT !.lastProcess = Replayed(@)]

AddPadding ==
    /\ CanPass /\ HeldBack(p, loop, now) /\ PaddingToAdd(p, loop) > 0
    /\ \E size \in PaddingSizes :
        p' \in Enqueued(CaughtUp(p),
                        [type |-> "padding", size |-> size, key |-> FALSE], now)
    /\ loop' = [loop EXCEPT !.target = Replayed(@), !.passes = @ + 1]
    /\ UNCHANGED <<now, wake, level, vain, calls>>

\* No padding is wanted, or none can be made: it counts as if it were sent.
LeaveLoop ==
    /\ CanPass /\ HeldBack(p, loop, now)
    /\ p' = IF PaddingToAdd(p, loop) > 0 THEN OwesPadding(CaughtUp(p), PaddingToAdd(p, loop))
            ELSE CaughtUp(p)
    /\ loop' = [loop EXCEPT !.target = Replayed(@), !.at = "end"]
    /\ UNCHANGED <<now, wake, level, vain, calls>>

\* The time that a probe was sent early is given back.
BreakCircuit ==
    /\ loop.at = "pass" /\ ~CanPass
    /\ Becomes([p EXCEPT !.lastSend = now, !.lastProcess = now])
    /\ level' = level - p.adjusted * MaxOf(0, p.lastProcess - now)
    /\ Vain(loop.sent = 0)
    /\ UNCHANGED calls

Probed(q, l) ==
    IF l.probing
    THEN [q EXCEPT !.probeFailed = l.sent = 0,
                   !.probe = IF l.sent = 0 THEN @ ELSE ProbeSent(@, now, l.sent)]
    ELSE q

FinishSending ==
    /\ loop.at = "end"
    /\ \E q \in RateAdjusted(Probed(p, loop), now) : Becomes(q)
    /\ Vain(loop.sent = 0)
    /\ UNCHANGED <<level, calls>>

ProcessPackets ==
    \/ /\ loop = Due \/ (loop = Idle /\ now + Margin(p) >= wake)
       /\ (SendNothing \/ StartSending)
    \/ SendProbePadding \/ SendQueued \/ AddPadding \/ LeaveLoop
    \/ BreakCircuit \/ FinishSending

Next == Application \/ ProcessPackets \/ Tick

Spec == Init /\ [][Next]_vars

-------------------------------------------------------------------------------
(* Properties *)

LoopType == {Idle, Due, Batch} \cup
    [at : {"pass", "end"}, target : Nat, sent : Nat, passes : Nat, probing : BOOLEAN,
     recommended : {0, RecommendedProbeSize}, firstProbe : BOOLEAN, timedOut : BOOLEAN]

\* Types; time the controller has accounted for is not in the future, but for a
\* probe sent early, and padding is never faster than media.
TypeOK ==
    /\ {now, wake, vain, calls, p.mediaDebt, p.paddingDebt} \subseteq Nat
    /\ level \in Int
    /\ loop \in LoopType
    /\ p.lastSend \in 0 .. now /\ p.lastProcess \in 0 .. now + MaxEarlyProbe
    /\ \A i \in DOMAIN p.queue : p.queue[i].at \in 0 .. now
    /\ p.adjusted >= p.rates.pacing /\ p.rates.padding \in 0 .. p.rates.pacing

\* Of media, padding and FEC.
PacketSizes == {packet.size : packet \in MediaPackets} \cup PaddingSizes \cup {1}

\* The time that may be sent for afterwards: what the owner was late for, or what
\* padding is replayed for.
Slack == MaxOf(Late, MaxPaddingReplay)

\* What PacedBound takes for granted: the limit of the debt leaves room for a packet
\* after a burst, that limit is drained within the time that ever counts as elapsed, and
\* no rate is zero, at which what waits still goes out now and then.
BurstsFit ==
    \A rates \in Rates, size \in PacketSizes :
        rates.pacing * MaxOf(rates.burst, 1) - 1 + size <= rates.pacing * MaxDebtInTime
DebtIsRecent == MaxDebtInTime <= MaxElapsedTime
RatesPositive == \A rates \in Rates : rates.pacing > 0

\* However ProcessPackets is delayed, packets come in bursts, rates change and
\* congestion comes and goes, what is sent because its time has come keeps to a
\* leaky bucket: a burst, one packet more, and what may be sent for afterwards.
\* Draining a long queue is meant to exceed it.
PacedBound ==
    ~p.conf.drainLargeQueues =>
        \/ level <= 0
        \/ \E rates \in Rates, size \in PacketSizes :
              level <= rates.pacing * (MaxOf(rates.burst, 1) + Slack) - 1 + size

\* When all that is due is done, a controller that may not send, or that has
\* nothing to send where silence is to be padded, has sent a keep-alive within the
\* interval: it never gets stuck for lack of feedback.
NeverSilent ==
    /\ loop = Idle /\ now < wake
    /\ p.conf.padIfSilent \/ p.paused \/ p.congested \/ ~p.seenFirst
    => now - p.lastSend < CongestedInterval

\* The send loop ends by itself: FEC, padding made because the queue is empty and
\* time caught up with never keep it going until the circuit breaker trips, when
\* that is higher than what can be queued.
BreakerForBacklogs == loop.at = "pass" /\ p.conf.breaker > 2 => loop.passes < p.conf.breaker

\* An owner that calls ProcessPackets for as long as NextSendTime has come does
\* not spin: calls that send nothing move NextSendTime past the clock, at most
\* after the padding that is replayed.
NoSpin == vain <= MaxPaddingReplay + 1
===============================================================================
