---------------------------- MODULE VideoSendStream ----------------------------
(***************************************************************************)
(* webrtc::internal::VideoSendStreamImpl (video/video_send_stream_impl.cc):*)
(* starts and stops a video sender, watches its encoder for activity and   *)
(* keeps the bitrate allocator told of what it needs.                      *)
(*                                                                         *)
(* The application and the allocator call on the worker queue; the encoder *)
(* calls on threads of its own, and what it says is posted to the worker   *)
(* queue.  The activity check is a repeating task of the worker queue; it  *)
(* reads activity_, which the encoder's threads set, and resets it later,  *)
(* and they may come in between.                                           *)
(***************************************************************************)
EXTENDS Integers, Sequences, SequencesExt

CONSTANTS EncoderConfigs,   \* of the application: records spatial, simulcast, max
          Encodings,        \* what the encoder makes of one: records streams, svc, minTransmit
          Allocations,      \* VideoBitrateAllocation: records rate, layers
          Rates,            \* payload bitrates the allocator may leave the encoder
          DefaultMin,       \* GetDefaultMinVideoBitrate
          Hysteresis,       \* kVideoHysteresis, in percent
          MaxDifference,    \* kMaxVbaSizeDifferencePercent
          PadToMin,         \* suspend_below_min_bitrate
          AlrProbing,       \* has_alr_probing_
          MaxTasks          \* bound of the model: posted tasks at a time

ASSUME SendStreamAssumption ==
    /\ DefaultMin \in Nat /\ Hysteresis \in Nat /\ MaxDifference \in Nat /\ MaxTasks \in Nat
    /\ Rates \subseteq Nat
    /\ \A allocation \in Allocations : allocation.rate \in Nat
    /\ PadToMin \in BOOLEAN /\ AlrProbing \in BOOLEAN

Nothing == -1

VARIABLES self,       \* the members of VideoSendStreamImpl, what the allocator knows of
                      \* the stream, the rate its encoder was told, and whether the activity
                      \* check is between its read of activity_ and the reset
          tasks,      \* what the encoder has posted to the worker queue
          life,       \* "alive", or "stopped" permanently
          accepted    \* history: the last allocation taken while the encoder had a rate

streamVars == <<self, tasks, life, accepted>>

SumOf(seq) == FoldLeft(LAMBDA sum, x : sum + x, 0, seq)
MaxOf(a, b) == IF a > b THEN a ELSE b
MinOf(a, b) == IF a < b THEN a ELSE b

-------------------------------------------------------------------------------
(* Bitrates of a configuration *)

ActiveOf(layers) == SelectSeq(layers, LAMBDA layer : layer.active)

HasActiveEncodings(config) ==
    IF config.spatial # <<>> THEN ActiveOf(config.spatial) # <<>>
    ELSE ActiveOf(config.simulcast) # <<>>

\* Nothing without an active layer, or without any limit.
CalculateMaxBitrate(layers, globalMax) ==
    LET caps == [i \in DOMAIN ActiveOf(layers) |-> ActiveOf(layers)[i].max]
    IN  IF SumOf(caps) > 0 THEN SumOf(caps)
        ELSE IF ActiveOf(layers) # <<>> /\ globalMax > 0 THEN globalMax
        ELSE Nothing

GetConfiguredMaxVideoBitrate(config) ==
    IF config.spatial # <<>> THEN CalculateMaxBitrate(config.spatial, config.max)
    ELSE IF config.simulcast # <<>> THEN CalculateMaxBitrate(config.simulcast, config.max)
    ELSE IF config.max > 0 THEN config.max
    ELSE Nothing

WithHysteresis(rate) == (Hysteresis * rate + 50) \div 100

\* Enough for the lowest stream, or to turn the highest active one on.
PadUpTo(active, svc) ==
    LET top == Last(active)
    IN  IF Len(active) > 1 \/ svc
        THEN IF AlrProbing THEN active[1].min
             ELSE IF svc THEN WithHysteresis(active[1].target)
             ELSE MinOf(WithHysteresis(top.min), top.target)
                  + SumOf([i \in 1 .. Len(active) - 1 |-> active[i].target])
        ELSE IF PadToMin THEN active[1].min
        ELSE 0

CalculateMaxPadBitrate(encoding) ==
    LET active == ActiveOf(encoding.streams)
    IN  MaxOf(encoding.minTransmit, IF active = <<>> THEN 0 ELSE PadUpTo(active, encoding.svc))

-------------------------------------------------------------------------------
(* The allocator and the encoder's activity *)

GetAllocationConfig(q) ==
    [min |-> q.encoderMin, max |-> MaxOf(0, q.encoderMax),
     padUp |-> IF q.disablePadding THEN 0 ELSE q.maxPadding]

NotObserved == [min |-> Nothing, max |-> Nothing, padUp |-> Nothing]

\* BitrateAllocator::AddObserver and RemoveObserver.
AddObserver(q) == [q EXCEPT !.allocator = GetAllocationConfig(q)]
RemoveObserver(q) == [q EXCEPT !.allocator = NotObserved]

\* Wrong variant: a stream that was stopped is registered again.
SignalEncoderActiveAlways(q) == AddObserver(q)

SignalEncoderActive(q) == IF q.running THEN AddObserver(q) ELSE q

SignalEncoderTimedOut(q) == IF q.target # 0 THEN RemoveObserver(q) ELSE q

\* One task at a time: none runs on the worker queue while the check does.
WorkerQueueFree == ~self.checking

\* The allocator calls those it observes.
OnBitrateUpdated ==
    /\ WorkerQueueFree
    /\ self.allocator # NotObserved
    /\ \E payload \in Rates :
        LET target == IF self.encoderMax = Nothing THEN payload
                      ELSE MinOf(self.encoderMax, payload)
        IN  self' = [self EXCEPT !.target = target, !.encoderRate = target]
    /\ UNCHANGED <<tasks, life, accepted>>

\* A task posted before one check runs before the next.
Due == \A i \in DOMAIN tasks : ~tasks[i].old

\* Wrong variant: the encoder is active again and nobody tells the allocator.
ActivityCheckedUnsignalled(q) ==
    IF ~q.activity
    THEN [IF q.timedOut THEN q ELSE SignalEncoderTimedOut(q)
              EXCEPT !.timedOut = TRUE, !.disablePadding = TRUE]
    ELSE [q EXCEPT !.timedOut = FALSE]

ActivityChecked(q) ==
    IF ~q.activity
    THEN [IF q.timedOut THEN q ELSE SignalEncoderTimedOut(q)
              EXCEPT !.timedOut = TRUE, !.disablePadding = TRUE]
    ELSE [IF q.timedOut THEN SignalEncoderActive(q) ELSE q EXCEPT !.timedOut = FALSE]

\* The repeating task of a stream that runs, every kEncoderTimeOut: activity_ is read
\* and acted on,
CheckEncoderActivity ==
    /\ self.running /\ Due /\ WorkerQueueFree
    /\ self' = [ActivityChecked(self) EXCEPT !.checking = TRUE]
    /\ UNCHANGED <<tasks, life, accepted>>

\* and then reset, whatever the encoder has set it to since.
ResetActivity ==
    /\ self.checking
    /\ self' = [self EXCEPT !.activity = FALSE, !.checking = FALSE]
    /\ tasks' = [i \in DOMAIN tasks |-> [tasks[i] EXCEPT !.old = TRUE]]
    /\ UNCHANGED <<life, accepted>>

-------------------------------------------------------------------------------
(* The application *)

StartupVideoSendStream(q) ==
    AddObserver([q EXCEPT !.running = TRUE, !.activity = FALSE, !.timedOut = FALSE])

StopVideoSendStream(q) == [RemoveObserver(q) EXCEPT !.running = FALSE, !.encoderRate = 0]

Start ==
    /\ life = "alive" /\ WorkerQueueFree
    /\ LET q == [self EXCEPT !.active = TRUE]
       IN  self' = IF q.hasEncodings /\ ~q.running THEN StartupVideoSendStream(q) ELSE q
    /\ UNCHANGED <<tasks, life, accepted>>

Stopped(q) ==
    IF ~q.active THEN q
    ELSE IF q.running THEN StopVideoSendStream([q EXCEPT !.active = FALSE])
    ELSE [q EXCEPT !.active = FALSE]

Stop ==
    /\ WorkerQueueFree
    /\ self' = Stopped(self)
    /\ UNCHANGED <<tasks, life, accepted>>

\* Then the encoder is configured, and answers with OnEncoderConfigurationChanged.
ReconfigureVideoEncoder ==
    /\ life = "alive" /\ WorkerQueueFree
    /\ \E config \in EncoderConfigs :
        LET q == [self EXCEPT !.hasEncodings = HasActiveEncodings(config),
                              !.configuredMax = config.max]
        IN  self' = IF q.hasEncodings /\ q.active /\ ~q.running THEN StartupVideoSendStream(q)
                    ELSE IF ~q.hasEncodings /\ q.running THEN StopVideoSendStream(q)
                    ELSE q
    /\ UNCHANGED <<tasks, life, accepted>>

\* The encoder is stopped first and calls no more; what it has posted still runs.
StopPermanentlyAndGetRtpStates ==
    /\ life = "alive" /\ WorkerQueueFree
    /\ life' = "stopped"
    /\ self' = Stopped(self)
    /\ UNCHANGED <<tasks, accepted>>

-------------------------------------------------------------------------------
(* The encoder's threads *)

Post(kind, what) ==
    tasks' = Append(tasks, [kind |-> kind, what |-> what, old |-> FALSE])

EncoderRuns == life = "alive" /\ Len(tasks) < MaxTasks

OnEncodedImage ==
    /\ EncoderRuns
    /\ self' = [self EXCEPT !.activity = TRUE]
    /\ Post("image", Nothing)
    /\ UNCHANGED <<life, accepted>>

OnFrameDropped ==
    /\ EncoderRuns
    /\ self' = [self EXCEPT !.activity = TRUE]
    /\ UNCHANGED <<tasks, life, accepted>>

OnEncoderConfigurationChanged ==
    /\ EncoderRuns
    /\ \E encoding \in Encodings : Post("configuration", encoding)
    /\ UNCHANGED <<self, life, accepted>>

OnBitrateAllocationUpdated ==
    /\ EncoderRuns
    /\ \E allocation \in Allocations : Post("allocation", allocation)
    /\ UNCHANGED <<self, life, accepted>>

-------------------------------------------------------------------------------
(* What they have posted, on the worker queue *)

NoAllocation == [rate |-> Nothing, layers |-> {}]
NoContext == [last |-> NoAllocation, throttled |-> NoAllocation, recent |-> FALSE]

\* A little more than what was sent last, for the same layers.
IsSimilar(allocation, last) ==
    /\ allocation.rate >= last.rate
    /\ allocation.rate < (last.rate * (100 + MaxDifference)) \div 100
    /\ allocation.layers = last.layers

\* Sent to the RTP sender, less than kMaxVbaThrottleTimeMs ago.
Sent(q, allocation) ==
    [q EXCEPT !.context = [last |-> allocation, throttled |-> NoAllocation, recent |-> TRUE]]

\* Wrong variant: an allocation that was throttled before is kept.
AllocatedKept(q, allocation) ==
    IF q.target = 0 THEN q
    ELSE IF IsSimilar(allocation, q.context.last) /\ q.context.recent
    THEN [q EXCEPT !.context.throttled = allocation]
    ELSE [q EXCEPT !.context.last = allocation, !.context.recent = TRUE]

\* Nothing is sent while the encoder has no rate; what is too similar waits.
Allocated(q, allocation) ==
    IF q.target = 0 THEN q
    ELSE IF IsSimilar(allocation, q.context.last) /\ q.context.recent
    THEN [q EXCEPT !.context.throttled = allocation]
    ELSE Sent(q, allocation)

AllocationTask ==
    /\ WorkerQueueFree /\ tasks # <<>> /\ Head(tasks).kind = "allocation"
    /\ self' = Allocated(self, Head(tasks).what)
    /\ accepted' = IF self.target = 0 THEN accepted ELSE Head(tasks).what
    /\ tasks' = Tail(tasks)
    /\ UNCHANGED life

PaddingEnabled(q) ==
    IF q.disablePadding THEN SignalEncoderActive([q EXCEPT !.disablePadding = FALSE]) ELSE q

\* Wrong variant: a throttled allocation waits for the next one.
RetriedNever(q) == q

Retried(q) ==
    IF q.context.throttled # NoAllocation THEN Allocated(q, q.context.throttled) ELSE q

\* Padding may begin, and a throttled allocation is tried again.
ImageTask ==
    /\ WorkerQueueFree /\ tasks # <<>> /\ Head(tasks).kind = "image"
    /\ self' = Retried(PaddingEnabled(self))
    /\ tasks' = Tail(tasks)
    /\ UNCHANGED <<life, accepted>>

EncodingTaken(q, encoding) ==
    LET min == MaxOf(encoding.streams[1].min, DefaultMin)
        max == CalculateMaxBitrate(encoding.streams, q.configuredMax)
    IN  [q EXCEPT !.encoderMin = min,
                  !.encoderMax = IF max = Nothing THEN Nothing ELSE MaxOf(min, max),
                  !.maxPadding = CalculateMaxPadBitrate(encoding)]

\* Wrong variant: the new limits are only for the next start.
ConfigurationTakenLater(q, encoding) == EncodingTaken(q, encoding)

\* A stream that runs tells the allocator of its new limits.
ConfigurationTaken(q, encoding) ==
    IF q.running THEN AddObserver(EncodingTaken(q, encoding)) ELSE EncodingTaken(q, encoding)

ConfigurationTask ==
    /\ WorkerQueueFree /\ tasks # <<>> /\ Head(tasks).kind = "configuration"
    /\ self' = ConfigurationTaken(self, Head(tasks).what)
    /\ tasks' = Tail(tasks)
    /\ UNCHANGED <<life, accepted>>

\* kMaxVbaThrottleTimeMs pass.
ThrottleTimePasses ==
    /\ self.context.recent
    /\ self' = [self EXCEPT !.context.recent = FALSE]
    /\ UNCHANGED <<tasks, life, accepted>>

-------------------------------------------------------------------------------
StreamInit ==
    /\ \E config \in EncoderConfigs :
        self = [active |-> FALSE, running |-> FALSE, hasEncodings |-> HasActiveEncodings(config),
                activity |-> FALSE, checking |-> FALSE, timedOut |-> FALSE,
                disablePadding |-> TRUE, maxPadding |-> 0, encoderMin |-> 0,
                encoderMax |-> GetConfiguredMaxVideoBitrate(config),
                configuredMax |-> config.max, target |-> 0, context |-> NoContext,
                allocator |-> NotObserved, encoderRate |-> 0]
    /\ tasks = <<>>
    /\ life = "alive"
    /\ accepted = NoAllocation

StreamNext ==
    \/ OnBitrateUpdated \/ CheckEncoderActivity \/ ResetActivity
    \/ Start \/ Stop \/ ReconfigureVideoEncoder \/ StopPermanentlyAndGetRtpStates
    \/ OnEncodedImage \/ OnFrameDropped
    \/ OnEncoderConfigurationChanged \/ OnBitrateAllocationUpdated
    \/ AllocationTask \/ ImageTask \/ ConfigurationTask
    \/ ThrottleTimePasses

StreamSpec == StreamInit /\ [][StreamNext]_streamVars

\* The worker queue runs what it has, and time passes.
StreamFairSpec ==
    /\ StreamSpec
    /\ WF_streamVars(AllocationTask \/ ImageTask \/ ConfigurationTask)
    /\ WF_streamVars(CheckEncoderActivity \/ ResetActivity)
    /\ WF_streamVars(ThrottleTimePasses)

-------------------------------------------------------------------------------
(* Properties *)

\* The allocator observes a stream only while it runs, and one whose encoder has
\* not timed out always; a stream that runs may send and has active encodings,
\* and one that does not has an encoder without a rate.  Tasks that were posted
\* before Stop do not change that.
ObservedWhileRunning ==
    /\ self.allocator # NotObserved => self.running
    /\ self.running /\ ~self.timedOut => self.allocator # NotObserved
    /\ self.running => self.active /\ self.hasEncodings
    /\ ~self.running => self.encoderRate = 0
    /\ life = "stopped" => ~self.active

\* The allocator works with the limits and the padding the stream has now,
\* except that an encoder that has timed out may still get its padding.
AllocatorUpToDate ==
    LET now == GetAllocationConfig(self)
    IN  self.allocator # NotObserved =>
            \/ self.allocator = now
            \/ self.timedOut /\ self.allocator = [now EXCEPT !.padUp = self.maxPadding]

\* The newest allocation taken while the encoder had a rate is the one the RTP
\* sender has, or the one that waits: throttling never brings an older one back.
NewestAllocation ==
    accepted = IF self.context.throttled # NoAllocation THEN self.context.throttled
               ELSE self.context.last

ImagePosted == \E i \in DOMAIN tasks : tasks[i].kind = "image"

\* An encoder that has timed out and is active again is observed again: for certain
\* when it has posted a frame, and with frames it drops only when they set activity_
\* outside of a check, which loses what is set between its read and its reset.
EncoderComesBack ==
    (self.running /\ self.timedOut /\ ((self.activity /\ ~self.checking) \/ ImagePosted))
        ~> (self.allocator # NotObserved \/ ~self.running)

\* An allocation that was throttled goes out with a later frame.
ThrottledIsSent ==
    (self.context.throttled # NoAllocation /\ ~self.context.recent /\ ImagePosted)
        ~> (self.context.throttled = NoAllocation \/ self.target = 0)
===============================================================================
