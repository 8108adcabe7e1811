--------------------------- MODULE BufferController ---------------------------
(***************************************************************************)
(* webrtc::VideoStreamBufferController                                     *)
(* (video/video_stream_buffer_controller.cc): which decodable unit is      *)
(* released to the decoder, and when.  Operators on a record c;            *)
(* VideoReceiveStream.tla calls them as VideoReceiveStream2 does.          *)
(*                                                                         *)
(* The clock is abstracted: a scheduled release and a running timeout may  *)
(* come at any time, and OnFrameBufferUpdated, which compares the clock    *)
(* with the render time, may refuse any unit that is not the last          *)
(* decodable one.  Timing estimates and statistics are left out.           *)
(*                                                                         *)
(* An operator yields the set of outcomes [ctrl, out]: the controller      *)
(* afterwards and the frames passed to receiver_->OnEncodedFrame, {} if    *)
(* none were.                                                              *)
(***************************************************************************)
EXTENDS FrameBufferOps

InitialController ==
    [buf   |-> EmptyBuffer,   \* buffer_
     ready |-> FALSE,         \* decoder_ready_for_new_frame_
     keyframeRequired |-> FALSE,  \* keyframe_required_
     scheduled |-> None,      \* frame_decode_scheduler_->ScheduledRtpTimestamp()
     timer |-> FALSE]         \* timeout_tracker_.Running()

Quiet(c) == [ctrl |-> c, out |-> {}]

FramesOf(b, ids) == {b.frames[i] : i \in ids}
NextIsKeyframe(b) == IsKeyframe(b.frames[b.next.first])

\* ExtractNextDecodableTemporalUnit and OnFrameReady.
Release(c) ==
    [ctrl |-> [c EXCEPT
                 !.buf = ExtractNext(@),
                 !.keyframeRequired = @ /\ ~NextIsKeyframe(c.buf),
                 !.ready = FALSE],
     out |-> FramesOf(c.buf, NextUnit(c.buf))]

-------------------------------------------------------------------------------
(* MaybeScheduleFrameForRelease *)

\* Wrong variant: the first unit found is released, keyframe or not.
SkipsNothing(b) == FALSE

\* A unit that does not start with a keyframe is extracted and discarded.
Skips(b) == HasNext(b) /\ ~NextIsKeyframe(b)

\* The buffers ForceKeyFrameReleaseImmediately goes through.
Skipping(b) ==
    LET after[n \in 0 .. MaxSize] ==
            IF n = 0 THEN {b} ELSE {ExtractNext(x) : x \in {y \in after[n - 1] : Skips(y)}}
    IN UNION {after[n] : n \in 0 .. MaxSize}

ForceKeyFrameReleaseImmediately(c) ==
    {LET c1 == [c EXCEPT !.buf = b]
     IN IF HasNext(b) THEN Release(c1) ELSE Quiet(c1)
        : b \in {x \in Skipping(c.buf) : ~Skips(x)}}

\* OnFrameBufferUpdated may yield no schedule for the next unit when it is late
\* and a later one is decodable; the unit is dropped then.
MayDrop(b) == HasNext(b) /\ b.info.next # b.info.last

\* The buffers in which the loop may find a schedule for the next unit.
Dropping(b) ==
    LET after[n \in 0 .. MaxSize] ==
            IF n = 0 THEN {b} ELSE {DropNext(x) : x \in {y \in after[n - 1] : MayDrop(y)}}
    IN UNION {after[n] : n \in 0 .. MaxSize}

\* A new schedule replaces the outstanding one.
ScheduleNext(c) ==
    {Quiet([c EXCEPT !.buf = b, !.scheduled = IF HasNext(b) THEN b.info.next ELSE @])
        : b \in Dropping(c.buf)}

\* Wrong variant: whatever is scheduled will do.
AlreadyScheduledAny(c) == c.scheduled # None

AlreadyScheduled(c) == c.scheduled = c.buf.info.next

MaybeScheduleFrameForRelease(c) ==
    IF ~c.ready \/ ~HasNext(c.buf) THEN {Quiet(c)}
    ELSE IF c.keyframeRequired THEN ForceKeyFrameReleaseImmediately(c)
    ELSE IF AlreadyScheduled(c) THEN {Quiet(c)}
    ELSE ScheduleNext(c)

-------------------------------------------------------------------------------
(* The calls *)

\* Wrong variant: only a frame that extends an empty buffer is scheduled.
GainedUnitsFirst(before, after) ==
    before.numContinuous < after.numContinuous /\ Ids(before) = {}

\* complete_units_before < GetTotalNumberOfContinuousTemporalUnits()
GainedUnits(before, after) == before.numContinuous < after.numContinuous

ControllerInsert(c, f) ==
    LET c1 == [c EXCEPT !.buf = InsertFrame(@, f)]
    IN IF GainedUnits(c.buf, c1.buf) THEN MaybeScheduleFrameForRelease(c1)
       ELSE {Quiet(c1)}

\* Wrong variant: the timeout tracker is started once, by the first call.
TimerOnStartNever(c) == c.timer

\* if (!timeout_tracker_.Running()) timeout_tracker_.Start()
TimerOnStart(c) == TRUE

StartNextDecode(c, keyframeRequired) ==
    MaybeScheduleFrameForRelease(
        [c EXCEPT !.timer = TimerOnStart(c),
                  !.keyframeRequired = keyframeRequired,
                  !.ready = TRUE])

ControllerStop(c) ==
    [c EXCEPT !.scheduled = None, !.timer = FALSE, !.ready = FALSE]

\* The scheduler's task runs FrameReadyForDecode: whatever unit is next now is
\* released; if there is none, the decoder stays ready.
FrameReadyForDecode(c) ==
    LET c1 == [c EXCEPT !.scheduled = None]
    IN IF HasNext(c.buf) THEN Release(c1) ELSE Quiet(c1)

\* OnTimeout up to the call of receiver_->OnDecodableFrameTimeout, which is
\* made if the decoder was ready.
ControllerTimeout(c) == [c EXCEPT !.timer = FALSE, !.ready = FALSE]
===============================================================================
