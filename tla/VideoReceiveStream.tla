-------------------------- MODULE VideoReceiveStream --------------------------
(***************************************************************************)
(* webrtc::internal::VideoReceiveStream2 (video/video_receive_stream2.cc)  *)
(* with its VideoStreamBufferController and FrameBuffer: the cycle that    *)
(* takes frames from the network to the decoder.                           *)
(*                                                                         *)
(* The worker thread runs one handler at a time: a frame from the network, *)
(* a scheduled release, a timeout, the result of a decode, Start, Stop.    *)
(* The decode queue runs the tasks posted to it in order.                  *)
(***************************************************************************)
EXTENDS BufferController

CONSTANTS Stream,      \* the frames the sender produces
          MaxInserts,  \* bound: frames accepted from the network
          MaxStarts    \* bound: calls of Start()

ASSUME StreamAssumption ==
    /\ Stream \subseteq Frame
    /\ MaxInserts \in Nat
    /\ MaxStarts \in Nat

VARIABLES
    ctrl,        \* buffer_, the controller
    running,     \* decoder_running_
    stopping,    \* the worker is in Stop(), blocked in done.Wait
    required,    \* keyframe_required_
    requested,   \* last_keyframe_request_ has a value
    generating,  \* keyframe_generation_requested_
    decodeQueue, \* tasks posted to decode_queue_ that have not run
    decoderStopped, \* decoder_stopped_
    frameDecoded,   \* frame_decoded_
    results,     \* tasks posted back to the worker thread
    fed,         \* ghost: frames passed on since a keyframe was last required
    rested,      \* ghost: every Start() so far found the decode cycle at rest
    keyed,       \* ghost: and keyframe_required_ set
    inserts, starts \* bounded counters

streamVars == <<running, stopping, required, requested, generating>>
decodeVars == <<decoderStopped, frameDecoded>>
startVars == <<rested, keyed, starts>>
vars == <<ctrl, streamVars, decodeQueue, decodeVars, results, fed, inserts, startVars>>

StartTask == [kind |-> "start"]
StopTask == [kind |-> "stop"]
FrameTask(key, kr, due) == [kind |-> "frame", key |-> key, required |-> kr, due |-> due]

Task == {StartTask, StopTask}
          \cup {FrameTask(key, kr, due) : key, kr, due \in BOOLEAN}
Result == [required : BOOLEAN, force : BOOLEAN, key : BOOLEAN, due : BOOLEAN]

TypeOK ==
    /\ Cardinality(Ids(ctrl.buf)) <= MaxSize
    /\ \A i \in Ids(ctrl.buf) : ctrl.buf.frames[i] \in Stream
    /\ ctrl.ready \in BOOLEAN /\ ctrl.keyframeRequired \in BOOLEAN
    /\ ctrl.timer \in BOOLEAN
    /\ ctrl.scheduled \in {None} \cup {f.ts : f \in Stream}
    /\ {running, stopping, required, requested, generating,
        decoderStopped, frameDecoded, rested, keyed} \subseteq BOOLEAN
    /\ decodeQueue \in Seq(Task)
    /\ results \in Seq(Result)
    /\ fed \subseteq Stream
    /\ inserts \in 0 .. MaxInserts /\ starts \in 0 .. MaxStarts

Init ==
    /\ ctrl = InitialController
    /\ running = FALSE /\ stopping = FALSE
    /\ required = TRUE /\ requested = FALSE /\ generating = FALSE
    /\ decodeQueue = <<>> /\ decoderStopped = TRUE /\ frameDecoded = FALSE
    /\ results = <<>>
    /\ fed = {}
    /\ rested = TRUE /\ keyed = TRUE
    /\ inserts = 0 /\ starts = 0

\* The worker thread is free to run a handler.
WorkerFree == ~stopping

\* now >= last_keyframe_request_ + max_wait_for_keyframe_, or no request yet.
RequestDue == IF requested' THEN BOOLEAN ELSE {TRUE}

\* What a call of the controller leaves behind: OnEncodedFrame posts the frames
\* it was given to the decode queue, with keyframe_required_ as it is now.
Apply(outcomes, queue, fedBefore) ==
    \E o \in outcomes, due \in RequestDue :
        /\ ctrl' = o.ctrl
        /\ fed' = fedBefore \cup o.out
        /\ decodeQueue' =
              IF o.out = {} THEN queue
              ELSE Append(queue,
                     FrameTask(\E f \in o.out : IsKeyframe(f), required', due))

-------------------------------------------------------------------------------
(* Handlers of the worker thread *)

\* A frame is complete (OnCompleteFrame).  A frame that changes nothing is not
\* worth a step.
OnCompleteFrame(f) ==
    /\ WorkerFree
    /\ inserts < MaxInserts
    /\ InsertFrame(ctrl.buf, f) # ctrl.buf
    /\ inserts' = inserts + 1
    /\ UNCHANGED <<streamVars, decodeVars, results, startVars>>
    /\ Apply(ControllerInsert(ctrl, f), decodeQueue, fed)

\* The scheduled release comes due.
Fire ==
    /\ WorkerFree
    /\ ctrl.scheduled # None
    /\ UNCHANGED <<streamVars, decodeVars, results, inserts, startVars>>
    /\ Apply({FrameReadyForDecode(ctrl)}, decodeQueue, fed)

\* What the decoder was given counts from here when a keyframe is required.
FedAfter(kr) == IF kr THEN {} ELSE fed

\* The timeout tracker expires: OnTimeout and OnDecodableFrameTimeout.  The
\* stream is active, receiving a keyframe or waiting for a decryption key, so
\* a keyframe is requested or not.
Timeout ==
    /\ WorkerFree
    /\ ctrl.timer
    /\ UNCHANGED <<running, stopping, required, generating, decodeVars, results,
                   inserts, startVars>>
    /\ IF ~ctrl.ready
       THEN /\ ctrl' = ControllerTimeout(ctrl)
            /\ UNCHANGED <<requested, decodeQueue, fed>>
       ELSE /\ requested' \in {requested, TRUE}
            /\ Apply(StartNextDecode(ControllerTimeout(ctrl), required),
                     decodeQueue, FedAfter(required))

\* Wrong variant: the next decode starts without asking for a keyframe.
NextDecodeRequiresNone(r) == FALSE

NextDecodeRequires(r) == r.required

\* HandleKeyFrameGeneration: whether RequestKeyFrame is called.
RequestsKeyFrame(r) ==
    IF r.force THEN {TRUE}
    ELSE IF generating /\ ~r.key /\ r.due THEN BOOLEAN  \* unless one is arriving
    ELSE {FALSE}

\* The task OnEncodedFrame's decode posted back to the worker thread.
OnDecodeResult ==
    /\ WorkerFree
    /\ results # <<>>
    /\ LET r == Head(results) IN
       /\ results' = Tail(results)
       /\ required' = r.required
       /\ generating' = (generating /\ ~r.key)
       /\ \E request \in RequestsKeyFrame(r) : requested' = (requested \/ request)
       /\ UNCHANGED <<running, stopping, decodeVars, inserts, startVars>>
       /\ Apply(StartNextDecode(ctrl, NextDecodeRequires(r)), decodeQueue,
                FedAfter(r.required))

GenerateKeyFrame ==
    /\ WorkerFree
    /\ requested' = TRUE /\ generating' = TRUE
    /\ UNCHANGED <<ctrl, running, stopping, required, decodeQueue, decodeVars,
                   results, fed, inserts, startVars>>

\* The decoder does not wait, and has neither a frame nor a result on its way.
AtRest ==
    /\ ~ctrl.ready /\ ctrl.scheduled = None
    /\ results = <<>>
    /\ \A k \in DOMAIN decodeQueue : decodeQueue[k].kind # "frame"

Start ==
    /\ WorkerFree
    /\ ~running /\ starts < MaxStarts
    /\ starts' = starts + 1
    /\ rested' = (rested /\ AtRest)
    /\ keyed' = (keyed /\ AtRest /\ required)
    /\ running' = TRUE
    /\ UNCHANGED <<stopping, required, requested, generating, decodeVars, results,
                   inserts>>
    /\ Apply(StartNextDecode(ctrl, TRUE), Append(decodeQueue, StartTask), {})

StopWaits == running

\* Stop() up to done.Wait; a stream that is not running has nothing to wait for.
Stop ==
    /\ WorkerFree
    /\ ctrl' = ControllerStop(ctrl)
    /\ stopping' = StopWaits
    /\ decodeQueue' = IF running THEN Append(decodeQueue, StopTask) ELSE decodeQueue
    /\ UNCHANGED <<running, required, requested, generating, decodeVars, results,
                   fed, inserts, startVars>>

-------------------------------------------------------------------------------
(* The decode queue *)

\* HandleEncodedFrameOnDecodeQueue for the outcomes of the decoder: decoded,
\* decoded but a keyframe is wanted, failed.
DecodeResult(t, outcome) ==
    LET failed == outcome = "error"
        insists == ~frameDecoded \/ ~t.required \/ t.due
    IN [required |-> failed /\ (insists \/ t.required),
        force |-> outcome = "ok request keyframe" \/ (failed /\ insists),
        key |-> t.key, due |-> t.due]

\* Wrong variant: a failed decode ends without a word.
ReportsSuccess(outcome) == outcome # "error"

Reports(outcome) == TRUE

DecodeFrame ==
    /\ decodeQueue # <<>> /\ Head(decodeQueue).kind = "frame"
    /\ decodeQueue' = Tail(decodeQueue)
    /\ IF decoderStopped
       THEN UNCHANGED <<frameDecoded, results>>
       ELSE \E outcome \in {"ok", "ok request keyframe", "error"} :
              /\ frameDecoded' = (frameDecoded \/ outcome # "error")
              /\ results' = IF Reports(outcome)
                            THEN Append(results, DecodeResult(Head(decodeQueue), outcome))
                            ELSE results
    /\ UNCHANGED <<ctrl, streamVars, decoderStopped, fed, inserts, startVars>>

\* The task of Start(), and the task of Stop(), which lets Stop() return.
DecodeStartStop ==
    /\ decodeQueue # <<>> /\ Head(decodeQueue).kind \in {"start", "stop"}
    /\ decodeQueue' = Tail(decodeQueue)
    /\ decoderStopped' = (Head(decodeQueue).kind = "stop")
    /\ IF Head(decodeQueue).kind = "stop"
       THEN stopping' = FALSE /\ running' = FALSE
       ELSE UNCHANGED <<stopping, running>>
    /\ UNCHANGED <<ctrl, required, requested, generating, frameDecoded, results, fed,
                   inserts, startVars>>

-------------------------------------------------------------------------------
Next ==
    \/ \E f \in Stream : OnCompleteFrame(f)
    \/ Fire \/ Timeout \/ OnDecodeResult \/ GenerateKeyFrame \/ Start \/ Stop
    \/ DecodeFrame \/ DecodeStartStop

Spec == Init /\ [][Next]_vars

\* The decode queue and the worker thread run what is posted to them, and a
\* scheduled release or a timeout that stays outstanding comes.  The network,
\* and whoever starts and stops the stream, owe nothing.
FairSpec ==
    /\ Spec
    /\ WF_vars(DecodeFrame \/ DecodeStartStop)
    /\ WF_vars(OnDecodeResult)
    /\ WF_vars(Fire)
    /\ WF_vars(Timeout)

-------------------------------------------------------------------------------
(* Properties *)

\* No lost wakeup: while the decoder waits and a unit can be decoded, its
\* release is scheduled; MaybeScheduleFrameForRelease is called at every
\* change that makes a unit decodable.
DecodableIsScheduled ==
    ctrl.ready /\ HasNext(ctrl.buf) => ctrl.scheduled # None

\* While the decoder waits, the timeout that asks for a keyframe is armed.
TimeoutArmed == ctrl.ready => ctrl.timer

\* Since the last time a keyframe was required (at every start, and after a
\* failed decode) the decoder was given only frames whose references it was
\* given too, the first of them a keyframe.  It holds over any number of starts
\* that find keyframe_required_ set: Start() asks the controller for a keyframe
\* and not the stream, whose next timeout would withdraw the request.
DecoderInputDecodable ==
    keyed => \A f \in fed : \A r \in Refs(f) : \E g \in fed : g.id = r

\* "Frame buffer's next decodable frame was not the one sent for extraction"
\* (RTC_DCHECK_EQ in FrameReadyForDecode) never happens, over any number of
\* starts, until one of them finds a result of the stopped cycle outstanding or
\* what it scheduled, which Start() may skip.
ScheduledIsNext ==
    rested /\ ctrl.scheduled # None /\ HasNext(ctrl.buf) =>
        ctrl.scheduled = ctrl.buf.info.next

\* A decodable unit does not wait for ever in a running stream.
UnitsLeave ==
    \A f \in Stream :
        (running /\ ctrl.buf.next.last = f.id)
            ~> (~running \/ ctrl.buf.next.last # f.id)
===============================================================================
