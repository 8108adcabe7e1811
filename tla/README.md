# Verification of webrtc-trace

webrtc-trace is an overlay over a WebRTC checkout: a set of modified WebRTC
sources (`src/overlay/src`) that log what a call does, packet by packet and frame
by frame, to CSV files, and scripts (`src/trace_tools`, `src/audio_quality_lab`)
that record a call, build a network trace from its logs, and replay the trace.

This directory holds TLA+ models of the parts of it whose correctness depends on
order, concurrency, loss and limits; TLC checks them on small instances, and TLAPS
proves what is proved for every value of the constants. The overlay files are
complete WebRTC classes, so the models follow the classes as they stand in this
repository, logging included where it has state of its own. What the repository
does not hold (task queues, the jitter estimator, the pacer's packet queue, the
decoder) is modelled from how these files use it and marked external in
`PROJECT.json`.

## 1. The system and its parts

```
 sender                                             receiver
 ------                                             --------
 Conductor (example client)                         Conductor
   |                                                  |
 VideoSendStreamImpl --rates-- GoogCC               VideoReceiveStream2 --- decoder
   | packets             feedback ^                   |       ^ frames
 PacingController                 |                 VideoStreamBufferController
   | packets, probes, padding     |                   |   FrameBuffer
 RtpSenderEgress --- network -----+----------------- RtpVideoStreamReceiver2 (not here)
                                                      |   PacketBuffer
                                                    NetEqImpl (audio)
 every part marked * in the table logs through AsyncCsvLog into a CsvSessionDir
 scripts: record -> build trace -> replay with netem -> compare
```

| Component | State | Operations | What is hard | What makes it correct |
|---|---|---|---|---|
| **AsyncCsvLog** (`rtc_base/csv_log.h`) | `queue_`, `stop_`, counters, the writer's deque, the `FILE` buffer | `WriteLine`, `WriterLoop`, `MaybeWriteStats`, the destructor | three threads, `notify_one` without the mutex, counters read without the mutex, exit while the writer runs | rows in order, once, none lost; no lost wakeup; counters describe the file; the destructor drains and returns |
| **CSV sessions** (same file) | the session directory of a process, the files in it | `CsvSessionDir`, `OpenCsvLog`, `AppendCsvLog` | processes that share a directory; `stat` then append by several threads | a log is lost only to a process that shares its directory; `logging_stats.csv` starts with its header |
| **FrameBuffer** * (`api/video`) | frames by id, continuity flags, the cached next unit, decode history, counters | `InsertFrame`, `ExtractNextDecodableTemporalUnit`, `DropNextDecodableTemporalUnit`, `Clear` | any arrival order, loss, repetition, a full buffer, wrapping timestamps, ids that jump back | decodable whole units in order; nothing decodable is hidden; every frame is accounted for |
| **VideoStreamBufferController** * (`video/`) | ready flag, required keyframe, outstanding schedule, timeout | `InsertFrame`, `StartNextDecode`, `Stop`, `FrameReadyForDecode`, `OnTimeout` | the buffer changes between the schedule and the release | a decodable unit is always scheduled; the released unit is the scheduled one |
| **VideoReceiveStream2** * (`video/`) | decoder and keyframe flags on two threads, tasks between them | `Start`, `Stop`, `OnCompleteFrame`, `OnEncodedFrame`, `OnDecodableFrameTimeout`, decode and its result | worker thread and decode queue; results that outlive `Stop`; decode failures | decoder input is decodable; the cycle never stops |
| **PacketBuffer** * (`modules/video_coding`) | a ring of packets, gaps, padding, the oldest number, `is_cleared_to_first_seq_num_` | `InsertPacket`, `InsertPadding`, `ClearTo`, `Clear`, `ForceSpsPpsIdrIsH264Keyframe` | reordering, repetition, 16-bit wrap, a ring that expands or is emptied, H.264 without frame marks | whole frames; no complete frame stays; delta frames wait for gaps; cleared packets stay away |
| **PacingController** * (`modules/pacing`) | media and padding debt, last process and send times, packet queue, prober, flags | `EnqueuePacket`, `ProcessPackets`, `NextSendTime`, `Pause`, `Resume`, `SetCongested`, `SetPacerConfig`, `CreateProbeClusters`, `RemovePacketsForSsrc` | late and early calls, idle time, keep-alives, padding that cannot be made, probes, the circuit breaker | the leaky bucket holds; keep-alives in time; neither the loop nor its owner spins |
| **RtpSenderEgress** * (`modules/rtp_rtcp`) | packets of the batch, FEC parameters that wait, counters, what the history and the pacer are told | `EnqueuePackets`, `PrepareForSend`, `SendPacket`, `CompleteSendPacket`, `OnBatchComplete`, `FetchFecPackets`, `OnAbortedRetransmissions` | a transport that refuses; FEC numbered between media; tasks of the encoder's thread and retransmissions sent at once | numbers leave in order; what is lost can be requested again; counters are what the transport took |
| VideoQualityObserver2 * | freeze, pause and resolution history | `OnRenderedFrame`, `OnStreamInactive`, ... | freezes over pauses and inactive periods | *planned* |
| **VideoSendStreamImpl** * (`video/`) | running, activity, time-out, limits of the encoding, the last and the throttled allocation | `Start`, `Stop`, `ReconfigureVideoEncoder`, the activity check, `OnBitrateUpdated`, what the encoder says | the encoder's threads post tasks that run after a stop or a time-out | the allocator observes a stream that runs and whose encoder is active, with its limits of now; the newest allocation is delivered |
| GoogCC * | estimates, probes, loss and delay state | `OnTransportPacketsFeedback`, ... | mostly arithmetic in estimators that are not here | *planned last* |
| NetEqImpl * | decoder and operation state | `InsertPacket`, `GetAudio` | operation sequencing, reset, mute | *planned* |
| **Conductor** (`examples/peerconnection/client`) | `peer_connection_`, `peer_id_`, `loopback_`, `pending_messages_` | login, calls either way, hang-up, `OnMessageFromPeer`, `UIThreadCallback`, `OnIceCandidate`, `OnSuccess` | two threads; queued callbacks outlive a call; creation fails | the call and its peer stay together; messages in order, none waits for ever; a call whose peer is gone ends |
| **Recording on one host** (`run_record_and_build_trace.sh`, `replay_netem_trace.py`) | stage, process groups, netem rule, `run.status`, files of the run | stages, trap and `cleanup`, `apply_row` | any process dies or hangs at any stage; signals; commands in flight; sudo lapses; directories used before | the script ends, nothing is left behind, ok means the files are there |
| Collection on two hosts | bundles of logs, status files | collect, wait for the bundle, build | bundles that arrive late or belong to another session | *planned* |
| Trace builders, analysis | none between runs | batch computations | none | not modelled: sequential, no state |
| Set-up scripts | none | installation | external programs | not modelled |

The hazards (what can go wrong that a test would hardly reach) are listed with
their lines, and the properties that watch them, in `PROJECT.json`.

## 2. The modules

| Module | Stands for | Kind |
|---|---|---|
| `RowLog` | what an asynchronous log promises: rows accepted at the end, a growing initial part of them on disk | abstract specification |
| `AsyncCsvLog` | `rtc::AsyncCsvLog` | state machine, implements `RowLog` |
| `AsyncCsvLogProofs` | theorems about it | proofs |
| `CsvSession` | session directories and files of several processes | state machine |
| `DecodableStream` | what a decoder may be given: whole units, in order, with their references | abstract specification |
| `FrameBufferOps` | the methods of `FrameBuffer` as operators on a record | operators |
| `FrameBuffer` | those methods called in any order | state machine, implements `DecodableStream` |
| `FrameBufferProofs` | theorems about it, on lemmas about the operators | proofs |
| `BufferController` | the methods of `VideoStreamBufferController` as operators yielding sets of outcomes; extends `FrameBufferOps` | operators |
| `VideoReceiveStream` | `VideoReceiveStream2` composed with its controller and buffer | state machine |
| `VideoReceiveStreamProofs` | theorems about it, on lemmas about the controller's operators and those of `FrameBufferProofs` | proofs |
| `PacketBuffer` | `video_coding::PacketBuffer` | operators and state machine |
| `PacketBufferProofs` | theorems about it | proofs |
| `PacingController` | `PacingController` with its owner | state machine |
| `PacingControllerProofs` | theorems about it | proofs |
| `RtpSenderEgress` | `RtpSenderEgress` with the pacer, the sequencer, the history and the FEC generator around it | state machine |
| `VideoSendStream` | `VideoSendStreamImpl` with its worker queue, the allocator and the encoder | state machine |
| `SendingProofs` | theorems about `RtpSenderEgress` and `VideoSendStream` | proofs |
| `Conductor` | the example client with its user, its server and its peer connection | state machine |
| `ConductorProofs` | theorems about it | proofs |
| `RecordRun` | the recording script with its process groups and the replay tool | state machine |
| `RecordingProofs` | theorems about `CsvSession` and `RecordRun`, which keep what a recording leaves | proofs |
| `MC...` | instances for TLC, one `.cfg` per question | |

Each module says, at each definition, which code it is; `PROJECT.json` "map" gives
the lines. Operators named `...Never`, `...Always`, `...Stale` and the like, with
the comment *Wrong variant*, are plausible bugs: each property is shown to fail
when such a variant stands in for the definition it follows.

### AsyncCsvLog

A critical section of `mutex_` is one step (`Enqueue`, `DropRow`, `Block`, `Swap`,
`RequestStop`). What a thread does without the mutex is one step per action that
others can see: `notify_one` (`Notify`, `NotifyStop`), each `fputs`, `fflush`, the
unlocked read of `enqueued_rows_` (`SampleStats`) and, later, of the two other
counters (`ReportStats`). `cv_.wait` is `Block`, `Woken` and `SpuriousWakeup`.
`fputs` may or may not write the `FILE`'s buffer out. `ProcessExit` models that
every log of the overlay is an `absl::NoDestructor`: the process ends at any step,
with or without the `FILE` being flushed. A log whose file does not open is the
initial state `file = FALSE`.

### CsvSession

Processes take their session directory (`<base>/<second>`) once, open their log
with mode `"w"`, and write it at an offset of their own, as a `FILE` does: two processes
of one base and one second have the same files. Their writer threads append to `logging_stats.csv`
in three steps: `stat`, header, row.
Failing `mkdir` and `fopen` are left out.

### FrameBufferOps, FrameBuffer

A buffer is a record: `frames` (a function on ids), `continuous` (the ids flagged
so), `next` and `info` (the cached next and last units), `decoded` (the window of
`DecodedFramesHistory`, external), `lastDecoded`, and the counters. Every loop of
`frame_buffer.cc` is an operator: `FindNextAndLast`, `PropagateContinuity` (the
frames that support themselves from the inserted one upwards), `InsertFrame`,
`ExtractNext`, `DropNext`. Frame ids are natural numbers; `-1` (`None`) is an empty
optional. `Trial` is the field trial `WebRTC-LegacyFrameIdJumpBehavior`; `""` is its
default, which is *enabled*.

### BufferController, VideoReceiveStream

The worker thread runs one handler at a time; the decode queue runs what is posted
to it in order. A handler is one action, with everything it calls:
`OnCompleteFrame`, `Fire` (the scheduler's task), `Timeout`, `OnDecodeResult`,
`GenerateKeyFrame`, `Start`, and `Stop` up to the point where it waits; then
`DecodeFrame` and `DecodeStartStop` on the decode queue, the second of which lets
`Stop` return. While `stopping`, the worker runs nothing. The clock is abstracted:
a scheduled release and a running timeout may come at any time, and a comparison
with the clock may go either way (`MayDrop` for `OnFrameBufferUpdated`, which may
pass over any unit that is not the last decodable one; `RequestDue` for the
throttling of keyframe requests). The decoder answers ok, ok with a wish for a
keyframe, or an error. Members whose initial value stands in a header that is not
in this repository are taken as the code relies on them: `keyframe_required_` and
`decoder_stopped_` true, `frame_decoded_` false.

### PacketBuffer

A buffer is a record with the stored packets (a slot is the number modulo the
size), `missing`, `padding`, `first` and the flags. `InsertPacket` is the whole
call: admission, the collision with an occupied slot and the expansion of the ring,
emptying the ring when it cannot expand, the update of what is missing, and
`FindFrames`, which walks forward from the packet and backwards from each end of a
frame. Numbers wrap at `SeqMod`. The owner, `RtpVideoStreamReceiver2`, is not in
the repository: the model lets it clear up to the end of a frame it was given,
which is what its use of `ClearTo` amounts to. What packets are (H.264 or not, with
a generic descriptor or not, NAL unit kinds) is fixed by the stream; the packets of one timestamp
are of one codec (`OneCodec`): what the walk does where they are not is left out.
`RegularStream` says what the
properties take for granted of a sender: a frame has consecutive numbers, no more than the buffer
has slots at first; the first and the last packet are marked as such (in H.264 the first one by a
descriptor, or anything may be marked as the first); a number is given once, and all numbers
from the first to the newest span less than half of those there are, by `MaxPaddingAge`.
`MCPacketBuffer` assumes it of its streams, so TLC evaluates it.

### PacingController

`p` is the controller; `loop` is where `ProcessPackets` stands. Each pass of the
send loop is an action (`SendProbePadding`, `SendQueued`, `AddPadding`), framed by
`SendNothing` or `StartSending` and by `LeaveLoop`, `BreakCircuit`,
`FinishSending`. The owner (the task queue pacer, not in the repository) asks for
`NextSendTime` after every call, calls `ProcessPackets` at once while that time has
come, and otherwise when it comes, at most `Late` ticks late and at most the
margin for probes early; `EnqueuePacket` may come in a batch. The packet queue and
the prober are external: the queue serves by priority and then by age, with the
round robin between streams left open (`Heads`), and there is one probe cluster at a
time. The average queue time is anything from zero to the age of the oldest packet.
Time counts in ticks and sizes in units, rates are at least one unit per tick:
below that the padding of one `TargetPaddingDuration` is less than a unit.

### RtpSenderEgress

A packet is a record of its kind, stream and number. The application's frame is either posted
as a task to the worker queue (`EnqueueFrame`, `RunTask`, then one `SendOfTask` per packet
and `EndOfTask`, which fetches the FEC packets and completes the batch), or goes to the pacer
(`StartPacing`, `SendPaced`, `FetchFec`, `AddPadding`, `StopPacing`). `SendPacket` is one
step: FEC parameters that wait are taken, the packet is protected, the transport takes
or refuses it, and the history, the counters and the transport numbers follow. The history, the
sequencer, the FEC generator and the pacer's queue are not in the repository; they do what the
calls here rely on, and `Flushed` is the part of `PacingController::EnqueuePacket` that removes
packets when a keyframe arrives. Members of the pacer that pace are in `PacingController`, not here.

### VideoSendStream

`self` holds the members and, beside them, what the allocator knows (`allocator`) and the rate its
encoder was told. Names that `RtpSenderEgress` has too carry the prefix `Stream`, since one module
proves theorems about both. The encoder's threads append to `tasks`; the worker queue runs
one task, one call of the application or one activity check at a time. The check is two steps:
it reads `activity_` and acts on it (`CheckEncoderActivity`), and then resets it
(`ResetActivity`); the encoder's threads may set it between the two, which is then lost. A task
that is in the queue when the check runs is taken before the next check (`old`). The clock is abstracted to
whether `kMaxVbaThrottleTimeMs` has passed since the last allocation. `EncodingTaken` computes the
limits of an encoding in the order of the code: `CalculateMaxBitrate`, `CalculateMaxPadBitrate` with
its cases for one stream, simulcast, SVC and probing. What is throttled is sent by the
next encoded image. Bitrates are small naturals.

### Conductor

`c` holds the members; peer connections and messages carry numbers that exist for the
properties. User, server and queued callbacks (`callbacks`, FIFO) run on the main thread,
`OnIceCandidate`, `OnSuccess` and `OnFailure` on the signaling thread. A handler is one step.
`peer_connection_ = nullptr` waits for the other thread to destroy the connection, so descriptions
that are being created do not outlive it; but one that is ready in that moment is handled with
a null pointer, and the model lets the process crash there (`Crashes`), as it does where
`AddTracks` follows a failed `CreatePeerConnection`. `RTC_DCHECK` is not compiled in:
a message of a stranger during a call is ignored, as the code after the check says.
`PeerConnectionClient` is in one of four states; its messages are sent one at a time, a
`SendToPeer` may fail, after which the handler signs out (`SendFailed`), and `SignOut` ends in
`OnDisconnected`.

### RecordRun

`stage` is where the script stands; each stage is an action, and a check is one that goes
on, fails (`fail`: `run.status` says error) or exits under `set -e` (`run.status` stays).
The start of a group is two steps: the subshell of `$(...)` forks it (`forked`), and `echo $!`
makes its number the value of a `PG_` variable (`started`). `alive` are the groups that still run,
and they may die at any time. `Signal` is the trap: `cleanup` runs in its three passes
(`Terminate`, `Kill`, `ResetNetem`) and the script goes back to where it was, unless the
signal also ended the command it was in. When that was the subshell of a start, the group runs and
its number is `lost`. The replay tool applies a row by a `tc` command
that it waits for; the command is root's, so only `sudo kill` reaches it, and it takes
effect when it likes. `sudo` may lapse. Files left by an earlier run in the same directory are
`"old"`. What appears on the audio devices is left open. How the script is called
(`Options`) is fixed by the instance.

## 3. The runs

Run one with `tlc -workers 2 -config X.cfg M.tla`. "Holds" and "fails" are what TLC
reports.

| Run | Instance | Distinct states | Shows |
|---|---|---|---|
| `async_csv_log` | 2 callers, 2 rows, queue of 2, 4 offers, a statistics row each 2 | 50,469 | all properties of `AsyncCsvLog`, refinement and liveness hold |
| `csv_session` | 2 processes under one base, 2 statistics threads each, 2 rows, 1 statistics row, 2 seconds | 139,756 (processes and threads symmetric) | a log is lost only to a process in the same directory; the header is first |
| `frame_buffer` | two spatial layers, 9 frames, buffer of 4, history of 3, timestamps mod 8 | 27,644 | all properties of `FrameBuffer` and the refinement hold |
| `receive_stream` | one layer, 4 frames, buffer of 3, 5 insertions, two `Start`s, fair | 48,312 | safety and liveness of the decode cycle hold |
| `receive_stream_ksvc` | two layers, 7 frames, buffer of 5 | | `ScheduledIsNext` **fails** |
| `packet_buffer` | 4 kinds of stream with 6 packets and padding, ring of 2 to 4, numbers mod 32, padding age of 5 | 26,356 | all properties of `PacketBuffer` hold |
| `pacing_controller` | 3 configurations, 2 rates, 4 kinds of packet, 5 calls, 6 ticks | 4,891,809 | all properties of `PacingController` hold |
| `rtp_sender_egress` | 4 set-ups (pacer or not, batches, RTX, FEC, a counters callback), 3 media packets, 2 NACKs, 1 FEC and 1 padding packet, 2 changes of FEC parameters, history of 2, numbers mod 8 | 3,401,787 | all properties of `RtpSenderEgress` hold |
| `rtp_sender_egress_flush` | the same with keyframe flushing | | `RequestableAgain` **fails** |
| `video_send_stream` | 2 configurations (one without an active layer), 2 encodings, 2 similar allocations, rates 0 and 20, 2 posted tasks, fair | 349,800 | all properties of `VideoSendStream` hold |
| `conductor` | 2 peers, 3 peer connections, 4 messages, 3 callbacks queued, fair | 579,319 | all properties of `Conductor` hold |
| `record_run` | 3 ways to call the script, a trace of one row, one signal, fair | 479,988 | all properties of `RecordRun` hold |

### What the properties say

* `AsyncCsvLog`: `ImplementsRowLog` (rows reach the disk in order, once, and what is
  on disk is an initial part of what was accepted, also when the process ends);
  `CountersMatchRows` (the rows offered were enqueued or dropped, and what was enqueued is in
  the file or on its way); `WakeupPending` (no wakeup is lost although `notify_one` runs
  without the mutex); `DestroyedImpliesDrained`; `QueuedRowsReachDisk` and
  `DestructorReturns` (liveness).
* `CsvSession`: `LostOnlyByCollision` (a log keeps its header and rows unless another process
  named the same directory, in the same second, and opened its log there), `StatsStartWithHeader`.
* `FrameBuffer`: `NextUnitFresh` (the cached next unit is what a fresh scan finds),
  `DecodableUnitsFound` (no arrival order hides a decodable unit from the scan),
  `FramesAccounted`, `ImplementsDecodableStream`.
* `VideoReceiveStream`: `DecoderInputDecodable` (while every start found the cycle at rest and
  a keyframe required, `keyed`), `ScheduledIsNext` (the `RTC_DCHECK_EQ` of `FrameReadyForDecode`,
  while every start found the cycle at rest, `rested`), `DecodableIsScheduled`, `TimeoutArmed`, and
  the liveness property `UnitsLeave`.
* `PacketBuffer`: `WholeFrames` (what is handed out has one packet for each of its numbers and one
  timestamp, `SlotsHoldFrame`, and is what was sent where the start of frames is marked),
  `CompleteFrameLeaves` (a frame leaves with whichever of its packets comes last),
  `DeltaWaitsForGaps` (an H.264 delta frame is handed out only if nothing tracked is missing
  before it).
* `PacingController`: `PacedBound` (a leaky bucket, filled independently of the controller's
  debt, of what was sent because of its pace: `Paced` leaves out audio, retransmissions
  that go out at once, and what a probe sends, what is sent in place of one that timed out, or
  because one has just begun; `Slack` is what may be sent for afterwards, because the owner was
  late or padding is replayed), `NeverSilent`, `BreakerForBacklogs`, `NoSpin`.
* `RtpSenderEgress`: `InOrder` (the numbers of a stream leave without gaps or
  repetition), `RequestableAgain` (no packet stays pending in the history without a
  retransmission on its way), `CountersMatchWire`, `FecUsesLatest`.
* `VideoSendStream`: `ObservedWhileRunning` (the allocator observes a stream only while it runs,
  and always then while its encoder has not timed out, also when tasks from before a stop run
  after it),
  `AllocatorUpToDate`, `NewestAllocation` (throttling never brings an older allocation back),
  and the liveness properties `EncoderComesBack` (an encoder that has timed out is observed
  again once it has posted a frame, or has set `activity_` outside of a check) and
  `ThrottledIsSent`.
* `Conductor`: `PeerOfCall` (what the code asserts of `peer_id_` and `peer_connection_`, and
  that the window shows a call), `SentInOrder`, `PendingIsDriven` (no message of the call
  waits with nobody to send it), `PeerGoneEndsCall` (liveness).
* `RecordRun`: `NothingLeft` (however the script ends, no process is left but a group whose
  number a signal lost, and, unless that is the replay tool, no rule and no command that will
  set one), `OkMeansArtifacts` (ok in a fresh directory means the files
  of this run are there and hold sound), `ScriptEnds` (liveness).

### Bounds, and why they are enough

* `AsyncCsvLog`: two callers race for the last place of the queue; four offers
  fill a queue of two while a batch of two is with the writer, so that a row is
  dropped, the deques are swapped twice and two statistics rows appear before the
  destructor's.
* `CsvSession`: two processes under one base; two seconds are the least in which they can
  start together, and collide, or apart. With two threads per process every order of `stat`,
  header and row of two writers occurs, in one process and in two. Two rows are a loss that a
  process notices by its offset, or not; one statistics row a thread (`MaxStats`) reaches every
  case, since only the first one may find no file.
* `FrameBuffer`: the buffer of 4 is smaller than two units and a keyframe, so it
  overflows; the history of 3 forgets within the stream; timestamps wrap in the
  middle of it; every frame may be lost, late or repeated. `MaxAccepted` bounds the
  ghost counters; 8 is enough for a full buffer to be filled, emptied and
  filled again.
* `VideoReceiveStream`: 5 accepted frames of 4 (a frame may be inserted again after
  a buffer is cleared) reach every branch, a failed decode followed by a
  keyframe included; two starts let results outlive a `Stop`, and the second one finds the cycle
  at rest, with or without a keyframe required, or not.
* `PacketBuffer`: the ring expands from 2 to 4 and overflows; the stream starts at
  30 of 32 numbers and wraps in its first frame; the padding age of 5 is less than the stream is long,
  so that gaps are forgotten by age; frames have one and two packets;
  every order, loss and repetition is possible without a bound, because the state
  is finite.
* `PacingController`: five calls of the application and six ticks hold a burst
  behind a large debt, two keep-alive intervals of three ticks, a probe of three
  units, a pause and a congestion with packets queued, in each configuration. The debt is
  limited to what is drained in 3 ticks and so is the time that counts as elapsed (0.5 s and 2 s in
  the code): a full debt at the higher rate then takes 6 ticks at the lower one, so that a fall of
  the rate leaves a debt which is not drained in the time that counts, as a fall to less than
  a quarter does in the code. TLC evaluates `BurstsFit`, `DebtIsRecent` and `RatesPositive`.
  `Late` is 1, the least that distinguishes a late call; `PacedBound` is tight here: one
  unit less fails. One configuration has a circuit breaker of 2, to reach its exit
  (the code's is 65536); `BreakerForBacklogs` leaves that one out.

* `RtpSenderEgress`: three media packets and a history of two make the oldest leave, unless its
  retransmission is pending; two NACKs ask twice for one packet, or for the one that was pushed
  out; FEC and padding take numbers between media; parameters may be set twice before a
  packet is protected, or once between two. The transport may refuse any packet. The four set-ups
  take each branch of the statistics and of the non-paced sender.
* `VideoSendStream`: with two posted tasks, one of them survives a `Stop`, a time-out or a new
  configuration and meets a newer one. The allocations 20 and 21 are within the 10 % that throttle
  in one direction and not in the other. The rate 0 pauses the encoder. The encodings take the
  limits of the layers, the global limit, and padding for two streams or by minimum. Nothing but
  `tasks` needs a bound.
* `Conductor`: three peer connections are a call, its replacement by a loopback call, and
  the next call, in which callbacks and messages of the first may still be queued; four messages
  and three callbacks let a message wait, overtake and be left over.
* `RecordRun`: one row and its reset are two commands, so that one can be in flight in
  every pass of `cleanup`; one signal lets `cleanup` run twice in a run. The three calls are
  a recording, a replay into a directory used before, and both together with a foreign server
  on the port.

Deadlock is not checked where a behaviour may end: the log was destroyed, the
bound on rows, frames or time was reached, or the stream was stopped for good. `PacketBuffer`
never ends, and there it is checked.

### Fairness

* `AsyncCsvLog`: weak fairness of each caller between unlock and `notify_one`, of the
  writer's steps other than a spurious wakeup, and of a destructor that has begun.
  The operating system schedules runnable threads, and fair locks are not needed,
  since a critical section is one step that is never disabled by another for ever.
  Nobody has to log, and nobody has to destroy the log.
* `VideoReceiveStream`: weak fairness of the decode queue, of the results posted back
  to the worker thread, of a scheduled release and of a running timeout: task
  queues run what is posted to them and timers fire. The network owes nothing, nor does
  whoever starts and stops the stream.

* `VideoSendStream`: weak fairness of the tasks of the worker queue, of the activity check and
  of the throttling time: the queue runs what is posted, a repeating task repeats and time
  passes. The encoder and the application owe nothing.
* `Conductor`: weak fairness of the callbacks on the main thread, whose loop takes what
  is queued. The user, the server and the peer connection owe nothing.
* `RecordRun`: weak fairness of the script and its cleanup, whose commands return; its
  background processes owe nothing, and `wait_count` and the deadline end its waits.

The other modules have no liveness property and no fairness.

### Findings

Each is a run that TLC finds violated; `PROJECT.json` "findings" quotes the line that
says otherwise.

1. `receive_stream_ksvc`: the controller schedules only when the number of
   continuous units grew; a late lower layer can join the scheduled unit and make it
   undecodable without that, and the assertion in `FrameReadyForDecode` fails.
2. `rtp_sender_egress_flush`: with keyframe flushing (a field trial of the pacer),
   `EnqueuePacket` removes the packets of a stream that wait when a keyframe of it arrives,
   retransmissions included, and does not call `OnAbortedRetransmissions`; they stay pending in
   the history, and later requests for them are ignored.

Met while modelling, and checked by no run here:

* The walk backwards over an H.264 frame without a descriptor (`packet_buffer.cc:389`) compares
  the timestamps of slots and not their numbers. When a frame has more packets than the ring has slots and
  some are lost, a packet of the same frame one lap earlier is taken for its neighbour: the assertion
  `RTC_DCHECK_EQ(j, packet->seq_num())` fails, and a keyframe with a hole is handed out as a whole one.
  TLC finds `SlotsHoldFrame` violated for a stream with a keyframe of four packets and a ring of two slots. The
  ring grows only when a slot is taken, which loss can prevent; with the usual 512 slots it
  takes a keyframe of more than 512 packets. `RegularFrame` leaves such frames out, and the comment
  above the walk
  grants incomplete frames.
* `csv_log.h` says that each process run gets its own subdirectory "so logs are never
  overwritten"; the directory is named by the second and logs are opened with `"w"`, so two
  processes with one base directory that start in the same second truncate each other's
  logs. It happens in `csv_session`, and `LostOnlyByCollision` says that nothing else loses a row.
  The recording script avoids it with a
  `WEBRTC_LOG_DIR` per process.
* A decode result that arrives between `Stop` and `Start` schedules a unit of the stopped
  stream; `Start` skips past it to a keyframe and leaves the schedule standing, so that
  the assertion in `FrameReadyForDecode` may fail. `ScheduledIsNext` is therefore stated while every
  start found the cycle at rest (`rested`).
* The wait for playback in `run_record_and_build_trace.sh` ends when its group is gone, whatever the
  reason, and the trap, which kills it, does not exit; the run can report ok although playback
  was cut short.
* Ctrl-C between the fork of a group and its `echo $!` (`:104-105`, `:110-111`, `:125-126`) ends the
  subshell and leaves the variable of the caller (`:183`, `:187`, `:196`, `:216`, `:221`, `:228`) empty. The
  group, which ignores the signal, is unknown to `cleanup` and stays; if it is the replay tool it
  goes on to set rules after the reset. `NothingLeft` excepts such a group, and `Signal` loses it.
* When the logs of a client have no directory, `find` fails (`:144`), and under `set -e` and `pipefail`
  the script exits at `:261` or `:262` with `run.status` still saying that it runs. `CheckLogs` may
  fail either way; an earlier step that exits leaves the same.
* The activity check of `VideoSendStreamImpl` reads `activity_` (`:754`) and resets it (`:764`); what the
  encoder's threads set in between (`:975`, `:1018`) is lost. A frame posts a task that makes up for
  it; a dropped frame posts none, so an encoder that is active with that one frame only is
  taken for one that has produced nothing.
* `Stop` of `VideoSendStreamImpl` leaves `encoder_target_rate_`: allocations posted before it are
  still sent, although the comment says "only if encoder is not paused". An encoder that
  times out while it has no rate stays registered, and a new configuration registers one that has
  timed out.
* When `CreatePeerConnection` fails, `InitializePeerConnection` goes on to `AddTracks`, which uses the null
  `peer_connection_`; the messages of its callers for that case are never shown.
* `Conductor` does not clear `pending_messages_` or the queued callbacks when a call ends: a
  message left over goes to the peer of the next call, a queued `PEER_CONNECTION_CLOSED` ends the
  next call, and a message that cannot be sent leaves those behind it waiting until
  the next message.
* After a restart, a stale result makes the controller ready although the frame `Start`
  released is still in flight, and `Start` does not set `keyframe_required_`:
  `DecoderInputDecodable` is stated while every start found the cycle at rest and
  `keyframe_required_` set (`keyed`).
* `GetNumberOfBufferedContinuousTemporalUnits` counts units whose reference
  `DropNextDecodableTemporalUnit` has dropped; nothing of the model reads it. A buffered keyframe
  delivered again to a full `FrameBuffer` empties it before the test for duplicates.
* A replay uses the same run directory each time: a recording or logs of an earlier run
  pass the checks of `run_record_and_build_trace.sh` when this one made none. A trace that
  is over within 0.2 s counts as a failed replay.
* Padding that is forgotten by age in `PacketBuffer` can leave a complete H.264 delta frame
  waiting until a keyframe comes; `CompleteFrameLeaves` is about frames with marks.
* A delta frame that follows a keyframe in one call may be handed out although
  packets between the keyframe and it are missing in the streams without marks.
* In `PacingController`, a pause with packets queued keeps the paused time as budget
  (`Resume` does not settle the time as `SetCongested` does): `LevelAfterTick` lets the
  bucket drain in that time, so that `PacedBound` states what the code guarantees. So it
  does in three more cases that came up with the proof. After a rise of the rate all the time since
  `last_process_time_` counts at the new rate (`SetPacerConfig` settles none either), and
  a new bucket begins with it (`LevelAfterRates`). Debt above the limit that a lower rate sets
  is forgotten by the next packet sent, a keep-alive for example, as `UpdateBudgetWithSentData`
  limits what it adds to. FEC or padding enqueued by the send loop may start a
  probe cluster that waits for a large enough packet: `NextSendTime` is then now, and the loop sends
  the queue as if each packet were due; the same packets go out while a probe is late, in place of it.
  None of them contradicts a comment of the code, so none is a finding.
  A trip of the circuit breaker in the middle of a probe repeats the probe. An owner that
  called again at once, rather than at `NextSendTime`, inside the early margin of a
  probe would spin while paused; the owner of the model does not.
* The `Clear` of `VideoStreamBufferController` is called by nothing here. It would
  leave `frames_dropped_before_last_new_frame_` behind.

## 4. The proofs

`AsyncCsvLogProofs` proves, for every set of rows and callers and every queue size,
statistics interval and bound:

| Theorem | Statement |
|---|---|
| `TypeCorrect` | `Spec => []TypeOK`, with the queue within its bound |
| `CountersCorrect` | `Spec => []CountersMatchRows`, of the rows enqueued and of those dropped |
| `WakeupNeverLost` | `Spec => []WakeupPending` |
| `DestructorDrains` | `Spec => []DestroyedImpliesDrained` |
| `StatsNeverGoBack` | `Spec => []StatsMonotone` |
| `Refinement` | `Spec => ImplementsRowLog` |

*Assumption.* `LogAssumption`: the queue size and the bound on offers are naturals, the
interval is a positive one. TLC evaluates it in `async_csv_log`.

*The inductive invariant.* `TypeOK` is not inductive: `Swap` leaves the writer's deque in
`queue_`, so `Len(queue) <= MaxQueueRows` needs to know that the deque is empty
whenever the writer holds the mutex. `PlacesInv` says so, and says where rows can be in each
phase of the writer and the destructor: after the loop nothing is queued, after the
last `fflush` nothing is in the `FILE`, a log without a file has no thread and no
rows, and the destructor passes `join` only when the thread is done. `IInv` is the two
together; `InitIInv` and `NextIInv` (by one lemma per thread, one step per action) show it
inductive.

*Rows.* `StepRows` says what each step does to `disk \o stdio \o local \o queue`: it
keeps it, or appends one row and counts it. `CountersCorrect` and `Refinement` follow; the
step that takes the reasoning is `Fputs`, where a row moves between three sequences (lemmas
`HeadThenTail`, `AppendAtEnd`).

*Statistics.* `StatsMonotone` is not inductive either: `StatsBounded` adds that
every row so far is below what the next row will report, `lastStats` and the
present counters, and is proved together with it and with `lastStats <= enqueued`.

*Wakeups.* `WakeupPending` is inductive relative to `IInv`: the writer sleeps only
after testing the predicate under the mutex, and every change of the predicate is followed by
a pending notification of the thread that made it.

`RecordingProofs` holds the theorems of the two modules that say what a recording leaves. It
extends both, so the parts of the script's specification carry the prefix `Run`.
Of `RecordRun` it proves, for every trace, every set of calls and every number of signals:

| Theorem | Statement |
|---|---|
| `RunTypeCorrect` | `RunSpec => []RunTypeOK` |
| `NothingIsLeft` | `RunSpec => []NothingLeft` |
| `OkIsOk` | `RunSpec => []OkMeansArtifacts` |

*Assumption.* `RecordAssumption`: calls are records of options, the trace has a row.

*The inductive invariant.* `NothingLeft` speaks of the end only. `CleanupInv` adds why it
holds there: `cleanup` kills the groups whose numbers were kept, so nothing else may be alive but
the group that is being started and one whose number was lost
(`alive \ {forked} \subseteq started \cup lost`), and a command in flight implies that the group
`"trace"` was started; after the second pass nothing that was kept is alive, and nothing
can start again. It also carries
`row <= Rows + 1` while a command runs, without which `TypeOK` is not inductive.
`ArtifactsInv` says what each check has seen, and that nothing undoes it.

Of `CsvSession` it proves, for every set of processes, threads and directories, every
number of seconds and of rows:

| Theorem | Statement |
|---|---|
| `LogsAreKept` | `Spec => []LostOnlyByCollision` |
| `OwnBaseKeepsLogs` | if bases are pairwise different, every log that was opened is always intact (`LogIntact`) |
| `HeaderIsFirst` | `Spec => []StatsStartWithHeader` |
| `TypeCorrect` | `Spec => []TypeOK` |

*Assumption.* `SessionAssumption`; different bases only for `OwnBaseKeepsLogs`, where they are
what the recording script does. `LogsAreKept` needs nothing of the bases: it says that the
collision of two session directories (section 3) is the only way to lose a row.

*The inductive invariant.* `IInv` is `TypeOK` in parts, with two facts it needs: a thread inside
`AppendCsvLog` has a row left to write, and who has a file has a session. For
`StatsStartWithHeader`, `HeaderInv` is added: a thread that will not write the header has found,
or written, a line already, and files do not shrink. Without it, `AppendRow` could be the
first write.

`FrameBufferProofs` proves, for every stream of frames, every `max_size_`, history window and
timestamp range and both settings of the field trial:

| Theorem | Statement |
|---|---|
| `CacheIsFresh` | `Spec => []NextUnitFresh` |
| `NoUnitHidden` | `Spec => []DecodableUnitsFound` |
| `FramesAreAccounted` | `Spec => []FramesAccounted` |
| `Implements` | `Spec => ImplementsDecodableStream` |
| `TypeCorrect` | `Spec => []TypeOK` |

*Assumption.* `BufferAssumption` and `StreamAssumption`: frames have natural ids and timestamps
below `TsMod`, in no order and with any references.

*The inductive invariant.* `IInv` is `BufferOK(buf)` with what the ghosts say of it. `Complete` is the heart:
no set of frames that are not continuous supports itself, so that `PropagateContinuity`, which
walks up from the new frame only, misses nothing (`PropagateOK`): a set that the new frame
makes self-supporting contains it, or was so before, and frames below it cannot refer to it.
`Reached` says that `last_continuous_temporal_unit_frame_id_` bounds what is continuous, and `Fresh`
that the cached next unit is what a scan finds; `NoUnitHidden` follows from the three, since a decodable unit
supports itself. For the refinement `OutputInv` relates the history to what was extracted:
the buffer holds only newer frames. `FramesAccounted` is inductive with them; the case
that takes work is an extraction that overtakes older frames (`ErasedCounts`). The section on
the layers of a unit (`InsertStreamOK`, `QuietInsert`) is what the proofs of the decode
cycle need.

`SendingProofs` holds the theorems of the two modules of the sender. Of `RtpSenderEgress`
it proves, for every set of configurations and media packets, every
range of sequence numbers and history size, and any number of NACKs, paddings, FEC
packets and parameters:

| Theorem | Statement |
|---|---|
| `NumbersInOrder` | `Spec => []InOrder` |
| `CountersAreTheWire` | `Spec => []CountersMatchWire` |
| `ProtectionIsLatest` | `Spec => FecUsesLatest` (an action property) |
| `NothingStaysPending` | `Spec => [](~conf.flush => RequestableAgain)` |

*Assumption.* `EgressAssumption`; batching needs a pacer, as in the code.

*The inductive invariant.* `NumbersInv` says that the number a stream takes next follows what
`SendPacket` checked last; `WireInv` relates that to the wire: `Chained` runs the numbers
of the packets in the open batch from the last one the transport saw to the last one checked, so that
flushing a batch closes the gap exactly. `TurnInv` says when a batch can be open.
`NothingStaysPending` holds for a stream whose pacer is not flushed by keyframes, and the
hypothesis is the finding of `rtp_sender_egress_flush`: everything else that drops a packet from the queue
tells the history. Its proof follows each packet through the queue, the batch and the history
(`StillRequestable`); `AtIs` says what a selection of places of a sequence holds,
which culling and flushing are built from.

Of `VideoSendStream` it proves, for every set of configurations, encodings, allocations
and rates and both padding trials:

| Theorem | Statement |
|---|---|
| `ObservedAsItRuns` | `StreamSpec => []ObservedWhileRunning` |
| `AllocatorIsUpToDate` | `StreamSpec => []AllocatorUpToDate` |
| `NewestIsKept` | `StreamSpec => []NewestAllocation` |

*Assumption.* `SendStreamAssumption`: rates are naturals.

*The inductive invariant.* The three are inductive relative to `StreamIInv`, which has the members and
the tasks with their types and says that what waits is an allocation the encoder made. The proofs go
by lemmas on the methods (what `CheckEncoderActivity`, `Start`, `Stop` and an update
of the allocation do to the members), so that a task posted before `Stop` and run after it is
no special case.

`ConductorProofs` proves, for every set of peers and any number of calls, messages and
callbacks:

| Theorem | Statement |
|---|---|
| `PeerAndCallTogether` | `Spec => []PeerOfCall` |
| `MessagesInOrder` | `Spec => []SentInOrder` |
| `NoMessageIsStuck` | `Spec => []PendingIsDriven` |

*Assumption.* `ConductorAssumption`: peers are naturals, so that -1 and 0 mean none.

*The inductive invariant.* `CallInv` says that the call that is on is the last one that was
made, and that what the window shows implies the connection: without it a call could start
while the client is out. `MessagesInv` bounds the numbers of messages and calls so far, which makes a new
message the newest. `SentInOrder` and `PendingIsDriven` are inductive relative to them; what
takes the reasoning is `SEND_MESSAGE_TO_PEER`, which puts a message at the end of
`pending_messages_` and sends the first.

`VideoReceiveStreamProofs` proves, for every stream of frames, every `max_size_`, history window
and field trial, and any number of insertions and starts:

| Theorem | Statement |
|---|---|
| `TypeCorrect` | `Spec => []TypeOK` |
| `TimeoutIsArmed` | `Spec => []TimeoutArmed` |
| `DecodableUnitsScheduled` | if a unit's last frame needs what others refer to, `Spec => []DecodableIsScheduled` |
| `ScheduledUnitIsNext` | if a unit's last frame needs all others, `Spec => []ScheduledIsNext` |
| `DecoderGetsDecodable` | if no frame refers past a keyframe, `Spec => []DecoderInputDecodable` |

*Assumptions.* `BufferAssumption` and `StreamAssumption` for all five. The last three are not true of
every set of frames, and the code does not test what they need, so each names what it asks of the
sender: `Regular` (ids differ, the frames of a timestamp are adjacent, the frame marked last is the
last), and how the spatial layers of a unit depend on each other. `TopNeedsAll` holds for
streams of one layer and for full SVC; `TopNeedsReferenced` holds for K-SVC too; `KeyframesCut` is
what a keyframe is for. The streams of `receive_stream` meet all of them;
`receive_stream_ksvc` meets all but `TopNeedsAll`, and shows that `ScheduledIsNext` then fails.
`TopNeedsReferenced` is needed as well: take a unit of three layers where the middle one
needs the lowest and the top one needs nothing of the unit, and let them arrive in the order
middle, top, lowest. The top makes the unit count as continuous while the middle layer keeps it from being
decodable; the lowest makes it decodable, but no further unit continuous, so that
nothing is scheduled and the unit waits for the next one or the timeout.

*The inductive invariant.* `IInv` has three parts. `Cycle` is the turn: the decoder waits, or has one
frame in its queue, or has one result on its way, and only a decoder that waits and needs no
keyframe has a release scheduled; it also says that either a keyframe is required and nothing
was given to the decoder since, or what the buffer's history calls decoded was given to it or is older than a
keyframe that was. The first part holds while every start found the cycle at rest (`rested`), the
second while they
also found a keyframe required (`keyed`), as the properties do: the first start always does, and a
later one may find a result of the one before on its way. `Settled` is what the controller leaves
behind a call, and holds for any number of starts:
where the decoder waits the timer runs and the next unit is scheduled. `StreamOK` is the buffer's
invariant, with
what the layers lemmas of `FrameBufferProofs` need. The argument goes by the outcomes of a call
of the controller (`Outcome`: a schedule, or the release of a keyframe), so that `StartNextDecode`
is treated once for `Start`, a result and a timeout; `SkippingOK` and `DroppingOK` follow the
two loops over the buffer, by their least counterexample. The step that takes the reasoning
is an insertion that makes no unit continuous and so schedules nothing (`QuietInsert`).
`FrameBufferProofs` is used through `INSTANCE`, on the buffer inside the controller; the
lemmas `Same...` say that its operators are those of the stream.

`PacketBufferProofs` proves, for every set of regular streams, every size of the ring and range of
numbers (powers of two) and every padding age:

| Theorem | Statement |
|---|---|
| `FramesAreWhole` | if `RegularStreams`, `Spec => []WholeFrames` |
| `CompleteFramesLeave` | if `RegularStreams`, `Spec => []CompleteFrameLeaves` |
| `DeltasWait` | if `RegularStreams`, `Spec => DeltaWaitsForGaps` (an action property) |
| `TypeCorrect` | if `RegularStreams`, `Spec => []TypeOK` |

*Assumptions.* `PacketBufferAssumption` (sizes are powers of two up to 65536, as the constructor
asserts) and `RegularStreams`; `OneCodec` stands for a case the model leaves out. The second is how
senders number and mark frames, with three
restrictions. A frame longer than the ring breaks the first theorem (section 3). Numbers given
twice, or a stream that spans half of them, make `AheadOf` say nothing about what was sent
first: with 16 bits that leaves some 32,000 packets, and the theorems are about stretches of a
call that are no longer. Where in the range a stretch begins is left open, so it may wrap.
Marked and unmarked frames in one stream are excluded for the second theorem, since an H.264
delta frame that waits would block a marked one.

*Positions.* The proofs replace numbers by positions: `Pos` is how far a number lies after the
base of its stream. Positions do not wrap; `AheadOf`, `Back` and `Succ` are comparison,
subtraction and addition there, and two positions less than the size of the ring apart are in
different slots (`SlotsDiffer`). From there on a frame is an interval of positions (`FrameAt`),
and what is found behind its last packet is read off (`EndsAt`), separately for H.264 without a
descriptor, with one, and for frames with marks.

*The walk.* `FindFrames` is a function by recursion on the rounds of its loop. `RecursionExists`
shows that it exists, by least counterexample (`InductionUpTo`, `LeastExists`), and `IsWalk`
gives its rounds, each of which is one of six cases (`StepCases`). Invariants of the loop are
then carried from round to round: `GoodWalk` for the buffer and the frames found, `PendingAfter`
for what is still to be marked, `TrackedWalk` for what was missing.

*The inductive invariants.* `IInv` has the slots: no two packets share one, and what is marked
as continuous hangs together with the first packet of its frame (`SlotsOK`), so that a marked
last packet has its whole frame behind it. It also says that nothing stored is older than
`first_seq_num_` (`FromFirst`). That is what `ClearTo` needs, as it visits the slots from there
on. For `CompleteFrameLeaves`, `MarkedInv` is added: every stored packet that continues a frame
is marked and no marked one ends a frame. An insertion starts the walk at the new packet, so it
has to be shown that only packets right behind it can have become ready (`PendingAfter`), and
that the loop has rounds enough for them: a frame is no longer than the ring. For
`DeltaWaitsForGaps`, `TrackInv` says that each number of the stream between the first insertion
and the newest is seen, too old, forgiven by a keyframe or `ClearTo`, or in `missing_packets_`.
`NewestIs` says that the newest of the forgiven numbers is so by position, and `FramesApart`
that frames of one walk do not overlap.

`PacingControllerProofs` proves, for every set of configurations, rates, packets and sizes of
padding, every interval, limit and lateness of the owner:

| Theorem | Statement |
|---|---|
| `TypeCorrect` | `Spec => []TypeOK` |
| `KeepalivesInTime` | `Spec => []NeverSilent` |
| `KeepsPace` | if `BurstsFit`, `DebtIsRecent` and `RatesPositive`, `Spec => []PacedBound` |

*Assumptions.* `PacingAssumption` and `ProbesAreFrequent`, which TLC evaluates in
`pacing_controller`, and for the last theorem three facts about numbers that `MCPacingController`
assumes as well. `BurstsFit`: the limit of the debt leaves room for a burst and one packet.
`DebtIsRecent`: a debt at its limit is drained within the time that ever counts as elapsed; in the
code these are 0.5 s and 2 s (`pacing_controller.cc:45-46`). `RatesPositive`: the pacing rate that is
set is not zero, which `EnqueuePacket` asserts (`:195`); at a rate of zero a packet that waits
would still go out every 500 ms. How far apart two rates are does not matter: a rate may fall to
any other while the debt is full.

*Keep-alives.* `NeverSilent` is about a controller at rest; the inductive invariant `ControlInv`
adds `SentNow` (what the loop sent, it sent now, so a loop that sent anything restarts the
interval), and `WakesInTime` (the owner's next call is not after the next keep-alive). `ProbesAreFrequent` is
needed because a controller with a probe cluster wakes for the next probe instead.

*Pace.* `PacedBound` is not inductive: after a burst the bucket is full, and that nothing more
goes out depends on the debt. `Room` is what may still be in the bucket with a given debt when
the controller last counted time at `lastProcess`: the debt, plus what was sent for time not
counted yet, with `Slack`. `PaceInv` says that the bucket never holds more than there is room for
while packets wait (`Held`), is empty or so when none do (`Budgeted`), and that before the loop a
waiting packet will find room when its time comes (`Promised`, by `Fits` at the time of the next probe if that
comes first). It needs that the owner is in time for what waits (`WakesForPackets`) and that a pass that
sends because its time has come finds less debt than a burst (`DueForPass`). After a fall of the
rate that is not so: the debt may be more than the new rate drains in the time that counts, and a
pass that was due then finds some of it left. But the packet has waited for all of it, longer than the
debt at its limit takes, so that there is room even were nothing owed (`Spare`, by `DueRoom`). The lemmas
`Room...` say that draining the debt and counting time leave the room as it is, and that a packet
adds as much room as it takes, up to the limit; one lemma per action (`...Paced`) uses them. The products of
rates and times are beyond the solvers where they meet case distinctions, so the lemmas
`Products` and `Quotients` state once what is needed of them. With `drainLargeQueues` the
bound is not meant to hold; `NextConf` says that a configuration never changes.

*Recursion.* The bytes in the queue and the packets a removal keeps are recursive functions.
`RecursionExists` shows that a function defined by recursion on sequences' lengths exists,
by least counterexample (`LeastExists`), since the library's theorems on recursion take operators; `SizeIs` and
`KeptIs` then unfold the two functions, for every queue: the bytes are a natural, and what is kept
are packets.

Only model-checked:

* liveness (`QueuedRowsReachDisk`, `DestructorReturns`, `UnitsLeave`, `EncoderComesBack`,
  `ThrottledIsSent`, `PeerGoneEndsCall`, `ScriptEnds`), which the prover cannot do;
* `BreakerForBacklogs` and `NoSpin` of `PacingController`. They are about numbers of one
  instance: how many passes the packets, the FEC and the padding of one call can take, compared
  with the breaker's limit, and how often the owner calls in vain before time goes on.

No module uses `RECURSIVE`.

## 5. Not modelled

* Wording and columns of the CSV rows, `fputs`, `mkdir` and `fopen` failures after the log
  file was opened.
* Timing estimates, jitter, render times and statistics of the receive path; payloads,
  sizes and parsing of packets.
* Recording of encoded frames, playout delays and the corruption score of
  `VideoReceiveStream2`.
* The setters of `PacingController` that only change a constant of the model;
  accounting of audio and of transport overhead.
* Of `RtpSenderEgress`: the map from sequence numbers to frames, send rates, the timestamp
  offset and setters of one value. Of `VideoSendStreamImpl`: key frame requests, layers
  allocations, statistics, what is only forwarded. Of `Conductor`: video tracks and renderers,
  the contents of messages.
* The type invariants of `CsvSession`, `FrameBuffer`, `VideoReceiveStream`, `PacketBuffer` and
  `PacingController` are in no run: they are proved, and the runs list the properties that say
  more.
* `NetEqImpl` and `GoogCC`: what they decide is computed by parts that are not in the repository.
* The components marked *planned* in section 1, and the ones without state.

## 6. The plan

Done, in this order, the most important behaviour first: the log that every
measurement of the project rests on, its sessions, the frame buffer, the decode cycle
around it, the packet buffer in front of it, the pacer on the other side, the recording
script, the egress behind the pacer, the send stream in front of it, the example client.

Next modules: `VideoQualityObserver` (freeze time and playback time together are the time the
stream was active), `CollectRun` (the bundle a trace is built from is of the session it says), the
operation sequence of `NetEqImpl::GetAudio`, and in `GoogCC` which estimator decides.

Next proofs:

1. `PacingController`: `NoSpin`, by a measure of what an early call may still do.

Next abstract specifications: a paced sender that `PacingController` implements, a
frame assembler that `PacketBuffer` implements.
