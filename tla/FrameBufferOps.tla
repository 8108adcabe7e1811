---------------------------- MODULE FrameBufferOps ----------------------------
(***************************************************************************)
(* webrtc::FrameBuffer (api/video/frame_buffer.{h,cc}) as operators on a   *)
(* record b that holds the members of the class.  FrameBuffer.tla runs     *)
(* them as a state machine; BufferController.tla drives them the way       *)
(* VideoStreamBufferController does.                                       *)
(*                                                                         *)
(* A frame is a record [id, ts, refs, last]: the unwrapped frame id, the   *)
(* RTP timestamp (modulo TsMod), the sequence of ids it references and     *)
(* is_last_spatial_layer.  The payload is left out.                        *)
(***************************************************************************)
EXTENDS Integers, Sequences, FiniteSets

CONSTANTS MaxSize,   \* max_size_
          History,   \* max_decode_history, the window of DecodedFramesHistory
          TsMod,     \* RTP timestamps count modulo TsMod (2^32)
          Trial      \* field trial "WebRTC-LegacyFrameIdJumpBehavior", "" by default

ASSUME BufferAssumption ==
    /\ MaxSize \in Nat \ {0}
    /\ History \in Nat \ {0}
    /\ TsMod \in Nat \ {0}
    /\ Trial \in {"", "Enabled", "Disabled"}

\* legacy_frame_id_jump_behavior_
Legacy == Trial # "Disabled"

None == -1                                    \* an empty optional id
NoUnit == [first |-> None, last |-> None]     \* no next decodable unit
NoInfo == [next |-> None, last |-> None]      \* no DecodabilityInfo

Frame == [id : Nat, ts : 0 .. TsMod - 1, refs : Seq(Int), last : BOOLEAN]

Refs(f) == {f.refs[i] : i \in DOMAIN f.refs}

\* EncodedFrame::is_keyframe.
IsKeyframe(f) == f.refs = <<>>

\* AheadOf of two timestamps: a is newer, the distance is below half the range.
AheadOf(a, b) ==
    /\ a # b
    /\ \/ 2 * ((a - b) % TsMod) < TsMod
       \/ 2 * ((a - b) % TsMod) = TsMod /\ a > b

Greatest(S) == CHOOSE m \in S : \A n \in S : n <= m
Least(S) == CHOOSE m \in S : \A n \in S : m <= n

\* The constructor.
EmptyBuffer ==
    [frames       |-> [i \in {} |-> None],  \* frames_: id -> frame
     continuous   |-> {},                   \* the ids whose frame is continuous
     lastFrame    |-> None,                 \* last_continuous_frame_id_
     lastUnit     |-> None,                 \* last_continuous_temporal_unit_frame_id_
     next         |-> NoUnit,               \* next_decodable_temporal_unit_
     info         |-> NoInfo,               \* decodable_temporal_units_info_
     decoded      |-> {},                   \* the decoded ids in the history's window
     lastDecoded  |-> None,                 \* GetLastDecodedFrameId()
     lastDecodedTs |-> None,                \* GetLastDecodedFrameTimestamp()
     numContinuous |-> 0,                   \* num_continuous_temporal_units_
     numDropped   |-> 0]                    \* num_dropped_frames_

Ids(b) == DOMAIN b.frames

WasDecoded(b, id) == id \in b.decoded

-------------------------------------------------------------------------------
(* FindNextAndLastDecodableTemporalUnit *)

\* The buffered frames of the temporal unit that ends with frame l: the ids
\* next to l, downwards, with l's timestamp.
UnitEndingAt(b, l) ==
    {i \in Ids(b) :
        i <= l /\ \A j \in Ids(b) : i <= j /\ j <= l => b.frames[j].ts = b.frames[l].ts}

\* Wrong variant: a reference to any buffered frame will do.
DecodableIfBuffered(b, l) ==
    \A i \in UnitEndingAt(b, l) : \A r \in Refs(b.frames[i]) :
        WasDecoded(b, r) \/ r \in Ids(b)

\* Every reference is decoded or inside the unit.
Decodable(b, l) ==
    \A i \in UnitEndingAt(b, l) : \A r \in Refs(b.frames[i]) :
        WasDecoded(b, r) \/ r \in UnitEndingAt(b, l)

\* The last frames of the decodable units the scan reaches.
DecodableEnds(b) ==
    {l \in Ids(b) : l <= b.lastUnit /\ b.frames[l].last /\ Decodable(b, l)}

FindNextAndLast(b) ==
    IF DecodableEnds(b) = {}
    THEN [b EXCEPT !.next = NoUnit, !.info = NoInfo]
    ELSE LET l == Least(DecodableEnds(b)) IN
         [b EXCEPT
            !.next = [first |-> Least(UnitEndingAt(b, l)), last |-> l],
            !.info = [next |-> b.frames[l].ts,
                      last |-> b.frames[Greatest(DecodableEnds(b))].ts]]

HasNext(b) == b.next # NoUnit

-------------------------------------------------------------------------------
(* InsertFrame *)

ValidReferences(f) ==
    /\ \A r \in Refs(f) : r < f.id
    /\ \A i, j \in DOMAIN f.refs : f.refs[i] = f.refs[j] => i = j

\* The frames PropagateContinuity may mark, walking up from the new frame.
Candidates(b, from) == {i \in Ids(b) \ b.continuous : i >= from}

\* A set of candidates that IsContinuous accepts, marked in ascending order:
\* references point backwards, so a candidate's references are settled first.
SelfSupporting(b, C) ==
    \A i \in C : \A r \in Refs(b.frames[i]) :
        WasDecoded(b, r) \/ r \in b.continuous \/ r \in C

\* Wrong variant: only the inserted frame is examined.
NewlyContinuousHere(b, from) ==
    UNION {C \in SUBSET {from} : SelfSupporting(b, C)}

NewlyContinuous(b, from) ==
    UNION {C \in SUBSET Candidates(b, from) : SelfSupporting(b, C)}

PropagateContinuity(b, from) ==
    LET new == NewlyContinuous(b, from)
        ends == {i \in new : b.frames[i].last}
    IN [b EXCEPT
          !.continuous = @ \cup new,
          !.lastFrame = Greatest(new \cup {@}),
          !.lastUnit = Greatest(ends \cup {@}),
          !.numContinuous = @ + Cardinality(ends)]

\* Wrong variant: the decode history survives.
ClearKeepsHistory(b) ==
    [EmptyBuffer EXCEPT
        !.decoded = b.decoded, !.lastDecoded = b.lastDecoded,
        !.lastDecodedTs = b.lastDecodedTs,
        !.numContinuous = b.numContinuous, !.numDropped = b.numDropped]

\* The two totals survive.
Clear(b) ==
    [EmptyBuffer EXCEPT
        !.numContinuous = b.numContinuous, !.numDropped = b.numDropped]

\* The decoder is past this frame.
DecodedPast(b, f) == f.id <= b.lastDecoded

\* A keyframe that is newer than what was decoded although its id is older.
IdJump(b, f) ==
    Legacy /\ IsKeyframe(f) /\ AheadOf(f.ts, b.lastDecodedTs)

Full(b) == Cardinality(Ids(b)) = MaxSize

\* The buffer the frame goes into, once the two reasons to clear it are applied.
Cleared(b, f) ==
    LET b1 == IF DecodedPast(b, f) /\ IdJump(b, f) THEN Clear(b) ELSE b
    IN IF Full(b1) /\ IsKeyframe(f) THEN Clear(b1) ELSE b1

\* InsertFrame returns true.
Accepts(b, f) ==
    /\ ValidReferences(f)
    /\ DecodedPast(b, f) => IdJump(b, f)
    /\ ~Full(Cleared(b, f))
    /\ f.id \notin Ids(Cleared(b, f))

\* emplace: the new frame is not continuous yet.
Emplace(b, f) ==
    [b EXCEPT !.frames = [i \in DOMAIN @ \cup {f.id} |->
                             IF i = f.id THEN f ELSE @[i]]]

\* Wrong variant: the scan is skipped unless the new frame is continuous.
InsertFrameLazy(b, f) ==
    LET b1 == PropagateContinuity(Emplace(Cleared(b, f), f), f.id)
    IN IF ~Accepts(b, f) THEN b
       ELSE IF f.id \in b1.continuous THEN FindNextAndLast(b1) ELSE b1

\* A frame refused for its references, its age or a full buffer changes
\* nothing; one refused as a duplicate has already cleared what it cleared.
InsertFrame(b, f) ==
    IF Accepts(b, f)
    THEN FindNextAndLast(PropagateContinuity(Emplace(Cleared(b, f), f), f.id))
    ELSE IF ValidReferences(f) /\ (DecodedPast(b, f) => IdJump(b, f))
         THEN Cleared(b, f)
         ELSE b

-------------------------------------------------------------------------------
(* ExtractNextDecodableTemporalUnit and DropNextDecodableTemporalUnit *)

NextUnit(b) == {i \in Ids(b) : b.next.first <= i /\ i <= b.next.last}

\* What erase(begin, end_it) removes: the unit and everything older.
Erased(b) == {i \in Ids(b) : i <= b.next.last}

EraseNext(b, drops) ==
    LET kept == Ids(b) \ Erased(b)
    IN FindNextAndLast(
         [b EXCEPT !.frames = [i \in kept |-> @[i]],
                   !.continuous = @ \cap kept,
                   !.numDropped = @ + drops])

\* Wrong variant: frames overtaken by an extracted unit are not counted.
DropsOfExtractNone(b) == 0

\* The extracted frames have been moved out and do not count as dropped.
DropsOfExtract(b) == Cardinality(Erased(b) \ NextUnit(b))

DropNext(b) == IF HasNext(b) THEN EraseNext(b, Cardinality(Erased(b))) ELSE b

\* DecodedFramesHistory::InsertDecoded for each frame of the unit: only ids
\* above the newest one less the window stay known.
MarkDecoded(b) ==
    [b EXCEPT
        !.decoded = {d \in @ \cup NextUnit(b) : d > b.next.last - History},
        !.lastDecoded = b.next.last,
        !.lastDecodedTs = b.frames[b.next.last].ts]

ExtractNext(b) ==
    IF HasNext(b) THEN EraseNext(MarkDecoded(b), DropsOfExtract(b)) ELSE b
===============================================================================
