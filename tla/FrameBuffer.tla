------------------------------ MODULE FrameBuffer ------------------------------
(***************************************************************************)
(* webrtc::FrameBuffer as a state machine: the network delivers frames of  *)
(* a stream in any order, some never and some more than once, and the      *)
(* owner extracts or drops the next decodable temporal unit at any time.   *)
(***************************************************************************)
EXTENDS FrameBufferOps

CONSTANTS Stream,      \* the frames the sender produces
          MaxAccepted  \* bound: frames accepted in a behaviour

ASSUME StreamAssumption ==
    /\ Stream \subseteq Frame
    /\ MaxAccepted \in Nat

VARIABLES
    buf,       \* the FrameBuffer
    output,    \* ghost: the frames extracted since the buffer was last cleared
    accepted,  \* ghost: InsertFrame calls that returned true
    cleared,   \* ghost: frames that Clear() threw away
    extracted  \* ghost: frames handed out

vars == <<buf, output, accepted, cleared, extracted>>

Init ==
    /\ buf = EmptyBuffer
    /\ output = {}
    /\ accepted = 0 /\ cleared = 0 /\ extracted = 0

\* Clear() ran inside InsertFrame.
Clears(f) ==
    /\ ValidReferences(f) /\ (DecodedPast(buf, f) => IdJump(buf, f))
    /\ DecodedPast(buf, f) \/ (Full(buf) /\ IsKeyframe(f))

Insert(f) ==
    /\ accepted < MaxAccepted
    /\ buf' = InsertFrame(buf, f)
    /\ accepted' = IF Accepts(buf, f) THEN accepted + 1 ELSE accepted
    /\ cleared' = IF Clears(f) THEN cleared + Cardinality(Ids(buf)) ELSE cleared
    /\ output' = IF Clears(f) THEN {} ELSE output
    /\ UNCHANGED extracted

Extract ==
    /\ HasNext(buf)
    /\ buf' = ExtractNext(buf)
    /\ output' = output \cup {buf.frames[i] : i \in NextUnit(buf)}
    /\ extracted' = extracted + Cardinality(NextUnit(buf))
    /\ UNCHANGED <<accepted, cleared>>

Drop ==
    /\ HasNext(buf)
    /\ buf' = DropNext(buf)
    /\ UNCHANGED <<output, accepted, cleared, extracted>>

Next ==
    \/ \E f \in Stream : Insert(f)
    \/ Extract
    \/ Drop

Spec == Init /\ [][Next]_vars

-------------------------------------------------------------------------------
(* Properties *)

OptionalId == Nat \cup {None}

TypeOK ==
    /\ Ids(buf) \subseteq Nat
    /\ Cardinality(Ids(buf)) <= MaxSize
    /\ \A i \in Ids(buf) : buf.frames[i] \in Stream /\ buf.frames[i].id = i
    /\ buf.continuous \subseteq Ids(buf)
    /\ buf.lastFrame \in OptionalId /\ buf.lastUnit \in OptionalId
    /\ buf.decoded \subseteq Nat
    /\ buf.lastDecoded \in OptionalId
    /\ buf.numContinuous \in Nat /\ buf.numDropped \in Nat
    /\ output \subseteq Stream
    /\ accepted \in Nat /\ cleared \in Nat /\ extracted \in Nat

\* FrameBuffer implements DecodableStream: whatever is lost, repeated or
\* reordered, and whatever the owner drops, the decoder is handed complete
\* units, in order, whose references it has decoded since the last Clear().
Decoder == INSTANCE DecodableStream WITH StreamFrame <- Stream
ImplementsDecodableStream == Decoder!StreamSpec

\* The cached next unit and timestamps are those a fresh scan would find: no
\* call leaves a unit behind that frames_ no longer holds or hides one.
NextUnitFresh == FindNextAndLast(buf) = buf

\* Continuity is complete: a complete unit whose references are all decoded or
\* inside the unit is seen by the scan, which stops at
\* last_continuous_temporal_unit_frame_id_; no arrival order hides it.
DecodableUnitsFound ==
    \A l \in Ids(buf) : buf.frames[l].last /\ Decodable(buf, l) => l <= buf.lastUnit

\* Every frame InsertFrame accepted is buffered, handed out, counted in
\* GetTotalNumberOfDroppedFrames or thrown away by a Clear(): none is counted
\* twice or forgotten, whatever the order of extract, drop and clear.
FramesAccounted ==
    accepted = Cardinality(Ids(buf)) + extracted + buf.numDropped + cleared
===============================================================================
