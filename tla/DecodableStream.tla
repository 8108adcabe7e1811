---------------------------- MODULE DecodableStream ----------------------------
(***************************************************************************)
(* What a frame buffer promises its decoder: "order frames received from   *)
(* the network into a decodable stream" (api/video/frame_buffer.h).  The   *)
(* decoder receives whole temporal units, in increasing frame id, and each *)
(* frame only references frames it has been given before.  A restart       *)
(* (a keyframe whose id jumped back, or one that found the buffer full)    *)
(* makes the decoder forget everything.                                    *)
(***************************************************************************)
EXTENDS Integers

CONSTANT StreamFrame      \* frames: records with id, ts, refs and last

VARIABLE output           \* the frames the decoder received since the restart

References(f) == {f.refs[i] : i \in DOMAIN f.refs}
IdsOf(F) == {f.id : f \in F}

StreamInit == output = {}

\* One temporal unit: one timestamp, complete, newer than all before it.
IsUnit(unit) ==
    /\ unit # {}
    /\ \A f, g \in unit : f.ts = g.ts /\ (f.id = g.id => f = g)
    /\ \E f \in unit : f.last /\ \A g \in unit : g.id <= f.id

Deliver(unit) ==
    /\ IsUnit(unit)
    /\ \A f \in unit, g \in output : g.id < f.id
    /\ \A f \in unit : References(f) \subseteq IdsOf(output \cup unit)
    /\ output' = output \cup unit

Restart == output' = {}

StreamNext ==
    \/ \E unit \in SUBSET StreamFrame : Deliver(unit)
    \/ Restart

StreamSpec == StreamInit /\ [][StreamNext]_output
===============================================================================
