------------------------- MODULE MCVideoReceiveStream -------------------------
EXTENDS VideoReceiveStream

F(id, ts, refs, last) == [id |-> id, ts |-> ts, refs |-> refs, last |-> last]

\* One layer: a keyframe, two frames after it, a second keyframe and a frame
\* that depends on it.
SimpleStream ==
    {F(1, 1, <<>>, TRUE), F(2, 2, <<1>>, TRUE), F(3, 3, <<2>>, TRUE),
     F(4, 4, <<>>, TRUE), F(5, 5, <<4>>, TRUE)}

\* The first four of them.
ShortStream == {f \in SimpleStream : f.id <= 4}

\* Two spatial layers that depend on each other in the keyframe unit {1, 2}
\* only, then {3, 4}, {5, 6} and a keyframe {7}.
KsvcStream ==
    {F(1, 1, <<>>, FALSE), F(2, 1, <<1>>, TRUE),
     F(3, 2, <<1>>, FALSE), F(4, 2, <<2>>, TRUE),
     F(5, 3, <<3>>, FALSE), F(6, 3, <<4>>, TRUE),
     F(7, 4, <<>>, TRUE)}
===============================================================================
