---------------------------- MODULE MCFrameBuffer ----------------------------
EXTENDS FrameBuffer

F(id, ts, refs, last) == [id |-> id, ts |-> ts, refs |-> refs, last |-> last]

\* Two spatial layers that depend on each other in the keyframe unit {2, 3} only
\* (K-SVC): {4, 5} and {6, 7} follow, each layer on its own; a keyframe {8} that
\* can overtake them all; a keyframe {1} sent last, its id having jumped back;
\* and a frame ValidReferences refuses.  Timestamps wrap round after {4, 5}.
LayeredStream ==
    {F(2, 6, <<>>, FALSE), F(3, 6, <<2>>, TRUE),
     F(4, 7, <<2>>, FALSE), F(5, 7, <<3>>, TRUE),
     F(6, 0, <<4>>, FALSE), F(7, 0, <<5>>, TRUE),
     F(8, 1, <<>>, TRUE), F(1, 2, <<>>, TRUE), F(9, 3, <<7, 7>>, TRUE)}
===============================================================================
