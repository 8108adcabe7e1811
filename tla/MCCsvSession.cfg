SPECIFICATION Spec
CONSTANTS
    p1 = p1
    p2 = p2
    d1 = d1
    t1 = t1
    t2 = t2
    Process <- MCProcess
    Thread <- MCThread
    Dir = {d1}
    Base <- OneBase
    MaxSecond = 1
    MaxRows = 2
    MaxStats = 1
INVARIANTS
    
    StatsStartWithHeader
SYMMETRY MCSymmetry
CHECK_DEADLOCK FALSE
