CONSTANTS
    p1 = p1
    p2 = p2
    Paths <- TwoPaths
    Protocols = {"UDP", "TCP"}
    Buffer = 1
SPECIFICATION FairSpec
CHECK_DEADLOCK FALSE
INVARIANTS
    KeptNodesServe
    NodesHaveProfiles
    SamplersHaveNodes
PROPERTIES
    StoppedNodesEnd
