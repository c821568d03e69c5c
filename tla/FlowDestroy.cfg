CONSTANTS
    p1 = p1
    p2 = p2
    n1 = n1
    n2 = n2
    n3 = n3
    s1 = s1
    s2 = s2
    None = None
    Packets <- OnePacket
    Seqs <- OneSeq
    Nodes <- TwoNodes
    Ingress = n1
    Egress = n3
    MaxWorkers = 2
    Prometheus = TRUE
    CanDestroy = TRUE
SPECIFICATION FairSpec
CHECK_DEADLOCK FALSE
INVARIANTS
    LockDiscipline
PROPERTIES
    HandlersEnd
    SuccessIsReported
