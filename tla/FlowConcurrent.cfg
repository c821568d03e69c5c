CONSTANTS
    p1 = p1
    p2 = p2
    n1 = n1
    n2 = n2
    n3 = n3
    s1 = s1
    s2 = s2
    None = None
    Packets <- OnePacket
    Seqs <- OneSeq
    Nodes <- ThreeNodes
    Ingress = n1
    Egress = n3
    MaxWorkers = 3
    Prometheus = TRUE
    CanDestroy = FALSE
SPECIFICATION Spec
INVARIANTS
    TypeOK
    NoEarlyVerdict
    SuccessIsSound
PROPERTIES
    FlowsOnlyAdvance
    KeepsThePromise
