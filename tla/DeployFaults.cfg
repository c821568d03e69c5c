CONSTANTS
    p1 = p1
    d1 = d1
    d2 = d2
    h1 = h1
    h2 = h2
    h3 = h3
    None = None
    Hosts <- ThreeHosts
    Paths <- OnePath
    Deleters <- TwoDeleters
    Routes <- AnyRoute
    Protocols = {"UDP", "TCP"}
    Faults = {"reject", "lost", "thread", "restart"}
    MaxFaults = 3
SPECIFICATION FairSpec
CHECK_DEADLOCK FALSE
INVARIANTS
    TypeOK
    ForgottenMeansClean
    OperativeMeansDeployed
    FailedCreateIsForgotten
    RunningIsKnown
PROPERTIES
    PathsAreDeleted
