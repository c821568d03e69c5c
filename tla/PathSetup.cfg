CONSTANTS
    None = None
    N = 3
    Ips <- SomeIps
    Ports <- TwoPorts
    Mgmt <- Managed
    Nics <- Interfaces
    NetOf <- Networks
SPECIFICATION Spec
CHECK_DEADLOCK FALSE
INVARIANTS
    NeighboursMeet
    NodesAreWhoTheyShouldBe
    OnlyNamesakesAreLost
