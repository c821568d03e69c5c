CONSTANTS
    None = None
    N = 3
    Primes = {5, 7}
    MaxPoint = 4
    Altered <- SmallValues
    MaxFaults = 2
SPECIFICATION Spec
CHECK_DEADLOCK FALSE
INVARIANTS
    UnalteredVerifies
    SingleErrorIsCaught
    RejectedIsLocated
    BlameIsFounded
