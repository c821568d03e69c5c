CONSTANTS
    p1 = p1
    p2 = p2
    Packets <- TwoPackets
    MaxCopies <- OneDoubled
    N = 2
    SeqMax = 3
    ReportMax = 1
    Starts = {0, 3}
    CanStop = TRUE
SPECIFICATION Spec
INVARIANTS
    UndisturbedNumbersDiffer
    OverflowIsARace
    ReportsTellTheWay
