CONSTANTS
    None = None
    a = a
    b = b
    g = g
    d = d
    Posts <- TwoPosts
    Gets <- OneGet
    Deletes <- OneDelete
SPECIFICATION FairSpec
CHECK_DEADLOCK FALSE
INVARIANTS
    PathsAreFound
    ReportsFindTheirPath
PROPERTIES
    OneControllerInTheEnd
    LogServerComesUp
