SPECIFICATION FairSpec
CONSTANTS
    Proc = {p1, p2}
    None = None
    Builds <- MCBuilds
    Capacity = 2
    PageSize = 1
    MaxRecords = 3
INVARIANT TypeOK
INVARIANT EndpointNamesServer
INVARIANT SchemaIsOwn
INVARIANT TokenHonoured
INVARIANT LeavesNothing
INVARIANT PagesComplete
PROPERTY ShutdownEnds
CHECK_DEADLOCK FALSE
