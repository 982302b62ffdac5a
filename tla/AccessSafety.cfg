SPECIFICATION MCSpec
CONSTANTS
    u1 = u1
    u2 = u2
    n1 = n1
    n2 = n2
    h1 = h1
    h2 = h2
    s1 = s1
    s2 = s2
    a = a
    b = b
    dir = dir
    p80 = p80
    UserID = {u1, u2}
    Name = {n1, n2}
    Hash = {h1, h2}
    ShareID = {s1, s2}
    Slug = {a, b}
    Path = {dir}
    Port = {p80}
    Rank <- MCRank
    NoSection = NoSection
    Placeholder = h2
    Callers = {c1, c2}
    Requests <- MCRequests
    InitialRows <- MCRows
    NoConfig = NoConfig
    MaxRequests = 3
SYMMETRY CallerSymmetry
CHECK_DEADLOCK FALSE
INVARIANTS
    TypeOK
    AnsweredMeansServed
    CompilerFaithful
    RoundTrip
PROPERTIES
    ImportKeeps
