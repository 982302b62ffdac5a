SPECIFICATION Spec
CONSTANTS
    plain = plain
    dnsTLS = dnsTLS
    docA = docA
    docD = docD
    Core = {plain, dnsTLS}
    DNSCore = {dnsTLS}
    Provider = {}
    Secret = {s1, s2}
    Config = {docA, docD}
    Compile <- MCCompile
    MaxNumber = 2
    NoConfig = NoConfig
    NoSnapshot = NoSnapshot
    NoRevision = NoRevision
    NoEnv = NoEnv
    Callers = {c1, c2}
    None = None
SYMMETRY CallerSymmetry
INVARIANTS
    TypeOK
    IdentityUnique
    ActiveWasApplied
    PendingHonest
    RuntimeMatchesActive
PROPERTIES
    RevisionsAppendOnly
    LifecycleKeepsRevisions
