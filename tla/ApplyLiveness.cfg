SPECIFICATION FairSpec
CONSTANTS
    plain = plain
    dnsTLS = dnsTLS
    docA = docA
    docD = docD
    Core = {plain, dnsTLS}
    DNSCore = {dnsTLS}
    Provider = {}
    Secret = {s1}
    Config = {docA, docD}
    Compile <- MCCompile
    MaxNumber = 2
    NoConfig = NoConfig
    NoSnapshot = NoSnapshot
    NoRevision = NoRevision
    NoEnv = NoEnv
    Callers = {c1, c2}
    None = None
PROPERTY LockAlwaysReleased
PROPERTY ImplementsContract
