SPECIFICATION Spec
CONSTANTS
    Cred = {d1, d2}
    Name = {n1, n2}
    Type = {"cloudflare", "dnspod"}
    Caller = {c1, c2}
    None = None
    MaxSaves = 3
    MaxKeys = 2
    MaxRevisions = 1
INVARIANTS
    TypeOK
    ReferencesExist
    SecretsReadable
    SecretOfProvider
    NamesUnique
    EnvironmentOfProvider
SYMMETRY Symmetric
CHECK_DEADLOCK FALSE
