SPECIFICATION Spec
CONSTANTS
    Pid = {p1, p2, p3}
    Env = {NoEnv, e1}
    NoEnv = NoEnv
    None = None
SYMMETRY PidSymmetry
INVARIANTS
    TypeOK
    NothingOrphaned
    ExitTruthful
    EnvironmentTrue
