SPECIFICATION FairSpec
CONSTANTS
    Pid = {p1, p2}
    Env = {NoEnv}
    NoEnv = NoEnv
    None = None
PROPERTY ExitNoticed
