\* Two CLI tasks, each of which may be first to spawn the worker.
SPECIFICATION Spec
CONSTANTS
    Clis = {c1, c2}
    Workers = {w1, w2}
    NoCli = none
    Window = 2
    OutSize = 1
    InSize = 1
    MaxCommands = 3
INVARIANTS
    JobAlive
    NoStrandedCli
    OutputShown
    RemoteCanSend
PROPERTY
    CommandReturns
CHECK_DEADLOCK FALSE
