\* "sshd reset" on the CLI task.
SPECIFICATION FairSpec
CONSTANTS
    SSHD_MAX_SESSIONS = 2
    Depth = 2
    MaxConns = 3
    MaxBackends = 2
PROPERTIES
    NoInnocentClosed
\* Once every connection is over and nothing is queued, all tasks wait.
CHECK_DEADLOCK FALSE
