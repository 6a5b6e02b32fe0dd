\* Two slots, two connections and a backend; "sshd reset" may run at any moment.
SPECIFICATION FairSpec
CONSTANTS
    SSHD_MAX_SESSIONS = 2
    Depth = 2
    MaxConns = 2
    MaxBackends = 1
INVARIANTS
    Routing
    SlotsBacked
PROPERTIES
    OwnTaskSafe
    HangupFreesSlot
\* Once every connection is over and nothing is queued, all tasks wait.
CHECK_DEADLOCK FALSE
