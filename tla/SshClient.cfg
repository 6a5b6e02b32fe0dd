\* Two sessions with a server of either key that may be anyone.
SPECIFICATION Spec
CONSTANTS
    HostKeys = {a, b}
    NoKey = none
    MaxSessions = 2
    MaxChatter = 1
    MaxClears = 1
INVARIANTS
    SecretsGuarded
    AnswersMatch
PROPERTY
    SessionEnds
CHECK_DEADLOCK FALSE
