\* The backend may hang up with output queued behind a closed window.
SPECIFICATION Spec
CONSTANTS
    LOCAL_WINDOW = 4
    Mod = 5
    PeerWindow = 1
    MaxRoom = 4
    InCap = 4
    OutCap = 2
    MaxOut = 3
    MaxDropped = 0
INVARIANTS
    NoTrailingLoss
\* The session ends, and the model with it.
CHECK_DEADLOCK FALSE
