\* The backend may leave its input full for 500 ms.
SPECIFICATION FairSpec
CONSTANTS
    LOCAL_WINDOW = 4
    Mod = 5
    PeerWindow = 1
    MaxRoom = 4
    InCap = 2
    OutCap = 2
    MaxOut = 3
    MaxDropped = 2
INVARIANTS
    NeverOverrunsPeer
    LocalWindowCovers
    PeerCanSend
    LossOnlyBehindWindow
PROPERTIES
    OutputMoves
\* The session ends, and the model with it.
CHECK_DEADLOCK FALSE
