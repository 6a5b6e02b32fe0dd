\* Up to three packets, every way a session ends.
SPECIFICATION Spec
CONSTANTS
    MaxPackets = 3
INVARIANTS
    OrderlyCloseDelivers
