\* An arbitrary peer: rekeying, several requests, requests without a channel.
SPECIFICATION Spec
CONSTANTS
    Conns = {c1, c2}
    Keys = {k1, k2}
    Handles = {h1, h2}
    MaxKex = 2
    Password = password
    NoConn = NoConn
    NoHandle = NoHandle
    NoKey = NoKey
SYMMETRY Symmetry
INVARIANTS
    TypeOK
    AuthBeforeAccess
    KeysOfThisConnection
    SealedOnceKeyed
    NoOrphanBackend
PROPERTIES
    ImplementsAccess
