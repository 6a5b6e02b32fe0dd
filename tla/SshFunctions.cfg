\* Every call of the functions below the protocol, with arguments at the edges.
SPECIFICATION Spec
CONSTANTS
    Limbs = 4
    Wide = 6
    Nineteen = 3
    Octet = 4
    Low = 4
    Radix = 3
    Fold <- SmallFold
    Q = 109
    D = 11
    SqrtM1 = 33
    B <- BasePoint
    Order = 13
    Bits = 16
    Block = 8
    LenZone = 2
    LenStored = 1
    FePairs <- Pairs
    FeSingles <- Singles
    Encodings <- Bytes22
    Wides <- Wides26
    Factors <- Small
    Zs = {1, 5}
    Scalars <- SomeScalars
    Secrets = {0, 5, 20000}
    Hashes = {0, 1, 6, 12}
    MaxMessage = 18
    Layers = 3
    MLKEM_K = 3
    XofRate = 18
    HashG <- SomeHashG
    HashH <- SomeHashH
    HashJ <- SomeHashJ
    Prf <- SomePrf
    Xof <- SomeXof
    Coefficients <- AllCoefficients
    Polys <- SomePolys
    Seeds <- SomeSeeds
    Messages <- SomeMessages
    LenBase = 4
    MaxPacket = 100
    Payloads <- SomePayloads
    MaxSent = 3
    Parts = {0, 3, 20, 30}
    Packets <- SomePackets
    NameLists <- SomeLists
    SharedKs <- SomeKs
    Keys = {".", "!", "nl", "x"}
    MaxKeys = 6
INVARIANTS
    FieldArithmetic
    FullSizeTables
    ScalarsReduced
    GroupLaw
    SignaturesVerify
    HashStreams
    RingArithmetic
    Encapsulation
    PacketsArriveWhole
    ReaderInBounds
    SidesAgree
    EscapeOnly
