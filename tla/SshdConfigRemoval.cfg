\* A second removal is made before the first is committed.
SPECIFICATION Spec
CONSTANTS
    la = la
    la2 = la2
    bad = bad
    ka = ka
    kb = kb
    Lines <- GoodLines
    OldLines = {bad}
    NoLine = NoLine
    Pubs = {ka, kb}
    NoPub = NoPub
    KeyOf <- Decodes
    Ports = {p22, p23}
    MaxStored = 2
    MaxCommands = 3
SYMMETRY Symmetry
INVARIANT
    RemovalHolds
\* Every bound is used up and everything is settled.
CHECK_DEADLOCK FALSE
