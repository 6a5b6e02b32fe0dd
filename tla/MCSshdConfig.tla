----------------------------- MODULE MCSshdConfig -----------------------------
(* Instances of SshdConfig for TLC: two lines with one key, and a line       *)
(* without a key that no check would accept.                                 *)
EXTENDS SshdConfig

CONSTANTS la, la2, bad, ka, kb

GoodLines == {la, la2}

Decodes == [line \in GoodLines \cup {bad} |-> IF line = bad THEN NoPub ELSE ka]

\* The two lines of one key are interchangeable, and so are the ports.
Symmetry == Permutations(GoodLines) \cup Permutations(Ports)
=============================================================================
