---------------------------- MODULE MCSshdSession ----------------------------
(* Instances of SshdSession for TLC.                                         *)
EXTENDS SshdSession, TLC

\* Keys and handles are interchangeable; connections are too.
Symmetry == Permutations(Conns) \cup Permutations(Keys) \cup Permutations(Handles)
=============================================================================
