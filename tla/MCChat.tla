------------------------------- MODULE MCChat -------------------------------
(* Chat for TLC.                                                           *)
EXTENDS Chat

CONSTANTS t1, t2, i1, i2, i3, i4

MCSymmetry == Permutations(Tabs) \cup Permutations(Ids)
=============================================================================
