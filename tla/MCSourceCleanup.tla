-------------------------- MODULE MCSourceCleanup ---------------------------
(* SourceCleanup for TLC.  wiki and code are two repositories; docs is     *)
(* another branch of code, md the branch of code with other patterns; void *)
(* is a repository without matching files; disk is a local directory.      *)
EXTENDS SourceCleanup, TLC

CONSTANTS A, B, C, wiki, code, docs, md, void, disk, b1, b2

MCRepo == [t \in Targets |-> IF t \in {code, docs, md} THEN code ELSE t]
MCCommit == [t \in Targets |-> IF t \in {code, md} THEN code ELSE t]
MCNames == Permutations(Names) \cup Permutations(Batches)
=============================================================================
