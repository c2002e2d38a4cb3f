---------------------------- MODULE MCIngestion -----------------------------
(* Ingestion for TLC: a short version of one chunk, a long one of two, and *)
(* an empty one, of one chunk without text.                                *)
EXTENDS Ingestion, TLC

CONSTANTS short, long, empty, a, b

MCChunksOf == [v \in Versions |-> IF v = long THEN 2 ELSE 1]
MCPrefix == {<<a, b>>}
=============================================================================
