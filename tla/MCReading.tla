------------------------------ MODULE MCReading -----------------------------
(* InventoryCache, Search and Chunker for TLC: the cache runs, or a search *)
(* or a text is chosen for the two functions.  a1 and a2 are chunks of one *)
(* document; b1 and c1 are alike, each the only chunk of its document: of  *)
(* such a pair the dense leg ranks the first higher.                       *)
EXTENDS InventoryCache, Search, Chunker

CONSTANTS a1, a2, b1, c1, A, B, C, MaxLines

MCParentOf == [c \in Chunks |-> CASE c \in {a1, a2} -> A [] c = b1 -> B [] c = c1 -> C]

Line(kind, level, width) == [kind |-> kind, level |-> level, width |-> width]
MCLines == {Line("fence", 1, 3), Line("heading", 1, 3), Line("heading", 2, 4),
            Line("blank", 1, 0), Line("item", 1, 3), Line("plain", 1, 4)}

Higher(c, d) == d \in Range(dense) => /\ c \in Range(dense)
                                      /\ RankIn(dense, c) < RankIn(dense, d)

MCInit ==
    /\ CacheInit
    /\ \/ text = <<>> /\ NoSearch
       \/ text = <<>> /\ SearchInit({0, 2}) /\ Higher(a1, a2) /\ Higher(b1, c1)
       \/ text \in BoundedSeq(MCLines, MaxLines) /\ NoSearch

MCNext ==
    /\ text = <<>> /\ ~asked
    /\ CacheNext
    /\ UNCHANGED <<text, input>>

MCSpec == MCInit /\ [][MCNext]_<<vars, text, input>>
=============================================================================
