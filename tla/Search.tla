------------------------------- MODULE Search -------------------------------
(***************************************************************************)
(* Hybrid search (src/docserver/knowledge_base.py): the two legs, their    *)
(* fusion by reciprocal rank, the cut to _L1_OUTPUT_SIZE, the reranker     *)
(* (src/docserver/reranker.py) and the parents of what it ranks.           *)
(*                                                                         *)
(* A search is a function of what it reads: the hits of either leg, best   *)
(* first, the logits, and the parents still in documents when they are     *)
(* looked up.  These reads are apart in time, so any combination of them   *)
(* is an input.                                                            *)
(***************************************************************************)
EXTENDS Naturals, Sequences, FiniteSets, SequencesExt

CONSTANTS
    Chunks, ParentOf,   \* the chunks, and the documents they are of
    CandidateK,         \* _RRF_CANDIDATE_K
    RrfK,               \* _RRF_K
    L1OutputSize,       \* _L1_OUTPUT_SIZE
    Logits,             \* scores the reranker may give
    Unavailable         \* it gives none

ASSUME SearchAssumption ==
    /\ DOMAIN ParentOf = Chunks
    /\ CandidateK \in Nat /\ RrfK \in Nat \ {0} /\ L1OutputSize \in Nat
    /\ Logits \subseteq Nat

VARIABLES
    asked,      \* is there a search
    dense,      \* _dense_search: its hits, none when Chroma fails
    bm25,       \* _bm25_search_chunks: its hits, none when FTS5 fails
    logit,      \* the reranker
    present,    \* the parents get_document finds
    limit       \* n_results

input == <<asked, dense, bm25, logit, present, limit>>

Parents == Range(ParentOf)
Hits == {s \in BoundedSeq(Chunks, CandidateK) : IsInjective(s)}

SearchInit(Limits) ==
    /\ asked = TRUE
    /\ dense \in Hits /\ bm25 \in Hits
    /\ logit \in [Chunks -> Logits] \cup {Unavailable}
    /\ present \in SUBSET Parents
    /\ limit \in Limits

NoSearch ==
    /\ asked = FALSE
    /\ dense = <<>> /\ bm25 = <<>> /\ logit = Unavailable
    /\ present = {} /\ limit = 1

-----------------------------------------------------------------------------
RankIn(hits, c) == CHOOSE r \in DOMAIN hits : hits[r] = c
FirstN(s, n) == SubSeq(s, 1, IF n < Len(s) THEN n ELSE Len(s))

(* _rrf_fuse: a chunk's score is the sum of 1 / (k + rank) over the lists  *)
(* it is in, here over their common denominator.                           *)
Times(d, r) == d * (RrfK + r)
Denominator == FoldLeft(Times, 1, [r \in 1..CandidateK |-> r])
Share(hits, c) ==
    IF c \in Range(hits) THEN Denominator \div (RrfK + RankIn(hits, c)) ELSE 0

(* Fault: the score of the last list a chunk is in.                        *)
RrfScoreLast(c) == IF c \in Range(bm25) THEN Share(bm25, c) ELSE Share(dense, c)

RrfScore(c) == Share(dense, c) + Share(bm25, c)

(* sorted(): the k-th is the one that k - 1 others are before.             *)
SortedBy(S, before(_, _)) ==
    LET others == [c \in S |-> Cardinality({d \in S : before(d, c)})]
    IN  [k \in 1..Cardinality(S) |-> CHOOSE c \in S : others[c] = k - 1]

(* Sorting is stable; the scores are in the order of their first           *)
(* appearance, the dense leg's before BM25's.                              *)
Found == Range(dense) \cup Range(bm25)
FirstSeen(c) ==
    IF c \in Range(dense) THEN RankIn(dense, c) ELSE Len(dense) + RankIn(bm25, c)
Fused ==
    LET score == [c \in Found |-> RrfScore(c)]
        seen  == [c \in Found |-> FirstSeen(c)]
        before(c, d) == \/ score[c] > score[d]
                        \/ score[c] = score[d] /\ seen[c] < seen[d]
    IN  SortedBy(Found, before)

Candidates == FirstN(Fused, L1OutputSize)

(* rerank: by logit, stably; when it fails the candidates as they come.    *)
Rerank(hits, topK) ==
    LET place == [c \in Range(hits) |-> RankIn(hits, c)]
        before(c, d) == \/ logit[c] > logit[d]
                        \/ logit[c] = logit[d] /\ place[c] < place[d]
    IN  FirstN(IF logit = Unavailable THEN hits ELSE SortedBy(Range(hits), before), topK)

(* search: chunks, for the chat and the MCP tool.                          *)
SearchChunks == Rerank(Candidates, limit)

(* search_documents: each parent once, where its best chunk is.  The limit *)
(* is tested after a document is added.                                    *)
NextParent(acc, c) ==
    LET parent == ParentOf[c]
        docs   == IF parent \in present THEN Append(acc.docs, parent) ELSE acc.docs
    IN  IF acc.full \/ parent \in acc.seen THEN acc
        ELSE [seen |-> acc.seen \cup {parent}, docs |-> docs,
              full |-> parent \in present /\ Len(docs) >= limit]

ParentsIn(ranked) ==
    FoldLeft(NextParent, [seen |-> {}, docs |-> <<>>, full |-> FALSE], ranked).docs

(* Fault: reranked to the limit before the parents are told apart.         *)
SearchDocumentsCut == ParentsIn(Rerank(Candidates, limit))

SearchDocuments == LET hits == Candidates IN ParentsIn(Rerank(hits, Len(hits)))

-----------------------------------------------------------------------------
(* A chunk that no leg ranks below another, and one ranks above it, is     *)
(* fused before it, whether both legs found it or one, and whichever leg   *)
(* failed (_rrf_fuse); with no reranker the chat's results, cut twice,     *)
(* keep to this (search, rerank).                                          *)
FusionFollowsLegs ==
    LET Above(hits, c, d) ==
            c \in Range(hits) /\ (d \in Range(hits) => RankIn(hits, c) < RankIn(hits, d))
        Dominates(c, d) ==
            /\ Above(dense, c, d) \/ Above(bm25, c, d)
            /\ ~Above(dense, d, c) /\ ~Above(bm25, d, c)
        order == IF logit = Unavailable THEN SearchChunks ELSE Fused
    IN  \A d \in Range(order), c \in Range(dense) \cup Range(bm25) :
            Dominates(c, d) => /\ c \in Range(order)
                               /\ RankIn(order, c) < RankIn(order, d)

(* search_documents answers with different, existing documents, in the     *)
(* order of their best chunks.  Of those with a chunk among the candidates *)
(* the fusion keeps (_L1_OUTPUT_SIZE of them) it leaves one out only when  *)
(* the limit is reached by better ones, whatever was removed since the     *)
(* legs were read.  A limit of zero counts as one.                         *)
BestParentsReturned ==
    LET hits == Candidates
        found == {ParentOf[c] : c \in Range(hits)} \cap present
        best == [p \in found |->
            LET own == {c \in Range(hits) : ParentOf[c] = p}
            IN  IF logit = Unavailable
                THEN <<0, Min({RankIn(hits, c) : c \in own})>>
                ELSE LET top == Max({logit[c] : c \in own})
                     IN  <<top, Min({RankIn(hits, c) : c \in {c \in own : logit[c] = top}})>>]
        Better(p, q) == LET b == best[p]  a == best[q] IN
                        b[1] > a[1] \/ (b[1] = a[1] /\ b[2] < a[2])
        docs == SearchDocuments
        most == IF limit = 0 THEN 1 ELSE limit
    IN  /\ Range(docs) \subseteq found /\ IsInjective(docs)
        /\ Len(docs) = Min({most, Cardinality(found)})
        /\ \A i \in DOMAIN docs : \A p \in found :
             (\A j \in 1..i : docs[j] # p) => Better(docs[i], p)
=============================================================================
