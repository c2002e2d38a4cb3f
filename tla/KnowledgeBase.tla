---------------------------- MODULE KnowledgeBase ---------------------------
(***************************************************************************)
(* The stores of one source (src/docserver/knowledge_base.py): the SQLite  *)
(* table documents, the FTS5 table chunks_fts in the same database, and    *)
(* the Chroma collection.  SQLite and Chroma are written one after the     *)
(* other, with nothing to undo the first when the second fails, so every   *)
(* write is two operators here: one SQLite transaction, one Chroma call.   *)
(*                                                                         *)
(* A document id is <<file, k>>: k = 0 is the parent, which carries the    *)
(* content hash, and k > 0 the file's k-th chunk.  A version stands for    *)
(* the content of a file; its hash identifies it.                          *)
(***************************************************************************)
EXTENDS Naturals, FiniteSets

CONSTANTS
    Files,      \* paths in the source
    Versions,   \* what a file may contain
    Blank,      \* the versions whose text is the empty string
    ChunksOf,   \* how many chunks _chunk_content makes of a version
    MaxChunk,   \* bound: chunks of a file
    Absent      \* no such file, row or vector

ASSUME ContentAssumption ==
    /\ Blank \subseteq Versions
    /\ Absent \notin Versions
    /\ MaxChunk \in Nat
    /\ ChunksOf \in [Versions -> 0..MaxChunk]

VARIABLES
    docs,   \* documents: the version each row was made from
    fts,    \* chunks_fts: the version whose text is indexed under the id
    dense   \* the Chroma collection: the version embedded under the id

stores == <<docs, fts, dense>>

Cell     == Versions \cup {Absent}
Ids      == Files \X (0..MaxChunk)
ChunkIds == Files \X (1..MaxChunk)
Parent(f) == <<f, 0>>

StoresTypeOK ==
    /\ docs \in [Ids -> Cell]
    /\ fts \in [ChunkIds -> Cell]
    /\ dense \in [ChunkIds -> Cell]

(* "if content and is_chunk": only such items reach FTS5 and Chroma.       *)
Searchable(id, v) == id \in ChunkIds /\ v \in Versions \ Blank

(* Fault: one chunk more than the chunker made.                            *)
ItemsOneTooMany(f, v) == [id \in {f} \X (0..ChunksOf[v] + 1) |-> v]

(* What the run_once loop queues for a file: its parent and its chunks.    *)
Items(f, v) == [id \in {f} \X (0..ChunksOf[v]) |-> v]

(* The rows and the index entries a tree of files calls for.               *)
Rows(tree) ==
    [id \in Ids |-> LET v == tree[id[1]] IN
                    IF v # Absent /\ id[2] <= ChunksOf[v] THEN v ELSE Absent]
Entries(rows) ==
    [id \in ChunkIds |-> IF Searchable(id, rows[id]) THEN rows[id] ELSE Absent]

NoRows    == [id \in Ids |-> Absent]
NoEntries == [id \in ChunkIds |-> Absent]

-----------------------------------------------------------------------------
(* upsert_documents_batch and upsert_document, the SQLite transaction: an  *)
(* item that is not searchable leaves chunks_fts alone.                    *)
WriteRows(items) ==
    /\ docs' = [id \in Ids |-> IF id \in DOMAIN items THEN items[id]
                               ELSE docs[id]]
    /\ fts' = [id \in ChunkIds |->
                 IF id \in DOMAIN items /\ Searchable(id, items[id])
                 THEN items[id] ELSE fts[id]]

(* ... and the Chroma upserts, for the ids in S.                           *)
VectorIds(items) == {id \in DOMAIN items : Searchable(id, items[id])}
WriteVectors(items, S) ==
    dense' = [id \in ChunkIds |-> IF id \in S THEN items[id] ELSE dense[id]]

(* Fault: the row goes, its full-text entry stays.                         *)
DeleteRowOnly(id) ==
    /\ docs' = [docs EXCEPT ![id] = Absent]
    /\ UNCHANGED fts

(* delete_document: one transaction, then a Chroma call that may fail      *)
(* unnoticed (contextlib.suppress).                                        *)
DeleteRow(id) ==
    /\ docs' = [docs EXCEPT ![id] = Absent]
    /\ fts' = [i \in ChunkIds |-> IF i = id THEN Absent ELSE fts[i]]

DeleteVector(id) ==
    dense' = [i \in ChunkIds |-> IF i = id THEN Absent ELSE dense[i]]

(* _backfill_fts, on every opening of the database: only an empty FTS      *)
(* table is filled.                                                        *)
BackfillFts ==
    fts' = IF fts = NoEntries THEN Entries(docs) ELSE fts
=============================================================================
