------------------------------ MODULE Ingestion -----------------------------
(***************************************************************************)
(* One source's part of Ingester.run_once (src/docserver/ingestion.py):    *)
(* RepoManager.sync, the HEAD short-circuit, the walk over the files with  *)
(* the content-hash skip, the batched writes with their item-by-item       *)
(* fallback, and the removal of stale documents.  Sources are processed    *)
(* one after the other and share no document id, so one source is all the  *)
(* cycle has to be.  The worker may be killed at any step: its locals are  *)
(* lost, the clone and the stores stay as they are.                        *)
(*                                                                         *)
(* The stores have a single writer.  Supervisor proves it of the workers   *)
(* but for one that its caller lost by an exception, which may still write *)
(* when the next one does; that is not modelled here.                      *)
(***************************************************************************)
EXTENDS KnowledgeBase

CONSTANTS
    Remote,     \* source.is_remote
    Prefix,     \* pairs <<f, g>>: the path f is a proper prefix of g
    BatchSize,  \* BATCH_FLUSH_SIZE
    DenseBatch, \* _CHROMA_BATCH_SIZE
    FaultKinds, \* the faults that may happen
    MaxFaults,  \* bound: faults in a behaviour
    MaxEdits    \* bound: edits of the files (commits, for a remote source)

ASSUME IngestionAssumption ==
    /\ Remote \in BOOLEAN
    /\ Prefix \subseteq Files \X Files
    /\ BatchSize \in Nat \ {0} /\ DenseBatch \in Nat \ {0}
    /\ MaxFaults \in Nat /\ MaxEdits \in Nat

VARIABLES
    origin,     \* the files at the head of the remote branch
    rev,        \* its commit
    disk,       \* the files the worker reads: the clone, or the local path
    head,       \* the commit checked out in the clone
    clone,      \* the state of the clone directory
    failures,   \* source_status.consecutive_failures
    pc, force,  \* the cycle: where it is, and its argument force
    sync,       \* sync_results[source]; "failed" is also False in the code
    todo,       \* files not yet taken by the loop
    seen,       \* seen_doc_ids
    batch,      \* upsert_batch, from id to version
    pending,    \* ids left in the loop at hand: vectors, retries, deletions
    cur,        \* the id between its SQLite and its Chroma step
    walked,     \* history: what this cycle parsed of each file
    clean,      \* history: no fault since this cycle began
    onlyDense,  \* history: every fault so far was a failed Chroma call
    faults, edits

repo == <<origin, rev, disk, head, clone>>
budget == <<onlyDense, faults, edits>>
vars == <<stores, repo, failures, pc, force, sync, todo, seen, batch, pending,
          cur, walked, clean, budget>>

Trees == [Files -> Cell]
NoFiles == [f \in Files |-> Absent]
NoBatch == [id \in {} |-> Absent]

TypeOK ==
    /\ StoresTypeOK
    /\ origin \in Trees /\ disk \in Trees /\ walked \in Trees
    /\ rev \in 0..MaxEdits /\ head \in 0..MaxEdits
    /\ clone \in {"missing", "invalid", "valid", "corrupt"}
    /\ failures \in 0..MaxFaults
    /\ pc \in {"idle", "sync", "cloning", "recloning", "synced", "walk",
               "commit", "vectors", "retry", "retryVector",
               "prune", "pruneVector", "done"}
    /\ force \in BOOLEAN /\ clean \in BOOLEAN /\ onlyDense \in BOOLEAN
    /\ sync \in {"none", "changed", "unchanged", "failed"}
    /\ todo \subseteq Files
    /\ seen \subseteq Ids /\ pending \subseteq Ids
    /\ DOMAIN batch \subseteq Ids
    /\ \A id \in DOMAIN batch : batch[id] \in Versions
    /\ cur \in Ids \cup {Absent}
    /\ faults \in 0..MaxFaults /\ edits \in 0..MaxEdits

(***************************************************************************)
(* The server comes up with empty volumes, or with those of an older       *)
(* release: everything indexed, but no full-text table yet.                *)
(***************************************************************************)
Init ==
    /\ origin \in Trees
    /\ \/ /\ docs = NoRows /\ dense = NoEntries
          /\ disk = IF Remote THEN NoFiles ELSE origin
          /\ clone = IF Remote THEN "missing" ELSE "valid"
       \/ /\ docs = Rows(origin) /\ dense = Entries(docs)
          /\ disk = origin
          /\ clone = "valid"
    /\ fts = NoEntries
    /\ rev = 0 /\ head = 0
    /\ failures = 0
    /\ pc = "idle" /\ force = FALSE /\ sync = "none"
    /\ todo = {} /\ seen = {} /\ batch = NoBatch /\ pending = {} /\ cur = Absent
    /\ walked = NoFiles /\ clean = TRUE /\ onlyDense = TRUE
    /\ faults = 0 /\ edits = 0

Goto(l) == pc' = l

NoFault == UNCHANGED <<budget, clean>>
Fault(kind) ==
    /\ kind \in FaultKinds
    /\ faults < MaxFaults
    /\ faults' = faults + 1
    /\ clean' = FALSE
    /\ onlyDense' = (onlyDense /\ kind = "dense")
    /\ UNCHANGED edits

cycleVars == <<force, sync, todo, seen, batch, pending, cur, walked>>

(* The worker's locals are gone, at its exit or when it is killed.         *)
Forget ==
    /\ pc' = "idle" /\ force' = FALSE /\ sync' = "none"
    /\ todo' = {} /\ seen' = {} /\ batch' = NoBatch /\ pending' = {}
    /\ cur' = Absent
    /\ walked' = NoFiles

(***************************************************************************)
(* The environment: commits to the remote branch or edits of local files.  *)
(***************************************************************************)
Edit(f, v) ==
    /\ edits < MaxEdits
    /\ edits' = edits + 1
    /\ v # IF Remote THEN origin[f] ELSE disk[f]
    /\ IF Remote
       THEN /\ origin' = [origin EXCEPT ![f] = v]
            /\ rev' = rev + 1
            /\ UNCHANGED disk
       ELSE /\ disk' = [disk EXCEPT ![f] = v]
            /\ UNCHANGED <<origin, rev>>
    /\ UNCHANGED <<stores, head, clone, failures, pc, cycleVars, clean,
                   onlyDense, faults>>

(* Unreadable refs in the clone, found by repo.head.commit.                *)
CorruptClone ==
    /\ pc = "idle" /\ clone = "valid" /\ Remote
    /\ clone' = "corrupt"
    /\ Fault("corrupt")
    /\ UNCHANGED <<stores, origin, rev, disk, head, failures, pc, cycleVars>>

(* The operator deletes the Chroma volume.                                 *)
WipeVectors ==
    /\ pc = "idle"
    /\ dense' = NoEntries
    /\ Fault("wipe")
    /\ UNCHANGED <<docs, fts, repo, failures, pc, cycleVars>>

(* SIGKILL: the watchdog, stop(), the OOM killer.                          *)
Crash ==
    /\ pc # "idle"
    /\ Forget
    /\ Fault("crash")
    /\ UNCHANGED <<stores, repo, failures>>

(***************************************************************************)
(* Opening the knowledge base, and RepoManager.sync.                       *)
(***************************************************************************)
StartCycle(f) ==
    /\ pc = "idle"
    /\ BackfillFts
    /\ force' = f
    /\ clean' = TRUE
    /\ Goto("sync")
    /\ UNCHANGED <<docs, dense, repo, failures, sync, todo, seen, batch,
                   pending, cur, walked, budget>>

(* _sync_source: sync() returned, and update_source_check records it.      *)
Synced(result) ==
    /\ sync' = result
    /\ failures' = 0
    /\ Goto("synced")
    /\ UNCHANGED <<stores, origin, rev, force, todo, seen, batch, pending, cur,
                   walked>>

(* _sync_local looks at the directory and returns False.                   *)
SyncLocal ==
    /\ pc = "sync" /\ ~Remote
    /\ Synced("unchanged")
    /\ UNCHANGED <<disk, head, clone>> /\ NoFault

(* _sync_remote, by the state of the clone directory.  A first clone       *)
(* starts with mkdir: until it is done the directory is no repository.     *)
CloneBegin ==
    /\ pc = "sync" /\ Remote /\ clone = "missing"
    /\ clone' = "invalid"
    /\ Goto("cloning")
    /\ UNCHANGED <<stores, origin, rev, disk, head, failures, cycleVars>>
    /\ NoFault

(* Corrupt refs: the clone is removed and made again.                      *)
RecloneBegin ==
    /\ pc = "sync" /\ Remote /\ clone = "corrupt"
    /\ clone' = "invalid"
    /\ disk' = NoFiles
    /\ Goto("recloning")
    /\ UNCHANGED <<stores, origin, rev, head, failures, cycleVars>>
    /\ NoFault

(* git has made its directory, but no reference is there yet.              *)
CloneInit ==
    /\ pc \in {"cloning", "recloning"} /\ clone = "invalid"
    /\ clone' = "corrupt"
    /\ UNCHANGED <<stores, origin, rev, disk, head, failures, pc, cycleVars>>
    /\ NoFault

CloneDone ==
    /\ pc \in {"cloning", "recloning"}
    /\ clone' = "valid" /\ disk' = origin /\ head' = rev
    /\ Synced("changed") /\ NoFault

(* A first clone that fails is swept away; a failed re-clone is caught by  *)
(* the outer handler, which leaves the directory, emptied by git.          *)
CloneFail ==
    /\ pc \in {"cloning", "recloning"}
    /\ clone' = IF pc = "cloning" THEN "missing" ELSE "invalid"
    /\ Synced("failed") /\ Fault("sync")
    /\ UNCHANGED <<disk, head>>

SyncInvalid ==
    /\ pc = "sync" /\ Remote /\ clone = "invalid"
    /\ Synced("failed")
    /\ UNCHANGED <<disk, head, clone>> /\ NoFault

(* Fault: a reset that moved HEAD is reported as nothing new.              *)
FetchUnnoticed ==
    /\ pc = "sync" /\ Remote /\ clone = "valid"
    /\ disk' = origin /\ head' = rev
    /\ Synced("unchanged")
    /\ UNCHANGED clone /\ NoFault

(* fetch, reset --hard, and the comparison of the two heads.               *)
Fetch ==
    /\ pc = "sync" /\ Remote /\ clone = "valid"
    /\ disk' = origin /\ head' = rev
    /\ Synced(IF head = rev THEN "unchanged" ELSE "changed")
    /\ UNCHANGED clone /\ NoFault

FetchFail ==
    /\ pc = "sync" /\ Remote /\ clone = "valid"
    /\ Synced("failed") /\ Fault("sync")
    /\ UNCHANGED <<disk, head, clone>>

(* Anything else that escapes sync(): the source is skipped.               *)
SyncRaise ==
    /\ pc = "sync"
    /\ failures' = failures + 1
    /\ Forget /\ Fault("sync")
    /\ UNCHANGED <<stores, repo>>

(* sync() has moved the clone, and update_source_check cannot record it:   *)
(* the source is skipped as well.                                          *)
SyncUnrecorded ==
    /\ \/ pc = "sync" /\ Remote /\ clone = "valid"
       \/ pc \in {"cloning", "recloning"}
    /\ clone' = "valid" /\ disk' = origin /\ head' = rev
    /\ failures' = failures + 1
    /\ Forget /\ Fault("sqlite")
    /\ UNCHANGED <<stores, origin, rev>>

(***************************************************************************)
(* The walk.                                                               *)
(***************************************************************************)
ShortCircuit ==
    /\ pc = "synced" /\ ~force /\ Remote /\ sync # "changed"
    /\ Forget
    /\ UNCHANGED <<stores, repo, failures>> /\ NoFault

(* Fault: a failed sync is taken for a change.                             *)
EnumerateAfterFailure ==
    /\ pc = "synced" /\ (force \/ ~Remote \/ sync # "unchanged")
    /\ todo' = {f \in Files : disk[f] # Absent}
    /\ Goto("walk")
    /\ UNCHANGED <<stores, repo, failures, force, sync, seen, batch, pending,
                   cur, walked>>
    /\ NoFault

Enumerate ==
    /\ pc = "synced" /\ (force \/ ~Remote \/ sync = "changed")
    /\ todo' = {f \in Files : disk[f] # Absent}
    /\ Goto("walk")
    /\ UNCHANGED <<stores, repo, failures, force, sync, seen, batch, pending,
                   cur, walked>>
    /\ NoFault

(* get_files raises: the source is skipped.                                *)
EnumerateFail ==
    /\ pc = "synced" /\ (force \/ ~Remote \/ sync = "changed")
    /\ Forget /\ Fault("list")
    /\ UNCHANGED <<stores, repo, failures>>

(* Fault: a forced cycle trusts the hash as well.                          *)
UnchangedEvenForced(f) == docs[Parent(f)] = disk[f]

(* The loop takes a file and parses it: it has changed, or not; or it is   *)
(* unreadable, or gone, and then nothing of it is seen.                    *)
Unchanged(f) == ~force /\ docs[Parent(f)] = disk[f]

(* Fault: the loop skips a file without marking its documents.             *)
SkipUnseen(f) ==
    /\ disk[f] # Absent /\ Unchanged(f)
    /\ walked' = [walked EXCEPT ![f] = disk[f]]
    /\ UNCHANGED <<pc, batch, seen>> /\ NoFault

Skip(f) ==
    /\ disk[f] # Absent /\ Unchanged(f)
    /\ seen' = seen \cup {Parent(f)} \cup
                  {id \in Ids : docs[id] # Absent /\
                                (id[1] = f \/ <<f, id[1]>> \in Prefix)}
    /\ walked' = [walked EXCEPT ![f] = disk[f]]
    /\ UNCHANGED <<pc, batch>> /\ NoFault

Queue(f) ==
    LET items == Items(f, disk[f]) IN
    /\ disk[f] # Absent /\ ~Unchanged(f)
    /\ batch' = [id \in DOMAIN items \cup DOMAIN batch |->
                    IF id \in DOMAIN items THEN items[id] ELSE batch[id]]
    /\ seen' = seen \cup DOMAIN items
    /\ walked' = [walked EXCEPT ![f] = disk[f]]
    /\ Goto(IF Cardinality(DOMAIN batch') < BatchSize THEN "walk" ELSE "commit")
    /\ NoFault

Vanished(f) ==
    /\ disk[f] = Absent
    /\ UNCHANGED <<pc, batch, seen, walked>> /\ NoFault

ParseFail(f) ==
    /\ disk[f] # Absent
    /\ Fault("parse")
    /\ UNCHANGED <<pc, batch, seen, walked>>

TakeFile(f) ==
    /\ pc = "walk" /\ f \in todo
    /\ todo' = todo \ {f}
    /\ Skip(f) \/ Queue(f) \/ Vanished(f) \/ ParseFail(f)
    /\ UNCHANGED <<stores, repo, failures, force, sync, pending, cur>>

(* Fault: what is left in the batch after the loop is dropped.             *)
LastFlushForgotten ==
    /\ pc = "walk" /\ todo = {} /\ batch # NoBatch
    /\ batch' = NoBatch
    /\ UNCHANGED <<stores, repo, failures, pc, force, sync, todo, seen, pending,
                   cur, walked>>
    /\ NoFault

LastFlush ==
    /\ pc = "walk" /\ todo = {} /\ batch # NoBatch
    /\ Goto("commit")
    /\ UNCHANGED <<stores, repo, failures, cycleVars>> /\ NoFault

(***************************************************************************)
(* _flush_batch: one SQLite transaction, then Chroma in capped calls; any  *)
(* exception sends the whole batch through upsert_document, item by item.  *)
(***************************************************************************)
flushUnchanged == UNCHANGED <<repo, failures, force, sync, todo, seen, walked>>

CommitBatch ==
    /\ pc = "commit"
    /\ WriteRows(batch)
    /\ pending' = VectorIds(batch)
    /\ Goto("vectors")
    /\ UNCHANGED <<dense, batch, cur>> /\ flushUnchanged /\ NoFault

CommitBatchFail ==
    /\ pc = "commit"
    /\ Fault("sqlite")
    /\ pending' = DOMAIN batch
    /\ Goto("retry")
    /\ UNCHANGED <<stores, batch, cur>> /\ flushUnchanged

SendVectors ==
    /\ pc = "vectors"
    /\ \E S \in SUBSET pending :
        /\ S # {}
        /\ S = pending \/ Cardinality(S) = DenseBatch
        /\ Cardinality(S) <= DenseBatch
        /\ WriteVectors(batch, S)
        /\ pending' = pending \ S
    /\ UNCHANGED <<docs, fts, pc, batch, cur>> /\ flushUnchanged /\ NoFault

SendVectorsFail ==
    /\ pc = "vectors" /\ pending # {}
    /\ Fault("dense")
    /\ pending' = DOMAIN batch
    /\ Goto("retry")
    /\ UNCHANGED <<stores, batch, cur>> /\ flushUnchanged

FlushDone ==
    /\ pc \in {"vectors", "retry"} /\ pending = {}
    /\ batch' = NoBatch
    /\ Goto("walk")
    /\ UNCHANGED <<stores, pending, cur>> /\ flushUnchanged /\ NoFault

(* The fallback takes a file's items in order, its parent first.           *)
NextRetry(id) ==
    /\ pc = "retry" /\ id \in pending
    /\ \A k \in 0..MaxChunk : <<id[1], k>> \in pending => id[2] <= k

RetryRow(id) ==
    /\ NextRetry(id)
    /\ WriteRows([i \in {id} |-> batch[id]])
    /\ IF Searchable(id, batch[id])
       THEN cur' = id /\ Goto("retryVector") /\ UNCHANGED pending
       ELSE pending' = pending \ {id} /\ UNCHANGED <<pc, cur>>
    /\ UNCHANGED <<dense, batch>> /\ flushUnchanged /\ NoFault

RetryRowFail(id) ==
    /\ NextRetry(id)
    /\ Fault("sqlite")
    /\ pending' = pending \ {id}
    /\ UNCHANGED <<stores, pc, batch, cur>> /\ flushUnchanged

RetryVector ==
    /\ pc = "retryVector"
    /\ \/ WriteVectors(batch, {cur}) /\ NoFault
       \/ UNCHANGED dense /\ Fault("dense")
    /\ pending' = pending \ {cur}
    /\ cur' = Absent
    /\ Goto("retry")
    /\ UNCHANGED <<docs, fts, batch>> /\ flushUnchanged

(***************************************************************************)
(* Stale documents: what the table holds and this walk has not seen.       *)
(***************************************************************************)
(* Fault: only parent documents are compared.                              *)
PruneBeginParents ==
    /\ pc = "walk" /\ todo = {} /\ batch = NoBatch
    /\ pending' = {id \in Ids : docs[id] # Absent /\ id[2] = 0} \ seen
    /\ Goto("prune")
    /\ UNCHANGED <<stores, batch, cur>> /\ flushUnchanged /\ NoFault

(* Fault: the removal comes before the last flush.                         *)
PruneBeginEarly ==
    /\ pc = "walk" /\ todo = {}
    /\ pending' = {id \in Ids : docs[id] # Absent} \ seen
    /\ Goto("prune")
    /\ UNCHANGED <<stores, batch, cur>> /\ flushUnchanged /\ NoFault

PruneBegin ==
    /\ pc = "walk" /\ todo = {} /\ batch = NoBatch
    /\ pending' = {id \in Ids : docs[id] # Absent} \ seen
    /\ Goto("prune")
    /\ UNCHANGED <<stores, batch, cur>> /\ flushUnchanged /\ NoFault

(* The ids cannot be read: nothing is removed this time.                   *)
PruneBeginFail ==
    /\ pc = "walk" /\ todo = {} /\ batch = NoBatch
    /\ Fault("sqlite")
    /\ Goto("done")
    /\ UNCHANGED <<stores, pending, batch, cur>> /\ flushUnchanged

PruneRow(id) ==
    /\ pc = "prune" /\ id \in pending
    /\ DeleteRow(id)
    /\ cur' = id
    /\ Goto("pruneVector")
    /\ UNCHANGED <<dense, pending, batch>> /\ flushUnchanged /\ NoFault

PruneRowFail(id) ==
    /\ pc = "prune" /\ id \in pending
    /\ Fault("sqlite")
    /\ pending' = pending \ {id}
    /\ UNCHANGED <<stores, pc, batch, cur>> /\ flushUnchanged

PruneVector ==
    /\ pc = "pruneVector"
    /\ \/ DeleteVector(cur) /\ NoFault
       \/ UNCHANGED dense /\ Fault("dense")
    /\ pending' = pending \ {cur}
    /\ cur' = Absent
    /\ Goto("prune")
    /\ UNCHANGED <<docs, fts, batch>> /\ flushUnchanged

PruneDone ==
    /\ pc = "prune" /\ pending = {}
    /\ Goto("done")
    /\ UNCHANGED <<stores, pending, batch, cur>> /\ flushUnchanged /\ NoFault

Finish ==
    /\ pc = "done"
    /\ Forget
    /\ UNCHANGED <<stores, repo, failures>> /\ NoFault

-----------------------------------------------------------------------------
WorkerStep ==
    \/ SyncLocal \/ CloneBegin \/ RecloneBegin \/ CloneInit \/ CloneDone
    \/ CloneFail \/ SyncInvalid \/ Fetch \/ FetchFail
    \/ SyncRaise \/ SyncUnrecorded
    \/ ShortCircuit \/ Enumerate \/ EnumerateFail
    \/ \E f \in Files : TakeFile(f)
    \/ LastFlush \/ CommitBatch \/ CommitBatchFail
    \/ SendVectors \/ SendVectorsFail \/ FlushDone
    \/ \E id \in Ids : RetryRow(id) \/ RetryRowFail(id)
    \/ RetryVector
    \/ PruneBegin \/ PruneBeginFail
    \/ \E id \in Ids : PruneRow(id) \/ PruneRowFail(id)
    \/ PruneVector \/ PruneDone \/ Finish

Environment ==
    \/ \E f \in Files, v \in Cell : Edit(f, v)
    \/ CorruptClone \/ WipeVectors \/ Crash

Next == WorkerStep \/ (\E f \in BOOLEAN : StartCycle(f)) \/ Environment

(***************************************************************************)
(* The scheduler keeps starting cycles and a worker that runs makes        *)
(* progress (Supervisor: the one that does not is killed, a Crash here,    *)
(* unless its caller lost it).                                             *)
(* Nobody has to ask for force.                                            *)
(***************************************************************************)
Spec == Init /\ [][Next]_vars
FairSpec == Spec /\ WF_vars(WorkerStep) /\ WF_vars(StartCycle(FALSE))

\* chunks_fts holds the text of exactly the chunks documents holds, at every
\* step of a cycle, crashes included (knowledge_base.py:379, "Keep FTS5 in
\* sync"); an older release's database is caught up on opening.  The one
\* exception is a chunk that became empty: its old text stays searchable.
FtsMirrorsDocs ==
    pc # "idle" =>
        \A id \in ChunkIds : docs[id] \in Blank \/ fts[id] = Entries(docs)[id]

\* When a walk ends without a fault, the parent documents, which the next
\* cycle's skip decision trusts, are those of the files the walk parsed:
\* none missing, none stale, none of a file that is gone, whatever crash or
\* failure came before.  A document outlives its file only where the path of
\* a file that was parsed is a prefix of its own.
Shielded(f, tree) == \E g \in Files : tree[g] # Absent /\ <<g, f>> \in Prefix
ParentsOf(tree) ==
    \A f \in Files : \/ docs[Parent(f)] = tree[f]
                     \/ tree[f] = Absent /\ Shielded(f, tree)
ParentsMatchWalk == pc = "done" /\ clean => ParentsOf(walked)

\* A forced cycle that ends without a fault repairs what earlier crashes and
\* failures left: every row is that of the files it parsed, and every chunk
\* with a text has its vector and its full-text entry.  A chunk without one
\* keeps what the two indexes held of it, even then (knowledge_base.py:378,
\* 393: empty content is neither indexed nor embedded).
ForceRepairs ==
    pc = "done" /\ clean /\ force =>
        /\ docs = Rows(walked)
        /\ \A id \in ChunkIds :
              Entries(docs)[id] # Absent =>
                /\ dense[id] = Entries(docs)[id]
                /\ fts[id] = Entries(docs)[id]

\* A Chroma outage costs the keyword side nothing: after a full walk the
\* rows are those of the files parsed, however many Chroma calls failed
\* (the batch is already committed, the fallback writes it again).
RowsMatchWalk == pc = "done" /\ onlyDense => docs = Rows(walked)

Removed(f) == docs[Parent(f)] # Absent /\ docs'[Parent(f)] = Absent

\* A document disappears only when this cycle did not parse its file, and
\* only after the cycle's own writes: a fault-free cycle has all the files
\* it parsed in the table before it takes anything away.
RemovedOnlyWhenUnseen ==
    [][\A f \in Files : Removed(f) =>
          /\ walked[f] = Absent
          /\ clean => \A g \in Files : walked[g] # Absent =>
                          docs[Parent(g)] = walked[g]]_vars

\* A remote source loses documents to a cycle nobody forced only when its
\* clone is a checkout: a clone that failed, was killed or is being made
\* anew has no files, and must not be taken for an emptied repository.
RemovedOnlyFromACheckout ==
    [][\A f \in Files :
          Remote /\ ~force /\ Removed(f) => clone = "valid"]_vars

\* The worker implements Index, for all documents at once: no step of a cycle
\* writes a row but with the version this cycle parsed of the row's file, none
\* removes a row that this calls for or anything before all of it is stored,
\* and one that ends its walk without a fault leaves just that, whatever
\* crashes and failures came before (run_once, _flush_batch).
Phase == IF pc = "idle" THEN "idle"
         ELSE IF pc \in {"sync", "cloning", "recloning", "synced"} THEN "sync"
         ELSE "walk"
Index == INSTANCE Index WITH
    rows <- docs, phase <- Phase, forced <- force, read <- walked
ImplementsIndex == Index!Spec

\* Once edits and faults are over, the parent documents come to agree with
\* the files, and stay so.
Source == IF Remote THEN origin ELSE disk
EventuallyIndexed == <>[]ParentsOf(Source)

\* ... and when Chroma was all that ever failed, so do all rows.
EventuallyAllRows == []onlyDense => <>[](docs = Rows(Source))
=============================================================================
