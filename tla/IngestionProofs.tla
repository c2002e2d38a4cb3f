--------------------------- MODULE IngestionProofs --------------------------
(***************************************************************************)
(* Proofs about Ingestion, for any files, versions, batch sizes, faults    *)
(* and edits.                                                              *)
(***************************************************************************)
EXTENDS Ingestion, TLAPS

\* What the loop at hand has left is in the batch it works on.
PendingInBatch ==
    /\ pc \in {"vectors", "retry", "retryVector"} =>
         pending \subseteq DOMAIN batch
    /\ pc = "retryVector" => cur \in pending
    /\ pc = "pruneVector" => cur \in pending

\* The counters are bounded by those of the environment.
Counted == failures <= faults /\ rev <= edits /\ head <= rev

TypeInv == TypeOK /\ PendingInBatch /\ Counted

-----------------------------------------------------------------------------
(***************************************************************************)
(* The stores keep their types under each of their operations.             *)
(***************************************************************************)
LEMMA WriteRowsType ==
  ASSUME StoresTypeOK, NEW items, WriteRows(items),
         \A id \in DOMAIN items : items[id] \in Versions
  PROVE  docs' \in [Ids -> Cell] /\ fts' \in [ChunkIds -> Cell]
BY DEF StoresTypeOK, WriteRows, Cell

LEMMA WriteVectorsType ==
  ASSUME StoresTypeOK, NEW items, NEW S, WriteVectors(items, S),
         \A id \in S : items[id] \in Versions
  PROVE  dense' \in [ChunkIds -> Cell]
BY DEF StoresTypeOK, WriteVectors, Cell

LEMMA DeleteType ==
  ASSUME StoresTypeOK, NEW id
  PROVE  /\ DeleteRow(id) => /\ docs' \in [Ids -> Cell]
                             /\ fts' \in [ChunkIds -> Cell]
         /\ DeleteVector(id) => dense' \in [ChunkIds -> Cell]
BY DEF StoresTypeOK, DeleteRow, DeleteVector, Cell

LEMMA EntriesType ==
  ASSUME NEW rows \in [Ids -> Cell]
  PROVE  Entries(rows) \in [ChunkIds -> Cell]
<1>1. ChunkIds \subseteq Ids
  BY ContentAssumption DEF ChunkIds, Ids
<1> QED
  BY <1>1 DEF Entries, Cell

LEMMA RowsType ==
  ASSUME NEW tree \in Trees
  PROVE  Rows(tree) \in [Ids -> Cell]
BY DEF Rows, Trees, Ids, Cell

LEMMA ItemsType ==
  ASSUME NEW f \in Files, NEW v \in Versions
  PROVE  /\ DOMAIN Items(f, v) \subseteq Ids
         /\ \A id \in DOMAIN Items(f, v) : Items(f, v)[id] = v
BY ContentAssumption DEF Items, Ids

LEMMA ParentIsId ==
  ASSUME NEW f \in Files
  PROVE  Parent(f) \in Ids
BY ContentAssumption DEF Parent, Ids

LEMMA InitTypes == Init => TypeInv
<1> SUFFICES ASSUME Init PROVE TypeInv
  OBVIOUS
<1> USE ContentAssumption, IngestionAssumption DEF Init
<1>1. NoRows \in [Ids -> Cell] /\ NoEntries \in [ChunkIds -> Cell]
  BY DEF NoRows, NoEntries, Cell
<1>2. NoFiles \in Trees
  BY DEF NoFiles, Trees, Cell
<1>3. docs \in [Ids -> Cell]
  BY <1>1, RowsType
<1>4. StoresTypeOK
  BY <1>1, <1>3, EntriesType DEF StoresTypeOK
<1>5. disk \in Trees /\ clone \in {"missing", "valid"}
  BY <1>2
<1>6. /\ DOMAIN batch \subseteq Ids
      /\ \A id \in DOMAIN batch : batch[id] \in Versions
  BY DEF NoBatch
<1>7. rev \in 0..MaxEdits /\ head \in 0..MaxEdits /\ edits \in 0..MaxEdits
      /\ failures \in 0..MaxFaults /\ faults \in 0..MaxFaults
  OBVIOUS
<1>8. origin \in Trees /\ walked \in Trees
  BY <1>2
<1>9. TypeOK
  BY <1>4, <1>5, <1>6, <1>7, <1>8 DEF TypeOK
<1> QED
  BY <1>9 DEF TypeInv, PendingInBatch, Counted

-----------------------------------------------------------------------------
(***************************************************************************)
(* Every step keeps the types.  What most steps share: a step is within    *)
(* the budgets, and the cycle's locals may be forgotten.                   *)
(***************************************************************************)
LEMMA BudgetType ==
  ASSUME TypeInv, NEW kind, NoFault \/ Fault(kind)
  PROVE  /\ clean' \in BOOLEAN /\ onlyDense' \in BOOLEAN
         /\ faults' \in faults..MaxFaults
         /\ edits' = edits
<1> USE DEF TypeInv, TypeOK
<1>1. CASE NoFault
  <2>1. /\ clean' = clean /\ faults' = faults /\ edits' = edits
        /\ onlyDense' = onlyDense
    BY <1>1 DEF NoFault, budget
  <2> QED
    BY <2>1, IngestionAssumption
<1>2. CASE Fault(kind)
  <2>1. clean' = FALSE /\ onlyDense' \in BOOLEAN
    BY <1>2 DEF Fault
  <2>2. faults' \in faults..MaxFaults /\ edits' = edits
    BY <1>2, IngestionAssumption DEF Fault
  <2> QED
    BY <2>1, <2>2
<1> QED
  BY <1>1, <1>2

LEMMA ForgetType ==
  ASSUME Forget
  PROVE  /\ pc' = "idle" /\ force' = FALSE /\ sync' = "none"
         /\ walked' \in Trees
         /\ todo' = {} /\ seen' = {} /\ pending' = {} /\ cur' = Absent
         /\ DOMAIN batch' = {}
BY DEF Forget, NoFiles, Trees, Cell, NoBatch

LEMMA SyncKeepsTypes ==
  ASSUME TypeInv,
         \/ SyncLocal \/ CloneBegin \/ RecloneBegin \/ CloneInit \/ CloneDone
         \/ CloneFail \/ SyncInvalid \/ Fetch \/ FetchFail
         \/ SyncRaise \/ SyncUnrecorded
  PROVE  TypeInv'
<1> USE IngestionAssumption, BudgetType DEF TypeInv, Counted, PendingInBatch, Goto
<1>1. NoFiles \in Trees
  BY DEF NoFiles, Trees, Cell
<1>2. ASSUME NEW r \in {"changed", "unchanged", "failed"}, Synced(r),
             disk' \in Trees, head' \in {head, rev},
             clone' \in {"missing", "invalid", "valid", "corrupt"},
             NoFault \/ Fault("sync")
      PROVE  TypeInv'
  BY <1>2 DEF Synced, TypeOK, StoresTypeOK, stores
<1>3. CASE SyncLocal BY <1>2, <1>3 DEF SyncLocal, TypeOK
<1>4. CASE CloneBegin
  BY <1>4 DEF CloneBegin, TypeOK, StoresTypeOK, stores, cycleVars
<1>5. CASE RecloneBegin
  BY <1>1, <1>5 DEF RecloneBegin, TypeOK, StoresTypeOK, stores, cycleVars
<1>6. CASE CloneDone BY <1>2, <1>6 DEF CloneDone, TypeOK
<1>7. CASE CloneFail BY <1>2, <1>7 DEF CloneFail, TypeOK
<1>8. CASE SyncInvalid BY <1>2, <1>8 DEF SyncInvalid, TypeOK
<1>9. CASE Fetch BY <1>2, <1>9 DEF Fetch, TypeOK
<1>10. CASE FetchFail BY <1>2, <1>10 DEF FetchFail, TypeOK
<1>11. CASE SyncRaise \/ SyncUnrecorded
  <2>1. failures' \in 0..MaxFaults /\ failures' <= faults'
        /\ faults' \in 0..MaxFaults /\ edits' = edits
    BY <1>11 DEF SyncRaise, SyncUnrecorded, Fault, TypeOK
  <2>2. /\ Forget /\ UNCHANGED <<stores, origin, rev>>
        /\ clean' \in BOOLEAN /\ onlyDense' \in BOOLEAN
        /\ disk' \in Trees /\ head' \in {head, rev}
        /\ clone' \in {clone, "valid"}
    BY <1>11 DEF SyncRaise, SyncUnrecorded, repo, Fault, TypeOK
  <2>3. TypeOK'
    BY <2>1, <2>2, ForgetType DEF TypeOK, StoresTypeOK, stores
  <2> QED
    BY <2>1, <2>2, <2>3, ForgetType DEF TypeOK
<1>12. CASE CloneInit
  BY <1>12 DEF CloneInit, TypeOK, StoresTypeOK, stores, cycleVars
<1> QED
  BY <1>3, <1>4, <1>5, <1>6, <1>7, <1>8, <1>9, <1>10, <1>11, <1>12

LEMMA WalkKeepsTypes ==
  ASSUME TypeInv,
         \/ ShortCircuit \/ Enumerate \/ EnumerateFail \/ Finish
         \/ \E f \in Files : TakeFile(f)
         \/ LastFlush
  PROVE  TypeInv'
<1> USE IngestionAssumption, BudgetType
    DEF TypeInv, TypeOK, StoresTypeOK, stores, repo, Counted, PendingInBatch,
        Goto
<1>1. CASE ShortCircuit \/ EnumerateFail \/ Finish
  <2>1. Forget /\ UNCHANGED <<stores, repo, failures>>
        /\ (NoFault \/ Fault("list"))
    BY <1>1 DEF ShortCircuit, EnumerateFail, Finish
  <2>2. /\ clean' \in BOOLEAN /\ onlyDense' \in BOOLEAN
        /\ faults' \in faults..MaxFaults /\ edits' = edits
    BY <2>1
  <2> HIDE BudgetType
  <2> QED
    BY <2>1, <2>2, ForgetType
<1>2. CASE Enumerate BY <1>2 DEF Enumerate
<1>3. ASSUME NEW f \in Files, TakeFile(f) PROVE TypeInv'
  <2>1. disk[f] \in Versions \/ disk[f] = Absent
    BY DEF Trees, Cell
  <2>2. ASSUME disk[f] \in Versions,
               walked' = [walked EXCEPT ![f] = disk[f]] \/ walked' = walked
        PROVE  walked' \in Trees
    BY <2>2 DEF Trees, Cell
  <2>3. CASE Skip(f)
    <3>1. disk[f] \in Versions
      BY <2>1, <2>3 DEF Skip
    <3>2. seen' \subseteq Ids
      BY <2>3, ContentAssumption DEF Skip, Parent, Ids
    <3>3. walked' \in Trees
      BY <2>2, <2>3, <3>1 DEF Skip
    <3> QED BY <1>3, <2>3, <3>2, <3>3 DEF TakeFile, Skip
  <2>4. CASE Queue(f)
    <3>1. disk[f] \in Versions
      BY <2>1, <2>4 DEF Queue
    <3>2. /\ DOMAIN batch' \subseteq Ids
          /\ \A id \in DOMAIN batch' : batch'[id] \in Versions
          /\ seen' \subseteq Ids
      BY <2>4, <3>1, ItemsType DEF Queue
    <3>3. pc' \in {"walk", "commit"} /\ NoFault
      BY <2>4 DEF Queue
    <3>4. walked' \in Trees
      BY <2>2, <2>4, <3>1 DEF Queue
    <3> QED BY <1>3, <3>2, <3>3, <3>4 DEF TakeFile
  <2>5. CASE Vanished(f) \/ ParseFail(f)
    BY <1>3, <2>5 DEF TakeFile, Vanished, ParseFail
  <2> QED BY <1>3, <2>3, <2>4, <2>5 DEF TakeFile
<1>4. CASE LastFlush BY <1>4 DEF LastFlush, cycleVars
<1> QED
  BY <1>1, <1>2, <1>3, <1>4

LEMMA FlushKeepsTypes ==
  ASSUME TypeInv,
         \/ CommitBatch \/ CommitBatchFail \/ SendVectors \/ SendVectorsFail
         \/ FlushDone \/ RetryVector
         \/ \E id \in Ids : RetryRow(id) \/ RetryRowFail(id)
  PROVE  TypeInv'
<1> USE IngestionAssumption, BudgetType
    DEF TypeInv, TypeOK, StoresTypeOK, stores, repo, Counted, PendingInBatch,
        Goto, flushUnchanged
<1>1. CASE CommitBatch
  <2>1. docs' \in [Ids -> Cell] /\ fts' \in [ChunkIds -> Cell]
    BY <1>1, WriteRowsType DEF CommitBatch
  <2> QED
    BY <1>1, <2>1 DEF CommitBatch, VectorIds
<1>2. CASE CommitBatchFail BY <1>2 DEF CommitBatchFail
<1>3. CASE SendVectors
  <2>1. PICK S \in SUBSET pending :
          WriteVectors(batch, S) /\ pending' = pending \ S
    BY <1>3 DEF SendVectors
  <2>2. dense' \in [ChunkIds -> Cell]
    BY <1>3, <2>1, WriteVectorsType DEF SendVectors
  <2> QED
    BY <1>3, <2>1, <2>2 DEF SendVectors
<1>4. CASE SendVectorsFail BY <1>4 DEF SendVectorsFail
<1>5. CASE FlushDone BY <1>5 DEF FlushDone, NoBatch
<1>6. CASE RetryVector
  <2>1. dense' \in [ChunkIds -> Cell]
    BY <1>6, WriteVectorsType DEF RetryVector
  <2> QED
    BY <1>6, <2>1 DEF RetryVector
<1>7. ASSUME NEW id \in Ids, RetryRow(id) PROVE TypeInv'
  <2>1. id \in pending /\ pc = "retry"
    BY <1>7 DEF RetryRow, NextRetry
  <2>2. docs' \in [Ids -> Cell] /\ fts' \in [ChunkIds -> Cell]
    BY <1>7, <2>1, WriteRowsType DEF RetryRow
  <2>3. \/ cur' = id /\ pc' = "retryVector" /\ UNCHANGED pending
        \/ pending' = pending \ {id} /\ UNCHANGED <<pc, cur>>
    BY <1>7 DEF RetryRow
  <2> QED
    BY <1>7, <2>1, <2>2, <2>3 DEF RetryRow
<1>8. ASSUME NEW id \in Ids, RetryRowFail(id) PROVE TypeInv'
  BY <1>8 DEF RetryRowFail, NextRetry
<1> QED
  BY <1>1, <1>2, <1>3, <1>4, <1>5, <1>6, <1>7, <1>8

LEMMA PruneKeepsTypes ==
  ASSUME TypeInv,
         \/ PruneBegin \/ PruneBeginFail \/ PruneVector \/ PruneDone
         \/ \E id \in Ids : PruneRow(id) \/ PruneRowFail(id)
  PROVE  TypeInv'
<1> USE IngestionAssumption, BudgetType
    DEF TypeInv, TypeOK, StoresTypeOK, stores, repo, Counted, PendingInBatch,
        Goto, flushUnchanged
<1>1. CASE PruneBegin \/ PruneBeginFail
  BY <1>1 DEF PruneBegin, PruneBeginFail
<1>2. CASE PruneVector
  <2>1. dense' \in [ChunkIds -> Cell]
    BY <1>2, DeleteType DEF PruneVector
  <2> QED
    BY <1>2, <2>1 DEF PruneVector
<1>3. CASE PruneDone BY <1>3 DEF PruneDone
<1>4. ASSUME NEW id \in Ids, PruneRow(id) PROVE TypeInv'
  <2>1. docs' \in [Ids -> Cell] /\ fts' \in [ChunkIds -> Cell]
    BY <1>4, DeleteType DEF PruneRow
  <2> QED
    BY <1>4, <2>1 DEF PruneRow
<1>5. ASSUME NEW id \in Ids, PruneRowFail(id) PROVE TypeInv'
  BY <1>5 DEF PruneRowFail
<1> QED
  BY <1>1, <1>2, <1>3, <1>4, <1>5

LEMMA EnvironmentKeepsTypes ==
  ASSUME TypeInv, Environment \/ \E f \in BOOLEAN : StartCycle(f)
  PROVE  TypeInv'
<1> USE IngestionAssumption, BudgetType
    DEF TypeInv, TypeOK, StoresTypeOK, stores, repo, Counted, PendingInBatch,
        Goto, cycleVars
<1>1. ASSUME NEW f \in Files, NEW v \in Cell, Edit(f, v) PROVE TypeInv'
  BY <1>1 DEF Edit, Trees
<1>2. CASE CorruptClone BY <1>2 DEF CorruptClone
<1>3. CASE WipeVectors
  <2>1. dense' \in [ChunkIds -> Cell]
    BY <1>3 DEF WipeVectors, NoEntries, Cell
  <2> QED
    BY <1>3, <2>1 DEF WipeVectors
<1>4. CASE Crash BY <1>4, ForgetType DEF Crash
<1>5. ASSUME NEW f \in BOOLEAN, StartCycle(f) PROVE TypeInv'
  <2>1. fts' \in [ChunkIds -> Cell]
    BY <1>5, EntriesType DEF StartCycle, BackfillFts
  <2> QED
    BY <1>5, <2>1 DEF StartCycle, budget
<1> QED
  BY <1>1, <1>2, <1>3, <1>4, <1>5 DEF Environment

LEMMA StepTypes == TypeInv /\ [Next]_vars => TypeInv'
<1> SUFFICES ASSUME TypeInv, [Next]_vars PROVE TypeInv'
  OBVIOUS
<1>1. CASE WorkerStep
  BY <1>1, SyncKeepsTypes, WalkKeepsTypes, FlushKeepsTypes, PruneKeepsTypes
     DEF WorkerStep
<1>2. CASE Environment \/ \E f \in BOOLEAN : StartCycle(f)
  BY <1>2, EnvironmentKeepsTypes
<1>3. CASE UNCHANGED vars
  BY <1>3 DEF vars, stores, repo, budget, TypeInv, TypeOK, StoresTypeOK,
     Counted, PendingInBatch
<1> QED
  BY <1>1, <1>2, <1>3 DEF Next

\* The inductive form of TypeCorrect.
THEOREM TypesInvariant == Spec => []TypeInv
BY InitTypes, StepTypes, PTL DEF Spec

\* Every variable of the ingestion cycle keeps its type.
THEOREM TypeCorrect == Spec => []TypeOK
<1>1. TypeInv => TypeOK
  BY DEF TypeInv
<1> QED
  BY <1>1, TypesInvariant, PTL

-----------------------------------------------------------------------------
(***************************************************************************)
(* The full-text table.  It can be behind only before the first cycle of   *)
(* this release has opened the database.                                   *)
(***************************************************************************)
FtsRight ==
    \A id \in ChunkIds : docs[id] \in Blank \/ fts[id] = Entries(docs)[id]
FtsInv == \/ FtsRight
          \/ pc = "idle" /\ fts = NoEntries

(***************************************************************************)
(* The walk.  seen stands for the files parsed, the batch holds what the   *)
(* table does not have yet, and what is to be removed was not seen.        *)
(***************************************************************************)
BeforeWalk == {"idle", "sync", "cloning", "recloning", "synced"}
Pruning == {"prune", "pruneVector"}

\* seen and the batch are of files that the loop has taken.
TakenOnly ==
    /\ pc \in BeforeWalk => walked = NoFiles /\ batch = NoBatch /\ seen = {}
    /\ \A f \in todo : walked[f] = Absent
    /\ \A id \in DOMAIN batch : id[1] \notin todo
    /\ \A f \in Files : walked[f] # Absent => Parent(f) \in seen
    /\ pc \in Pruning => pending \cap seen = {}

\* A fault-free cycle has every parsed file in the table or in the batch.
Written(f) == docs[Parent(f)] = walked[f]
Queued(f) == IF Parent(f) \in DOMAIN batch THEN batch[Parent(f)] = walked[f]
             ELSE Written(f)
WrittenOrQueued ==
    clean =>
        /\ pc \notin {"retry", "retryVector"}
        /\ \A f \in Files : walked[f] # Absent =>
              IF pc \in {"walk", "commit"} THEN Queued(f) ELSE Written(f)

\* ... and will remove the parents of all other files, but for those whose
\* path has the path of a parsed file as a prefix.
Kept(f) == walked[f] # Absent \/ Shielded(f, walked)
SeenIsWalked == \A f \in Files : Parent(f) \in seen => Kept(f)
RemovedOrPending ==
    clean =>
        /\ pc = "pruneVector" => docs[cur] = Absent
        /\ pc \in Pruning \cup {"done"} =>
             \A f \in Files : ~Kept(f) /\ docs[Parent(f)] # Absent
                               => pc # "done" /\ Parent(f) \in pending

(***************************************************************************)
(* The clone: a cycle nobody forced walks a checkout.                      *)
(***************************************************************************)
CheckoutInv ==
    /\ Remote /\ ~force
    /\ pc \in BeforeWalk => pc = "synced" /\ sync = "changed"
    => clone = "valid"

(***************************************************************************)
(* All rows and vectors.  A cycle is whole when it was forced and no fault *)
(* has happened in it, or when only Chroma calls ever failed and no path   *)
(* is a prefix of another: it then sees just what the parsed files call    *)
(* for.                                                                    *)
(***************************************************************************)
Forced == clean /\ force
KeywordOnly == onlyDense /\ Prefix = {}
Whole == Forced \/ KeywordOnly

Called(tree) == {id \in Ids : Rows(tree)[id] # Absent}

\* Every row called for is in the table or queued, and the rest is left to
\* be removed.
RowsWhole ==
    /\ seen = Called(walked)
    /\ \A id \in DOMAIN batch : id \in seen /\ batch[id] = Rows(walked)[id]
    /\ \A id \in seen : \/ docs[id] = Rows(walked)[id]
                        \/ pc \in {"walk", "commit"} /\ id \in DOMAIN batch
    /\ pc = "pruneVector" => docs[cur] = Absent
    /\ pc \in Pruning \cup {"done"} =>
         \A id \in Ids \ seen : docs[id] # Absent => pc # "done" /\ id \in pending

\* ... and so is its vector.
Embedded(id) == dense[id] = Rows(walked)[id]
VectorsWhole ==
    \A id \in seen : Searchable(id, Rows(walked)[id]) =>
        CASE pc \in {"walk", "commit"} -> id \in DOMAIN batch \/ Embedded(id)
          [] pc = "vectors"            -> id \in pending \/ Embedded(id)
          [] OTHER                     -> Embedded(id)

\* The table has a file's rows all of one version, until the cycle parses
\* the file or removes what is stale.
OfOneVersion(f) ==
    \A k \in 0..MaxChunk :
        LET v == docs[Parent(f)]
        IN  docs[<<f, k>>] = IF v # Absent /\ k <= ChunksOf[v] THEN v ELSE Absent
UntakenWhole ==
    pc \notin Pruning \cup {"done"} =>
        \A f \in Files : walked[f] = Absent => OfOneVersion(f)

WholeInv ==
    /\ Whole => RowsWhole
    /\ Forced => VectorsWhole
    /\ KeywordOnly => UntakenWhole

-----------------------------------------------------------------------------
(***************************************************************************)
(* Three kinds of step that leave most of this alone.                      *)
(***************************************************************************)
\* A cycle on its way to the walk, and one that ends or is killed.
LEMMA ForgetIsBlank ==
  ASSUME Forget
  PROVE  pc' = "idle" /\ walked' = NoFiles /\ batch' = NoBatch /\ seen' = {}
         /\ todo' = {} /\ pending' = {}
BY DEF Forget

SyncStep ==
    \/ SyncLocal \/ CloneBegin \/ RecloneBegin \/ CloneInit \/ CloneDone
    \/ CloneFail \/ SyncInvalid \/ Fetch \/ FetchFail
EndStep ==
    \/ SyncRaise \/ SyncUnrecorded \/ ShortCircuit \/ EnumerateFail
    \/ Finish \/ Crash
IdleStep == CorruptClone \/ WipeVectors \/ \E f \in BOOLEAN : StartCycle(f)
FlushStep ==
    \/ CommitBatch \/ CommitBatchFail \/ SendVectors \/ SendVectorsFail
    \/ FlushDone \/ RetryVector
    \/ \E id \in Ids : RetryRow(id) \/ RetryRowFail(id)
PruneStep ==
    \/ PruneVector \/ PruneDone
    \/ \E id \in Ids : PruneRow(id) \/ PruneRowFail(id)
EditStep == \E f \in Files, v \in Cell : Edit(f, v)

LEMMA NextCases ==
  Next <=> \/ SyncStep \/ EndStep \/ IdleStep \/ FlushStep \/ PruneStep
           \/ EditStep \/ Enumerate \/ (\E f \in Files : TakeFile(f))
           \/ LastFlush \/ PruneBegin \/ PruneBeginFail
BY DEF Next, WorkerStep, Environment, SyncStep, EndStep, IdleStep, FlushStep,
   PruneStep, EditStep

LEMMA SyncStepEffect ==
  ASSUME SyncStep
  PROVE  /\ {pc, pc'} \subseteq BeforeWalk \ {"idle"}
         /\ UNCHANGED <<stores, force, todo, seen, batch, pending, walked>>
BY DEF SyncStep, SyncLocal, CloneBegin, RecloneBegin, CloneInit, CloneDone,
   CloneFail, SyncInvalid, Fetch, FetchFail, Synced, Goto, cycleVars, BeforeWalk, stores

LEMMA EndStepEffect ==
  ASSUME EndStep
  PROVE  Forget /\ UNCHANGED stores
BY DEF EndStep, SyncRaise, SyncUnrecorded, ShortCircuit, EnumerateFail, Finish, Crash

LEMMA IdleStepEffect ==
  ASSUME IdleStep
  PROVE  /\ pc = "idle" /\ pc' \in {"idle", "sync"}
         /\ UNCHANGED <<docs, todo, seen, batch, pending, walked>>
BY DEF IdleStep, CorruptClone, WipeVectors, StartCycle, Goto, cycleVars, stores

LEMMA EditStepEffect ==
  ASSUME EditStep
  PROVE  UNCHANGED <<stores, clone, pc, cycleVars, clean>>
<1>1. PICK f \in Files, v \in Cell : Edit(f, v)
  BY DEF EditStep
<1>2. UNCHANGED <<stores, head, clone, failures, pc, cycleVars, clean, faults>>
  BY <1>1 DEF Edit
<1> QED
  BY <1>2

LEMMA FlushStepEffect ==
  ASSUME FlushStep
  PROVE  /\ pc \in {"commit", "vectors", "retry", "retryVector"}
         /\ pc' \in {"vectors", "retry", "retryVector", "walk"}
         /\ UNCHANGED <<clone, force, sync, todo, seen, walked>>
         /\ batch' \in {batch, NoBatch}
BY DEF FlushStep, CommitBatch, CommitBatchFail, SendVectors, SendVectorsFail,
   FlushDone, RetryVector, RetryRow, RetryRowFail, NextRetry, flushUnchanged,
   Goto, repo

LEMMA PruneStepEffect ==
  ASSUME PruneStep
  PROVE  /\ pc \in Pruning /\ pc' \in Pruning \cup {"done"}
         /\ UNCHANGED <<clone, force, sync, todo, seen, walked, batch>>
         /\ pending' \subseteq pending
BY DEF PruneStep, PruneVector, PruneDone, PruneRow, PruneRowFail,
   flushUnchanged, Goto, repo, Pruning

LEMMA TakeFileEffect ==
  ASSUME NEW f \in Files, TakeFile(f)
  PROVE  /\ pc = "walk" /\ pc' \in {"walk", "commit"}
         /\ f \in todo /\ todo' = todo \ {f}
         /\ UNCHANGED <<stores, clone, force, sync, pending>>
         /\ \/ walked' = walked
            \/ disk[f] # Absent /\ walked' = [walked EXCEPT ![f] = disk[f]]
BY DEF TakeFile, Skip, Queue, Vanished, ParseFail, Goto, repo

-----------------------------------------------------------------------------
LEMMA TakenStep ==
  ASSUME TypeInv, TakenOnly, [Next]_vars
  PROVE  TakenOnly'
<1> USE DEF TakenOnly
<1>1. ASSUME pc' \in BeforeWalk, walked' = NoFiles, batch' = NoBatch,
             seen' = {}, todo' \subseteq Files
      PROVE  TakenOnly'
  BY <1>1 DEF NoFiles, NoBatch, BeforeWalk, Pruning
<1>2. CASE SyncStep
  BY <1>1, <1>2, SyncStepEffect DEF TypeInv, TypeOK
<1>3. CASE EndStep
  BY <1>1, <1>3, EndStepEffect, ForgetIsBlank DEF BeforeWalk
<1>4. CASE IdleStep
  BY <1>1, <1>4, IdleStepEffect DEF BeforeWalk, TypeInv, TypeOK
<1>5. CASE FlushStep
  BY <1>5, FlushStepEffect DEF BeforeWalk, Pruning, NoBatch
<1>6. CASE PruneStep
  BY <1>6, PruneStepEffect DEF BeforeWalk, Pruning
<1>7. CASE EditStep \/ UNCHANGED vars
  BY <1>7, EditStepEffect DEF vars, cycleVars
<1>8. CASE Enumerate
  BY <1>8 DEF Enumerate, Goto, BeforeWalk, Pruning, NoFiles, NoBatch
<1>9. ASSUME NEW f \in Files, TakeFile(f) PROVE TakenOnly'
  <2>1. pc' \in {"walk", "commit"} /\ f \in todo /\ todo' = todo \ {f}
    BY <1>9, TakeFileEffect
  <2>2. CASE Skip(f)
    BY <2>1, <2>2 DEF Skip, BeforeWalk, Pruning, TypeInv, TypeOK, Trees
  <2>3. CASE Queue(f)
    <3>1. /\ \A id \in DOMAIN Items(f, disk[f]) : id[1] = f
          /\ Parent(f) \in DOMAIN Items(f, disk[f])
      BY <2>3, ContentAssumption
         DEF Items, Parent, Queue, TypeInv, TypeOK, Trees, Cell
    <3>2. /\ DOMAIN batch' = DOMAIN Items(f, disk[f]) \cup DOMAIN batch
          /\ seen' = seen \cup DOMAIN Items(f, disk[f])
          /\ walked' = [walked EXCEPT ![f] = disk[f]]
      BY <2>3 DEF Queue
    <3> QED
      BY <2>1, <3>1, <3>2 DEF BeforeWalk, Pruning, TypeInv, TypeOK, Trees
  <2>4. CASE Vanished(f) \/ ParseFail(f)
    BY <2>1, <2>4 DEF Vanished, ParseFail, BeforeWalk, Pruning
  <2> QED
    BY <1>9, <2>2, <2>3, <2>4 DEF TakeFile
<1>10. CASE LastFlush
  BY <1>10 DEF LastFlush, Goto, cycleVars, BeforeWalk, Pruning
<1>11. CASE PruneBegin \/ PruneBeginFail
  BY <1>11 DEF PruneBegin, PruneBeginFail, flushUnchanged, Goto, BeforeWalk,
     Pruning
<1> QED
  BY <1>2, <1>3, <1>4, <1>5, <1>6, <1>7, <1>8, <1>9, <1>10, <1>11, NextCases

\* What a fault leaves of the properties of a fault-free cycle: nothing.
LEMMA FaultUncleans == ASSUME NEW kind, Fault(kind) PROVE ~clean'
BY DEF Fault

LEMMA WrittenStep ==
  ASSUME TypeInv, TakenOnly, WrittenOrQueued, [Next]_vars
  PROVE  WrittenOrQueued'
<1> SUFFICES ASSUME clean' PROVE WrittenOrQueued'
  BY DEF WrittenOrQueued
<1> USE DEF TakenOnly, WrittenOrQueued, Written, Queued
<1>1. ASSUME pc' \in BeforeWalk, walked' = NoFiles PROVE WrittenOrQueued'
  BY <1>1 DEF NoFiles, BeforeWalk
<1>2. CASE SyncStep
  BY <1>1, <1>2, SyncStepEffect
<1>3. CASE EndStep
  BY <1>1, <1>3, EndStepEffect, ForgetIsBlank DEF BeforeWalk
<1>4. CASE IdleStep
  BY <1>1, <1>4, IdleStepEffect DEF BeforeWalk
<1>5. CASE FlushStep
  <2>1. CASE CommitBatch
    <3>1. clean /\ pc = "commit" /\ pc' = "vectors" /\ walked' = walked
      BY <2>1 DEF CommitBatch, NoFault, Goto, flushUnchanged
    <3>2. \A f \in Files : Parent(f) \in Ids
      BY ParentIsId
    <3>3. docs' = [id \in Ids |-> IF id \in DOMAIN batch THEN batch[id]
                                 ELSE docs[id]]
      BY <2>1 DEF CommitBatch, WriteRows
    <3> QED
      BY <3>1, <3>2, <3>3
  <2>2. CASE SendVectors
    BY <2>2 DEF SendVectors, NoFault, flushUnchanged
  <2>3. CASE FlushDone
    BY <2>3 DEF FlushDone, NoFault, flushUnchanged, Goto, stores, NoBatch
  <2>4. CASE CommitBatchFail \/ SendVectorsFail
    BY <2>4, FaultUncleans DEF CommitBatchFail, SendVectorsFail
  <2>5. CASE RetryVector \/ \E id \in Ids : RetryRow(id) \/ RetryRowFail(id)
    BY <2>5, FaultUncleans DEF RetryVector, RetryRow, RetryRowFail, NextRetry,
       NoFault
  <2> QED
    BY <1>5, <2>1, <2>2, <2>3, <2>4, <2>5 DEF FlushStep
<1>6. CASE PruneStep
  <2>1. pc \in Pruning /\ pc' \in Pruning \cup {"done"} /\ walked' = walked
    BY <1>6, PruneStepEffect
  <2>2. clean
    BY <1>6, FaultUncleans DEF PruneStep, PruneVector, PruneDone, PruneRow,
       PruneRowFail, NoFault
  <2>3. ASSUME NEW f \in Files, walked[f] # Absent
        PROVE  docs'[Parent(f)] = docs[Parent(f)]
    <3>1. Parent(f) \notin pending
      BY <2>1, <2>3
    <3>2. CASE UNCHANGED docs
      BY <3>2
    <3>3. ASSUME NEW id \in Ids, PruneRow(id)
          PROVE  docs'[Parent(f)] = docs[Parent(f)]
      <4>1. id # Parent(f) /\ docs' = [docs EXCEPT ![id] = Absent]
        BY <3>1, <3>3 DEF PruneRow, DeleteRow
      <4> QED
        BY <4>1 DEF TypeInv, TypeOK, StoresTypeOK, Parent, Ids
    <3> QED
      BY <1>6, <3>2, <3>3 DEF PruneStep, PruneVector, PruneDone, PruneRowFail,
         stores
  <2> QED
    BY <2>1, <2>2, <2>3 DEF Pruning
<1>7. CASE EditStep \/ UNCHANGED vars
  BY <1>7, EditStepEffect DEF vars, cycleVars, stores
<1>8. CASE Enumerate
  BY <1>8 DEF Enumerate, Goto, BeforeWalk, NoFiles
<1>9. ASSUME NEW f \in Files, TakeFile(f) PROVE WrittenOrQueued'
  <2>1. /\ pc = "walk" /\ pc' \in {"walk", "commit"} /\ f \in todo
        /\ UNCHANGED stores
    BY <1>9, TakeFileEffect
  <2> USE DEF stores, Parent, TypeInv, TypeOK, Trees
  <2>2. CASE Skip(f)
    BY <2>1, <2>2 DEF Skip, NoFault, Unchanged
  <2>3. CASE Queue(f)
    <3>1. disk[f] \in Versions
      BY <2>3 DEF Queue, Cell
    <3>2. Parent(f) \in DOMAIN Items(f, disk[f])
      BY <3>1, ContentAssumption DEF Items
    <3>3. \A id \in DOMAIN Items(f, disk[f]) :
            id[1] = f /\ Items(f, disk[f])[id] = disk[f]
      BY <3>1 DEF Items
    <3>4. /\ batch' = [id \in DOMAIN Items(f, disk[f]) \cup DOMAIN batch |->
                          IF id \in DOMAIN Items(f, disk[f])
                          THEN Items(f, disk[f])[id] ELSE batch[id]]
          /\ walked' = [walked EXCEPT ![f] = disk[f]]
          /\ clean' = clean
      BY <2>3 DEF Queue, NoFault
    <3> QED
      BY <2>1, <3>2, <3>3, <3>4
  <2>4. CASE Vanished(f) \/ ParseFail(f)
    BY <2>1, <2>4, FaultUncleans DEF Vanished, ParseFail, NoFault
  <2> QED
    BY <1>9, <2>2, <2>3, <2>4 DEF TakeFile
<1>10. CASE LastFlush
  BY <1>10 DEF LastFlush, Goto, cycleVars, stores, NoFault
<1>11. CASE PruneBegin
  BY <1>11 DEF PruneBegin, flushUnchanged, Goto, stores, NoFault, NoBatch
<1>12. CASE PruneBeginFail
  BY <1>12, FaultUncleans DEF PruneBeginFail
<1> QED
  BY <1>2, <1>3, <1>4, <1>5, <1>6, <1>7, <1>8, <1>9, <1>10, <1>11, <1>12,
     NextCases

\* The skip marks the documents of every path the file's path is a prefix
\* of; a shield, once there, stays until the cycle ends.
LEMMA KeptFromWalked ==
  ASSUME NEW f \in Files, Kept(f),
         \A g \in Files : walked[g] # Absent => walked'[g] # Absent
  PROVE  Kept(f)'
BY DEF Kept, Shielded

LEMMA SeenStep ==
  ASSUME TypeInv, TakenOnly, SeenIsWalked, [Next]_vars
  PROVE  SeenIsWalked'
<1> USE DEF SeenIsWalked
<1>1. ASSUME UNCHANGED <<seen, walked>> PROVE SeenIsWalked'
  BY <1>1 DEF Kept, Shielded
<1>2. CASE EndStep
  BY <1>2, EndStepEffect, ForgetIsBlank
<1>3. CASE SyncStep \/ IdleStep \/ FlushStep \/ PruneStep \/ EditStep
  BY <1>1, <1>3, SyncStepEffect, IdleStepEffect, FlushStepEffect,
     PruneStepEffect, EditStepEffect DEF cycleVars
<1>4. CASE Enumerate \/ LastFlush \/ PruneBegin \/ PruneBeginFail
           \/ UNCHANGED vars
  BY <1>1, <1>4 DEF Enumerate, LastFlush, PruneBegin, PruneBeginFail,
     flushUnchanged, vars, cycleVars
<1>5. ASSUME NEW f \in Files, TakeFile(f) PROVE SeenIsWalked'
  <2>1. \A g \in Files : walked[g] # Absent => walked'[g] # Absent
    BY <1>5, TakeFileEffect DEF TypeInv, TypeOK, Trees
  <2>2. \A g \in Files : Parent(g) \in seen => Kept(g)'
    BY <2>1, KeptFromWalked
  <2>3. CASE Skip(f)
    <3>1. walked'[f] # Absent
      BY <2>3 DEF Skip, TypeInv, TypeOK, Trees
    <3>2. ASSUME NEW g \in Files, Parent(g) \in seen' PROVE Kept(g)'
      <4>1. \/ Parent(g) \in seen
            \/ g = f
            \/ <<f, g>> \in Prefix
        BY <2>3, <3>2 DEF Skip, Parent
      <4> QED
        BY <2>2, <3>1, <4>1 DEF Kept, Shielded
    <3> QED
      BY <3>2
  <2>4. CASE Queue(f)
    <3>1. \A g \in Files : Parent(g) \in seen' => Parent(g) \in seen \/ g = f
      BY <2>4 DEF Queue, Items, Parent
    <3>2. walked'[f] # Absent
      BY <2>4 DEF Queue, TypeInv, TypeOK, Trees
    <3> QED
      BY <2>2, <3>1, <3>2 DEF Kept
  <2>5. CASE Vanished(f) \/ ParseFail(f)
    BY <1>1, <2>5 DEF Vanished, ParseFail
  <2> QED
    BY <1>5, <2>3, <2>4, <2>5 DEF TakeFile
<1> QED
  BY <1>2, <1>3, <1>4, <1>5, NextCases

LEMMA RemovedStep ==
  ASSUME TypeInv, TakenOnly, SeenIsWalked, RemovedOrPending, [Next]_vars
  PROVE  RemovedOrPending'
<1> SUFFICES ASSUME clean' PROVE RemovedOrPending'
  BY DEF RemovedOrPending
<1> USE DEF RemovedOrPending
<1>1. ASSUME pc' \notin Pruning \cup {"done"} PROVE RemovedOrPending'
  BY <1>1 DEF Pruning
<1>2. CASE SyncStep \/ EndStep \/ IdleStep \/ FlushStep
  BY <1>1, <1>2, SyncStepEffect, EndStepEffect, ForgetIsBlank, IdleStepEffect,
     FlushStepEffect DEF BeforeWalk, Pruning
<1>3. CASE Enumerate \/ LastFlush \/ \E f \in Files : TakeFile(f)
  BY <1>1, <1>3, TakeFileEffect DEF Enumerate, LastFlush, Goto, Pruning
<1>4. CASE EditStep \/ UNCHANGED vars
  BY <1>4, EditStepEffect DEF vars, stores, cycleVars, Kept, Shielded
<1>5. CASE PruneBegin
  <2>1. \A f \in Files : Parent(f) \in Ids
    BY ParentIsId
  <2>2. /\ pc' = "prune" /\ UNCHANGED <<docs, walked>>
        /\ pending' = {id \in Ids : docs[id] # Absent} \ seen
    BY <1>5 DEF PruneBegin, Goto, flushUnchanged, stores
  <2>3. ASSUME NEW f \in Files, ~Kept(f)', docs'[Parent(f)] # Absent
        PROVE  Parent(f) \in pending'
    BY <2>1, <2>2, <2>3 DEF SeenIsWalked, Kept, Shielded
  <2> QED
    BY <2>2, <2>3 DEF Pruning
<1>6. CASE PruneStep
  <2>1. CASE PruneDone
    BY <2>1 DEF PruneDone, NoFault, stores, flushUnchanged, Goto, Pruning,
       Kept, Shielded
  <2>2. CASE PruneVector
    <3>1. clean /\ NoFault
      BY <2>2, FaultUncleans DEF PruneVector, NoFault
    <3>2. /\ pc = "pruneVector" /\ pc' = "prune"
          /\ pending' = pending \ {cur}
          /\ UNCHANGED <<docs, walked>>
      BY <2>2 DEF PruneVector, Goto, flushUnchanged
    <3> QED
      BY <3>1, <3>2 DEF Pruning, Kept, Shielded
  <2>3. ASSUME NEW id \in Ids, PruneRow(id) PROVE RemovedOrPending'
    <3>1. /\ clean /\ pc = "prune" /\ pc' = "pruneVector" /\ cur' = id
          /\ docs' = [docs EXCEPT ![id] = Absent]
          /\ UNCHANGED <<pending, walked>>
      BY <2>3 DEF PruneRow, DeleteRow, NoFault, Goto, flushUnchanged
    <3>2. \A i \in Ids : docs'[i] # Absent => docs[i] # Absent
      BY <3>1 DEF TypeInv, TypeOK, StoresTypeOK
    <3>3. \A f \in Files : Parent(f) \in Ids
      BY ParentIsId
    <3>4. docs'[cur'] = Absent
      BY <3>1 DEF TypeInv, TypeOK, StoresTypeOK
    <3>5. ASSUME NEW f \in Files, ~Kept(f)', docs'[Parent(f)] # Absent
          PROVE  Parent(f) \in pending'
      BY <3>1, <3>2, <3>3, <3>5 DEF Pruning, Kept, Shielded
    <3> QED
      BY <3>1, <3>4, <3>5 DEF Pruning
  <2>4. ASSUME NEW id \in Ids, PruneRowFail(id) PROVE FALSE
    BY <2>4, FaultUncleans DEF PruneRowFail
  <2> QED
    BY <1>6, <2>1, <2>2, <2>3, <2>4 DEF PruneStep
<1>7. CASE PruneBeginFail
  BY <1>7, FaultUncleans DEF PruneBeginFail
<1> QED
  BY <1>2, <1>3, <1>4, <1>5, <1>6, <1>7, NextCases

LEMMA CheckoutStep ==
  ASSUME TypeInv, CheckoutInv, [Next]_vars
  PROVE  CheckoutInv'
<1> USE DEF CheckoutInv, BeforeWalk
<1>1. CASE SyncStep
  BY <1>1 DEF SyncStep, SyncLocal, CloneBegin, RecloneBegin, CloneDone,
     CloneFail, CloneInit, SyncInvalid, Fetch, FetchFail, Synced, Goto
<1>2. CASE EndStep
  BY <1>2, EndStepEffect DEF Forget
<1>3. CASE IdleStep
  BY <1>3, IdleStepEffect DEF BeforeWalk
<1>4. CASE FlushStep \/ PruneStep \/ \E f \in Files : TakeFile(f)
  BY <1>4, FlushStepEffect, PruneStepEffect, TakeFileEffect DEF Pruning
<1>5. CASE EditStep \/ UNCHANGED vars
  BY <1>5, EditStepEffect DEF vars, cycleVars, repo
<1>6. CASE Enumerate \/ LastFlush \/ PruneBegin \/ PruneBeginFail
  BY <1>6 DEF Enumerate, LastFlush, PruneBegin, PruneBeginFail, flushUnchanged, cycleVars, repo,
     Goto
<1> QED
  BY <1>1, <1>2, <1>3, <1>4, <1>5, <1>6, NextCases

-----------------------------------------------------------------------------
(***************************************************************************)
(* The theorems.                                                           *)
(***************************************************************************)
WalkInv == TypeInv /\ TakenOnly /\ WrittenOrQueued /\ CheckoutInv

LEMMA WalkInit == Init => WalkInv
BY InitTypes DEF WalkInv, Init, TakenOnly, WrittenOrQueued, CheckoutInv,
   BeforeWalk, NoFiles, NoBatch, Pruning

\* What the walk has parsed is seen, and written or queued.
THEOREM WalkInvariant == Spec => []WalkInv
<1>1. WalkInv /\ [Next]_vars => WalkInv'
  BY StepTypes, TakenStep, WrittenStep, CheckoutStep DEF WalkInv
<1> QED
  BY <1>1, WalkInit, PTL DEF Spec

\* Only the deletion of a stale document takes a parent document away.
LEMMA RemovedInPrune ==
  ASSUME TypeInv, TakenOnly, [Next]_vars, NEW f \in Files, Removed(f)
  PROVE  pc = "prune" /\ Parent(f) \in pending
<1> USE DEF Removed
<1>1. docs' # docs
  OBVIOUS
<1>2. CASE SyncStep \/ EndStep \/ IdleStep \/ EditStep \/ UNCHANGED vars
  BY <1>1, <1>2, SyncStepEffect, EndStepEffect, IdleStepEffect, EditStepEffect
     DEF vars, stores
<1>3. CASE \/ Enumerate \/ LastFlush \/ PruneBegin \/ PruneBeginFail
           \/ \E g \in Files : TakeFile(g)
  BY <1>1, <1>3, TakeFileEffect
     DEF Enumerate, LastFlush, PruneBegin, PruneBeginFail, stores
<1>4. ASSUME NEW items, WriteRows(items),
             \A id \in DOMAIN items : items[id] \in Versions
      PROVE  FALSE
  BY <1>4, ParentIsId, ContentAssumption DEF WriteRows
<1>5. CASE FlushStep
  <2>1. CASE CommitBatch
    BY <1>4, <2>1 DEF CommitBatch, TypeInv, TypeOK
  <2>2. ASSUME NEW id \in Ids, RetryRow(id) PROVE FALSE
    <3>1. batch[id] \in Versions /\ WriteRows([i \in {id} |-> batch[id]])
      BY <2>2 DEF RetryRow, NextRetry, TypeInv, TypeOK, PendingInBatch
    <3> QED
      BY <1>4, <3>1
  <2> QED
    BY <1>1, <1>5, <2>1, <2>2 DEF FlushStep, CommitBatchFail, SendVectors,
       SendVectorsFail, FlushDone, RetryVector, RetryRowFail, stores
<1>6. ASSUME NEW id \in Ids, PruneRow(id)
      PROVE  pc = "prune" /\ Parent(f) \in pending
  BY <1>6 DEF PruneRow, DeleteRow
<1>7. CASE PruneStep
  BY <1>1, <1>6, <1>7 DEF PruneStep, PruneVector, PruneDone, PruneRowFail,
     stores
<1> QED
  BY <1>2, <1>3, <1>5, <1>7, NextCases

\* A document disappears only unseen, and after the cycle's own writes.
THEOREM RemovedUnseen == Spec => RemovedOnlyWhenUnseen
<1>1. ASSUME WalkInv, [Next]_vars, NEW f \in Files, Removed(f)
      PROVE  /\ walked[f] = Absent
             /\ clean => \A g \in Files : walked[g] # Absent =>
                             docs[Parent(g)] = walked[g]
  <2>1. pc = "prune" /\ Parent(f) \in pending
    BY <1>1, RemovedInPrune DEF WalkInv
  <2>2. walked[f] = Absent
    BY <1>1, <2>1 DEF WalkInv, TakenOnly, Pruning
  <2>3. clean => \A g \in Files : walked[g] # Absent =>
                    docs[Parent(g)] = walked[g]
    BY <1>1, <2>1 DEF WalkInv, WrittenOrQueued, Written
  <2> QED
    BY <2>2, <2>3
<1>2. WalkInv /\ [Next]_vars =>
        [\A f \in Files : Removed(f) =>
           /\ walked[f] = Absent
           /\ clean => \A g \in Files : walked[g] # Absent =>
                           docs[Parent(g)] = walked[g]]_vars
  BY <1>1
<1> QED
  BY <1>2, WalkInvariant, PTL DEF Spec, RemovedOnlyWhenUnseen

\* A remote source loses documents to an unforced cycle only when the clone
\* is a checkout.
THEOREM RemovedFromCheckout == Spec => RemovedOnlyFromACheckout
<1>1. WalkInv /\ [Next]_vars =>
        [\A f \in Files :
           Remote /\ ~force /\ Removed(f) => clone = "valid"]_vars
  BY RemovedInPrune DEF WalkInv, CheckoutInv, BeforeWalk
<1> QED
  BY <1>1, WalkInvariant, PTL DEF Spec, RemovedOnlyFromACheckout

\* A fault-free walk leaves the parent documents of exactly the files it
\* parsed, whatever went wrong before, and those shielded by a prefix.
THEOREM ParentsRight == Spec => []ParentsMatchWalk
<1> DEFINE PInv == WalkInv /\ SeenIsWalked /\ RemovedOrPending
<1>1. Init => PInv
  BY WalkInit DEF Init, SeenIsWalked, RemovedOrPending, Pruning
<1>2. PInv /\ [Next]_vars => PInv'
  BY StepTypes, TakenStep, WrittenStep, CheckoutStep, SeenStep, RemovedStep
     DEF WalkInv
<1>3. PInv => ParentsMatchWalk
  <2> SUFFICES ASSUME PInv, pc = "done", clean PROVE ParentsOf(walked)
    BY DEF ParentsMatchWalk
  <2>1. ASSUME NEW f \in Files, walked[f] # Absent
        PROVE  docs[Parent(f)] = walked[f]
    BY <2>1 DEF WalkInv, WrittenOrQueued, Written
  <2>2. ASSUME NEW f \in Files, ~Kept(f) PROVE docs[Parent(f)] = Absent
    BY <2>2 DEF RemovedOrPending
  <2> QED
    BY <2>1, <2>2 DEF ParentsOf, Kept
<1> QED
  BY <1>1, <1>2, <1>3, PTL DEF Spec

-----------------------------------------------------------------------------
(***************************************************************************)
(* The full-text table.  Each transaction changes chunks_fts exactly as it *)
(* changes the chunk rows of documents, but for rows that become blank.    *)
(***************************************************************************)
LEMMA ChunksAreIds == ChunkIds \subseteq Ids
BY ContentAssumption DEF ChunkIds, Ids

LEMMA WriteRowsMirrors ==
  ASSUME FtsRight, NEW items, WriteRows(items),
         \A id \in DOMAIN items : items[id] \in Versions
  PROVE  FtsRight'
BY ChunksAreIds DEF FtsRight, WriteRows, Entries, Searchable

LEMMA DeleteRowMirrors ==
  ASSUME StoresTypeOK, FtsRight, NEW id \in Ids, DeleteRow(id)
  PROVE  FtsRight'
BY ChunksAreIds, ContentAssumption
   DEF FtsRight, StoresTypeOK, DeleteRow, Entries, Searchable

LEMMA SameRowsMirror ==
  ASSUME FtsRight, UNCHANGED <<docs, fts>>
  PROVE  FtsRight'
BY DEF FtsRight, Entries, Searchable

LEMMA BackfillMirrors ==
  ASSUME FtsRight \/ fts = NoEntries, BackfillFts, UNCHANGED docs
  PROVE  FtsRight'
<1>1. CASE fts = NoEntries
  BY <1>1 DEF BackfillFts, FtsRight, Entries, Searchable
<1>2. CASE fts # NoEntries
  BY <1>2, SameRowsMirror DEF BackfillFts
<1> QED
  BY <1>1, <1>2

LEMMA FtsStep ==
  ASSUME TypeInv, FtsInv, [Next]_vars
  PROVE  FtsInv'
<1> USE DEF FtsInv
<1>1. ASSUME UNCHANGED <<docs, fts>>, pc = "idle" => pc' = "idle"
      PROVE  FtsInv'
  BY <1>1, SameRowsMirror
<1>2. CASE SyncStep \/ EditStep \/ UNCHANGED vars
  BY <1>1, <1>2, SyncStepEffect, EditStepEffect DEF vars, stores, BeforeWalk
<1>3. CASE EndStep
  BY <1>1, <1>3, EndStepEffect DEF Forget, stores
<1>4. CASE IdleStep
  <2>1. CASE CorruptClone \/ WipeVectors
    BY <1>1, <2>1 DEF CorruptClone, WipeVectors, stores
  <2>2. ASSUME NEW f \in BOOLEAN, StartCycle(f) PROVE FtsInv'
    BY <2>2, BackfillMirrors DEF StartCycle
  <2> QED
    BY <1>4, <2>1, <2>2 DEF IdleStep
<1>5. CASE \/ Enumerate \/ LastFlush \/ PruneBegin \/ PruneBeginFail
           \/ \E f \in Files : TakeFile(f)
  BY <1>1, <1>5, TakeFileEffect
     DEF Enumerate, LastFlush, PruneBegin, PruneBeginFail, stores
<1>6. CASE FlushStep
  <2>1. FtsRight
    BY <1>6, FlushStepEffect
  <2>2. CASE CommitBatch
    BY <2>1, <2>2, WriteRowsMirrors DEF CommitBatch, TypeInv, TypeOK
  <2>3. ASSUME NEW id \in Ids, RetryRow(id) PROVE FtsInv'
    <3>1. batch[id] \in Versions /\ WriteRows([i \in {id} |-> batch[id]])
      BY <2>3 DEF RetryRow, NextRetry, TypeInv, TypeOK, PendingInBatch
    <3> QED
      BY <2>1, <3>1, WriteRowsMirrors
  <2>4. UNCHANGED <<docs, fts>> => FtsInv'
    BY <2>1, SameRowsMirror
  <2> QED
    BY <2>4, <1>6, <2>2, <2>3 DEF FlushStep, CommitBatchFail, SendVectors,
       SendVectorsFail, FlushDone, RetryVector, RetryRowFail, stores
<1>7. CASE PruneStep
  <2>1. FtsRight
    BY <1>7, PruneStepEffect DEF Pruning
  <2>2. ASSUME NEW id \in Ids, PruneRow(id) PROVE FtsInv'
    BY <2>1, <2>2, DeleteRowMirrors DEF PruneRow, TypeInv, TypeOK
  <2>3. UNCHANGED <<docs, fts>> => FtsInv'
    BY <2>1, SameRowsMirror
  <2> QED
    BY <2>3, <1>7, <2>2 DEF PruneStep, PruneVector, PruneDone, PruneRowFail,
       stores
<1> QED
  BY <1>2, <1>3, <1>4, <1>5, <1>6, <1>7, NextCases

\* The full-text table mirrors the chunks of documents during every cycle,
\* blank ones apart (upsert_document, delete_document, _backfill_fts).
THEOREM FtsCorrect == Spec => []FtsMirrorsDocs
<1>1. Init => FtsInv
  BY DEF Init, FtsInv
<1>2. TypeInv /\ FtsInv /\ [Next]_vars => FtsInv'
  BY FtsStep
<1>3. FtsInv => FtsMirrorsDocs
  BY DEF FtsInv, FtsRight, FtsMirrorsDocs
<1> QED
  BY <1>1, <1>2, <1>3, TypesInvariant, PTL DEF Spec

-----------------------------------------------------------------------------
(***************************************************************************)
(* Whole cycles.                                                           *)
(***************************************************************************)
\* What a step may do to being whole, once a cycle runs.
LEMMA WholeBefore ==
  ASSUME TypeInv, [Next]_vars
  PROVE  /\ KeywordOnly' => KeywordOnly
         /\ pc # "idle" /\ clean' => clean
<1> SUFFICES (onlyDense' => onlyDense) /\ (pc # "idle" /\ clean' => clean)
  BY DEF KeywordOnly
<1>1. ASSUME NEW kind, NoFault \/ Fault(kind)
      PROVE  (onlyDense' => onlyDense) /\ (clean' => clean)
  BY <1>1 DEF NoFault, Fault, budget, TypeInv, TypeOK
<1>2. CASE SyncStep \/ EndStep
  BY <1>1, <1>2 DEF SyncStep, EndStep, SyncLocal, CloneBegin, RecloneBegin, CloneInit,
     CloneDone, CloneFail, SyncInvalid, Fetch, FetchFail, SyncRaise, SyncUnrecorded,
     ShortCircuit, EnumerateFail, Finish, Crash
<1>3. CASE IdleStep
  BY <1>1, <1>3 DEF IdleStep, CorruptClone, WipeVectors, StartCycle, budget
<1>4. CASE FlushStep
  BY <1>1, <1>4 DEF FlushStep, CommitBatch, CommitBatchFail, SendVectors,
     SendVectorsFail, FlushDone, RetryVector, RetryRow, RetryRowFail
<1>5. CASE PruneStep
  BY <1>1, <1>5 DEF PruneStep, PruneVector, PruneDone, PruneRow, PruneRowFail
<1>6. CASE EditStep \/ UNCHANGED vars
  BY <1>6 DEF EditStep, Edit, vars, budget
<1>7. CASE \/ Enumerate \/ LastFlush \/ PruneBegin \/ PruneBeginFail
           \/ \E f \in Files : TakeFile(f)
  BY <1>1, <1>7 DEF Enumerate, LastFlush, PruneBegin, PruneBeginFail,
     TakeFile, Skip, Queue, Vanished, ParseFail
<1> QED
  BY <1>2, <1>3, <1>4, <1>5, <1>6, <1>7, NextCases

LEMMA FaultBreaks ==
  ASSUME NEW kind, Fault(kind)
  PROVE  ~Forced' /\ (kind # "dense" => ~Whole')
BY DEF Fault, Forced, KeywordOnly, Whole

LEMMA NothingCalled == Called(NoFiles) = {}
BY DEF Called, Rows, NoFiles, Ids

\* Before the walk there is nothing to be whole but the table.
LEMMA BlankIsWhole ==
  ASSUME pc' \in BeforeWalk, walked' = NoFiles, batch' = NoBatch, seen' = {},
         KeywordOnly' => \A f \in Files : OfOneVersion(f)'
  PROVE  WholeInv'
<1>1. RowsWhole'
  BY NothingCalled DEF RowsWhole, NoBatch, BeforeWalk, Pruning
<1>2. VectorsWhole'
  BY DEF VectorsWhole
<1> QED
  BY <1>1, <1>2 DEF WholeInv, UntakenWhole

LEMMA SameRowsSameVersions ==
  ASSUME NEW f, docs' = docs, OfOneVersion(f)
  PROVE  OfOneVersion(f)'
BY DEF OfOneVersion

LEMMA SameIsWhole ==
  ASSUME WholeInv, UNCHANGED <<docs, dense, pc, seen, batch, pending, cur, walked, force>>,
         clean' => clean, KeywordOnly' => KeywordOnly
  PROVE  WholeInv'
<1>1. (Whole' => Whole) /\ (Forced' => Forced)
  BY DEF Whole, Forced
<1>2. RowsWhole => RowsWhole'
  BY DEF RowsWhole, Called, Rows
<1>3. VectorsWhole => VectorsWhole'
  BY DEF VectorsWhole, Embedded, Rows
<1>4. UntakenWhole => UntakenWhole'
  BY SameRowsSameVersions DEF UntakenWhole
<1> QED
  BY <1>1, <1>2, <1>3, <1>4 DEF WholeInv

\* A table that is the rows of some files.
LEMMA RowsAreOfOneVersion ==
  ASSUME NEW tree \in Trees, docs = Rows(tree), NEW f \in Files
  PROVE  OfOneVersion(f)
<1>1. \A k \in 0..MaxChunk : <<f, k>> \in Ids
  BY DEF Ids
<1>2. Parent(f) \in Ids /\ Parent(f)[1] = f /\ Parent(f)[2] = 0
  BY ParentIsId DEF Parent
<1>3. docs[Parent(f)] = tree[f]
  BY <1>2, ContentAssumption DEF Rows, Trees, Cell
<1>4. \A k \in 0..MaxChunk :
        docs[<<f, k>>] = IF tree[f] # Absent /\ k <= ChunksOf[tree[f]] THEN tree[f] ELSE Absent
  BY <1>1 DEF Rows
<1> QED
  BY <1>3, <1>4 DEF OfOneVersion

LEMMA DoneIsWhole ==
  ASSUME TypeInv, RowsWhole, pc = "done"
  PROVE  docs = Rows(walked)
<1>1. docs \in [Ids -> Cell] /\ Rows(walked) \in [Ids -> Cell]
  BY RowsType DEF TypeInv, TypeOK, StoresTypeOK
<1>2. ASSUME NEW id \in Ids PROVE docs[id] = Rows(walked)[id]
  <2>1. CASE id \in seen
    BY <2>1 DEF RowsWhole
  <2>2. CASE id \notin seen
    <3>1. docs[id] = Absent
      BY <2>2 DEF RowsWhole
    <3>2. Rows(walked)[id] = Absent
      BY <2>2 DEF RowsWhole, Called
    <3> QED BY <3>1, <3>2
  <2> QED BY <2>1, <2>2
<1> QED
  BY <1>1, <1>2

LEMMA BrokenIsWhole == ASSUME ~Whole' PROVE WholeInv'
BY DEF Whole, WholeInv

\* A file that is parsed calls for its items.
LEMMA CalledMore ==
  ASSUME TypeInv, NEW f \in Files, walked[f] = Absent, NEW v \in Versions,
         walked' = [walked EXCEPT ![f] = v]
  PROVE  /\ Called(walked') = Called(walked) \cup DOMAIN Items(f, v)
         /\ \A id \in DOMAIN Items(f, v) : id \in Ids /\ Rows(walked')[id] = v
         /\ \A id \in Called(walked) : Rows(walked')[id] = Rows(walked)[id]
<1>1. \A g \in Files : walked'[g] = IF g = f THEN v ELSE walked[g]
  BY DEF Trees, TypeInv, TypeOK
<1>2. \A id \in Ids : id \in DOMAIN Items(f, v) <=> id[1] = f /\ id[2] <= ChunksOf[v]
  BY ContentAssumption DEF Items, Ids
<1>3. DOMAIN Items(f, v) \subseteq Ids
  BY ItemsType
<1>4. \A id \in Ids : id[1] \in Files
  BY DEF Ids
<1>5. \A id \in Ids :
        /\ Rows(walked)[id] = IF walked[id[1]] # Absent /\ id[2] <= ChunksOf[walked[id[1]]]
                            THEN walked[id[1]] ELSE Absent
        /\ Rows(walked')[id] = IF walked'[id[1]] # Absent /\ id[2] <= ChunksOf[walked'[id[1]]]
                           THEN walked'[id[1]] ELSE Absent
  BY DEF Rows
<1>6. \A id \in Ids : IF id[1] = f
                      THEN /\ Rows(walked)[id] = Absent
                           /\ Rows(walked')[id] = IF id[2] <= ChunksOf[v] THEN v ELSE Absent
                      ELSE Rows(walked')[id] = Rows(walked)[id]
  <2> SUFFICES ASSUME NEW id \in Ids
               PROVE  IF id[1] = f
                      THEN /\ Rows(walked)[id] = Absent
                           /\ Rows(walked')[id] = IF id[2] <= ChunksOf[v] THEN v ELSE Absent
                      ELSE Rows(walked')[id] = Rows(walked)[id]
    OBVIOUS
  <2>1. v # Absent
    BY ContentAssumption
  <2>2. CASE id[1] = f
    BY <1>1, <1>4, <1>5, <2>1, <2>2
  <2>3. CASE id[1] # f
    BY <1>1, <1>4, <1>5, <2>3
  <2> QED
    BY <2>2, <2>3
<1>7. v # Absent
  BY ContentAssumption
<1>8. \A id \in Called(walked) : id \in Ids /\ id[1] # f
  BY <1>6 DEF Called
<1>9. Called(walked') = Called(walked) \cup DOMAIN Items(f, v)
  BY <1>2, <1>3, <1>6, <1>7 DEF Called
<1> QED
  BY <1>2, <1>3, <1>6, <1>8, <1>9

LEMMA TakeFileWhole ==
  ASSUME TypeInv, TakenOnly, WholeInv, NEW f \in Files, TakeFile(f),
         clean' => clean, KeywordOnly' => KeywordOnly
  PROVE  WholeInv'
<1>1. /\ pc = "walk" /\ pc' \in {"walk", "commit"} /\ walked[f] = Absent
      /\ docs' = docs /\ dense' = dense /\ force' = force
  BY TakeFileEffect DEF TakenOnly, stores
<1>2. disk[f] = Absent \/ disk[f] \in Versions
  BY DEF TypeInv, TypeOK, Trees, Cell
<1>3. (Whole' => Whole) /\ (Forced' => Forced)
  BY <1>1 DEF Whole, Forced
<1>4. ASSUME KeywordOnly', walked' = [walked EXCEPT ![f] = disk[f]],
             disk[f] \in Versions
      PROVE  UntakenWhole'
  <2>1. ASSUME NEW g \in Files, walked'[g] = Absent PROVE walked[g] = Absent
    BY <1>1, <1>4, <2>1, ContentAssumption DEF TypeInv, TypeOK, Trees
  <2>2. ASSUME NEW g \in Files, walked'[g] = Absent PROVE OfOneVersion(g)
    BY <1>1, <1>4, <2>1, <2>2 DEF WholeInv, UntakenWhole, Pruning
  <2> QED
    BY <1>1, <2>2, SameRowsSameVersions DEF UntakenWhole
<1>5. CASE Skip(f)
  <2> SUFFICES ASSUME Whole' PROVE WholeInv'
    BY BrokenIsWhole
  <2>1. /\ disk[f] \in Versions /\ ~force /\ docs[Parent(f)] = disk[f]
        /\ walked' = [walked EXCEPT ![f] = disk[f]] /\ batch' = batch /\ pc' = "walk"
        /\ seen' = seen \cup {Parent(f)} \cup
                      {id \in Ids : docs[id] # Absent /\
                                    (id[1] = f \/ <<f, id[1]>> \in Prefix)}
    BY <1>1, <1>2, <1>5 DEF Skip, Unchanged
  <2>2. KeywordOnly' /\ KeywordOnly /\ ~Forced' /\ Prefix = {}
    BY <1>1, <2>1 DEF Whole, Forced, KeywordOnly
  <2>3. RowsWhole /\ OfOneVersion(f)
    BY <1>1, <2>2 DEF WholeInv, Whole, UntakenWhole, Pruning
  <2>4. /\ Called(walked') = Called(walked) \cup DOMAIN Items(f, disk[f])
        /\ \A id \in DOMAIN Items(f, disk[f]) : id \in Ids /\ Rows(walked')[id] = disk[f]
        /\ \A id \in Called(walked) : Rows(walked')[id] = Rows(walked)[id]
    BY <1>1, <2>1, CalledMore
  <2>5. \A id \in Ids : id[1] = f =>
          docs[id] = IF id[2] <= ChunksOf[disk[f]] THEN disk[f] ELSE Absent
    <3>1. TAKE id \in Ids
    <3>2. id = <<id[1], id[2]>> /\ id[2] \in 0..MaxChunk
      BY DEF Ids
    <3> QED
      BY <2>1, <2>3, <3>2, ContentAssumption DEF OfOneVersion
  <2>6. \A id \in Ids : id \in DOMAIN Items(f, disk[f]) <=>
                          id[1] = f /\ id[2] <= ChunksOf[disk[f]]
    BY <2>1, ContentAssumption DEF Items, Ids
  <2>7. DOMAIN Items(f, disk[f]) =
          {Parent(f)} \cup {id \in Ids : docs[id] # Absent /\
                                         (id[1] = f \/ <<f, id[1]>> \in Prefix)}
    <3>1. Parent(f) \in DOMAIN Items(f, disk[f])
      BY <2>1, ContentAssumption DEF Items, Parent
    <3>2. DOMAIN Items(f, disk[f]) \subseteq Ids
      BY <2>4
    <3>3. disk[f] # Absent
      BY <2>1, ContentAssumption
    <3> QED
      BY <2>2, <2>5, <2>6, <3>1, <3>2, <3>3
  <2>8. seen' = Called(walked')
    BY <2>1, <2>3, <2>4, <2>7 DEF RowsWhole
  <2>9. \A id \in DOMAIN Items(f, disk[f]) : docs'[id] = Rows(walked')[id]
    BY <1>1, <2>4, <2>5, <2>6
  <2>10. RowsWhole'
    BY <1>1, <2>1, <2>3, <2>4, <2>8, <2>9 DEF RowsWhole, Pruning
  <2> QED
    BY <1>4, <2>1, <2>2, <2>10 DEF WholeInv
<1>6. CASE Queue(f)
  <2> SUFFICES ASSUME Whole' PROVE WholeInv'
    BY BrokenIsWhole
  <2> DEFINE items == Items(f, disk[f])
  <2>1. /\ disk[f] \in Versions
        /\ batch' = [id \in DOMAIN items \cup DOMAIN batch |->
                       IF id \in DOMAIN items THEN items[id] ELSE batch[id]]
        /\ seen' = seen \cup DOMAIN items
        /\ walked' = [walked EXCEPT ![f] = disk[f]]
    BY <1>2, <1>6 DEF Queue
  <2>2. RowsWhole
    BY <1>3 DEF WholeInv
  <2>3. /\ Called(walked') = Called(walked) \cup DOMAIN items
        /\ \A id \in DOMAIN items : id \in Ids /\ Rows(walked')[id] = disk[f]
        /\ \A id \in Called(walked) : Rows(walked')[id] = Rows(walked)[id]
    BY <1>1, <2>1, CalledMore
  <2>4. \A id \in DOMAIN items : items[id] = disk[f]
    BY <2>1, ItemsType
  <2> HIDE DEF items
  <2>5. DOMAIN batch' = DOMAIN items \cup DOMAIN batch
        /\ \A id \in DOMAIN batch' :
             batch'[id] = IF id \in DOMAIN items THEN disk[f] ELSE batch[id]
    BY <2>1, <2>4
  <2>6. RowsWhole'
    <3>1. seen' = Called(walked')
      BY <2>1, <2>2, <2>3 DEF RowsWhole
    <3>2. \A id \in DOMAIN batch' : id \in seen' /\ batch'[id] = Rows(walked')[id]
      BY <2>1, <2>2, <2>3, <2>5 DEF RowsWhole
    <3>3. \A id \in seen' : docs'[id] = Rows(walked')[id] \/ id \in DOMAIN batch'
      BY <1>1, <2>1, <2>2, <2>3, <2>5 DEF RowsWhole
    <3> QED
      BY <1>1, <3>1, <3>2, <3>3 DEF RowsWhole, Pruning
  <2>7. ASSUME Forced' PROVE VectorsWhole'
    <3>1. VectorsWhole
      BY <1>3, <2>7 DEF WholeInv
    <3>2. ASSUME NEW id \in seen', Searchable(id, Rows(walked')[id])
          PROVE  id \in DOMAIN batch' \/ dense'[id] = Rows(walked')[id]
      <4>1. CASE id \in DOMAIN items
        BY <2>5, <4>1
      <4>2. CASE id \in seen
        <5>1. Rows(walked')[id] = Rows(walked)[id]
          BY <2>2, <2>3, <4>2 DEF RowsWhole
        <5>2. id \in DOMAIN batch \/ Embedded(id)
          BY <1>1, <3>1, <3>2, <4>2, <5>1 DEF VectorsWhole
        <5> QED
          BY <1>1, <2>5, <5>1, <5>2 DEF Embedded
      <4> QED
        BY <2>1, <3>2, <4>1, <4>2
    <3> QED
      BY <1>1, <3>2 DEF VectorsWhole, Embedded
  <2> QED
    BY <1>4, <2>1, <2>6, <2>7 DEF WholeInv
<1>7. CASE Vanished(f)
  BY <1>1, <1>7, SameIsWhole DEF Vanished, TakeFile
<1>8. CASE ParseFail(f)
  BY <1>8, FaultBreaks, BrokenIsWhole DEF ParseFail
<1> QED
  BY <1>5, <1>6, <1>7, <1>8 DEF TakeFile

\* A step that writes no file but those of the batch.
LEMMA WriteWhole ==
  ASSUME TypeInv, RowsWhole, NEW S \in SUBSET DOMAIN batch,
         docs' = [id \in Ids |-> IF id \in S THEN batch[id] ELSE docs[id]]
  PROVE  /\ \A id \in seen : docs'[id] = IF id \in S THEN Rows(walked)[id] ELSE docs[id]
         /\ \A f \in Files : walked[f] = Absent /\ OfOneVersion(f) => OfOneVersion(f)'
<1>1. seen \subseteq Ids /\ \A id \in S : id \in seen /\ batch[id] = Rows(walked)[id]
  BY DEF RowsWhole, Called
<1>2. \A id \in S : walked[id[1]] # Absent
  BY <1>1 DEF RowsWhole, Called, Rows
<1>3. ASSUME NEW f \in Files, walked[f] = Absent, OfOneVersion(f) PROVE OfOneVersion(f)'
  <2>1. \A k \in 0..MaxChunk : <<f, k>> \in Ids /\ <<f, k>> \notin S
    BY <1>2, <1>3 DEF Ids
  <2>2. \A k \in 0..MaxChunk : docs'[<<f, k>>] = docs[<<f, k>>]
    BY <2>1
  <2>3. docs'[Parent(f)] = docs[Parent(f)]
    BY <2>2, ContentAssumption DEF Parent
  <2> QED
    BY <1>3, <2>2, <2>3 DEF OfOneVersion
<1> QED
  BY <1>1, <1>3

LEMMA FlushWhole ==
  ASSUME TypeInv, WholeInv, FlushStep,
         clean' => clean, KeywordOnly' => KeywordOnly
  PROVE  WholeInv'
<1>1. /\ pc \in {"commit", "vectors", "retry", "retryVector"}
      /\ pc' \in {"vectors", "retry", "retryVector", "walk"}
      /\ UNCHANGED <<force, seen, walked>>
  BY FlushStepEffect
<1>2. (Whole' => Whole) /\ (Forced' => Forced)
  BY <1>1 DEF Whole, Forced
<1> SUFFICES ASSUME Whole' PROVE WholeInv'
  BY BrokenIsWhole
<1>r. /\ seen = Called(walked)
      /\ \A id \in DOMAIN batch : id \in seen /\ batch[id] = Rows(walked)[id]
      /\ \A id \in seen : \/ docs[id] = Rows(walked)[id]
                          \/ pc = "commit" /\ id \in DOMAIN batch
      /\ RowsWhole
  BY <1>1, <1>2 DEF WholeInv, RowsWhole
<1>v. ASSUME Forced', NEW id \in seen, Searchable(id, Rows(walked)[id])
      PROVE  CASE pc = "commit"  -> id \in DOMAIN batch \/ dense[id] = Rows(walked)[id]
               [] pc = "vectors" -> id \in pending \/ dense[id] = Rows(walked)[id]
               [] OTHER          -> dense[id] = Rows(walked)[id]
  BY <1>1, <1>2, <1>v DEF WholeInv, VectorsWhole, Embedded
<1>u. ASSUME KeywordOnly', NEW f \in Files, walked[f] = Absent PROVE OfOneVersion(f)
  BY <1>1, <1>u DEF WholeInv, UntakenWhole, Pruning
\* It is enough to say what becomes of the stores.
<1>s. ASSUME \A id \in DOMAIN batch' : id \in seen /\ batch'[id] = Rows(walked)[id],
             \A id \in seen : docs'[id] = Rows(walked)[id],
             Forced' => \A id \in seen : Searchable(id, Rows(walked)[id]) =>
                           \/ pc' = "vectors" /\ id \in pending'
                           \/ dense'[id] = Rows(walked)[id],
             \A f \in Files : walked[f] = Absent /\ OfOneVersion(f) => OfOneVersion(f)'
      PROVE  WholeInv'
  <2>1. RowsWhole'
    BY <1>1, <1>r, <1>s DEF RowsWhole, Pruning
  <2>2. Forced' => VectorsWhole'
    BY <1>1, <1>s DEF VectorsWhole, Embedded
  <2>3. KeywordOnly' => UntakenWhole'
    BY <1>1, <1>u, <1>s DEF UntakenWhole
  <2> QED
    BY <2>1, <2>2, <2>3 DEF WholeInv
<1>3. CASE CommitBatch
  <2>1. /\ pc = "commit" /\ pc' = "vectors" /\ batch' = batch /\ dense' = dense
        /\ pending' = VectorIds(batch)
        /\ docs' = [id \in Ids |-> IF id \in DOMAIN batch THEN batch[id] ELSE docs[id]]
    BY <1>3 DEF CommitBatch, WriteRows, Goto
  <2>2. /\ \A id \in seen : docs'[id] = Rows(walked)[id]
        /\ \A f \in Files : walked[f] = Absent /\ OfOneVersion(f) => OfOneVersion(f)'
    BY <1>r, <2>1, WriteWhole
  <2>3. ASSUME Forced', NEW id \in seen, Searchable(id, Rows(walked)[id])
        PROVE  id \in pending' \/ dense'[id] = Rows(walked)[id]
    BY <1>r, <1>v, <2>1, <2>3 DEF VectorIds
  <2> QED
    BY <1>r, <1>s, <2>1, <2>2, <2>3
<1>4. CASE SendVectors
  <2>1. PICK S \in SUBSET pending : WriteVectors(batch, S) /\ pending' = pending \ S
    BY <1>4 DEF SendVectors
  <2>2. pc = "vectors" /\ pc' = "vectors" /\ batch' = batch /\ docs' = docs
    BY <1>4 DEF SendVectors
  <2>3. pending \subseteq DOMAIN batch
    BY <2>2 DEF TypeInv, PendingInBatch
  <2>4. ASSUME Forced', NEW id \in seen, Searchable(id, Rows(walked)[id])
        PROVE  id \in pending' \/ dense'[id] = Rows(walked)[id]
    <3>1. id \in ChunkIds
      BY <2>4 DEF Searchable
    <3>2. dense'[id] = IF id \in S THEN Rows(walked)[id] ELSE dense[id]
      BY <1>r, <2>1, <2>3, <3>1 DEF WriteVectors
    <3> QED
      BY <1>v, <2>1, <2>2, <2>4, <3>2
  <2> QED
    BY <1>r, <1>s, <2>2, <2>4, SameRowsSameVersions
<1>5. CASE SendVectorsFail
  <2>1. ~Forced'
    BY <1>5, FaultBreaks DEF SendVectorsFail
  <2>2. pc = "vectors" /\ batch' = batch /\ docs' = docs
    BY <1>5 DEF SendVectorsFail, stores
  <2> QED
    BY <1>r, <1>s, <2>1, <2>2, SameRowsSameVersions
<1>6. CASE FlushDone
  <2>1. /\ pc \in {"vectors", "retry"} /\ pending = {} /\ batch' = NoBatch
        /\ docs' = docs /\ dense' = dense
    BY <1>6 DEF FlushDone, stores
  <2>2. DOMAIN batch' = {}
    BY <2>1 DEF NoBatch
  <2>3. ASSUME Forced', NEW id \in seen, Searchable(id, Rows(walked)[id])
        PROVE  dense'[id] = Rows(walked)[id]
    BY <1>v, <2>1, <2>3
  <2> QED
    BY <1>r, <1>s, <2>1, <2>2, <2>3, SameRowsSameVersions
<1>7. ASSUME NEW i \in Ids, RetryRow(i) PROVE WholeInv'
  <2>1. /\ pc = "retry" /\ i \in DOMAIN batch /\ batch' = batch /\ dense' = dense
        /\ docs' = [id \in Ids |-> IF id \in {i} THEN batch[id] ELSE docs[id]]
    BY <1>7 DEF RetryRow, NextRetry, WriteRows, TypeInv, PendingInBatch
  <2>2. /\ \A id \in seen : docs'[id] = Rows(walked)[id]
        /\ \A f \in Files : walked[f] = Absent /\ OfOneVersion(f) => OfOneVersion(f)'
    <3>1. {i} \in SUBSET DOMAIN batch
      BY <2>1
    <3> QED
      BY <1>r, <2>1, <3>1, WriteWhole
  <2>3. ASSUME Forced', NEW id \in seen, Searchable(id, Rows(walked)[id])
        PROVE  dense'[id] = Rows(walked)[id]
    BY <1>v, <2>1, <2>3
  <2> QED
    BY <1>r, <1>s, <2>1, <2>2, <2>3
<1>8. CASE RetryVector
  <2>1. pc = "retryVector" /\ batch' = batch /\ docs' = docs
    BY <1>8 DEF RetryVector
  <2>2. cur \in DOMAIN batch
    BY <2>1 DEF TypeInv, PendingInBatch
  <2>3. ASSUME Forced', NEW id \in seen, Searchable(id, Rows(walked)[id])
        PROVE  dense'[id] = Rows(walked)[id]
    <3>1. id \in ChunkIds /\ dense[id] = Rows(walked)[id]
      BY <1>v, <2>1, <2>3 DEF Searchable
    <3>2. WriteVectors(batch, {cur})
      BY <1>8, <2>3, FaultBreaks DEF RetryVector
    <3> QED
      BY <1>r, <2>2, <3>1, <3>2 DEF WriteVectors
  <2> QED
    BY <1>r, <1>s, <2>1, <2>3, SameRowsSameVersions
<1>9. CASE CommitBatchFail \/ \E id \in Ids : RetryRowFail(id)
  BY <1>9, FaultBreaks DEF CommitBatchFail, RetryRowFail
<1> QED
  BY <1>3, <1>4, <1>5, <1>6, <1>7, <1>8, <1>9 DEF FlushStep

LEMMA PruneWhole ==
  ASSUME TypeInv, TakenOnly, WholeInv, PruneBegin \/ PruneBeginFail \/ PruneStep,
         clean' => clean, KeywordOnly' => KeywordOnly
  PROVE  WholeInv'
<1>1. pc' \in Pruning \cup {"done"} /\ UNCHANGED <<force, seen, walked, batch>>
  BY PruneStepEffect DEF PruneBegin, PruneBeginFail, flushUnchanged, Goto, Pruning
<1>2. (Whole' => Whole) /\ (Forced' => Forced)
  BY <1>1 DEF Whole, Forced
<1> SUFFICES ASSUME Whole' PROVE WholeInv'
  BY BrokenIsWhole
<1>r. /\ seen = Called(walked)
      /\ \A id \in DOMAIN batch : id \in seen /\ batch[id] = Rows(walked)[id]
      /\ \A id \in seen : \/ docs[id] = Rows(walked)[id]
                          \/ pc \in {"walk", "commit"} /\ id \in DOMAIN batch
  <2>1. RowsWhole
    BY <1>2 DEF WholeInv
  <2> QED
    BY <2>1 DEF RowsWhole
<1>d. docs \in [Ids -> Cell] /\ seen \subseteq Ids
  BY <1>r DEF TypeInv, TypeOK, StoresTypeOK, Called
\* It is enough to say what becomes of the stores and of what is left.
<1>s. ASSUME \A id \in seen : docs'[id] = Rows(walked)[id],
             pc' = "pruneVector" => docs'[cur'] = Absent,
             \A id \in Ids \ seen : docs'[id] # Absent => pc' # "done" /\ id \in pending',
             Forced' => \A id \in seen : Searchable(id, Rows(walked)[id]) =>
                                            dense'[id] = Rows(walked)[id]
      PROVE  WholeInv'
  <2>1. RowsWhole'
    BY <1>1, <1>r, <1>s DEF RowsWhole
  <2>2. Forced' => VectorsWhole'
    BY <1>1, <1>s DEF VectorsWhole, Embedded, Pruning
  <2>3. UntakenWhole'
    BY <1>1 DEF UntakenWhole
  <2> QED
    BY <2>1, <2>2, <2>3 DEF WholeInv
<1>3. CASE PruneBegin
  <2>1. /\ pc = "walk" /\ pc' = "prune" /\ DOMAIN batch = {}
        /\ docs' = docs /\ dense' = dense
        /\ pending' = {id \in Ids : docs[id] # Absent} \ seen
    BY <1>3 DEF PruneBegin, stores, Goto, NoBatch
  <2>2. ASSUME Forced', NEW id \in seen, Searchable(id, Rows(walked)[id])
        PROVE  dense'[id] = Rows(walked)[id]
    BY <1>2, <2>1, <2>2 DEF WholeInv, VectorsWhole, Embedded
  <2> QED
    BY <1>r, <1>s, <2>1, <2>2
<1>4. ASSUME pc \in Pruning, NEW id \in seen, Forced', Searchable(id, Rows(walked)[id])
      PROVE  dense[id] = Rows(walked)[id] /\ id \in ChunkIds
  BY <1>2, <1>4 DEF WholeInv, VectorsWhole, Embedded, Pruning, Searchable
<1>5. ASSUME pc \in Pruning
      PROVE  /\ \A id \in seen : docs[id] = Rows(walked)[id] /\ id \notin pending
             /\ pc = "pruneVector" => docs[cur] = Absent /\ cur \in pending
             /\ \A id \in Ids \ seen : docs[id] # Absent => id \in pending
  BY <1>2, <1>5, <1>r DEF WholeInv, RowsWhole, TakenOnly, TypeInv, PendingInBatch, Pruning
<1>6. ASSUME NEW i \in Ids, PruneRow(i) PROVE WholeInv'
  <2>1. /\ pc \in Pruning /\ i \in pending /\ pc' = "pruneVector" /\ cur' = i
        /\ docs' = [docs EXCEPT ![i] = Absent] /\ dense' = dense /\ pending' = pending
    BY <1>6 DEF PruneRow, DeleteRow, Goto, Pruning
  <2>2. \A id \in Ids : docs'[id] = IF id = i THEN Absent ELSE docs[id]
    BY <1>d, <2>1
  <2> QED
    BY <1>4, <1>5, <1>d, <1>s, <2>1, <2>2
<1>7. CASE PruneVector
  <2>1. /\ pc = "pruneVector" /\ pc' = "prune" /\ docs' = docs
        /\ pending' = pending \ {cur} /\ pc \in Pruning
    BY <1>7 DEF PruneVector, Goto, Pruning
  <2>2. ASSUME Forced', NEW id \in seen, Searchable(id, Rows(walked)[id])
        PROVE  dense'[id] = Rows(walked)[id]
    <3>1. DeleteVector(cur)
      BY <1>7, <2>2, FaultBreaks DEF PruneVector
    <3> QED
      BY <1>4, <1>5, <2>1, <2>2, <3>1 DEF DeleteVector
  <2> QED
    BY <1>5, <1>s, <2>1, <2>2
<1>8. CASE PruneDone
  <2>1. pc = "prune" /\ pc' = "done" /\ pending = {} /\ docs' = docs /\ dense' = dense
    BY <1>8 DEF PruneDone, Goto, stores
  <2>2. pc \in Pruning
    BY <2>1 DEF Pruning
  <2> QED
    BY <1>4, <1>5, <1>s, <2>1, <2>2
<1>9. CASE PruneBeginFail \/ \E id \in Ids : PruneRowFail(id)
  BY <1>9, FaultBreaks DEF PruneBeginFail, PruneRowFail
<1> QED
  BY <1>3, <1>6, <1>7, <1>8, <1>9 DEF PruneStep

LEMMA WholeStep ==
  ASSUME TypeInv, TakenOnly, WholeInv, [Next]_vars
  PROVE  WholeInv'
<1>1. (KeywordOnly' => KeywordOnly) /\ (pc # "idle" /\ clean' => clean)
  BY WholeBefore
<1>2. ASSUME KeywordOnly, pc \in BeforeWalk, NEW f \in Files PROVE OfOneVersion(f)
  BY <1>2 DEF WholeInv, UntakenWhole, TakenOnly, BeforeWalk, Pruning, NoFiles
<1>3. ASSUME pc \in BeforeWalk, pc' \in BeforeWalk,
             UNCHANGED <<docs, seen, batch, walked>>
      PROVE  WholeInv'
  BY <1>1, <1>2, <1>3, BlankIsWhole, SameRowsSameVersions DEF TakenOnly
<1>4. CASE SyncStep
  BY <1>3, <1>4, SyncStepEffect DEF stores
<1>5. CASE IdleStep
  BY <1>3, <1>5, IdleStepEffect DEF BeforeWalk
<1>6. CASE EndStep
  <2>1. /\ pc' \in BeforeWalk /\ walked' = NoFiles /\ batch' = NoBatch /\ seen' = {}
        /\ docs' = docs
    BY <1>6, EndStepEffect, ForgetIsBlank DEF BeforeWalk, stores
  <2>2. ASSUME KeywordOnly', NEW f \in Files PROVE OfOneVersion(f)
    <3>1. CASE ShortCircuit
      BY <1>1, <1>2, <2>2, <3>1 DEF ShortCircuit, BeforeWalk
    <3>2. CASE Finish
      <4>1. RowsWhole /\ pc = "done"
        BY <1>1, <2>2, <3>2 DEF Finish, WholeInv, Whole
      <4>2. docs = Rows(walked) /\ walked \in Trees
        BY <4>1, DoneIsWhole DEF TypeInv, TypeOK
      <4> QED
        BY <4>2, RowsAreOfOneVersion
    <3>3. CASE SyncRaise \/ SyncUnrecorded \/ EnumerateFail \/ Crash
      BY <2>2, <3>3, FaultBreaks
         DEF SyncRaise, SyncUnrecorded, EnumerateFail, Crash, Whole
    <3> QED
      BY <1>6, <3>1, <3>2, <3>3 DEF EndStep
  <2> QED
    BY <2>1, <2>2, BlankIsWhole, SameRowsSameVersions
<1>7. CASE EditStep \/ UNCHANGED vars
  <2>1. UNCHANGED <<docs, dense, pc, seen, batch, pending, cur, walked, force, clean>>
    BY <1>7, EditStepEffect DEF vars, stores, cycleVars
  <2> QED
    BY <1>1, <2>1, SameIsWhole
<1>8. CASE Enumerate
  <2>1. /\ pc = "synced" /\ pc' = "walk"
        /\ UNCHANGED <<docs, dense, seen, batch, walked>>
    BY <1>8 DEF Enumerate, Goto, stores
  <2>2. walked' = NoFiles /\ DOMAIN batch' = {} /\ seen' = {}
    BY <2>1 DEF TakenOnly, BeforeWalk, NoBatch
  <2>3. RowsWhole' /\ VectorsWhole'
    BY <2>1, <2>2, NothingCalled DEF RowsWhole, VectorsWhole, Pruning
  <2>4. KeywordOnly' => UntakenWhole'
    BY <1>1, <1>2, <2>1, SameRowsSameVersions DEF UntakenWhole, BeforeWalk
  <2> QED
    BY <2>3, <2>4 DEF WholeInv
<1>9. ASSUME NEW f \in Files, TakeFile(f) PROVE WholeInv'
  BY <1>1, <1>9, TakeFileWhole, TakeFileEffect
<1>10. CASE LastFlush
  <2>1. /\ pc = "walk" /\ pc' = "commit" /\ UNCHANGED <<onlyDense, clean>>
        /\ UNCHANGED <<docs, dense, seen, batch, pending, cur, walked, force>>
    BY <1>10 DEF LastFlush, Goto, stores, cycleVars, NoFault, budget
  <2>2. (Whole' => Whole) /\ (Forced' => Forced)
    BY <1>1, <2>1 DEF Whole, Forced
  <2>3. RowsWhole => RowsWhole'
    BY <2>1 DEF RowsWhole, Called, Rows, Pruning
  <2>4. VectorsWhole => VectorsWhole'
    BY <2>1 DEF VectorsWhole, Embedded, Rows
  <2>5. UntakenWhole => UntakenWhole'
    BY <2>1, SameRowsSameVersions DEF UntakenWhole, Pruning
  <2> QED
    BY <1>1, <2>2, <2>3, <2>4, <2>5 DEF WholeInv
<1>11. CASE FlushStep
  BY <1>1, <1>11, FlushWhole, FlushStepEffect
<1>12. CASE PruneBegin \/ PruneBeginFail \/ PruneStep
  <2>1. pc # "idle"
    BY <1>12, PruneStepEffect DEF PruneBegin, PruneBeginFail, Pruning
  <2> QED
    BY <1>1, <1>12, <2>1, PruneWhole
<1> QED
  BY <1>4, <1>5, <1>6, <1>7, <1>8, <1>9, <1>10, <1>11, <1>12, NextCases

LEMMA WholeInit == Init => WholeInv
<1> SUFFICES ASSUME Init PROVE WholeInv
  OBVIOUS
<1>1. pc = "idle" /\ walked = NoFiles /\ batch = NoBatch /\ seen = {}
  BY DEF Init
<1>2. ASSUME NEW f \in Files PROVE OfOneVersion(f)
  <2>1. CASE docs = NoRows
    <3>1. \A id \in Ids : docs[id] = Absent
      BY <2>1 DEF NoRows
    <3>2. \A k \in 0..MaxChunk : <<f, k>> \in Ids
      BY DEF Ids
    <3> QED
      BY <1>2, <3>1, <3>2, ParentIsId DEF OfOneVersion
  <2>2. CASE docs = Rows(origin)
    BY <2>2, RowsAreOfOneVersion DEF Init
  <2> QED
    BY <2>1, <2>2 DEF Init
<1>3. RowsWhole
  BY <1>1, NothingCalled DEF RowsWhole, NoBatch, Pruning
<1> QED
  BY <1>1, <1>2, <1>3 DEF WholeInv, VectorsWhole, UntakenWhole

\* In a whole cycle every row that the parsed files call for is written or
\* queued, and so is its vector; what they do not call for is to be removed.
THEOREM WholeInvariant == Spec => []WholeInv
<1>1. WalkInv /\ WholeInv /\ [Next]_vars => WholeInv'
  BY WholeStep DEF WalkInv
<1> QED
  BY <1>1, WholeInit, WalkInvariant, PTL DEF Spec

\* A forced cycle without a fault repairs every row of the files it parsed,
\* and the vector and the full-text entry of every chunk with a text, whatever
\* earlier crashes and failures left: it queues every file, hashes or not, and
\* a row that is not queued is removed.
THEOREM ForceMends == Spec => []ForceRepairs
<1>1. ASSUME TypeInv, WholeInv, FtsMirrorsDocs, pc = "done", clean, force
      PROVE  /\ docs = Rows(walked)
             /\ \A id \in ChunkIds :
                   Entries(docs)[id] # Absent =>
                     /\ dense[id] = Entries(docs)[id]
                     /\ fts[id] = Entries(docs)[id]
  <2>1. RowsWhole /\ VectorsWhole
    BY <1>1 DEF WholeInv, Whole, Forced
  <2>2. docs = Rows(walked)
    BY <1>1, <2>1, DoneIsWhole
  <2>3. ASSUME NEW id \in ChunkIds, Entries(docs)[id] # Absent
        PROVE  dense[id] = Entries(docs)[id] /\ fts[id] = Entries(docs)[id]
    <3>1. Entries(docs)[id] = docs[id] /\ Searchable(id, docs[id])
      BY <2>3 DEF Entries
    <3>2. id \in Ids /\ docs[id] # Absent
      BY <3>1, ChunksAreIds, ContentAssumption DEF Searchable
    <3>3. id \in seen
      BY <2>1, <2>2, <3>2 DEF RowsWhole, Called
    <3>4. dense[id] = Entries(docs)[id]
      BY <1>1, <2>1, <2>2, <3>1, <3>3 DEF VectorsWhole, Embedded
    <3>5. fts[id] = Entries(docs)[id]
      BY <1>1, <3>1 DEF FtsMirrorsDocs, Searchable
    <3> QED
      BY <3>4, <3>5
  <2> QED
    BY <2>2, <2>3
<1>2. TypeInv /\ WholeInv /\ FtsMirrorsDocs => ForceRepairs
  BY <1>1 DEF ForceRepairs
<1> QED
  BY <1>2, TypesInvariant, WholeInvariant, FtsCorrect, PTL

\* Where no path is a prefix of another, a Chroma outage costs the keyword
\* side nothing: however many Chroma calls failed, and in however many
\* cycles, a finished walk has the rows of exactly the files it parsed.
THEOREM RowsSurvive ==
  ASSUME Prefix = {}
  PROVE  Spec => []RowsMatchWalk
<1>1. ASSUME TypeInv, WholeInv, pc = "done", onlyDense PROVE docs = Rows(walked)
  BY <1>1, DoneIsWhole DEF WholeInv, Whole, KeywordOnly
<1>2. TypeInv /\ WholeInv => RowsMatchWalk
  BY <1>1 DEF RowsMatchWalk
<1> QED
  BY <1>2, TypesInvariant, WholeInvariant, PTL
-----------------------------------------------------------------------------
(***************************************************************************)
(* The refinement: the documents are the index that Index speaks of.  Its  *)
(* promises do not depend on a clean cycle, so neither does this part of   *)
(* the invariant.                                                          *)
(***************************************************************************)
\* What the batch holds is what the files parsed call for; a row that they
\* call for, has been seen or is not there, and so is none to be removed.
HeldInv ==
    /\ DOMAIN batch \subseteq seen
    /\ \A id \in DOMAIN batch : batch[id] = Rows(walked)[id]
    /\ \A id \in Called(walked) : id \in seen \/ docs[id] = Absent
    /\ pc \in Pruning => pending \cap Called(walked) = {}
    /\ pc = "idle" => force = FALSE

LEMMA SameRowsHeld ==
  ASSUME HeldInv, UNCHANGED <<seen, walked>>, batch' \in {batch, NoBatch},
         \A id \in Ids : docs'[id] = docs[id] \/ docs'[id] = Absent \/ id \in seen,
         pc' \in Pruning => pc \in Pruning /\ pending' \subseteq pending,
         pc' = "idle" => pc = "idle" /\ force' = force
  PROVE  HeldInv'
<1>1. Rows(walked)' = Rows(walked) /\ Called(walked)' = Called(walked)
  BY DEF Rows, Called
<1>2. Called(walked) \subseteq Ids
  BY DEF Called
<1> QED
  BY <1>1, <1>2 DEF HeldInv, NoBatch

LEMMA FlushedRows ==
  ASSUME TypeInv, HeldInv, FlushStep
  PROVE  /\ \A id \in Ids : docs'[id] = docs[id] \/
               (id \in DOMAIN batch /\ docs'[id] = batch[id])
         /\ docs' = docs \/ clean' = clean
<1>1. CASE CommitBatch
  BY <1>1 DEF CommitBatch, WriteRows, NoFault
<1>2. ASSUME NEW id \in Ids, RetryRow(id)
      PROVE  /\ \A i \in Ids : docs'[i] = docs[i] \/
                   (i \in DOMAIN batch /\ docs'[i] = batch[i])
             /\ clean' = clean
  <2>1. id \in DOMAIN batch
    BY <1>2 DEF RetryRow, NextRetry, TypeInv, PendingInBatch
  <2>2. docs' = [i \in Ids |-> IF i = id THEN batch[id] ELSE docs[i]]
    BY <1>2 DEF RetryRow, WriteRows
  <2> QED
    BY <1>2, <2>1, <2>2 DEF RetryRow, NoFault
<1>3. CASE UNCHANGED docs
  BY <1>3
<1> QED
  BY <1>1, <1>2, <1>3 DEF FlushStep, CommitBatchFail, SendVectors,
     SendVectorsFail, FlushDone, RetryVector, RetryRowFail, stores

LEMMA PrunedRows ==
  ASSUME TypeInv, PruneStep
  PROVE  \A i \in Ids : docs'[i] = docs[i] \/ docs'[i] = Absent
<1>1. ASSUME NEW id \in Ids, PruneRow(id)
      PROVE  \A i \in Ids : docs'[i] = docs[i] \/ docs'[i] = Absent
  BY <1>1 DEF PruneRow, DeleteRow, TypeInv, TypeOK, StoresTypeOK
<1>2. CASE UNCHANGED docs
  BY <1>2
<1> QED
  BY <1>1, <1>2 DEF PruneStep, PruneVector, PruneDone, PruneRowFail, stores

\* A file just parsed calls for its own rows, the other files for what they
\* called for.
LEMMA RowsAfterRead ==
  ASSUME TypeInv, NEW f \in Files, disk[f] # Absent,
         walked' = [walked EXCEPT ![f] = disk[f]]
  PROVE  \A id \in Ids :
           Rows(walked)'[id] = IF id[1] # f THEN Rows(walked)[id]
                               ELSE IF id[2] <= ChunksOf[disk[f]] THEN disk[f]
                               ELSE Absent
<1>1. \A g \in Files : walked'[g] = IF g = f THEN disk[f] ELSE walked[g]
  BY DEF TypeInv, TypeOK, Trees
<1>2. \A id \in Ids : id[1] \in Files
  BY DEF Ids
<1> QED
  BY <1>1, <1>2 DEF Rows

LEMMA TakeFileHeld ==
  ASSUME TypeInv, TakenOnly, HeldInv, NEW f \in Files, TakeFile(f)
  PROVE  HeldInv'
<1>1. /\ pc = "walk" /\ pc' \in {"walk", "commit"} /\ f \in todo
      /\ UNCHANGED stores
  BY TakeFileEffect
<1>2. pc' \notin Pruning /\ pc' # "idle"
  BY <1>1 DEF Pruning
<1>3. \A id \in DOMAIN batch : id \in Ids /\ id[1] # f
  BY <1>1 DEF TakenOnly, TypeInv, TypeOK
<1>4. CASE Skip(f)
  <2>1. /\ walked' = [walked EXCEPT ![f] = disk[f]] /\ disk[f] # Absent
        /\ batch' = batch /\ seen \subseteq seen'
        /\ \A id \in Ids : id[1] = f => id \in seen' \/ docs[id] = Absent
    BY <1>4 DEF Skip
  <2>2. \A id \in Called(walked)' : id \in seen' \/ docs[id] = Absent
    BY <2>1, RowsAfterRead DEF HeldInv, Called
  <2>3. \A id \in DOMAIN batch : batch[id] = Rows(walked)'[id]
    BY <1>3, <2>1, RowsAfterRead DEF HeldInv
  <2> QED
    BY <1>1, <1>2, <2>1, <2>2, <2>3 DEF HeldInv, stores
<1>5. CASE Queue(f)
  <2> DEFINE items == Items(f, disk[f])
  <2>1. /\ walked' = [walked EXCEPT ![f] = disk[f]] /\ disk[f] \in Versions
        /\ seen' = seen \cup DOMAIN items
        /\ batch' = [id \in DOMAIN items \cup DOMAIN batch |->
                       IF id \in DOMAIN items THEN items[id] ELSE batch[id]]
    BY <1>5 DEF Queue, TypeInv, TypeOK, Trees, Cell
  <2>2. \A id \in Ids : id \in DOMAIN items
                          <=> id[1] = f /\ id[2] <= ChunksOf[disk[f]]
    BY <2>1, ContentAssumption DEF Items, Ids
  <2>3. /\ \A id \in DOMAIN items : items[id] = disk[f]
        /\ DOMAIN items \subseteq Ids
    BY <2>1, ItemsType
  <2>4. disk[f] # Absent
    BY <2>1, ContentAssumption
  <2> HIDE DEF items
  <2>5. ASSUME NEW id \in Ids
        PROVE  Rows(walked)'[id] = IF id \in DOMAIN items THEN disk[f]
                                   ELSE IF id[1] = f THEN Absent
                                   ELSE Rows(walked)[id]
    BY <2>1, <2>2, <2>4, RowsAfterRead
  <2>6. \A id \in Called(walked)' : id \in seen' \/ docs[id] = Absent
    BY <2>1, <2>5 DEF HeldInv, Called
  <2>7. \A id \in DOMAIN batch' : batch'[id] = Rows(walked)'[id]
    BY <1>3, <2>1, <2>3, <2>5 DEF HeldInv
  <2>8. DOMAIN batch' \subseteq seen'
    BY <2>1 DEF HeldInv
  <2> QED
    BY <1>1, <1>2, <2>6, <2>7, <2>8 DEF HeldInv, stores
<1>6. CASE Vanished(f) \/ ParseFail(f)
  BY <1>1, <1>2, <1>6, SameRowsHeld DEF Vanished, ParseFail, stores
<1> QED
  BY <1>4, <1>5, <1>6 DEF TakeFile

LEMMA HeldStep ==
  ASSUME TypeInv, TakenOnly, HeldInv, [Next]_vars
  PROVE  HeldInv'
<1>1. CASE SyncStep
  BY <1>1, SyncStepEffect, SameRowsHeld DEF BeforeWalk, Pruning, stores
<1>2. CASE EndStep
  <2>1. /\ pc' = "idle" /\ walked' = NoFiles /\ batch' = NoBatch /\ seen' = {}
        /\ force' = FALSE
    BY <1>2, EndStepEffect DEF Forget
  <2> QED
    BY <2>1, NothingCalled DEF HeldInv, NoBatch, Pruning
<1>3. CASE IdleStep
  <2>1. pc' = "idle" => force' = force
    BY <1>3 DEF IdleStep, CorruptClone, WipeVectors, StartCycle, Goto, cycleVars
  <2> QED
    BY <1>3, <2>1, IdleStepEffect, SameRowsHeld DEF Pruning
<1>4. CASE FlushStep
  BY <1>4, FlushStepEffect, FlushedRows, SameRowsHeld DEF Pruning, HeldInv
<1>5. CASE PruneStep
  BY <1>5, PruneStepEffect, PrunedRows, SameRowsHeld DEF Pruning
<1>6. CASE EditStep \/ UNCHANGED vars
  BY <1>6, EditStepEffect, SameRowsHeld DEF vars, cycleVars, stores
<1>7. CASE Enumerate \/ LastFlush \/ PruneBeginFail
  BY <1>7, SameRowsHeld DEF Enumerate, LastFlush, PruneBeginFail, Goto,
     cycleVars, flushUnchanged, stores, Pruning
<1>8. ASSUME NEW f \in Files, TakeFile(f) PROVE HeldInv'
  BY <1>8, TakeFileHeld
<1>9. CASE PruneBegin
  <2>1. /\ UNCHANGED <<docs, seen, walked, batch>> /\ pc' = "prune"
        /\ pending' = {id \in Ids : docs[id] # Absent} \ seen
    BY <1>9 DEF PruneBegin, flushUnchanged, Goto, stores
  <2>2. Rows(walked)' = Rows(walked) /\ Called(walked)' = Called(walked)
    BY <2>1 DEF Rows, Called
  <2> QED
    BY <2>1, <2>2 DEF HeldInv
<1> QED
  BY <1>1, <1>2, <1>3, <1>4, <1>5, <1>6, <1>7, <1>8, <1>9, NextCases

\* Forced by the clean cycle, all rows are right once the batch is flushed;
\* unforced, the parents are.
LEMMA StoredOnceFlushed ==
  ASSUME TypeInv, WrittenOrQueued, WholeInv, clean,
         pc \in Pruning \cup {"done"}
  PROVE  Index!Stored
<1>1. pc \notin {"walk", "commit"}
  BY DEF Pruning
<1>2. SUFFICES ASSUME NEW id \in Ids, Index!SeenTo(id), Index!Wanted(id) # Absent
               PROVE  docs[id] = Index!Wanted(id)
  BY DEF Index!Stored, Index!Ids, Ids
<1>3. Index!Wanted(id) = Rows(walked)[id]
  BY <1>2 DEF Index!Wanted, Rows
<1>4. CASE force
  <2>1. RowsWhole
    BY <1>4 DEF WholeInv, Whole, Forced
  <2>2. id \in seen
    BY <1>2, <1>3, <2>1 DEF RowsWhole, Called
  <2> QED
    BY <1>1, <1>3, <2>1, <2>2 DEF RowsWhole
<1>5. CASE id[2] = 0
  <2>1. id[1] \in Files /\ id = Parent(id[1])
    BY <1>5 DEF Ids, Parent
  <2>2. walked[id[1]] # Absent /\ Index!Wanted(id) = walked[id[1]]
    BY <1>2 DEF Index!Wanted
  <2> QED
    BY <1>1, <2>1, <2>2 DEF WrittenOrQueued, Written
<1> QED
  BY <1>2, <1>4, <1>5 DEF Index!SeenTo

\* ... and when it is done, there is nothing else, but for what is spared.
LEMMA NothingElseWhenDone ==
  ASSUME TypeInv, ParentsMatchWalk, ForceRepairs, clean, pc = "done"
  PROVE  Index!NothingElse
<1>1. SUFFICES ASSUME NEW id \in Ids, Index!SeenTo(id), Index!Wanted(id) = Absent,
                      docs[id] # Absent
               PROVE  Index!Spared(id[1])
  BY DEF Index!NothingElse, Index!Ids, Ids
<1>2. ~force
  BY <1>1 DEF ForceRepairs, Index!Wanted, Rows
<1>3. id[2] = 0 /\ id[1] \in Files /\ id = Parent(id[1])
  BY <1>1, <1>2 DEF Index!SeenTo, Ids, Parent
<1>4. walked[id[1]] = Absent
  BY <1>1, <1>3, ContentAssumption DEF Index!Wanted, TypeInv, TypeOK, Trees, Cell
<1>5. Shielded(id[1], walked)
  BY <1>1, <1>3, <1>4 DEF ParentsMatchWalk, ParentsOf
<1> QED
  BY <1>2, <1>5 DEF Index!Spared, Shielded

\* A step that changes nothing of what Index sees, but perhaps fails.
LEMMA StayRefines ==
  ASSUME docs' = docs, Phase' = Phase, force' = force, walked' = walked,
         clean' \in {clean, FALSE}
  PROVE  [Index!Next]_(Index!vars)
BY DEF Index!Next, Index!Fail, Index!vars

LEMMA LeaveRefines ==
  ASSUME TypeInv, EndStep,
         pc = "done" /\ clean => Index!Stored /\ Index!NothingElse
  PROVE  Index!Next
<1>1. Index!Leave
  BY EndStepEffect DEF Forget, Index!Leave, Index!NoFiles, NoFiles, Phase, stores
<1>2. CASE ShortCircuit
  BY <1>1, <1>2 DEF ShortCircuit, NoFault, Phase, Index!Next, Index!Unneeded
<1>3. CASE Finish
  BY <1>1, <1>3 DEF Finish, NoFault, Phase, Index!Next, Index!Finish
<1>4. CASE SyncRaise \/ SyncUnrecorded \/ EnumerateFail \/ Crash
  <2>1. clean' = FALSE
    BY <1>4 DEF SyncRaise, SyncUnrecorded, EnumerateFail, Crash, Fault
  <2> QED
    BY <1>1, <2>1 DEF Index!Next, Index!Fail
<1> QED
  BY <1>2, <1>3, <1>4 DEF EndStep

LEMMA FlushRefines ==
  ASSUME TypeInv, TypeInv', HeldInv, FlushStep
  PROVE  [Index!Next]_(Index!vars)
<1>1. UNCHANGED <<force, walked>> /\ Phase = "walk" /\ Phase' = "walk"
  BY FlushStepEffect DEF Phase
<1>2. clean' \in {clean, FALSE}
  BY DEF FlushStep, CommitBatch, CommitBatchFail, SendVectors, SendVectorsFail,
     FlushDone, RetryVector, RetryRow, RetryRowFail, NoFault, Fault
<1>3. CASE docs' = docs
  BY <1>1, <1>2, <1>3, StayRefines
<1>4. CASE clean' = clean
  <2>1. ASSUME NEW id \in Ids, docs'[id] # docs[id]
        PROVE  Index!Wanted(id) # Absent /\ docs'[id] = Index!Wanted(id)
    <3>1. id \in DOMAIN batch /\ docs'[id] = batch[id]
      BY <2>1, FlushedRows
    <3>2. batch[id] = Rows(walked)[id] /\ batch[id] # Absent
      BY <3>1, ContentAssumption DEF HeldInv, TypeInv, TypeOK
    <3> QED
      BY <3>1, <3>2 DEF Rows, Index!Wanted
  <2>2. docs' \in [Index!Ids -> Index!Cell]
    BY DEF TypeInv, TypeOK, StoresTypeOK, Index!Ids, Index!Cell, Ids, Cell
  <2>3. Index!Store
    BY <1>1, <1>4, <2>1, <2>2 DEF Index!Store, Index!Ids, Ids
  <2> QED
    BY <2>3 DEF Index!Next
<1> QED
  BY <1>3, <1>4, FlushedRows

LEMMA PruneRefines ==
  ASSUME TypeInv, HeldInv, PruneStep, clean => Index!Stored
  PROVE  [Index!Next]_(Index!vars)
<1>1. /\ UNCHANGED <<force, walked>> /\ Phase = "walk" /\ Phase' = "walk"
      /\ pc \in Pruning
  BY PruneStepEffect DEF Phase, Pruning
<1>2. clean' \in {clean, FALSE}
  BY DEF PruneStep, PruneVector, PruneDone, PruneRow, PruneRowFail, NoFault,
     Fault
<1>3. CASE docs' = docs
  BY <1>1, <1>2, <1>3, StayRefines
<1>4. ASSUME NEW id \in Ids, PruneRow(id) PROVE Index!Next
  <2>1. id \in pending /\ docs' = [docs EXCEPT ![id] = Absent] /\ clean' = clean
    BY <1>4 DEF PruneRow, DeleteRow, NoFault
  <2>2. Rows(walked)[id] = Absent
    BY <1>1, <2>1 DEF HeldInv, Called
  <2>3. Index!Wanted(id) = Absent
    BY <2>2 DEF Rows, Index!Wanted
  <2>4. Index!Remove(id) /\ id \in Index!Ids
    BY <1>1, <2>1, <2>3 DEF Index!Remove, Index!Ids, Ids
  <2> QED
    BY <2>4 DEF Index!Next
<1> QED
  BY <1>3, <1>4 DEF PruneStep, PruneVector, PruneDone, PruneRowFail, stores

LEMMA TakeFileRefines ==
  ASSUME TypeInv, TakenOnly, NEW f \in Files, TakeFile(f)
  PROVE  [Index!Next]_(Index!vars)
<1>1. /\ f \in todo /\ walked[f] = Absent /\ UNCHANGED <<docs, force>>
      /\ Phase = "walk" /\ Phase' = "walk"
  BY TakeFileEffect DEF TakenOnly, Phase, stores
<1>2. CASE Skip(f) \/ Queue(f)
  <2>1. /\ disk[f] # Absent /\ walked' = [walked EXCEPT ![f] = disk[f]]
        /\ clean' = clean
    BY <1>2 DEF Skip, Queue, NoFault
  <2>2. disk[f] \in Versions
    BY <2>1 DEF TypeInv, TypeOK, Trees, Cell
  <2>3. Index!Read(f, disk[f])
    BY <1>1, <2>1 DEF Index!Read
  <2> QED
    BY <2>2, <2>3 DEF Index!Next
<1>3. CASE Vanished(f) \/ ParseFail(f)
  BY <1>1, <1>3, StayRefines DEF Vanished, ParseFail, NoFault, Fault
<1> QED
  BY <1>2, <1>3 DEF TakeFile

\* The parts of the invariant a step needs.
RefInv == /\ WalkInv /\ WholeInv /\ HeldInv
          /\ ParentsMatchWalk /\ ForceRepairs

LEMMA IndexStep ==
  ASSUME RefInv, TypeInv', [Next]_vars
  PROVE  [Index!Next]_(Index!vars)
<1> USE DEF RefInv, WalkInv
<1>1. CASE SyncStep
  <2>1. clean' \in {clean, FALSE}
    BY <1>1 DEF SyncStep, SyncLocal, CloneBegin, RecloneBegin, CloneInit,
       CloneDone, CloneFail, SyncInvalid, Fetch, FetchFail, NoFault, Fault
  <2>2. docs' = docs /\ Phase' = Phase /\ force' = force /\ walked' = walked
    BY <1>1, SyncStepEffect DEF BeforeWalk, Phase, stores
  <2> QED
    BY <2>1, <2>2, StayRefines
<1>2. CASE EndStep
  <2>1. pc = "done" /\ clean => Index!Stored /\ Index!NothingElse
    BY StoredOnceFlushed, NothingElseWhenDone
  <2> QED
    BY <1>2, <2>1, LeaveRefines
<1>3. ASSUME NEW f \in BOOLEAN, StartCycle(f) PROVE Index!Next
  <2>1. Index!Start(f)
    BY <1>3 DEF StartCycle, Goto, Phase, Index!Start
  <2> QED
    BY <2>1 DEF Index!Next
<1>4. CASE CorruptClone \/ WipeVectors
  BY <1>4, StayRefines
     DEF CorruptClone, WipeVectors, Fault, Phase, stores, cycleVars
<1>5. CASE FlushStep
  BY <1>5, FlushRefines
<1>6. CASE PruneStep
  <2>1. clean => Index!Stored
    BY <1>6, PruneStepEffect, StoredOnceFlushed
  <2> QED
    BY <1>6, <2>1, PruneRefines
<1>7. CASE EditStep \/ UNCHANGED vars
  <2>1. docs' = docs /\ force' = force /\ walked' = walked /\ clean' = clean
    BY <1>7, EditStepEffect DEF vars, cycleVars, stores
  <2>2. Phase' = Phase
    BY <1>7, EditStepEffect DEF vars, Phase
  <2> QED
    BY <2>1, <2>2, StayRefines
<1>8. CASE Enumerate
  BY <1>8 DEF Enumerate, Goto, NoFault, Phase, stores, Index!Next, Index!Walk
<1>9. ASSUME NEW f \in Files, TakeFile(f) PROVE [Index!Next]_(Index!vars)
  BY <1>9, TakeFileRefines
<1>10. CASE LastFlush \/ PruneBegin \/ PruneBeginFail
  BY <1>10, StayRefines DEF LastFlush, PruneBegin, PruneBeginFail, Goto,
     NoFault, Fault, Phase, stores, cycleVars, flushUnchanged
<1> QED
  BY <1>1, <1>2, <1>3, <1>4, <1>5, <1>6, <1>7, <1>8, <1>9, <1>10, NextCases
     DEF IdleStep

LEMMA HeldInit == Init => HeldInv
<1> SUFFICES ASSUME Init PROVE HeldInv
  OBVIOUS
<1> QED
  BY NothingCalled DEF Init, HeldInv, NoBatch, Pruning

LEMMA IndexInit == Init => Index!Init
<1> SUFFICES ASSUME Init PROVE Index!Init
  OBVIOUS
<1>1. TypeInv
  BY InitTypes
<1>2. docs \in [Index!Ids -> Index!Cell]
  BY <1>1 DEF TypeInv, TypeOK, StoresTypeOK, Index!Ids, Index!Cell, Ids, Cell
<1> QED
  BY <1>2 DEF Init, Index!Init, Index!NoFiles, NoFiles, Phase

\* The worker implements Index, whatever the files, their versions and the
\* batch sizes, and wherever crashes and failures fall: what one cycle writes,
\* removes and leaves is what it has read.
THEOREM IndexRefined == Spec => ImplementsIndex
<1>1. WalkInv /\ HeldInv /\ [Next]_vars => HeldInv'
  BY HeldStep DEF WalkInv
<1>2. Spec => []HeldInv
  BY <1>1, HeldInit, WalkInvariant, PTL DEF Spec
<1>3. WalkInv => TypeInv
  BY DEF WalkInv
<1>4. RefInv /\ TypeInv' /\ [Next]_vars => [Index!Next]_(Index!vars)
  BY IndexStep
<1>5. WalkInv /\ WholeInv /\ HeldInv /\ ParentsMatchWalk /\ ForceRepairs
        => RefInv
  BY DEF RefInv
<1> QED
  BY <1>2, <1>3, <1>4, <1>5, IndexInit, WalkInvariant, WholeInvariant,
     ParentsRight, ForceMends, PTL DEF Spec, Index!Spec, ImplementsIndex
=============================================================================
