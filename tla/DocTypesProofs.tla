--------------------------- MODULE DocTypesProofs ---------------------------
(***************************************************************************)
(* Proofs about DocTypes: the rows have the types the file gives them,     *)
(* for any documents, rules, files, releases, bounds and faults.           *)
(***************************************************************************)
EXTENDS DocTypes, TLAPS

Right == \A p \in Typed : rows[p] = Classify(p, rowName, Loaded(file, release))
InPast(k) == <<k[2], k[1]>> \in past
Current(k) == k = CacheKey(file, release)

(* Where the server and its worker are, and the names of a key.            *)
Shape ==
    /\ file \in Contents /\ release \in DOMAIN Defaults
    /\ DOMAIN rows = Paths
    /\ wpc # "idle" => pc = "up"
    /\ wpc \in {"index", "vector"} => rowName = wname

(* The keys that are stored, or will be, are of files there have been: a   *)
(* file that never was has another key.                                    *)
KeysArePast ==
    /\ <<file, release>> \in past
    /\ meta # None => InPast(meta)
    /\ pc \in {"sync", "write"} => InPast(key)

(* What the server and the worker loaded is what the stored key is of.     *)
Faithful ==
    smooth =>
        /\ pc = "backfill" => config = Loaded(file, release)
        /\ pc \in {"sync", "write"} /\ Current(key) /\ ~renamed => Right
        /\ wpc # "idle" /\ Current(meta) => wconfig = Loaded(file, release)
        /\ ~renamed /\ Current(meta) => Right

TypesInv == Shape /\ KeysArePast /\ Faithful

-----------------------------------------------------------------------------
(* A key is not None, and a file that never was is not the one a key is of.*)
LEMMA KeyIsSome == Shape => CacheKey(file, release) # None
BY DocTypesAssumption DEF Shape, CacheKey

LEMMA NewKey ==
    ASSUME NEW c, NEW r, NEW k, InPast(k), <<c, r>> \notin past
    PROVE  k # CacheKey(c, r)
BY DEF InPast, CacheKey

LEMMA InitTypes == Init => TypesInv
<1> SUFFICES ASSUME Init PROVE TypesInv
  OBVIOUS
<1>1. Shape  BY DocTypesAssumption DEF Init, Shape
<1>2. KeysArePast  BY DEF Init, KeysArePast
<1>3. Typed = {}  BY DEF Init, Typed
<1>4. Faithful  BY <1>3 DEF Init, Faithful, Right
<1> QED  BY <1>1, <1>2, <1>4 DEF TypesInv

(* A new content or release: nothing loaded or stored is of it.            *)
LEMMA FileChanges ==
    ASSUME TypesInv, file' \in Contents, release' \in DOMAIN Defaults,
           past' = past \cup {<<file', release'>>},
           smooth' => smooth /\ pc # "backfill" /\ <<file', release'>> \notin past,
           UNCHANGED <<stores, server, worker>>
    PROVE  TypesInv'
<1> USE DEF TypesInv, stores, server, worker
<1>1. Shape'  BY DEF Shape
<1>2. KeysArePast'  BY DEF KeysArePast, InPast
<1>3. CacheKey(file', release') # None  BY <1>1, KeyIsSome, DocTypesAssumption DEF Shape, CacheKey
<1>4. ASSUME smooth' PROVE /\ meta # CacheKey(file', release')
                           /\ pc \in {"sync", "write"} => key # CacheKey(file', release')
  BY <1>3, <1>4, NewKey DEF KeysArePast
<1>5. Faithful'
  <2> SUFFICES ASSUME smooth' PROVE Faithful'
    BY DEF Faithful
  <2>1. /\ ~Current(meta)' /\ pc' # "backfill"
        /\ pc' \in {"sync", "write"} => ~Current(key)'
    BY <1>4 DEF Current, CacheKey
  <2> QED  BY <2>1 DEF Faithful
<1> QED  BY <1>1, <1>2, <1>5

(* What leaves the rows, their name and the file alone leaves Right alone. *)
LEMMA SameRight ==
    UNCHANGED <<file, release, rows, rowName>> => (Right' <=> Right)
BY DEF Right, Typed, Loaded

LEMMA Unmoved ==
    ASSUME TypesInv,
           UNCHANGED <<file, release, past, smooth, stores, server, worker>>
    PROVE  TypesInv'
<1> USE DEF TypesInv, stores, server, worker
<1>1. Shape' /\ KeysArePast'  BY DEF Shape, KeysArePast, InPast
<1>2. Faithful'  BY SameRight DEF Faithful, Current, CacheKey, Loaded
<1> QED  BY <1>1, <1>2

(* The server is down, and the worker, if there was one, is gone.          *)
LEMMA Ended ==
    ASSUME TypesInv, UNCHANGED <<file, release, past, smooth, stores>>,
           pc' = "down", wpc' = "idle"
    PROVE  TypesInv'
<1> USE DEF TypesInv, stores
<1>1. Shape' /\ KeysArePast'  BY DEF Shape, KeysArePast, InPast
<1>2. Faithful'  BY SameRight DEF Faithful, Current, CacheKey, Loaded
<1> QED  BY <1>1, <1>2

(* The reclassification: unless the file changed since it was loaded, the  *)
(* rows are right; the stored key is of another file still.                *)
LEMMA Reclassified == ASSUME TypesInv, BackfillRows PROVE TypesInv'
<1> USE DEF TypesInv, files, worker
<1>1. /\ UNCHANGED <<file, release, past, smooth, rowName, meta, worker>>
      /\ pc = "backfill" /\ pc' = "sync" /\ key' = CacheKey(file, release)
      /\ meta # CacheKey(file, release)
  BY DEF BackfillRows
<1>2. /\ DOMAIN rows' = Paths
      /\ \A p \in Paths : rows'[p] # None => rows'[p] = Classify(p, rowName, config)
  BY DEF BackfillRows
<1>3. Shape' /\ KeysArePast'
  BY <1>1, <1>2 DEF Shape, KeysArePast, InPast, CacheKey
<1>4. smooth => Right'
  BY <1>1, <1>2 DEF Faithful, Right, Typed
<1>5. Faithful'
  BY <1>1, <1>4 DEF Shape, Faithful, Current, CacheKey
<1> QED  BY <1>3, <1>5

(* Rows that are renamed are no longer said to be right.                   *)
LEMMA Renamed == ASSUME TypesInv, WorkerRename PROVE TypesInv'
<1> USE DEF TypesInv, files, server
<1>1. /\ UNCHANGED <<file, release, past, smooth, rows, meta, server, wconfig, wname>>
      /\ wpc = "rename" /\ wpc' = "index" /\ rowName' = wname
      /\ ~renamed' => ~renamed /\ (rowName' = rowName \/ Typed = {})
  BY DEF WorkerRename
<1>2. Shape' /\ KeysArePast'
  BY <1>1 DEF Shape, KeysArePast, InPast
<1>3. ~renamed' /\ Right => Right'
  BY <1>1 DEF Right, Typed, Loaded
<1>4. Faithful'
  BY <1>1, <1>3 DEF Shape, Faithful, Current, CacheKey, Loaded
<1> QED  BY <1>2, <1>4

(* A row the worker writes while the stored key is the file's is right.    *)
LEMMA RowWritten ==
    ASSUME TypesInv, NEW p \in Paths, WorkerWriteRow(p) PROVE TypesInv'
<1> USE DEF TypesInv, files, server
<1>1. /\ UNCHANGED <<file, release, past, smooth, rowName, meta, renamed, server,
                     wconfig, wname>>
      /\ wpc = "index" /\ wpc' = "vector"
      /\ rows' = [rows EXCEPT ![p] = Classify(p, wname, wconfig)]
  BY DEF WorkerWriteRow
<1>2. Shape' /\ KeysArePast'
  BY <1>1 DEF Shape, KeysArePast, InPast
<1>3. rowName = wname /\ pc = "up"
  BY <1>1 DEF Shape
<1>4. wconfig = Loaded(file, release) /\ Right => Right'
  <2> SUFFICES ASSUME wconfig = Loaded(file, release), Right,
                      NEW q \in Paths, rows'[q] # None
               PROVE  rows'[q] = Classify(q, rowName', Loaded(file', release'))
    BY DEF Right, Typed
  <2>1. CASE q = p
    BY <1>1, <1>3, <2>1 DEF Shape
  <2>2. CASE q # p
    BY <1>1, <2>2 DEF Right, Typed
  <2> QED  BY <2>1, <2>2
<1>5. Faithful'
  BY <1>1, <1>3, <1>4 DEF Faithful, Current, CacheKey, Loaded
<1> QED  BY <1>2, <1>5

(* The invariant is inductive.                                             *)
LEMMA StepTypes == ASSUME TypesInv, [Next]_vars PROVE TypesInv'
<1> USE DEF TypesInv, files, stores, server, worker
<1>1. ASSUME NEW c \in Contents, EditTypes(c) PROVE TypesInv'
  <2>1. /\ file' = c /\ release' = release /\ past' = past \cup {<<c, release>>}
        /\ smooth' => smooth /\ pc # "backfill" /\ <<c, release>> \notin past
        /\ UNCHANGED <<stores, server, worker>>
    BY <1>1 DEF EditTypes
  <2> QED  BY <2>1, FileChanges DEF Shape
<1>2. CASE Upgrade
  <2>1. /\ file' = file /\ release' \in DOMAIN Defaults
        /\ past' = past \cup {<<file, release'>>}
        /\ smooth' => smooth /\ pc # "backfill" /\ <<file, release'>> \notin past
        /\ UNCHANGED <<stores, server, worker>>
    BY <1>2 DEF Upgrade
  <2> QED  BY <2>1, FileChanges DEF Shape
<1>3. ASSUME NEW n \in Names, EditName(n) PROVE TypesInv'
  <2>1. UNCHANGED <<file, release, past, smooth, stores, server, worker>>
    BY <1>3 DEF EditName
  <2> QED  BY <2>1, Unmoved
<1>4. CASE Stop
  <2>1. /\ UNCHANGED <<file, release, past, smooth, stores, worker>>
        /\ pc' = "down" /\ wpc = "idle"
    BY <1>4 DEF Stop, ForgetServer
  <2> QED  BY <2>1, Ended
<1>5. CASE Crash
  <2>1. /\ UNCHANGED <<file, release, past, smooth, stores>>
        /\ pc' = "down" /\ wpc' = "idle"
    BY <1>5 DEF Crash, ForgetServer, ForgetWorker
  <2> QED  BY <2>1, Ended
<1>6. CASE Load
  <2>1. /\ UNCHANGED <<file, release, past, smooth, stores, worker>>
        /\ pc = "down" /\ pc' = "backfill" /\ config' = Loaded(file, release)
    BY <1>6 DEF Load
  <2>2. Shape' /\ KeysArePast'
    BY <2>1 DEF Shape, KeysArePast, InPast
  <2>3. Faithful'
    BY <2>1, SameRight DEF Shape, Faithful, Current, CacheKey, Loaded
  <2> QED  BY <2>2, <2>3
<1>7. CASE SkipBackfill
  <2>1. /\ UNCHANGED <<file, release, past, smooth, stores, worker>>
        /\ pc = "backfill" /\ pc' = "up"
    BY <1>7 DEF SkipBackfill
  <2>2. Shape' /\ KeysArePast'
    BY <2>1 DEF Shape, KeysArePast, InPast
  <2>3. Faithful'
    BY <2>1, SameRight DEF Shape, Faithful, Current, CacheKey, Loaded
  <2> QED  BY <2>2, <2>3
<1>8. CASE BackfillRows  BY <1>8, Reclassified
<1>9. CASE SyncVectors
  <2>1. /\ UNCHANGED <<file, release, past, smooth, rows, rowName, meta, renamed,
                       key, worker>>
        /\ pc = "sync" /\ pc' = "write"
    BY <1>9 DEF SyncVectors
  <2>2. Shape' /\ KeysArePast'
    BY <2>1 DEF Shape, KeysArePast, InPast
  <2>3. Faithful'
    BY <2>1, SameRight DEF Shape, Faithful, Current, CacheKey, Loaded
  <2> QED  BY <2>2, <2>3
<1>10. CASE WriteKey
  <2>1. /\ UNCHANGED <<file, release, past, smooth, rows, rowName, renamed, worker>>
        /\ meta' = key /\ pc = "write" /\ pc' = "up"
    BY <1>10 DEF WriteKey
  <2>2. Shape' /\ KeysArePast'
    BY <2>1 DEF Shape, KeysArePast, InPast
  <2>3. Faithful'
    BY <2>1, SameRight DEF Shape, Faithful, Current, CacheKey, Loaded
  <2> QED  BY <2>2, <2>3
<1>11. CASE WorkerStart
  <2>1. /\ UNCHANGED <<file, release, past, smooth, stores, server>>
        /\ pc = "up" /\ wpc' = "rename" /\ wconfig' = Loaded(file, release)
    BY <1>11 DEF WorkerStart
  <2>2. Shape' /\ KeysArePast'
    BY <2>1 DEF Shape, KeysArePast, InPast
  <2>3. Faithful'
    BY <2>1, SameRight DEF Shape, Faithful, Current, CacheKey, Loaded
  <2> QED  BY <2>2, <2>3
<1>12. CASE WorkerRename  BY <1>12, Renamed
<1>13. ASSUME NEW p \in Paths, WorkerWriteRow(p) PROVE TypesInv'
  BY <1>13, RowWritten
<1>14. CASE WorkerWriteVector
  <2>1. /\ UNCHANGED <<file, release, past, smooth, rows, rowName, meta, renamed,
                       server, wconfig, wname>>
        /\ wpc = "vector" /\ wpc' = "index"
    BY <1>14 DEF WorkerWriteVector
  <2>2. Shape' /\ KeysArePast'
    BY <2>1 DEF Shape, KeysArePast, InPast
  <2>3. Faithful'
    BY <2>1, SameRight DEF Shape, Faithful, Current, CacheKey, Loaded
  <2> QED  BY <2>2, <2>3
<1>15. CASE WorkerExit
  <2>1. /\ UNCHANGED <<file, release, past, smooth, stores, server>>
        /\ wpc' = "idle"
    BY <1>15 DEF WorkerExit, ForgetWorker
  <2>2. Shape' /\ KeysArePast'
    BY <2>1 DEF Shape, KeysArePast, InPast
  <2>3. Faithful'
    BY <2>1, SameRight DEF Shape, Faithful, Current, CacheKey, Loaded
  <2> QED  BY <2>2, <2>3
<1>16. CASE UNCHANGED vars
  <2>1. UNCHANGED <<file, release, past, smooth, stores, server, worker>>
    BY <1>16 DEF vars
  <2> QED  BY <2>1, Unmoved
<1> QED
  BY <1>1, <1>2, <1>3, <1>4, <1>5, <1>6, <1>7, <1>8, <1>9, <1>10, <1>11, <1>12,
     <1>13, <1>14, <1>15, <1>16 DEF Next

-----------------------------------------------------------------------------
(* While the stored key is that of the file, every row has the type the    *)
(* file gives it: the next start loses nothing by skipping them            *)
(* (backfill_types_if_needed, run_once).                                   *)
THEOREM TypesFollow == Spec => []RowsFollowConfig
<1>1. TypesInv => RowsFollowConfig
  BY DEF TypesInv, Faithful, Right, Current, RowsFollowConfig
<1> QED  BY <1>1, InitTypes, StepTypes, PTL DEF Spec

-----------------------------------------------------------------------------
(* The two copies of a type: equal but for what is being written, as long  *)
(* as nothing failed.                                                      *)
Beside(p) == (wpc = "vector" /\ p = wpath) \/ (pc = "sync" /\ p \in drift)
Agree ==
    /\ DOMAIN rows = Paths /\ DOMAIN dense = Paths /\ faults \in Nat
    /\ wpc # "idle" => pc = "up"
    /\ faults = 0 => \A p \in Paths :
          /\ ~Beside(p) => dense[p] = rows[p]
          /\ pc = "sync" /\ p \in drift => dense[p] # None

(* A step that writes neither copy and begins or ends no write.            *)
LEMMA AgreeUnmoved ==
    ASSUME Agree, UNCHANGED <<rows, dense>>, faults' \in Nat,
           faults' = 0 => faults = 0,
           pc # "sync" /\ pc' # "sync", wpc # "vector" /\ wpc' # "vector",
           wpc' # "idle" => pc' = "up"
    PROVE  Agree'
BY DEF Agree, Beside

LEMMA StepAgree == ASSUME Agree, [Next]_vars PROVE Agree'
<1> USE DEF files, stores, server, worker, budget
<1>1. ASSUME NEW c \in Contents, EditTypes(c) PROVE Agree'
  BY <1>1 DEF EditTypes, Edited, Agree, Beside
<1>2. ASSUME NEW n \in Names, EditName(n) PROVE Agree'
  BY <1>2 DEF EditName, Edited, Agree, Beside
<1>3. CASE Upgrade  BY <1>3 DEF Upgrade, Edited, Agree, Beside
<1>4. CASE Stop  BY <1>4, AgreeUnmoved DEF Stop, ForgetServer, Agree
<1>5. CASE Crash
  <2>1. faults' = faults + 1 /\ UNCHANGED <<rows, dense>> /\ wpc' = "idle"
    BY <1>5 DEF Crash, Fault, ForgetWorker
  <2> QED  BY <2>1 DEF Agree
<1>6. CASE Load  BY <1>6, AgreeUnmoved DEF Load, Agree
<1>7. CASE SkipBackfill  BY <1>7, AgreeUnmoved DEF SkipBackfill, Agree
<1>8. CASE BackfillRows
  <2>1. /\ UNCHANGED <<dense, faults, worker>> /\ pc = "backfill" /\ pc' = "sync"
        /\ DOMAIN rows' = Paths
        /\ \A p \in Paths : IF p \in drift' THEN rows[p] # None
                            ELSE rows'[p] = rows[p]
    BY <1>8 DEF BackfillRows
  <2> QED  BY <2>1 DEF Agree, Beside
<1>9. CASE SyncVectors
  <2>1. UNCHANGED <<rows, worker>> /\ pc = "sync" /\ pc' = "write"
    BY <1>9 DEF SyncVectors
  <2>2. CASE /\ dense' = [p \in Paths |-> IF p \in drift /\ dense[p] # None
                                          THEN rows[p] ELSE dense[p]]
             /\ UNCHANGED budget
    BY <2>1, <2>2 DEF Agree, Beside
  <2>3. CASE Fault("sync") /\ UNCHANGED dense
    BY <2>1, <2>3 DEF Agree, Fault
  <2> QED  BY <1>9, <2>2, <2>3 DEF SyncVectors
<1>10. CASE WriteKey  BY <1>10, AgreeUnmoved DEF WriteKey, Agree
<1>11. CASE WorkerStart  BY <1>11, AgreeUnmoved DEF WorkerStart, Agree
<1>12. CASE WorkerRename  BY <1>12, AgreeUnmoved DEF WorkerRename, Agree
<1>13. ASSUME NEW p \in Paths, WorkerWriteRow(p) PROVE Agree'
  BY <1>13 DEF WorkerWriteRow, Agree, Beside
<1>14. CASE WorkerWriteVector
  <2>1. UNCHANGED <<rows, server>> /\ wpc = "vector" /\ wpc' = "index"
    BY <1>14 DEF WorkerWriteVector
  <2>2. CASE dense' = [dense EXCEPT ![wpath] = rows[wpath]] /\ UNCHANGED budget
    BY <2>1, <2>2 DEF Agree, Beside
  <2>3. CASE Fault("chroma") /\ UNCHANGED dense
    BY <2>1, <2>3 DEF Agree, Fault
  <2> QED  BY <1>14, <2>2, <2>3 DEF WorkerWriteVector
<1>15. CASE WorkerExit  BY <1>15, AgreeUnmoved DEF WorkerExit, ForgetWorker, Agree
<1>16. CASE UNCHANGED vars  BY <1>16 DEF vars, Agree, Beside
<1> QED
  BY <1>1, <1>2, <1>3, <1>4, <1>5, <1>6, <1>7, <1>8, <1>9, <1>10, <1>11, <1>12,
     <1>13, <1>14, <1>15, <1>16 DEF Next

(* As long as nothing fails, the dense leg filters by the types BM25       *)
(* filters by (_sync_chroma_types, rename_source, run_once).               *)
THEOREM TypesAgree == Spec => []TypesAgreeWithoutFaults
<1>1. Init => Agree
  BY DEF Init, Agree, Beside
<1>2. Agree => TypesAgreeWithoutFaults
  BY DEF Agree, Beside, TypesAgreeWithoutFaults
<1> QED  BY <1>1, <1>2, StepAgree, PTL DEF Spec
=============================================================================
