-------------------------- MODULE InventoryProofs ---------------------------
(***************************************************************************)
(* Proofs about InventoryCache: what an invalidation guarantees, and how   *)
(* old a served inventory can be, for every TTL and every building time.   *)
(***************************************************************************)
EXTENDS InventoryCache, TLAPS

(* What has been read, or is kept, since the last invalidation that found  *)
(* no build under way.                                                     *)
AboveFloor ==
    /\ floor <= db /\ \A v \in calls : v <= db
    /\ cache # Nothing => cache.tree >= floor /\ cache.counts >= floor
    /\ build # "none" => tree >= floor
    /\ build = "store" => counts >= floor

(* What a build, and the inventory kept, may lack.                         *)
Unread(w) == w > tree \/ (build = "store" /\ w > counts)
InTime ==
    /\ build # "none" =>
         /\ begun <= now /\ now <= begun + MaxBuild
         /\ tree <= db
         /\ \A w \in 1..db : Unread(w) => written[w] >= begun
    /\ cache # Nothing =>
         /\ cache.expires <= now + TTL
         /\ \A w \in 1..db : w > cache.tree \/ w > cache.counts =>
                written[w] + TTL + MaxBuild >= cache.expires

-----------------------------------------------------------------------------
(* Every state of the cache has its types (InventoryCache).                *)
THEOREM TypeCorrect == CacheSpec => []CacheTypeOK
<1> USE CacheAssumption, NothingAssumption
<1>1. CacheInit => CacheTypeOK
  <2> SUFFICES ASSUME CacheInit PROVE CacheTypeOK
    OBVIOUS
  <2>1. [w \in 1..MaxWrites |-> 0] \in [1..MaxWrites -> 0..MaxTime]
    BY 0 \in 0..MaxTime
  <2>2. written \in [1..MaxWrites -> 0..MaxTime]  BY <2>1 DEF CacheInit
  <2>3. /\ now \in 0..MaxTime /\ begun \in 0..MaxTime
        /\ db \in 0..MaxWrites /\ floor \in 0..MaxWrites
        /\ tree \in 0..MaxWrites /\ counts \in 0..MaxWrites
    BY DEF CacheInit
  <2>4. calls \subseteq 0..MaxWrites /\ cycle \in BOOLEAN
    BY DEF CacheInit
  <2>5. cache \in Inventories \cup {Nothing} /\ build \in {"none", "counts", "store"}
    BY DEF CacheInit
  <2> QED  BY <2>2, <2>3, <2>4, <2>5 DEF CacheTypeOK
<1>2. CacheTypeOK /\ [CacheNext]_vars => CacheTypeOK'
  <2> SUFFICES ASSUME CacheTypeOK, [CacheNext]_vars PROVE CacheTypeOK'
    OBVIOUS
  <2> USE DEF CacheTypeOK, request, database
  <2>1. CASE Tick  BY <2>1 DEF Tick
  <2>2. CASE StartCycle  BY <2>2 DEF StartCycle
  <2>3. CASE Write  BY <2>3 DEF Write
  <2>4. CASE EndCycle  BY <2>4 DEF EndCycle
  <2>5. ASSUME NEW v \in calls, Invalidate(v) PROVE CacheTypeOK'
    BY <2>5 DEF Invalidate
  <2>6. CASE ReadTree  BY <2>6 DEF ReadTree
  <2>7. CASE ReadCounts  BY <2>7 DEF ReadCounts
  <2>8. CASE Store
    <3>1. cache' \in Inventories  BY <2>8 DEF Store, Inventories
    <3>2. QED  BY <2>8, <3>1 DEF Store
  <2>9. CASE UNCHANGED vars  BY <2>9 DEF vars
  <2> QED  BY <2>1, <2>2, <2>3, <2>4, <2>5, <2>6, <2>7, <2>8, <2>9 DEF CacheNext
<1> QED  BY <1>1, <1>2, PTL DEF CacheSpec

(* The inventory kept and the one being built are from states at or above  *)
(* the floor.                                                              *)
LEMMA FloorKept ==
    ASSUME CacheTypeOK, AboveFloor, [CacheNext]_vars PROVE AboveFloor'
<1> USE CacheAssumption, NothingAssumption DEF CacheTypeOK, AboveFloor, request, database
<1>1. CASE Tick
  <2>1. UNCHANGED <<floor, db, calls, cache, build, tree, counts>>
    BY <1>1 DEF Tick
  <2> QED  BY <2>1
<1>2. CASE StartCycle  BY <1>2 DEF StartCycle
<1>3. CASE Write  BY <1>3 DEF Write
<1>4. CASE EndCycle
  <2>1. /\ UNCHANGED <<floor, db, cache, build, tree, counts>>
        /\ calls' \subseteq calls \cup {db}
    BY <1>4 DEF EndCycle
  <2> QED  BY <2>1
<1>5. ASSUME NEW v \in calls, Invalidate(v) PROVE AboveFloor'
  BY <1>5 DEF Invalidate
<1>6. CASE ReadTree
  <2>1. UNCHANGED <<floor, db, calls, cache>> /\ build' = "counts" /\ tree' = db
    BY <1>6 DEF ReadTree
  <2> QED  BY <2>1
<1>7. CASE ReadCounts
  <2>1. UNCHANGED <<floor, db, calls, cache, tree>> /\ build = "counts" /\ counts' = db
    BY <1>7 DEF ReadCounts
  <2> QED  BY <2>1
<1>8. CASE Store
  <2>1. /\ UNCHANGED <<floor, db, calls>> /\ build = "store" /\ build' = "none"
        /\ cache' = [tree |-> tree, counts |-> counts, expires |-> now + TTL]
    BY <1>8 DEF Store
  <2>2. cache'.tree = tree /\ cache'.counts = counts  BY <2>1
  <2> QED  BY <2>1, <2>2
<1>9. CASE UNCHANGED vars  BY <1>9 DEF vars
<1> QED  BY <1>1, <1>2, <1>3, <1>4, <1>5, <1>6, <1>7, <1>8, <1>9 DEF CacheNext

(* What either lacks was committed after the build began, and is no older  *)
(* than the entry's end allows.                                            *)
LEMMA TimeKept ==
    ASSUME CacheTypeOK, InTime, [CacheNext]_vars PROVE InTime'
<1> USE CacheAssumption, NothingAssumption DEF CacheTypeOK, InTime, Unread, request, database
<1> cache # Nothing => cache.expires \in Nat  BY DEF Inventories
<1>1. CASE Tick  BY <1>1 DEF Tick
<1>2. CASE StartCycle  BY <1>2 DEF StartCycle
<1>3. CASE Write
  <2>1. /\ db' = db + 1 /\ written' = [written EXCEPT ![db + 1] = now]
        /\ db + 1 \in 1..MaxWrites
        /\ UNCHANGED <<now, cache, build, tree, counts, begun>>
    BY <1>3 DEF Write
  <2>2. written'[db + 1] = now /\ \A w \in 1..db : written'[w] = written[w]
    BY <2>1
  <2>3. \A w \in 1..db' : w \in 1..db \/ w = db + 1  BY <2>1
  <2>4. build # "none" => \A w \in 1..db' : Unread(w)' => written'[w] >= begun'
    BY <2>1, <2>2, <2>3
  <2>5. cache # Nothing => \A w \in 1..db' : w > cache.tree \/ w > cache.counts =>
                written'[w] + TTL + MaxBuild >= cache.expires
    BY <2>1, <2>2, <2>3
  <2> QED  BY <2>1, <2>4, <2>5
<1>4. CASE EndCycle  BY <1>4 DEF EndCycle
<1>5. ASSUME NEW v \in calls, Invalidate(v) PROVE InTime'
  BY <1>5 DEF Invalidate
<1>6. CASE ReadTree
  <2>1. /\ UNCHANGED <<now, db, written, cache>>
        /\ build' = "counts" /\ tree' = db /\ begun' = now
    BY <1>6 DEF ReadTree
  <2> QED  BY <2>1
<1>7. CASE ReadCounts
  <2>1. /\ UNCHANGED <<now, db, written, cache, tree, begun>>
        /\ build = "counts" /\ counts' = db
    BY <1>7 DEF ReadCounts
  <2> QED  BY <2>1
<1>8. CASE Store
  <2>1. /\ UNCHANGED <<now, db, written>> /\ build = "store" /\ build' = "none"
        /\ cache' = [tree |-> tree, counts |-> counts, expires |-> now + TTL]
    BY <1>8 DEF Store
  <2>2. cache'.tree = tree /\ cache'.counts = counts /\ cache'.expires = now + TTL
    BY <2>1
  <2>3. \A w \in 1..db : w > tree \/ w > counts => written[w] + MaxBuild >= now
    BY <2>1
  <2> QED  BY <2>1, <2>2, <2>3
<1>9. CASE UNCHANGED vars  BY <1>9 DEF vars
<1> QED  BY <1>1, <1>2, <1>3, <1>4, <1>5, <1>6, <1>7, <1>8, <1>9 DEF CacheNext

-----------------------------------------------------------------------------
(* After an invalidation that met no build, no inventory served lacks what *)
(* the cycle wrote (_invalidate_inventory_cache).                          *)
THEOREM Invalidated == CacheSpec => []FreshAfterInvalidation
<1>1. CacheInit => AboveFloor
  BY DEF CacheInit, AboveFloor
<1>2. AboveFloor => FreshAfterInvalidation
  BY DEF AboveFloor, FreshAfterInvalidation, Fresh
<1> QED  BY <1>1, <1>2, FloorKept, TypeCorrect, PTL DEF CacheSpec

(* No inventory served lacks what was committed TTL plus a building time   *)
(* ago (_get_cached_inventory).                                            *)
THEOREM StaleBounded == CacheSpec => []HowStale
<1>1. CacheInit => InTime
  BY DEF CacheInit, InTime
<1>2. CacheTypeOK /\ InTime => HowStale
  <2> SUFFICES ASSUME CacheTypeOK, InTime, Fresh(cache), NEW w \in 1..db,
                      w > cache.tree \/ w > cache.counts
               PROVE  written[w] + TTL + MaxBuild > now
    BY DEF HowStale
  <2>1. written[w] + TTL + MaxBuild >= cache.expires /\ cache.expires > now
    BY DEF InTime, Fresh
  <2>2. w \in 1..MaxWrites
    BY CacheAssumption DEF CacheTypeOK
  <2>3. now \in Nat /\ written[w] \in Nat
    BY <2>2, CacheAssumption DEF CacheTypeOK
  <2>4. cache.expires \in Nat
    BY CacheAssumption DEF CacheTypeOK, Fresh, Inventories
  <2> QED  BY <2>1, <2>3, <2>4, CacheAssumption
<1> QED  BY <1>1, <1>2, TimeKept, TypeCorrect, PTL DEF CacheSpec
=============================================================================
