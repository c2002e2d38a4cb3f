--------------------------- MODULE InventoryCache ---------------------------
(***************************************************************************)
(* The cache of the inventory a chat begins with: _get_cached_inventory    *)
(* and _invalidate_inventory_cache (src/docserver/server.py), with the     *)
(* cycles whose success invalidates it (IngesterSupervisor.                *)
(* run_subprocess_cycle).                                                  *)
(*                                                                         *)
(* Chat requests are prepared on the event loop, one at a time.  The       *)
(* callback runs on the thread of whoever asked for the cycle, after the   *)
(* worker is released: a next cycle may have begun by then.  The database  *)
(* is the number of commits made to it; an inventory is the two states it  *)
(* was read from, its tree's and its counts'.                              *)
(***************************************************************************)
EXTENDS Naturals

CONSTANTS
    TTL,        \* _INVENTORY_CACHE_TTL_SECONDS
    MaxBuild,   \* bound: how long the building of an inventory takes
    MaxTime,    \* bound: the clock
    MaxWrites,  \* bound: commits
    Nothing     \* no inventory

ASSUME CacheAssumption ==
    /\ TTL \in Nat /\ MaxBuild \in Nat /\ MaxTime \in Nat /\ MaxWrites \in Nat

Inventories ==
    [tree: 0..MaxWrites, counts: 0..MaxWrites, expires: 0..(MaxTime + TTL)]

ASSUME NothingAssumption == Nothing \notin Inventories

VARIABLES
    now,        \* time.monotonic()
    db,         \* the database
    written,    \* history: when each commit was made
    cycle,      \* is a worker running
    calls,      \* callbacks to come, by the state their worker left behind
    cache,      \* _inventory_cache
    build,      \* the request at hand: "none", or what it does next
    tree, counts, \* what it has read
    begun,      \* history: when it began
    floor       \* history: see FreshAfterInvalidation

request == <<build, tree, counts, begun>>
database == <<db, written>>
vars == <<now, database, cycle, calls, cache, request, floor>>

CacheTypeOK ==
    /\ now \in 0..MaxTime /\ db \in 0..MaxWrites
    /\ written \in [1..MaxWrites -> 0..MaxTime]
    /\ cycle \in BOOLEAN
    /\ calls \subseteq 0..MaxWrites
    /\ cache \in Inventories \cup {Nothing}
    /\ build \in {"none", "counts", "store"}
    /\ tree \in 0..MaxWrites /\ counts \in 0..MaxWrites
    /\ begun \in 0..MaxTime /\ floor \in 0..MaxWrites

CacheInit ==
    /\ now = 0 /\ db = 0
    /\ written = [w \in 1..MaxWrites |-> 0]
    /\ cycle = FALSE /\ calls = {}
    /\ cache = Nothing
    /\ build = "none" /\ tree = 0 /\ counts = 0 /\ begun = 0
    /\ floor = 0

-----------------------------------------------------------------------------
(* The clock.  A build that has taken MaxBuild is over before it advances. *)
Tick ==
    /\ now < MaxTime
    /\ build # "none" => now < begun + MaxBuild
    /\ now' = now + 1
    /\ UNCHANGED <<database, cycle, calls, cache, request, floor>>

(* The worker.  Only a cycle that succeeds has a callback to make.         *)
StartCycle ==
    /\ ~cycle
    /\ cycle' = TRUE
    /\ UNCHANGED <<now, database, calls, cache, request, floor>>

Write ==
    /\ cycle /\ db < MaxWrites
    /\ db' = db + 1
    /\ written' = [written EXCEPT ![db'] = now]
    /\ UNCHANGED <<now, cycle, calls, cache, request, floor>>

EndCycle ==
    /\ cycle
    /\ cycle' = FALSE
    /\ \/ calls' = calls \cup {db}
       \/ UNCHANGED calls       \* failed, killed or timed out
    /\ UNCHANGED <<now, database, cache, request, floor>>

(* Fault: an inventory that is still fresh is left to its TTL.             *)
InvalidateStaleOnly(v) ==
    /\ v \in calls
    /\ calls' = calls \ {v}
    /\ cache' = IF cache # Nothing /\ cache.expires > now THEN cache ELSE Nothing
    /\ floor' = IF build = "none" /\ v > floor THEN v ELSE floor
    /\ UNCHANGED <<now, database, cycle, request>>

(* on_cycle_success = _invalidate_inventory_cache.                         *)
Invalidate(v) ==
    /\ v \in calls
    /\ calls' = calls \ {v}
    /\ cache' = Nothing
    /\ floor' = IF build = "none" /\ v > floor THEN v ELSE floor
    /\ UNCHANGED <<now, database, cycle, request>>

-----------------------------------------------------------------------------
(* Fault: once built, served for good.                                     *)
FreshForGood(entry) == entry # Nothing

(* The test under the lock; a fresh entry is served, which changes nothing.*)
Fresh(entry) == entry # Nothing /\ entry.expires > now

(* Otherwise the inventory is built outside the lock, in two reads.        *)
ReadTree ==
    /\ build = "none" /\ ~Fresh(cache)
    /\ tree' = db /\ begun' = now
    /\ build' = "counts"
    /\ UNCHANGED <<now, database, cycle, calls, cache, counts, floor>>

ReadCounts ==
    /\ build = "counts"
    /\ counts' = db
    /\ build' = "store"
    /\ UNCHANGED <<now, database, cycle, calls, cache, tree, begun, floor>>

Store ==
    /\ build = "store"
    /\ cache' = [tree |-> tree, counts |-> counts, expires |-> now + TTL]
    /\ build' = "none"
    /\ tree' = 0 /\ counts' = 0 /\ begun' = 0
    /\ UNCHANGED <<now, database, cycle, calls, floor>>

CacheNext ==
    \/ Tick
    \/ StartCycle \/ Write \/ EndCycle
    \/ \E v \in calls : Invalidate(v)
    \/ ReadTree \/ ReadCounts \/ Store

CacheSpec == CacheInit /\ [][CacheNext]_vars

-----------------------------------------------------------------------------
(* Once a callback has run while no inventory was being built, every       *)
(* inventory served has what its cycle wrote, however many cycles,         *)
(* callbacks and requests come after it (_invalidate_inventory_cache).  A  *)
(* build that is under way is stored afterwards all the same: it is bound  *)
(* by HowStale alone.                                                      *)
FreshAfterInvalidation ==
    Fresh(cache) => cache.tree >= floor /\ cache.counts >= floor

(* An inventory served, whether or not any cycle succeeded since, lacks    *)
(* only what was committed in the last TTL and the time its building took  *)
(* (_get_cached_inventory).                                                *)
HowStale ==
    Fresh(cache) =>
        \A w \in 1..db :
            w > cache.tree \/ w > cache.counts => written[w] + TTL + MaxBuild > now
=============================================================================
