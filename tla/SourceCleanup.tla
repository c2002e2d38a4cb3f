---------------------------- MODULE SourceCleanup ---------------------------
(***************************************************************************)
(* What a cycle does about the sources themselves: Ingester.               *)
(* cleanup_orphaned_sources (src/docserver/ingestion.py), which removes    *)
(* what belongs to sources that sources.yaml no longer names, or moves it  *)
(* when the source was only renamed, and then the synchronisation of the   *)
(* configured ones, which has to live with what the cleanup left.          *)
(*                                                                         *)
(* A target is an entry of sources.yaml without its name: repository,      *)
(* branch and patterns.  The documents of a source are those of one target *)
(* (Ingestion has the files and the chunks); its vectors come in the       *)
(* batches rename_source moves.  Cycles are not forced.                    *)
(***************************************************************************)
EXTENDS Naturals, FiniteSets

CONSTANTS
    Names,      \* names of sources
    Targets,    \* what a name may stand for
    Repo,       \* a target's normalised URL, or its path
    Commit,     \* the commit its branch is at
    Local,      \* the targets that are local directories
    Empty,      \* the targets whose patterns match no file
    Batches,    \* the batches of 500 in which rename_source moves vectors
    None, Broken,
    FaultKinds, \* the faults that may happen
    MaxFaults,  \* bound: faults in a behaviour
    MaxEdits    \* bound: edits of sources.yaml

ASSUME TargetAssumption ==
    /\ Local \subseteq Targets /\ Empty \subseteq Targets
    /\ DOMAIN Repo = Targets /\ DOMAIN Commit = Targets
    /\ None \notin Targets
    /\ MaxFaults \in Nat /\ MaxEdits \in Nat

Checkouts == [repo: {Repo[t] : t \in Targets}, commit: {Commit[t] : t \in Targets}]

ASSUME CloneAssumption == None # Broken /\ {None, Broken} \cap Checkouts = {}

VARIABLES
    config,     \* sources.yaml, as the worker loaded it
    rows,       \* documents: the target each source's rows were made from
    dense,      \* the Chroma collection, by source and batch
    clone,      \* the directory clones/<name>: its origin URL and its HEAD
    pc, full,   \* the cycle: where it is, and whether it covers all sources
    orphans,    \* sources the cleanup has not dealt with
    old, new,   \* the orphan at hand, and the name it gets
    pending,    \* batches rename_source has not moved
    at, held,   \* the batch at hand, and what collection.get returned
    todo,       \* sources not yet synchronised
    changed,    \* sources whose files are to be walked
    clean,      \* history: no fault since this cycle began
    faults, edits

stores == <<rows, dense>>
renaming == <<old, new, pending, at, held>>
locals == <<full, orphans, renaming, todo, changed>>
budget == <<faults, edits>>
vars == <<config, stores, clone, pc, locals, clean, budget>>

Content(t) == IF t \in Empty THEN None ELSE t
Configured == {n \in Names : config[n] # None}
WithRows   == {n \in Names : rows[n] # None}
IsCheckout(c) == c \notin {None, Broken}

TypeOK ==
    LET Target == Targets \cup {None} IN
    /\ config \in [Names -> Target] /\ rows \in [Names -> Target]
    /\ dense \in [Names -> [Batches -> Target]]
    /\ clone \in [Names -> Checkouts \cup {None, Broken}]
    /\ pc \in {"idle", "cleanup", "deleteVectors", "get", "delete", "add",
               "moveClone", "sync", "walk"}
    /\ full \in BOOLEAN /\ clean \in BOOLEAN
    /\ orphans \subseteq Names /\ todo \subseteq Names /\ changed \subseteq Names
    /\ old \in Names \cup {None} /\ new \in Names \cup {None}
    /\ pending \subseteq Batches /\ at \in Batches \cup {None} /\ held \in Target
    /\ faults \in 0..MaxFaults /\ edits \in 0..MaxEdits
    /\ pc \in {"idle", "sync", "walk"} => orphans = {} /\ old = None

Init ==
    /\ config \in [Names -> Targets \cup {None}]
    /\ rows = [n \in Names |-> None]
    /\ dense = [n \in Names |-> [b \in Batches |-> None]]
    /\ clone = [n \in Names |-> None]
    /\ pc = "idle" /\ full = FALSE /\ clean = TRUE
    /\ orphans = {} /\ todo = {} /\ changed = {}
    /\ old = None /\ new = None
    /\ pending = {} /\ at = None /\ held = None
    /\ faults = 0 /\ edits = 0

Goto(l) == pc' = l

NoFault == UNCHANGED <<config, clean, budget>>
Fault(kind) ==
    /\ kind \in FaultKinds
    /\ faults < MaxFaults
    /\ faults' = faults + 1
    /\ clean' = FALSE
    /\ UNCHANGED <<config, edits>>

ForgetRename ==
    /\ old' = None /\ new' = None
    /\ pending' = {} /\ at' = None /\ held' = None
Forget ==
    /\ Goto("idle") /\ full' = FALSE
    /\ orphans' = {} /\ todo' = {} /\ changed' = {}
    /\ ForgetRename

(***************************************************************************)
(* The environment.  Each worker loads the configuration when it starts,   *)
(* so an edit during a cycle is an edit after it.                          *)
(***************************************************************************)
Reconfigure(n, t) ==
    /\ pc = "idle" /\ edits < MaxEdits
    /\ config[n] # t
    /\ config' = [config EXCEPT ![n] = t]
    /\ edits' = edits + 1
    /\ UNCHANGED <<stores, clone, pc, locals, clean, faults>>

(* SIGKILL.  During a first clone it leaves a directory without a          *)
(* repository.                                                             *)
Crash ==
    /\ pc # "idle"
    /\ \/ UNCHANGED clone
       \/ \E n \in todo : /\ pc = "sync" /\ clone[n] = None
                          /\ config[n] \notin Local
                          /\ clone' = [clone EXCEPT ![n] = Broken]
    /\ Forget /\ Fault("crash")
    /\ UNCHANGED stores

(***************************************************************************)
(* The cleanup.                                                            *)
(***************************************************************************)
(* Fault: no cleanup.                                                      *)
StartFullUncleaned ==
    /\ pc = "idle"
    /\ full' = TRUE /\ clean' = TRUE
    /\ orphans' = WithRows \ Configured
    /\ todo' = Configured
    /\ Goto("sync")
    /\ UNCHANGED <<config, stores, clone, renaming, changed, budget>>

(* run_once for all sources, or for one; without orphans the cleanup       *)
(* returns at once.                                                        *)
StartFull ==
    /\ pc = "idle"
    /\ full' = TRUE /\ clean' = TRUE
    /\ orphans' = WithRows \ Configured
    /\ todo' = Configured
    /\ Goto(IF orphans' = {} THEN "sync" ELSE "cleanup")
    /\ UNCHANGED <<config, stores, clone, renaming, changed, budget>>

StartOne(n) ==
    /\ pc = "idle" /\ n \in Configured
    /\ clean' = TRUE
    /\ todo' = {n}
    /\ Goto("sync")
    /\ UNCHANGED <<config, stores, clone, full, orphans, renaming, changed,
                   budget>>

(* _detect_rename looks the URL of the orphan's clone up among the         *)
(* configured sources.  The dictionary keeps one source per URL, the last  *)
(* of sources.yaml, whose order is left open here.                         *)
SameUrl(n) == {m \in Configured : IsCheckout(clone[n]) /\ Repo[config[m]] = clone[n].repo}

(* Fault: the new name may have documents of its own.                      *)
BeginRenameOnto(n, m) ==
    /\ pc = "cleanup" /\ n \in orphans
    /\ m \in SameUrl(n)
    /\ old' = n /\ new' = m
    /\ pending' = Batches
    /\ Goto("get")
    /\ UNCHANGED <<stores, clone, full, orphans, at, held, todo, changed>> /\ NoFault

BeginRename(n, m) ==
    /\ pc = "cleanup" /\ n \in orphans
    /\ m \in SameUrl(n) /\ rows[m] = None
    /\ old' = n /\ new' = m
    /\ pending' = Batches
    /\ Goto("get")
    /\ UNCHANGED <<stores, clone, full, orphans, at, held, todo, changed>> /\ NoFault

(* Fault: nobody looks for a new name.                                     *)
DeleteOrphanAlways(n) ==
    /\ pc = "cleanup" /\ n \in orphans
    /\ rows' = [rows EXCEPT ![n] = None]
    /\ old' = n
    /\ Goto("deleteVectors")
    /\ UNCHANGED <<dense, clone, full, orphans, new, pending, at, held, todo,
                   changed>>
    /\ NoFault

(* Fault: an orphan whose URL is taken is left alone.                      *)
DeleteOrphanUnlessTaken(n) ==
    /\ pc = "cleanup" /\ n \in orphans
    /\ SameUrl(n) = {} \/ \E m \in SameUrl(n) : rows[m] # None
    /\ rows' = [rows EXCEPT ![n] = IF SameUrl(n) = {} THEN None ELSE @]
    /\ old' = n
    /\ Goto("deleteVectors")
    /\ UNCHANGED <<dense, clone, full, orphans, new, pending, at, held, todo,
                   changed>>
    /\ NoFault

(* delete_source_documents: the rows in one transaction, then the vectors, *)
(* unless Chroma fails.                                                    *)
DeleteOrphan(n) ==
    /\ pc = "cleanup" /\ n \in orphans
    /\ SameUrl(n) = {} \/ \E m \in SameUrl(n) : rows[m] # None
    /\ rows' = [rows EXCEPT ![n] = None]
    /\ old' = n
    /\ Goto("deleteVectors")
    /\ UNCHANGED <<dense, clone, full, orphans, new, pending, at, held, todo,
                   changed>>
    /\ NoFault

DeleteVectors ==
    /\ pc = "deleteVectors"
    /\ \/ dense' = [dense EXCEPT ![old] = [b \in Batches |-> None]] /\ NoFault
       \/ UNCHANGED dense /\ Fault("dense")
    /\ orphans' = orphans \ {old}
    /\ ForgetRename
    /\ Goto("cleanup")
    /\ UNCHANGED <<rows, clone, full, todo, changed>>

(* rename_source, a batch at a time: get, delete (a failure is ignored),   *)
(* add under the new ids (a failure is logged; an id that is there stays   *)
(* as it is).  A batch that cannot be read is left behind.                 *)
RenameGet(b) ==
    /\ pc = "get" /\ b \in pending
    /\ dense[old][b] # None
    /\ at' = b /\ held' = dense[old][b]
    /\ Goto("delete")
    /\ UNCHANGED <<stores, clone, full, orphans, old, new, pending, todo,
                   changed>>
    /\ NoFault

RenameGetNothing(b) ==
    /\ pc = "get" /\ b \in pending
    /\ \/ dense[old][b] = None /\ NoFault
       \/ Fault("dense")
    /\ pending' = pending \ {b}
    /\ UNCHANGED <<stores, clone, pc, full, orphans, old, new, at, held, todo,
                   changed>>

(* Fault: the vectors are copied.                                          *)
RenameDeleteForgotten ==
    /\ pc = "delete"
    /\ Goto("add")
    /\ UNCHANGED <<stores, clone, locals>> /\ NoFault

RenameDelete ==
    /\ pc = "delete"
    /\ \/ dense' = [dense EXCEPT ![old][at] = None] /\ NoFault
       \/ UNCHANGED dense /\ Fault("dense")
    /\ Goto("add")
    /\ UNCHANGED <<rows, clone, locals>>

RenameAdd ==
    /\ pc = "add"
    /\ \/ /\ dense' = [dense EXCEPT ![new][at] = IF @ = None THEN held ELSE @]
          /\ NoFault
       \/ UNCHANGED dense /\ Fault("dense")
    /\ pending' = pending \ {at}
    /\ at' = None /\ held' = None
    /\ Goto("get")
    /\ UNCHANGED <<rows, clone, full, orphans, old, new, todo, changed>>

(* ... and the rows, in one transaction.                                   *)
RenameRows ==
    /\ pc = "get" /\ pending = {}
    /\ rows' = [rows EXCEPT ![new] = rows[old], ![old] = None]
    /\ Goto("moveClone")
    /\ UNCHANGED <<dense, clone, locals>> /\ NoFault

MoveClone ==
    /\ pc = "moveClone"
    /\ clone' = IF clone[new] = None
                THEN [clone EXCEPT ![new] = clone[old], ![old] = None]
                ELSE clone
    /\ orphans' = orphans \ {old}
    /\ ForgetRename
    /\ Goto("cleanup")
    /\ UNCHANGED <<stores, full, todo, changed>> /\ NoFault

(* Nothing catches what the database or the file system raises: the worker *)
(* exits.                                                                  *)
CleanupRaises ==
    /\ \/ pc \in {"cleanup", "moveClone"}
       \/ pc = "get" /\ pending = {}
    /\ Forget /\ Fault("sqlite")
    /\ UNCHANGED <<stores, clone>>

(* The clone directories of names that are not configured go last.         *)
Sweep ==
    /\ pc = "cleanup" /\ orphans = {}
    /\ clone' = [n \in Names |-> IF n \in Configured THEN clone[n] ELSE None]
    /\ Goto("sync")
    /\ UNCHANGED <<stores, locals>> /\ NoFault

(***************************************************************************)
(* The configured sources: all are synchronised, then walked.              *)
(***************************************************************************)
SyncDone(n, isChanged) ==
    /\ todo' = todo \ {n}
    /\ changed' = IF isChanged THEN changed \cup {n} ELSE changed
    /\ Goto(IF todo' = {} THEN "walk" ELSE "sync")
    /\ UNCHANGED <<stores, full, orphans, renaming>>

SyncLocal(n) ==
    /\ pc = "sync" /\ n \in todo /\ config[n] \in Local
    /\ SyncDone(n, TRUE)
    /\ UNCHANGED clone /\ NoFault

Head(t) == [repo |-> Repo[t], commit |-> Commit[t]]

CloneNew(n) ==
    /\ pc = "sync" /\ n \in todo /\ config[n] \notin Local
    /\ clone[n] = None
    /\ clone' = [clone EXCEPT ![n] = Head(config[n])]
    /\ SyncDone(n, TRUE) /\ NoFault

(* Fault: the clone keeps the URL it was made with.                        *)
FetchOldUrl(n) ==
    /\ pc = "sync" /\ n \in todo /\ config[n] \notin Local
    /\ IsCheckout(clone[n])
    /\ clone' = IF clone[n].repo = Repo[config[n]]
                THEN [clone EXCEPT ![n] = Head(config[n])] ELSE clone
    /\ SyncDone(n, clone'[n].commit # clone[n].commit) /\ NoFault

(* The origin URL follows the configuration, then fetch and reset: changed *)
(* means that HEAD has moved.                                              *)
Fetch(n) ==
    /\ pc = "sync" /\ n \in todo /\ config[n] \notin Local
    /\ IsCheckout(clone[n])
    /\ clone' = [clone EXCEPT ![n] = Head(config[n])]
    /\ SyncDone(n, clone[n].commit # Commit[config[n]]) /\ NoFault

SyncBroken(n) ==
    /\ pc = "sync" /\ n \in todo /\ config[n] \notin Local
    /\ clone[n] = Broken
    /\ SyncDone(n, FALSE)
    /\ UNCHANGED clone /\ NoFault

(* A clone or a fetch that fails, the latter after the URL was set.        *)
SyncFail(n) ==
    /\ pc = "sync" /\ n \in todo /\ config[n] \notin Local
    /\ clone' = IF IsCheckout(clone[n])
                THEN [clone EXCEPT ![n].repo = Repo[config[n]]] ELSE clone
    /\ SyncDone(n, FALSE) /\ Fault("sync")

(* The walk leaves the documents of the target; those it has already are   *)
(* skipped, their vectors too.                                             *)
Walk(n) ==
    LET content == Content(config[n]) IN
    /\ pc = "walk" /\ n \in changed
    /\ rows' = [rows EXCEPT ![n] = content]
    /\ IF rows[n] = content THEN UNCHANGED dense /\ NoFault
       ELSE \/ dense' = [dense EXCEPT ![n] = [b \in Batches |-> content]] /\ NoFault
            \/ UNCHANGED dense /\ Fault("dense")
    /\ changed' = changed \ {n}
    /\ UNCHANGED <<clone, pc, full, orphans, renaming, todo>>

Finish ==
    /\ \/ pc = "walk" /\ changed = {}
       \/ pc = "sync" /\ todo = {}
    /\ Forget
    /\ UNCHANGED <<stores, clone>> /\ NoFault

-----------------------------------------------------------------------------
CycleStep ==
    \/ \E n, m \in Names : BeginRename(n, m)
    \/ \E n \in Names : DeleteOrphan(n)
    \/ DeleteVectors
    \/ \E b \in Batches : RenameGet(b) \/ RenameGetNothing(b)
    \/ RenameDelete \/ RenameAdd \/ RenameRows \/ MoveClone \/ CleanupRaises
    \/ Sweep
    \/ \E n \in Names : \/ SyncLocal(n) \/ CloneNew(n) \/ Fetch(n)
                        \/ SyncBroken(n) \/ SyncFail(n) \/ Walk(n)
    \/ Finish

Next ==
    \/ CycleStep
    \/ StartFull \/ \E n \in Names : StartOne(n)
    \/ \E n \in Names, t \in Targets \cup {None} : Reconfigure(n, t)
    \/ Crash

(***************************************************************************)
(* The scheduler's cycles cover all sources.  A tick that finds a worker   *)
(* running is skipped, but requests for single sources come by hand: not   *)
(* every tick meets one, which makes the fairness of StartFull strong.     *)
(***************************************************************************)
Spec == Init /\ [][Next]_vars
FairSpec == Spec /\ WF_vars(CycleStep) /\ SF_vars(StartFull)

AtEnd == pc = "walk" /\ changed = {} /\ full /\ clean

\* The documents of a configured source are replaced by its own walk only:
\* neither the cleanup nor the migration of another source touches them.
ConfiguredRowsKept ==
    [][\A n \in Names :
          config[n] # None /\ rows[n] # None /\ rows'[n] # rows[n]
              => rows'[n] = Content(config[n])]_vars

\* Once a full cycle has gone past the cleanup, no source that is not
\* configured has documents, whatever earlier cycles left and whatever failed
\* in this one.
OrphanRowsGone ==
    pc \in {"sync", "walk"} /\ full => WithRows \subseteq Configured

\* After a full cycle each configured source holds the documents of what it
\* stands for now, through renames, swaps and changes of URL or branch.  Two
\* exceptions, where HEAD is that of the repository already and yet the
\* documents are not: a source that was a local directory in between, and
\* one without matching files, to which a clone with the wrong URL brought
\* another's documents.
Overlooked(n) ==
    config[n] \notin Local /\ (rows[n] \in Local \/ config[n] \in Empty)
RowsAreConfigured ==
    AtEnd => \A n \in Configured : rows[n] = Content(config[n]) \/ Overlooked(n)

\* Between cycles each source has the vectors of its documents and no others.
VectorsMatchRows ==
    pc = "idle" => \A n \in Names, b \in Batches : dense[n][b] = rows[n]

Deleted(n) == pc = "cleanup" /\ pc' = "deleteVectors" /\ old' = n
NewName(n, m) ==
    m \in Configured /\ rows[m] = None /\ Repo[config[m]] = Repo[rows[n]]

\* Documents are never deleted while exactly one configured source stands for
\* their repository and has none yet: whatever edits and cycles led here, the
\* clone still tells whose documents they are, and they move.  (A fetch that
\* failed may have left the clone with the URL of its next target.)
RenamedNotDeleted ==
    [][\A n, m \in Names :
          /\ Deleted(n) /\ NewName(n, m)
          /\ rows[n] \notin Local /\ faults = 0
          => \E k \in Configured \ {m} : Repo[config[k]] = Repo[rows[n]]]_vars

\* Documents of a source nobody configures any more disappear for good.
EventuallyNoOrphanRows == <>[](WithRows \subseteq Configured)
=============================================================================
