------------------------ MODULE SourceCleanupProofs -------------------------
(***************************************************************************)
(* Proofs about SourceCleanup, for any names, targets, batches and edits,  *)
(* and, where a theorem does not say otherwise, any faults.                *)
(***************************************************************************)
EXTENDS SourceCleanup, TLAPS

Renaming == pc \in {"get", "delete", "add", "moveClone"}
InCleanup == pc \in {"cleanup", "deleteVectors"} \/ Renaming

(***************************************************************************)
(* What each phase of a cycle knows.  The names in hand are an orphan,     *)
(* which is not configured, and a configured source without documents: a   *)
(* worker never reads the configuration again.                             *)
(***************************************************************************)
Phases ==
    /\ pc = "idle" => ~full /\ todo = {} /\ changed = {}
    /\ InCleanup => full /\ todo = Configured /\ changed = {}
    /\ pc = "walk" => todo = {}
    /\ pc = "sync" /\ todo = {} => changed = {}
    /\ pc = "cleanup" => old = None
    /\ ~InCleanup => orphans = {}
    /\ orphans \cap Configured = {}
    /\ todo \subseteq Configured /\ changed \subseteq Configured
    /\ todo \cap changed = {}
    /\ pc = "deleteVectors" \/ Renaming => old \in orphans
    /\ Renaming => new \in Configured
    /\ pc \in {"get", "delete", "add"} => rows[new] = None
    /\ pc \in {"delete", "add"} => at \in pending /\ held # None
    /\ pc = "moveClone" => pending = {}

TypeInv == TypeOK /\ Phases

\* The documents that nobody configures are those of the orphans the cleanup
\* has yet to deal with.
OrphansListed ==
    /\ pc \in {"deleteVectors", "moveClone"} => rows[old] = None
    /\ pc \in {"get", "delete", "add"} => rows[old] # None
    /\ full => WithRows \ Configured \subseteq orphans
    /\ orphans \ {old} \subseteq WithRows
    /\ pc = "cleanup" => orphans \subseteq WithRows

(***************************************************************************)
(* Where the vectors are, when the vector store does not fail: a rename    *)
(* has taken the batches it is done with from the old name to the new, the *)
(* one at hand may be on its way.                                          *)
(***************************************************************************)
Matching(n) == \A b \in Batches : dense[n][b] = rows[n]
Moved(b) ==
    IF b \in pending
    THEN /\ dense[new][b] = None
         /\ dense[old][b] = IF pc = "add" /\ b = at THEN None ELSE rows[old]
    ELSE dense[old][b] = None /\ dense[new][b] = rows[old]
VectorsFollow ==
    /\ pc \in {"delete", "add"} => held = rows[old]
    /\ IF pc \in {"get", "delete", "add"}
       THEN /\ \A n \in Names \ {old, new} : Matching(n)
            /\ \A b \in Batches : Moved(b)
       ELSE \A n \in Names :
               IF pc = "deleteVectors" /\ n = old THEN rows[n] = None ELSE Matching(n)

(***************************************************************************)
(* What the clones tell, as long as nothing has failed: each one is at the *)
(* head of some target, and the documents of a source are from the         *)
(* repository of its clone.  Except those a rename has brought, until the  *)
(* source is synchronised: they are from the repository it is configured   *)
(* to have; and those about to be replaced.                                *)
(***************************************************************************)
Remote == Targets \ Local
Telling(c, t) == \E u \in Remote : c = Head(u) /\ Repo[u] = Repo[t]
Ours(n) ==
    \/ Telling(clone[n], rows[n])
    \/ n \in todo /\ pc # "idle" /\ Repo[config[n]] = Repo[rows[n]]
    \/ n \in changed
ClonesTell ==
    faults = 0 =>
      /\ \A n \in Names : clone[n] = None \/ \E t \in Remote : clone[n] = Head(t)
      /\ \A n \in changed : config[n] \in Local \/ clone[n] = Head(config[n])
      /\ \A n \in Names : rows[n] \notin Local \cup {None} => Ours(n)
      /\ pc \in {"get", "delete", "add"} =>
            IsCheckout(clone[old]) /\ Repo[config[new]] = clone[old].repo

(***************************************************************************)
(* Which commit's documents a source has, when only fetches and clones     *)
(* fail: those of its clone's HEAD, unless they come from a local          *)
(* directory, or the HEAD's target matches no file.                        *)
(***************************************************************************)
Agrees(c, row) ==
    IsCheckout(c) => \A t \in Remote :
        c.commit = Commit[t] => row = t \/ row \in Local \/ t \in Empty
AtHead(n) ==
    IF pc = "moveClone" /\ n = new /\ clone[n] = None
    THEN Agrees(clone[old], rows[n])
    ELSE Agrees(clone[n], rows[n])
CommitsAgree ==
    /\ \A n \in Names : clone[n] # Broken
    /\ \A n \in changed : config[n] \in Local \/ clone[n] = Head(config[n])
    /\ \A n \in Names :
          \/ n \in changed
          \/ InCleanup /\ n \notin Configured /\ rows[n] = None
          \/ AtHead(n)
    /\ pc \in {"sync", "walk"} /\ full /\ clean =>
          \A n \in Configured \ (todo \cup changed) :
              rows[n] = Content(config[n]) \/ Overlooked(n)
-----------------------------------------------------------------------------
(***************************************************************************)
(* Types and phases.                                                       *)
(***************************************************************************)
LEMMA ContentType ==
  ASSUME NEW t \in Targets
  PROVE  Content(t) \in Targets \cup {None}
BY DEF Content

LEMMA HeadType ==
  ASSUME NEW t \in Targets
  PROVE  /\ Head(t) \in Checkouts /\ IsCheckout(Head(t))
         /\ Head(t).repo = Repo[t] /\ Head(t).commit = Commit[t]
<1>1. Head(t) \in Checkouts  BY DEF Head, Checkouts
<1> QED  BY <1>1, CloneAssumption DEF Head, IsCheckout

LEMMA FaultType ==
  ASSUME TypeOK, NEW kind, NoFault \/ Fault(kind)
  PROVE  /\ config' = config /\ edits' = edits
         /\ clean' \in BOOLEAN /\ faults' \in 0..MaxFaults
<1>1. CASE NoFault  BY <1>1 DEF NoFault, TypeOK, budget
<1>2. CASE Fault(kind)
  <2>1. faults \in 0..MaxFaults /\ MaxFaults \in Nat
    BY TargetAssumption DEF TypeOK
  <2>2. /\ faults < MaxFaults /\ faults' = faults + 1
        /\ clean' = FALSE /\ config' = config /\ edits' = edits
    BY <1>2 DEF Fault
  <2>3. faults' \in 0..MaxFaults  BY <2>1, <2>2
  <2> QED  BY <2>2, <2>3
<1> QED  BY <1>1, <1>2

LEMMA InitTypes == Init => TypeInv
<1> SUFFICES ASSUME Init PROVE TypeInv
  OBVIOUS
<1>1. TypeOK
  <2>1. faults \in 0..MaxFaults /\ edits \in 0..MaxEdits
    BY TargetAssumption DEF Init
  <2> QED  BY <2>1 DEF Init, TypeOK
<1>2. Phases  BY DEF Init, Phases, InCleanup, Renaming
<1> QED  BY <1>1, <1>2 DEF TypeInv

LEMMA EnvironmentKeepsTypes ==
  ASSUME TypeInv,
         \/ \E n \in Names, t \in Targets \cup {None} : Reconfigure(n, t)
         \/ Crash \/ StartFull \/ \E n \in Names : StartOne(n)
  PROVE  TypeInv'
<1> USE DEF TypeInv, TypeOK, Phases, Configured, InCleanup, Renaming, Goto,
            stores, renaming, locals, budget
<1>1. ASSUME NEW n \in Names, NEW t \in Targets \cup {None}, Reconfigure(n, t)
      PROVE  TypeInv'
  BY <1>1, TargetAssumption DEF Reconfigure
<1>2. CASE Crash
  <2>1. clone' \in [Names -> Checkouts \cup {None, Broken}]  BY <1>2 DEF Crash
  <2>2. Forget /\ Fault("crash") /\ UNCHANGED stores  BY <1>2 DEF Crash
  <2> QED  BY <2>1, <2>2, FaultType DEF Forget, ForgetRename
<1>3. CASE StartFull
  <2>1. /\ full' = TRUE /\ clean' = TRUE /\ todo' = Configured
        /\ orphans' = WithRows \ Configured
        /\ pc' = IF orphans' = {} THEN "sync" ELSE "cleanup"
    BY <1>3 DEF StartFull
  <2>2. /\ UNCHANGED <<config, rows, dense, clone, changed, faults, edits>>
        /\ UNCHANGED <<old, new, pending, at, held>>
        /\ pc = "idle"
    BY <1>3 DEF StartFull
  <2>3. TypeOK'  BY <2>1, <2>2 DEF WithRows
  <2> QED  BY <2>1, <2>2, <2>3
<1>4. ASSUME NEW n \in Names, StartOne(n) PROVE TypeInv'
  BY <1>4 DEF StartOne
<1> QED  BY <1>1, <1>2, <1>3, <1>4

LEMMA CleanupKeepsTypes ==
  ASSUME TypeInv,
         \/ \E n, m \in Names : BeginRename(n, m)
         \/ \E n \in Names : DeleteOrphan(n)
         \/ DeleteVectors \/ CleanupRaises \/ Sweep
  PROVE  TypeInv'
<1> USE DEF TypeInv, TypeOK, Phases, Configured, InCleanup, Renaming, Goto,
            stores, renaming, locals
<1>1. ASSUME NEW n \in Names, NEW m \in Names, BeginRename(n, m) PROVE TypeInv'
  BY <1>1, FaultType DEF BeginRename, SameUrl
<1>2. ASSUME NEW n \in Names, DeleteOrphan(n) PROVE TypeInv'
  BY <1>2, FaultType DEF DeleteOrphan
<1>3. CASE DeleteVectors
  <2>1. dense' \in [Names -> [Batches -> Targets \cup {None}]]
    BY <1>3 DEF DeleteVectors
  <2>2. NoFault \/ Fault("dense")  BY <1>3 DEF DeleteVectors
  <2>3. /\ pc = "deleteVectors" /\ pc' = "cleanup" /\ orphans' = orphans \ {old}
        /\ old' = None /\ new' = None /\ pending' = {} /\ at' = None /\ held' = None
        /\ UNCHANGED <<rows, clone, full, todo, changed>>
    BY <1>3 DEF DeleteVectors, ForgetRename
  <2>4. /\ config' = config /\ edits' = edits
        /\ clean' \in BOOLEAN /\ faults' \in 0..MaxFaults
    BY <2>2, FaultType
  <2>5. TypeOK'  BY <2>1, <2>3, <2>4
  <2>6. Phases'  BY <2>3, <2>4
  <2> QED  BY <2>5, <2>6
<1>4. CASE CleanupRaises
  BY <1>4, FaultType DEF CleanupRaises, Forget, ForgetRename
<1>5. CASE Sweep
  BY <1>5, FaultType DEF Sweep
<1> QED  BY <1>1, <1>2, <1>3, <1>4, <1>5

\* A single vector is exchanged.
LEMMA OneVector ==
  ASSUME dense \in [Names -> [Batches -> Targets \cup {None}]],
         NEW n \in Names, NEW b \in Batches, NEW x \in Targets \cup {None},
         \/ dense' = dense
         \/ dense' = [dense EXCEPT ![n][b] = x]
         \/ dense' = [dense EXCEPT ![n][b] = IF @ = None THEN x ELSE @]
  PROVE  dense' \in [Names -> [Batches -> Targets \cup {None}]]
<1>1. [dense[n] EXCEPT ![b] = x] \in [Batches -> Targets \cup {None}]
  OBVIOUS
<1>2. [dense[n] EXCEPT ![b] = IF @ = None THEN x ELSE @]
          \in [Batches -> Targets \cup {None}]
  OBVIOUS
<1> QED  BY <1>1, <1>2

LEMMA RenameKeepsTypes ==
  ASSUME TypeInv,
         \/ \E b \in Batches : RenameGet(b) \/ RenameGetNothing(b)
         \/ RenameDelete \/ RenameAdd \/ RenameRows \/ MoveClone
  PROVE  TypeInv'
<1> USE DEF TypeInv, TypeOK, Phases, Configured, InCleanup, Renaming, Goto,
            stores, renaming, locals
<1>1. ASSUME NEW b \in Batches, RenameGet(b) PROVE TypeInv'
  BY <1>1, FaultType DEF RenameGet
<1>2. ASSUME NEW b \in Batches, RenameGetNothing(b) PROVE TypeInv'
  BY <1>2, FaultType DEF RenameGetNothing
<1>3. CASE RenameDelete
  <2>1. dense' \in [Names -> [Batches -> Targets \cup {None}]]
    <3>1. old \in Names /\ at \in Batches  BY <1>3 DEF RenameDelete
    <3>2. dense' = dense \/ dense' = [dense EXCEPT ![old][at] = None]
      BY <1>3 DEF RenameDelete
    <3>3. dense \in [Names -> [Batches -> Targets \cup {None}]]
          /\ None \in Targets \cup {None}
      OBVIOUS
    <3> HIDE DEF TypeInv, TypeOK, Phases, Configured, InCleanup, Renaming, Goto,
                 stores, renaming, locals
    <3> QED  BY <3>1, <3>2, <3>3, OneVector
  <2> QED  BY <2>1, <1>3, FaultType DEF RenameDelete
<1>4. CASE RenameAdd
  <2>1. dense' \in [Names -> [Batches -> Targets \cup {None}]]
    <3>1. new \in Names /\ at \in Batches /\ held \in Targets \cup {None}
      BY <1>4 DEF RenameAdd
    <3>2. \/ dense' = dense
          \/ dense' = [dense EXCEPT ![new][at] = IF @ = None THEN held ELSE @]
      BY <1>4 DEF RenameAdd
    <3>3. dense \in [Names -> [Batches -> Targets \cup {None}]]
          /\ None \in Targets \cup {None}
      OBVIOUS
    <3> HIDE DEF TypeInv, TypeOK, Phases, Configured, InCleanup, Renaming, Goto,
                 stores, renaming, locals
    <3> QED  BY <3>1, <3>2, <3>3, OneVector
  <2> QED  BY <2>1, <1>4, FaultType DEF RenameAdd
<1>5. CASE RenameRows  BY <1>5, FaultType DEF RenameRows
<1>6. CASE MoveClone
  BY <1>6, FaultType DEF MoveClone, ForgetRename
<1> QED  BY <1>1, <1>2, <1>3, <1>4, <1>5, <1>6

LEMMA SyncKeepsTypes ==
  ASSUME TypeInv, NEW n \in Names,
         SyncLocal(n) \/ CloneNew(n) \/ Fetch(n) \/ SyncBroken(n) \/ SyncFail(n)
  PROVE  TypeInv'
<1> USE DEF TypeInv, TypeOK, Phases, Configured, InCleanup, Renaming, Goto,
            stores, renaming
<1>1. ASSUME NEW isChanged \in BOOLEAN, pc = "sync", n \in todo,
             SyncDone(n, isChanged),
             clone' \in [Names -> Checkouts \cup {None, Broken}],
             NEW kind, NoFault \/ Fault(kind)
      PROVE  TypeInv'
  BY <1>1, FaultType DEF SyncDone
<1>2. n \in todo => config[n] \in Targets
  OBVIOUS
<1>3. CASE SyncLocal(n)  BY <1>1, <1>3 DEF SyncLocal
<1>4. CASE CloneNew(n)  BY <1>1, <1>2, <1>4, HeadType DEF CloneNew
<1>5. CASE Fetch(n)  BY <1>1, <1>2, <1>5, HeadType DEF Fetch
<1>6. CASE SyncBroken(n)  BY <1>1, <1>6 DEF SyncBroken
<1>7. CASE SyncFail(n)
  <2>1. ASSUME IsCheckout(clone[n]), n \in todo
        PROVE  [clone[n] EXCEPT !.repo = Repo[config[n]]] \in Checkouts
    BY <2>1, <1>2 DEF IsCheckout, Checkouts
  <2>2. clone' \in [Names -> Checkouts \cup {None, Broken}]
    BY <1>7, <2>1 DEF SyncFail
  <2> QED  BY <1>1, <1>7, <2>2 DEF SyncFail
<1> QED  BY <1>3, <1>4, <1>5, <1>6, <1>7

LEMMA WalkKeepsTypes ==
  ASSUME TypeInv, (\E n \in Names : Walk(n)) \/ Finish
  PROVE  TypeInv'
<1> USE DEF TypeInv, TypeOK, Phases, Configured, InCleanup, Renaming, Goto,
            stores, renaming
<1>1. ASSUME NEW n \in Names, Walk(n) PROVE TypeInv'
  <2>1. Content(config[n]) \in Targets \cup {None}
    BY <1>1, ContentType DEF Walk
  <2>2. dense' \in [Names -> [Batches -> Targets \cup {None}]]
    BY <1>1, <2>1 DEF Walk
  <2>3. NoFault \/ Fault("dense")
    BY <1>1 DEF Walk
  <2> QED  BY <1>1, <2>1, <2>2, <2>3, FaultType DEF Walk
<1>2. CASE Finish  BY <1>2, FaultType DEF Finish, Forget, ForgetRename
<1> QED  BY <1>1, <1>2

LEMMA StutterKeepsTypes == TypeInv /\ UNCHANGED vars => TypeInv'
BY DEF TypeInv, TypeOK, Phases, Configured, InCleanup, Renaming, vars, stores,
       renaming, locals, budget

LEMMA StepKeepsTypes == TypeInv /\ [Next]_vars => TypeInv'
BY EnvironmentKeepsTypes, CleanupKeepsTypes, RenameKeepsTypes, SyncKeepsTypes,
   WalkKeepsTypes, StutterKeepsTypes DEF Next, CycleStep

LEMMA TypeInvHolds == Spec => []TypeInv
BY InitTypes, StepKeepsTypes, PTL DEF Spec

(* Every state has its types (SourceCleanup), and every phase of a cycle   *)
(* the names in hand that its next step needs.                             *)
THEOREM TypeCorrect == Spec => []TypeOK
<1>1. TypeInv => TypeOK  BY DEF TypeInv
<1> QED  BY <1>1, TypeInvHolds, PTL

-----------------------------------------------------------------------------
(***************************************************************************)
(* The documents of sources that nobody configures.                        *)
(***************************************************************************)
LEMMA OrphansStayListed == TypeInv /\ OrphansListed /\ [Next]_vars => OrphansListed'
<1> SUFFICES ASSUME TypeInv, OrphansListed, [Next]_vars PROVE OrphansListed'
  OBVIOUS
<1> USE DEF OrphansListed, WithRows, Configured, Goto, stores, renaming, locals
<1>t. /\ rows \in [Names -> Targets \cup {None}] /\ config \in [Names -> Targets \cup {None}]
      /\ None \notin Targets
  BY TargetAssumption DEF TypeInv, TypeOK
<1>p. Phases  BY DEF TypeInv
<1>f. TypeOK  BY DEF TypeInv
<1>1. ASSUME Forget PROVE OrphansListed'
  BY <1>1 DEF Forget
<1>2. CASE Crash  BY <1>1, <1>2 DEF Crash
<1>3. CASE CleanupRaises  BY <1>1, <1>3 DEF CleanupRaises
<1>4. CASE Finish  BY <1>1, <1>4 DEF Finish
<1>5. ASSUME NEW n \in Names, NEW t \in Targets \cup {None}, Reconfigure(n, t)
      PROVE  OrphansListed'
  BY <1>5, <1>p DEF Reconfigure, Phases
<1>6. CASE StartFull  BY <1>6 DEF StartFull
<1>7. ASSUME NEW n \in Names, StartOne(n) PROVE OrphansListed'
  BY <1>7, <1>p DEF StartOne, Phases
<1>8. ASSUME NEW n \in Names, NEW m \in Names, BeginRename(n, m)
      PROVE  OrphansListed'
  BY <1>8, <1>f, FaultType DEF BeginRename
<1>9. ASSUME NEW n \in Names, DeleteOrphan(n) PROVE OrphansListed'
  BY <1>9, <1>t, <1>f, FaultType DEF DeleteOrphan
<1>10. CASE DeleteVectors
  <2>1. NoFault \/ Fault("dense")  BY <1>10 DEF DeleteVectors
  <2>2. config' = config  BY <2>1, <1>f, FaultType
  <2>3. pc = "deleteVectors" /\ pc' = "cleanup" /\ orphans' = orphans \ {old}
        /\ rows' = rows /\ full' = full
    BY <1>10 DEF DeleteVectors
  <2>4. rows[old] = None /\ full  BY <2>3, <1>p DEF Phases, InCleanup
  <2> QED  BY <2>2, <2>3, <2>4
<1>11. ASSUME NEW b \in Batches, RenameGet(b) \/ RenameGetNothing(b)
       PROVE  OrphansListed'
  <2>1. NoFault \/ Fault("dense")  BY <1>11 DEF RenameGet, RenameGetNothing
  <2>2. config' = config  BY <2>1, <1>f, FaultType
  <2> QED  BY <2>2, <1>11 DEF RenameGet, RenameGetNothing
<1>12. CASE RenameDelete \/ RenameAdd
  <2>1. NoFault \/ Fault("dense")  BY <1>12 DEF RenameDelete, RenameAdd
  <2>2. config' = config  BY <2>1, <1>f, FaultType
  <2> QED  BY <2>2, <1>12 DEF RenameDelete, RenameAdd
<1>13. CASE RenameRows
  <2>1. config' = config  BY <1>13, <1>f, FaultType DEF RenameRows
  <2>2. /\ pc = "get" /\ pc' = "moveClone"
        /\ rows' = [rows EXCEPT ![new] = rows[old], ![old] = None]
        /\ UNCHANGED <<full, orphans, old>>
    BY <1>13 DEF RenameRows
  <2>3. /\ old \in Names /\ orphans \subseteq Names
        /\ new \in Configured /\ new \notin orphans
    BY <2>2, <1>p, <1>f DEF Phases, Renaming, TypeOK
  <2>4. rows'[old] = None  BY <2>2, <2>3, <1>t
  <2>5. \A n \in Names \ {old, new} : rows'[n] = rows[n]  BY <2>2, <1>t
  <2> QED  BY <2>1, <2>2, <2>3, <2>4, <2>5
<1>14. CASE MoveClone
  <2>1. config' = config  BY <1>14, <1>f, FaultType DEF MoveClone
  <2>2. /\ pc = "moveClone" /\ pc' = "cleanup" /\ orphans' = orphans \ {old}
        /\ rows' = rows /\ full' = full
    BY <1>14 DEF MoveClone
  <2> QED  BY <2>1, <2>2
<1>15. CASE Sweep  BY <1>15, <1>f, FaultType DEF Sweep
<1>16. ASSUME NEW n \in Names, SyncLocal(n) \/ CloneNew(n) \/ Fetch(n)
                                 \/ SyncBroken(n) \/ SyncFail(n)
       PROVE  OrphansListed'
  <2>1. NoFault \/ Fault("sync")
    BY <1>16 DEF SyncLocal, CloneNew, Fetch, SyncBroken, SyncFail
  <2>2. config' = config  BY <2>1, <1>f, FaultType
  <2>3. PICK isChanged \in BOOLEAN : SyncDone(n, isChanged)
    BY <1>16 DEF SyncLocal, CloneNew, Fetch, SyncBroken, SyncFail
  <2> QED  BY <2>2, <2>3 DEF SyncDone
<1>17. ASSUME NEW n \in Names, Walk(n) PROVE OrphansListed'
  <2>1. NoFault \/ Fault("dense")  BY <1>17 DEF Walk
  <2>2. config' = config  BY <2>1, <1>f, FaultType
  <2>3. /\ rows' = [rows EXCEPT ![n] = Content(config[n])]
        /\ pc = "walk" /\ n \in changed
        /\ UNCHANGED <<pc, full, orphans>>
    BY <1>17 DEF Walk
  <2> QED  BY <2>2, <2>3, <1>t, <1>p DEF Phases
<1>18. CASE UNCHANGED vars  BY <1>18 DEF vars
<1> QED
  BY <1>2, <1>3, <1>4, <1>5, <1>6, <1>7, <1>8, <1>9, <1>10, <1>11, <1>12, <1>13,
     <1>14, <1>15, <1>16, <1>17, <1>18 DEF Next, CycleStep

LEMMA OrphansListedHolds == Spec => []OrphansListed
<1>1. Init => OrphansListed  BY DEF Init, OrphansListed
<1> QED  BY <1>1, TypeInvHolds, OrphansStayListed, PTL DEF Spec

(* Once a full cycle is past the cleanup, only configured sources have     *)
(* documents, whatever failed in it or before: cleanup_orphaned_sources    *)
(* either deals with every orphan or ends the cycle.                       *)
THEOREM OrphansGone == Spec => []OrphanRowsGone
<1>1. TypeInv /\ OrphansListed => OrphanRowsGone
  BY DEF TypeInv, TypeOK, OrphansListed, OrphanRowsGone
<1> QED  BY <1>1, TypeInvHolds, OrphansListedHolds, PTL

(* Neither the cleanup nor a rename touches the documents of a configured  *)
(* source: only its own walk does (cleanup_orphaned_sources, rename_source *)
(* and delete_source_documents).                                           *)
THEOREM ConfiguredKept == Spec => ConfiguredRowsKept
<1> DEFINE Kept == \A n \in Names :
              config[n] # None /\ rows[n] # None /\ rows'[n] # rows[n]
                  => rows'[n] = Content(config[n])
<1>1. ASSUME TypeInv, [Next]_vars PROVE Kept
  <2> USE DEF Configured, Goto, stores, renaming, locals
  <2>t. rows \in [Names -> Targets \cup {None}] /\ config \in [Names -> Targets \cup {None}]
    BY <1>1 DEF TypeInv, TypeOK
  <2>p. Phases  BY <1>1 DEF TypeInv
  <2>1. CASE rows' = rows  BY <2>1
  <2>2. ASSUME NEW n \in Names, DeleteOrphan(n) PROVE Kept
    BY <2>2, <2>t, <2>p DEF DeleteOrphan, Phases
  <2>3. CASE RenameRows
    BY <2>3, <2>t, <2>p DEF RenameRows, Phases, Renaming
  <2>4. ASSUME NEW n \in Names, Walk(n) PROVE Kept
    BY <2>4, <2>t DEF Walk
  <2>5. \/ rows' = rows \/ RenameRows
        \/ \E n \in Names : DeleteOrphan(n) \/ Walk(n)
    BY <1>1 DEF Next, CycleStep, vars, Crash, CleanupRaises, Finish, Reconfigure,
       StartFull, StartOne, BeginRename, DeleteVectors, RenameGet,
       RenameGetNothing, RenameDelete, RenameAdd, MoveClone, Sweep, SyncLocal,
       CloneNew, Fetch, SyncBroken, SyncFail, SyncDone
  <2> QED  BY <2>1, <2>2, <2>3, <2>4, <2>5
<1>2. TypeInv /\ [Next]_vars => [Kept]_vars  BY <1>1
<1> QED  BY <1>2, TypeInvHolds, PTL DEF Spec, ConfiguredRowsKept

-----------------------------------------------------------------------------
(***************************************************************************)
(* The vectors.                                                            *)
(***************************************************************************)
LEMMA RenamedVectors ==
  ASSUME TypeInv, VectorsFollow, FaultKinds \subseteq {"sync"},
         \/ \E n, m \in Names : BeginRename(n, m)
         \/ \E b \in Batches : RenameGet(b) \/ RenameGetNothing(b)
         \/ RenameDelete \/ RenameAdd \/ RenameRows
  PROVE  VectorsFollow'
<1> USE DEF Goto, stores, renaming, locals
<1>t. /\ rows \in [Names -> Targets \cup {None}]
      /\ dense \in [Names -> [Batches -> Targets \cup {None}]]
      /\ orphans \subseteq Names /\ Configured \subseteq Names
      /\ pending \subseteq Batches
  BY DEF TypeInv, TypeOK, Configured
<1>h. pc \in {"get", "delete", "add"} =>
        /\ old \in Names /\ new \in Names /\ old # new /\ rows[new] = None
        /\ pc # "get" => at \in pending /\ held # None
  BY <1>t DEF TypeInv, Phases, Renaming
<1>f. ~Fault("dense")  BY DEF Fault
<1>1. ASSUME NEW n \in Names, NEW m \in Names, BeginRename(n, m)
      PROVE  VectorsFollow'
  <2>1. pc = "cleanup" /\ pc' = "get" /\ old' = n /\ new' = m /\ n # m
        /\ pending' = Batches /\ rows' = rows /\ dense' = dense /\ rows[m] = None
    BY <1>1 DEF BeginRename, SameUrl, TypeInv, Phases
  <2> QED  BY <2>1 DEF VectorsFollow, Matching, Moved
<1>2. ASSUME NEW b \in Batches, RenameGet(b) PROVE VectorsFollow'
  BY <1>2, <1>h DEF RenameGet, VectorsFollow, Matching, Moved
<1>3. ASSUME NEW b \in Batches, RenameGetNothing(b) PROVE VectorsFollow'
  <2>1. /\ pc = "get" /\ pc' = "get" /\ b \in pending /\ dense[old][b] = None
        /\ pending' = pending \ {b} /\ rows' = rows /\ dense' = dense
        /\ old' = old /\ new' = new
    BY <1>3, <1>f DEF RenameGetNothing
  <2> QED  BY <2>1, <1>h DEF VectorsFollow, Matching, Moved
<1>4. CASE RenameDelete
  <2>1. /\ pc = "delete" /\ pc' = "add" /\ rows' = rows
        /\ dense' = [dense EXCEPT ![old][at] = None]
        /\ old' = old /\ new' = new /\ pending' = pending /\ at' = at /\ held' = held
    BY <1>4, <1>f DEF RenameDelete
  <2>2. /\ \A n \in Names \ {old} : dense'[n] = dense[n]
        /\ \A b \in Batches \ {at} : dense'[old][b] = dense[old][b]
        /\ dense'[old][at] = None
    BY <2>1, <1>h, <1>t
  <2> QED  BY <2>1, <2>2, <1>h DEF VectorsFollow, Matching, Moved
<1>5. CASE RenameAdd
  <2>1. /\ pc = "add" /\ pc' = "get" /\ rows' = rows
        /\ dense' = [dense EXCEPT ![new][at] = IF @ = None THEN held ELSE @]
        /\ old' = old /\ new' = new /\ pending' = pending \ {at}
    BY <1>5, <1>f DEF RenameAdd
  <2>2. dense[new][at] = None /\ dense[old][at] = None /\ held = rows[old]
    BY <2>1, <1>h, <1>t DEF VectorsFollow, Moved
  <2>3. /\ \A n \in Names \ {new} : dense'[n] = dense[n]
        /\ \A b \in Batches \ {at} : dense'[new][b] = dense[new][b]
        /\ dense'[new][at] = rows[old]
    BY <2>1, <2>2, <1>h, <1>t
  <2> QED  BY <2>1, <2>2, <2>3, <1>h DEF VectorsFollow, Matching, Moved
<1>6. CASE RenameRows
  <2>1. /\ pc = "get" /\ pc' = "moveClone" /\ pending = {} /\ dense' = dense
        /\ rows' = [rows EXCEPT ![new] = rows[old], ![old] = None]
    BY <1>6 DEF RenameRows
  <2>2. \A n \in Names : rows'[n] = IF n = old THEN None
                                     ELSE IF n = new THEN rows[old] ELSE rows[n]
    BY <2>1, <1>h, <1>t
  <2>3. \A n \in Names : Matching(n)'
    BY <2>1, <2>2, <1>h DEF VectorsFollow, Matching, Moved
  <2> QED  BY <2>1, <2>3 DEF VectorsFollow
<1> QED  BY <1>1, <1>2, <1>3, <1>4, <1>5, <1>6

LEMMA VectorsStayFollowing ==
  ASSUME TypeInv, VectorsFollow, FaultKinds \subseteq {"sync"}, [Next]_vars
  PROVE  VectorsFollow'
<1> USE DEF Goto, stores, renaming, locals
<1>t. /\ rows \in [Names -> Targets \cup {None}]
      /\ dense \in [Names -> [Batches -> Targets \cup {None}]]
  BY DEF TypeInv, TypeOK
<1>f. ~Fault("dense") /\ ~Fault("crash") /\ ~Fault("sqlite")  BY DEF Fault
<1>1. ASSUME rows' = rows, dense' = dense,
             {pc, pc'} \cap {"deleteVectors", "get", "delete", "add"} = {}
      PROVE  VectorsFollow'
  BY <1>1 DEF VectorsFollow, Matching
<1>2. ~Crash /\ ~CleanupRaises  BY <1>f DEF Crash, CleanupRaises
<1>3. ASSUME NEW n \in Names, DeleteOrphan(n) PROVE VectorsFollow'
  BY <1>3, <1>t DEF DeleteOrphan, VectorsFollow, Matching
<1>4. CASE DeleteVectors
  <2>1. /\ pc = "deleteVectors" /\ pc' = "cleanup" /\ rows' = rows
        /\ dense' = [dense EXCEPT ![old] = [b \in Batches |-> None]]
    BY <1>4, <1>f DEF DeleteVectors
  <2> QED  BY <2>1, <1>t DEF VectorsFollow, Matching
<1>5. ASSUME NEW n \in Names, Walk(n) PROVE VectorsFollow'
  <2> DEFINE content == Content(config[n])
  <2>1. /\ pc = "walk" /\ pc' = "walk" /\ rows' = [rows EXCEPT ![n] = content]
        /\ IF rows[n] = content THEN dense' = dense
           ELSE dense' = [dense EXCEPT ![n] = [b \in Batches |-> content]]
    BY <1>5, <1>f DEF Walk
  <2> HIDE DEF content
  <2> QED  BY <2>1, <1>t DEF VectorsFollow, Matching
<1>6. \/ Finish \/ MoveClone \/ Sweep
      \/ StartFull \/ \E n \in Names : StartOne(n)
      \/ \E n \in Names, t \in Targets \cup {None} : Reconfigure(n, t)
      \/ \E n \in Names : \/ SyncLocal(n) \/ CloneNew(n) \/ Fetch(n)
                            \/ SyncBroken(n) \/ SyncFail(n)
      => VectorsFollow'
  BY <1>1 DEF Finish, Forget, MoveClone, Sweep, StartFull, StartOne, Reconfigure,
     SyncLocal, CloneNew, Fetch, SyncBroken, SyncFail, SyncDone
<1>7. CASE UNCHANGED vars
  BY <1>7 DEF vars, VectorsFollow, Matching, Moved
<1> QED
  BY <1>2, <1>3, <1>4, <1>5, <1>6, <1>7, RenamedVectors DEF Next, CycleStep

(* When only fetches and clones fail, the vectors of every source are      *)
(* those of its documents between two cycles, however many batches a       *)
(* rename_source had to move: none is left behind, doubled or mixed up.    *)
THEOREM VectorsMatch ==
  ASSUME FaultKinds \subseteq {"sync"}
  PROVE  Spec => []VectorsMatchRows
<1>1. Init => VectorsFollow  BY DEF Init, VectorsFollow, Matching
<1>2. TypeInv /\ VectorsFollow /\ [Next]_vars => VectorsFollow'
  BY VectorsStayFollowing
<1>3. VectorsFollow => VectorsMatchRows
  BY DEF VectorsFollow, VectorsMatchRows, Matching
<1> QED  BY <1>1, <1>2, <1>3, TypeInvHolds, PTL DEF Spec

-----------------------------------------------------------------------------
(***************************************************************************)
(* What the clones tell about the documents.                               *)
(***************************************************************************)
LEMMA NoFaultYet ==
  ASSUME TypeInv, NEW kind, NoFault \/ Fault(kind), faults' = 0
  PROVE  NoFault /\ faults = 0 /\ config' = config
<1>1. faults \in Nat  BY DEF TypeInv, TypeOK
<1>2. ~Fault(kind)
  <2> SUFFICES ASSUME Fault(kind) PROVE FALSE
    OBVIOUS
  <2>1. faults' = faults + 1  BY DEF Fault
  <2> QED  BY <2>1, <1>1
<1> QED  BY <1>2 DEF NoFault, budget

LEMMA TellingCheckout ==
  ASSUME NEW c, NEW t, Telling(c, t)
  PROVE  IsCheckout(c) /\ c.repo = Repo[t]
<1>1. PICK u \in Remote : c = Head(u) /\ Repo[u] = Repo[t]  BY DEF Telling
<1> QED  BY <1>1, HeadType DEF Remote

\* The step of a cleanup.
LEMMA CleanupClonesTell ==
  ASSUME TypeInv, OrphansListed, ClonesTell, faults' = 0,
         \/ \E n, m \in Names : BeginRename(n, m)
         \/ \E n \in Names : DeleteOrphan(n)
         \/ DeleteVectors
         \/ \E b \in Batches : RenameGet(b) \/ RenameGetNothing(b)
         \/ RenameDelete \/ RenameAdd \/ RenameRows \/ MoveClone
         \/ Sweep
  PROVE  ClonesTell'
<1> USE DEF Goto, stores, renaming, locals
<1>0. NoFault /\ faults = 0 /\ config' = config
  <2>1. NoFault \/ Fault("dense")
    BY DEF BeginRename, DeleteOrphan, DeleteVectors, RenameGet, RenameGetNothing,
           RenameDelete, RenameAdd, RenameRows, MoveClone, Sweep
  <2> QED  BY <2>1, NoFaultYet
<1>t. /\ rows \in [Names -> Targets \cup {None}]
      /\ clone \in [Names -> Checkouts \cup {None, Broken}]
      /\ orphans \subseteq Names /\ Configured \subseteq Names
  BY DEF TypeInv, TypeOK, Configured
<1>u. todo' = todo /\ changed' = changed /\ changed = {} /\ todo = Configured
  BY DEF TypeInv, Phases, InCleanup, Renaming, BeginRename, DeleteOrphan,
         DeleteVectors, RenameGet, RenameGetNothing, RenameDelete, RenameAdd,
         RenameRows, MoveClone, Sweep
<1>v. pc' # "idle" /\ pc # "idle"
  BY DEF BeginRename, DeleteOrphan, DeleteVectors, RenameGet, RenameGetNothing,
         RenameDelete, RenameAdd, RenameRows, MoveClone, Sweep
<1> DEFINE Rows(n) == rows[n] \notin Local \cup {None} => Ours(n)
           Copies == \A n \in Names : clone[n] = None \/ \E t \in Remote : clone[n] = Head(t)
           Same == IsCheckout(clone[old]) /\ Repo[config[new]] = clone[old].repo
<1>a. Copies /\ (\A n \in Names : Rows(n))
      /\ (pc \in {"get", "delete", "add"} => Same)
  BY <1>0 DEF ClonesTell
<1>b. ASSUME Copies', \A n \in Names : Rows(n)',
             pc' \in {"get", "delete", "add"} => Same'
      PROVE  ClonesTell'
  BY <1>b, <1>u DEF ClonesTell
<1>c. ASSUME NEW n \in Names, rows'[n] = rows[n], clone'[n] = clone[n] PROVE Rows(n)'
  BY <1>c, <1>a, <1>0, <1>u, <1>v DEF Ours
<1>1. ASSUME NEW n \in Names, NEW m \in Names, BeginRename(n, m) PROVE ClonesTell'
  <2>1. rows' = rows /\ clone' = clone /\ old' = n /\ new' = m
        /\ IsCheckout(clone[n]) /\ Repo[config[m]] = clone[n].repo
    BY <1>1 DEF BeginRename, SameUrl
  <2> QED  BY <2>1, <1>0, <1>a, <1>b, <1>c
<1>2. ASSUME NEW n \in Names, DeleteOrphan(n) PROVE ClonesTell'
  <2>1. rows' = [rows EXCEPT ![n] = None] /\ clone' = clone /\ pc' = "deleteVectors"
    BY <1>2 DEF DeleteOrphan
  <2>2. \A m \in Names : Rows(m)'
    <3>1. TAKE m \in Names
    <3>2. CASE m = n  BY <3>2, <2>1, <1>t
    <3>3. CASE m # n  BY <3>3, <2>1, <1>c, <1>t
    <3> QED  BY <3>2, <3>3
  <2> QED  BY <2>1, <2>2, <1>a, <1>b
<1>3. CASE DeleteVectors
  <2>1. rows' = rows /\ clone' = clone /\ pc' = "cleanup"  BY <1>3 DEF DeleteVectors
  <2> QED  BY <2>1, <1>a, <1>b, <1>c
<1>4. CASE RenameDelete \/ RenameAdd
           \/ \E b \in Batches : RenameGet(b) \/ RenameGetNothing(b)
  <2>1. rows' = rows /\ clone' = clone /\ old' = old /\ new' = new
        /\ pc \in {"get", "delete", "add"}
    BY <1>4 DEF RenameDelete, RenameAdd, RenameGet, RenameGetNothing
  <2> QED  BY <2>1, <1>0, <1>a, <1>b, <1>c
<1>5. CASE RenameRows
  <2>1. /\ pc = "get" /\ pc' = "moveClone" /\ clone' = clone
        /\ rows' = [rows EXCEPT ![new] = rows[old], ![old] = None]
    BY <1>5 DEF RenameRows
  <2>2. /\ old \in orphans /\ old \in Names /\ old \notin todo
        /\ new \in todo /\ new \in Names /\ new # old
    BY <2>1, <1>t, <1>u DEF TypeInv, Phases, Renaming
  <2>3. \A n \in Names : Rows(n)'
    <3>1. TAKE n \in Names
    <3>2. CASE n \notin {old, new}  BY <3>2, <2>1, <1>t, <1>c
    <3>3. CASE n = old
      <4>1. rows'[n] = None  BY <3>3, <2>1, <2>2, <1>t
      <4> QED  BY <4>1
    <3>4. CASE n = new
      <4>1. rows'[n] = rows[old] /\ n \in todo
        BY <3>4, <2>1, <2>2, <1>t
      <4>2. ASSUME rows[old] \notin Local \cup {None}
            PROVE  Repo[config[n]] = Repo[rows[old]]
        <5>1. Telling(clone[old], rows[old])
          BY <4>2, <2>2, <1>a, <1>u DEF Ours
        <5> QED  BY <5>1, <2>1, <3>4, <1>a, TellingCheckout
      <4> QED  BY <4>1, <4>2, <1>u, <1>0, <1>v DEF Ours
    <3> QED  BY <3>2, <3>3, <3>4
  <2> QED  BY <2>1, <2>3, <1>a, <1>b
<1>6. CASE MoveClone
  <2>1. /\ pc = "moveClone" /\ pc' = "cleanup" /\ rows' = rows
        /\ clone' = IF clone[new] = None
                    THEN [clone EXCEPT ![new] = clone[old], ![old] = None]
                    ELSE clone
    BY <1>6 DEF MoveClone
  <2>2. /\ old \in Names /\ new \in Names /\ rows[old] = None
    BY <2>1, <1>t DEF TypeInv, Phases, Renaming, OrphansListed
  <2>3. CASE clone' = clone  BY <2>1, <2>3, <1>a, <1>b, <1>c
  <2>4. CASE clone[new] = None
    <3>1. \A n \in Names : Rows(n)'
      <4>1. TAKE n \in Names
      <4>2. CASE n \notin {old, new}  BY <4>2, <2>1, <1>t, <1>c
      <4>3. CASE n = old  BY <4>3, <2>1, <2>2
      <4>4. CASE n = new
        <5>1. ~Telling(clone[n], rows[n])
          BY <4>4, <2>4, TellingCheckout DEF IsCheckout
        <5>2. rows[n] \notin Local \cup {None} =>
                 n \in todo /\ Repo[config[n]] = Repo[rows[n]]
          BY <5>1, <1>a, <1>u DEF Ours
        <5> QED  BY <5>2, <2>1, <1>u, <1>0, <1>v DEF Ours
      <4> QED  BY <4>2, <4>3, <4>4
    <3>5. \A n \in Names : clone'[n] \in {clone[n], clone[old], None}
      BY <2>1, <2>2, <2>4, <1>t
    <3>6. Copies'
      <4>1. TAKE n \in Names
      <4> QED  BY <3>5, <2>2, <1>a
    <3> QED  BY <2>1, <3>1, <3>6, <1>b
  <2> QED  BY <2>1, <2>3, <2>4
<1>7. CASE Sweep
  <2>1. /\ pc' = "sync" /\ rows' = rows /\ orphans = {} /\ full
        /\ clone' = [n \in Names |-> IF n \in Configured THEN clone[n] ELSE None]
    BY <1>7 DEF Sweep, TypeInv, Phases, InCleanup
  <2>2. \A n \in Names \ Configured : rows[n] = None
    BY <2>1 DEF OrphansListed, WithRows
  <2>3. \A n \in Names : Rows(n)'
    <3>1. TAKE n \in Names
    <3>2. CASE n \in Configured  BY <3>2, <2>1, <1>c
    <3>3. CASE n \notin Configured  BY <3>3, <2>1, <2>2
    <3> QED  BY <3>2, <3>3
  <2> QED  BY <2>1, <2>3, <1>a, <1>b
<1> QED  BY <1>1, <1>2, <1>3, <1>4, <1>5, <1>6, <1>7

\* The steps of the other phases.  An unchanged HEAD is of the same repository.
LEMMA SyncClonesTell ==
  ASSUME TypeInv, ClonesTell, faults' = 0,
         \A t, u \in Remote : Commit[t] = Commit[u] => Repo[t] = Repo[u],
         NEW n \in Names,
         SyncLocal(n) \/ CloneNew(n) \/ Fetch(n) \/ SyncBroken(n) \/ SyncFail(n)
  PROVE  ClonesTell'
<1> USE DEF Goto, stores
<1>0. NoFault /\ faults = 0 /\ config' = config
  <2>1. NoFault \/ Fault("sync")
    BY DEF SyncLocal, CloneNew, Fetch, SyncBroken, SyncFail
  <2> QED  BY <2>1, NoFaultYet
<1>t. /\ clone \in [Names -> Checkouts \cup {None, Broken}]
      /\ n \in todo /\ n \notin changed /\ config[n] \in Targets
  BY DEF TypeInv, TypeOK, Phases, Configured, SyncLocal, CloneNew, Fetch,
         SyncBroken, SyncFail
<1>p. pc = "sync" /\ pc' \in {"sync", "walk"} /\ todo' = todo \ {n} /\ rows' = rows
  BY DEF SyncLocal, CloneNew, Fetch, SyncBroken, SyncFail, SyncDone
<1>a. /\ \A m \in Names : clone[m] = None \/ \E t \in Remote : clone[m] = Head(t)
      /\ \A m \in changed : config[m] \in Local \/ clone[m] = Head(config[m])
      /\ \A m \in Names : rows[m] \notin Local \cup {None} => Ours(m)
  BY <1>0 DEF ClonesTell
<1>c. ASSUME clone' \in [Names -> Checkouts \cup {None, Broken}],
             \A m \in Names \ {n} : clone'[m] = clone[m],
             clone'[n] \in {clone[n]} \cup {Head(t) : t \in Remote},
             \/ /\ changed' = changed \cup {n}
                /\ config[n] \in Local \/ clone'[n] = Head(config[n])
             \/ /\ changed' = changed
                /\ rows[n] \notin Local \cup {None} => Telling(clone'[n], rows[n])
      PROVE  ClonesTell'
  <2>1. \A m \in Names : clone'[m] = None \/ \E t \in Remote : clone'[m] = Head(t)
    BY <1>c, <1>a
  <2>2. \A m \in changed' : config[m] \in Local \/ clone'[m] = Head(config[m])
    BY <1>c, <1>a, <1>t DEF TypeInv, TypeOK
  <2>3. ASSUME NEW m \in Names, rows'[m] \notin Local \cup {None} PROVE Ours(m)'
    BY <2>3, <1>c, <1>a, <1>p, <1>0 DEF Ours
  <2> QED  BY <2>1, <2>2, <2>3, <1>0, <1>p DEF ClonesTell
<1>1. CASE SyncLocal(n)
  BY <1>1, <1>c, <1>t DEF SyncLocal, SyncDone
<1>2. CASE CloneNew(n)
  <2>1. config[n] \in Remote  BY <1>2, <1>t DEF CloneNew, Remote
  <2>2. Head(config[n]) \in Checkouts  BY <1>t, HeadType
  <2> QED  BY <1>2, <2>1, <2>2, <1>c, <1>t DEF CloneNew, SyncDone
<1>3. CASE Fetch(n)
  <2>1. config[n] \in Remote  BY <1>3, <1>t DEF Fetch, Remote
  <2>2. Head(config[n]) \in Checkouts  BY <1>t, HeadType
  <2>3. /\ clone' = [clone EXCEPT ![n] = Head(config[n])]
        /\ changed' = IF clone[n].commit # Commit[config[n]]
                      THEN changed \cup {n} ELSE changed
        /\ IsCheckout(clone[n])
    BY <1>3 DEF Fetch, SyncDone
  <2>4. clone'[n] = Head(config[n])  BY <2>3, <1>t
  <2>5. ASSUME clone[n].commit = Commit[config[n]], rows[n] \notin Local \cup {None}
        PROVE  Telling(clone'[n], rows[n])
    <3>1. Repo[config[n]] = Repo[rows[n]]
      <4>1. CASE Telling(clone[n], rows[n])
        <5>1. PICK u \in Remote : clone[n] = Head(u) /\ Repo[u] = Repo[rows[n]]
          BY <4>1 DEF Telling
        <5>2. Commit[u] = Commit[config[n]]
          BY <5>1, <2>5, HeadType DEF Remote
        <5> QED  BY <5>1, <5>2, <2>1
      <4> QED  BY <4>1, <2>5, <1>a, <1>t DEF Ours
    <3> QED  BY <3>1, <2>1, <2>4 DEF Telling
  <2> QED  BY <2>1, <2>2, <2>3, <2>4, <2>5, <1>c, <1>t
<1>4. CASE SyncBroken(n)
  <2>1. clone[n] = Broken  BY <1>4 DEF SyncBroken
  <2>2. PICK t \in Remote : clone[n] = Head(t)
    BY <2>1, <1>a, CloneAssumption
  <2> QED  BY <2>1, <2>2, HeadType DEF Remote, IsCheckout
<1>5. CASE SyncFail(n)
  <2>1. faults' = faults + 1  BY <1>5 DEF SyncFail, Fault
  <2> QED  BY <2>1, <1>0
<1> QED  BY <1>1, <1>2, <1>3, <1>4, <1>5

LEMMA OtherClonesTell ==
  ASSUME TypeInv, ClonesTell, faults' = 0,
         \/ Crash \/ CleanupRaises
         \/ \E n \in Names : Walk(n)
         \/ Finish
         \/ StartFull \/ \E n \in Names : StartOne(n)
         \/ \E n \in Names, t \in Targets \cup {None} : Reconfigure(n, t)
         \/ UNCHANGED vars
  PROVE  ClonesTell'
<1> USE DEF Goto, stores, budget
<1>0. faults = 0 /\ ~Crash /\ ~CleanupRaises
  <2>1. faults \in Nat  BY DEF TypeInv, TypeOK
  <2>2. \A kind : Fault(kind) => faults' # 0
    BY <2>1 DEF Fault
  <2> QED
    BY <2>2 DEF Crash, CleanupRaises, Walk, Finish, StartFull, StartOne,
       Reconfigure, NoFault, vars
<1>t. /\ rows \in [Names -> Targets \cup {None}]
      /\ \A n \in Configured : config[n] \in Targets
      /\ changed \subseteq Configured
  BY DEF TypeInv, TypeOK, Configured, Phases
<1>a. /\ \A m \in Names : clone[m] = None \/ \E t \in Remote : clone[m] = Head(t)
      /\ \A m \in changed : config[m] \in Local \/ clone[m] = Head(config[m])
      /\ \A m \in Names : rows[m] \notin Local \cup {None} => Ours(m)
  BY <1>0 DEF ClonesTell
<1>1. ASSUME NEW n \in Names, Walk(n) PROVE ClonesTell'
  <2>1. /\ pc = "walk" /\ pc' = "walk" /\ n \in changed /\ changed' = changed \ {n}
        /\ rows' = [rows EXCEPT ![n] = Content(config[n])]
        /\ clone' = clone /\ todo' = todo
    BY <1>1 DEF Walk
  <2>2. config' = config
    <3>1. NoFault \/ Fault("dense")  BY <1>1 DEF Walk
    <3> QED  BY <3>1, NoFaultYet
  <2>3. ASSUME NEW m \in Names, rows'[m] \notin Local \cup {None} PROVE Ours(m)'
    <3>1. CASE m = n
      <4>1. rows'[m] = config[n] /\ config[n] \in Remote
        BY <3>1, <2>1, <2>3, <1>t DEF Content, Remote
      <4>2. clone'[m] = Head(config[n])
        BY <4>1, <3>1, <2>1, <1>a DEF Remote
      <4> QED  BY <4>1, <4>2 DEF Ours, Telling
    <3>2. CASE m # n
      BY <3>2, <2>1, <2>2, <2>3, <1>a, <1>t DEF Ours
    <3> QED  BY <3>1, <3>2
  <2> QED  BY <2>1, <2>2, <2>3, <1>a DEF ClonesTell
<1>2. ASSUME rows' = rows, clone' = clone, todo = {} \/ pc = "idle", changed = {},
             changed' = {}, pc' \notin {"get", "delete", "add"}
      PROVE  ClonesTell'
  BY <1>2, <1>a DEF ClonesTell, Ours
<1>3. CASE Finish
  <2>1. todo = {} /\ changed = {}
    BY <1>3 DEF Finish, TypeInv, Phases
  <2> QED  BY <2>1, <1>2, <1>3 DEF Finish, Forget
<1>4. pc = "idle" => changed = {}  BY DEF TypeInv, Phases
<1>5. StartFull => ClonesTell'  BY <1>2, <1>4 DEF StartFull
<1>6. ASSUME NEW n \in Names, StartOne(n) PROVE ClonesTell'
  BY <1>2, <1>4, <1>6 DEF StartOne
<1>7. ASSUME NEW n \in Names, NEW t \in Targets \cup {None}, Reconfigure(n, t)
      PROVE  ClonesTell'
  BY <1>2, <1>4, <1>7 DEF Reconfigure, locals
<1>8. CASE UNCHANGED vars
  BY <1>8, <1>a, <1>0 DEF vars, ClonesTell, Ours, locals, renaming
<1> QED  BY <1>0, <1>1, <1>3, <1>5, <1>6, <1>7, <1>8

(* Documents are deleted only if no configured source has taken over their *)
(* repository, or several have, as long as nothing failed: _detect_rename, *)
(* which reads the clone and not the documents, does not miss a rename     *)
(* after any number of edits, renames, swaps and changes of URL.           *)
(* A commit hash is of one repository.                                     *)
THEOREM NotDeleted ==
  ASSUME \A t, u \in Targets \ Local : Commit[t] = Commit[u] => Repo[t] = Repo[u]
  PROVE  Spec => RenamedNotDeleted
<1> DEFINE I == TypeInv /\ OrphansListed /\ ClonesTell
           Moves == \A n, m \in Names :
              /\ Deleted(n) /\ NewName(n, m)
              /\ rows[n] \notin Local /\ faults = 0
              => \E k \in Configured \ {m} : Repo[config[k]] = Repo[rows[n]]
<1>1. Init => ClonesTell
  BY DEF Init, ClonesTell
<1>2. TypeInv /\ OrphansListed /\ ClonesTell /\ [Next]_vars => ClonesTell'
  <2>1. SUFFICES ASSUME TypeInv, OrphansListed, ClonesTell, [Next]_vars, faults' = 0
                 PROVE  ClonesTell'
    BY DEF ClonesTell
  <2> QED
    BY <2>1, CleanupClonesTell, SyncClonesTell, OtherClonesTell
       DEF Next, CycleStep, Remote
<1>3. ASSUME I, [Next]_vars PROVE Moves
  <2>1. SUFFICES ASSUME NEW n \in Names, NEW m \in Names,
                        Deleted(n), NewName(n, m), rows[n] \notin Local, faults = 0
                 PROVE  \E k \in Configured \ {m} : Repo[config[k]] = Repo[rows[n]]
    OBVIOUS
  <2>2. n \in orphans /\ (SameUrl(n) = {} \/ \E k \in SameUrl(n) : rows[k] # None)
    <3>1. pc = "cleanup" /\ pc' = "deleteVectors" /\ old' = n  BY <2>1 DEF Deleted
    <3>2. PICK k \in Names : DeleteOrphan(k)
      BY <3>1, <1>3 DEF Next, CycleStep, vars, Goto, Crash, Forget, CleanupRaises,
         Finish, Reconfigure, StartFull, StartOne, BeginRename, DeleteVectors,
         RenameGet, RenameGetNothing, RenameDelete, RenameAdd, RenameRows,
         MoveClone, Sweep, SyncLocal, CloneNew, Fetch, SyncBroken, SyncFail, Walk
    <3>3. k = n  BY <3>1, <3>2 DEF DeleteOrphan
    <3> QED  BY <3>2, <3>3 DEF DeleteOrphan
  <2>3. rows[n] # None /\ n \notin todo /\ n \notin changed
    BY <2>1, <2>2, <1>3 DEF Deleted, OrphansListed, WithRows, TypeInv, Phases
  <2>4. Telling(clone[n], rows[n])
    BY <2>1, <2>3, <1>3 DEF ClonesTell, Ours
  <2>5. SameUrl(n) = {k \in Configured : Repo[config[k]] = Repo[rows[n]]}
    BY <2>4, TellingCheckout DEF SameUrl
  <2>6. m \in SameUrl(n) /\ rows[m] = None
    BY <2>1, <2>5 DEF NewName
  <2> QED  BY <2>2, <2>5, <2>6
<1>4. I /\ [Next]_vars => [Moves]_vars  BY <1>3
<1> QED
  BY <1>1, <1>2, <1>4, TypeInvHolds, OrphansListedHolds, PTL
     DEF Spec, RenamedNotDeleted

-----------------------------------------------------------------------------
(***************************************************************************)
(* Which commit's documents each source has.                               *)
(***************************************************************************)
Ordinary ==
    /\ FaultKinds \subseteq {"sync"}
    /\ Local \cap Empty = {}
    /\ \A t, u \in Remote : Commit[t] = Commit[u] => t = u

\* A cleanup leaves the commits in agreement.
LEMMA CleanupCommitsAgree ==
  ASSUME TypeInv, OrphansListed, CommitsAgree, Ordinary,
         \/ \E n, m \in Names : BeginRename(n, m)
         \/ \E n \in Names : DeleteOrphan(n)
         \/ DeleteVectors
         \/ \E b \in Batches : RenameGet(b) \/ RenameGetNothing(b)
         \/ RenameDelete \/ RenameAdd \/ RenameRows \/ MoveClone
         \/ Sweep
  PROVE  CommitsAgree'
<1> USE DEF Goto, stores, renaming, locals
<1>0. config' = config
  <2>1. NoFault \/ Fault("dense")
    BY DEF BeginRename, DeleteOrphan, DeleteVectors, RenameGet, RenameGetNothing,
           RenameDelete, RenameAdd, RenameRows, MoveClone, Sweep
  <2> QED  BY <2>1, FaultType DEF TypeInv
<1>t. /\ rows \in [Names -> Targets \cup {None}]
      /\ clone \in [Names -> Checkouts \cup {None, Broken}]
      /\ orphans \subseteq Names /\ Configured \subseteq Names
      /\ None \notin Targets /\ Local \subseteq Targets /\ None # Broken
  BY TargetAssumption, CloneAssumption DEF TypeInv, TypeOK, Configured
<1>u. /\ todo' = todo /\ changed' = changed /\ changed = {} /\ todo = Configured
      /\ Configured' = Configured /\ InCleanup
  BY <1>0 DEF TypeInv, Phases, InCleanup, Renaming, BeginRename, DeleteOrphan,
         DeleteVectors, RenameGet, RenameGetNothing, RenameDelete, RenameAdd,
         RenameRows, MoveClone, Sweep, Configured
<1>a. /\ \A n \in Names : clone[n] # Broken
      /\ \A n \in Names : (n \notin Configured /\ rows[n] = None) \/ AtHead(n)
  BY <1>u DEF CommitsAgree
<1>b. ASSUME \A n \in Names : clone'[n] # Broken,
             \A n \in Names : \/ InCleanup' /\ n \notin Configured /\ rows'[n] = None
                              \/ AtHead(n)'
      PROVE  CommitsAgree'
  BY <1>b, <1>u DEF CommitsAgree
<1>c. ASSUME InCleanup', pc # "moveClone", pc' # "moveClone", clone' = clone,
             \A n \in Names :
                rows'[n] = rows[n] \/ (n \notin Configured /\ rows'[n] = None)
      PROVE  CommitsAgree'
  <2>1. ASSUME NEW n \in Names, rows'[n] = rows[n], AtHead(n) PROVE AtHead(n)'
    BY <2>1, <1>c DEF AtHead
  <2> QED  BY <2>1, <1>a, <1>b, <1>c
<1>1. CASE \E n, m \in Names : BeginRename(n, m)
  BY <1>1, <1>c DEF BeginRename, InCleanup, Renaming
<1>2. ASSUME NEW n \in Names, DeleteOrphan(n) PROVE CommitsAgree'
  <2>1. n \notin Configured  BY <1>2 DEF DeleteOrphan, TypeInv, Phases
  <2>2. /\ pc = "cleanup" /\ pc' = "deleteVectors" /\ clone' = clone
        /\ rows' = [rows EXCEPT ![n] = None]
    BY <1>2 DEF DeleteOrphan
  <2> QED  BY <2>1, <2>2, <1>c, <1>t DEF InCleanup
<1>3. CASE DeleteVectors
  BY <1>3, <1>c DEF DeleteVectors, InCleanup
<1>4. CASE RenameDelete \/ RenameAdd
           \/ \E b \in Batches : RenameGet(b) \/ RenameGetNothing(b)
  BY <1>4, <1>c DEF RenameDelete, RenameAdd, RenameGet, RenameGetNothing,
                    InCleanup, Renaming
<1>5. CASE RenameRows
  <2>1. /\ pc = "get" /\ pc' = "moveClone" /\ clone' = clone
        /\ rows' = [rows EXCEPT ![new] = rows[old], ![old] = None]
        /\ old' = old /\ new' = new
    BY <1>5 DEF RenameRows
  <2>2. /\ old \in Names /\ old \notin Configured /\ rows[old] # None
        /\ new \in Names /\ new \in Configured /\ rows[new] = None
    BY <2>1, <1>t DEF TypeInv, Phases, Renaming, OrphansListed
  <2>3. Agrees(clone[old], rows[old]) /\ Agrees(clone[new], None)
    BY <2>1, <2>2, <1>a DEF AtHead
  <2>4. ASSUME NEW n \in Names PROVE
               \/ InCleanup' /\ n \notin Configured /\ rows'[n] = None
               \/ AtHead(n)'
    <3>1. CASE n = old  BY <3>1, <2>1, <2>2, <1>t DEF InCleanup, Renaming
    <3>2. CASE n = new /\ clone[new] = None
      BY <3>2, <2>1, <2>2, <2>3, <1>t DEF AtHead
    <3>3. CASE n = new /\ clone[new] # None
      <4>1. Agrees(clone[new], rows[old])
        BY <2>3, <1>t DEF Agrees, Remote
      <4> QED  BY <4>1, <3>3, <2>1, <2>2, <1>t DEF AtHead
    <3>4. CASE n \notin {old, new}
      <4>1. rows'[n] = rows[n]  BY <3>4, <2>1, <1>t
      <4> QED  BY <4>1, <3>4, <2>1, <1>a DEF AtHead, InCleanup, Renaming
    <3> QED  BY <3>1, <3>2, <3>3, <3>4
  <2> QED  BY <2>1, <2>4, <1>a, <1>b
<1>6. CASE MoveClone
  <2>1. /\ pc = "moveClone" /\ pc' = "cleanup" /\ rows' = rows
        /\ clone' = IF clone[new] = None
                    THEN [clone EXCEPT ![new] = clone[old], ![old] = None]
                    ELSE clone
    BY <1>6 DEF MoveClone
  <2>2. /\ old \in Names /\ old \notin Configured /\ new \in Names /\ new \in Configured
    BY <2>1, <1>t DEF TypeInv, Phases, Renaming
  <2>3. ASSUME NEW n \in Names PROVE
               /\ clone'[n] # Broken
               /\ \/ InCleanup' /\ n \notin Configured /\ rows'[n] = None
                  \/ AtHead(n)'
    <3>1. CASE clone' = clone /\ ~(n = new /\ clone[new] = None)
      BY <3>1, <2>1, <1>a DEF AtHead, InCleanup
    <3>2. CASE clone[new] = None /\ n = new
      <4>1. clone'[n] = clone[old] /\ Agrees(clone[old], rows[n])
        BY <3>2, <2>1, <2>2, <1>t, <1>a DEF AtHead
      <4> QED  BY <4>1, <2>1, <2>2, <1>a DEF AtHead
    <3>3. CASE clone[new] = None /\ n = old
      <4>1. clone'[n] = None  BY <3>3, <2>1, <2>2, <1>t
      <4> QED  BY <4>1, <2>1, <1>t DEF AtHead, Agrees, IsCheckout
    <3>4. CASE clone[new] = None /\ n \notin {old, new}
      <4>1. clone'[n] = clone[n]  BY <3>4, <2>1, <1>t
      <4> QED  BY <4>1, <3>4, <2>1, <1>a DEF AtHead, InCleanup
    <3> QED  BY <3>1, <3>2, <3>3, <3>4, <2>1
  <2> QED  BY <2>3, <1>b
<1>7. CASE Sweep
  <2>1. /\ pc = "cleanup" /\ pc' = "sync" /\ rows' = rows
        /\ clone' = [n \in Names |-> IF n \in Configured THEN clone[n] ELSE None]
    BY <1>7 DEF Sweep
  <2>2. ASSUME NEW n \in Names PROVE clone'[n] # Broken /\ AtHead(n)'
    <3>1. CASE n \in Configured  BY <3>1, <2>1, <1>a DEF AtHead
    <3>2. CASE n \notin Configured
      BY <3>2, <2>1, <1>t DEF AtHead, Agrees, IsCheckout
    <3> QED  BY <3>1, <3>2
  <2> QED  BY <2>2, <1>b
<1> QED  BY <1>1, <1>2, <1>3, <1>4, <1>5, <1>6, <1>7

\* An unchanged HEAD means that the documents are there, or overlooked.
LEMMA SyncCommitsAgree ==
  ASSUME TypeInv, CommitsAgree, Ordinary, NEW n \in Names,
         SyncLocal(n) \/ CloneNew(n) \/ Fetch(n) \/ SyncBroken(n) \/ SyncFail(n)
  PROVE  CommitsAgree'
<1> USE DEF Goto, stores
<1>0. config' = config
  <2>1. NoFault \/ Fault("sync")
    BY DEF SyncLocal, CloneNew, Fetch, SyncBroken, SyncFail
  <2> QED  BY <2>1, FaultType DEF TypeInv
<1>t. /\ clone \in [Names -> Checkouts \cup {None, Broken}]
      /\ n \in todo /\ n \notin changed /\ config[n] \in Targets
      /\ n \in Configured /\ todo \subseteq Names /\ changed \subseteq Names
  BY DEF TypeInv, TypeOK, Phases, Configured, SyncLocal, CloneNew, Fetch,
         SyncBroken, SyncFail
<1>p. /\ pc = "sync" /\ pc' \in {"sync", "walk"} /\ todo' = todo \ {n}
      /\ rows' = rows /\ full' = full /\ Configured' = Configured
      /\ ~InCleanup
  BY <1>0 DEF SyncLocal, CloneNew, Fetch, SyncBroken, SyncFail, SyncDone, Configured,
     InCleanup, Renaming
<1>a. /\ \A m \in Names : clone[m] # Broken
      /\ \A m \in changed : config[m] \in Local \/ clone[m] = Head(config[m])
      /\ \A m \in Names : m \in changed \/ Agrees(clone[m], rows[m])
      /\ full /\ clean => \A m \in Configured \ (todo \cup changed) :
                             rows[m] = Content(config[m]) \/ Overlooked(m)
  BY <1>p DEF CommitsAgree, AtHead
<1>c. ASSUME \A m \in Names \ {n} : clone'[m] = clone[m],
             clone'[n] # Broken,
             \/ /\ changed' = changed \cup {n} /\ clean' = clean
                /\ config[n] \in Local \/ clone'[n] = Head(config[n])
             \/ /\ changed' = changed
                /\ Agrees(clone'[n], rows[n])
                /\ \/ clean' = FALSE
                   \/ clean' = clean
                      /\ (rows[n] = Content(config[n]) \/ Overlooked(n))
      PROVE  CommitsAgree'
  <2>1. \A m \in changed' : config[m] \in Local \/ clone'[m] = Head(config[m])
    BY <1>c, <1>a, <1>t
  <2>2. \A m \in Names : m \in changed' \/ Agrees(clone'[m], rows[m])
    BY <1>c, <1>a
  <2>3. \A m \in Names : m \in changed' \/ AtHead(m)'
    BY <2>2, <1>p DEF AtHead
  <2>4. ASSUME full, clean', NEW m \in Configured \ (todo' \cup changed')
        PROVE  rows[m] = Content(config[m]) \/ Overlooked(m)
    BY <2>4, <1>c, <1>a, <1>p
  <2>5. \A m \in Names : Overlooked(m) => Overlooked(m)'
    BY <1>p, <1>0 DEF Overlooked
  <2>6. Configured \subseteq Names  BY DEF Configured
  <2> QED
    BY <2>1, <2>3, <2>4, <2>5, <2>6, <1>c, <1>a, <1>p, <1>0 DEF CommitsAgree
<1>1. CASE SyncLocal(n)
  BY <1>1, <1>a, <1>c, <1>t DEF SyncLocal, SyncDone, NoFault
<1>2. ASSUME config[n] \in Remote, clone' = [clone EXCEPT ![n] = Head(config[n])]
      PROVE  clone'[n] = Head(config[n]) /\ clone'[n] # Broken
  BY <1>2, <1>t, HeadType DEF IsCheckout
<1>3. CASE CloneNew(n)
  <2>1. config[n] \in Remote  BY <1>3, <1>t DEF CloneNew, Remote
  <2> QED  BY <1>2, <1>3, <2>1, <1>c, <1>t DEF CloneNew, SyncDone, NoFault
<1>4. CASE Fetch(n)
  <2>1. config[n] \in Remote  BY <1>4, <1>t DEF Fetch, Remote
  <2>2. /\ clone' = [clone EXCEPT ![n] = Head(config[n])]
        /\ changed' = IF clone[n].commit # Commit[config[n]]
                      THEN changed \cup {n} ELSE changed
        /\ IsCheckout(clone[n]) /\ clean' = clean
    BY <1>4 DEF Fetch, SyncDone, NoFault
  <2>3. clone'[n] = Head(config[n]) /\ clone'[n] # Broken
    BY <1>2, <2>1, <2>2
  <2>4. CASE clone[n].commit = Commit[config[n]]
    <3>1. Agrees(clone[n], rows[n])  BY <1>a, <1>t
    <3>2. clone'[n].commit = clone[n].commit
      BY <2>3, <2>4, <1>t, HeadType
    <3>3. Agrees(clone'[n], rows[n])
      BY <3>1, <3>2, <2>2 DEF Agrees
    <3>4. \/ rows[n] = config[n] \/ rows[n] \in Local \/ config[n] \in Empty
      BY <3>1, <2>1, <2>2, <2>4 DEF Agrees
    <3>5. rows[n] = Content(config[n]) \/ Overlooked(n)
      BY <3>4, <2>1 DEF Content, Overlooked, Remote
    <3> QED  BY <2>2, <2>3, <2>4, <3>3, <3>5, <1>c, <1>t
  <2>5. CASE clone[n].commit # Commit[config[n]]
    BY <2>2, <2>3, <2>5, <1>c, <1>t
  <2> QED  BY <2>4, <2>5
<1>5. CASE SyncBroken(n)
  BY <1>5, <1>a DEF SyncBroken
<1>6. CASE SyncFail(n)
  <2>1. /\ changed' = changed /\ clean' = FALSE
        /\ clone' = IF IsCheckout(clone[n])
                    THEN [clone EXCEPT ![n].repo = Repo[config[n]]] ELSE clone
    BY <1>6 DEF SyncFail, SyncDone, Fault
  <2>2. Agrees(clone[n], rows[n])  BY <1>a, <1>t
  <2>3. CASE ~IsCheckout(clone[n])
    BY <2>1, <2>2, <2>3, <1>a, <1>c, <1>t
  <2>4. CASE IsCheckout(clone[n])
    <3>1. clone[n] \in Checkouts  BY <2>4, <1>t DEF IsCheckout
    <3>2. clone'[n] = [clone[n] EXCEPT !.repo = Repo[config[n]]]
      BY <2>1, <2>4, <1>t
    <3>3. clone'[n] \in Checkouts /\ clone'[n].commit = clone[n].commit
      BY <3>1, <3>2, <1>t DEF Checkouts
    <3>4. clone'[n] # Broken  BY <3>3, CloneAssumption
    <3>5. Agrees(clone'[n], rows[n])
      BY <3>3, <2>2, <2>4 DEF Agrees
    <3>6. \A m \in Names \ {n} : clone'[m] = clone[m]
      BY <2>1, <1>t
    <3> QED  BY <2>1, <3>4, <3>5, <3>6, <1>c
  <2> QED  BY <2>3, <2>4
<1> QED  BY <1>1, <1>3, <1>4, <1>5, <1>6

LEMMA OtherCommitsAgree ==
  ASSUME TypeInv, CommitsAgree, Ordinary,
         \/ Crash \/ CleanupRaises
         \/ \E n \in Names : Walk(n)
         \/ Finish
         \/ StartFull \/ \E n \in Names : StartOne(n)
         \/ \E n \in Names, t \in Targets \cup {None} : Reconfigure(n, t)
         \/ UNCHANGED vars
  PROVE  CommitsAgree'
<1> USE DEF Goto, stores, budget
<1>f. ~Fault("dense") /\ ~Crash /\ ~CleanupRaises
  BY DEF Ordinary, Fault, Crash, CleanupRaises
<1>t. /\ rows \in [Names -> Targets \cup {None}]
      /\ \A n \in Configured : config[n] \in Targets
      /\ changed \subseteq Configured /\ Configured \subseteq Names
      /\ Local \subseteq Targets
  BY TargetAssumption DEF TypeInv, TypeOK, Configured, Phases
<1>a. /\ \A m \in Names : clone[m] # Broken
      /\ \A m \in changed : config[m] \in Local \/ clone[m] = Head(config[m])
      /\ ~InCleanup => \A m \in Names : m \in changed \/ Agrees(clone[m], rows[m])
  BY DEF CommitsAgree, AtHead, InCleanup, Renaming
<1>1. ASSUME NEW n \in Names, Walk(n) PROVE CommitsAgree'
  <2>1. /\ pc = "walk" /\ pc' = "walk" /\ n \in changed /\ changed' = changed \ {n}
        /\ rows' = [rows EXCEPT ![n] = Content(config[n])]
        /\ clone' = clone /\ todo' = todo /\ full' = full
    BY <1>1 DEF Walk
  <2>2. config' = config /\ clean' = clean
    BY <1>1, <1>f DEF Walk, NoFault
  <2>3. ~InCleanup  BY <2>1 DEF InCleanup, Renaming
  <2>4. rows'[n] = Content(config[n]) /\ \A m \in Names \ {n} : rows'[m] = rows[m]
    BY <2>1, <1>t
  <2>5. Agrees(clone[n], rows'[n])
    <3>1. CASE config[n] \in Local
      BY <3>1, <2>4 DEF Agrees, Ordinary, Content
    <3>2. CASE config[n] \notin Local
      <4>1. clone[n] = Head(config[n]) /\ config[n] \in Remote
        BY <3>2, <2>1, <1>a, <1>t DEF Remote
      <4>2. clone[n].commit = Commit[config[n]]
        BY <4>1, HeadType DEF Remote
      <4>3. \A t \in Remote : clone[n].commit = Commit[t] => t = config[n]
        BY <4>1, <4>2 DEF Ordinary
      <4> QED  BY <4>3, <2>4 DEF Agrees, Content
    <3> QED  BY <3>1, <3>2
  <2>6. \A m \in Names : m \in changed' \/ AtHead(m)'
    BY <2>1, <2>3, <2>4, <2>5, <1>a DEF AtHead
  <2>7. ASSUME full, clean, NEW m \in Configured \ (todo \cup changed')
        PROVE  rows'[m] = Content(config[m]) \/ Overlooked(m)'
    <3>1. CASE m = n  BY <3>1, <2>4
    <3>2. CASE m # n
      <4>1. rows[m] = Content(config[m]) \/ Overlooked(m)
        BY <3>2, <2>1, <2>7 DEF CommitsAgree
      <4> QED  BY <4>1, <3>2, <2>2, <2>4, <1>t DEF Overlooked
    <3> QED  BY <3>1, <3>2
  <2>8. Configured' = Configured  BY <2>2 DEF Configured
  <2> QED  BY <2>1, <2>2, <2>6, <2>7, <2>8, <1>a DEF CommitsAgree
<1>2. ASSUME rows' = rows, clone' = clone, ~InCleanup, pc' # "moveClone",
             changed = {}, changed' = {},
             pc' \in {"sync", "walk"} /\ full' => todo' = Configured'
      PROVE  CommitsAgree'
  <2>1. \A m \in Names : AtHead(m)'  BY <1>2, <1>a DEF AtHead
  <2> QED  BY <2>1, <1>2, <1>a DEF CommitsAgree
<1>3. CASE Finish
  <2>1. ~InCleanup /\ changed = {}
    BY <1>3 DEF Finish, TypeInv, Phases, InCleanup, Renaming
  <2> QED  BY <2>1, <1>2, <1>3 DEF Finish, Forget
<1>4. pc = "idle" => changed = {} /\ ~InCleanup /\ ~full
  BY DEF TypeInv, Phases, InCleanup, Renaming
<1>5. CASE StartFull
  BY <1>2, <1>4, <1>5 DEF StartFull, Configured
<1>6. ASSUME NEW n \in Names, StartOne(n) PROVE CommitsAgree'
  BY <1>2, <1>4, <1>6 DEF StartOne
<1>7. ASSUME NEW n \in Names, NEW t \in Targets \cup {None}, Reconfigure(n, t)
      PROVE  CommitsAgree'
  BY <1>2, <1>4, <1>7 DEF Reconfigure, locals
<1>8. CASE UNCHANGED vars
  BY <1>8 DEF vars, CommitsAgree, AtHead, InCleanup, Renaming, Overlooked, Configured,
     locals, renaming
<1> QED  BY <1>f, <1>1, <1>3, <1>5, <1>6, <1>7, <1>8

(* After a full cycle without a fault each configured source has the       *)
(* documents of what it stands for now, or is one of the two kinds that    *)
(* are overlooked: whatever was edited, renamed, swapped or failed to be   *)
(* fetched before.  The commit a clone is at tells the target: no two      *)
(* remote targets are at one commit, and a local directory has files.      *)
THEOREM Synchronised ==
  ASSUME FaultKinds \subseteq {"sync"},
         Local \cap Empty = {},
         \A t, u \in Targets \ Local : Commit[t] = Commit[u] => t = u
  PROVE  Spec => []RowsAreConfigured
<1>o. Ordinary  BY DEF Ordinary, Remote
<1>1. Init => CommitsAgree
  BY CloneAssumption DEF Init, CommitsAgree, AtHead, Agrees, IsCheckout
<1>2. TypeInv /\ OrphansListed /\ CommitsAgree /\ [Next]_vars => CommitsAgree'
  BY <1>o, CleanupCommitsAgree, SyncCommitsAgree, OtherCommitsAgree
     DEF Next, CycleStep
<1>3. TypeInv /\ CommitsAgree => RowsAreConfigured
  BY DEF CommitsAgree, RowsAreConfigured, AtEnd, TypeInv, Phases
<1> QED
  BY <1>1, <1>2, <1>3, TypeInvHolds, OrphansListedHolds, PTL DEF Spec

=============================================================================
