-------------------------------- MODULE Index -------------------------------
(***************************************************************************)
(* What the ingestion worker promises of one source's documents, whatever  *)
(* fails: a cycle writes only what it has read, removes only what that     *)
(* does not call for, and when it ends without a failure the index is that *)
(* of what it has read.                                                    *)
(***************************************************************************)
EXTENDS Naturals

CONSTANTS
    Files, Versions, ChunksOf, MaxChunk,
    Prefix,     \* pairs of paths, the first a proper prefix of the second
    Absent

VARIABLES
    rows,       \* the index: the version each document was made from
    phase,      \* of the cycle: "idle", "sync" or "walk"
    forced,     \* is it to take nothing for unchanged
    read,       \* what it has read of each file
    clean       \* it has not failed in anything

vars == <<rows, phase, forced, read, clean>>

Cell == Versions \cup {Absent}
Ids  == Files \X (0..MaxChunk)
NoFiles == [f \in Files |-> Absent]

(* The version that what was read calls for under an id.                   *)
Wanted(id) ==
    LET v == read[id[1]] IN
    IF v # Absent /\ id[2] <= ChunksOf[v] THEN v ELSE Absent

(* An unforced cycle sees to the parents, and takes a file whose parent is *)
(* right for right; it also spares what shares the beginning of its path.  *)
SeenTo(id) == forced \/ id[2] = 0
Spared(f)  == ~forced /\ \E g \in Files : read[g] # Absent /\ <<g, f>> \in Prefix

Stored ==
    \A id \in Ids : SeenTo(id) /\ Wanted(id) # Absent => rows[id] = Wanted(id)
NothingElse ==
    \A id \in Ids : SeenTo(id) /\ Wanted(id) = Absent
                        => rows[id] = Absent \/ Spared(id[1])

Init ==
    /\ rows \in [Ids -> Cell]
    /\ phase = "idle" /\ forced = FALSE /\ read = NoFiles /\ clean = TRUE

Start(f) ==
    /\ phase = "idle" /\ phase' = "sync"
    /\ forced' = f /\ clean' = TRUE
    /\ UNCHANGED <<rows, read>>

Walk ==
    /\ phase = "sync" /\ phase' = "walk"
    /\ UNCHANGED <<rows, forced, read, clean>>

Read(f, v) ==
    /\ phase = "walk" /\ read[f] = Absent
    /\ read' = [read EXCEPT ![f] = v]
    /\ UNCHANGED <<rows, phase, forced, clean>>

Store ==
    /\ phase = "walk"
    /\ rows' \in [Ids -> Cell]
    /\ \A id \in Ids : rows'[id] # rows[id] => /\ Wanted(id) # Absent
                                               /\ rows'[id] = Wanted(id)
    /\ UNCHANGED <<phase, forced, read, clean>>

Remove(id) ==
    /\ phase = "walk" /\ Wanted(id) = Absent
    /\ clean => Stored
    /\ rows' = [rows EXCEPT ![id] = Absent]
    /\ UNCHANGED <<phase, forced, read, clean>>

Leave ==
    /\ phase' = "idle" /\ forced' = FALSE /\ read' = NoFiles
    /\ UNCHANGED rows

Unneeded == phase = "sync" /\ Leave /\ UNCHANGED clean
Finish   == phase = "walk" /\ (clean => Stored /\ NothingElse) /\ Leave /\ UNCHANGED clean
Fail     == clean' = FALSE /\ (Leave \/ UNCHANGED <<rows, phase, forced, read>>)

Next ==
    \/ \E f \in BOOLEAN : Start(f)
    \/ Walk \/ Store
    \/ \E f \in Files, v \in Versions : Read(f, v)
    \/ \E id \in Ids : Remove(id)
    \/ Unneeded \/ Finish \/ Fail

Spec == Init /\ [][Next]_vars
=============================================================================
