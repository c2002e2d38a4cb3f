---------------------------- MODULE SingleFlight ----------------------------
(***************************************************************************)
(* What the ingestion supervisor promises its callers and the worker's     *)
(* stores: cycles run one at a time, no cycle runs twice, and (with        *)
(* fairness) every cycle that begins comes to an end.  The promise has an  *)
(* exception: a cycle may go astray, at its beginning or later, and one    *)
(* that has is neither waited for nor made to end.                         *)
(***************************************************************************)
CONSTANT Cycles

VARIABLES
    live,   \* the cycles in progress
    stray,  \* the cycles in progress that have gone astray
    over    \* the cycles that have ended

vars == <<live, stray, over>>

Init == live = {} /\ stray = {} /\ over = {}

Begin(w) ==
    /\ live = {}
    /\ w \notin stray \cup over
    /\ \/ live' = {w} /\ UNCHANGED stray
       \/ stray' = stray \cup {w} /\ UNCHANGED live
    /\ UNCHANGED over

GoAstray(w) ==
    /\ w \in live
    /\ live' = live \ {w}
    /\ stray' = stray \cup {w}
    /\ UNCHANGED over

End(w) ==
    /\ w \in live
    /\ live' = live \ {w}
    /\ over' = over \cup {w}
    /\ UNCHANGED stray

StrayEnds(w) ==
    /\ w \in stray
    /\ stray' = stray \ {w}
    /\ over' = over \cup {w}
    /\ UNCHANGED live

Next == \E w \in Cycles : Begin(w) \/ GoAstray(w) \/ End(w) \/ StrayEnds(w)

Spec == Init /\ [][Next]_vars

FairSpec == Spec /\ WF_vars(\E w \in Cycles : End(w))
=============================================================================
