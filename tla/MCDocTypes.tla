----------------------------- MODULE MCDocTypes -----------------------------
(* DocTypes for TLC: a page and a journal entry; a file with rules for one *)
(* of the two names (mine), one with global rules (all), one that names a  *)
(* type outside its vocabulary (bad), and no file at all.                  *)
EXTENDS DocTypes, TLC

CONSTANTS page, entry, A, B, any, journals, plain, journal, mine, all, bad, gone

Rule(p, t) == <<[pattern |-> p, type |-> t]>>
NoRules == [n \in Names |-> <<>>]

MCMatching == {<<page, any>>, <<entry, any>>, <<entry, journals>>}
MCYaml == [c \in Contents |->
    [types |-> IF c = bad THEN {plain} ELSE {plain, journal},
     fallback |-> plain,
     global_rules |-> IF c = mine THEN <<>> ELSE Rule(any, journal),
     source_rules |-> IF c = mine THEN [NoRules EXCEPT ![A] = Rule(journals, journal)]
                      ELSE [NoRules EXCEPT ![A] = Rule(journals, plain)]]]
MCDefaults == <<
    [fallback |-> plain, global_rules |-> <<>>, source_rules |-> NoRules],
    [fallback |-> plain, global_rules |-> Rule(journals, journal), source_rules |-> NoRules]>>
=============================================================================
