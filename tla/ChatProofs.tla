----------------------------- MODULE ChatProofs -----------------------------
(***************************************************************************)
(* Proofs about Chat, for any tabs, conversations, caps, histories and     *)
(* rounds of tools.                                                        *)
(***************************************************************************)
EXTENDS Chat, TLAPS, SequenceTheorems, FiniteSetTheorems, WellFoundedInduction

Busy == {t \in Tabs : req[t] # None /\ req[t].phase # "reply"}

(***************************************************************************)
(* Every write to the store answers a question of its own.                 *)
(***************************************************************************)
Counted == Len(log) + Cardinality(Busy) <= asked

(***************************************************************************)
(* A request works on what its tab shows, and the tab shows it until the   *)
(* reply: its conversation has been written, or is yet to be created.      *)
(***************************************************************************)
Written(i) == Writers(log, i) # {}
RequestsMatchViews ==
    \A t \in Tabs :
        /\ view[t].id # None => Written(view[t].id)
        /\ req[t] # None /\ req[t].id # None => Written(req[t].id)
        /\ In(t, "reply") => req[t].id # None
        /\ t \in Busy => view[t].id = req[t].id /\ view[t].turns = req[t].history

TypeInv == TypeOK /\ Counted /\ RequestsMatchViews

-----------------------------------------------------------------------------
(***************************************************************************)
(* The messages.                                                           *)
(***************************************************************************)
LEMMA SpokenType ==
  ASSUME NEW turns \in Turns
  PROVE  Spoken(turns) \in Seq(Kinds) /\ Len(Spoken(turns)) = 2 * Len(turns)
<1>1. 2 * Len(turns) \in Nat  BY DEF Turns
<1>2. Spoken(turns) \in [1 .. 2 * Len(turns) -> Kinds]
  BY DEF Spoken, Kinds
<1> QED  BY <1>1, <1>2

LEMMA LastOfType ==
  ASSUME NEW S, NEW s \in Seq(S), NEW n \in Nat
  PROVE  LastOf(s, n) \in Seq(S)
BY SubSeqProperties DEF LastOf

LEMMA OpeningType ==
  ASSUME NEW turns \in Turns
  PROVE  Opening(turns) \in Seq(Kinds)
<1>1. LastOf(Spoken(turns), Window) \in Seq(Kinds)
  BY SpokenType, LastOfType, ChatAssumption
<1>2. "user" \in Kinds  BY DEF Kinds
<1> QED  BY <1>1, <1>2 DEF Opening

LEMMA CompactType ==
  ASSUME NEW messages \in Seq(Kinds)
  PROVE  /\ Compact(messages) \in Seq(Kinds)
         /\ Len(Compact(messages)) = Len(messages)
<1>1. "short" \in Kinds  BY DEF Kinds, Results
<1>2. Compact(messages) \in [1 .. Len(messages) -> Kinds]
  BY <1>1 DEF Compact
<1> QED  BY <1>2

LEMMA ResultsInType ==
  ASSUME NEW messages \in Seq(Kinds), NEW result \in Results
  PROVE  /\ ResultsIn(messages, result) \in Seq(Kinds)
         /\ Len(ResultsIn(messages, result)) = Len(messages) + 2
<1>1. <<"calls", result>> \in Seq(Kinds)  BY DEF Kinds
<1>2. /\ messages \o <<"calls", result>> \in Seq(Kinds)
      /\ Len(messages \o <<"calls", result>>) = Len(messages) + 2
  BY <1>1
<1> QED  BY <1>2, CompactType DEF ResultsIn

-----------------------------------------------------------------------------
(***************************************************************************)
(* The log.                                                                *)
(***************************************************************************)
Entry == [tab: Tabs, id: Ids]

LEMMA WritersOfAppend ==
  ASSUME NEW l \in Seq(Entry), NEW w \in Entry, NEW i
  PROVE  Writers(Append(l, w), i) =
            Writers(l, i) \cup (IF w.id = i THEN {w.tab} ELSE {})
<1> DEFINE m == Append(l, w)
<1>1. DOMAIN m = 1 .. Len(l) + 1 /\ DOMAIN l = 1 .. Len(l)
  OBVIOUS
<1>2. \A k \in 1 .. Len(l) : m[k] = l[k]
  OBVIOUS
<1>3. m[Len(l) + 1] = w
  OBVIOUS
<1>4. 1 .. Len(l) + 1 = 1 .. Len(l) \cup {Len(l) + 1}
  OBVIOUS
<1> HIDE DEF m
<1>5. Range(m) = Range(l) \cup {w}
  BY <1>1, <1>2, <1>3, <1>4 DEF Range
<1> QED  BY <1>5 DEF Writers, m

LEMMA WritersEmpty == \A i : Writers(<<>>, i) = {}
BY DEF Writers, Range

-----------------------------------------------------------------------------
(***************************************************************************)
(* Types.                                                                  *)
(***************************************************************************)
LEMMA BusyFinite ==
  /\ IsFiniteSet(Busy) /\ Cardinality(Busy) \in Nat
  /\ IsFiniteSet(Busy') /\ Cardinality(Busy)' = Cardinality(Busy')
  /\ Cardinality(Busy') \in Nat
<1>1. Busy \subseteq Tabs /\ Busy' \subseteq Tabs  BY DEF Busy
<1> QED  BY <1>1, FS_Subset, FS_CardinalityType, ChatAssumption

LEMMA NowInRange ==
  ASSUME TypeInv, NEW t \in Busy
  PROVE  Now \in 1..MaxTurns /\ Len(log) + 1 + Cardinality(Busy \ {t}) <= asked
<1>1. Cardinality(Busy \ {t}) = Cardinality(Busy) - 1
  BY BusyFinite, FS_RemoveElement
<1>2. Cardinality(Busy \ {t}) \in Nat
  BY BusyFinite, FS_RemoveElement, FS_CardinalityType
<1>3. Len(log) \in Nat /\ asked \in 0..MaxTurns /\ MaxTurns \in Nat
  BY ChatAssumption DEF TypeInv, TypeOK
<1>4. Len(log) + Cardinality(Busy) <= asked  BY DEF TypeInv, Counted
<1> QED  BY <1>1, <1>2, <1>3, <1>4, BusyFinite DEF Now

LEMMA TurnsType ==
  ASSUME TypeInv, NEW t \in Tabs, req[t] # None
  PROVE  /\ req[t] \in Request
         /\ Append(req[t].history, req[t].turn) \in Turns
<1>1. req[t] \in Request  BY DEF TypeInv, TypeOK
<1> QED  BY <1>1 DEF Request, Turns

\* What storing an answer does: a new conversation, an update, or nothing.
LEMMA PersistEffect ==
  ASSUME NEW t, Persist(t)
  PROVE  LET turns == Append(req[t].history, req[t].turn)
         IN  \/ \E i \in Ids :
                  /\ req[t].id = None /\ Writers(log, i) = {}
                  /\ store' = PruneToCap([store EXCEPT ![i] =
                        [turns |-> turns, created |-> Now, updated |-> Now]])
                  /\ log' = Append(log, [tab |-> t, id |-> i])
                  /\ req' = [req EXCEPT ![t].phase = "reply", ![t].id = i]
             \/ LET i == req[t].id
                IN  /\ i # None /\ store[i] # None
                    /\ store' = [store EXCEPT ![i].turns = turns, ![i].updated = Now]
                    /\ log' = Append(log, [tab |-> t, id |-> i])
                    /\ req' = [req EXCEPT ![t].phase = "reply"]
             \/ /\ req[t].id # None /\ store[req[t].id] = None
                /\ store' = store /\ log' = log
                /\ req' = [req EXCEPT ![t].phase = "reply"]
BY DEF Persist, Create, Update

\* Pruning removes and changes nothing else.
LEMMA Pruned ==
  ASSUME NEW s, NEW i \in Ids
  PROVE  PruneToCap(s)[i] = IF i \in Beyond(s, cap) THEN None ELSE s[i]
BY DEF PruneToCap

\* Steps that write nothing.
LEMMA QuietStepKeepsTypes ==
  ASSUME TypeInv, log' = log,
         store' \in [Ids -> {None} \cup Conversation],
         \A i \in Ids : store'[i] # None => store[i] # None,
         cap' \in Caps, asked' = asked,
         view' \in [Tabs -> [id: Ids \cup {None}, turns: Turns]],
         req' \in [Tabs -> {None} \cup Request],
         \A t \in Tabs :
            /\ view'[t] = view[t] \/ (req'[t] = None /\ (view'[t].id # None => Written(view'[t].id)))
            /\ req'[t] # None =>
                 /\ req[t] # None
                 /\ req'[t].phase # "reply"
                 /\ req[t].phase # "reply"
                 /\ req'[t].id = req[t].id /\ req'[t].history = req[t].history
               \/ req'[t] = req[t]
  PROVE  TypeInv'
<1>1. Busy' \subseteq Busy
  BY DEF Busy
<1>2. Cardinality(Busy') <= Cardinality(Busy)
  BY <1>1, BusyFinite, FS_Subset
<1>3. Counted'
  <2>1. Len(log) \in Nat /\ asked \in Nat  BY ChatAssumption DEF TypeInv, TypeOK
  <2> QED  BY <2>1, <1>2, BusyFinite DEF TypeInv, Counted
<1>4. TypeOK'
  BY DEF TypeInv, TypeOK, Stored
<1>5. RequestsMatchViews'
  BY DEF TypeInv, RequestsMatchViews, Written, Busy, In
<1> QED  BY <1>3, <1>4, <1>5 DEF TypeInv

LEMMA BeginKeepsTypes ==
  ASSUME TypeInv, NEW t \in Tabs, NEW route \in {"plain", "stream"}, Begin(t, route)
  PROVE  TypeInv'
<1> DEFINE r == [route |-> route, phase |-> "call", stop |-> None,
                 id |-> view[t].id, history |-> view[t].turns, turn |-> asked + 1,
                 messages |-> Opening(view[t].turns), iterations |-> 0]
<1>1. /\ req[t] = None /\ asked < MaxTurns /\ asked' = asked + 1
      /\ req' = [req EXCEPT ![t] = r]
      /\ UNCHANGED <<store, cap, log, view>>
  BY DEF Begin
<1>2. asked \in 0..MaxTurns /\ MaxTurns \in Nat /\ Len(log) \in Nat /\ MaxIterations \in Nat
  BY ChatAssumption DEF TypeInv, TypeOK
<1>3. r \in Request
  <2>1. view[t].id \in Ids \cup {None} /\ view[t].turns \in Turns
    BY DEF TypeInv, TypeOK
  <2>2. Opening(view[t].turns) \in Seq(Kinds)  BY <2>1, OpeningType
  <2>3. asked + 1 \in 1..MaxTurns /\ 0 \in 0..MaxIterations  BY <1>1, <1>2
  <2> QED  BY <2>1, <2>2, <2>3 DEF Request
<1>4. r.phase = "call" /\ r.id = view[t].id /\ r.history = view[t].turns
  OBVIOUS
<1> HIDE DEF r
<1>5. req \in [Tabs -> {None} \cup Request]  BY DEF TypeInv, TypeOK
<1>6. req'[t] = r /\ \A u \in Tabs \ {t} : req'[u] = req[u]
  BY <1>1, <1>5
<1>7. TypeOK'
  <2>1. req' \in [Tabs -> {None} \cup Request]  BY <1>1, <1>3, <1>5
  <2>2. asked' \in 0..MaxTurns /\ Len(log) <= asked'
    BY <1>1, <1>2 DEF TypeInv, TypeOK
  <2> QED  BY <1>1, <2>1, <2>2 DEF TypeInv, TypeOK, Stored
<1>8. Counted'
  <2>1. Busy' \subseteq Busy \cup {t}  BY <1>6 DEF Busy
  <2>2. IsFiniteSet(Busy \cup {t}) /\ Cardinality(Busy \cup {t}) <= Cardinality(Busy) + 1
    BY BusyFinite, FS_AddElement
  <2>3. Cardinality(Busy') <= Cardinality(Busy \cup {t})
    BY <2>1, <2>2, FS_Subset
  <2>4. Cardinality(Busy \cup {t}) \in Nat  BY <2>2, FS_CardinalityType
  <2>5. Len(log) + Cardinality(Busy) <= asked  BY DEF TypeInv, Counted
  <2>6. Len(log) + Cardinality(Busy') <= asked + 1
    BY <2>2, <2>3, <2>4, <2>5, <1>2, BusyFinite
  <2> QED  BY <2>6, <1>1, BusyFinite DEF Counted
<1>9. RequestsMatchViews'
  BY <1>1, <1>4, <1>6 DEF TypeInv, RequestsMatchViews, Written, Busy, In
<1> QED  BY <1>7, <1>8, <1>9 DEF TypeInv

LEMMA PersistKeepsTypes ==
  ASSUME TypeInv, NEW t \in Busy, Persist(t), UNCHANGED <<cap, view, asked>>
  PROVE  TypeInv'
<1> DEFINE turns == Append(req[t].history, req[t].turn)
<1>t. /\ t \in Tabs /\ req[t] # None /\ req[t] \in Request /\ turns \in Turns
      /\ req[t].phase # "reply"
  BY TurnsType DEF Busy
<1>y. /\ store \in [Ids -> {None} \cup Conversation]
      /\ req \in [Tabs -> {None} \cup Request]
      /\ log \in Seq(Entry) /\ asked \in 0..MaxTurns /\ MaxTurns \in Nat
      /\ None \notin Ids
  BY ChatAssumption DEF TypeInv, TypeOK, Entry
<1>n. Now \in 1..MaxTurns  BY NowInRange
<1> HIDE DEF turns
<1>c. ASSUME store' \in [Ids -> {None} \cup Conversation],
             NEW i \in Ids, req' = [req EXCEPT ![t] = [@ EXCEPT !.phase = "reply", !.id = i]],
             \/ /\ log' = Append(log, [tab |-> t, id |-> i])
                /\ \A j \in Ids \ {i} : store'[j] # None => store[j] # None
             \/ log' = log /\ store' = store /\ Writers(log, i) # {}
      PROVE  TypeInv'
  <2>1. [req[t] EXCEPT !.phase = "reply", !.id = i] \in Request
    BY <1>t DEF Request
  <2>2. /\ req'[t] = [req[t] EXCEPT !.phase = "reply", !.id = i]
        /\ req'[t].phase = "reply" /\ req'[t].id = i
        /\ \A u \in Tabs \ {t} : req'[u] = req[u]
        /\ req' \in [Tabs -> {None} \cup Request]
    <3>1. req'[t] = [req[t] EXCEPT !.phase = "reply", !.id = i]
      BY <1>c, <1>y, <1>t
    <3>2. req'[t].phase = "reply" /\ req'[t].id = i
      BY <3>1, <1>t DEF Request
    <3> QED  BY <3>1, <3>2, <2>1, <1>c, <1>y, <1>t
  <2>3. /\ log' \in Seq(Entry) /\ Len(log') <= Len(log) + 1
        /\ \A j : Writers(log, j) \subseteq Writers(log', j)
        /\ Writers(log', i) # {}
    <3>1. CASE log' = Append(log, [tab |-> t, id |-> i])
      <4>1. [tab |-> t, id |-> i] \in Entry  BY <1>t DEF Entry
      <4>2. \A j : Writers(log', j) = Writers(log, j) \cup (IF i = j THEN {t} ELSE {})
        BY <3>1, <4>1, <1>y, WritersOfAppend
      <4>3. log' \in Seq(Entry) /\ Len(log') <= Len(log) + 1
        BY <3>1, <4>1, <1>y
      <4> QED  BY <4>2, <4>3
    <3>2. CASE log' = log /\ Writers(log, i) # {}
      BY <3>2, <1>y
    <3> QED  BY <1>c, <3>1, <3>2
  <2>4. Busy' \subseteq Busy \ {t}
    BY <2>2 DEF Busy
  <2>5. Len(log') + Cardinality(Busy') <= asked
    <3>1. Cardinality(Busy') <= Cardinality(Busy \ {t}) /\ Cardinality(Busy \ {t}) \in Nat
      BY <2>4, BusyFinite, FS_Subset, FS_RemoveElement, FS_CardinalityType
    <3>2. Len(log) + 1 + Cardinality(Busy \ {t}) <= asked  BY NowInRange
    <3>3. Len(log) \in Nat /\ Len(log') \in Nat /\ asked \in Nat
      BY <1>y, <2>3
    <3> QED  BY <3>1, <3>2, <3>3, <2>3, BusyFinite
  <2>6. Counted'  BY <2>5, BusyFinite DEF Counted
  <2>7. TypeOK'
    <3>1. Len(log') <= asked  BY <2>5, <2>3, <1>y, BusyFinite
    <3>2. \A j \in Stored' : Writers(log', j) # {}
      <4>1. TAKE j \in Stored'
      <4>2. CASE j = i  BY <4>2, <2>3
      <4>3. CASE j # i
        <5>1. j \in Ids /\ store[j] # None  BY <4>1, <4>3, <1>c DEF Stored
        <5> QED  BY <5>1, <2>3 DEF TypeInv, TypeOK, Stored
      <4> QED  BY <4>2, <4>3
    <3> QED  BY <3>1, <3>2, <2>2, <2>3, <1>c DEF TypeInv, TypeOK, Entry
  <2>8. RequestsMatchViews'
    BY <2>2, <2>3, <1>y DEF TypeInv, RequestsMatchViews, Written, Busy, In
  <2> QED  BY <2>6, <2>7, <2>8 DEF TypeInv
<1>1. ASSUME NEW i \in Ids, Writers(log, i) = {},
             store' = PruneToCap([store EXCEPT ![i] =
                        [turns |-> turns, created |-> Now, updated |-> Now]]),
             log' = Append(log, [tab |-> t, id |-> i]),
             req' = [req EXCEPT ![t].phase = "reply", ![t].id = i]
      PROVE  TypeInv'
  <2> DEFINE s == [store EXCEPT ![i] =
                     [turns |-> turns, created |-> Now, updated |-> Now]]
  <2>1. [turns |-> turns, created |-> Now, updated |-> Now] \in Conversation
    BY <1>t, <1>n DEF Conversation
  <2>2. s \in [Ids -> {None} \cup Conversation] /\ \A j \in Ids \ {i} : s[j] = store[j]
    BY <2>1, <1>y
  <2> HIDE DEF s
  <2>3. \A j \in Ids : store'[j] \in {None, s[j]}
    BY <1>1, Pruned DEF s
  <2>4. store' = [j \in Ids |-> store'[j]]
    BY <1>1 DEF PruneToCap
  <2>5. store' \in [Ids -> {None} \cup Conversation]
    BY <2>2, <2>3, <2>4
  <2>6. req' = [req EXCEPT ![t] = [@ EXCEPT !.phase = "reply", !.id = i]]
    BY <1>1, <1>y, <1>t
  <2> QED  BY <2>2, <2>3, <2>5, <2>6, <1>1, <1>c
<1>2. ASSUME req[t].id # None, req' = [req EXCEPT ![t].phase = "reply"]
      PROVE  /\ req[t].id \in Ids /\ Writers(log, req[t].id) # {}
             /\ req' = [req EXCEPT ![t] = [@ EXCEPT !.phase = "reply", !.id = req[t].id]]
  <2>1. req[t].id \in Ids  BY <1>2, <1>t DEF Request
  <2>2. [req[t] EXCEPT !.phase = "reply"]
           = [req[t] EXCEPT !.phase = "reply", !.id = req[t].id]
    BY <1>t DEF Request
  <2>3. req' = [req EXCEPT ![t] = [req[t] EXCEPT !.phase = "reply"]]
    BY <1>2, <1>y, <1>t
  <2> QED  BY <2>1, <2>2, <2>3, <1>2, <1>t DEF TypeInv, RequestsMatchViews, Written
<1>3. ASSUME NEW i, i = req[t].id, i # None, store[i] # None,
             store' = [store EXCEPT ![i].turns = turns, ![i].updated = Now],
             log' = Append(log, [tab |-> t, id |-> i]),
             req' = [req EXCEPT ![t].phase = "reply"]
      PROVE  TypeInv'
  <2>1. i \in Ids /\ store[i] \in Conversation  BY <1>2, <1>3, <1>y
  <2>2. [store[i] EXCEPT !.turns = turns, !.updated = Now] \in Conversation
    BY <2>1, <1>t, <1>n DEF Conversation
  <2>3. store' = [store EXCEPT ![i] = [store[i] EXCEPT !.turns = turns, !.updated = Now]]
    BY <1>3, <1>y, <2>1
  <2>4. store' \in [Ids -> {None} \cup Conversation]
    BY <2>1, <2>2, <2>3, <1>y
  <2>5. \A j \in Ids \ {i} : store'[j] = store[j]
    BY <2>1, <2>3, <1>y
  <2> QED  BY <1>2, <1>3, <2>1, <2>4, <2>5, <1>c
<1>4. ASSUME req[t].id # None, store' = store, log' = log,
             req' = [req EXCEPT ![t].phase = "reply"]
      PROVE  TypeInv'
  BY <1>2, <1>4, <1>c, <1>y
<1> QED
  BY <1>1, <1>3, <1>4, PersistEffect DEF turns

\* The steps of a request that write nothing: it stays as it is, or ends.
LEMMA RequestKeepsTypes ==
  ASSUME TypeInv, NEW t \in Tabs,
         \/ \E stop \in {"end", "tools", "no_blocks"} : Return(t, stop)
         \/ \E result \in {"full", "brief"} : ToolRound(t, result)
         \/ Deliver(t) \/ Fail(t) \/ Disconnect(t)
  PROVE  TypeInv'
<1>y. /\ req \in [Tabs -> {None} \cup Request]
      /\ store \in [Ids -> {None} \cup Conversation] /\ cap \in Caps
      /\ view \in [Tabs -> [id: Ids \cup {None}, turns: Turns]]
  BY DEF TypeInv, TypeOK
<1>1. ASSUME NEW r \in {None} \cup Request, req' = [req EXCEPT ![t] = r],
             \/ r = None
             \/ /\ req[t] # None /\ r.phase # "reply" /\ req[t].phase # "reply"
                /\ r.id = req[t].id /\ r.history = req[t].history,
             UNCHANGED <<store, cap, log, view, asked>>
      PROVE  TypeInv'
  <2>1. /\ req'[t] = r /\ \A u \in Tabs \ {t} : req'[u] = req[u]
        /\ req' \in [Tabs -> {None} \cup Request]
    BY <1>1, <1>y
  <2> QED  BY <2>1, <1>1, <1>y, QuietStepKeepsTypes
<1>2. ASSUME NEW stop \in {"end", "tools", "no_blocks"}, Return(t, stop)
      PROVE  TypeInv'
  <2> DEFINE r == [req[t] EXCEPT !.phase = "returned", !.stop = stop]
  <2>1. req[t] # None /\ req[t].phase = "call" /\ req[t] \in Request
    BY <1>2, <1>y DEF Return, In
  <2>2. r \in Request /\ r.phase = "returned" /\ r.id = req[t].id
        /\ r.history = req[t].history
    BY <2>1 DEF Request
  <2>3. req' = [req EXCEPT ![t] = r]
    BY <1>2, <1>y DEF Return
  <2> HIDE DEF r
  <2> QED  BY <2>1, <2>2, <2>3, <1>1, <1>2 DEF Return
<1>3. ASSUME NEW result \in {"full", "brief"}, ToolRound(t, result) PROVE TypeInv'
  <2> DEFINE ms == ResultsIn(req[t].messages, result)
             r == [req[t] EXCEPT !.phase = "call", !.stop = None,
                       !.iterations = @ + 1, !.messages = ms]
  <2>1. /\ req[t] # None /\ req[t].phase = "returned" /\ req[t] \in Request
        /\ req[t].iterations < MaxIterations
    BY <1>3, <1>y DEF ToolRound, In
  <2>2. ms \in Seq(Kinds)
    BY <2>1, ResultsInType DEF Request, Results
  <2>3. req' = [req EXCEPT ![t] = r]
    BY <1>3, <1>y DEF ToolRound
  <2> HIDE DEF ms
  <2>4. req[t].iterations + 1 \in 0..MaxIterations
    <3>1. req[t].iterations \in 0..MaxIterations  BY <2>1 DEF Request
    <3> QED  BY <3>1, <2>1, ChatAssumption
  <2>5. r \in Request /\ r.phase = "call" /\ r.id = req[t].id
        /\ r.history = req[t].history
    BY <2>1, <2>2, <2>4 DEF Request
  <2> HIDE DEF r
  <2> QED  BY <2>1, <2>3, <2>5, <1>1, <1>3 DEF ToolRound
<1>4. CASE Fail(t) \/ Disconnect(t)
  <2>1. req' = [req EXCEPT ![t] = None] /\ UNCHANGED <<store, cap, log, view, asked>>
    BY <1>4 DEF Fail, Disconnect
  <2> QED  BY <2>1, <1>1
<1>5. CASE Deliver(t)
  <2> DEFINE v == [id |-> req[t].id, turns |-> Append(req[t].history, req[t].turn)]
  <2>1. /\ req[t] # None /\ req[t].phase = "reply"
        /\ view' = [view EXCEPT ![t] = v] /\ req' = [req EXCEPT ![t] = None]
        /\ UNCHANGED <<store, cap, log, asked>>
    BY <1>5 DEF Deliver, In
  <2>2. v \in [id: Ids \cup {None}, turns: Turns] /\ Written(v.id)
    BY <2>1, TurnsType DEF Request, TypeInv, RequestsMatchViews, In
  <2> HIDE DEF v
  <2>3. view' \in [Tabs -> [id: Ids \cup {None}, turns: Turns]]
    BY <2>1, <2>2, <1>y
  <2>4. req' \in [Tabs -> {None} \cup Request]  BY <2>1, <1>y
  <2>5. \A u \in Tabs \ {t} : view'[u] = view[u] /\ req'[u] = req[u]
    BY <2>1, <1>y
  <2>6. view'[t] = v /\ req'[t] = None  BY <2>1, <1>y
  <2> QED  BY <2>1, <2>2, <2>3, <2>4, <2>5, <2>6, <1>y, QuietStepKeepsTypes
<1> QED  BY <1>2, <1>3, <1>4, <1>5

LEMMA OtherKeepsTypes ==
  ASSUME TypeInv,
         \/ \E t \in Tabs, i \in Ids : Open(t, i)
         \/ \E t \in Tabs : NewChat(t)
         \/ \E i \in Ids : Delete(i)
         \/ \E n \in Caps : Restart(n)
         \/ UNCHANGED vars
  PROVE  TypeInv'
<1>y. /\ req \in [Tabs -> {None} \cup Request]
      /\ store \in [Ids -> {None} \cup Conversation] /\ cap \in Caps
      /\ view \in [Tabs -> [id: Ids \cup {None}, turns: Turns]]
  BY DEF TypeInv, TypeOK
<1>1. ASSUME NEW t \in Tabs, NEW v \in [id: Ids \cup {None}, turns: Turns],
             req[t] = None, view' = [view EXCEPT ![t] = v],
             v.id # None => Written(v.id),
             UNCHANGED <<store, cap, log, req, asked>>
      PROVE  TypeInv'
  BY <1>1, <1>y, QuietStepKeepsTypes
<1>2. ASSUME NEW t \in Tabs, NEW i \in Ids, Open(t, i) PROVE TypeInv'
  <2> DEFINE v == [id |-> i, turns |-> store[i].turns]
  <2>1. store[i] \in Conversation /\ store[i] # None  BY <1>2, <1>y DEF Open
  <2>2. v \in [id: Ids \cup {None}, turns: Turns]
    BY <2>1 DEF Conversation
  <2>3. Written(v.id)  BY <2>1 DEF TypeInv, TypeOK, Stored, Written
  <2> QED  BY <1>1, <1>2, <2>2, <2>3 DEF Open
<1>3. ASSUME NEW t \in Tabs, NewChat(t) PROVE TypeInv'
  <2>1. Blank \in [id: Ids \cup {None}, turns: Turns] /\ Blank.id = None
    BY DEF Blank, Turns
  <2> QED  BY <1>1, <1>3, <2>1 DEF NewChat
<1>4. ASSUME NEW i \in Ids, Delete(i) PROVE TypeInv'
  BY <1>4, <1>y, QuietStepKeepsTypes DEF Delete
<1>5. ASSUME NEW n \in Caps, Restart(n) PROVE TypeInv'
  BY <1>5, <1>y, QuietStepKeepsTypes DEF Restart
<1>6. CASE UNCHANGED vars
  BY <1>6, <1>y, QuietStepKeepsTypes DEF vars
<1> QED  BY <1>2, <1>3, <1>4, <1>5, <1>6

LEMMA InitTypes == Init => TypeInv
<1> SUFFICES ASSUME Init PROVE TypeInv
  OBVIOUS
<1>1. Blank \in [id: Ids \cup {None}, turns: Turns] /\ Blank.id = None
  BY DEF Blank, Turns
<1>2. TypeOK
  <2>1. log \in Seq([tab: Tabs, id: Ids]) /\ Len(log) <= asked
    BY DEF Init
  <2> QED  BY <1>1, <2>1, ChatAssumption DEF Init, TypeOK, Stored
<1>3. Counted
  <2>1. Busy = {}  BY DEF Busy, Init
  <2>2. Cardinality(Busy) = 0  BY <2>1, FS_EmptySet
  <2>3. Len(log) = 0 /\ asked = 0  BY DEF Init
  <2> QED  BY <2>2, <2>3 DEF Counted
<1>4. RequestsMatchViews
  BY <1>1 DEF Init, RequestsMatchViews, In, Busy
<1> QED  BY <1>2, <1>3, <1>4 DEF TypeInv

LEMMA StepKeepsTypes == TypeInv /\ [Next]_vars => TypeInv'
<1> SUFFICES ASSUME TypeInv, [Next]_vars PROVE TypeInv'
  OBVIOUS
<1>1. ASSUME NEW t \in Tabs, Answer(t) \/ PlainChat(t) PROVE TypeInv'
  <2>1. t \in Busy /\ Persist(t) /\ UNCHANGED <<cap, view, asked>>
    BY <1>1 DEF Answer, PlainChat, Busy, In
  <2> QED  BY <2>1, PersistKeepsTypes
<1> QED
  BY <1>1, BeginKeepsTypes, RequestKeepsTypes, OtherKeepsTypes DEF Next, Advance

LEMMA TypeInvHolds == Spec => []TypeInv
BY InitTypes, StepKeepsTypes, PTL DEF Spec

(* Every state of the endpoints, the store and the tabs has its types      *)
(* (Chat): among them, that the store is written at most once for every    *)
(* question asked.                                                         *)
THEOREM TypeCorrect == Spec => []TypeOK
<1>1. TypeInv => TypeOK  BY DEF TypeInv
<1> QED  BY <1>1, TypeInvHolds, PTL

-----------------------------------------------------------------------------
(***************************************************************************)
(* What the model is sent.                                                 *)
(***************************************************************************)
OfUser(m) == m \in {"user"} \cup Results
Alternating(ms) ==
    /\ Len(ms) % 2 = 1
    /\ \A k \in 1..Len(ms) : OfUser(ms[k]) <=> k % 2 = 1
FullIsLatest(ms) == \A k \in 1..Len(ms) : ms[k] = "full" => k = Len(ms)

\* Whatever a request has in hand, at every step of it.
AllAlternate == \A t \in Tabs : req[t] # None => Alternating(req[t].messages)
AllCompacted == \A t \in Tabs : req[t] # None => FullIsLatest(req[t].messages)

LEMMA LastOfElements ==
  ASSUME NEW S, NEW s \in Seq(S), NEW n \in Nat
  PROVE  LET first == IF Len(s) > n THEN Len(s) - n + 1 ELSE 1
         IN  /\ Len(LastOf(s, n)) = Len(s) - first + 1
             /\ \A k \in 1..Len(LastOf(s, n)) : LastOf(s, n)[k] = s[first + k - 1]
<1> DEFINE first == IF Len(s) > n THEN Len(s) - n + 1 ELSE 1
<1>1. first \in Int /\ Len(s) \in Nat /\ first >= 1 /\ first <= Len(s) + 1
  OBVIOUS
<1>2. LastOf(s, n) = SubSeq(s, first, Len(s))
  BY DEF LastOf
<1>3. \A i \in first..Len(s) : s[i] \in S
  BY <1>1
<1> HIDE DEF first
<1>4. /\ Len(SubSeq(s, first, Len(s))) = Len(s) - first + 1
      /\ \A k \in 1..Len(s) - first + 1 : SubSeq(s, first, Len(s))[k] = s[first + k - 1]
  BY <1>1, <1>3, SubSeqProperties
<1> QED  BY <1>2, <1>4 DEF first

\* The history begins with an answer only if the window is odd.
LEMMA OpeningAlternates ==
  ASSUME Window % 2 = 0, NEW turns \in Turns
  PROVE  Alternating(Opening(turns))
<1> DEFINE s == Spoken(turns)
           n == Len(turns)
           first == IF 2 * n > Window THEN 2 * n - Window + 1 ELSE 1
           last == LastOf(s, Window)
<1>1. n \in Nat /\ Window \in Nat /\ s \in Seq(Kinds) /\ Len(s) = 2 * n
  BY SpokenType, ChatAssumption DEF Turns
<1>2. PICK h \in Nat : Window = 2 * h
  BY <1>1
<1>3. PICK g \in Nat : first = 2 * g + 1
  <2>1. CASE 2 * n > Window
    <3>1. n - h \in Nat /\ first = 2 * (n - h) + 1  BY <2>1, <1>1, <1>2
    <3> QED  BY <3>1
  <2>2. CASE ~(2 * n > Window)
    <3>1. first = 2 * 0 + 1  BY <2>2
    <3> QED  BY <3>1
  <2> QED  BY <2>1, <2>2
<1>4. /\ last \in Seq(Kinds) /\ Len(last) = 2 * n - first + 1
      /\ \A k \in 1..Len(last) : last[k] = s[first + k - 1]
  BY <1>1, LastOfElements, LastOfType
<1>5. \A k \in 1 .. 2 * n : s[k] = IF k % 2 = 1 THEN "user" ELSE "assistant"
  BY DEF Spoken
<1> HIDE DEF s, n, first, last
<1>6. Len(last) = 2 * (n - g) /\ Len(last) \in Nat
  BY <1>1, <1>3, <1>4
<1>7. \A k \in 1..Len(last) : last[k] = IF k % 2 = 1 THEN "user" ELSE "assistant"
  <2>1. TAKE k \in 1..Len(last)
  <2>2. k + 2 * g \in 1 .. 2 * n /\ first + k - 1 = k + 2 * g
    BY <1>1, <1>3, <1>4
  <2>3. (k + 2 * g) % 2 = k % 2
    OBVIOUS
  <2> QED  BY <2>2, <2>3, <1>4, <1>5
<1>8. Opening(turns) = Append(last, "user")
  BY DEF Opening, last, s
<1>9. /\ Len(Opening(turns)) = Len(last) + 1
      /\ \A k \in 1..Len(last) : Opening(turns)[k] = last[k]
      /\ Opening(turns)[Len(last) + 1] = "user"
  BY <1>4, <1>8
<1>10. (Len(last) + 1) % 2 = 1
  BY <1>1, <1>3, <1>6
<1>11. OfUser("user") /\ ~OfUser("assistant")
  BY DEF OfUser, Results
<1> HIDE DEF OfUser
<1>12. \A k \in 1..Len(last) + 1 : OfUser(Opening(turns)[k]) <=> k % 2 = 1
  BY <1>6, <1>7, <1>9, <1>10, <1>11
<1> QED  BY <1>9, <1>10, <1>12 DEF Alternating

LEMMA OpeningHasNoResults ==
  ASSUME NEW turns \in Turns
  PROVE  FullIsLatest(Opening(turns))
<1> DEFINE s == Spoken(turns)
           last == LastOf(s, Window)
<1>1. s \in Seq({"user", "assistant"})
  <2>1. 2 * Len(turns) \in Nat  BY DEF Turns
  <2>2. s \in [1 .. 2 * Len(turns) -> {"user", "assistant"}]  BY DEF Spoken
  <2> QED  BY <2>1, <2>2
<1>2. last \in Seq({"user", "assistant"})
  BY <1>1, LastOfType, ChatAssumption
<1>3. Opening(turns) = Append(last, "user")  BY DEF Opening
<1> HIDE DEF s, last
<1>4. Opening(turns) \in Seq({"user", "assistant"})
  BY <1>2, <1>3
<1>5. \A k \in 1..Len(Opening(turns)) : Opening(turns)[k] # "full"
  BY <1>4
<1> QED  BY <1>5 DEF FullIsLatest

LEMMA CompactElements ==
  ASSUME NEW messages \in Seq(Kinds), NEW k \in 1..Len(messages)
  PROVE  /\ Compact(messages)[k] \in {messages[k], "short"}
         /\ OfUser(Compact(messages)[k]) <=> OfUser(messages[k])
         /\ (\E l \in 1..Len(messages) : l > k /\ messages[l] \in Results)
               => Compact(messages)[k] # "full"
BY DEF Compact, OfUser, Results

\* A round of tools adds the model's request and, as the user's, the results.
LEMMA ResultsElements ==
  ASSUME NEW messages \in Seq(Kinds), NEW result \in {"full", "brief"}
  PROVE  LET ms == ResultsIn(messages, result)
         IN  /\ Len(ms) = Len(messages) + 2
             /\ \A k \in 1..Len(ms) :
                   OfUser(ms[k]) <=> IF k <= Len(messages) THEN OfUser(messages[k])
                                     ELSE k = Len(ms)
             /\ FullIsLatest(ms)
<1> DEFINE all == messages \o <<"calls", result>>
           n == Len(messages)
<1>1. /\ all \in Seq(Kinds) /\ Len(all) = n + 2 /\ n \in Nat
      /\ \A k \in 1..n : all[k] = messages[k]
      /\ all[n + 1] = "calls" /\ all[n + 2] = result
  BY DEF Kinds, Results
<1>2. ResultsIn(messages, result) = Compact(all)
  BY DEF ResultsIn
<1> HIDE DEF all, n
<1>3. Len(Compact(all)) = n + 2
  BY <1>1, CompactType
<1>4. \A k \in 1..n + 2 : OfUser(Compact(all)[k]) <=> OfUser(all[k])
  BY <1>1, CompactElements
<1>5. ~OfUser("calls") /\ OfUser(result) /\ result \in Results
  BY DEF OfUser, Results
<1>6. \A k \in 1..n + 2 : k <= n \/ k = n + 1 \/ k = n + 2
  BY <1>1
<1> HIDE DEF OfUser
<1>7. \A k \in 1..n + 2 : OfUser(Compact(all)[k]) <=>
                           IF k <= n THEN OfUser(messages[k]) ELSE k = n + 2
  BY <1>1, <1>4, <1>5, <1>6
<1>8. \A k \in 1..n + 1 : Compact(all)[k] # "full"
  <2>1. n + 2 \in 1..Len(all) /\ all[n + 2] \in Results
    BY <1>1, <1>5
  <2>2. TAKE k \in 1..n + 1
  <2>3. k \in 1..Len(all) /\ n + 2 > k  BY <1>1
  <2> QED  BY <2>1, <2>3, <1>1, CompactElements
<1> QED  BY <1>1, <1>2, <1>3, <1>7, <1>8 DEF FullIsLatest, n

LEMMA ResultsAlternate ==
  ASSUME NEW messages \in Seq(Kinds), NEW result \in {"full", "brief"},
         Alternating(messages)
  PROVE  Alternating(ResultsIn(messages, result))
<1> DEFINE ms == ResultsIn(messages, result)
           n == Len(messages)
<1>1. /\ n \in Nat /\ n % 2 = 1 /\ Len(ms) = n + 2
      /\ \A k \in 1..n : OfUser(messages[k]) <=> k % 2 = 1
      /\ \A k \in 1..n + 2 :
            OfUser(ms[k]) <=> IF k <= n THEN OfUser(messages[k]) ELSE k = n + 2
  BY ResultsElements DEF Alternating
<1> HIDE DEF ms, n, OfUser
<1>2. (n + 1) % 2 = 0 /\ (n + 2) % 2 = 1
  BY <1>1
<1>3. \A k \in 1..n + 2 : k <= n \/ k = n + 1 \/ k = n + 2
  BY <1>1
<1>4. \A k \in 1..n + 2 : OfUser(ms[k]) <=> k % 2 = 1
  BY <1>1, <1>2, <1>3
<1> QED  BY <1>1, <1>2, <1>4 DEF Alternating, ms

\* Where the messages of a request come from, in any step.
LEMMA MessagesStep ==
  ASSUME TypeInv, [Next]_vars, NEW t \in Tabs, req'[t] # None
  PROVE  \/ \E turns \in Turns : req'[t].messages = Opening(turns)
         \/ req[t] # None /\ req'[t].messages = req[t].messages
         \/ /\ req[t] # None
            /\ \E result \in {"full", "brief"} :
                  req'[t].messages = ResultsIn(req[t].messages, result)
<1>y. /\ req \in [Tabs -> {None} \cup Request]
      /\ view \in [Tabs -> [id: Ids \cup {None}, turns: Turns]]
  BY DEF TypeInv, TypeOK
<1> DEFINE Goal == \/ \E turns \in Turns : req'[t].messages = Opening(turns)
                   \/ req[t] # None /\ req'[t].messages = req[t].messages
                   \/ /\ req[t] # None
                      /\ \E result \in {"full", "brief"} :
                            req'[t].messages = ResultsIn(req[t].messages, result)
<1>1. ASSUME NEW u \in Tabs, NEW r, req' = [req EXCEPT ![u] = r],
             u = t /\ r # None => req[t] # None /\ r.messages = req[t].messages
      PROVE  Goal
  BY <1>1, <1>y
<1>2. ASSUME NEW u \in Tabs, NEW route \in {"plain", "stream"}, Begin(u, route)
      PROVE  Goal
  <2>1. CASE u = t
    <3>1. req'[t].messages = Opening(view[t].turns) /\ view[t].turns \in Turns
      BY <2>1, <1>2, <1>y DEF Begin
    <3> QED  BY <3>1
  <2>2. CASE u # t
    <3>1. req'[t] = req[t]  BY <2>2, <1>2, <1>y DEF Begin
    <3> QED  BY <3>1
  <2> QED  BY <2>1, <2>2
<1>3. ASSUME NEW u \in Tabs, NEW stop \in {"end", "tools", "no_blocks"}, Return(u, stop)
      PROVE  Goal
  <2> DEFINE r == [req[u] EXCEPT !.phase = "returned", !.stop = stop]
  <2>1. req[u] # None /\ req[u] \in Request /\ req' = [req EXCEPT ![u] = r]
    BY <1>3, <1>y DEF Return, In
  <2>2. r.messages = req[u].messages  BY <2>1 DEF Request
  <2> HIDE DEF r
  <2> QED  BY <2>1, <2>2, <1>1
<1>4. ASSUME NEW u \in Tabs, NEW result \in {"full", "brief"}, ToolRound(u, result)
      PROVE  Goal
  <2> DEFINE ms == ResultsIn(req[u].messages, result)
             r == [req[u] EXCEPT !.phase = "call", !.stop = None,
                       !.iterations = @ + 1, !.messages = ms]
  <2>1. req[u] # None /\ req[u] \in Request /\ req' = [req EXCEPT ![u] = r]
    BY <1>4, <1>y DEF ToolRound, In
  <2> HIDE DEF ms
  <2>2. r.messages = ms  BY <2>1 DEF Request
  <2> HIDE DEF r
  <2>3. CASE u = t
    <3>1. req'[t].messages = ms  BY <2>1, <2>2, <2>3, <1>y
    <3> QED  BY <3>1, <2>1, <2>3 DEF ms
  <2>4. CASE u # t
    <3>1. req'[t] = req[t]  BY <2>1, <2>4, <1>y
    <3> QED  BY <3>1
  <2> QED  BY <2>3, <2>4
<1>5. ASSUME NEW u \in Tabs, Answer(u) \/ PlainChat(u) PROVE Goal
  <2>1. req[u] # None /\ req[u] \in Request /\ Persist(u)
    BY <1>5, <1>y DEF Answer, PlainChat, In
  <2>2. \/ req' = [req EXCEPT ![u].phase = "reply"]
        \/ \E i \in Ids : req' = [req EXCEPT ![u].phase = "reply", ![u].id = i]
    BY <2>1, PersistEffect
  <2>3. CASE req' = [req EXCEPT ![u].phase = "reply"]
    <3>1. [req[u] EXCEPT !.phase = "reply"].messages = req[u].messages
      BY <2>1 DEF Request
    <3>2. req' = [req EXCEPT ![u] = [req[u] EXCEPT !.phase = "reply"]]
      BY <2>3, <1>y
    <3> QED  BY <3>1, <3>2, <2>1, <1>1
  <2>4. ASSUME NEW i \in Ids, req' = [req EXCEPT ![u].phase = "reply", ![u].id = i]
        PROVE  Goal
    <3>1. [req[u] EXCEPT !.phase = "reply", !.id = i].messages = req[u].messages
      BY <2>1 DEF Request
    <3>2. req' = [req EXCEPT ![u] = [req[u] EXCEPT !.phase = "reply", !.id = i]]
      BY <2>4, <1>y
    <3> QED  BY <3>1, <3>2, <2>1, <1>1
  <2> QED  BY <2>2, <2>3, <2>4
<1>6. ASSUME NEW u \in Tabs, Deliver(u) \/ Fail(u) \/ Disconnect(u) PROVE Goal
  BY <1>6, <1>1 DEF Deliver, Fail, Disconnect
<1>7. ASSUME req' = req PROVE Goal
  BY <1>7
<1>8. ASSUME NEW n \in Caps, Restart(n) PROVE Goal
  BY <1>8 DEF Restart
<1>9. \/ \E u \in Tabs : \/ \E i \in Ids : Open(u, i)
                         \/ NewChat(u)
      \/ \E i \in Ids : Delete(i)
      \/ UNCHANGED vars
      => Goal
  BY <1>7 DEF Open, NewChat, Delete, vars
<1> HIDE DEF Goal
<1>10. Goal
  BY <1>2, <1>3, <1>4, <1>5, <1>6, <1>8, <1>9 DEF Next, Advance
<1> QED  BY <1>10 DEF Goal

(* Every call of the API is sent messages that begin with the user's and   *)
(* alternate (_prepare_chat_request and the loops of api_chat and          *)
(* api_chat_stream), because the window, 10 in the code, is even.          *)
THEOREM Alternate ==
  ASSUME Window % 2 = 0
  PROVE  Spec => []MessagesAlternate
<1>1. Init => AllAlternate
  BY DEF Init, AllAlternate
<1>2. TypeInv /\ AllAlternate /\ [Next]_vars => AllAlternate'
  <2> SUFFICES ASSUME TypeInv, AllAlternate, [Next]_vars,
                      NEW t \in Tabs, req'[t] # None
               PROVE  Alternating(req'[t].messages)
    BY DEF AllAlternate
  <2>1. req[t] # None => req[t].messages \in Seq(Kinds) /\ Alternating(req[t].messages)
    BY DEF TypeInv, TypeOK, Request, AllAlternate
  <2> QED  BY <2>1, MessagesStep, OpeningAlternates, ResultsAlternate
<1>3. TypeInv /\ AllAlternate => MessagesAlternate
  <2> SUFFICES ASSUME TypeInv, AllAlternate, NEW t \in Tabs, In(t, "call")
               PROVE  LET ms == req[t].messages
                          User(k) == ms[k] \in {"user"} \cup Results
                      IN  /\ \A k \in DOMAIN ms : User(k) <=> k % 2 = 1
                          /\ User(Len(ms))
    BY DEF MessagesAlternate
  <2> DEFINE ms == req[t].messages
  <2>1. ms \in Seq(Kinds) /\ Alternating(ms)
    BY DEF In, TypeInv, TypeOK, Request, AllAlternate
  <2> HIDE DEF ms
  <2>2. DOMAIN ms = 1..Len(ms) /\ Len(ms) \in 1..Len(ms)
    BY <2>1 DEF Alternating
  <2> QED  BY <2>1, <2>2 DEF Alternating, OfUser, ms
<1> QED  BY <1>1, <1>2, <1>3, TypeInvHolds, PTL DEF Spec

(* Every call of the API has at most one message of long results in full,  *)
(* the latest (_compact_old_tool_results).                                 *)
THEOREM Compacted == Spec => []OnlyLatestResultsAreFull
<1>1. Init => AllCompacted
  BY DEF Init, AllCompacted
<1>2. TypeInv /\ AllCompacted /\ [Next]_vars => AllCompacted'
  <2> SUFFICES ASSUME TypeInv, AllCompacted, [Next]_vars,
                      NEW t \in Tabs, req'[t] # None
               PROVE  FullIsLatest(req'[t].messages)
    BY DEF AllCompacted
  <2>1. req[t] # None => req[t].messages \in Seq(Kinds) /\ FullIsLatest(req[t].messages)
    BY DEF TypeInv, TypeOK, Request, AllCompacted
  <2> QED  BY <2>1, MessagesStep, OpeningHasNoResults, ResultsElements
<1>3. TypeInv /\ AllCompacted => OnlyLatestResultsAreFull
  <2> SUFFICES ASSUME TypeInv, AllCompacted, NEW t \in Tabs, In(t, "call"),
                      NEW k \in DOMAIN req[t].messages, req[t].messages[k] = "full"
               PROVE  k = Len(req[t].messages)
    BY DEF OnlyLatestResultsAreFull
  <2>1. req[t].messages \in Seq(Kinds) /\ FullIsLatest(req[t].messages)
    BY DEF In, TypeInv, TypeOK, Request, AllCompacted
  <2> QED  BY <2>1 DEF FullIsLatest
<1> QED  BY <1>1, <1>2, <1>3, TypeInvHolds, PTL DEF Spec

-----------------------------------------------------------------------------
(***************************************************************************)
(* What the store keeps.                                                   *)
(***************************************************************************)
\* In any step an answer is stored, or nothing is written.
LEMMA StoreStep ==
  ASSUME TypeInv, [Next]_vars
  PROVE  \/ \E t \in Busy : Persist(t) /\ UNCHANGED <<cap, view, asked>>
         \/ /\ log' = log
            /\ \A i \in Ids : store'[i] \in {store[i], None}
<1>y. store \in [Ids -> {None} \cup Conversation]
  BY DEF TypeInv, TypeOK
<1>1. ASSUME NEW t \in Tabs, Answer(t) \/ PlainChat(t)
      PROVE  t \in Busy /\ Persist(t) /\ UNCHANGED <<cap, view, asked>>
  BY <1>1 DEF Answer, PlainChat, Busy, In
<1>2. ASSUME NEW i \in Ids, Delete(i)
      PROVE  log' = log /\ \A j \in Ids : store'[j] \in {store[j], None}
  BY <1>2, <1>y DEF Delete
<1>3. \/ \E t \in Tabs : \/ \E route \in {"plain", "stream"} : Begin(t, route)
                         \/ \E stop \in {"end", "tools", "no_blocks"} : Return(t, stop)
                         \/ \E result \in {"full", "brief"} : ToolRound(t, result)
                         \/ Deliver(t) \/ Fail(t) \/ Disconnect(t)
                         \/ \E i \in Ids : Open(t, i)
                         \/ NewChat(t)
      \/ \E n \in Caps : Restart(n)
      \/ UNCHANGED vars
      => log' = log /\ store' = store
  BY DEF Begin, Return, ToolRound, Deliver, Fail, Disconnect, Open, NewChat, Restart, vars
<1> QED  BY <1>1, <1>2, <1>3 DEF Next, Advance

(* What a deletion or the cap removed stays removed, whatever streams were *)
(* under way for it: ConversationStore.update is not an upsert, and create *)
(* never draws an id twice.                                                *)
THEOREM NotResurrected == Spec => NothingResurrected
<1> DEFINE Gone == \A i \in Ids : Writers(log, i) # {} /\ store[i] = None => store'[i] = None
<1>1. ASSUME TypeInv, [Next]_vars PROVE Gone
  <2>1. SUFFICES ASSUME NEW j \in Ids, Writers(log, j) # {}, store[j] = None
                 PROVE  store'[j] = None
    OBVIOUS
  <2>y. store \in [Ids -> {None} \cup Conversation]
    BY <1>1 DEF TypeInv, TypeOK
  <2>2. ASSUME NEW t \in Busy, Persist(t) PROVE store'[j] = None
    <3> DEFINE turns == Append(req[t].history, req[t].turn)
    <3>1. ASSUME NEW i \in Ids, Writers(log, i) = {},
                 store' = PruneToCap([store EXCEPT ![i] =
                        [turns |-> turns, created |-> Now, updated |-> Now]])
          PROVE  store'[j] = None
      BY <3>1, <2>1, <2>y, Pruned
    <3>2. ASSUME NEW i, store[i] # None,
                 store' = [store EXCEPT ![i].turns = turns, ![i].updated = Now]
          PROVE  store'[j] = None
      BY <3>2, <2>1, <2>y
    <3> QED  BY <3>1, <3>2, <2>1, <2>2, PersistEffect
  <2> QED  BY <2>1, <2>2, <1>1, StoreStep
<1>2. TypeInv /\ [Next]_vars => [Gone]_vars  BY <1>1
<1> QED  BY <1>2, TypeInvHolds, PTL DEF Spec, NothingResurrected

\* A reply that has not been delivered is stored, too.
RepliesAreStored ==
    \A t \in Tabs : In(t, "reply") =>
        LET i == req[t].id
        IN  i \in Stored /\ Writers(log, i) = {t}
               => IsPrefix(Append(req[t].history, req[t].turn), store[i].turns)

LEMMA PrefixOfItself ==
  ASSUME NEW S, NEW s \in Seq(S)  PROVE IsPrefix(s, s)
<1>1. Len(s) <= Len(s)  OBVIOUS
<1> QED  BY <1>1 DEF IsPrefix

LEMMA PrefixOfAppend ==
  ASSUME NEW S, NEW s \in Seq(S), NEW x \in S
  PROVE  IsPrefix(s, Append(s, x))
<1>1. Len(s) \in Nat /\ Append(s, x) \in Seq(S) /\ Len(Append(s, x)) = Len(s) + 1
      /\ \A k \in 1..Len(s) : Append(s, x)[k] = s[k]
  OBVIOUS
<1>2. SubSeq(Append(s, x), 1, Len(s)) = s
  <2>1. \A k \in 1..Len(s) : Append(s, x)[k] \in S
    BY <1>1
  <2>2. /\ SubSeq(Append(s, x), 1, Len(s)) \in Seq(S)
        /\ Len(SubSeq(Append(s, x), 1, Len(s))) = Len(s)
        /\ \A k \in 1..Len(s) : SubSeq(Append(s, x), 1, Len(s))[k] = Append(s, x)[k]
    BY <2>1, <1>1, SubSeqProperties
  <2> QED  BY <2>2, <1>1, SeqEqual
<1>3. SubSeq(s, 1, Len(s)) = s  BY SubSeqFull
<1> QED  BY <1>1, <1>2, <1>3 DEF IsPrefix

LEMMA PersistKeepsShown ==
  ASSUME TypeInv, ShownTurnsAreStored, RepliesAreStored,
         NEW t \in Busy, Persist(t), UNCHANGED <<cap, view, asked>>
  PROVE  ShownTurnsAreStored' /\ RepliesAreStored'
<1> DEFINE turns == Append(req[t].history, req[t].turn)
<1>t. /\ t \in Tabs /\ req[t] # None /\ req[t] \in Request
      /\ req[t].history \in Turns /\ req[t].turn \in 1..MaxTurns /\ turns \in Turns
  BY TurnsType DEF Busy, Request
<1>v. view[t].id = req[t].id /\ view[t].turns = req[t].history /\ view' = view
  BY <1>t DEF TypeInv, RequestsMatchViews
<1>p. IsPrefix(turns, turns) /\ IsPrefix(req[t].history, turns)
  <2>1. /\ req[t].history \in Seq(1..MaxTurns) /\ turns \in Seq(1..MaxTurns)
        /\ req[t].turn \in 1..MaxTurns
    BY <1>t DEF Turns
  <2>2. IsPrefix(req[t].history, turns)  BY <2>1, PrefixOfAppend DEF turns
  <2>3. IsPrefix(turns, turns)  BY <2>1, PrefixOfItself
  <2> QED  BY <2>2, <2>3
<1>y. /\ store \in [Ids -> {None} \cup Conversation]
      /\ req \in [Tabs -> {None} \cup Request]
      /\ log \in Seq(Entry) /\ None \notin Ids
  BY ChatAssumption DEF TypeInv, TypeOK, Entry
<1> DEFINE Wrote(i) ==
             /\ req[t].id \in {i, None} /\ log' = Append(log, [tab |-> t, id |-> i])
             /\ \A j \in Ids \ {i} : store'[j] \in {store[j], None}
             /\ store'[i] # None => store'[i].turns = turns
             /\ req'[t].id = i /\ req'[t].history = req[t].history
             /\ req'[t].turn = req[t].turn
             /\ \A u \in Tabs \ {t} : req'[u] = req[u]
<1> HIDE DEF turns, Wrote
\* The conversation written is i, if there is one.
<1>c. ASSUME NEW i \in Ids, Wrote(i)  PROVE ShownTurnsAreStored' /\ RepliesAreStored'
  <2>w. /\ i \in Ids
        /\ req[t].id \in {i, None} /\ log' = Append(log, [tab |-> t, id |-> i])
        /\ \A j \in Ids \ {i} : store'[j] \in {store[j], None}
        /\ store'[i] # None => store'[i].turns = turns
        /\ req'[t].id = i /\ req'[t].history = req[t].history
        /\ req'[t].turn = req[t].turn
        /\ \A u \in Tabs \ {t} : req'[u] = req[u]
    BY <1>c DEF Wrote
  <2>1. \A j : Writers(log', j) = Writers(log, j) \cup (IF i = j THEN {t} ELSE {})
    <3>1. [tab |-> t, id |-> i] \in Entry  BY <2>w, <1>t DEF Entry
    <3> QED  BY <3>1, <2>w, <1>y, WritersOfAppend
  <2>2. ASSUME NEW u \in Tabs \ {t}, NEW j \in Stored', Writers(log', j) = {u}
        PROVE  j \in Stored /\ Writers(log, j) = {u} /\ store'[j] = store[j]
    <3>1. j # i /\ Writers(log, j) = {u}  BY <2>1, <2>2
    <3> QED  BY <3>1, <2>w DEF Stored
  <2>3. ShownTurnsAreStored'
    <3>1. SUFFICES ASSUME NEW u \in Tabs, view'[u].id \in Stored',
                          Writers(log', view'[u].id) = {u}
                   PROVE  IsPrefix(view'[u].turns, store'[view'[u].id].turns)
      BY DEF ShownTurnsAreStored
    <3>2. CASE u = t
      <4>1. view[t].id = i  BY <3>1, <3>2, <2>w, <1>v, <1>y DEF Stored
      <4>2. store'[i].turns = turns
        BY <3>1, <3>2, <4>1, <2>w, <1>v DEF Stored
      <4> QED  BY <4>1, <4>2, <3>2, <1>v, <1>p
    <3>3. CASE u # t
      <4>1. view[u].id \in Stored /\ Writers(log, view[u].id) = {u}
            /\ store'[view[u].id] = store[view[u].id]
        BY <3>1, <3>3, <2>2, <1>v
      <4> QED  BY <4>1, <1>v DEF ShownTurnsAreStored
    <3> QED  BY <3>2, <3>3
  <2>4. RepliesAreStored'
    <3>1. SUFFICES ASSUME NEW u \in Tabs, In(u, "reply")', req'[u].id \in Stored',
                          Writers(log', req'[u].id) = {u}
                   PROVE  IsPrefix(Append(req'[u].history, req'[u].turn),
                                   store'[req'[u].id].turns)
      BY DEF RepliesAreStored
    <3>2. CASE u = t
      <4>1. store'[i].turns = turns  BY <3>1, <3>2, <2>w DEF Stored
      <4> QED  BY <4>1, <3>2, <2>w, <1>p DEF turns
    <3>3. CASE u # t
      <4>1. req'[u] = req[u]  BY <3>3, <2>w
      <4>2. req[u].id \in Stored /\ Writers(log, req[u].id) = {u}
            /\ store'[req[u].id] = store[req[u].id]
        BY <3>1, <3>3, <4>1, <2>2
      <4>3. In(u, "reply")  BY <3>1, <4>1 DEF In
      <4> QED  BY <4>1, <4>2, <4>3 DEF RepliesAreStored
    <3> QED  BY <3>2, <3>3
  <2> QED  BY <2>3, <2>4
<1>1. ASSUME NEW i \in Ids, req[t].id = None,
             store' = PruneToCap([store EXCEPT ![i] =
                        [turns |-> turns, created |-> Now, updated |-> Now]]),
             log' = Append(log, [tab |-> t, id |-> i]),
             req' = [req EXCEPT ![t].phase = "reply", ![t].id = i]
      PROVE  ShownTurnsAreStored' /\ RepliesAreStored'
  <2> DEFINE s == [store EXCEPT ![i] =
                     [turns |-> turns, created |-> Now, updated |-> Now]]
  <2>1. s[i].turns = turns /\ \A j \in Ids \ {i} : s[j] = store[j]
    BY <1>y
  <2> HIDE DEF s
  <2>2. \A j \in Ids : store'[j] \in {None, s[j]}
    BY <1>1, Pruned DEF s
  <2>3. req'[t] = [req[t] EXCEPT !.phase = "reply", !.id = i]
        /\ \A u \in Tabs \ {t} : req'[u] = req[u]
    BY <1>1, <1>t, <1>y
  <2>4. req'[t].id = i /\ req'[t].history = req[t].history /\ req'[t].turn = req[t].turn
    BY <2>3, <1>t DEF Request
  <2>5. /\ \A j \in Ids \ {i} : store'[j] \in {store[j], None}
        /\ store'[i] # None => store'[i].turns = turns
    BY <2>1, <2>2
  <2>6. Wrote(i)  BY <2>3, <2>4, <2>5, <1>1 DEF Wrote
  <2> QED  BY <2>6, <1>c
<1>2. ASSUME req[t].id # None, req' = [req EXCEPT ![t].phase = "reply"]
      PROVE  /\ req[t].id \in Ids /\ req'[t].id = req[t].id
             /\ req'[t].history = req[t].history /\ req'[t].turn = req[t].turn
             /\ \A u \in Tabs \ {t} : req'[u] = req[u]
  <2>1. req'[t] = [req[t] EXCEPT !.phase = "reply"]
        /\ \A u \in Tabs \ {t} : req'[u] = req[u]
    BY <1>2, <1>t, <1>y
  <2> QED  BY <2>1, <1>2, <1>t DEF Request
<1>3. ASSUME NEW i, i = req[t].id, i # None, store[i] # None,
             store' = [store EXCEPT ![i].turns = turns, ![i].updated = Now],
             log' = Append(log, [tab |-> t, id |-> i]),
             req' = [req EXCEPT ![t].phase = "reply"]
      PROVE  ShownTurnsAreStored' /\ RepliesAreStored'
  <2>1. i \in Ids /\ store[i] \in Conversation  BY <1>2, <1>3, <1>y
  <2>2. store'[i] = [store[i] EXCEPT !.turns = turns, !.updated = Now]
        /\ \A j \in Ids \ {i} : store'[j] = store[j]
    BY <1>3, <1>y, <2>1
  <2>3. store'[i].turns = turns
    BY <2>1, <2>2 DEF Conversation
  <2>4. \A j \in Ids \ {i} : store'[j] \in {store[j], None}
    BY <2>2
  <2>5. req'[t].id = i /\ req'[t].history = req[t].history
        /\ req'[t].turn = req[t].turn /\ \A u \in Tabs \ {t} : req'[u] = req[u]
    BY <1>2, <1>3
  <2>6. Wrote(i)  BY <1>3, <2>3, <2>4, <2>5 DEF Wrote
  <2> QED  BY <2>1, <2>6, <1>c
<1>4. ASSUME req[t].id # None, store[req[t].id] = None, store' = store, log' = log,
             req' = [req EXCEPT ![t].phase = "reply"]
      PROVE  ShownTurnsAreStored' /\ RepliesAreStored'
  <2>1. ShownTurnsAreStored'
    BY <1>4, <1>v DEF ShownTurnsAreStored, Stored
  <2>2. RepliesAreStored'
    BY <1>2, <1>4 DEF RepliesAreStored, Stored, In
  <2> QED  BY <2>1, <2>2
<1> QED
  BY <1>1, <1>3, <1>4, PersistEffect DEF turns

\* Steps that write nothing.
LEMMA QuietStepKeepsShown ==
  ASSUME TypeInv, ShownTurnsAreStored, RepliesAreStored, log' = log,
         \A i \in Ids : store'[i] \in {store[i], None},
         \A t \in Tabs :
            LET i == view'[t].id
            IN  i \in Stored /\ Writers(log, i) = {t}
                   => IsPrefix(view'[t].turns, store[i].turns),
         \A t \in Tabs : In(t, "reply")' => In(t, "reply") /\ req'[t] = req[t]
  PROVE  ShownTurnsAreStored' /\ RepliesAreStored'
<1>1. \A i : i \in Stored' => i \in Stored /\ store'[i] = store[i]
  BY DEF Stored
<1>2. \A i : Writers(log', i) = Writers(log, i)
  OBVIOUS
<1>3. ShownTurnsAreStored'
  BY <1>1, <1>2 DEF ShownTurnsAreStored
<1>4. RepliesAreStored'
  <2>1. SUFFICES ASSUME NEW t \in Tabs, In(t, "reply")', req'[t].id \in Stored',
                        Writers(log', req'[t].id) = {t}
                 PROVE  IsPrefix(Append(req'[t].history, req'[t].turn),
                                 store'[req'[t].id].turns)
    BY DEF RepliesAreStored
  <2> QED  BY <2>1, <1>1, <1>2 DEF RepliesAreStored
<1> QED  BY <1>3, <1>4

LEMMA StepKeepsShown ==
  ASSUME TypeInv, ShownTurnsAreStored, RepliesAreStored, [Next]_vars
  PROVE  ShownTurnsAreStored' /\ RepliesAreStored'
<1>y. /\ store \in [Ids -> {None} \cup Conversation] /\ None \notin Ids
      /\ view \in [Tabs -> [id: Ids \cup {None}, turns: Turns]]
      /\ req \in [Tabs -> {None} \cup Request]
  BY ChatAssumption DEF TypeInv, TypeOK
<1> DEFINE Shows(t) ==
             LET i == view'[t].id
             IN  i \in Stored /\ Writers(log, i) = {t}
                    => IsPrefix(view'[t].turns, store[i].turns)
           Waits(t) == In(t, "reply")' => In(t, "reply") /\ req'[t] = req[t]
           Quiet == /\ log' = log
                    /\ \A i \in Ids : store'[i] \in {store[i], None}
                    /\ \A t \in Tabs : Shows(t) /\ Waits(t)
<1>s. ASSUME NEW u \in Tabs, view'[u] = view[u]  PROVE Shows(u)
  BY <1>s DEF ShownTurnsAreStored
<1>q. Quiet => ShownTurnsAreStored' /\ RepliesAreStored'
  BY QuietStepKeepsShown
<1> HIDE DEF Quiet, Shows
<1>1. ASSUME NEW t \in Tabs, Answer(t) \/ PlainChat(t)
      PROVE  ShownTurnsAreStored' /\ RepliesAreStored'
  <2>1. t \in Busy /\ Persist(t) /\ UNCHANGED <<cap, view, asked>>
    BY <1>1 DEF Answer, PlainChat, Busy, In
  <2> QED  BY <2>1, PersistKeepsShown
<1>2. ASSUME log' = log, \A i \in Ids : store'[i] \in {store[i], None}, view' = view,
             \A t \in Tabs : Waits(t)
      PROVE  ShownTurnsAreStored' /\ RepliesAreStored'
  BY <1>2, <1>s, <1>q DEF Quiet
<1>3. ASSUME NEW t \in Tabs, view' = view, store' = store, log' = log,
             \A u \in Tabs \ {t} : req'[u] = req[u],
             req'[t] = None \/ req'[t].phase # "reply"
      PROVE  ShownTurnsAreStored' /\ RepliesAreStored'
  <2>1. \A u \in Tabs : Waits(u)  BY <1>3 DEF In
  <2> QED  BY <2>1, <1>3, <1>2
<1>4. ASSUME NEW t \in Tabs, NEW route \in {"plain", "stream"}, Begin(t, route)
      PROVE  ShownTurnsAreStored' /\ RepliesAreStored'
  <2>1. req'[t].phase = "call" /\ \A u \in Tabs \ {t} : req'[u] = req[u]
    BY <1>4, <1>y DEF Begin
  <2> QED  BY <2>1, <1>3, <1>4 DEF Begin
<1>5. ASSUME NEW t \in Tabs, NEW stop, Return(t, stop)
      PROVE  ShownTurnsAreStored' /\ RepliesAreStored'
  <2>1. req'[t] = [req[t] EXCEPT !.phase = "returned", !.stop = stop]
        /\ \A u \in Tabs \ {t} : req'[u] = req[u]
    BY <1>5, <1>y DEF Return, In
  <2>2. req[t] \in Request  BY <1>5, <1>y DEF Return, In
  <2>3. req'[t].phase = "returned"  BY <2>1, <2>2 DEF Request
  <2> QED  BY <2>1, <2>3, <1>3, <1>5 DEF Return
<1>6. ASSUME NEW t \in Tabs, NEW result, ToolRound(t, result)
      PROVE  ShownTurnsAreStored' /\ RepliesAreStored'
  <2>1. req[t] \in Request  BY <1>6, <1>y DEF ToolRound, In
  <2>2. req'[t].phase = "call"
    BY <2>1, <1>6, <1>y DEF ToolRound, Request
  <2>3. \A u \in Tabs \ {t} : req'[u] = req[u]  BY <1>6, <1>y DEF ToolRound
  <2> QED  BY <2>2, <2>3, <1>3, <1>6 DEF ToolRound
<1>7. ASSUME NEW t \in Tabs, Deliver(t)
      PROVE  ShownTurnsAreStored' /\ RepliesAreStored'
  <2>1. /\ view'[t].id = req[t].id
        /\ view'[t].turns = Append(req[t].history, req[t].turn)
        /\ In(t, "reply") /\ req'[t] = None
        /\ \A u \in Tabs \ {t} : view'[u] = view[u] /\ req'[u] = req[u]
    BY <1>7, <1>y DEF Deliver
  <2>2. Shows(t)  BY <2>1 DEF Shows, RepliesAreStored
  <2>3. \A u \in Tabs : Shows(u)  BY <2>1, <2>2, <1>s
  <2>4. \A u \in Tabs : Waits(u)  BY <2>1 DEF In
  <2>5. log' = log /\ store' = store  BY <1>7 DEF Deliver
  <2> QED  BY <2>3, <2>4, <2>5, <1>q DEF Quiet
<1>8. ASSUME NEW t \in Tabs, Fail(t) \/ Disconnect(t)
      PROVE  ShownTurnsAreStored' /\ RepliesAreStored'
  <2>1. req'[t] = None /\ \A u \in Tabs \ {t} : req'[u] = req[u]
    BY <1>8, <1>y DEF Fail, Disconnect
  <2> QED  BY <2>1, <1>3, <1>8 DEF Fail, Disconnect
<1>9. ASSUME NEW t \in Tabs, (\E i \in Ids : Open(t, i)) \/ NewChat(t)
      PROVE  ShownTurnsAreStored' /\ RepliesAreStored'
  <2>1. /\ log' = log /\ store' = store /\ req' = req
        /\ \A u \in Tabs \ {t} : view'[u] = view[u]
    BY <1>9, <1>y DEF Open, NewChat
  <2>2. ASSUME NewChat(t)  PROVE Shows(t)
    <3>1. view'[t].id = None  BY <2>2, <1>y DEF NewChat, Blank
    <3> QED  BY <3>1, <1>y DEF Shows, Stored
  <2>3. ASSUME NEW i \in Ids, Open(t, i)  PROVE Shows(t)
    <3>1. view'[t].id = i /\ view'[t].turns = store[i].turns /\ store[i] # None
      BY <2>3, <1>y DEF Open
    <3>2. store[i].turns \in Seq(1..MaxTurns)
      BY <3>1, <1>y DEF Conversation, Turns
    <3>3. IsPrefix(store[i].turns, store[i].turns)  BY <3>2, PrefixOfItself
    <3> QED  BY <3>1, <3>3 DEF Shows
  <2>4. Shows(t)  BY <2>2, <2>3, <1>9
  <2>5. \A u \in Tabs : Shows(u)  BY <2>1, <2>4, <1>s
  <2>6. \A u \in Tabs : Waits(u)  BY <2>1 DEF In
  <2> QED  BY <2>1, <2>5, <2>6, <1>q DEF Quiet
<1>10. ASSUME NEW i \in Ids, Delete(i)
       PROVE  ShownTurnsAreStored' /\ RepliesAreStored'
  <2>1. \A j \in Ids : store'[j] \in {store[j], None}  BY <1>10, <1>y DEF Delete
  <2>2. \A u \in Tabs : Waits(u)  BY <1>10 DEF Delete, In
  <2> QED  BY <2>1, <2>2, <1>2, <1>10 DEF Delete
<1>11. ASSUME NEW n \in Caps, Restart(n)
       PROVE  ShownTurnsAreStored' /\ RepliesAreStored'
  <2>1. \A u \in Tabs : Waits(u)  BY <1>11 DEF Restart, In
  <2> QED  BY <2>1, <1>2, <1>11 DEF Restart
<1>12. CASE UNCHANGED vars
  <2>1. \A u \in Tabs : Waits(u)  BY <1>12 DEF vars, In
  <2> QED  BY <2>1, <1>2, <1>12 DEF vars
<1> QED
  BY <1>1, <1>4, <1>5, <1>6, <1>7, <1>8, <1>9, <1>10, <1>11, <1>12 DEF Next, Advance

(* What a tab shows of a conversation that it alone writes is in the store *)
(* as long as the store has the conversation at all: an answer is stored,  *)
(* with the whole history, before its reply event, and a failure, a lost   *)
(* connection or a restart in between takes nothing back.                  *)
THEOREM ShownStored == Spec => []ShownTurnsAreStored
<1>1. Init => ShownTurnsAreStored /\ RepliesAreStored
  BY DEF Init, ShownTurnsAreStored, RepliesAreStored, Stored
<1>2. TypeInv /\ ShownTurnsAreStored /\ RepliesAreStored /\ [Next]_vars
         => ShownTurnsAreStored' /\ RepliesAreStored'
  BY StepKeepsShown
<1> QED  BY <1>1, <1>2, TypeInvHolds, PTL DEF Spec

-----------------------------------------------------------------------------
(***************************************************************************)
(* Pruning.                                                                *)
(***************************************************************************)
LEMMA LeastIn ==
  ASSUME NEW S, S \subseteq Nat, S # {}
  PROVE  \E x \in S : \A y \in S : x <= y
<1> DEFINE L == OpToRel(<, Nat)
<1>0. \A y, x \in Nat : y < x => <<y, x>> \in L
  BY DEF OpToRel
<1>1. IsWellFoundedOn(L, Nat)
  BY NatLessThanWellFounded
<1> HIDE DEF L
<1>2. PICK x \in S : \A y \in S : ~ (<<y, x>> \in L)
  BY <1>1, WFMin
<1>3. ASSUME NEW y \in S PROVE x <= y
  <2>1. y \in Nat /\ x \in Nat  OBVIOUS
  <2>2. ~ (<<y, x>> \in L)  BY <1>2
  <2>3. ~ (y < x)  BY <2>1, <2>2, <1>0
  <2> QED  BY <2>1, <2>3
<1> QED  BY <1>3

LEMMA GreatestIn ==
  ASSUME NEW n \in Nat, NEW S, S \subseteq 1..n, S # {}
  PROVE  \E x \in S : \A y \in S : y <= x
<1> DEFINE D == {n - x : x \in S}
<1>0. \A x \in S : n - x \in Nat
  <2>1. TAKE x \in S
  <2>2. x \in 1..n  OBVIOUS
  <2> QED  BY <2>2
<1>1. D \subseteq Nat /\ D # {}  BY <1>0
<1> HIDE DEF D
<1>2. PICK d \in D : \A e \in D : d <= e  BY <1>1, LeastIn
<1>3. PICK x \in S : d = n - x  BY DEF D
<1>4. ASSUME NEW y \in S PROVE y <= x
  <2>1. n - y \in D  BY DEF D
  <2>2. n - x <= n - y  BY <2>1, <1>2, <1>3
  <2>3. x \in 1..n /\ y \in 1..n  OBVIOUS
  <2> QED  BY <2>2, <2>3
<1> QED  BY <1>4

\* Keep, of rows with distinct times, those with fewer than m later ones: at
\* most m are kept, and if any is not, it is m, all later than that one.
LEMMA MostRecent ==
  ASSUME NEW R, IsFiniteSet(R), NEW n \in Nat, NEW m \in Nat \ {0}, NEW f \in [R -> 1..n],
         \A x, y \in R : f[x] = f[y] => x = y,
         NEW Above \in [R -> SUBSET R], \A x, y \in R : y \in Above[x] <=> f[y] > f[x],
         NEW T \in SUBSET R, \A x \in R : x \in T <=> ~ (Cardinality(Above[x]) >= m)
  PROVE  /\ Cardinality(T) <= m
         /\ \A x \in R \ T : Cardinality(T) = m /\ \A y \in T : f[y] > f[x]
<1>f. \A x \in R : f[x] \in 1..n /\ f[x] \in Nat  OBVIOUS
<1>1. \A x \in R : IsFiniteSet(Above[x]) /\ Cardinality(Above[x]) \in Nat
  BY FS_Subset, FS_CardinalityType
<1>2. IsFiniteSet(T) /\ Cardinality(T) \in Nat
  BY FS_Subset, FS_CardinalityType
<1>3. ASSUME NEW x \in T, NEW y \in R, f[y] > f[x]  PROVE y \in T
  <2>1. Above[y] \subseteq Above[x]
    <3>1. ASSUME NEW z \in Above[y]  PROVE z \in Above[x]
      <4>1. z \in R /\ f[z] > f[y]  OBVIOUS
      <4>2. f[z] > f[x]  BY <4>1, <1>3, <1>f
      <4> QED  BY <4>1, <4>2
    <3> QED  BY <3>1
  <2>2. Cardinality(Above[y]) <= Cardinality(Above[x])
    BY <2>1, <1>1, FS_Subset
  <2> QED  BY <2>2, <1>1
<1>4. Cardinality(T) <= m
  <2>1. CASE T = {}  BY <2>1, FS_EmptySet
  <2>2. CASE T # {}
    <3>1. {f[x] : x \in T} \subseteq Nat /\ {f[x] : x \in T} # {}
      BY <2>2, <1>f
    <3>2. \E v \in {f[x] : x \in T} : \A w \in {f[x] : x \in T} : v <= w
      BY <3>1, LeastIn
    <3>3. PICK x \in T : \A y \in T : f[x] <= f[y]  BY <3>2
    <3>4. T \subseteq {x} \cup Above[x]
      <4>1. ASSUME NEW y \in T, y # x PROVE y \in Above[x]
        <5>1. f[x] <= f[y] /\ f[x] # f[y]  BY <4>1, <3>3
        <5> QED  BY <5>1, <1>f, <1>f
      <4> QED  BY <4>1
    <3>5. Cardinality({x} \cup Above[x]) <= Cardinality(Above[x]) + 1
          /\ IsFiniteSet({x} \cup Above[x])
          /\ Cardinality({x} \cup Above[x]) \in Nat
      <4>1. x \in R /\ IsFiniteSet(Above[x]) /\ Cardinality(Above[x]) \in Nat
        BY <1>1
      <4>2. CASE x \in Above[x]
        <5>1. {x} \cup Above[x] = Above[x]  BY <4>2
        <5>2. /\ Cardinality({x} \cup Above[x]) = Cardinality(Above[x])
              /\ IsFiniteSet({x} \cup Above[x])
          BY <5>1, <4>1, Zenon
        <5> QED  BY <5>2, <4>1
      <4>3. CASE x \notin Above[x]
        <5>1. IsFiniteSet(Above[x] \cup {x})
              /\ Cardinality(Above[x] \cup {x}) = Cardinality(Above[x]) + 1
          BY <4>1, <4>3, FS_AddElement
        <5>2. Above[x] \cup {x} = {x} \cup Above[x]  OBVIOUS
        <5>3. /\ Cardinality({x} \cup Above[x]) = Cardinality(Above[x]) + 1
              /\ IsFiniteSet({x} \cup Above[x])
          BY <5>1, <5>2, Zenon
        <5> QED  BY <5>3, <4>1
      <4> QED  BY <4>2, <4>3
    <3>6. Cardinality(T) <= Cardinality({x} \cup Above[x])
      BY <3>4, <3>5, FS_Subset
    <3>7. Cardinality(Above[x]) < m  BY <1>1, <1>1
    <3> QED  BY <3>5, <3>6, <3>7, <1>1, <1>2
  <2> QED  BY <2>1, <2>2
<1>5. ASSUME NEW x \in R \ T
      PROVE  Cardinality(T) = m /\ \A y \in T : f[y] > f[x]
  <2>1. ASSUME NEW y \in T PROVE f[y] > f[x]
    <3>1. f[y] # f[x]  OBVIOUS
    <3>2. ~ (f[x] > f[y])  BY <1>3
    <3> QED  BY <3>1, <3>2, <1>f
  <2>2. {f[y] : y \in R \ T} \subseteq 1..n /\ {f[y] : y \in R \ T} # {}
    BY <1>f
  <2>3. \E v \in {f[y] : y \in R \ T} : \A w \in {f[y] : y \in R \ T} : w <= v
    BY <2>2, GreatestIn
  <2>4. PICK z \in R \ T : \A y \in R \ T : f[y] <= f[z]  BY <2>3
  <2>5. Above[z] \subseteq T
    <3>1. ASSUME NEW y \in Above[z], y \notin T PROVE FALSE
      <4>1. y \in R /\ f[y] > f[z] /\ f[y] <= f[z]  BY <3>1, <2>4
      <4> QED  BY <4>1, <1>f
    <3> QED  BY <3>1
  <2>6. Cardinality(Above[z]) >= m  OBVIOUS
  <2>7. Cardinality(Above[z]) <= Cardinality(T)  BY <2>5, <1>2, FS_Subset
  <2>8. Cardinality(T) = m  BY <2>6, <2>7, <1>4, <1>1, <1>2
  <2> QED  BY <2>1, <2>8
<1> QED  BY <1>4, <1>5

\* A row has the time of the last write of its conversation.
DatedBy(s, l) ==
    \A i \in Ids : s[i] # None =>
        /\ s[i].updated \in 1..Len(l) /\ l[s[i].updated].id = i
        /\ \A k \in 1..Len(l) : l[k].id = i => k <= s[i].updated

Dated == DatedBy(store, log)

LEMMA LastWriteIs ==
  ASSUME NEW s, NEW l \in Seq(Entry), DatedBy(s, l), NEW i \in Ids, s[i] # None
  PROVE  LastWrite(l, i) = s[i].updated
<1> DEFINE I == {k \in 1..Len(l) : l[k].id = i}
           u == s[i].updated
<1>1. u \in I /\ I \subseteq Nat /\ \A k \in I : k <= u
  BY DEF DatedBy
<1>2. LastWrite(l, i) = Max(I)
  BY <1>1 DEF LastWrite, SelectLastInSeq
<1> HIDE DEF I, u
<1>3. \A x \in I : (\A y \in I : x >= y) => x = u
  <2>1. TAKE x \in I
  <2>2. HAVE \A y \in I : x >= y
  <2>3. x >= u /\ x <= u /\ x \in Nat /\ u \in Nat  BY <2>2, <1>1
  <2> QED  BY <2>3
<1>4. \A y \in I : u >= y
  <2>1. TAKE y \in I
  <2>2. y <= u /\ y \in Nat /\ u \in Nat  BY <1>1
  <2> QED  BY <2>2
<1>5. Max(I) = u  BY <1>1, <1>3, <1>4 DEF Max
<1> QED  BY <1>2, <1>5 DEF u

LEMMA WriteIsDated ==
  ASSUME NEW s, NEW new, NEW l \in Seq(Entry), DatedBy(s, l), NEW w \in Entry,
         new[w.id].updated = Len(l) + 1, \A j \in Ids \ {w.id} : new[j] = s[j]
  PROVE  DatedBy(new, Append(l, w))
<1> DEFINE m == Append(l, w)
<1>1. /\ Len(l) \in Nat /\ Len(m) = Len(l) + 1 /\ m[Len(l) + 1] = w
      /\ \A k \in 1..Len(l) : m[k] = l[k]
  OBVIOUS
<1> HIDE DEF m
<1>2. SUFFICES ASSUME NEW i \in Ids, new[i] # None
               PROVE  /\ new[i].updated \in 1..Len(m) /\ m[new[i].updated].id = i
                      /\ \A k \in 1..Len(m) : m[k].id = i => k <= new[i].updated
  BY DEF DatedBy, m
<1>3. CASE i = w.id  BY <1>1, <1>3
<1>4. CASE i # w.id
  <2>1. new[i] = s[i]  BY <1>4
  <2>2. /\ s[i].updated \in 1..Len(l) /\ l[s[i].updated].id = i
        /\ \A k \in 1..Len(l) : l[k].id = i => k <= s[i].updated
    BY <1>2, <2>1 DEF DatedBy
  <2>3. s[i].updated \in 1..Len(m) /\ m[s[i].updated].id = i
    BY <2>2, <1>1
  <2>4. ASSUME NEW k \in 1..Len(m), m[k].id = i  PROVE k <= s[i].updated
    <3>1. k # Len(l) + 1  BY <2>4, <1>4, <1>1
    <3>2. k \in 1..Len(l)  BY <3>1, <1>1
    <3> QED  BY <3>2, <2>4, <2>2, <1>1
  <2> QED  BY <2>1, <2>3, <2>4
<1> QED  BY <1>3, <1>4

LEMMA StepKeepsDated ==
  ASSUME TypeInv, Dated, [Next]_vars
  PROVE  Dated'
<1>y. /\ store \in [Ids -> {None} \cup Conversation] /\ log \in Seq(Entry)
      /\ req \in [Tabs -> {None} \cup Request]
  BY DEF TypeInv, TypeOK, Entry
<1>1. ASSUME NEW l, NEW s, DatedBy(s, l), log' = l,
             \A i \in Ids : store'[i] \in {s[i], None}
      PROVE  Dated'
  <2>1. \A i \in Ids : store'[i] # None => store'[i] = s[i]  BY <1>1
  <2> QED  BY <2>1, <1>1 DEF Dated, DatedBy
<1>2. ASSUME NEW t \in Busy, Persist(t)  PROVE Dated'
  <2> DEFINE turns == Append(req[t].history, req[t].turn)
  <2>1. t \in Tabs /\ req[t] \in Request  BY <1>y DEF Busy
  <2>2. ASSUME NEW i \in Ids,
               store' = PruneToCap([store EXCEPT ![i] =
                          [turns |-> turns, created |-> Now, updated |-> Now]]),
               log' = Append(log, [tab |-> t, id |-> i])
        PROVE  Dated'
    <3> DEFINE s == [store EXCEPT ![i] =
                       [turns |-> turns, created |-> Now, updated |-> Now]]
               w == [tab |-> t, id |-> i]
    <3>1. w \in Entry /\ w.id = i  BY <2>1 DEF Entry
    <3>2. s[i].updated = Len(log) + 1 /\ \A j \in Ids \ {i} : s[j] = store[j]
      BY <1>y DEF Now
    <3>3. \A j \in Ids : store'[j] \in {s[j], None}  BY <2>2, Pruned
    <3> HIDE DEF s, w
    <3>4. DatedBy(s, Append(log, w))
      BY <3>1, <3>2, <1>y, WriteIsDated DEF Dated
    <3> QED  BY <3>3, <3>4, <2>2, <1>1 DEF w
  <2>3. ASSUME req[t].id # None, store[req[t].id] # None,
               store' = [store EXCEPT ![req[t].id].turns = turns,
                                      ![req[t].id].updated = Now],
               log' = Append(log, [tab |-> t, id |-> req[t].id])
        PROVE  Dated'
    <3> DEFINE i == req[t].id
               w == [tab |-> t, id |-> i]
    <3>1. i \in Ids  BY <2>1, <2>3 DEF Request
    <3>2. w \in Entry /\ w.id = i  BY <2>1, <3>1 DEF Entry
    <3>3. store[i] \in Conversation  BY <3>1, <2>3, <1>y
    <3>4. store'[i].updated = Len(log) + 1 /\ \A j \in Ids \ {i} : store'[j] = store[j]
      BY <3>1, <3>3, <2>3, <1>y DEF Now, Conversation
    <3> HIDE DEF i, w
    <3>5. DatedBy(store', Append(log, w))
      BY <3>2, <3>4, <1>y, WriteIsDated DEF Dated
    <3> QED  BY <3>5, <2>3, <1>1 DEF w, i
  <2>4. CASE store' = store /\ log' = log
    BY <2>4 DEF Dated, DatedBy
  <2> QED  BY <2>2, <2>3, <2>4, <1>2, PersistEffect
<1> QED  BY <1>1, <1>2, StoreStep DEF Dated

\* Only storing an answer makes a reply.
LEMMA ReplyStep ==
  ASSUME TypeInv, [Next]_vars, NEW t \in Tabs, In(t, "reply")'
  PROVE  \/ In(t, "reply") /\ req'[t] = req[t]
         \/ t \in Busy /\ Persist(t) /\ cap' = cap
<1>y. req \in [Tabs -> {None} \cup Request]  BY DEF TypeInv, TypeOK
<1>r. req'[t] # None /\ req'[t].phase = "reply"  BY DEF In
<1>s. SUFFICES ASSUME req'[t] # req[t]
               PROVE  t \in Busy /\ Persist(t) /\ cap' = cap
  BY <1>r DEF In
<1>1. ASSUME NEW u \in Tabs, Answer(u) \/ PlainChat(u)
      PROVE  t \in Busy /\ Persist(t) /\ cap' = cap
  <2>1. u \in Busy /\ Persist(u) /\ cap' = cap
    BY <1>1 DEF Answer, PlainChat, Busy, In
  <2>2. \/ \E i \in Ids : req' = [req EXCEPT ![u].phase = "reply", ![u].id = i]
        \/ req' = [req EXCEPT ![u].phase = "reply"]
    BY <2>1, PersistEffect
  <2>3. req'[t] = req[t] \/ u = t
    BY <2>2, <1>y
  <2> QED  BY <2>1, <2>3, <1>s
<1>2. ASSUME NEW u \in Tabs, NEW route, Begin(u, route)  PROVE FALSE
  <2>1. \A v \in Tabs \ {u} : req'[v] = req[v]  BY <1>2, <1>y DEF Begin
  <2>2. req'[u].phase = "call"  BY <1>2, <1>y DEF Begin
  <2> QED  BY <2>1, <2>2, <1>r, <1>s
<1>3. ASSUME NEW u \in Tabs, NEW stop, Return(u, stop)  PROVE FALSE
  <2>1. \A v \in Tabs \ {u} : req'[v] = req[v]  BY <1>3, <1>y DEF Return
  <2>2. req[u] \in Request  BY <1>3, <1>y DEF Return, In
  <2>3. req'[u].phase = "returned"  BY <1>3, <1>y, <2>2 DEF Return, Request
  <2> QED  BY <2>1, <2>3, <1>r, <1>s
<1>4. ASSUME NEW u \in Tabs, NEW result, ToolRound(u, result)  PROVE FALSE
  <2>1. \A v \in Tabs \ {u} : req'[v] = req[v]  BY <1>4, <1>y DEF ToolRound
  <2>2. req[u] \in Request  BY <1>4, <1>y DEF ToolRound, In
  <2>3. req'[u].phase = "call"  BY <1>4, <1>y, <2>2 DEF ToolRound, Request
  <2> QED  BY <2>1, <2>3, <1>r, <1>s
<1>5. ASSUME NEW u \in Tabs, Deliver(u) \/ Fail(u) \/ Disconnect(u)  PROVE FALSE
  <2>1. \A v \in Tabs \ {u} : req'[v] = req[v]
    BY <1>5, <1>y DEF Deliver, Fail, Disconnect
  <2>2. req'[u] = None  BY <1>5, <1>y DEF Deliver, Fail, Disconnect
  <2> QED  BY <2>1, <2>2, <1>r, <1>s
<1>6. \/ \E u \in Tabs : (\E i \in Ids : Open(u, i)) \/ NewChat(u)
      \/ \E i \in Ids : Delete(i)
      \/ UNCHANGED vars
      => FALSE
  BY <1>s DEF Open, NewChat, Delete, vars
<1>7. ASSUME NEW n, Restart(n)  PROVE FALSE
  BY <1>7, <1>r DEF Restart
<1> QED  BY <1>1, <1>2, <1>3, <1>4, <1>5, <1>6, <1>7 DEF Next, Advance

LEMMA PruneStep ==
  ASSUME TypeInv, Dated, NEW t \in Busy, Persist(t), req[t].id = None
  PROVE  LET kept == {i \in Ids : store'[i] # None}
         IN  /\ Cardinality(kept) <= cap
             /\ \A i \in Stored \ kept :
                   Cardinality({j \in kept : LastWrite(log', j) > LastWrite(log', i)}) = cap
<1>y. /\ store \in [Ids -> {None} \cup Conversation] /\ log \in Seq(Entry)
      /\ req \in [Tabs -> {None} \cup Request] /\ cap \in Nat \ {0}
      /\ \A i \in Stored : Writers(log, i) # {}
  BY ChatAssumption DEF TypeInv, TypeOK, Entry
<1> DEFINE row == [turns |-> Append(req[t].history, req[t].turn),
                   created |-> Now, updated |-> Now]
           new(i) == [store EXCEPT ![i] = row]
<1>1. PICK i \in Ids : /\ Writers(log, i) = {} /\ store' = PruneToCap(new(i))
                       /\ log' = Append(log, [tab |-> t, id |-> i])
  BY PersistEffect
<1> DEFINE s == new(i)
           w == [tab |-> t, id |-> i]
           R == {j \in Ids : s[j] # None}
           f == [j \in R |-> s[j].updated]
           Above == [x \in R |-> {j \in R : f[j] > f[x]}]
           T == {x \in R : ~ (Cardinality(Above[x]) >= cap)}
           kept == {j \in Ids : store'[j] # None}
<1>2. w \in Entry /\ w.id = i /\ t \in Tabs  BY DEF Entry, Busy
<1>3. s[i].updated = Len(log) + 1 /\ \A j \in Ids \ {i} : s[j] = store[j]
  BY <1>y DEF Now
<1>4. store' = PruneToCap(s)  BY <1>1
<1>5. log' = Append(log, w) /\ log' \in Seq(Entry) /\ Len(log') \in Nat
  BY <1>1, <1>2, <1>y
<1> HIDE DEF s, w
<1>6. DatedBy(s, log')
  BY <1>2, <1>3, <1>5, <1>y, WriteIsDated DEF Dated
<1>7. f \in [R -> 1..Len(log')] /\ \A x, y \in R : f[x] = f[y] => x = y
  <2>1. \A x \in R : s[x].updated \in 1..Len(log') /\ log'[s[x].updated].id = x
    BY <1>6 DEF DatedBy
  <2> QED  BY <2>1
<1>8. \A x \in R : f[x] = s[x].updated /\ LastWrite(log', x) = f[x]
  BY <1>5, <1>6, LastWriteIs
<1>9. IsFiniteSet(R)  BY ChatAssumption, FS_Subset
<1>10. /\ Cardinality(T) <= cap
       /\ \A x \in R \ T : Cardinality(T) = cap /\ \A y \in T : f[y] > f[x]
  <2>1. Above \in [R -> SUBSET R] /\ \A x, y \in R : y \in Above[x] <=> f[y] > f[x]
    <3> HIDE DEF R, f
    <3> QED  OBVIOUS
  <2>2. T \in SUBSET R /\ \A x \in R : x \in T <=> ~ (Cardinality(Above[x]) >= cap)
    <3> HIDE DEF R, f, Above
    <3> QED  OBVIOUS
  <2>3. /\ IsFiniteSet(R) /\ Len(log') \in Nat /\ cap \in Nat \ {0}
        /\ f \in [R -> 1..Len(log')] /\ \A x, y \in R : f[x] = f[y] => x = y
    BY <1>5, <1>7, <1>9, <1>y
  <2> HIDE DEF R, f, Above, T
  <2> QED  BY <2>1, <2>2, <2>3, MostRecent
<1>11. \A x \in R : {j \in R \ {x} : Newer(s, j, x)} = Above[x]
  <2>1. TAKE x \in R
  <2>2. \A j \in R : f[j] = s[j].updated /\ f[j] \in Nat /\ (f[j] = f[x] => j = x)
    BY <1>7, <1>8
  <2>3. \A j \in R : j \in {k \in R \ {x} : Newer(s, k, x)} <=> f[j] > f[x]
    BY <2>2 DEF Newer
  <2> QED  BY <2>3
<1>12. kept = T
  <2>1. \A x \in Ids : x \in Beyond(s, cap) <=>
           x \in R /\ Cardinality({j \in R \ {x} : Newer(s, j, x)}) >= cap
    BY DEF Beyond
  <2>2. \A x \in Ids : x \in T <=> x \in R /\ x \notin Beyond(s, cap)
    <3> HIDE DEF R, f, Above
    <3>1. R \subseteq Ids  BY DEF R
    <3> QED  BY <2>1, <1>11, <3>1
  <2>3. \A x \in Ids : store'[x] # None <=> x \in R /\ x \notin Beyond(s, cap)
    BY <1>4, Pruned
  <2> QED  BY <2>2, <2>3
<1>13. ASSUME NEW x \in Stored \ kept
       PROVE  Cardinality({j \in kept : LastWrite(log', j) > LastWrite(log', x)}) = cap
  <2>1. x \in Ids /\ x # i /\ store[x] # None  BY <1>1, <1>y DEF Stored
  <2>2. x \in R \ T  BY <2>1, <1>3, <1>12
  <2> HIDE DEF T, kept, R, f
  <2>3. Cardinality(T) = cap /\ \A y \in T : f[y] > f[x]  BY <2>2, <1>10
  <2>4. {j \in kept : LastWrite(log', j) > LastWrite(log', x)} = T
    <3>1. T \subseteq R  BY DEF T
    <3> QED  BY <3>1, <1>8, <1>12, <2>2, <2>3
  <2>5. Cardinality({j \in kept : LastWrite(log', j) > LastWrite(log', x)}) = Cardinality(T)
    BY <2>4, Zenon
  <2> QED  BY <2>3, <2>5
<1> QED  BY <1>10, <1>12, <1>13

(* Creating a conversation leaves at most cap, and removes only            *)
(* conversations of which cap others that stay were written later; the     *)
(* order by updated_at (then created_at) is the order of the writes.       *)
THEOREM PrunesOldest == Spec => PrunesLeastRecent
<1> DEFINE Creates == \E t \in Tabs : req[t] # None /\ req[t].id = None /\ In(t, "reply")'
           kept == {i \in Ids : store'[i] # None}
           Prunes == Creates =>
              /\ Cardinality(kept) <= cap
              /\ \A i \in Stored \ kept :
                    Cardinality({j \in kept : LastWrite(log', j) > LastWrite(log', i)}) = cap
<1>1. ASSUME TypeInv, Dated, [Next]_vars  PROVE Prunes
  <2>1. SUFFICES ASSUME NEW t \in Tabs, req[t] # None, req[t].id = None, In(t, "reply")'
                 PROVE  /\ Cardinality(kept) <= cap
                        /\ \A i \in Stored \ kept :
                              Cardinality({j \in kept :
                                 LastWrite(log', j) > LastWrite(log', i)}) = cap
    OBVIOUS
  <2>2. ~ In(t, "reply")  BY <2>1, <1>1 DEF TypeInv, RequestsMatchViews
  <2>3. t \in Busy /\ Persist(t)  BY <2>1, <2>2, <1>1, ReplyStep
  <2> QED  BY <2>1, <2>3, <1>1, PruneStep
<1>2. Init => Dated
  BY DEF Init, Dated, DatedBy
<1>3. TypeInv /\ Dated /\ [Next]_vars => Dated'
  BY StepKeepsDated
<1>4. TypeInv /\ Dated /\ [Next]_vars => [Prunes]_vars
  BY <1>1
<1> QED  BY <1>2, <1>3, <1>4, TypeInvHolds, PTL DEF Spec, PrunesLeastRecent

=============================================================================
