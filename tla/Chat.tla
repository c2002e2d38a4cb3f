-------------------------------- MODULE Chat --------------------------------
(***************************************************************************)
(* The chat endpoints and the conversations they keep: /api/chat and       *)
(* /api/chat/stream (src/docserver/server.py) with the ConversationStore   *)
(* (src/docserver/conversations.py) that every request reads and writes.   *)
(*                                                                         *)
(* /api/chat awaits nothing once it has the request's body: the event loop *)
(* runs it whole.  /api/chat/stream gives the loop back at every API call, *)
(* tool call and event, so that requests, deletions and disconnections     *)
(* come in between; but what follows the last API call, up to the reply    *)
(* event, is one step, the write to the store included.                    *)
(*                                                                         *)
(* A turn is a question with its answer; it has the number of its          *)
(* question.  A tab is a client: it sends back the history it shows.       *)
(***************************************************************************)
EXTENDS Naturals, FiniteSets, Sequences, SequencesExt

CONSTANTS
    Tabs,          \* clients; one request at a time each
    Ids,           \* conversation ids (uuid4, never drawn twice)
    Caps,          \* values of DOCSERVER_MAX_CONVERSATIONS
    MaxIterations, \* CHAT_MAX_TOOL_ITERATIONS
    Window,        \* messages of the history that the model is sent
    Deletes,       \* whether conversations are deleted by hand
    None,
    MaxTurns       \* bound: questions asked

ASSUME ChatAssumption ==
    /\ Caps \subseteq Nat \ {0} /\ Caps # {}
    /\ MaxIterations \in Nat /\ Window \in Nat
    /\ Deletes \in BOOLEAN
    /\ MaxTurns \in Nat
    /\ IsFiniteSet(Ids) /\ Cardinality(Ids) >= MaxTurns
    /\ IsFiniteSet(Tabs)
    /\ None \notin Ids \cup Tabs

VARIABLES
    store,  \* the table conversations
    cap,    \* ConversationStore.max_conversations
    log,    \* history: who wrote which conversation, in order; its length is the clock
    view,   \* per tab, the conversation it shows
    req,    \* per tab, the request in flight
    asked   \* questions asked

vars == <<store, cap, log, view, req, asked>>

Turns == Seq(1..MaxTurns)
Now == Len(log) + 1
Stored == {i \in Ids : store[i] # None}
Writers(l, i) == {w.tab : w \in {x \in Range(l) : x.id = i}}
Blank == [id |-> None, turns |-> <<>>]

(***************************************************************************)
(* The messages sent to the model, each by what it is: "user" and          *)
(* "assistant" are plain text, "calls" asks for tools, and "full",         *)
(* "brief" and "short" hold results: above the threshold of compaction,    *)
(* below it, and compacted.                                                *)
(***************************************************************************)
Results == {"full", "brief", "short"}
Kinds == {"user", "assistant", "calls"} \cup Results

Spoken(turns) ==
    [k \in 1 .. 2 * Len(turns) |-> IF k % 2 = 1 THEN "user" ELSE "assistant"]

LastOf(s, n) == SubSeq(s, IF Len(s) > n THEN Len(s) - n + 1 ELSE 1, Len(s))

OpeningOneMore(history) == Append(LastOf(Spoken(history), Window + 1), "user")

Opening(history) == Append(LastOf(Spoken(history), Window), "user")

(* Content is a list in the assistant's "calls" too, so all list messages  *)
(* but the last are gone through.                                          *)
Compact(messages) ==
    LET lists == {k \in DOMAIN messages : messages[k] \in Results \cup {"calls"}}
    IN  [k \in DOMAIN messages |->
            IF messages[k] = "full" /\ \E l \in lists : l > k
            THEN "short" ELSE messages[k]]

ResultsInCompactFirst(messages, result) == Compact(messages) \o <<"calls", result>>

ResultsIn(messages, result) == Compact(messages \o <<"calls", result>>)

Conversation == [turns: Turns, created: 1..MaxTurns, updated: 1..MaxTurns]
Request ==
    [route: {"plain", "stream"}, phase: {"call", "returned", "reply"},
     stop: {None, "end", "tools", "no_blocks"},
     id: Ids \cup {None}, history: Turns, turn: 1..MaxTurns,
     messages: Seq(Kinds), iterations: 0..MaxIterations]

TypeOK ==
    /\ store \in [Ids -> {None} \cup Conversation]
    /\ cap \in Caps
    /\ log \in Seq([tab: Tabs, id: Ids]) /\ Len(log) <= asked
    /\ view \in [Tabs -> [id: Ids \cup {None}, turns: Turns]]
    /\ req \in [Tabs -> {None} \cup Request]
    /\ asked \in 0..MaxTurns
    /\ \A i \in Stored : Writers(log, i) # {}

Init ==
    /\ store = [i \in Ids |-> None]
    /\ cap \in Caps
    /\ log = <<>>
    /\ view = [t \in Tabs |-> Blank]
    /\ req = [t \in Tabs |-> None]
    /\ asked = 0

(***************************************************************************)
(* ConversationStore.  Each method is one transaction.                     *)
(***************************************************************************)
NewerByCreation(s, i, j) == s[i].created > s[j].created

Newer(s, i, j) ==
    \/ s[i].updated > s[j].updated
    \/ s[i].updated = s[j].updated /\ s[i].created > s[j].created

Beyond(s, n) ==
    LET rows == {i \in Ids : s[i] # None}
    IN  {i \in rows : Cardinality({j \in rows \ {i} : Newer(s, j, i)}) >= n}

PruneToCap(s) == [i \in Ids |-> IF i \in Beyond(s, cap) THEN None ELSE s[i]]

Create(t, turns) ==
    \E i \in {j \in Ids : Writers(log, j) = {}} :
        /\ store' = PruneToCap([store EXCEPT ![i] =
                        [turns |-> turns, created |-> Now, updated |-> Now]])
        /\ log' = Append(log, [tab |-> t, id |-> i])
        /\ req' = [req EXCEPT ![t].phase = "reply", ![t].id = i]

Upsert(t, i, turns) ==
    /\ store' = [store EXCEPT ![i] = [turns |-> turns, created |-> Now, updated |-> Now]]
    /\ log' = Append(log, [tab |-> t, id |-> i])
    /\ req' = [req EXCEPT ![t].phase = "reply"]

(* The caller ignores that update found no row.                            *)
Update(t, i, turns) ==
    /\ IF store[i] = None
       THEN UNCHANGED <<store, log>>
       ELSE /\ store' = [store EXCEPT ![i].turns = turns, ![i].updated = Now]
            /\ log' = Append(log, [tab |-> t, id |-> i])
    /\ req' = [req EXCEPT ![t].phase = "reply"]

Delete(i) ==
    /\ Deletes /\ store[i] # None
    /\ store' = [store EXCEPT ![i] = None]
    /\ UNCHANGED <<cap, log, view, req, asked>>

(***************************************************************************)
(* Requests.                                                               *)
(***************************************************************************)
Begin(t, route) ==
    /\ req[t] = None /\ asked < MaxTurns
    /\ asked' = asked + 1
    /\ req' = [req EXCEPT ![t] =
          [route |-> route, phase |-> "call", stop |-> None,
           id |-> view[t].id, history |-> view[t].turns, turn |-> asked + 1,
           messages |-> Opening(view[t].turns), iterations |-> 0]]
    /\ UNCHANGED <<store, cap, log, view>>

In(t, phase) == req[t] # None /\ req[t].phase = phase
Streams(t) == req[t].route = "stream"

(* The thread that called the API is done; the loop will go on with it.    *)
(* Why the model stopped is its own affair: it may ask for tools for ever, *)
(* or say so and ask for none.                                             *)
Return(t, stop) ==
    /\ In(t, "call") /\ Streams(t)
    /\ req' = [req EXCEPT ![t].phase = "returned", ![t].stop = stop]
    /\ UNCHANGED <<store, cap, log, view, asked>>

ToolRoundOverTheLimit(t, result) ==
    /\ In(t, "returned")
    /\ req[t].stop = "tools" /\ req[t].iterations <= MaxIterations
    /\ req' = [req EXCEPT ![t].phase = "call", ![t].stop = None,
                          ![t].iterations = @ + 1,
                          ![t].messages = ResultsIn(@, result)]
    /\ UNCHANGED <<store, cap, log, view, asked>>

ToolRound(t, result) ==
    /\ In(t, "returned")
    /\ req[t].stop = "tools" /\ req[t].iterations < MaxIterations
    /\ req' = [req EXCEPT ![t].phase = "call", ![t].stop = None,
                          ![t].iterations = @ + 1,
                          ![t].messages = ResultsIn(@, result)]
    /\ UNCHANGED <<store, cap, log, view, asked>>

PersistWindow(t) ==
    LET turns == LastOf(req[t].history, Window \div 2) \o <<req[t].turn>>
    IN  IF req[t].id = None THEN Create(t, turns) ELSE Update(t, req[t].id, turns)

Persist(t) ==
    LET turns == Append(req[t].history, req[t].turn)
    IN  IF req[t].id = None THEN Create(t, turns) ELSE Update(t, req[t].id, turns)

AnswerWhenTheModelEnds(t) ==
    /\ In(t, "returned") /\ req[t].stop # "tools"
    /\ Persist(t)
    /\ UNCHANGED <<cap, view, asked>>

(* At the limit the reply is whatever text came with the tool calls.       *)
Answer(t) ==
    /\ In(t, "returned")
    /\ req[t].stop = "tools" => req[t].iterations = MaxIterations
    /\ Persist(t)
    /\ UNCHANGED <<cap, view, asked>>

(* /api/chat, all its rounds included.                                     *)
PlainChat(t) ==
    /\ In(t, "call") /\ ~Streams(t)
    /\ Persist(t)
    /\ UNCHANGED <<cap, view, asked>>

(* An exception of the API, a tool or SQLite: an error instead of a reply. *)
Fail(t) ==
    /\ req[t] # None /\ req[t].phase # "reply"
    /\ req' = [req EXCEPT ![t] = None]
    /\ UNCHANGED <<store, cap, log, view, asked>>

(***************************************************************************)
(* The clients, and the process.                                           *)
(***************************************************************************)
Deliver(t) ==
    /\ In(t, "reply")
    /\ view' = [view EXCEPT ![t] = [id |-> req[t].id,
                                    turns |-> Append(req[t].history, req[t].turn)]]
    /\ req' = [req EXCEPT ![t] = None]
    /\ UNCHANGED <<store, cap, log, asked>>

(* The connection is gone.  A stream is cancelled where it is; /api/chat   *)
(* is not, it only loses its reply.                                        *)
Disconnect(t) ==
    /\ req[t] # None
    /\ Streams(t) \/ In(t, "reply")
    /\ req' = [req EXCEPT ![t] = None]
    /\ UNCHANGED <<store, cap, log, view, asked>>

Open(t, i) ==
    /\ req[t] = None /\ store[i] # None
    /\ view' = [view EXCEPT ![t] = [id |-> i, turns |-> store[i].turns]]
    /\ UNCHANGED <<store, cap, log, req, asked>>

NewChat(t) ==
    /\ req[t] = None
    /\ view' = [view EXCEPT ![t] = Blank]
    /\ UNCHANGED <<store, cap, log, req, asked>>

Restart(n) ==
    /\ cap' = n
    /\ req' = [t \in Tabs |-> None]
    /\ UNCHANGED <<store, log, view, asked>>

Advance(t) ==
    \/ \E stop \in {"end", "tools", "no_blocks"} : Return(t, stop)
    \/ \E result \in {"full", "brief"} : ToolRound(t, result)
    \/ Answer(t)
    \/ PlainChat(t)
    \/ Deliver(t)

Next ==
    \/ \E t \in Tabs :
        \/ \E route \in {"plain", "stream"} : Begin(t, route)
        \/ Advance(t)
        \/ Fail(t)
        \/ Disconnect(t)
        \/ \E i \in Ids : Open(t, i)
        \/ NewChat(t)
    \/ \E i \in Ids : Delete(i)
    \/ \E n \in Caps : Restart(n)

Spec == Init /\ [][Next]_vars

(* An API call returns (the client library gives up after its timeout),    *)
(* and the event loop comes round to every handler.                        *)
FairSpec == Spec /\ \A t \in Tabs : WF_vars(Advance(t))

\* A tab never shows more of a conversation that it alone writes than the
\* store keeps: whatever failed, was cut off or restarted, opening it again
\* loses nothing that was shown (the answer is persisted before the reply
\* event, with the whole history and not the window the model was sent).
\* Deleted and pruned conversations are not shown by the store at all.
ShownTurnsAreStored ==
    \A t \in Tabs : LET i == view[t].id IN
        i \in Stored /\ Writers(log, i) = {t} => IsPrefix(view[t].turns, store[i].turns)

\* What a deletion or the cap removed stays removed: a stream that was under
\* way for it does not bring it back (update is not an upsert).
NothingResurrected ==
    [][\A i \in Ids : Writers(log, i) # {} /\ store[i] = None => store'[i] = None]_vars

LastWrite(l, i) == SelectLastInSeq(l, LAMBDA w : w.id = i)

\* create leaves no more conversations than the cap, and removes one only for
\* cap others that were written after it: also when the cap was lowered by a
\* restart, and whatever was updated in between.
PrunesLeastRecent ==
    [][(\E t \in Tabs : req[t] # None /\ req[t].id = None /\ In(t, "reply")') =>
          LET kept == {i \in Ids : store'[i] # None}
          IN  /\ Cardinality(kept) <= cap
              /\ \A i \in Stored \ kept :
                    Cardinality({j \in kept : LastWrite(log', j) > LastWrite(log', i)}) = cap]_vars

\* Every API call has at most one message of uncompacted long results, the
\* latest: old ones do not pile up in the context.
OnlyLatestResultsAreFull ==
    \A t \in Tabs : In(t, "call") =>
        LET ms == req[t].messages
        IN  \A k \in DOMAIN ms : ms[k] = "full" => k = Len(ms)

\* Every API call is sent messages that begin with the user's and alternate,
\* however the history was cut and however many rounds of tools there were.
MessagesAlternate ==
    \A t \in Tabs : In(t, "call") =>
        LET ms == req[t].messages
            OfUser(k) == ms[k] \in {"user"} \cup Results
        IN  /\ \A k \in DOMAIN ms : OfUser(k) <=> k % 2 = 1
            /\ OfUser(Len(ms))

\* No chat request goes on for ever, even with a model that always asks for
\* another tool.
ChatsEnd == \A t \in Tabs : req[t] # None ~> req[t] = None

=============================================================================
