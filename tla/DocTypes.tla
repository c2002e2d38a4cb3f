------------------------------ MODULE DocTypes ------------------------------
(***************************************************************************)
(* The type of a document: classify_doc_type and load_doc_types_config     *)
(* (src/docserver/config.py), the reclassification at startup              *)
(* (backfill_types_if_needed, src/docserver/knowledge_base.py), and the    *)
(* worker, which types what it indexes by a configuration of its own.      *)
(*                                                                         *)
(* One source is modelled, by one chunk of each of its documents.  Its     *)
(* type is stored twice, with the row (for BM25) and with the vector (for  *)
(* the dense leg).                                                         *)
(***************************************************************************)
EXTENDS Naturals, Sequences

CONSTANTS
    Paths,      \* the documents of the source
    Names,      \* names the source may have
    Patterns, Matching,         \* patterns, and the <<path, pattern>> matches
    Types,      \* words that name a type
    Missing,    \* no document-types.yml
    Contents,   \* what document-types.yml may contain
    Yaml,       \* ... as a record of its keys
    Defaults,   \* DocTypesConfig(), by release: the default rules change
    None,       \* no row, no vector, no key, no configuration
    FaultKinds, MaxFaults,      \* the faults, and a bound on them
    MaxEdits    \* bound: edits of the two files, and upgrades

Rules  == Seq([pattern: Patterns, type: Types])
Config == [fallback: Types, global_rules: Rules, source_rules: [Names -> Rules]]

ASSUME DocTypesAssumption ==
    /\ None \notin Types \cup Config /\ Missing \in Contents
    /\ None \notin (DOMAIN Defaults) \X Contents
    /\ Yaml \in [Contents -> [types: SUBSET Types, fallback: Types,
                              global_rules: Rules, source_rules: [Names -> Rules]]]
    /\ Defaults \in Seq(Config) /\ Defaults # <<>>
    /\ MaxFaults \in Nat /\ MaxEdits \in Nat

VARIABLES
    file,       \* document-types.yml
    release,    \* the release installed
    name,       \* the source's name in sources.yaml
    rows,       \* documents.type, by path
    rowName,    \* documents.source
    dense,      \* the type in the metadata of the vector
    meta,       \* the key stored in the table meta
    pc, config, \* the server: where it is, what it loaded
    key, drift, \* ... the key to store, the vectors to update
    wpc, wconfig, wname, wpath, \* the worker: the same, and the item at hand
    past,       \* history: the contents and releases there have been
    smooth,     \* history: none came back, none came during a startup
    renamed,    \* history: the rows were renamed after they were last typed
    faults, edits

files == <<file, release, name, past, smooth>>
stores == <<rows, rowName, dense, meta, renamed>>
server == <<pc, config, key, drift>>
worker == <<wpc, wconfig, wname, wpath>>
budget == <<faults, edits>>
vars == <<files, stores, server, worker, budget>>

-----------------------------------------------------------------------------
(* classify_doc_type: the first pattern that matches, the source's rules   *)
(* before the global ones.                                                 *)
Classify(p, n, c) ==
    LET rules == c.source_rules[n] \o c.global_rules
        hits  == {i \in DOMAIN rules : <<p, rules[i].pattern>> \in Matching}
    IN  IF hits = {} THEN c.fallback
        ELSE rules[CHOOSE i \in hits : \A j \in hits : i <= j].type

(* load_doc_types_config: an empty vocabulary, or a type outside it, is    *)
(* refused; a missing file stands for the release's defaults.              *)
Valid(y) ==
    LET used(rules) == {rules[i].type : i \in DOMAIN rules} IN
    /\ y.fallback \in y.types
    /\ used(y.global_rules) \subseteq y.types
    /\ \A n \in Names : used(y.source_rules[n]) \subseteq y.types

Loaded(c, r) ==
    IF c = Missing THEN Defaults[r]
    ELSE [fallback |-> Yaml[c].fallback, global_rules |-> Yaml[c].global_rules,
          source_rules |-> Yaml[c].source_rules]
Loads(c) == c = Missing \/ Valid(Yaml[c])

(* Fault: the key leaves the release out, as it did before it had one.     *)
CacheKeyUnversioned(c, r) == <<1, c>>

(* _doc_types_cache_key: the version of the defaults and the content's     *)
(* hash, which identifies the content.                                     *)
CacheKey(c, r) == <<r, c>>

-----------------------------------------------------------------------------
Init ==
    /\ file \in Contents /\ release = 1 /\ name \in Names
    /\ past = {<<file, release>>} /\ smooth = TRUE
    /\ rows = [p \in Paths |-> None] /\ dense = [p \in Paths |-> None]
    /\ rowName = name /\ meta = None /\ renamed = FALSE
    /\ pc = "down" /\ config = None /\ key = None /\ drift = {}
    /\ wpc = "idle" /\ wconfig = None /\ wname = None /\ wpath = None
    /\ faults = 0 /\ edits = 0

Fault(kind) ==
    /\ kind \in FaultKinds /\ faults < MaxFaults
    /\ faults' = faults + 1 /\ UNCHANGED edits
Typed == {p \in Paths : rows[p] # None}
Edited == edits < MaxEdits /\ edits' = edits + 1 /\ UNCHANGED faults

(***************************************************************************)
(* The operator: edits of document-types.yml at any time, of sources.yaml  *)
(* between cycles, an upgrade while the server is down.                    *)
(***************************************************************************)
EditTypes(c) ==
    /\ Edited /\ c # file
    /\ file' = c
    /\ past' = past \cup {<<c, release>>}
    /\ smooth' = (smooth /\ pc # "backfill" /\ <<c, release>> \notin past)
    /\ UNCHANGED <<release, name, stores, server, worker>>

EditName(n) ==
    /\ Edited /\ wpc = "idle" /\ n # name
    /\ name' = n
    /\ UNCHANGED <<file, release, past, smooth, stores, server, worker>>

Upgrade ==
    /\ Edited /\ pc = "down" /\ release + 1 \in DOMAIN Defaults
    /\ release' = release + 1
    /\ past' = past \cup {<<file, release'>>}
    /\ smooth' = (smooth /\ <<file, release'>> \notin past)
    /\ UNCHANGED <<file, name, stores, server, worker>>

(* An orderly stop, and a crash of server and worker together.             *)
ForgetServer ==
    /\ pc' = "down" /\ config' = None /\ key' = None /\ drift' = {}
ForgetWorker ==
    /\ wpc' = "idle" /\ wconfig' = None /\ wname' = None /\ wpath' = None

Stop ==
    /\ pc = "up" /\ wpc = "idle"
    /\ ForgetServer
    /\ UNCHANGED <<files, stores, worker, budget>>

Crash ==
    /\ pc # "down"
    /\ Fault(IF wpc = "idle" THEN "crash" ELSE "kill")
    /\ ForgetServer /\ ForgetWorker
    /\ UNCHANGED <<files, stores>>

(***************************************************************************)
(* init_app.  The file is read once to load it and again to hash it; a     *)
(* file that does not load ends the process.                               *)
(***************************************************************************)
Load ==
    /\ pc = "down" /\ Loads(file)
    /\ config' = Loaded(file, release)
    /\ pc' = "backfill"
    /\ UNCHANGED <<key, drift, files, stores, worker, budget>>

SkipBackfill ==
    /\ pc = "backfill" /\ meta = CacheKey(file, release)
    /\ pc' = "up"
    /\ UNCHANGED <<config, key, drift, files, stores, worker, budget>>

(* One transaction for the rows whose type changes; only their chunks are  *)
(* updated in Chroma.                                                      *)
BackfillRows ==
    LET retyped == {p \in Paths : /\ rows[p] # None
                                  /\ rows[p] # Classify(p, rowName, config)} IN
    /\ pc = "backfill" /\ meta # CacheKey(file, release)
    /\ rows' = [p \in Paths |-> IF p \in retyped
                                THEN Classify(p, rowName, config) ELSE rows[p]]
    /\ drift' = retyped
    /\ key' = CacheKey(file, release)
    /\ renamed' = FALSE
    /\ pc' = "sync"
    /\ UNCHANGED <<config, rowName, dense, meta, files, worker, budget>>

(* _sync_chroma_types: ids that Chroma does not know are passed over, and  *)
(* a failure of get or update is swallowed.                                *)
SyncVectors ==
    /\ pc = "sync"
    /\ \/ /\ dense' = [p \in Paths |-> IF p \in drift /\ dense[p] # None
                                       THEN rows[p] ELSE dense[p]]
          /\ UNCHANGED budget
       \/ drift # {} /\ Fault("sync") /\ UNCHANGED dense
    /\ drift' = {} /\ pc' = "write"
    /\ UNCHANGED <<config, key, rows, rowName, meta, renamed, files, worker>>

WriteKey ==
    /\ pc = "write"
    /\ meta' = key /\ key' = None
    /\ pc' = "up"
    /\ UNCHANGED <<config, drift, rows, rowName, dense, renamed, files, worker,
                   budget>>

(***************************************************************************)
(* The worker: it loads the file as it is now, and exits if it does not    *)
(* load.  rename_source keeps the type in rows and metadata.               *)
(***************************************************************************)
WorkerStart ==
    /\ pc = "up" /\ wpc = "idle" /\ Loads(file)
    /\ wconfig' = Loaded(file, release) /\ wname' = name
    /\ wpc' = "rename"
    /\ UNCHANGED <<wpath, files, stores, server, budget>>

(* Fault: the metadata of a renamed vector loses its type.                 *)
WorkerRenameBare ==
    /\ wpc = "rename"
    /\ rowName' = wname
    /\ renamed' = (renamed \/ (rowName # wname /\ Typed # {}))
    /\ dense' = IF rowName = wname THEN dense
                ELSE [p \in Paths |-> IF dense[p] = None THEN None
                                      ELSE wconfig.fallback]
    /\ wpc' = "index"
    /\ UNCHANGED <<wconfig, wname, wpath, rows, meta, files, server, budget>>

WorkerRename ==
    /\ wpc = "rename"
    /\ rowName' = wname
    /\ renamed' = (renamed \/ (rowName # wname /\ Typed # {}))
    /\ wpc' = "index"
    /\ UNCHANGED <<wconfig, wname, wpath, rows, dense, meta, files, server, budget>>

(* A document that is new, changed or forced is typed and written: its row *)
(* first, then its vector.                                                 *)
WorkerWriteRow(p) ==
    /\ wpc = "index"
    /\ rows' = [rows EXCEPT ![p] = Classify(p, wname, wconfig)]
    /\ wpath' = p /\ wpc' = "vector"
    /\ UNCHANGED <<wconfig, wname, rowName, dense, meta, renamed, files, server,
                   budget>>

WorkerWriteVector ==
    /\ wpc = "vector"
    /\ \/ /\ dense' = [dense EXCEPT ![wpath] = rows[wpath]]
          /\ UNCHANGED budget
       \/ Fault("chroma") /\ UNCHANGED dense
    /\ wpath' = None /\ wpc' = "index"
    /\ UNCHANGED <<wconfig, wname, rows, rowName, meta, renamed, files, server>>

WorkerExit ==
    /\ wpc = "index"
    /\ ForgetWorker
    /\ UNCHANGED <<files, stores, server, budget>>

Next ==
    \/ \E c \in Contents : EditTypes(c)
    \/ \E n \in Names : EditName(n)
    \/ Upgrade \/ Stop \/ Crash
    \/ Load \/ SkipBackfill \/ BackfillRows \/ SyncVectors \/ WriteKey
    \/ WorkerStart \/ WorkerRename
    \/ \E p \in Paths : WorkerWriteRow(p)
    \/ WorkerWriteVector \/ WorkerExit

Spec == Init /\ [][Next]_vars

-----------------------------------------------------------------------------
(* While the stored key is that of document-types.yml as it is, every      *)
(* document has the type this file, or the release's defaults, give it,    *)
(* however edits, upgrades, crashes and workers came about before          *)
(* (init_app, backfill_types_if_needed, run_once): the next start may skip *)
(* the reclassification.  Two ways to miss this are left out by smooth,    *)
(* one by renamed: see the README.                                         *)
RowsFollowConfig ==
    smooth /\ ~renamed /\ meta = CacheKey(file, release) =>
        \A p \in Typed : rows[p] = Classify(p, rowName, Loaded(file, release))

(* As long as nothing fails, and whatever is edited when, the dense leg    *)
(* filters by the types BM25 filters by (backfill_types_if_needed,         *)
(* _sync_chroma_types, rename_source).                                     *)
TypesAgreeWithoutFaults ==
    pc = "up" /\ faults = 0 =>
        \A p \in Paths \ {wpath} : dense[p] = rows[p]

(* What the docstring of backfill_types_if_needed says, with no exception: *)
(* a server that is up and writes nothing has the same type in both.       *)
DenseTypesMatch ==
    pc = "up" /\ wpc = "idle" =>
        \A p \in Paths : dense[p] # None => dense[p] = rows[p]
=============================================================================
