# TLA+ models of documentation-mcp-server

The server indexes Markdown and PDF files of git repositories and local
directories, and answers searches and chats about them. What is hard about it is
that the index is built by short-lived worker processes, in two stores without a
common transaction, from clones that change under it, while anybody may ask for a
rescan, edit `sources.yaml` or `document-types.yml`, or pull the plug; and that chats
go on for minutes on an event loop while other requests come and go. These modules
model that part, and, as functions of their inputs, the chunker and the search. Paths below are relative to `src/docserver/`.

## 1. Inventory

| Component | State it keeps | Operations | Talks to |
|---|---|---|---|
| Supervisor (`ingestion_supervisor.py`) | `_current_proc`, progress, last outcome; the scheduler | `start`, `stop`, `run_subprocess_cycle`, watchdog | called by the scheduler, `/rescan`, `reindex`; spawns the worker, reads its stdout |
| Worker (`ingestion_worker.py`) | none after its exit | one cycle; progress lines, a final metrics line, an exit code | `Ingester.run_once` |
| Ingestion cycle (`ingestion.py`) | clones on disk; a walk's batch and seen ids | sync, short-circuit, listing, parse, skip, batched upsert with fallback, removal | git, the stores |
| Source cleanup (`ingestion.py`, `knowledge_base.py`) | clone directories, all sources' rows and vectors | delete or rename orphaned sources, sweep clones | `sources.yaml`, the stores |
| Stores (`knowledge_base.py`) | SQLite: `documents`, `chunks_fts`, `source_status`, `meta`; Chroma: the vectors | upsert, batch, delete, rename, status, type backfill; all reads | worker writes, server reads |
| Chat (`server.py`) | requests in flight | `/api/chat`, `/api/chat/stream`, tools, compaction | the Anthropic API, the stores, conversations |
| Conversations (`conversations.py`) | table `conversations` | create with pruning, update, get, list, delete | chat handlers |
| Search (`knowledge_base.py`, `reranker.py`) | none | dense and BM25 search, RRF, rerank, parents | the stores |
| Chunker (`ingestion.py`) | none | sections by heading, chunks by size with overlap | the worker |
| Health | chat probe result | labels per source and overall | supervisor, stores, Chroma |
| Inventory cache | one string with a TTL | get, invalidate after a cycle | chat, supervisor |
| Bookmarks (`bookmarks.py`) | table `bookmarks` | idempotent add, remove, check, list | REST, MCP |
| Document types (`config.py`, `knowledge_base.py`) | a configuration per process; the type in both stores; a key in `meta` | classify, reclassify at startup | server start, worker, both legs of the search |
| Configuration (`config.py`) | loaded once per process | parse | everything |
| Models (`embedding.py`, `reranker.py`), logging | lazily loaded sessions | inference | worker, search |

Hard behaviours, and what makes each component correct:

- **Supervisor.** Any number of threads compete for one worker; a watchdog kills
  it; `stop()` races with both; the read loop may raise under a worker that runs on.
  Correct: one worker at a time, always the tracked one, unless an exception lost it;
  every call returns; what `/health` shows belongs to the cycle it says.
- **Ingestion.** Killed at any step; SQLite commits before Chroma is called; git,
  parsing, listing, and each store may fail separately. The next cycle trusts
  HEAD and a content hash. Correct: nothing is removed for the wrong reason, the
  full-text table mirrors the rows, a fault-free walk is right whatever preceded
  it, and the index converges.
- **Source cleanup.** Sequences of edits and broken cycles; rename detection by the
  clone's URL. Correct: a configured source keeps its documents, an orphan's go
  away, a rename moves everything.
- **Chat.** Interleaved streams, disconnections, deletions, a table with a cap, a
  model that never stops calling tools. Correct: what was shown is stored, nothing
  comes back from the dead, every request ends, the context stays well formed.

- **Document types.** Server and worker read the file at different times, an
  upgrade brings other defaults, and one stored key decides whether a start does
  anything. Correct: under the current key the rows have the types of the current
  rules, and the vectors those of the rows.
- **Inventory cache.** The callback of a cycle races with requests and with the next
  cycle. Correct: what is served has what the invalidating cycle wrote, and is never
  older than the TTL and a build.
- **Search and chunker.** No state, but many orders of small inputs. Correct: the
  fusion agrees with its legs, every document found is offered once, every line of a text
  is in its place under its own headings, whatever else repeats it, and chunks keep to
  their size, prefix and overlap apart.

`PROJECT.json` lists the hazards line by line with the properties aimed at each.

## 2. Plan

| | Module | Question | State |
|---|---|---|---|
| 1 | `SingleFlight`, `Supervisor`, `SupervisorProofs` | single-flight cycles and their outcomes; refinement | done, proved |
| 2 | `KnowledgeBase`, `Ingestion`, `Index`, `IngestionProofs` | one source's cycle with faults; the abstract index it implements | done, safety and refinement proved |
| 3 | `SourceCleanup`, `SourceCleanupProofs` | several sources, renames, edits of the configuration | done, safety proved |
| 4 | `Chat`, `ChatProofs` | chat requests and conversations | done, safety proved |
| 5 | `DocTypes`, `DocTypesProofs` | types in two stores across restarts, edits, upgrades | done, proved |
| 6 | `InventoryCache`, `InventoryProofs` | cache fill against invalidation | done, proved |
| 7 | `Search`, `Chunker`, `FoldTheorems`, `ReadingProofs` | fusion, rerank, parents; sections and chunks, against reference definitions | done, proved |
| 8 | `SourceStatus` | status rows of several sources, labels of `/health`, overall status | left |
| 9 | `Supervised` | Supervisor composed with an abstract worker across server restarts: the worker of a killed server lives on beside the next one's (`ingestion_supervisor.py:347`) | left |

No theorem is left: every safety property of the runs is one, and so are both
refinements (section 6). Bookmarks
were planned and dropped: single statements on one table, nothing to relate them to.

## 3. The modules

### Supervisor

`pc[c]` is where a caller thread is in `run_subprocess_cycle` /
`_spawn_and_stream`; `proc[c]` its local `proc`. One action is one stretch of code
between two points at which another thread can be noticed: `Enter` (progress set),
`Reject`/`SpawnFail`/`Spawn` (under `_proc_lock`), `ReadProgress`, `ReadFinal`,
`Reap`, `ClearProc` (the `finally` block), then one action per outcome field, since
those are written without a lock. The callers are the scheduler's job
(`max_instances=1`), `/rescan` threads (`RescanAccept` is the endpoint's
pre-check) and the `reindex` tool. `WriteProgress`, `WriteFinal` and `Exit` are the
worker's side of the pipe; `Watchdog*` and `Stop*` the other threads. A cycle is
named by its worker's number, so the outcome fields hold the number of the cycle they
came from. `SingleFlight` is the abstract promise; `ImplementsSingleFlight` and
`EveryCycleEnds` are refinements of it under the mapping of `Flight`.

Two exceptions that nothing in `_spawn_and_stream` catches lose a worker. The read loop
may raise at any time (`ReadRaise`): output that does not decode (376), a failing write or
flush of the server's own stdout (379-380). The `finally` block then runs under a live
worker: it calls off the watchdog (401) and clears `_current_proc` (405), so that nobody
reads, tracks or kills the worker and the next one is spawned beside it. And
`watchdog.start()` may raise between Popen and the `try` (`SpawnUnwatched`): the worker
stays the current one, with neither reader nor watchdog, and while it runs every cycle is
refused. The history `lost` marks both kinds, at the moment of the exception, and
`SingleFlight` has them go astray (`GoAstray`). What is promised: no interleaving of
callers, watchdog and `stop()` loses a worker, only these exceptions do
(`LiveWorkerIsTracked`, `LiveWorkerIsStreamed`); a cycle begins only when every worker still
running was lost (`ImplementsSingleFlight`); a worker that is not lost ends
(`EveryCycleEnds`); the call returns and its progress is withdrawn in any case. Of a lost
worker nothing is promised, and there may be several at a time. Faults come when they
like, without fairness.

### KnowledgeBase and Ingestion

A document id is `<<file, k>>`, parent for k = 0, chunk otherwise; a *version* is a
file's content, its hash and its `ChunksOf` chunks. Every write of the stores is two
operators, SQLite and Chroma, because the code has no transaction over both.
`Ingestion` is `run_once` for one source. (Sources are processed one after the
other and share no ids; several of them are in SourceCleanup.) `Synced` and the
actions above it are `_sync_remote`/`_sync_local`, with a clone that may be missing,
valid, corrupt, or a directory that is no repository; `ShortCircuit` and `Enumerate`
begin the walk; `TakeFile` is one turn of the loop with its outcomes (`Skip`, `Queue`,
`ParseFail`, `Vanished`); `CommitBatch`, `SendVectors`, `RetryRow`, `RetryVector` are
the flush and its fallback; `PruneBegin`, `PruneRow`, `PruneVector` the removal.

What deserves a word: an exception outside any handler (reading the hashes, the
discovery pass) ends the worker, which is `Crash`. `Skip` reads the hash in the table
at that moment while the code reads all hashes first: the same, as a file is
taken once per walk and nobody else writes. `Blank` are contents whose chunks are
empty, `Prefix` the pairs of paths the first of which begins the second (`startswith`
in the skip). `onlyDense` remembers that nothing but Chroma has failed yet.
`SendVectors` sends any subset up to the Chroma batch size, where the code goes in
order. A forced cycle is one with `force=True`. `Edit` changes local files during the
cycle, too. That the worker is alone with the stores is an assumption here: a worker that
its supervisor lost by an exception may write beside the next one.

`ForceRepairs` is about rows, and about vectors and full text of the chunks with a text. A
chunk without one is neither embedded nor entered (`knowledge_base.py:378`, `393`), and what
the two indexes held of it before stays, a forced cycle or not.

`Index` is what a cycle promises of the documents, with the walk, the batch, the seen ids
and the fallback taken away: it has read some files (`read`), stores only rows that these
call for, removes only rows that they do not, and that after the rest is stored; if it
ends without a failure, the rows it sees to are those of what it has read. Which rows
those are is where a forced cycle differs from another: all, or the parents, for a file
whose parent is right is taken for right (`SeenTo`), and what shares the beginning of its
path is spared (`Spared`). `Fail` is everything that goes wrong, from a locked database to
SIGKILL: from then on nothing is promised of the cycle's end, but what it stores and
removes is still bounded. The mapping is the identity on the documents, the history of
what was parsed and `force`; only `pc` is made coarser (`Phase`). Full text, vectors and
the clone are not in it.

### SourceCleanup

Several names over *targets* (an entry of `sources.yaml` without its name). A source's
documents are one value, the target they were made from; its vectors are split into
the batches of `rename_source`. `clone[n]` is a directory's origin URL and HEAD.
`StartFull` begins a cycle over all sources with the cleanup, `StartOne` one for a single
source without it. `BeginRename`/`DeleteOrphan` are `_detect_rename`'s two results;
`RenameGet`, `RenameDelete`, `RenameAdd`, `RenameRows`, `MoveClone` are the migration
step by step; `Sweep`, the clone directories; the sync actions are those of Ingestion
reduced to URL and HEAD. A local target has no clone. The worker loads the
configuration when it starts, hence `Reconfigure` between cycles only. `Overlooked`
names the two histories in which HEAD is already that of the repository when the
documents are not (see the divergences).

### Chat

A turn is a question with its answer. `Begin` is a request with the client's history;
`Return` the end of an API call in its thread; `ToolRound` a round of tools with the
compaction; `Answer` what follows the last API call, up to the reply event, in one
step of the event loop, the write to the store included; `PlainChat` the whole of
`/api/chat`, which gives the loop back nowhere: one step, so that its own rounds of tools are
not seen. `MessagesAlternate`, `OnlyLatestResultsAreFull` and `ChatsEnd` are about the rounds
of the stream route. `Deliver`, `Disconnect`, `Open`,
`NewChat` are the client, of which the repository fixes only the requests; it sends
back the history it shows, as `test_chat_endpoint.py` does. `updated_at` is a
position in the log of writes. Any tab may open any conversation; since an answer
replaces the stored messages by its own client's, `ShownTurnsAreStored` is about the
conversations only one tab writes. A message to the model is its kind: the text, calls or
results it holds, and whether results are long, short or compacted.

### DocTypes

One source, one chunk per document, its type in `rows` and in `dense`. `pc` is the
server in `init_app`: `Load` reads the file, `SkipBackfill`/`BackfillRows` hash it
again and compare, `SyncVectors` is `_sync_chroma_types`, `WriteKey` the row of `meta`.
`wpc` is a worker: it loads file and name for itself, renames, and types what it
writes, row before vector. Edits of the file come at any time, of the name between
cycles, upgrades and starts while the server is down; a crash ends server and worker
together. A pattern matches a path if `Matching` says so: globbing is a constant. A
content of the file stands for its hash. The history variables say when a premise of
`RowsFollowConfig` is lost: `smooth`, when a configuration came back or the file was
edited during a start; `renamed`, when rows were renamed and not typed since.

### InventoryCache

The database is the number of commits made to it, an inventory the two numbers its two
reads saw. Chat requests are prepared one at a time on the event loop, so one build is
under way at most; `Invalidate` comes from any thread, late, for any cycle that
succeeded. `floor` is the highest state a callback promised while nothing was being
built.

### Search and Chunker

Functions of an input chosen in the initial state. A search's input is the hits of
both legs, the logits or their absence, the parents still there and the limit: the
reads are apart in time and fail separately, so all combinations are. Scores are
sums of fractions over a common denominator; a sorted list has at k the one that k - 1
others come before (`SortedBy`), which for the fusion takes the first appearance into
account, as Python's sort is stable. A text's input is its lines, each a kind
(fence, heading with its level, list item, plain, blank) and a width; a block is its
line numbers, so that where each line ends up can be said. `ParseLine` is one turn of
the loop of `_parse_sections`, `PlaceBlock` one of `_chunk_content`. The reference
definitions are sets: the fences before a line, and the headings above it that no heading
at their level or above comes after (`Fenced`, `HeadingsOf`). They share nothing with the
stack and the flag of the parser. A chunk has its own blocks (`parts`), the lines of the
overlap (`over`), and the length of its stored text (`size`), heading path, mark and overlap
included. The overlap is the end of the body before it, which may itself hold overlap, and
`prev_tail` is never reset: at the start of a section it repeats lines of the section before.
So that this is in the model, the tail keeps which lines its characters are of
(`tailLines`, each with the number of characters behind it). `MCReading` checks
the two and the cache in one run, as they have nothing in common.

### Mutations

Each module has, just before the definition they vary, a few operators marked
"Fault" (or named for it: `Upsert`, `PersistWindow`, `NewerByCreation` ...): plausible
bugs. No specification uses them. Replacing the definition that follows by one of them
makes the property it is paired with in `PROJECT.json` fail in the same run.

## 4. Runs

Runs expected to pass, `MC<module>_<run>.cfg`:

| Run | Shows | Bounds |
|---|---|---|
| Supervisor `cycles` | single flight (refinement), tracking, streaming, all but for lost workers; progress, metrics, `stop()` | the scheduler and a client, 2 workers, a progress line, exceptions at any time |
| Supervisor `live` | calls and cycles end, or their worker is lost and the call ends | the same callers, 2 workers, exceptions, fairness |
| Ingestion `local` | the refinement of Index; full text, parents, forced repair, removal, convergence | 2 files, one path a prefix of the other, 3 versions, one of them blank, 3 faults of any local kind, an edit, fairness |
| Ingestion `remote` | removal from a checkout only; a Chroma outage costs no row; all rows converge | 2 files, 2 versions, 2 faults of any kind, corrupt clones among them, 2 edits, fairness |
| SourceCleanup `orphans` | a full cycle past the cleanup has no orphan rows, whatever failed; they go for good; configured rows stay | 2 names, 4 targets, 2 faults of any kind, 2 edits, fairness |
| SourceCleanup `drift` | changes of URL and branch are followed; vectors follow rows; renames are not deletions | 3 names, 5 targets, one local, one without files, vectors in 2 batches, 2 edits, 2 sync faults; no Chroma fault |
| Chat `store` | shown is stored; removed stays removed; the most recently written stay | 2 tabs, 4 turns, caps 1 and 2 |
| Chat `rounds` | messages alternate, one long result; requests end | 2 tabs, 3 turns, 2 rounds of tools, window 2, fairness |
| DocTypes `types` | rows follow the rules under the current key; vectors follow rows while nothing fails | 2 documents, 2 names, 4 contents of the file (none, one refused), 2 releases, 3 edits, 2 faults |
| Reading `reading` | freshness and age of the inventory; fusion and parents; lines and sizes of chunks | TTL 2, build time 1, 3 commits; 4 chunks of 3 documents, 3 candidates a leg, limits 0 and 2, of an interchangeable pair of chunks the first the higher in the dense leg; texts of 6 lines of 6 kinds, target 14, overlap 5 |

The client of the Supervisor runs is in `Rescans` and in `Tools`: for each call it
chooses `/rescan` or the `reindex` tool, as two clients that call in turn would.

The bounds let the interesting cases happen: two workers are enough for a late
`finally` block to meet a newer worker, and for outcomes out of order; two files
fill a batch and overflow it, with a version of several chunks; one fault breaks a
cycle and a second the one that repairs it; three names allow a swap; four answers
with two caps an update between two prunings. Chat's window is 2 where the code has
10 and the rounds 2 where it has 10: the properties depend on the cut being inside
the history and the limit being met. In `types` a document may be typed by one
configuration, renamed, and met by another; three candidates cut from four chunks lose
one, two of them are of one document, and `k` is 1 so that ranks matter; six lines
hold two headings, a fence opened and closed and something after it, and the target
of 14 is met exactly, passed by one, and passed by a single block.
Runs whose environment is bounded (faults, edits, questions, workers) come to a stop
when it is used up, and say `CHECK_DEADLOCK FALSE`; in the code nothing stops there.

Runs expected to find a violation; each is a finding of `PROJECT.json`, with the
sentence of the repository it contradicts:

| Run | The code |
|---|---|
| Ingestion `lostcycle` | a crash after the fetch loses the change until the next commit |
| DocTypes `drifted` | a server killed between the new types' commit and Chroma's update leaves the dense filter with the old types for good |

Other places where the code does not do what a sentence of the repository says, met
while modelling. The actions are in the modules; no run is about them:

| Line | The code | The repository says |
|---|---|---|
| `ingestion_supervisor.py:376` | an exception in the read loop leaves the worker running with no reader, no watchdog and no `_current_proc`, and the next one beside it (`ReadRaise`) | docstring at 20-22, a runaway worker is killed and there is "one worker at a time per supervisor" |
| `ingestion_supervisor.py:371` | if `watchdog.start()` raises, the worker is never killed or read, and cycles are refused while it lives (`SpawnUnwatched`) | docstring at 20-22 |
| `ingestion_supervisor.py:237` | an old cycle's outcome may overwrite a newer one's, so a failure outlives the next success | comment at 86 |
| `ingestion_supervisor.py:407` | a timeout is raised before `_last_failure` is set | README.md:119, "timed out" |
| `ingestion_supervisor.py:223` | a refused call wipes the progress of the cycle in flight | docstring at 276 |
| `ingestion_supervisor.py:246` | a call may return a later cycle's stats | docstring at 211 |
| `ingestion_supervisor.py:185` | a caller about to spawn starts a worker after `stop()` | docstring at 181 |
| `ingestion.py:1595` | a parse error removes the file's documents | docs/operations.md:172 |
| `ingestion.py:1618` | after the Chroma volume is lost, unforced cycles skip unchanged files | docs/operations.md:303 |
| `ingestion.py:1344` | a failed fetch or clone is recorded as a successful check | docs/operations.md:40 |
| `ingestion.py:477` | a failed re-clone leaves a directory no later cycle repairs | log message at 463 |
| `ingestion.py:1622` | an unchanged `a.md` shields the documents of a deleted `a.md.txt` (`Shielded`) | docs/architecture.md:60 |
| `knowledge_base.py:378` | a chunk whose text becomes empty keeps its full-text entry (`FtsMirrorsDocs` excepts it) | comment at 379 |
| `ingestion.py:1089` | of two sources on one repository a renamed one is deleted: the dictionary by URL holds its twin | docs/architecture.md:73 |
| `ingestion.py:510` | a source that was turned into a local directory and back keeps the directory's documents until the next commit, as HEAD has not moved; one without matching files may keep those of a wrong clone (`Overlooked`) | docs/operations.md:347 |
| `ingestion.py:1133` | a renamed local source is deleted: it has no clone to tell it by | docstring at 1070 |
| `knowledge_base.py:905` | a Chroma error during a rename loses embeddings | docstring at 866 |
| `ingestion.py:1082` | the clone of a removed source without documents is not swept | docs/operations.md:357 |
| `ingestion.py:1440` | edited patterns have no effect until the next commit (target `md`) | docs/operations.md:347 |
| `knowledge_base.py:1235` | under an unchanged key nothing is reclassified although a worker may have typed documents by an edit since taken back, or the file was edited between load and hash (`server.py:1784`, `1787`), or a source renamed, whose unchanged documents keep the types of the old name | docs/architecture.md:123-128 |
| `knowledge_base.py:1301` | also without a crash: a failed Chroma update of types is swallowed, the key stored | docs/architecture.md:158 |
| `knowledge_base.py:1102` | the score returned is the reranker's, and a limit of zero or less (`server.py:1039`) gives one document | docstring at 1045 |
| `ingestion.py:935` | what follows a list without a heading or fence in between is one block with it, blank lines and paragraphs included; a fence on one line opens one | docstring at 871 |
| `ingestion.py:915` | a heading without text under it is in no chunk, but as part of the path of those below it | docstring at 963 |
| `server.py:1346` | an answer to a removed conversation is stored nowhere, and of two tabs on one conversation the later answer erases the other's turn | docs/architecture.md:281 |

Known limits of what holds, which the passing runs show by their premises:
`RowsMatchWalk` and `EventuallyAllRows` hold as long as nothing but Chroma fails (a
crash between the new hash and the removal leaves obsolete chunks behind); orphan
vectors after a failed Chroma deletion are allowed by the code; an inventory whose
building began before an invalidation is stored after it and served until its TTL; in
`_rrf_fuse` with the real constants, 50 chunks that both legs found at rank 61 or
better push the best hit of one leg out before the reranker sees it, hence
`BestParentsReturned` is of the candidates after that cut; the overlap of a section's first
chunk is text of the section before it, under headings that are not its own
(`ingestion.py:985`, `993`), and neither it nor the heading path in front (988) counts for
`target_size`, so that a stored chunk may be longer: `LinesKeepTheirPlace` and `ChunksFit`
say by what.

## 5. Fairness

- Supervisor: callers that can run do, a watchdog's `wait` ends, `stop()` goes on.
  Nothing about workers, which may hang, nor about requests.
- Ingestion: the scheduler starts cycles for ever and a worker makes progress (if it
  hangs, the supervisor kills it: a `Crash`). Faults and edits are finite.
- SourceCleanup: as Ingestion; `StartFull` is strongly fair, as requests for single
  sources come by hand and do not meet every tick.
- DocTypes, InventoryCache: safety only, no fairness. Search and Chunker do not run.
- Chat: API calls return (the client library has a timeout), the loop runs handlers.

## 6. Proofs

Each `*Proofs` module extends the module it is about. Every theorem is of the
module's `Spec`, without fairness, and holds for all values of the constants that
satisfy the module's named assumption, and the further hypotheses given here.

**SupervisorProofs**: type correctness, all invariants of `cycles`, and that Supervisor
refines SingleFlight, `SpawnUnwatched` and `ReadRaise` among the steps. The inductive
invariant `IInv` adds who owns which process, that
at most one process that is still being read exists, that a worker whose caller is leaving by
an exception is marked lost (`RaisedIsLost`), and that a success is recorded of
a complete cycle only; without ownership neither the overlap check nor the late
`finally` block can be seen to be harmless. That progress is withdrawn
(`ProgressWithdrawn`) needs no `IInv`: `ProgressAnnounced` says which callers may have
announced what the field holds.

**IngestionProofs**: type correctness; that removal spares what the walk parsed
(`RemovedUnseen`) and happens only from a checkout (`RemovedFromCheckout`); that a
fault-free walk leaves the right parents, but for those a parsed path shields
(`ParentsRight`); that full text mirrors the rows, but for chunks that became blank
(`FtsCorrect`). `WalkInv` says that what was parsed is seen, and is written or still in
the batch, up to the removal. Two more theorems are about all rows and vectors, chunks
included: a forced cycle without a fault repairs whatever it finds, but for the entries of
chunks without a text (`ForceMends`), and
Chroma failures cost no row (`RowsSurvive`). For them `WholeInv` follows one cycle:
the ids seen are those the parsed files call for; each has its row, or is queued; and
whatever else has a row is listed for the removal. Of a forced cycle it says the same of
vectors, which lag behind the rows while a batch is half sent (`VectorsWhole`). A cycle
that is not forced skips files by the hash of their parent alone, so `RowsSurvive` also
needs that the rows of a file not yet taken are all of one version, as they
are while nothing but Chroma has failed (`UntakenWhole`). `RowsSurvive` assumes `Prefix = {}`: a file whose
path begins another's shields its rows, a known limit (section 4), as in `remote`.

`IndexRefined` is that Ingestion implements Index. Index bounds what a cycle stores and
removes after a failure as well, so the proof needs an invariant that does not ask for a
clean cycle: `HeldInv`, that the batch holds what the parsed files call for, and that a row
they call for has been seen or is not in the table, hence is never one to be removed. A
skipped file is why it says "or is not in the table": its chunks may be missing. That
all is stored before anything goes is `WalkInv` for a cycle nobody forced, and `WholeInv`
for a forced one (`StoredOnceFlushed`); that nothing else is left at the end is
`ParentsRight` and `ForceMends` (`NothingElseWhenDone`). Each step of the worker is then a
step of Index or, most of the time, none: `FlushRefines`, `PruneRefines`,
`TakeFileRefines`, `LeaveRefines`.

**SourceCleanupProofs**: for any names, targets, batches of a rename, and edits,

| Theorem | Property | Besides the assumptions of the module |
|---|---|---|
| `TypeCorrect`, `OrphansGone`, `ConfiguredKept` | `TypeOK`, `OrphanRowsGone`, `ConfiguredRowsKept` | nothing: any faults |
| `VectorsMatch` | `VectorsMatchRows` | faults are those of the sync only |
| `NotDeleted` | `RenamedNotDeleted` | a commit hash is of one repository |
| `Synchronised` | `RowsAreConfigured` | faults are those of the sync only; a commit tells the remote target; a local directory has files |

`OrphansListed` (rows nobody configures are those of orphans the cleanup still has
before it) is why `OrphanRowsGone` holds even in cycles with faults: an exception in the
cleanup ends the cycle. `VectorsFollow` is where the vectors are in the middle of a
rename: under the new name for the batches done, under the old for the rest, the one at
hand on its way. `ClonesTell` is why a rename is not missed although `_detect_rename`
looks at clones and not at documents: a source's documents are of its clone's repository
unless a rename has just brought them or its walk is about to replace them.
`CommitsAgree` is the same with commits, for `Synchronised`. Its hypotheses are not
for the prover's sake, they mark where the code differs: with two patterns at one commit an edit of the patterns has no
effect, and with an empty local directory TLC shows a source that is turned into that
directory and back, whose documents go and do not return until the next commit, since
HEAD has not moved. After a failed Chroma call during a rename the vectors are lost
(section 4), hence the restriction of the faults.

**ChatProofs**: for any tabs, caps, windows, limits of rounds, and numbers of questions,
type correctness; that messages alternate (`Alternate`), one long result is in full
(`Compacted`), a removed conversation stays removed (`NotResurrected`), what is shown is
stored (`ShownStored`), and pruning removes the least recently written
(`PrunesOldest`). `Alternate` assumes that the window is even, and it is (10,
`server.py:633`): an odd one would begin the messages with an answer. `ShownStored`
needs the same of replies not delivered yet (`RepliesAreStored`). `PrunesOldest` needs
`Dated`, that a row's `updated` is the position of its conversation's last write, and
`MostRecent`: of rows with distinct times, to keep those with fewer than `cap` later
ones keeps at most `cap`, and drops one only when `cap` later ones stay.

**DocTypesProofs**: for any rules, names, releases, faults and edits, the two
properties of `types`. That the rows follow the current rules (`TypesFollow`) needs to
know that every key stored or about to be stored is of a file there has been, so that a
file edited to something new can never meet its own key; and that server and worker
hold what the current file says unless it was edited since. That types agree without
faults (`TypesAgree`) needs what is between the two writes: rows and vectors differ at
most in the rows about to be synced, or in the document at hand.

**InventoryProofs**: type correctness and both bounds of the cache, for any TTL,
build time and clock. `AboveFloor` says that a build which began after an invalidation
read what it promised; `InTime`, that whatever a build or the cache lacks was committed
after the build began.

**FoldTheorems, ReadingProofs**: the four properties of Search and Chunker, for any chunks,
hits, logits and limits, and for texts of any length, with any target and any positive overlap.
Both are folds over sequences. The library's induction theorems take an operator as a
parameter and cannot be used, so `FoldTheorems` derives what is needed from the
well-foundedness of the natural numbers, which is about a set: `FoldAppend`, that the fold
of a sequence with one more element is one more application, and `FoldKeeps`, that what
the operator preserves holds of the fold's result. It is stated for a constant `Op` and
used by instances, one for each operator folded.

| Theorem | Property | Argument |
|---|---|---|
| `FusionIsFaithful` | `FusionFollowsLegs` | a better rank has a larger share, so what dominates has the larger score; `SortedBy` puts it first, and both cuts keep a beginning |
| `BestParents` | `BestParentsReturned` | along the fold over the reranked chunks: the parents seen are those of the chunks so far, the documents those present among them, in the order of their first chunk |
| `ChunksNeverTooLong` | `ChunksFit` | along both folds of `_chunk_content`: the running size is at least that of the blocks held, the tail is at most the overlap, and a chunk put out fits with its prefix (`Fitting`) |
| `LinesKept` | `LinesKeepTheirPlace` | along the fold of `_parse_sections`: what is saved, held and open is in order, covers the lines so far, and the stack is the path of the next line (`Read`); then along those of `_chunk_content` (`Ordered`); what a chunk repeats is an end of the lines before its own, since the tail of a body is an end of it and only ends are passed on (`Repeats`, `TailIsLast`) |

The hypotheses are that the input is one: `SearchInit` with any limits, or a text over the
allowed lines. `LinesKept` found the one place where the model could be read in two ways:
a fence line inside a fence matched two arms of `ParseLine`'s CASE. TLC takes the first,
which is what the code does; the arms are disjoint now.

Only model-checked: the properties that rest on fairness (`CallsReturn`,
`EveryCycleEnds`, `EventuallyIndexed`, `EventuallyAllRows`, `EventuallyNoOrphanRows`,
`ChatsEnd`), which are beyond these provers. The type invariant of Ingestion is only proved
(`TypeCorrect`): no run checks it.

## 7. Not modelled

Left out so far: the labels of `/health` and the status rows of
several sources (`SourceStatus`), and two lives of the server with a
surviving worker (section 2). Of the search, the queries (SQL, FTS5 syntax, Chroma's
distances) and `query_documents`; of parsing, titles, git dates and PDF text; of the
type rules, globbing; of startup, the probe of the chat model and the port check. These
are reads or transformations of data whose result the models take as any of the
possible ones. A removed local directory that makes its source's documents disappear
(`ingestion.py:202`) is modelled as the code has it: an empty listing of a local source
is taken for the truth, and no property says otherwise. Read-only endpoints, bookmarks,
formatting, logging, memory reclamation, model downloads and inference, argument parsing
and packaging keep no state the properties could be about. Git, SQLite, Chroma, the
Anthropic API and the web client are external: modelled by what the code can observe
of them, a call that succeeds or fails and what it leaves behind.
