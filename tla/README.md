# A verification project for the memory-augmented retrieval chatbot

TLA+ models of the chatbot (`src/app.py`, `src/src/`, `src/braemon/`,
`src/evals/`), TLC runs that check them on small instances, and TLAPS proofs of
the properties that matter most for every instance. Paths are relative to the
repository, with the leading `src/src/` of the Python package left out.

Contents: 1 the system, 2 the modules, 3 the runs, 4 what does not hold,
5 the proofs, 6 what is only model-checked, 7 the plan, 8 what is not modelled.

## 1. The system

One Python process runs a Chainlit application. An asyncio **event loop**
executes the browser callbacks and the REST routes; long work runs on the
threads of the loop's **default executor**. All durable state is one SQLite
database (`database.py`, one transaction per `with connect()`), plus two
derived indexes (a sqlite-vec table for memories, Chroma for documents). A React
frontend (`src/braemon/`) and a script in the Chainlit page talk to it.

| Component | State | Operations | What makes it correct | Modules |
|---|---|---|---|---|
| Chat lifecycle and guard (`app.py`, `api_routes.py`, `actions/chat_end.py`, `lifecycle/operation_guard.py`) | `chats.active`, a process-local `RLock` per chat | send, end (browser / REST), consolidate, reactivate, delete, create | messages only while active; an ended chat is complete; operations of a chat exclude each other; every request finishes | `ChatLifecycle`, `ChatContract` |
| Structured memory (`memory/short_term.py`, `memory/langmem_structured.py`) | `messages.summarized`, `chat_memory_state` | select a batch, extract, store, mark | nothing is marked before it is stored; nothing stored is dropped; batches are whole; the last proposal of a memory counts | `ChatLifecycle`, `MemoryBatches`, `MemoryProposals` |
| Episodic gists (`memory/previous_chat_gist.py`) | `messages.gist_processed`, `chat_gists` | finalize at Chat End, generate when another chat starts | flags and gist rows agree; nothing is told twice | `ChatLifecycle` |
| Long-term store and vectors (`memory/long_term_*`) | `long_term_memories`, vector table | upsert, status routes, sync, the three retrieval modes | the index follows the table; what is recalled is current, and cut only by the limit | `MemoryStore` |
| Documents (`documents/`, `chat_service.index_document_file`) | `document_records`, `chat_documents`, `operation_results`, Chroma chunks | upload, retry, activate, deactivate, delete; search and neighbours | a retried upload is idempotent; a Ready file that has any text is indexed; a hit quotes one passage | `DocumentUpload`, `DocumentContract`, `DocumentChunks` |
| Chat fork (`actions/chat_fork.py`, `Database.fork_chat`) | a copy of a chat's rows | fork | all or nothing; references point into the copy | `ChatFork` |
| Turn (`agents/coordinator_agent.py`, `orchestration/`) | `messages`, the dispatcher's shared list of errors | route, retrieve, rank, build, call, save | a turn reads its own errors; a demo answer is grounded | `TurnPipeline` |
| Routing (`routing/`) | none | native and semantic routing | the evidence a plan demands can be delivered | `Routing`, `RoutingMessages` |
| Retrieval and ranking (`retrieval/`) | none | windows, chunks, gist expansion; ranking cascade | the best match is quoted, once; no candidate is lost or doubled | `SpanRetrieval`, `Reranking` |
| Context (`context/`) | shared estimators | budget, selection, packet, prompt; token counting | budgets are kept; required evidence survives; the prompt ends in the question | `WorkingBudget`, `ContextSelection`, `PromptMessages`, `TokenCounting` |
| Connection guard (`connection_guard.py`, `model_wrapper.py`) | cached health and its age | check, ping, mark unreachable | a failure is remembered for the whole time to live | `ConnectionGuard` |
| Browser sessions and navigation (`app.py`, `public/product-navigation.js`) | Chainlit session variables, the script's state | send, end, new chat, fork, home, page load | the tab shows the inspections of its chat; lifecycle actions finish cleanly | `BrowserSession` |
| Frontend (`src/braemon/`) | React state | record pages, chat page | a page at rest shows the store; a message is sent as shown, on the connection the page opened | `RecordPages`, `ChatPage` |
| Evaluations (`src/evals/`) | `results.jsonl`, prepared histories | run, resume, judge only | nothing is paid for twice; answers saw one history | `EvalRun` |
| Relational store, data layer, inspection, configuration | the tables of the above | | | partly, in the modules that use them |

Components interact by calls in one process, by the shared database and by the
per-chat guard. The hard behaviours are listed in `PROJECT.json` ("hazards"):
coroutines and worker threads sharing one reentrant lock, updates that read,
call a model for seconds and write back, objects without a lock shared by worker
threads, deletions and restarts between two transactions of one operation,
retries, error paths that return normally, window messages that arrive after
the tab has moved on, and arithmetic on several competing budgets.

## 2. Modules

`ChatLifecycle` and `DocumentUpload` are the core: each has MC modules and runs
of its own. The other components ("services") are one module each, without
shared variables; `MCServices` gives all of them instances. `Routing` and
`WorkingBudget` are pure: `RoutingMessages` and `TurnPipeline` extend the first,
`ContextSelection` the second.

| Module | Models | Theorems in |
|---|---|---|
| `ChatLifecycle`, `ChatContract` | one chat and every operation on it, as interleaved requests; what the application promises about a chat, in six actions | `ChatLifecycle_proofs` |
| `DocumentUpload`, `DocumentContract` | uploaded documents: upload and retry, the document routes, what a turn may search; what the application promises about a document, in ten actions | `DocumentUpload_proofs` |
| `DocumentChunks` | chunks of a PDF and their neighbours | `ContextSelection_proofs` |
| `MemoryStore`, `ChatFork` | table, index and copies of memories; the copy of a chat | `Database_proofs` |
| `MemoryBatches`, `MemoryProposals` | which messages an update consumes; what becomes of what a model proposes | `Database_proofs` |
| `TurnPipeline`, `Routing`, `RoutingMessages`, `PromptMessages` | the stages of a turn; the routers; the prompt | `Turn_proofs` |
| `WorkingBudget`, `ContextSelection` | the budget; the selection and the packet | `ContextSelection_proofs` |
| `Reranking`, `SpanRetrieval` | ranking; raw spans | `ContextSelection_proofs` |
| `ConnectionGuard`, `TokenCounting` | state shared by threads that call and count | `Turn_proofs` |
| `BrowserSession`, `ChatPage`, `RecordPages` | the tab, the chat page, the record pages | `Browser_proofs` |
| `EvalRun`, `EvalLedger` | resumable evaluations; what their results promise to whoever pays for the calls, in three actions | `EvalRun_proofs` |
| `MCChatLifecycle`, `MCDocumentUpload`, `MCServices` | instances for TLC; the services side by side | `Services_proofs` (of `MCServices`) |

### ChatLifecycle

Locks, flags and rows are keyed by chat, so the module follows **one** chat.
`Procs` are the requests in flight; each has a program location `pc`, the
operation it performs `op`, and its local variables (`mine` the persisted user
message, `batch` the messages selected, `seen` the memory state it read). A
step is one transaction, one lock operation or one model call.

* *Threads.* `OnLoop(p)` holds while `p` is a coroutine between two awaits: no
  other coroutine may start a segment then (`LoopFree`). `OnWorker(p)` holds
  while `p` occupies an executor thread, of which there are `PoolSize`. The
  thread follows from `pc` and `op`: memory processing runs on the loop after a
  turn and in a browser Chat End, on a worker for the REST routes.
* *Guard.* `owner` and `holders` are the `RLock`: the owning thread and the
  with-blocks entered. `Acquire` lets a thread re-enter. Consolidate enters on
  the loop thread and keeps the lock over its `await`, so `GuardThread` of its
  request is `Loop` although its job runs on a worker. A coroutine that meets a
  lock owned by a worker blocks the loop: it stays `OnLoop`.
* *Turn* (`Send` .. `FinalizeStart`). The guard is taken twice, once to persist
  the question and once for the turn; the executor queue lies between. The
  memory update after the answer is on the loop and takes no guard.
* *Memory* (`MemSelect` .. `MemMark`). One batch after a turn; until nothing is
  left or a batch fails for Chat End and Consolidate. Token counts are left
  out: `UnitBatches` are all oldest-first selections of whole
  question-and-answer units with at least one question, which is what some
  token sizes and limits select; `Stalls` is the case where leading answers
  fill the batch alone and nothing is selected. The state read before the model
  call (`MemRead`) is written back after it (`MemStore`), the flags follow in
  another transaction (`MemMark`). A message's facts are represented by its id,
  in `memory` (this chat's `chat_memory_state`) and in `longTerm`.
* *Chat End* (`EndUi`, `EndApi` .. `EndMark`). Memory processing, then gists
  over batches of `GistBatch`, then the mark. An exception leaves the guarded
  block and undoes nothing (`Raises`).
* *Consolidate*, *gist generation* (started by the start of another chat, on
  the loop, unguarded), *Reactivate*, *Delete* (cascades), *StartChat* (an id
  is created again: `start_chat` with a thread id, `update_thread`) and *Crash*
  (the process restarts: locks and requests are gone, rows remain).

Abstracted on purpose: contents, titles and timestamps; uploads inside a
message (they run in the same loop segment under the same guard and touch other
tables: `DocumentUpload`); the awaits that only update the browser; `update_message_content`
(contents); the `agentic_each_turn` memory policy. `users` is the role of every
id ever issued, so it does not shrink when rows go. A no-op extraction is an
accepted batch with nothing to store.

### ChatContract

`chat`, `msgs`, `final`. A message is posted one at a time and only to an
active chat; finalized messages stay finalized; a chat ends only when all its
messages are finalized; it may be reopened; removal empties it; a created chat
is empty. `ChatLifecycle` implements it with `final <- gisted`
(`KeepsContract`).

### DocumentUpload

The tables `document_records` (`records`, `names`), `chat_documents` (`links`)
and `operation_results` (`operations`), and which documents have their chunks
in Chroma (`chunks`).

* *Processes.* `index_document_file` and the API handlers run on the event loop
  without an await inside, so one location `step` with its `job` and `doc` says
  where the loop is. Turns run on worker threads and interleave with every step
  of the loop (`turns`). The guard of the chat is not a variable: it is held by
  the upload from `Lock` on (`Uploading`) and by a turn as long as it lasts
  (`InTurn`), and the loop waits in step `"lock"`.
* *Upload* (`Arrive` .. `Link`). A step is one transaction or one call of the
  vector store. An operation id is determined by the chat and the file. The
  retry of a Ready document only associates it (`BeginReady`), any other retry
  indexes again (`BeginRetry`), and one whose record is gone raises
  (`BeginMissing`). Every step may raise: `IndexFails`, `MarkReadyRaises`,
  `StoreRaises` (a foreign key, a full disk, a busy database). The lost race of
  `claim_document_upload` needs a second process and is left out.
* *Routes.* `Deactivate`, `Activate`, `PurgeChunks` then `HardDelete`,
  `DeleteChat`, `StartChat`, `IndexUnscoped` (the upload page, without a
  record).
* *Turn* (`TurnStart` .. `Search`). Reads its chat row, resolves its documents
  by the rules of `DocumentRegistry` (`Refused`, `Resolved`), falls back to all
  Ready documents in a second transaction, and searches. A message says nothing
  of documents, "this document", or a file name; it is an input of the step
  that resolves it, which allows every message.
* *Crash.* The process restarts at any step; nothing repairs the stores.

`answered` (what clients were told) and `managed` (what a route has touched) are
history variables: no action reads them.

`Blank` are the files whose text is split into nothing: an empty `.txt` or `.md`,
a PDF whose lines are all repeated headers. The code skips `add_documents` for
them and marks the document Ready all the same, and so does `Index`: such a
document is Ready without a chunk, and the properties that promise chunks speak
of the other files.

Abstracted: the limit of 100 rows of the fallback, and the batches of an upsert:
the chunks of a document are stored in one step. Texts, summaries and chunks are
in `DocumentChunks`.

### DocumentContract

`claims` (the document of each operation id), `shown` (what the registry shows
of a document: unknown, pending, ready, withdrawn, removed), `searchable` (Ready
documents with chunks), `linked` and `told`. A document is accepted under an
operation id that has none; it becomes ready and, unless its file is blank,
searchable in one step; a chat
learns of success only for a ready document, which is its own from then on; only
a route withdraws, restores or removes one, and only the retry of its own
upload takes a withdrawn one back. `DocumentUpload` implements it
(`KeepsDocumentContract`) with `shown <- ShownAs(records[d])`: "Uploading",
"Indexing" and "Failed" are all pending, because each of them may still become
Ready, and `searchable` the Ready documents that have chunks. What the contract
leaves open is what the code leaves open: `Restore` may make a document ready
that nothing has indexed, and `Purge` takes a document out of the index before
`Remove` takes it out of the registry.
### MemoryStore

`rows` (the table, one row per memory with its row id), `vectors` (per row id),
`copies` (`chat_memory_state`), `batchOf` (the local variables of each batch in
flight). A batch reads what is known (`Begin`), and for each record commits the
row (`Commit`), reads it back (`Reread`), writes or fails to write its vector
(`Sync`, `SyncFails`) and finally stores the copy (`Remember`). `Deactivate`,
`Activate` and `Remove` are the REST routes: they change the table only.
`Restart` ends all batches. Retrieval is the operator `Recalled`, in the modes
sqlite, vector and hybrid, with the embedding model reachable or not. `drifted`
(history) names the memories whose index something kept from its row: a failed
write, a restart, a route, two batches at once. Embeddings are the fact they
were made from. Memories do not expire: `_compute_expires_at` has no caller.

Every mode cuts at `RecallLimit` (the plan's limit, or 10), and each where the
code does: a search of the table ranks the matching rows of each category
(`CategoryOf`, the namespace) and cuts every category (`RowsFound`), while
without a query it lists all rows; the index takes the nearest of *all* vectors,
those of inactive or vanished rows included, before any is looked up (`Nearest`,
`FromIndex`); the hybrid mode cuts the union of both. Which rows come first is a
matter of scores, so these operators give the set of possible answers. What an
answer may lack on account of the limit is `MayLack`.

### MemoryBatches, MemoryProposals

`MemoryBatches` selects: `log` (messages with role, tokens, the batch that
consumed them), `batches` (the number of the last one), the trigger, token,
message and protection limits of the online and the replay profile, and the
policies. The units of the code are consumed from the oldest on, so a batch is
what is pending before some `Cuts`: the places where a unit begins, or the end. `UpdateOnline`, `UpdateLatestTurn`,
`StartLoop` .. `LoopEnds` are the entry points of `ShortTermMemory`.

`MemoryProposals` follows one update of one chat: `LoadExisting`, `Extract` or
`ExtractionFails`, `NormalizeNext` (the drop reasons in the order of the code;
`Upserted` replaces an earlier record of the same id), `BeginWrites`,
`WriteNext` or `WriteFails`, `Accept`. Of several valid proposals of one memory
the last counts, also when it is the superseded version of a correction.

### ChatFork

`saved`, `gistRows` and `inspected` of all chats with global message ids.
`LookUp` reads the source outside the transaction, `Copy` is the transaction,
`RollBack` a reference that cannot be mapped. Turns, gists and deletions
interleave.

### Routing, RoutingMessages, TurnPipeline

A message is the set of word groups it matches. `RulePlan`, `ModelPlan`,
`RouteNative` and `RouteSemantic` are the routers; `EvidenceContract` is what
the semantic router demands and `FailsContract` the check of the graph.
`TurnPipeline` is `run_turn`: every stage and every error path, the modes
native, shadow and demo, and the list `last_errors` that all turns of a
dispatcher share (`lastErrors`). `disturbed` (history) marks a turn during
whose retrieval another used the list.

### PromptMessages

`dialogue` is the chat in the database, `ask` the turns. `RetrieveRecent` reads
the newest messages up to the question, `BuildPacket` drops those that count
as the latest query and keeps a suffix that fits, `AssemblePrompt` validates
the packet and falls back to the legacy prompt, `SaveReply` and `EmbedTrace`
write the answer and later overwrite it with its trace. A text is the set of its
words, so that "contains" is a subset. The suffix is any suffix: sizes are in
`ContextSelection`.

### WorkingBudget, ContextSelection

`WorkingBudget` is the arithmetic from the window to the grant; `Int`, because
settings may be negative and the code clamps with `max(0, ..)`.
`ContextSelection` is `select` twice (a preflight without limit that yields the
floor, then the real one) and the packet that is reduced while it is too long.
Actions are the iterations of the code's loops: `AlreadyServed`, `Require`,
`NothingServes` per requirement, `TakeRecent`, `PickOptional`, `SkipOptional`,
`StopOptional`, `GrantBudget`, `Build`, `RemoveOptional`, `RemoveRequired`,
`PacketReady`. `choice` is the candidate that was selected for a requirement;
`replaced` (history) is set when a required gist is folded into an optional
span. The cost of a selection is the number of its tokens, counted as pairs of
a candidate and a token, so that it can be reasoned about without a recursive
sum. `RAW_SOURCES` is a frozenset: `rawFirst` is which element comes first.

### Reranking, SpanRetrieval

`Reranking` is the cascade with its gates and fallbacks; scores are inputs. A
sorted list gives each candidate the place of how many stand above it, which is
what the stable sorts of the code do. Normalized scores are any that keep the
order within a source.
`SpanRetrieval` has the four ways to raw messages: windows around hits, merged
and cut to size; an explicit span; the chronological chunks of a summary; the
spans behind gists. Merged windows are the longest runs of what the windows
cover, given by their end points; a chunk is the messages that share a start;
the neighbours shown with an anchor are added by their distance from it. Its
one-step actions apply the operators to a transcript.

### DocumentChunks

The lines of a PDF, normalized and stored as chunks; a search in the scope of a
turn with its summary candidate; the ranking; and `ExpandNeighbors`, which reads
the store a second time while uploads and deletions go on. `LoadIsRefused`
comes before the normalization, so an accepted file may have no chunk. A chunk
is one line; number 0 is the summary.

### ConnectionGuard, TokenCounting

Both are objects that worker threads share without a lock; an action is one
access to a shared cell. `ConnectionGuard` has the two time stamps as ages,
`TokenCounting` the per-estimator fields and the process-wide cache that is
filled under one lock.

### BrowserSession, ChatPage, RecordPages

`BrowserSession`: handlers of one tab between their awaits, the session
variables, the queue of window messages (`outbox`, bound `MaxQueue`), and the
state of the navigation script (`tab`). A page load gives the tab a new session;
a handler of the old one goes on and what it sends is lost.

`ChatPage`: mounts, uploads in flight, requests whose answers navigate, and the
library's state that outlives the mounts: its atoms, its session's connection
(`link`) and the connections it still prepares (`late`). The effect that
connects runs in the steps of `hook`: it sets the atoms (`waiting`), asks for the
debounced connect (`pending`), which begins (`firing`) and at last replaces the
session (`over`). Only the run that asks leaves a cleanup, and the next change of
the session takes it away: it cancels a pending connect for good (the page then
never connects), or comes too late for one that has begun (`loose`). So leaving a
settled page disconnects nothing: the old chat's connection serves the next page
until that has opened its own, and a connect begun for an earlier page may
replace a later one's. `link.own` says whether the mount opened the connection.
That the library prepares a connection between the debounce and the exchange of
the session, and when it sets the session anew, is external.

`RecordPages`: loads in two slots (React does not cancel an earlier one),
optimistic patches, refusals that are answered with status 200, and lists cut at
`ListLimit` (100 chats, 100 documents, 200 memories; the frontend never sends
another). The two lists of a page are parts of one answer or two. `cutParts`
(history) are the lists that were cut. The records of the chat pages are the
chats with messages, the only ones the route lists; a first message is a change
by another client.

### EvalRun

One output directory and its invocations: rows appended to `results.jsonl`, the
copy that a resumed run reads (`job.prior`), histories replayed into working
databases and copied (`snapshots`), failures, fail-fast, and crashes in the
middle of a row (`torn`). `forgetful` (history) is set by a run that ignores
earlier rows. `EvalLedger` is what the file promises: a ledger of answers and of
verdicts, to which entries are only added, in three actions (`Answer`, `Grade`,
`Waive`). The refinement takes an answered row to an entry of `answers`, a
completed row of a judge to one of `verdicts`, each at its place in the file;
failed and torn rows are not seen, and `forgetful` waives the promise.
A snapshot of the history that was complete before the model call failed is left
out of `GenerationFails` (the next case takes it again), and replies are
distinguished by the theorem only: the run has one.

## 3. Runs

| Run | Instance | Shows |
|---|---|---|
| `lifecycle_all` | 2 requests at a time, 3 in all, every operation, deletion, re-creation and restart at any step | well-formed states; the exclusion the guard really gives; gist flags are covered; summarized messages are durable; the requests never all wait for each other; the contract (which finalizes ended chats and admits messages to active chats only) |
| `lifecycle_browser` | 2 at a time, 3 in all, browser operations only | no stored memory is lost: everything that updates it runs on the loop |
| `lifecycle_guarded` | 2 at a time, no gist generation, no re-creation | answers keep their questions; no message is in two gists |
| `lifecycle_live` | 2 at a time, fair | every accepted request finishes |
| `documents` | 2 chats, 2 files of which one is blank, 2 documents, 1 turn; uploads, failures, routes and crashes without bound | Ready documents are indexed and stay Ready; answered uploads stay usable; claimed keys have records; resolved documents are searchable; registry, keys, links and answers change only as `DocumentContract` allows |
| `services` | the instances of `services.cfg` | one or two properties for each service, below |
| `end_pending` | send, REST end | *violated*: an ended chat may hold unprocessed messages |
| `guard_reentered` | send, consolidate | *violated*: two operations inside the guard at once |
| `memory_lost` | send, REST end | *violated*: a stale memory state overwrites a newer one |
| `scope_lost` | as `documents` | *violated*: a turn searches without a document filter |
| `activated_unindexed` | as `documents` | *violated*: a document without chunks is Ready |
| `fork_refused` | 2 chats, 4 messages | *violated*: a chat with an answer taken from elsewhere can never be forked |

The six violations are the findings of `PROJECT.json`. `lifecycle_guarded`
leaves out both gist generation and re-creation to check two properties at
once; each needs only one of them left out (section 5).

*Bounds of the lifecycle runs.* `Procs` (2), `MaxRequests` (2 or 3), `GistBatch`
2, `PoolSize` 2. Each request contributes at most two messages, so three
requests give up to six messages: enough for several memory and gist batches, a
batch that splits a transcript of overlapping turns, and a third operation after
two that overlapped. Reactivation, deletion, re-creation and restarts are not
counted against `MaxRequests`. Requests are interchangeable in the safety runs
(`SYMMETRY`). `CHECK_DEADLOCK` is off because behaviours end when `MaxRequests`
is used up; requests that really wait for each other are what `NoDeadlock` and
`RequestsFinish` are about.

*Bounds of `documents`.* Only the sets. The two chats share their files, and
every action concerns one document, so two documents are enough for two
operation ids, for an upload with and one without an id, and for an ambiguous
reference. The blank file is uploaded with an operation id, and next to uploads
of the other file into the same chat (`FilesTried`): what distinguishes it is
only that `Index` stores nothing. Turns do not change the stores, so one turn sees
whatever two would. Turns are tried while some document is left that no route
has touched (`TurnsTried`, a conjunct of the next-state relation): about the
others no property of a turn says anything. Once the documents are used up only retries, routes and
turns go on, and `CHECK_DEADLOCK` is off because nothing promises more. Chats
and documents are interchangeable.

*`services`.* The services share no variable, so a behaviour belongs to one of
them, its `part`, and leaves the others in their first state: the run explores
the 17 parts side by side, each as it would be explored alone. `CHECK_DEADLOCK`
is off because most parts end (a packet is done, the bound is used up). The
constraints below are conjuncts of the next-state relation, they leave out
behaviours that repeat what others show, and each is stated in `MCServices`.

| Part | Properties | Instance and constraint |
|---|---|---|
| routing | `ContractCanBeMet` | every set of word groups, every setting, both routers |
| pipeline | `ErrorsAreTheTurnsOwn`, `CompletedDemoAnswersAreGrounded` | 3 tracked sources; two native turns at once, the first routed first, or one of any mode (`TurnsTried`); a turn past its retrieval touches nothing shared and goes first (`PipelineTried`) |
| guard | `MarkHoldsUntilItExpires` | 2 threads, time to live 2 |
| selection | `BudgetIsKept`, `GistOrItsSpan`, `RequiredEvidenceFits` | all lists of at most 3 of 8 candidates (a gist, its span, an overlapping span, a duplicate, a document, a memory, two recents), 8 plans, rooms 1 and 4; the order of raw sources where it matters (`SelectionsTried`) |
| reranking | `RankingIsAPermutation` | lists of up to 3 of 5 candidates, repetitions included; both top limits 2, so that a list may exceed them |
| store | `IndexFollowsTable`, `RecallIsAuthoritative` | 2 memories of one category with 2 facts, 1 chat, 2 batches, 2 row ids, limit 1, so that rows and vectors are cut; after the last row id one batch at a time (`StoresTried`); the second memory comes last and stays as it is (`SecondIsLast`), as one more row and vector next to everything that happens to the first |
| batches | `BatchesAreWhole` | up to 5 messages of 1 or 2 tokens, 4 where no suffix is protected, three schedules (`BatchesTried`) |
| proposals | `ProposalsAreKept` | 10 kinds of proposals, one for every reason to drop, lists of up to 2, 2 updates |
| spans | `BestMatchesAreQuotedOnce` | two chats of up to 4 messages with 4 kinds of text, 4 sets of gists (`SpansTried`) |
| documents | `HitsQuoteOnePassage` | 2 documents of 3 files (three chunks, none, not loadable), 2 results per search (`PapersTried`: documents are interchangeable, uploaded between turns, and deleted until the hits are expanded) |
| fork | `ProvenanceIsOwn`, `ForkIsFaithful` | 2 chats, one at first, 6 messages (`ForksTried`) |
| browser | `InspectionsAreOfTheShownChat`, `ActionsFinishCleanly` | 2 chats, 2 handlers, queue of 2; at most the first chat exists at first (`TabsTried`) |
| evals | `KeepsEvalLedger` | 2 cases of one history, 2 judges, 2 configurations, 4 rows, 3 runs; the last resumes (`EvalsTried`) |
| pages | `PageShowsStore` | 2 records, 2 requests, 2 loads, lists of documents and chats cut at 1 record and those of the other pages not; a page that may have been overtaken is followed until it is at rest (`PagesTried`) |
| prompts | `EvidenceReachesTheModel` | 3 turns, of which two may overlap (`PromptsTried`), 2 questions of which one is part of the other, 2 recent messages |
| chatpage | `SentAsShown` | 2 chats, 2 files (`ChatPagesTried`: nothing depends on the message sent last; one request or late connection at a time; files are attached before the page asks for its connection or after it is settled) |
| counting | (types, and the two invariants of section 5 with them) | 2 threads, 2 estimators, 2 assets |

`TypesOK` is the type invariant of the part that moves. That the composition and
its constraints only restrict the components, so that a theorem about a
component holds of what this run explores, is itself a theorem (section 5).

*Fairness.* Only `lifecycle_live` needs any. `FairSpec` has weak fairness of
`Proceed(p)` for each request: threads are scheduled, the executor starts queued
work when a thread is free, the loop resumes coroutines whose await is over, and
model calls return or time out. Nothing is assumed about the arrival of
requests. `RLock` does not promise fairness among waiters; with boundedly many
requests the lock is eventually free for whoever still waits, and weak fairness
is enough. `RequestsFinish` is checked with as many executor threads as
concurrent requests. With fewer it fails: turns that wait for the guard occupy
every thread while the job of the Consolidate that keeps the guard is still
queued.


## 4. What does not hold

The violations (`PROJECT.json` quotes the documents they contradict; for two of
them section 5 proves that the named cause is the only one):

* `NoLostMemory` with a REST Chat End or Consolidate beside a turn
  (`memory_lost`).
* `EndedChatIsSummarized` after a failed extraction or a stalled selection
  (`end_pending`).
* `OneOperationAtATime` while a Consolidate awaits (`guard_reentered`).
  `WorkerExclusion` is what remains true.
* `SearchIsScoped` when the chat is deleted during its turn (`scope_lost`):
  without a chat row `scoped_source_plan` returns the plan unfiltered
  (`UnscopedOnlyAfterDeletion`: nothing else does).
* `ReadyIsTruthful` after the activate route (`activated_unindexed`).
  `ReadyIsIndexed` is what remains true.
* `ChatsCanBeForked` (`fork_refused`): the inspection of an answer that rests on
  a document, a memory or another chat holds a reference that the remapping of a
  fork refuses (`ForeignSourcesAreToBlame`: nothing else makes a fork fail).

The other properties say under which condition they hold. What lies outside it:

* `GistedOnce` fails when gist generation overlaps a Chat End, and
  `AnswersHaveQuestions` when an id is deleted and created again during a turn.
* A restart during indexing leaves the record `Indexing` until the client
  retries, and the retry of an upload whose document was deleted for good fails
  for ever (`ClaimsAreRecorded` excepts it).
* The memory routes update only the table: a memory deactivated or deleted there
  is still recalled from the copy of its chat, and nothing in `src/` rebuilds an
  index that drifted (`IndexFollowsTable` is about memories that did not).
* Two turns of a dispatcher at once read each other's retrieval errors
  (`ErrorsAreTheTurnsOwn` excepts a disturbed turn).
* A quote that names a document and no chat demands raw spans of which none is
  searched, so a demo turn is refused (`ContractCanBeMet` excepts it).
* A ping that is in flight when the connection is marked unreachable erases the
  mark (`MarkHoldsUntilItExpires` speaks of marks without one).
* A later turn's messages in the recent dialogue can make a packet fail its
  validation, and the prompt then has no evidence (`EvidenceReachesTheModel`).
* A second file picked while the first uploads is sent under the wrong name
  (`SentAsShown` excepts the race).
* A message written before the chat page has opened its own connection, or after
  a connection begun for an earlier page has replaced it, goes to the earlier
  page's chat; and a page whose connect was cancelled by a change of the session
  never connects (`SentAsShown` speaks of messages sent on the page's own
  connection).
* An active memory is not recalled when the limit cuts it off: ten better matches
  of its category in the table, ten nearer vectors in the index, which may be
  those of rows that are no longer active, or ten others in the hybrid mode; nor,
  in the table, when only others match the question (`MayLack`).
* A record page shows the first of more than 100 chats or documents or 200
  memories, and a request in flight while a list is cut may cost either list a
  record (`PageShowsStore`). A refused or failed request leaves the page wrong
  until it is loaded again.
* Of several valid proposals of one memory the last counts; a value that is only
  a citation is stored blank and dropped from the copy; a failed update that had
  written rows leaves the copy behind the table (`ProposalsAreKept`).
* An empty text file, or a PDF whose lines are all repeated headers, is accepted
  and Ready without a chunk, and its client is told that it is indexed
  (`ReadyIsIndexed`, `AnsweredStaysUsable`, `ResolvedIsSearchable` and the
  contract speak of files that have something to index).
* An evaluation that does not resume, or a history that failed half-way, may pay
  twice or answer on a history replayed twice (`KeepsEvalLedger` waives the
  first, `ResumedRunsStaySound` excepts both).

## 5. Proofs

Each listed theorem holds for every value of the constants that satisfies the
named assumptions. All have the same shape: a *step lemma* per action or group
of actions, an invariant theorem, and corollaries for the properties. Lemmas
about operators come first in each module.

### ChatLifecycle_proofs

| Theorem | Statement |
|---|---|
| `TypeCorrect` | `Spec => []TypeOK` |
| `StateIsWellFormed` | `Spec => []WellFormed`: types, and the guard's holders are the requests inside a guarded block |
| `WorkersExclude` | `Spec => []WorkerExclusion` |
| `EndedChatsAreFinalized` | `Spec => []EndedChatIsFinalized` |
| `SummarizedAreDurable` | `Spec => []SummarizedIsDurable` |
| `FlaggedAreCovered` | `Spec => []FlaggedMessagesHaveGist` |
| `MessagesNeedActiveChat` | `Spec => MessagesOnlyWhileActive` |
| `ImplementsContract` | `Spec => KeepsContract` |
| `ContractAdmitsActiveOnly` | `KeepsContract => MessagesOnlyWhileActive` |
| `ContractFinalizesEndedChats` | `KeepsContract => []EndedChatIsFinalized` |
| `RequestsDoNotDeadlock` | `NoDeadlock`, if `"consolidate" \notin Enabled` or `Cardinality(Procs) <= PoolSize` |
| `OneAtATimeWithoutConsolidate` | `OneOperationAtATime`, if `"consolidate" \notin Enabled` |
| `AnswersKeepQuestions` | `AnswersHaveQuestions`, if `"start" \notin Enabled` |
| `GistsCoverOnce` | `GistedOnce`, if `"generate" \notin Enabled` |
| `BrowserLosesNoMemory` | `NoLostMemory`, if `Enabled \cap {"endApi", "consolidate"} = {}` |

Assumptions: `ProcsAssumption` (requests are finitely many and are neither the
loop nor "no owner") and `BoundsAssumption`.

`EndedChatIsFinalized` is not inductive: it says nothing of a Chat End that has
looked at the last batch and has not marked the chat yet, nor of a turn between
its check and its insert. The inductive invariant `Inv` adds `CheckInv` (what a
request checked under the guard stays true until it acts: a Chat End at its
mark has everything finalized, a turn at its insert has a chat that is not
ended), and `CheckInv` needs `LockInv`: the lock is held by exactly the requests
in a with-block, on behalf of its owner, and the loop runs one coroutine at a
time. The case that matters is `EndExcludesWrites`. A REST Chat End and a
worker turn exclude each other through the lock. A browser Chat End and the
insert of a question run on the *same* thread, which the reentrant lock does
not separate: they exclude each other because neither awaits. `OpInv` says
which operation a location belongs to. A step affects the guard in one of three
ways (`StepOf`), from which `LockStep` concludes `LockInv` once for all actions.

`NoDeadlock` follows from the type and lock parts of the same invariant: the
owner of the guard is at work, or is a Consolidate that waits for a thread (of
which there is one) or for the loop, on which the guard can be entered again;
without an owner, whoever has a thread goes on, and without one all threads are
free. What it leaves out is a pool filled by waiting requests while a Consolidate
that holds the guard needs a thread. Two properties of the chat are no longer
runs' properties but theorems, once about the code and once about the contract:
whatever keeps the contract has them.

The other conditional theorems show exactly which operation each property owes
its failure to. They rest on `Inv` and one more invariant each: `AnswerInv` (the
question a turn works on stays in the chat or every trace of the turn is gone),
`GistInv` (a request between reading ungisted messages and writing their gist
holds the lock, so nobody else covers them) and `MemoryInv` (what an update has
read is what is stored, since between its read and its write the loop belongs to
it).

### DocumentUpload_proofs

| Theorem | Statement |
|---|---|
| `DocumentTypes` | `Spec => []TypeOK` |
| `ReadyDocumentsAreIndexed` | `Spec => []ReadyIsIndexed` |
| `AnswersStayUsable` | `Spec => []AnsweredStaysUsable` |
| `ClaimedKeysHaveRecords` | `Spec => []ClaimsAreRecorded` |
| `ResolvedDocumentsAreSearchable` | `Spec => []ResolvedIsSearchable` |
| `UploadsKeepReady` | `Spec => ReadyStaysReady` |
| `UploadsKeepContract` | `Spec => KeepsDocumentContract` |
| `ContractNamesOneDocument` | `KeepsDocumentContract => []RetriesAgree` |
| `RetriesNameOneDocument` | `Spec => []RetriesAgree`, from `KeyInv` |
| `UnscopedOnlyAfterDeletion` | `Spec => []UnscopedIsDeleted`, from `TurnsHaveChats`: a turn that searches without a document filter has lost its chat to a route |

Assumptions: `NoneAssumption` (NULL is no chat, file, document or set of
documents), `BlankAssumption` (blank files are files) and `ChatsAreNotDocs` (ids of chats and documents differ, so that
`managed` can hold both). The properties speak of the stores; what makes them
inductive is what the loop has in hand. `WorkInv` says what is true of the
document at each step (its chunks are there, or its file is blank, when it is about to become Ready,
it is Ready when it is about to be linked), and nothing else can change it
meanwhile because the routes run on the same loop. `KeyInv` says that a keyed
upload, and every answered one, works on the document its operation id names.
`ResolvedIsSearchable` needs `ReadyIsIndexed`: a resolution returns Ready
documents only (`ResolvedAreReady`), and only a route removes chunks.

The refinement (`ContractStep`) takes each action to one action of
`DocumentContract` or to a stutter. Most steps leave records, chunks, keys,
links and answers alone or move a document between two statuses that are shown
alike (`UnseenStep`, `StatusesShown`, `StatusStep`). The others need
`WorkInv` and `KeyInv` of the same invariant: a document about to be marked
Ready has its chunks unless its file is blank, and then it has none and stays
unsearchable; so it becomes ready and, if at all, searchable together; the one
about to be linked is Ready and the one its operation id names; a route that is
about to delete a record has one to delete.

`RetriesAgree` (all answers to one operation id name the same document) is what
the contract is for, so it is no property of a run but a theorem about the
contract: claims are never given away, and a client is told of the claimed
document only (`KeyedAnswers`).

### The services

| Theorem | Proves always | Inductive invariant |
|---|---|---|
| `IndexFollows` (with `StoreTyped`) | `IndexFollowsTable` | `RowIdsAreOwn`, `ReadRowsWereIssued`, `SyncKnowsRow` (a batch about to write a vector has read the row that is there, or the memory has drifted), `UnindexedDrift` |
| `RecallIsTrue` | `RecallIsAuthoritative` | the same; the three modes of `Recalled` are compared with the rows, and what a cut leaves out is counted: a set of at least `RecallLimit` members loses only what `MayLack` allows (`CutKeeps`, `PeersGrow`) |
| `ProvenanceStaysOwn` (with `ForkTyped`) | `ProvenanceIsOwn` | `IdsAreIssued`, `ForkIsNew`, `CopiesAreNew`, `KeepOrder`: the ids of a copy are new and in the order of the source, so that a mapped span is a span of the copy |
| `ForksAreFaithful` | `ForkIsFaithful` | `ForkInv`: the map of ids is a bijection that keeps order and content, of messages, gists and inspections, and no other chat changes |
| `ForeignSourcesAreToBlame` | `ForksFailForGood` | `SourcesAreIssued`: a fork is rolled back exactly when an answer of the chat rests on something that is no message of it, and then so is every later fork (the cause of `fork_refused`) |
| `ProposalsStayKept` (with `ProposalsTyped`) | `ProposalsAreKept` | `Kept` (the kept records have different ids and stand for the last valid proposal of each), `CopyAgrees` (up to the rows already written, copy and table agree but for outdated memories) |
| `BatchesStayWhole` (with `LogTyped`) | `BatchesAreWhole` | `BatchesKeepPairs`, `StopsBehindAnswers`. No cut separates a question from the answer next to it, and a selection is a prefix of what is pending (`Oldest`, `Together`), so consumed batches follow the transcript; sums of tokens only decide which cut is taken |
| `ErrorsAreOwn` (with `TurnsTyped`) | `ErrorsAreTheTurnsOwn` | `Collected`: what an undisturbed turn has collected so far is what its own sources gave |
| `DemoAnswersAreGrounded` | `CompletedDemoAnswersAreGrounded` | `Grounded`: from the prompt on, the contract of a demo turn is met by what it retrieved |
| `ContractsCanBeMet` | `ContractCanBeMet` | none: each branch of `EvidenceContract` is compared with the sources of `RouteSemantic` |
| `EvidenceReachesEveryPrompt` (with `PromptsTyped`) | `EvidenceReachesTheModel` | `Asked`, `Packed`, `Reached` |
| `BudgetStaysKept` (with `SelectionTyped`) | `BudgetIsKept` | `BudgetInv`: the running count is the cost of what is selected, a cardinality |
| `GistMakesRoom` | `GistOrItsSpan` | `GistsMadeRoom` |
| `RequiredEvidenceIsKept` | `RequiredEvidenceFits` | `ChoiceIsKept`, `FloorIsChosen`: what the preflight chose is chosen again, because both see the same list, and only required evidence is left when required evidence is removed |
| `NothingIsLostInRanking` (with `RankingTyped`) | `RankingIsAPermutation` | `Ranks`: the order names every place once. A list sorted by how many stand above each member takes its places injectively, hence all of them, by counting; stages join rankings of a partition |
| `BestMatchesStayQuoted` | `BestMatchesAreQuotedOnce` | `Apart`, `QuotesBest`, `ShowsBest`: two runs with different ends have a gap between them; the best anchor is in every excerpt; the best hit is among the top ones and in its window |
| `HitsStayOnePassage` (with `PapersTyped`) | `HitsQuoteOnePassage` | `HitsAreFound`: until it is expanded, a hit quotes its own chunk of a document in scope, through every ranking |
| `MarksHold` (with `GuardTyped`) | `MarkHoldsUntilItExpires` | `FailsFast`, `Holds` |
| `FallbacksAreExplained`, `LoadsHappenOnce` (with `CountersTyped`) | stated in `Turn_proofs` | `Progress`, `Cells` |
| `InspectionsAreOwn` | `InspectionsAreOfTheShownChat` | `TabShapes`: of which chat each cell and each message in the queue speaks |
| `ActionsFinish` | `ActionsFinishCleanly` | `BusyIsOpening`, `MadeIsWaitedFor` |
| `MessagesAreSentAsShown` (with `ChatPageTyped`) | `SentAsShown` | `LinkIsOfPage` (a page past its first run of the effect has its thread in the atoms, and a connection of its own is for that thread), `UploadIsShown` |
| `PagesShowTheStore` (with `RecordPagesTyped`) | `PageShowsStore` | `Fetched`, `DoneIsStored`, `Shown` |
| `TabTyped` | `TabTypeOK` | `TabValues`: what each handler, cell and queued message can hold; the queue has room for what one handler sends |
| `RunsKeepTheLedger` (with `EvalTyped`) | `KeepsEvalLedger`, the refinement of `EvalLedger` | `Backed` (every reply that is kept, in a row or in the job, was written to the file as an answer), `PaidOnce`, `Replayed`, `AtCase` |
| `ResumedRunsStaySound` | `NothingIsPaidTwice`, `AnswersSeeOneHistory` | the same |
| `LedgerPaysOnce` | `KeepsEvalLedger => []NothingIsPaidTwice` | none of the code: a theorem about the ledger |
| `ServicesAreTheirParts` | every component's specification, of `ServicesSpec` | none: `PartsStep` takes a step of `MCServices` to a step of one part and a stutter of the others |
| `ServicesTyped` | `TypesOK` of `MCServices` | the `*Typed` theorem of each part |

Assumptions, each in the module that declares the constants: `StoreAssumption`
and `MessagesAssumption` (the bound is a number; "absent" is no record, "no
range" is no message id), `QueueAssumption` (the queue holds the two messages
a handler sends),
`ProposalsAssumption` (lists are lists, spellings have keys, an update has at
least one user message, since the code returns without one),
`ChoicesAssumption` and `TrackedAssumption` (a router chooses known sources),
`QuestionsAssumption` (no question is empty and at least one recent message is
read), `LogAssumption` (a bound is a number), `PapersAssumption` (a file has
finitely many lines), `TopAssumption`, `RetrievedAssumption`,
`LimitsAssumption`, `SeenAssumption` (limits are numbers, positive where the
code slices or ranks by them; lists of candidates and transcripts are lists),
`PolicyAssumption`, `RoomsAssumption`, `RankingsAssumption`,
`RoutesAssumption` (numbers are integers, lists are lists, plans are plans),
`CacheTTLAssumption`, `CountingAssumption`, `EvalAssumption`. Every assumption is
evaluated by TLC on the instances of section 3, `PagesAssumption` (a limit is a
positive number) and `StoreAssumption` (there are finitely many memories and the
limit is positive) among them.

Where a code loop over a list builds a set, a sum or an order, the models say
what the loop builds (a set, a cardinality, the run between two end points, the
place by how many stand above), so that no induction over data is needed. What
is still recursive, the neighbours an excerpt has room for and the starts of
chunks, stays opaque in the proof of `BestMatchesStayQuoted`: it needs of them
only that an excerpt contains its best anchor and that messages with different
starts are in different chunks. Where a minimum is needed (the first row, the
earliest message of a copied span), it comes from the well-foundedness of `<` on
the naturals. Before each proof TLC checked the
inductive invariant on the instance of the run.

Supporting theorems that are not listed above: `StoreInvariant`,
`ForkInvariant`, `ProposalInvariant`, `BatchInvariant`, `PaperInvariant`,
`RankInvariant`, `SpanInvariant`, `TabInvariant`, `EveryContractCanBeMet`
and the other invariant theorems the corollaries cite; of the `*Typed` theorems
`PROJECT.json` lists `ServicesTyped`, which joins them.

## 6. Only model-checked

* `RequestsFinish`: liveness under fairness, and `ENABLED`, are outside the
  prover's reach.
* The six violations, of course: a counterexample needs one instance.

## 7. Plan

Done: the models of section 2, all runs, and the proofs of section 5.

Every safety and action property of a passing run is stated by a theorem; only
`RequestsFinish` is not. Worth doing next:

1. An abstract specification for the long-term memories (a fact is recalled or it
   is not), with `MemoryStore` as its implementation.
2. The guard of `ConnectionGuard` as an implementation of an atomic mark with a
   time to live, for which the race of a ping with a mark has to be excepted.

The runs are kept few: a further module gets a part of `services`, and a run of
its own only for a disagreement with a document.

## 8. Not modelled

* Chainlit, React, SQLite, Chroma and the model servers themselves: external,
  modelled by how the code uses them.
* Wording: prompts, rendering, titles, the text of an inspection report.
* Embeddings and similarity: scores are inputs.
* Configuration parsing, schema migrations and the rolling chat summary.
* The structure-aware splitters that only evaluations and tests use.
* The oracles, adapters and scoring of the benchmarks: offline, sequential
  comparisons without a state of their own.
* Several processes sharing one database file: the guard is documented as
  process-local.
