# Project Rio in TLA+

A model of the stateful core of Project Rio (a personal assistant: a FastAPI
service over PostgreSQL, Redis, Qdrant and LangGraph, with a Next.js client),
the runs that check it with TLC and the theorems TLAPS proves about it.  Paths
below are relative to `src/src/` of the repository.

## The system

| part | state it keeps | operations | hard parts |
|---|---|---|---|
| chat persistence (`services/chat_history_service.py`, message and thread models and repositories) | `thread` and `message` rows, the queue of a two-thread executor, Redis copies | `ensure_thread`, `append_message_async`, `_compact_if_needed`, `hard_delete_thread` | tasks of one thread on two workers, an LLM call inside a transaction, row locks and deadlocks, foreign keys to rows a compaction deletes, a queue lost in a restart |
| chat turns (`routers/chat.py`, `services/chat_service.py`, `routers/websocket.py`) | the turn a client is streaming: its user message and the tail of its chain | chat, edit, regenerate, WebSocket; what they persist | parents read while the rows they should name are still queued; clients that disconnect |
| agent graph (`workflows/react_graph.py`, `state.py`, `planner.py`, `utils/`, `guardrails/`, `executor/`) | the LangGraph state, the buffer of the stream, the queue to the WebSocket | the nodes of the graph, the stream of events, its consumers | the end of the tool loop, trimming that keeps calls with their results, failing tools, a bounded queue nobody waits for |
| missions (`services/mission_service.py`, tools and router of missions, `infrastructure/cache/service.py`) | mission rows with steps, progress and status; cached statistics | create, update, toggle a step, complete, delete, statistics | copies loaded without a lock, errors after a partial change, a cache beside the table |
| automations (`services/automation_service.py`, `core/scheduler.py`) | automation rows: enabled, next run, count, limit | create, edit, delete, `run_now`, the scheduler's pass | an agent run of minutes on a loaded copy, two runs of one automation, one session for a whole pass, restarts |
| notes and links (`services/note_service.py`, `note_link_service.py`, tools and router of notes) | note and link rows, a Markdown file and an embedding per note | create, update, toggle a todo, delete, sync of the links | files and embeddings that no rollback undoes, tasks in any order, two syncs at once |
| audio (`services/audio_service.py`, tools and router of audio) | overview rows, audio files, background tasks | create, generate, delete | a task that may start before its row is committed, files beside rows |
| knowledge base and XP (`routers/knowledge.py`, `routers/ingest.py`, `services/document_service.py`, `xp_service.py`, `infrastructure/rag/ingestion.py`) | document rows, vectors in Qdrant, the XP of the profile, the event loop | upload, URL ingestion, delete, award XP | vectors without their row, a read-modify-write in a transaction as long as a stream, a coroutine that waits for a row lock |
| shell sessions (`infrastructure/os_control/pty_session.py`, `services/os_control_service.py`) | two dictionaries in memory: the session of each user and its last activity; the working directory of a session | run a command, close; idle clean-up and eviction within them | threads in dictionaries without a lock, a directory that must outlive commands but not sessions |
| emotional state (`services/emotional_engine.py`) | one row per user: mood, affinity, streak, counts; relationship events | an interaction after each turn, headpats, readers that create the row | read-modify-write without a lock, a unique row that several may create, absences |
| flashcards (`services/flashcard_service.py`) | decks, cards with their SM-2 schedule | create, review, update, delete, generate from a note | reviews of one card that overlap, deletions of decks that wait for each other |
| SQL approval (`executor/resume.py`, `agent_tools/sql_tools.py`, `routers/sql_approval.py`, `checkpointer.py`) | checkpoints of interrupted runs | interrupt, decide, resume | see "Not modelled" |
| artifacts (`services/artifact_service.py`, its model, repository and router) | artifact rows with version, parent and thread | create, update, delete, the cascade from threads, version history | a version computed before the INSERT, ids in use before their commit, a history walked while it changes |
| model settings and tracing (`infrastructure/llm/`, `services/agent_service.py`, `settings_service.py`, `infrastructure/security/api_key_resolver.py`, `infrastructure/telemetry/phoenix.py`) | the selected model, the user configuration and the client of each model, the one tracer, the settings rows | select, configure, take a client; switch and register the tracer; update settings | one model and one tracer for all users, set in steps that interleave |
| vector store (`infrastructure/data_access/qdrant_tool.py`, `note_vector_tool.py`) | client, embeddings, collection, services and a flag | initialise lazily, search, add, delete, reset | no lock, steps that fail half-way, a directory that one client can open |
| retrieval (`infrastructure/rag/retrieval.py`, `rerank.py`, `cache/service.py`) | answers cached in Redis | search beside uploads and deletions | filters over the payload of a library, a cache that nothing invalidates |
| web tools (`infrastructure/data_access/web_search_tool.py`, `web_extract_tool.py`) | call budget, seen queries, time window, next slot | search, extract | four guards behind separate acquisitions of one lock, a sleep between them |
| agent memory (`workflows/memory_store.py`, `agent_tools/memory_tools.py`, `react_graph.py`) | memories in the LangGraph store, the cached embedding model | recall, store, forget, the episode of each turn | daemon threads that outlive their turn, failures nobody sees |
| accounts (`services/auth_service.py`, `routers/settings.py`, `routers/admin.py`) | user rows with e-mail, password and provider id | register, change, sign in with a provider | reads before writes, e-mails that move between accounts |
| sessions (`infrastructure/security/auth.py`, `rate_limiter.py`, `core/ws_manager.py`) | tokens with their expiry, blacklist and counters in Redis, sockets | login, refresh, use, logout, the handshake | lifetimes in whole seconds, a Redis that does not answer |
| MCP (`infrastructure/mcp/`, `routers/mcp.py`) | configured servers, sessions, tools | add, connect, discover, disconnect, remove | awaits between the session and its tools, far ends that fail |
| OS control (`infrastructure/os_control/`, `services/os_control_service.py`, `agent_tools/os_control_tools.py`) | the browser's objects, the pointer of the desktop | browser, GUI and shell actions, risk tiers | one controller for all threads, made on first use without a lock, a driver bound to its thread |
| cloned voice (`infrastructure/tts/qwen3_engine.py`) | one engine with its model and prompt | get, is it available, load, generate | checks without the lock, loads that fail half-way |
| the rest: persona, sub-agents, SQL and Neo4j tools, dashboards, collections, process lifecycle | rows of one user or external stores | see `PROJECT.json` | mostly sequential |

Components interact through PostgreSQL rows (each request and each task has a
session and a READ COMMITTED transaction of its own; `get_db` commits that of a
request after its response), through calls in one process, through the executor
of `chat_history_service.py`, the thread pool of `core/concurrency.py` and the
event loop, and through Redis.  `PROJECT.json` lists every component with its
status, and under "hazards" the places where this code is hard to test.

What makes each part correct:

* chat persistence: an accepted message is stored or dropped whole; a compaction
  summarises and deletes exactly the rows it read; a row leaves the table only
  into a summary, by the trim, or with its thread; a deleted thread stays empty;
  every append and every deletion ends;
* turns: the rows of a turn form one chain without gaps, edits are siblings, and
  the chain goes on from turn to turn;
* agent: what the model is given is well formed, the loop ends, and a client gets
  the text in order and an end;
* missions, automations: a stale copy undoes nothing that it was not asked to
  change, counters and derived columns follow their sources, what is due is run
  once;
* notes, audio, documents: what lies beside a row (file, vector, link) follows
  the committed row;
* XP: every committed award counts, and no award stops the server;
* shell sessions: sessions and time stamps agree, and a command starts where the
  user was told the session is;
* emotional state, flashcards: a row is what the committed calls add up to, and
  only calls that overlap may lose an update;
* artifacts: parents exist and versions count up along them;
* model and tracer: a chat runs with the settings and the key of its own user;
* vector store, retrieval, web tools: an operation finds a complete store, a search
  finds what its user has stored, limits hold for all threads;
* memory: what the user was told is remembered stays until it is forgotten;
* accounts, sessions: an identity keeps its account, a revoked token stays out;
* MCP, OS control, voice: what the process keeps beside a server, a browser or a
  model agrees with it, and no command runs unasked that must be asked for.

Not all of this holds; see "Findings".

## Modules

The conventions are the same everywhere.  A request is a slot (`req`) that goes
from load to flush to commit, because other transactions see it only at its
commit, but wait for its row locks (`holder`) from its flush.  `Absent` and
`Deleted` are a row not yet and no longer in its table.  Calls are records with
the fields the client sent, `Null` where it sent none.  Failures and restarts
are counted by `faults`.  Variables marked "history" are read by properties
only.  An operator defined just before another one of the same shape and used by
no action, "for comparison" (`LockIgnored` before `LockFree`), is what the second
would be if the code lost that behaviour: with it the named property fails.

### Chat

* `MessageTable`: the rows of `message`, and as operators the arithmetic of
  `_compact_if_needed`: `Window` (rows after the last summary), `Selected`
  (oldest rows up to user message `WINDOW_ROUNDS`), `Trimmed`, `Deleted`,
  `Added`.  A summary is an assistant row whose content starts with `[SUMMARY]`;
  here it is a role of its own and its text is the set `covers` of the ids it
  was made from.  `created_at` is `now()` of PostgreSQL, the start of the
  transaction, so it is a counter taken at the first statement of a task.
* `MessageLog`: the abstract specification.  There is no executor and no lock:
  `Store` appends one message and compacts with the rows of that very step,
  `Drop` loses pending messages, `DeleteThread` removes a thread for good.
* `ChatHistory`: the code.  `Submit` is the call that queues a task.  A task
  runs `Dequeue`, `Begin` (SELECT of the thread; missing: dropped), `Touch`
  (the flush of `updated_at`, an UPDATE that takes the row lock of the thread),
  `Insert` (the message, its foreign keys, the SELECT of the compaction),
  `Summarise` (the LLM, inside the transaction and its row lock) and `Commit`.
  `BeginDelete`, `DeleteRow`, `DeleteThread` are `hard_delete_thread` with its
  ORM cascade, row by row.  `WaitsForDelete`, `KeyShared`, `LockFree` and
  `Deadlocked` are PostgreSQL's row locks, as the statements of the code meet
  them.  `AbortAppend` and `AbortDelete` break a deadlock, `DbFault` is a failing
  statement, `Restart` loses queue and transactions.
* `ChatTurn`: extends `ChatHistory` with its callers.  `SendChat`, `SendEdit`,
  `SendSocket` and `Regenerate` start a turn, `ToolResult` stores a worker event,
  `Reply` the answer; `EndWithoutReply` is a client that left or an empty answer.

### Agent

* `AgentGraph`: what the nodes compute from the message list.  A message is its
  kind, the turn it is of, the number of its pieces of text, the number of its
  tool calls, and the content of a tool message.  `Trimmed` and `Context` are
  `trim_messages_with_integrity`, `CircuitBroken` and `MaxRoundsReached` the
  circuit breaker, `ShouldContinue` the routing, `ToolResults` the tool node with
  `tool_fallback`, `Spoken` and `Answer` the scans of the nodes after the loop.
* `AgentRun`: one run: `Start` (the `Histories` a caller passes: the texts the
  client shows for a chat, rows as they come back for an edit, none otherwise),
  the guardrails with any verdict, `Planner`, `CallModel` with `TextChunk`,
  `ToolCallChunk` and `Respond` for the streamed message, `Tools`, `PostProcess`,
  `FlushRest` and `Final`; `RunFails`, `Error`, `PutEnd` and `Disconnect` are the
  other ways out. The SSE response pulls the events; to the WebSocket they go
  through a queue that refuses what does not fit (`lost`), and `Send` is its
  handler.

### Services over rows

* `Missions`: `CreateMission`, `Load` (complete, update and delete without a lock,
  toggle with FOR UPDATE), `Flush`, `Commit`, `Leave` (a call that was rejected,
  whose changes the API rolls back and a tool commits), `Fail`, and the reader
  `GetStats` / `StoreStats` / `Expire` with its cache entry.
* `Automations`: the user (`CreateAutomation`, `SetEnabled`, `SetCron`,
  `DeleteAutomation`, `RunNow`), the scheduler (`GetDueAutomations`,
  `ExecuteDue`), and the run both share: `AgentReturns`, `Flush`, `Commit`.
  Cron expressions are periods, time is a counter.  `todo` holds the copies of the
  pass; a rollback in its one session expires them (`Expired`).
* `Notes`: `CreateNote`, `LoadNote`, `ToggleTodo`, `DeleteNote` start a request;
  `FlushNote`, `SyncAndEmbed` (file, links, embedding task) and `Commit` carry
  it on; `RunJob` and `JobFails` are the tasks of the pool, in any order.  A
  content is the set of links parsed from it.
* `Audio`: `CreateOverview` and `DeleteOverview` with their commits, and the task:
  `MarkGenerating`, `Prepare`, `SynthesizeQwen`, `SynthesizeEdge`, `SaveResult`,
  `MarkFailed`, `SessionFails`.  `RemoveFails` is the error of `os.remove` that a
  deletion swallows.
* `Knowledge`: `Upload`, `AddBatch`, `Ingested` and `IngestFails` are an upload or
  a URL ingestion in the thread pool; `StartChat` is a chat, whose preparation
  holds the event loop (`loop`) until `ReadProfile` and `Award` are done; `Commit`
  and `RollBack` are `get_db` after the response, for which the event loop must be
  free.  The XP of the profile is the set of awards it adds up, so that a lost
  award is a missing element.  `AwardBreaks` is the exception that is swallowed
  while the session stays broken.  `DeleteDocument`, `PurgeVectors`,
  `CommitDelete` and their failures are the deletion; the purge removes what its
  filter matches, which is nothing (`PayloadKeys`, `Purged`).

* `PtySessions`: `ExecuteShell` runs `get_or_create` (`Scan` and `Sweep` are the
  clean-up, `Look`, `Drop`, `Forget` are `close_session`, `Find`, `Touch`, `Take`,
  `Insert`, `Stamp` the rest) and `execute` (`Begin`, `Finish`, or `ContainsCd`
  and the second run of the command that finds its directory).  Threads switch
  between any two of these steps; only the order of the time stamps matters, so
  `_last_activity` is a sequence of ids.
* `EmotionalEngine`: `Read`, `Insert`, `Flush`, `Commit` are a transaction that
  records an interaction or a headpat, or only looks; `RecordInteraction` is its
  arithmetic (absence, streak, mood), `HalfDay` the time that passes.
* `Flashcards`: `Sm2Update` and `Reviewed` are the SM-2 algorithm in hundredths,
  with the tie of `round` left open; a call is a transaction with its row locks
  and cascades; `Deadlocked` breaks two deletions that wait for each other.

* `Artifacts`: `CreateArtifact` reads the parent and computes the version,
  `InsertArtifact` meets the foreign keys, `CommitArtifact` is `get_db` after the
  response; `UpdateArtifact`, `DeleteArtifact` and `DeleteThread` with their
  statements and commits; `StartHistory` and `WalkHistory` are the walk over
  `parent_id`.  `DeletedBy`, `RewrittenBy` and `ReferredBy` are the row locks that
  open transactions hold.

### Around the services

* `ModelSettings`: `form.SELECTED_MODEL`, `config` (the `_user_` fields of each
  registered model) and `llm` (its client) belong to the process.  A chat runs
  `LoadSettings`, `SelectModel`, `ResolveKey`, `SetModel`, `SetUserKey`,
  `SetUserParams`, `DropClient`, then `CheckClient` to `AssignClient`, which
  build a client if there is none, and `BindClient`; automations, summaries and
  sub-agents (`StartOther`) take the client of whatever is selected.
* `Tracing`: `Switch`, `SetProject` and `Reset` write the choice of a chat to the
  environment, `Ask` to `SetInitialized` register the provider under the lock.
  `told` is what `tracing_enabled` answers, which decides on the metadata of the
  workflow's traces; `registered` is the project that LangChain is instrumented
  for, from the first registration to the end of the process.
* `VectorStore`: the steps of `initialize`, of the operations that call it, of
  `reset_database`, and of the note tool that borrows the client or opens its own.
  `LoadDense` and `LoadSparse` are the two assignments of `_init_embeddings`.
* `Retrieval`: `ReadCache`, `Query`, `Store`, each of which may fail, beside
  `Upload`, `Delete` and time.  `DocsOf` and `Remaining` are what the filters of a
  search and of a deletion match in a point whose payload has the `PayloadKeys`.
* `WebTools`: `ReadCache`, `SkipDuplicate`, `ConsumeCall`, `Reserve`,
  `CheckSearchLimit`, `MakeWrapper`, `Send` and `Store` of both tools.
* `AgentMemory`: `OpenStore`, `StoreTool`, `ForgetSearch` and `ForgetOne` within a
  run, `JobStores` and `JobFeels` of the daemon thread it leaves, `DeleteThread`,
  `Restart`.
* `Accounts`: `Register`, `ChangeInfo` and `SignIn` read, their commits write, and
  the constraints of the table refuse; `ResetPassword`, `UpdateRole`.
* `Sessions`: `Login`, the two steps of a refresh, `Use`, `StartLogout` and
  `Revoke`, `Authenticate` and `Disconnect` of sockets.  Time runs in half seconds,
  because an expiry is truncated to a second and the clock is not.
* `McpClient`: `Connect`, `OpenTransport`, `Initialize`, `Listed`, `Disconnect`,
  `Close`, `ServerExits`: the awaits of the client are where requests interleave.
  `open` holds the transports, `exited` those of which the session was exited: no
  code exits the context of a transport (`client.py:86`, `:111`), so an ordinary
  disconnection leaves its process or stream open, and `Usable` is what is left to
  agree with the sessions.
* `OsControl`: `BrowserAction`, `CreateController` and `FetchController` are the
  property that makes the one controller on first use, `EnsureBrowser` and the next
  three the launch of its browser, `Act` the rest; `MovePointer` and `PressThere`
  belong to a GUI action.  A command comes by `ExecuteShell`, the route of an
  admin, or by `ExecuteShellCommand`, the agent's tool, which `Asks` by the tiers
  of the risk patterns.
* `Speech`: `MakeEngine` and `TakeEngine` are `get_qwen3_engine`, `IsAvailable` the
  look without the lock, `Acquire` to `Generate` the synthesis under it.

### Compositions

`ChatTurn` composes the callers with `ChatHistory`, `AgentRun` the graph with its
stream and client, `Knowledge` uploads, chats and the event loop they share. Three
modules unite components that share neither rows nor locks nor threads they wait
for: `NotesAndAudio` (notes and audio overviews), `Services` (missions, shell
sessions, emotional state, flashcards, artifacts, vector store) and `Platform`
(nine of those around them; `Retrieval` has a run of its own).  A behaviour of
theirs exercises one component, chosen at the start, since the steps of different
ones commute and no property speaks of two. The `MC...` modules give the constants
that a cfg cannot write, or the symmetry, to the module they are named after
(`MCNotes` to `NotesAndAudio`). The modules named `..._proofs` hold the theorems:
`Chat_proofs` those on `ChatHistory`, on its implementation of `MessageLog` and on
`ChatTurn`, `Notes_proofs` those on `Notes` and on the audio overviews of
`NotesAndAudio`, the others those on the module they are named after.

## Runs

| run | question | bounds |
|---|---|---|
| `chat_history` | Does the code implement `MessageLog` (`ImplementsLog`)?  Are the rows of a compaction stable (`ReadStable`) and told once (`ToldOnce`), and does a deleted thread stay empty (`DeletedStaysEmpty`)?  Is every append settled and does every deletion end (`WritesSettle`)? | one thread, two workers, three user messages with any known parent, a window of one round, one failed statement, any number of restarts |
| `chat_turn` | Has the tree of a turn no gap (`TurnHasNoGap`), are edits siblings (`EditIsSibling`), and does the window overflow only by a failed summarisation and lose rows only by the trim (`WindowKept`)? | one client of the chat and edit endpoints, whose last two messages may also be a turn of the WebSocket or a regeneration, four messages, a window of one round, one failed statement, any number of restarts, no deletion |
| `automations` | Is the count exact (`RunCountExact`), do edits survive a run (`EditsKept`), is a due time run once (`DueTimeRunOnce`) and everything due served (`DueIsServed`)? | two automations in one pass, one of them edited and run by hand once, periods 1 and 2, clock to 2, one failure or restart |
| `agent` | Are calls and results together (`CallsAnswered`), is the question in the context (`QuestionInContext`), does the socket get the pieces in the order they were spoken, and the answer to its last piece (`SocketInOrder`), does every turn end (`TurnEnds`)? | a context of 4 messages, 2 rounds, a breaker window of 2, up to 2 parallel calls, 2 pieces of text, a queue of 2, histories of four forms, four kinds of callers, one failure, one lost event |
| `notes` | Do file, embedding and links follow the note (`CopiesFollowNote`) and does every request end (`RequestsEnd`)?  Do the audio files follow the rows (`FilesFollowRow`) and does a generation reach a verdict (`GenerationEnds`)? | notes: two, one linked from the other, one URL, two requests at a time, three calls of nine kinds; audio: two overviews, two requests at a time; one failure or restart |
| `services` | Are the cached statistics those of the table (`StatsHonest`), does progress follow the steps (`ProgressFollowsSteps`), is every toggle kept (`TogglesKept`)?  Do sessions and stamps agree and does the directory carry over (`ShellKept`)?  Is the emotional state the sum of its events (`StateFollowsEvents`), a card the replay of its reviews (`CardFollowsReviews`)?  Do artifacts form histories (`ArtifactsFormHistories`)?  Does the vector store recover (`StoreRecovers`)? | missions: one of at most two steps, two requests at a time, ten kinds of calls without a bound on their number, Redis may refuse an invalidation; shell: two users, one session allowed, two threads, three calls, two directories; emotion: four transactions, two at a time, an affinity of at most 9, a milestone every 2 days, a history of 2; flashcards: one deck, two cards, two calls at a time, five calls of which three reviews of grades 2, 3 and 5; artifacts: three ids, one of another user, one thread, four requests, two at a time, one failure; store: two threads, three calls, two failures or restarts |
| `platform` | Does a chat run with the model its user set, and is it told of tracing what they set (`ChatRunsAsSet`)?  Do the limits of the web tools hold (`WebCallsBounded`)?  Are memories kept (`MemoriesKept`)?  Does an identity keep its account (`IdentityKeepsAccount`)?  Does a revoked token stay out (`RevokedStaysOut`)?  Are the tools those of the session (`ToolsOfTheSession`)?  Are controllers, browsers and pointer accounted for (`ControlsAccounted`)?  Is the voice loaded once (`VoiceLoadedOnce`)? | two callers at a time in each; settings: two users, two models of two providers, two calls, one update; tracing: three chats; web: two queries, a budget of two calls, three calls, a clock to 2; memory: two conversations of one user, two runs, three memories; accounts: two, two identities with one e-mail, five requests; sessions: three tokens with lives of 2 and 3 seconds, a limit of one, a clock to 5 half seconds, one request and one socket; MCP: one server, three connections, five requests; OS control: three kinds of commands, two places, four actions; voice: three generations; one failure in each |
| `knowledge` | Do vectors follow the rows (`VectorsFollowRow`), do awards add up (`XpExact`), does every request end (`RequestsSettle`)? | two uploads by either route of a format of either kind, two batches, their deletions, one chat, with or without a profile, one failure or restart |
| `reply_kept` | finding | three messages |
| `next_user_chains` | finding | four messages, a window of three rounds |
| `loop_never_waits` | finding | as `knowledge`, with two chats |
| `search_finds` | finding | one search, one document |

The type invariants of `ChatHistory`, `Automations` and `Knowledge` are theorems
of their own (see "Proofs"); those of the other modules are the first conjunct of
`TurnHasNoGap`, `SocketInOrder`, `CopiesFollowNote`, `FilesFollowRow`,
`ProgressFollowsSteps` and of each property of `services` and `platform` that
stands for a module (the state part of `ShellKept`, for one). No cfg checks
deadlock: clients may stop, and bounded calls run out.  The workers of `chat_turn`
and of the chat findings, the slots of `services` and the callers of `platform`
are interchangeable (`SYMMETRY`): no definition tells them apart, and no run with
symmetry checks liveness.

Why the bounds suffice.  *Chat*: the two executor threads are those of the code.
With a window of one round a single user message fills it, two are needed for a
second summary, and four rows make a window longer than three times the rounds,
which is what the trim asks for.  A deadlock needs one stored message and one
append that names or compacts it.  Tasks of different threads share only the
executor and the clock.  An answer or tool row differs from a question in that its
append may compact nothing: such rows are in `chat_turn`, and in the theorems, not
in `chat_history`, where a second role takes too long.  *Missions, notes*: a lost
update needs two requests, one of which may be anything, and the third call of
`notes` checks what the other two left; the calls listed are one per path through
the code.  Two missions or three requests take too long and add no conflict, since
missions share only the counters.  *Automations*: a pass with two entries has one
that can fail before the other; the manual run overlaps with the scheduler's.
*Agent*: the bounds are the smallest that let a turn fill the context with
parallel calls and past tool rows fill the breaker's window.  *Knowledge*: a lost
award needs two readers, the blocked loop a holder and a chat, an orphaned vector
one batch of two.  *Services*: with one session allowed a second user evicts the
first, and a third call meets what the other two left in the dictionaries; four
transactions reach a milestone, an absence and a full history with two of them
overlapping; three reviews reach the interval that depends on the ease factor; a
history of two artifacts, their deletion and a walk take four requests; the third
call meets a store that the first two initialised side by side, one of which may
have failed, and the second failure hits the repair.  *Platform*: every hazard
there is two callers between the steps of one another, and a third call, token,
chat or generation that meets what they left; a second failure would only repeat
the first, since each is followed by the same recovery from rest.

### What the properties except

The code has races that break the plain form of some properties.  They are not
errors of the model, so the properties name them, by history variables that
are set only where the race happens, and claim the rest:

* `doubt` (missions): the statistics were counted or stored around a commit,
  Redis refused an invalidation, or a rejected tool call committed a status
  without invalidating; `raced`: the row was last written from a stale copy;
* `crossed` (automations): two runs of one automation overlapped, which nothing
  prevents; a count may then be lost, a due time run twice;
* `strayed` (notes, per file, vector and links): a rollback or restart after the
  write, a task that overtook another, failed or found a blank text, a sync from a
  content that was no longer the row's, or by a tool, whose link service is
  built without its repository and fails;
* `strayed` (audio): a deletion whose commit failed or whose path was older than
  the task's, an `os.remove` that failed, a failed synthesis with a partial file,
  a result for a deleted row; `stranded`: the task ran before its row was
  committed, was lost in a restart, or could not store its failure;
* `crossed` (knowledge): the award was committed after another had read the
  profile; `strayed`: the ingestion broke off between batches, the row of an
  indexed document was rolled back, or one half of a deletion failed; and deleted
  documents are left out altogether (see `search_finds`);
* `lost` (agent): events the WebSocket's queue refused;
* `raced` (shell): two creations at once, two calls that settle the entries of
  one user, an eviction of an id that another call had dropped; `excused`: the
  session was closed or commands of the user overlapped;
* `crossed` (emotion, flashcards): which operations overwrote which, so that a
  headpat may cost an affinity but no count, and an update no review;
* `early` (artifacts): a version was computed from a parent that was not
  committed, deleted meanwhile or another user's;
* `crossed`, `broken`, `halved` (vector store): another operation ran beside a
  reset; the creation of the indexes broke off; the load of the second model did,
  after which the store is not built any more;
* `met` (settings, tracing): steps of two chats met, or a client was being built
  for another one;
* `unstored`, `forgotten`, `crossed`, `cut` (memory): a put failed, a memory was
  forgotten, two searches of one user to forget something overlapped or a restart
  came between, an episode was lost with its put or with its thread in a restart;
* `strayed`, `crossed` (accounts): a sign-in overlapped a write that concerns it;
* `leaked`, `blind`, `arrivals` (sessions): an entry of the blacklist may expire up
  to a second early; a check that did not reach Redis admits;
* `disturbed` (MCP): a fault, or requests for one server that overlap;
* `failed`, `met`, `missed` (OS control): a browser process may be left by a launch
  that failed or that another launch of its controller overlapped, and a pointer
  moved by another action; the limit of one controller and one driver for each
  thread is claimed without exception;
* `raced` (voice): two first calls each made an engine.

### Fairness

Nothing makes a client, user or agent call anything, finish a turn or delete.

* Chat (`Fairness`): the executor's threads run while there is work and an LLM
  call ends (the client has a timeout).  Strong, because a worker or deletion
  that waits for a row lock is enabled only now and then, while PostgreSQL queues
  the waiters of a lock and serves them in turn.  PostgreSQL breaks deadlocks:
  weak fairness of `DeadlockStep`.
* `Automations`: the scheduler's loop never stops while the process lives and a
  run returns; strong, for the row locks.
* `AgentRun`: weak fairness of the run and of the WebSocket's handler: the LLM
  client has a timeout, tools return or raise.
* `Notes`: strong fairness of each request, for the locks.
* `NotesAndAudio`: weak fairness of each audio task and of each commit of an audio
  request, no step of which waits, beside that of `Notes`.
* `Services` and `Platform` state no liveness: their hazards are about state.
* `Knowledge`: strong fairness of each request and deletion: the event loop serves
  its callbacks in turn, so whoever waits for it gets it unless a chat keeps it.

## Findings

* `reply_kept`: the compaction runs in the append of every message and takes the
  oldest rows up to the user message that fills the window.  When that is the
  message just appended, it is deleted in its own transaction, and the answer,
  submitted seconds later with that id as `parent_id`, is refused by the foreign
  key.  The exception is swallowed, so the answer is lost without a trace.  It
  needs no race: with a working summary it happens at every full window.
* `next_user_chains`: `prepare_chat` reads the newest committed row, but the
  answer of the last turn may still be in the queue.
* `loop_never_waits`: `chat_stream` is a coroutine that calls `prepare_chat`
  directly, and so awards XP on the event loop.  The UPDATE holds the profile row
  until `get_db` commits, after the last byte of the stream.  A second chat of the
  user that starts meanwhile waits for the row on the event loop, the first one
  needs the loop to end, and the server stops; the default configuration has no
  statement timeout.  `RequestsSettle` shows that nothing else blocks a request.
* `search_finds`: the filters of a search and of a purge name
  `user_id` and `document_id` as keys of the payload.  The store is made without a
  `metadata_payload_key` (`qdrant_tool.py:276-284`), so langchain puts all
  metadata under `metadata`, and neither filter matches any point: nothing is
  found.  The same holds of the purge, so that the vectors of a deleted document
stay; `Knowledge.Purged` models that, and `VectorsFollowRow` claims nothing of
deleted documents.  This rests on the library's
  layout of its payload, which is modelled as external.

Met while modelling, without a run of their own:

* The cache of answers has the query and the number of results as its key, not
  the user (`cache/service.py:166`): if the filter of a search matched, one
  user's answer would be served to another, where `retrieval.py:33`,
  `qdrant_tool.py:364` and `routers/knowledge.py:276` speak of the user's own
  documents.  As long as searches find nothing, nothing is cached, and the model
  does not reach it.
* The docstring of `_compact_if_needed` (`chat_history_service.py:347-349`) has the
  trim apply above twice `WINDOW_ROUNDS`, the code (`:380`) above three times.
  `WindowKept` and `NoRowLost` describe the code.
* `_init_embeddings` looks at the dense model only (`qdrant_tool.py:249`), so once
  the sparse one (`:265`) has failed after it, every later initialisation goes on
  without it and fails, until a restart, where `core/startup.py:62` promises to
  retry lazily.  `VectorStore` has the two assignments as two steps, and
  `StoreRecovers` excepts a store that is `halved`.
* The tracer is registered once, with automatic instrumentation, and never
  unregistered (`phoenix.py:58-73`): a chat is traced if any chat before it switched
  tracing on, to the project of the first, where `phoenix.py:110-113` promises each
  user's switch and project.  `ChatToldAsSet`, the part of `ChatRunsAsSet` about
  tracing, is about what `tracing_enabled` answers and about the one registration.
* The service and its router speak of approval gates (`os_control_service.py:5`,
  `routers/os_control.py:85`, `gui_controller.py:7` and `:29`).  `POST /os/shell`
  and `POST /os/gui` execute for an admin without asking, the first only reports
  the tier.  `OsControl` models both ways to the shell (`ExecuteShell`,
  `ExecuteShellCommand`); no property is about them.
* `toggle_todo` of notes changes the loaded JSON value in place, so SQLAlchemy
  sees no change and emits no UPDATE (`note_service.py:258-263`); the model's
  `ToggleTodo` has this effect.
* Tool rows of earlier turns come back as tool results without the message that
  called them (`state.py:375-377`), although the trim promises "tool-call pairs
  intact" (`message_utils.py:32`); `CallsAnswered` therefore claims it for results
  of this turn only.
* `mission_service.py:151-152` says that an error changed nothing; a rejected
  update of a tool commits the status it had set (`:448`, `mission_tool.py:51`).
* "XP failure should not block the response" (`routers/knowledge.py:146`): the
  session of a failed award refuses every later statement, so the upload fails,
  its row is rolled back and its vectors stay.  The bonus for ten messages
  (`xp_service.py:19`) is not implemented.
* An upload without any text is ready with no chunks and earns XP; the same file
  by URL is an error.
* `note_tools.py:215` says that only provided fields are changed; the tool
  passes every field, so a missing title is erased and a missing content fails.
* Audio overviews with the source type "documents" always fail.
* The circuit breaker's window looks at tool rows of earlier turns, and a turn as
  long as the context leaves the model nothing, not even the question.
* `PTYSession.execute` says the directory "is updated after each successful
  command" (`pty_session.py:74-75`).  It is found by running the whole command a
  second time with `&& pwd` (`:208`): side effects happen twice, and a command that
  fails the second time (`mkdir a && cd a`) never moves the session.
* The energy "decays over time" (`models/emotional_state.py:36`), but
  `decay_energy` has no caller: energy stays 1.0, and no one is ever tired.
  `streak_days` are "Consecutive days of interaction" (`:39`), but a day counts
  only if at least 24 hours have passed since the last interaction: chatting every
  evening a bit earlier never adds one.
* Overlapping reviews of a card can count more correct answers than reviews, and
  combine the repetitions of one with the interval of the other.
* An automation's time zone is documented, but its due times are computed in UTC.
* The default `model_name` of the settings, "gpt-4o-mini"
  (`models/user_settings.py:147`), is not among the registered models; and calls
  without settings of their own use whatever model the last chat left selected.
* "max 6 calls/run" (`web_search_tool.py:3`) is a limit of the process:
  `reset_call_limit` and `configure_run` have no caller.
* A note's embedding that opens a client of its own, after an initialisation that
  failed, locks the directory of the document store until the next restart.
* The knowledge tool swallows an `AttributeError` (`search_tools.py:112`).
* Memory: the tool reports success when the put failed; `forget` deletes up to three
  memories where its docstring promises the best match (`memory_tools.py:87-88`);
  deleting a thread leaves its memories; the turn that forgets is itself stored.
* Sessions: the limiter counts refused requests and renews its TTL with each
  (`rate_limiter.py:33-35`), which is no "Sliding-window rate limiter" (`:14`),
  but stricter; a logout does not revoke access tokens issued earlier; a socket
  accepts a refresh token and outlives it; failed logins are never audited.
* MCP: `call_tool`, `disconnect_all` and `enable`/`disable` have no caller; the
  context of a transport is never exited, so that a disconnection leaves its
  process or stream open; a discovery that ends after a disconnection leaves its
  tools behind.
* OS control: a shell command of the agent that must be asked for never runs,
  because the interrupt is swallowed (`delegation_tools.py:18-32`); the browser
  serves only the thread that launched it, another thread's action fails;
  `shutdown` is never called.
* Artifacts: an update never raises the version, and another user's artifact is
  accepted as a parent.
* Voice: a load that failed is not tried again until the next restart.

## Proofs

Every proof module establishes an inductive invariant (initially true, kept by
every step, one lemma per kind of step) and derives its theorems from it with
PTL.  They hold for all values of the constants that satisfy the named
assumptions: any number of threads, workers, clients, missions, automations,
documents, any bound, any history.

### Chat

`Chat_proofs`, first part (from `MessageTableAssumption`, `ChatHistoryAssumption`):

* `TypeCorrect`: `Spec => []TypeOK`;
* `ReadsStayValid`: `Spec => []ReadStable`;
* `DeletionIsFinal`: `Spec => []DeletedStaysEmpty`.

None is inductive.  `IInv` adds `Accepted` (a queued or running message has its
request, so rows made from it are rows) and `HoldsLock` (a task past `Touch`
holds the lock of its thread, and that thread is live).  With `HoldsLock`, a
commit touches only rows of its own thread (`CommitIsLocal`), no other task is
between its read and its commit in that thread, and `DeleteThread` finds no such
task.  `AbortInv` serves the five ways a task ends without storing, `DelOnly`
those of a deletion, `MoveOn` those that move a task on.

Second part (the same assumptions):

* `LogImplemented`: `Spec => ImplementsLog`, the refinement of `MessageLog`;
* `ToldOnceHolds`: `Spec => []ToldOnce`;
* `RowsAccounted`: `Spec => NoRowLost`: a row that leaves the table goes with its
  thread, into the summary that the same commit writes, or in the older half of a
  window three times too long.

A commit of the code is the `Store` of the abstract log only if the rows read
some steps ago are those of this very step (`ReadsStayValid`), the message is still
pending and nowhere else, the new ids are new, and the parent that the foreign
key found is still there.  Hence `LogInv`: `InOnePlace` (a pending message is once
in the queue or with one worker), `NamedAfterStored` and `UniqueIds` (ids of rows
and of told messages come from appends that committed, so those of a pending one
are fresh), `StampedInPast`, `RowsOfRequests` and `ParentInThread` (a row, and the
parent of a request, are of the thread it was sent to), `ParentKept`.  All else is a
stutter, or the drop or the deletion that `MessageLog` allows.

Third part (those and `ChatTurnAssumption`):

* `TurnsStoredWhole`: `TurnSpec => []TurnHasNoGap`;
* `EditsStaySiblings`: `TurnSpec => []EditIsSibling`;
* `WindowsAreKept`: `TurnSpec => WindowKept`.

`TurnInv` adds to the invariants of the service what the clients know: ids are
handed out in order, a turn being streamed ends with its last message
(`TurnsAtTail`), every message but the first names its predecessor
(`TurnsChained`).  A message whose parent is missing is refused by the foreign
key, so by induction along the chain nothing is stored after a gap (`NoGap`).  For
edits, `EditsAim` says that a pending edit names the parent its original has now,
or one that is gone; for the window, that a commit leaves at most the rows it read
and one.

### Agent

`AgentRun_proofs` (from `AgentGraphAssumption`, `AgentRunAssumption`):

* `CallsAreAnswered`: `Spec => []CallsAnswered`;
* `QuestionIsSeen`: `Spec => []QuestionInContext`;
* `SocketIsOrdered`: `Spec => []SocketInOrder`.

The first two are about `Context`, the trimmed message list, so their core is what
the trim does to any list: it keeps a suffix (`KeptIsSuffix`), a suffix of an
answered list without the results at its front is answered (`ContextAnswered`),
and it holds the question if the turn is shorter than the context
(`ContextHasQuestion`).  The state adds that every call outside the tool node is
answered in `messages` (`CallsSound`) and that a started run has a question
(`Asked`).  For the stream, `SocketSound` says that the tokens are cut into what
was sent and one piece per queued event, in order (`Splits`), and that the final
event and the end mark come last (`MarksLast`); the step that appends to the queue
and the one that takes from it keep the cut (`SplitsGrow`, `SplitsShrink`).  That
what is cut is what the model spoke is `SpeechSound`: tokens and buffer together
are pieces in order (`AsSpoken`) that end with what the message being written has
so far (`Writing`), and after the loop with the last piece of the answer
(`Answering`); a prefix of such pieces is one again (`PrefixAsSpoken`).

### Services over rows

`Missions_proofs` (from `MissionsAssumption`):

* `StatsAreHonest`: `Spec => []StatsHonest`;
* `ProgressIsComputed`: `Spec => []ProgressFollowsSteps`, with the types;
* `TogglesAreKept`: the action property `TogglesKept`.

`RowInv` adds that the copy of a request is what its call makes of the row it
loaded (`CopiesSound`), that a flushed one holds the lock of its row
(`WritersHold`), and that a toggle's copy is the row (`TogglesCurrent`).
`RatioBounds` and `AllTicked` are the arithmetic of the rounded share.
`StatsSound` adds the reader: counts that no commit disturbed are those of the
table.

`Automations_proofs` (from `AutomationsAssumption`):

* `TypesCorrect`: `Spec => []TypeOK`, with the row locks and their holders;
* `CountIsExact`: `Spec => []RunCountExact`;
* `RunsKeepEdits`: the action property `EditsKept`;
* `DueTimesRunOnce`: the action property `DueTimeRunOnce`.

`IInv` adds what `_execute` has set on the copy it works on (`WorkFollowsCopy`:
one more run, cron and limit as loaded, `enabled` only ever switched off at the
limit), that a locked row exists, and that nothing ran before its creation.  A
commit then writes exactly the changed columns over the current row.  For the due
times, `DueInv` says the same of the row, of the scheduler's list and of the copy
of a run: whoever has seen as many runs as the row counts has a next due time
later than every due time served (`Ahead`); those who have seen fewer will not
commit without crossing a run.

`Knowledge_proofs` (from `KnowledgeAssumption`):

* `TypesKept`: `Spec => []TypeOK`, which includes that one open transaction at a
  time has written the profile;
* `XpIsExact`: `Spec => []XpExact`;
* `VectorsAreRows`: `Spec => []VectorsFollowRow`.

`XpExact` alone says nothing of values still on their way to the profile.  `IInv`
adds that an award that has read the profile lacks only awards that are excepted
(`ReadIsRecent`), that what was flushed also contains the award itself
(`FlushIsRecent`), that an award that found no profile starts from nothing
(`InsertsFromZero`), which is right because no profile means no award
(`FirstAward`), and that an ingested upload knows its row (`DocumentKnown`).
The steps fall into those that neither touch nor have touched the profile
(`Quiet`), the read, the award, the commit and the restart.  For the vectors,
`DocsSound` follows a document through its upload, the commit of its row and its
deletion; of what a deletion leaves it says nothing (see `search_finds`).

`Notes_proofs` (from `NotesAssumption`, which asks that the bound on link rows with
the same text is at least the number of calls: each call adds one; and
`AudioAssumed`):

* `NoteCopiesFollow`: `Spec => []CopiesFollowNote`, with the types;
* `FilesFollowTheRow`: `BothSpec => []FilesFollowRow`.

The property speaks of a note at rest; between, the three copies are ahead of the
row.  `FileInv` therefore compares the file with the row as the holder of its lock
will leave it (`Final`), and `VectorInv` the last task queued for the note, or the
embedding when none is pending, with that row once the holder has queued its
text (`Queued`).  `LinksInv` says that a synced request leaves the links of the
content it leaves (`Synced`), and that beside a request that changes links no other
one at its commit changes links or the content (`Alone`): otherwise each would be
right alone and both together wrong.  `KeysInv` gives every link its two notes, also
those not yet committed, which no deletion has passed (`Anchored`).  `WorkInv` is
what a request has loaded and holds: who changes a column keeps the lock from
the flush to the end.  `CopiesInv` counts link rows against calls, so that a
sync always finds a free copy number.  A step of a request is described once, by
what it leaves alone (`StepOf`), so that each action need only look at its own note.

For the audio overviews, `AudioInv` follows one that has not strayed through the
steps of its task: `RowKept` ties the status of the row to its path and to the
task, `OverviewFile` says where the file is while the row does not know it yet
(there is none before the synthesis, and then the task knows it until the row
does), `RequestKept` that a creation is alone with its overview and that a deletion
which has removed a file has removed that of the row.

`Services_proofs` (from the assumptions `ShellAssumed` to `StoreAssumed` of
`Services`, which state those of its components):

* `HistoriesForm`: `ServicesSpec => []ArtifactsFormHistories`;
* `StoreRepairs`: `ServicesSpec => []StoreRecovers`;
* `CardsFollow`: `ServicesSpec => []CardFollowsReviews`;
* `StateFollows`: `ServicesSpec => []StateFollowsEvents`;
* `ShellIsKept`: `ServicesSpec => ShellKept`, which has a part about states and one
  about steps.

*Artifacts*: `FilesInv` has for each row and each row on its way what the foreign
keys give: a created row refers to rows that nobody is deleting from its INSERT to
its commit (`ReferencesHold`), and its version is that of its parent plus one as
long as the parent is there (`CreationsSound`).  That a walk never comes back is
`HistoriesRanked`: there is a ranking in which rows come after their parents and
what a walk has visited after the place where it is.  A new row, to which nothing
refers yet, takes the rank after its parent's.  *Vector store*: `ClientKept` says
that the client comes first and stays, `IndexesComing` that somebody is at work on
a collection that lacks an index, and `Clean`, for stores that no reset has
crossed, that each step of an initialisation builds on the ones before it
(`StepSound`). `ModelsLoaded` says that the second model is there before the store
is, and that somebody is about to load it, unless that broke off. *Flashcards*:
`StudyInv` compares each card with the replay of its committed calls (`CardSound`)
and says of a call on its way what its copy still agrees with (`WriteSound`); row
locks keep additions, removals and writes apart (`LocksExclude`).  The ease factor
stays at 1.3 or more by the arithmetic of `Sm2Update`.  *Emotional state*:
`TransactionsSound` says that a writer from which no commit has hidden anything
still has the columns that count as they are in the row (`Fresh`), and that at
most one transaction has an uncommitted row (`Placed`).  The lemmas
`AbsenceComputed` to `HeadpatComputed` follow the arithmetic of an interaction and
the ledger of its events in parallel (`Computed`). *Shell sessions*: `SessionsInv`
says what holds until two calls race in the dictionaries: who handles an id is
alone with it (`HandledAlone`) and finds it as it expects (`Sees`), whoever will
insert a session has room for it (`HasRoom`), and a session without a stamp or a
stamp without a session is about to be settled (`StampsSettle`).  For the working
directory, `CarriesOn` follows the one command of a user who is not excused.

### Around the services

`Platform_proofs` (from `ModelsRegistered` of `ModelSettings` and the assumptions
`McpAssumed` to `WebAssumed` of `Platform`, which state those of its
components: mostly that `Null` is none of the values it stands beside and that
bounds are numbers):

* `ToolsAreTheSessions`: `PlatformSpec => []ToolsOfTheSession`;
* `VoiceLoadsOnce`: `PlatformSpec => []VoiceLoadedOnce`;
* `ControlsStayAccounted`: `PlatformSpec => []ControlsAccounted`;
* `IdentitiesKeepAccounts`: `PlatformSpec => []IdentityKeepsAccount`;
* `RevokedTokensStayOut`: `PlatformSpec => []RevokedStaysOut`;
* `WebStaysBounded`: `PlatformSpec => []WebCallsBounded`;
* `ChatsRunAsSet`: `PlatformSpec => []ChatRunsAsSet`;
* `ToldMemoriesStay`: `PlatformSpec => []MemoriesKept`.

Each rests on an invariant of its component alone; a step of another one leaves
its variables as they are.

* `McpInv`: a server that nothing disturbed has at most one request, and is at rest
  or as far as that request has brought it (`Handles`); each connection leads to
  the server it is used for (`LeadsHome`).  Connections are those whose session was
  not exited; the transports stay.
* `VoiceInv`: a thread past the lock of its engine holds it and stands where the
  engine is (`CallSound`), so only one of them can load; an engine that has loaded
  is done, or its loader is on the way (`EngineSound`).
* `OsInv`: a thread that is about to make a controller has made none
  (`ControllersMade`), because once there is one, no first look fails again; a
  thread runs one driver, which its launch started (`DriversStarted`); of two
  launches of one controller at a time both are `met`, and a launch that is not
  works with objects of its own (`LaunchesMeet`, `PagesOpened`).
* `AccountInv`: names and e-mails are unique, every account has a way in, also one
  about to be created (`WaysIn`), and while no write came between, an identity is
  linked to its home alone, and to nobody while a sign-in of it is about to link it
  (`LinkKept`).
* `SessionInv`: the entry of a revoked token outlives it but for its last second
  (`EntryLasts`), the arithmetic of which is the truncation to seconds; requests
  of a window have places of their own, up to the count, on a counter that
  outlasts the window of each (`PlacesTaken`).
* `WebInv`: a query is marked by one call, and before it is sent (`QueriesApart`);
  calls that are paid for and not yet sent, and searches admitted to a window and
  not yet sent, count too (`CallsPaid`, `SearchesCounted`).
* `ModelInv`: a call that met no other finds, at each of its steps, the selected
  model, its configuration and its client as far as it has set them (`OnTheWay`).
  From the step that drops the client on it is `Ready`: whoever builds a client of
  that model meanwhile, a background call for one, builds the one the chat wants.
  `TraceInv`: registering happens under the lock, and a chat that asked for tracing
  finds a tracer registered as soon as an initialisation after its reset has
  ended, unless that failed (`TraceSound`).
* `MemoryInv`: memories have keys of their own (`KeysApart`), every key handed out
  is in the store, or else forgotten or unstored (`KeysSettled`); what a forget
  has matched is still there unless another one of its user crossed it
  (`ForgetsMatch`), and deletions in flight are counted (`ForgetsCounted`).
  `EpisodesInv` says that an answer has its episode, is being stored or is `cut`.

### What stays with TLC

Every safety invariant and every action property of the passing runs, and the
refinement of `MessageLog`, is a theorem.  The liveness properties
(`WritesSettle`, `DueIsServed`, `TurnEnds`, `RequestsEnd`, `GenerationEnds`,
`RequestsSettle`) are only model-checked: fairness and ENABLED are out of the
prover's reach.  So are the violations of the findings, which are single
behaviours.

## Not modelled

* Chat: the Redis copies (written, read only by `get_memory_buffer`, which has no
  caller); thread titles, renaming and pinning; a `parent_message_id` in a chat
  request (the web client never sends one); several clients in one thread; two
  deletions of one thread at once; the limits of 1000 and 500 rows; an answer
  that itself starts with `[SUMMARY]`; the automation that delivers as a thread.
* Agent: several turns at once; the rules of the guardrails; sub-agents; the
  resume of an interrupted run.
* SQL approval: the interrupt of a query is raised below a sub-agent whose
  `except` swallows it, so no execution reaches a decision, or its resume, which
  puts the edited query under a key (`modified_sql`, `resume.py:128`) that the
  tool does not read.
* Missions: lists, search, other cache entries.  Automations: names, prompts,
  what a delivery stores, several server processes.
* Notes: links made by hand (a sync deletes any link not in the content),
  collections, the graph view, search, errors of the disk (swallowed), the
  deadlock of two deletions, `create_notes_from_agent` (no caller).
* Audio: the sources and the script, abstracted to found or not.
* Knowledge: levels (arithmetic), the XP cache (no reader), several users, the
  Neo4j graph, `ingest_directory` (no caller), a second deletion of the same
  document while the first is open.  Where langchain keeps the metadata of a
  chunk is taken from its interface.
* Shell sessions: environments (the merged one is not kept), `close_all` (no
  caller). OS control: what a page or a screen shows; `close`, `shutdown` and
  `create_approval_request` (no callers).
* Emotional state: the methods without a caller (`update_mood`, `update_affinity`,
  `decay_energy`, `restore_energy`, `check_absence`, `update_streak`), the overrides
  for an energy that cannot fall, times of day, tiers, the text of the prompt,
  several characters (there is one).
* Flashcards: names and texts (`update_deck` and part of `update_card`), the
  adaptive selection, statistics, the note of a card.
* Artifacts: contents, lists, `create_artifacts_from_agent` (no caller).
* Retrieval and data access: ranking, the methods that set keys or warm caches
  without a caller, the SQL and Neo4j tools and the classifier of queries (pure
  functions of text).
* Memory: similarity (any match within the limit is possible); personas and
  prompts, which are text.
* Accounts: passwords and the HTTP side of OAuth.  MCP: the calls of tools.
* Dashboards, collections: one statement per request.  Process start and stop: a
  thin layer over libraries.  The web client.

## Plan

Nothing the runs check as safety is left to prove.  What the models could add:
thread titles with `update_thread`, two clients in a thread, links made by hand, and
collections.
