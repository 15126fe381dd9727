# A TLA+ model of talk (LLMClientWrapper)

`talk` is a Go program that holds conversations with a large language model, lets the model call
tools of MCP servers, keeps the sessions in SQLite, and is used either from a terminal (the CLI's
REPL) or through an HTTP server that speaks the AG-UI protocol. Paths below are relative to `src/`.

This directory holds TLA+ modules translated from the Go source, TLC configurations that check
them on small instances, and proofs that TLAPS checks for every instance. `PROJECT.json` lists the
runs, the mutants that show each property can fail, the source lines behind every definition, the
known hazards, the findings and the theorems.

To repeat a check: `tlc -config <cfg> <module>`; to repeat the proofs of a module: `tlapm <Module>Proofs.tla`.

## 1. Inventory

| Component | State | Operations | Interacts with |
| --- | --- | --- | --- |
| Conversation loop (`talk/internal/domain/conversation.go`) | locals of one `Chat`: turn id, call count, last response; the manager's scope, client and effort | `Chat`, setters | prompt provider, context builder, LLM client, tool executor, event pipeline (calls, one after the other) |
| Context builder (`context_builder.go`) | none | `BuildContextMessages` and its helpers | two reads of the store |
| Tool executor (`tool_executor.go`) | a semaphore and result slots per batch | `Execute`, `ExecuteTool` | tool registry (re-read per call), tool-call events; one goroutine per call |
| Event pipeline (`usage.go`) | none | four kinds of event, phases in order, handlers of a phase in parallel | store, emitter, reporters |
| SQLite store (`memory/sqlite/store.go`) | tables `sessions`, `messages`, `history_turns`; a mutex per process | store message, record turn, read, list, clear, delete | CLI and server processes share one file |
| In-memory store (`memory/inmemory/store.go`) | slices | the same | nothing: no package imports it |
| MCP manager (`mcp/manager.go`, `tool_adapter.go`, `sqlite_registry.go`, `cmd/cli/cmd_mcp.go`) | session map, statuses, tool catalogue, singleflight group; the registry table | connect, reconnect, refresh, disconnect, close, tool calls | MCP servers over HTTP; tool executor; REPL commands |
| AG-UI server (`agui/*.go`, `cmd/cli/serve.go`) | one SSE stream per request | `POST /agent`: validation, resume, chat, terminal event; shutdown | `Chat` through the emitter, the HTTP client |
| Usage reporters (`usage/*.go`) | Langfuse: a bounded channel and a goroutine | export, close | event pipeline |
| LLM clients (`llm/*`) | none | convert the history, one HTTP call | providers |
| MCP server library (`talk-libs/mcpserver`) | JWKS cache, limiters per client | middleware chain: rate limit, paths, authentication; OAuth proxy | authorization server, clients |
| CLI (`cmd/cli`) | current session, model and effort | REPL, `/session`, `/mcp`, `/model` ... | everything above |
| Configuration (`config/loader.go`) | none | parse the environment | constants of the other parts |
| MCP servers (`mcp-owm`, `mcp-ign-nav`, `mcp-playground`) | none | HTTP wrappers | weather and map APIs |

What is hard here, and what must hold:

* **Failure in the middle of a turn.** A turn is five or more calls on collaborators, each of which
  may fail (a cancelled request shows up as a failure of the next call). What is stored, what is
  recorded and what the caller is told must agree; the results of a response stay in order behind it.
* **Overlapping requests on one thread.** The server starts a `Chat` per request and takes no lock per
  thread; messages of two turns interleave in the store. Context selection makes two separate reads.
* **Parallel tool calls.** Goroutines, a semaphore and shared slots; results and events must not be
  mixed up, and nothing may run on after the batch returned.
* **Lost sessions.** Several calls notice the loss of one session at different times and share, or
  fail to share, its reconnection; displaced sessions are closed; commands, another process and
  shutdown interfere.
* **One stream, many writers.** The store, the emitter and parallel tool calls run concurrently while
  the client may vanish; the stream must keep to the protocol and tell the truth about the turn.
* **One database, several processes.** Each process serialises its own statements with a mutex; between
  two processes only a statement is atomic. Sessions are created lazily and deleted under running turns,
  legacy tables are migrated by whoever starts first, and a process may stop between two statements.
* **What is said to whom.** A tool result carries text for the model and for the user; it passes the
  adapter, the executor, the store and the converters before a provider, or the client, sees it. Providers
  refuse a request whose roles, calls and results do not fit together.
* **Export on the side.** Usage leaves through a bounded queue and a worker that may hang; the turn must not
  notice, and what is exported must be what was stored.
* **Shared caches.** Requests to an MCP server share rate limiters that are evicted and a key set that
  expires while keys are rotated.
* **Shutdown** while requests are being answered.

## 2. Modules

| Module | Models | Kind |
| --- | --- | --- |
| `ContextBuilder` | `context_builder.go`, as operators over messages and history rows | pure |
| `Conversation` | `Chat` over the store, for the turns of one session; composes `ContextBuilder` | state machine |
| `TurnLedger` | what `Chat` promises its caller and the readers of `history_turns` | abstract |
| `MCConversation` | the constants a `.cfg` cannot write | model checking |
| `ToolExecutor` | `ToolExecutor.Execute` for one batch | state machine |
| `ToolBatch` | what `Execute` promises `Chat`: one atomic step | abstract |
| `McpManager` | `mcp.Manager` and the tool adapters' calls | state machine |
| `AguiRun` | one `POST /agent`, from the body to the last event | state machine |
| `AguiProtocol` | the event streams an AG-UI client may see | abstract |
| `LlmRequest` | the converters and clients of `llm/`, the registry of models, as operators over contexts; extended by `Conversation` | pure |
| `ToolPayload` | what a tool says to whom, from MCP content blocks to the columns of the store and back; extended by `ToolExecutor` | pure |
| `SessionStore`, `MCSessionStore` | the three tables, their migration and the session commands, with several processes | state machine |
| `UsageExport`, `MCUsageExport` | usage of a turn, phases of the pipeline, the Langfuse queue and worker | state machine |
| `McpHttp`, `MCMcpHttp` | the middleware chain of an MCP server, its limiters and its key cache | state machine |
| `ServeShutdown` | the end of `talk-cli serve` | state machine |
| `RequestProofs` | theorems about the operators of `ContextBuilder` and `LlmRequest`, and about `FlattenSeq` | proofs |
| `ConversationProofs` | theorems about `Conversation`; extends `RequestProofs` | proofs |
| `ToolExecutorProofs`, `SessionStoreProofs`, `McpHttpProofs`, `McpManagerProofs`, `AguiRunProofs`, `UsageExportProofs` | theorems about the module they are named after | proofs |

### Conversation

Each turn has a program counter `pc[t]`, whose labels are the calls `Chat` makes next: `ask` (store the
question), `read` and `history` (the two reads of `BuildContextMessages`), `complete` (LLM call),
`reply` (store the response), `execute` (tools), `results` (store one result), `finish` and `exhaust`
(record the turn). `round` is `callCount`, `reply` the last response, `done` the position of
`storeToolResultEvents`. `session`, `messages` and `history` are the three tables, restricted to one
session. `clock` is the store's clock: rows are ordered by the second of the question and then by the
random turn id, which is why `Turns` are numbers that may be drawn in any order. `HistoryTurns` is the
set of the sequences of all rows in that order; there is one, but nothing has to be known about sorting
to say so.

Every action has the failure of its call as a disjunct or as an action of its own (`FailPrompt`,
`FailComplete`, `FailExecute`); a failing store may have done nothing, part of its statements or all
of them. `Faults` selects what may fail. `Concurrent = FALSE` is the REPL (a turn begins when none
runs), `TRUE` the server. Text is abstracted to whether an answer is empty, which the upsert and the
summaries look at. The summary that replaces an empty text of a response with tool calls, the API-call
strings and token counts are observability data and left out. `Chat` takes its list of tools once; the
executor reads the registry again, so that list is not state of the turn's outcome.

`TurnLedger` sees of all this only a phase and a record per turn. The refinement maps the ended labels
to themselves, every other label but `idle` to `open`, and the history row to its status.

### ToolExecutor

`pc[i]` follows `executeSingleTool` for each call: `queued`, `start` and `end` (event handlers), `lookup`,
`run`, `release` (the deferred receive). `slots` is the number of buffered sends on the semaphore
channel, `executions` and `errs` the two slices. A refused event leaves the same empty execution and error in the
slots wherever it happens, so the history variable `refused` keeps which calls had an event refused: `OnlyHandlersFail` is
about why a batch failed, not about what its slots look like. `ToolsChange` lets the registry become anything between
two steps, which is what `Manager.Tools` may return while servers come and go. `Execute` and
`FailExecute` of `Conversation` are the step of `ToolBatch` that `ToolExecutor` is shown to implement, so
the two modules compose.

### McpManager

`sessionOf`, `status` and `tools` are the manager's map, statuses and catalogue, `condition` what has become
of each session ever dialled. A status is `none` (not in the list), `up`, `down` (not Connected: the dial failed) or
`stale` (Connected, with the error of a listing that failed); a failed reconnection writes the status and leaves map and
catalogue alone, and `/mcp refresh` lists the servers that are Connected and have a session. A tool call goes through `ensure`, `call`, `renew`, `join`, and as leader of
the singleflight function through `dial`, `list`, `store`, `close`, or waits. The write under the lock
(`Store`) and the close after it (`CloseDisplaced`) are two steps, as in the code. `/mcp` commands run only
when no call is under way, because the REPL reads the next line after `Chat` returned; the server has no
commands; `ConnectAll` ends before either accepts input. `Close` comes at any time.

### AguiRun

The labels of `pc` are the stages of `ServeHTTP`, then of the `ChatFunc` and `Chat`, reduced to what the
stream can tell. `emitting[0]` is what the emitter's goroutine of the current message event has still to
write, `emitting[i]` the same for the i-th call of the batch; `storing` is the store's goroutine of the same
phase. `replies` is a history variable with the response of every round, so that what should have been delivered can be
said of all rounds. Every `WriteEvent` is one step, as the writer's mutex makes it. A disconnect is two steps: from the
first on, writes reach nobody; from the second on, the request context is cancelled. `wire` is the set of
events received and `count` their number; their order is what the step-by-step refinement of `AguiProtocol`
is about.

Tool-call events are assumed to be encodable, and the response writer to support flushing, as
that of `net/http` does. Reasoning of a response may come with or without tool calls.

### LlmRequest and ToolPayload

Two pure modules, with no state of their own. `LlmRequest` turns a context of `ContextBuilder` into the
request of either API: `toAnthropicMessages` skips messages without content and merges neighbours of one
role, `toOpenAIMessages` keeps them one to one. `AnthropicAccepts`, `OpenAIAccepts` and `OptionsAccepted` are what
the providers document of valid requests; they are external. Which responses turn out to have no text is
not part of a context, so the property quantifies over the subsets of those that may. `Options` is the
output limit and thinking of a request for each model of the registry.

`ToolPayload` follows a result: `textForAudience` and `decodeToolText` of the adapter, `Result` of the executor,
the columns `buildToolRoleFields` makes of the message and the message `AllMessages` makes of the columns. A
text is the sequence of the blocks it is joined from; whether it is a JSON object, JSON's null or
neither is what the code tells apart. `AudienceKept` of `ToolExecutor` applies it to every batch that succeeds.

### SessionStore

`creator`, `messages` and `history` are the tables `sessions` (which process inserted the row), `messages` and
`history_turns`; `columns` are those of a legacy `history_turns` that the migration may have to add. An actor is
a CLI (one chat at a time) or a request of the server. `pc` is `between` two calls of the store, or at one
of the two statements of `HandleMessageEvent`: `create` (`materializeSession`) and `insert`; being at either is holding
the process's mutex (`Locked`). `Exit` stops a process anywhere, `Fail` fails a statement or another call of the
chat; a statement may take effect and still report an error, as one does whose context is cancelled meanwhile. `/session` commands are two steps, what the user is shown (`List`) and the choice, as another process
may act in between. A session id is a thread id of the UI or drawn by a CLI, and a drawn id is fresh.

### UsageExport

`manager` is what `SetClient` changes (the client) and what it does not (the provider). `pc[t]` follows `Chat` as far
as usage goes: the LLM call, the store's phase of the event (`store`), the reporters' (`report`), the tools.
`queue`, `inHand` and `sent` are the channel, the worker's event and what Langfuse has; a request to Langfuse may
fail, and is not tried again, or never come back: the worker has no fairness. `Close` is modelled as the
reporter has it (cancel, close the channel, wait), although no command calls it; a `select` on the closed
channel may panic, and `runPhase` recovers.

### McpHttp

A request passes the limiter (`Arrive`), the path filter and the choice of authentication methods (`Route`), then
`verify` of the bearer token with the key cache, or the API key, then the handler. `writer` is the holder of
the cache's lock during a fetch. Time is ages, cut off where the code no longer tells them apart. The ghosts
`ideal` (a limiter that is never evicted), `retired` and `settled` (how long the key of a token had been withdrawn
or published when it was presented) are what the properties compare with. Which client address a request is
counted for, signatures, claims and the bodies of the OAuth documents are outcomes or left out.

### ServeShutdown

The main goroutine, the one waiting for the signal, and the requests in flight; `net/http` and `context` are
external and do what they document.

## 3. Runs

| Run | Instance | Shows |
| --- | --- | --- |
| `conv_cli` | 3 turns in sequence, modes full, lean and hybrid(1), budget 1, up to 2 calls per response, 2 seconds, failing store | results in order behind their response; every recorded turn is covered once; both APIs accept the request made of a context; completed turns follow the clock |
| `conv_serve` | 2 overlapping turns, modes full, lean and hybrid(1), budget 2, every fault | no LLM call with a result missing; each LLM call sees its own turn, the calls and results of its first round included, as stored, whatever the other turn stores between the two reads; history, messages and outcome agree; no leak of unrecorded turns into a lean context; every turn ends; `Chat` implements `TurnLedger` |
| `conv_budget` | 1 turn, budget 5 as in the code | violation: the documented limit of two tool-call rounds is passed |
| `tool_executor` | batches of 1 to 3 calls, limits 1 (sequential) and 2, two tools that come and go, failing handlers, contents of up to two blocks | the limit, the match of results and calls, why a batch fails, what is said to whom, termination, and `ToolBatch` |
| `mcp_manager` | 2 servers, 2 calls, up to 4 sessions, 1 loss, every kind of interference | one reconnection at a time; no session leaked, closed twice or closed while it is in the map; map, statuses and catalogue agree; every call ends, and none that was given a lost session ends well and leaves it in the map |
| `mcp_cascade` | 1 server, 2 calls, 1 loss, no other fault | violation: a call fails though its server is registered and healthy |
| `agui_run` | every request shape, budget 2, up to 2 calls per response, sequential and 2 at once, every fault | a connected client gets an end; the outcome it sees matches the turn's record, and every message and call of every round was delivered with it; nothing touches the response after the handler returned; every request ends; and `AguiProtocol` |
| `session_store` | 2 CLIs, a server with 2 requests, one thread and two CLI sessions, 2 turns of 2 messages, statements that fail before or after they took effect, 1 process stopping, up to 2 missing columns | what was reported stored is there unless its session was removed; orphans come from a removal under a running turn only; a session has its question unless its creation was cut short; creations collide only across processes; a process works on a migrated table |
| `usage_export` | 2 turns of up to 2 calls, queue of 2, two models | spans are of stored events; a turn's span comes last and sums up its calls; no turn waits for the reporter |
| `usage_model` | the same, one turn | violation: the span of an LLM call does not name its model |
| `mcp_http` | 2 requests of one client, 2 keys, all sets of methods, a bucket of 1, a TTL of 2 and a fetch of at most 1 | eviction cannot be seen; no withdrawn key is used, no published one unknown, for longer than the TTL and a fetch; one fetch per period |
| `serve_shutdown` | one request | violation: a request in flight is cut off before the deadline |

**Why the bounds suffice.** The context rules distinguish the current turn, the last N others and the
rest, and turns that are complete, incomplete or unrecorded: three turns with a hybrid window of one give
each combination for two earlier turns. A budget of one already makes both outcomes (an answer and
exhaustion) possible, and two rounds add the return to the context builder; the loop's control does not
look at the number otherwise, and the theorems cover every budget. Two calls in a response show order; three
in `tool_executor` show a call that waits for a place while two run. One loss and two calls are what a race
on one reconnection takes, and four sessions allow each server one session, one reconnection and one
more; a dial beyond the bound counts as failed, which the code allows at any time. The order of rows
needs two seconds: equal and different. In `session_store` a removal, a creation and a migration are each a race
of two processes, and one process that stops is one half-done operation; two messages are a question
and what follows it. In `usage_export` a queue of two is full while a turn of two calls (three events) reports. In
`mcp_http` limiters of different clients share nothing but the map, so one client is enough; two requests race on
the cache, and the ages are those the code compares (before and after the TTL, within the fetch's
timeout); a bucket of one that is full again after the idle time is the relation the defaults have (50 tokens,
50 a second, 10 minutes), stated as `LimiterAssumption`; the environment may set others, which nothing checks. `TOOLS_MAX_CONCURRENT` is at least 1, as its parser sees to.

**Fairness.** Weak fairness of the steps of each started `Chat`, batch, call or request: the Go scheduler
runs every goroutine, and a call that was made returns or fails. `Begin`, `Tick`, faults, losses,
commands and disconnects have no fairness. The code gives dialling a timeout (`connectTimeout`, 15 s) but
none to `tools/list`, to a tool call, to an LLM call or to a statement: that these return, or are
cancelled with their request, is an assumption about servers and providers, and liveness
(`Terminates`, `ExecuteReturns`, `CallsEnd`, `RunEnds`, `TurnsEnd`) holds under it. In `UsageExport` the worker has no
fairness at all, so `TurnsEnd` holds with a Langfuse that never answers. No property needs strong fairness; the
semaphore is fair enough because every holder of a place gives it back.

**Deadlock** is checked in the runs of `Conversation`, `ToolExecutor`, `McpManager` and `AguiRun`, whose states in which the
system rightly stops have an explicit stuttering action (`Quiet`, `Returned`). It is not in the others: the
processes of `SessionStore` may all have stopped, the turns of `UsageExport` are used up, the server of `ServeShutdown` has
exited, and in `McpHttp` time can always pass.

## 4. Proofs

TLAPS checks the theorems below for every value of the constants; the named `ASSUME`s of the module they
are about are all they rely on, and TLC evaluates those in every run. Each module proves one inductive
invariant and draws the properties from it.

| Theorems | Property |
| --- | --- |
| `ConversationProofs`: `TypeCorrect`, `OrderCorrect`, `AnsweredCorrect`, `LedgerCorrect`, `OwnTurnShown`, `IsolationCorrect` | `[]` of `TypeOK`, `AnswersInOrder`, `AnsweredBeforeNextCall`, `LedgerMatchesMessages`, `ContextHoldsTurn`, `ContextIsolated` |
| `ConversationProofs`: `CoverageCorrect`, `ContextOrderCorrect` | `[](~Concurrent => HistoryCovered)`, `[](~Concurrent => CompletedInOrder)`: for turns that do not overlap, as the run that checks them has it |
| `ConversationProofs`: `RequestsCorrect` | `[]RequestAccepted`, also for lean contexts of turns that overlap |
| `ConversationProofs`: `LedgerSimulated` | `Ledger!Init /\ [][Ledger!Next]_Ledger!vars` |
| `RequestProofs`: `ContextOfTurn`, `ContextInOrder`, `ContextOwes`, `DialogueForOpenAI`, `DialogueForAnthropic`, `BudgetFits`, `ModelServed`, `RegistryServed` | what the operators compute for every input; `RegistryServed` is the conjunct `EveryModelServed` of `RequestAccepted` |
| `ToolExecutorProofs`: `TypeCorrect`, `ConcurrencyCorrect`, `ResultsCorrect`, `FailureCorrect`, `QuietAfterReturn`, `AudienceCorrect`, `BatchSimulated` | `TypeOK`, `ConcurrencyBounded`, `ResultsMatchCalls`, `OnlyHandlersFail`, `NothingRunsOn`, `AudienceKept`, and that every step is the step of `ToolBatch` or a stutter |
| `SessionStoreProofs`: `TypeCorrect`, `MessagesKept`, `OrphansCorrect`, `QuestionsCorrect`, `CreationCorrect`, `MigrationCorrect` | `TypeOK`, `NothingLost`, `OrphansOnlyOvertaken`, `SessionsHaveQuestion`, `CreateConflictsForeign`, `OpenedMigrated` |
| `McpHttpProofs`: `TypeCorrect`, `EvictionCorrect`, `FreshKeyCorrect`, `RotationCorrect`, `FetchedOnce` | `TypeOK`, `EvictionUnseen`, `FreshKey`, `RotationNoticed`, `OneFetchPerPeriod` |
| `McpManagerProofs`: `TypeCorrect`, `ReconnectionCorrect`, `SessionsCorrect`, `CatalogueCorrect`, `RetryCorrect` | `TypeOK`, `OneReconnection`, `NoSessionLeak`, `CatalogueMatches`, `RetryOnlyOvertaken` |
| `AguiRunProofs`: `TypeCorrect`, `EndCorrect`, `OutcomeCorrect`, `QuietCorrect`, `ProtocolSimulated` | `TypeOK`, `ConnectedGetsEnd`, `OutcomeMatchesTurn`, `NothingAfterReturn`, `ImplementsProtocol` |
| `UsageExportProofs`: `ExportCorrect`, `OrderCorrect`, `SumsCorrect` | `ExportedWasStored`, `SpansInOrder`, `TurnSpanSumsUp` |

**Conversation: the store.** None of the properties of messages and rows is inductive: that a result is in place
depends on where the turn's last message is, and that a recorded turn has all calls answered depends on
nobody having calls outstanding when it was recorded. `IInv` adds per turn: `LocalsInv` (which call count and
which responses go with a label), `StoreInv` (while a batch is being stored, `Position` says that the last message of
the turn is the response or the result of call `done`, and `Pending` that only the calls after `done` are
unanswered; at every other label of a turn that has not failed, all its calls are answered) and `RowsInv` (what
a history row implies). The step lemma splits on the actions: one lemma (`OthersUndisturbed`,
`UndisturbedInv`) says that a step of another turn keeps a turn's part of the invariant, as it appends messages of
its own and touches rows of its own only; then one lemma per action deals with the turn that moves.

**Contexts.** `ContextInv` adds `ViewInv` (what a turn has read holds its own messages as they are stored, however many
others are stored meanwhile), `HistoryInv` (one row per turn, finitely many) and `SerialInv` (without overlap, one turn
runs, and what it has read is still what is stored). `ClockInv` adds that messages and rows follow the
clock: without overlap the messages of later turns come later, which is why details, in the order of messages,
and summaries, in the order of rows, agree on completed turns. What `BuildContextMessages` makes of its two reads is in
`RequestProofs`: `ContextOfTurn` (of the current turn every message, of any other its summary, its messages or
nothing) and `ContextInOrder`. The operators flatten sequences of sequences; the induction theorems of the library
take an operator as a parameter and cannot be used, so `Induct` derives induction for sets of natural
numbers from `Least`, and `FlattenRuns` turns `FlattenSeq` into a sequence of running concatenations, from
which its elements, its type, its order and its composition with `OfTurn` follow.

**Requests.** That both APIs accept what the clients make of a context is a property of the last link of a chain (store,
context builder, converter), and no link has it as an invariant. The notion that passes through all of them
is `Owes(c, C, rest)`: a *scan* of the messages `c`, which carries the calls still to be answered from one message to the next
(`Follows`: a question or a response only where nothing is owed, a response not behind a response, a result exactly of the
first call owed), ends with the calls `rest`. A context that owes nothing is a dialogue. In `RequestProofs`, dialogues are
closed under concatenation (`ContextOwes`: summaries, fallback summaries and details, in whatever order a map is
iterated over), `DialogueForOpenAI` follows from the scan directly, and `DialogueForAnthropic` is by induction over the
messages merged so far: `Progress` says that roles alternate, that every message but the last has its calls answered
by the next, and that the last has answered or made what the scan says; whether an answer turns out empty
does not matter, because a skipped response makes no call and the questions around it merge.
In `ConversationProofs`, `KeptInv` (without overlap, the stored messages of *any set* of turns that have not failed owe what the
turn at work has still to store: a set, as nobody knows yet what will be selected) and `OwnInv` (with any
overlap, the same of each single turn) are inductive next to `ContextInv`; both rest on one lemma, `OwingStep`, about the step of
a turn. `AcceptInv` and `LeanInv` draw from them that the context of a call owes nothing: a lean context selects turns
that have not failed (`DetailedTurns`: an incomplete row is of an exhausted turn), and, if none is
incomplete, only its own messages and summaries, which is why overlap and failures of others do not matter. The conditions
of `RequestAccepted` are as weak as the code allows (section 5).

**Options.** `ModelServed` is about every model a registry may hold (any limits, any style): its options are accepted at every
level of thinking if it is `Serviceable`, which for a model of Anthropic asks for a limit above the minimal
budget; `BudgetFits` says that no less would do. The models there are today are of that kind (`RegistryServed`).

**ToolExecutor.** `SlotsInv` says that the semaphore's count is the number of calls that hold a place, from which the
bound follows by a cardinality argument; `LoopInv` that the sequential loop goes on from a success only;
`CallInv` what a call's place says of its slots, errors, events and refusals; `ReturnInv` what the outcome says of all
calls. `AudienceCorrect` is a fact about the operators of `ToolPayload` for every content, lifted to the runs.

**SessionStore.** A chat that is about to create a session row has not got it, and a later message's session is there or was
removed under it (`ChatInv`); one actor of a process is between two statements (`MutexInv`); a migrating process
has seen, or added, columns that are there (`MigrationInv`: columns are never dropped, so what another process
adds cannot hurt). A failed statement is a case of its own: it did nothing, or what its success does. With these the other properties are inductive themselves.

**McpHttp.** `RefillInv` says that an idle limiter that is not full has what its idle time brought, so that one old enough to
be evicted is full, by `LimiterAssumption`. `AsOf(keys, age)` says that a known key set differs from the published one
only in keys that changed no longer ago than `age`: `AnswerInv` is that of a fetch under way and of the cache,
and with the ghosts of `GhostInv` it gives `FreshKey` and `RotationNoticed`. `WriterInv` (the lock is taken when the keys
are no good) gives `OneFetchPerPeriod`.

**McpManager.** `LeaderInv` ties the singleflight group to the calls that lead and wait; `SessionInv` says that each session is
in the map once, in one call's hands, or displaced, never two of these; `OpenInv` that every open one is
somebody's, and that nobody's hands hold one the manager has closed; `RetryInv` that from the store to the retry only shutdown leaves a server without a session.

**AguiRun.** `GoroutineInv` and `ControlInv` say what goroutines and outcomes go with a label. A client that is still there has
been told exactly what the emitters of past rounds had to write and, of the present one, what they are done with
(`EmitterInv`, `PastClosed`, `ReplyTold`, `CallsTold`, `RoundsTold`), and a terminal event is the last thing
(`TerminalInv`). From this every write is a step of `AguiProtocol`, whose specification states no fairness, so
`ProtocolSimulated` is the whole refinement. What `OutcomeMatchesTurn` asks of the past
is `RoundsTold`: of each round before the present one, and of the present one once it is over (`RoundOver`), a client that is there has every
event of the message and of all its calls. It is inductive because a round's events are told when its goroutines have
nothing left to write (`ToldStays`, `RoundsStay`), and `ToldDelivered` draws `Delivered` from it.

**UsageExport.** Worker, queue and turn hold the spans in one order (`OrderInv`). A span's tokens are a difference of two
running totals of its turn, the turn's own a total; a total goes with the number of calls it is of, so one function `w`
says what the first `n` calls of a turn used (`SumInv`). That the sum over any set of a turn's spans is at most the total, and is the total
if none is missing, is `SumBound`, by induction over the number of calls; `MapThenSumSet` folds in an order it chooses,
so `SumRemove` first shows that any element may be taken out.

**Changes for the provers.** Two `CASE`s with overlapping guards became `IF`s; `OfTurn` and `appendDetailedMessages` are written
with `Where`, as the recursion inside `SelectSeq` is out of reach; the registry's models have the field `"none"`
where they had an empty string; `TurnSpanSumsUp` is made of two named conjuncts. None changes what is modelled.

**Left to TLC.** Every safety invariant and action property of the passing runs is stated by a theorem. What is only
model-checked is liveness under fairness, which the installed provers cannot express: `Terminates`, `ExecuteReturns`,
`CallsEnd`, `RunEnds`, `TurnsEnd`, and the fairness half of `ImplementsLedger` and `ImplementsBatch`, whose steps are
`LedgerSimulated` and `BatchSimulated`. The reverse holds once: `conv_cli` checks `RequestAccepted` for turns
in sequence, and for overlapping turns it rests on the theorem.

## 5. What the checks found

* `conv_budget`: `docs/mcp-protocol.md:374` promises at most two tool-call rounds per turn and names
  `maxToolCalls = 2`; the code has 5 (`conversation.go:19`).
* `mcp_cascade`: two calls that lose the same session one after the other reconnect twice, and the second
  reconnection closes the session the first call has just been given. That call has no third attempt
  and fails with `ErrSessionUnavailable`. `Reconnect` (`manager.go:123`) does not look whether the session its
  caller found dead is still the one in the map.

* `usage_model`: a generation span takes its model from the event, and `Chat` puts the alias and the provider of
  the manager there, never the API's model id (`conversation.go:120`, `otlp.go:103`); after `/model` the provider is
  that of the first model. `docs/langfuse.md:27` promises model and provider, and cost computed from the name.
* `serve_shutdown`: the 30-second deadline is derived from the context whose cancellation starts the shutdown
  (`serve.go:143`), so it is over at once; the MCP manager and the store are closed under the requests in flight.

Observations that no run contradicts a document on, visible in the conditions of the properties:

* A turn that fails between a response and its results leaves unanswered calls in the store; full and
  hybrid contexts of later turns carry them (`RequestAccepted` excludes this case: the providers refuse
  such a request).
* When turns of a thread overlap, the messages of an exhausted turn may have a question of another between a response and
  its result, or may have been read before their results were stored, since rows are read after messages
  (`context_builder.go:37`). A later or concurrent lean context then carries them as they are, and the providers refuse it
  (`RequestAccepted` asks for no incomplete turn on record, if turns overlap; full and hybrid contexts carry such
  messages anyway).
* An incomplete turn is shown after every summary, even of later turns, and turns asked in one second
  come in the order of random ids (`CompletedInOrder`).
* A client may have the whole answer on its screen and then get `RUN_ERROR`, when the store fails
  in the phase it shares with the emitter; the turn is then not recorded, unless the statement took effect and
  reported an error all the same. In no case does such a run end with `RUN_FINISHED` (`OutcomeMatchesTurn`).
* An interrupt is reported even when recording the incomplete turn failed, so a resumed run in lean mode
  may not see what it is to continue (`OutcomeMatchesTurn` says "not recorded as complete" for this reason).
* After a failed dial a server is no longer "connected", and `/mcp refresh` then drops its tools although the next call would
  have reconnected it (`Refresh` of `McpManager`). After a failed listing it stays "connected" with the error, and
  `/mcp refresh` lists the dead session of the map once more. Either way the server is shown with what is wrong
  (`CatalogueMatches`).
* `/mcp add` connects before it saves: when saving fails, session and tools stay, and a call on them fails because
  the registry does not know the server (`Add` of `McpManager`; no property is stated, as nothing is promised).
* Two CLIs that open one legacy database together may both add a column; the second `ALTER TABLE` fails and
  with it the start of that CLI. The table is complete all the same (`OpenedMigrated`).
* A session whose first message could not be inserted stays in the listing without one, and so does one whose row
  was inserted by a statement that then reported an error (`spoiled` in `SessionsHaveQuestion`).
* A result whose text for the user alone is JSON's `null` is indistinguishable from one that has no text for
  the user, so the client is shown the model's text (`Addressed` excludes it).
* The thinking of an Anthropic response is not sent back with the tool calls it came with; `AnthropicAccepts`
  does not ask for it.
* `parseContextFullTurns` gives -1 (full) for a value it cannot parse; its comment (`loader.go:83`) says lean.
* A key id that is not in a fresh key set makes no request fetch the set anew (`jwks.go:156` and the double check of
  `refresh`): a new key is noticed when the TTL is over, which is what `RotationNoticed` states.

## 6. Not modelled, and the plan

The plan of modules, runs and theorems is carried out: no safety property of a run is left without its theorem, and liveness
stays with TLC (section 4).

Not modelled, and why:

* The in-memory store: nothing in the program uses it. `ClearMessages` of the SQLite store: nothing calls it.
* The OAuth proxy and the metadata documents of the MCP server library, and the weather, navigation and
  playground servers: stateless, one HTTP request in and at most one out.
* The console reporter, OTLP encoding, CORS, the health endpoint, command parsing and line editing: formatting
  and terminal input. (`readLineFallback` in `reader.go:215` makes a new buffered reader per line, so piped input
  beyond the first line may be lost; history lines over 64 KB make the reader refuse to start.)
* Responses of providers and the definitions of the tools a request carries: any response is possible in the
  models, and the encoding belongs to the SDKs.
* Configuration other than the context mode and the concurrency of tools: strings handed on.
