# Formal models of cogniforge

TLA+ models of the cogniforge server (Go, `src/cmd`, `src/internal`), the TLC
runs that check them on small instances and the TLAPS proofs that hold for every
instance. Source lines below are those of `src/internal/` unless said otherwise;
`PROJECT.json` maps every definition to the lines it stands for.

Run a model with `tlc -config <X>.cfg <MC module>`, check proofs with
`tlapm <X>_proofs.tla`.

## 1. The system

cogniforge is one Go process over PostgreSQL, Redis and outside services (LLM
providers, an embedding service, MCP servers, SMTP). Redis is optional: when it is
absent the lock and the cache of models fall back to process memory. The quota does not:
without Redis it has no store and refuses every user's call (`router/router.go:54`,
`quota/service.go:174`). Requests are goroutines; background work is more goroutines (executions, document
processing, the wait scanner, the saves after a chat stream). There is next to no database transaction, so almost every pair of calls
may be interleaved with another request's.

| component | state it keeps | operations | what is hard |
|---|---|---|---|
| **Workflow executions** `workflow/`, `engine/core/` | rows of executions, node runs, checkpoints; the resume lock | execute, debug, resume, approve, reject, callback, cancel, timeout scan, edit, delete | goroutines and requests write one row without a condition; the lock expires; the process dies between two writes |
| **Graph order** `engine/core/workflow_engine.go:127` | the queue and counts of one sort | Kahn's sort | unvalidated graphs, random map order |
| **Node executors** `engine/nodes/` | variables of the execution | loops, conditions, delays, calls outwards | limits, and what a condition's text means |
| **Quota** `quota/` | day, month and minute counters in Redis, policies, usage rows | allow, refund, commit, edit policies | check then increment; midnight between charge and refund |
| **Chat** `chat/` | conversations and their messages | stream, tools, save, summarise, edit, delete | a save that runs after the answer, in the background, and whose failure nobody sees |
| **Memory window** `memory/window.go` | none | trim by turns or by tokens | boundaries; what is cut must be known to be cut |
| **Model cache, providers** `modelcache/`, `provider/` | rows, the revision, the Redis snapshot, each process's copy | get, put, invalidate, create, update, set default, delete | a snapshot written after the edit it does not contain; rows saved as they were read |
| **Prompts** `prompt/` | prompts, versions, a current version; agents bound to them | create, import, rename, publish, choose, delete, resolve | MAX+1 and counts outside the transaction; stale saves |
| **Knowledge** `knowledge/` | bases, documents; vectors in a Python service | upload, parse in the background, reparse, delete | the background parse against delete and reparse; answers that come too late |
| **Accounts** `auth/`, `user/` | users, settings, sessions | repair at startup, register, log in, edit, remove | look up, then insert; two statements to remove; startup that dies and runs again |
| **Password reset** `auth/password_reset.go` | tokens and rate counters in Redis | request, reset, change | a token read first and deleted last; lost replies |
| **Roles** `rbac/`, `middleware/rbac.go` | roles, permissions, grants | create, edit, delete, assign, check | delete all, insert one by one, no transaction |
| **MCP registry and tools** `mcp/`, `chat/mcp_tools.go` | server rows, the process's registry of servers and tools | create, edit, delete, refresh, discover, offer, call | discovery without the lock; one registry for all users |
| **Evaluation** `eval/` | suites, cases, runs, results | CRUD; a run over the cases | a run of minutes against a deletion |
| **Agents** `agent/` | rows bound to a prompt | CRUD; an agent's chat | the binding; the chat is the one of the other components |
| **Scheduler** `scheduler/` | cron entries, schedule rows | start, add, pause, resume, remove, run now | row and entry may disagree; nothing starts it at this commit |
| **Debugger** `engine/debug/` | a session per execution, its pause channel | breakpoints, pause, resume, step, stop | replaced and twice-closed channels; the engine does not call it |
| **Skills** `skill/`, `skillimport/` | rows | CRUD; validation of an import's files | text only |
| **Long-term memories, monitor, mail, crypto, config, router, response, logger, `cmd/`** | rows or counters at most | I/O and conversions | no protocol to check |

How they interact: a chat request passes the quota's gate, reads models through
the cache, trims its history through the memory window, may call tools of the MCP
registry and saves its conversation afterwards. An execution's nodes call models,
agents and knowledge; an agent and an evaluation resolve a prompt first. The
interactions are rows and counters, never messages, so what can go wrong is one
actor's write between another actor's read and write.

Two facts about the database layer recur below (GORM 1.31): `Save` writes every
column as it was read, and re-inserts a row that was soft-deleted in between;
`Updates` adds `deleted_at IS NULL` and changes nothing in that case. Two more concern one
component each: `Create` gives a column with a default that default when the field is zero
(`Quota`, `McpRegistry`), and `Updates` with a map does not serialize the map's values
(`Conversation`). GORM is not part of the repository; the models take this from version 1.31.1,
which `go.mod` names.

### What must be right, per component

* Executions: dependencies first, waits passed only by approval, resumable
  waits, one driver, statuses that mean what they say.
* Graph order: an order exactly when there is one.
* Loop nodes: as many rounds as the configuration says and the limit allows; the
  condition means what its author wrote.
* Quota: no more than the limit is admitted, a refused request costs nothing, a
  refund gives back what was charged and nothing else.
* Chat and memory: no answered question is lost or doubled; what the window cut is
  in the summary.
* Model cache: a read whose revision was checked contains every edit that has
  returned; the key beside a copy is that copy's.
* Provider rows: one default per purpose, the one chosen last, and it is used.
* Prompts: the current version exists and is published, numbers differ, a
  resolution answers with what was current, no agent is bound to a deleted prompt.
* Knowledge: a settled document has the vectors of its last parse, `doc_count`
  counts documents, every parse comes to an end.
* Accounts: a name belongs to one account, whatever startup had to repair; a
  removed account gives name and address back.
* Password reset: one valid token per user, one password per token, a lockout ends.
* Roles: a user passes exactly the checks the last edit of his role asked for.
* MCP registry: what is offered and called is what the rows say.
* Evaluation: a run's counts are those of the results kept; a deleted suite leaves
  nothing behind.

## 2. The modules

| module | what it is | checked by | theorems |
|---|---|---|---|
| `WorkflowExecution` | one execution, its goroutines, handlers, lock, scanner, crashes, edits | `MCWorkflowExecution` | `WorkflowExecution_proofs` |
| `ApprovalGates` | what an execution promises: the abstract specification it implements | `MCWorkflowExecution` | `WorkflowExecution_proofs` |
| `TopologicalSort` | Kahn's algorithm over unvalidated definitions | `MCTopologicalSort` | `TopologicalSort_proofs` |
| `Quota` | one user's calls against the counters and policies | `MCQuota` | `Quota_proofs` |
| `ProviderCache` | the provider in force, in the database, in Redis, in every process | `MCProviderCache` | `ProviderCache_proofs` |
| `Knowledge` | a knowledge base, its documents, their parses and vectors | `MCKnowledge` | `Knowledge_proofs` |
| `Prompts` | prompts, versions, the current one, agents bound to them | `MCPlatform` | `Agents_proofs` |
| `Accounts` | the table of users: repair at startup, registration, edits, removal | `MCPlatform` | `Access_proofs` |
| `PasswordReset` | reset tokens and their rate in Redis, every write of a password | `MCPlatform` | `Access_proofs` |
| `Roles` | roles, grants and the check of a request | `MCPlatform` | `Access_proofs` |
| `ProviderRows` | the rows of providers and who is the default | `MCPlatform` | `Platform_proofs` |
| `Conversation` | a stored conversation under turns, edits and background saves | `MCPlatform`, itself | `Platform_proofs` |
| `MemoryWindow` | trimming by turns and by tokens, as operators | `MCPlatform` | `Platform_proofs` |
| `McpRegistry` | MCP servers, the registry of their tools, turns that call them | `MCPlatform` | `Platform_proofs` |
| `Evaluation` | suites, cases, runs and results | `MCPlatform` | `Agents_proofs` |
| `LoopNode` | the loop nodes of a workflow and their conditions | `MCPlatform` | `Platform_proofs` |
| `MCPlatform` | nine of the modules above in one instance | itself | `Platform_proofs` |

None of them shares state with another. An execution, a user's quota and the
provider's cache meet only in that one's call waits for the other's answer, which
either model has as an outcome (`FailNode`, `Fail`, a read that fails). Inside a module
everything that runs concurrently is composed: handlers, goroutines, scanner,
clock, failures.

`MCPlatform` puts nine of the modules into one instance. Because they share no
variable and none calls another in the steps modelled, an interleaving of two of
them is an interleaving of each; a behaviour therefore chooses one of them
(`part`) and runs it alone, which checks as much as the product and is smaller by
orders of magnitude. The theorems need no such argument: they are about each
component's own specification, which every behaviour of the platform meets (`PlatformHasAll`). In each of
the nine, ids, tokens and goroutines are interchangeable; their instances are drawn from the same few sets of model values,
so that one small group of permutations is a sound symmetry of all.

Operators whose name ends in `_Bug` are mistakes the code could have made. Each
property is tried against one of them (`PROJECT.json`, "mutants") to show that it
can fail.

### WorkflowExecution

State. `status` and `waitUntil` are the columns of the execution's row, `nodeRun`
the run row of each node (the attempt number is always 1 in the code, so there is
one), `checkpoints` the checkpoint rows in `seq` order, `workflow` and `wfRow` the
workflow the execution belongs to, `lock` the key in Redis or the process's map.
A thread is the goroutine that started the execution (`Starter`) or that of one
request; `pc` says which database call it makes next, and `def`, `skip`, `order`,
`pos`, `seq` are its local variables. `everDone` and `approved` are history.

Actions. The engine: `Begin` (to the loop), `SkipNode`, `StartNode`, `UnknownNode`,
`FinishNode`, `FailNode`, `PanicNode`, `FinishOrder`, `SaveCheckpoint`, `Suspend`,
`Complete`. The handlers: `Create` (execute and debug), `Call`, `CheckStatus`,
`TryLock`, `Load`, `LoadFailed`, `Wake`, `Unlock`, `WriteStatus` (reject, cancel).
The surroundings: `TimeoutScan`, `ExpireLock`, `Crash`, `UpdateWorkflow`,
`DeleteWorkflow`. A handler's read, its lock, its load and its write are separate
actions because the code has no transaction around them; so are the read of the
next checkpoint number and the insert.

Abstracted. Node inputs, outputs, variables and messages; `current_node`, which no
decision reads; the moments between two calls that nobody else's step tells apart: `Begin` writes the status
and fails the execution if its graph cannot be sorted, `FailNode` and `UnknownNode` write the run and the
status, `Load` reads the workflow and, holding the lock under which checkpoints are written, the checkpoint; the sort, of which `Orders(d)` gives the possible results, as
`TopologicalSort` justifies. A wait node always succeeds
(`engine/nodes/wait.go:20`), a node whose type is unknown always fails. The three
in-process failures of a definition (unparsable, cyclic, unknown type) are separate
definitions. Time is only "some time later": `TimeoutScan` may take any timed
wait, `ExpireLock` any lock, a lock in use being an overrun.

### TopologicalSort

`nodes` and `edges` are the definition's lists as written, repeats and dangling ids
included. `Init` is the two maps and the queue filled in any order, as Go's map
iteration may; `Pop`, `Relax` (one edge) and `Loop` are the loop, `Return` the test for
a cycle. `popped` is history, used by the proofs.

### Quota

State. `requests`, `dayTok`, `monTok` and `rate` are the Redis counters, each a function
of the day, month or minute its key is named after; `global` and `override` the two
policy rows; `clock` the time. A `Caller` is a goroutine that calls a model for
this user; `rule`, `at` and `cost` are its local variables. `charged`, `served`, `passed`,
`lost`, `crossed` and `unearned` are history: the books the properties are about.

Actions. `Ask`, `Allow`, `CheckTokens`, `CheckRate`, `Charge`, `Undo` are
`Service.Allow`, one action per Redis command; `Succeed` and `Fail` the call it guards;
`RefundRequest`, `CommitDay`, `CommitMonth` what follows; `NextMinute`, `Crash` and the
three policy edits the surroundings. Every command may fail, because Redis is away or
because the client has gone: refund and commit use the request's context
(`chat/handler.go:85-115`). An increment that failed may have been executed; only the
decrements and the token increments, whose errors are ignored, are either done or not.

Abstracted. The two token reads are one action (a call the pair lets through
passes both when the first is read, as counters only grow). Usage rows and
statistics, and the keys' times to live, are left out: a key is never read again after
its day. One user: no two users share a key. A query for a policy that fails is taken for one that
finds none (`quota/service.go:106`), which is left out. `UpsertUserPolicy` inserts a user's policy with the column's
default for every value that is zero (`AsCreated`), and updates one with what is asked.

### ProviderCache

State. `db` is the provider configuration in the database, as the number of edits it
contains: every edit changes it, so comparing versions is comparing contents; `none`, that it leaves
no provider that could be in force.
`rev` and `remote` are the two Redis keys, `local`, `key` and `fresh` each process's copy,
its decrypted key and whether it is younger than 30 s. A `Thread` is a goroutine in a
request; `pc`, `op` and `stage` say which read of which request it is in, `seen`, `held`,
`prov`, `plain` its local variables. `covered`, `settled`, `target`, `floor` and `disturbed` are
history.

Actions. `BeginRead` and `WriteDB` begin requests (`GetActive`, `GetActiveForChat`, the
four edits). `GetRev`, `GetIfRev`, `GetIfFresh`, `Load`, `KeepLoaded` are `Cache.Get` and
`GetHot`; `LoadActiveFromDB`, `CurrentRev`, `PutHot`, `Save` a fill; `Clear`, `Incr`, `Del` an
invalidation. One Redis command or one critical section of the local lock each,
since nothing spans two of them. `LocalExpires`, `SnapshotExpires`, `RevExpires` are the
times to live.

Abstracted. The queries that build a snapshot (default, first enabled, list) count as
one, which may fail and is then taken for one that found nothing. Embedding providers and the connection test do not touch the cache.
`CachedModels` reads the cache as `GetActive` does. A stored key always decrypts. A
server without Redis has one level and nothing to compare.

### Knowledge

State. `base`, `count` are the row of the knowledge base; `docs`, `status`, `chunks` those
of its documents; `vectors` what the Python service stores, each vector known by
the parse that made it; `late` the calls it is still busy with after the server gave
up. A `Clerk` is a request's goroutine, a `Parse` a `processDocumentAsync`. `skew` and
`mixed` are history: units of the count lost or gained, and documents two goroutines
worked on at once or that met a failure.

Actions. `BeginUpload`, `CreateDocument`, `CountUpload`: an upload. `BeginOnDocument`,
`DropVectors`, then `DeleteRow`, `CountDelete` or `Reset`: a delete or a reparse.
`BeginOnBase`, `SaveBase`, `DropBase`: an edit or a removal of the base. `Mark`, `Load`, `Process`,
`Conclude`: the parse; `StoreLate`: a late answer; `Crash`.

Abstracted. Files on disk, chunking, embeddings, the search. The two reads with which a request about a document
begins are one: a base or document deleted between them is one deleted just before or just after.

### Prompts

State. `prompts`, `card` the rows of prompts, `stored`, `published`, `home`, `number` those of
versions, `agents` and `bound` the agents. `edit` is an editor's request: its place, the
row it read, the version, the number. `fresh` (nobody wrote the prompt since it was read),
`disturbed`, `strayed`, `offered` are history.

Actions. Each query and each transaction of create, import, rename (`Rename`, `SaveRow`), new
version (`ReadMax`, `AddVersion`), `Publish`, `Choose`, deletion of a version (`CountVersions`,
`Remove`) and of a prompt (`Delete`); `Resolve`; an agent's create, save and delete.
`GiveUp` ends a request anywhere.

Abstracted. Texts, variables, tags. Other users: a name is unique per user.

### Accounts

State. The table, soft-deleted rows included; whether the unique index exists;
settings; the one session row each user has, because its `token_id`, which is unique, is the user's id;
where startup is. `owner` is history: whose a name is.

Actions. `Purge`, `FreeDeleted`, `KeepFirst`, `DropDuplicate`, `Migrate`, `InitDefaultAdmin`:
startup over any old table, with `RepairFails` (any statement of the repair) and `StartAgain`.
`LookupFails`: a query for a name or an address that fails is taken for one that found nobody
(`auth/service.go:193`, `user/service.go:149`), and only the unique indexes are left to refuse. `SignUp` to
`CreateSettings`: registration and an administrator's create. `BeginUpdate`, `FindClash`,
`Update`; `BeginDelete`, `Free`, `DeleteUser`; `GetSettings`; `BeginLogin`, `StoreSession`,
`RevokeSession`; `Refuse`.

Abstracted. Names made unique by a suffix are one value, `Freed`. Passwords are in
`PasswordReset`. Status, avatars and API keys are left out.

### PasswordReset

State. The three kinds of keys in Redis, `expires` (which counters have a time to live),
tokens drawn and mailed, passwords. `uses`, `raced`, `stuck` are history.

Actions. One Redis command, query or mail each: `CountRequest`, `CountLost` (the answer of the
increment is lost), `ExpireCounter`, `DrawToken`, `ReadOld`, `DeleteOld`, `StoreToken`, `SendMail` (a request); `GetToken`, `SetPassword`,
`DeleteToken`, `DeleteUid` (a reset); `BeginChange`, `WritePassword` (the two other
ways); `Abandon`; the expiry of each key. `StoreToken` is a pipeline of two commands, taken
as one step: what could run between them concerns users already in `raced`.

### Roles

State. Roles by code, which stays unique among deleted ones; `grants`; permissions;
`roleOf`; `asked` and `tangled` are history. Actions: one statement each of creating, editing
(`ClearGrants`, `AddGrant`), deleting and assigning roles and permissions. `Granted` is
`checkUserPermission`, `Passes` the middleware. The tables begin empty: `InitDefaultRoles` is
not called by anything, although `cmd/server/main.go:96` says it is. The cached checker and the
data for the front end's permission directive are not wired, and only `RequireAdmin` guards routes. So
there are no system roles but one with the code `admin` that somebody may have created; it can be assigned.
A deleted role or permission goes on granting: the query joins without `deleted_at`.

### ProviderRows

State. Each provider's row: whether it is live, enabled, what it is able to do and what
it is the default for. Actions: `CreateProvider`; `ReadForUpdate`, `UpdateProvider` (a
`Save`); `DeleteProvider`; `ReadForDefault`, `FindDefaults`, `SetDefault`, whose transaction is two
statements under READ COMMITTED; `InitDefaultProviders` at startup, which stops at a
soft-deleted built-in. `chosen` and `blurred` are history. A row deleted
between the two statements of `SetDefault` gets no flag, as `Updates` passes over it; a `Save` may put it
back, chosen and not the default. Such a save counts as blurring too.

### MemoryWindow and Conversation

`MemoryWindow` has `ApplyWindow` and its parts as operators on sequences of messages, each with
a role, an id and a size. `Conversation` has one stored row, and requests that read it, have
the window cut the list, pass the quota's gate, wait for the model and save in the
background: `ChatStream`, `Gate`, `ModelFails`, `ModelAnswers`, `Summarise`, `SaveTurn`,
`SaveFails`; edits and deletion: `BeginEdit`, `SaveEdit`, `Discard`. A summary is the set of
messages it was made from. `put`, `emptied`, `lastAsked` are history. `SaveTurn` ends in an update with a map that
holds the list of messages, and `MapUpdate` is what GORM and Postgres make of it: with two messages or
more a statement Postgres refuses, and the row stays; with one, an object where a list is expected, and the row is
*garbled*: no later turn can read it; with none, an empty list. A read of the history that fails, also of
a garbled row, gives an empty one (`chat/handler.go:165`), so lists of fewer than two messages do occur.
Answers are never stored by the server; an image without text counts as empty and is
filtered out.

### McpRegistry

State. `mcpRows`, the table; `servers` and `tools`, the process's registry; `astray` is history. A job
is a request: `CreateServer`, `UpdateServer`, `DeleteServer` and the refresh they end with
(`ListServers`, `Refresh`, `Discover`); `CheckTools`, `EnterServer`, `ClearTools` (listing and
rediscovery); a turn (`LookUp`, `OfferTools`, `AskModel`, `CallTool`). `RegistryLost` is a restart.
`Execute` finds a tool by its name among the tools of every server of every user, and
`CallHTTPClient` may carry out a call twice; both change no state of the server.

### Evaluation

State. Rows of suites, cases, runs and results, and the requests. `DeleteSuite` is a transaction of
`ListRuns` and `DropSuite`; a run is `BeginRun`, `InsertRun`, `JudgeCase` for each case, `CompleteRun` or
`FailRun`; `TaskFails` and `Dies` break it off. `BeginRun` reads suite and cases at once: of a suite deleted
in between no case is found and the run is refused. `struck` and `late` are history.

### LoopNode

`Execute` reads a configuration, `Times`, `While`, `ForEach` are one round each of the three
kinds of loops, `NextNode` goes on with the same variables. `Evaluate` is the code's reading
of a condition, `Means` its author's: `&&` before `||`.

## 3. What the runs check

| run | instance | result |
|---|---|---|
| `workflow_serial` | two graphs, two requests of any kind, one edit, no crash, no overrun | pass, 146,030 states, with liveness |
| `workflow_races` | five graphs, two requests of any kind, checkpoint 1 may be pinned, one crash, one overrun | pass, 686,094 states |
| `workflow_cancel` | one graph, cancels only | `TerminalIsFinal` violated |
| `workflow_double_resume` | one graph, approvals only | `ResumeOnlyFromWaiting` violated |
| `topological_sort` | three ids, up to three nodes and three edges | pass, 37,433 states |
| `quota` | two callers, two calls each, two days, three policies, one edit or crash | pass, 2,262,889 states |
| `provider_cache` | two processes, a goroutine each, one edit, one failure or expiry | pass, 759,903 states |
| `provider_stale` | the same, Redis always answers | `ReadsAreCurrent` violated |
| `provider_key` | the same, two edits, Redis and the database always answer | `KeyBelongsToCopy` violated |
| `knowledge` | two documents, three requests of two clerks, three parses, one failure or crash | pass, 342,885 states, with liveness |
| `platform` | nine components, two goroutines each, up to five requests, one failure or crash each | pass, 640,548 states |
| `conversation_unsaved` | one conversation, at most two turns | `TurnIsAppended` violated |

**workflow_serial** asks what holds while the lock does its work. `SingleDriver` and
`CheckpointNumberFree`: two goroutines never drive one execution, so no checkpoint is
lost to the unique index. `WaitingIsResumable`: the latest checkpoint of a waiting
execution is the one written on entering the wait and holds all that has succeeded.
`NodeRunsSettled`: a completed execution shows no run pending or failed. `NoRerun`: a
node that succeeded never starts again. `Settles`, `LockReleased`, `TimedWaitEnds`: the
execution comes to rest, the lock is given back, a timed wait ends.

**workflow_races** asks what survives a crash, a lock that expired under its holder,
resumes from an old checkpoint and requests in any order. `CheckpointsClosed`: every
checkpoint is closed under dependencies. `PredecessorsFirst`, `ApprovalGate`: an
executor starts only when what it depends on succeeded and the waits before it were
continued past. `CompletedMeansAllDone`: completed means every node and every wait.
`ImplementsGates`: all of it is a behaviour of `ApprovalGates`.

**workflow_cancel** and **workflow_double_resume** are the two disagreements with the
documents (`PROJECT.json`, "findings"): a terminal status is overwritten by the
goroutine that is still driving (`workflow_engine.go:534`), and a resume may restart an
execution that is no longer waiting because the status is read before the lock is
taken (`service.go:318-350`).

**topological_sort** compares the algorithm with a reference: `SortedIsAnOrder` is what
an execution relies on, `CycleMeansUnsortable` says the error is reported for exactly
the definitions that have no order: some set of ids with a node in it has no member that is known
and waits for none of the set, as on a cycle or behind an id nothing defines.

**quota** asks whether the books balance. `Accounted`: every unit of a day's counter is a
call served, in progress, being refused or lost to a failure, less the refunds that
belong to another day (`crossed`, midnight) or to no charge at all (`unearned`, the
policy changed in between). So a refused call costs nothing, a failed one is given
back once, and everything that can go wrong is named. `DailyLimit`: a day serves its limit and
one more for each refund that crossed into it. `RateLimit`: the minute's rate is exact.
`TokenOvershoot`: token limits are exceeded by at most one answer per goroutine. The types are proved (`TypeCorrect`) and not
asked of this run again.

**provider_cache** asks what a revision is worth. It is not what the comments claim
(below), so the run says what the protocol does withstand: unless one of four things
happens (`disturbed`), `RevisionsCover`, every copy contains the edits its revision covers and the
revision covers every edit that has returned; and `ReadsAreCurrentUndisturbed`, a read that
compared revisions contains every edit that had returned when it began. The four: a
*late fill* (database read before an edit, revision read after it), a *late save* (the
transaction overwrites a newer revision), a *lost bump* (its failure is only
logged), and an *expired revision* (counting starts again at 1). A lost deletion, failed
reads, failed saves and an expired snapshot are harmless.

**provider_stale** and **provider_key** are disagreements with the comments
`cache.go:9-10`, `local.go:10-11` and `cache.go:64`: with Redis answering everything, a chat that
puts its copy back after an edit makes the old configuration valid again everywhere. And a chat that finds
the provider of one edit, and reads the cache again when a second edit has refreshed it, puts the key of
the first beside the snapshot of the second: there the key is the older one.

**knowledge** asks whether rows, counts and vectors agree although nothing joins them.
`CountAccounted`: `doc_count` is the number of live documents, corrected by exactly the uploads and
deletes in hand and by `skew`, which only a second delete of one document, an edit or
removal of the base, an ignored error or a crash can change. `VectorsMatchRows`: a document that
was never worked on by two goroutines at once and met no failure has, at rest, exactly the
vectors of the parse its row counts, or none. `ParsesSettle`: unless something fails, no
document stays pending or processing.

**platform** asks nine components, each under every interleaving of its own requests,
what survives, and states exactly which disturbance each claim has to except.

* `PromptsStand`: unless a request wrote a prompt from rows that had changed since it
  read them, its current version exists, is published when any is, numbers differ, and a deleted prompt
  has no version left; no agent is bound to a deleted prompt unless a save bound it to one.
  `ResolvedWasCurrent`: a resolution, two queries, returns what was current and published at some
  moment since it began. `NamesOwnVersions`: a version that a prompt's row or a request names was
  made for that prompt, whatever saves and deletions run over each other; it has no exception.
* `NamesKept`: whatever names an old database shared, and wherever startup died and began again, a name
  ends up with the account it belongs to and no other; so it stays under racing
  registrations, renames and removals. `RemovedAreFreed`: a removed account has given name and
  address back. Every restart purges an account with the seed address, also when it
  is the only administrator.
* `TokensSingle`, `LockoutsEnd`: what the reset tokens and the rate limit promise,
  unless two requests worked on a user's keys at once or a command failed.
* `GrantsAreAsked`: a user passes exactly the checks the role's last edit asked for, and while one edit inserts
  no other ones; unless two edits of the role ran at once or one broke off (`tangled`), since then what passes may be
  a mixture, or what was inserted so far.
* `DefaultIsChosen`: the default chosen last is the only one, and the one in use.
* `EditsStay`: turns, however they run over each other and over edits and deletions, leave the messages as they
  were created or edited last; unless a turn found no history or asked nothing. `NothingForgotten`: what the window
  cut is in the summary, although the code only counts how many messages were cut and
  takes as many from the front.
* `RegistryFollowsRows`: an entry of the registry says what its row says, with tools found at that
  address, unless it was out of date when it was written.
* `RunsAccounted`: the counts of a completed run are those of the results kept, and a deleted
  suite leaves only what came in behind the deletion's back.
* `LoopsMean`: a loop's rounds are those its configuration asks for; a condition with
  both `&&` and `||` in it is looser than its author means, never stricter (`nodes/loop.go:157`).

**conversation_unsaved** is a disagreement with comments: `chat/conversation.go:266` says messages are
appended and the summary updated, `chat/handler.go:361` that this turn's question is appended to the history. The
update that should do it is refused, and its error is not looked at (`chat/handler.go:373`): a single
undisturbed turn stores nothing.

Bounds, and why they are enough. Two requests and the starter are the smallest set in
which two resumes race while the first goroutine still writes; the races are between
pairs. The straight graph waits twice, so an approval of the first wait can meet
the second; in the diamond a node runs beside the wait and the last node needs
both, so a checkpoint may or may not contain the neighbour and a resume may choose
another order than the first run. One overrun makes two drivers, one crash stops
both; one edit replaces one graph by the other under a waiting execution. Three
ids and three edges give self loops, parallel edges, cycles of length three and
dangling ends. For the quota, two callers with a limit of one are a race for the last
unit; two calls each let one caller refund or undo while the other begins again; two
minutes on both sides of a midnight are what a refund or a commit can cross; and one
event puts an edit of the policy, or a crash, between any two steps. For the cache, the
races are between one process's fill and another's edit: one edit makes two versions
and two revisions, and one failure or expiry may meet any of their steps. A key older than its snapshot needs two
edits, of which the chat knows the first. For knowledge, three requests are an upload and two
that race for what it made; each may start a parse, so there are as many parses as
requests, two of which may be at one document; the failure or crash may meet any
step. In the platform: four edits of prompts are a create, a second version and two racing
changes; three versions let one of two remain. Two legacy accounts may share a name, two
more are the default administrator's and a newcomer's; two requests are a race, one
failure stops startup or a removal anywhere. Five calls about roles are two permissions, a
role, its assignment and an edit while checks run. Four visits are a request for a
token, a second one, and two resets; a rate of two is reached and passed. Four
orders on two providers are two creates and two changes that race. Two talks with
one window, one budget, empty messages and others, with and without notes, are a race of two
saves and of every kind of list they may save; cutting by turns and by tokens both occur. Three jobs on two
servers of two owners are two creates and a turn or edit. Five tasks are a
suite, two cases, a run and a deletion. Three comparisons are the fewest with both
connectors on either side; limits of -1, 0 and 2 are none, the default and one
that is reached. The theorems below need none of these bounds.

Fairness (`FairSpec`). Every goroutine goes on (the Go scheduler; executors return or
time out) and the scanner ticks every 30 s (`workflow/timeout.go:26`). Nobody has to
make a request, the lock does not have to expire, the process does not have to die.
`Settles`, `LockReleased` and `TimedWaitEnds` are checked without crashes, because the code
does not recover an execution that was running when the process died
(`workflow/timeout.go:19` counts waiting ones only).

Knowledge (`KnowledgeFairness`): requests in hand and parses go on, since each is a goroutine
whose calls return or time out (`httpclient/rest.go:32`). A late answer need not come. `ParsesSettle` excepts
crashes, because nothing takes a parse up again at startup (`knowledge/service.go:410`).

Quota, ProviderCache and the platform's components are checked for safety only: no call
waits for another one.

Deadlock checking is off where the system comes to rest: an execution ends, a sort
returns, callers have made their calls, the bounded number of requests has come. It is on for the cache, which always may be read.

## 4. What is proved

For any nodes, graphs, requests, pins and bounds that meet the assumptions
`GraphAssumption` and `ThreadAssumption` of `WorkflowExecution`:

* `TypeCorrect` : `TypeOK`.
* `SingleDriverHolds`, `CheckpointNumberFreeHolds`, `NodeRunsSettledHolds`, for `MaxOverruns = 0`.
* `WaitingIsResumableHolds`, `NoRerunHolds`, for `MaxOverruns = 0` and `Pins = {}`: no lock expires
  under its holder, and resumes name no checkpoint.
* `PredecessorsFirstHolds`, `ApprovalGateHolds`, `CheckpointsClosedHolds`,
  `CompletedMeansAllDoneHolds`.
* `ImplementsGatesHolds`: `Spec => ApprovalGates!Spec` when the workflow is not edited.

The argument. None of these is inductive. A status of completed says nothing by
itself about what has run; what connects them is each goroutine's position. The
invariant, in `WorkflowExecution_proofs`:

* `TypeInv`: types, and that a position stays within its order.
* `BornOK`: a thread does nothing before the row exists, so `Create` starts from idle threads.
* `LockInv`: whoever is between taking and returning the lock holds the only one; the
  starter drives only before the first wait or after nobody else does. It needs
  `MaxOverruns = 0`, and gives `SingleDriver` and `CheckpointNumberFree`.
* `RestInv`: nobody drives a waiting or completed execution.
* `LatestInv`: unless a driver is between a node's success and its insert, or died there, the latest
  checkpoint holds all that has succeeded, and so does what a worker has skipped and
  passed. A crash in between leaves the status running, which no resume accepts. With the
  injectivity of an order (`OrderInjective`) this gives `NoRerun`.
* `SettledInv`: what the driver has behind it is recorded succeeded or skipped.
* `ProgressInv`: what a thread has skipped and passed is in `everDone`, the waits among
  them in `approved` once it is past waking (`ThreadOK`), and so is what every
  stored checkpoint holds (`StoreOK`).
* `GraphInv`: an order a thread executes respects its definition's edges; with
  `ProgressInv` this gives `PredecessorsFirst` and `ApprovalGate`.
* `CoreInv`, `Unedited`: while the definition is unedited, orders are orders of
  *this* graph, so checkpoints are closed and completed means all done.

For any ids and definitions of any length (`IdAssumption`, `BoundAssumption`):

* `SortTypeCorrect`: `TypeOK`; a degree never falls below zero.
* `SortedIsAnOrderHolds`: `SortedIsAnOrder`. The invariant counts: the degree of an id
  is the number of edges into it not yet relaxed (`Counted`), each id is queued at
  most once and when its degree is zero (`Distinct`), a target in the result has
  all its sources before it (`Ordered`), and a full result holds every node (`Full`).
* `CycleMeansUnsortableHolds`: `CycleMeansUnsortable`, both directions. Whatever was popped waited for
  nothing but what was popped before (`PoppedFounded`), so a sort that pops every node proves the
  definition sortable; when the queue is empty each id left over waits for another one left
  over (`Waiting`), so the rest is the set that shows it is not.

For any policies, calendar, costs and number of callers (`PolicyAssumption`,
`CalendarAssumption`, `CallAssumption`), in `Quota_proofs`:

* `TypeCorrect`, `AccountedHolds`, `DailyLimitHolds`, `RateLimitHolds`, and
  `TokenOvershootHolds` with `DayAssumption` (a day, once over, does not come back).

The argument. `Accounted` is inductive together with `Frames`: a caller is charged only
during its call or its refund, and for at most one day. Each step then moves one unit
between two terms of the sum, and the cardinalities change by one (`CountAdd`,
`CountRemove`). `Frames` also says that while no policy is edited a caller's rule is the
policy in force and a limited call in progress is charged; hence `Earned`: nothing is
refunded that was not charged. With both, the counter of a day is at least what the
day serves, less `crossed`, and `Charge` admits by the counter: `DailyLimit`. `RateLimit`
follows from `Counted`: a minute lets no more through than it counts. `TokenOvershoot` needs
`Room`: while a day lasts, its counter and one answer for each *risky* caller (past the check, or about
to compare another day's counter) are below the bound. Passing the check makes a caller risky
when the counter is below the limit; a commit uses its share; a new day starts from zero.

For any processes, goroutines and bounds (`CacheAssumption`), in `ProviderCache_proofs`:

* `TypeCorrect`, `RevisionsCoverHolds`, `ReadsAreCurrentUndisturbedHolds`.

The argument. A stale read is the last of many steps, so the invariant `Inv` follows copies
through every hand: undisturbed, `StoreOK` (every copy in Redis or a process is `Good`: it
contains what its revision covers and its revision has existed; the revision covers what has
returned) and `ThreadOK` for each goroutine (the copy it holds is `Good`; a revision it
compared covers what was settled when it began; an editor past its bump is
covered). `StoreStep`, `OwnStep`, `OthersUntouched` and `IncrStep` show that each kind of step
keeps it: only the increment makes a new revision, and it covers the database as it is.

For any documents, requests and parses (`KnowledgeAssumption`: documents and clerks are
finite sets), in `Knowledge_proofs`:

* `KnowledgeTypeCorrect`, `CountAccountedHolds`, `VectorsMatchRowsHolds`.

The argument. `BaseInv` adds to the types who has a document in hand. `CountAccounted` is then
inductive: each step moves one document or one clerk in or out of one of the counted
sets, and `AliveMoves` and `AtMoves` give the cardinalities after it. `VectorsMatchRows` is not: what a
document's vectors are while it is worked on depends on where its one worker is. `VecInv` says so
for each place (`Tidy`), for documents not in `mixed`, and that a document without a
row has nothing (`Fresh`); lemmas by kind of step (`Untouched`, `ClerkKeeps`, `HandsOver`,
`ParseKeeps`) carry it on.

For any prompts, versions, agents and requests (`PromptAssumption`), in `Agents_proofs`:

* `PromptTypeCorrect`, `NamesOwnVersionsHolds`, `PromptsStandHolds`, `ResolvedWasCurrentHolds`.

The argument. `RowInv`: a version named by a row or a request was made for the prompt it is
named with, which is `NamesOwnVersions`; numbers are bounded, without which the choice of the highest would be undefined
(`Greatest`, from the library's well-founded induction). `StandInv`: an undisturbed prompt
stands, and a *fresh* request knows it (`Knows`): the row it read is the row there is, the number it read is
still the highest, the version it is about is stored. Then a fresh request's write keeps the prompt
standing, and a write by any other puts it in `disturbed`. `ResolvedWasCurrent` follows from `WasOffered`: what
a resolution holds was offered to it, or is no longer there to be returned.

For any users, tokens and requests (`ResetAssumption`), in `Access_proofs`:

* `ResetTypeCorrect`, `TokensSingleHolds`, `LockoutsEndHolds`.

The argument. A token that was drawn and not yet stored is in no key and nobody else's (`Unused`,
`Unstored`, `Own`); a stored one never changes its user (`Owned`); at most one request works on the
keys of a user outside `raced`, and its place says which key is already gone.

For any users, roles, permissions and requests (`RoleAssumption`), in `Access_proofs`:

* `RoleTypeCorrect`, `GrantsAreAskedHolds`.

The argument. `GrantsInv`: outside `tangled` at most one edit inserts into a role (`Alone`), it has inserted
what it was asked for less what is left to do (`Inserted`), and with none the grants are those of the
last (`Settled`); what is asked for exists (`Existing`), so the join loses nothing.

For any users, names, old table, requests and failures (`AccountAssumption`), in `Access_proofs`:

* `AccountTypeCorrect`, `NamesKeptHolds`, `RemovedAreFreedHolds`.

The argument. `NamesKept` speaks of a system that serves; whether it holds then was decided by
the repair, one row at a time, perhaps in several attempts. `NamesInv` says what is true in
between: what startup still has on its list (`Starting`), that a name's owner is this or an
earlier row until the index exists and this row from then on (`HasOwner`; the seed, which goes with the purge
unless that fails, is `Spared` this order), that owners keep their rows and the seed owns only what
nobody else has (`IsHolder`), and that the index, once there, makes holders unique (`OneHolder`). Each step of the repair,
the index and each write of a request then keeps `Named`. `FreedInv`: outside `torn` and
`crossed` a removed account is free (`IsFreed`), and a nameless live one is one statement from
its removal (`InRemoval`, `Freeing`).

For any suites, cases, runs and tasks (`EvalAssumption`), in `Agents_proofs`:

* `EvalTypeCorrect`, `RunsAccountedHolds`.

The argument. `EvalInv`: a task's copy of its run has the counts of the results it has kept (`Judging`),
no result is kept for a case still to do, no two tasks work on one run (`Apart`), and the
results are finitely many, so a kept result raises one count by one (`TallyKept`, `TallyGrows`). The write of the
whole row at the end then writes the true counts, unless the run was struck in between.

For any providers, any list of built-in ones and any orders (`ProviderAssumption`), in `Platform_proofs`:

* `ProviderTypeCorrect`, `DefaultIsChosenHolds`.

The argument. `DefaultsInv`: for a purpose not blurred the defaults there are, are the one chosen last
if it is still present; the one choice between its two statements has found all of them
(`Clear`). The first attempt failed at `UpdateProvider`: a choice, a deletion and a save of one provider leave it
live, chosen last and without the flag. TLC shows it with three operators (the run has two), and the
model's account of disturbances (`blurred`) now has it.

For any servers, owners, tools and jobs (`RegistryAssumption`, `NoCopyAssumption`), in `Platform_proofs`:

* `RegistryTypeCorrect`, `RegistryFollowsRowsHolds`.

The argument. `RegistryInv`: outside `astray` an entry's tools have the entry's address, and the entry
is its row's copy or a refresh of that user's servers is to come (`Follows`); a job that is to
write rows has rows of its own user (`JobHolds`). A refresh that ends leaves only entries it has
just read, or whose rows another job changed since, which has its own refresh to come.

For any limits, lists and conditions (`LoopAssumption`), in `Platform_proofs`:

* `LoopTypeCorrect`, `LoopsMeanHolds`.

The argument. `LoopInv` counts rounds for each kind of loop. `EvaluateMeans` and `MeansEvaluate` compare the code's
reading of a condition with its author's for conditions of any length: without a mixture of
connectors they agree, with one the code's is the looser. A counter is a value of a variable, so
`LoopAssumption` asks that the values include the numbers up to any limit.

For any messages, sizes, turns and budgets (`ConversationAssumption`), in `Platform_proofs`:

* `ConvTypeCorrect`, `EditsStayHolds`, `NothingForgottenHolds`.

The argument. Half of it is about the window, for lists of any length. `FilterEmptyFacts`: the filtered list has
the messages with content in their order; `TrimToTurnsFacts`, `TrimByTokenFacts`: what is left is an end of
the list, before which the last question may be put. `Covers` follows: the question is sent, and each message with
content is sent or among the first ones, as many as are missing (`ApplyCovers`, `WindowCovers`); that is why
counting what was cut is enough, and a request in hand holds a list that is covered (`GoodTalk`). The other half: when its
history was not empty and it asks something, the list it saves has two messages or more (`TwoMessages`), so the update
is refused and the row is what it was.

For the composition, in `Platform_proofs`: `PlatformTypeCorrect` and `PlatformPromisesHold`, that the nine
components keep their types and all their safety properties together. A step of the platform is
a step of one component and a stutter of the others (`PlatformStep`).

Three definitions were put so that the prover can follow them, without changing what they
say: `FilterEmpty` by counting the kept positions, instead of with the library's `SelectSeq`, whose
recursion the prover cannot expand; `LookUp` in `McpRegistry` without nested `@`; the reference of
`CycleMeansUnsortable` with sets of ids that wait for one another instead of the library's transitive
closure.

Only model-checked: the liveness properties `Settles`, `LockReleased`, `TimedWaitEnds` and `ParsesSettle`, as TLAPS has
no ENABLED. Every safety property of a passing run is a theorem. The five violations are TLC's: what
they find is a behaviour.

## 5. The plan

Done, in this order: `WorkflowExecution`, `ApprovalGates`, `TopologicalSort` (what the server
is for); `Quota` (what every call passes); `ProviderCache` (the one protocol between
processes); `Knowledge`, `Prompts`, `Accounts`, `PasswordReset`, `Roles`, `ProviderRows`,
`Conversation`, `McpRegistry`, `Evaluation`, `LoopNode` (rows under racing requests).

Left, in this order:

1. Abstract specifications of `Quota` (one counter with a reserve and a release) and of `ProviderCache` (one
   register), and that the two implement them where nothing is disturbed; `ApprovalGates` shows
   the form.
2. The scheduler, should something start it: rows and cron entries under pause, resume, run
   and restart, with the promise that an active row has one entry and a paused one none.
3. The debugger, should the engine call it: the session's pause channel, replaced and closed by
   two sides.

Runs stay few: one per module or family of modules that passes, and a violation only where a comment or a
document says otherwise.

## 6. Not modelled

`PROJECT.json`, "components", lists every part with its reason.

* Node executors other than loops and waits: one call outwards (HTTP, code, LLM, agent, vector,
  notify) or a conversion, with an outcome `WorkflowExecution` has. The delay node multiplies a number
  from the configuration by an hour and may overflow; it then does not wait, which changes no state.
* The scheduler and the debugger: nothing in `cmd/`, `router/` or the engine starts or calls them at
  this commit, so there is no behaviour of the running program to model.
* Skills and their import, long-term memories: rows one call each creates or deletes;
  validation of text without shared state.
* Mail, crypto, JSON envelopes, configuration, routing, logging, monitoring, commands: calls
  outwards, pure conversions, or counters no decision depends on.
* Within modelled components: texts, prices, scores, statistics, tags and other columns that no guard reads;
  the search for chunks; embeddings; the message queue of a conversation; API keys; the
  Java scaffolding.
