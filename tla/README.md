# Verification of ai-proxy-agent-harness

The program is an OpenAI-compatible proxy. A chat request is decomposed into a
tree of tasks, the atomic tasks are executed one after the other, and their
results are synthesised into one answer. When the model asks for tools the run
stops, its state goes to SQLite, the client gets the tool calls, and a later
request that brings the outputs resumes the run. A web page keeps its
conversations in the same database.

This directory holds TLA+ models of that behaviour, TLC configurations, and
proofs for TLAPS. All paths below are relative to `src/`.

## 1. Inventory

| Component | State | Operations | Correct when |
|---|---|---|---|
| Session store, service, per-session locks (`internal/adapters/dbstore/sessions.go`, `internal/application/service`, `internal/core/session`) | table `sessions`, map of mutexes, the `PreparedRun` of each handler | `FindMatching`, `Prepare`, `Lock`, `Persist`, `Save` with eviction, `Release` | a session is run by one request at a time, only from its latest checkpoint and only with all outputs; the table stays bounded |
| Engine (`internal/core/engine`, `internal/core/task`) | tree, leaves, results, pending conversation and calls, round counter | `Run`, `decomposeNode`, `executeFrom`, `runPhase`, `synthesizeFinal`, `resumePhase` | every leaf of the plan is executed once and in order, over any number of requests |
| Debate (`internal/core/debate`) | none between calls | `Refine` | it ends, and a failure never costs the run its result |
| HTTP chat handlers (`internal/adapters/httpapi/server.go`) | none of their own | `chatCompletions`, JSON and SSE variants | prepare, record, run, persist and reply in an order that survives a failure at each point |
| Conversation ledger (`internal/adapters/dbstore/conversations.go`, `internal/adapters/httpapi/conversations.go`, `internal/core/conversation`) | tables `conversations`, `messages` | `Append`, `Get`, `List`, `Rename`, `Delete`, `recordUserTurn`, `recordAssistantTurn` | conversations do not mix, answers follow their questions |
| Web chat page (`internal/adapters/webui/static/app.js`) | `history`, `busy`, `activeConvId`, `currentController` per tab | send, abort, retry, new chat, select, delete, rename | what it shows and sends belongs to the conversation it names |
| Database opening (`internal/adapters/dbstore/db.go`, `migrate.go`) | `schema_migrations`, the tables | `Open`, `migrate`, `importLegacy` | nothing runs or is imported twice |
| Model list cache and router (`internal/adapters/httpapi/models.go`, `internal/adapters/router`) | cached list and its time | `list`, `ListModels`, `ClientFor` | lists are recent, overlapping fetches do not resurrect old ones, a model does not vanish from them while it is served |
| Configuration (`internal/config`, `internal/adapters/httpapi/config.go`) | the `.env` file, the running configuration, the form | `Load`, `Values`, `ValidateOverride`, `putConfig`, `WriteEnvFile` | what was saved is what the next start finds, and it starts |
| Goal extraction, content (`internal/core/goal`, `internal/core/content`) | none | `Extract`, `trimContext` | the turn's instruction is never empty |
| Upstream client (`internal/adapters/upstream`) | none | `Complete`, `Stream`, `ListModels`, `Probe` | errors and truncated streams are told apart |
| Types, ports, prompts, file extraction, static server, fake upstream | none | | |

How they interact: `chatCompletions` calls `Service.Prepare` (which may wait for
a session's mutex), records the user's turn in the ledger, runs the engine
through `Service.Consume`, calls `Service.Persist`, replies, and releases the
mutex on return. Sessions, ledger and migrations share one SQLite database.
The page talks to the handlers over HTTP only and to itself through globals
that survive each `await`.

Hard behaviour: identical requests in flight together; requests that wait for a
mutex while the world moves on; replies lost after the save; expiry and
eviction under a run's feet; runs that cross requests and restarts; a page that
navigates while an answer is in flight; failures that are only logged; a
process that dies between two transactions or between two effects of one write;
upstreams that refuse, hang, break off or answer out of order. `PROJECT.json` lists each hazard at
its line.

## 2. Modules

| Module | Content |
|---|---|
| `SessionLog` | abstract: a session is a log of checkpoints, continued only from its latest one by a history that answers all its calls |
| `Sessions` | store, service, locks and handlers |
| `SessionsProps` | its properties and the refinement of `SessionLog` |
| `SessionsRace` | `Sessions` with the history of who lost a session to an identical request (`sessions_dup`) |
| `SessionsProofs` | proofs about `Sessions` and `Proxy` |
| `RunLog` | abstract: each run has one plan, its saved results follow it and only grow, and it closes when complete |
| `Engine`, `EngineProps` | the engine of one run over any number of requests; properties and the refinement of `RunLog` |
| `EngineProofs` | its proofs |
| `PhaseRound`, `PhaseRoundProps` | one round of a phase, line by line, with the debate; properties and the refinement of `Engine`'s round |
| `PhaseRoundProofs` | its proofs |
| `Proxy`, `ProxyProps` | composition: `Sessions` with an engine in each handler; the sessions refine `RunLog` |
| `DataFacts` | lemmas on prefixes, concatenations and sets of naturals that the proofs share |
| `WebChat`, `WebChatProps` | pages, handlers and ledger; properties |
| `WebChatResent` | `WebChat` with the history of what was sent again (`webchat_twice`) |
| `WebChatProofs` | its proofs |
| `Settings`, `SettingsProps` | configuration, `.env` and the form; properties |
| `SettingsProofs` | its proofs |
| `Models`, `ModelsProps` | model list cache, the router's `ListModels` and upstreams; properties |
| `ModelsProofs` | its proofs |
| `Startup` | opening the database, migrations, legacy import; properties |
| `StartupProofs` | its proofs |
| `MCSessions`, `MCWebChat`, `MCProxy`, `MCSettings`, `MCModels` | values and symmetry sets for TLC |

Operators named `MUT...` are plausible bugs of the definition that follows
them. No specification uses them; they show which property catches which bug.

### Sessions

One *handler* is a goroutine serving `POST /v1/chat/completions`. `pc` follows
`Prepare`: `find` (first `FindMatching`), `lock` (waiting for the mutex),
`recheck` (second `FindMatching` under it), `run`, `reply`. `store` is the
table, `snap` the row the handler read, `turns` the turn history it would seed.
`Accept` takes any request a client could send: a first message, or any reply
some client received, continued by tool outputs (some or all, in any order)
and perhaps a user message. Requests may be repeated at any time, which
covers retries, duplicates and lost replies. `Persist` saves under the
session's id with upsert, TTL delete and overflow delete in one step, as the
transaction does, and *before* the reply (`Deliver`, `ReplyLost`). `Restart`
empties handlers and mutexes and keeps the table.

Abstractions: all user texts are one message, so that histories collide as
often as they can; final answers are told apart (`Answer`), since a checkpoint
hash covers the messages before an answer and not the answer. The turn history
of a row is a list of the sessions whose contents it holds, and `log` has the
contents. A checkpoint hash is the prefix it hashes; the clock ticks in seconds like the stored timestamps, so ties
in `last_used_at` are real; `OldestFirst` is the order SQLite happens to give
rows of equal length. A run that pauses on no call at all (see the
`collectToolCalls` hazard) exists in `Engine` only. `log`, the checkpoints each
session committed with the content each was answered with, is a history
variable. The time of a save is that of its transaction, whereas `Save` takes
it a moment before (`sessions.go:94`).

### Engine

A task is its path in the tree. `todo` is the agenda of the recursion of
`decomposeNode` (depth first, so leaves come in the order
`CollectAtomicLeaves` gives). One round of a phase (`runPhase`) records a
leaf, answers the synthesis, or pauses: `pend` are the engine's `pending*`
fields and its round counter, `saved` what `Persist` writes of it, and
`Resume` is `buildResumeRun` with `resumePhase`. `RunFails` is any error or
death at any point and drops what was not saved. A text is one of the shapes
the marker logic tells apart; `Corrected`, `Debated` and `Sanitized` are the
chain it goes through.

Environment: `Obedient` means the upstream calls no tools when it was offered
none. `engine_core` assumes it; without it `RoundsBounded` fails, because the
engine accepts calls that arrive although it sent `tool_choice: none`. Index
sets of streamed calls are contiguous from 0 in `engine_core` and arbitrary in
`round_core`, which drops `Obedient` too.

### PhaseRound

One round between the request to the upstream and the step that `Engine` takes
for it. `TextLine` and `CallLine` are what `Client.Stream` hands to the
callback of `runPhase`; `MergeToolCallDelta` and `CollectToolCalls` are the
assembly. `StreamPauses`, `StreamAnswers` and `StreamEndsLeaf` are the returns
of `runPhase`; a stream may end at any line, since an end without `[DONE]`
counts. `RetryLeaf`, `RetryEnds` and `RetryFails` are `correctNeedsToolMarker`,
`StartDebate` to `DebateFails` are `debateResult` and `Debater.Refine`, and
`Record` is `recordLeafResult`. A fragment of arguments is the number of the
delta that brought it, so that order and loss can be seen. `sent`, `original`
and `failed` are history variables. The refinement maps the states before the
end to `pc = "round"` of `Engine`, with one leaf or the synthesis in progress;
the step that ends the round must be one of `RoundPauses`, `RoundRecordsLeaf`,
`RoundAnswers` and `RunFails`, and all steps before it stutter.

### Proxy

`Proxy` EXTENDS `Sessions` and gives each handler the part of the engine that
goes through the row: leaves and results. `ResumeRun` restores them
(`buildResumeRun`), `Decompose` and `ExecuteLeaf` are the run, `PauseRun` and
`FinishRun` save them (`Persist`), and a handler that returns or dies leaves
nothing. `progress` is what a row holds of the engine; it keeps what it held
last when the row expires or is evicted, which is how the abstract `RunLog` of
the sessions (`Runs`) sees their life as a whole. Every action of `Sessions`
occurs in exactly one action of `Proxy`.

### Settings

A configuration is a map from settings (slot of an upstream, field) to values.
`Loaded` is what a start finds (`godotenv` does not override the environment),
`Upstreams` is `resolveUpstreams` (an indexed first upstream hides the legacy
one, gaps close up), `Values` renumbers what it shows, and `ValidOverride` lays
an override over the values of the *running* configuration. `Put` accepts,
`ReadLines`, `Truncate` and `Write` are the three effects of `WriteEnvFile`;
two handlers may be in them at once and `Crash` may cut them anywhere.
`Overwritten` is what a file holds after a shorter content was written over a
longer one from its first byte (`Spliced`: what the longer one leaves behind). The form is loaded by `LoadForm`, edited by
`Edit` and sent whole by `Put(h, FormBody(p))`, as the page does: it shows what
the process runs with, not the file. `promised`, `disturbed` and `altered` are
history variables.

A value is written as it is (`key=v`) and parsed by godotenv at the next start.
What that reads is the constant `ReadBack`: of a text without quotes, `$` or ` #`
the text itself, of others something else, and of an open quote nothing at
all: then no line of the file is read and the proxy does not start (`Readable`).
`altered` remembers that a save has written such a value, or has blanked a URL, a
list of models or `Rounds`. The form's checkboxes are left out: `FormData` does not
send one that is not checked (`app.js:996-999`), so that setting is not saved.

### Models

A request misses or hits the cache, asks the upstreams in order and stores what
it has. `Expire` is the deadline shared by all upstreams, `ClientLeaves` a
cancelled request; both end with `Router.ListModels` returning what it
collected, never an error, so the branch of `models.go:48-55` that keeps the
cached list is dead with the router and is not an action. Ages replace the
clock: each counts up to the largest value that is compared with it. `unseen`,
`steady` and `heard` are history variables: for how long a model has not been
announced by anyone, for how long by the first upstream, and whether any upstream
had a part in what a request is answered with. To which upstream a model is sent
(`ClientFor`) is a fixed map made from the configuration; it has no states
and is not modelled.

### WebChat

A *call* is one invocation of `sendMessage` with the handler it reaches. The
page side of a call waits for the reply; the server side goes through
prepare, record, run, record and end. Each page handler is split at its
`await`: `Select` / `ShowSelected`, `AskDelete` / `ForgetDeleted`, `Send` /
`Receive`. The ledger's `Get` is two queries and two steps. `AppendToLedger`
commits or fails (failures are only logged). A message remembers the request it
belongs to (`turn`) and the conversation it was written for (`conv`); the
program stores neither. `lost` are the messages that could not be written or
were deleted.

An old *Reintentar* button may be pressed at any time, during an answer too: it
has no busy check (`app.js:490-498`). Two requests of one page are then in
flight, and of two answers that come back to one history the later one may
stand behind a message that it does not answer, which counts as recorded from
then on. `hurried` are the tabs where that happened and `doubtful` the turns
that they showed or have sent since: `AnswerFollowsQuestion` excepts these turns
and no others. A DELETE may fail without an answer (`DeleteFails`). There is
no page reload; a second tab plays that part in the proofs, which are for any
number of tabs.

`WebChatResent` adds the turns that a *Reintentar* has sent again, so that a
message found twice in the ledger is known to have been sent once, and
`SessionsRace` adds the requests that lost their session while they waited for its
mutex. They serve one run each, and change no action of what they extend.

### Startup

`pc` is how far `Open` is. Each migration, each imported note and each imported
ledger is a step of its own because each is a transaction of its own. `Down`
is an error of `Open`, a crash or a shutdown, at any time. `AfterSave` is what
`saveAndEvict` may leave: any non-empty set of at most `max_sessions` rows; it
is never empty because the row just saved carries the current time and only
goes if another row is as recent. A page may also go on with an imported
conversation that was deleted: its id then returns without an import
(`KeepConversation`).

## 3. Runs

| Run | Bounds | Shows |
|---|---|---|
| `sessions_core` | 2 handlers, 2 sessions, 2 calls asked together, 2 answers, table of 1 row, TTL 1, clock 2, histories of up to 4 messages; symmetry | all safety properties, turn histories, `SessionsInv`, refinement of `SessionLog`, eviction |
| `proxy_core` | 2 handlers, 2 sessions, 1 call, plans of two leaves, 3 messages, TTL 1, clock 1 | each session one plan and no result twice, `RequestsEnd` |
| `engine_core` | depth 2, 2 subtasks, 2 rounds, 2 calls, 1 failure, debate on, texts plain, marker and bare marker, all tool modes | plan, results, conversations, bound on rounds, markers, refinement of `RunLog`, completion |
| `round_core` | 3 lines per stream, call indices 0 to 2 or missing, 2 ids or none, 2 debate rounds, all tool modes, a disobedient upstream | `RoundInv`, assembly of calls, debate, ends, refinement of `Engine`'s round |
| `webchat_core` | 1 tab, 2 conversations, 3 requests of which 2 in flight; symmetry | `WebChatInv`, ledger properties |
| `startup_core` | 2 migrations, 2 legacy files of each kind, 3 starts, table of 2 sessions | migrations and import |
| `settings_core` | 2 upstream slots and the legacy one, 4 initial files, 4 overrides besides the form's, 1 edited field, values that read back otherwise or not at all, 2 saves (overlapping or not), 2 starts, with and without an environment; symmetry | `SettingsInv`, what saves add up to, restart, keys |
| `models_core` | 2 upstreams, 2 models, 2 requests, TTL 2, deadline 1 | `ModelsInv`, age of lists, steady models, every request ends |
| `sessions_dup`, `sessions_turns`, `webchat_twice`, `settings_key` | as small as the disagreement allows | one sentence of the documents each that the code does not keep (section 5) |

Why the bounds are enough. Two handlers are the smallest number that race, and
each races itself through repeated requests. With a table of one row and two
sessions every save evicts; with TTL 1 and two ticks a row expires while it is
held. Four messages allow a pause, its answer, and a new turn or a partial
answer. Depth 2 with two subtasks has leaves at both depths; two rounds is the
smallest bound that can be missed by one in either direction. Three requests
of one tab, two of them at once, are what it takes to press an old retry during
an answer and to send what came of it; they interleave with navigation,
deletion and failed writes. The properties also held for two tabs with two
requests, which share conversations.
Three starts are one import, one interrupted or repeated one, and one after.
Three lines are two interleaved deltas of one call around another's, or a text
and two calls. Two saves are the fewest that overlap, and with the second slot
and the legacy one every kind of renumbering happens. Two requests are one fetch
overtaking another; TTL 2 and deadline 1 tell "younger than", "as old as" and
"older than" apart for both.

`CHECK_DEADLOCK FALSE` is set where the system really stops: a run that ended,
a bounded number of requests or starts. In `Sessions` the system never stops
and deadlock is checked.

Fairness. `Sessions!FairSpec`: weak fairness of each handler's own steps (the
scheduler runs a goroutine that can run, and the upstream client has a
timeout), strong fairness of `Lock` (`sync.Mutex` hands itself to a waiter that
starved for 1 ms); `Proxy!FairProxySpec` the same. Nothing is assumed of clients. `Engine!FairSpec`: weak
fairness of the steps of the run and of a client that goes on; failures are
bounded by `MaxFailures` and not fair. A run whose reply was lost may strand:
`RunCompletes` excepts it.
`PhaseRound!FairSpec`: some step is taken, since a stream has finitely many
lines and the upstream client has a timeout. `Models!FairSpec`: time passes and
handlers go on; upstreams owe nothing.

## 4. Proofs

Every safety property that a passing run checks is proved, for every value of the
constants that the named ASSUMEs allow (two of `Engine`'s
under an assumption on the environment, named below); so are the refinements of `SessionLog`, `RunLog` and `Engine`'s round. Each module
has one inductive invariant (`CheckpointsInv` and `SessionsInv`, `EngineInv`,
`ProxyInv`, `RoundInv`, `WebChatInv`, `SettingsInv`, `ModelsInv`, `StartupInv`),
which TLC checks too, except `ProxyInv`, whose run checks what follows from it.

**Sessions.** `SessionsProofs` proves, for any number of handlers, sessions, calls,
any TTL and any table size, that the specification keeps `TypeOK`, `SessionsInv`,
`OneRunPerSession`, `ResumedRowIsCurrent`, `ResumedRunHasAllOutputs`,
`TurnHistoryFollowsCheckpoints`, `TableBounded` and `EvictsOldest`, and that it
implements `SessionLog` (`Refinement`).

The argument. That two runs of one session cannot overlap is not inductive: it
depends on who holds the mutex (`LockHeld`), and for runs that started fresh,
which take no mutex, on nobody else knowing the id (`IdsAreIssued`,
`FreshRunIsAlone`). That a resumed row is current follows because the row of a
session is always its last checkpoint (`RowIsLastCheckpoint`) and a resumed run
continues the last checkpoint (`ResumedFromLastCheckpoint`), which nobody else
can move while the mutex is held. `CheckpointsInv` is the conjunction. Typing is
proved first, then one lemma shows that steps which neither save nor decide keep
the rest (`QuietStep`), and `NextInv` treats the others action by action. The
refinement maps `live` to the sessions that have a row: only `Pause` and `Finish`
change the log, and `FreshRunIsAlone` or `ResumedFromLastCheckpoint` gives the
guard of `Create` or `Advance`. `TableBounded` needs that the table is finite,
which is part of its induction. `EvictsOldest` is an action property: when a row that had not expired
goes, the table is full afterwards (overflow is the only reason) and keeps no row
that was used earlier. `Evictable` takes exactly the overflow, oldest first, and the
row just saved carries the current time (`SaveBounds`).

Turn histories need one conjunct more. `AnswersAlong` says of a list of sessions that
each has given its final answer, and that what they answered are prefixes of one history,
shortest first. It is about checkpoints only: that the answers themselves stand in
that history is false (section 5); `RunsSeeded` says it of what a run was seeded with and the messages it was
sent, which are longer than any of them. `SessionsInv` adds both to
`CheckpointsInv`; `AlongExtension`, `AlongCommit` and `AlongAnswer` are the steps
from a conversation to a longer one.

**Engine.** `EngineProofs` proves, for any depth, number of subtasks, rounds, calls and
failures, `TypeOK`, `ResultsFollowLeaves`, `PlanCoversTree`,
`ConversationIsWhole` and `NoMarkerWithoutTools`; with `Obedient` also
`RoundsBounded`, and with `GapFree` (every stream numbers its calls from 0) the
refinement of `RunLog`. Without the first the bound is false, without the
second a run may be closed before it is complete (section 5).

The argument. Typing is not inductive by itself: that a result names a leaf needs
`ResultsFollowLeaves`, and that one, after a resume, what the row held. So
`EngineInv` has four parts, checked by TLC in `engine_core`: `TypeOK`; `TreeInv`,
by which every task on the way leads to one that is or will be a leaf;
`RunInv`, the run between two checkpoints; `SavedInv`, what the row holds
(`PendFits`) and that the run in execution continues it. `PlanCoversTree`
follows from `TreeInv` and `LeavesFacts`: a listing in depth-first order is
injective, hence onto, and no element is a prefix of another. The bound on
rounds, the markers and the conversation each have a small invariant of their
own beside `EngineInv`, which says the same of the row (`RoundsInv`,
`MarkerInv`, `ConversationInv`); `AnsweredIsWhole` is the step from a question
to its outputs.

**Composition.** `SessionsProofs` also proves that `Proxy` implements `Sessions`, so
that everything above holds of handlers with engines, and then `EngineContinuesRow` and
`RunsImplementRunLog` for any number of handlers and sessions. `ProxyInv` adds to
`CheckpointsInv` that a session has a plan as soon as it has a checkpoint and is
closed only when its last checkpoint waits for nothing (`ProgressIsLogged`).
Two handlers that save to one session would break it; `OneRunPerSession` is why
they do not, and `FreshRunIsAlone` is why a fresh run finds nothing saved.
TLC found `ProxyInv` true on the instance of `proxy_core`.

**One round.** `PhaseRoundProofs` proves, for any number of lines, indices, ids and
rounds, obedient upstream or not, `TypeOK`, `CallsAssembled` and
`FailedDebateKeepsOriginal`, and that a round implements the round of `Engine`
(`ImplementsEngineRoundHolds`). `RoundInv` says at each line what the accumulator holds
of the stream so far (`Assembling`: each number has its last id and all its arguments in
the order they came, `MergeFacts`; `CallsAssembled` itself says nothing of a call that
is given two ids, section 5), that a debate works beside the leaf's text
(`Debating`), and which texts and phases are possible at each point (`Phases`), which is
what the refinement needs to find `Engine`'s choice of a text behind the retry, the
debate and the sanitizing of the code. `CollectToolCalls` is only determined when the
numbers have no gap (`CollectFacts`, `AscendingFromZero`), as `CallsAssembled` says.

**Web chat.** `WebChatProofs` proves, for any number of tabs, conversations and requests,
`TypeOK`, `LedgerNeverMixes`, `ShownAnswersAreStored`, `NameIsKept` and
`AnswerFollowsQuestion`, without an assumption on the user. `WebChatInv` carries what is true of the
ledger to what is true of every copy of it: the history of a page, the messages of a
request, a conversation that is being loaded (`OwnMessages`, `AnswersKept`). That an
answer comes after its question is the hard part (`QuestionsKept`): a page on which no retry was pressed during an
answer waits for one request at a time, so a user message that an answer follows in a history
was recorded, or lost, before the next request was sent; what any other page shows is
`doubtful` unless it was accounted for, and stays so wherever it is loaded or sent
(`Accounted`, `NextDoubtful`).

**Configuration.** `SettingsProofs` proves, for any number of upstreams, requests, pages,
overrides and starts, any environments and files, `TypeOK`, `LoneSavesCompose`, `SavesRestart` and
`KeysAreKept`. `SettingsInv` has, beside the types, that a process runs only with what
builds (`Running`); that while nothing was disturbed a save has the file for itself and
read all of it (`Alone`); that what is about to be written was validated (`Validated`);
and that from an explicit configuration the saves together build and set all that the
running process has set, read as godotenv will read it (`Restartable`). The step is `SaveBuilds`: let the saves so far build and
set all that the running configuration sets, and let an override build over the running
configuration, blank nothing and read back as it is; then the saves with this override build. An upstream
that the saves know is complete already, and one that the override introduces finds its
models in the override or in what the running configuration sets. It needs `Upstreams` to number the
slots without gaps (`RankExists`, `FirstSlots`).

**Models.** `ModelsProofs` proves, for any number of upstreams, requests and models, any TTL
and deadline, `ModelsInv` with its types, `ListedIsRecent` and `SteadyIsListed`. `ModelsInv` bounds the age of what a fetch has
collected by the time it has taken (`CollectedInv`), and that of the cached list by its
own age and one deadline (`CachedInv`); a fetch that is overtaken stores a list that is
older, but not older than that.

**Start.** `StartupProofs` proves, for any number of migrations, files, rows and starts,
`TypeOK`, `StartupInv`, `MigratedOnce`, `SessionsImportedOnce` and
`OwnDataIsLeftAlone`. The key conjunct of `StartupInv`: if table `sessions` is
empty, no note was ever imported, because a save never leaves the table empty.
The same is false of table `conversations`, whose rows users delete (section 5).

`DataFacts` has what several of them need: prefixes and concatenation, least and
greatest elements, and that a bounded set of naturals has an element of each rank.

Assumptions are the named ASSUMEs of the modules: null values differ from the values
they stand beside, the sets of calls and indices are finite, runs pause on at least one
call, a decomposition has at least one leaf, limits are natural numbers (debate rounds
between 1 and 3, as the configuration requires), legacy and own ids differ, at least
one upstream is configured and declares the default model.

Out of the prover's reach, so only model-checked: liveness (`RequestsEnd`,
`RunCompletes`, `RoundEnds`, `EveryRequestEnds`), anything about ENABLED, and what
recursive definitions compute for all inputs. The properties of the runs that
expect a violation are false and have no theorem.

## 5. Where documents and code disagree

* `sessions_dup`: `service.go:114-115` says the lock prevents double execution of identical requests. The second request waits for the mutex while the first resumes the session and saves; its recheck then fails, the loop looks the session up again, finds nothing to resume, and the request is executed from scratch.
* `sessions_turns`: `session.go:55-56` says that a turn history holds only contents delivered in this same conversation. Sessions are found by the hash of the messages before their answer, so of two answers to one opening request (a retry, or a second client) either may seed the turn that continues the other. (`TurnHistoryFollowsCheckpoints` is what does hold.)
* `webchat_twice`: `conversations.go:145-149` says a run records exactly the message just sent. After an answer was aborted the page's history ends in two user messages when the next one is sent, and the ledger holds the first one twice.
* `settings_key`: `httpapi/config.go:23-24` says a blank key keeps the current one. For an upstream configured by the legacy variables the form writes the same upstream as number 1, without a key, and that one hides the legacy one after a restart. (`KeysAreKept` shows that it is kept when the configuration already was numbered as the form shows it.)

Others were met while modelling; they have no run, each is either a variant of a
modelled behaviour with another constant or outside a checked property.

* `README.md:215` says the model answers with text when its tool rounds are used up; calls of an upstream that ignores `tool_choice` are accepted (`Obedient = FALSE` in `Engine` violates `RoundsBounded`).
* `README.md:52-53` says a paused run can be resumed; of two rows with equal checkpoint `FindMatching` returns one, and answers to the other's calls start a fresh run.
* `README.md:137-139` says the header identifies the conversation; an answer in flight during a navigation lands in the history of another one, which the next request sends.
* `migrate.go:109-112` says the import happens once; after all conversations were deleted it happens again (`Startup!DeleteConversation`, then `StartConversations`).
* `models.go:48-50` says that an upstream that does not respond leaves the cached list; `Router.ListModels` returns no error, so an empty or partial list replaces it, and a request that no upstream answers gets the default model alone, as `README.md:166-168` says. `ListedIsRecent` is therefore about the lists that an upstream had a part in.
* `merge.go:5-7` says that the id and type of a call are set by its first delta ("la primera vez"); every later one that has an id overwrites it (`merge.go:19-21`). `CallsAssembled` excepts calls with two ids.
* `README.md:195` says that calls go to the right upstream by model name; a listed model that no configuration declares goes to the first one, as `router.go:7-8` documents.
* A conversation that was deleted during a run is recreated by the answer and titled `(sin título)`, although `README.md:139-140` says that the first message gives the title.
* A stream whose call indices have a gap makes the engine pause on fewer calls or none, and the JSON handler reports a run that paused on none as finished (`execute.go:98-107`, `server.go:197`).
* `config.go:189-191` says that an override is validated as the configuration that a restart will give. It may leave a file that the proxy does not start with: when the running configuration came from the legacy variables or has a gap in its numbers, when a save blanks a setting that another one relies on, or when a value holds a quote that godotenv cannot close. `SavesRestart` excepts these.

## 6. Not modelled

File extraction and static files, which are conversions and I/O; URLs, headers
and payloads of the upstream client, its probe and `POST /api/detect-models`,
which keep no state; prompts, ports and the remaining types, which have no
behaviour; which upstream a model is routed to, a fixed map; the listing and full-text search of conversations; markdown,
attachments and the model selector of the page; the SSE and JSON encodings of
the handlers. Of the goal extraction only which turn a request answers; the
trimming of texts is wording.

The composition in `Proxy` has the results of a run but not its conversation and
tool rounds, which `Engine` follows for one run at a time: both at once exceed
what TLC can enumerate in minutes. For the same reason the conversation ledger is
not composed with the sessions; the two share no state but the request.

## 7. Plan

Done: the session core, the engine and the composition of both, one round line by
line, the web chat with its ledger, the configuration, the model list, the start of the
database, and the proofs of their safety properties and refinements.

Next, in this order:

1. What the engine's correction and debate may leave of a text, as lemmas about
   `Corrected`, `Debated` and `Sanitized` that `EngineProofs` and `PhaseRoundProofs` share.
2. That `Proxy` also implements `SessionLog` and keeps the table bounded, stated of its own
   variables.
3. `Startup`: what an interrupted import leaves behind, once a document says what it should.
