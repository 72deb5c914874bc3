# A TLA+ model of zora

zora is an assistant server: a Go process (several replicas of it over one
PostgreSQL, or a single one over SQLite) that answers chat requests with a
language model, asks people to approve risky runs, carries out confirmed office
work against Microsoft Graph, remembers facts about its users, and ingests
documents. This directory models the parts of it in which concurrency, crashes,
lost replies, retries and boundaries decide what happens. Paths below are
relative to `src/internal/` unless they start with `src/` or `docs/`.

## 1. Inventory

| Component | State | Operations | What must hold | Model |
|---|---|---|---|---|
| Confirmed office work (`office`, `mcpbridge/office_executor.go`, office tables) | draft and operation rows, lease, external reference, Graph mailbox | create, submit, decide, prepare, execute, recover at start-up | nothing unapproved takes effect; at most one effect; what was sent is recorded; attempts end | `OfficeOperation` |
| Background jobs (`background`, `background_jobs`) | job rows, worker loops | enqueue, claim, sweep, complete, fail, retry, start, stop, delete with the conversation | fencing, budget, completion after effect, every job settles | `JobQueue` |
| Chat runs (`chat/service.go`) | messages, runs, child runs | send, delegate, fail, finish, delete | turns do not interleave, outcome agrees with what was stored, runs settle | `ChatRun` (no run events, titles, feedback) |
| Approval (`approval`) | approval rows, in-memory waiters | request, wait, decide, time out, cancel | nothing runs unapproved; one outcome; nothing waits for ever | `ChatRun` |
| Conversation lock (`store/postgres/conversation_lock.go`) | advisory locks, pooled connections | lock, unlock | mutual exclusion | `ChatRun` (not the size of the pool) |
| Memory capture, long-term memory, semantic index (`memory`, `semantic`) | outbox rows, memories, slots, vectors | capture, create, edit, delete, reindex | a completed capture is complete; one memory per slot; vectors follow contents | `MemoryCapture` (not the scoring of recall) |
| Conversation summary (`summary`, the history of `chat/service.go`) | one summary row per conversation, window of a turn | update in batches, load | the summary covers what its border says; nothing is missing from the context | `ConversationContext` |
| Knowledge base (`knowledge`) | documents, versions, chunks | upload, ingest, delete, search | the newest version is served; nothing is lost in cutting; a search answers from current versions | `KnowledgeVersions`, `Chunking`, `Retrieval` |
| Agent runtime (`agentruntime`) | budget of hand-offs, slots, passes | execute, delegate, retry, time out, review | limits, no slot is lost, the stored answer is the one that was shown | `AgentRun` (no prompts, tools, model adapters) |
| Sessions, rate limit, quotas (`authn`, `security`) | logins, sessions, cookies, buckets, daily counters | log in, call back, authenticate, prolong, log out, allow, consume | a deleted session stays deleted, one session per login, limits | `Gateway` |
| Web client (`httpapi/web/app.js`) | conversation list, active one, busy flag, tasks | send, stop, select, create, rename, delete | a message goes to the conversation its turn began in, a stream can be stopped, the composer is released | `WebClient` |
| Configuration (`config`) | settings | load | what is accepted can be started | `Configuration` |
| Start-up and shutdown (`src/cmd/zora/main.go`) | open components, deferred closings, workers, handlers | open, serve, stop, unwind | nothing leaks, nothing is closed under its users | `Lifecycle` |
| Schema (`store/postgres/schema.go`, `store/sqlite`) | tables, columns, indexes, rows of earlier versions | migrate | no row is lost, replicas may start together | `SchemaMigration` |
| Input guard, feedback, MCP servers, observability, evaluation tools, deployment | | | | not modelled (section 16) |

How they interact: an HTTP request passes the gateway and becomes a chat run,
which takes the conversation lock, may wait for an approval, loads summary and
window, calls the agent runtime, and ends by storing an answer together with a
memory-capture job and by enqueueing a summary job. Workers in the same process
claim those jobs under leases. Agent tools create office drafts; people confirm
and execute them through HTTP. A start opens all of this in order and recovers
expired office leases once.

What is hard: leases compared with clocks, owners that are process-wide names,
checkpoints around calls that cannot be made idempotent, replies that are lost
after the effect, request contexts cancelled by a closing browser, rows listed
first and written later, transactions at READ COMMITTED, replicas that start
together, deletions under running work, answers that arrive out of order, and
numbers at their bounds. `PROJECT.json` lists each hazard at its line.

## 2. Plan and architecture

| Module | Uses | Run | Proofs |
|---|---|---|---|
| `OfficeOperation` | `OfficeEffect` (abstract) | `Office` | `OfficeOperation_proofs` |
| `JobQueue` | `AtLeastOnce` (abstract) | `JobQueue` | `JobQueue_proofs` |
| `ChatRun` | `TurnLog` (abstract) | `ChatSafety`, `ChatLiveness` | `ChatRun_proofs` |
| `MemoryCapture` | | `Memory` | `MemoryCapture_proofs` |
| `KnowledgeVersions` | | `Knowledge` | `KnowledgeVersions_proofs` |
| `ConversationContext` | | `Context` | `Agent_proofs` |
| `Gateway` | | `Gateway` | `HttpApi_proofs` |
| `AgentRun` | | `Agent` | `Agent_proofs` |
| `WebClient` | | `Web` | `HttpApi_proofs` |
| `Lifecycle` | `Configuration`, `SchemaMigration` | `Lifecycle` | `Lifecycle_proofs` |
| `Retrieval` | `Chunking` | `Retrieval` | `Agent_proofs` |

Abstract specifications say what a component promises with no leases, requests
or retries. The modules of one component take the others at their word:
`KnowledgeVersions` and `ConversationContext` let any worker run a queued job,
also while another still does, which is what `AtLeastOnce` allows, and
`ConversationContext` lets turns be serial, as `TurnLog` promises. An `MC`
module only names values for constants.

Two proof modules hold the theorems of more than one component: `HttpApi_proofs`
those of the gateway and of the page it serves, `Agent_proofs` those of an agent
run and of what it is given to answer from, the summary and the search.

What is left to do: the size of the connection pool against the number of
conversation locks, and the scoring of recall.

## 3. OfficeOperation

One draft has at most one operation, so `draft` and `op` are functions of the
draft. A `Process` is one incarnation of the server: `NewService` gives it one
`workerID`, used as the lease owner of all it executes. A `Caller` is one
`ExecuteOperation` in flight, with its locals (`latestReference`, the Graph
object in hand) and the point it has reached. `remote` is the mailbox and the
calendar; `late` holds send requests that outlived their caller.

| Action | Code |
|---|---|
| `SaveDraft`, `DeleteDraft`, `SubmitForConfirmation`, `Decide` | the compare-and-swaps of `office/service.go` and `TransitionDraft` |
| `PrepareOperation` | `INSERT ... SELECT ... ON CONFLICT(draft_id) DO NOTHING` |
| `ClaimOperation` | the claim transaction; it may commit unconfirmed |
| `CreateEmailDraft`, `CheckEmailState`, `SendEmailDraft`, `CreateCalendarEvent`, `ReuseCalendarEvent`, `CallFails` | `executeEmail`, `executeCalendar` and the Graph tools behind them |
| `CheckpointOperation` | the checkpoint callback |
| `FinishCall` | both ends of `ExecuteOperation`, with `FinishOperation` |
| `StartProcess`, `RecoverItem`, `NextBatch` | `RecoverExpiredOperations` in `main.go` |
| `LeaseExpires`, `LateSend`, `Crash` | the clock, Graph, the operating system |

Abstracted: contents of drafts, audit events (written in the same transaction
as the change they describe), timestamps. Time is a flag: a lease is running or
expired. `status = "absent"` stands for a row that does not exist; the store
keeps every other row, since only drafts in state `draft` can be deleted.

`Faults` names what the environment may do: `crash`, `dbError`, `unknownCommit`
(a commit whose caller sees an error), `liveExpiry` (a lease running out under a
running attempt) and `overlap` (two processes recovering at once). The first
three belong to any deployment. Without the last two, the component keeps all
its promises. With either of them it does not, as section 15 describes.

Run `Office`: an email and an event, so that both ways to reuse a reference
occur, two incarnations, two attempts each: an attempt that dies, or loses a
reply, after creating or sending, and another that must recognise what it left.
`MaxAttempt` bounds the claims of an operation, `BatchSize = 1` makes recovery
work in several batches. `EffectSpec` is the refinement of `OfficeEffect`: nothing
unapproved takes effect, nothing takes effect twice, and final states are final.
`AttemptsEnd` says that an executing operation stops executing, loses its
process, or has nobody working on it: no attempt hangs on to an operation.

Fairness: a request runs to its end (every wait in it has a timeout), recovery
runs to its end, clocks move, Graph completes a pending request. Nobody is
obliged to press a button or to start a process.

Proved in `OfficeOperation_proofs`, for any numbers of drafts, processes,
requests, Graph objects, attempts and any batch size. `TypeOK` and `RowsAgree`
hold under every fault. The rest assumes that neither `liveExpiry` nor
`overlap` occurs. The inductive invariant has two halves. `Control`: a call has
the shape its program counter implies; while it runs it is the only one on its
draft and holds the unexpired lease (`Leases`); and no two processes recover at
once, so every row in the list of a recovering one is still as it was listed or
settled (`Recoveries`). `Data`: Graph objects belong to drafts, references name
objects of their draft, what a call holds in hand agrees with its row, a message
in state sent or late is the recorded one. `AtMostOneEffect` needs
`SentIsRecorded` (a message that is sent is the one the row names), which needs
that the row does not change under an attempt, which is `Leases`, which needs
`Recoveries`. `ReferenceKept` also assumes no unconfirmed commit: an attempt
whose checkpoint committed unconfirmed finishes with the older reference it
knows. (That loses an unsent message, never a sent one.)

## 4. JobQueue

`row` is the table, one job per `(kind, dedupe_key)`; `worker` is the loop of
each worker incarnation with the snapshot it works from; `effect` the jobs whose
handler did its work. `ClaimBackgroundJob` is the claim transaction with its
sweep, `SweepExhausted` the sweep that commits with nothing to claim, `Handle`
the handler, `Report` the common part of completing and failing. `Stop` cancels
the loop's context, which interrupts a handler and uses up its attempt.
`DeleteConversation` is the foreign key that takes summary jobs away with their
conversation, also from under a handler.

Abstracted: payloads, results, traces; `available_at` and `lease_until` are the
flags `due` and `expired`; the wake-up channel only shortens a poll. `retries`
and `MaxRetries` bound manual retries.

Run `JobQueue`: one job, of a conversation that may be deleted, three workers,
three attempts, one manual retry and every fault, including leases that run out
under a running handler (leases are compared with the replicas' own clocks), so
that an attempt can be overtaken twice and still report. Jobs do not share
state: the queue serves each by its own row. `JobsSettle` holds as long as one
worker neither crashes nor stops. Fairness: the loop polls, clocks move, workers
are started.

Proved in `JobQueue_proofs` for any numbers and every fault: `TypeOK`, `Fenced`,
`BudgetKept`, `CompletedTookEffect`, `CompletedIsFinal` and the implementation of
`AtLeastOnce`; `OneHandler` without `liveExpiry`. `BudgetKept` is not inductive
alone: a job is made pending again by the attempt its worker remembers, so it
needs `Fenced`; `Fenced` needs that a worker never claims a second job while it
holds one.

## 5. ChatRun

One request is one call of `SendWithModel`. `pc` is the place it has reached,
`connected` its context, `cause` the status `failRun` derives from its error,
`seen` the length of the history it read, `decision` what `Wait` returned,
`open` the hand-offs its event handler tracks, `waiter` the approval channel.
`messages`, `run`, `approval`, `child`, `jobs` and `exists` are the rows,
`holder` the advisory lock of a conversation.

| Action | Code |
|---|---|
| `AcquireConversationLock`, `GiveUpLock`, `Unlock`, `LoseLock` | `acquireConversationLock` of `chat/service.go`, over `conversation_lock.go` or, without PostgreSQL, a mutex of the process (which ignores the context: a request whose client left then fails at its first statement instead of giving up the lock) |
| `LoadHistory`, `AddUserMessage`, `CreateRun`, `Announce` | the first half of `SendWithModel` |
| `RequestApproval`, `AskForApproval`, `BeginWait`, `HearDecision`, `PollDecision`, `TimeOutWait`, `CancelWait`, `RecordDecision`, `StopAfterApproval`, `Decide` | `approval/service.go` and its callers |
| `Delegate`, `CompleteHandoff`, `ExecutionFails`, `ExecutionAnswers`, `FinishActiveChildRuns` | the event handler of the execution, and the cleanup after it |
| `StoreAnswer`, `RecordOutput`, `EnqueueSummary`, `RecordEnd`, `FinishRun`, `FailRun` | the second half |
| `DeleteConversation`, `Disconnect`, `Crash` | the cascade, the HTTP server, the operating system |

Every statement ends in one of four ways (`Outcomes`): it succeeds; it fails; it
is done but its reply is lost; or the context ends while it is on its way and it
is done all the same. Where the code also writes to the client, that write may
fail (`Told`). Once the context is cancelled every further statement fails,
except those the code runs under a context of its own (`FailRun`,
`FinishActiveChildRuns`, the expiry of an approval).

Abstracted: run events, titles, feedback, telemetry and what the model is told.
A hand-off is a child run that starts and may complete. Memory capture and
summaries are taken to be configured. Each request has a process of its own, so
that a crash ends one request. `Faults` and `MaxFaults` name and bound what the
environment may do; a lost lock (`"lock"`) exists only with PostgreSQL, where
the connection that carries it may break.

`TurnLog` is the abstract specification: a conversation is a sequence of turns,
each a question with at most one reply directly below it.

Runs. `ChatSafety`: two requests of one conversation, one of which needs
approval, two hand-offs each, so that a failing one leaves the other to the
cleanup, disconnects, and two crashes or database errors: two are what it takes
for one request to leave something behind and another to fail over it.
`ChatLiveness`: both requests return whatever happens, lost locks included, and
settle when nothing disturbs them. `CHECK_DEADLOCK` is off since every request
ends.

Fairness: a handler keeps moving, as the model call, the approval and every
statement have deadlines; PostgreSQL serves those who queue for an advisory lock
in turn, so a request that finds the lock free again and again gets it (strong
fairness on `AcquireConversationLock`). Nobody has to decide, disconnect or
delete.

Proved in `ChatRun_proofs` for any numbers of requests, conversations and
hand-offs and any policy. Under every fault: `TypeOK`, `NothingRunsUnapproved`,
`RunTellsWhatHappened` and `VerdictsAreFinal`. The inductive invariant is one
conjunct per request (`Tale`) in four parts: `Rows`, the rows of a conversation
go with it; `Ruled`, what the waiter was sent or `Wait` returned is what the
record says; `Stage`, the place of a request bounds what is stored for it;
`Story`, what is stored tells what was decided. None of the properties is
inductive alone, not even `TypeOK`: that `Wait` returns a decision needs a
record that exists and is not pending. Finality of runs needs `Story`, which
says that a run has ended only when its request is past `FinishRun` and
`FailRun`, since the update of the row itself is unconditional.

As long as no lock is lost, `HistoryIsCurrent` and the implementation of
`TurnLog` are proved from a second invariant (`Turn`): whoever is inside the
handler holds the lock, what it read is current, and it has not spoken before it
does. The proof splits the steps into those that ask no more of any turn
(`Drifts`) and the few that take, leave, read, speak or erase.

`NoTrackedChildLeftRunning` is proved under every fault; it speaks of runs in
which nothing failed. Its strengthening (`KInv`) has two parts: `Tracked`, a
specialist run the handler knows about is only left running while the handler
delegates or sweeps; and `Dismissed`, no specialist run is running for a
conversation that is gone, so that a sweep which finds no rows misses none.

## 6. MemoryCapture

A turn is a finished chat run with the candidates the extractor returns for it;
`job` is its row in the outbox, `worker` the attempt each replica is at with the
rows it read, `memory` and `vector` the memories and their embeddings, `reindex` a
reindex under way.

| Action | Code |
|---|---|
| `EnqueueCaptureJob`, `ClaimCaptureJob`, `CompleteCaptureJob`, `FailCaptureJob` | the outbox tables and `capture_worker.go` |
| `MessagesExist`, `IndexMessages`, `PlanCandidate`, `PlanDone`, `VectorizeMemories`, `WriteChange` | the calls of one attempt, in the order of `processNext`, `IndexMessages` and `Capture` |
| `Create`, `ReplaceRead`, `ReplaceWrite`, `Delete`, `DeleteConversation` | the user's requests |
| `StartReindex`, `ReindexMessages`, `ListMemories`, `UpsertMemoryEmbeddings` | the reindex, page by page |
| `AttemptLost`, `BecomesDue` | crashes and suspended replicas, the clock |

An attempt reads the slots of its candidates one after the other, plans, embeds,
and then writes one change at a time; a change fails when the row or the slot
was taken meanwhile, and the attempt is retried from the start. Contents are
values, expiry is part of the content, importance a small number.

Run `Memory`: two turns whose candidates share a slot, one of them with a
credential that must not be stored and a second kind, two replicas, one request of
the user, one fault, two attempts, reindex pages of one. One fault is what it takes
to interrupt a capture half-way while another replica goes on.
Fairness: workers poll and their calls return, clocks move.

Proved in `MemoryCapture_proofs` for any numbers of turns, candidates, replicas,
memories, attempts and faults and any page size: `TypeOK`, `CompletedIsCaptured`
and `OnlyReindexLeavesStaleVectors`. The inductive invariant says that whatever an
attempt has passed over is in its plan or settled, and what it has written is
settled (`NothingDropped`), that plans and settled slots hold facts of the turn
only (`OnlyFacts`), and that messages an attempt has indexed stay so as long as
their conversation (`StaysIndexed`). It needs no word about leases: two attempts of
one job may run at once, both settle facts, and settled facts stay settled; the
fence on the job's row only decides which of them completes it. The action
property needs the types alone, in particular that a row is read, planned and
written under an id the table has.

## 7. KnowledgeVersions

The versions of one document on PostgreSQL. A step is a statement of a READ
COMMITTED transaction: it sees what was committed when it began, waits for row
locks, and looks again after the wait. `LockVersionGroup`, `DemoteLatest`,
`CommitDocument` are `Ingest` and the transaction below it; `FindForUpdate`, `DeleteRow`,
`PromoteHeir` are `DeleteDocument`; `DeadlockDetected` is PostgreSQL ending one of two
deletions that wait for each other. On SQLite each is one transaction.

Run `Knowledge`: two contents, two workers, three rows, three deletions, one fault:
three deletions are what it takes for two of them to wait for each other, which
needs two rows marked latest first. `NewestIsServed` is stated as long as no
deletion overlapped another transaction of the document (`raced`); it covers
every overlap of uploads. Fairness: workers poll, statements are executed.

Proved in `KnowledgeVersions_proofs` for any numbers of contents, workers, rows,
deletions and faults: `TypeOK`, `NewestIsServed` and `CompletedWasStored`.
`NewestIsServed` needs, until something races, that what a transaction has read at
its start still holds when it writes (`Unraced`): the number an upload took is
above all others and the rows it will demote are those that are served
(`Foresight`); a deletion still knows whether its row is the latest and which is
the newest of the others (`Succession`); and deletions and numbered uploads keep
apart (`Apart`). `Rows` (numbers are unique among live rows, as the unique index has
it) and `Deletions` (nobody takes a row away that a deletion holds) are kept
whatever races.

## 8. ConversationContext

A message is its sequence number, the content of a summary the set of messages
that were summarized for it. A turn stores its question, loads the window
(`HistoryLimit`) and the summary, answers and enqueues an update; an update reads
the summary, lists batches of messages after its border and writes the summary
back, unguarded by any version. `overlapped` records that two updates were under
way at once, which is the only way the border moves back.

Run `Context`: nine sequence numbers, trigger 4, two recent ones kept, batches of
five, two workers, two attempts, one fault: an update takes two batches, another one
is queued before the first is done, and both orders of their ends occur.

Proved in `Agent_proofs` for conversations of any length, any
limits, any numbers of replicas, attempts and faults: `TypeOK`, `SummaryIsFaithful`,
`NothingForgotten` and `BorderAdvances`. A stored summary can only stay faithful if
those that updates have read, or are about to write, are (`UpdatesAreFaithful`): an
update that was overtaken replaces the newer summary by an older one. What goes to
the summarizer adjoins the border without a gap (`Adjoins`), which rests on the
lemmas about the first and the newest `n` messages of a set. `NothingForgotten` needs
that the window is still the end of the history and that the summary a turn was
given tells all messages up to its border (`TurnIsFaithful`); `BorderAdvances` that
updates which keep apart know the summary they will replace (`OneAtATime`).

## 9. Gateway

One user with two tabs of one browser; replicas share Redis and the database, so
a step is one call to either. `Login`, `Callback`, `TakeState`, `PutSession` are the
OAuth flow; `Send`, `Authenticate`, `Refresh`, `Allow`, `ConsumeQuotas`, `Handle` the chain of
middlewares and the handler (logout is one of them); `Tick`, `Forget`, `Midnight`,
`StateExpires`, `SessionExpires` are clocks; `Unavailable` is Redis or the database
failing, upon which the request is refused.

A logout is the exception: the error of deleting the session is dropped, the cookie
cleared and the user told that it is logged out (`Logout`, `Delete`;
`authn/github.go:262`; `docs/interview-questions.md:2768` calls the deletion best
effort). The session may then live on until it expires, and whoever still has its
identifier is let in: `LogoutEndsSession` is in the module, fails, and no run
asserts it. `LoggedOutStaysOut` says what is left: a session that *was* deleted is
never brought back by a request that prolongs it, and the browser never has a
session again that it logged out of, deleted or not.

A bucket counts units, of which `Unit` are a token. `Forget` drops one after
`ForgetAfter` idle seconds, which says nothing about its filling time: the limiter of
Redis keeps a bucket for two filling times, that of the process for ten minutes at
any rate (`security.go:359`), while `config.go:317` and `:321` admit 0.1 requests per
second with a burst of 100, which take 1000 seconds to fill. The process then gives
away what the bucket still owed: burst and refills (`BurstAndRefill`) are exceeded,
and the bound of `RateKept` is the larger of what is refilled and one whole bucket
each time it can be dropped (`Sustained`). Both are the same where a bucket fills
before it is dropped, thus always with Redis. Run `Gateway`: one login twice called
back, two sessions, three requests, three seconds, one fault, quotas of 3, 1 and 3,
upload sizes declared and not; a bucket that takes four seconds to fill and is
dropped after three, so that the bound is reached by a drop. Symmetry over tabs is
sound, since all properties are invariants.

Proved in `HttpApi_proofs` for any numbers of tabs, logins, sessions and
requests, any rate, burst, resolution of the clock and time after which buckets are
dropped: `TypeOK`, `LoggedOutStaysOut`, `OneSessionPerLogin` and `RateKept`; and
`BurstAndRefill` where `ForgetAfter * Rate >= Burst * Unit` (`Refilling`). The inductive invariant
follows a login from its start over the one callback that takes it to its
session (`LoginsAreTaken`): `OneSessionPerLogin` alone does not exclude two tabs at
the exchange of one login. `LoggedOutStaysOut` needs that the next session was
never logged out, `RateKept` the tokens that are left (`Afforded`): a drop fills the
bucket, and the time since its last use pays for that. `AdmittedWithinQuota` needs what is
still charged to requests under way (`Accounted`). A sum over any number of tabs
would be a fold, of which the prover knows nothing; the charges are
therefore counted as a finite set, one element per unit charged (`Charges`), which
a step makes smaller or larger by one request's share.

## 10. AgentRun

One `Execute`: `HandOff` is a round of the supervisor that asks for any set of
specialists, `ReserveHandoff`, `Acquire`, `Attempt`, `Deliver` are the controlled tool
around each, `Conclude`, `PassFails`, `EmitFails` the ends of a pass, `AcceptDraft` and
`Revise` what the reviewer leads to. A revision is a second pass with limits of its
own. `shown` and `answer` are the texts that were streamed and collected.

Run `Agent`: four calls over a budget of one (so that two passes can exceed twice
the budget if they miscount) or three hand-offs, two slots (so that a third call
waits), one retry. Fairness: specialists return at the latest at their timeout,
slots are handed out in the order of arrival (strong fairness on `Acquire`), the
model answers, and the context of a request that has returned ends.

Proved in `Agent_proofs` for any set of calls, finite or not, any limits,
retries and slots: `AgentTypeOK`, `LimitsKept` and `AnswerWasShown`. `LimitsKept` speaks of
what was tried; the code counts what was let through. The inductive invariant
bounds the latter by the counter of this pass and the limit of the pass before
(`Budgeted`) and equates the counter of slots with the calls that hold one (`Slots`).
A revision sets both counters to zero, which is only sound because nothing is
under way during a review (`ReviewIsQuiet`).

## 11. WebClient

The page runs one handler at a time; a task is an async function that awaits a
request, and answers arrive in any order. Run `Web`: two conversations, one of
them created by the page, three tasks, two messages. Both safety properties
exclude the one case in which a message overtakes another (`overtaken`), section 15.
Fairness: every stream and request ends.

Proved in `HttpApi_proofs` for any numbers of conversations, tasks and messages:
`SentWhereTyped` and `TurnIsStoppable`. The inductive invariant `PageInv` joins the two
with what a submission relies on between its awaits (`TypedIsShown`): until its
request is sent, a message belongs to the conversation on the screen or to one that
was deleted. That holds since a page that is busy selects and creates nothing, and
`TurnIsStoppable` says that it is busy as long as a turn is under way; both end when
a message overtakes another.

`SentWhereTyped` speaks of the conversation on the screen when a turn *begins*. That is
the moment of submission if there was one. If there was none, `sendMessage` first
awaits `createConversation` and with it the loading of the new conversation
(`app.js:1249`), and the page is not busy meanwhile: whatever the user selects in that
time is where the message goes. The model does so (`Loaded`, `Created`, `Resume`); no
property calls it wrong, and none covers it.

## 12. Lifecycle, Configuration, SchemaMigration

`Configuration` defines `Admits(environment)`, all bounds and relations that
`config.Load` enforces, and `Loaded`, the settings it hands on. `SchemaMigration`
has the statements of the schema as functions from database to database.
`Lifecycle` composes both: `Open` is the next constructor of `run()`, each deferring
its closing; `Close` runs the deferred calls; `Signal`, `ListenerFails`, `CallFails`,
`Die` are what may come in between; handlers and the three workers run while the
process serves, and `overdue` are those nobody waited for any longer.

Run `Lifecycle`: every setting on both sides of every bound, from the local and the
production settings, and every pair of related settings, each started
undisturbed on an empty database; deployments with MCP servers, over databases of
three ages, with traffic and faults; two replicas starting together on empty and old
databases, with faults. `AcceptedStarts` excepts `LeftToConstructors`, the settings
that only a constructor looks at. Deadlock is checked here: processes are started
again for ever. Fairness: the process and its orchestrator proceed, a handler
ends by its timeout, PostgreSQL serves an advisory lock in turn.

Proved in `Lifecycle_proofs` for any number of replicas, any servers and
databases, and every fault, from `LifecycleAssumption` and
`DeploymentsAssumption` (an environment gives every setting; the database of an earlier
version numbers the versions of all documents apart, or knows of no versions):

- `NothingLeaks` and `NothingClosedUnderUse`, from `ProcessInv`. At every stage of `run()`,
  whatever is open has a deferred call that closes it or belongs to the constructor
  that is running (`Covered`); what later stages use is open (`OpenedBy`); the calls
  that stop the workers are deferred last, so they run first (`Ordered`), and as
  long as one of them is pending nothing else is closed; a worker that runs is one
  such a call will stop, or one that outstayed its deadline (`Watched`); a handler that
  outlives the drain does too (`Answering`).
- `RowsSurvive` and `AcceptedStarts`, from `MigrationInv`. The rows of the database, and of
  the transaction under way, are those of the database there was (`Kin`); a replica
  that is at the n-th statement has the tables and columns of those before
  (`PostgresDone`, inside the transaction, whose holder has the lock; `SQLiteDone`, in
  the file); once the closing of the database is deferred all statements are done
  (`Migrated`), and stay done whatever another replica does. A constructor that
  refuses its settings therefore has a setting of `LeftToConstructors` to refuse:
  for every other one its bounds follow from those of `Admits`, one lemma for each
  group of settings.

## 13. Chunking, Retrieval

`Chunking` is `chunkText` with its boundaries and overlap, `Retrieval` a search: on
SQLite one read of all chunks and a ranking in Go, on PostgreSQL two queries whose
candidates are fused in Go. A score is abstracted to the order it puts chunks in;
the vectors may produce any order, the keyword channel scores exactly the chunks
that hold a word of the question, in any order. The fusion sorts by score, name and
ordinal; chunks that agree in all of them (two versions of a document, each found
by another query) may come in either order, as the sort of Go is not stable.

Run `Retrieval`: all texts of up to five runes over letter, heading mark, line break, space and
full stop, and up to eight runes over letter and space, with chunks of four runes and an
overlap of one; searches over two documents with five histories each, and one
upload or deletion at any moment of the search. The constant of the fusion (60)
and the number of candidates (50) are scaled to 1 and 2; what matters of them is
the assumption `Limit < rrfConstant + 2`, which both satisfy.

Proved in `Agent_proofs` for texts of any length with boundaries anywhere, any size
of chunk and overlap within `ChunkOptions`, and any number of documents and
changes: `EveryRuneIsIndexed`, `ServedWasCurrent` and `TwoChannelsFirst`. The recursion of
`ChunksFrom` is well founded because each cut goes on by a rune at least
(`CutGoesOn`); by induction from the end of the text there is such a function
(`CuttingEnds`), and it covers what is left of the text (`CutAndRest`). The inductive
invariant `SearchInv` says that whatever a search holds was read at one moment of it
(SQLite) or at one moment for each chunk (PostgreSQL), and that its results are a
ranking of that. `TwoChannelsFirst` comes down to `TwoOutweighOne`: the sum of two
shares is larger than a single one as long as no rank that counts exceeds the
constant by more than one, which `FusionAssumption` states and 50 and 60 satisfy.
`LibraryAssumption` says that the texts are sequences of runes and that stored
versions were cut up with the options there are.

## 14. What is proved, and what is only model-checked

Proved for all values of the constants: the results listed in `PROJECT.json`
under `theorems`, from the assumptions named in the modules. They state every
safety invariant, every action property and every refinement that a run checks.
Every inductive invariant was first checked by TLC on the bounds of its run.

Model-checked only is liveness (`AttemptsEnd`, both `JobsSettle`, `RequestsReturn`,
`SettlesUndisturbed`, `UploadsSettle`, `EverythingReturns`, `BusyEnds`,
`EveryReplicaServes`): the prover handles neither fairness nor ENABLED.

Induction is done by hand. The theorems of the library that take an operator cannot
be instantiated, but that finite sets are well founded by inclusion takes none
(`FS_StrictSubsetOrderingWellFounded`), and gives that any number of natural
numbers has a least one (`LeastNumber`); an induction then looks at the least number
for which a statement fails. Folds and sorts of the libraries stay out of reach, so
the model says what their results are: a ranking is any sequence of the chunks
found in which no two are the wrong way round.

The theorems without a run (`RowsAgree`, `SentIsRecorded`, `AtMostOneEffect`,
`ReferenceKept`, `AttemptHoldsLease`; `BudgetKept`, `CompletedTookEffect`,
`CompletedIsFinal`, `OneHandler`; `VerdictsAreFinal`) are the parts the refinements
rest on. `BurstAndRefill` is proved under its condition and violated without it.

## 15. Where the code and its documents disagree

Each of these was met while modelling; in a few it is two parts of the code, or the
code and what it answers, that disagree. The definitions named here are in the
modules, for whoever changes the code; no run asserts them, since they fail.

- **A second email** (`AtMostOneEffect` with `"liveExpiry"` in `Faults`). The lease is
  fixed at two minutes (`office/service.go:48`) and never renewed, while the tool
  calls of an attempt may take longer (`config/config.go:385`). A process that starts
  meanwhile fails the operation, and a second attempt creates and sends a second
  message. `docs/project-analysis.md:472` says that a retry should not produce a
  second external action. The same happens with `"overlap"`, two processes that
  recover at once.
- **An operation executing for ever.** Recovery runs once, at start-up, and lists
  only leases that have run out (`src/cmd/zora/main.go:189`). A process restarted
  within two minutes of a crash recovers nothing, and nothing else moves the
  operation. The comment above that line and `docs/roadmap.md:143` say otherwise.
- **A run running for ever** (`RunsSettle`, `CrashedRunsSettle`). `FinishRun` runs under
  the context of the request (`chat/service.go:810`, also `:874`); a browser that leaves
  just before it leaves the row running. `docs/architecture.md:55` promises the
  opposite. Nothing recovers the runs of a crashed process either, although
  `docs/technical-design.md:468` says they end cancelled or failed.
- **An approval pending for ever** (`ApprovalsLapse`). Between storing the approval and
  the select of `Wait` there are three exits that do not resolve it
  (`chat/service.go:533`); `approval/service.go:139` states the intent.
- **Interleaved turns** (`HistoryIsCurrent` with `"lock"` in `Faults`). If the pooled
  connection that carries the advisory lock breaks, PostgreSQL releases the lock
  and the holder is not told (`store/postgres/conversation_lock.go:26`, against the
  comment at `chat/service.go:375`).
- **An edit overwritten** (`EditsSurvive`). A capture that read a memory before the
  user edited it writes it back afterwards; the comment at `memory/service.go:138` and
  `docs/technical-design.md:1183` exclude that.
- **A document without a served version** (`SomeVersionIsServed`). Two deletions that
  overlap can each choose the other's row as successor or find it gone;
  `docs/technical-design.md:586` says deletion falls back to the greatest version. A
  deletion that overlaps an upload can leave two.
- **An upload that is never ingested.** A content hash names its job for good: upload,
  delete and upload again returns the completed job (`store/sqlite/background_jobs.go:17`).
- **Summaries on PostgreSQL** (`UpdatesSucceed` with `Store = "postgres"`).
  `GetConversationSummary` selects `updated_at` unqualified from a join of two tables
  that both have it (`store/postgres/summaries.go:18`), which PostgreSQL refuses as
  ambiguous, although `postgres_integration_test.go:53` expects a summary.
- **Two budgets** (`OneBudgetPerRun`). A revision gets an `executionState` of its own
  (`agentruntime/runtime.go:162`); `docs/technical-design.md:402` speaks of one per run.
- **A stop button for the wrong stream.** Two submissions before the first
  conversation exists both go through (`httpapi/web/app.js:1248`): busy is set only
  after the conversation was created. `docs/technical-design.md:1282` says the button
  becomes a stop button while an answer is generated.
- **Two limiters** (`BurstAndRefill`). That of the process drops a bucket after ten
  idle minutes at any rate (`security/security.go:359`), that of Redis after two
  filling times (`security/redis_limiter.go:54`). With a filling time above ten
  minutes, which `config.Load` admits, the former lets through more than burst and
  refills; section 9.
- **A logout that is none** (`LogoutEndsSession`). The answer is `logged_out: true` also
  when Redis did not delete the session (`authn/github.go:264`). The interview notes
  call this best effort, the user is not told; section 9.
- **Settings that `config.Load` accepts and a constructor refuses**
  (`LeftToConstructors`): an overlap of exactly half an odd chunk size, rounded down
  (101 and 50; `config/config.go:223` against the chunker); more than 2000 embedding
  dimensions on PostgreSQL, which the HNSW index refuses; CORS origins, proxy networks and
  the OTLP endpoint, which are only parsed there. A configured
  minimum score of 0 for message recall becomes 0.55 (`semantic/service.go:44`).
- **Extension and migration lock.** `CREATE EXTENSION vector` runs before the advisory
  lock that the comment at `store/postgres/postgres.go:111` relies on; a replica that
  loses that race fails and is started again.
- **Shutdown.** The listener's failure returns without draining handlers
  (`src/cmd/zora/main.go:558`); the drain and the deferred closings add up to
  more than the 120 seconds the deployment grants; a signal that arrives before
  `signal.Notify` kills the process as `Die` does.

## 16. Not modelled

Input guard (text matching), feedback (one upsert per message and source; no
step depends on another), the MCP servers and model adapters (I/O), recall of
memories and messages (numeric scoring), observability, the evaluation tools
(offline), deployment manifests. Of modelled components: submitting a rename and
the settings pages of the web client; run events, titles and feedback of a chat
run; SQLite's single-writer transactions where the PostgreSQL ones are modelled
statement by statement; the search of PostgreSQL filters the keyword channel by
words only, not by embedding model; string syntax of settings and secret files; of
the schema, indexes that are not unique, and the unique index over owner and content
hash (`store/postgres/schema.go:358`), whose creation older databases cannot refuse:
their hashes were unique over all owners (`:350`). A session that Redis stored although
its reply was lost (`authn/github.go:241`) is left out: nobody knows its identifier.
