# Universal Agent Studio in TLA+

This directory models the parts of Universal Agent Studio in which several
processes share rows, connections or time: the life of a run from the request
to its persisted trace, the streams that show it to browsers, the webhooks that
announce it, the drafts, versions and publications of agents, the public API
and its principals, the owner's session, and the editor in the browser. The
models are translated from the source under `src/`; `PROJECT.json` names, for every
definition, the lines it stands for.

Paths below are shortened: `api/` is
`apps/control-api/src/universal_agent_studio_api/`, `store/` is
`libs/python/platform_store/src/universal_agent_platform_store/`, `kernel/` is
`libs/python/agent_kernel/src/universal_agent_kernel/`, `runtime/` is
`workers/runtime/src/universal_agent_studio_runtime/`, `studio/` is
`apps/studio-web/src/` and `web/` is `apps/published-web/src/`.

- [1. The system](#1-the-system)
- [2. The modules](#2-the-modules)
- [3. The runs](#3-the-runs)
- [4. The proofs](#4-the-proofs)
- [5. Where code and documents disagree](#5-where-code-and-documents-disagree)
- [6. What is not modelled](#6-what-is-not-modelled)
- [7. Plan](#7-plan)

## 1. The system

Owners edit an agent (a JSON document, the AgentSpec) in the Studio, test the
draft, publish it as an immutable version, and move a traffic pointer between
versions. Visitors of a published app and holders of API keys start runs of the
version that has the traffic. A run is executed by a Temporal workflow on
runtime workers; everything that must be remembered is a PostgreSQL row.

```
 Studio ---------+                +--> Temporal server --> AgentRunWorkflow
                 v                |                              |
 published app -> control API ----+                       activity attempts
                 |   ^  SSE                                      |
                 v   |                                           v
               PostgreSQL rows  <---------------------------- kernel,
                 ^                                            finalizers
                 |
             webhook dispatchers (one in every runtime worker) --> receivers
```

| component | its state | its operations | what is hard |
|---|---|---|---|
| run persistence (`store/repositories/runs.py`, `runtime/activities/events.py`) | `runs`, `run_requests`, `run_events`, `run_traces`, `tool_invocations` | `create_idempotent`, `append_event`, `finalize_trace`, `invoke_calculator_once`, `list_events` | `append_event` takes any free sequence number and does not look at the status; only its writers' discipline keeps the log whole |
| run service (`api/runs/service.py`, `temporal_adapter.py`) | none of its own | `create_resolved_run`, `cancel_run`, `finalize_start_failure` | two requests with one key; a `start_run` that raises although it started the workflow; a cancellation that finds no workflow |
| workflow and activities (`runtime/workflows/run.py`, `activities/execution.py`) | workflow history in Temporal | `AgentRunWorkflow.run`, `execute_run`, `finalize_cancelled_run`, `finalize_failed_run` | retries, heartbeat timeouts and `TRY_CANCEL` leave attempts running that nobody waits for (zombies) next to the finalizer |
| agent kernel (`kernel/execution/graph.py`) | the list of events of one attempt | `AgentKernel.execute` | the order of its events and of the tool call |
| event streams (`api/runs/sse.py`, `api/publishing/public_service.py`) | a cursor per connection | `stream_run_events`, `PublicService.stream_events` | events and status are read by different queries |
| stream clients (`studio/features/runs/`, `web/lib/api.ts`, `web/components/PublicAgentApp.tsx`) | cursor, shown events, retry counters | `useRunEvents`, `createPublicTransport.events` | lost connections, streams that end early, reloads |
| webhook outbox (`store/repositories/webhooks.py`, `runtime/webhooks/dispatcher.py`) | `webhook_subscriptions`, `webhook_deliveries` | `enqueue_terminal`, `claim_due`, `_deliver`, `finish`, `revoke` | several dispatchers; a lease that a slow batch outlives; crashes with a claimed batch |
| publishing (`store/repositories/publishing.py`, `agents.py`, `api/publishing/service.py`) | `agent_versions`, `agent_active_versions`, `agent_publication_events` | `import_version`, `activate`, `publish_draft`, `rollback`, `get_state` | four kinds of locks; owners who act on pages that are minutes old |
| drafts (`store/repositories/drafts.py`, `api/agents/draft_service.py`) | `agent_drafts` with a revision | `create_from_active`, `update`, `preview_diff`, `create_test_run` | compare-and-swap against publications and test runs |
| browser editor (`studio/features/drafts/`) | spec, layout, revision, save status; the bulk panel with its candidate and diff | `reduceEditor`, save, preview, apply | answers that arrive after the owner has gone on; saves that overlap |
| public API (`api/publishing/public_service.py`, `principals.py`) | API keys; capabilities are signed, not stored | `get_agent`, `create_run`, `invoke`, `get_run`, `authorize_events` | one call is several transactions; traffic, keys and other calls move between them |
| owner sessions (`api/auth/`, `studio/lib/api/client.ts`) | `owners`, `sessions` with one CSRF token each; the cookie | bootstrap, login, authenticate, `rotate_csrf`, logout, `delete_workspace` | every write is two requests, and a page's token replaces another's |
| request guards (`api/main.py`) | a sliding window per client and path | `RequestGuardsMiddleware` | attempts at the edge of the window |
| contract validation (`kernel/contracts/`, `contracts/conformance/`) | none | `validate_agent_spec`, `validate_agent_draft`, trace invariants | the API, the contract and the kernel each have rules of their own |
| model providers (`kernel/models/`) | none | `generate` | timeouts, malformed answers |

What makes each of them correct is stated as the properties of its module
(section 3); `PROJECT.json` lists, under `hazards`, each place in the code where
one of them could break, with the property that would show it.

## 2. The modules

```
RunRecord            documents and rows of a run (no state)
  RunContract        abstract: what the rows promise to their readers
  RunLifecycle       API requests, canceller, workflow, attempts;
                     implements RunContract
    RunLifecycleProofs, MCRunLifecycle, MCRunApi, MCRunEnds
  RunWriters         any writers that keep RunContract (bounded)
    RunStream        stream_run_events + useRunEvents + trace panel
      RunStreamProofs, MCRunStream
    PublicStream     PublicService.stream_events + the published app
      PublicStreamProofs, MCPublicStream
WebhookOutbox        subscriptions, deliveries, dispatchers, time
  WebhookOutboxProofs, MCWebhookOutbox
Publishing           drafts, versions, pointer, ledger, locks, tabs
PublishingLocks      in which order the same transactions take their locks
  PublishingProofs, MCPublishing, MCPublishingLocks
RequestGuards        the middleware before every handler
  PublicRuns         calls of the public API, transaction by transaction
    PublicRunsProofs, MCPublicRuns
Sessions             owner, sessions, cookie, CSRF tokens, requests of a page
  DraftEditor        editor, bulk panel, their requests, the draft
    DraftEditorProofs, MCDraftEditor
AgentGraph           edits, validation, the kernel's walk
  AgentGraphProofs, MCAgentGraph
```

In all of them a database transaction is one atomic step, unless it takes locks
one after the other and another process can act in between (`Publishing`, and all of
`PublishingLocks`).
Definitions whose names begin with `M_` are deliberately broken variants of the
definition below them; they are used by nothing and exist to show that a
property notices that mistake.

### RunRecord, RunContract, RunLifecycle

`RunRecord` defines the documents: an event is its type and its writer, since
event ids and times are derived from the run, the sequence and the workflow's
start time, so that two attempts of an activity write the same bytes, while an
API request stamps its own clock. `KernelEvents` is the script
`AgentKernel.execute` follows for the graph the kernel accepts (input, agent,
output). `Deliveries` is what `enqueue_terminal` puts into the outbox, for the
subscriptions it finds at that moment: it looks for them each time a trace is stored,
also when the identical trace is there already.

`RunLifecycle` has one run and every process that touches it:

| variables | stand for |
|---|---|
| `status`, `durable`, `cancelFlag` | columns `status`, `durable_execution_id`, `cancel_requested` of `runs` |
| `log`, `trace`, `tool`, `outbox` | `run_events`, `run_traces`, `tool_invocations`, `webhook_deliveries` of the run |
| `sub` | the agent's `webhook_subscriptions`: not there yet, active, revoked |
| `api`, `canceller` | where each `create_resolved_run` and the `cancel_run` is between its calls |
| `wf`, `signal`, `act` | the workflow and its activities as the Temporal server sees them |
| `worker` | what each activity attempt is doing, wanted or not |

| actions | code |
|---|---|
| `CreateIdempotent`, `StartRun`, `StartRejected`, `RecordStartFailure`, `MarkDurable` | `create_resolved_run`, call by call |
| `StartLost` | `start_run` raises, with or without having started the workflow |
| `RequestCancel`, `Describe`, `SignalCancel`, `CancelRpcFails` | `cancel_run` |
| `WorkflowBegins`, `ExecutionDone`, `CancelExecution`, `FinalizerDone` | `AgentRunWorkflow.run` |
| `StartAttempt`, `AttemptLost`, `AttemptReports` | the retry policy; a lost attempt goes on as a zombie or is dead |
| `EmitEvent`, `InvokeTool`, `SaveTrace`, `ExecConflicts` | `execute_run` with the kernel and its persistent ports |
| `ListEvents`, `AppendStarted`, `AppendTerminal`, `FinalizeRun`, `FinalizerConflicts` | `_finalize_terminal_run` |
| `Subscribe`, `Revoke` | the owner's webhooks, at any time |

`RunContract` is the abstraction that the readers are checked against. It is
weaker than the documents claim on one point, on purpose: it allows terminal
events after a terminal event, because the code does (section 5). `Deliver` is the
delivery that a repeated `finalize_trace` adds to a settled run.

### RunWriters, RunStream, PublicStream

The readers do not care who writes, so they are composed with `RunContract`
itself instead of with `RunLifecycle`: `RunWriters` is any step that
`RunContract` allows, of a log short enough to explore. `RunLifecycle`
implements `RunContract`, so what holds for all such writers holds for ours.

`RunStream` has the generator behind the connection (`conn`), what is on its way
(`wire`) and the page (`page`: `useRunEvents`, then the trace panel with its
repeated loads). `ListEvents` and `ReadStatus` are separate steps because they
are separate queries. `PublicStream` has the same shape, with the run's row read
by a third query (`RefreshRun`), from which the output of the terminal event is
taken, and the page's three connections with a `get_run` after each.

### WebhookOutbox

Rows keep the seconds until `next_attempt_at`, dispatchers the seconds since the
claim whose time stamp they use for the whole batch; `Tick` lets a second pass.
`ClaimDue`, `RefuseOrigin`, `Send`, `RequestLost` and `Finish` are the
dispatcher, with `Fenced` the condition under which `finish` may write; `Crash`
forgets a batch. `requests` is a history variable: which attempts have reached
the receiver, and its answers. `EnqueueTerminal` is also part of the settling
transaction of `RunLifecycle`; here it is the source of rows.

### Publishing

Agents that share one public agent key, each in a project of its own. A tab
reads the draft and the pointer (two statements), waits, and sends a request
that carries what it read. `publish_draft` is modelled lock by lock (`LockAgent`,
`LockDraft`, `ClaimKey`, `Publish`), `import_version` between its numbering and
its insert (`Number`, `Insert`), because these two number versions under
different locks. The lock-free checks of `Insertable` are the unique constraints
of `agent_versions`. `saved[a]` keeps every draft there has been, so that a
provenance can be compared with the revision it names; the code keeps the last.
`activate`, `rollback` and `update` hold one lock from their first statement to
the commit and are one step each. `rollback` needs a draft although its
repository does not look at one: the answer of the service is built inside the
transaction and is an error without a draft.

### PublishingLocks

What `Publishing` takes as one step waits for locks in several places. Here a
transaction is nothing but the order of its waits: the advisory locks, the rows it
selects for update, and the unique keys it inserts, which make another insertion of
the same key wait until the first has committed (`ImportOrder`, `ActivateOrder`,
`CreateOrder`, `UpdateOrder`, `PublishOrder`, `RollbackOrder`; the comments of the
module say what each name is). Everything is kept until the end, and a lock that is
held already is given again, as PostgreSQL does. `rows` are the drafts and pointers
that exist: a row that is not there blocks nobody (`TakesNothing`). `Leave` is a
transaction that a check refuses. The share locks on the rows that foreign keys name
are left out, since only the deletion of a workspace waits for them.

### RequestGuards, PublicRuns

`RequestGuards` keeps all times at which a bucket let a request through, and
where its deque begins in them (`head`): so a property can speak of any window,
not only of the one the deque still holds. `Front` is the cleaning loop.

`PublicRuns` extends it. A call goes through the places where the code commits:
`Arrive` (guards), `Authenticate` (only `invoke` with a bearer, `get_run`,
`authorize_events`), `Resolve`, `Principal`, `CreateRow`, `StartExecution`,
`View`, then for `invoke` the loop of `Poll` and `PollRead`, for the reading
calls `ReadRun`. Between any two of them `Publish`, `Activate`, `Rollback`,
`CreateKey`, `RevokeKey`, `Tick`, `RunGoes` and other calls may act. What is
behind `start_run` is `RunLifecycle`; here a run is its status and whether its
execution was started. `dead` remembers that a call came with a bearer that was
dead on arrival, `made` that it inserted its run.

### Sessions, DraftEditor

`Sessions` has the rows of owners and sessions, the cookie, and one request per
client. A write is two requests (`AuthenticateSession`, `RotateCsrf`; `Send`;
`AuthenticateWrite`, then the work), because `client.ts` asks for a fresh CSRF
token before each. The token of a session is the client that got it last.
`DraftEditor` extends it: `tab` is `DraftEditorState` with the bulk panel, `job`
what a request has submitted, `draft` all revisions of the draft, `made` what the
user has made, kept apart from the editor so that the two can be compared. What he
previewed and applied he has made; what he edits while the change is under way
he has made too, and when the answer replaces it, `made` keeps it and notes that it
was `overtaken` (`MadeByAnswer`), until the page is loaded anew. `over`, in a job, is
the spec the editor had when the request was sent. Specs
and layouts are numbers in the order they are made. `MovedOn` is the comparison
`save-succeeded` makes; `Panel` is the effect of the React key by which the bulk
panel is another one for another revision. Three simplifications: a lost answer
comes before the next request of that tab, so a save whose connection broke does
not commit later; a page is reloaded only when it has nothing in flight; a panel
that was replaced while its preview is on the way waits for that answer before it
previews again. `create_from_active` is one step without its session requests.
The module starts with nobody set up and no page loaded; `MCDraftEditor` starts
four stories later, where a client that a story does without is `closed`.

### AgentGraph

Any `MaxChanges` edits of some agents, then `validate_agent_spec` and
`_execution_path` step by step. The draft service's and the contract's rules are
translated separately (`SaveIssues`, `DraftIssues`): they state the layout's
differently, and the service alone asks that the AgentSpec carry the id of the agent
whose draft it is (`agent_id_mismatch`). The contract knows no such id, so a spec of
another agent is valid there and refused here; `VerdictsAgree` says that this is the
only difference. `IsChain` is the
reference definition the walk is compared with. `AgentSpecs` is what the schema
says of a document before any of them looks at it: sequences of nodes and edges, a
model with a profile and a tool with a manifest. `AgentsAssumption` asks it of the
agents an edit begins with; edits keep it. `Names` are the names profiles and tools
can have, "absent" for none. `EdgesFrom` is an entry of the kernel's `next_by_id`.

## 3. The runs

Every passing run explores its whole bounded state space. The bounds are
constants of the modules and appear in guards.

| run | what is explored | what it shows |
|---|---|---|
| `run_api` | two stories: two requests with one key, one cancellation, one attempt of each activity, all faults; one request, two attempts of each finalizer, all faults, and a webhook that is subscribed and revoked at any time | the log has no hole; a reported start failure is final and nothing was executed; the processes implement `RunContract`; status and trace are final; a delivery is never withdrawn or rewritten; each subscription gets one at most, of the run's outcome; who listens when the run is settled is told, and what is added later goes to one that came since |
| `run_recovery` | one request, two attempts of `execute_run`, one of each finalizer, zombies, all faults | status, trace and log agree; the tool yields one result; nothing is executed after a terminal event; a completed run was executed in full; a recorded activity success is a settled run; a started workflow closes; without faults every run settles |
| `stream_watch` | logs of up to 4 events, up to 2 losses or reloads and 2 connections that run out of polls, a page that gives up after 2 | the page shows a prefix of the log; on a settled run it finishes, or it gives up after that many connections |
| `public_watch` | logs of up to 4 events, a loss, connections that run out | the app shows no outcome the run does not have; events arrive in order and once; it finishes |
| `webhook_outbox` | two subscriptions, one whose origin is no longer allowed, two dispatchers, lease 2, two attempts, one crash or lapse | the lease excludes; a row is settled for a reason and stays settled; attempts are paid for; every delivery is settled |
| `publishing` | two agents of one key, one of them imported, two documents, two tabs, two saves, two versions, two ledger rows; in a second story (`PublishingLocks`) three transactions of six kinds on the two agents | numbering, provenance, ledger, key claim, no stale write; transactions never wait for each other in a circle |
| `public_calls` | two calls, 11 kinds of requests, three agents (two of one name), four keys with different scopes, projects and lives, one move of an owner, a limit of one | the window holds; one run per idempotency key; nobody is given another agent's run; a dead bearer opens nothing; a refused client leaves no run; every call is answered |
| `studio_tabs` | four stories of one browser: two tabs, one of which previews; one tab that saves twice at once; an editor and a page that deletes the workspace and sets it up anew; a login against a deletion. Two sessions, one expires; a request is lost | sessions are owned; no work is lost in the editor, save to a bulk change edited beside; what is applied was previewed; no save stays locked |
| `agent_graph` | every agent two edits away from the example agent or from one with a loop | the service saves what the contract calls valid and is the draft's own agent's; no lookup of the kernel fails, the walk ends and accepts the chains only |
| `run_two_terminals`, `run_lost_cancel`, `public_route` | | counterexamples, section 5 |

Why these bounds are enough to be interesting:

- Two attempts of `execute_run` are what it takes for a zombie and its successor;
  a third adds another zombie of the same kind. One finalizer attempt of each
  activity next to them already races both; the second story of `run_api` repeats
  the finalizers, which is how a trace is stored twice with a subscription in
  between. `run_recovery` has one request and no webhook. The proofs are for every number of
  requests, attempts and subscriptions.
- `MaxErrors` is 2 in `stream_watch` (8 in the code), so that the page does give up
  within the bounds: after two lost or quiet connections and a third that fails.
- Three transactions can close a circle of three. A longer one needs no more kinds of
  locks, and `NoCircleOfLocks` is for any number.
- Four events are `run.started`, one progress event and two terminal ones, the
  shape in which terminal events are doubled. The readers treat all progress
  events alike.
- A lease of two seconds with back-off delays of two and four (code: 30 and up to
  64) keeps what matters: a back-off may be shorter or longer than the lease.
- In `publishing`, bounds count over both agents, so that one agent may get all
  saves, imports and ledger rows. Two documents are enough for a publication and
  an import that take the same number with different documents, and for two that
  take the same document. One agent begins with an imported document, as three
  steps lead to; the other begins with nothing.
- In `public_calls` two calls are a call and its repetition, a creation and a
  reading, or two visitors; a1 has been published twice when they come, so that a
  rollback and a publication can both move its traffic. A limit of one and a window
  of one second make the second call the one at the edge.
- In `studio_tabs` the four stories have their own initial states in one run.
  Two edits are a save and an edit after it, or a save and a preview. Three
  revisions are two saves.
- Two edits of a graph are enough to take something away and use it, to give two
  nodes one id and connect them, or to close a loop and cut it elsewhere.

Fairness:

- `RunLifecycle!FairSpec`: workflow tasks and activity tasks are dispatched as
  long as a worker polls (weak fairness of the workflow and of `StartAttempt`),
  and an attempt the server waits for either acts or is lost, since
  `execute_run` and the finalizers have timeouts. Nothing is assumed of API
  requests, of the canceller, or of zombies.
- `CalmRunSettles` (in `run_recovery`): if no fault happens and all processes go on, zombies
  included; an attempt that is still running in a healthy worker finishes.
- `RunStream` and `PublicStream`: server and page go on; nobody has to write and
  nothing has to fail.
- `WebhookOutbox`: time passes and dispatcher loops go on, as `WebhookDispatcher.run`
  does until its worker stops. Crashes and lapsed leases are finite.
- `PublicRuns`: handlers go on and time passes. A run need never end.
- `DraftEditor`: a request of an editor goes on and its answer is handled. Pages
  that log in or delete need not go on.

`Publishing`, `PublishingLocks` and `AgentGraph` are checked for safety only and assume
no fairness.

Deadlock is not checked (`CHECK_DEADLOCK FALSE`) where the system may stop: a
settled run, bounded retries, calls and clients that are done, a checked graph. `publishing` and
`public_route` check it, since a tab can always be opened, and since of the
transactions that wait for locks one can always go on.

## 4. The proofs

Eight modules hold lemmas and theorems that `tlapm` checks for all values of the constants,
under the assumptions named in the modules (positive numbers of attempts, an
identifier for the worker that is no request's, and the like). Each rests on an
inductive invariant, of which the proof shows that it holds initially, that every
step keeps it, and that it implies the properties.

**RunLifecycleProofs.** `LogContiguous`, `StatusAgreesWithTrace`, `ToolResultOnce`
and `OutboxAgrees` are not inductive: whether an append leaves a hole depends on
what its writer believes about the log. `IInv` adds, for every attempt, what its
program counter says about the log: a kernel attempt has stored its own script up
to its next event (`KernelAttempt`), a finalizer remembers a prefix of the log
that ends where it listed (`FinalizerAttempt`). The step that is hard to see is
that two finalizers of different outcomes would break `StatusAgreesWithTrace`;
`OneFinalizer` excludes it, because the workflow chooses between them once.
The theorems hold for any number of requests and attempts and any subscriptions.

The second half is about how runs end: what a reported success, a completed run, a
start failure and a terminal event say of the rows. `EndsInv` is inductive relative to `IInv`. It
relates the two sides that can drift apart: what an attempt is about to report to
Temporal and what it has committed (`ReportsAreStored`); a start failure that is
written in one transaction, and what an attempt finds when its workflow did start
(`StartFailureIsWhole`). For `NothingAfterTerminal` it says where a terminal event
comes from (`TerminalsHaveOrigin`) and that a finalizer which appends saw another
event at the end (`FinalizersContinue`): the kernel is stopped by the conflict on
its next number, and of a second finalizer there is none.

With both invariants, `RunLifecycle` implements `RunContract`, under the mapping
that gives the contract the rows of the run. The proof goes through the
transactions that write rows (`RowSteps`). One that finds its own document there
already (a retried append, a second `save_trace`) changes nothing and is a
stutter; every other one is a step of the contract, whose guard follows from
`IInv` and `EndsInv`.

**RunStreamProofs.** Whoever writes within `RunContract`, the log stays without a
hole and keeps its events (`LogStep`). The writers of `RunWriters` are bounded for
TLC; `AllWritersAreWatched` says that with the bounds at their largest they are all
writers that keep `RunContract`, so that what is proved of the streams covers the
writers of `RunLifecycle`. `ShownIsPrefix` then needs that page, wire and server cursor are
consecutive stretches of the log, and that no sequence number is acknowledged that
is not in it (`RunStream!WireContinues`).

**PublicStreamProofs.** Besides the log's, it needs that an outcome is final and has
its event in the log (`StatusStep`). The published app mixes three sources: the type of an event,
the row as a connection last read it, and the row as the page asks for it.
`OutcomeIsRecorded` follows because each of them is true when it is read and stays
true (`ReadsAreRecorded`), and because only a page that reads has a connection
(`OneConnection`), so that no frame of an older one is heard.

**WebhookOutboxProofs.** The argument for `LeaseExcludes` is about time:
what is left of a row's lease plus the age of the claim is at least the lease
(`Held`). It gives that a row can be claimed again only when its holder is
overdue, so that the fence in `finish` keeps the late answer out
(`SettledForAReason`, `SettledIsFinal`). `AttemptsArePaid` needs a second
invariant, `PaidInv`: a row that is being delivered has attempts left, or a
dispatcher that still has time to record the last one (`InTime`), and when that
time is over a mishap is counted.

**PublishingProofs.** `IInv` says what a request may rely on between its locks
(`Sound`): from the row lock on, the draft is the one it compared; from the key
lock on, the pointer is the one it read and no other project has published. The
numbering holds although a publication and an import may have chosen the same
number: the number is the next one or taken, and `Insertable` refuses a taken one.
From it follow the numbering, true provenances, the ledger as a chain that ends
in the pointer, the single publisher, and that no stale write wins.
`NoCircleOfLocks`, about `PublishingLocks`, gives every lock a rank. Each of the six
orders climbs in rank, and a transaction holds only locks below the one it comes to. So
in any group of transactions one that waits for a lock of the highest rank waits for
a transaction that does not wait for the group.

**PublicRunsProofs.** The rate limiter first, by itself, for any requests
(`LimiterHolds`): every attempt before the head of the deque has expired
(`DequeIsRecent`), and there is always a place where the cleaned deque begins
(`FrontIsThere`), so that an attempt which is let through lies a whole window
behind the one that is `Limit` earlier. `PublicRuns` takes steps of the limiter or
leaves it alone, and inherits the bound. The calls rest on `CallsInv`: what a call
in each of its places has passed (`CallOK`), and what it may rely on although the
route, the keys, the clock and other calls move between its transactions. What
they never take back is one relation of two states (`Grown`): runs keep their
agent, input and version, a dead bearer stays dead, an idempotency key keeps its
run. It is shown once for all actions of others, so that each action of a call is
looked at for that call only.

**DraftEditorProofs.** The sessions first: `SessionsAreOwned` holds because numbers
of owners are never given twice and a deletion takes the sessions with it, while a
login that has checked its password inserts a session only for an owner that still
exists (`SessionInv`). The editor then needs to know what a late answer can still
say. `SavedIsThere`: what a save is answered is in the draft at its revision, unless
the draft is another owner's by now, and `Known`: then that owner never comes back.
`DiffsAreTrue`: a diff in a panel or in a request is of its candidate against its
revision. The proof looks at each step for the draft, the tabs and the requests
apart; what a step may do to the draft is one relation (`DraftMoves`): it grows, or
its owner is gone for good. `EditorKeepsWork` is about every tab, also one whose
owner was deleted. Its first half says nothing of a tab from when a bulk change is
answered that was edited beside (`made[t].overtaken`) until the page is loaded
anew; there the code loses work (section 5). Its second half has no such exception, and
is about a tab whose owner still has the draft.

**AgentGraphProofs.** For AgentSpecs of any length and any number of edits. What
the API saves and what the contract calls valid is compared in one lemma
(`SavedIsValid`): they differ by the agent's id, and in nothing else, since a layout without repetition, counted as a set, is one in which no id was seen before.
The walk needs `PathIsWalk`: from the one input on, the path is where edges lead
that leave no choice. `NeverTwice` bounds it by the number of nodes, so it ends.
Its verdict has two directions. A walk that ends after the four kinds and has been
to every node has seen every edge, because the edges of a valid graph start at its
nodes: so the graph is a chain (`SupportedIsChain`). Of a chain the walk takes each
node in turn (`WalkOfChain`), so it is never refused. `by_id`, `next_by_id` and the
lookups of profile and tool do not fail, since validation has seen the references.

Every safety property that a run checks is proved. Only model-checked are the
liveness properties (`WorkflowCloses`, `CalmRunSettles`, `EveryWatcherFinishes`,
`PublicFinishes`, `EveryDeliverySettles`, `CallsAreAnswered`, `SavesEnd`), which are
beyond the prover: it reasons neither about fairness nor about ENABLED. The three
counterexamples of section 5 are TLC's as well.

## 5. Where code and documents disagree

The first three have a run that shows them.

1. `run_two_terminals`: a cancellation handled after the kernel stored
   `run.completed`, before its activity has returned, appends `run.cancelled`
   behind it. The slice-1 design (:601) excludes two terminal events.
2. `run_lost_cancel`: a run cancelled between the creation of its row and
   `start_run` has `cancel_requested` set, which nothing reads; it executes and
   completes (`docs/acceptance/SLICE_1_EXECUTABLE_SPINE.md:155`).
3. `public_route`: `rollback` writes a ledger row without claiming the public key,
   also for an agent that was never published, so that two projects share a route
   and both get 404 (`docs/acceptance/evidence/SLICE_3.md:59`).

Met while modelling, without a run:

- Connections of `useRunEvents` that end without an event count as failed, without the
  limit being looked at (`useRunEvents.ts:189`); after eight of them a single lost one
  ends the watch, though the run has ended or will
  (`docs/acceptance/SLICE_1_EXECUTABLE_SPINE.md:160`: never a missing terminal result
  after retry). `EveryWatcherFinishes` allows it, from that many connections on.
- A canvas event that was begun before a bulk change is applied unlocks the editor while
  the change is in flight; its answer replaces the editor (`editor-state.ts:79`,
  `DraftWorkspace.tsx:459`), so what was edited meanwhile is lost, and the editor says
  it is saved. The test `studio-web/tests/draft-editor-state.test.ts:100`, "save success
  preserves edits made after the request started", looks at ordinary saves only.
  `EditorKeepsWork` excepts it.
- The public stream can send `run.completed` with the row as it was before the run
  was settled (`public_service.py:572`): completed, without the result
  (`docs/acceptance/SLICE_3_PUBLISHING_VERSIONS.md:34`). `PublicStream` has the
  behaviour.
- A public run repeated with its idempotency key after a publication carries
  another version and is refused as a reuse of the key (`public_service.py:366`
  against `docs/acceptance/SLICE_3_PUBLISHING_VERSIONS.md:92`). `OneRunPerKey` says
  what does hold: it never gets another run.
- A subscription created between two stores of the same trace gets a delivery of a run
  that had ended before it (`events.py:97`, `webhooks.py:189`). `TerminalIsFinal` allows
  it and nothing more.
- A subscription revoked after its delivery was claimed still gets the request
  (`dispatcher.py:283`; `docs/acceptance/SLICE_3_PUBLISHING_VERSIONS.md:111` has it
  checked before every attempt). `WebhookOutbox` has the behaviour.
- A claim whose dispatcher died is not counted against the limit: a sixth attempt
  is possible. `AttemptsArePaid` says exactly how many.
- `stream_run_events` can close before it has sent the terminal event, where the
  slice-1 design (:448) has it close after. The page reconnects (`stream_watch`).
- The draft console loads the trace once, and can miss one stored a moment later.
- `SECURITY.md:176` and `docs/CONTRACTS.md:186` have rollback compare the draft's
  revision too; `RollbackRequest` carries the pointer only.
- `get_state` reads versions and events by two statements and looks the event's
  version up in a dictionary: a publication in between is a 500 for a reader.
- A canvas event that was begun before a save unlocks the editor while the save is
  in flight (`DraftWorkspace.tsx:419`), so that a second save can be sent beside it;
  the loser is answered a conflict although one owner works alone. Between two
  ordinary saves no work is lost (`EditorKeepsWork`).
- A page left open while the workspace was deleted and set up anew keeps its spec
  and its revision number. If the new owner's draft has reached that number, the
  page saves the old spec over it. `EditorKeepsWork` is about the owner it read.
- The deques of `_attempts` (`main.py:75`) are emptied but never removed: one stays
  for every client host there has been.

## 6. What is not modelled

- Documents. Inputs, outputs, prompts, traces and the fields of an AgentSpec that
  the graph rules do not look at are data; a digest stands for its document. JSON
  Schema, canonical JSON, secret detection and `validate_run_trace` are pure
  functions over such documents, and so are `_diff_documents` and the TypeScript
  copies of the rules. What they compute is left to the repository's conformance
  tests; a model of them would be a second copy.
- Several runs at once: `RunLifecycle` has one. What relates runs is the idempotency
  key (`PublicRuns`, where a run is its status) and the dispatcher's batches
  (`WebhookOutbox`).
- Wire formats, heartbeats, logging, signing, hashing, password verification, HTTP,
  the model providers' clients, rendering, routing and forms of both web apps.
- The database's own failures beyond a transaction that does not happen.
- The lengths of pauses in browsers: a back-off is an arbitrary pause.
- `delete_workspace` against runs that are in flight: it removes every row of the
  workspace by cascade. It is modelled for owners, sessions and the draft
  (`Sessions`, `DraftEditor`), not for runs, versions and deliveries.
- Migrations: the constraints they create are guards of the transactions. The DDL
  does not move while the program runs.

## 7. Plan

All groups of the first plan exist: runs, webhooks, streams, publishing, public
calls, sessions and the editor, request guards, graphs. What a next step would add,
in this order:

1. `delete_workspace` next to a run that executes: attempts that find their rows gone.
2. The test console of the studio on `RunStream`, with its single load of the trace.
3. `mergeRunEvents` and `_diff_documents` as functions against reference definitions.
