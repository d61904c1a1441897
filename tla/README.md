# Verification of Yue Core

Yue Core is an asyncio process that talks with a model on behalf of a user, runs the tools the
model asks for under a permission policy, keeps durable conversations and agent runs in SQLite, and
serves a desktop client over JSON lines. This directory holds TLA+ models of it, the TLC
configurations that check them on small instances, and TLAPS proofs for every value of the
constants. `PROJECT.json` maps each definition to the source lines it stands for and lists runs,
mutants, hazards, findings and theorems.

## Inventory

| Component | State | Operations | Meets |
|---|---|---|---|
| conversation orchestrator (`conversation.py`) | `_runs`, one lock per conversation, `_accepting` | send, resume_run, cancel, shutdown | store, providers, tools, events |
| conversation store (`conversation.py`) | the ordered messages of each conversation (SQLite) | create, append, messages | written in worker threads, survives crashes |
| agent runs (`app.py`, `agent_runs.py`) | one record per run: status, references, checklist, plan, error | start, resume, verification, checklist, reconciliation | orchestrator, store, event bus |
| resume analysis (`agent_run_resume.py`) | none | three questions about the log of a run | agent runs |
| tool executor (`tools.py`) | registry, `_cancel_events` | execute_many, execute, cancel | permissions, events, audit |
| permission engine (`permissions.py`) | grants per session, `allow_all_cmd`, rules, profile | evaluate, explicit approval, set and revoke grants | approval bridge |
| approval bridge (`approval_bridge.py`) | pending approvals and their futures | request, list, respond, shutdown | transport, run record |
| run references, tool activity (`app.py`, `tool_activity.py`) | references in the record; a bounded list of calls | fold events | event bus |
| event bus (`events.py`) | handlers; bounded queues of streams | publish, subscribe, stream | every component; handlers run in the publisher's task |
| transport (`transport.py`) | requests in progress | one task per line of input, events out | the core's whole interface |
| desktop bridge (`bridge.rs`, `main.rs`) | child process, pending responses, event queue, one mutex | request, drain, shutdown | transport, desktop |
| core lifecycle (`app.py`) | `_started`, services, provider routes | start, stop, reload of plugins with rollback | all |
| plugins, services, providers | loaded plugins and what they registered | load, start, stop | lifecycle |
| shell sessions (`shell_sessions.py`) | processes by session id | start, read, stop, stop_all | tools, lifecycle |
| context window (`context_window.py`) | none | bounds tools and history for a request | orchestrator |
| desktop (`desktop.py`, `state.js`, `app.js`) | attached sessions; the view folded from events | attach, detach, command; reducers | bridge |

What is hard here: everything runs as tasks of one loop that may be interleaved at each `await`; a
cancellation may arrive at any of them and an append it meets goes on in its worker thread; the
process may die between two durable writes; approvals have no timeout; a cancellation inside a tool
becomes a result; a bridge with a mutex and a timeout stands between the client and all of this.

What makes each part correct:

- *runs and conversations*: a side effect is never unaccounted for or blindly repeated after a crash;
  a completed run is whole; a terminal status is final; turns of a conversation are serial; every
  record settles.
- *executor, permissions, approvals*: what runs was permitted, by a grant in scope, once where the
  grant says once, or by the user's answer to that very call; an answer is final; calls and stop end.
- *references and activity*: nothing recorded is lost or attributed to another run.
- *transport and bridge*: one response per request, no wait on an answer that can no longer come, no
  event lost that the client cannot read again.
- *lifecycle*: start, stop, restart and failed reload leave the same services and no stray handlers.
- *context window*: what is sent fits the budgets and keeps tool exchanges whole.

## Modules

| Module | Models | Checked by | Proofs |
|---|---|---|---|
| `RunContract` | what an agent run promises | `agent_runs` | - |
| `AgentRuns` | the durable run, its loop and log, crash, cancel, resume | `agent_runs`, `agent_runs_shared`, `reused_ids`, `two_resumes`, `partial_history` | `AgentRunsProofs`, `AgentRunsContract` |
| `ToolCalls` | batches, permission, approvals, cancellation, stop | `tool_calls`, `tool_calls_end`, `stop_waits` | `ToolCallsProofs` |
| `RunRecord` | what the events of a batch leave in the record and in the activity list | `run_record` | `RunRecordProofs` |
| `BridgeContract` | what the desktop is promised of a request | `bridge` | - |
| `Bridge` | the Rust bridge, the pipes and the JSON-lines server | `bridge` | `BridgeProofs` |
| `CoreLifecycle` | start, stop, reload with rollback, plugins, settings file, shell sessions | `lifecycle` | `CoreLifecycleProofs` |
| `ContextWindow` | what of log and catalog a model is sent | `context_window` | `ContextWindowProofs` |
| `Induction` | nothing of the code: induction for sets of numbers, for the proofs | - | itself |

Each `MC` module gives the constants of the module it is named for.

The modules meet at these points. `AgentRuns` takes a batch as calls one after the other and an
approval as a wait; `ToolCalls` opens both and takes a run as its last batch. `RunRecord` takes the
events `ToolCalls` publishes, in its order, as one topic per call. `Bridge` takes what handlers do as
events and an answer, and gives `CoreLifecycle` the fact that settings updates come one at a time
(`OneRequestAtATime`, which is proved). `CoreLifecycle` begins a stop where `ToolCalls` ends one.
`ContextWindow` takes logs as `AgentRuns` writes them, with exchanges that were never completed.

Still to do: the desktop's reducers over a stream with gaps;
a `send` that races `shutdown`.

## AgentRuns

One task is one request the loop serves; its `pc` names the await it is suspended at, and an action
is all the code does up to the next one. `run` (the records) and `log` (the messages of each
conversation, in order) are durable; `task`, `active` (the orchestrator's `_runs`), `holder` (the
locks) and `inflight` (appends a worker thread still performs for a cancelled task) die with the
process. `Crash`, `Boot`, `Reconcile` and `Ready` are the death of the process and
`YueCore.start` up to the moment it serves. `gens` and `executed` are histories: how often the model
was asked, and which calls may have had their effect.

A run is `StartRun` or `ChatSend`, then `Enter`, `Acquire` (the lock), `AppendInput`, and per
generation `Generate`, `AppendAssistant`, one `BeginCall`, `RefuseCall` or `AskApproval` per call,
`EndCall`, and `AppendResult` for all of them; then `Outcome` or `Finish` write the status. A resume
is `ResumeRead`, `Analyze` (the three questions of `agent_run_resume.py`), `MarkResumed`, and the
loop again. `CancelWaiting`, `CancelWriting`, `CancelTool` and `NoticeCancel` are the four ways a
cancellation is met: at an await that ends, at an append that goes on (`Land`), inside a tool, which
turns it into a result, and at the loop's own test.

Abstractions: texts are equal or not; writes of the record and of the audit log succeed and are
atomic; the calls of a batch are executed one after the other (parallel batches are in
`ToolCalls`); a client gives each request its own run id; cancellations between a tool's end and the
append of its result are the ones of `CancelWaiting` and `CancelWriting`.

`RunContract` says what a run promises: begun once, interrupted and resumed, ended for good, and
neither asked on nor resumed while an effect is unresolved. `AgentRuns` implements it with the
status as phase, generations as rounds, and the executed calls without a durable result as
unresolved effects.

### Runs

| Run | Shows |
|---|---|
| `agent_runs` | `TypeOK`, `ExecutedWasRequested`, `NoBlindReplay`, `CompletedRunIsWhole`, `LiveRunIsActive`, the inductive `Inv`, `TerminalIsFinal` and `ImplementsContract` for one run, two generations with up to two calls, two crashes and two resumes. |
| `agent_runs_shared` | `InputExactlyOnce`, `SerializedPerConversation` and, under fairness, `RunsSettle` for a run and a chat turn of one conversation, with equal texts so that the fallback on the request's text applies. |
| `reused_ids` | violation: ids that repeat hide a call without a result. |
| `two_resumes` | violation: the loser of two resumes interrupts the record of a live run. |
| `partial_history` | violation: a cancelled run leaves a partial tool exchange to the next turn. |

Bounds. One generation with calls and the last without is the shortest run that reaches each branch
of the loop (`MaxIterations` = 1 gives both and the limit); two calls are needed for a batch that is
half done; a second crash and resume are needed to meet what the first resume wrote. Two tasks are
enough for one to hold what the other needs, as runs only meet in a conversation's lock and in their
own record. `reused_ids` needs `MaxIterations` = 2, as the id must repeat within one run.

Fairness. `Progress(t)` is weakly fair: the loop's tasks run whenever they can, providers and tools
have timeouts, and `asyncio.Lock` is first come first served; `Boot`, `Ready` and `Reconcile` are the
start of a core that somebody restarts. Answers to approvals are not fair, so `RunsSettle` allows a
run that waits for one; crashes and cancellations are not fair either.

### Proofs

`AgentRunsProofs` proves `TypeOK` for all constants, and the safety properties for any number of
runs, tasks, conversations, generations, calls, resumes and crashes, under `Discipline`: providers do not repeat ids within a run, a client does not resume a run it is resuming,
and verification is reported only of an active run. The code does not enforce these three, and the
runs `reused_ids` and `two_resumes` show that the first two are needed; the third excludes the
verification that reopens a record (see Findings).

None of the properties is inductive. `Inv` adds `Ownership` (a run is used by one task; `_runs`, the
locks, the tasks' pcs and the records agree) and `LogInv` (what the log must already hold at each
pc, for tasks and for records that no task serves, and which messages are still in flight). The
steps are proved once per action; lemmas on appending (`MessagesAppended`, `LogAppend`) and leaving
(`LogLeft`, `OwnershipLeft`) carry most of it.

`AgentRunsContract` proves two more, again under `Discipline`. `ContractImplemented` is the
refinement of `RunContract`: from `Inv`, each action moves the mapped state of at most one run
(`PhaseMoves`, `EffectsMove`) and is a step of the contract or a stutter. `Generate` is `Ask` and
`MarkResumed` is `Resume`, and both need from `Inv` that every call of the run is answered; a call that
begins or is approved is `Effect`, a result that becomes durable `Settle`, a write of the status a
change of phase, and all the rest stutters.
`InputIsOnce` has an invariant of its own, `InputInv`: a task that will still append its request (`Owes`)
belongs to a run without one in the log or in flight, and a task past that point, or one whose resume
found the request by its text (`Relies`), has it there. `RunsSettle` is only model-checked, as liveness is
out of the prover's reach.

## ToolCalls

A batch is one `execute_many`, made by a run's loop (`RunBatches`, which a cancellation reaches) or
by a client; it is sequential, or parallel by `gather`. A call goes from `request` through the
decision (`AllowShell`, `AllowByGrant`, `DecideByPolicy`, or `Ask`, `Listen`, `Hear` for an
approval) to `Refuse`, or to `Start`, `Launch`, `EndTool` or `TimeOut`, and `Finish`. `pending` and
`answer` are the approval table and its futures, `grants` and `shellGrant` the grant store,
`cancelable` the table `_cancel_events`. `AskInTool` is `approval.request`, a tool that asks from
inside its invocation and so under its timeout. Clients set and revoke grants, respond, cancel calls
and runs; `Stop`, `CloseApprovals` and `Stopped` are `YueCore.stop` in its order. `launched`,
`ground` and `byShell` are histories: which tools were invoked and what let them through.

`CancelTasks` is the cancellation of a run's task: a call inside its tool turns it into a result, and
a sequential batch then goes on with its next call; anywhere else the call is aborted, and an
approval that is still being announced stays in the table (`request_approval` enters its `try`
only for the wait).

Abstractions: a request is a record of what `evaluate` reads (`Requests`), with rules, profile and
risk folded into `policy`; how a resource matches a pattern is the relation `Covers`; who may
change grants (`evaluate_*_grant`) is not modelled; one batch stands for a run's last, as
`AgentRuns` has the loop; audit and events succeed.

### Runs

| Run | Shows |
|---|---|
| `tool_calls` | types and `OnceGrantServesOneCall`, `GrantsStayInScope`, `AskedRunsOnYes`, `ClosedCoreRunsNothing`, `AnswerIsFinal` for a sequential batch (a shell call that needs a grant, a call the user is asked about) and a parallel batch of two calls one grant covers. |
| `tool_calls_end` | `CallsEnd` under fairness, with a client's `approval.request` next to a run's batch. |
| `stop_waits` | violation: a stop that waits for an approval only it could answer. |

Bounds. Two calls are the least for a batch to go on, or for a grant to be spent twice; one grant is
set at most (`MaxGrants` = 1), of the three offers: a once grant that covers both parallel calls, a
run grant of this run, and one of another run. A second grant adds only which of two matching ones
is taken, which the proofs cover. `tool_calls_end` sets no grant: what let a call through does not
matter to whether it ends.

Fairness. Calls advance (audit, events and tools take a bounded time; tools have timeouts),
batches end, and a stop goes on when it can. Nobody has to answer, so `CallsEnd` allows a call that
waits for an approval a client can find in the table and answer. `StopEnds` has no such escape:
during a stop the client has no reason to answer, and the stop is what would.

### Proofs

`ToolCallsProofs` proves `TypeOK`, `OnceGrantServesOneCall`, `GrantsStayInScope`, `AskedRunsOnYes`,
`ClosedCoreRunsNothing` and `AnswerIsFinal` for every set of calls, batches, sessions, offers and clients, from
`ToolCallsAssumption` (the types of the constants) alone. The inductive invariant is `Permitted`: ids of grants are
unique and below `nextId` (a set grant is never one that was spent), a once grant that let a call
through is gone from the store, a call that is being asked about needs no scoped grant, an undecided call is
not allowed, and an allowed call has a grant in scope, a shell grant, a policy of allow, or a yes.
`Quiet` carries the steps that decide nothing, `Decided` the four that do. `ClosedCoreRunsNothing`
has its own, `Quiesced`: no batch of a run is open once the approvals are closed. `CallsEnd` is
only model-checked.

## RunRecord

A publisher waits for the handlers of its event, so `topic` (a call's last event) and `todo` (its
handlers that have not finished) are all there is of the event bus. `_record_agent_run_reference` is
two steps, `GetRun` and `UpdateReferences`: what it has read is in `held`, and `Update` is the
store's `update`, which reads the row again under its lock and writes the references it was passed.
`RecordActivity` is the handler of `ToolActivityStore`. `Publish` is a call's progress: the loop's
`conversation.tool.requested` and `completed` one by one, the executor's events in a sequential or
parallel batch (`mode`). `Cancel` cancels handlers with the task; an update that is already in its
worker thread is written later (`Land`, from `late`). A call inside its tool (`surviving`) turns the
cancellation into its result and publishes that. `UpdateChecklist` and `UpdateVerification` are
clients. `edits` and `seen` are histories.

Abstractions: references are matched and merged as `_upsert_reference` does it, by request id or
id, with the texts left out; an approval is named after its call. Ids of a batch are distinct, as
`conversation.py:629` raises otherwise. The record's `error`, which every update without one wipes,
is a finding and not part of the model. Which active status a record shows in between is modelled
and promised by nothing.

`run_record` checks a batch of three calls, one of which asks the user, sequential and parallel:
`OneReferencePerCall` and `EndedRunIsReferenced` in both modes, `SequentialRecordIsComplete` and
`StagesOnlyAdvance` where the batch is sequential (a parallel batch loses references, see
Findings), `EditsAreKept` until a cancellation, and `ActivityIsFaithful` of the activity list, whose limit
of two is one less than the calls. Two calls are needed to lose a reference and a third to be
untouched by it or to drop off the list; one edit and one other run's start are enough, as more
only repeat them. The run has no fairness: nothing here is about progress.

`RunRecordProofs` proves `OneReferencePerCall`, `EditsAreKept`, `EndedRunIsReferenced`,
`SequentialRecordIsComplete` and `StagesOnlyAdvance` for any batch, ids and number of edits. `Rows` is the invariant of the first: the record, what any
handler holds of it and what may still land are lists with one entry per call, and `ToolUpserted`
keeps that whichever stale list is written back. `Taking` is the invariant of the third: results are
taken in one by one, so at most one call's handlers run (`OneAtATime`, from `BatchOrder`), what
its handler has read is the record there is, and each call before it has its completed reference.
`InOrder` is the invariant of the last two, for a sequential batch: `InTurn` says how far a call may be
ahead of the ones before it, so that one call's handlers run at a time (`OneBusy`), and
`Caught` that the record is one event behind that call and behind no other, that what its handler has
read is still the record, and that a row that lands late was the record's next state.

`ActivityIsFaithful` and `TypeOK` are proved in any mode. `Watched` says what
the list has taken in of each call: its topic, or, while the handler of that event is still due or
was cancelled, the one before. `Activity` is the invariant of the list: each entry shows what its
call was last seen doing, no two are of one call, and all known calls are there while they fit. `OthersLeft`
and `FrontList` say what moving an item to the front leaves; that a list at its limit
which lost a call's item has `Limit` others is the pigeonhole principle, by which more calls than
`Limit` are then known. The proof needs one assumption more than TLC: no call has the id of an item
without one (`RecordAssumption`), which holds as providers without ids give `tool-0`, `tool-1`, ...

## Bridge

A command is `asked`, takes the controller's mutex (`holder`), is `waiting` for its response, perhaps
`expired`, and is `over` with an `outcome`. `Send` spawns a core where there is none and writes the
line; `WriteFails` is a core that has died and is still in `process`; `Receive`, `Expire` and
`GiveUp` (`remove_pending`) are the ends of the wait, with `Expire` and `GiveUp` apart so that a
response can come between them. `RouteEvent` and `RouteResponse` are the reader thread,
`DrainEvents` and `ShutdownCore` the other commands that need the mutex. On the core's side
`ReadLine` starts a task per line, the handlers (`Query`, `InvokeTool`, `ChangePermission`,
`UnknownMethod`, `StartRun`, `CancelRun`, `RespondApproval`) act and leave lines, and `Write` writes
one under the write lock. A run asks for approvals, ends, or is cancelled (`EndCancelled`: no
response). `AppDies`, `EndOfInput`, `Stop` and `Die` are the deaths on either side. `handled`,
`drained` and `known` are histories of what the core has acted on and what the desktop has seen.

Abstractions: methods are grouped by what they do to the protocol; pipes do not fill; time is the
choice to expire; `status` and the diagnostic lines on the core's error output are left out.

`BridgeContract` promises one outcome per request, and an answer only to what was handled; a
failure or a timeout promises nothing. `bridge` shows that the bridge implements it, with
`MutexCoversWait`, `OneRequestAtATime`, `EventsAreTheNewest`, and under fairness
`EveryCommandEnds` and `OrphanEnds`, for two commands of any kind, a queue of two events and one
death of the core. Two commands are a run and the cancel or answer that would end it, and an invoked
tool alone fills the queue; a death before, while and after a command waits needs one. A third
command would only add a second waiter for the mutex, which the proofs cover.

Fairness: a waiting command gets the mutex in its turn, receives or times out; the core handles,
writes and ends what it can. Nothing is assumed of the desktop, of a death or of an approval, and so
`OrphanEnds` excepts a run that asks for one.

`BridgeProofs` proves all but the two liveness properties, for any commands, kinds, limit and number of
deaths. `Ledger` is the inductive invariant behind the contract: each command is in the core's
input at most once, an answer is the last line its handler has, and when it is out nothing of the
command is left in the core; so a late response finds no pending entry and no second one can come.
`Stream` is the one behind the events: numbers are consecutive in the queue and increasing in the
pipe, and the next after the queue's last is the pipe's first.

## CoreLifecycle

`op` and `step` say which operation is at which await. `Start` and `Update` begin with
`load_enabled`, which does not wait; `StartPlugin` and `StopPlugin` are the turns of the manager's
loops, `StartRaises`, `StopRaises`, `CheckRaises` and `SaveRaises` their failures, and `Raise` what an
exception does to the operation: `start` cleans up (`Abandon`, `Abandoned`), an update goes back to
its settings (`Rollback`, then the same reload), a rollback and a stop give up, which `broken`
remembers. `UpdateRoutes` is `update_conversation_settings`. `BeginSave` and `FinishSave` are
`save_settings`, which truncates and then writes, with a `Crash` in between. `Stop` takes its list of
shell sessions, `KillSession` and `FinalizeSession` end each, and `StopPlugins` and `Stopped` do the
rest; sessions are started, exit and let go of their pipes beside it.

Abstractions: a configuration says what is enabled, what each setup registers, what it refuses and
what its routes need; a plugin that runs holds one resource; the registration of tools and services
by a plugin goes with that of its providers. Operations come one at a time, as `serve` starts before it
reads and stops after its last request, and the desktop has one request in progress. An explicit
`shell.session` stop is a session that exits.

`lifecycle` checks two plugins and eight configurations that go wrong in different ways
(`MCCoreLifecycle` names them), two updates, two faults, two starts and two sessions that share an
id: `NothingIsOrphaned`, `ServingIsWhole`, `SavedSettingsStart`, `StopEndsSessions`, and under
fairness of the operations alone `OperationsEnd`. Two plugins are the least of which one has started when the
other raises; two faults make a rollback fail; two updates reach what a failed one left.
`OperationsEnd` excepts a stop that waits for whoever holds the pipes of a session that has exited.

`CoreLifecycleProofs` proves all but `OperationsEnd`, for any plugins, configurations, names and
sessions. `LifecycleAssumption` says that plugin ids are totally ordered with a first and a last
(they are a finite list of distinct names). The invariant has four parts: `Course` (which steps and flags an
operation can have), `Owned` (whatever is registered or held has a plugin that the loop in progress
will still come to), `Serving` (a manager that starts its plugins has loaded all of its settings, and
the registry has their names and no others) and `Shells` (a running session is in the table, and in a
stop on its list or late). `ServingIsWhole` cannot be proved without `Loaded`, as what a later
reload may register depends on what the one before has taken back.

## ContextWindow

`BoundHistory` and `BoundTools` are `bound_history` and `bound_tools` as loops over turns and tools: `Turns`, then
`TakeTurn` from the latest turn backwards, which cuts the latest (`Anchored`, `FitLatest`, `BoundMessage`) and
takes earlier ones whole or not at all. A text is its length; a message's calls are two lengths, as
they are and summarised, as the summary may be the longer. `UserSends`, `ModelAnswers` and
`ResultArrives` write logs as the run loop does, an exchange left unanswered included.

`context_window` checks `BudgetsHold` and `ExchangesStayWhole` of every log of up to six messages
with up to two calls each: six are a turn with a batch before a latest turn with one. Budgets of
four messages and nine characters are smaller than such a log, so each of the cuts happens; markers
keep their order relative to the limits, which is all `load_settings` guarantees.

`ContextWindowProofs` proves both for any budgets that `load_settings` accepts, any texts, calls,
results and registries, and logs of any length. What a loop computes is a recursive function here
(`Chars`, `Turns`, `TakeTurns`, `BoundTools`), and that such a function exists and carries an invariant from
one iteration to the next is induction over numbers, from `Induction`. The invariants of the loops are `InTurns`
(the turns are the whole log, cut before each user's message), `Held` (what is kept and what is left
add up to the budgets; what is kept is a stretch of the log, cut message by message, that begins with
a turn and ends with the log or with the first message of its last turn) and `Fitting` (the tools that
are chosen fit, and of the ones gone through no other would). `LatestCut` is the argument about the latest
turn: whatever its calls weigh, and whatever is divided by what, its last resort is one user's
message, which has no calls and so fits. `LogWell` is the inductive invariant of the log: each result
answers an assistant's message before it with no user's message between them, and as long as results are
owed only results follow the message they are owed. From this `ExchangesStayWhole` follows: a stretch that begins and
ends where a user's message is, or with the log, cannot have one end of an exchange without the other.

## Induction

The library's induction theorems take an operator as a parameter, which the provers here cannot instantiate.
`SetInduction` says the same of a set, from the library's theorem that the finite subsets of a set are
well-founded; `BoundedInduction` is its form for an interval, `Carried` gives the values a base and a
step produce, and `SameValues` says that two functions with the same base and the same step agree.

## Findings

With a run that shows them:

- `reused_ids`: `agent_run_resume.py` compares sets of ids over a whole run, and providers without
  ids give `tool-0` in each generation; a resume may go on over a call whose effect is unknown.
- `two_resumes`: `resume_agent_run` reads the status, awaits, and writes `running` unconditionally.
- `partial_history`: the assistant message is durable before its calls have results, and a cancelled
  or failed run leaves them unanswered in the next request's history.
- `stop_waits`: `tools.py:202` turns the cancellation of a stop into a result; the batch's next call
  waits for an approval while `stop` waits for the run.

Met while modelling; a property or the fairness of a run leaves room for each, and no run has it as a
violation:

- `app.py:753`: a verification update of an ended run makes it active again (`VerifyIn`).
- `app.py:632`: events of a parallel batch lose one another's references and stages.
- `agent_runs.py:464`: a cancelled handler's row may land after the run was recorded as cancelled.
- `agent_runs.py:460`: any update without an error wipes the error.
- `bridge.rs:147`: while a run is awaited, neither its cancel nor an answer to its approval is sent.
- `bridge.rs:152`: after a core has died, requests fail until the desktop asks for a shutdown.
- `transport.py:488`: a request whose run is cancelled is never answered.
- `transport.py:58`: a core whose desktop has died waits for an approval nobody can give.
- `app.py:1276`: a default provider that nobody provides is accepted and persisted.
- `app.py:1294`: routes are checked against what a failed rollback has left in the registry.
- `app.py:1415`: a rollback that fails leaves a core that serves without its providers.
- `app.py:1472`: a restart in the process does not register the permission grants again.
- `shell_sessions.py:119`: a session started during a stop is never ended.

## What is only model-checked

Liveness (`RunsSettle`, `CallsEnd`, `EveryCommandEnds`, `OrphanEnds`, `OperationsEnd`), which is out of
the prover's reach. Every other property that a passing run checks is also proved; of `AgentRuns`, under `Discipline`.

## Not modelled

`PROJECT.json` lists every component with its status and the reason. The desktop's reducer
(`state.js`) folds events into what a window shows: it is sequential, and `Bridge` says which events
reach it and which are lost. The desktop's session controller sets flags without a wait. `send` of a
run that registers its task after `stop` has gathered the runs (`conversation.py:424`) would need the
orchestrator and the stop in one module; `ToolCalls` takes the runs a stop finds as given, and only a
caller in the process can meet it, as `serve` stops the core after its last request.
Settings updates at the same time are excluded, which `OneRequestAtATime` justifies for the desktop
and nothing does for another client of the same pipe. Left out altogether: the wire formats of
providers, parsing of configuration, prompts and catalogs (text), the file, process and git
operations of builtin tools (effects outside the program), the audit log (output only), entry points,
the bundled runtime and the mock of the desktop.
