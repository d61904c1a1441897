------------------------------- MODULE AgentRuns -------------------------------
(***************************************************************************)
(* The durable agent run of Yue Core: the run record kept by               *)
(* app.YueCore (start_agent_run, resume_agent_run, the reconciliation at   *)
(* start), the conversation loop of conversation.ConversationOrchestrator  *)
(* that a run drives, the durable message log both leave behind, and what  *)
(* a crash, a cancellation or a resume finds in it.                        *)
(*                                                                         *)
(* One task is one request served by the asyncio loop; its pc names the    *)
(* await it is suspended at, so another task may move between any two      *)
(* actions of one task.  The record and the log survive a crash; tasks,    *)
(* the table of live runs, the conversation locks and the writes still in  *)
(* a worker thread do not.                                                 *)
(***************************************************************************)
EXTENDS Naturals, Sequences, FiniteSets

CONSTANTS
    Runs,              \* run ids, each used for one request
    ChatRuns,          \* the runs that are plain conversations.send requests
    Conversations,     \* conversation ids
    Conv,              \* the conversation each run talks in
    Request,           \* the text each run was asked (user_request)
    Tasks,             \* slots for requests served at the same time
    NoRun, NoTask,     \* "none" values
    MaxIterations,     \* conversation.max_tool_iterations
    MaxBatch,          \* bound: tool calls in one generation
    MaxResumes,        \* bound: accepted resumes of one run
    MaxCrashes,        \* bound: crashes of the process
    UniqueIds,         \* a provider never repeats a tool-call id within a run
    ConcurrentResumes, \* a client may resume a run it is already resuming
    VerifyIn           \* statuses in which a client posts "verification running"

ASSUME RunsAssumption ==
    /\ ChatRuns \subseteq Runs
    /\ Conv \in [Runs -> Conversations]
    /\ DOMAIN Request = Runs
    /\ NoRun \notin Runs
    /\ NoTask \notin Tasks
    /\ MaxIterations \in Nat /\ MaxBatch \in Nat
    /\ MaxResumes \in Nat /\ MaxCrashes \in Nat
    /\ UniqueIds \in BOOLEAN /\ ConcurrentResumes \in BOOLEAN
    /\ "none" \notin VerifyIn

VARIABLES
    used,      \* history: the run ids already given to a request
    core,      \* the process: "down", "starting" (reconciling) or "up"
    crashes,   \* how often it crashed (bound)
    run,       \* the durable record of each run
    resumes,   \* how often each run was resumed (bound)
    log,       \* the durable messages of each conversation
    inflight,  \* messages a worker thread still writes for a cancelled task
    task,      \* the requests being served
    active,    \* the orchestrator's _runs: the task of each live run
    holder,    \* the conversation locks
    gens,      \* history: generations each run has had
    executed   \* history: tool calls whose side effect may have happened

process == <<core, crashes>>
locks == <<active, holder>>
history == <<used, gens, executed>>
vars == <<process, run, resumes, log, inflight, task, locks, history>>

---------------------------------------------------------------------------
(* Vocabulary *)

\* A definition named ...Slip is a plausible mistake in the one that follows it;
\* the mutants of PROJECT.json put it in its place.
ActiveSlip == {"created", "running", "waiting_approval", "verifying", "failed"}
Active == {"created", "running", "waiting_approval", "verifying"}
Terminal == {"completed", "failed", "cancelled"}
Status == {"none", "interrupted"} \cup Active \cup Terminal

\* Where a task is suspended while its run is in the orchestrator's _runs.
Loop == {"queued", "input", "generate", "record", "call", "approval", "invoke", "results"}
Pc == {"idle", "created", "enter", "completing", "failing", "cancelling", "analyze", "mark"}
         \cup Loop

Record == [status: Status, born: Nat]

\* gen and idx number the generation and the position of a call in it; the
\* code tells messages apart by their order and by the call id alone.
Message == [role: {"user", "assistant", "tool"}, run: Runs, gen: Nat, n: Nat, idx: Nat]
Call == [run: Runs, gen: Nat, idx: Nat]

Task == [pc: Pc, run: Runs \cup {NoRun}, mode: {"none", "chat", "start", "resume"},
         gen: Nat, n: Nat, i: Nat, iter: 0..MaxIterations,
         seen: BOOLEAN, ans: {"none", "answer", "continue", "send"}]

Serving(p, r, m) == [pc |-> p, run |-> r, mode |-> m, gen |-> 0, n |-> 0, i |-> 0,
                     iter |-> 0, seen |-> FALSE, ans |-> "none"]

Idle == Serving("idle", NoRun, "none")

UserMessage(r) == [role |-> "user", run |-> r, gen |-> 0, n |-> 0, idx |-> 0]
AssistantMessage(r, g, n) == [role |-> "assistant", run |-> r, gen |-> g, n |-> n, idx |-> 0]
ToolMessage(r, g, k) == [role |-> "tool", run |-> r, gen |-> g, n |-> 0, idx |-> k]

\* The messages of r in the log: those whose metadata carries its id.
Messages(r) == {log[Conv[r]][k] : k \in {j \in DOMAIN log[Conv[r]] : log[Conv[r]][j].run = r}}

\* A call is answered once the log holds its own result.
Answered(r, g, k) == \E w \in Messages(r) : w.role = "tool" /\ w.gen = g /\ w.idx = k

At(t, p) == task[t].pc = p
RunOf(t) == task[t].run
ConvOf(t) == Conv[RunOf(t)]
InLoop(t) == task[t].pc \in Loop

---------------------------------------------------------------------------
(* The analysis a resume rests on *)

SameIdSlip(g1, k1, g2, k2) == k1 = k2

\* Ids as providers give them: the server's, or "tool-{index}" when it sends none.
SameId(g1, k1, g2, k2) == k1 = k2 /\ (UniqueIds => g1 = g2)

HasInputSlip(r) ==
    LET c == Conv[r] IN log[c] # <<>> /\ log[c][Len(log[c])].role = "user"

HasInput(r) ==
    \/ \E m \in Messages(r) : m.role = "user"
    \/ \E k \in DOMAIN log[Conv[r]] :
          /\ log[Conv[r]][k].role = "user"
          /\ Request[log[Conv[r]][k].run] = Request[r]
          /\ k > run[r].born

HasAnswer(r) == \E m \in Messages(r) : m.role = "assistant" /\ m.n = 0

MissingResultSlip(r) == FALSE

\* A requested id that no tool message of the run carries.
MissingResult(r) ==
    \E m \in Messages(r) : \E k \in 1..m.n :
        /\ m.role = "assistant"
        /\ ~ \E w \in Messages(r) : w.role = "tool" /\ SameId(m.gen, k, w.gen, w.idx)

---------------------------------------------------------------------------
Init ==
    /\ used = {}
    /\ core = "up"
    /\ crashes = 0
    /\ run = [r \in Runs |-> [status |-> "none", born |-> 0]]
    /\ resumes = [r \in Runs |-> 0]
    /\ log = [c \in Conversations |-> <<>>]
    /\ inflight = {}
    /\ task = [t \in Tasks |-> Idle]
    /\ active = [r \in Runs |-> NoTask]
    /\ holder = [c \in Conversations |-> NoTask]
    /\ gens = [r \in Runs |-> 0]
    /\ executed = {}

---------------------------------------------------------------------------
(* Requests: start, chat, resume *)

\* A request gets a run id of its own (a uuid).
Take(r) ==
    /\ r \notin used
    /\ used' = used \cup {r}

SetStatus(r, s) == run' = [run EXCEPT ![r].status = s]
Goto(t, p) == task' = [task EXCEPT ![t].pc = p]

\* agents.runs.start: the record is created ...
StartRun(t, r) ==
    /\ core = "up" /\ At(t, "idle")
    /\ r \notin ChatRuns /\ Take(r)
    /\ run' = [run EXCEPT ![r] = [status |-> "created", born |-> Len(log[Conv[r]])]]
    /\ task' = [task EXCEPT ![t] = Serving("created", r, "start")]
    /\ UNCHANGED <<process, resumes, log, inflight, locks, gens, executed>>

\* ... and, a write later, running.
MarkRunning(t) ==
    /\ At(t, "created")
    /\ SetStatus(RunOf(t), "running")
    /\ Goto(t, "enter")
    /\ UNCHANGED <<process, resumes, log, inflight, locks, history>>

\* conversations.send: the same loop without a record.
ChatSend(t, r) ==
    /\ core = "up" /\ At(t, "idle")
    /\ r \in ChatRuns /\ Take(r)
    /\ task' = [task EXCEPT ![t] = Serving("enter", r, "chat")]
    /\ UNCHANGED <<process, run, resumes, log, inflight, locks, gens, executed>>

\* agents.runs.resume: read the record and refuse a run that is not interrupted ...
ResumeRead(t, r) ==
    /\ core = "up" /\ At(t, "idle")
    /\ run[r].status = "interrupted"
    /\ resumes[r] < MaxResumes
    /\ ConcurrentResumes \/ \A u \in Tasks : RunOf(u) # r
    /\ task' = [task EXCEPT ![t] = Serving("analyze", r, "resume")]
    /\ UNCHANGED <<process, run, resumes, log, inflight, locks, history>>

\* ... then read the log: block, or decide how to go on ...
Analyze(t) ==
    LET r == RunOf(t)
    IN  /\ At(t, "analyze")
        /\ task' = [task EXCEPT ![t] =
                      IF MissingResult(r) THEN Idle
                      ELSE [@ EXCEPT !.pc = "mark",
                                     !.ans = IF HasAnswer(r) THEN "answer"
                                             ELSE IF HasInput(r) THEN "continue" ELSE "send"]]
        /\ UNCHANGED <<process, run, resumes, log, inflight, locks, history>>

\* ... and mark the run running, whatever has become of it since.
MarkResumed(t) ==
    /\ At(t, "mark")
    /\ SetStatus(RunOf(t), "running")
    /\ resumes' = [resumes EXCEPT ![RunOf(t)] = @ + 1]
    /\ Goto(t, IF task[t].ans = "answer" THEN "completing" ELSE "enter")
    /\ UNCHANGED <<process, log, inflight, locks, history>>

---------------------------------------------------------------------------
(* The orchestrator *)

LeaveSlip(t, p) ==
    /\ active' = [active EXCEPT ![RunOf(t)] = NoTask]
    /\ task' = [task EXCEPT ![t] = IF @.mode = "chat" THEN Idle ELSE Serving(p, @.run, @.mode)]
    /\ UNCHANGED holder

\* The run leaves _runs and gives up the conversation lock; a request with a
\* record goes on to write outcome p in it.
Leave(t, p) ==
    /\ active' = [active EXCEPT ![RunOf(t)] = NoTask]
    /\ holder' = [holder EXCEPT ![ConvOf(t)] = IF @ = t THEN NoTask ELSE @]
    /\ task' = [task EXCEPT ![t] = IF @.mode = "chat" THEN Idle ELSE Serving(p, @.run, @.mode)]

\* _execute_run: a run id that is live is refused, before anything is undone.
Enter(t) ==
    /\ At(t, "enter")
    /\ \/ /\ active[RunOf(t)] = NoTask
          /\ active' = [active EXCEPT ![RunOf(t)] = t]
          /\ Goto(t, "queued")
       \/ /\ active[RunOf(t)] # NoTask
          /\ task' = [task EXCEPT ![t] = IF @.mode = "chat" THEN Idle
                                          ELSE [@ EXCEPT !.pc = "failing"]]
          /\ UNCHANGED active
    /\ UNCHANGED holder
    /\ UNCHANGED <<process, run, resumes, log, inflight, history>>

AcquireSlip(t) ==
    /\ At(t, "queued")
    /\ holder' = [holder EXCEPT ![ConvOf(t)] = t]
    /\ Goto(t, IF task[t].ans = "continue" THEN "generate" ELSE "input")
    /\ UNCHANGED <<process, run, resumes, log, inflight, active, history>>

\* Runs of one conversation are serialised; resume_run appends no input.
Acquire(t) ==
    /\ At(t, "queued")
    /\ holder[ConvOf(t)] = NoTask
    /\ holder' = [holder EXCEPT ![ConvOf(t)] = t]
    /\ Goto(t, IF task[t].ans = "continue" THEN "generate" ELSE "input")
    /\ UNCHANGED <<process, run, resumes, log, inflight, active, history>>

WrittenSlip(t) ==
    CASE At(t, "input")  -> UserMessage(RunOf(t))
      [] At(t, "record") -> AssistantMessage(RunOf(t), task[t].gen, 0)
      [] OTHER           -> ToolMessage(RunOf(t), task[t].gen, task[t].i + 1)

\* The message task t writes at its pc.
Written(t) ==
    CASE At(t, "input")  -> UserMessage(RunOf(t))
      [] At(t, "record") -> AssistantMessage(RunOf(t), task[t].gen, task[t].n)
      [] OTHER           -> ToolMessage(RunOf(t), task[t].gen, task[t].i + 1)

AppendTo(m) == log' = [log EXCEPT ![Conv[m.run]] = Append(@, m)]

AppendInput(t) ==
    /\ At(t, "input")
    /\ AppendTo(Written(t))
    /\ Goto(t, "generate")
    /\ UNCHANGED <<process, run, resumes, inflight, locks, history>>

\* The provider answers the bounded history with n tool calls (0: a final answer).
Generate(t, n) ==
    /\ At(t, "generate") /\ ~ task[t].seen
    /\ gens' = [gens EXCEPT ![RunOf(t)] = @ + 1]
    /\ task' = [task EXCEPT ![t] = [@ EXCEPT !.pc = "record", !.gen = gens[RunOf(t)] + 1, !.n = n]]
    /\ UNCHANGED <<process, run, resumes, log, inflight, locks, used, executed>>

OverLimitSlip(t) == task[t].iter > MaxIterations
OverLimit(t) == task[t].iter >= MaxIterations

\* The assistant message is durable before any of its calls runs; over the
\* iteration limit the run fails with those calls left unanswered.
AppendAssistant(t) ==
    /\ At(t, "record")
    /\ AppendTo(Written(t))
    /\ \/ task[t].n = 0 /\ Leave(t, "completing")
       \/ task[t].n > 0 /\ OverLimit(t) /\ Leave(t, "failing")
       \/ task[t].n > 0 /\ ~ OverLimit(t) /\ Goto(t, "call") /\ UNCHANGED locks
    /\ UNCHANGED <<process, run, resumes, inflight, history>>

---------------------------------------------------------------------------
(* The calls of a generation, one after the other: ToolExecutor.execute *)

\* The call is over; after the last one the results are appended.
AfterCall(t) ==
    IF task[t].i + 1 >= task[t].n
    THEN [task[t] EXCEPT !.pc = "results", !.i = 0]
    ELSE [task[t] EXCEPT !.pc = "call", !.i = task[t].i + 1]

Invoke(t) ==
    /\ Goto(t, "invoke")
    /\ executed' = executed \cup {[run |-> RunOf(t), gen |-> task[t].gen, idx |-> task[t].i + 1]}

\* Permitted: the tool starts, and from here on its effect may have happened.
BeginCall(t) ==
    /\ At(t, "call")
    /\ Invoke(t)
    /\ UNCHANGED <<process, run, resumes, log, inflight, locks, used, gens>>

\* Unknown tool, invalid arguments or denied: a result without an effect.
RefuseCall(t) ==
    /\ At(t, "call")
    /\ task' = [task EXCEPT ![t] = AfterCall(t)]
    /\ UNCHANGED <<process, run, resumes, log, inflight, locks, history>>

\* approval.pending: the subscriber marks the record, and the call waits with no timeout.
AskApproval(t) ==
    /\ At(t, "call")
    /\ run' = [run EXCEPT ![RunOf(t)].status = IF @ = "none" THEN "none" ELSE "waiting_approval"]
    /\ Goto(t, "approval")
    /\ UNCHANGED <<process, resumes, log, inflight, locks, history>>

\* approvals.respond: the record keeps saying waiting_approval.
Approve(t) ==
    /\ At(t, "approval")
    /\ Invoke(t)
    /\ UNCHANGED <<process, run, resumes, log, inflight, locks, used, gens>>

Deny(t) ==
    /\ At(t, "approval")
    /\ task' = [task EXCEPT ![t] = AfterCall(t)]
    /\ UNCHANGED <<process, run, resumes, log, inflight, locks, history>>

\* Success, failure or timeout.
EndCall(t) ==
    /\ At(t, "invoke")
    /\ task' = [task EXCEPT ![t] = AfterCall(t)]
    /\ UNCHANGED <<process, run, resumes, log, inflight, locks, history>>

\* Tool messages are appended in call order; after the last the model is asked again.
AppendResult(t) ==
    /\ At(t, "results")
    /\ AppendTo(Written(t))
    /\ task' = [task EXCEPT ![t] =
                  IF @.i + 1 >= @.n
                  THEN [@ EXCEPT !.pc = "generate", !.i = 0, !.n = 0, !.iter = task[t].iter + 1]
                  ELSE [@ EXCEPT !.i = task[t].i + 1]]
    /\ UNCHANGED <<process, run, resumes, inflight, locks, history>>

---------------------------------------------------------------------------
(* Failure and cancellation *)

\* A provider or storage error, duplicate ids in one generation, an unknown
\* tool in a batch of two or more: the exception ends the run where it is.
FailRun(t) ==
    /\ task[t].pc \in {"input", "generate", "record", "call", "results"}
    /\ Leave(t, "failing")
    /\ UNCHANGED <<process, run, resumes, log, inflight, history>>

\* conversations.cancel reaches the tasks in _runs.  Waiting, the task unwinds ...
CancelWaiting(t) ==
    /\ task[t].pc \in {"queued", "generate", "call", "approval"}
    /\ active[RunOf(t)] = t
    /\ Leave(t, "cancelling")
    /\ UNCHANGED <<process, run, resumes, log, inflight, history>>

\* ... in a store, the thread it waited for may write the message yet ...
CancelWriting(t) ==
    /\ task[t].pc \in {"input", "record", "results"}
    /\ active[RunOf(t)] = t
    /\ inflight' \in {inflight, inflight \cup {Written(t)}}
    /\ Leave(t, "cancelling")
    /\ UNCHANGED <<process, run, resumes, log, history>>

\* ... and in a tool, the executor turns the cancellation into a result and goes on.
CancelTool(t) ==
    /\ At(t, "invoke")
    /\ active[RunOf(t)] = t
    /\ task' = [task EXCEPT ![t] = [AfterCall(t) EXCEPT !.seen = TRUE]]
    /\ UNCHANGED <<process, run, resumes, log, inflight, locks, history>>

\* The loop looks at cancel_event before it asks the model again.
NoticeCancel(t) ==
    /\ At(t, "generate") /\ task[t].seen
    /\ Leave(t, "cancelling")
    /\ UNCHANGED <<process, run, resumes, log, inflight, history>>

\* The worker thread of a cancelled append commits.
Land(m) ==
    /\ m \in inflight
    /\ inflight' = inflight \ {m}
    /\ AppendTo(m)
    /\ UNCHANGED <<process, run, resumes, task, locks, history>>

\* The outcome of the request in the record; a failed resume can be tried again.
Outcome(t) ==
    CASE At(t, "completing") -> "completed"
      [] At(t, "cancelling") -> "cancelled"
      [] At(t, "failing") /\ task[t].mode = "resume" -> "interrupted"
      [] OTHER -> "failed"

Finish(t) ==
    /\ task[t].pc \in {"completing", "cancelling", "failing"}
    /\ SetStatus(RunOf(t), Outcome(t))
    /\ task' = [task EXCEPT ![t] = Idle]
    /\ UNCHANGED <<process, resumes, log, inflight, locks, history>>

\* agents.runs.verification.update with status "running".
Verify(r) ==
    /\ core = "up"
    /\ run[r].status \in VerifyIn
    /\ SetStatus(r, "verifying")
    /\ UNCHANGED <<process, resumes, log, inflight, task, locks, history>>

---------------------------------------------------------------------------
(* Crash and restart *)

Crash ==
    /\ core # "down" /\ crashes < MaxCrashes
    /\ core' = "down"
    /\ crashes' = crashes + 1
    /\ inflight' = {}
    /\ task' = [t \in Tasks |-> Idle]
    /\ active' = [r \in Runs |-> NoTask]
    /\ holder' = [c \in Conversations |-> NoTask]
    /\ UNCHANGED <<run, resumes, log, history>>

Boot ==
    /\ core = "down"
    /\ core' = "starting"
    /\ UNCHANGED <<crashes, run, resumes, log, inflight, task, locks, history>>

ReconcileSlip(r) ==
    /\ core # "down" /\ run[r].status \in Active
    /\ SetStatus(r, "interrupted")
    /\ UNCHANGED <<process, resumes, log, inflight, task, locks, history>>

\* One stale record at a time, before any request is read.
Reconcile(r) ==
    /\ core = "starting" /\ run[r].status \in Active
    /\ SetStatus(r, "interrupted")
    /\ UNCHANGED <<process, resumes, log, inflight, task, locks, history>>

Ready ==
    /\ core = "starting" /\ \A r \in Runs : run[r].status \notin Active
    /\ core' = "up"
    /\ UNCHANGED <<crashes, run, resumes, log, inflight, task, locks, history>>

---------------------------------------------------------------------------
\* What the code does on its own; the user decides on approvals and cancels.
Progress(t) ==
    \/ MarkRunning(t) \/ Analyze(t) \/ MarkResumed(t) \/ Enter(t) \/ Acquire(t)
    \/ AppendInput(t) \/ (\E n \in 0..MaxBatch : Generate(t, n)) \/ AppendAssistant(t)
    \/ BeginCall(t) \/ RefuseCall(t) \/ AskApproval(t) \/ EndCall(t) \/ AppendResult(t)
    \/ FailRun(t) \/ NoticeCancel(t) \/ Finish(t)

Environment(t) ==
    \/ \E r \in Runs : StartRun(t, r) \/ ChatSend(t, r) \/ ResumeRead(t, r)
    \/ Approve(t) \/ Deny(t)
    \/ CancelWaiting(t) \/ CancelWriting(t) \/ CancelTool(t)

Next ==
    \/ \E t \in Tasks : Progress(t) \/ Environment(t)
    \/ \E m \in inflight : Land(m)
    \/ \E r \in Runs : Verify(r) \/ Reconcile(r)
    \/ Crash \/ Boot \/ Ready

\* Providers and tools have timeouts, so a task that can move does; a restarted
\* core reconciles and serves.  Nothing obliges a user to answer an approval.
Fairness ==
    /\ \A t \in Tasks : WF_vars(Progress(t))
    /\ WF_vars(Boot) /\ WF_vars(Ready) /\ WF_vars(\E r \in Runs : Reconcile(r))

Spec == Init /\ [][Next]_vars
FairSpec == Spec /\ Fairness

---------------------------------------------------------------------------
(* Correctness *)

\* Types, and the iteration limit: no loop passes conversation.max_tool_iterations
\* (conversation.py:569, 660).
TypeOK ==
    /\ used \in SUBSET Runs
    /\ core \in {"down", "starting", "up"}
    /\ crashes \in Nat
    /\ run \in [Runs -> Record]
    /\ resumes \in [Runs -> Nat]
    /\ log \in [Conversations -> Seq(Message)]
    /\ inflight \in SUBSET Message
    /\ task \in [Tasks -> Task]
    /\ active \in [Runs -> Tasks \cup {NoTask}]
    /\ holder \in [Conversations -> Tasks \cup {NoTask}]
    /\ gens \in [Runs -> Nat]
    /\ executed \in SUBSET Call

\* Every side effect can be accounted for after a crash: the assistant message
\* that asked for the call was durable before the call could run.
ExecutedWasRequested ==
    \A e \in executed : \E m \in Messages(e.run) :
        m.role = "assistant" /\ m.gen = e.gen /\ e.idx \in 1..m.n

\* No blind replay: whenever the model is asked to go on with a run, every call
\* of that run that may have had its effect has its durable result, through any
\* crash, cancellation and resume in between (resume_agent_run's block).
NoBlindReplay ==
    \A t \in Tasks : At(t, "generate") =>
        \A e \in executed : e.run = RunOf(t) => Answered(e.run, e.gen, e.idx)

\* A run recorded as completed is whole in the log: a final answer, and a result
\* for every call it ever asked for.
CompletedRunIsWhole ==
    \A r \in Runs : run[r].status = "completed" =>
        /\ HasAnswer(r)
        /\ \A m \in Messages(r) : m.role = "assistant" =>
              \A k \in 1..m.n : Answered(r, m.gen, k)

\* The request is in the log before the model is asked, and no resume appends
\* it a second time.
InputExactlyOnce ==
    /\ \A t \in Tasks : At(t, "generate") =>
          \E k \in DOMAIN log[ConvOf(t)] :
              /\ log[ConvOf(t)][k].role = "user"
              /\ Request[log[ConvOf(t)][k].run] = Request[RunOf(t)]
    /\ \A c \in Conversations : \A j, k \in DOMAIN log[c] :
          log[c][j].role = "user" /\ log[c][k].role = "user" /\ log[c][j].run = log[c][k].run
              => j = k

\* The record never calls a run ended or interrupted while it is still running.
LiveRunIsActive ==
    \A r \in Runs \ ChatRuns : active[r] # NoTask => run[r].status \in Active

\* A terminal status is final: no late reference, reconciliation, resume or
\* verification update brings an ended run back.
TerminalIsFinal ==
    [][\A r \in Runs : run[r].status \in Terminal => run'[r].status = run[r].status]_run

\* Two runs of one conversation are never both past its lock.
SerializedPerConversation ==
    \A t, u \in Tasks :
        /\ InLoop(t) /\ ~ At(t, "queued")
        /\ InLoop(u) /\ ~ At(u, "queued")
        /\ ConvOf(t) = ConvOf(u)
        => t = u

\* A record does not stay active for ever: it ends, is interrupted, or some task
\* is waiting for the user's approval.
RunsSettle ==
    \A r \in Runs : run[r].status \in Active ~>
        (run[r].status \notin Active \/ \E t \in Tasks : At(t, "approval"))

\* The conversation the model is asked with holds no partial tool exchange,
\* whichever run left it (context_window.py:60).
HistoryIsWellFormed ==
    \A t \in Tasks : At(t, "generate") =>
        \A k \in DOMAIN log[ConvOf(t)] : \A i \in 1..log[ConvOf(t)][k].n :
            Answered(log[ConvOf(t)][k].run, log[ConvOf(t)][k].gen, i)

---------------------------------------------------------------------------
(* The contract of a run, and the run record as an implementation of it *)

Phase(s) == CASE s = "none" -> "new"
              [] s = "interrupted" -> "interrupted"
              [] s \in Terminal -> "ended"
              [] OTHER -> "active"

\* Calls of r whose effect may have happened and whose result is not durable.
Unresolved(r) ==
    {<<e.gen, e.idx>> : e \in {x \in executed : x.run = r /\ ~ Answered(r, x.gen, x.idx)}}

AgentRunIds == Runs \ ChatRuns

Contract == INSTANCE RunContract WITH
    Runs <- AgentRunIds,
    phase <- [r \in AgentRunIds |-> Phase(run[r].status)],
    rounds <- [r \in AgentRunIds |-> gens[r]],
    unresolved <- [r \in AgentRunIds |-> Unresolved(r)]

\* The durable runs implement RunContract.
ImplementsContract == Contract!Spec
==============================================================================
