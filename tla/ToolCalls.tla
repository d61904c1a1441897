-------------------------------- MODULE ToolCalls --------------------------------
(***************************************************************************)
(* Tool calls and the permission to make them: tools.ToolExecutor          *)
(* (execute_many, execute, cancel), permissions.PermissionEngine.evaluate  *)
(* with its PermissionGrantStore, the table of pending approvals of        *)
(* approval_bridge.BridgeApprovalProvider, the tool that asks for an       *)
(* approval itself (builtin_tools.ApprovalRequestTool), and YueCore.stop   *)
(* as far as it meets calls that are on their way.                         *)
(*                                                                         *)
(* A batch is one execute_many: by the conversation loop for a model, or   *)
(* by a client.  A call's pc names the await it is suspended at; whatever  *)
(* the code does between two awaits is one action.                         *)
(***************************************************************************)
EXTENDS Naturals, FiniteSets

CONSTANTS
    Calls,          \* tool requests
    Request,        \* what each of them asks for
    Batches,        \* calls of execute_many
    RunBatches,     \* those a conversation run makes: a cancellation reaches them
    Parallel,       \* those made with parallel = TRUE
    Sessions, Capabilities, Resources,
    Covers,         \* pairs of a grant's resource and a requested one it matches
    Offers,         \* grants a client may set: capability, resource, lifetime, scope
    Interactive,    \* permissions.interactive_approval
    MaxGrants       \* bound: grants ever set

Lifetimes == {"once", "run", "conversation", "session"}

\* A request after the parts of evaluate that read no state: shell, the tool is a
\* shell tool; scoped, its risk is high and its capability in the profile; policy,
\* what rules, profile and risk say when no grant does; tool, whether it asks the
\* user itself.
Requests == [batch: Batches, position: Nat, session: Sessions, cap: Capabilities,
             res: Resources, run: STRING, model: BOOLEAN, shell: BOOLEAN, inProfile: BOOLEAN,
             scoped: BOOLEAN, policy: {"allow", "ask", "deny"}, tool: {"plain", "approval"}]

Offer == [cap: Capabilities, res: Resources, lifetime: Lifetimes, scope: STRING]

ASSUME ToolCallsAssumption ==
    /\ Request \in [Calls -> Requests]
    /\ \A c \in Calls : Request[c].tool = "approval" => Request[c].policy = "allow"
    /\ RunBatches \subseteq Batches /\ Parallel \subseteq Batches
    /\ Offers \subseteq Offer
    /\ Interactive \in BOOLEAN /\ MaxGrants \in Nat

VARIABLES
    core,        \* "up", "stopping", "closed" (approvals shut down) or "down"
    batch,       \* "idle", "open", "done" or "cancelled"
    call,        \* where each call is
    pending,     \* calls in the approval table
    answer,      \* the future of each call's approval
    cancelable,  \* calls in _cancel_events
    shellGrant,  \* sessions with allow_all_cmd
    grants,      \* capability grants, in the order of their ids
    nextId,      \* id of the next grant
    launched,    \* history: calls whose tool was invoked
    ground,      \* history: the grants that let a call through
    byShell      \* history: calls let through by allow_all_cmd

vars == <<core, batch, call, pending, answer, cancelable, shellGrant, grants, nextId,
          launched, ground, byShell>>

table == <<pending, answer>>
store == <<shellGrant, grants, nextId>>
history == <<launched, ground, byShell>>

---------------------------------------------------------------------------
(* Vocabulary *)

\* Suspended: the audit of the request, the announcement of an approval, its answer,
\* the audit of the decision, tool.started, the tool, tool.finished.
InTool == {"running", "announcing_inner", "waiting_inner"}
InFlight == {"request", "announcing", "waiting", "decided", "starting", "finishing"} \cup InTool
Pc == {"idle", "over", "aborted"} \cup InFlight

\* _result; an aborted call raised CancelledError and has none.
Status == {"none", "succeeded", "failed", "denied", "cancelled", "timed_out"}

Call == [pc: Pc, allowed: BOOLEAN, flag: BOOLEAN, asked: BOOLEAN, status: Status]

Grant == [id: Nat, session: Sessions, cap: Capabilities, res: Resources,
          lifetime: Lifetimes, scope: STRING, allowed: BOOLEAN]

At(c, p) == call[c].pc = p
Of(c) == Request[c]
IsInFlight(c) == call[c].pc \in InFlight
OfRun(c) == Of(c).batch \in RunBatches
Siblings(c) == {d \in Calls : Of(d).batch = Of(c).batch}

\* execute_many awaits a sequential batch one call after the other.
Earlier(c) ==
    IF Of(c).batch \in Parallel THEN {}
    ELSE {d \in Siblings(c) : Of(d).position < Of(c).position}

Goto(c, p) == call' = [call EXCEPT ![c].pc = p]
Decide(c, a) == call' = [call EXCEPT ![c] = [call[c] EXCEPT !.pc = "decided", !.allowed = a]]
Conclude(c, s) == call' = [call EXCEPT ![c] = [call[c] EXCEPT !.pc = "finishing", !.status = s]]

---------------------------------------------------------------------------
(* Grants *)

LifetimeMatchesSlip(g, c) == TRUE

LifetimeMatches(g, c) ==
    CASE g.lifetime = "run" -> g.scope = Of(c).run
      [] g.lifetime = "conversation" -> g.scope \in {"none", Of(c).session}
      [] OTHER -> TRUE

\* The grants that would let c through.
Matching(c) ==
    {g \in grants : /\ g.session = Of(c).session /\ g.cap = Of(c).cap /\ g.allowed
                    /\ LifetimeMatches(g, c) /\ <<g.res, Of(c).res>> \in Covers}

\* match_capability_grant returns the first of them.
IsFirst(g, c) == g \in Matching(c) /\ \A h \in Matching(c) : g.id <= h.id

ConsumeSlip(g) == grants

Consume(g) == IF g.lifetime = "once" THEN grants \ {g} ELSE grants

SameKey(g, s, o) ==
    g.session = s /\ g.cap = o.cap /\ g.res = o.res /\ g.lifetime = o.lifetime /\ g.scope = o.scope

\* permissions.capability_grants.set replaces the grant with the same key.
SetGrant(s, o, a) ==
    /\ core # "down" /\ nextId < MaxGrants
    /\ grants' = {g \in grants : ~ SameKey(g, s, o)} \cup
                   {[id |-> nextId, session |-> s, cap |-> o.cap, res |-> o.res,
                     lifetime |-> o.lifetime, scope |-> o.scope, allowed |-> a]}
    /\ nextId' = nextId + 1
    /\ UNCHANGED <<core, batch, call, table, cancelable, shellGrant, history>>

\* permissions.capability_grants.revoke, by id or by capability (and resource).
Revoke(G) ==
    /\ core # "down" /\ G # {}
    /\ grants' = grants \ G
    /\ UNCHANGED <<core, batch, call, table, cancelable, shellGrant, nextId, history>>

\* permissions.allow_all_cmd.set
SetShellGrant(s, a) ==
    /\ core # "down"
    /\ shellGrant' = IF a THEN shellGrant \cup {s} ELSE shellGrant \ {s}
    /\ UNCHANGED <<core, batch, call, table, cancelable, grants, nextId, history>>

---------------------------------------------------------------------------
Init ==
    /\ core = "up"
    /\ batch = [b \in Batches |-> "idle"]
    /\ call = [c \in Calls |-> [pc |-> "idle", allowed |-> FALSE, flag |-> FALSE,
                                asked |-> FALSE, status |-> "none"]]
    /\ pending = {}
    /\ answer = [c \in Calls |-> "none"]
    /\ cancelable = {}
    /\ shellGrant = {}
    /\ grants = {}
    /\ nextId = 0
    /\ launched = {}
    /\ ground = [c \in Calls |-> {}]
    /\ byShell = {}

---------------------------------------------------------------------------
(* A batch *)

\* The loop runs only while the orchestrator accepts; invoke until stop has ended.  A
\* batch of a run stands for its last one: AgentRuns has the loop around it.
StartBatch(b) ==
    /\ core = "up" \/ (b \notin RunBatches /\ core # "down")
    /\ batch[b] = "idle"
    /\ batch' = [batch EXCEPT ![b] = "open"]
    /\ UNCHANGED <<core, call, table, cancelable, store, history>>

EndBatch(b) ==
    /\ batch[b] = "open"
    /\ \A c \in Calls : Of(c).batch = b => At(c, "over")
    /\ batch' = [batch EXCEPT ![b] = "done"]
    /\ UNCHANGED <<core, call, table, cancelable, store, history>>

Begin(c) ==
    /\ At(c, "idle") /\ batch[Of(c).batch] = "open"
    /\ \A d \in Earlier(c) : At(d, "over")
    /\ Goto(c, "request")
    /\ UNCHANGED <<core, batch, table, cancelable, store, history>>

---------------------------------------------------------------------------
(* The decision *)

\* An unknown tool, or arguments its schema refuses.
Reject(c) ==
    /\ At(c, "request")
    /\ Conclude(c, "failed")
    /\ UNCHANGED <<core, batch, table, cancelable, store, history>>

ByShellGrant(c) == Of(c).model /\ Of(c).shell /\ Of(c).inProfile /\ Of(c).session \in shellGrant
ByGrant(c) == Of(c).model /\ Of(c).inProfile /\ Matching(c) # {}
NeedsScope(c) == Of(c).model /\ Of(c).scoped

\* A session grant for shell tools.
AllowShell(c) ==
    /\ At(c, "request") /\ ByShellGrant(c)
    /\ Decide(c, TRUE)
    /\ byShell' = byShell \cup {c}
    /\ UNCHANGED <<core, batch, table, cancelable, store, launched, ground>>

\* A capability grant, the first that matches; "once" is spent here.
AllowByGrant(c) ==
    /\ At(c, "request") /\ ~ ByShellGrant(c) /\ ByGrant(c)
    /\ \E g \in grants : /\ IsFirst(g, c)
                         /\ grants' = Consume(g)
                         /\ ground' = [ground EXCEPT ![c] = {g}]
    /\ Decide(c, TRUE)
    /\ UNCHANGED <<core, batch, table, cancelable, shellGrant, nextId, launched, byShell>>

\* No grant: a risky action of the model is denied, anything else goes by rules,
\* profile and risk; asking is refused where nobody can be asked.
DecideByPolicy(c) ==
    /\ At(c, "request") /\ ~ ByShellGrant(c) /\ ~ ByGrant(c)
    /\ NeedsScope(c) \/ Of(c).policy # "ask" \/ ~ Interactive
    /\ Decide(c, Of(c).policy = "allow" /\ ~ NeedsScope(c))
    /\ UNCHANGED <<core, batch, table, cancelable, store, history>>

RegisterSlip(c) == UNCHANGED pending

\* request_approval puts the future in the table, then writes the audit log and
\* publishes approval.pending.
Register(c) == pending' = pending \cup {c}

Ask(c) ==
    /\ At(c, "request") /\ ~ ByShellGrant(c) /\ ~ ByGrant(c)
    /\ ~ NeedsScope(c) /\ Of(c).policy = "ask" /\ Interactive
    /\ Register(c)
    /\ Goto(c, "announcing")
    /\ UNCHANGED <<core, batch, answer, cancelable, store, history>>

\* ... and only then waits for it, with no timeout of its own.
Listen(c) ==
    /\ call[c].pc \in {"announcing", "announcing_inner"}
    /\ Goto(c, IF At(c, "announcing") THEN "waiting" ELSE "waiting_inner")
    /\ UNCHANGED <<core, batch, table, cancelable, store, history>>

CanAnswerSlip(c) == c \in pending
CanAnswer(c) == c \in pending /\ answer[c] = "none"

\* approval.respond: an answered request is refused.
Respond(c, a) ==
    /\ core # "down" /\ CanAnswer(c)
    /\ answer' = [answer EXCEPT ![c] = a]
    /\ UNCHANGED <<core, batch, call, pending, cancelable, store, history>>

HearSlip(c) ==
    /\ At(c, "waiting") /\ answer[c] # "none"
    /\ pending' = pending \ {c}
    /\ Decide(c, TRUE)
    /\ UNCHANGED <<core, batch, answer, cancelable, store, history>>

Hear(c) ==
    /\ At(c, "waiting") /\ answer[c] # "none"
    /\ pending' = pending \ {c}
    /\ Decide(c, answer[c] = "yes")
    /\ UNCHANGED <<core, batch, answer, cancelable, store, history>>

---------------------------------------------------------------------------
(* The tool *)

Refuse(c) ==
    /\ At(c, "decided") /\ ~ call[c].allowed
    /\ Conclude(c, "denied")
    /\ UNCHANGED <<core, batch, table, cancelable, store, history>>

\* The cancel event is registered, then tool.started published.
Start(c) ==
    /\ At(c, "decided") /\ call[c].allowed
    /\ cancelable' = cancelable \cup {c}
    /\ Goto(c, "starting")
    /\ UNCHANGED <<core, batch, table, store, history>>

Launch(c) ==
    /\ At(c, "starting")
    /\ launched' = launched \cup {c}
    /\ Goto(c, "running")
    /\ UNCHANGED <<core, batch, table, cancelable, store, ground, byShell>>

\* approval.request as a tool asks inside its invocation, so under its timeout.
AskInTool(c) ==
    /\ At(c, "running") /\ Of(c).tool = "approval" /\ ~ call[c].asked
    /\ IF Interactive THEN Register(c) ELSE UNCHANGED pending
    /\ LET next == IF Interactive THEN "announcing_inner" ELSE "running"
       IN  call' = [call EXCEPT ![c] = [call[c] EXCEPT !.asked = TRUE, !.pc = next]]
    /\ UNCHANGED <<core, batch, answer, cancelable, store, history>>

HearInTool(c) ==
    /\ At(c, "waiting_inner") /\ answer[c] # "none"
    /\ pending' = pending \ {c}
    /\ Goto(c, "running")
    /\ UNCHANGED <<core, batch, answer, cancelable, store, history>>

\* tools.cancel sets an event the tool may look at.
CancelCall(c) ==
    /\ c \in cancelable /\ ~ call[c].flag
    /\ call' = [call EXCEPT ![c].flag = TRUE]
    /\ UNCHANGED <<core, batch, table, cancelable, store, history>>

EndTool(c) ==
    /\ At(c, "running") /\ (Of(c).tool = "approval" => call[c].asked)
    /\ \/ Conclude(c, "failed")
       \/ Conclude(c, IF call[c].flag THEN "cancelled" ELSE "succeeded")
    /\ cancelable' = cancelable \ {c}
    /\ UNCHANGED <<core, batch, table, store, history>>

\* asyncio.timeout: an approval the tool waits for is withdrawn by its finally.
TimeOut(c) ==
    /\ call[c].pc \in InTool
    /\ call' = [call EXCEPT ![c] =
                   [call[c] EXCEPT !.pc = "finishing", !.flag = TRUE, !.status = "timed_out"]]
    /\ cancelable' = cancelable \ {c}
    /\ pending' = IF At(c, "waiting_inner") THEN pending \ {c} ELSE pending
    /\ UNCHANGED <<core, batch, answer, store, history>>

Finish(c) ==
    /\ At(c, "finishing")
    /\ Goto(c, "over")
    /\ UNCHANGED <<core, batch, table, cancelable, store, history>>

---------------------------------------------------------------------------
(* Cancellation and shutdown *)

\* A cancellation inside the tool becomes its result; anywhere else it goes through.
Unwound(c) ==
    IF call[c].pc \in InTool
    THEN [call[c] EXCEPT !.pc = "finishing", !.flag = TRUE, !.status = "cancelled"]
    ELSE [call[c] EXCEPT !.pc = "aborted"]

\* The tasks of the batches B are cancelled.  A sequential batch whose call turned
\* the cancellation into a result goes on with its next call; gather does not.
CancelTasks(B) ==
    LET reached == {c \in Calls : Of(c).batch \in B /\ IsInFlight(c)}
        absorbed == {b \in B \ Parallel : \E c \in reached : Of(c).batch = b /\ call[c].pc \in InTool}
    IN  /\ call' = [c \in Calls |-> IF c \in reached THEN Unwound(c) ELSE call[c]]
        /\ pending' = pending \ {c \in reached : call[c].pc \in {"waiting", "waiting_inner"}}
        /\ cancelable' = cancelable \ {c \in reached : call[c].pc \in InTool}
        /\ batch' = [b \in Batches |-> IF b \in B \ absorbed THEN "cancelled" ELSE batch[b]]

\* conversations.cancel
CancelRun(b) ==
    /\ b \in RunBatches /\ batch[b] = "open"
    /\ \E c \in Calls : Of(c).batch = b /\ IsInFlight(c)
    /\ CancelTasks({b})
    /\ UNCHANGED <<core, answer, store, history>>

\* stop: the orchestrator refuses new runs and cancels those it has ...
Stop ==
    /\ core = "up"
    /\ core' = "stopping"
    /\ CancelTasks({b \in RunBatches : batch[b] = "open"})
    /\ UNCHANGED <<answer, store, history>>

ClosingSlip == [c \in Calls |-> IF CanAnswer(c) THEN "cancelled" ELSE answer[c]]
\* shutdown answers every future that is still open with False.
Closing == [c \in Calls |-> IF CanAnswer(c) THEN "no" ELSE answer[c]]

RunsEndedSlip == TRUE
\* shutdown of the orchestrator gathers the tasks it cancelled.
RunsEnded ==
    /\ \A b \in RunBatches : batch[b] # "open"
    /\ \A c \in Calls : OfRun(c) => ~ IsInFlight(c)

\* ... waits for them, then answers the approvals and clears their table ...
CloseApprovals ==
    /\ core = "stopping" /\ RunsEnded
    /\ core' = "closed"
    /\ answer' = Closing
    /\ pending' = {}
    /\ UNCHANGED <<batch, call, cancelable, store, history>>

\* ... and ends with its sessions, plugins and services stopped.
Stopped ==
    /\ core = "closed"
    /\ core' = "down"
    /\ UNCHANGED <<batch, call, table, cancelable, store, history>>

---------------------------------------------------------------------------
\* What a call does without a client.
Advance(c) ==
    \/ Begin(c) \/ Reject(c) \/ AllowShell(c) \/ AllowByGrant(c) \/ DecideByPolicy(c) \/ Ask(c)
    \/ Listen(c) \/ Hear(c) \/ Refuse(c) \/ Start(c) \/ Launch(c) \/ AskInTool(c) \/ HearInTool(c)
    \/ EndTool(c) \/ TimeOut(c) \/ Finish(c)

Client(c) == (\E a \in {"yes", "no"} : Respond(c, a)) \/ CancelCall(c)

Permissions ==
    \/ \E s \in Sessions, o \in Offers, a \in BOOLEAN : SetGrant(s, o, a)
    \/ \E g \in grants : Revoke({g})
    \/ \E k \in Capabilities : Revoke({g \in grants : g.cap = k})
    \/ \E s \in Sessions, a \in BOOLEAN : SetShellGrant(s, a)

Next ==
    \/ \E c \in Calls : Advance(c) \/ Client(c)
    \/ \E b \in Batches : StartBatch(b) \/ EndBatch(b) \/ CancelRun(b)
    \/ Permissions
    \/ Stop \/ CloseApprovals \/ Stopped

\* Audit, events and tools take a bounded time (tools have timeouts); a stop goes on.
Fairness ==
    /\ \A c \in Calls : WF_vars(Advance(c))
    /\ \A b \in Batches : WF_vars(EndBatch(b))
    /\ WF_vars(CloseApprovals) /\ WF_vars(Stopped)

Spec == Init /\ [][Next]_vars
FairSpec == Spec /\ Fairness

---------------------------------------------------------------------------
(* Correctness *)

\* Types of the executor's, the approval table's and the grant store's state.
TypeOK ==
    /\ core \in {"up", "stopping", "closed", "down"}
    /\ batch \in [Batches -> {"idle", "open", "done", "cancelled"}]
    /\ call \in [Calls -> Call]
    /\ pending \in SUBSET Calls
    /\ answer \in [Calls -> {"none", "yes", "no"}]
    /\ cancelable \in SUBSET Calls
    /\ shellGrant \in SUBSET Sessions
    /\ grants \in SUBSET Grant
    /\ nextId \in Nat
    /\ launched \in SUBSET Calls
    /\ ground \in [Calls -> SUBSET Grant]
    /\ byShell \in SUBSET Calls

\* A "once" grant lets one call through, however many calls of a parallel batch are
\* being decided when it matches them all (permissions.py:674-696).
OnceGrantServesOneCall ==
    \A c, d \in Calls : \A g \in ground[c] \cap ground[d] : g.lifetime = "once" => c = d

\* A risky call of a model that ran, and was not let through by allow-all-cmd, had a
\* grant of its own session and, if the grant was for one run, of its own run.
GrantsStayInScope ==
    \A c \in launched : Of(c).model /\ Of(c).scoped /\ c \notin byShell =>
        \E g \in ground[c] : /\ g.session = Of(c).session
                             /\ g.lifetime = "run" => g.scope = Of(c).run

\* What the user was asked runs only on the user's yes to that very call: not after a
\* no, not because the core shuts down.
AskedRunsOnYes ==
    \A c \in launched : Of(c).policy = "ask" /\ ground[c] = {} /\ c \notin byShell => answer[c] = "yes"

\* The first answer counts: neither a second response nor the shutdown changes it.
AnswerIsFinal ==
    [][\A c \in Calls : answer[c] # "none" => answer'[c] = answer[c]]_answer

\* Once stop has shut the approvals down no call of a run is on its way.
ClosedCoreRunsNothing ==
    core \in {"closed", "down"} => \A c \in Calls : OfRun(c) => ~ IsInFlight(c)

\* Every call comes to an end, unless it waits for an answer that a client can list
\* and give.
CallsEnd ==
    \A c \in Calls : IsInFlight(c) ~>
        (~ IsInFlight(c) \/ (At(c, "waiting") /\ CanAnswer(c)))

\* stop cancels the runs that are active and comes to an end.
StopEnds == core = "stopping" ~> core = "down"
==================================================================================
