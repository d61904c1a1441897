-------------------------------- MODULE Bridge --------------------------------
(***************************************************************************)
(* The desktop's way to the core: the Tauri commands of bridge.rs, the     *)
(* pipes of the child process, and transport.JsonLineServer at its other   *)
(* end.                                                                    *)
(*                                                                         *)
(* bridge_request holds the controller's mutex from the spawn of the core  *)
(* until the response has come or its time is over; draining events and    *)
(* shutting the core down need the same mutex.  The server reads lines as  *)
(* they come and handles each in a task of its own, which may wait for an  *)
(* approval; events and responses share one locked output.                 *)
(***************************************************************************)
EXTENDS Naturals, Sequences, FiniteSets

CONSTANTS
    Commands,   \* requests the desktop makes, each once
    Kinds,      \* kinds of requests it makes
    Nobody,     \* no command
    Limit,      \* EVENT_QUEUE_LIMIT
    MaxDeaths   \* bound: how often a core process dies

ASSUME BridgeAssumption ==
    /\ Nobody \notin Commands
    /\ Kinds \subseteq {"query", "tool", "change", "unknown", "run", "cancel", "respond"}
    /\ Limit \in Nat \ {0} /\ MaxDeaths \in Nat

VARIABLES
    app,      \* the desktop process: "up" or "down"
    kind, target, state, outcome,  \* of each command
    holder,   \* who holds the controller's mutex across steps
    process,  \* controller.process: "none", "running", or "dead" and still there
    pending,  \* requests that wait for a response by id
    inbox,    \* responses put in a channel and not received
    queue,    \* event_queue
    drained,  \* history: the last event drained or passed to the desktop
    known,    \* runs whose approval.pending the desktop has drained
    stdin, stdout,  \* lines in the pipes
    serve,    \* the server: "none", "reading" or "draining"
    task,     \* the handler of each request
    lines,    \* what it has still to write
    handled,  \* history: requests a handler has acted on
    emitted,  \* events the running core has written
    deaths    \* bound

command == <<kind, target, state, outcome, holder>>
bridge == <<pending, inbox, queue, drained, known>>
core == <<serve, task, lines, handled, emitted>>
vars == <<app, command, process, bridge, stdin, stdout, core, deaths>>

---------------------------------------------------------------------------
(* Vocabulary *)

States == {"idle", "asked", "waiting", "expired", "over"}
Outcomes == {"none", "answered", "failed", "timeout"}

\* "asking": a run that waits for an approval; "cancelled": one whose task has
\* been cancelled and that has not ended yet.
Tasks == {"none", "handling", "running", "asking", "cancelled", "writing"}

Event(n, r) == [type |-> "event", n |-> n, of |-> r]
Response(k) == [type |-> "response", n |-> 0, of |-> k]
Line == [type: {"event", "response"}, n: Nat, of: Commands \cup {Nobody}]

Idle == [k \in Commands |-> "none"]
Silent == [k \in Commands |-> <<>>]

Live(r) == task[r] \in {"running", "asking"}

\* Where the desktop's copy of the event stream ends.
LastRouted == IF queue = <<>> THEN drained ELSE queue[Len(queue)].n

NoLimitSlip(events) == events

NewestSlip(events) ==
    IF Len(events) > Limit THEN SubSeq(events, 1, Limit) ELSE events

\* The queue keeps its newest events.
Newest(events) ==
    IF Len(events) > Limit THEN SubSeq(events, Len(events) - Limit + 1, Len(events)) ELSE events

---------------------------------------------------------------------------
Init ==
    /\ app = "up"
    /\ kind = [k \in Commands |-> "query"]
    /\ target = [k \in Commands |-> Nobody]
    /\ state = [k \in Commands |-> "idle"]
    /\ outcome = [k \in Commands |-> "none"]
    /\ holder = Nobody
    /\ process = "none"
    /\ pending = {} /\ inbox = {} /\ queue = <<>> /\ drained = 0 /\ known = {}
    /\ stdin = <<>> /\ stdout = <<>>
    /\ serve = "none" /\ task = Idle /\ lines = Silent
    /\ handled = [k \in Commands |-> FALSE]
    /\ emitted = 0
    /\ deaths = 0

---------------------------------------------------------------------------
(* The Tauri commands *)

\* Cancels name a run the desktop has asked for, answers an approval it was told of.
Ask(k, d, r) ==
    /\ app = "up" /\ state[k] = "idle"
    /\ CASE d = "cancel"  -> r \in Commands /\ kind[r] = "run" /\ state[r] # "idle"
         [] d = "respond" -> r \in known
         [] OTHER         -> r = Nobody
    /\ kind' = [kind EXCEPT ![k] = d]
    /\ target' = [target EXCEPT ![k] = r]
    /\ state' = [state EXCEPT ![k] = "asked"]
    /\ UNCHANGED <<app, outcome, holder, process, bridge, stdin, stdout, core, deaths>>

MayLock(k) == app = "up" /\ state[k] = "asked" /\ holder = Nobody

Over(k, o) ==
    /\ state' = [state EXCEPT ![k] = "over"]
    /\ outcome' = [outcome EXCEPT ![k] = o]
    /\ holder' = Nobody

SendSlip(k) ==
    /\ MayLock(k) /\ process \in {"none", "running"}
    /\ process' = "running"
    /\ serve' = IF process = "none" THEN "reading" ELSE serve
    /\ pending' = pending \cup {k}
    /\ stdin' = Append(stdin, k)
    /\ state' = [state EXCEPT ![k] = "waiting"]
    /\ UNCHANGED <<app, kind, target, outcome, holder, inbox, queue, drained, known, stdout,
                   task, lines, handled, emitted, deaths>>

\* The first request spawns the core; one to a process that is there is written
\* to its input and waits with the mutex held.
Send(k) ==
    /\ MayLock(k) /\ process \in {"none", "running"}
    /\ process' = "running"
    /\ serve' = IF process = "none" THEN "reading" ELSE serve
    /\ pending' = pending \cup {k}
    /\ stdin' = Append(stdin, k)
    /\ state' = [state EXCEPT ![k] = "waiting"]
    /\ holder' = k
    /\ UNCHANGED <<app, kind, target, outcome, inbox, queue, drained, known, stdout,
                   task, lines, handled, emitted, deaths>>

SpawnFails(k) ==
    /\ MayLock(k) /\ process = "none"
    /\ Over(k, "failed")
    /\ UNCHANGED <<app, kind, target, process, bridge, stdin, stdout, core, deaths>>

\* The write to a dead process fails and takes the request out of pending
\* again; the process stays where it is.
WriteFails(k) ==
    /\ MayLock(k) /\ process = "dead"
    /\ Over(k, "failed")
    /\ UNCHANGED <<app, kind, target, process, bridge, stdin, stdout, core, deaths>>

Receive(k) ==
    /\ app = "up" /\ state[k] = "waiting" /\ k \in inbox
    /\ inbox' = inbox \ {k}
    /\ Over(k, "answered")
    /\ UNCHANGED <<app, kind, target, process, pending, queue, drained, known,
                   stdin, stdout, core, deaths>>

Expire(k) ==
    /\ app = "up" /\ state[k] = "waiting" /\ k \notin inbox
    /\ state' = [state EXCEPT ![k] = "expired"]
    /\ UNCHANGED <<app, kind, target, outcome, holder, process, bridge, stdin, stdout,
                   core, deaths>>

GiveUpSlip(k) ==
    /\ app = "up" /\ state[k] = "expired"
    /\ pending' = pending \ {k}
    /\ state' = [state EXCEPT ![k] = "over"]
    /\ outcome' = [outcome EXCEPT ![k] = "timeout"]
    /\ UNCHANGED <<app, kind, target, holder, process, inbox, queue, drained, known,
                   stdin, stdout, core, deaths>>

KeepPendingSlip(k) ==
    /\ app = "up" /\ state[k] = "expired"
    /\ inbox' = inbox \ {k}
    /\ Over(k, "timeout")
    /\ UNCHANGED <<app, kind, target, process, pending, queue, drained, known,
                   stdin, stdout, core, deaths>>

\* remove_pending: a response routed since then is dropped with its channel.
GiveUp(k) ==
    /\ app = "up" /\ state[k] = "expired"
    /\ pending' = pending \ {k}
    /\ inbox' = inbox \ {k}
    /\ Over(k, "timeout")
    /\ UNCHANGED <<app, kind, target, process, queue, drained, known,
                   stdin, stdout, core, deaths>>

DrainEvents ==
    /\ app = "up" /\ holder = Nobody /\ queue # <<>>
    /\ drained' = LastRouted
    /\ known' = known \cup ({queue[i].of : i \in DOMAIN queue} \ {Nobody})
    /\ queue' = <<>>
    /\ UNCHANGED <<app, command, process, pending, inbox, stdin, stdout, core, deaths>>

\* The child is killed, never asked to end; what is in the pipes and the queue
\* goes with it.
ShutdownCore ==
    /\ app = "up" /\ holder = Nobody /\ process # "none"
    /\ process' = "none"
    /\ pending' = {} /\ queue' = <<>> /\ drained' = 0
    /\ stdin' = <<>> /\ stdout' = <<>>
    /\ serve' = "none" /\ task' = Idle /\ lines' = Silent /\ emitted' = 0
    /\ UNCHANGED <<app, command, inbox, known, handled, deaths>>

\* The desktop ends without running its destructors: its ends of the pipes close.
AppDies ==
    /\ app = "up"
    /\ app' = "down"
    /\ stdout' = <<>>
    /\ UNCHANGED <<command, process, bridge, stdin, core, deaths>>

---------------------------------------------------------------------------
(* The thread that reads the core's output *)

RouteEvent ==
    /\ app = "up" /\ stdout # <<>> /\ Head(stdout).type = "event"
    /\ queue' = Newest(Append(queue, Head(stdout)))
    /\ stdout' = Tail(stdout)
    /\ UNCHANGED <<app, command, process, pending, inbox, drained, known, stdin, core, deaths>>

RouteResponseSlip ==
    /\ app = "up" /\ stdout # <<>> /\ Head(stdout).type = "response"
    /\ inbox' = inbox \cup pending
    /\ pending' = {}
    /\ stdout' = Tail(stdout)
    /\ UNCHANGED <<app, command, process, queue, drained, known, stdin, core, deaths>>

\* A response whose request has been given up is dropped.
RouteResponse ==
    /\ app = "up" /\ stdout # <<>> /\ Head(stdout).type = "response"
    /\ inbox' = inbox \cup (pending \cap {Head(stdout).of})
    /\ pending' = pending \ {Head(stdout).of}
    /\ stdout' = Tail(stdout)
    /\ UNCHANGED <<app, command, process, queue, drained, known, stdin, core, deaths>>

---------------------------------------------------------------------------
(* JsonLineServer.serve *)

ReadLine ==
    /\ serve = "reading" /\ stdin # <<>>
    /\ task' = [task EXCEPT ![Head(stdin)] = "handling"]
    /\ stdin' = Tail(stdin)
    /\ UNCHANGED <<app, command, process, bridge, stdout, serve, lines, handled, emitted, deaths>>

EndOfInputSlip ==
    /\ serve = "reading" /\ stdin = <<>> /\ app = "down"
    /\ UNCHANGED vars

\* At the end of the input the loop is left and the requests in progress are awaited.
EndOfInput ==
    /\ serve = "reading" /\ stdin = <<>> /\ app = "down"
    /\ serve' = "draining"
    /\ UNCHANGED <<app, command, process, bridge, stdin, stdout, task, lines, handled,
                   emitted, deaths>>

\* The last request is over: the core stops and its process ends.
Stop ==
    /\ serve = "draining" /\ task = Idle
    /\ serve' = "none" /\ process' = "dead"
    /\ UNCHANGED <<app, command, bridge, stdin, stdout, task, lines, handled, emitted, deaths>>

\* The process dies: only what it has written stays readable.
Die ==
    /\ process = "running" /\ deaths < MaxDeaths
    /\ process' = "dead"
    /\ serve' = "none" /\ task' = Idle /\ lines' = Silent /\ stdin' = <<>>
    /\ deaths' = deaths + 1
    /\ UNCHANGED <<app, command, bridge, stdout, handled, emitted>>

---------------------------------------------------------------------------
(* JsonLineServer.handle_line: what a handler does, then writes. *)

\* The events a handler's publishing writes, in order, then its own lines.
Say(k, events, reply) ==
    lines' = [lines EXCEPT ![k] = @ \o [i \in 1..Len(events) |-> Event(0, events[i])] \o reply]

Handles(k, d) ==
    /\ task[k] = "handling" /\ kind[k] = d
    /\ handled' = [handled EXCEPT ![k] = TRUE]
    /\ UNCHANGED <<app, command, process, bridge, stdin, stdout, serve, emitted, deaths>>

Answers(k, d, events) ==
    /\ Handles(k, d)
    /\ Say(k, events, <<Response(k)>>)
    /\ task' = [task EXCEPT ![k] = "writing"]

\* Snapshots and lists, which change nothing.
Query(k) == Answers(k, "query", <<>>)

\* tool.started and tool.finished.
InvokeTool(k) == Answers(k, "tool", <<Nobody, Nobody>>)

\* A grant, the allow-all switch: each announced.
ChangePermission(k) == Answers(k, "change", <<Nobody>>)

UnknownMethod(k) == Answers(k, "unknown", <<>>)

StartRun(k) ==
    /\ Handles(k, "run")
    /\ Say(k, <<>>, <<>>)
    /\ task' = [task EXCEPT ![k] = "running"]

AskApproval(r) ==
    /\ task[r] = "running" /\ lines[r] = <<>>
    /\ task' = [task EXCEPT ![r] = "asking"]
    /\ Say(r, <<r>>, <<>>)
    /\ UNCHANGED <<app, command, process, bridge, stdin, stdout, serve, handled, emitted, deaths>>

EndRun(r) ==
    /\ task[r] = "running" /\ lines[r] = <<>>
    /\ task' = [task EXCEPT ![r] = "writing"]
    /\ Say(r, <<Nobody>>, <<Response(r)>>)
    /\ UNCHANGED <<app, command, process, bridge, stdin, stdout, serve, handled, emitted, deaths>>

CancelRun(k) ==
    /\ Handles(k, "cancel")
    /\ Say(k, <<>>, <<Response(k)>>)
    /\ task' = [j \in Commands |->
            CASE j = k -> "writing"
              [] j = target[k] /\ Live(j) -> "cancelled"
              [] OTHER -> task[j]]

\* CancelledError passes handle_line's except Exception: no response is written.
EndCancelled(r) ==
    /\ task[r] = "cancelled"
    /\ task' = [task EXCEPT ![r] = "writing"]
    /\ Say(r, <<Nobody>>, <<>>)
    /\ UNCHANGED <<app, command, process, bridge, stdin, stdout, serve, handled, emitted, deaths>>

\* The answer is announced before it is acknowledged; one to an approval that
\* is gone is refused.
RespondApproval(k) ==
    LET waits == task[target[k]] = "asking" IN
    /\ Handles(k, "respond")
    /\ Say(k, IF waits THEN <<Nobody>> ELSE <<>>, <<Response(k)>>)
    /\ task' = [j \in Commands |->
            CASE j = k -> "writing"
              [] j = target[k] /\ waits -> "running"
              [] OTHER -> task[j]]

\* One line at a time, under the write lock, which numbers the events; a task
\* ends with its last line.  Nobody reads what is written after the desktop's end.
Write(k) ==
    LET line == Head(lines[k])
        heard == app = "up" /\ line.type = "event"
    IN  /\ lines[k] # <<>>
        /\ emitted' = IF heard THEN emitted + 1 ELSE emitted
        /\ stdout' = IF app = "down" THEN stdout
                     ELSE Append(stdout, IF heard THEN Event(emitted + 1, line.of) ELSE line)
        /\ lines' = [lines EXCEPT ![k] = Tail(lines[k])]
        /\ task' = [task EXCEPT ![k] =
                IF task[k] = "writing" /\ Len(lines[k]) = 1 THEN "none" ELSE task[k]]
        /\ UNCHANGED <<app, command, process, bridge, stdin, serve, handled, deaths>>

---------------------------------------------------------------------------
Tauri(k) ==
    \/ \E d \in Kinds, r \in Commands \cup {Nobody} : Ask(k, d, r)
    \/ Send(k) \/ SpawnFails(k) \/ WriteFails(k)
    \/ Receive(k) \/ Expire(k) \/ GiveUp(k)

Handler(k) ==
    \/ Query(k) \/ InvokeTool(k) \/ ChangePermission(k) \/ UnknownMethod(k)
    \/ StartRun(k) \/ AskApproval(k) \/ EndRun(k)
    \/ CancelRun(k) \/ EndCancelled(k) \/ RespondApproval(k)
    \/ Write(k)

Next ==
    \/ \E k \in Commands : Tauri(k) \/ Handler(k)
    \/ DrainEvents \/ ShutdownCore \/ AppDies
    \/ RouteEvent \/ RouteResponse
    \/ ReadLine \/ EndOfInput \/ Stop \/ Die

\* Requests get their turn at the mutex, receive or run out of time; the core
\* goes on with what it can go on with.  The desktop owes nothing: it may never
\* ask, drain or shut down.
Fairness ==
    /\ \A k \in Commands :
          /\ WF_vars(Send(k) \/ SpawnFails(k) \/ WriteFails(k))
          /\ WF_vars(Receive(k) \/ Expire(k)) /\ WF_vars(GiveUp(k))
          /\ WF_vars(Write(k))
          /\ WF_vars(EndRun(k) \/ EndCancelled(k))
          /\ WF_vars(Query(k) \/ InvokeTool(k) \/ ChangePermission(k) \/ UnknownMethod(k)
                     \/ StartRun(k) \/ CancelRun(k) \/ RespondApproval(k))
    /\ WF_vars(ReadLine) /\ WF_vars(EndOfInput) /\ WF_vars(Stop)

Spec == Init /\ [][Next]_vars
FairSpec == Spec /\ Fairness

---------------------------------------------------------------------------
(* Properties *)

TypeOK ==
    /\ app \in {"up", "down"}
    /\ kind \in [Commands -> {"query"} \cup Kinds]
    /\ target \in [Commands -> Commands \cup {Nobody}]
    /\ state \in [Commands -> States]
    /\ outcome \in [Commands -> Outcomes]
    /\ holder \in Commands \cup {Nobody}
    /\ process \in {"none", "running", "dead"}
    /\ pending \subseteq Commands /\ inbox \subseteq Commands
    /\ queue \in Seq(Line) /\ Len(queue) <= Limit
    /\ drained \in Nat /\ known \subseteq Commands
    /\ stdin \in Seq(Commands) /\ stdout \in Seq(Line)
    /\ serve \in {"none", "reading", "draining"}
    /\ task \in [Commands -> Tasks] /\ lines \in [Commands -> Seq(Line)]
    /\ handled \in [Commands -> BOOLEAN]
    /\ emitted \in Nat /\ deaths \in 0..MaxDeaths

\* The mutex is held by the one command that waits, and only it can be in
\* pending or have a response: nothing of a request that is over is left.
MutexCoversWait ==
    /\ \A k \in Commands : state[k] \in {"waiting", "expired"} <=> holder = k
    /\ pending \cup inbox \subseteq {holder}
    /\ pending \cap inbox = {}

\* Whatever the core is busy with for this desktop is the request that holds
\* the mutex or one that has been given up: while a run is awaited, neither an
\* answer to its approval nor its cancellation can be on its way.
OneRequestAtATime ==
    app = "up" => \A k \in Commands :
        \/ task[k] = "none" /\ \A i \in DOMAIN stdin : stdin[i] # k
        \/ holder = k
        \/ outcome[k] = "timeout"

\* What reaches the desktop are the events in the order they were written,
\* none twice; only a full queue loses any, and those are the oldest.
EventsAreTheNewest ==
    /\ \A i \in DOMAIN queue : queue[i].n = LastRouted - Len(queue) + i
    /\ Len(queue) < Limit => LastRouted = drained + Len(queue)
    /\ \A i \in DOMAIN stdout : stdout[i].type = "event" =>
          /\ LastRouted < stdout[i].n /\ stdout[i].n <= emitted
          /\ \A j \in 1..(i - 1) : stdout[j].n < stdout[i].n

Contract == INSTANCE BridgeContract WITH
    outcome <- [k \in Commands |-> IF outcome[k] = "timeout" THEN "failed" ELSE outcome[k]]

\* The bridge implements the contract of a request.
ImplementsContract == Contract!Spec

\* Every command the desktop has issued ends while the desktop lives, whatever
\* becomes of the core.
EveryCommandEnds ==
    \A k \in Commands : state[k] = "asked" ~> state[k] = "over" \/ app = "down"

\* A core whose desktop has died ends, except for a run that waits for an
\* approval nobody can give any more.
OrphanEnds ==
    app = "down" ~> process # "running" \/ \E r \in Commands : task[r] = "asking"
===============================================================================
