----------------------------- MODULE CoreLifecycle -----------------------------
(***************************************************************************)
(* The life of a core: start, settings updates that reload the plugins,    *)
(* stop and restart (app.YueCore), the registries the plugins fill through *)
(* plugins.PluginManager, the settings file, and the shell sessions that a *)
(* stop has to end (shell_sessions.ShellSessionManager).                   *)
(*                                                                         *)
(* A plugin registers in setup, acquires what it needs in start, which is  *)
(* awaited, and releases it in stop, which is awaited too; each may raise. *)
(* Start, updates and stop come one at a time: serve starts the core       *)
(* before it reads a request and stops it after the last one, and the      *)
(* desktop sends one request at a time (OneRequestAtATime in Bridge).      *)
(***************************************************************************)
EXTENDS Naturals, FiniteSets

CONSTANTS
    Plugins,    \* plugins in the plugin roots
    Rank,       \* their order: load_enabled sorts their ids
    Names,      \* names of model providers
    CoreNames,  \* those the core registers itself
    Configs,    \* settings: what is enabled, with which options and routes
    Enabled, Provides, Routes, Default, Fails,  \* what a configuration says, see below
    FirstConfig, DefaultConfig, Torn, \* Torn: a settings file half written
    Services, Started,  \* what __init__ registers for the core, and what start does
    Sessions,   \* shell sessions, each started at most once in a core
    SessionId,  \* the id each goes by
    MaxUpdates, MaxFaults, MaxStarts  \* bounds

\* Provides[c][p]: the names p's setup registers under c's options; Routes[c]: the
\* providers the routes name; Fails[c]: plugins whose setup refuses c's options.
ASSUME LifecycleAssumption ==
    /\ Rank \in [Plugins -> Nat]
    /\ \A p, q \in Plugins : Rank[p] = Rank[q] => p = q
    /\ \A S \in SUBSET Plugins \ {{}} :
          /\ \E p \in S : \A q \in S : Rank[p] <= Rank[q]
          /\ \E p \in S : \A q \in S : Rank[q] <= Rank[p]
    /\ CoreNames \subseteq Names
    /\ Enabled \in [Configs -> SUBSET Plugins]
    /\ Provides \in [Configs -> [Plugins -> SUBSET Names]]
    /\ Routes \in [Configs -> SUBSET Names] /\ Default \in [Configs -> Names]
    /\ Fails \in [Configs -> SUBSET Plugins]
    /\ FirstConfig \in Configs /\ DefaultConfig \in Configs /\ Torn \notin Configs
    /\ Started \subseteq Services
    /\ DOMAIN SessionId = Sessions
    /\ {MaxUpdates, MaxFaults, MaxStarts} \subseteq Nat

VARIABLES
    op,         \* the operation in progress
    step,       \* where it is
    previous,   \* an update's settings to go back to
    settings,   \* the settings in memory
    file,       \* the settings file
    config,     \* the settings the plugin manager was made with
    loaded,     \* its plugins
    running,    \* those whose started flag is set
    left,       \* plugins the manager's loop has not come to
    holds,      \* plugins that hold what start acquires
    registered, \* the provider names each plugin has in the registry
    tools,      \* whether the core's own tools and provider are registered
    services,   \* the core's services
    up,         \* _started
    broken,     \* history: an operation has failed and nothing has repaired it yet
    session,    \* each shell session's process: "none", "running" or "exited"
    table,      \* the sessions that can be found by their id
    pipe,       \* whether its pipes are open
    toStop,     \* sessions stop_all has still to end
    late,       \* history: sessions started after stop_all took its list
    updates, faults, starts  \* bounds

manager == <<config, loaded, running, left, holds, registered>>
shells == <<session, table, pipe, toStop, late>>
bounds == <<updates, faults, starts>>
vars == <<op, step, previous, settings, file, manager, tools, services, up, broken,
          shells, bounds>>

---------------------------------------------------------------------------
(* Vocabulary *)

Ops == {"none", "start", "abandon", "update", "rollback", "save", "stop"}
Steps == {"idle", "sessions", "unload", "launch", "write", "writing"}

First(S) == CHOOSE p \in S : \A q \in S : Rank[p] <= Rank[q]
Last(S) == CHOOSE p \in S : \A q \in S : Rank[q] <= Rank[p]

Before(c, p) == {q \in Enabled[c] : Rank[q] < Rank[p]}
Taken == CoreNames \cup UNION {registered[p] : p \in Plugins}
Needs(c) == Routes[c] \cup {Default[c]}

\* Setup raises, or registers a name that is taken.
Refuses(c, p) ==
    \/ p \in Fails[c]
    \/ Provides[c][p] \cap (Taken \cup UNION {Provides[c][q] : q \in Before(c, p)}) # {}

\* load_enabled stops at the first plugin that fails; load takes its
\* registrations back and leaves those before it loaded.
Loads(c) == {p \in Enabled[c] :
                ~Refuses(c, p) /\ \A q \in Before(c, p) : ~Refuses(c, q)}

\* A configuration whose plugins load and provide what its routes name.
Usable(c) ==
    /\ Fails[c] \cap Enabled[c] = {}
    /\ \A p \in Enabled[c] :
          /\ Provides[c][p] \cap CoreNames = {}
          /\ \A q \in Before(c, p) : Provides[c][p] \cap Provides[c][q] = {}
    /\ Routes[c] \subseteq CoreNames \cup UNION {Provides[c][p] : p \in Enabled[c]}

None == [p \in Plugins |-> {}]

---------------------------------------------------------------------------
Init ==
    /\ op = "none" /\ step = "idle"
    /\ previous = FirstConfig /\ settings = FirstConfig /\ file = FirstConfig
    /\ config = FirstConfig
    /\ loaded = {} /\ running = {} /\ left = {} /\ holds = {} /\ registered = None
    /\ tools = FALSE /\ services = Services /\ up = FALSE /\ broken = FALSE
    /\ session = [s \in Sessions |-> "none"] /\ pipe = [s \in Sessions |-> FALSE]
    /\ table = {} /\ toStop = {} /\ late = {}
    /\ updates = 0 /\ faults = 0 /\ starts = 0

---------------------------------------------------------------------------
(* The plugin manager *)

RegisterSlip(c) ==
    [p \in Plugins |-> IF p \in Enabled[c] THEN Provides[c][p] ELSE registered[p]]

Register(c) == [p \in Plugins |-> IF p \in Loads(c) THEN Provides[c][p] ELSE registered[p]]

LoadEnabledSlip(c) ==
    /\ config' = c
    /\ loaded' = Loads(c)
    /\ registered' = Register(c)
    /\ left' = Enabled[c]
    /\ running' = {}
    /\ UNCHANGED holds

\* load_enabled with settings c: nothing in it waits.
LoadEnabled(c) ==
    /\ config' = c
    /\ loaded' = Loads(c)
    /\ registered' = Register(c)
    /\ left' = IF Loads(c) = Enabled[c] THEN Enabled[c] ELSE {}
    /\ running' = {}
    /\ UNCHANGED holds

LoadSucceeds(c) == Loads(c) = Enabled[c]

\* One turn of start_all's loop.
StartPlugin ==
    /\ step = "launch" /\ left # {}
    /\ running' = running \cup {First(left)}
    /\ holds' = holds \cup {First(left)}
    /\ left' = left \ {First(left)}
    /\ UNCHANGED <<op, step, previous, settings, file, config, loaded, registered, tools,
                   services, up, broken, shells, bounds>>

\* What a plugin's turn in stop_all takes back.
Release(p) ==
    /\ registered' = [registered EXCEPT ![p] = {}]
    /\ holds' = holds \ {p}

\* One turn of stop_all's loop, which goes backwards; the started flags stay.
StopPlugin ==
    /\ step = "unload" /\ left # {}
    /\ Release(Last(left))
    /\ left' = left \ {Last(left)}
    /\ UNCHANGED <<op, step, previous, settings, file, config, loaded, running, tools,
                   services, up, broken, shells, bounds>>

Fault == faults < MaxFaults /\ faults' = faults + 1

---------------------------------------------------------------------------
(* start *)

\* Services of the core are registered again where they are missing.  Tools that
\* are still registered make start raise.
Start ==
    /\ op = "none" /\ ~up /\ starts < MaxStarts
    /\ starts' = starts + 1
    /\ services' = services \cup Started
    /\ IF tools
       THEN /\ broken' = TRUE
            /\ UNCHANGED <<op, step, manager, tools>>
       ELSE /\ tools' = TRUE
            /\ LoadEnabled(config)
            /\ IF LoadSucceeds(config)
               THEN op' = "start" /\ step' = "launch" /\ UNCHANGED broken
               ELSE op' = "abandon" /\ step' = "idle" /\ broken' = TRUE
    /\ UNCHANGED <<previous, settings, file, up, shells, updates, faults>>

\* All plugins run and every configured provider is there.  A manager that was
\* made with settings a failed rollback left behind is used as it is.
StartUp ==
    /\ op = "start" /\ step = "launch" /\ left = {}
    /\ Needs(settings) \subseteq Taken
    /\ op' = "none" /\ step' = "idle" /\ up' = TRUE /\ broken' = (config # settings)
    /\ late' = {}
    /\ UNCHANGED <<previous, settings, file, manager, tools, services,
                   session, table, pipe, toStop, bounds>>

\* The handler of start unloads the plugins and takes the core's tools back.
Abandon ==
    /\ op = "abandon" /\ step = "idle"
    /\ step' = "unload" /\ left' = loaded
    /\ UNCHANGED <<op, previous, settings, file, config, loaded, running, holds, registered,
                   tools, services, up, broken, shells, bounds>>

Abandoned ==
    /\ op = "abandon" /\ step = "unload" /\ left = {}
    /\ op' = "none" /\ step' = "idle" /\ tools' = FALSE
    /\ loaded' = {} /\ running' = {}
    /\ UNCHANGED <<previous, settings, file, config, left, holds, registered, services,
                   up, broken, shells, bounds>>

---------------------------------------------------------------------------
(* Settings updates: providers.active, openai_compat and anthropic alike *)

Update(c) ==
    /\ op = "none" /\ up /\ updates < MaxUpdates
    /\ updates' = updates + 1
    /\ op' = "update" /\ step' = "unload" /\ left' = loaded
    /\ previous' = settings /\ settings' = c
    /\ UNCHANGED <<file, config, loaded, running, holds, registered, tools, services, up,
                   broken, shells, faults, starts>>

UpdateRoutesSlip(c) ==
    /\ op = "none" /\ up /\ updates < MaxUpdates
    /\ Enabled[c] = Enabled[settings] /\ Provides[c] = Provides[settings]
    /\ Fails[c] = Fails[settings]
    /\ updates' = updates + 1
    /\ settings' = c /\ config' = IF config = settings THEN c ELSE config
    /\ op' = "save" /\ step' = "write"
    /\ UNCHANGED <<previous, file, loaded, running, left, holds, registered, tools, services,
                   up, broken, shells, faults, starts>>

\* update_conversation_settings changes the routes and the default provider and
\* reloads nothing: it refuses routes to a provider that is not registered, and
\* takes the default as it is.
UpdateRoutes(c) ==
    /\ op = "none" /\ up /\ updates < MaxUpdates
    /\ Enabled[c] = Enabled[settings] /\ Provides[c] = Provides[settings]
    /\ Fails[c] = Fails[settings]
    /\ Routes[c] \subseteq Taken
    /\ updates' = updates + 1
    /\ settings' = c /\ config' = IF config = settings THEN c ELSE config
    /\ op' = "save" /\ step' = "write"
    /\ UNCHANGED <<previous, file, loaded, running, left, holds, registered, tools, services,
                   up, broken, shells, faults, starts>>

\* _reload_plugins once stop_all is through: a new manager with the settings of now.
Reload ==
    /\ op \in {"update", "rollback"} /\ step = "unload" /\ left = {}
    /\ LoadEnabled(settings)
    /\ IF LoadSucceeds(settings)
       THEN op' = op /\ step' = "launch"
       ELSE op' = (IF op = "update" THEN "rollback" ELSE "none") /\ step' = "idle"
    /\ settings' = IF LoadSucceeds(settings) \/ op = "rollback" THEN settings ELSE previous
    /\ broken' = (broken \/ (~LoadSucceeds(settings) /\ op = "rollback"))
    /\ UNCHANGED <<previous, file, tools, services, up, shells, bounds>>

\* The reload of an update is through: the file may be written next.
Reloaded ==
    /\ op = "update" /\ step = "launch" /\ left = {}
    /\ Needs(settings) \subseteq Taken
    /\ op' = "save" /\ step' = "write" /\ broken' = FALSE
    /\ UNCHANGED <<previous, settings, file, manager, tools, services, up, shells, bounds>>

\* The update raises what had gone wrong; the core goes on as before it.
RolledBack ==
    /\ op = "rollback" /\ step = "launch" /\ left = {}
    /\ Needs(settings) \subseteq Taken
    /\ op' = "none" /\ step' = "idle" /\ broken' = FALSE
    /\ UNCHANGED <<previous, settings, file, manager, tools, services, up, shells, bounds>>

\* save_settings truncates the file and writes it.
BeginSave ==
    /\ op = "save" /\ step = "write"
    /\ file' = Torn
    /\ step' = "writing"
    /\ UNCHANGED <<op, previous, settings, manager, tools, services, up, broken,
                   shells, bounds>>

FinishSave ==
    /\ op = "save" /\ step = "writing"
    /\ file' = settings
    /\ op' = "none" /\ step' = "idle"
    /\ UNCHANGED <<previous, settings, manager, tools, services, up, broken, shells, bounds>>

\* An update that is not to be persisted.
SkipSave ==
    /\ op = "save" /\ step = "write"
    /\ op' = "none" /\ step' = "idle"
    /\ UNCHANGED <<previous, settings, file, manager, tools, services, up, broken,
                   shells, bounds>>

---------------------------------------------------------------------------
(* What goes wrong *)

\* What an exception does to the operation it ends in: start cleans up, an
\* update goes back to its settings, a rollback and a stop give up.
Raise ==
    /\ op' = CASE op = "start" -> "abandon" [] op = "update" -> "rollback" [] OTHER -> "none"
    /\ step' = "idle"
    /\ settings' = IF op = "update" THEN previous ELSE settings
    /\ broken' = (broken \/ op # "update")

\* start_all: the plugin that raised is stopped, then those before it.
StartRaises ==
    /\ step = "launch" /\ left # {} /\ Fault
    /\ Raise
    /\ running' = {} /\ holds' = holds \ running /\ left' = {}
    /\ UNCHANGED <<previous, file, config, loaded, registered, tools, services, up, shells,
                   updates, starts>>

\* stop_all: this plugin and those before it stay as they are.
StopRaises ==
    /\ step = "unload" /\ left # {} /\ Last(left) \in running /\ Fault
    /\ Raise
    /\ left' = {}
    /\ UNCHANGED <<previous, file, config, loaded, running, holds, registered, tools, services,
                   up, shells, updates, starts>>

\* A configured provider is missing.
CheckRaises ==
    /\ op \in {"start", "update", "rollback"} /\ step = "launch" /\ left = {}
    /\ ~(Needs(settings) \subseteq Taken)
    /\ Raise
    /\ UNCHANGED <<previous, file, manager, tools, services, up, shells, bounds>>

\* The update raises with its settings in force and half a file.
SaveRaises ==
    /\ op = "save" /\ step = "writing" /\ Fault
    /\ op' = "none" /\ step' = "idle"
    /\ UNCHANGED <<previous, settings, file, manager, tools, services, up, broken, shells,
                   updates, starts>>

RollbackSlip ==
    /\ op = "rollback" /\ step = "idle"
    /\ op' = "none"
    /\ UNCHANGED <<step, previous, settings, file, manager, tools, services, up, broken,
                   shells, bounds>>

\* The reload with the old settings begins with the manager there is.
Rollback ==
    /\ op = "rollback" /\ step = "idle"
    /\ step' = "unload" /\ left' = loaded
    /\ UNCHANGED <<op, previous, settings, file, config, loaded, running, holds, registered,
                   tools, services, up, broken, shells, bounds>>

---------------------------------------------------------------------------
(* stop *)

\* After the runs and the approvals (ToolCalls), stop_all takes its list.
Stop ==
    /\ op = "none" /\ up
    /\ op' = "stop" /\ step' = "sessions"
    /\ toStop' = table /\ late' = {}
    /\ UNCHANGED <<previous, settings, file, manager, tools, services, up, broken,
                   session, table, pipe, bounds>>

KillSessionSlip(s) ==
    /\ op = "stop" /\ step = "sessions" /\ s \in toStop /\ session[s] = "exited" /\ pipe[s]
    /\ session' = [session EXCEPT ![s] = "exited"]
    /\ UNCHANGED <<op, step, previous, settings, file, manager, tools, services, up, broken,
                   table, pipe, toStop, late, bounds>>

KillSession(s) ==
    /\ op = "stop" /\ step = "sessions" /\ s \in toStop /\ session[s] = "running"
    /\ session' = [session EXCEPT ![s] = "exited"]
    /\ UNCHANGED <<op, step, previous, settings, file, manager, tools, services, up, broken,
                   table, pipe, toStop, late, bounds>>

FinalizeSessionSlip(s) ==
    /\ op = "stop" /\ step = "sessions" /\ s \in toStop
    /\ toStop' = toStop \ {s}
    /\ UNCHANGED <<op, step, previous, settings, file, manager, tools, services, up, broken,
                   session, table, pipe, late, bounds>>

\* The readers end when nobody holds the pipes any more.
FinalizeSession(s) ==
    /\ op = "stop" /\ step = "sessions" /\ s \in toStop
    /\ session[s] = "exited" /\ ~pipe[s]
    /\ toStop' = toStop \ {s}
    /\ UNCHANGED <<op, step, previous, settings, file, manager, tools, services, up, broken,
                   session, table, pipe, late, bounds>>

StopPlugins ==
    /\ op = "stop" /\ step = "sessions" /\ toStop = {}
    /\ step' = "unload" /\ left' = loaded
    /\ UNCHANGED <<op, previous, settings, file, config, loaded, running, holds, registered,
                   tools, services, up, broken, shells, bounds>>

Stopped ==
    /\ op = "stop" /\ step = "unload" /\ left = {}
    /\ op' = "none" /\ step' = "idle" /\ up' = FALSE
    /\ loaded' = {} /\ running' = {}
    /\ tools' = FALSE /\ services' = {}
    /\ UNCHANGED <<previous, settings, file, config, left, holds, registered, broken,
                   shells, bounds>>

\* The process dies and another core is made from the file.  A truncated file is
\* read as the defaults; one cut in its middle makes load_settings raise, and
\* there is no core to follow.
Crash ==
    /\ op # "none" \/ up
    /\ starts < MaxStarts
    /\ \E c \in IF file = Torn THEN {DefaultConfig} ELSE {file} :
          /\ settings' = c /\ config' = c /\ previous' = c
    /\ op' = "none" /\ step' = "idle"
    /\ loaded' = {} /\ running' = {} /\ left' = {} /\ holds' = {} /\ registered' = None
    /\ tools' = FALSE /\ services' = Services /\ up' = FALSE /\ broken' = FALSE
    /\ session' = [s \in Sessions |-> "none"] /\ pipe' = [s \in Sessions |-> FALSE]
    /\ table' = {} /\ toStop' = {} /\ late' = {}
    /\ starts' = starts + 1
    /\ UNCHANGED <<file, updates, faults>>

---------------------------------------------------------------------------
(* Shell sessions *)

\* Tools are invoked as long as _started says so, a stop in progress or not; a
\* session whose process has exited is replaced under its id.
StartSession(s) ==
    /\ up /\ session[s] = "none"
    /\ \A t \in table : SessionId[t] = SessionId[s] => session[t] # "running"
    /\ session' = [session EXCEPT ![s] = "running"]
    /\ table' = {t \in table : SessionId[t] # SessionId[s]} \cup {s}
    /\ pipe' = [pipe EXCEPT ![s] = TRUE]
    /\ late' = IF op = "stop" THEN late \cup {s} ELSE late
    /\ UNCHANGED <<op, step, previous, settings, file, manager, tools, services, up, broken,
                   toStop, bounds>>

\* A command that ends, or that a client's shell.session stop has killed.
SessionExits(s) ==
    /\ session[s] = "running"
    /\ session' = [session EXCEPT ![s] = "exited"]
    /\ UNCHANGED <<op, step, previous, settings, file, manager, tools, services, up, broken,
                   table, pipe, toStop, late, bounds>>

\* The last process that has the pipes is gone: the command itself or one it
\* has left in the background.
PipeCloses(s) ==
    /\ session[s] = "exited" /\ pipe[s]
    /\ pipe' = [pipe EXCEPT ![s] = FALSE]
    /\ UNCHANGED <<op, step, previous, settings, file, manager, tools, services, up, broken,
                   session, table, toStop, late, bounds>>

---------------------------------------------------------------------------
Operation ==
    \/ StartPlugin \/ StopPlugin
    \/ StartUp \/ Abandon \/ Abandoned
    \/ Reload \/ Reloaded \/ RolledBack \/ Rollback
    \/ BeginSave \/ FinishSave \/ SkipSave
    \/ StartRaises \/ StopRaises \/ CheckRaises \/ SaveRaises
    \/ \E s \in Sessions : KillSession(s) \/ FinalizeSession(s)
    \/ StopPlugins \/ Stopped

Next ==
    \/ Start \/ Stop \/ Crash
    \/ \E c \in Configs : Update(c) \/ UpdateRoutes(c)
    \/ Operation
    \/ \E s \in Sessions : StartSession(s) \/ SessionExits(s) \/ PipeCloses(s)

\* An operation goes on; nobody has to ask for one, and no process has to let
\* go of a pipe.
Spec == Init /\ [][Next]_vars
FairSpec == Spec /\ WF_vars(Operation)

---------------------------------------------------------------------------
(* Properties *)

TypeOK ==
    /\ op \in Ops /\ step \in Steps
    /\ {previous, settings, config} \subseteq Configs /\ file \in Configs \cup {Torn}
    /\ loaded \subseteq Plugins /\ running \subseteq loaded /\ left \subseteq loaded
    /\ holds \subseteq Plugins /\ registered \in [Plugins -> SUBSET Names]
    /\ {tools, up, broken} \subseteq BOOLEAN /\ services \subseteq Services
    /\ session \in [Sessions -> {"none", "running", "exited"}]
    /\ pipe \in [Sessions -> BOOLEAN]
    /\ table \subseteq Sessions /\ toStop \subseteq Sessions /\ late \subseteq Sessions
    /\ updates \in 0..MaxUpdates /\ faults \in 0..MaxFaults /\ starts \in 0..MaxStarts

\* What a plugin has registered or acquired, the manager still knows: a name in
\* the registry belongs to a loaded plugin, a resource to one that stop_all
\* will stop, whatever has failed on the way; and a core that has stopped, or
\* whose start failed and was cleaned up, knows of none.
NothingIsOrphaned ==
    /\ \A p \in Plugins : registered[p] # {} => p \in loaded
    /\ holds \subseteq running
    /\ ~up /\ op = "none" /\ ~tools => loaded = {}

\* A core that is up, with no operation in progress and none that failed without
\* a repair, serves its settings: it runs the plugins they enable, with their
\* providers, and every provider a route names is there.
ServingIsWhole ==
    up /\ op \in {"none", "save"} /\ ~broken =>
        /\ config = settings
        /\ loaded = Enabled[settings] /\ running = loaded /\ holds = loaded
        /\ registered = [p \in Plugins |->
                            IF p \in loaded THEN Provides[settings][p] ELSE {}]
        /\ Routes[settings] \subseteq Taken
        /\ tools /\ Started \subseteq services

\* What a core writes into its file are settings a restart can use: their
\* plugins load and their routes lead somewhere.  A core whose rollback has
\* failed may write anything: routes are checked against what is left in the
\* registry.
SavedSettingsStart ==
    [][file' # file /\ file' # Torn /\ ~broken => Usable(file')]_vars

\* A stop ends every session it found.
StopEndsSessions ==
    ~up /\ op = "none" => \A s \in Sessions : session[s] = "running" => s \in late

\* Start, update and stop end, whatever raises, except that a stop waits for
\* whoever holds the pipes of a session.
OperationsEnd ==
    op # "none" ~> op = "none" \/ \E s \in toStop : session[s] = "exited" /\ pipe[s]
===============================================================================
