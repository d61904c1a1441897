-------------------------- MODULE CoreLifecycleProofs --------------------------
(***************************************************************************)
(* Proofs about CoreLifecycle, for any plugins, settings, names and shell  *)
(* sessions and any number of updates, faults and starts.                  *)
(***************************************************************************)
EXTENDS CoreLifecycle, TLAPS

---------------------------------------------------------------------------
(* Plugins and their order *)

\* A plugin that comes first or last is one of those there are.
LEMMA Picked ==
    ASSUME LifecycleAssumption, NEW S, S \subseteq Plugins, S # {}
    PROVE  First(S) \in S /\ Last(S) \in S
<1>1. \E p \in S : \A q \in S : Rank[p] <= Rank[q]
  BY DEF LifecycleAssumption
<1>2. \E p \in S : \A q \in S : Rank[q] <= Rank[p]
  BY DEF LifecycleAssumption
<1>3. First(S) \in S
  BY <1>1 DEF First
<1>4. Last(S) \in S
  BY <1>2 DEF Last
<1>5. QED
  BY <1>3, <1>4

\* What load_enabled leaves in the manager and in the registry.
LEMMA Loading ==
    ASSUME LifecycleAssumption, TypeOK, NEW c \in Configs
    PROVE  /\ Loads(c) \subseteq Enabled[c] /\ Enabled[c] \subseteq Plugins
           /\ Register(c) \in [Plugins -> SUBSET Names]
           /\ \A p \in Loads(c) : Register(c)[p] = Provides[c][p]
           /\ \A p \in Plugins \ Loads(c) : Register(c)[p] = registered[p]
<1>1. Loads(c) \subseteq Enabled[c] /\ Enabled[c] \subseteq Plugins
  BY DEF Loads, LifecycleAssumption
<1>2. \A p \in Plugins : Provides[c][p] \subseteq Names /\ registered[p] \subseteq Names
  BY DEF LifecycleAssumption, TypeOK
<1> HIDE DEF Loads
<1>3. QED
  BY <1>1, <1>2 DEF Register

---------------------------------------------------------------------------
(* Types *)

\* The initial state has the types.
LEMMA TypeInit == LifecycleAssumption /\ Init => TypeOK
BY DEF LifecycleAssumption, Init, TypeOK, None, Ops, Steps

\* Turns of the plugin manager's loops keep the types.
LEMMA TypeManager ==
    ASSUME LifecycleAssumption, TypeOK,
           \/ StartPlugin \/ StopPlugin \/ StartUp \/ Abandon \/ Abandoned
           \/ Reloaded \/ RolledBack \/ Rollback
    PROVE  TypeOK'
<1> USE DEF TypeOK, manager, shells, bounds, Ops, Steps
<1>1. CASE StartPlugin
  <2>1. First(left) \in left
    BY <1>1, Picked DEF StartPlugin
  <2>2. QED
    BY <1>1, <2>1 DEF StartPlugin
<1>2. CASE StopPlugin
  <2>1. registered' \in [Plugins -> SUBSET Names] /\ holds' \subseteq Plugins /\ left' \subseteq loaded
    BY <1>2 DEF StopPlugin, Release
  <2>2. QED
    BY <1>2, <2>1 DEF StopPlugin
<1>3. CASE StartUp
  BY <1>3 DEF StartUp
<1>4. CASE Abandon
  BY <1>4 DEF Abandon
<1>5. CASE Abandoned
  BY <1>5 DEF Abandoned
<1>6. CASE Reloaded
  BY <1>6 DEF Reloaded
<1>7. CASE RolledBack
  BY <1>7 DEF RolledBack
<1>8. CASE Rollback
  BY <1>8 DEF Rollback
<1>9. QED
  BY <1>1, <1>2, <1>3, <1>4, <1>5, <1>6, <1>7, <1>8

\* So does what loads plugins.
LEMMA TypeLoad ==
    ASSUME LifecycleAssumption, TypeOK, Start \/ Reload
    PROVE  TypeOK'
<1>1. ASSUME NEW c \in Configs, LoadEnabled(c)
      PROVE  /\ config' \in Configs /\ loaded' \subseteq Plugins
             /\ running' \subseteq loaded' /\ left' \subseteq loaded'
             /\ holds' \subseteq Plugins /\ registered' \in [Plugins -> SUBSET Names]
  BY <1>1, Loading DEF LoadEnabled, TypeOK
<1>2. CASE Start
  <2>1. services' \subseteq Services
    BY <1>2 DEF Start, TypeOK, LifecycleAssumption
  <2>2. starts' \in 0..MaxStarts
    BY <1>2 DEF Start, TypeOK, LifecycleAssumption
  <2>3. CASE tools
    BY <1>2, <2>1, <2>2, <2>3 DEF Start, TypeOK, manager, shells
  <2>4. CASE ~ tools
    <3>1. LoadEnabled(config) /\ tools' = TRUE /\ op' \in Ops /\ step' \in Steps
          /\ broken' \in BOOLEAN
      BY <1>2, <2>4 DEF Start, TypeOK, Ops, Steps
    <3>2. UNCHANGED <<previous, settings, file, up, shells, updates, faults>>
      BY <1>2 DEF Start
    <3>3. config \in Configs
      BY DEF TypeOK
    <3>4. QED
      BY <1>1, <2>1, <2>2, <3>1, <3>2, <3>3 DEF TypeOK, shells
  <2>5. QED
    BY <2>3, <2>4
<1>3. CASE Reload
  <2>1. LoadEnabled(settings) /\ settings \in Configs
    BY <1>3 DEF Reload, TypeOK
  <2>2. op' \in Ops /\ step' \in Steps /\ settings' \in Configs /\ broken' \in BOOLEAN
    BY <1>3 DEF Reload, TypeOK, Ops, Steps
  <2>3. UNCHANGED <<previous, file, tools, services, up, shells, bounds>>
    BY <1>3 DEF Reload
  <2>4. QED
    BY <1>1, <2>1, <2>2, <2>3 DEF TypeOK, shells, bounds
<1>4. QED
  BY <1>2, <1>3

\* So does what raises.
LEMMA TypeRaise ==
    ASSUME LifecycleAssumption, TypeOK, StartRaises \/ StopRaises \/ CheckRaises \/ SaveRaises
    PROVE  TypeOK'
<1>1. ASSUME Raise
      PROVE  op' \in Ops /\ step' \in Steps /\ settings' \in Configs /\ broken' \in BOOLEAN
  BY <1>1 DEF Raise, TypeOK, Ops, Steps
<1>2. ASSUME Fault PROVE faults' \in 0..MaxFaults
  BY <1>2 DEF Fault, TypeOK, LifecycleAssumption
<1>3. CASE StartRaises
  BY <1>1, <1>2, <1>3 DEF StartRaises, TypeOK, shells
<1>4. CASE StopRaises
  BY <1>1, <1>2, <1>4 DEF StopRaises, TypeOK, shells
<1>5. CASE CheckRaises
  BY <1>1, <1>5 DEF CheckRaises, TypeOK, manager, shells, bounds
<1>6. CASE SaveRaises
  BY <1>2, <1>6 DEF SaveRaises, TypeOK, manager, shells, Ops, Steps
<1>7. QED
  BY <1>3, <1>4, <1>5, <1>6

\* So do updates, saving and stopping.
LEMMA TypeRest ==
    ASSUME LifecycleAssumption, TypeOK,
           \/ \E c \in Configs : Update(c) \/ UpdateRoutes(c)
           \/ BeginSave \/ FinishSave \/ SkipSave \/ Stop \/ StopPlugins \/ Stopped
           \/ \E s \in Sessions : KillSession(s) \/ FinalizeSession(s)
    PROVE  TypeOK'
<1> USE DEF TypeOK, manager, shells, bounds, Ops, Steps
<1>1. ASSUME NEW c \in Configs, Update(c) PROVE TypeOK'
  BY <1>1 DEF Update, LifecycleAssumption
<1>2. ASSUME NEW c \in Configs, UpdateRoutes(c) PROVE TypeOK'
  BY <1>2 DEF UpdateRoutes, LifecycleAssumption
<1>3. CASE BeginSave
  BY <1>3 DEF BeginSave
<1>4. CASE FinishSave
  BY <1>4 DEF FinishSave
<1>5. CASE SkipSave
  BY <1>5 DEF SkipSave
<1>6. CASE Stop
  BY <1>6 DEF Stop
<1>7. CASE StopPlugins
  BY <1>7 DEF StopPlugins
<1>8. CASE Stopped
  BY <1>8 DEF Stopped
<1>9. ASSUME NEW s \in Sessions, KillSession(s) \/ FinalizeSession(s) PROVE TypeOK'
  BY <1>9 DEF KillSession, FinalizeSession
<1>10. QED
  BY <1>1, <1>2, <1>3, <1>4, <1>5, <1>6, <1>7, <1>8, <1>9

\* So do crashes and shell sessions.
LEMMA TypeOutside ==
    ASSUME LifecycleAssumption, TypeOK,
           \/ Crash \/ UNCHANGED vars
           \/ \E s \in Sessions : StartSession(s) \/ SessionExits(s) \/ PipeCloses(s)
    PROVE  TypeOK'
<1>1. CASE Crash
  <2>1. settings' \in Configs /\ config' \in Configs /\ previous' \in Configs
    BY <1>1 DEF Crash, TypeOK, LifecycleAssumption
  <2>2. starts' \in 0..MaxStarts /\ registered' \in [Plugins -> SUBSET Names]
    BY <1>1 DEF Crash, TypeOK, LifecycleAssumption, None
  <2>3. QED
    BY <1>1, <2>1, <2>2 DEF Crash, TypeOK, Ops, Steps
<1>2. ASSUME NEW s \in Sessions, StartSession(s) PROVE TypeOK'
  <2>1. /\ session' \in [Sessions -> {"none", "running", "exited"}]
        /\ pipe' \in [Sessions -> BOOLEAN]
    BY <1>2 DEF StartSession, TypeOK
  <2>2. table' \subseteq Sessions /\ late' \subseteq Sessions
    BY <1>2 DEF StartSession, TypeOK
  <2>3. QED
    BY <1>2, <2>1, <2>2 DEF StartSession, TypeOK, manager, bounds
<1>3. ASSUME NEW s \in Sessions, SessionExits(s) \/ PipeCloses(s) PROVE TypeOK'
  <2>1. /\ session' \in [Sessions -> {"none", "running", "exited"}]
        /\ pipe' \in [Sessions -> BOOLEAN]
    BY <1>3 DEF SessionExits, PipeCloses, TypeOK
  <2>2. QED
    BY <1>3, <2>1 DEF SessionExits, PipeCloses, TypeOK, manager, bounds
<1>4. CASE UNCHANGED vars
  BY <1>4 DEF vars, TypeOK, manager, shells, bounds
<1>5. QED
  BY <1>1, <1>2, <1>3, <1>4

\* Every step keeps the types.
LEMMA TypeNext ==
    ASSUME LifecycleAssumption, TypeOK, [Next]_vars
    PROVE  TypeOK'
BY TypeManager, TypeLoad, TypeRaise, TypeRest, TypeOutside DEF Next, Operation

\* Every variable keeps its type; the started plugins and those a loop has
\* still to come to are plugins of the manager.
THEOREM TypeCorrect == Spec => []TypeOK
<1>1. Init => TypeOK
  BY TypeInit, LifecycleAssumption
<1>2. TypeOK /\ [Next]_vars => TypeOK'
  BY TypeNext, LifecycleAssumption
<1>3. QED
  BY <1>1, <1>2, PTL DEF Spec

---------------------------------------------------------------------------
(* The course of an operation *)

Course ==
    /\ op = "none" => step = "idle"
    /\ op = "start" => step = "launch"
    /\ op = "abandon" => step \in {"idle", "unload"}
    /\ op = "update" => step \in {"unload", "launch"}
    /\ op = "rollback" => step \in {"idle", "unload", "launch"}
    /\ op = "save" => step \in {"write", "writing"}
    /\ op = "stop" => step \in {"sessions", "unload"}
    /\ op \in {"update", "rollback", "save", "stop"} => up
    /\ op \in {"start", "abandon"} => ~up
    /\ up \/ op = "start" => tools /\ Started \subseteq services

\* Every step keeps operation, step and flags in one of their combinations.
LEMMA CourseNext ==
    ASSUME LifecycleAssumption, TypeOK, Course, [Next]_vars
    PROVE  Course'
<1>1. CASE StartPlugin \/ StopPlugin \/ Abandon \/ Abandoned \/ Rollback
  BY <1>1 DEF StartPlugin, StopPlugin, Abandon, Abandoned, Rollback, Course, manager
<1>2. CASE StartUp \/ Reloaded \/ RolledBack
  BY <1>2 DEF StartUp, Reloaded, RolledBack, Course, manager
<1>3. CASE Start
  BY <1>3 DEF Start, Course
<1>4. CASE Reload
  BY <1>4 DEF Reload, Course
<1>5. ASSUME Raise, Course, step \in {"launch", "unload"}, op # "save",
             UNCHANGED <<up, tools, services>>
      PROVE  Course'
  BY <1>5 DEF Raise, Course
<1>6. CASE StartRaises \/ StopRaises \/ CheckRaises
  BY <1>5, <1>6 DEF StartRaises, StopRaises, CheckRaises, Course
<1>7. CASE SaveRaises \/ BeginSave \/ FinishSave \/ SkipSave
  BY <1>7 DEF SaveRaises, BeginSave, FinishSave, SkipSave, Course
<1>8. ASSUME NEW c \in Configs, Update(c) \/ UpdateRoutes(c) PROVE Course'
  BY <1>8 DEF Update, UpdateRoutes, Course
<1>9. CASE Stop \/ StopPlugins \/ Stopped
  BY <1>9 DEF Stop, StopPlugins, Stopped, Course
<1>10. ASSUME NEW s \in Sessions, KillSession(s) \/ FinalizeSession(s) PROVE Course'
  BY <1>10 DEF KillSession, FinalizeSession, Course
<1>11. ASSUME NEW s \in Sessions, StartSession(s) \/ SessionExits(s) \/ PipeCloses(s)
       PROVE  Course'
  BY <1>11 DEF StartSession, SessionExits, PipeCloses, Course
<1>12. CASE Crash
  BY <1>12 DEF Crash, Course
<1>13. CASE UNCHANGED vars
  BY <1>13 DEF vars, Course
<1>14. QED
  BY <1>1, <1>2, <1>3, <1>4, <1>6, <1>7, <1>8, <1>9, <1>10, <1>11, <1>12, <1>13
     DEF Next, Operation

---------------------------------------------------------------------------
(* What plugins own.  While stop_all is on its way, what is still owned is  *)
(* owned by the plugins its loop has to come to.                           *)

Owned ==
    /\ NothingIsOrphaned
    /\ step = "unload" =>
         holds \subseteq left /\ \A p \in Plugins : registered[p] # {} => p \in left

\* Every step keeps what is registered or acquired with a loaded plugin.
LEMMA OwnedNext ==
    ASSUME LifecycleAssumption, TypeOK, Course, Owned, [Next]_vars
    PROVE  Owned'
<1>1. ASSUME UNCHANGED <<loaded, running, holds, registered>>,
             step' = "unload" => left' = loaded \/ (left' = left /\ step = "unload"),
             ~up' /\ op' = "none" /\ ~tools' => ~up /\ op = "none" /\ ~tools
      PROVE  Owned'
  BY <1>1 DEF Owned, NothingIsOrphaned, TypeOK
<1>2. CASE StartPlugin
  <2>1. First(left) \in left
    BY <1>2, Picked DEF StartPlugin, TypeOK
  <2>2. QED
    BY <1>2, <2>1 DEF StartPlugin, Owned, NothingIsOrphaned, Course, TypeOK
<1>3. CASE StopPlugin
  <2>1. Last(left) \in left
    BY <1>3, Picked DEF StopPlugin, TypeOK
  <2>2. \A p \in Plugins : registered'[p] # {} => p # Last(left) /\ registered[p] # {}
    BY <1>3, <2>1 DEF StopPlugin, Release, TypeOK
  <2>3. QED
    BY <1>3, <2>1, <2>2 DEF StopPlugin, Release, Owned, NothingIsOrphaned, Course, TypeOK
<1>4. CASE StartUp \/ Reloaded \/ RolledBack \/ Abandon \/ Rollback
  BY <1>1, <1>4 DEF StartUp, Reloaded, RolledBack, Abandon, Rollback, Course, manager
<1>5. ASSUME left = {}, step = "unload"
      PROVE  holds = {} /\ \A p \in Plugins : registered[p] = {}
  BY <1>5 DEF Owned
<1>6. CASE Abandoned \/ Stopped
  BY <1>5, <1>6 DEF Abandoned, Stopped, Owned, NothingIsOrphaned
<1>7. ASSUME NEW c \in Configs, LoadEnabled(c), holds = {},
             \A p \in Plugins : registered[p] = {}, step' # "unload", up' \/ tools'
      PROVE  Owned'
  <2>1. \A p \in Plugins : registered'[p] # {} => p \in loaded'
    BY <1>7, Loading DEF LoadEnabled
  <2>2. QED
    BY <1>7, <2>1 DEF LoadEnabled, Owned, NothingIsOrphaned
<1>8. CASE Start
  <2>1. CASE tools
    BY <1>1, <1>8, <2>1 DEF Start, manager, Course
  <2>2. CASE ~ tools
    <3>1. loaded = {} /\ holds = {} /\ \A p \in Plugins : registered[p] = {}
      BY <1>8, <2>2 DEF Start, Owned, NothingIsOrphaned, TypeOK
    <3>2. LoadEnabled(config) /\ config \in Configs /\ step' # "unload" /\ tools'
      BY <1>8, <2>2 DEF Start, TypeOK
    <3>3. QED
      BY <1>7, <3>1, <3>2
  <2>3. QED
    BY <2>1, <2>2
<1>9. CASE Reload
  <2>1. LoadEnabled(settings) /\ settings \in Configs /\ step' # "unload" /\ up'
    BY <1>9 DEF Reload, Course, TypeOK
  <2>2. holds = {} /\ \A p \in Plugins : registered[p] = {}
    BY <1>5, <1>9 DEF Reload
  <2>3. QED
    BY <1>7, <2>1, <2>2
<1>10. CASE StartRaises
  <2>1. /\ step' = "idle" /\ UNCHANGED <<loaded, registered, up, tools>>
        /\ running' = {} /\ holds' = holds \ running
    BY <1>10 DEF StartRaises, Raise
  <2>2. holds' = {}
    BY <2>1 DEF Owned, NothingIsOrphaned
  <2>3. ~up => op' # "none"
    <3>1. SUFFICES ASSUME ~up PROVE op' # "none"
      OBVIOUS
    <3>2. op = "start"
      BY <1>10, <3>1 DEF StartRaises, Course, TypeOK, Ops
    <3>3. op' = CASE op = "start" -> "abandon" [] op = "update" -> "rollback" [] OTHER -> "none"
      BY <1>10 DEF StartRaises, Raise
    <3>4. QED
      BY <3>2, <3>3
  <2>4. QED
    BY <2>1, <2>2, <2>3 DEF Owned, NothingIsOrphaned
<1>11. CASE StopRaises \/ CheckRaises
  <2>1. step' = "idle" /\ UNCHANGED <<loaded, running, holds, registered, up, tools>>
    BY <1>11 DEF StopRaises, CheckRaises, Raise, manager
  <2>2. ~up /\ ~tools => op' # "none" \/ loaded = {}
    BY <1>11 DEF StopRaises, CheckRaises, Raise, Course
  <2>3. QED
    BY <2>1, <2>2 DEF Owned, NothingIsOrphaned
<1>12. CASE SaveRaises \/ BeginSave \/ FinishSave \/ SkipSave
  BY <1>1, <1>12 DEF SaveRaises, BeginSave, FinishSave, SkipSave, Course, manager
<1>13. ASSUME NEW c \in Configs, Update(c) \/ UpdateRoutes(c) PROVE Owned'
  BY <1>1, <1>13 DEF Update, UpdateRoutes
<1>14. CASE Stop \/ StopPlugins
  BY <1>1, <1>14 DEF Stop, StopPlugins, manager
<1>15. ASSUME NEW s \in Sessions, KillSession(s) \/ FinalizeSession(s) PROVE Owned'
  BY <1>1, <1>15 DEF KillSession, FinalizeSession, manager
<1>16. ASSUME NEW s \in Sessions, StartSession(s) \/ SessionExits(s) \/ PipeCloses(s)
       PROVE  Owned'
  BY <1>1, <1>16 DEF StartSession, SessionExits, PipeCloses, manager
<1>17. CASE Crash
  BY <1>17 DEF Crash, None, Owned, NothingIsOrphaned
<1>18. CASE UNCHANGED vars
  BY <1>1, <1>18 DEF vars, manager
<1>19. QED
  BY <1>2, <1>3, <1>4, <1>6, <1>8, <1>9, <1>10, <1>11, <1>12, <1>13, <1>14, <1>15, <1>16,
     <1>17, <1>18 DEF Next, Operation

\* No plugin's registration or resource outlives the manager's knowledge of it.
THEOREM OrphansNone == Spec => []NothingIsOrphaned
<1> DEFINE Inv == TypeOK /\ Course /\ Owned
<1>1. Init => Inv
  BY TypeInit, LifecycleAssumption DEF Init, Course, Owned, NothingIsOrphaned, None
<1>2. Inv /\ [Next]_vars => Inv'
  BY TypeNext, CourseNext, OwnedNext, LifecycleAssumption
<1>3. Inv => NothingIsOrphaned
  BY DEF Owned
<1>4. QED
  BY <1>1, <1>2, <1>3, PTL DEF Spec

---------------------------------------------------------------------------
(* Shell sessions *)

Shells ==
    /\ \A s \in Sessions : session[s] = "running" => s \in table
    /\ op = "stop" /\ step = "sessions" =>
         \A s \in Sessions : session[s] = "running" => s \in late \cup toStop
    /\ ~up \/ (op = "stop" /\ step = "unload") =>
         \A s \in Sessions : session[s] = "running" => s \in late

\* Every step keeps running sessions in the table or among those that came late.
LEMMA ShellsNext ==
    ASSUME LifecycleAssumption, TypeOK, Course, Shells, [Next]_vars
    PROVE  Shells'
<1>1. ASSUME UNCHANGED shells, op' = "stop" => op = "stop" /\ step' = step, up' = up
      PROVE  Shells'
  BY <1>1 DEF Shells, shells
<1>2. CASE StartPlugin \/ StopPlugin \/ Abandon \/ Abandoned \/ Rollback
  BY <1>1, <1>2 DEF StartPlugin, StopPlugin, Abandon, Abandoned, Rollback
<1>3. CASE Reloaded \/ RolledBack \/ Start
  BY <1>1, <1>3 DEF Reloaded, RolledBack, Start
<1>4. CASE StartUp
  BY <1>4 DEF StartUp, Shells
<1>5. CASE Reload
  BY <1>1, <1>5 DEF Reload
<1>6. CASE StartRaises \/ StopRaises \/ CheckRaises
  BY <1>1, <1>6 DEF StartRaises, StopRaises, CheckRaises, Raise
<1>7. CASE SaveRaises \/ BeginSave \/ FinishSave \/ SkipSave
  BY <1>1, <1>7 DEF SaveRaises, BeginSave, FinishSave, SkipSave
<1>8. ASSUME NEW c \in Configs, Update(c) \/ UpdateRoutes(c) PROVE Shells'
  BY <1>1, <1>8 DEF Update, UpdateRoutes
<1>9. CASE Stop
  BY <1>9 DEF Stop, Shells
<1>10. CASE StopPlugins
  BY <1>10 DEF StopPlugins, Shells, Course, shells
<1>11. CASE Stopped
  BY <1>11 DEF Stopped, Shells, shells
<1>12. ASSUME NEW s \in Sessions, KillSession(s) \/ SessionExits(s)
       PROVE  Shells'
  <2>1. \A t \in Sessions : session'[t] = "running" => session[t] = "running"
    BY <1>12 DEF KillSession, SessionExits, TypeOK
  <2>2. QED
    BY <1>12, <2>1 DEF KillSession, SessionExits, Shells
<1>13. ASSUME NEW s \in Sessions, FinalizeSession(s) PROVE Shells'
  BY <1>13 DEF FinalizeSession, Shells
<1>14. ASSUME NEW s \in Sessions, PipeCloses(s) PROVE Shells'
  BY <1>14 DEF PipeCloses, Shells
<1>15. ASSUME NEW s \in Sessions, StartSession(s) PROVE Shells'
  <2>1. /\ session'[s] = "running"
        /\ \A t \in Sessions \ {s} : session'[t] = session[t]
    BY <1>15 DEF StartSession, TypeOK
  <2>2. /\ table' = {t \in table : SessionId[t] # SessionId[s]} \cup {s}
        /\ \A t \in table : SessionId[t] = SessionId[s] => session[t] # "running"
        /\ UNCHANGED <<op, step, up, toStop>> /\ up
        /\ late' = IF op = "stop" THEN late \cup {s} ELSE late
    BY <1>15 DEF StartSession
  <2>3. QED
    BY <2>1, <2>2 DEF Shells
<1>16. CASE Crash
  BY <1>16 DEF Crash, Shells
<1>17. CASE UNCHANGED vars
  BY <1>1, <1>17 DEF vars
<1>18. QED
  BY <1>2, <1>3, <1>4, <1>5, <1>6, <1>7, <1>8, <1>9, <1>10, <1>11, <1>12, <1>13, <1>14,
     <1>15, <1>16, <1>17 DEF Next, Operation

\* Of the shell sessions only those started while the core was stopping outlive it.
THEOREM SessionsEnd == Spec => []StopEndsSessions
<1> DEFINE Inv == TypeOK /\ Course /\ Shells
<1>1. Init => Inv
  BY TypeInit, LifecycleAssumption DEF Init, Course, Shells
<1>2. Inv /\ [Next]_vars => Inv'
  BY TypeNext, CourseNext, ShellsNext, LifecycleAssumption
<1>3. Inv => StopEndsSessions
  BY DEF Shells, StopEndsSessions
<1>4. QED
  BY <1>1, <1>2, <1>3, PTL DEF Spec

---------------------------------------------------------------------------
(* Settings.  Plugins that have all loaded register their names and no other *)
(* has any; an operation that starts them, or a core that has come through   *)
(* it, has the names and the plugins of the manager's settings.              *)

\* Settings whose plugins load into a registry that only has the core's names.
Loadable(c) ==
    /\ Fails[c] \cap Enabled[c] = {}
    /\ \A p \in Enabled[c] :
          /\ Provides[c][p] \cap CoreNames = {}
          /\ \A q \in Before(c, p) : Provides[c][p] \cap Provides[c][q] = {}

Loaded(c) ==
    /\ Loadable(c)
    /\ loaded = Enabled[c]
    /\ registered = [p \in Plugins |-> IF p \in loaded THEN Provides[c][p] ELSE {}]

Serving ==
    /\ step = "launch" => Loaded(config) /\ holds = running /\ running = loaded \ left
    /\ step = "launch" /\ op \in {"update", "rollback"} => config = settings
    /\ up /\ op \in {"none", "save"} /\ ~broken =>
          /\ config = settings /\ Loaded(settings)
          /\ running = loaded /\ holds = loaded /\ Routes[settings] \subseteq Taken

\* load_enabled on a registry nobody else has names in.
LEMMA LoadsWhole ==
    ASSUME LifecycleAssumption, TypeOK, NEW c \in Configs, LoadEnabled(c), LoadSucceeds(c),
           holds = {}, \A p \in Plugins : registered[p] = {}
    PROVE  /\ config' = c /\ Loaded(c)'
           /\ holds' = running' /\ running' = loaded' \ left'
<1>1. Loads(c) = Enabled[c] /\ Enabled[c] \subseteq Plugins
  BY DEF LoadSucceeds, LifecycleAssumption
<1>2. Taken = CoreNames
  BY DEF Taken
<1>3. \A p \in Enabled[c] : ~ Refuses(c, p)
  BY <1>1 DEF Loads
<1>4. Loadable(c)
  <2>1. ASSUME NEW p \in Enabled[c]
        PROVE  /\ p \notin Fails[c] /\ Provides[c][p] \cap CoreNames = {}
               /\ \A q \in Before(c, p) : Provides[c][p] \cap Provides[c][q] = {}
    BY <1>2, <1>3 DEF Refuses
  <2>2. QED
    BY <2>1 DEF Loadable
<1>5. loaded' = Enabled[c] /\ left' = Enabled[c] /\ running' = {} /\ holds' = {} /\ config' = c
  BY <1>1 DEF LoadEnabled
<1>6. registered' = [p \in Plugins |-> IF p \in loaded' THEN Provides[c][p] ELSE {}]
  BY <1>1, <1>5 DEF LoadEnabled, Register
<1>7. QED
  BY <1>4, <1>5, <1>6 DEF Loaded, Loadable, Before

\* Every step keeps what the manager has in agreement with its settings.
LEMMA ServingNext ==
    ASSUME LifecycleAssumption, TypeOK, Course, Owned, Serving, [Next]_vars
    PROVE  Serving'
<1>1. ASSUME NEW c, UNCHANGED <<loaded, registered>>, Loaded(c) PROVE Loaded(c)'
  BY <1>1 DEF Loaded, Loadable, Before
<1>2. ASSUME UNCHANGED <<settings, config, loaded, running, holds, registered>>,
             step' # "launch",
             up' /\ op' \in {"none", "save"} /\ ~broken' => up /\ op \in {"none", "save"} /\ ~broken
      PROVE  Serving'
  <2>1. Taken' = Taken
    BY <1>2 DEF Taken
  <2>2. ASSUME up', op' \in {"none", "save"}, ~broken' PROVE Loaded(settings)'
    BY <1>1, <1>2, <2>2 DEF Serving, Loaded
  <2>3. QED
    BY <1>2, <2>1, <2>2 DEF Serving
<1>3. CASE StartPlugin
  <2>1. First(left) \in left /\ First(left) \in loaded
    BY <1>3, Picked DEF StartPlugin, TypeOK
  <2>2. /\ step = "launch" /\ UNCHANGED <<op, step, settings, config, loaded, registered>>
        /\ running' = running \cup {First(left)} /\ holds' = holds \cup {First(left)}
        /\ left' = left \ {First(left)}
    BY <1>3 DEF StartPlugin
  <2>3. holds' = running' /\ running' = loaded' \ left'
    BY <2>1, <2>2 DEF Serving
  <2>4. Loaded(config)'
    BY <1>1, <2>2 DEF Serving, Loaded
  <2>5. op \notin {"none", "save"} /\ (op \in {"update", "rollback"} => config = settings)
    BY <2>2 DEF Course, Serving
  <2>6. QED
    BY <2>2, <2>3, <2>4, <2>5 DEF Serving
<1>4. CASE StopPlugin \/ Abandon \/ Abandoned \/ Rollback \/ StopPlugins \/ Stopped
  <2>1. step' # "launch" /\ ~ (up' /\ op' \in {"none", "save"})
    BY <1>4 DEF StopPlugin, Abandon, Abandoned, Rollback, StopPlugins, Stopped, Course
  <2>2. QED
    BY <2>1 DEF Serving
<1>5. CASE Stop \/ StopRaises
  <2>1. step' # "launch" /\ ~ (up' /\ op' \in {"none", "save"} /\ ~broken')
    BY <1>5 DEF Stop, StopRaises, Raise, Course
  <2>2. QED
    BY <2>1 DEF Serving
<1>6. CASE StartRaises \/ CheckRaises
  <2>1. op # "save"
    BY <1>6 DEF StartRaises, CheckRaises, Course
  <2>2. step' # "launch" /\ ~ (up' /\ op' \in {"none", "save"} /\ ~broken')
    BY <1>6, <2>1 DEF StartRaises, CheckRaises, Raise, Course
  <2>3. QED
    BY <2>2 DEF Serving
<1>7. CASE StartUp \/ Reloaded \/ RolledBack
  <2>1. /\ step = "launch" /\ left = {} /\ Needs(settings) \subseteq Taken
        /\ UNCHANGED <<settings, config, loaded, running, holds, registered>>
        /\ step' # "launch" /\ (op \in {"update", "rollback"} \/ broken' = (config # settings))
    BY <1>7 DEF StartUp, Reloaded, RolledBack, manager
  <2>2. Loaded(config)' /\ running' = loaded' /\ holds' = loaded'
    BY <1>1, <2>1 DEF Serving, Loaded
  <2>3. Taken' = Taken /\ Routes[settings] \subseteq Taken
    BY <2>1 DEF Taken, Needs
  <2>4. ~broken' => config = settings
    BY <2>1 DEF Serving
  <2>5. ~broken' => Loaded(settings)'
    BY <2>1, <2>2, <2>4 DEF Loaded
  <2>6. QED
    BY <2>1, <2>2, <2>3, <2>4, <2>5 DEF Serving
<1>8. CASE Start
  <2>1. CASE tools
    <3>1. broken' /\ step' # "launch"
      BY <1>8, <2>1 DEF Start, Course
    <3>2. QED
      BY <3>1 DEF Serving
  <2>2. CASE ~ tools
    <3>1. loaded = {} /\ holds = {} /\ \A p \in Plugins : registered[p] = {}
      BY <1>8, <2>2 DEF Start, Owned, NothingIsOrphaned, TypeOK
    <3>2. LoadEnabled(config) /\ config \in Configs /\ op' \in {"start", "abandon"}
          /\ (step' = "launch" => LoadSucceeds(config))
      BY <1>8, <2>2 DEF Start, TypeOK
    <3>3. step' = "launch" =>
            Loaded(config)' /\ holds' = running' /\ running' = loaded' \ left'
      <4>1. SUFFICES ASSUME step' = "launch"
                     PROVE  Loaded(config)' /\ holds' = running' /\ running' = loaded' \ left'
        OBVIOUS
      <4>2. PICK c \in Configs : c = config
        BY <3>2
      <4>3. config' = c /\ Loaded(c)' /\ holds' = running' /\ running' = loaded' \ left'
        BY <3>1, <3>2, <4>1, <4>2, LoadsWhole
      <4>4. QED
        BY <4>3 DEF Loaded, Loadable, Before
    <3>4. QED
      BY <3>2, <3>3 DEF Serving
  <2>3. QED
    BY <2>1, <2>2
<1>9. CASE Reload
  <2>1. LoadEnabled(settings) /\ op \in {"update", "rollback"}
    BY <1>9 DEF Reload
  <2>2. holds = {} /\ \A p \in Plugins : registered[p] = {}
    BY <1>9 DEF Reload, Owned
  <2>3. CASE LoadSucceeds(settings)
    <3>1. PICK c \in Configs : c = settings
      BY DEF TypeOK
    <3>2. config' = c /\ Loaded(c)' /\ holds' = running' /\ running' = loaded' \ left'
      BY <2>1, <2>2, <2>3, <3>1, LoadsWhole
    <3>3. settings' = c /\ op' \in {"update", "rollback"}
      BY <1>9, <2>1, <2>3, <3>1 DEF Reload
    <3>4. QED
      BY <3>2, <3>3 DEF Serving, Loaded, Loadable, Before
  <2>4. CASE ~ LoadSucceeds(settings)
    <3>1. step' # "launch" /\ (op' \in {"none", "save"} => broken')
      BY <1>9, <2>4 DEF Reload
    <3>2. QED
      BY <3>1 DEF Serving
  <2>5. QED
    BY <2>3, <2>4
<1>10. CASE SaveRaises \/ BeginSave \/ FinishSave \/ SkipSave
  BY <1>2, <1>10 DEF SaveRaises, BeginSave, FinishSave, SkipSave, Course, manager
<1>11. ASSUME NEW c \in Configs, Update(c) PROVE Serving'
  BY <1>11 DEF Update, Serving
<1>12. ASSUME NEW c \in Configs, UpdateRoutes(c) PROVE Serving'
  <2>1. /\ op = "none" /\ up /\ step' = "write" /\ settings' = c
        /\ Enabled[c] = Enabled[settings] /\ Provides[c] = Provides[settings]
        /\ Fails[c] = Fails[settings] /\ Routes[c] \subseteq Taken
        /\ config' = (IF config = settings THEN c ELSE config)
        /\ UNCHANGED <<loaded, running, holds, registered, up, broken>>
    BY <1>12 DEF UpdateRoutes
  <2>2. SUFFICES ASSUME ~broken
                 PROVE  /\ config' = settings' /\ Loaded(settings)'
                        /\ running' = loaded' /\ holds' = loaded'
                        /\ Routes[settings'] \subseteq Taken'
    BY <2>1 DEF Serving
  <2>3. config = settings /\ Loaded(settings) /\ running = loaded /\ holds = loaded
    BY <2>1, <2>2 DEF Serving
  <2>4. Taken' = Taken
    BY <2>1 DEF Taken
  <2>5. Loaded(settings)'
    BY <2>1, <2>3 DEF Loaded, Loadable, Before
  <2>6. QED
    BY <2>1, <2>3, <2>4, <2>5
<1>13. ASSUME NEW s \in Sessions,
              \/ KillSession(s) \/ FinalizeSession(s)
              \/ StartSession(s) \/ SessionExits(s) \/ PipeCloses(s)
       PROVE  Serving'
  <2>1. UNCHANGED <<op, step, settings, manager, up, broken>>
    BY <1>13 DEF KillSession, FinalizeSession, StartSession, SessionExits, PipeCloses
  <2>2. QED
    BY <2>1 DEF Serving, manager, Loaded, Loadable, Before, Taken
<1>14. CASE Crash
  BY <1>14 DEF Crash, Serving
<1>15. CASE UNCHANGED vars
  BY <1>15 DEF vars, Serving, manager, Loaded, Loadable, Before, Taken
<1>16. QED
  BY <1>3, <1>4, <1>5, <1>6, <1>7, <1>8, <1>9, <1>10, <1>11, <1>12, <1>13, <1>14, <1>15
     DEF Next, Operation

\* The whole inductive invariant of the lifecycle.
LEMMA ServingInvariant == Spec => [](TypeOK /\ Course /\ Owned /\ Serving)
<1> DEFINE Inv == TypeOK /\ Course /\ Owned /\ Serving
<1>1. Init => Inv
  BY TypeInit, LifecycleAssumption DEF Init, Course, Owned, NothingIsOrphaned, None, Serving
<1>2. Inv /\ [Next]_vars => Inv'
  BY TypeNext, CourseNext, OwnedNext, ServingNext, LifecycleAssumption
<1>3. QED
  BY <1>1, <1>2, PTL DEF Spec

\* A core that is up and has nothing to repair serves its settings.
THEOREM ServesItsSettings == Spec => []ServingIsWhole
<1>1. TypeOK /\ Course /\ Serving => ServingIsWhole
  BY DEF Course, Serving, Loaded, ServingIsWhole
<1>2. QED
  BY <1>1, ServingInvariant, PTL

\* What a core with nothing to repair writes into its file a restart can use.
THEOREM SavedIsUsable == Spec => SavedSettingsStart
<1> DEFINE Good == file' # file /\ file' # Torn /\ ~broken => Usable(file')
<1>1. TypeOK /\ Course /\ Serving /\ [Next]_vars => [Good]_vars
  <2>1. SUFFICES ASSUME TypeOK, Course, Serving, Next, file' # file, file' # Torn, ~broken
                 PROVE  Usable(file')
    BY DEF vars
  <2>2. FinishSave
    BY <2>1 DEF Next, Operation, StartPlugin, StopPlugin, StartUp, Abandon, Abandoned, Reload,
       Reloaded, RolledBack, Rollback, BeginSave, SkipSave, StartRaises, StopRaises,
       CheckRaises, SaveRaises, KillSession, FinalizeSession, StopPlugins, Stopped, Start,
       Stop, Crash, Update, UpdateRoutes, StartSession, SessionExits, PipeCloses
  <2>3. op = "save" /\ file' = settings /\ up
    BY <2>1, <2>2 DEF FinishSave, Course
  <2>4. Loaded(settings) /\ Routes[settings] \subseteq Taken
    BY <2>1, <2>3 DEF Serving
  <2>5. Taken \subseteq CoreNames \cup UNION {Provides[settings][p] : p \in Enabled[settings]}
    BY <2>4 DEF Taken, Loaded
  <2>6. QED
    BY <2>3, <2>4, <2>5 DEF Loaded, Loadable, Usable
<1>2. QED
  BY <1>1, ServingInvariant, PTL DEF Spec, SavedSettingsStart
=============================================================================
