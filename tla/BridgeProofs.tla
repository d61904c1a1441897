------------------------------ MODULE BridgeProofs ------------------------------
(***************************************************************************)
(* Proofs about Bridge, for any number of commands, any limit of the event *)
(* queue and any number of deaths of the core: types, what the mutex       *)
(* covers, which events arrive, and that the bridge implements             *)
(* BridgeContract.                                                         *)
(***************************************************************************)
EXTENDS Bridge, SequenceTheorems, TLAPS

---------------------------------------------------------------------------
(* Lines *)

\* Events and responses are lines.
LEMMA LineTypes ==
    /\ \A n \in Nat, r \in Commands \cup {Nobody} : Event(n, r) \in Line
    /\ \A k \in Commands : Response(k) \in Line
    /\ \A l \in Line : /\ l.type \in {"event", "response"}
                       /\ l.n \in Nat /\ l.of \in Commands \cup {Nobody}
BY DEF Event, Response, Line

\* What is appended comes last.
LEMMA Appended ==
    ASSUME NEW S, NEW s \in Seq(S), NEW e \in S
    PROVE  /\ Append(s, e) \in Seq(S) /\ Len(Append(s, e)) = Len(s) + 1
           /\ \A i \in 1..Len(s) : Append(s, e)[i] = s[i]
           /\ Append(s, e)[Len(s) + 1] = e
OBVIOUS

\* The head of a sequence and what is left without it.
LEMMA Taken ==
    ASSUME NEW S, NEW s \in Seq(S), s # <<>>
    PROVE  /\ Len(s) \in Nat \ {0} /\ DOMAIN s = 1..Len(s)
           /\ Head(s) = s[1] /\ Head(s) \in S
           /\ Tail(s) \in Seq(S) /\ Len(Tail(s)) = Len(s) - 1
           /\ \A i \in 1..(Len(s) - 1) : Tail(s)[i] = s[i + 1]
<1>1. Len(s) \in Nat \ {0} /\ DOMAIN s = 1..Len(s)
  BY EmptySeq, LenProperties
<1>2. Head(s) = s[1]
  BY <1>1
<1>3. QED
  BY <1>1, <1>2, HeadTailProperties

\* The newest events of a queue that has grown by one.
LEMMA NewestOfAppended ==
    ASSUME BridgeAssumption, NEW e \in Line, NEW s \in Seq(Line), Len(s) <= Limit
    PROVE  LET t == Newest(Append(s, e)) IN
           /\ t \in Seq(Line) /\ Len(t) <= Limit /\ Len(t) > 0
           /\ t[Len(t)] = e
           /\ Len(s) < Limit =>
                /\ Len(t) = Len(s) + 1
                /\ \A i \in 1..Len(s) : t[i] = s[i]
           /\ Len(s) = Limit =>
                /\ Len(t) = Limit
                /\ \A i \in 1..(Limit - 1) : t[i] = s[i + 1]
<1> DEFINE a == Append(s, e)
<1> DEFINE t == Newest(a)
<1>1. /\ a \in Seq(Line) /\ Len(a) = Len(s) + 1 /\ a[Len(s) + 1] = e
      /\ \A i \in 1..Len(s) : a[i] = s[i]
  BY Appended
<1>2. Limit \in Nat \ {0} /\ Len(s) \in Nat
  BY LenProperties DEF BridgeAssumption
<1>3. CASE Len(s) < Limit
  <2>1. t = a
    BY <1>1, <1>2, <1>3 DEF Newest
  <2>2. QED
    BY <1>1, <1>2, <1>3, <2>1
<1>4. CASE Len(s) = Limit
  <2>1. t = SubSeq(a, 2, Limit + 1)
    BY <1>1, <1>2, <1>4 DEF Newest
  <2>2. \A i \in 2..(Limit + 1) : a[i] \in Line
    BY <1>1, <1>2, <1>4, ElementOfSeq
  <2>3. /\ SubSeq(a, 2, Limit + 1) \in Seq(Line)
        /\ Len(SubSeq(a, 2, Limit + 1)) = IF 2 <= Limit + 1 THEN Limit + 1 - 2 + 1 ELSE 0
        /\ \A i \in 1..(Limit + 1 - 2 + 1) : SubSeq(a, 2, Limit + 1)[i] = a[2 + i - 1]
    <3> HIDE DEF a, t
    <3>1. 2 \in Int /\ Limit + 1 \in Int
      BY <1>2
    <3>2. QED
      BY <2>2, <3>1, SubSeqProperties
  <2>4. Len(t) = Limit /\ t \in Seq(Line) /\ \A i \in 1..Limit : t[i] = a[i + 1]
    <3> HIDE DEF a, t
    <3>1. QED
      BY <1>2, <2>1, <2>3
  <2>5. QED
    <3> HIDE DEF t
    <3>1. t[Limit] = e
      BY <1>1, <1>2, <1>4, <2>4
    <3>2. \A i \in 1..(Limit - 1) : t[i] = s[i + 1]
      BY <1>1, <1>2, <1>4, <2>4
    <3>3. QED
      BY <1>2, <1>4, <2>4, <3>1, <3>2 DEF t
<1>5. QED
  BY <1>2, <1>3, <1>4

\* What a handler says: the events it publishes, then its answer.
Says(k, events, reply) ==
    /\ lines' \in [Commands -> Seq(Line)]
    /\ \A j \in Commands \ {k} : lines'[j] = lines[j]
    /\ Len(lines'[k]) = Len(lines[k]) + Len(events) + Len(reply)
    /\ \A i \in 1..Len(lines[k]) : lines'[k][i] = lines[k][i]
    /\ \A i \in 1..Len(events) : lines'[k][Len(lines[k]) + i].type = "event"
    /\ \A i \in 1..Len(reply) : lines'[k][Len(lines[k]) + Len(events) + i] = reply[i]

\* Say appends them to the handler's lines.
LEMMA Said ==
    ASSUME lines \in [Commands -> Seq(Line)], NEW k \in Commands,
           NEW events \in Seq(Commands \cup {Nobody}), NEW reply \in Seq(Line),
           Say(k, events, reply)
    PROVE  Says(k, events, reply)
<1> DEFINE spoken == [i \in 1..Len(events) |-> Event(0, events[i])]
<1>1. Len(events) \in Nat /\ \A i \in 1..Len(events) : events[i] \in Commands \cup {Nobody}
  BY LenProperties, ElementOfSeq
<1>2. \A i \in 1..Len(events) : spoken[i] \in Line /\ spoken[i].type = "event"
  BY <1>1, LineTypes DEF Event
<1>3. spoken \in Seq(Line) /\ Len(spoken) = Len(events)
  <2>1. spoken \in [1..Len(events) -> Line]
    BY <1>2
  <2>2. QED
    BY <1>1, <2>1
<1> HIDE DEF spoken
<1>4. lines[k] \in Seq(Line)
  OBVIOUS
<1>5. /\ lines[k] \o spoken \in Seq(Line)
      /\ Len(lines[k] \o spoken) = Len(lines[k]) + Len(events)
      /\ \A i \in 1..(Len(lines[k]) + Len(events)) :
            (lines[k] \o spoken)[i] = IF i <= Len(lines[k]) THEN lines[k][i]
                                      ELSE spoken[i - Len(lines[k])]
  <2>1. spoken \in Seq(Line) /\ lines[k] \in Seq(Line)
    BY <1>3, <1>4
  <2>2. /\ lines[k] \o spoken \in Seq(Line)
        /\ Len(lines[k] \o spoken) = Len(lines[k]) + Len(spoken)
        /\ \A i \in 1..(Len(lines[k]) + Len(spoken)) :
              (lines[k] \o spoken)[i] = IF i <= Len(lines[k]) THEN lines[k][i]
                                        ELSE spoken[i - Len(lines[k])]
    BY <2>1, ConcatProperties
  <2>3. QED
    BY <1>3, <2>2
<1> DEFINE all == lines[k] \o spoken
<1>6. /\ all \o reply \in Seq(Line)
      /\ Len(all \o reply) = Len(all) + Len(reply)
      /\ \A i \in 1..(Len(all) + Len(reply)) :
            (all \o reply)[i] = IF i <= Len(all) THEN all[i] ELSE reply[i - Len(all)]
  <2>1. all \in Seq(Line)
    BY <1>5
  <2> HIDE DEF all
  <2>2. QED
    BY <2>1, ConcatProperties
<1>7. lines' = [lines EXCEPT ![k] = all \o reply]
  BY DEF Say, spoken
<1>8. lines'[k] = all \o reply /\ lines' \in [Commands -> Seq(Line)]
      /\ \A j \in Commands \ {k} : lines'[j] = lines[j]
  <2> HIDE DEF all
  <2>1. QED
    BY <1>6, <1>7
<1>9. Len(lines[k]) \in Nat /\ Len(reply) \in Nat
  BY <1>4, LenProperties
<1>10. Len(all) = Len(lines[k]) + Len(events)
  BY <1>5
<1>11. \A i \in 1..Len(lines[k]) : all[i] = lines[k][i]
  BY <1>1, <1>5, <1>9
<1>12. \A i \in 1..Len(events) : all[Len(lines[k]) + i] = spoken[i]
  <2>1. TAKE i \in 1..Len(events)
  <2>2. /\ Len(lines[k]) + i \in 1..(Len(lines[k]) + Len(events))
        /\ ~(Len(lines[k]) + i <= Len(lines[k])) /\ Len(lines[k]) + i - Len(lines[k]) = i
    BY <1>1, <1>9
  <2>3. QED
    BY <1>5, <2>2
<1> HIDE DEF all
<1>13. Len(lines'[k]) = Len(lines[k]) + Len(events) + Len(reply)
  BY <1>6, <1>8, <1>10
<1>14. \A i \in 1..Len(lines[k]) : lines'[k][i] = lines[k][i]
  BY <1>1, <1>6, <1>8, <1>9, <1>10, <1>11
<1>15. \A i \in 1..Len(events) : lines'[k][Len(lines[k]) + i].type = "event"
  <2>1. TAKE i \in 1..Len(events)
  <2>2. /\ Len(lines[k]) + i \in 1..(Len(all) + Len(reply))
        /\ Len(lines[k]) + i <= Len(all)
    BY <1>1, <1>9, <1>10
  <2>3. (all \o reply)[Len(lines[k]) + i] = spoken[i]
    BY <1>6, <1>12, <2>2
  <2>4. QED
    BY <1>2, <1>8, <2>3
<1>16. \A i \in 1..Len(reply) : lines'[k][Len(lines[k]) + Len(events) + i] = reply[i]
  <2>1. TAKE i \in 1..Len(reply)
  <2>2. /\ Len(all) + i \in 1..(Len(all) + Len(reply))
        /\ ~(Len(all) + i <= Len(all)) /\ Len(all) + i - Len(all) = i
    BY <1>1, <1>9, <1>10
  <2>3. QED
    BY <1>6, <1>8, <1>10, <2>2
<1>17. QED
  BY <1>8, <1>13, <1>14, <1>15, <1>16 DEF Says
---------------------------------------------------------------------------
(* Types *)

\* The initial state has the types.
LEMMA TypeInit == BridgeAssumption /\ Init => TypeOK
<1> SUFFICES ASSUME BridgeAssumption, Init PROVE TypeOK
  OBVIOUS
<1>1. Len(<<>>) = 0 /\ <<>> \in Seq(Line) /\ <<>> \in Seq(Commands)
  OBVIOUS
<1>2. task \in [Commands -> Tasks] /\ lines \in [Commands -> Seq(Line)]
  BY <1>1 DEF Init, Idle, Silent, Tasks
<1>3. QED
  BY <1>1, <1>2 DEF Init, TypeOK, BridgeAssumption, States, Outcomes

\* What a handler's step does to the types: the task and its lines stay in theirs.
LEMMA SaidTypes ==
    ASSUME TypeOK, NEW k \in Commands, NEW events \in Seq(Commands \cup {Nobody}),
           NEW reply \in {<<>>, <<Response(k)>>}, Say(k, events, reply)
    PROVE  lines' \in [Commands -> Seq(Line)]
<1>1. <<>> \in Seq(Line) /\ <<Response(k)>> \in Seq(Line)
  BY LineTypes
<1>2. QED
  <2>1. Says(k, events, reply)
    BY <1>1, Said DEF TypeOK
  <2>2. QED
    BY <2>1 DEF Says

\* The events a handler publishes.
LEMMA Published ==
    /\ <<>> \in Seq(Commands \cup {Nobody})
    /\ <<Nobody>> \in Seq(Commands \cup {Nobody})
    /\ <<Nobody, Nobody>> \in Seq(Commands \cup {Nobody})
    /\ \A r \in Commands : <<r>> \in Seq(Commands \cup {Nobody})
OBVIOUS

\* The commands of the desktop keep the types.
LEMMA TypeTauri ==
    ASSUME BridgeAssumption, TypeOK, NEW k \in Commands, Tauri(k)
    PROVE  TypeOK'
<1> USE DEF TypeOK, States, Outcomes, command, bridge, core, vars
<1>1. ASSUME NEW d \in Kinds, NEW r \in Commands \cup {Nobody}, Ask(k, d, r)
      PROVE  TypeOK'
  BY <1>1 DEF Ask
<1>2. CASE Send(k)
  <2>1. Append(stdin, k) \in Seq(Commands)
    OBVIOUS
  <2>2. QED
    BY <1>2, <2>1 DEF Send, MayLock
<1>3. CASE SpawnFails(k)
  BY <1>3 DEF SpawnFails, Over, MayLock
<1>4. CASE WriteFails(k)
  BY <1>4 DEF WriteFails, Over, MayLock
<1>5. CASE Receive(k)
  BY <1>5 DEF Receive, Over
<1>6. CASE Expire(k)
  BY <1>6 DEF Expire
<1>7. CASE GiveUp(k)
  BY <1>7 DEF GiveUp, Over
<1>8. QED
  BY <1>1, <1>2, <1>3, <1>4, <1>5, <1>6, <1>7 DEF Tauri

\* The handlers of the server keep the types.
LEMMA TypeHandler ==
    ASSUME BridgeAssumption, TypeOK, NEW k \in Commands, Handler(k)
    PROVE  TypeOK'
<1> DEFINE Same == UNCHANGED <<app, kind, target, state, outcome, holder, process, pending,
                               inbox, queue, drained, known, stdin, serve, deaths>>
<1>1. ASSUME task' \in [Commands -> Tasks], lines' \in [Commands -> Seq(Line)],
             handled' \in [Commands -> BOOLEAN], stdout' \in Seq(Line), emitted' \in Nat, Same
      PROVE  TypeOK'
  BY <1>1 DEF TypeOK
<1> HIDE DEF Same
<1>2. ASSUME NEW d, Handles(k, d)
      PROVE  Same /\ handled' \in [Commands -> BOOLEAN] /\ stdout' \in Seq(Line) /\ emitted' \in Nat
  BY <1>2 DEF Handles, TypeOK, Same, command, bridge
<1>3. ASSUME NEW d, NEW events \in Seq(Commands \cup {Nobody}), Answers(k, d, events)
      PROVE  TypeOK'
  <2>1. task' \in [Commands -> Tasks]
    BY <1>3 DEF Answers, TypeOK, Tasks
  <2>2. Handles(k, d)
    BY <1>3 DEF Answers
  <2>3. lines' \in [Commands -> Seq(Line)]
    BY <1>3, SaidTypes DEF Answers
  <2>4. QED
    BY <1>1, <1>2, <2>1, <2>2, <2>3
<1>4. CASE Query(k)
  BY <1>3, <1>4, Published DEF Query
<1>5. CASE InvokeTool(k)
  BY <1>3, <1>5, Published DEF InvokeTool
<1>6. CASE ChangePermission(k)
  BY <1>3, <1>6, Published DEF ChangePermission
<1>7. CASE UnknownMethod(k)
  BY <1>3, <1>7, Published DEF UnknownMethod
<1>8. CASE StartRun(k)
  <2>1. task' \in [Commands -> Tasks]
    BY <1>8 DEF StartRun, TypeOK, Tasks
  <2>2. lines' \in [Commands -> Seq(Line)]
    BY <1>8, SaidTypes, Published DEF StartRun
  <2>3. QED
    BY <1>1, <1>2, <1>8, <2>1, <2>2 DEF StartRun
<1>9. CASE CancelRun(k)
  <2>1. task' \in [Commands -> Tasks]
    BY <1>9 DEF CancelRun, TypeOK, Tasks
  <2>2. lines' \in [Commands -> Seq(Line)]
    BY <1>9, SaidTypes, Published DEF CancelRun
  <2>3. QED
    BY <1>1, <1>2, <1>9, <2>1, <2>2 DEF CancelRun
<1>10. CASE RespondApproval(k)
  <2> DEFINE waits == task[target[k]] = "asking"
  <2>1. task' \in [Commands -> Tasks]
    BY <1>10 DEF RespondApproval, TypeOK, Tasks
  <2>2. (IF waits THEN <<Nobody>> ELSE <<>>) \in Seq(Commands \cup {Nobody})
    BY Published
  <2>3. Say(k, IF waits THEN <<Nobody>> ELSE <<>>, <<Response(k)>>)
    BY <1>10 DEF RespondApproval
  <2>4. lines' \in [Commands -> Seq(Line)]
    BY <2>2, <2>3, SaidTypes
  <2>5. QED
    BY <1>1, <1>2, <1>10, <2>1, <2>4 DEF RespondApproval
<1>11. CASE AskApproval(k)
  <2>1. task' \in [Commands -> Tasks] /\ Same /\ UNCHANGED <<handled, stdout, emitted>>
    BY <1>11 DEF AskApproval, TypeOK, Tasks, Same, command, bridge
  <2>2. lines' \in [Commands -> Seq(Line)]
    BY <1>11, SaidTypes, Published DEF AskApproval
  <2>3. QED
    BY <1>1, <2>1, <2>2 DEF TypeOK
<1>12. CASE EndRun(k)
  <2>1. task' \in [Commands -> Tasks] /\ Same /\ UNCHANGED <<handled, stdout, emitted>>
    BY <1>12 DEF EndRun, TypeOK, Tasks, Same, command, bridge
  <2>2. lines' \in [Commands -> Seq(Line)]
    BY <1>12, SaidTypes, Published DEF EndRun
  <2>3. QED
    BY <1>1, <2>1, <2>2 DEF TypeOK
<1>13. CASE EndCancelled(k)
  <2>1. task' \in [Commands -> Tasks] /\ Same /\ UNCHANGED <<handled, stdout, emitted>>
    BY <1>13 DEF EndCancelled, TypeOK, Tasks, Same, command, bridge
  <2>2. lines' \in [Commands -> Seq(Line)]
    BY <1>13, SaidTypes, Published DEF EndCancelled
  <2>3. QED
    BY <1>1, <2>1, <2>2 DEF TypeOK
<1>14. CASE Write(k)
  <2>1. lines[k] \in Seq(Line) /\ lines[k] # <<>>
    BY <1>14 DEF Write, TypeOK
  <2>2. Head(lines[k]) \in Line /\ Tail(lines[k]) \in Seq(Line)
    BY <2>1, Taken
  <2>3. task' \in [Commands -> Tasks] /\ lines' \in [Commands -> Seq(Line)]
    BY <1>14, <2>2 DEF Write, TypeOK, Tasks
  <2>4. emitted' \in Nat
    BY <1>14 DEF Write, TypeOK
  <2>5. Event(emitted + 1, Head(lines[k]).of) \in Line
    BY <2>2, LineTypes DEF TypeOK
  <2>6. stdout' \in Seq(Line)
    BY <1>14, <2>2, <2>5, Appended DEF Write, TypeOK
  <2>7. Same /\ UNCHANGED handled
    BY <1>14 DEF Write, Same, command, bridge
  <2>8. QED
    BY <1>1, <2>3, <2>4, <2>6, <2>7 DEF TypeOK
<1>15. QED
  BY <1>4, <1>5, <1>6, <1>7, <1>8, <1>9, <1>10, <1>11, <1>12, <1>13, <1>14 DEF Handler

\* Every step keeps the types.
LEMMA TypeNext ==
    ASSUME BridgeAssumption, TypeOK, [Next]_vars
    PROVE  TypeOK'
<1>1. ASSUME NEW k \in Commands, Tauri(k) \/ Handler(k) PROVE TypeOK'
  BY <1>1, TypeTauri, TypeHandler
<1>2. CASE DrainEvents
  <2>1. queue # <<>> /\ Len(queue) \in DOMAIN queue /\ Len(queue) \in 1..Len(queue)
    BY <1>2, Taken DEF DrainEvents, TypeOK
  <2>2. \A i \in DOMAIN queue : queue[i] \in Line
    BY LenProperties, ElementOfSeq DEF TypeOK
  <2>3. LastRouted \in Nat
    BY <2>1, <2>2, LineTypes DEF LastRouted
  <2>4. known' \subseteq Commands
    BY <1>2, <2>2, LineTypes DEF DrainEvents, TypeOK
  <2>5. queue' \in Seq(Line) /\ Len(queue') <= Limit
    BY <1>2 DEF DrainEvents, BridgeAssumption
  <2>6. QED
    BY <1>2, <2>3, <2>4, <2>5 DEF DrainEvents, TypeOK, command, core
<1>3. CASE ShutdownCore
  <2>1. task' \in [Commands -> Tasks] /\ lines' \in [Commands -> Seq(Line)]
    BY <1>3 DEF ShutdownCore, Idle, Silent, Tasks
  <2>2. queue' \in Seq(Line) /\ Len(queue') <= Limit /\ stdin' \in Seq(Commands)
        /\ stdout' \in Seq(Line)
    BY <1>3 DEF ShutdownCore, BridgeAssumption
  <2>3. QED
    BY <1>3, <2>1, <2>2 DEF ShutdownCore, TypeOK, command
<1>4. CASE AppDies
  BY <1>4 DEF AppDies, TypeOK, command, bridge, core
<1>5. CASE RouteEvent
  <2>1. Head(stdout) \in Line /\ Tail(stdout) \in Seq(Line)
    BY <1>5, Taken DEF RouteEvent, TypeOK
  <2>2. queue' \in Seq(Line) /\ Len(queue') <= Limit
    BY <1>5, <2>1, NewestOfAppended DEF RouteEvent, TypeOK
  <2>3. QED
    BY <1>5, <2>1, <2>2 DEF RouteEvent, TypeOK, command, core
<1>6. CASE RouteResponse
  <2>1. Tail(stdout) \in Seq(Line)
    BY <1>6, Taken DEF RouteResponse, TypeOK
  <2>2. QED
    BY <1>6, <2>1 DEF RouteResponse, TypeOK, command, core
<1>7. CASE ReadLine
  <2>1. Head(stdin) \in Commands /\ Tail(stdin) \in Seq(Commands)
    BY <1>7, Taken DEF ReadLine, TypeOK
  <2>2. QED
    BY <1>7, <2>1 DEF ReadLine, TypeOK, Tasks, command, bridge
<1>8. CASE EndOfInput
  BY <1>8 DEF EndOfInput, TypeOK, command, bridge
<1>9. CASE Stop
  BY <1>9 DEF Stop, TypeOK, command, bridge
<1>10. CASE Die
  <2>1. task' \in [Commands -> Tasks] /\ lines' \in [Commands -> Seq(Line)]
    BY <1>10 DEF Die, Idle, Silent, Tasks
  <2>2. stdin' \in Seq(Commands) /\ deaths' \in 0..MaxDeaths
    BY <1>10 DEF Die, TypeOK, BridgeAssumption
  <2>3. QED
    BY <1>10, <2>1, <2>2 DEF Die, TypeOK, command, bridge
<1>11. CASE UNCHANGED vars
  BY <1>11 DEF vars, TypeOK, command, bridge, core
<1>12. QED
  BY <1>1, <1>2, <1>3, <1>4, <1>5, <1>6, <1>7, <1>8, <1>9, <1>10, <1>11 DEF Next

\* Every variable keeps its type, and the queue its limit.
THEOREM TypeCorrect == Spec => []TypeOK
<1>1. Init => TypeOK
  BY TypeInit, BridgeAssumption
<1>2. TypeOK /\ [Next]_vars => TypeOK'
  BY TypeNext, BridgeAssumption
<1>3. QED
  BY <1>1, <1>2, PTL DEF Spec

---------------------------------------------------------------------------
(* The ledger: where a command is on its way to the core and back.  Each    *)
(* is written once and read once, its answer is the last thing its handler  *)
(* writes, and once the answer is out nothing of it is left in the core.    *)

OnInput(k) == \E i \in 1..Len(stdin) : stdin[i] = k
IsAnswer(l, k) == l.type = "response" /\ l.of = k
Replied(k) == k \in inbox \/ \E i \in 1..Len(stdout) : IsAnswer(stdout[i], k)

OneOutcome == \A k \in Commands : outcome[k] # "none" => state[k] = "over"

UnsentIsUnknown ==
    \A k \in Commands : state[k] \in {"idle", "asked"} =>
        task[k] = "none" /\ lines[k] = <<>> /\ ~ OnInput(k) /\ ~ Replied(k)

ReadOnce ==
    /\ \A i \in 1..Len(stdin) : task[stdin[i]] = "none"
    /\ \A i, j \in 1..Len(stdin) : stdin[i] = stdin[j] => i = j

AnswerIsLast ==
    \A k \in Commands : \A i \in 1..Len(lines[k]) : lines[k][i].type = "response" =>
        lines[k][i] = Response(k) /\ handled[k] /\ task[k] = "writing" /\ i = Len(lines[k])

RepliedIsOver ==
    \A k \in Commands : Replied(k) =>
        handled[k] /\ task[k] = "none" /\ lines[k] = <<>> /\ ~ OnInput(k)

WorkIsHandled == \A k \in Commands : task[k] \notin {"none", "handling"} => handled[k]

OneAtATime ==
    app = "up" => \A k \in Commands :
        \/ task[k] = "none" /\ ~ OnInput(k)
        \/ holder = k
        \/ outcome[k] = "timeout"

Ledger ==
    /\ MutexCoversWait /\ OneOutcome /\ UnsentIsUnknown /\ ReadOnce
    /\ AnswerIsLast /\ RepliedIsOver /\ WorkIsHandled /\ OneAtATime

\* Before the first request the ledger is empty.
LEMMA LedgerInit == BridgeAssumption /\ Init => Ledger
<1> SUFFICES ASSUME BridgeAssumption, Init PROVE Ledger
  OBVIOUS
<1>1. Len(<<>>) = 0 /\ 1..0 = {}
  OBVIOUS
<1>2. MutexCoversWait
  BY DEF Init, MutexCoversWait, BridgeAssumption
<1>3. \A k \in Commands : task[k] = "none" /\ lines[k] = <<>> /\ ~ OnInput(k) /\ ~ Replied(k)
  BY <1>1 DEF Init, Idle, Silent, OnInput, Replied
<1>4. ReadOnce
  BY <1>1 DEF Init, ReadOnce
<1>5. OneOutcome
  BY DEF Init, OneOutcome
<1>6. QED
  BY <1>1, <1>2, <1>3, <1>4, <1>5
     DEF Ledger, UnsentIsUnknown, AnswerIsLast, RepliedIsOver, WorkIsHandled, OneAtATime

\* A step of a handler that says something: the pipes and the desktop stay as
\* they are, and only tasks that are under way change.
LEMMA HandlerStep ==
    ASSUME BridgeAssumption, TypeOK, Ledger, NEW k \in Commands,
           NEW events \in Seq(Commands \cup {Nobody}),
           NEW reply \in {<<>>, <<Response(k)>>}, Say(k, events, reply),
           UNCHANGED <<app, state, outcome, holder, pending, inbox, stdin, stdout>>,
           task[k] \notin {"none", "writing"}, task'[k] \notin {"none", "handling"},
           reply = <<Response(k)>> => task'[k] = "writing",
           \A j \in Commands \ {k} :
                \/ task'[j] = task[j]
                \/ /\ task[j] \in {"running", "asking"}
                   /\ task'[j] \in {"running", "cancelled"},
           handled'[k], \A j \in Commands : handled[j] => handled'[j]
    PROVE  Ledger'
<1>1. <<>> \in Seq(Line) /\ <<Response(k)>> \in Seq(Line)
  BY LineTypes
<1>2. /\ lines' \in [Commands -> Seq(Line)]
      /\ \A j \in Commands \ {k} : lines'[j] = lines[j]
      /\ Len(lines'[k]) = Len(lines[k]) + Len(events) + Len(reply)
      /\ \A i \in 1..Len(lines[k]) : lines'[k][i] = lines[k][i]
      /\ \A i \in 1..Len(events) : lines'[k][Len(lines[k]) + i].type = "event"
      /\ \A i \in 1..Len(reply) : lines'[k][Len(lines[k]) + Len(events) + i] = reply[i]
  <2>1. lines \in [Commands -> Seq(Line)] /\ reply \in Seq(Line)
    BY <1>1 DEF TypeOK
  <2>2. Says(k, events, reply)
    BY <2>1, Said
  <2>3. QED
    BY <2>2 DEF Says
<1>3. \A j \in Commands : task[j] = "none" => task'[j] = "none" /\ lines'[j] = lines[j]
  BY <1>2
<1>4. \A j \in Commands : OnInput(j)' = OnInput(j) /\ Replied(j)' = Replied(j)
  BY DEF OnInput, Replied
<1>5. MutexCoversWait' /\ OneOutcome'
  BY DEF Ledger, MutexCoversWait, OneOutcome
<1>6. UnsentIsUnknown'
  BY <1>3, <1>4 DEF Ledger, UnsentIsUnknown
<1>7. ReadOnce'
  <2>1. \A i \in 1..Len(stdin) : stdin[i] \in Commands
    BY ElementOfSeq DEF TypeOK
  <2>2. QED
    BY <1>3, <2>1 DEF Ledger, ReadOnce
<1>8. RepliedIsOver'
  BY <1>3, <1>4 DEF Ledger, RepliedIsOver
<1>9. WorkIsHandled'
  BY DEF Ledger, WorkIsHandled
<1>10. OneAtATime'
  BY <1>3, <1>4 DEF Ledger, OneAtATime
<1>11. AnswerIsLast'
  <2>1. ASSUME NEW j \in Commands \ {k}, NEW i \in 1..Len(lines'[j]),
               lines'[j][i].type = "response"
        PROVE  lines'[j][i] = Response(j) /\ handled'[j] /\ task'[j] = "writing" /\ i = Len(lines'[j])
    <3>1. lines[j][i] = Response(j) /\ handled[j] /\ task[j] = "writing" /\ i = Len(lines[j])
      BY <1>2, <2>1 DEF Ledger, AnswerIsLast
    <3>2. QED
      BY <1>2, <3>1
  <2>2. ASSUME NEW i \in 1..Len(lines'[k]), lines'[k][i].type = "response"
        PROVE  lines'[k][i] = Response(k) /\ handled'[k] /\ task'[k] = "writing" /\ i = Len(lines'[k])
    <3>1. Len(lines[k]) \in Nat /\ Len(events) \in Nat /\ Len(reply) \in Nat
      BY <1>1, LenProperties DEF TypeOK
    <3>2. ~ (i \in 1..Len(lines[k]))
      <4>1. SUFFICES ASSUME i \in 1..Len(lines[k]) PROVE FALSE
        OBVIOUS
      <4>2. lines[k][i].type = "response"
        BY <1>2, <2>2, <4>1
      <4>3. task[k] = "writing"
        BY <4>1, <4>2 DEF Ledger, AnswerIsLast
      <4>4. QED
        BY <4>3
    <3>3. ~ (i - Len(lines[k]) \in 1..Len(events))
      <4>1. ASSUME NEW m \in 1..Len(events), i = Len(lines[k]) + m PROVE FALSE
        <5>1. lines'[k][Len(lines[k]) + m].type = "event"
          BY <1>2
        <5>2. QED
          BY <2>2, <4>1, <5>1
      <4>2. Len(lines'[k]) \in Nat /\ i \in Int
        BY <1>2, <3>1
      <4>3. i = Len(lines[k]) + (i - Len(lines[k]))
        BY <3>1, <4>2
      <4>4. QED
        BY <4>1, <4>3
    <3>4. i > Len(lines[k]) + Len(events) /\ i \in Int
      BY <1>2, <3>1, <3>2, <3>3
    <3>5. reply # <<>>
      <4>1. SUFFICES ASSUME reply = <<>> PROVE FALSE
        OBVIOUS
      <4>2. Len(reply) = 0
        BY <4>1
      <4>3. QED
        BY <1>2, <3>1, <3>4, <4>2
    <3>6. reply = <<Response(k)>> /\ Len(reply) = 1 /\ reply[1] = Response(k)
      BY <3>5
    <3>7. i = Len(lines[k]) + Len(events) + 1 /\ i = Len(lines'[k])
      BY <1>2, <3>1, <3>4, <3>6
    <3>8. lines'[k][i] = Response(k)
      BY <1>2, <3>6, <3>7
    <3>9. QED
      BY <3>6, <3>7, <3>8
  <2>3. QED
    BY <2>1, <2>2 DEF AnswerIsLast
<1>12. QED
  BY <1>5, <1>6, <1>7, <1>8, <1>9, <1>10, <1>11 DEF Ledger

\* A handler that acts or writes leaves the ledger right.
LEMMA LedgerHandler ==
    ASSUME BridgeAssumption, TypeOK, Ledger, NEW k \in Commands, Handler(k), ~ Write(k)
    PROVE  Ledger'
<1> DEFINE Same == UNCHANGED <<app, state, outcome, holder, pending, inbox, stdin, stdout>>
<1>1. ASSUME NEW d, Handles(k, d)
      PROVE  /\ Same /\ task[k] = "handling" /\ handled'[k]
             /\ \A j \in Commands : handled[j] => handled'[j]
  BY <1>1 DEF Handles, TypeOK, command, bridge
<1> HIDE DEF Same
<1>2. ASSUME NEW d, NEW events \in Seq(Commands \cup {Nobody}), Answers(k, d, events)
      PROVE  Ledger'
  <2>1. Handles(k, d) /\ Say(k, events, <<Response(k)>>)
    BY <1>2 DEF Answers
  <2>2. task'[k] = "writing" /\ \A j \in Commands \ {k} : task'[j] = task[j]
    BY <1>2 DEF Answers, TypeOK
  <2>3. QED
    BY <1>1, <2>1, <2>2, HandlerStep DEF Same
<1>3. CASE Query(k)
  BY <1>2, <1>3, Published DEF Query
<1>4. CASE InvokeTool(k)
  BY <1>2, <1>4, Published DEF InvokeTool
<1>5. CASE ChangePermission(k)
  BY <1>2, <1>5, Published DEF ChangePermission
<1>6. CASE UnknownMethod(k)
  BY <1>2, <1>6, Published DEF UnknownMethod
<1>7. CASE StartRun(k)
  <2>1. Handles(k, "run") /\ Say(k, <<>>, <<>>)
    BY <1>7 DEF StartRun
  <2>2. task'[k] = "running" /\ \A j \in Commands \ {k} : task'[j] = task[j]
    BY <1>7 DEF StartRun, TypeOK
  <2>3. <<>> # <<Response(k)>>
    OBVIOUS
  <2>4. QED
    BY <1>1, <2>1, <2>2, <2>3, Published, HandlerStep DEF Same
<1>8. CASE CancelRun(k)
  <2>1. Handles(k, "cancel") /\ Say(k, <<>>, <<Response(k)>>)
    BY <1>8 DEF CancelRun
  <2>2. /\ task'[k] = "writing"
        /\ \A j \in Commands \ {k} :
              task'[j] = task[j] \/ (task[j] \in {"running", "asking"} /\ task'[j] = "cancelled")
    <3>1. task' = [j \in Commands |->
              CASE j = k -> "writing"
                [] j = target[k] /\ Live(j) -> "cancelled"
                [] OTHER -> task[j]]
      BY <1>8 DEF CancelRun
    <3>2. task'[k] = "writing"
      <4>1. task'[k] = CASE k = k -> "writing"
                         [] k = target[k] /\ Live(k) -> "cancelled"
                         [] OTHER -> task[k]
        BY <3>1, Zenon
      <4>2. ~ (k = target[k] /\ Live(k))
        BY <1>1, <2>1 DEF Live
      <4>3. QED
        BY <4>1, <4>2
    <3>3. ASSUME NEW j \in Commands \ {k}
          PROVE  task'[j] = IF j = target[k] /\ Live(j) THEN "cancelled" ELSE task[j]
      <4>1. j \in Commands /\ j # k
        BY <3>3
      <4>2. task'[j] = CASE j = k -> "writing"
                         [] j = target[k] /\ Live(j) -> "cancelled"
                         [] OTHER -> task[j]
        BY <3>1, <4>1, Zenon
      <4>3. CASE j = target[k] /\ Live(j)
        BY <4>1, <4>2, <4>3
      <4>4. CASE ~ (j = target[k] /\ Live(j))
        BY <4>1, <4>2, <4>4
      <4>5. QED
        BY <4>3, <4>4
    <3>4. QED
      BY <3>2, <3>3 DEF Live
  <2>3. QED
    BY <1>1, <2>1, <2>2, Published, HandlerStep DEF Same
<1>9. CASE RespondApproval(k)
  <2> DEFINE waits == task[target[k]] = "asking"
  <2> DEFINE events == IF waits THEN <<Nobody>> ELSE <<>>
  <2>1. Handles(k, "respond") /\ Say(k, events, <<Response(k)>>)
    BY <1>9 DEF RespondApproval
  <2>2. events \in Seq(Commands \cup {Nobody})
    BY Published
  <2>3. /\ task'[k] = "writing"
        /\ \A j \in Commands \ {k} :
              task'[j] = task[j] \/ (task[j] = "asking" /\ task'[j] = "running")
    <3>1. task' = [j \in Commands |->
              CASE j = k -> "writing"
                [] j = target[k] /\ waits -> "running"
                [] OTHER -> task[j]]
      BY <1>9 DEF RespondApproval
    <3>2. task'[k] = "writing"
      <4>1. task'[k] = CASE k = k -> "writing"
                         [] k = target[k] /\ waits -> "running"
                         [] OTHER -> task[k]
        BY <3>1, Zenon
      <4>2. ~ (k = target[k] /\ waits)
        BY <1>1, <2>1
      <4>3. QED
        BY <4>1, <4>2
    <3>3. ASSUME NEW j \in Commands \ {k}
          PROVE  task'[j] = IF j = target[k] /\ waits THEN "running" ELSE task[j]
      <4> HIDE DEF waits
      <4>1. j \in Commands /\ j # k
        BY <3>3
      <4>2. task'[j] = CASE j = k -> "writing"
                         [] j = target[k] /\ waits -> "running"
                         [] OTHER -> task[j]
        BY <3>1, <4>1, Zenon
      <4>3. CASE j = target[k] /\ waits
        BY <4>1, <4>2, <4>3
      <4>4. CASE ~ (j = target[k] /\ waits)
        BY <4>1, <4>2, <4>4
      <4>5. QED
        BY <4>3, <4>4
    <3>4. QED
      BY <3>2, <3>3
  <2> HIDE DEF events
  <2>4. QED
    BY <1>1, <2>1, <2>2, <2>3, HandlerStep DEF Same
<1>10. CASE AskApproval(k)
  <2>1. Say(k, <<k>>, <<>>) /\ Same /\ task[k] = "running" /\ UNCHANGED handled
    BY <1>10 DEF AskApproval, Same, command, bridge
  <2>2. task'[k] = "asking" /\ \A j \in Commands \ {k} : task'[j] = task[j]
    BY <1>10 DEF AskApproval, TypeOK
  <2>3. handled[k]
    BY <2>1 DEF Ledger, WorkIsHandled
  <2>4. <<>> # <<Response(k)>>
    OBVIOUS
  <2>5. QED
    BY <2>1, <2>2, <2>3, <2>4, Published, HandlerStep DEF Same
<1>11. CASE EndRun(k)
  <2>1. Say(k, <<Nobody>>, <<Response(k)>>) /\ Same /\ task[k] = "running" /\ UNCHANGED handled
    BY <1>11 DEF EndRun, Same, command, bridge
  <2>2. task'[k] = "writing" /\ \A j \in Commands \ {k} : task'[j] = task[j]
    BY <1>11 DEF EndRun, TypeOK
  <2>3. handled[k]
    BY <2>1 DEF Ledger, WorkIsHandled
  <2>4. QED
    BY <2>1, <2>2, <2>3, Published, HandlerStep DEF Same
<1>12. CASE EndCancelled(k)
  <2>1. Say(k, <<Nobody>>, <<>>) /\ Same /\ task[k] = "cancelled" /\ UNCHANGED handled
    BY <1>12 DEF EndCancelled, Same, command, bridge
  <2>2. task'[k] = "writing" /\ \A j \in Commands \ {k} : task'[j] = task[j]
    BY <1>12 DEF EndCancelled, TypeOK
  <2>3. handled[k]
    BY <2>1 DEF Ledger, WorkIsHandled
  <2>4. <<>> # <<Response(k)>>
    OBVIOUS
  <2>5. QED
    BY <2>1, <2>2, <2>3, <2>4, Published, HandlerStep DEF Same
<1>13. QED
  BY <1>3, <1>4, <1>5, <1>6, <1>7, <1>8, <1>9, <1>10, <1>11, <1>12 DEF Handler

\* So does a command of the desktop.
LEMMA LedgerTauri ==
    ASSUME BridgeAssumption, TypeOK, Ledger, NEW k \in Commands, Tauri(k)
    PROVE  Ledger'
<1>1. ASSUME NEW d \in Kinds, NEW r \in Commands \cup {Nobody}, Ask(k, d, r)
      PROVE  Ledger'
  <2>1. /\ state[k] = "idle" /\ state' = [state EXCEPT ![k] = "asked"]
        /\ UNCHANGED <<app, outcome, holder, pending, inbox, stdin, stdout, task, lines, handled>>
    BY <1>1 DEF Ask, bridge, core
  <2>2. \A j \in Commands : OnInput(j)' = OnInput(j) /\ Replied(j)' = Replied(j)
    BY <2>1 DEF OnInput, Replied
  <2>3. MutexCoversWait'
    BY <2>1 DEF Ledger, MutexCoversWait, TypeOK
  <2>4. OneOutcome' /\ UnsentIsUnknown'
    BY <2>1, <2>2 DEF Ledger, OneOutcome, UnsentIsUnknown, TypeOK
  <2>5. ReadOnce' /\ AnswerIsLast' /\ WorkIsHandled'
    BY <2>1 DEF Ledger, ReadOnce, AnswerIsLast, WorkIsHandled
  <2>6. RepliedIsOver' /\ OneAtATime'
    BY <2>1, <2>2 DEF Ledger, RepliedIsOver, OneAtATime
  <2>7. QED
    BY <2>3, <2>4, <2>5, <2>6 DEF Ledger
<1>2. CASE Send(k)
  <2>1. /\ state[k] = "asked" /\ state' = [state EXCEPT ![k] = "waiting"]
        /\ holder = Nobody /\ holder' = k
        /\ pending' = pending \cup {k} /\ stdin' = Append(stdin, k)
        /\ UNCHANGED <<app, outcome, inbox, stdout, task, lines, handled>>
    BY <1>2 DEF Send, MayLock
  <2>2. /\ Len(stdin) \in Nat /\ Len(stdin') = Len(stdin) + 1
        /\ \A i \in 1..Len(stdin) : stdin'[i] = stdin[i]
        /\ stdin'[Len(stdin) + 1] = k
    BY <2>1, Appended, LenProperties DEF TypeOK
  <2>3. \A j \in Commands : OnInput(j)' <=> OnInput(j) \/ j = k
    <3>1. ASSUME NEW j \in Commands, OnInput(j)' PROVE OnInput(j) \/ j = k
      <4>1. PICK i \in 1..Len(stdin') : stdin'[i] = j
        BY <3>1 DEF OnInput
      <4>2. i \in 1..Len(stdin) \/ i = Len(stdin) + 1
        BY <2>2
      <4>3. QED
        BY <2>2, <4>1, <4>2 DEF OnInput
    <3>2. ASSUME NEW j \in Commands, OnInput(j) PROVE OnInput(j)'
      <4>1. PICK i \in 1..Len(stdin) : stdin[i] = j
        BY <3>2 DEF OnInput
      <4>2. i \in 1..Len(stdin')
        BY <2>2
      <4>3. QED
        BY <2>2, <4>1, <4>2 DEF OnInput
    <3>3. OnInput(k)'
      <4>1. Len(stdin) + 1 \in 1..Len(stdin')
        BY <2>2
      <4>2. QED
        BY <2>2, <4>1 DEF OnInput
    <3>4. QED
      BY <3>1, <3>2, <3>3
  <2>4. \A j \in Commands : Replied(j)' = Replied(j)
    BY <2>1 DEF Replied
  <2>5. pending = {} /\ inbox = {}
    BY <2>1 DEF Ledger, MutexCoversWait, TypeOK, BridgeAssumption
  <2>6. MutexCoversWait'
    BY <2>1, <2>5 DEF Ledger, MutexCoversWait, TypeOK, BridgeAssumption
  <2>7. task[k] = "none" /\ lines[k] = <<>> /\ ~ OnInput(k) /\ ~ Replied(k) /\ outcome[k] = "none"
    BY <2>1 DEF Ledger, UnsentIsUnknown, OneOutcome
  <2>8. OneOutcome' /\ UnsentIsUnknown'
    BY <2>1, <2>3, <2>4, <2>7 DEF Ledger, OneOutcome, UnsentIsUnknown, TypeOK
  <2>9. ReadOnce'
    <3>1. \A i \in 1..Len(stdin) : stdin[i] # k
      BY <2>7 DEF OnInput
    <3>2. \A i \in 1..Len(stdin') : i \in 1..Len(stdin) \/ i = Len(stdin) + 1
      BY <2>2
    <3>3. \A i \in 1..Len(stdin') : task'[stdin'[i]] = "none"
      BY <2>1, <2>2, <2>7, <3>2 DEF Ledger, ReadOnce
    <3>4. ASSUME NEW i \in 1..Len(stdin'), NEW j \in 1..Len(stdin'), stdin'[i] = stdin'[j]
          PROVE  i = j
      BY <2>2, <3>1, <3>2, <3>4 DEF Ledger, ReadOnce
    <3>5. QED
      BY <3>3, <3>4 DEF ReadOnce
  <2>10. AnswerIsLast' /\ WorkIsHandled'
    BY <2>1 DEF Ledger, AnswerIsLast, WorkIsHandled
  <2>11. RepliedIsOver'
    BY <2>1, <2>3, <2>4, <2>7 DEF Ledger, RepliedIsOver
  <2>12. OneAtATime'
    BY <2>1, <2>3 DEF Ledger, OneAtATime, BridgeAssumption
  <2>13. QED
    BY <2>6, <2>8, <2>9, <2>10, <2>11, <2>12 DEF Ledger
<1>3. ASSUME NEW o \in {"answered", "failed", "timeout"}, Over(k, o),
             \/ state[k] = "asked" /\ holder = Nobody
             \/ state[k] \in {"waiting", "expired"} /\ (o = "timeout" \/ Replied(k)),
             pending' \subseteq pending \ {k}, inbox' \subseteq inbox \ {k},
             UNCHANGED <<app, stdin, stdout, task, lines, handled>>
      PROVE  Ledger'
  <2>1. /\ state' = [state EXCEPT ![k] = "over"] /\ outcome' = [outcome EXCEPT ![k] = o]
        /\ holder' = Nobody
    BY <1>3 DEF Over
  <2>2. \A j \in Commands : OnInput(j)' = OnInput(j) /\ (Replied(j)' => Replied(j))
    BY <1>3 DEF OnInput, Replied
  <2>3. holder \in {k, Nobody}
    BY <1>3 DEF Ledger, MutexCoversWait
  <2>4. pending' = {} /\ inbox' = {}
    BY <1>3, <2>3 DEF Ledger, MutexCoversWait, TypeOK, BridgeAssumption
  <2>5. MutexCoversWait'
    BY <2>1, <2>3, <2>4 DEF Ledger, MutexCoversWait, TypeOK, BridgeAssumption
  <2>6. OneOutcome' /\ UnsentIsUnknown'
    BY <1>3, <2>1, <2>2 DEF Ledger, OneOutcome, UnsentIsUnknown, TypeOK
  <2>7. ReadOnce' /\ AnswerIsLast' /\ WorkIsHandled'
    BY <1>3 DEF Ledger, ReadOnce, AnswerIsLast, WorkIsHandled
  <2>8. RepliedIsOver'
    BY <1>3, <2>2 DEF Ledger, RepliedIsOver
  <2>9. OneAtATime'
    <3>1. ASSUME app = "up", NEW j \in Commands, j # k
          PROVE  (task[j] = "none" /\ ~ OnInput(j)) \/ outcome'[j] = "timeout"
      BY <2>1, <2>3, <3>1 DEF Ledger, OneAtATime, TypeOK, BridgeAssumption
    <3>2. (task[k] = "none" /\ ~ OnInput(k)) \/ outcome'[k] = "timeout"
      BY <1>3, <2>1 DEF Ledger, UnsentIsUnknown, RepliedIsOver, TypeOK
    <3>3. QED
      BY <1>3, <2>2, <3>1, <3>2 DEF OneAtATime
  <2>10. QED
    BY <2>5, <2>6, <2>7, <2>8, <2>9 DEF Ledger
<1>4. CASE SpawnFails(k)
  <2>1. k \notin pending /\ k \notin inbox
    BY <1>4 DEF SpawnFails, MayLock, Ledger, MutexCoversWait, BridgeAssumption
  <2>2. QED
    BY <1>3, <1>4, <2>1 DEF SpawnFails, MayLock, bridge, core
<1>5. CASE WriteFails(k)
  <2>1. k \notin pending /\ k \notin inbox
    BY <1>5 DEF WriteFails, MayLock, Ledger, MutexCoversWait, BridgeAssumption
  <2>2. QED
    BY <1>3, <1>5, <2>1 DEF WriteFails, MayLock, bridge, core
<1>6. CASE Receive(k)
  <2>1. k \notin pending /\ Replied(k)
    BY <1>6 DEF Receive, Replied, Ledger, MutexCoversWait
  <2>2. QED
    BY <1>3, <1>6, <2>1 DEF Receive, core
<1>7. CASE Expire(k)
  <2>1. /\ state[k] = "waiting" /\ state' = [state EXCEPT ![k] = "expired"]
        /\ UNCHANGED <<app, outcome, holder, pending, inbox, stdin, stdout, task, lines, handled>>
    BY <1>7 DEF Expire, bridge, core
  <2>2. \A j \in Commands : OnInput(j)' = OnInput(j) /\ Replied(j)' = Replied(j)
    BY <2>1 DEF OnInput, Replied
  <2>3. MutexCoversWait'
    BY <2>1 DEF Ledger, MutexCoversWait, TypeOK
  <2>4. OneOutcome' /\ UnsentIsUnknown'
    BY <2>1, <2>2 DEF Ledger, OneOutcome, UnsentIsUnknown, TypeOK
  <2>5. ReadOnce' /\ AnswerIsLast' /\ WorkIsHandled'
    BY <2>1 DEF Ledger, ReadOnce, AnswerIsLast, WorkIsHandled
  <2>6. RepliedIsOver' /\ OneAtATime'
    BY <2>1, <2>2 DEF Ledger, RepliedIsOver, OneAtATime
  <2>7. QED
    BY <2>3, <2>4, <2>5, <2>6 DEF Ledger
<1>8. CASE GiveUp(k)
  BY <1>3, <1>8 DEF GiveUp, core
<1>9. QED
  BY <1>1, <1>2, <1>4, <1>5, <1>6, <1>7, <1>8 DEF Tauri

\* So does a line that is written.
LEMMA LedgerWrite ==
    ASSUME BridgeAssumption, TypeOK, Ledger, NEW k \in Commands, Write(k)
    PROVE  Ledger'
<1> DEFINE line == Head(lines[k])
<1>1. /\ lines[k] # <<>> /\ lines' = [lines EXCEPT ![k] = Tail(lines[k])]
      /\ task' = [task EXCEPT ![k] =
            IF task[k] = "writing" /\ Len(lines[k]) = 1 THEN "none" ELSE task[k]]
      /\ UNCHANGED <<app, state, outcome, holder, pending, inbox, stdin, handled>>
  BY DEF Write, command, bridge
<1>2. /\ Len(lines[k]) \in Nat \ {0} /\ line = lines[k][1] /\ line \in Line
      /\ Tail(lines[k]) \in Seq(Line) /\ Len(Tail(lines[k])) = Len(lines[k]) - 1
      /\ \A i \in 1..(Len(lines[k]) - 1) : Tail(lines[k])[i] = lines[k][i + 1]
  BY <1>1, Taken DEF TypeOK
<1>3. /\ lines'[k] = Tail(lines[k]) /\ \A j \in Commands \ {k} : lines'[j] = lines[j]
      /\ task'[k] = (IF task[k] = "writing" /\ Len(lines[k]) = 1 THEN "none" ELSE task[k])
      /\ \A j \in Commands \ {k} : task'[j] = task[j]
  BY <1>1 DEF TypeOK
<1> HIDE DEF line
<1>4. line.type = "response" =>
        /\ line = Response(k) /\ line.of = k
        /\ handled[k] /\ task[k] = "writing" /\ Len(lines[k]) = 1
  <2>1. 1 \in 1..Len(lines[k])
    BY <1>2
  <2>2. lines[k][1].type = "response" =>
          /\ lines[k][1] = Response(k)
          /\ handled[k] /\ task[k] = "writing" /\ 1 = Len(lines[k])
    BY <2>1 DEF Ledger, AnswerIsLast
  <2>3. QED
    BY <1>2, <2>2 DEF Response
<1>5. \A j \in Commands : OnInput(j)' = OnInput(j)
  BY <1>1 DEF OnInput
<1>6. ASSUME NEW j \in Commands, Replied(j)'
      PROVE  Replied(j) \/ (line.type = "response" /\ j = k)
  <2>1. CASE j \in inbox'
    BY <1>1, <2>1 DEF Replied
  <2>2. CASE stdout' = stdout
    BY <1>1, <1>6, <2>2 DEF Replied
  <2>3. CASE j \notin inbox' /\ stdout' # stdout
    <3>1. PICK i \in 1..Len(stdout') : IsAnswer(stdout'[i], j)
      BY <1>6, <2>3 DEF Replied
    <3>2. PICK l \in Line : /\ stdout' = Append(stdout, l)
                            /\ l = line \/ l.type = "event"
      <4>1. Event(emitted + 1, line.of) \in Line /\ Event(emitted + 1, line.of).type = "event"
        <5>1. emitted + 1 \in Nat
          BY DEF TypeOK
        <5>2. line.of \in Commands \cup {Nobody}
          BY <1>2 DEF Line
        <5>3. QED
          BY <5>1, <5>2 DEF Event, Line
      <4>2. stdout' = Append(stdout, IF app = "up" /\ line.type = "event"
                                     THEN Event(emitted + 1, line.of) ELSE line)
        BY <2>3 DEF Write, line
      <4>3. QED
        BY <1>2, <4>1, <4>2
    <3>3. /\ Len(stdout) \in Nat /\ Len(stdout') = Len(stdout) + 1
          /\ \A n \in 1..Len(stdout) : stdout'[n] = stdout[n]
          /\ stdout'[Len(stdout) + 1] = l
      BY <3>2, Appended, LenProperties DEF TypeOK
    <3>4. CASE i \in 1..Len(stdout)
      BY <3>1, <3>3, <3>4 DEF Replied
    <3>5. CASE i = Len(stdout) + 1
      BY <1>4, <3>1, <3>2, <3>3, <3>5 DEF IsAnswer
    <3>6. QED
      BY <3>3, <3>4, <3>5
  <2>4. QED
    BY <2>1, <2>2, <2>3
<1>7. ~ OnInput(k) \/ task[k] = "none"
  BY DEF OnInput, Ledger, ReadOnce
<1>8. MutexCoversWait' /\ OneOutcome'
  BY <1>1 DEF Ledger, MutexCoversWait, OneOutcome
<1>9. UnsentIsUnknown'
  BY <1>1, <1>3, <1>5, <1>6 DEF Ledger, UnsentIsUnknown
<1>10. ReadOnce'
  <2>1. \A i \in 1..Len(stdin) : stdin[i] \in Commands
    BY ElementOfSeq DEF TypeOK
  <2>2. QED
    BY <1>1, <1>3, <2>1 DEF Ledger, ReadOnce
<1>11. AnswerIsLast'
  <2>1. ASSUME NEW j \in Commands \ {k}, NEW i \in 1..Len(lines'[j]),
               lines'[j][i].type = "response"
        PROVE  lines'[j][i] = Response(j) /\ handled'[j] /\ task'[j] = "writing" /\ i = Len(lines'[j])
    <3>1. lines[j][i] = Response(j) /\ handled[j] /\ task[j] = "writing" /\ i = Len(lines[j])
      BY <1>3, <2>1 DEF Ledger, AnswerIsLast
    <3>2. QED
      BY <1>1, <1>3, <3>1
  <2>2. ASSUME NEW i \in 1..Len(lines'[k]), lines'[k][i].type = "response"
        PROVE  lines'[k][i] = Response(k) /\ handled'[k] /\ task'[k] = "writing" /\ i = Len(lines'[k])
    <3>1. i \in 1..(Len(lines[k]) - 1) /\ i + 1 \in 1..Len(lines[k])
      BY <1>2, <1>3
    <3>2. lines'[k][i] = lines[k][i + 1]
      BY <1>2, <1>3, <3>1
    <3>3. /\ lines[k][i + 1] = Response(k) /\ handled[k] /\ task[k] = "writing"
          /\ i + 1 = Len(lines[k])
      BY <2>2, <3>1, <3>2 DEF Ledger, AnswerIsLast
    <3>4. Len(lines[k]) # 1 /\ i = Len(lines'[k])
      BY <1>2, <1>3, <3>1, <3>3
    <3>5. QED
      BY <1>1, <1>3, <3>2, <3>3, <3>4
  <2>3. QED
    BY <2>1, <2>2 DEF AnswerIsLast
<1>12. RepliedIsOver'
  <2>1. ASSUME NEW j \in Commands, Replied(j)
        PROVE  handled'[j] /\ task'[j] = "none" /\ lines'[j] = <<>> /\ ~ OnInput(j)'
    <3>1. handled[j] /\ task[j] = "none" /\ lines[j] = <<>> /\ ~ OnInput(j)
      BY <2>1 DEF Ledger, RepliedIsOver
    <3>2. j # k
      BY <1>1, <3>1
    <3>3. QED
      BY <1>1, <1>3, <1>5, <3>1, <3>2
  <2>2. ASSUME line.type = "response"
        PROVE  handled'[k] /\ task'[k] = "none" /\ lines'[k] = <<>> /\ ~ OnInput(k)'
    <3>1. handled[k] /\ task[k] = "writing" /\ Len(lines[k]) = 1
      BY <1>4, <2>2
    <3>2. lines'[k] = <<>>
      <4>1. lines'[k] \in Seq(Line) /\ Len(lines'[k]) = 0
        BY <1>2, <1>3, <3>1
      <4>2. QED
        BY <4>1, EmptySeq
    <3>3. QED
      BY <1>1, <1>3, <1>5, <1>7, <3>1, <3>2
  <2>3. QED
    BY <1>6, <2>1, <2>2 DEF RepliedIsOver
<1>13. WorkIsHandled'
  BY <1>1, <1>3 DEF Ledger, WorkIsHandled
<1>14. OneAtATime'
  BY <1>1, <1>3, <1>5 DEF Ledger, OneAtATime
<1>15. QED
  BY <1>8, <1>9, <1>10, <1>11, <1>12, <1>13, <1>14 DEF Ledger

\* And so does every other step.
LEMMA LedgerNext ==
    ASSUME BridgeAssumption, TypeOK, Ledger, [Next]_vars
    PROVE  Ledger'
<1>1. ASSUME NEW k \in Commands, Tauri(k) \/ Handler(k) PROVE Ledger'
  BY <1>1, LedgerTauri, LedgerHandler, LedgerWrite
\* Steps that change neither commands nor tasks, and at most take answers out of the pipe.
<1>2. ASSUME UNCHANGED <<state, outcome, holder, pending, inbox, stdin, task, lines, handled>>,
             app' \in {app, "down"}, \A k \in Commands : Replied(k)' => Replied(k)
      PROVE  Ledger'
  <2>1. \A k \in Commands : OnInput(k)' = OnInput(k)
    BY <1>2 DEF OnInput
  <2>2. MutexCoversWait' /\ OneOutcome' /\ ReadOnce' /\ AnswerIsLast' /\ WorkIsHandled'
    BY <1>2 DEF Ledger, MutexCoversWait, OneOutcome, ReadOnce, AnswerIsLast, WorkIsHandled
  <2>3. UnsentIsUnknown' /\ RepliedIsOver'
    BY <1>2, <2>1 DEF Ledger, UnsentIsUnknown, RepliedIsOver
  <2>4. OneAtATime'
    BY <1>2, <2>1 DEF Ledger, OneAtATime
  <2>5. QED
    BY <2>2, <2>3, <2>4 DEF Ledger
\* Steps after which nothing is left in the core.
<1>3. ASSUME UNCHANGED <<state, outcome, holder, inbox, handled>>,
             pending' \subseteq pending, stdin' = <<>>, task' = Idle, lines' = Silent,
             \A k \in Commands : Replied(k)' => Replied(k)
      PROVE  Ledger'
  <2>1. Len(stdin') = 0 /\ \A k \in Commands : task'[k] = "none" /\ lines'[k] = <<>>
    BY <1>3 DEF Idle, Silent
  <2>2. \A k \in Commands : ~ OnInput(k)'
    BY <2>1 DEF OnInput
  <2>3. MutexCoversWait' /\ OneOutcome'
    BY <1>3 DEF Ledger, MutexCoversWait, OneOutcome
  <2>4. UnsentIsUnknown' /\ RepliedIsOver'
    BY <1>3, <2>1, <2>2 DEF Ledger, UnsentIsUnknown, RepliedIsOver
  <2>5. ReadOnce' /\ AnswerIsLast' /\ WorkIsHandled'
    <3>1. \A k \in Commands : Len(lines'[k]) = 0
      BY <2>1
    <3>2. QED
      BY <2>1, <3>1 DEF ReadOnce, AnswerIsLast, WorkIsHandled
  <2>6. OneAtATime'
    BY <2>1, <2>2 DEF OneAtATime
  <2>7. QED
    BY <2>3, <2>4, <2>5, <2>6 DEF Ledger
<1>4. CASE DrainEvents
  BY <1>2, <1>4 DEF DrainEvents, command, core, Replied
<1>5. CASE ShutdownCore
  <2>1. Len(stdout') = 0 /\ UNCHANGED inbox
    BY <1>5 DEF ShutdownCore
  <2>2. \A k \in Commands : Replied(k)' => Replied(k)
    BY <2>1 DEF Replied
  <2>3. QED
    BY <1>3, <1>5, <2>2 DEF ShutdownCore, command
<1>6. CASE AppDies
  <2>1. Len(stdout') = 0 /\ UNCHANGED inbox
    BY <1>6 DEF AppDies, bridge
  <2>2. \A k \in Commands : Replied(k)' => Replied(k)
    BY <2>1 DEF Replied
  <2>3. QED
    BY <1>2, <1>6, <2>2 DEF AppDies, command, bridge, core
<1>7. ASSUME stdout # <<>>, stdout' = Tail(stdout),
             \A k \in Commands : k \in inbox' => k \in inbox \/ IsAnswer(Head(stdout), k)
      PROVE  \A k \in Commands : Replied(k)' => Replied(k)
  <2>1. /\ Len(stdout) \in Nat \ {0} /\ Head(stdout) = stdout[1]
        /\ Len(stdout') = Len(stdout) - 1
        /\ \A i \in 1..(Len(stdout) - 1) : stdout'[i] = stdout[i + 1]
    BY <1>7, Taken DEF TypeOK
  <2>2. ASSUME NEW k \in Commands, Replied(k)' PROVE Replied(k)
    <3>1. CASE k \in inbox'
      <4>1. 1 \in 1..Len(stdout)
        BY <2>1
      <4>2. QED
        BY <1>7, <2>1, <3>1, <4>1 DEF Replied
    <3>2. CASE k \notin inbox'
      <4>1. PICK i \in 1..Len(stdout') : IsAnswer(stdout'[i], k)
        BY <2>2, <3>2 DEF Replied
      <4>2. i + 1 \in 1..Len(stdout) /\ stdout'[i] = stdout[i + 1]
        BY <2>1
      <4>3. QED
        BY <4>1, <4>2 DEF Replied
    <3>3. QED
      BY <3>1, <3>2
  <2>3. QED
    BY <2>2
<1>8. CASE RouteEvent
  BY <1>2, <1>7, <1>8 DEF RouteEvent, command, core
<1>9. CASE RouteResponse
  <2>1. /\ UNCHANGED <<app, state, outcome, holder, stdin, task, lines, handled>>
        /\ Head(stdout).type = "response" /\ stdout # <<>> /\ stdout' = Tail(stdout)
        /\ inbox' = inbox \cup (pending \cap {Head(stdout).of})
        /\ pending' = pending \ {Head(stdout).of}
    BY <1>9 DEF RouteResponse, command, core
  <2>2. \A k \in Commands : Replied(k)' => Replied(k)
    BY <1>7, <2>1 DEF IsAnswer
  <2>3. \A k \in Commands : OnInput(k)' = OnInput(k)
    BY <2>1 DEF OnInput
  <2>4. MutexCoversWait'
    BY <2>1 DEF Ledger, MutexCoversWait
  <2>5. OneOutcome' /\ ReadOnce' /\ AnswerIsLast' /\ WorkIsHandled'
    BY <2>1 DEF Ledger, OneOutcome, ReadOnce, AnswerIsLast, WorkIsHandled
  <2>6. UnsentIsUnknown' /\ RepliedIsOver' /\ OneAtATime'
    BY <2>1, <2>2, <2>3 DEF Ledger, UnsentIsUnknown, RepliedIsOver, OneAtATime
  <2>7. QED
    BY <2>4, <2>5, <2>6 DEF Ledger
<1>10. CASE ReadLine
  <2>0. PICK k \in Commands : k = Head(stdin)
    <3>1. stdin # <<>>
      BY <1>10 DEF ReadLine
    <3>2. Head(stdin) \in Commands
      BY <3>1, Taken DEF TypeOK
    <3>3. QED
      BY <3>2
  <2>1. /\ stdin # <<>> /\ stdin' = Tail(stdin) /\ task' = [task EXCEPT ![k] = "handling"]
        /\ UNCHANGED <<app, state, outcome, holder, pending, inbox, stdout, lines, handled>>
    BY <1>10, <2>0 DEF ReadLine, command, bridge
  <2>2. /\ Len(stdin) \in Nat \ {0} /\ k = stdin[1] /\ k \in Commands
        /\ Len(stdin') = Len(stdin) - 1
        /\ \A i \in 1..(Len(stdin) - 1) : stdin'[i] = stdin[i + 1]
    BY <2>0, <2>1, Taken DEF TypeOK
  <2>3. OnInput(k) /\ task[k] = "none"
    BY <2>2 DEF OnInput, Ledger, ReadOnce
  <2>4. \A i \in 1..Len(stdin') : /\ i + 1 \in 1..Len(stdin) /\ stdin'[i] = stdin[i + 1]
                                  /\ stdin'[i] # k
    <3>1. TAKE i \in 1..Len(stdin')
    <3>2. i + 1 \in 1..Len(stdin) /\ 1 \in 1..Len(stdin) /\ i + 1 # 1
          /\ stdin'[i] = stdin[i + 1]
      BY <2>2
    <3>3. QED
      BY <2>2, <3>2 DEF Ledger, ReadOnce
  <2>5. ~ OnInput(k)' /\ \A j \in Commands : OnInput(j)' => OnInput(j)
    <3>1. ASSUME NEW j \in Commands, OnInput(j)' PROVE OnInput(j) /\ j # k
      <4>1. PICK i \in 1..Len(stdin') : stdin'[i] = j
        BY <3>1 DEF OnInput
      <4>2. i + 1 \in 1..Len(stdin) /\ stdin[i + 1] = j /\ j # k
        BY <2>4, <4>1
      <4>3. QED
        BY <4>2 DEF OnInput
    <3>2. QED
      BY <2>2, <3>1
  <2>6. \A j \in Commands : Replied(j)' = Replied(j)
    BY <2>1 DEF Replied
  <2>7. task'[k] = "handling" /\ \A j \in Commands \ {k} : task'[j] = task[j]
    BY <2>1, <2>2 DEF TypeOK
  <2>8. MutexCoversWait' /\ OneOutcome'
    BY <2>1 DEF Ledger, MutexCoversWait, OneOutcome
  <2>9. UnsentIsUnknown' /\ RepliedIsOver'
    BY <2>1, <2>3, <2>5, <2>6, <2>7 DEF Ledger, UnsentIsUnknown, RepliedIsOver
  <2>10. ReadOnce'
    <3>1. \A i \in 1..Len(stdin') : stdin'[i] \in Commands \ {k}
      BY <2>1, <2>4, ElementOfSeq DEF TypeOK
    <3>2. \A i \in 1..Len(stdin') : task'[stdin'[i]] = "none"
      BY <2>4, <2>7, <3>1 DEF Ledger, ReadOnce
    <3>3. ASSUME NEW i \in 1..Len(stdin'), NEW j \in 1..Len(stdin'), stdin'[i] = stdin'[j]
          PROVE  i = j
      <4>1. i + 1 = j + 1
        BY <2>4, <3>3 DEF Ledger, ReadOnce
      <4>2. QED
        BY <2>2, <4>1
    <3>4. QED
      BY <3>2, <3>3 DEF ReadOnce
  <2>11. AnswerIsLast'
    BY <2>1, <2>3, <2>7 DEF Ledger, AnswerIsLast
  <2>12. WorkIsHandled' /\ OneAtATime'
    BY <2>1, <2>3, <2>5, <2>7 DEF Ledger, WorkIsHandled, OneAtATime
  <2>13. QED
    BY <2>8, <2>9, <2>10, <2>11, <2>12 DEF Ledger
<1>11. CASE EndOfInput
  BY <1>2, <1>11 DEF EndOfInput, command, bridge, Replied
<1>12. CASE Stop
  BY <1>2, <1>12 DEF Stop, command, bridge, Replied
<1>13. CASE Die
  BY <1>3, <1>13 DEF Die, command, bridge, Replied
<1>14. CASE UNCHANGED vars
  BY <1>2, <1>14 DEF vars, command, bridge, core, Replied
<1>15. QED
  BY <1>1, <1>4, <1>5, <1>6, <1>8, <1>9, <1>10, <1>11, <1>12, <1>13, <1>14 DEF Next

\* What each request has in pending, pipes, handlers and outcome agrees, in every state.
THEOREM LedgerHolds == Spec => [](TypeOK /\ Ledger)
<1>1. Init => TypeOK /\ Ledger
  BY TypeInit, LedgerInit, BridgeAssumption
<1>2. (TypeOK /\ Ledger) /\ [Next]_vars => (TypeOK /\ Ledger)'
  BY TypeNext, LedgerNext, BridgeAssumption
<1>3. QED
  BY <1>1, <1>2, PTL DEF Spec

\* Of a request that is over nothing is left with the mutex, among the pending
\* requests or in a channel.
THEOREM MutexCovers == Spec => []MutexCoversWait
<1>1. Ledger => MutexCoversWait
  BY DEF Ledger
<1>2. QED
  BY <1>1, LedgerHolds, PTL

\* While a run is awaited nothing else of this desktop is with the core, except
\* what has been given up.
THEOREM OneAtATimeHolds == Spec => []OneRequestAtATime
<1>1. TypeOK /\ Ledger => OneRequestAtATime
  <2>1. SUFFICES ASSUME TypeOK, Ledger PROVE OneRequestAtATime
    OBVIOUS
  <2>2. DOMAIN stdin = 1..Len(stdin)
    BY LenProperties DEF TypeOK
  <2>3. QED
    BY <2>1, <2>2 DEF Ledger, OneAtATime, OnInput, OneRequestAtATime
<1>2. QED
  BY <1>1, LedgerHolds, PTL

---------------------------------------------------------------------------
(* The stream of events, from the number a core gives each to the queue.     *)

IsEvent(i) == stdout[i].type = "event"

QueueNumbered == \A i \in 1..Len(queue) : queue[i].n = LastRouted - Len(queue) + i

NoneLost == Len(queue) < Limit => LastRouted = drained + Len(queue)

\* Each event in the pipe follows the one before it, the first the last one routed.
PipeNumbered ==
    \A i \in 1..Len(stdout) :
        /\ ~ IsEvent(i) => stdout[i].n = 0
        /\ IsEvent(i) =>
              /\ LastRouted < stdout[i].n /\ stdout[i].n <= emitted
              /\ \A j \in 1..(i - 1) : stdout[j].n < stdout[i].n
              /\ \/ stdout[i].n = LastRouted + 1
                 \/ \E j \in 1..(i - 1) : IsEvent(j) /\ stdout[j].n = stdout[i].n - 1

NewestIsThere ==
    app = "up" =>
        LastRouted = emitted \/ \E i \in 1..Len(stdout) : IsEvent(i) /\ stdout[i].n = emitted

Stream == QueueNumbered /\ NoneLost /\ PipeNumbered /\ NewestIsThere

\* Before the first event the stream is empty.
LEMMA StreamInit == BridgeAssumption /\ Init => Stream
<1> SUFFICES ASSUME BridgeAssumption, Init PROVE Stream
  OBVIOUS
<1>1. Len(queue) = 0 /\ Len(stdout) = 0 /\ LastRouted = 0 /\ emitted = 0 /\ drained = 0
  BY DEF Init, LastRouted
<1>2. QED
  BY <1>1 DEF Stream, QueueNumbered, NoneLost, PipeNumbered, NewestIsThere

\* The place where the desktop's copy ends is a number.
LEMMA LastRoutedIsNat == TypeOK => LastRouted \in Nat
<1> SUFFICES ASSUME TypeOK PROVE LastRouted \in Nat
  OBVIOUS
<1>1. CASE queue = <<>>
  BY <1>1 DEF LastRouted, TypeOK
<1>2. CASE queue # <<>>
  <2>1. Len(queue) \in 1..Len(queue)
    BY <1>2, Taken DEF TypeOK
  <2>2. queue[Len(queue)] \in Line
    BY <2>1, ElementOfSeq DEF TypeOK
  <2>3. QED
    BY <1>2, <2>2, LineTypes DEF LastRouted
<1>3. QED
  BY <1>1, <1>2

\* The elements of the pipe are lines.
LEMMA PipeTypes == TypeOK => Len(stdout) \in Nat /\ \A i \in 1..Len(stdout) : stdout[i] \in Line
BY LenProperties, ElementOfSeq DEF TypeOK

\* A written event takes the next number.
LEMMA StreamWrite ==
    ASSUME BridgeAssumption, TypeOK, Ledger, Stream, NEW k \in Commands, Write(k)
    PROVE  Stream'
<1> DEFINE line == Head(lines[k])
<1> DEFINE heard == app = "up" /\ line.type = "event"
<1>1. /\ lines[k] # <<>> /\ UNCHANGED <<app, queue, drained>>
      /\ emitted' = IF heard THEN emitted + 1 ELSE emitted
      /\ stdout' = IF app = "down" THEN stdout
                   ELSE Append(stdout, IF heard THEN Event(emitted + 1, line.of) ELSE line)
  BY DEF Write, command, bridge
<1>2. 1 \in 1..Len(lines[k]) /\ line = lines[k][1] /\ line \in Line
  BY <1>1, Taken DEF TypeOK
<1>3. line.type = "response" => line.n = 0
  <2>1. lines[k][1].type = "response" => lines[k][1] = Response(k)
    BY <1>2 DEF Ledger, AnswerIsLast
  <2>2. QED
    BY <1>2, <2>1 DEF Response
<1> HIDE DEF line
<1>4. LastRouted' = LastRouted /\ LastRouted \in Nat /\ emitted \in Nat
  BY <1>1, LastRoutedIsNat DEF LastRouted, TypeOK
<1>5. QueueNumbered' /\ NoneLost'
  BY <1>1, <1>4 DEF Stream, QueueNumbered, NoneLost
<1>6. CASE app = "down"
  <2>1. stdout' = stdout /\ emitted' = emitted
    BY <1>1, <1>6
  <2>2. QED
    BY <1>1, <1>4, <1>5, <1>6, <2>1
       DEF Stream, PipeNumbered, NewestIsThere, IsEvent
<1>7. CASE app = "up"
  <2>1. PICK l \in Line : /\ stdout' = Append(stdout, l)
                          /\ l.type = "event" => l.n = emitted + 1 /\ emitted' = emitted + 1
                          /\ l.type # "event" => l.n = 0 /\ emitted' = emitted
    <3>1. CASE line.type = "event"
      <4>1. emitted + 1 \in Nat /\ line.of \in Commands \cup {Nobody}
        BY <1>2, <1>4 DEF Line
      <4>2. Event(emitted + 1, line.of) \in Line
        BY <4>1 DEF Event, Line
      <4>3. stdout' = Append(stdout, Event(emitted + 1, line.of)) /\ emitted' = emitted + 1
        BY <1>1, <1>7, <3>1
      <4>4. /\ Event(emitted + 1, line.of).type = "event"
            /\ Event(emitted + 1, line.of).n = emitted + 1
        BY DEF Event
      <4>5. QED
        BY <4>2, <4>3, <4>4
    <3>2. CASE line.type # "event"
      <4>1. stdout' = Append(stdout, line) /\ emitted' = emitted
        BY <1>1, <1>7, <3>2
      <4>2. line.type = "response"
        BY <1>2, <3>2, LineTypes
      <4>3. QED
        BY <1>2, <1>3, <4>1, <4>2
    <3>3. QED
      BY <3>1, <3>2
  <2>2. /\ Len(stdout) \in Nat /\ Len(stdout') = Len(stdout) + 1
        /\ \A i \in 1..Len(stdout) : stdout'[i] = stdout[i]
        /\ stdout'[Len(stdout) + 1] = l
    BY <2>1, Appended, LenProperties DEF TypeOK
  <2>3. \A i \in 1..Len(stdout) : IsEvent(i)' = IsEvent(i) /\ stdout[i].n \in Nat
    BY <2>2, PipeTypes, LineTypes DEF IsEvent
  <2>4. \A i \in 1..Len(stdout) : stdout[i].n <= emitted
    BY <1>4, <2>3 DEF Stream, PipeNumbered
  <2>5. LastRouted = emitted \/ \E i \in 1..Len(stdout) : IsEvent(i) /\ stdout[i].n = emitted
    BY <1>7 DEF Stream, NewestIsThere
  <2>6. LastRouted <= emitted
    BY <1>4, <2>5 DEF Stream, PipeNumbered
  <2>7. ASSUME NEW i \in 1..Len(stdout'), ~ IsEvent(i)' PROVE stdout'[i].n = 0
    BY <2>1, <2>2, <2>3, <2>7 DEF Stream, PipeNumbered, IsEvent
  <2>8. ASSUME NEW i \in 1..Len(stdout'), IsEvent(i)'
        PROVE  /\ LastRouted' < stdout'[i].n /\ stdout'[i].n <= emitted'
               /\ \A j \in 1..(i - 1) : stdout'[j].n < stdout'[i].n
               /\ \/ stdout'[i].n = LastRouted' + 1
                  \/ \E j \in 1..(i - 1) : IsEvent(j)' /\ stdout'[j].n = stdout'[i].n - 1
    <3>1. CASE i \in 1..Len(stdout)
      <4>1. /\ LastRouted < stdout[i].n /\ stdout[i].n <= emitted
            /\ \A j \in 1..(i - 1) : stdout[j].n < stdout[i].n
            /\ \/ stdout[i].n = LastRouted + 1
               \/ \E j \in 1..(i - 1) : IsEvent(j) /\ stdout[j].n = stdout[i].n - 1
        BY <2>3, <2>8, <3>1 DEF Stream, PipeNumbered
      <4>2. \A j \in 1..(i - 1) : j \in 1..Len(stdout)
        BY <2>2, <3>1
      <4>3. stdout'[i] = stdout[i] /\ stdout[i].n \in Nat /\ emitted' \in {emitted, emitted + 1}
        BY <2>1, <2>2, <2>3, <3>1
      <4>4. \A j \in 1..(i - 1) : stdout'[j] = stdout[j] /\ IsEvent(j)' = IsEvent(j)
        BY <2>2, <2>3, <4>2
      <4>5. LastRouted' < stdout'[i].n /\ stdout'[i].n <= emitted'
        BY <1>4, <4>1, <4>3
      <4>6. QED
        BY <1>4, <4>1, <4>3, <4>4, <4>5
    <3>2. CASE i = Len(stdout) + 1
      <4>1. stdout'[i].n = emitted + 1 /\ emitted' = emitted + 1
        BY <2>1, <2>2, <2>8, <3>2 DEF IsEvent
      <4>2. i - 1 = Len(stdout)
        BY <2>2, <3>2
      <4>3. \A j \in 1..(i - 1) : stdout'[j].n < stdout'[i].n
        BY <1>4, <2>2, <2>3, <2>4, <4>1, <4>2
      <4>4. \/ stdout'[i].n = LastRouted' + 1
            \/ \E j \in 1..(i - 1) : IsEvent(j)' /\ stdout'[j].n = stdout'[i].n - 1
        BY <1>4, <2>2, <2>3, <2>5, <4>1, <4>2
      <4>5. QED
        BY <1>4, <2>6, <4>1, <4>3, <4>4
    <3>3. QED
      BY <2>2, <3>1, <3>2
  <2>9. PipeNumbered'
    BY <2>7, <2>8 DEF PipeNumbered
  <2>10. NewestIsThere'
    <3>1. CASE l.type = "event"
      <4>1. Len(stdout) + 1 \in 1..Len(stdout')
        BY <2>2
      <4>2. /\ stdout'[Len(stdout) + 1].type = "event"
            /\ stdout'[Len(stdout) + 1].n = emitted'
        BY <2>1, <2>2, <3>1
      <4>3. QED
        BY <4>1, <4>2 DEF NewestIsThere, IsEvent
    <3>2. CASE l.type # "event"
      BY <1>4, <2>1, <2>2, <2>3, <2>5, <3>2 DEF NewestIsThere
    <3>3. QED
      BY <3>1, <3>2
  <2>11. QED
    BY <1>5, <2>9, <2>10 DEF Stream
<1>8. QED
  BY <1>6, <1>7 DEF TypeOK

\* The events that stay in the pipe when its head is taken keep their order.
LEMMA StreamRoute ==
    ASSUME BridgeAssumption, TypeOK, Stream, NEW m \in Nat,
           stdout # <<>>, stdout' = Tail(stdout), UNCHANGED <<app, emitted>>,
           LastRouted' = m, m = IF IsEvent(1) THEN stdout[1].n ELSE LastRouted
    PROVE  PipeNumbered' /\ NewestIsThere'
<1>1. /\ Len(stdout) \in Nat \ {0} /\ Len(stdout') = Len(stdout) - 1
      /\ \A i \in 1..(Len(stdout) - 1) : stdout'[i] = stdout[i + 1]
  BY Taken DEF TypeOK
<1>2. 1 \in 1..Len(stdout) /\ LastRouted \in Nat /\ emitted \in Nat
  BY <1>1, LastRoutedIsNat DEF TypeOK
<1>3. \A i \in 1..Len(stdout) : stdout[i].n \in Nat
  BY PipeTypes, LineTypes
<1>4. /\ IsEvent(1) => m = LastRouted + 1 /\ m = stdout[1].n
      /\ ~ IsEvent(1) => m = LastRouted
  <2>1. CASE IsEvent(1)
    <3>1. LastRouted < stdout[1].n /\ stdout[1].n = LastRouted + 1
      BY <1>2, <2>1 DEF Stream, PipeNumbered
    <3>2. m = stdout[1].n
      BY <2>1
    <3>3. QED
      BY <2>1, <3>1, <3>2
  <2>2. CASE ~ IsEvent(1)
    BY <2>2
  <2>3. QED
    BY <2>1, <2>2
<1>5. \A i \in 1..Len(stdout') : /\ i + 1 \in 2..Len(stdout) /\ i + 1 \in 1..Len(stdout)
                                 /\ stdout'[i] = stdout[i + 1]
                                 /\ stdout'[i].type = "event" <=> IsEvent(i + 1)
  BY <1>1 DEF IsEvent
<1>6. ASSUME NEW i \in 2..Len(stdout), IsEvent(i)
      PROVE  /\ m < stdout[i].n /\ stdout[i].n <= emitted
             /\ \A j \in 1..(i - 1) : stdout[j].n < stdout[i].n
             /\ \/ stdout[i].n = m + 1
                \/ \E j \in 2..(i - 1) : IsEvent(j) /\ stdout[j].n = stdout[i].n - 1
  <2>1. i \in 1..Len(stdout) /\ 1 \in 1..(i - 1) /\ i \in Nat
    BY <1>1
  <2>2. /\ LastRouted < stdout[i].n /\ stdout[i].n <= emitted
        /\ \A j \in 1..(i - 1) : stdout[j].n < stdout[i].n
        /\ \/ stdout[i].n = LastRouted + 1
           \/ \E j \in 1..(i - 1) : IsEvent(j) /\ stdout[j].n = stdout[i].n - 1
    BY <1>6, <2>1 DEF Stream, PipeNumbered
  <2>3. stdout[1].n < stdout[i].n
    BY <2>1, <2>2
  <2>4. m < stdout[i].n
    BY <2>2, <2>3
  <2>5. CASE stdout[i].n = LastRouted + 1
    <3>1. m = LastRouted \/ m = LastRouted + 1
      BY <1>4
    <3>2. stdout[i].n = m + 1
      BY <1>2, <2>4, <2>5, <3>1
    <3>3. QED
      BY <2>2, <2>4, <3>2
  <2>6. CASE \E j \in 1..(i - 1) : IsEvent(j) /\ stdout[j].n = stdout[i].n - 1
    <3>1. PICK j \in 1..(i - 1) : IsEvent(j) /\ stdout[j].n = stdout[i].n - 1
      BY <2>6
    <3>2. CASE j = 1
      <4>1. m = stdout[1].n
        BY <1>4, <3>1, <3>2
      <4>2. stdout[i].n \in Nat /\ stdout[1].n \in Nat /\ stdout[1].n = stdout[i].n - 1
        BY <1>2, <1>3, <2>1, <3>1, <3>2
      <4>3. stdout[i].n = m + 1
        BY <4>1, <4>2
      <4>4. QED
        BY <2>2, <2>4, <4>3
    <3>3. CASE j # 1
      <4>1. j \in 2..(i - 1)
        BY <2>1, <3>3
      <4>2. QED
        BY <2>2, <2>4, <3>1, <4>1
    <3>4. QED
      BY <3>2, <3>3
  <2>7. QED
    BY <2>2, <2>4, <2>5, <2>6
<1>7. ASSUME NEW i \in 1..Len(stdout'), stdout'[i].type = "event"
      PROVE  /\ m < stdout'[i].n /\ stdout'[i].n <= emitted
             /\ \A j \in 1..(i - 1) : stdout'[j].n < stdout'[i].n
             /\ \/ stdout'[i].n = m + 1
                \/ \E j \in 1..(i - 1) : stdout'[j].type = "event" /\ stdout'[j].n = stdout'[i].n - 1
  <2>1. i + 1 \in 2..Len(stdout) /\ IsEvent(i + 1) /\ stdout'[i] = stdout[i + 1]
    BY <1>5, <1>7
  <2>2. m < stdout'[i].n /\ stdout'[i].n <= emitted
    BY <1>6, <2>1
  <2>3. ASSUME NEW j \in 1..(i - 1) PROVE stdout'[j].n < stdout'[i].n
    <3>1. j \in 1..Len(stdout') /\ j + 1 \in 1..((i + 1) - 1)
      BY <1>1
    <3>2. stdout[j + 1].n < stdout[i + 1].n
      BY <1>6, <2>1, <3>1
    <3>3. QED
      BY <1>5, <2>1, <3>1, <3>2
  <2>4. ASSUME NEW j \in 2..((i + 1) - 1), IsEvent(j), stdout[j].n = stdout[i + 1].n - 1
        PROVE  \E h \in 1..(i - 1) : stdout'[h].type = "event" /\ stdout'[h].n = stdout'[i].n - 1
    <3>1. j - 1 \in 1..(i - 1) /\ j - 1 \in 1..Len(stdout') /\ (j - 1) + 1 = j
      BY <1>1
    <3>2. stdout'[j - 1] = stdout[j]
      BY <1>5, <3>1
    <3>3. stdout'[j - 1].type = "event" /\ stdout'[j - 1].n = stdout'[i].n - 1
      BY <2>1, <2>4, <3>2 DEF IsEvent
    <3>4. QED
      BY <3>1, <3>3
  <2>5. \/ stdout[i + 1].n = m + 1
        \/ \E j \in 2..((i + 1) - 1) : IsEvent(j) /\ stdout[j].n = stdout[i + 1].n - 1
    BY <1>6, <2>1
  <2>6. QED
    BY <2>1, <2>2, <2>3, <2>4, <2>5
<1>8. ASSUME NEW i \in 1..Len(stdout'), stdout'[i].type # "event" PROVE stdout'[i].n = 0
  BY <1>5, <1>8 DEF Stream, PipeNumbered
<1>9. PipeNumbered'
  BY <1>7, <1>8 DEF PipeNumbered, IsEvent
<1>10. NewestIsThere'
  <2>1. SUFFICES ASSUME app = "up", m # emitted
                 PROVE  \E i \in 1..Len(stdout') : stdout'[i].type = "event" /\ stdout'[i].n = emitted
    BY DEF NewestIsThere, IsEvent
  <2>2. LastRouted = emitted \/ \E i \in 1..Len(stdout) : IsEvent(i) /\ stdout[i].n = emitted
    BY <2>1 DEF Stream, NewestIsThere
  <2>3. IsEvent(1) => LastRouted < stdout[1].n /\ stdout[1].n <= emitted
    BY <1>2 DEF Stream, PipeNumbered
  <2>4. LastRouted # emitted
    BY <1>2, <1>3, <2>1, <2>3
  <2>5. PICK i \in 1..Len(stdout) : IsEvent(i) /\ stdout[i].n = emitted
    BY <2>2, <2>4
  <2>6. i # 1
    BY <2>1, <2>5
  <2>7. i - 1 \in 1..Len(stdout') /\ (i - 1) + 1 = i
    BY <1>1, <2>6
  <2>8. stdout'[i - 1] = stdout[i]
    BY <1>5, <2>7
  <2>9. QED
    BY <2>5, <2>7, <2>8 DEF IsEvent
<1>11. QED
  BY <1>9, <1>10

\* Every step keeps the stream in order.
LEMMA StreamNext ==
    ASSUME BridgeAssumption, TypeOK, Ledger, Stream, [Next]_vars
    PROVE  Stream'
<1>1. LastRouted \in Nat /\ emitted \in Nat /\ Limit \in Nat \ {0} /\ Len(queue) \in Nat
  BY LastRoutedIsNat, LenProperties DEF TypeOK, BridgeAssumption
<1>2. ASSUME UNCHANGED <<queue, drained, stdout, emitted, app>> PROVE Stream'
  <2>1. LastRouted' = LastRouted
    BY <1>2 DEF LastRouted
  <2>2. QED
    BY <1>2, <2>1 DEF Stream, QueueNumbered, NoneLost, PipeNumbered, NewestIsThere, IsEvent
<1>3. ASSUME NEW k \in Commands, Tauri(k) PROVE Stream'
  <2>1. ASSUME NEW d \in Kinds, NEW r \in Commands \cup {Nobody}, Ask(k, d, r)
        PROVE  UNCHANGED <<queue, drained, stdout, emitted, app>>
    BY <2>1 DEF Ask, bridge, core
  <2>2. UNCHANGED <<queue, drained, stdout, emitted, app>>
    BY <1>3, <2>1 DEF Tauri, Send, SpawnFails, WriteFails, Receive, Expire, GiveUp, bridge, core
  <2>3. QED
    BY <1>2, <2>2
<1>4. ASSUME NEW k \in Commands, Handler(k) PROVE Stream'
  <2>1. CASE Write(k)
    BY <2>1, StreamWrite
  <2>2. ASSUME NEW d, Handles(k, d) PROVE Stream'
    BY <1>2, <2>2 DEF Handles, bridge
  <2>3. CASE AskApproval(k) \/ EndRun(k) \/ EndCancelled(k)
    BY <1>2, <2>3 DEF AskApproval, EndRun, EndCancelled, bridge
  <2>4. QED
    BY <1>4, <2>1, <2>2, <2>3 DEF Handler, Query, InvokeTool, ChangePermission, UnknownMethod,
                                  StartRun, CancelRun, RespondApproval, Answers
<1>5. ASSUME queue' = <<>>, app' = app,
             \/ stdout' = stdout /\ emitted' = emitted /\ drained' = LastRouted
             \/ stdout' = <<>> /\ emitted' = 0 /\ drained' = 0
      PROVE  Stream'
  <2>1. Len(queue') = 0 /\ LastRouted' = drained'
    BY <1>5 DEF LastRouted
  <2>2. QueueNumbered' /\ NoneLost'
    BY <1>1, <1>5, <2>1 DEF QueueNumbered, NoneLost
  <2>3. CASE stdout' = <<>> /\ emitted' = 0 /\ drained' = 0
    <3>1. Len(stdout') = 0
      BY <2>3
    <3>2. QED
      BY <2>1, <2>2, <2>3, <3>1 DEF Stream, PipeNumbered, NewestIsThere
  <2>4. CASE stdout' = stdout /\ emitted' = emitted /\ drained' = LastRouted
    BY <1>5, <2>1, <2>2, <2>4 DEF Stream, PipeNumbered, NewestIsThere, IsEvent
  <2>5. QED
    BY <1>5, <2>3, <2>4
<1>6. CASE DrainEvents
  <2>1. queue' = <<>> /\ drained' = LastRouted /\ UNCHANGED <<app, stdout, emitted>>
    BY <1>6 DEF DrainEvents, core
  <2>2. QED
    BY <1>5, <2>1
<1>7. CASE ShutdownCore
  BY <1>5, <1>7 DEF ShutdownCore
<1>8. CASE AppDies
  <2>1. Len(stdout') = 0 /\ app' = "down" /\ UNCHANGED <<queue, drained, emitted>>
    BY <1>8 DEF AppDies, bridge, core
  <2>2. LastRouted' = LastRouted
    BY <2>1 DEF LastRouted
  <2>3. QED
    BY <2>1, <2>2 DEF Stream, QueueNumbered, NoneLost, PipeNumbered, NewestIsThere
<1>9. CASE RouteEvent
  <2> DEFINE e == Head(stdout)
  <2>1. /\ app = "up" /\ stdout # <<>> /\ e.type = "event" /\ stdout' = Tail(stdout)
        /\ queue' = Newest(Append(queue, e)) /\ UNCHANGED <<app, emitted, drained>>
    BY <1>9 DEF RouteEvent, core
  <2>2. 1 \in 1..Len(stdout) /\ e = stdout[1] /\ e \in Line /\ IsEvent(1)
    BY <2>1, Taken DEF TypeOK, IsEvent
  <2>3. e.n = LastRouted + 1
    BY <2>2 DEF Stream, PipeNumbered
  <2>4. queue \in Seq(Line) /\ Len(queue) <= Limit
    BY DEF TypeOK
  <2> HIDE DEF e
  <2>5. /\ queue' \in Seq(Line) /\ Len(queue') <= Limit /\ Len(queue') > 0
        /\ queue'[Len(queue')] = e
        /\ Len(queue) < Limit =>
              Len(queue') = Len(queue) + 1 /\ \A i \in 1..Len(queue) : queue'[i] = queue[i]
        /\ Len(queue) = Limit =>
              Len(queue') = Limit /\ \A i \in 1..(Limit - 1) : queue'[i] = queue[i + 1]
    <3>1. LET t == Newest(Append(queue, e)) IN
          /\ t \in Seq(Line) /\ Len(t) <= Limit /\ Len(t) > 0
          /\ t[Len(t)] = e
          /\ Len(queue) < Limit =>
                /\ Len(t) = Len(queue) + 1
                /\ \A i \in 1..Len(queue) : t[i] = queue[i]
          /\ Len(queue) = Limit =>
                /\ Len(t) = Limit
                /\ \A i \in 1..(Limit - 1) : t[i] = queue[i + 1]
      BY <2>2, <2>4, NewestOfAppended
    <3>2. QED
      BY <2>1, <3>1
  <2>6. queue' # <<>> /\ Len(queue') \in Nat
    BY <2>5, LenProperties
  <2>7. LastRouted' = LastRouted + 1
    BY <2>3, <2>5, <2>6 DEF LastRouted
  <2>8. PipeNumbered' /\ NewestIsThere'
    <3>1. LastRouted + 1 \in Nat /\ LastRouted + 1 = stdout[1].n
      BY <1>1, <2>2, <2>3
    <3>2. QED
      BY <2>1, <2>2, <2>7, <3>1, StreamRoute
  <2>9. QueueNumbered'
    <3>1. ASSUME NEW i \in 1..Len(queue') PROVE queue'[i].n = LastRouted' - Len(queue') + i
      <4>1. CASE i = Len(queue')
        BY <1>1, <2>3, <2>5, <2>6, <2>7, <4>1
      <4>2. CASE i # Len(queue') /\ Len(queue) < Limit
        <5>1. i \in 1..Len(queue) /\ queue'[i] = queue[i] /\ Len(queue') = Len(queue) + 1
          BY <1>1, <2>5, <2>6, <4>2
        <5>2. queue[i].n = LastRouted - Len(queue) + i
          BY <5>1 DEF Stream, QueueNumbered
        <5>3. QED
          BY <1>1, <2>7, <5>1, <5>2
      <4>3. CASE i # Len(queue') /\ Len(queue) = Limit
        <5>1. i \in 1..(Limit - 1) /\ i + 1 \in 1..Len(queue) /\ Len(queue') = Len(queue)
          BY <1>1, <2>5, <2>6, <4>3
        <5>2. queue'[i] = queue[i + 1]
          BY <2>5, <4>3, <5>1
        <5>3. queue[i + 1].n = LastRouted - Len(queue) + (i + 1)
          BY <5>1 DEF Stream, QueueNumbered
        <5>4. QED
          BY <1>1, <2>7, <5>1, <5>2, <5>3
      <4>4. QED
        BY <1>1, <2>4, <4>1, <4>2, <4>3
    <3>2. QED
      BY <3>1 DEF QueueNumbered
  <2>10. NoneLost'
    <3>1. SUFFICES ASSUME Len(queue') < Limit PROVE LastRouted' = drained + Len(queue')
      BY <2>1 DEF NoneLost
    <3>2. Len(queue) < Limit /\ Len(queue') = Len(queue) + 1
      BY <1>1, <2>4, <2>5, <2>6, <3>1
    <3>3. LastRouted = drained + Len(queue) /\ drained \in Nat
      BY <3>2 DEF Stream, NoneLost, TypeOK
    <3>4. QED
      BY <1>1, <2>7, <3>2, <3>3
  <2>11. QED
    BY <2>8, <2>9, <2>10 DEF Stream
<1>10. CASE RouteResponse
  <2>1. /\ Head(stdout).type = "response" /\ stdout # <<>> /\ stdout' = Tail(stdout)
        /\ UNCHANGED <<app, queue, drained, emitted>>
    BY <1>10 DEF RouteResponse, core
  <2>2. Head(stdout) = stdout[1] /\ ~ IsEvent(1)
    BY <2>1, Taken DEF TypeOK, IsEvent
  <2>3. LastRouted' = LastRouted
    BY <2>1 DEF LastRouted
  <2>4. PipeNumbered' /\ NewestIsThere'
    BY <1>1, <2>1, <2>2, <2>3, StreamRoute
  <2>5. QueueNumbered' /\ NoneLost'
    BY <2>1, <2>3 DEF Stream, QueueNumbered, NoneLost
  <2>6. QED
    BY <2>4, <2>5 DEF Stream
<1>11. CASE ReadLine \/ EndOfInput \/ Stop \/ Die \/ UNCHANGED vars
  <2>1. UNCHANGED <<queue, drained, stdout, emitted, app>>
    BY <1>11 DEF ReadLine, EndOfInput, Stop, Die, vars, bridge, core
  <2>2. QED
    BY <1>2, <2>1
<1>12. QED
  BY <1>3, <1>4, <1>6, <1>7, <1>8, <1>9, <1>10, <1>11 DEF Next

\* The events that reach the desktop are numbered without a gap except where a
\* full queue has dropped its oldest.
THEOREM NewestArrive == Spec => []EventsAreTheNewest
<1> DEFINE Inv == TypeOK /\ Ledger /\ Stream
<1>1. Init => Inv
  BY TypeInit, LedgerInit, StreamInit, BridgeAssumption
<1>2. Inv /\ [Next]_vars => Inv'
  BY TypeNext, LedgerNext, StreamNext, BridgeAssumption
<1>3. Inv => EventsAreTheNewest
  <2>1. SUFFICES ASSUME Inv PROVE EventsAreTheNewest
    OBVIOUS
  <2>2. DOMAIN queue = 1..Len(queue) /\ DOMAIN stdout = 1..Len(stdout)
    BY LenProperties DEF TypeOK
  <2>3. QED
    <3>1. \A i \in DOMAIN queue : queue[i].n = LastRouted - Len(queue) + i
      BY <2>1, <2>2 DEF Stream, QueueNumbered
    <3>2. Len(queue) < Limit => LastRouted = drained + Len(queue)
      BY <2>1 DEF Stream, NoneLost
    <3>3. \A i \in DOMAIN stdout : stdout[i].type = "event" =>
              /\ LastRouted < stdout[i].n /\ stdout[i].n <= emitted
              /\ \A j \in 1..(i - 1) : stdout[j].n < stdout[i].n
      BY <2>1, <2>2 DEF Stream, PipeNumbered, IsEvent
    <3>4. QED
      BY <3>1, <3>2, <3>3 DEF EventsAreTheNewest
<1>4. QED
  BY <1>1, <1>2, <1>3, PTL DEF Spec

---------------------------------------------------------------------------
(* Refinement *)

\* Every step of the bridge is a step of the contract or a stutter.
LEMMA Refines ==
    ASSUME BridgeAssumption, TypeOK, Ledger, [Next]_vars
    PROVE  [Contract!Next]_(Contract!vars)
<1> DEFINE out(o) == IF o = "timeout" THEN "failed" ELSE o
<1> DEFINE mapped == [k \in Commands |-> IF outcome[k] = "timeout" THEN "failed" ELSE outcome[k]]
<1>1. ASSUME UNCHANGED <<outcome, handled>> PROVE [Contract!Next]_(Contract!vars)
  BY <1>1 DEF Contract!vars
<1>2. ASSUME NEW k \in Commands, NEW o \in {"answered", "failed", "timeout"}, Over(k, o),
             state[k] # "over", o = "answered" => handled[k], UNCHANGED handled
      PROVE  [Contract!Next]_(Contract!vars)
  <2>1. outcome[k] = "none"
    BY <1>2 DEF Ledger, OneOutcome
  <2>2. mapped[k] = "none"
    BY <2>1
  <2>3. mapped' = [mapped EXCEPT ![k] = IF o = "timeout" THEN "failed" ELSE o]
    BY <1>2 DEF Over, TypeOK
  <2>4. CASE o = "answered"
    BY <1>2, <2>2, <2>3, <2>4 DEF Contract!Next, Contract!Answer
  <2>5. CASE o # "answered"
    BY <1>2, <2>2, <2>3, <2>5 DEF Contract!Next, Contract!Fail
  <2>6. QED
    BY <2>4, <2>5
<1>3. ASSUME NEW k \in Commands, NEW d, Handles(k, d) PROVE [Contract!Next]_(Contract!vars)
  <2>1. handled' = [handled EXCEPT ![k] = TRUE] /\ mapped' = mapped
    BY <1>3 DEF Handles, command
  <2>2. CASE handled[k]
    <3>1. handled' = handled
      BY <2>1, <2>2 DEF TypeOK
    <3>2. QED
      BY <2>1, <3>1 DEF Contract!vars
  <2>3. CASE ~ handled[k]
    BY <2>1, <2>3 DEF Contract!Next, Contract!Handle
  <2>4. QED
    BY <2>2, <2>3
<1> HIDE DEF mapped
<1>4. ASSUME NEW k \in Commands, Tauri(k) PROVE [Contract!Next]_(Contract!vars)
  <2>1. ASSUME NEW d \in Kinds, NEW r \in Commands \cup {Nobody}, Ask(k, d, r)
        PROVE  UNCHANGED <<outcome, handled>>
    BY <2>1 DEF Ask, core
  <2>2. CASE Send(k) \/ Expire(k)
    BY <1>1, <2>2 DEF Send, Expire, core
  <2>3. CASE SpawnFails(k) \/ WriteFails(k)
    BY <1>2, <2>3 DEF SpawnFails, WriteFails, MayLock, core
  <2>4. CASE Receive(k)
    <3>1. Over(k, "answered") /\ state[k] # "over" /\ k \in inbox /\ UNCHANGED handled
      BY <2>4 DEF Receive, core
    <3>2. handled[k]
      BY <3>1 DEF Ledger, RepliedIsOver, Replied
    <3>3. QED
      BY <1>2, <3>1, <3>2
  <2>5. CASE GiveUp(k)
    BY <1>2, <2>5 DEF GiveUp, core
  <2>6. QED
    BY <1>1, <1>4, <2>1, <2>2, <2>3, <2>4, <2>5 DEF Tauri
<1>5. ASSUME NEW k \in Commands, Handler(k) PROVE [Contract!Next]_(Contract!vars)
  <2>1. CASE Write(k) \/ AskApproval(k) \/ EndRun(k) \/ EndCancelled(k)
    BY <1>1, <2>1 DEF Write, AskApproval, EndRun, EndCancelled, command
  <2>2. CASE \E d \in {"query", "tool", "change", "unknown", "run", "cancel", "respond"} : Handles(k, d)
    BY <1>3, <2>2
  <2>3. QED
    BY <1>5, <2>1, <2>2 DEF Handler, Query, InvokeTool, ChangePermission, UnknownMethod,
                            StartRun, CancelRun, RespondApproval, Answers
<1>6. ASSUME \/ DrainEvents \/ ShutdownCore \/ AppDies
             \/ RouteEvent \/ RouteResponse
             \/ ReadLine \/ EndOfInput \/ Stop \/ Die \/ UNCHANGED vars
      PROVE  UNCHANGED <<outcome, handled>>
  BY <1>6 DEF DrainEvents, ShutdownCore, AppDies, RouteEvent, RouteResponse, ReadLine,
              EndOfInput, Stop, Die, vars, command, core
<1>7. QED
  BY <1>1, <1>4, <1>5, <1>6 DEF Next

\* The bridge implements the contract of a request: one outcome, and an answer
\* only to what the core has handled.
THEOREM ContractImplemented == Spec => ImplementsContract
<1>1. Init => Contract!Init
  BY DEF Init, Contract!Init
<1>2. (TypeOK /\ Ledger) /\ [Next]_vars => [Contract!Next]_(Contract!vars)
  BY Refines, BridgeAssumption
<1>3. QED
  BY <1>1, <1>2, LedgerHolds, PTL DEF Spec, ImplementsContract, Contract!Spec
===============================================================================
