---------------------------- MODULE AgentRunsProofs ----------------------------
(***************************************************************************)
(* Proofs about AgentRuns, for any number of runs, tasks, conversations,   *)
(* iterations, calls, resumes and crashes.  The types are unconditional;   *)
(* safety is under three conditions the code leaves to others: the         *)
(* provider never repeats a call id within a run, no client resumes a run  *)
(* that is already being resumed, and verification is only reported of a   *)
(* run that is active.  The runs reused_ids and two_resumes show what      *)
(* happens without the first two; without the third a verification makes   *)
(* an ended run active again.                                              *)
(***************************************************************************)
EXTENDS AgentRuns, TLAPS

---------------------------------------------------------------------------
(* Types *)

InCall == {"call", "approval", "invoke", "results"}
HasRecord == {"created", "analyze", "mark", "completing", "failing", "cancelling"}

\* What a task's place in the program says of its local variables.
Shaped(w) ==
    /\ w.pc = "idle" => w = Idle
    /\ w.pc # "idle" => w.run \in Runs /\ w.mode # "none"
    /\ w.pc # "idle" => (w.mode = "chat" <=> w.run \in ChatRuns)
    /\ w.pc \in HasRecord => w.mode # "chat"
    /\ w.pc \in InCall => w.iter < MaxIterations /\ w.i < w.n
    /\ w.pc \notin InCall => w.i = 0
    /\ w.ans = "answer" => w.pc \in {"mark", "completing"}

GoodTask == {w \in Task : Shaped(w)}

\* Types, the shape of the tasks, and that a plain chat has no record.
TypeInv ==
    /\ TypeOK
    /\ task \in [Tasks -> GoodTask]
    /\ \A r \in ChatRuns : run[r].status = "none"

\* A task that serves nothing is well typed.
LEMMA IdleIsGood == Idle \in GoodTask
  BY RunsAssumption DEF GoodTask, Idle, Serving, Task, Pc, Loop, Shaped, InCall, HasRecord

\* A task that has only just been given a request.
LEMMA ServingIsGood ==
    ASSUME NEW r \in Runs, NEW p \in Pc, NEW m \in {"chat", "start", "resume"},
           p \notin InCall, p # "idle", p \in HasRecord => m # "chat",
           m = "chat" <=> r \in ChatRuns
    PROVE  Serving(p, r, m) \in GoodTask
  BY RunsAssumption DEF GoodTask, Idle, Serving, Task, Pc, Loop, Shaped, InCall, HasRecord

\* Moving on outside the calls of a generation.
LEMMA MoveIsGood ==
    ASSUME NEW w \in GoodTask, NEW p \in Pc, w.pc # "idle", p # "idle",
           w.pc \in InCall <=> p \in InCall,
           p \in HasRecord => w.mode # "chat",
           w.ans = "answer" => p \in {"mark", "completing"}
    PROVE  [w EXCEPT !.pc = p] \in GoodTask
  BY RunsAssumption DEF GoodTask, Idle, Serving, Task, Pc, Loop, Shaped, InCall, HasRecord

\* What AfterCall leaves.
LEMMA AfterCallIsGood ==
    ASSUME TypeInv, NEW t \in Tasks, task[t].pc \in InCall
    PROVE  AfterCall(t) \in GoodTask
<1> DEFINE w == task[t]
<1>1. /\ w \in Task /\ Shaped(w) /\ w.pc \in InCall
      /\ w.i \in Nat /\ w.n \in Nat /\ w.i + 1 \in Nat
  BY DEF TypeInv, GoodTask, Task
<1> HIDE DEF w
<1>2. ASSUME w.i + 1 >= w.n PROVE [w EXCEPT !.pc = "results", !.i = 0] \in GoodTask
  <2>1. [w EXCEPT !.pc = "results", !.i = 0] \in Task
    BY <1>1 DEF Task, Pc, Loop
  <2>2. Shaped([w EXCEPT !.pc = "results", !.i = 0])
    BY <1>1, RunsAssumption DEF Task, Shaped, InCall, HasRecord
  <2> QED BY <2>1, <2>2 DEF GoodTask
<1>3. ASSUME ~ (w.i + 1 >= w.n) PROVE [w EXCEPT !.pc = "call", !.i = w.i + 1] \in GoodTask
  <2>1. [w EXCEPT !.pc = "call", !.i = w.i + 1] \in Task
    BY <1>1 DEF Task, Pc, Loop
  <2>2. Shaped([w EXCEPT !.pc = "call", !.i = w.i + 1])
    BY <1>1, <1>3, RunsAssumption DEF Task, Shaped, InCall, HasRecord
  <2> QED BY <2>1, <2>2 DEF GoodTask
<1> QED BY <1>2, <1>3 DEF AfterCall, w

\* An append keeps the type of the log.
LEMMA AppendToTyped ==
    ASSUME RunsAssumption, log \in [Conversations -> Seq(Message)], NEW m \in Message, AppendTo(m)
    PROVE  log' \in [Conversations -> Seq(Message)]
<1>1. Conv[m.run] \in Conversations
  BY DEF Message, RunsAssumption
<1> QED BY <1>1 DEF AppendTo

\* What the loop writes next is a message.
LEMMA WrittenTyped ==
    ASSUME TypeInv, NEW t \in Tasks, task[t].pc # "idle"
    PROVE  Written(t) \in Message
  BY DEF TypeInv, GoodTask, Task, Written, At, RunOf, UserMessage, AssistantMessage, ToolMessage,
     Message, Shaped

\* Leaving _execute_run keeps the types of the lock and of _runs.
LEMMA LeaveTyped ==
    ASSUME TypeInv, NEW t \in Tasks, task[t].pc # "idle", NEW p \in Pc, p \in HasRecord, Leave(t, p)
    PROVE  /\ task' \in [Tasks -> GoodTask]
           /\ active' \in [Runs -> Tasks \cup {NoTask}]
           /\ holder' \in [Conversations -> Tasks \cup {NoTask}]
<1>1. /\ task[t].run \in Runs /\ task[t].mode \in {"chat", "start", "resume"}
      /\ task[t].mode = "chat" <=> task[t].run \in ChatRuns
  BY DEF TypeInv, GoodTask, Task, Shaped
<1>2. ASSUME task[t].mode # "chat" PROVE Serving(p, task[t].run, task[t].mode) \in GoodTask
  BY <1>1, <1>2, ServingIsGood DEF InCall, HasRecord
<1>3. task' \in [Tasks -> GoodTask]
  BY <1>2, IdleIsGood DEF Leave, TypeInv
<1> QED BY <1>1, <1>3 DEF Leave, TypeInv, TypeOK, ConvOf, RunOf

\* The initial state has the types.
LEMMA TypeInit == Init => TypeInv
<1> SUFFICES ASSUME Init PROVE TypeInv
  OBVIOUS
<1>1. task \in [Tasks -> GoodTask] /\ task \in [Tasks -> Task]
  BY IdleIsGood DEF Init, GoodTask
<1>2. run \in [Runs -> Record] /\ \A r \in ChatRuns : run[r].status = "none"
  BY RunsAssumption DEF Init, Record, Status
<1> QED BY <1>1, <1>2 DEF Init, TypeInv, TypeOK

\* One case per action.
LEMMA TypeStep == TypeInv /\ [Next]_vars => TypeInv'
<1> SUFFICES ASSUME TypeInv, [Next]_vars PROVE TypeInv'
  OBVIOUS
<1> USE RunsAssumption
<1> DEFINE Chats == \A r \in ChatRuns : run[r].status = "none"
<1>0. \A t \in Tasks : ~ At(t, "idle") =>
        /\ RunOf(t) \in Runs /\ ConvOf(t) \in Conversations
        /\ Written(t) \in Message
  BY WrittenTyped DEF TypeInv, GoodTask, Shaped, RunOf, ConvOf, At
<1>a. GoodTask \subseteq Task
  BY DEF GoodTask
<1>b. TypeOK /\ Chats /\ task \in [Tasks -> GoodTask]
  BY DEF TypeInv
<1>c. ASSUME NEW r \in Runs \ ChatRuns, NEW s \in Status, SetStatus(r, s)
      PROVE  run' \in [Runs -> Record] /\ Chats'
  <2>1. run \in [Runs -> Record]
    BY <1>b DEF TypeOK
  <2>2. run' \in [Runs -> Record]
    BY <2>1, <1>c DEF SetStatus, Record
  <2>3. \A x \in Runs \ {r} : run'[x] = run[x]
    BY <2>1, <1>c DEF SetStatus
  <2> QED BY <2>2, <2>3, <1>b DEF RunsAssumption
<1>1. ASSUME NEW t \in Tasks, NEW r \in Runs, StartRun(t, r) PROVE TypeInv'
  <2>1. Serving("created", r, "start") \in GoodTask
    BY <1>1, ServingIsGood DEF StartRun, InCall, Pc, HasRecord
  <2>2. [status |-> "created", born |-> Len(log[Conv[r]])] \in Record
    BY <1>b DEF TypeOK, Record, Status, Active
  <2>3. run' \in [Runs -> Record] /\ Chats'
    BY <1>b, <1>1, <2>2 DEF StartRun, TypeOK, Take
  <2> QED BY <1>1, <1>a, <1>b, <2>1, <2>3 DEF StartRun, Take, TypeInv, TypeOK, process, locks
<1>2. ASSUME NEW t \in Tasks, MarkRunning(t) PROVE TypeInv'
  <2>1. [task[t] EXCEPT !.pc = "enter"] \in GoodTask
    BY <1>2, MoveIsGood DEF MarkRunning, At, TypeInv, InCall, Pc, HasRecord, GoodTask, Shaped
  <2>2. run' \in [Runs -> Record] /\ Chats'
    BY <1>2, <1>b, <1>c DEF MarkRunning, At, RunOf, Status, Active, GoodTask, Shaped, HasRecord
  <2> QED BY <1>2, <1>a, <1>b, <2>1, <2>2 DEF MarkRunning, Goto, TypeInv, TypeOK, process, locks, history
<1>3. ASSUME NEW t \in Tasks, NEW r \in Runs, ChatSend(t, r) PROVE TypeInv'
  <2>1. Serving("enter", r, "chat") \in GoodTask
    BY <1>3, ServingIsGood DEF ChatSend, InCall, Pc, HasRecord
  <2> QED BY <1>3, <1>a, <1>b, <2>1 DEF ChatSend, Take, TypeInv, TypeOK, process, locks
<1>4. ASSUME NEW t \in Tasks, NEW r \in Runs, ResumeRead(t, r) PROVE TypeInv'
  <2>1. Serving("analyze", r, "resume") \in GoodTask
    BY <1>4, <1>b, ServingIsGood DEF ResumeRead, InCall, Pc, HasRecord
  <2> QED BY <1>4, <1>a, <1>b, <2>1 DEF ResumeRead, TypeInv, TypeOK, process, locks, history
<1>5. ASSUME NEW t \in Tasks, Analyze(t) PROVE TypeInv'
  <2> DEFINE w(a) == [task[t] EXCEPT !.pc = "mark", !.ans = a]
  <2>1. \A a \in {"answer", "continue", "send"} : w(a) \in GoodTask
    <3> TAKE a \in {"answer", "continue", "send"}
    <3>. task[t] \in Task
      BY <1>b DEF GoodTask
    <3>1. w(a) \in Task
      BY DEF Task, Pc
    <3>2. Shaped(w(a))
      BY <1>b, <1>5 DEF Analyze, At, GoodTask, Task, Shaped, HasRecord, InCall
    <3> QED BY <3>1, <3>2 DEF GoodTask
  <2>2. task' \in [Tasks -> GoodTask]
    BY <1>5, <1>b, <2>1, IdleIsGood DEF Analyze
  <2> QED BY <1>5, <1>a, <1>b, <2>2 DEF Analyze, TypeInv, TypeOK, process, locks, history
<1>6. ASSUME NEW t \in Tasks, MarkResumed(t) PROVE TypeInv'
  <2>1. RunOf(t) \in Runs \ ChatRuns /\ "running" \in Status
    BY <1>6, <1>b DEF MarkResumed, At, RunOf, GoodTask, Shaped, HasRecord, Status, Active
  <2>2. run' \in [Runs -> Record] /\ Chats'
    BY <1>6, <1>c, <2>1 DEF MarkResumed
  <2>3. \A p \in {"completing", "enter"} :
           (p = "enter" => task[t].ans # "answer") => [task[t] EXCEPT !.pc = p] \in GoodTask
    BY <1>6, <1>b, MoveIsGood DEF MarkResumed, At, InCall, Pc, HasRecord, GoodTask, Shaped
  <2>4. task' \in [Tasks -> GoodTask]
    BY <1>6, <1>b, <2>3 DEF MarkResumed, Goto
  <2> QED BY <1>6, <1>a, <1>b, <2>1, <2>2, <2>4 DEF MarkResumed, TypeInv, TypeOK, process, locks, history
<1>7. ASSUME NEW t \in Tasks, Enter(t) PROVE TypeInv'
  <2>1. task[t].mode # "chat" => [task[t] EXCEPT !.pc = "failing"] \in GoodTask
    BY <1>7, <1>b, MoveIsGood DEF Enter, At, InCall, Pc, Loop, HasRecord, GoodTask, Shaped
  <2>2. [task[t] EXCEPT !.pc = "queued"] \in GoodTask
    BY <1>7, <1>b, MoveIsGood DEF Enter, At, InCall, Pc, Loop, HasRecord, GoodTask, Shaped
  <2>3. task' \in [Tasks -> GoodTask]
    BY <1>7, <1>b, <2>1, <2>2, IdleIsGood DEF Enter, Goto
  <2>4. active' \in [Runs -> Tasks \cup {NoTask}]
    BY <1>7, <1>b DEF Enter, TypeOK
  <2> QED BY <1>7, <1>a, <1>b, <2>3, <2>4 DEF Enter, TypeInv, TypeOK, process, history
<1>8. ASSUME NEW t \in Tasks, Acquire(t) PROVE TypeInv'
  <2>. task[t] \in GoodTask /\ task[t].pc = "queued" /\ task[t].ans # "answer"
    BY <1>8, <1>b DEF Acquire, At, GoodTask, Shaped
  <2>1. \A p \in {"generate", "input"} : [task[t] EXCEPT !.pc = p] \in GoodTask
    BY MoveIsGood DEF InCall, Pc, Loop, HasRecord
  <2>2. task' \in [Tasks -> GoodTask]
    BY <1>8, <1>b, <2>1 DEF Acquire, Goto
  <2>3. holder' \in [Conversations -> Tasks \cup {NoTask}]
    BY <1>8, <1>b DEF Acquire, TypeOK
  <2> QED BY <1>8, <1>a, <1>b, <2>2, <2>3 DEF Acquire, TypeInv, TypeOK, process, history
<1>9. ASSUME NEW t \in Tasks, AppendInput(t) PROVE TypeInv'
  <2>1. [task[t] EXCEPT !.pc = "generate"] \in GoodTask
    BY <1>9, <1>b, MoveIsGood DEF AppendInput, At, InCall, Pc, Loop, HasRecord, GoodTask, Shaped
  <2>2. log' \in [Conversations -> Seq(Message)]
    BY <1>9, <1>b, <1>0, AppendToTyped DEF AppendInput, TypeOK, At
  <2> QED BY <1>9, <1>a, <1>b, <2>1, <2>2 DEF AppendInput, Goto, TypeInv, TypeOK, process, locks, history
<1>10. ASSUME NEW t \in Tasks, NEW n \in 0..MaxBatch, Generate(t, n) PROVE TypeInv'
  <2> DEFINE g == gens[RunOf(t)] + 1
  <2>1. g \in Nat /\ n \in Nat
    BY <1>10, <1>0, <1>b DEF Generate, At, TypeOK
  <2>2. [task[t] EXCEPT !.pc = "record", !.gen = g, !.n = n] \in Task
    <3>. task[t] \in Task
      BY <1>b DEF GoodTask
    <3>. HIDE DEF g
    <3> QED BY <2>1 DEF Task, Pc, Loop
  <2>3. Shaped([task[t] EXCEPT !.pc = "record", !.gen = g, !.n = n])
    BY <1>10, <1>b DEF Generate, At, GoodTask, Task, Shaped, InCall, HasRecord
  <2>4. task' \in [Tasks -> GoodTask]
    BY <1>10, <1>b, <2>2, <2>3 DEF Generate, GoodTask
  <2>5. gens' \in [Runs -> Nat]
    BY <1>10, <1>b, <2>1 DEF Generate, TypeOK
  <2> QED BY <1>10, <1>a, <1>b, <2>4, <2>5 DEF Generate, TypeInv, TypeOK, process, locks
<1>11. ASSUME NEW t \in Tasks, AppendAssistant(t) PROVE TypeInv'
  <2>1. log' \in [Conversations -> Seq(Message)]
    BY <1>11, <1>b, <1>0, AppendToTyped DEF AppendAssistant, TypeOK, At
  <2>2. /\ task' \in [Tasks -> GoodTask]
        /\ active' \in [Runs -> Tasks \cup {NoTask}]
        /\ holder' \in [Conversations -> Tasks \cup {NoTask}]
    <3>1. CASE Leave(t, "completing") \/ Leave(t, "failing")
      BY <3>1, <1>11, LeaveTyped DEF AppendAssistant, At, Pc, HasRecord
    <3>2. CASE task[t].n > 0 /\ ~ OverLimit(t) /\ Goto(t, "call") /\ UNCHANGED locks
      <4>. task[t] \in Task /\ Shaped(task[t]) /\ task[t].pc = "record"
        BY <1>11, <1>b DEF AppendAssistant, At, GoodTask
      <4>1. [task[t] EXCEPT !.pc = "call"] \in Task
        BY DEF Task, Pc, Loop
      <4>2. Shaped([task[t] EXCEPT !.pc = "call"])
        BY <3>2 DEF Task, Shaped, OverLimit, InCall, HasRecord
      <4> QED BY <3>2, <1>b, <4>1, <4>2 DEF Goto, GoodTask, TypeOK, locks
    <3> QED BY <1>11, <3>1, <3>2 DEF AppendAssistant
  <2> QED BY <1>11, <1>a, <1>b, <2>1, <2>2 DEF AppendAssistant, TypeInv, TypeOK, process, history
<1>12. ASSUME NEW t \in Tasks, BeginCall(t) PROVE TypeInv'
  <2>1. [task[t] EXCEPT !.pc = "invoke"] \in GoodTask
    BY <1>12, <1>b, MoveIsGood DEF BeginCall, At, InCall, Pc, Loop, HasRecord, GoodTask, Shaped
  <2>2. executed' \in SUBSET Call
    BY <1>12, <1>0, <1>b DEF BeginCall, Invoke, At, TypeOK, GoodTask, Task, Call
  <2> QED BY <1>12, <1>a, <1>b, <2>1, <2>2 DEF BeginCall, Invoke, Goto, TypeInv, TypeOK, process, locks
<1>16. ASSUME NEW t \in Tasks, Approve(t) PROVE TypeInv'
  <2>1. [task[t] EXCEPT !.pc = "invoke"] \in GoodTask
    BY <1>16, <1>b, MoveIsGood DEF Approve, At, InCall, Pc, Loop, HasRecord, GoodTask, Shaped
  <2>2. executed' \in SUBSET Call
    BY <1>16, <1>0, <1>b DEF Approve, Invoke, At, TypeOK, GoodTask, Task, Call
  <2> QED BY <1>16, <1>a, <1>b, <2>1, <2>2 DEF Approve, Invoke, Goto, TypeInv, TypeOK, process, locks
<1>13. ASSUME NEW t \in Tasks, RefuseCall(t) PROVE TypeInv'
  <2>1. AfterCall(t) \in GoodTask
    BY <1>13, AfterCallIsGood DEF RefuseCall, At, InCall
  <2> QED BY <1>13, <1>a, <1>b, <2>1 DEF RefuseCall, TypeInv, TypeOK, process, locks, history
<1>17. ASSUME NEW t \in Tasks, Deny(t) PROVE TypeInv'
  <2>1. AfterCall(t) \in GoodTask
    BY <1>17, AfterCallIsGood DEF Deny, At, InCall
  <2> QED BY <1>17, <1>a, <1>b, <2>1 DEF Deny, TypeInv, TypeOK, process, locks, history
<1>18. ASSUME NEW t \in Tasks, EndCall(t) PROVE TypeInv'
  <2>1. AfterCall(t) \in GoodTask
    BY <1>18, AfterCallIsGood DEF EndCall, At, InCall
  <2> QED BY <1>18, <1>a, <1>b, <2>1 DEF EndCall, TypeInv, TypeOK, process, locks, history
<1>14. ASSUME NEW t \in Tasks, AskApproval(t) PROVE TypeInv'
  <2>1. [task[t] EXCEPT !.pc = "approval"] \in GoodTask
    BY <1>14, <1>b, MoveIsGood DEF AskApproval, At, InCall, Pc, Loop, HasRecord, GoodTask, Shaped
  <2>2. run' \in [Runs -> Record] /\ Chats'
    <3>1. run \in [Runs -> Record] /\ {"none", "waiting_approval"} \subseteq Status
      BY <1>b DEF TypeOK, Status, Active
    <3>2. run' \in [Runs -> Record]
      BY <1>14, <3>1 DEF AskApproval, Record
    <3>3. \A x \in Runs : run[x].status = "none" => run'[x].status = "none"
      BY <1>14, <3>1 DEF AskApproval, Record
    <3> QED BY <3>2, <3>3, <1>b DEF RunsAssumption
  <2> QED BY <1>14, <1>a, <1>b, <2>1, <2>2 DEF AskApproval, Goto, TypeInv, TypeOK, process, locks, history
<1>15. ASSUME NEW t \in Tasks, AppendResult(t) PROVE TypeInv'
  <2>1. log' \in [Conversations -> Seq(Message)]
    BY <1>15, <1>b, <1>0, AppendToTyped DEF AppendResult, TypeOK, At
  <2>2. task' \in [Tasks -> GoodTask]
    <3> DEFINE w == task[t]
               last == [w EXCEPT !.pc = "generate", !.i = 0, !.n = 0, !.iter = w.iter + 1]
               next == [w EXCEPT !.i = w.i + 1]
    <3>1. /\ w \in Task /\ Shaped(w) /\ w.pc = "results"
          /\ w.i \in Nat /\ w.n \in Nat /\ w.i + 1 \in Nat
          /\ w.iter + 1 \in 0..MaxIterations
      BY <1>15, <1>b DEF AppendResult, At, GoodTask, Task, Shaped, InCall
    <3>2. task' = [task EXCEPT ![t] = IF w.i + 1 >= w.n THEN last ELSE next]
      BY <1>15 DEF AppendResult
    <3> HIDE DEF w
    <3>3. last \in Task /\ next \in Task
      BY <3>1 DEF Task, Pc, Loop
    <3>4. Shaped(last)
      BY <3>1 DEF Task, Shaped, InCall, HasRecord
    <3>5. ~ (w.i + 1 >= w.n) => Shaped(next)
      BY <3>1 DEF Task, Shaped, InCall, HasRecord
    <3> QED BY <1>b, <3>2, <3>3, <3>4, <3>5 DEF GoodTask
  <2> QED BY <1>15, <1>a, <1>b, <2>1, <2>2 DEF AppendResult, TypeInv, TypeOK, process, locks, history
<1>19. ASSUME NEW t \in Tasks, FailRun(t) PROVE TypeInv'
  <2>1. task[t].pc # "idle" /\ Leave(t, "failing")
    BY <1>19 DEF FailRun, At
  <2>2. /\ task' \in [Tasks -> GoodTask]
        /\ active' \in [Runs -> Tasks \cup {NoTask}]
        /\ holder' \in [Conversations -> Tasks \cup {NoTask}]
    BY <2>1, LeaveTyped DEF Pc, HasRecord
  <2> QED BY <1>19, <1>a, <1>b, <2>2 DEF FailRun, TypeInv, TypeOK, process, history
<1>20. ASSUME NEW t \in Tasks, CancelWaiting(t) PROVE TypeInv'
  <2>1. task[t].pc # "idle" /\ Leave(t, "cancelling")
    BY <1>20 DEF CancelWaiting, At
  <2>2. /\ task' \in [Tasks -> GoodTask]
        /\ active' \in [Runs -> Tasks \cup {NoTask}]
        /\ holder' \in [Conversations -> Tasks \cup {NoTask}]
    BY <2>1, LeaveTyped DEF Pc, HasRecord
  <2> QED BY <1>20, <1>a, <1>b, <2>2 DEF CancelWaiting, TypeInv, TypeOK, process, history
<1>22. ASSUME NEW t \in Tasks, NoticeCancel(t) PROVE TypeInv'
  <2>1. task[t].pc # "idle" /\ Leave(t, "cancelling")
    BY <1>22 DEF NoticeCancel, At
  <2>2. /\ task' \in [Tasks -> GoodTask]
        /\ active' \in [Runs -> Tasks \cup {NoTask}]
        /\ holder' \in [Conversations -> Tasks \cup {NoTask}]
    BY <2>1, LeaveTyped DEF Pc, HasRecord
  <2> QED BY <1>22, <1>a, <1>b, <2>2 DEF NoticeCancel, TypeInv, TypeOK, process, history
<1>21. ASSUME NEW t \in Tasks, CancelWriting(t) PROVE TypeInv'
  <2>1. task[t].pc # "idle" /\ Leave(t, "cancelling")
    BY <1>21 DEF CancelWriting, At
  <2>2. /\ task' \in [Tasks -> GoodTask]
        /\ active' \in [Runs -> Tasks \cup {NoTask}]
        /\ holder' \in [Conversations -> Tasks \cup {NoTask}]
    BY <2>1, LeaveTyped DEF Pc, HasRecord
  <2>3. inflight' \in SUBSET Message
    BY <1>21, <1>0, <1>b DEF CancelWriting, At, TypeOK
  <2> QED BY <1>21, <1>a, <1>b, <2>2, <2>3 DEF CancelWriting, TypeInv, TypeOK, process, history
<1>23. ASSUME NEW t \in Tasks, CancelTool(t) PROVE TypeInv'
  <2>1. AfterCall(t) \in GoodTask
    BY <1>23, AfterCallIsGood DEF CancelTool, At, InCall
  <2>2. [AfterCall(t) EXCEPT !.seen = TRUE] \in GoodTask
    <3> DEFINE w == AfterCall(t)
    <3>1. w \in Task /\ Shaped(w) /\ w.pc # "idle"
      BY <2>1, <1>23 DEF GoodTask, AfterCall, CancelTool, TypeInv, TypeOK, Task
    <3> HIDE DEF w
    <3>2. [w EXCEPT !.seen = TRUE] \in Task /\ Shaped([w EXCEPT !.seen = TRUE])
      BY <3>1 DEF Task, Shaped
    <3> QED BY <3>2 DEF GoodTask, w
  <2> QED BY <1>23, <1>a, <1>b, <2>2 DEF CancelTool, TypeInv, TypeOK, process, locks, history
<1>24. ASSUME NEW m \in inflight, Land(m) PROVE TypeInv'
  <2>1. log' \in [Conversations -> Seq(Message)]
    BY <1>24, <1>b, AppendToTyped DEF Land, TypeOK
  <2> QED BY <1>24, <1>b, <2>1 DEF Land, TypeInv, TypeOK, process, locks, history
<1>25. ASSUME NEW t \in Tasks, Finish(t) PROVE TypeInv'
  <2>1. RunOf(t) \in Runs \ ChatRuns /\ Outcome(t) \in Status
    BY <1>25, <1>b DEF Finish, At, RunOf, GoodTask, Shaped, HasRecord, Status, Active, Terminal, Outcome
  <2>2. run' \in [Runs -> Record] /\ Chats'
    BY <1>25, <1>c, <2>1 DEF Finish
  <2> QED BY <1>25, <1>a, <1>b, <2>2, IdleIsGood DEF Finish, TypeInv, TypeOK, process, locks, history
<1>26. ASSUME NEW r \in Runs, Verify(r) \/ Reconcile(r) PROVE TypeInv'
  <2>1. r \notin ChatRuns /\ {"verifying", "interrupted"} \subseteq Status
    BY <1>26, <1>b DEF Verify, Reconcile, Status, Active
  <2>2. run' \in [Runs -> Record] /\ Chats'
    BY <1>26, <1>c, <2>1 DEF Verify, Reconcile
  <2> QED BY <1>26, <1>b, <2>2 DEF Verify, Reconcile, TypeInv, TypeOK, process, locks, history
<1>27. CASE Crash
  <2>1. task' \in [Tasks -> GoodTask]
    BY <1>27, IdleIsGood DEF Crash
  <2> QED BY <1>27, <1>a, <1>b, <2>1 DEF Crash, TypeInv, TypeOK, history
<1>28. CASE Boot \/ Ready
  BY <1>28, <1>b DEF Boot, Ready, TypeInv, TypeOK, locks, history
<1>29. CASE UNCHANGED vars
  BY <1>29, <1>b DEF vars, TypeInv, TypeOK, process, locks, history
<1> QED
  BY <1>1, <1>2, <1>3, <1>4, <1>5, <1>6, <1>7, <1>8, <1>9, <1>10, <1>11, <1>12, <1>13, <1>14, <1>15,
     <1>16, <1>17, <1>18, <1>19, <1>20, <1>21, <1>22, <1>23, <1>24, <1>25, <1>26, <1>27, <1>28, <1>29
     DEF Next, Progress, Environment

\* The type invariant of the runs, for every instance: among the rest, no loop
\* passes conversation.max_tool_iterations (conversation.py:569, 660).
THEOREM TypeCorrect == Spec => []TypeOK
<1>1. Spec => []TypeInv
  BY TypeInit, TypeStep, PTL DEF Spec
<1>2. TypeInv => TypeOK
  BY DEF TypeInv
<1> QED BY <1>1, <1>2, PTL

---------------------------------------------------------------------------
(* Safety *)

Discipline == UniqueIds /\ ~ ConcurrentResumes /\ VerifyIn \subseteq Active

---------------------------------------------------------------------------
(* Who owns a run: the inductive invariant behind LiveRunIsActive,         *)
(* TerminalIsFinal and SerializedPerConversation.                          *)

Live(t) == ~ At(t, "idle")

\* A run id is used by one task at a time, and only while the core is up.
OneOwner ==
    /\ \A t \in Tasks : Live(t) => core = "up" /\ RunOf(t) \in used
    /\ \A t, u \in Tasks : Live(t) /\ RunOf(t) = RunOf(u) => t = u

\* _runs and the locks agree with where the tasks are.
TablesAgree ==
    /\ \A t \in Tasks : InLoop(t) => active[RunOf(t)] = t
    /\ \A r \in Runs : active[r] # NoTask => InLoop(active[r]) /\ RunOf(active[r]) = r
    /\ \A t \in Tasks : InLoop(t) /\ ~ At(t, "queued") => holder[ConvOf(t)] = t

\* The record of a run as long as a task serves it.
Expected(p) == IF p \in {"analyze", "mark"} THEN {"interrupted"} ELSE Active

RecordsAgree ==
    /\ \A r \in Runs \ used : run[r].status = "none"
    /\ \A t \in Tasks : Live(t) /\ RunOf(t) \notin ChatRuns
                           => run[RunOf(t)].status \in Expected(task[t].pc)

Ownership == OneOwner /\ TablesAgree /\ RecordsAgree

\* Facts of the types that the steps below use again and again.
LEMMA TaskFacts ==
    ASSUME TypeInv, NEW t \in Tasks
    PROVE  /\ task[t] \in Task /\ Shaped(task[t])
           /\ Live(t) => RunOf(t) \in Runs /\ ConvOf(t) \in Conversations
           /\ At(t, "idle") => RunOf(t) = NoRun
  BY RunsAssumption DEF TypeInv, GoodTask, Shaped, Live, At, RunOf, ConvOf, Idle, Serving

\* A task moves, ends, or stays; its run remains its own.
LEMMA OwnerKept ==
    ASSUME TypeInv, OneOwner, NEW t \in Tasks, NEW w, Live(t),
           task' = [task EXCEPT ![t] = w], w.run = RunOf(t) \/ w = Idle,
           core' = core, used' = used
    PROVE  OneOwner'
<1>1. \A u \in Tasks : u # t => task'[u] = task[u]
  BY DEF TypeInv, TypeOK
<1>2. task'[t] = w
  BY DEF TypeInv, TypeOK
<1>3. w = Idle => w.pc = "idle" /\ w.run = NoRun
  BY DEF Idle, Serving
<1> QED
  BY <1>1, <1>2, <1>3, TaskFacts, RunsAssumption DEF OneOwner, Live, At, RunOf

\* A task begins a request with a run id nobody uses.
LEMMA OwnerTaken ==
    ASSUME TypeInv, OneOwner, NEW t \in Tasks, NEW w, At(t, "idle"), core = "up",
           task' = [task EXCEPT ![t] = w], w.run \in used',
           \A u \in Tasks : RunOf(u) # w.run,
           core' = core, used \subseteq used'
    PROVE  OneOwner'
<1>1. \A u \in Tasks : u # t => task'[u] = task[u]
  BY DEF TypeInv, TypeOK
<1>2. task'[t] = w
  BY DEF TypeInv, TypeOK
<1> QED
  BY <1>1, <1>2, TaskFacts, RunsAssumption DEF OneOwner, Live, At, RunOf

\* A task moves without entering or leaving _runs.
LEMMA TablesKept ==
    ASSUME TypeInv, TablesAgree, NEW t \in Tasks, NEW w,
           task' = [task EXCEPT ![t] = w],
           w.pc \in Loop <=> InLoop(t), InLoop(t) => w.run = RunOf(t),
           w.pc = "queued" \/ ~ At(t, "queued"),
           UNCHANGED locks
    PROVE  TablesAgree'
<1>1. \A u \in Tasks : u # t => task'[u] = task[u]
  BY DEF TypeInv, TypeOK
<1>2. task'[t] = w
  BY DEF TypeInv, TypeOK
<1>3. active' = active /\ holder' = holder
  BY DEF locks
<1>4. \A r \in Runs : active[r] \in Tasks \cup {NoTask}
  BY DEF TypeInv, TypeOK
<1> QED
  BY <1>1, <1>2, <1>3, <1>4, RunsAssumption DEF TablesAgree, InLoop, At, RunOf, ConvOf

\* A task leaves _runs and gives up the lock.
LEMMA TablesLeft ==
    ASSUME TypeInv, OneOwner, TablesAgree, NEW t \in Tasks, InLoop(t), NEW p, p \notin Loop, Leave(t, p)
    PROVE  TablesAgree'
<1>1. \A u \in Tasks : u # t => task'[u] = task[u]
  BY DEF TypeInv, TypeOK, Leave
<1>2. task'[t].pc \notin Loop
  BY DEF TypeInv, TypeOK, Leave, Idle, Serving, Loop
<1>3. /\ Live(t) /\ RunOf(t) \in Runs /\ ConvOf(t) \in Conversations
  BY TaskFacts DEF Live, InLoop, At, Loop
<1>4. \A u \in Tasks : InLoop(u) => Live(u)
  BY DEF Live, InLoop, At, Loop
<1>5. \A r \in Runs : /\ active[r] \in Tasks \cup {NoTask}
                       /\ active'[r] = IF r = RunOf(t) THEN NoTask ELSE active[r]
  BY <1>3 DEF TypeInv, TypeOK, Leave
<1>6. \A c \in Conversations : holder'[c] = IF c = ConvOf(t) /\ holder[c] = t THEN NoTask ELSE holder[c]
  BY <1>3 DEF TypeInv, TypeOK, Leave
<1>7. \A u \in Tasks : InLoop(u) /\ u # t => RunOf(u) # RunOf(t)
  BY <1>4 DEF OneOwner
<1>8. \A u \in Tasks : InLoop(u)' => u # t /\ InLoop(u) /\ RunOf(u)' = RunOf(u)
  BY <1>1, <1>2 DEF InLoop, RunOf
<1>9. \A u \in Tasks : InLoop(u) => RunOf(u) \in Runs /\ ConvOf(u) \in Conversations
  BY <1>4, TaskFacts
<1>10. \A u \in Tasks : InLoop(u)' => active'[RunOf(u)'] = u
  BY <1>5, <1>7, <1>8, <1>9 DEF TablesAgree
<1>11. \A r \in Runs : active'[r] # NoTask => InLoop(active[r])' /\ RunOf(active[r])' = r
  <2> TAKE r \in Runs
  <2> HAVE active'[r] # NoTask
  <2>1. r # RunOf(t) /\ active'[r] = active[r] /\ active[r] \in Tasks
    BY <1>5
  <2>2. InLoop(active[r]) /\ RunOf(active[r]) = r
    BY <2>1 DEF TablesAgree
  <2>3. task'[active[r]] = task[active[r]]
    BY <1>1, <2>1, <2>2
  <2> QED BY <2>1, <2>2, <2>3 DEF InLoop, RunOf
<1>12. \A u \in Tasks : InLoop(u)' /\ ~ At(u, "queued")' => holder'[ConvOf(u)'] = u
  BY <1>1, <1>6, <1>8, <1>9 DEF TablesAgree, InLoop, RunOf, ConvOf, At
<1> QED BY <1>10, <1>11, <1>12 DEF TablesAgree

\* The record stays, and suits the task where it goes.
LEMMA RecordsKept ==
    ASSUME TypeInv, RecordsAgree, NEW t \in Tasks, NEW w,
           task' = [task EXCEPT ![t] = w],
           w.pc = "idle" \/ w.run \in ChatRuns \/ run[w.run].status \in Expected(w.pc),
           run' = run, used \subseteq used'
    PROVE  RecordsAgree'
<1>1. \A u \in Tasks : u # t => task'[u] = task[u]
  BY DEF TypeInv, TypeOK
<1>2. task'[t] = w
  BY DEF TypeInv, TypeOK
<1> QED
  BY <1>1, <1>2 DEF RecordsAgree, Live, At, RunOf

\* A task writes the record of its own run and goes where that suits, or ends.
LEMMA RecordsWritten ==
    ASSUME TypeInv, OneOwner, RecordsAgree, NEW t \in Tasks, NEW w, Live(t),
           task' = [task EXCEPT ![t] = w], w.run = RunOf(t) \/ w.pc = "idle",
           NEW s \in Status, SetStatus(RunOf(t), s), w.pc = "idle" \/ s \in Expected(w.pc),
           used' = used
    PROVE  RecordsAgree'
<1>1. \A u \in Tasks : u # t => task'[u] = task[u]
  BY DEF TypeInv, TypeOK
<1>2. task'[t] = w
  BY DEF TypeInv, TypeOK
<1>3. RunOf(t) \in Runs /\ RunOf(t) \in used
  BY TaskFacts DEF OneOwner
<1>4. \A r \in Runs : run'[r].status = IF r = RunOf(t) THEN s ELSE run[r].status
  BY <1>3 DEF SetStatus, TypeInv, TypeOK, Record
<1>5. \A u \in Tasks : u # t /\ Live(u) => RunOf(u) # RunOf(t) /\ RunOf(u) \in Runs
  BY TaskFacts DEF OneOwner
<1> QED
  BY <1>1, <1>2, <1>3, <1>4, <1>5 DEF RecordsAgree, Live, At, RunOf

\* A task leaves the loop: what becomes of the record is still open.
LEMMA OwnershipLeft ==
    ASSUME TypeInv, Ownership, NEW t \in Tasks, InLoop(t),
           NEW p \in {"completing", "failing", "cancelling"}, Leave(t, p),
           UNCHANGED <<process, run, used>>
    PROVE  Ownership'
<1>a. OneOwner /\ TablesAgree /\ RecordsAgree
  BY DEF Ownership
<1>b. Live(t) /\ task[t].pc \notin {"analyze", "mark"} /\ p \notin Loop
  BY DEF Live, At, InLoop, Loop
<1> DEFINE w == IF task[t].mode = "chat" THEN Idle ELSE Serving(p, task[t].run, task[t].mode)
<1>1. task' = [task EXCEPT ![t] = w] /\ core' = core /\ run' = run /\ used' = used
  BY DEF Leave, process
<1>2. (w = Idle /\ w.pc = "idle") \/ (w.run = RunOf(t) /\ w.pc = p)
  <2>1. Idle.pc = "idle"
    BY DEF Serving, Idle
  <2>2. LET x == Serving(p, task[t].run, task[t].mode) IN x.run = RunOf(t) /\ x.pc = p
    BY DEF Serving, RunOf
  <2> QED BY <2>1, <2>2
<1>3. RunOf(t) \in ChatRuns \/ run[RunOf(t)].status \in Expected(p)
  BY <1>a, <1>b DEF RecordsAgree, Expected
<1> HIDE DEF w
<1>4. OneOwner'
  BY <1>a, <1>b, <1>1, <1>2, OwnerKept
<1>5. TablesAgree'
  BY <1>a, <1>b, TablesLeft
<1>6. RecordsAgree'
  BY <1>a, <1>1, <1>2, <1>3, RecordsKept
<1> QED BY <1>4, <1>5, <1>6 DEF Ownership

\* Before anything runs, no run has an owner.
LEMMA OwnershipInit == Init => Ownership
  BY RunsAssumption DEF Init, Ownership, OneOwner, TablesAgree, RecordsAgree, Live, At, InLoop, RunOf,
     Idle, Serving, Loop

\* One case per action.
LEMMA OwnershipStep == Discipline /\ TypeInv /\ Ownership /\ [Next]_vars => Ownership'
<1> SUFFICES ASSUME Discipline, TypeInv, Ownership, [Next]_vars PROVE Ownership'
  OBVIOUS
<1> USE RunsAssumption
<1>a. OneOwner /\ TablesAgree /\ RecordsAgree
  BY DEF Ownership
<1>b. \A t \in Tasks :
         /\ task[t] \in Task /\ Shaped(task[t])
         /\ Live(t) => RunOf(t) \in Runs /\ ConvOf(t) \in Conversations /\ RunOf(t) \in used
         /\ Live(t) /\ RunOf(t) \notin ChatRuns => run[RunOf(t)].status \in Expected(task[t].pc)
  BY <1>a, TaskFacts DEF OneOwner, RecordsAgree
<1>1. ASSUME NEW t \in Tasks, NEW r \in Runs, StartRun(t, r) PROVE Ownership'
  <2> DEFINE w == Serving("created", r, "start")
  <2>0. w.pc = "created" /\ w.run = r /\ w.mode = "start"
    BY DEF Serving
  <2>1. \A u \in Tasks : RunOf(u) # r
    BY <1>1, <1>a, TaskFacts DEF StartRun, Take, OneOwner, Live
  <2>2. task' = [task EXCEPT ![t] = w] /\ core = "up" /\ core' = core /\ used \subseteq used'
    BY <1>1 DEF StartRun, Take, process, history
  <2>3. At(t, "idle") /\ w.run \in used'
    BY <1>1, <1>a, <2>0 DEF StartRun, Take, history, RecordsAgree
  <2> HIDE DEF w
  <2>4. OneOwner'
    BY <1>a, <2>0, <2>1, <2>2, <2>3, OwnerTaken
  <2>5. TablesAgree'
    BY <1>1, <1>a, <2>0, <2>2, <2>3, TablesKept DEF StartRun, At, InLoop, Loop
  <2>6. RecordsAgree'
    <3>1. /\ task'[t] = w /\ \A u \in Tasks : u # t => task'[u] = task[u]
          /\ run'[r].status = "created" /\ \A x \in Runs : x # r => run'[x] = run[x]
      BY <1>1, <2>2 DEF StartRun, TypeInv, TypeOK
    <3>2. used' = used \cup {r}
      BY <1>1 DEF StartRun, Take
    <3> QED BY <1>a, <1>b, <2>0, <2>1, <3>1, <3>2 DEF RecordsAgree, Live, At, RunOf, Expected, Active
  <2> QED BY <2>4, <2>5, <2>6 DEF Ownership
<1>3. ASSUME NEW t \in Tasks, NEW r \in Runs, ChatSend(t, r) PROVE Ownership'
  <2> DEFINE w == Serving("enter", r, "chat")
  <2>0. w.pc = "enter" /\ w.run = r /\ w.mode = "chat"
    BY DEF Serving
  <2>1. \A u \in Tasks : RunOf(u) # r
    BY <1>3, <1>a, TaskFacts DEF ChatSend, Take, OneOwner, Live
  <2>2. task' = [task EXCEPT ![t] = w] /\ core = "up" /\ core' = core /\ used \subseteq used'
    BY <1>3 DEF ChatSend, Take, process, history
  <2>3. At(t, "idle") /\ w.run \in used'
    BY <1>3, <1>a, <2>0 DEF ChatSend, Take, history, RecordsAgree
  <2> HIDE DEF w
  <2>4. OneOwner'
    BY <1>a, <2>0, <2>1, <2>2, <2>3, OwnerTaken
  <2>5. TablesAgree'
    BY <1>3, <1>a, <2>0, <2>2, <2>3, TablesKept DEF ChatSend, At, InLoop, Loop
  <2>6. RecordsAgree'
    BY <1>3, <1>a, <2>0, <2>2, RecordsKept DEF ChatSend, Expected
  <2> QED BY <2>4, <2>5, <2>6 DEF Ownership
<1>4. ASSUME NEW t \in Tasks, NEW r \in Runs, ResumeRead(t, r) PROVE Ownership'
  <2> DEFINE w == Serving("analyze", r, "resume")
  <2>0. w.pc = "analyze" /\ w.run = r /\ w.mode = "resume"
    BY DEF Serving
  <2>1. \A u \in Tasks : RunOf(u) # r
    BY <1>4 DEF ResumeRead, Discipline
  <2>2. task' = [task EXCEPT ![t] = w] /\ core = "up" /\ core' = core /\ used \subseteq used'
    BY <1>4 DEF ResumeRead, process, history
  <2>3. At(t, "idle") /\ w.run \in used'
    BY <1>4, <1>a, <2>0 DEF ResumeRead, history, RecordsAgree
  <2> HIDE DEF w
  <2>4. OneOwner'
    BY <1>a, <2>0, <2>1, <2>2, <2>3, OwnerTaken
  <2>5. TablesAgree'
    BY <1>4, <1>a, <2>0, <2>2, <2>3, TablesKept DEF ResumeRead, At, InLoop, Loop
  <2>6. RecordsAgree'
    BY <1>4, <1>a, <2>0, <2>2, RecordsKept DEF ResumeRead, Expected
  <2> QED BY <2>4, <2>5, <2>6 DEF Ownership
<1>9. ASSUME NEW t \in Tasks, AppendInput(t) PROVE Ownership'
  <2> DEFINE w == [task[t] EXCEPT !.pc = "generate"]
  <2>1. Live(t) /\ task' = [task EXCEPT ![t] = w] /\ core' = core /\ used' = used /\ run' = run
    BY <1>9 DEF AppendInput, Goto, process, history, Live, At
  <2>2. /\ w.run = RunOf(t) /\ w.pc \in Loop /\ InLoop(t)
        /\ w.pc = "queued" \/ ~ At(t, "queued")
        /\ run[RunOf(t)].status \in Expected(task[t].pc) => run[RunOf(t)].status \in Expected(w.pc)
    BY <1>9, <1>b DEF AppendInput, Goto, RunOf, InLoop, At, Loop, Task, Expected
  <2> HIDE DEF w
  <2>3. OneOwner'
    BY <1>a, <2>1, <2>2, OwnerKept
  <2>4. TablesAgree'
    BY <1>9, <1>a, <2>1, <2>2, TablesKept DEF AppendInput
  <2>5. RecordsAgree'
    BY <1>a, <1>b, <2>1, <2>2, RecordsKept
  <2> QED BY <2>3, <2>4, <2>5 DEF Ownership
<1>10. ASSUME NEW t \in Tasks, NEW n \in 0..MaxBatch, Generate(t, n) PROVE Ownership'
  <2> DEFINE w == [task[t] EXCEPT !.pc = "record", !.gen = gens[RunOf(t)] + 1, !.n = n]
  <2>1. Live(t) /\ task' = [task EXCEPT ![t] = w] /\ core' = core /\ used' = used /\ run' = run
    BY <1>10 DEF Generate, process, history, Live, At
  <2>2. /\ w.run = RunOf(t) /\ w.pc \in Loop /\ InLoop(t)
        /\ w.pc = "queued" \/ ~ At(t, "queued")
        /\ run[RunOf(t)].status \in Expected(task[t].pc) => run[RunOf(t)].status \in Expected(w.pc)
    BY <1>10, <1>b DEF Generate, RunOf, InLoop, At, Loop, Task, Expected
  <2> HIDE DEF w
  <2>3. OneOwner'
    BY <1>a, <2>1, <2>2, OwnerKept
  <2>4. TablesAgree'
    BY <1>10, <1>a, <2>1, <2>2, TablesKept DEF Generate
  <2>5. RecordsAgree'
    BY <1>a, <1>b, <2>1, <2>2, RecordsKept
  <2> QED BY <2>3, <2>4, <2>5 DEF Ownership
<1>12. ASSUME NEW t \in Tasks, BeginCall(t) PROVE Ownership'
  <2> DEFINE w == [task[t] EXCEPT !.pc = "invoke"]
  <2>1. Live(t) /\ task' = [task EXCEPT ![t] = w] /\ core' = core /\ used' = used /\ run' = run
    BY <1>12 DEF BeginCall, Invoke, Goto, process, history, Live, At
  <2>2. /\ w.run = RunOf(t) /\ w.pc \in Loop /\ InLoop(t)
        /\ w.pc = "queued" \/ ~ At(t, "queued")
        /\ run[RunOf(t)].status \in Expected(task[t].pc) => run[RunOf(t)].status \in Expected(w.pc)
    BY <1>12, <1>b DEF BeginCall, Invoke, Goto, RunOf, InLoop, At, Loop, Task, Expected
  <2> HIDE DEF w
  <2>3. OneOwner'
    BY <1>a, <2>1, <2>2, OwnerKept
  <2>4. TablesAgree'
    BY <1>12, <1>a, <2>1, <2>2, TablesKept DEF BeginCall, Invoke
  <2>5. RecordsAgree'
    BY <1>a, <1>b, <2>1, <2>2, RecordsKept
  <2> QED BY <2>3, <2>4, <2>5 DEF Ownership
<1>16. ASSUME NEW t \in Tasks, Approve(t) PROVE Ownership'
  <2> DEFINE w == [task[t] EXCEPT !.pc = "invoke"]
  <2>1. Live(t) /\ task' = [task EXCEPT ![t] = w] /\ core' = core /\ used' = used /\ run' = run
    BY <1>16 DEF Approve, Invoke, Goto, process, history, Live, At
  <2>2. /\ w.run = RunOf(t) /\ w.pc \in Loop /\ InLoop(t)
        /\ w.pc = "queued" \/ ~ At(t, "queued")
        /\ run[RunOf(t)].status \in Expected(task[t].pc) => run[RunOf(t)].status \in Expected(w.pc)
    BY <1>16, <1>b DEF Approve, Invoke, Goto, RunOf, InLoop, At, Loop, Task, Expected
  <2> HIDE DEF w
  <2>3. OneOwner'
    BY <1>a, <2>1, <2>2, OwnerKept
  <2>4. TablesAgree'
    BY <1>16, <1>a, <2>1, <2>2, TablesKept DEF Approve
  <2>5. RecordsAgree'
    BY <1>a, <1>b, <2>1, <2>2, RecordsKept
  <2> QED BY <2>3, <2>4, <2>5 DEF Ownership
<1>13. ASSUME NEW t \in Tasks, RefuseCall(t) PROVE Ownership'
  <2> DEFINE w == AfterCall(t)
  <2>1. Live(t) /\ task' = [task EXCEPT ![t] = w] /\ core' = core /\ used' = used /\ run' = run
    BY <1>13 DEF RefuseCall, AfterCall, process, history, Live, At
  <2>2. /\ w.run = RunOf(t) /\ w.pc \in Loop /\ InLoop(t)
        /\ w.pc = "queued" \/ ~ At(t, "queued")
        /\ run[RunOf(t)].status \in Expected(task[t].pc) => run[RunOf(t)].status \in Expected(w.pc)
    BY <1>13, <1>b DEF RefuseCall, AfterCall, RunOf, InLoop, At, Loop, Task, Expected
  <2> HIDE DEF w
  <2>3. OneOwner'
    BY <1>a, <2>1, <2>2, OwnerKept
  <2>4. TablesAgree'
    BY <1>13, <1>a, <2>1, <2>2, TablesKept DEF RefuseCall
  <2>5. RecordsAgree'
    BY <1>a, <1>b, <2>1, <2>2, RecordsKept
  <2> QED BY <2>3, <2>4, <2>5 DEF Ownership
<1>17. ASSUME NEW t \in Tasks, Deny(t) PROVE Ownership'
  <2> DEFINE w == AfterCall(t)
  <2>1. Live(t) /\ task' = [task EXCEPT ![t] = w] /\ core' = core /\ used' = used /\ run' = run
    BY <1>17 DEF Deny, AfterCall, process, history, Live, At
  <2>2. /\ w.run = RunOf(t) /\ w.pc \in Loop /\ InLoop(t)
        /\ w.pc = "queued" \/ ~ At(t, "queued")
        /\ run[RunOf(t)].status \in Expected(task[t].pc) => run[RunOf(t)].status \in Expected(w.pc)
    BY <1>17, <1>b DEF Deny, AfterCall, RunOf, InLoop, At, Loop, Task, Expected
  <2> HIDE DEF w
  <2>3. OneOwner'
    BY <1>a, <2>1, <2>2, OwnerKept
  <2>4. TablesAgree'
    BY <1>17, <1>a, <2>1, <2>2, TablesKept DEF Deny
  <2>5. RecordsAgree'
    BY <1>a, <1>b, <2>1, <2>2, RecordsKept
  <2> QED BY <2>3, <2>4, <2>5 DEF Ownership
<1>18. ASSUME NEW t \in Tasks, EndCall(t) PROVE Ownership'
  <2> DEFINE w == AfterCall(t)
  <2>1. Live(t) /\ task' = [task EXCEPT ![t] = w] /\ core' = core /\ used' = used /\ run' = run
    BY <1>18 DEF EndCall, AfterCall, process, history, Live, At
  <2>2. /\ w.run = RunOf(t) /\ w.pc \in Loop /\ InLoop(t)
        /\ w.pc = "queued" \/ ~ At(t, "queued")
        /\ run[RunOf(t)].status \in Expected(task[t].pc) => run[RunOf(t)].status \in Expected(w.pc)
    BY <1>18, <1>b DEF EndCall, AfterCall, RunOf, InLoop, At, Loop, Task, Expected
  <2> HIDE DEF w
  <2>3. OneOwner'
    BY <1>a, <2>1, <2>2, OwnerKept
  <2>4. TablesAgree'
    BY <1>18, <1>a, <2>1, <2>2, TablesKept DEF EndCall
  <2>5. RecordsAgree'
    BY <1>a, <1>b, <2>1, <2>2, RecordsKept
  <2> QED BY <2>3, <2>4, <2>5 DEF Ownership
<1>15. ASSUME NEW t \in Tasks, AppendResult(t) PROVE Ownership'
  <2> DEFINE w == task'[t]
  <2>1. Live(t) /\ task' = [task EXCEPT ![t] = w] /\ core' = core /\ used' = used /\ run' = run
    BY <1>15 DEF AppendResult, TypeInv, TypeOK, process, history, Live, At
  <2>2. /\ w.run = RunOf(t) /\ w.pc \in Loop /\ InLoop(t)
        /\ w.pc = "queued" \/ ~ At(t, "queued")
        /\ run[RunOf(t)].status \in Expected(task[t].pc) => run[RunOf(t)].status \in Expected(w.pc)
    BY <1>15, <1>b DEF AppendResult, TypeInv, TypeOK, RunOf, InLoop, At, Loop, Task, Expected
  <2> HIDE DEF w
  <2>3. OneOwner'
    BY <1>a, <2>1, <2>2, OwnerKept
  <2>4. TablesAgree'
    BY <1>15, <1>a, <2>1, <2>2, TablesKept DEF AppendResult
  <2>5. RecordsAgree'
    BY <1>a, <1>b, <2>1, <2>2, RecordsKept
  <2> QED BY <2>3, <2>4, <2>5 DEF Ownership
<1>23. ASSUME NEW t \in Tasks, CancelTool(t) PROVE Ownership'
  <2> DEFINE w == [AfterCall(t) EXCEPT !.seen = TRUE]
  <2>1. Live(t) /\ task' = [task EXCEPT ![t] = w] /\ core' = core /\ used' = used /\ run' = run
    BY <1>23 DEF CancelTool, AfterCall, process, history, Live, At
  <2>2. /\ w.run = RunOf(t) /\ w.pc \in Loop /\ InLoop(t)
        /\ w.pc = "queued" \/ ~ At(t, "queued")
        /\ run[RunOf(t)].status \in Expected(task[t].pc) => run[RunOf(t)].status \in Expected(w.pc)
    BY <1>23, <1>b DEF CancelTool, AfterCall, RunOf, InLoop, At, Loop, Task, Expected
  <2> HIDE DEF w
  <2>3. OneOwner'
    BY <1>a, <2>1, <2>2, OwnerKept
  <2>4. TablesAgree'
    BY <1>23, <1>a, <2>1, <2>2, TablesKept DEF CancelTool
  <2>5. RecordsAgree'
    BY <1>a, <1>b, <2>1, <2>2, RecordsKept
  <2> QED BY <2>3, <2>4, <2>5 DEF Ownership
<1>2. ASSUME NEW t \in Tasks, MarkRunning(t) PROVE Ownership'
  <2> DEFINE w == [task[t] EXCEPT !.pc = "enter"]
             s == "running"
  <2>1. /\ Live(t) /\ core' = core /\ used' = used
        /\ task' = [task EXCEPT ![t] = w]
    BY <1>2 DEF MarkRunning, Goto, process, history, Live, At
  <2>2. SetStatus(RunOf(t), s) /\ s \in Status
    BY <1>2 DEF MarkRunning, Status, Active, Terminal
  <2>3. /\ w.run = RunOf(t) \/ w = Idle
        /\ w.run = RunOf(t) \/ w.pc = "idle"
        /\ w.pc = "idle" \/ s \in Expected(w.pc)
        /\ w.pc \notin Loop /\ ~ InLoop(t) /\ ~ At(t, "queued")
    BY <1>2, <1>b DEF MarkRunning, Task, Idle, Serving, Loop, InLoop, At, RunOf, Expected, Active
  <2> HIDE DEF w, s
  <2>4. OneOwner'
    BY <1>a, <2>1, <2>3, OwnerKept
  <2>5. TablesAgree'
    BY <1>2, <1>a, <2>1, <2>3, TablesKept DEF MarkRunning
  <2>6. RecordsAgree'
    BY <1>a, <2>1, <2>2, <2>3, RecordsWritten
  <2> QED BY <2>4, <2>5, <2>6 DEF Ownership
<1>6. ASSUME NEW t \in Tasks, MarkResumed(t) PROVE Ownership'
  <2> DEFINE w == [task[t] EXCEPT !.pc = IF task[t].ans = "answer" THEN "completing" ELSE "enter"]
             s == "running"
  <2>1. /\ Live(t) /\ core' = core /\ used' = used
        /\ task' = [task EXCEPT ![t] = w]
    BY <1>6 DEF MarkResumed, Goto, process, history, Live, At
  <2>2. SetStatus(RunOf(t), s) /\ s \in Status
    BY <1>6 DEF MarkResumed, Status, Active, Terminal
  <2>3. /\ w.run = RunOf(t) \/ w = Idle
        /\ w.run = RunOf(t) \/ w.pc = "idle"
        /\ w.pc = "idle" \/ s \in Expected(w.pc)
        /\ w.pc \notin Loop /\ ~ InLoop(t) /\ ~ At(t, "queued")
    BY <1>6, <1>b DEF MarkResumed, Task, Idle, Serving, Loop, InLoop, At, RunOf, Expected, Active
  <2> HIDE DEF w, s
  <2>4. OneOwner'
    BY <1>a, <2>1, <2>3, OwnerKept
  <2>5. TablesAgree'
    BY <1>6, <1>a, <2>1, <2>3, TablesKept DEF MarkResumed
  <2>6. RecordsAgree'
    BY <1>a, <2>1, <2>2, <2>3, RecordsWritten
  <2> QED BY <2>4, <2>5, <2>6 DEF Ownership
<1>25. ASSUME NEW t \in Tasks, Finish(t) PROVE Ownership'
  <2> DEFINE w == Idle
             s == Outcome(t)
  <2>1. /\ Live(t) /\ core' = core /\ used' = used
        /\ task' = [task EXCEPT ![t] = w]
    BY <1>25 DEF Finish, Goto, process, history, Live, At
  <2>2. SetStatus(RunOf(t), s) /\ s \in Status
    BY <1>25 DEF Finish, Status, Active, Terminal, Outcome
  <2>3. /\ w.run = RunOf(t) \/ w = Idle
        /\ w.run = RunOf(t) \/ w.pc = "idle"
        /\ w.pc = "idle" \/ s \in Expected(w.pc)
        /\ w.pc \notin Loop /\ ~ InLoop(t) /\ ~ At(t, "queued")
    BY <1>25, <1>b DEF Finish, Task, Idle, Serving, Loop, InLoop, At, RunOf, Expected, Active
  <2> HIDE DEF w, s
  <2>4. OneOwner'
    BY <1>a, <2>1, <2>3, OwnerKept
  <2>5. TablesAgree'
    BY <1>25, <1>a, <2>1, <2>3, TablesKept DEF Finish
  <2>6. RecordsAgree'
    BY <1>a, <2>1, <2>2, <2>3, RecordsWritten
  <2> QED BY <2>4, <2>5, <2>6 DEF Ownership
<1>5. ASSUME NEW t \in Tasks, Analyze(t) PROVE Ownership'
  <2> DEFINE w == task'[t]
  <2>1. /\ Live(t) /\ task' = [task EXCEPT ![t] = w] /\ core' = core /\ used' = used /\ run' = run
    BY <1>5 DEF Analyze, process, history, Live, At, TypeInv, TypeOK
  <2>2. /\ w = Idle \/ (w.run = RunOf(t) /\ w.pc = "mark")
        /\ ~ InLoop(t) /\ ~ At(t, "queued")
        /\ RunOf(t) \notin ChatRuns => run[RunOf(t)].status = "interrupted"
    <3> DEFINE r == RunOf(t)
               a == IF HasAnswer(r) THEN "answer" ELSE IF HasInput(r) THEN "continue" ELSE "send"
               v == [task[t] EXCEPT !.pc = "mark", !.ans = a]
    <3>1. w = IF MissingResult(r) THEN Idle ELSE v
      BY <1>5 DEF Analyze, TypeInv, TypeOK
    <3>2. v.run = RunOf(t) /\ v.pc = "mark"
      BY <1>b DEF Task, RunOf
    <3> HIDE DEF v
    <3>3. w = Idle \/ (w.run = RunOf(t) /\ w.pc = "mark")
      BY <3>1, <3>2
    <3>4. At(t, "analyze")
      BY <1>5 DEF Analyze
    <3>5. RunOf(t) \notin ChatRuns => run[RunOf(t)].status = "interrupted"
      BY <1>b, <2>1, <3>4 DEF At, Expected
    <3> QED BY <3>3, <3>4, <3>5 DEF Loop, InLoop, At
  <2>3. w.pc \notin Loop /\ (w.pc = "idle" \/ (w.pc = "mark" /\ w.run = RunOf(t)))
    BY <2>2 DEF Idle, Serving, Loop
  <2> HIDE DEF w
  <2>4. OneOwner'
    BY <1>a, <2>1, <2>2, OwnerKept
  <2>5. TablesAgree'
    BY <1>5, <1>a, <2>1, <2>2, <2>3, TablesKept DEF Analyze
  <2>6. RecordsAgree'
    BY <1>a, <2>1, <2>2, <2>3, RecordsKept DEF Expected
  <2> QED BY <2>4, <2>5, <2>6 DEF Ownership
<1>7. ASSUME NEW t \in Tasks, Enter(t) PROVE Ownership'
  <2>1. Live(t) /\ ~ InLoop(t) /\ RunOf(t) \in Runs
    BY <1>7, <1>b DEF Enter, Live, At, InLoop, Loop
  <2>2. active[RunOf(t)] = NoTask
    <3>1. active[RunOf(t)] \in Tasks \cup {NoTask}
      BY <2>1 DEF TypeInv, TypeOK
    <3>2. \A u \in Tasks : InLoop(u) /\ RunOf(u) = RunOf(t) => u = t
      BY <2>1, <1>a DEF OneOwner
    <3> QED BY <2>1, <3>1, <3>2, <1>a DEF TablesAgree
  <2> DEFINE w == [task[t] EXCEPT !.pc = "queued"]
  <2>3. /\ task' = [task EXCEPT ![t] = w] /\ active' = [active EXCEPT ![RunOf(t)] = t]
        /\ holder' = holder /\ core' = core /\ used' = used /\ run' = run
    BY <1>7, <2>2 DEF Enter, Goto, process, history
  <2>4. /\ w.run = RunOf(t) /\ w.pc = "queued"
        /\ run[RunOf(t)].status \in Expected(task[t].pc) => run[RunOf(t)].status \in Expected(w.pc)
    BY <1>7, <1>b DEF Enter, RunOf, At, Task, Expected
  <2>5. task'[t] = w /\ \A u \in Tasks : u # t => task'[u] = task[u]
    BY <2>3 DEF TypeInv, TypeOK
  <2> HIDE DEF w
  <2>6. OneOwner'
    BY <1>a, <2>1, <2>3, <2>4, OwnerKept
  <2>7. RecordsAgree'
    BY <1>a, <1>b, <2>1, <2>3, <2>4, RecordsKept
  <2>8. TablesAgree'
    <3>1. \A r \in Runs : active'[r] = IF r = RunOf(t) THEN t ELSE active[r]
      BY <2>1, <2>3 DEF TypeInv, TypeOK
    <3>2. InLoop(t)' /\ RunOf(t)' = RunOf(t) /\ At(t, "queued")'
      BY <2>4, <2>5 DEF InLoop, RunOf, At, Loop
    <3>3. \A u \in Tasks : u # t => /\ InLoop(u)' <=> InLoop(u)
                                    /\ RunOf(u)' = RunOf(u)
                                    /\ At(u, "queued")' <=> At(u, "queued")
      BY <2>5 DEF InLoop, RunOf, At
    <3>4. \A u \in Tasks : InLoop(u) /\ u # t => RunOf(u) # RunOf(t) /\ RunOf(u) \in Runs
      BY <1>a, <1>b, <2>1 DEF OneOwner, InLoop, Live, At, Loop
    <3>5. \A u \in Tasks : InLoop(u)' => active'[RunOf(u)'] = u
      BY <3>1, <3>2, <3>3, <3>4, <2>1, <1>a DEF TablesAgree
    <3>6. \A r \in Runs : active'[r] # NoTask => InLoop(active[r])' /\ RunOf(active[r])' = r
      BY <3>1, <3>2, <3>3, <2>1, <1>a DEF TablesAgree, TypeInv, TypeOK
    <3>7. \A u \in Tasks : InLoop(u)' /\ ~ At(u, "queued")' => holder'[ConvOf(u)'] = u
      BY <3>2, <3>3, <2>3, <1>a DEF TablesAgree, ConvOf
    <3> QED BY <3>5, <3>6, <3>7 DEF TablesAgree
  <2> QED BY <2>6, <2>7, <2>8 DEF Ownership
<1>8. ASSUME NEW t \in Tasks, Acquire(t) PROVE Ownership'
  <2> DEFINE w == [task[t] EXCEPT !.pc = IF task[t].ans = "continue" THEN "generate" ELSE "input"]
  <2>1. Live(t) /\ InLoop(t) /\ RunOf(t) \in Runs /\ ConvOf(t) \in Conversations
    BY <1>8, <1>b DEF Acquire, Live, At, InLoop, Loop
  <2>2. /\ task' = [task EXCEPT ![t] = w] /\ active' = active
        /\ holder[ConvOf(t)] = NoTask /\ holder' = [holder EXCEPT ![ConvOf(t)] = t]
        /\ core' = core /\ used' = used /\ run' = run
    BY <1>8 DEF Acquire, Goto, process, history
  <2>3. /\ w.run = RunOf(t) /\ w.pc \in Loop
        /\ run[RunOf(t)].status \in Expected(task[t].pc) => run[RunOf(t)].status \in Expected(w.pc)
    BY <1>8, <1>b DEF Acquire, RunOf, At, Task, Expected, Loop
  <2>4. task'[t] = w /\ \A u \in Tasks : u # t => task'[u] = task[u]
    BY <2>2 DEF TypeInv, TypeOK
  <2> HIDE DEF w
  <2>5. OneOwner'
    BY <1>a, <2>1, <2>2, <2>3, OwnerKept
  <2>6. RecordsAgree'
    BY <1>a, <1>b, <2>1, <2>2, <2>3, RecordsKept
  <2>7. TablesAgree'
    <3>1. \A u \in Tasks : /\ InLoop(u)' <=> InLoop(u)
                           /\ RunOf(u)' = RunOf(u) /\ ConvOf(u)' = ConvOf(u)
                           /\ u # t => (At(u, "queued")' <=> At(u, "queued"))
      BY <2>1, <2>3, <2>4 DEF InLoop, RunOf, ConvOf, At
    <3>2. \A c \in Conversations : holder'[c] = IF c = ConvOf(t) THEN t ELSE holder[c]
      BY <2>1, <2>2 DEF TypeInv, TypeOK
    <3>3. \A u \in Tasks : InLoop(u) /\ ~ At(u, "queued") => ConvOf(u) # ConvOf(t)
      BY <2>2, <1>a DEF TablesAgree, RunsAssumption
    <3>4. \A u \in Tasks : InLoop(u)' /\ ~ At(u, "queued")' => holder'[ConvOf(u)'] = u
      BY <3>1, <3>2, <3>3, <2>1, <1>a, <1>b DEF TablesAgree, InLoop, Live, At, Loop
    <3>5. \A u \in Tasks : InLoop(u)' => active'[RunOf(u)'] = u
      BY <3>1, <2>2, <1>a DEF TablesAgree
    <3>6. \A r \in Runs : active'[r] # NoTask => InLoop(active[r])' /\ RunOf(active[r])' = r
      BY <3>1, <2>2, <1>a DEF TablesAgree, TypeInv, TypeOK
    <3> QED BY <3>4, <3>5, <3>6 DEF TablesAgree
  <2> QED BY <2>5, <2>6, <2>7 DEF Ownership
<1>11. ASSUME NEW t \in Tasks, AppendAssistant(t) PROVE Ownership'
  <2>1. InLoop(t) /\ UNCHANGED <<process, run, used>>
    BY <1>11 DEF AppendAssistant, At, InLoop, Loop, history
  <2>2. CASE Leave(t, "completing") \/ Leave(t, "failing")
    BY <2>1, <2>2, OwnershipLeft
  <2>3. CASE Goto(t, "call") /\ UNCHANGED locks
    <3> DEFINE w == [task[t] EXCEPT !.pc = "call"]
    <3>1. Live(t) /\ task' = [task EXCEPT ![t] = w] /\ core' = core /\ used' = used /\ run' = run
      BY <1>11, <2>1, <2>3 DEF Goto, AppendAssistant, process, Live, At
    <3>2. /\ w.run = RunOf(t) /\ w.pc \in Loop /\ ~ At(t, "queued")
          /\ run[RunOf(t)].status \in Expected(task[t].pc) => run[RunOf(t)].status \in Expected(w.pc)
      BY <1>11, <1>b DEF AppendAssistant, RunOf, At, Loop, Task, Expected
    <3> HIDE DEF w
    <3>3. OneOwner'
      BY <1>a, <3>1, <3>2, OwnerKept
    <3>4. TablesAgree'
      BY <2>1, <2>3, <1>a, <3>1, <3>2, TablesKept
    <3>5. RecordsAgree'
      BY <1>a, <1>b, <3>1, <3>2, RecordsKept
    <3> QED BY <3>3, <3>4, <3>5 DEF Ownership
  <2> QED BY <1>11, <2>2, <2>3 DEF AppendAssistant
<1>14. ASSUME NEW t \in Tasks, AskApproval(t) PROVE Ownership'
  <2> DEFINE w == [task[t] EXCEPT !.pc = "approval"]
             s == IF run[RunOf(t)].status = "none" THEN "none" ELSE "waiting_approval"
  <2>1. /\ Live(t) /\ InLoop(t) /\ core' = core /\ used' = used
        /\ task' = [task EXCEPT ![t] = w]
    BY <1>14 DEF AskApproval, Goto, process, history, Live, At, InLoop, Loop
  <2>2. SetStatus(RunOf(t), s) /\ s \in Status
    BY <1>14 DEF AskApproval, SetStatus, Status, Active
  <2>3. /\ w.run = RunOf(t) /\ w.pc \in Loop /\ w.pc # "queued" /\ ~ At(t, "queued")
        /\ RunOf(t) \notin ChatRuns => s \in Expected(w.pc)
    <3>1. w.run = RunOf(t) /\ w.pc = "approval"
      BY <1>b DEF Task, RunOf
    <3>2. RunOf(t) \notin ChatRuns => run[RunOf(t)].status \in Active
      BY <1>14, <1>b, <2>1 DEF AskApproval, At, Expected
    <3> QED BY <1>14, <3>1, <3>2 DEF AskApproval, Loop, At, Expected, Active
  <2>4. RunOf(t) \in ChatRuns => s = "none" /\ run' = run
    <3>1. RunOf(t) \in ChatRuns => run[RunOf(t)].status = "none"
      BY DEF TypeInv
    <3> QED BY <3>1, <1>14, <1>b DEF AskApproval, TypeInv, TypeOK, Record
  <2> HIDE DEF w, s
  <2>5. OneOwner'
    BY <1>a, <2>1, <2>3, OwnerKept
  <2>6. TablesAgree'
    BY <1>14, <1>a, <2>1, <2>3, TablesKept DEF AskApproval
  <2>7. CASE RunOf(t) \in ChatRuns
    BY <2>7, <1>a, <2>1, <2>3, <2>4, RecordsKept, <2>5, <2>6 DEF Ownership
  <2>8. CASE RunOf(t) \notin ChatRuns
    BY <2>8, <1>a, <2>1, <2>2, <2>3, RecordsWritten, <2>5, <2>6 DEF Ownership
  <2> QED BY <2>7, <2>8
<1>19. ASSUME NEW t \in Tasks, FailRun(t) PROVE Ownership'
  <2>1. InLoop(t) /\ UNCHANGED <<process, run, used>> /\ Leave(t, "failing")
    BY <1>19 DEF FailRun, At, InLoop, Loop, history
  <2> QED BY <2>1, OwnershipLeft
<1>20. ASSUME NEW t \in Tasks, CancelWaiting(t) PROVE Ownership'
  <2>1. InLoop(t) /\ UNCHANGED <<process, run, used>> /\ Leave(t, "cancelling")
    BY <1>20 DEF CancelWaiting, At, InLoop, Loop, history
  <2> QED BY <2>1, OwnershipLeft
<1>21. ASSUME NEW t \in Tasks, CancelWriting(t) PROVE Ownership'
  <2>1. InLoop(t) /\ UNCHANGED <<process, run, used>> /\ Leave(t, "cancelling")
    BY <1>21 DEF CancelWriting, At, InLoop, Loop, history
  <2> QED BY <2>1, OwnershipLeft
<1>22. ASSUME NEW t \in Tasks, NoticeCancel(t) PROVE Ownership'
  <2>1. InLoop(t) /\ UNCHANGED <<process, run, used>> /\ Leave(t, "cancelling")
    BY <1>22 DEF NoticeCancel, At, InLoop, Loop, history
  <2> QED BY <2>1, OwnershipLeft
<1>24. ASSUME NEW m \in inflight, Land(m) PROVE Ownership'
  BY <1>24 DEF Land, Ownership, OneOwner, TablesAgree, RecordsAgree, Live, At, InLoop, RunOf, ConvOf,
     process, locks, history
<1>26. ASSUME NEW r \in Runs, Verify(r) \/ Reconcile(r) PROVE Ownership'
  <2>1. /\ UNCHANGED <<core, task, locks, used>>
        /\ \A x \in Runs : x # r => run'[x] = run[x]
        /\ run[r].status \in Active
    BY <1>26 DEF Verify, Reconcile, Discipline, process, locks, history, SetStatus, TypeInv, TypeOK
  <2>2. OneOwner' /\ TablesAgree'
    BY <1>a, <2>1 DEF OneOwner, TablesAgree, Live, At, InLoop, RunOf, ConvOf, locks
  <2>3. CASE Verify(r)
    <3>1. run'[r].status = "verifying"
      BY <2>3 DEF Verify, SetStatus, TypeInv, TypeOK, Record
    <3>2. r \in used
      BY <1>a, <2>1 DEF RecordsAgree, Active
    <3>3. \A t \in Tasks : Live(t) /\ RunOf(t) \notin ChatRuns /\ RunOf(t) = r
                           => "verifying" \in Expected(task[t].pc)
      BY <1>b, <2>1 DEF Expected, Active
    <3>4. \A t \in Tasks : Live(t) /\ RunOf(t) \notin ChatRuns
                           => run'[RunOf(t)].status \in Expected(task[t].pc)
      BY <1>b, <2>1, <3>1, <3>3
    <3> QED BY <1>a, <2>1, <2>2, <3>2, <3>4 DEF Ownership, RecordsAgree, Live, At, RunOf
  <2>4. CASE Reconcile(r)
    <3>1. \A t \in Tasks : ~ Live(t)
      BY <2>4, <1>a DEF Reconcile, OneOwner
    <3>2. r \in used
      BY <1>a, <2>1 DEF RecordsAgree, Active
    <3> QED BY <1>a, <2>1, <2>2, <3>1, <3>2 DEF Ownership, RecordsAgree, Live, At, RunOf
  <2> QED BY <1>26, <2>3, <2>4
<1>27. CASE Crash
  BY <1>27, <1>a DEF Crash, Ownership, OneOwner, TablesAgree, RecordsAgree, Live, At, InLoop, RunOf,
     Idle, Serving, Loop, history
<1>28. CASE Boot \/ Ready
  BY <1>28, <1>a DEF Boot, Ready, Ownership, OneOwner, TablesAgree, RecordsAgree, Live, At, InLoop,
     RunOf, ConvOf, locks, history
<1>29. CASE UNCHANGED vars
  BY <1>29, <1>a DEF vars, Ownership, OneOwner, TablesAgree, RecordsAgree, Live, At, InLoop,
     RunOf, ConvOf, process, locks, history
<1> QED
  BY <1>1, <1>2, <1>3, <1>4, <1>5, <1>6, <1>7, <1>8, <1>9, <1>10, <1>11, <1>12, <1>13, <1>14, <1>15,
     <1>16, <1>17, <1>18, <1>19, <1>20, <1>21, <1>22, <1>23, <1>24, <1>25, <1>26, <1>27, <1>28, <1>29
     DEF Next, Progress, Environment

---------------------------------------------------------------------------
(* What the log holds of a run: the inductive invariant behind             *)
(* NoBlindReplay and CompletedRunIsWhole.                                  *)

\* Every call the run ever asked for has its result.
Resolved(r) ==
    \A m \in Messages(r) : m.role = "assistant" => \A k \in 1..m.n : Answered(r, m.gen, k)

\* Every call of the generations before g has its result.
ResolvedBut(r, g) ==
    \A m \in Messages(r) : m.role = "assistant" /\ m.gen # g =>
        \A k \in 1..m.n : Answered(r, m.gen, k)

\* A write that outlives its task belongs to a run that is over.
StrayWrites ==
    \A m \in inflight :
        /\ m.run \in used /\ m.gen <= gens[m.run]
        /\ \A t \in Tasks : RunOf(t) = m.run => At(t, "cancelling")
        /\ \/ m.run \in ChatRuns
           \/ run[m.run].status = "cancelled"
           \/ \E t \in Tasks : RunOf(t) = m.run

\* Generations are numbered in order, and unused ids have left no trace.
Numbered ==
    /\ \A r \in Runs : \A m \in Messages(r) : r \in used /\ m.gen <= gens[r]
    /\ \A t \in Tasks : Live(t) => task[t].gen <= gens[RunOf(t)]

\* What the log holds of the run at each place of its task.
LogAgrees(t) ==
    LET r == RunOf(t)
        g == task[t].gen
    IN  /\ task[t].pc \in {"created", "enter", "queued", "input", "generate", "record",
                           "mark", "completing"} => Resolved(r)
        /\ At(t, "record") => \A m \in Messages(r) : m.gen # g
        /\ task[t].pc \in InCall =>
              /\ ResolvedBut(r, g)
              /\ \E m \in Messages(r) : m.role = "assistant" /\ m.gen = g
              /\ \A m \in Messages(r) : m.role = "assistant" /\ m.gen = g => m.n = task[t].n
        /\ At(t, "results") => \A k \in 1..task[t].i : Answered(r, g, k)
        /\ At(t, "completing") \/ (At(t, "mark") /\ task[t].ans = "answer") => HasAnswer(r)

LogInv ==
    /\ ExecutedWasRequested
    /\ StrayWrites
    /\ Numbered
    /\ \A t \in Tasks : LogAgrees(t)
    /\ CompletedRunIsWhole

\* What one more message changes.
LEMMA MessagesAppended ==
    ASSUME TypeInv, NEW m \in Message, AppendTo(m), NEW r \in Runs
    PROVE  Messages(r)' = IF r = m.run THEN Messages(r) \cup {m} ELSE Messages(r)
<1> DEFINE c == Conv[m.run]
           s == log[c]
<1>1. c \in Conversations /\ Conv[r] \in Conversations /\ m.run \in Runs
  BY RunsAssumption DEF Message
<1>2. s \in Seq(Message) /\ log[Conv[r]] \in Seq(Message)
  BY <1>1 DEF TypeInv, TypeOK
<1>3. log'[Conv[r]] = IF Conv[r] = c THEN Append(s, m) ELSE log[Conv[r]]
  BY <1>1 DEF AppendTo, TypeInv, TypeOK
<1> HIDE DEF c
<1>4. CASE Conv[r] # c
  BY <1>3, <1>4 DEF Messages, c
<1>5. CASE Conv[r] = c
  <2>1. /\ DOMAIN Append(s, m) = 1..(Len(s) + 1) /\ DOMAIN s = 1..Len(s) /\ Len(s) \in Nat
        /\ \A k \in 1..Len(s) : Append(s, m)[k] = s[k]
        /\ Append(s, m)[Len(s) + 1] = m
    BY <1>2
  <2> DEFINE a == Append(s, m)
  <2>2. Messages(r)' = {a[k] : k \in {j \in DOMAIN a : a[j].run = r}}
    BY <1>3, <1>5 DEF Messages
  <2>3. Messages(r) = {s[k] : k \in {j \in DOMAIN s : s[j].run = r}}
    BY <1>5 DEF Messages
  <2> HIDE DEF s, a
  <2>4. ASSUME NEW x \in Messages(r)' PROVE x \in Messages(r) \/ (x = m /\ m.run = r)
    <3>1. PICK k \in DOMAIN a : a[k].run = r /\ x = a[k]
      BY <2>2, <2>4
    <3>2. k \in 1..Len(s) \/ k = Len(s) + 1
      BY <2>1, <3>1 DEF a
    <3> QED BY <2>1, <2>3, <3>1, <3>2 DEF a
  <2>5. ASSUME NEW x \in Messages(r) PROVE x \in Messages(r)'
    <3>1. PICK k \in DOMAIN s : s[k].run = r /\ x = s[k]
      BY <2>3, <2>5
    <3>2. k \in DOMAIN a /\ a[k] = s[k]
      BY <2>1, <3>1 DEF a
    <3> QED BY <2>2, <3>1, <3>2
  <2>6. m.run = r => m \in Messages(r)'
    <3>1. Len(s) + 1 \in DOMAIN a /\ a[Len(s) + 1] = m
      BY <2>1 DEF a
    <3> QED BY <2>2, <3>1
  <2> QED BY <2>4, <2>5, <2>6
<1> QED BY <1>4, <1>5

\* The messages of a run have the type of messages.
LEMMA MessagesTyped ==
    ASSUME TypeInv, NEW r \in Runs
    PROVE  Messages(r) \subseteq Message
  BY RunsAssumption DEF Messages, TypeInv, TypeOK

\* Nothing the invariant says of a run depends on more than its messages.
LEMMA SameMessages ==
    ASSUME NEW r, Messages(r)' = Messages(r)
    PROVE  /\ Resolved(r)' <=> Resolved(r)
           /\ HasAnswer(r)' <=> HasAnswer(r)
           /\ \A g : ResolvedBut(r, g)' <=> ResolvedBut(r, g)
           /\ \A g, k : Answered(r, g, k)' <=> Answered(r, g, k)
  BY DEF Resolved, ResolvedBut, HasAnswer, Answered

\* Results are never taken back.
LEMMA MoreMessages ==
    ASSUME NEW r, Messages(r) \subseteq Messages(r)'
    PROVE  /\ HasAnswer(r) => HasAnswer(r)'
           /\ \A g, k : Answered(r, g, k) => Answered(r, g, k)'
  BY DEF HasAnswer, Answered

\* The steps of a task leave what the log holds of the other runs.
LEMMA OthersAgree ==
    ASSUME TypeInv, OneOwner, \A u \in Tasks : LogAgrees(u), NEW t \in Tasks, NEW r \in Runs,
           \A u \in Tasks : u # t => task'[u] = task[u] /\ (Live(u) => RunOf(u) # r),
           \A x \in Runs : x # r => Messages(x)' = Messages(x)
    PROVE  \A u \in Tasks : u # t => LogAgrees(u)'
<1> TAKE u \in Tasks
<1> HAVE u # t
<1>1. task'[u] = task[u]
  OBVIOUS
<1>2. CASE At(u, "idle")
  BY <1>1, <1>2 DEF LogAgrees, At, InCall
<1>3. CASE Live(u)
  <2>1. Messages(RunOf(u))' = Messages(RunOf(u)) /\ RunOf(u)' = RunOf(u)
    BY <1>1, <1>3, TaskFacts DEF RunOf
  <2>2. LogAgrees(u)
    OBVIOUS
  <2> QED BY <1>1, <2>1, <2>2, SameMessages DEF LogAgrees, At, RunOf
<1> QED BY <1>2, <1>3 DEF Live

\* A task moves or ends and leaves the log and the counters as they are.
LEMMA LogQuiet ==
    ASSUME TypeInv, Ownership, LogInv, NEW t \in Tasks, Live(t), NEW w,
           task' = [task EXCEPT ![t] = w],
           w = Idle \/ (w.run = RunOf(t) /\ w.gen <= gens[RunOf(t)]),
           ~ At(t, "cancelling") \/ (w = Idle /\ run'[RunOf(t)].status = "cancelled"),
           UNCHANGED <<log, inflight, history>>,
           \A r \in Runs : r # RunOf(t) => run'[r] = run[r],
           run'[RunOf(t)].status = "completed" =>
               run[RunOf(t)].status = "completed" \/ (HasAnswer(RunOf(t)) /\ Resolved(RunOf(t))),
           LogAgrees(t)'
    PROVE  LogInv'
<1> DEFINE r == RunOf(t)
<1>1. /\ OneOwner /\ ExecutedWasRequested /\ StrayWrites /\ Numbered /\ CompletedRunIsWhole
      /\ \A u \in Tasks : LogAgrees(u)
  BY DEF Ownership, LogInv
<1>2. task'[t] = w /\ \A u \in Tasks : u # t => task'[u] = task[u]
  BY DEF TypeInv, TypeOK
<1>3. r \in Runs /\ \A u \in Tasks : u # t => RunOf(u) # r
  BY <1>1, TaskFacts DEF OneOwner
<1>4. \A x : Messages(x)' = Messages(x)
  BY DEF Messages
<1>5. \A u \in Tasks : LogAgrees(u)'
  BY <1>1, <1>2, <1>3, <1>4, OthersAgree
<1>6. ExecutedWasRequested'
  BY <1>1, <1>4 DEF ExecutedWasRequested, history
<1>7. w = Idle => w.pc = "idle" /\ w.run = NoRun
  BY DEF Idle, Serving
<1>8. StrayWrites'
  <2> SUFFICES ASSUME NEW m \in inflight
               PROVE  /\ m.run \in used /\ m.gen <= gens[m.run]
                      /\ \A u \in Tasks : RunOf(u)' = m.run => At(u, "cancelling")'
                      /\ \/ m.run \in ChatRuns
                         \/ run'[m.run].status = "cancelled"
                         \/ \E u \in Tasks : RunOf(u)' = m.run
    BY DEF StrayWrites, history
  <2>1. m.run \in Runs
    BY DEF TypeInv, TypeOK, Message
  <2>2. CASE m.run # r
    BY <1>1, <1>2, <1>3, <1>7, <2>1, <2>2, RunsAssumption DEF StrayWrites, RunOf, At
  <2>3. CASE m.run = r
    <3>1. w = Idle /\ run'[r].status = "cancelled"
      BY <1>1, <2>3 DEF StrayWrites
    <3>2. \A u \in Tasks : RunOf(u)' # r
      BY <1>2, <1>3, <1>7, <3>1, RunsAssumption DEF RunOf
    <3> QED BY <1>1, <2>3, <3>1, <3>2 DEF StrayWrites
  <2> QED BY <2>2, <2>3
<1>9. Numbered'
  BY <1>1, <1>2, <1>4, <1>7 DEF Numbered, history, Live, At, RunOf
<1>10. CompletedRunIsWhole'
  <2>1. \A x \in Runs : run'[x].status = "completed" => HasAnswer(x) /\ Resolved(x)
    BY <1>1 DEF CompletedRunIsWhole, Resolved
  <2> QED BY <2>1, <1>4, SameMessages DEF CompletedRunIsWhole, Resolved, Answered
<1> QED BY <1>5, <1>6, <1>8, <1>9, <1>10 DEF LogInv

\* A task appends a message to its run's conversation.
LEMMA LogAppend ==
    ASSUME TypeInv, Ownership, LogInv, NEW t \in Tasks, InLoop(t), NEW w,
           task' = [task EXCEPT ![t] = w],
           w = Idle \/ (w.run = RunOf(t) /\ w.gen <= gens[RunOf(t)]),
           AppendTo(Written(t)),
           UNCHANGED <<run, inflight, history>>,
           LogAgrees(t)'
    PROVE  LogInv'
<1> DEFINE r == RunOf(t)
<1>1. /\ OneOwner /\ RecordsAgree
      /\ ExecutedWasRequested /\ StrayWrites /\ Numbered /\ CompletedRunIsWhole
      /\ \A u \in Tasks : LogAgrees(u)
  BY DEF Ownership, LogInv
<1>2. task'[t] = w /\ \A u \in Tasks : u # t => task'[u] = task[u]
  BY DEF TypeInv, TypeOK
<1>3. /\ Live(t) /\ ~ At(t, "cancelling") /\ r \in Runs /\ r \in used
      /\ \A u \in Tasks : u # t => RunOf(u) # r
  BY <1>1, TaskFacts DEF OneOwner, Live, InLoop, At, Loop
<1>4. Written(t) \in Message /\ Written(t).run = r /\ Written(t).gen <= gens[r]
  <2>1. Written(t) \in Message
    BY <1>3, WrittenTyped DEF Live, At
  <2>2. task[t].gen <= gens[r] /\ gens[r] \in Nat
    BY <1>1, <1>3 DEF Numbered, TypeInv, TypeOK
  <2> QED BY <2>1, <2>2 DEF Written, UserMessage, AssistantMessage, ToolMessage
<1>5. \A x \in Runs : Messages(x)' = IF x = r THEN Messages(x) \cup {Written(t)} ELSE Messages(x)
  BY <1>4, MessagesAppended
<1>6. \A u \in Tasks : LogAgrees(u)'
  BY <1>1, <1>2, <1>3, <1>5, OthersAgree
<1>7. w = Idle => w.pc = "idle" /\ w.run = NoRun
  BY DEF Idle, Serving
<1>8. ExecutedWasRequested'
  <2>1. \A e \in executed : Messages(e.run) \subseteq Messages(e.run)'
    BY <1>5 DEF TypeInv, TypeOK, Call
  <2> QED BY <1>1, <2>1 DEF ExecutedWasRequested, history
<1>9. StrayWrites'
  <2>1. \A m \in inflight : m.run # r
    BY <1>1, <1>3 DEF StrayWrites
  <2>2. \A m \in inflight : m.run \in Runs
    BY DEF TypeInv, TypeOK, Message
  <2> QED BY <1>1, <1>2, <1>3, <1>7, <2>1, <2>2, RunsAssumption DEF StrayWrites, RunOf, At, history
<1>10. Numbered'
  <2>1. \A x \in Runs : \A m \in Messages(x)' : x \in used /\ m.gen <= gens[x]
    BY <1>1, <1>3, <1>4, <1>5 DEF Numbered
  <2> QED BY <1>1, <1>2, <1>7, <2>1 DEF Numbered, history, Live, At, RunOf
<1>11. CompletedRunIsWhole'
  <2>1. run[r].status # "completed"
    BY <1>1, <1>3 DEF RecordsAgree, Expected, Active, TypeInv
  <2>2. \A x \in Runs : run[x].status = "completed" =>
           HasAnswer(x) /\ Resolved(x) /\ Messages(x)' = Messages(x)
    BY <1>1, <1>5, <2>1 DEF CompletedRunIsWhole, Resolved
  <2> QED BY <2>2, SameMessages DEF CompletedRunIsWhole, Resolved, Answered
<1> QED BY <1>6, <1>8, <1>9, <1>10, <1>11 DEF LogInv

\* A task leaves the loop without an answer.
LEMMA LogLeft ==
    ASSUME TypeInv, Ownership, LogInv, NEW t \in Tasks, InLoop(t),
           NEW p \in {"failing", "cancelling"}, Leave(t, p),
           UNCHANGED <<log, inflight, history, run>>
    PROVE  LogInv'
<1> DEFINE w == IF task[t].mode = "chat" THEN Idle ELSE Serving(p, task[t].run, task[t].mode)
<1>1. Live(t) /\ ~ At(t, "cancelling") /\ task' = [task EXCEPT ![t] = w]
  BY DEF Leave, Live, At, InLoop, Loop
<1>2. /\ w = Idle \/ (w.run = RunOf(t) /\ w.gen = 0)
      /\ w.pc \in {"idle", "failing", "cancelling"}
  <2>1. Idle.pc = "idle"
    BY DEF Serving, Idle
  <2>2. LET x == Serving(p, task[t].run, task[t].mode) IN x.run = RunOf(t) /\ x.gen = 0 /\ x.pc = p
    BY DEF Serving, RunOf
  <2> QED BY <2>1, <2>2
<1>3. task'[t] = w
  BY <1>1 DEF TypeInv, TypeOK
<1>4. LogAgrees(t)'
  BY <1>2, <1>3 DEF LogAgrees, At, InCall
<1>5. 0 <= gens[RunOf(t)]
  BY <1>1, TaskFacts DEF TypeInv, TypeOK
<1> HIDE DEF w
<1> QED BY <1>1, <1>2, <1>4, <1>5, LogQuiet

\* An empty log owes nothing.
LEMMA LogInit == Init => LogInv
  BY RunsAssumption DEF Init, LogInv, ExecutedWasRequested, StrayWrites, Numbered, LogAgrees,
     CompletedRunIsWhole, Messages, Live, At, Idle, Serving, InCall

\* What Analyze sees when it does not block.
LEMMA NothingMissing ==
    ASSUME UniqueIds, NEW r, ~ MissingResult(r)
    PROVE  Resolved(r)
  BY DEF MissingResult, Resolved, Answered, SameId

\* One case per action.
LEMMA LogStep ==
    Discipline /\ TypeInv /\ TypeInv' /\ Ownership /\ LogInv /\ [Next]_vars => LogInv'
<1> SUFFICES ASSUME Discipline, TypeInv, TypeInv', Ownership, LogInv, [Next]_vars PROVE LogInv'
  OBVIOUS
<1> USE RunsAssumption
<1>a. /\ OneOwner /\ RecordsAgree
      /\ ExecutedWasRequested /\ StrayWrites /\ Numbered /\ CompletedRunIsWhole
      /\ \A u \in Tasks : LogAgrees(u)
  BY DEF Ownership, LogInv
<1>b. \A t \in Tasks :
         /\ task[t] \in Task /\ Shaped(task[t])
         /\ Live(t) => RunOf(t) \in Runs /\ RunOf(t) \in used /\ task[t].gen <= gens[RunOf(t)]
  BY <1>a, TaskFacts DEF OneOwner, Numbered
<1>c. \A x : Messages(x)' = Messages(x) \/ log' # log
  BY DEF Messages
<1>13. ASSUME NEW t \in Tasks, RefuseCall(t) PROVE LogInv'
  <2> DEFINE w == AfterCall(t)
  <2>1. /\ Live(t) /\ ~ At(t, "cancelling") /\ task' = [task EXCEPT ![t] = w]
        /\ UNCHANGED <<log, inflight, history, run>>
    BY <1>13 DEF RefuseCall, AfterCall, Live, At
  <2>2. w.run = RunOf(t) /\ w.gen = task[t].gen
    BY <1>13, <1>b DEF RefuseCall, AfterCall, Task, RunOf
  <2>3. task'[t] = w
    BY <2>1 DEF TypeInv, TypeOK
  <2>4. LogAgrees(t)'
    <3>1. /\ w.pc = "call" \/ (w.pc = "results" /\ w.i = 0)
          /\ w.n = task[t].n
      BY <1>13, <1>b DEF RefuseCall, AfterCall, Task
    <3>2. task[t].pc \in InCall /\ LogAgrees(t)
      BY <1>13, <1>a DEF RefuseCall, At, InCall
    <3>3. RunOf(t)' = RunOf(t) /\ Messages(RunOf(t))' = Messages(RunOf(t))
      BY <1>c, <2>1, <2>2, <2>3 DEF RunOf
    <3> HIDE DEF w
    <3> QED BY <2>2, <2>3, <3>1, <3>2, <3>3, SameMessages DEF LogAgrees, At, RunOf, InCall
  <2> HIDE DEF w
  <2> QED BY <1>b, <2>1, <2>2, <2>4, LogQuiet
<1>17. ASSUME NEW t \in Tasks, Deny(t) PROVE LogInv'
  <2> DEFINE w == AfterCall(t)
  <2>1. /\ Live(t) /\ ~ At(t, "cancelling") /\ task' = [task EXCEPT ![t] = w]
        /\ UNCHANGED <<log, inflight, history, run>>
    BY <1>17 DEF Deny, AfterCall, Live, At
  <2>2. w.run = RunOf(t) /\ w.gen = task[t].gen
    BY <1>17, <1>b DEF Deny, AfterCall, Task, RunOf
  <2>3. task'[t] = w
    BY <2>1 DEF TypeInv, TypeOK
  <2>4. LogAgrees(t)'
    <3>1. /\ w.pc = "call" \/ (w.pc = "results" /\ w.i = 0)
          /\ w.n = task[t].n
      BY <1>17, <1>b DEF Deny, AfterCall, Task
    <3>2. task[t].pc \in InCall /\ LogAgrees(t)
      BY <1>17, <1>a DEF Deny, At, InCall
    <3>3. RunOf(t)' = RunOf(t) /\ Messages(RunOf(t))' = Messages(RunOf(t))
      BY <1>c, <2>1, <2>2, <2>3 DEF RunOf
    <3> HIDE DEF w
    <3> QED BY <2>2, <2>3, <3>1, <3>2, <3>3, SameMessages DEF LogAgrees, At, RunOf, InCall
  <2> HIDE DEF w
  <2> QED BY <1>b, <2>1, <2>2, <2>4, LogQuiet
<1>18. ASSUME NEW t \in Tasks, EndCall(t) PROVE LogInv'
  <2> DEFINE w == AfterCall(t)
  <2>1. /\ Live(t) /\ ~ At(t, "cancelling") /\ task' = [task EXCEPT ![t] = w]
        /\ UNCHANGED <<log, inflight, history, run>>
    BY <1>18 DEF EndCall, AfterCall, Live, At
  <2>2. w.run = RunOf(t) /\ w.gen = task[t].gen
    BY <1>18, <1>b DEF EndCall, AfterCall, Task, RunOf
  <2>3. task'[t] = w
    BY <2>1 DEF TypeInv, TypeOK
  <2>4. LogAgrees(t)'
    <3>1. /\ w.pc = "call" \/ (w.pc = "results" /\ w.i = 0)
          /\ w.n = task[t].n
      BY <1>18, <1>b DEF EndCall, AfterCall, Task
    <3>2. task[t].pc \in InCall /\ LogAgrees(t)
      BY <1>18, <1>a DEF EndCall, At, InCall
    <3>3. RunOf(t)' = RunOf(t) /\ Messages(RunOf(t))' = Messages(RunOf(t))
      BY <1>c, <2>1, <2>2, <2>3 DEF RunOf
    <3> HIDE DEF w
    <3> QED BY <2>2, <2>3, <3>1, <3>2, <3>3, SameMessages DEF LogAgrees, At, RunOf, InCall
  <2> HIDE DEF w
  <2> QED BY <1>b, <2>1, <2>2, <2>4, LogQuiet
<1>23. ASSUME NEW t \in Tasks, CancelTool(t) PROVE LogInv'
  <2> DEFINE w == [AfterCall(t) EXCEPT !.seen = TRUE]
  <2>1. /\ Live(t) /\ ~ At(t, "cancelling") /\ task' = [task EXCEPT ![t] = w]
        /\ UNCHANGED <<log, inflight, history, run>>
    BY <1>23 DEF CancelTool, AfterCall, Live, At
  <2>2. w.run = RunOf(t) /\ w.gen = task[t].gen
    BY <1>23, <1>b DEF CancelTool, AfterCall, Task, RunOf
  <2>3. task'[t] = w
    BY <2>1 DEF TypeInv, TypeOK
  <2>4. LogAgrees(t)'
    <3>1. /\ w.pc = "call" \/ (w.pc = "results" /\ w.i = 0)
          /\ w.n = task[t].n
      BY <1>23, <1>b DEF CancelTool, AfterCall, Task
    <3>2. task[t].pc \in InCall /\ LogAgrees(t)
      BY <1>23, <1>a DEF CancelTool, At, InCall
    <3>3. RunOf(t)' = RunOf(t) /\ Messages(RunOf(t))' = Messages(RunOf(t))
      BY <1>c, <2>1, <2>2, <2>3 DEF RunOf
    <3> HIDE DEF w
    <3> QED BY <2>2, <2>3, <3>1, <3>2, <3>3, SameMessages DEF LogAgrees, At, RunOf, InCall
  <2> HIDE DEF w
  <2> QED BY <1>b, <2>1, <2>2, <2>4, LogQuiet
<1>8. ASSUME NEW t \in Tasks, Acquire(t) PROVE LogInv'
  <2> DEFINE w == [task[t] EXCEPT !.pc = IF task[t].ans = "continue" THEN "generate" ELSE "input"]
  <2>1. /\ Live(t) /\ ~ At(t, "cancelling") /\ task' = [task EXCEPT ![t] = w]
        /\ UNCHANGED <<log, inflight, history, run>>
    BY <1>8 DEF Acquire, Goto, Live, At
  <2>2. w.run = RunOf(t) /\ w.gen = task[t].gen
    BY <1>8, <1>b DEF Acquire, Goto, Task, RunOf
  <2>3. task'[t] = w
    BY <2>1 DEF TypeInv, TypeOK
  <2>4. LogAgrees(t)'
    <3>1. w.pc \in {"generate", "input"}
      BY <1>b DEF Task
    <3>2. At(t, "queued") /\ LogAgrees(t)
      BY <1>8, <1>a DEF Acquire
    <3>3. RunOf(t)' = RunOf(t) /\ Messages(RunOf(t))' = Messages(RunOf(t))
      BY <1>c, <2>1, <2>2, <2>3 DEF RunOf
    <3> HIDE DEF w
    <3> QED BY <2>3, <3>1, <3>2, <3>3, SameMessages DEF LogAgrees, At, InCall
  <2> HIDE DEF w
  <2> QED BY <1>b, <2>1, <2>2, <2>4, LogQuiet
<1>2. ASSUME NEW t \in Tasks, MarkRunning(t) PROVE LogInv'
  <2> DEFINE w == [task[t] EXCEPT !.pc = "enter"]
  <2>1. /\ Live(t) /\ ~ At(t, "cancelling") /\ task' = [task EXCEPT ![t] = w]
        /\ UNCHANGED <<log, inflight, history>>
    BY <1>2 DEF MarkRunning, Goto, Live, At
  <2>2. w.run = RunOf(t) /\ w.gen = task[t].gen
    BY <1>b DEF Task, RunOf
  <2>3. task'[t] = w
    BY <2>1 DEF TypeInv, TypeOK
  <2>4. /\ \A r \in Runs : r # RunOf(t) => run'[r] = run[r]
        /\ run'[RunOf(t)].status = "completed" => run[RunOf(t)].status = "completed"
    BY <1>2, <1>b, <2>1 DEF MarkRunning, SetStatus, TypeInv, TypeOK, Record
  <2>5. LogAgrees(t)'
    <3>1. w.pc = "enter"
      BY <1>b DEF Task
    <3>2. At(t, "created") /\ LogAgrees(t)
      BY <1>2, <1>a DEF MarkRunning
    <3>3. RunOf(t)' = RunOf(t) /\ Messages(RunOf(t))' = Messages(RunOf(t))
      BY <1>c, <2>1, <2>2, <2>3 DEF RunOf
    <3> HIDE DEF w
    <3> QED BY <2>2, <2>3, <3>1, <3>2, <3>3, SameMessages DEF LogAgrees, At, InCall
  <2> HIDE DEF w
  <2> QED BY <1>b, <2>1, <2>2, <2>4, <2>5, LogQuiet
<1>6. ASSUME NEW t \in Tasks, MarkResumed(t) PROVE LogInv'
  <2> DEFINE w == [task[t] EXCEPT !.pc = IF task[t].ans = "answer" THEN "completing" ELSE "enter"]
  <2>1. /\ Live(t) /\ ~ At(t, "cancelling") /\ task' = [task EXCEPT ![t] = w]
        /\ UNCHANGED <<log, inflight, history>>
    BY <1>6 DEF MarkResumed, Goto, Live, At
  <2>2. w.run = RunOf(t) /\ w.gen = task[t].gen
    BY <1>b DEF Task, RunOf
  <2>3. task'[t] = w
    BY <2>1 DEF TypeInv, TypeOK
  <2>4. /\ \A r \in Runs : r # RunOf(t) => run'[r] = run[r]
        /\ run'[RunOf(t)].status = "completed" => run[RunOf(t)].status = "completed"
    BY <1>6, <1>b, <2>1 DEF MarkResumed, SetStatus, TypeInv, TypeOK, Record
  <2>5. LogAgrees(t)'
    <3>1. w.pc = IF task[t].ans = "answer" THEN "completing" ELSE "enter"
      BY <1>b DEF Task
    <3>2. At(t, "mark") /\ LogAgrees(t)
      BY <1>6, <1>a DEF MarkResumed
    <3>3. RunOf(t)' = RunOf(t) /\ Messages(RunOf(t))' = Messages(RunOf(t))
      BY <1>c, <2>1, <2>2, <2>3 DEF RunOf
    <3> HIDE DEF w
    <3> QED BY <2>2, <2>3, <3>1, <3>2, <3>3, SameMessages DEF LogAgrees, At, InCall
  <2> HIDE DEF w
  <2> QED BY <1>b, <2>1, <2>2, <2>4, <2>5, LogQuiet
<1>14. ASSUME NEW t \in Tasks, AskApproval(t) PROVE LogInv'
  <2> DEFINE w == [task[t] EXCEPT !.pc = "approval"]
  <2>1. /\ Live(t) /\ ~ At(t, "cancelling") /\ task' = [task EXCEPT ![t] = w]
        /\ UNCHANGED <<log, inflight, history>>
    BY <1>14 DEF AskApproval, Goto, Live, At
  <2>2. w.run = RunOf(t) /\ w.gen = task[t].gen
    BY <1>b DEF Task, RunOf
  <2>3. task'[t] = w
    BY <2>1 DEF TypeInv, TypeOK
  <2>4. /\ \A r \in Runs : r # RunOf(t) => run'[r] = run[r]
        /\ run'[RunOf(t)].status = "completed" => run[RunOf(t)].status = "completed"
    BY <1>14, <1>b, <2>1 DEF AskApproval, SetStatus, TypeInv, TypeOK, Record
  <2>5. LogAgrees(t)'
    <3>1. w.pc = "approval" /\ w.n = task[t].n
      BY <1>b DEF Task
    <3>2. At(t, "call") /\ LogAgrees(t)
      BY <1>14, <1>a DEF AskApproval
    <3>3. RunOf(t)' = RunOf(t) /\ Messages(RunOf(t))' = Messages(RunOf(t))
      BY <1>c, <2>1, <2>2, <2>3 DEF RunOf
    <3> HIDE DEF w
    <3> QED BY <2>2, <2>3, <3>1, <3>2, <3>3, SameMessages DEF LogAgrees, At, InCall
  <2> HIDE DEF w
  <2> QED BY <1>b, <2>1, <2>2, <2>4, <2>5, LogQuiet
<1>5. ASSUME NEW t \in Tasks, Analyze(t) PROVE LogInv'
  <2> DEFINE r == RunOf(t)
             a == IF HasAnswer(r) THEN "answer" ELSE IF HasInput(r) THEN "continue" ELSE "send"
             w == IF MissingResult(r) THEN Idle ELSE [task[t] EXCEPT !.pc = "mark", !.ans = a]
  <2>1. /\ Live(t) /\ ~ At(t, "cancelling") /\ task' = [task EXCEPT ![t] = w]
        /\ UNCHANGED <<log, inflight, history, run>>
    BY <1>5 DEF Analyze, Live, At
  <2>2. w = Idle \/ (/\ ~ MissingResult(r) /\ w.run = r /\ w.gen = task[t].gen
                      /\ w.pc = "mark" /\ (w.ans = "answer" => HasAnswer(r)))
    BY <1>b DEF Task, RunOf
  <2>3. task'[t] = w
    BY <2>1 DEF TypeInv, TypeOK
  <2>4. LogAgrees(t)'
    <3>1. CASE w = Idle
      <4>. HIDE DEF w
      <4>1. task'[t].pc = "idle"
        BY <2>3, <3>1 DEF Idle, Serving
      <4> QED BY <4>1 DEF LogAgrees, At, InCall
    <3>2. CASE w # Idle
      <4>1. Resolved(r)
        BY <2>2, <3>2, NothingMissing DEF Discipline
      <4>2. RunOf(t)' = r /\ Messages(r)' = Messages(r)
        BY <1>c, <2>1, <2>2, <2>3, <3>2 DEF RunOf
      <4> HIDE DEF w
      <4> QED BY <2>2, <2>3, <3>2, <4>1, <4>2, SameMessages DEF LogAgrees, At, InCall
    <3> QED BY <3>1, <3>2
  <2> HIDE DEF w
  <2> QED BY <1>b, <2>1, <2>2, <2>4, LogQuiet
<1>7. ASSUME NEW t \in Tasks, Enter(t) PROVE LogInv'
  <2> DEFINE w == task'[t]
  <2>1. /\ Live(t) /\ ~ At(t, "cancelling") /\ task' = [task EXCEPT ![t] = w]
        /\ UNCHANGED <<log, inflight, history, run>>
    BY <1>7 DEF Enter, Goto, Live, At, TypeInv, TypeOK
  <2>2. w = Idle \/ (w.run = RunOf(t) /\ w.gen = task[t].gen /\ w.pc \in {"queued", "failing"})
    BY <1>7, <1>b DEF Enter, Goto, TypeInv, TypeOK, Task, RunOf
  <2>4. LogAgrees(t)'
    <3>1. CASE w = Idle
      BY <3>1 DEF LogAgrees, At, InCall, Idle, Serving
    <3>2. CASE w # Idle
      <4>1. At(t, "enter") /\ LogAgrees(t)
        BY <1>7, <1>a DEF Enter
      <4>2. RunOf(t)' = RunOf(t) /\ Messages(RunOf(t))' = Messages(RunOf(t))
        BY <1>c, <2>1, <2>2, <3>2 DEF RunOf
      <4> QED BY <2>2, <3>2, <4>1, <4>2, SameMessages DEF LogAgrees, At, InCall
    <3> QED BY <3>1, <3>2
  <2> HIDE DEF w
  <2> QED BY <1>b, <2>1, <2>2, <2>4, LogQuiet
<1>19. ASSUME NEW t \in Tasks, FailRun(t) PROVE LogInv'
  <2>1. /\ InLoop(t) /\ Leave(t, "failing")
        /\ UNCHANGED <<log, inflight, history, run>>
    BY <1>19 DEF FailRun, At, InLoop, Loop
  <2> QED BY <2>1, LogLeft
<1>20. ASSUME NEW t \in Tasks, CancelWaiting(t) PROVE LogInv'
  <2>1. /\ InLoop(t) /\ Leave(t, "cancelling")
        /\ UNCHANGED <<log, inflight, history, run>>
    BY <1>20 DEF CancelWaiting, At, InLoop, Loop
  <2> QED BY <2>1, LogLeft
<1>22. ASSUME NEW t \in Tasks, NoticeCancel(t) PROVE LogInv'
  <2>1. /\ InLoop(t) /\ Leave(t, "cancelling")
        /\ UNCHANGED <<log, inflight, history, run>>
    BY <1>22 DEF NoticeCancel, At, InLoop, Loop
  <2> QED BY <2>1, LogLeft
<1>25. ASSUME NEW t \in Tasks, Finish(t) PROVE LogInv'
  <2>1. /\ Live(t) /\ task' = [task EXCEPT ![t] = Idle]
        /\ UNCHANGED <<log, inflight, history>>
    BY <1>25 DEF Finish, Live, At
  <2>2. run' = [run EXCEPT ![RunOf(t)].status = Outcome(t)]
    BY <1>25 DEF Finish, SetStatus
  <2>3. /\ \A r \in Runs : r # RunOf(t) => run'[r] = run[r]
        /\ run'[RunOf(t)].status = Outcome(t)
    BY <1>b, <2>1, <2>2 DEF TypeInv, TypeOK, Record
  <2>4. ~ At(t, "cancelling") \/ Outcome(t) = "cancelled"
    BY DEF Outcome, At
  <2>5. Outcome(t) = "completed" => HasAnswer(RunOf(t)) /\ Resolved(RunOf(t))
    BY <1>a DEF Outcome, LogAgrees, At
  <2>6. LogAgrees(t)'
    BY <2>1 DEF LogAgrees, At, InCall, Idle, Serving, TypeInv, TypeOK
  <2> QED BY <2>1, <2>3, <2>4, <2>5, <2>6, LogQuiet
<1>d. ASSUME NEW t \in Tasks, InLoop(t), AppendTo(Written(t)), NEW r \in Runs, r = RunOf(t)
      PROVE  Written(t).run = r /\ Messages(r)' = Messages(r) \cup {Written(t)}
  <2>1. Live(t) /\ Written(t) \in Message
    BY <1>d, WrittenTyped DEF Live, InLoop, At, Loop
  <2>2. Written(t).run = r
    BY <1>d DEF Written, UserMessage, AssistantMessage, ToolMessage
  <2> QED BY <1>d, <2>1, <2>2, MessagesAppended
<1>9. ASSUME NEW t \in Tasks, AppendInput(t) PROVE LogInv'
  <2>0. PICK r \in Runs : r = RunOf(t)
    BY <1>b, <1>9 DEF AppendInput, Live, At
  <2> DEFINE w == [task[t] EXCEPT !.pc = "generate"]
  <2>1. /\ Live(t) /\ InLoop(t) /\ At(t, "input") /\ AppendTo(Written(t))
        /\ task' = [task EXCEPT ![t] = w] /\ UNCHANGED <<run, inflight, history>>
    BY <2>0, <1>9 DEF AppendInput, Goto, Live, At, InLoop, Loop
  <2>2. w.run = r /\ w.gen <= gens[r] /\ w.pc = "generate"
    BY <2>0, <1>b, <2>1 DEF Task, RunOf
  <2>3. Messages(r)' = Messages(r) \cup {Written(t)} /\ Written(t).role = "user"
    BY <2>0, <1>d, <2>1 DEF Written, UserMessage, At
  <2>4. Resolved(r)
    BY <2>0, <1>a, <2>1 DEF LogAgrees, At
  <2>5. Resolved(r)'
    BY <2>0, <2>3, <2>4, MoreMessages DEF Resolved
  <2>6. task'[t] = w
    BY <2>0, <2>1 DEF TypeInv, TypeOK
  <2> HIDE DEF w
  <2>7. LogAgrees(t)'
    BY <2>0, <2>2, <2>5, <2>6 DEF LogAgrees, At, InCall, RunOf
  <2> QED BY <2>0, <2>1, <2>2, <2>7, LogAppend
<1>11. ASSUME NEW t \in Tasks, AppendAssistant(t) PROVE LogInv'
  <2>0. PICK r \in Runs : r = RunOf(t)
    BY <1>b, <1>11 DEF AppendAssistant, Live, At
  <2>g. PICK g : g = task[t].gen
    OBVIOUS
  <2>1. /\ Live(t) /\ InLoop(t) /\ At(t, "record") /\ AppendTo(Written(t))
        /\ UNCHANGED <<run, inflight, history>>
    BY <2>0, <2>g, <1>11 DEF AppendAssistant, Live, At, InLoop, Loop
  <2>2. /\ Messages(r)' = Messages(r) \cup {Written(t)}
        /\ Written(t).role = "assistant" /\ Written(t).gen = g /\ Written(t).n = task[t].n
    BY <2>0, <2>g, <1>d, <2>1 DEF Written, AssistantMessage, At
  <2>3. Resolved(r) /\ \A m \in Messages(r) : m.gen # g
    BY <2>0, <2>g, <1>a, <2>1 DEF LogAgrees, At
  <2>4. task[t].n \in Nat /\ task[t].i = 0 /\ r \in Runs /\ g <= gens[r] /\ 0 <= gens[r]
    <3>1. task[t].n \in Nat /\ task[t].i = 0
      BY <1>b, <2>1 DEF Task, Shaped, InCall, At
    <3>2. gens[r] \in Nat
      BY DEF TypeInv, TypeOK
    <3> QED BY <2>0, <2>g, <1>b, <2>1, <3>1, <3>2
  <2>5. ASSUME NEW p \in {"completing", "failing"}, Leave(t, p),
               p = "completing" => task[t].n = 0
        PROVE  LogInv'
    <3> DEFINE w == IF task[t].mode = "chat" THEN Idle ELSE Serving(p, task[t].run, task[t].mode)
    <3>1. task' = [task EXCEPT ![t] = w]
      BY <2>0, <2>g, <2>5 DEF Leave
    <3>2. w = Idle \/ (w.run = r /\ w.gen = 0 /\ w.pc = p)
      BY <2>0 DEF Serving, RunOf
    <3>3. task'[t] = w /\ Idle.pc = "idle"
      BY <2>0, <2>g, <3>1 DEF TypeInv, TypeOK, Idle, Serving
    <3>4. p = "completing" => HasAnswer(r)' /\ Resolved(r)'
      BY <2>0, <2>g, <2>2, <2>3, <2>5, MoreMessages DEF HasAnswer, Resolved
    <3> HIDE DEF w
    <3>5. LogAgrees(t)'
      BY <2>0, <2>g, <3>2, <3>3, <3>4 DEF LogAgrees, At, InCall, RunOf
    <3> QED BY <2>0, <2>g, <2>1, <2>4, <3>1, <3>2, <3>5, LogAppend
  <2>6. ASSUME Goto(t, "call") PROVE LogInv'
    <3> DEFINE w == [task[t] EXCEPT !.pc = "call"]
    <3>1. task' = [task EXCEPT ![t] = w]
      BY <2>0, <2>g, <2>6 DEF Goto
    <3>2. w.run = r /\ w.gen = g /\ w.pc = "call" /\ w.n = task[t].n /\ w.i = task[t].i
      BY <2>0, <2>g, <1>b DEF Task, RunOf
    <3>3. task'[t] = w
      BY <2>0, <2>g, <3>1 DEF TypeInv, TypeOK
    <3>4. ResolvedBut(r, g)'
      BY <2>0, <2>g, <2>2, <2>3, MoreMessages DEF Resolved, ResolvedBut
    <3> HIDE DEF w
    <3>5. LogAgrees(t)'
      BY <2>0, <2>g, <2>2, <2>3, <3>2, <3>3, <3>4 DEF LogAgrees, At, InCall, RunOf
    <3> QED BY <2>0, <2>g, <2>1, <2>4, <3>1, <3>2, <3>5, LogAppend
  <2> QED BY <2>0, <2>g, <1>11, <2>5, <2>6 DEF AppendAssistant
<1>15. ASSUME NEW t \in Tasks, AppendResult(t) PROVE LogInv'
  <2>0. PICK r \in Runs : r = RunOf(t)
    BY <1>b, <1>15 DEF AppendResult, Live, At
  <2>g. PICK g, i, n : g = task[t].gen /\ i = task[t].i /\ n = task[t].n
    OBVIOUS
  <2> DEFINE w == IF i + 1 >= n
                  THEN [task[t] EXCEPT !.pc = "generate", !.i = 0, !.n = 0, !.iter = task[t].iter + 1]
                  ELSE [task[t] EXCEPT !.i = i + 1]
  <2>1. /\ Live(t) /\ InLoop(t) /\ At(t, "results") /\ AppendTo(Written(t))
        /\ task' = [task EXCEPT ![t] = w] /\ UNCHANGED <<run, inflight, history>>
    BY <2>0, <2>g, <1>15 DEF AppendResult, Live, At, InLoop, Loop
  <2>2. /\ Messages(r)' = Messages(r) \cup {Written(t)}
        /\ Written(t).role = "tool" /\ Written(t).gen = g /\ Written(t).idx = i + 1
    BY <2>0, <2>g, <1>d, <2>1 DEF Written, ToolMessage, At
  <2>3. /\ ResolvedBut(r, g)
        /\ \E m \in Messages(r) : m.role = "assistant" /\ m.gen = g
        /\ \A m \in Messages(r) : m.role = "assistant" /\ m.gen = g => m.n = n
        /\ \A k \in 1..i : Answered(r, g, k)
    BY <2>0, <2>g, <1>a, <2>1 DEF LogAgrees, At, InCall
  <2>4. /\ n \in Nat /\ i \in Nat /\ r \in Runs /\ g <= gens[r]
        /\ w.run = r /\ w.gen = g
        /\ IF i + 1 >= n THEN w.pc = "generate"
           ELSE w.pc = "results" /\ w.i = i + 1 /\ w.n = n
    BY <2>0, <2>g, <1>b, <2>1 DEF Task, At, RunOf
  <2>5. task'[t] = w
    BY <2>0, <2>g, <2>1 DEF TypeInv, TypeOK
  <2> HIDE DEF w
  <2>6. Answered(r, g, i + 1)' /\ \A k \in 1..i : Answered(r, g, k)'
    BY <2>0, <2>g, <2>2, <2>3, MoreMessages DEF Answered
  <2>7. ResolvedBut(r, g)'
    BY <2>0, <2>g, <2>2, <2>3, MoreMessages DEF ResolvedBut
  <2>8. \A k \in 1..(i + 1) : Answered(r, g, k)'
    BY <2>0, <2>g, <2>4, <2>6
  <2>9. i + 1 >= n => Resolved(r)'
    BY <2>0, <2>g, <2>2, <2>3, <2>4, <2>7, <2>8 DEF Resolved, ResolvedBut
  <2>10. LogAgrees(t)'
    BY <2>0, <2>g, <2>2, <2>3, <2>4, <2>5, <2>7, <2>8, <2>9 DEF LogAgrees, At, InCall, RunOf
  <2> QED BY <2>0, <2>g, <2>1, <2>4, <2>10, LogAppend
\* LogAgrees of the tasks that do not move, when the messages do not change.
<1>e. ASSUME NEW t \in Tasks, log' = log, \A u \in Tasks : u # t => task'[u] = task[u]
      PROVE  \A u \in Tasks : u # t => LogAgrees(u)'
  <2> TAKE u \in Tasks
  <2> HAVE u # t
  <2>1. task'[u] = task[u] /\ RunOf(u)' = RunOf(u) /\ LogAgrees(u)
    BY <1>a, <1>e DEF RunOf
  <2>2. Messages(RunOf(u))' = Messages(RunOf(u))
    BY <1>c, <1>e, <2>1
  <2> QED BY <2>1, <2>2, SameMessages DEF LogAgrees, At
<1>12. ASSUME NEW t \in Tasks, BeginCall(t) PROVE LogInv'
  <2>0. PICK r \in Runs : r = RunOf(t)
    BY <1>b, <1>12 DEF BeginCall, Live, At
  <2> DEFINE w == [task[t] EXCEPT !.pc = "invoke"]
             e == [run |-> r, gen |-> task[t].gen, idx |-> task[t].i + 1]
  <2>1. /\ Live(t) /\ At(t, "call") /\ task' = [task EXCEPT ![t] = w]
        /\ executed' = executed \cup {e}
        /\ UNCHANGED <<run, log, inflight, used, gens>>
    BY <1>12, <2>0 DEF BeginCall, Invoke, Goto, Live, At
  <2>2. w.run = r /\ w.gen = task[t].gen /\ w.pc = "invoke" /\ w.n = task[t].n
    BY <1>b, <2>0 DEF Task, RunOf
  <2>3. task'[t] = w /\ \A u \in Tasks : u # t => task'[u] = task[u]
    BY <2>1 DEF TypeInv, TypeOK
  <2>4. LogAgrees(t) /\ Messages(r)' = Messages(r)
    BY <1>a, <1>c, <2>1
  <2> HIDE DEF w
  <2>5. LogAgrees(t)'
    BY <2>0, <2>1, <2>2, <2>3, <2>4, SameMessages DEF LogAgrees, At, RunOf, InCall
  <2>6. ExecutedWasRequested'
    <3>1. \E m \in Messages(r) : m.role = "assistant" /\ m.gen = task[t].gen /\ m.n = task[t].n
      BY <2>0, <2>1, <2>4 DEF LogAgrees, At, InCall
    <3>2. task[t].i + 1 \in 1..task[t].n
      BY <1>b, <2>1 DEF Task, Shaped, At, InCall
    <3>3. \A x : Messages(x)' = Messages(x)
      BY <1>c, <2>1
    <3> QED BY <1>a, <2>1, <3>1, <3>2, <3>3 DEF ExecutedWasRequested
  <2>7. StrayWrites'
    BY <1>a, <2>0, <2>1, <2>2, <2>3 DEF StrayWrites, RunOf, At
  <2>8. Numbered'
    BY <1>a, <1>c, <2>0, <2>1, <2>2, <2>3 DEF Numbered, Live, At, RunOf
  <2>9. CompletedRunIsWhole'
    BY <1>a, <1>c, <2>1, SameMessages DEF CompletedRunIsWhole
  <2> QED BY <1>e, <2>1, <2>3, <2>5, <2>6, <2>7, <2>8, <2>9 DEF LogInv
<1>16. ASSUME NEW t \in Tasks, Approve(t) PROVE LogInv'
  <2>0. PICK r \in Runs : r = RunOf(t)
    BY <1>b, <1>16 DEF Approve, Live, At
  <2> DEFINE w == [task[t] EXCEPT !.pc = "invoke"]
             e == [run |-> r, gen |-> task[t].gen, idx |-> task[t].i + 1]
  <2>1. /\ Live(t) /\ At(t, "approval") /\ task' = [task EXCEPT ![t] = w]
        /\ executed' = executed \cup {e}
        /\ UNCHANGED <<run, log, inflight, used, gens>>
    BY <1>16, <2>0 DEF Approve, Invoke, Goto, Live, At
  <2>2. w.run = r /\ w.gen = task[t].gen /\ w.pc = "invoke" /\ w.n = task[t].n
    BY <1>b, <2>0 DEF Task, RunOf
  <2>3. task'[t] = w /\ \A u \in Tasks : u # t => task'[u] = task[u]
    BY <2>1 DEF TypeInv, TypeOK
  <2>4. LogAgrees(t) /\ Messages(r)' = Messages(r)
    BY <1>a, <1>c, <2>1
  <2> HIDE DEF w
  <2>5. LogAgrees(t)'
    BY <2>0, <2>1, <2>2, <2>3, <2>4, SameMessages DEF LogAgrees, At, RunOf, InCall
  <2>6. ExecutedWasRequested'
    <3>1. \E m \in Messages(r) : m.role = "assistant" /\ m.gen = task[t].gen /\ m.n = task[t].n
      BY <2>0, <2>1, <2>4 DEF LogAgrees, At, InCall
    <3>2. task[t].i + 1 \in 1..task[t].n
      BY <1>b, <2>1 DEF Task, Shaped, At, InCall
    <3>3. \A x : Messages(x)' = Messages(x)
      BY <1>c, <2>1
    <3> QED BY <1>a, <2>1, <3>1, <3>2, <3>3 DEF ExecutedWasRequested
  <2>7. StrayWrites'
    BY <1>a, <2>0, <2>1, <2>2, <2>3 DEF StrayWrites, RunOf, At
  <2>8. Numbered'
    BY <1>a, <1>c, <2>0, <2>1, <2>2, <2>3 DEF Numbered, Live, At, RunOf
  <2>9. CompletedRunIsWhole'
    BY <1>a, <1>c, <2>1, SameMessages DEF CompletedRunIsWhole
  <2> QED BY <1>e, <2>1, <2>3, <2>5, <2>6, <2>7, <2>8, <2>9 DEF LogInv
<1>10. ASSUME NEW t \in Tasks, NEW n \in 0..MaxBatch, Generate(t, n) PROVE LogInv'
  <2>0. PICK r \in Runs : r = RunOf(t)
    BY <1>b, <1>10 DEF Generate, Live, At
  <2> DEFINE w == [task[t] EXCEPT !.pc = "record", !.gen = gens[r] + 1, !.n = n]
  <2>1. /\ Live(t) /\ At(t, "generate") /\ task' = [task EXCEPT ![t] = w]
        /\ gens' = [gens EXCEPT ![r] = @ + 1]
        /\ UNCHANGED <<run, log, inflight, used, executed>>
    BY <1>10, <2>0 DEF Generate, Live, At
  <2>2. w.run = r /\ w.gen = gens[r] + 1 /\ w.pc = "record"
    BY <1>b, <2>0 DEF Task, RunOf
  <2>3. task'[t] = w /\ \A u \in Tasks : u # t => task'[u] = task[u]
    BY <2>1 DEF TypeInv, TypeOK
  <2>4. LogAgrees(t) /\ Messages(r)' = Messages(r)
    BY <1>a, <1>c, <2>1
  <2>5. \A x \in Runs : gens[x] \in Nat /\ gens'[x] = IF x = r THEN gens[x] + 1 ELSE gens[x]
    BY <2>1 DEF TypeInv, TypeOK
  <2>6. \A m \in Messages(r) : m.gen <= gens[r] /\ m.gen \in Nat
    BY <1>a, MessagesTyped DEF Numbered, Message
  <2> HIDE DEF w
  <2>7. LogAgrees(t)'
    BY <2>0, <2>1, <2>2, <2>3, <2>4, <2>5, <2>6, SameMessages DEF LogAgrees, At, RunOf, InCall
  <2>8. ExecutedWasRequested'
    BY <1>a, <1>c, <2>1 DEF ExecutedWasRequested
  <2>9. StrayWrites'
    <3>1. \A m \in inflight : m.run \in Runs /\ m.gen \in Nat
      BY DEF TypeInv, TypeOK, Message
    <3> QED BY <1>a, <2>0, <2>1, <2>2, <2>3, <2>5, <3>1 DEF StrayWrites, RunOf, At
  <2>10. Numbered'
    <3>1. \A x \in Runs : \A m \in Messages(x)' : x \in used /\ m.gen <= gens'[x]
      <4> TAKE x \in Runs
      <4>1. Messages(x)' = Messages(x)
        BY <1>c, <2>1
      <4>2. \A m \in Messages(x) : m.gen \in Nat
        BY MessagesTyped DEF Message
      <4> QED BY <1>a, <2>5, <4>1, <4>2 DEF Numbered
    <3>2. \A u \in Tasks : Live(u)' => task'[u].gen <= gens'[RunOf(u)']
      <4> TAKE u \in Tasks
      <4> HAVE Live(u)'
      <4>1. CASE u = t
        BY <2>0, <2>2, <2>3, <2>5, <4>1 DEF RunOf
      <4>2. CASE u # t
        <5>1. Live(u) /\ task[u].gen \in Nat /\ RunOf(u)' = RunOf(u) /\ RunOf(u) \in Runs
          BY <1>b, <2>3, <4>2 DEF Live, At, Task, RunOf
        <5> QED BY <1>b, <2>3, <2>5, <4>2, <5>1
      <4> QED BY <4>1, <4>2
    <3> QED BY <2>1, <3>1, <3>2 DEF Numbered
  <2>11. CompletedRunIsWhole'
    BY <1>a, <1>c, <2>1, SameMessages DEF CompletedRunIsWhole
  <2> QED BY <1>e, <2>1, <2>3, <2>7, <2>8, <2>9, <2>10, <2>11 DEF LogInv
<1>21. ASSUME NEW t \in Tasks, CancelWriting(t) PROVE LogInv'
  <2>0. PICK r \in Runs : r = RunOf(t)
    BY <1>b, <1>21 DEF CancelWriting, Live, At
  <2> DEFINE w == IF task[t].mode = "chat" THEN Idle ELSE Serving("cancelling", r, task[t].mode)
  <2>1. /\ Live(t) /\ task' = [task EXCEPT ![t] = w]
        /\ UNCHANGED <<run, log, history>>
        /\ inflight' \subseteq inflight \cup {Written(t)}
    BY <1>21, <2>0 DEF CancelWriting, Leave, Live, At, RunOf
  <2>2. /\ w.pc = "idle" \/ (w.run = r /\ w.gen = 0 /\ w.pc = "cancelling")
        /\ w.pc = "idle" => task[t].mode = "chat" /\ w.run = NoRun
    BY DEF Serving, Idle
  <2>3. task'[t] = w /\ \A u \in Tasks : u # t => task'[u] = task[u]
    BY <2>1 DEF TypeInv, TypeOK
  <2>4. task[t].mode = "chat" => r \in ChatRuns
    BY <1>b, <2>0, <2>1 DEF Shaped, Live, At, RunOf
  <2>5. \A u \in Tasks : u # t => RunOf(u) # r
    BY <1>a, <2>0, <2>1 DEF OneOwner
  <2>6. /\ Written(t).run = r /\ Written(t).gen <= gens[r] /\ r \in used
    <3>1. gens[r] \in Nat /\ task[t].gen <= gens[r] /\ r \in used
      BY <1>b, <2>0, <2>1 DEF TypeInv, TypeOK
    <3> QED BY <2>0, <3>1 DEF Written, UserMessage, AssistantMessage, ToolMessage
  <2> HIDE DEF w
  <2>7. LogAgrees(t)'
    BY <2>2, <2>3 DEF LogAgrees, At, InCall
  <2>8. ExecutedWasRequested' /\ CompletedRunIsWhole'
    BY <1>a, <1>c, <2>1, SameMessages DEF ExecutedWasRequested, CompletedRunIsWhole, history
  <2>9. StrayWrites'
    <3> SUFFICES ASSUME NEW m \in inflight'
                 PROVE  /\ m.run \in used /\ m.gen <= gens[m.run]
                        /\ \A u \in Tasks : RunOf(u)' = m.run => At(u, "cancelling")'
                        /\ \/ m.run \in ChatRuns
                           \/ run[m.run].status = "cancelled"
                           \/ \E u \in Tasks : RunOf(u)' = m.run
      BY <2>1 DEF StrayWrites, history
    <3>1. CASE m.run = r
      <4>1. m.run \in used /\ m.gen <= gens[m.run]
        BY <1>a, <2>1, <2>6, <3>1 DEF StrayWrites
      <4>2. \A u \in Tasks : RunOf(u)' = r => At(u, "cancelling")'
        BY <2>2, <2>3, <2>5, RunsAssumption DEF RunOf, At
      <4>3. r \in ChatRuns \/ RunOf(t)' = r
        BY <2>2, <2>3, <2>4 DEF RunOf
      <4> QED BY <3>1, <4>1, <4>2, <4>3
    <3>2. CASE m.run # r
      <4>1. m \in inflight /\ m.run \in Runs
        BY <2>1, <2>6, <3>2 DEF TypeInv, TypeOK, Message
      <4> QED BY <1>a, <2>0, <2>2, <2>3, <3>2, <4>1, RunsAssumption DEF StrayWrites, RunOf, At
    <3> QED BY <3>1, <3>2
  <2>10. Numbered'
    <3>1. gens[r] \in Nat
      BY DEF TypeInv, TypeOK
    <3> QED BY <1>a, <1>c, <2>1, <2>2, <2>3, <3>1 DEF Numbered, Live, At, RunOf, history
  <2> QED BY <1>e, <2>1, <2>3, <2>7, <2>8, <2>9, <2>10 DEF LogInv
<1>1. ASSUME NEW t \in Tasks, NEW r \in Runs, StartRun(t, r) PROVE LogInv'
  <2> DEFINE w == Serving("created", r, "start")
  <2>1. /\ At(t, "idle") /\ task' = [task EXCEPT ![t] = w]
        /\ UNCHANGED <<log, inflight, gens, executed>> /\ used \subseteq used'
    BY <1>1 DEF StartRun, Take
  <2>2. w.pc = "created" /\ w.run = r /\ w.gen = 0 /\ w.ans = "none"
    BY DEF Serving
  <2>3. task'[t] = w /\ \A u \in Tasks : u # t => task'[u] = task[u]
    BY <2>1 DEF TypeInv, TypeOK
  <2>4. \A x \in Runs : x # r => run'[x] = run[x]
    BY <1>1 DEF StartRun, TypeInv, TypeOK
  <2>5. \A x : Messages(x)' = Messages(x)
    BY <1>c, <2>1
  <2> HIDE DEF w
  <2>6. Resolved(r)
    BY <1>1, <1>a DEF StartRun, Take, Numbered, Resolved
  <2>7. \A m \in inflight : m.run # r
    BY <1>1, <1>a DEF StartRun, Take, StrayWrites
  <2>8. LogAgrees(t)'
    BY <2>2, <2>3, <2>5, <2>6, SameMessages DEF LogAgrees, At, InCall, RunOf
  <2>9. ExecutedWasRequested'
    BY <1>a, <2>1, <2>5 DEF ExecutedWasRequested
  <2>10. StrayWrites'
    <3>1. \A m \in inflight : m.run \in Runs
      BY DEF TypeInv, TypeOK, Message
    <3>2. \A u \in Tasks : u # t => RunOf(u)' = RunOf(u) /\ (At(u, "cancelling")' <=> At(u, "cancelling"))
      BY <2>3 DEF RunOf, At
    <3>3. RunOf(t) = NoRun /\ RunOf(t)' = r
      BY <2>1, <2>2, <2>3, TaskFacts DEF RunOf
    <3>4. \A m \in inflight : m.run # r
      BY <2>7
    <3> QED BY <1>a, <2>1, <2>4, <3>1, <3>2, <3>3, <3>4, RunsAssumption DEF StrayWrites
  <2>11. Numbered'
    <3>1. gens[r] \in Nat
      BY DEF TypeInv, TypeOK
    <3>2. \A x \in Runs : \A m \in Messages(x)' : x \in used' /\ m.gen <= gens'[x]
      BY <1>a, <2>1, <2>5 DEF Numbered
    <3>3. \A u \in Tasks : Live(u)' => task'[u].gen <= gens'[RunOf(u)']
      BY <1>b, <2>1, <2>2, <2>3, <3>1 DEF Live, At, RunOf
    <3> QED BY <3>2, <3>3 DEF Numbered
  <2>12. CompletedRunIsWhole'
    <3>1. \A x \in Runs : run'[x].status = "completed" => run[x].status = "completed"
      BY <1>1, <2>4 DEF StartRun, TypeInv, TypeOK
    <3> QED BY <1>a, <2>5, <3>1, SameMessages DEF CompletedRunIsWhole
  <2> QED BY <1>e, <2>1, <2>3, <2>8, <2>9, <2>10, <2>11, <2>12 DEF LogInv
<1>3. ASSUME NEW t \in Tasks, NEW r \in Runs, ChatSend(t, r) PROVE LogInv'
  <2> DEFINE w == Serving("enter", r, "chat")
  <2>1. /\ At(t, "idle") /\ task' = [task EXCEPT ![t] = w]
        /\ UNCHANGED <<log, inflight, gens, executed>> /\ used \subseteq used'
    BY <1>3 DEF ChatSend, Take
  <2>2. w.pc = "enter" /\ w.run = r /\ w.gen = 0 /\ w.ans = "none"
    BY DEF Serving
  <2>3. task'[t] = w /\ \A u \in Tasks : u # t => task'[u] = task[u]
    BY <2>1 DEF TypeInv, TypeOK
  <2>4. \A x \in Runs : x # r => run'[x] = run[x]
    BY <1>3 DEF ChatSend, TypeInv, TypeOK
  <2>5. \A x : Messages(x)' = Messages(x)
    BY <1>c, <2>1
  <2> HIDE DEF w
  <2>6. Resolved(r)
    BY <1>3, <1>a DEF ChatSend, Take, Numbered, Resolved
  <2>7. \A m \in inflight : m.run # r
    BY <1>3, <1>a DEF ChatSend, Take, StrayWrites
  <2>8. LogAgrees(t)'
    BY <2>2, <2>3, <2>5, <2>6, SameMessages DEF LogAgrees, At, InCall, RunOf
  <2>9. ExecutedWasRequested'
    BY <1>a, <2>1, <2>5 DEF ExecutedWasRequested
  <2>10. StrayWrites'
    <3>1. \A m \in inflight : m.run \in Runs
      BY DEF TypeInv, TypeOK, Message
    <3>2. \A u \in Tasks : u # t => RunOf(u)' = RunOf(u) /\ (At(u, "cancelling")' <=> At(u, "cancelling"))
      BY <2>3 DEF RunOf, At
    <3>3. RunOf(t) = NoRun /\ RunOf(t)' = r
      BY <2>1, <2>2, <2>3, TaskFacts DEF RunOf
    <3>4. \A m \in inflight : m.run # r
      BY <2>7
    <3> QED BY <1>a, <2>1, <2>4, <3>1, <3>2, <3>3, <3>4, RunsAssumption DEF StrayWrites
  <2>11. Numbered'
    <3>1. gens[r] \in Nat
      BY DEF TypeInv, TypeOK
    <3>2. \A x \in Runs : \A m \in Messages(x)' : x \in used' /\ m.gen <= gens'[x]
      BY <1>a, <2>1, <2>5 DEF Numbered
    <3>3. \A u \in Tasks : Live(u)' => task'[u].gen <= gens'[RunOf(u)']
      BY <1>b, <2>1, <2>2, <2>3, <3>1 DEF Live, At, RunOf
    <3> QED BY <3>2, <3>3 DEF Numbered
  <2>12. CompletedRunIsWhole'
    <3>1. \A x \in Runs : run'[x].status = "completed" => run[x].status = "completed"
      BY <1>3, <2>4 DEF ChatSend, TypeInv, TypeOK
    <3> QED BY <1>a, <2>5, <3>1, SameMessages DEF CompletedRunIsWhole
  <2> QED BY <1>e, <2>1, <2>3, <2>8, <2>9, <2>10, <2>11, <2>12 DEF LogInv
<1>4. ASSUME NEW t \in Tasks, NEW r \in Runs, ResumeRead(t, r) PROVE LogInv'
  <2> DEFINE w == Serving("analyze", r, "resume")
  <2>1. /\ At(t, "idle") /\ task' = [task EXCEPT ![t] = w]
        /\ UNCHANGED <<log, inflight, gens, executed>> /\ used \subseteq used'
    BY <1>4 DEF ResumeRead, history
  <2>2. w.pc = "analyze" /\ w.run = r /\ w.gen = 0 /\ w.ans = "none"
    BY DEF Serving
  <2>3. task'[t] = w /\ \A u \in Tasks : u # t => task'[u] = task[u]
    BY <2>1 DEF TypeInv, TypeOK
  <2>4. \A x \in Runs : x # r => run'[x] = run[x]
    BY <1>4 DEF ResumeRead, TypeInv, TypeOK
  <2>5. \A x : Messages(x)' = Messages(x)
    BY <1>c, <2>1
  <2> HIDE DEF w
  <2>6. w.pc = "analyze"
    BY <2>2
  <2>7. \A m \in inflight : m.run # r
    BY <1>4, <1>a DEF ResumeRead, Discipline, StrayWrites, TypeInv
  <2>8. LogAgrees(t)'
    BY <2>2, <2>3, <2>5, <2>6, SameMessages DEF LogAgrees, At, InCall, RunOf
  <2>9. ExecutedWasRequested'
    BY <1>a, <2>1, <2>5 DEF ExecutedWasRequested
  <2>10. StrayWrites'
    <3>1. \A m \in inflight : m.run \in Runs
      BY DEF TypeInv, TypeOK, Message
    <3>2. \A u \in Tasks : u # t => RunOf(u)' = RunOf(u) /\ (At(u, "cancelling")' <=> At(u, "cancelling"))
      BY <2>3 DEF RunOf, At
    <3>3. RunOf(t) = NoRun /\ RunOf(t)' = r
      BY <2>1, <2>2, <2>3, TaskFacts DEF RunOf
    <3>4. \A m \in inflight : m.run # r
      BY <2>7
    <3> QED BY <1>a, <2>1, <2>4, <3>1, <3>2, <3>3, <3>4, RunsAssumption DEF StrayWrites
  <2>11. Numbered'
    <3>1. gens[r] \in Nat
      BY DEF TypeInv, TypeOK
    <3>2. \A x \in Runs : \A m \in Messages(x)' : x \in used' /\ m.gen <= gens'[x]
      BY <1>a, <2>1, <2>5 DEF Numbered
    <3>3. \A u \in Tasks : Live(u)' => task'[u].gen <= gens'[RunOf(u)']
      BY <1>b, <2>1, <2>2, <2>3, <3>1 DEF Live, At, RunOf
    <3> QED BY <3>2, <3>3 DEF Numbered
  <2>12. CompletedRunIsWhole'
    <3>1. \A x \in Runs : run'[x].status = "completed" => run[x].status = "completed"
      BY <1>4, <2>4 DEF ResumeRead, TypeInv, TypeOK
    <3> QED BY <1>a, <2>5, <3>1, SameMessages DEF CompletedRunIsWhole
  <2> QED BY <1>e, <2>1, <2>3, <2>8, <2>9, <2>10, <2>11, <2>12 DEF LogInv
<1>24. ASSUME NEW m \in inflight, Land(m) PROVE LogInv'
  <2>1. /\ m \in Message /\ m.run \in Runs /\ AppendTo(m) /\ inflight' \subseteq inflight
        /\ UNCHANGED <<run, task, history>>
    BY <1>24 DEF Land, TypeInv, TypeOK, Message
  <2>2. \A x \in Runs : Messages(x)' = IF x = m.run THEN Messages(x) \cup {m} ELSE Messages(x)
    BY <2>1, MessagesAppended
  <2>3. /\ m.run \in used /\ m.gen <= gens[m.run]
        /\ \A u \in Tasks : RunOf(u) = m.run => At(u, "cancelling")
        /\ m.run \in ChatRuns \/ run[m.run].status = "cancelled" \/ \E u \in Tasks : RunOf(u) = m.run
    BY <1>24, <1>a DEF StrayWrites
  <2>4. \A u \in Tasks : LogAgrees(u)'
    <3> TAKE u \in Tasks
    <3>1. CASE At(u, "cancelling") \/ At(u, "idle")
      BY <2>1, <3>1 DEF LogAgrees, At, InCall
    <3>2. CASE ~ (At(u, "cancelling") \/ At(u, "idle"))
      <4>1. RunOf(u) \in Runs /\ RunOf(u) # m.run /\ RunOf(u)' = RunOf(u) /\ LogAgrees(u)
        BY <1>a, <1>b, <2>1, <2>3, <3>2 DEF Live, RunOf
      <4>2. Messages(RunOf(u))' = Messages(RunOf(u))
        BY <2>2, <4>1
      <4> QED BY <2>1, <4>1, <4>2, SameMessages DEF LogAgrees, At
    <3> QED BY <3>1, <3>2
  <2>5. ExecutedWasRequested'
    <3>1. \A e \in executed : Messages(e.run) \subseteq Messages(e.run)'
      BY <2>2 DEF TypeInv, TypeOK, Call
    <3> QED BY <1>a, <2>1, <3>1 DEF ExecutedWasRequested, history
  <2>6. StrayWrites' /\ Numbered'
    BY <1>a, <2>1, <2>2, <2>3 DEF StrayWrites, Numbered, Live, At, RunOf, history
  <2>7. CompletedRunIsWhole'
    <3>1. run[m.run].status # "completed"
      <4>1. CASE m.run \in ChatRuns
        BY <4>1 DEF TypeInv
      <4>2. ASSUME m.run \notin ChatRuns, NEW u \in Tasks, RunOf(u) = m.run PROVE run[m.run].status # "completed"
        BY <1>a, <2>3, <4>2 DEF RecordsAgree, Expected, Active, Live, At
      <4> QED BY <2>3, <4>1, <4>2
    <3> QED BY <1>a, <2>1, <2>2, <3>1, SameMessages DEF CompletedRunIsWhole
  <2> QED BY <2>4, <2>5, <2>6, <2>7 DEF LogInv
<1>26. ASSUME NEW r \in Runs, Verify(r) \/ Reconcile(r) PROVE LogInv'
  <2>1. /\ UNCHANGED <<log, inflight, task, history>>
        /\ \A x \in Runs : x # r => run'[x] = run[x]
        /\ run[r].status \in Active /\ run'[r].status \in {"verifying", "interrupted"}
    BY <1>26 DEF Verify, Reconcile, Discipline, SetStatus, TypeInv, TypeOK, Record
  <2>2. \A x : Messages(x)' = Messages(x)
    BY <1>c, <2>1
  <2>3. \A u \in Tasks : LogAgrees(u)'
    <3> TAKE u \in Tasks
    <3>1. RunOf(u)' = RunOf(u) /\ Messages(RunOf(u))' = Messages(RunOf(u)) /\ LogAgrees(u)
      BY <1>a, <2>1, <2>2 DEF RunOf
    <3> QED BY <2>1, <3>1, SameMessages DEF LogAgrees, At
  <2>4. ExecutedWasRequested' /\ Numbered'
    BY <1>a, <2>1, <2>2 DEF ExecutedWasRequested, Numbered, Live, At, RunOf, history
  <2>5. StrayWrites'
    <3>1. \A m \in inflight : m.run \in Runs
      BY DEF TypeInv, TypeOK, Message
    <3>2. run[r].status # "cancelled"
      BY <2>1 DEF Active
    <3> QED BY <1>a, <2>1, <3>1, <3>2 DEF StrayWrites, RunOf, At, history
  <2>6. CompletedRunIsWhole'
    <3>1. \A x \in Runs : run'[x].status = "completed" => run[x].status = "completed"
      BY <2>1
    <3> QED BY <1>a, <2>2, <3>1, SameMessages DEF CompletedRunIsWhole
  <2> QED BY <2>3, <2>4, <2>5, <2>6 DEF LogInv
<1>27. CASE Crash
  <2>1. /\ UNCHANGED <<run, log, history>> /\ inflight' = {}
        /\ \A t \in Tasks : task'[t].pc = "idle"
    BY <1>27 DEF Crash, Idle, Serving
  <2>2. \A u \in Tasks : LogAgrees(u)'
    BY <2>1 DEF LogAgrees, At, InCall
  <2>3. ExecutedWasRequested' /\ Numbered' /\ StrayWrites'
    BY <1>a, <1>c, <2>1 DEF ExecutedWasRequested, Numbered, StrayWrites, Live, At, history
  <2>4. CompletedRunIsWhole'
    BY <1>a, <1>c, <2>1, SameMessages DEF CompletedRunIsWhole
  <2> QED BY <2>2, <2>3, <2>4 DEF LogInv
<1>28. CASE Boot \/ Ready \/ UNCHANGED vars
  <2>1. UNCHANGED <<run, log, inflight, task, history>>
    BY <1>28 DEF Boot, Ready, vars
  <2>2. \A u \in Tasks : LogAgrees(u)'
    <3> TAKE u \in Tasks
    <3>1. RunOf(u)' = RunOf(u) /\ Messages(RunOf(u))' = Messages(RunOf(u)) /\ LogAgrees(u)
      BY <1>a, <1>c, <2>1 DEF RunOf
    <3> QED BY <2>1, <3>1, SameMessages DEF LogAgrees, At
  <2>3. ExecutedWasRequested' /\ Numbered' /\ StrayWrites'
    BY <1>a, <1>c, <2>1 DEF ExecutedWasRequested, Numbered, StrayWrites, Live, At, RunOf, history
  <2>4. CompletedRunIsWhole'
    BY <1>a, <1>c, <2>1, SameMessages DEF CompletedRunIsWhole
  <2> QED BY <2>2, <2>3, <2>4 DEF LogInv
<1> QED
  BY <1>1, <1>2, <1>3, <1>4, <1>5, <1>6, <1>7, <1>8, <1>9, <1>10, <1>11, <1>12, <1>13, <1>14, <1>15,
     <1>16, <1>17, <1>18, <1>19, <1>20, <1>21, <1>22, <1>23, <1>24, <1>25, <1>26, <1>27, <1>28
     DEF Next, Progress, Environment

---------------------------------------------------------------------------
(* The theorems *)

Inv == TypeInv /\ Ownership /\ LogInv

\* The inductive invariant all of the safety follows from: one task per run, the
\* tables and records that agree with it, and a log in which only the newest
\* generation of a live run is unanswered.
THEOREM Invariance == ASSUME Discipline PROVE Spec => []Inv
<1>1. Init => Inv
  BY TypeInit, OwnershipInit, LogInit DEF Inv
<1>2. Inv /\ [Next]_vars => Inv'
  BY TypeStep, OwnershipStep, LogStep DEF Inv
<1> QED BY <1>1, <1>2, PTL DEF Spec

\* Write-ahead: a tool's effect is always preceded by the durable message that
\* asked for it (conversation.py:617-632 before 665-696).
THEOREM WriteAhead == ASSUME Discipline PROVE Spec => []ExecutedWasRequested
<1>1. Inv => ExecutedWasRequested
  BY DEF Inv, LogInv
<1> QED BY <1>1, Invariance, PTL

\* The model is never asked to go on while an effect of the run has no durable
\* result, through any number of crashes and resumes (agent_run_resume.py:44-62).
THEOREM NoBlindReplayEver == ASSUME Discipline PROVE Spec => []NoBlindReplay
<1>1. Inv => NoBlindReplay
  <2> SUFFICES ASSUME Inv, NEW t \in Tasks, At(t, "generate"),
                      NEW e \in executed, e.run = RunOf(t)
               PROVE  Answered(e.run, e.gen, e.idx)
    BY DEF NoBlindReplay
  <2>1. Resolved(e.run)
    BY DEF Inv, LogInv, LogAgrees, At
  <2>2. PICK m \in Messages(e.run) : m.role = "assistant" /\ m.gen = e.gen /\ e.idx \in 1..m.n
    BY DEF Inv, LogInv, ExecutedWasRequested
  <2> QED BY <2>1, <2>2 DEF Resolved
<1> QED BY <1>1, Invariance, PTL

\* A record that says completed has a final answer and every result behind it
\* (app.py:441-482, 551-585).
THEOREM CompletedIsWhole == ASSUME Discipline PROVE Spec => []CompletedRunIsWhole
<1>1. Inv => CompletedRunIsWhole
  BY DEF Inv, LogInv
<1> QED BY <1>1, Invariance, PTL

\* A run in the orchestrator's _runs is never recorded as ended or interrupted.
THEOREM LiveIsActive == ASSUME Discipline PROVE Spec => []LiveRunIsActive
<1>1. Inv => LiveRunIsActive
  <2> SUFFICES ASSUME Inv, NEW r \in Runs \ ChatRuns, active[r] # NoTask
               PROVE  run[r].status \in Active
    BY DEF LiveRunIsActive
  <2>1. active[r] \in Tasks
    BY DEF Inv, TypeInv, TypeOK
  <2>2. InLoop(active[r]) /\ RunOf(active[r]) = r
    BY DEF Inv, Ownership, TablesAgree
  <2> QED BY <2>1, <2>2 DEF Inv, Ownership, RecordsAgree, Expected, Live, InLoop, At, Loop
<1> QED BY <1>1, Invariance, PTL

\* The conversation lock serialises the runs of a conversation, however they end
\* (conversation.py:477-501).
THEOREM Serialized == ASSUME Discipline PROVE Spec => []SerializedPerConversation
<1>1. Inv => SerializedPerConversation
  BY DEF Inv, Ownership, TablesAgree, SerializedPerConversation
<1> QED BY <1>1, Invariance, PTL

\* No step takes a run out of completed, failed or cancelled.
THEOREM TerminalStays == ASSUME Discipline PROVE Spec => TerminalIsFinal
<1>1. Inv /\ [Next]_vars => [\A r \in Runs : run[r].status \in Terminal
                                             => run'[r].status = run[r].status]_run
  <2> SUFFICES ASSUME Inv, [Next]_vars, NEW r \in Runs, run[r].status \in Terminal
               PROVE  run'[r].status = run[r].status
    OBVIOUS
  <2> USE RunsAssumption
  <2>1. /\ run[r].status \notin Active /\ run[r].status \notin {"none", "interrupted"} /\ r \in used
        /\ r \notin ChatRuns
    BY DEF Terminal, Active, Inv, TypeInv, Ownership, RecordsAgree
  <2>2. \A t \in Tasks : Live(t) => RunOf(t) # r
    BY <2>1 DEF Inv, Ownership, RecordsAgree, Expected
  <2>3. ASSUME NEW t \in Tasks, NEW s, SetStatus(RunOf(t), s), Live(t)
        PROVE  run'[r].status = run[r].status
    BY <2>2, <2>3 DEF SetStatus, Inv, TypeInv, TypeOK
  <2>4. ASSUME NEW t \in Tasks, NEW x \in Runs, StartRun(t, x) PROVE run'[r].status = run[r].status
    BY <2>1, <2>4 DEF StartRun, Take, Inv, TypeInv, TypeOK
  <2>5. ASSUME NEW t \in Tasks, MarkRunning(t) \/ MarkResumed(t) \/ AskApproval(t) \/ Finish(t)
        PROVE  run'[r].status = run[r].status
    <3>1. CASE AskApproval(t)
      BY <2>2, <3>1 DEF AskApproval, Live, At, Inv, TypeInv, TypeOK
    <3>2. CASE MarkRunning(t) \/ MarkResumed(t) \/ Finish(t)
      BY <2>3, <3>2 DEF MarkRunning, MarkResumed, Finish, Live, At
    <3> QED BY <2>5, <3>1, <3>2
  <2>6. ASSUME NEW x \in Runs, Verify(x) \/ Reconcile(x) PROVE run'[r].status = run[r].status
    BY <2>1, <2>6 DEF Verify, Reconcile, Discipline, SetStatus, Inv, TypeInv, TypeOK
  <2>7. CASE UNCHANGED run
    BY <2>7
  <2> QED
    BY <2>4, <2>5, <2>6, <2>7 DEF Next, Progress, Environment, vars, ChatSend, ResumeRead, Analyze,
       Enter, Acquire, AppendInput, Generate, AppendAssistant, BeginCall, RefuseCall, EndCall,
       AppendResult, FailRun, NoticeCancel, Approve, Deny, CancelWaiting, CancelWriting, CancelTool,
       Land, Crash, Boot, Ready
<1> QED BY <1>1, Invariance, PTL DEF Spec, TerminalIsFinal
==============================================================================
