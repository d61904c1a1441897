--------------------------- MODULE AgentRunsContract ---------------------------
(***************************************************************************)
(* What a durable run promises outside: it implements RunContract, and the *)
(* request of a run is in its conversation before the model is asked and   *)
(* never twice.  Both rest on the invariant of AgentRunsProofs and on the  *)
(* conditions named there.                                                 *)
(***************************************************************************)
EXTENDS AgentRunsProofs

---------------------------------------------------------------------------
(* Effects and results *)

\* Nothing a run has done is unresolved once every call it asked for is answered.
LEMMA NothingUnresolved ==
    ASSUME ExecutedWasRequested, NEW r, Resolved(r)
    PROVE  Unresolved(r) = {}
<1>1. ASSUME NEW e \in executed, e.run = r PROVE Answered(r, e.gen, e.idx)
  BY <1>1 DEF ExecutedWasRequested, Resolved
<1> QED BY <1>1 DEF Unresolved

\* What is unresolved depends on the calls that ran and the results that are durable.
LEMMA SameUnresolved ==
    ASSUME NEW r, executed' = executed, Messages(r)' = Messages(r)
    PROVE  Unresolved(r)' = Unresolved(r)
  BY DEF Unresolved, Answered

\* A message that is no result settles nothing; a result settles its own call.
LEMMA UnresolvedAppended ==
    ASSUME NEW r, NEW m, executed' = executed, Messages(r)' = Messages(r) \cup {m}
    PROVE  IF m.role = "tool" THEN Unresolved(r)' = Unresolved(r) \ {<<m.gen, m.idx>>}
                              ELSE Unresolved(r)' = Unresolved(r)
<1>1. \A g, k : Answered(r, g, k)' <=>
          Answered(r, g, k) \/ (m.role = "tool" /\ m.gen = g /\ m.idx = k)
  BY DEF Answered
<1>2. CASE m.role = "tool"
  <2>1. ASSUME NEW x PROVE x \in Unresolved(r)' <=> x \in Unresolved(r) /\ x # <<m.gen, m.idx>>
    <3>1. x \in Unresolved(r)' <=>
             \E e \in executed : e.run = r /\ ~ Answered(r, e.gen, e.idx)' /\ x = <<e.gen, e.idx>>
      BY DEF Unresolved
    <3>2. x \in Unresolved(r) <=>
             \E e \in executed : e.run = r /\ ~ Answered(r, e.gen, e.idx) /\ x = <<e.gen, e.idx>>
      BY DEF Unresolved
    <3> QED BY <1>1, <1>2, <3>1, <3>2
  <2> QED BY <1>2, <2>1
<1>3. CASE m.role # "tool"
  BY <1>1, <1>3 DEF Unresolved
<1> QED BY <1>2, <1>3

---------------------------------------------------------------------------
(* Steps of the contract *)

\* How the mapped state of one run relates before and after a step.
SameRun(r) ==
    /\ Phase(run'[r].status) = Phase(run[r].status)
    /\ gens'[r] = gens[r]
    /\ Unresolved(r)' = Unresolved(r)

\* A step that shows in no run.
LEMMA ContractStutters ==
    ASSUME \A x \in AgentRunIds : SameRun(x)
    PROVE  UNCHANGED Contract!contractVars
  BY DEF SameRun, Contract!contractVars

\* A run that moves from one phase to another.
LEMMA PhaseMoves ==
    ASSUME NEW r \in AgentRunIds, \A x \in AgentRunIds \ {r} : SameRun(x),
           gens'[r] = gens[r], Unresolved(r)' = Unresolved(r),
           NEW p, NEW q, Phase(run[r].status) = p, Phase(run'[r].status) = q,
           \/ p = q
           \/ p = "new" /\ q = "active"
           \/ p = "active" /\ q \in {"interrupted", "ended"}
           \/ p = "interrupted" /\ q = "active" /\ Unresolved(r) = {}
    PROVE  [Contract!Next]_(Contract!contractVars)
<1> DEFINE ph == [x \in AgentRunIds |-> Phase(run[x].status)]
<1>1. CASE p = q
  <2>1. SameRun(r)
    BY <1>1 DEF SameRun
  <2> QED BY <2>1, ContractStutters
<1>2. CASE p # q
  <2>1. ph' = [ph EXCEPT ![r] = q] /\ ph[r] = p
    BY DEF SameRun
  <2>2. /\ [x \in AgentRunIds |-> gens[x]]' = [x \in AgentRunIds |-> gens[x]]
        /\ [x \in AgentRunIds |-> Unresolved(x)]' = [x \in AgentRunIds |-> Unresolved(x)]
    BY DEF SameRun
  <2>3. Contract!Move(r, p, q)
    BY <2>1, <2>2 DEF Contract!Move
  <2> QED
    BY <1>2, <2>3 DEF Contract!Next, Contract!Begin, Contract!Interrupt, Contract!Resume, Contract!End
<1> QED BY <1>1, <1>2

\* A run whose unresolved effects gain or lose at most one.
LEMMA EffectsMove ==
    ASSUME NEW r \in AgentRunIds, \A x \in AgentRunIds \ {r} : SameRun(x),
           gens'[r] = gens[r], Phase(run'[r].status) = Phase(run[r].status),
           NEW e, \/ Unresolved(r)' = Unresolved(r) \ {e}
                  \/ Unresolved(r)' = Unresolved(r) \cup {e} /\ Phase(run[r].status) = "active"
                  \/ Unresolved(r)' = Unresolved(r)
    PROVE  [Contract!Next]_(Contract!contractVars)
<1> DEFINE un == [x \in AgentRunIds |-> Unresolved(x)]
<1>1. CASE Unresolved(r)' = Unresolved(r)
  <2>1. SameRun(r)
    BY <1>1 DEF SameRun
  <2> QED BY <2>1, ContractStutters
<1>2. ASSUME Unresolved(r)' # Unresolved(r) PROVE Contract!Settle(r) \/ Contract!Effect(r)
  <2>1. /\ [x \in AgentRunIds |-> gens[x]]' = [x \in AgentRunIds |-> gens[x]]
        /\ [x \in AgentRunIds |-> Phase(run[x].status)]' = [x \in AgentRunIds |-> Phase(run[x].status)]
    BY DEF SameRun
  <2>2. un[r] = Unresolved(r) /\ un'[r] = Unresolved(r)'
    OBVIOUS
  <2>3. un' = [un EXCEPT ![r] = Unresolved(r)']
    BY DEF SameRun
  <2>4. CASE Unresolved(r)' = Unresolved(r) \ {e}
    <3>1. e \in un[r] /\ un' = [un EXCEPT ![r] = @ \ {e}]
      BY <1>2, <2>2, <2>3, <2>4
    <3> QED BY <2>1, <3>1 DEF Contract!Settle
  <2>5. CASE Unresolved(r)' = Unresolved(r) \cup {e} /\ Phase(run[r].status) = "active"
    <3>1. e \in un'[r] \ un[r] /\ un' = [un EXCEPT ![r] = @ \cup {e}]
      BY <1>2, <2>2, <2>3, <2>5
    <3> QED BY <2>1, <2>5, <3>1 DEF Contract!Effect
  <2> QED BY <1>2, <2>4, <2>5
<1> QED BY <1>1, <1>2 DEF Contract!Next

\* A step that leaves the records, the log and the effects alone.
LEMMA QuietStep ==
    ASSUME TypeInv, UNCHANGED <<log, gens, executed>>,
           \A x \in AgentRunIds : Phase(run'[x].status) = Phase(run[x].status)
    PROVE  [Contract!Next]_(Contract!contractVars)
<1>1. \A x \in AgentRunIds : Messages(x)' = Messages(x)
  BY DEF Messages
<1>2. \A x \in AgentRunIds : SameRun(x)
  BY <1>1, SameUnresolved DEF SameRun
<1> QED BY <1>2, ContractStutters

\* A task writes the record of its run: the run takes one step of its life.
LEMMA RecordStep ==
    ASSUME TypeInv, NEW r \in AgentRunIds, UNCHANGED <<log, gens, executed>>,
           \A x \in AgentRunIds \ {r} : run'[x] = run[x],
           NEW p, NEW q, Phase(run[r].status) = p, Phase(run'[r].status) = q,
           \/ p = q
           \/ p = "new" /\ q = "active"
           \/ p = "active" /\ q \in {"interrupted", "ended"}
           \/ p = "interrupted" /\ q = "active" /\ Unresolved(r) = {}
    PROVE  [Contract!Next]_(Contract!contractVars)
<1>1. \A x \in AgentRunIds : Messages(x)' = Messages(x)
  BY DEF Messages
<1>2. \A x \in AgentRunIds : Unresolved(x)' = Unresolved(x) /\ gens'[x] = gens[x]
  BY <1>1, SameUnresolved
<1>3. \A x \in AgentRunIds \ {r} : SameRun(x)
  BY <1>2 DEF SameRun
<1> QED BY <1>2, <1>3, PhaseMoves

\* A message becomes durable: it settles the effect it is the result of.
LEMMA MessageStep ==
    ASSUME TypeInv, NEW m \in Message, AppendTo(m), UNCHANGED <<run, gens, executed>>
    PROVE  [Contract!Next]_(Contract!contractVars)
<1> DEFINE r == m.run
<1>1. \A x \in Runs : Messages(x)' = IF x = r THEN Messages(x) \cup {m} ELSE Messages(x)
  BY MessagesAppended
<1>2. \A x \in AgentRunIds \ {r} : SameRun(x)
  BY <1>1, SameUnresolved DEF SameRun, AgentRunIds
<1>3. CASE r \in AgentRunIds
  <2>1. Messages(r)' = Messages(r) \cup {m}
    BY <1>1, <1>3 DEF AgentRunIds
  <2>2. Unresolved(r)' = Unresolved(r) \ {<<m.gen, m.idx>>} \/ Unresolved(r)' = Unresolved(r)
    BY <2>1, UnresolvedAppended
  <2> QED BY <1>2, <1>3, <2>2, EffectsMove
<1>4. CASE r \notin AgentRunIds
  BY <1>2, <1>4, ContractStutters
<1> QED BY <1>3, <1>4

\* A call begins: its effect may be unresolved from here on.
LEMMA InvokeStep ==
    ASSUME TypeInv, Ownership, NEW t \in Tasks, task[t].pc \in {"call", "approval"}, Invoke(t),
           UNCHANGED <<run, log, gens>>
    PROVE  [Contract!Next]_(Contract!contractVars)
<1>0. PICK r, e : r = RunOf(t) /\ e = [run |-> r, gen |-> task[t].gen, idx |-> task[t].i + 1]
  OBVIOUS
<1>1. \A x : Messages(x)' = Messages(x)
  BY DEF Messages
<1>2. executed' = executed \cup {e} /\ e.run = r
  BY <1>0 DEF Invoke
<1>3. ASSUME NEW x, x # r PROVE Unresolved(x)' = Unresolved(x)
  <2>1. {y \in executed' : y.run = x} = {y \in executed : y.run = x}
    BY <1>2, <1>3
  <2> QED BY <1>1, <2>1 DEF Unresolved, Answered
<1>4. \A x \in AgentRunIds \ {r} : SameRun(x)
  BY <1>3 DEF SameRun
<1>5. CASE r \in AgentRunIds
  <2>1. Phase(run[r].status) = "active"
    <3>1. run[r].status \in Active
      BY <1>0, <1>5 DEF Ownership, RecordsAgree, Expected, Live, At, AgentRunIds
    <3> QED BY <3>1 DEF Phase, Active, Terminal
  <2>d. PICK d : d = <<e.gen, e.idx>>
    OBVIOUS
  <2>2. Unresolved(r)' = Unresolved(r) \cup {d} \/ Unresolved(r)' = Unresolved(r)
    <3>1. \A g, k : Answered(r, g, k)' <=> Answered(r, g, k)
      BY <1>1 DEF Answered
    <3>2. CASE Answered(r, e.gen, e.idx)
      <4>1. \A y : y \in Unresolved(r)' <=> y \in Unresolved(r)
        BY <1>2, <3>1, <3>2 DEF Unresolved
      <4> QED BY <4>1
    <3>3. CASE ~ Answered(r, e.gen, e.idx)
      <4>1. \A y : y \in Unresolved(r)' <=> y \in Unresolved(r) \/ y = d
        BY <1>2, <2>d, <3>1, <3>3 DEF Unresolved
      <4> QED BY <4>1
    <3> QED BY <3>2, <3>3
  <2>3. gens'[r] = gens[r] /\ Phase(run'[r].status) = Phase(run[r].status)
    OBVIOUS
  <2> QED BY <1>4, <1>5, <2>1, <2>2, <2>3, EffectsMove
<1>6. CASE r \notin AgentRunIds
  BY <1>4, <1>6, ContractStutters
<1> QED BY <1>5, <1>6

\* The model is asked: never with an effect of the run unresolved.
LEMMA AskStep ==
    ASSUME TypeInv, Ownership, LogInv, NEW t \in Tasks, NEW n \in 0..MaxBatch, Generate(t, n)
    PROVE  [Contract!Next]_(Contract!contractVars)
<1>0. PICK r : r = RunOf(t)
  OBVIOUS
<1>1. At(t, "generate") /\ UNCHANGED <<run, log, executed>> /\ gens' = [gens EXCEPT ![r] = @ + 1]
  BY <1>0 DEF Generate
<1>2. \A x : Messages(x)' = Messages(x)
  BY <1>1 DEF Messages
<1>3. \A x : Unresolved(x)' = Unresolved(x)
  BY <1>1, <1>2, SameUnresolved
<1>4. r \in Runs
  BY <1>0, <1>1, TaskFacts DEF Live, At
<1>5. \A x \in Runs : gens'[x] = IF x = r THEN gens[x] + 1 ELSE gens[x]
  BY <1>1, <1>4 DEF TypeInv, TypeOK
<1>6. CASE r \in AgentRunIds
  <2>1. Phase(run[r].status) = "active"
    <3>1. run[r].status \in Active
      BY <1>0, <1>1, <1>6 DEF Ownership, RecordsAgree, Expected, Live, At, AgentRunIds
    <3> QED BY <3>1 DEF Phase, Active, Terminal
  <2>2. Unresolved(r) = {}
    <3>1. Resolved(r)
      BY <1>0, <1>1 DEF LogInv, LogAgrees, At
    <3> QED BY <3>1, NothingUnresolved DEF LogInv
  <2> DEFINE ro == [x \in AgentRunIds |-> gens[x]]
  <2>3. ro' = [ro EXCEPT ![r] = @ + 1]
    BY <1>4, <1>5, <1>6 DEF AgentRunIds
  <2>4. /\ [x \in AgentRunIds |-> Unresolved(x)]' = [x \in AgentRunIds |-> Unresolved(x)]
        /\ [x \in AgentRunIds |-> Phase(run[x].status)]' = [x \in AgentRunIds |-> Phase(run[x].status)]
    BY <1>1, <1>3
  <2>5. Contract!Ask(r)
    BY <1>6, <2>1, <2>2, <2>3, <2>4 DEF Contract!Ask
  <2> QED BY <1>6, <2>5 DEF Contract!Next
<1>7. CASE r \notin AgentRunIds
  <2>1. \A x \in AgentRunIds : SameRun(x)
    BY <1>1, <1>3, <1>5, <1>7 DEF SameRun, AgentRunIds
  <2> QED BY <2>1, ContractStutters
<1> QED BY <1>6, <1>7

\* One case per action of the durable runs.
LEMMA ContractStep ==
    Discipline /\ Inv /\ [Next]_vars => [Contract!Next]_(Contract!contractVars)
<1> SUFFICES ASSUME Discipline, Inv, [Next]_vars PROVE [Contract!Next]_(Contract!contractVars)
  OBVIOUS
<1> USE RunsAssumption
<1>a. TypeInv /\ Ownership /\ LogInv
  BY DEF Inv
<1>b. \A t \in Tasks :
         /\ Live(t) => RunOf(t) \in Runs
         /\ task[t].pc \in HasRecord => RunOf(t) \in AgentRunIds
         /\ Live(t) /\ RunOf(t) \in AgentRunIds => run[RunOf(t)].status \in Expected(task[t].pc)
  BY <1>a, TaskFacts DEF Ownership, RecordsAgree, AgentRunIds, Shaped, RunOf, HasRecord, Live, At
<1>c. /\ \A s \in Active : Phase(s) = "active"
      /\ Phase("none") = "new" /\ Phase("interrupted") = "interrupted"
  BY DEF Phase, Active, Terminal
<1>d. ASSUME NEW r \in Runs, NEW s, SetStatus(r, s)
      PROVE  run'[r].status = s /\ \A x \in AgentRunIds \ {r} : run'[x] = run[x]
  BY <1>a, <1>d DEF SetStatus, TypeInv, TypeOK, Record, AgentRunIds
<1>1. ASSUME NEW t \in Tasks, NEW r \in Runs, StartRun(t, r)
      PROVE  [Contract!Next]_(Contract!contractVars)
  <2>1. /\ r \in AgentRunIds /\ UNCHANGED <<log, gens, executed>>
        /\ \A x \in AgentRunIds \ {r} : run'[x] = run[x]
        /\ run'[r].status = "created"
    BY <1>1, <1>a DEF StartRun, AgentRunIds, TypeInv, TypeOK
  <2>2. run[r].status = "none"
    BY <1>1, <1>a DEF StartRun, Take, Ownership, RecordsAgree
  <2>3. Phase(run[r].status) = "new" /\ Phase(run'[r].status) = "active"
    BY <2>1, <2>2, <1>c DEF Active
  <2> QED BY <1>a, <2>1, <2>3, RecordStep
<1>2. ASSUME NEW t \in Tasks, MarkRunning(t) PROVE [Contract!Next]_(Contract!contractVars)
  <2>0. PICK r \in AgentRunIds : r = RunOf(t)
    BY <1>2, <1>b DEF MarkRunning, At, HasRecord
  <2>1. UNCHANGED <<log, gens, executed>> /\ SetStatus(r, "running")
    BY <1>2, <2>0 DEF MarkRunning, history
  <2>2. run[r].status \in Active
    BY <1>2, <1>b, <2>0 DEF MarkRunning, At, Expected, Live
  <2>3. Phase(run[r].status) = "active" /\ Phase(run'[r].status) = "active"
    BY <1>c, <1>d, <2>1, <2>2 DEF Active, AgentRunIds
  <2> QED BY <1>a, <1>d, <2>1, <2>3, RecordStep DEF AgentRunIds
<1>3. ASSUME NEW t \in Tasks, MarkResumed(t) PROVE [Contract!Next]_(Contract!contractVars)
  <2>0. PICK r \in AgentRunIds : r = RunOf(t)
    BY <1>3, <1>b DEF MarkResumed, At, HasRecord
  <2>1. UNCHANGED <<log, gens, executed>> /\ SetStatus(r, "running")
    BY <1>3, <2>0 DEF MarkResumed, history
  <2>2. run[r].status = "interrupted"
    BY <1>3, <1>b, <2>0 DEF MarkResumed, At, Expected, Live
  <2>3. Phase(run[r].status) = "interrupted" /\ Phase(run'[r].status) = "active"
    BY <1>c, <1>d, <2>1, <2>2 DEF Active, AgentRunIds
  <2>4. Resolved(r)
    BY <1>3, <1>a, <2>0 DEF MarkResumed, LogInv, LogAgrees, At
  <2>5. Unresolved(r) = {}
    BY <1>a, <2>4, NothingUnresolved DEF LogInv
  <2> QED BY <1>a, <1>d, <2>1, <2>3, <2>5, RecordStep DEF AgentRunIds
<1>4. ASSUME NEW t \in Tasks, AskApproval(t) PROVE [Contract!Next]_(Contract!contractVars)
  <2>0. PICK r \in Runs : r = RunOf(t)
    BY <1>4, <1>b DEF AskApproval, At, Live
  <2>1. /\ UNCHANGED <<log, gens, executed>>
        /\ \A x \in AgentRunIds \ {r} : run'[x] = run[x]
        /\ run'[r].status = IF run[r].status = "none" THEN "none" ELSE "waiting_approval"
    BY <1>4, <1>a, <2>0 DEF AskApproval, history, TypeInv, TypeOK, Record, AgentRunIds
  <2>2. CASE r \in AgentRunIds
    <3>1. run[r].status \in Active
      BY <1>4, <1>b, <2>0, <2>2 DEF AskApproval, At, Expected, Live
    <3>2. Phase(run[r].status) = "active" /\ Phase(run'[r].status) = "active"
      BY <1>c, <2>1, <3>1 DEF Active
    <3> QED BY <1>a, <2>1, <2>2, <3>2, RecordStep
  <2>3. CASE r \notin AgentRunIds
    BY <1>a, <2>1, <2>3, QuietStep
  <2> QED BY <2>2, <2>3
<1>5. ASSUME NEW t \in Tasks, Finish(t) PROVE [Contract!Next]_(Contract!contractVars)
  <2>0. PICK r \in AgentRunIds : r = RunOf(t)
    BY <1>5, <1>b DEF Finish, HasRecord
  <2>1. UNCHANGED <<log, gens, executed>> /\ SetStatus(r, Outcome(t))
    BY <1>5, <2>0 DEF Finish, history
  <2>2. run[r].status \in Active
    BY <1>5, <1>b, <2>0 DEF Finish, At, Expected, Live
  <2>3. Outcome(t) \in Terminal \cup {"interrupted"}
    BY DEF Outcome, Terminal
  <2>4. Phase(Outcome(t)) \in {"ended", "interrupted"}
    BY <2>3 DEF Phase, Terminal
  <2>5. Phase(run[r].status) = "active" /\ Phase(run'[r].status) \in {"ended", "interrupted"}
    BY <1>c, <1>d, <2>1, <2>2, <2>4 DEF AgentRunIds
  <2> QED BY <1>a, <1>d, <2>1, <2>5, RecordStep DEF AgentRunIds
<1>6. ASSUME NEW r \in Runs, Verify(r) \/ Reconcile(r) PROVE [Contract!Next]_(Contract!contractVars)
  <2>1. /\ UNCHANGED <<log, gens, executed>>
        /\ run[r].status \in Active
        /\ SetStatus(r, "verifying") \/ SetStatus(r, "interrupted")
    BY <1>6 DEF Verify, Reconcile, Discipline, history
  <2>2. r \in AgentRunIds
    BY <1>a, <2>1 DEF TypeInv, AgentRunIds, Active
  <2>3. /\ Phase(run[r].status) = "active" /\ Phase(run'[r].status) \in {"active", "interrupted"}
        /\ \A x \in AgentRunIds \ {r} : run'[x] = run[x]
    BY <1>c, <1>d, <2>1 DEF Active
  <2> QED BY <1>a, <2>1, <2>2, <2>3, RecordStep
<1>7. ASSUME NEW t \in Tasks, NEW n \in 0..MaxBatch, Generate(t, n)
      PROVE  [Contract!Next]_(Contract!contractVars)
  BY <1>7, <1>a, AskStep
<1>8. ASSUME NEW t \in Tasks, BeginCall(t) \/ Approve(t) PROVE [Contract!Next]_(Contract!contractVars)
  <2>1. task[t].pc \in {"call", "approval"} /\ Invoke(t) /\ UNCHANGED <<run, log, gens>>
    BY <1>8 DEF BeginCall, Approve, At
  <2> QED BY <1>a, <2>1, InvokeStep
<1>9. ASSUME NEW t \in Tasks, AppendInput(t) \/ AppendAssistant(t) \/ AppendResult(t)
      PROVE  [Contract!Next]_(Contract!contractVars)
  <2>1. /\ task[t].pc # "idle" /\ AppendTo(Written(t)) /\ UNCHANGED <<run, gens, executed>>
    BY <1>9 DEF AppendInput, AppendAssistant, AppendResult, At, history
  <2>2. Written(t) \in Message
    BY <1>a, <2>1, WrittenTyped
  <2> QED BY <1>a, <2>1, <2>2, MessageStep
<1>10. ASSUME NEW m \in inflight, Land(m) PROVE [Contract!Next]_(Contract!contractVars)
  <2>1. m \in Message /\ AppendTo(m) /\ UNCHANGED <<run, gens, executed>>
    BY <1>10, <1>a DEF Land, history, TypeInv, TypeOK
  <2> QED BY <1>a, <2>1, MessageStep
<1>11. ASSUME UNCHANGED <<run, log, gens, executed>> PROVE [Contract!Next]_(Contract!contractVars)
  BY <1>11, <1>a, QuietStep
<1>12. ASSUME NEW t \in Tasks,
              \/ \E r \in Runs : ChatSend(t, r) \/ ResumeRead(t, r)
              \/ Analyze(t) \/ Enter(t) \/ Acquire(t) \/ RefuseCall(t) \/ EndCall(t) \/ Deny(t)
              \/ FailRun(t) \/ NoticeCancel(t)
              \/ CancelWaiting(t) \/ CancelWriting(t) \/ CancelTool(t)
       PROVE  UNCHANGED <<run, log, gens, executed>>
  BY <1>12 DEF ChatSend, ResumeRead, Analyze, Enter, Acquire, RefuseCall, EndCall, Deny, FailRun,
     NoticeCancel, CancelWaiting, CancelWriting, CancelTool, history
<1>13. ASSUME Crash \/ Boot \/ Ready \/ UNCHANGED vars PROVE UNCHANGED <<run, log, gens, executed>>
  BY <1>13 DEF Crash, Boot, Ready, vars, history
<1> QED
  BY <1>1, <1>2, <1>3, <1>4, <1>5, <1>6, <1>7, <1>8, <1>9, <1>10, <1>11, <1>12, <1>13
     DEF Next, Progress, Environment

\* The durable runs implement RunContract: a run is begun once, is only asked to
\* go on or taken up again with no effect unresolved, and ends for good
\* (app.py:424-585, conversation.py:556-716, agent_run_resume.py:23-62).
THEOREM ContractImplemented == ASSUME Discipline PROVE Spec => ImplementsContract
<1>1. Init => Contract!Init
  <2> SUFFICES ASSUME Init PROVE Contract!Init
    OBVIOUS
  <2>1. \A r \in AgentRunIds : Unresolved(r) = {} /\ gens[r] = 0 /\ run[r].status = "none"
    BY DEF Init, Unresolved, AgentRunIds
  <2>2. Phase("none") = "new"
    BY DEF Phase, Terminal
  <2> QED BY <2>1, <2>2 DEF Contract!Init
<1>2. Inv /\ [Next]_vars => [Contract!Next]_(Contract!contractVars)
  BY ContractStep
<1> QED
  BY <1>1, <1>2, Invariance, PTL DEF Spec, ImplementsContract, Contract!Spec

---------------------------------------------------------------------------
(* The request in the log: the inductive invariant behind InputExactlyOnce *)

NoInput(r) == \A m \in Messages(r) : m.role # "user"

\* The log holds the text r was asked, in a message of r or of an equal request.
HasRequest(r) ==
    \E k \in DOMAIN log[Conv[r]] :
        log[Conv[r]][k].role = "user" /\ Request[log[Conv[r]][k].run] = Request[r]

\* Where a task has still to append the request, and where it rests on it.
Owes(w) ==
    \/ w.pc \in {"created", "input"}
    \/ w.pc \in {"enter", "queued"} /\ w.ans # "continue"
    \/ w.pc = "mark" /\ w.ans \in {"none", "send"}

Relies(w) ==
    \/ w.pc \in {"generate", "record"} \cup InCall
    \/ w.pc \in {"created", "mark", "enter", "queued"} /\ w.ans = "continue"

InputAgrees(t) ==
    /\ Owes(task[t]) => NoInput(RunOf(t))
    /\ Relies(task[t]) => HasRequest(RunOf(t))

InputOnce ==
    \A c \in Conversations : \A j, k \in DOMAIN log[c] :
        log[c][j].role = "user" /\ log[c][k].role = "user" /\ log[c][j].run = log[c][k].run
            => j = k

InputInv ==
    /\ \A t \in Tasks : InputAgrees(t)
    /\ InputOnce
    /\ \A m \in inflight : m.role = "user" => m = UserMessage(m.run) /\ NoInput(m.run)

\* What one more message changes of the request in the log.
LEMMA InputAppended ==
    ASSUME TypeInv, NEW m \in Message, AppendTo(m)
    PROVE  /\ \A r \in Runs : HasRequest(r) => HasRequest(r)'
           /\ \A r \in Runs : r # m.run \/ m.role # "user" => (NoInput(r) => NoInput(r)')
           /\ m.role = "user" => HasRequest(m.run)'
           /\ InputOnce /\ (m.role = "user" => NoInput(m.run)) => InputOnce'
<1> USE RunsAssumption
<1>1. PICK c, s : c = Conv[m.run] /\ s = log[c]
  OBVIOUS
<1>2. /\ c \in Conversations /\ m.run \in Runs /\ \A r \in Runs : Conv[r] \in Conversations
      /\ s \in Seq(Message)
  BY <1>1 DEF Message, TypeInv, TypeOK
<1>3. \A d \in Conversations : log'[d] = IF d = c THEN Append(s, m) ELSE log[d]
  BY <1>1, <1>2 DEF AppendTo, TypeInv, TypeOK
<1>4. PICK a : a = Append(s, m)
  OBVIOUS
<1>5. /\ Len(s) \in Nat /\ DOMAIN s = 1..Len(s) /\ DOMAIN a = 1..(Len(s) + 1)
      /\ \A k \in 1..Len(s) : a[k] = s[k]
      /\ a[Len(s) + 1] = m
  BY <1>2, <1>4
<1>6. /\ DOMAIN s \subseteq DOMAIN a /\ Len(s) + 1 \in DOMAIN a
      /\ \A k \in DOMAIN a : k \in DOMAIN s \/ k = Len(s) + 1
      /\ \A k \in DOMAIN s : a[k] = s[k]
  BY <1>5
<1>7. \A r \in Runs : Messages(r)' = IF r = m.run THEN Messages(r) \cup {m} ELSE Messages(r)
  BY MessagesAppended
<1>8. ASSUME NEW r \in Runs, HasRequest(r) PROVE HasRequest(r)'
  <2>1. PICK k \in DOMAIN log[Conv[r]] :
           log[Conv[r]][k].role = "user" /\ Request[log[Conv[r]][k].run] = Request[r]
    BY <1>8 DEF HasRequest
  <2>2. k \in DOMAIN log'[Conv[r]] /\ log'[Conv[r]][k] = log[Conv[r]][k]
    BY <1>1, <1>2, <1>3, <1>4, <1>6, <2>1
  <2> QED BY <2>1, <2>2 DEF HasRequest
<1>9. ASSUME NEW r \in Runs, r # m.run \/ m.role # "user", NoInput(r) PROVE NoInput(r)'
  BY <1>7, <1>9 DEF NoInput
<1>10. m.role = "user" => HasRequest(m.run)'
  <2>1. log'[Conv[m.run]] = a
    BY <1>1, <1>2, <1>3, <1>4
  <2>2. Len(s) + 1 \in DOMAIN log'[Conv[m.run]] /\ log'[Conv[m.run]][Len(s) + 1] = m
    BY <1>6, <1>5, <2>1
  <2> QED BY <2>2 DEF HasRequest
<1>11. ASSUME InputOnce, m.role = "user" => NoInput(m.run) PROVE InputOnce'
  <2> SUFFICES ASSUME NEW d \in Conversations, NEW j \in DOMAIN log'[d], NEW k \in DOMAIN log'[d],
                      log'[d][j].role = "user", log'[d][k].role = "user",
                      log'[d][j].run = log'[d][k].run
               PROVE  j = k
    BY DEF InputOnce
  <2>1. CASE d # c
    BY <1>3, <1>11, <2>1 DEF InputOnce
  <2>2. CASE d = c
    <3>1. log'[d] = a
      BY <1>3, <1>4, <2>2
    <3>2. ASSUME NEW i \in DOMAIN s, s[i].role = "user", m.role = "user" PROVE s[i].run # m.run
      <4>1. s[i].run = m.run => s[i] \in Messages(m.run)
        BY <1>1, <3>2 DEF Messages
      <4> QED BY <1>11, <3>2, <4>1 DEF NoInput
    <3>3. CASE j \in DOMAIN s /\ k \in DOMAIN s
      BY <1>1, <1>2, <1>6, <1>11, <3>1, <3>3 DEF InputOnce
    <3>4. CASE ~ (j \in DOMAIN s /\ k \in DOMAIN s)
      BY <1>5, <1>6, <3>1, <3>2, <3>4
    <3> QED BY <3>3, <3>4
  <2> QED BY <2>1, <2>2
<1> QED BY <1>8, <1>9, <1>10, <1>11

\* A task moves or ends and leaves the log as it is.
LEMMA InputMoves ==
    ASSUME TypeInv, InputInv, NEW t \in Tasks, NEW w,
           task' = [task EXCEPT ![t] = w], log' = log, inflight' \subseteq inflight,
           NEW r, r = w.run \/ (~ Owes(w) /\ ~ Relies(w)),
           Owes(w) => NoInput(r), Relies(w) => HasRequest(r)
    PROVE  InputInv'
<1>1. task'[t] = w /\ \A u \in Tasks : u # t => task'[u] = task[u]
  BY DEF TypeInv, TypeOK
<1>2. \A x : Messages(x)' = Messages(x)
  BY DEF Messages
<1>3. \A x : (NoInput(x)' <=> NoInput(x)) /\ (HasRequest(x)' <=> HasRequest(x))
  BY <1>2 DEF NoInput, HasRequest
<1>4. \A u \in Tasks : InputAgrees(u)'
  BY <1>1, <1>3 DEF InputInv, InputAgrees, RunOf
<1> QED BY <1>3, <1>4 DEF InputInv, InputOnce

\* A task appends a message to its run's conversation.
LEMMA InputWritten ==
    ASSUME TypeInv, Ownership, LogInv, InputInv, NEW t \in Tasks, InLoop(t), NEW w,
           task' = [task EXCEPT ![t] = w], AppendTo(Written(t)), inflight' = inflight,
           NEW r, r = RunOf(t), r = w.run \/ (~ Owes(w) /\ ~ Relies(w)),
           Written(t).role = "user" => NoInput(r),
           ~ Owes(w), Relies(w) => HasRequest(r) \/ Written(t).role = "user"
    PROVE  InputInv'
<1>1. task'[t] = w /\ \A u \in Tasks : u # t => task'[u] = task[u]
  BY DEF TypeInv, TypeOK
<1>2. Live(t) /\ r \in Runs /\ \A u \in Tasks : u # t => RunOf(u) # r
  BY TaskFacts DEF Ownership, OneOwner, Live, InLoop, At, Loop
<1>3. PICK m \in Message : m = Written(t) /\ m.run = r
  <2>1. Written(t) \in Message
    BY <1>2, WrittenTyped DEF Live, At
  <2> QED BY <2>1 DEF Written, UserMessage, AssistantMessage, ToolMessage
<1>4. /\ \A x \in Runs : HasRequest(x) => HasRequest(x)'
      /\ \A x \in Runs : x # r \/ m.role # "user" => (NoInput(x) => NoInput(x)')
      /\ m.role = "user" => HasRequest(r)'
      /\ InputOnce'
  BY <1>3, InputAppended DEF InputInv
<1>5. InputAgrees(t)'
  BY <1>1, <1>2, <1>3, <1>4 DEF InputAgrees, RunOf
<1>6. ASSUME NEW u \in Tasks, u # t PROVE InputAgrees(u)'
  <2>1. task'[u] = task[u] /\ RunOf(u)' = RunOf(u) /\ InputAgrees(u)
    BY <1>1, <1>6 DEF RunOf, InputInv
  <2>2. CASE At(u, "idle")
    BY <2>1, <2>2 DEF InputAgrees, Owes, Relies, At, InCall
  <2>3. CASE Live(u)
    <3>1. RunOf(u) \in Runs /\ RunOf(u) # r
      BY <1>2, <1>6, <2>3, TaskFacts
    <3> QED BY <1>4, <2>1, <3>1 DEF InputAgrees
  <2> QED BY <2>2, <2>3 DEF Live
<1>7. ASSUME NEW x \in inflight', x.role = "user" PROVE NoInput(x.run)'
  <2>1. x.run \in Runs /\ NoInput(x.run)
    BY <1>7 DEF InputInv, TypeInv, TypeOK, Message
  <2>2. x.run # r
    BY <1>7 DEF LogInv, StrayWrites, InLoop, At, Loop
  <2> QED BY <1>4, <2>1, <2>2
<1> QED BY <1>4, <1>5, <1>6, <1>7 DEF InputInv

\* Nothing is asked of anyone before the first request.
LEMMA InputInit == Init => InputInv
<1> SUFFICES ASSUME Init PROVE InputInv
  OBVIOUS
<1>1. \A t \in Tasks : task[t].pc = "idle"
  BY DEF Init, Idle, Serving
<1>2. \A t \in Tasks : ~ Owes(task[t]) /\ ~ Relies(task[t])
  BY <1>1 DEF Owes, Relies, InCall
<1>3. InputOnce
  BY DEF Init, InputOnce
<1> QED BY <1>2, <1>3 DEF Init, InputInv, InputAgrees

\* A request found by the resume's fallback on the text is in the log.
LEMMA FoundInput ==
    ASSUME NEW r, HasInput(r)
    PROVE  HasRequest(r)
<1>1. CASE \E m \in Messages(r) : m.role = "user"
  BY <1>1 DEF Messages, HasRequest
<1>2. CASE ~ \E m \in Messages(r) : m.role = "user"
  BY <1>2 DEF HasInput, HasRequest
<1> QED BY <1>1, <1>2

\* A task leaves the loop with its part of the log as it is.
LEMMA InputLeft ==
    ASSUME TypeInv, InputInv, NEW t \in Tasks, NEW p \in {"completing", "failing", "cancelling"},
           Leave(t, p), log' = log, inflight' \subseteq inflight
    PROVE  InputInv'
<1>1. PICK w : w = IF task[t].mode = "chat" THEN Idle ELSE Serving(p, task[t].run, task[t].mode)
  OBVIOUS
<1>2. w.pc \in {"idle", "completing", "failing", "cancelling"}
  BY <1>1 DEF Idle, Serving
<1>3. ~ Owes(w) /\ ~ Relies(w)
  BY <1>2 DEF Owes, Relies, InCall
<1>4. task' = [task EXCEPT ![t] = w]
  BY <1>1 DEF Leave
<1> QED BY <1>3, <1>4, InputMoves

\* The calls of a generation are made where the request is already relied on.
LEMMA InputCalls ==
    ASSUME TypeInv, InputInv, NEW t \in Tasks, task[t].pc \in InCall, NEW w,
           task' = [task EXCEPT ![t] = w], log' = log, inflight' = inflight,
           w.run = RunOf(t), w.pc \in InCall
    PROVE  InputInv'
<1>1. ~ Owes(w)
  BY DEF Owes, InCall
<1>2. HasRequest(RunOf(t))
  BY DEF InputInv, InputAgrees, Relies
<1>3. PICK r : r = RunOf(t)
  OBVIOUS
<1> QED BY <1>1, <1>2, <1>3, InputMoves

\* One case per action.
LEMMA InputStep == Discipline /\ Inv /\ InputInv /\ [Next]_vars => InputInv'
<1> SUFFICES ASSUME Discipline, Inv, InputInv, [Next]_vars PROVE InputInv'
  OBVIOUS
<1> USE RunsAssumption
<1>a. TypeInv /\ Ownership /\ LogInv
  BY DEF Inv
<1>b. \A t \in Tasks :
         /\ task[t] \in Task /\ Shaped(task[t]) /\ InputAgrees(t)
         /\ Live(t) => RunOf(t) \in Runs
  BY <1>a, TaskFacts DEF InputInv
<1>1. ASSUME NEW t \in Tasks, NEW r \in Runs, NEW p, NEW k, task' = [task EXCEPT ![t] = Serving(p, r, k)],
             Take(r), log' = log, inflight' = inflight, p \in {"created", "enter"}
      PROVE  InputInv'
  <2>1. NoInput(r)
    BY <1>1, <1>a DEF Take, LogInv, Numbered, NoInput
  <2>2. PICK w : w = Serving(p, r, k)
    OBVIOUS
  <2>3. w.run = r /\ w.pc = p /\ w.ans = "none"
    BY <2>2 DEF Serving
  <2>4. ~ Relies(w)
    BY <1>1, <2>3 DEF Relies, InCall
  <2> QED BY <1>1, <1>a, <2>1, <2>2, <2>3, <2>4, InputMoves
<1>2. ASSUME NEW t \in Tasks, NEW r \in Runs, StartRun(t, r) \/ ChatSend(t, r) PROVE InputInv'
  BY <1>1, <1>2 DEF StartRun, ChatSend
<1>3. ASSUME NEW t \in Tasks, NEW r \in Runs, ResumeRead(t, r) PROVE InputInv'
  <2>1. PICK w : w = Serving("analyze", r, "resume")
    OBVIOUS
  <2>2. w.pc = "analyze"
    BY <2>1 DEF Serving
  <2>3. ~ Owes(w) /\ ~ Relies(w)
    BY <2>2 DEF Owes, Relies, InCall
  <2> QED BY <1>3, <1>a, <2>1, <2>3, InputMoves DEF ResumeRead
<1>4. ASSUME NEW t \in Tasks, MarkRunning(t) PROVE InputInv'
  <2>1. PICK w, r : w = [task[t] EXCEPT !.pc = "enter"] /\ r = RunOf(t)
    OBVIOUS
  <2>2. /\ w.run = r /\ w.pc = "enter" /\ w.ans = task[t].ans
        /\ task' = [task EXCEPT ![t] = w] /\ log' = log /\ inflight' = inflight
    BY <1>4, <1>b, <2>1 DEF MarkRunning, Goto, Task, RunOf
  <2>3. NoInput(r)
    BY <1>4, <1>b, <2>1 DEF MarkRunning, At, InputAgrees, Owes
  <2>4. Relies(w) => HasRequest(r)
    BY <1>4, <1>b, <2>1, <2>2 DEF MarkRunning, At, InputAgrees, Relies, InCall
  <2> QED BY <1>a, <2>2, <2>3, <2>4, InputMoves
<1>5. ASSUME NEW t \in Tasks, Analyze(t) PROVE InputInv'
  <2>1. PICK r, a : r = RunOf(t) /\ a = IF HasAnswer(r) THEN "answer"
                                        ELSE IF HasInput(r) THEN "continue" ELSE "send"
    OBVIOUS
  <2>2. PICK w : w = IF MissingResult(r) THEN Idle ELSE [task[t] EXCEPT !.pc = "mark", !.ans = a]
    OBVIOUS
  <2>3. task' = [task EXCEPT ![t] = w] /\ log' = log /\ inflight' = inflight
    BY <1>5, <2>1, <2>2 DEF Analyze
  <2>4. w.pc = "idle" \/ (w.pc = "mark" /\ w.ans = a /\ w.run = r)
    BY <1>b, <2>1, <2>2 DEF Idle, Serving, Task, RunOf
  <2>5. Owes(w) => NoInput(r)
    <3>1. Owes(w) => ~ HasInput(r)
      BY <2>1, <2>4 DEF Owes
    <3>2. ~ HasInput(r) => NoInput(r)
      BY DEF HasInput, NoInput
    <3> QED BY <3>1, <3>2
  <2>6. Relies(w) => HasRequest(r)
    <3>1. Relies(w) => HasInput(r)
      BY <2>1, <2>4 DEF Relies, InCall
    <3> QED BY <3>1, FoundInput
  <2>7. r = w.run \/ (~ Owes(w) /\ ~ Relies(w))
    BY <2>4 DEF Owes, Relies, InCall
  <2> QED BY <1>a, <2>3, <2>5, <2>6, <2>7, InputMoves
<1>6. ASSUME NEW t \in Tasks, MarkResumed(t) PROVE InputInv'
  <2>1. PICK r, p : r = RunOf(t) /\ p = IF task[t].ans = "answer" THEN "completing" ELSE "enter"
    OBVIOUS
  <2>2. PICK w : w = [task[t] EXCEPT !.pc = p]
    OBVIOUS
  <2>3. /\ w.run = r /\ w.pc = p /\ w.ans = task[t].ans /\ w.ans \in {"none", "answer", "continue", "send"}
        /\ task' = [task EXCEPT ![t] = w] /\ log' = log /\ inflight' = inflight
    BY <1>6, <1>b, <2>1, <2>2 DEF MarkResumed, Goto, Task, RunOf
  <2>4. Owes(w) => NoInput(r)
    BY <1>6, <1>b, <2>1, <2>3 DEF MarkResumed, At, InputAgrees, Owes
  <2>5. Relies(w) => HasRequest(r)
    BY <1>6, <1>b, <2>1, <2>3 DEF MarkResumed, At, InputAgrees, Relies, InCall
  <2> QED BY <1>a, <2>3, <2>4, <2>5, InputMoves
<1>7. ASSUME NEW t \in Tasks, Enter(t) PROVE InputInv'
  <2>1. PICK r, w : r = RunOf(t) /\ w = task'[t]
    OBVIOUS
  <2>2. task' = [task EXCEPT ![t] = w] /\ log' = log /\ inflight' = inflight
    BY <1>7, <1>a, <2>1 DEF Enter, Goto, TypeInv, TypeOK
  <2>3. \/ w.pc \in {"idle", "failing"}
        \/ w.pc = "queued" /\ w.run = r /\ w.ans = task[t].ans
    BY <1>7, <1>a, <1>b, <2>1 DEF Enter, Goto, TypeInv, TypeOK, Task, RunOf, Idle, Serving
  <2>4. Owes(w) => NoInput(r)
    BY <1>7, <1>b, <2>1, <2>3 DEF Enter, At, InputAgrees, Owes
  <2>5. Relies(w) => HasRequest(r)
    BY <1>7, <1>b, <2>1, <2>3 DEF Enter, At, InputAgrees, Relies, InCall
  <2>6. r = w.run \/ (~ Owes(w) /\ ~ Relies(w))
    BY <2>3 DEF Owes, Relies, InCall
  <2> QED BY <1>a, <2>2, <2>4, <2>5, <2>6, InputMoves
<1>8. ASSUME NEW t \in Tasks, Acquire(t) PROVE InputInv'
  <2>1. PICK r, p : r = RunOf(t) /\ p = IF task[t].ans = "continue" THEN "generate" ELSE "input"
    OBVIOUS
  <2>2. PICK w : w = [task[t] EXCEPT !.pc = p]
    OBVIOUS
  <2>3. /\ w.run = r /\ w.pc = p
        /\ task' = [task EXCEPT ![t] = w] /\ log' = log /\ inflight' = inflight
    BY <1>8, <1>b, <2>1, <2>2 DEF Acquire, Goto, Task, RunOf
  <2>4. Owes(w) => NoInput(r)
    BY <1>8, <1>b, <2>1, <2>3 DEF Acquire, At, InputAgrees, Owes
  <2>5. Relies(w) => HasRequest(r)
    BY <1>8, <1>b, <2>1, <2>3 DEF Acquire, At, InputAgrees, Relies, InCall
  <2> QED BY <1>a, <2>3, <2>4, <2>5, InputMoves
<1>9. ASSUME NEW t \in Tasks, AppendInput(t) PROVE InputInv'
  <2>1. PICK r, w : r = RunOf(t) /\ w = [task[t] EXCEPT !.pc = "generate"]
    OBVIOUS
  <2>2. /\ w.run = r /\ w.pc = "generate" /\ At(t, "input") /\ InLoop(t)
        /\ task' = [task EXCEPT ![t] = w] /\ AppendTo(Written(t)) /\ inflight' = inflight
    BY <1>9, <1>b, <2>1 DEF AppendInput, Goto, Task, RunOf, InLoop, At, Loop
  <2>3. NoInput(r) /\ Written(t).role = "user"
    BY <1>b, <2>1, <2>2 DEF InputAgrees, Owes, At, Written, UserMessage
  <2>4. ~ Owes(w)
    BY <2>2 DEF Owes
  <2> QED BY <1>a, <2>1, <2>2, <2>3, <2>4, InputWritten
<1>10. ASSUME NEW t \in Tasks, NEW n \in 0..MaxBatch, Generate(t, n) PROVE InputInv'
  <2>1. PICK r, w : /\ r = RunOf(t)
                    /\ w = [task[t] EXCEPT !.pc = "record", !.gen = gens[r] + 1, !.n = n]
    OBVIOUS
  <2>2. /\ w.run = r /\ w.pc = "record" /\ At(t, "generate")
        /\ task' = [task EXCEPT ![t] = w] /\ log' = log /\ inflight' = inflight
    BY <1>10, <1>b, <2>1 DEF Generate, Task, RunOf
  <2>3. HasRequest(r) /\ ~ Owes(w)
    BY <1>b, <2>1, <2>2 DEF InputAgrees, Relies, Owes, At
  <2> QED BY <1>a, <2>2, <2>3, InputMoves
<1>11. ASSUME NEW t \in Tasks, AppendAssistant(t) PROVE InputInv'
  <2>1. PICK r, w : r = RunOf(t) /\ w = task'[t]
    OBVIOUS
  <2>2. /\ At(t, "record") /\ InLoop(t) /\ AppendTo(Written(t)) /\ inflight' = inflight
        /\ task' = [task EXCEPT ![t] = w]
    BY <1>11, <1>a, <2>1 DEF AppendAssistant, Leave, Goto, TypeInv, TypeOK, InLoop, At, Loop
  <2>3. \/ w.pc \in {"idle", "completing", "failing"}
        \/ w.pc = "call" /\ w.run = r
    BY <1>11, <1>a, <1>b, <2>1 DEF AppendAssistant, Leave, Goto, TypeInv, TypeOK, Task, RunOf, Idle, Serving
  <2>4. HasRequest(r) /\ Written(t).role = "assistant"
    BY <1>b, <2>1, <2>2 DEF InputAgrees, Relies, At, Written, AssistantMessage
  <2>5. ~ Owes(w) /\ (r = w.run \/ ~ Relies(w))
    BY <2>3 DEF Owes, Relies, InCall
  <2> QED BY <1>a, <2>1, <2>2, <2>4, <2>5, InputWritten
<1>12. ASSUME NEW t \in Tasks, AppendResult(t) PROVE InputInv'
  <2>1. PICK r, w : r = RunOf(t) /\ w = task'[t]
    OBVIOUS
  <2>2. /\ At(t, "results") /\ InLoop(t) /\ AppendTo(Written(t)) /\ inflight' = inflight
        /\ task' = [task EXCEPT ![t] = w]
    BY <1>12, <1>a, <2>1 DEF AppendResult, TypeInv, TypeOK, InLoop, At, Loop
  <2>3. w.pc \in {"generate", "results"} /\ w.run = r
    BY <1>12, <1>a, <1>b, <2>1 DEF AppendResult, TypeInv, TypeOK, Task, RunOf, At
  <2>4. HasRequest(r) /\ Written(t).role = "tool"
    BY <1>b, <2>1, <2>2 DEF InputAgrees, Relies, InCall, At, Written, ToolMessage
  <2>5. ~ Owes(w)
    BY <2>3 DEF Owes
  <2> QED BY <1>a, <2>1, <2>2, <2>3, <2>4, <2>5, InputWritten
<1>13. ASSUME NEW t \in Tasks,
              \/ BeginCall(t) \/ RefuseCall(t) \/ AskApproval(t) \/ EndCall(t)
              \/ Approve(t) \/ Deny(t) \/ CancelTool(t)
       PROVE  InputInv'
  <2>1. PICK w : w = task'[t]
    OBVIOUS
  <2>2. /\ task[t].pc \in InCall /\ task' = [task EXCEPT ![t] = w]
        /\ log' = log /\ inflight' = inflight
    BY <1>13, <1>a, <2>1 DEF BeginCall, RefuseCall, AskApproval, EndCall, Approve, Deny, CancelTool,
       Invoke, Goto, TypeInv, TypeOK, InCall, At
  <2>3. AfterCall(t).run = RunOf(t) /\ AfterCall(t).pc \in {"call", "results"}
    BY <1>b DEF AfterCall, Task, RunOf
  <2>4. w.run = RunOf(t) /\ w.pc \in InCall
    <3>1. CASE BeginCall(t) \/ Approve(t) \/ AskApproval(t)
      BY <1>a, <1>b, <2>1, <3>1 DEF BeginCall, Approve, AskApproval, Invoke, Goto, TypeInv, TypeOK,
         InCall, Task, RunOf
    <3>2. CASE RefuseCall(t) \/ EndCall(t) \/ Deny(t)
      BY <1>a, <2>1, <2>3, <3>2 DEF RefuseCall, EndCall, Deny, TypeInv, TypeOK, InCall
    <3>3. CASE CancelTool(t)
      <4>1. w = [AfterCall(t) EXCEPT !.seen = TRUE]
        BY <1>a, <2>1, <3>3 DEF CancelTool, TypeInv, TypeOK
      <4>2. w.run = RunOf(t) /\ w.pc \in {"call", "results"}
        BY <1>b, <4>1 DEF AfterCall, Task, RunOf
      <4> QED BY <4>2 DEF InCall
    <3> QED BY <1>13, <3>1, <3>2, <3>3
  <2> QED BY <1>a, <2>2, <2>4, InputCalls
<1>14. ASSUME NEW t \in Tasks, FailRun(t) \/ CancelWaiting(t) \/ NoticeCancel(t) PROVE InputInv'
  BY <1>14, <1>a, InputLeft DEF FailRun, CancelWaiting, NoticeCancel
<1>15. ASSUME NEW t \in Tasks, CancelWriting(t) PROVE InputInv'
  <2>1. /\ Leave(t, "cancelling") /\ log' = log
        /\ inflight' \in {inflight, inflight \cup {Written(t)}}
        /\ task[t].pc \in {"input", "record", "results"}
    BY <1>15 DEF CancelWriting
  <2>2. ASSUME Written(t).role = "user"
        PROVE  Written(t) = UserMessage(Written(t).run) /\ NoInput(Written(t).run)
    BY <1>b, <2>1, <2>2 DEF Written, UserMessage, AssistantMessage, ToolMessage, At, InputAgrees, Owes
  <2>3. PICK w : w = task'[t]
    OBVIOUS
  <2>4. task' = [task EXCEPT ![t] = w] /\ w.pc \in {"idle", "cancelling"}
    BY <1>a, <2>1, <2>3 DEF Leave, TypeInv, TypeOK, Idle, Serving
  <2>5. ~ Owes(w) /\ ~ Relies(w)
    BY <2>4 DEF Owes, Relies, InCall
  <2>6. task'[t] = w /\ \A u \in Tasks : u # t => task'[u] = task[u]
    BY <1>a, <2>4 DEF TypeInv, TypeOK
  <2>7. \A x : Messages(x)' = Messages(x)
    BY <2>1 DEF Messages
  <2>8. \A x : (NoInput(x)' <=> NoInput(x)) /\ (HasRequest(x)' <=> HasRequest(x))
    BY <2>1, <2>7 DEF NoInput, HasRequest
  <2>9. \A u \in Tasks : InputAgrees(u)'
    BY <2>5, <2>6, <2>8 DEF InputInv, InputAgrees, RunOf
  <2>10. \A m \in inflight' : m.role = "user" => m = UserMessage(m.run) /\ NoInput(m.run)'
    BY <2>1, <2>2, <2>8 DEF InputInv
  <2> QED BY <2>1, <2>9, <2>10 DEF InputInv, InputOnce
<1>16. ASSUME NEW t \in Tasks, Finish(t) PROVE InputInv'
  <2>1. Idle.pc = "idle"
    BY DEF Idle, Serving
  <2>2. ~ Owes(Idle) /\ ~ Relies(Idle)
    BY <2>1 DEF Owes, Relies, InCall
  <2> QED BY <1>16, <1>a, <2>2, InputMoves DEF Finish
<1>17. ASSUME NEW m \in inflight, Land(m) PROVE InputInv'
  <2>1. /\ m \in Message /\ AppendTo(m) /\ task' = task /\ inflight' = inflight \ {m}
        /\ m.run \in Runs
    BY <1>17, <1>a DEF Land, TypeInv, TypeOK, Message
  <2>2. /\ \A x \in Runs : HasRequest(x) => HasRequest(x)'
        /\ \A x \in Runs : x # m.run \/ m.role # "user" => (NoInput(x) => NoInput(x)')
        /\ InputOnce'
    BY <1>a, <2>1, InputAppended DEF InputInv
  <2>3. ASSUME NEW u \in Tasks PROVE InputAgrees(u)'
    <3>1. CASE At(u, "idle") \/ At(u, "cancelling")
      BY <2>1, <3>1 DEF InputAgrees, Owes, Relies, InCall, At
    <3>2. CASE ~ (At(u, "idle") \/ At(u, "cancelling"))
      <4>1. RunOf(u) \in Runs /\ RunOf(u) # m.run
        BY <1>a, <1>b, <3>2 DEF LogInv, StrayWrites, Live
      <4> QED BY <1>b, <2>1, <2>2, <4>1 DEF InputAgrees, RunOf
    <3> QED BY <3>1, <3>2
  <2>4. ASSUME NEW x \in inflight', x.role = "user"
        PROVE  x = UserMessage(x.run) /\ NoInput(x.run)'
    <3>1. /\ x \in inflight /\ x # m /\ x \in Message /\ x.run \in Runs
          /\ x = UserMessage(x.run) /\ NoInput(x.run)
      BY <1>a, <2>1, <2>4 DEF InputInv, TypeInv, TypeOK, Message
    <3>2. x.run # m.run \/ m.role # "user"
      BY <3>1, <2>4, <1>17 DEF InputInv
    <3> QED BY <2>2, <3>1, <3>2
  <2> QED BY <2>2, <2>3, <2>4 DEF InputInv
<1>18. ASSUME NEW r \in Runs, Verify(r) \/ Reconcile(r) PROVE UNCHANGED <<log, inflight, task>>
  BY <1>18 DEF Verify, Reconcile
<1>19. ASSUME UNCHANGED <<log, inflight, task>> PROVE InputInv'
  BY SMTT(20), <1>19 DEF InputInv, InputAgrees, InputOnce, NoInput, HasRequest, Messages, RunOf
<1>20. CASE Crash
  <2>1. log' = log /\ inflight' = {} /\ \A t \in Tasks : task'[t].pc = "idle"
    BY <1>20 DEF Crash, Idle, Serving
  <2>2. \A t \in Tasks : ~ Owes(task'[t]) /\ ~ Relies(task'[t])
    BY <2>1 DEF Owes, Relies, InCall
  <2> QED BY <2>1, <2>2 DEF InputInv, InputAgrees, InputOnce
<1>21. ASSUME Boot \/ Ready \/ UNCHANGED vars PROVE UNCHANGED <<log, inflight, task>>
  BY <1>21 DEF Boot, Ready, vars
<1> QED
  BY <1>2, <1>3, <1>4, <1>5, <1>6, <1>7, <1>8, <1>9, <1>10, <1>11, <1>12, <1>13, <1>14, <1>15, <1>16,
     <1>17, <1>18, <1>19, <1>20, <1>21 DEF Next, Progress, Environment

\* The request is durable before the model is asked, and neither a resume nor a
\* write that outlives its cancelled task puts it in the log a second time
\* (conversation.py:513-533, agent_run_resume.py:63-98).
THEOREM InputIsOnce == ASSUME Discipline PROVE Spec => []InputExactlyOnce
<1>1. Init => Inv /\ InputInv
  BY TypeInit, OwnershipInit, LogInit, InputInit DEF Inv
<1>2. Inv /\ [Next]_vars => Inv'
  BY TypeStep, OwnershipStep, LogStep DEF Inv
<1>3. Inv /\ InputInv /\ [Next]_vars => InputInv'
  BY InputStep
<1>4. InputInv => InputExactlyOnce
  BY DEF InputInv, InputExactlyOnce, InputOnce, InputAgrees, Relies, HasRequest, At, ConvOf
<1> QED BY <1>1, <1>2, <1>3, <1>4, PTL DEF Spec
=============================================================================
