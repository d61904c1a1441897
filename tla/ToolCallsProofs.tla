---------------------------- MODULE ToolCallsProofs ----------------------------
(***************************************************************************)
(* Proofs about ToolCalls: types, and what a call that runs has been       *)
(* permitted by, for every set of calls, batches, grants and clients.      *)
(***************************************************************************)
EXTENDS ToolCalls, TLAPS

---------------------------------------------------------------------------
(* The inductive invariant *)

\* The decision has not been taken.
Undecided(c) == call[c].pc \in {"idle", "request", "announcing", "waiting"}

\* A grant keeps the identity it was set with; a spent one never comes back.
GrantIds ==
    /\ \A g \in grants : g.id < nextId
    /\ \A g, h \in grants : g.id = h.id => g = h
    /\ \A c \in Calls : \A g \in ground[c] : g.id < nextId

SpentIsGone == \A c \in Calls : \A g \in ground[c] : g.lifetime = "once" => g \notin grants

\* Only a call that does not need a scoped grant is asked about.
AskedNeedsNoScope ==
    \A c \in Calls : call[c].pc \in {"announcing", "waiting"} => ~ NeedsScope(c)

\* An allowed call has been decided, a launched one allowed.
AllowedIsDecided ==
    /\ \A c \in Calls : call[c].allowed => ~ Undecided(c)
    /\ \A c \in Calls : Undecided(c) => ground[c] = {}
    /\ \A c \in Calls : At(c, "starting") => call[c].allowed
    /\ \A c \in launched : call[c].allowed

\* What an allowed call was allowed by.
AllowedInScope ==
    \A c \in Calls : call[c].allowed /\ NeedsScope(c) /\ c \notin byShell =>
        \E g \in ground[c] : /\ g.session = Of(c).session
                             /\ g.lifetime = "run" => g.scope = Of(c).run

AllowedOnYes ==
    \A c \in Calls : call[c].allowed /\ Of(c).policy = "ask" /\ ground[c] = {} /\ c \notin byShell
        => answer[c] = "yes"

Permitted ==
    /\ TypeOK /\ GrantIds /\ SpentIsGone /\ OnceGrantServesOneCall
    /\ AskedNeedsNoScope /\ AllowedIsDecided /\ AllowedInScope /\ AllowedOnYes

---------------------------------------------------------------------------
(* Types *)

\* Giving one call a new record keeps the type of all.
LEMMA PutCall ==
    ASSUME TypeOK, NEW c, NEW r \in Call, call' = [call EXCEPT ![c] = r]
    PROVE  call' \in [Calls -> Call]
BY DEF TypeOK

\* A call's record with some fields changed is one still.
LEMMA Fields ==
    ASSUME NEW r \in Call, NEW p \in Pc, NEW a \in BOOLEAN, NEW s \in Status
    PROVE  /\ [r EXCEPT !.pc = p, !.allowed = a] \in Call
           /\ [r EXCEPT !.pc = p, !.status = s] \in Call
           /\ [r EXCEPT !.asked = a, !.pc = p] \in Call
           /\ [r EXCEPT !.pc = p, !.flag = a, !.status = s] \in Call
<1>1. r = [pc |-> r.pc, allowed |-> r.allowed, flag |-> r.flag, asked |-> r.asked,
           status |-> r.status]
  BY DEF Call
<1>2. r.allowed \in BOOLEAN /\ r.flag \in BOOLEAN /\ r.asked \in BOOLEAN /\ r.status \in Status
  BY DEF Call
<1>3. [r EXCEPT !.pc = p, !.allowed = a] \in Call
  BY <1>1, <1>2 DEF Call
<1>4. [r EXCEPT !.pc = p, !.status = s] \in Call
  BY <1>1, <1>2 DEF Call
<1>5. [r EXCEPT !.asked = a, !.pc = p] \in Call
  BY <1>1, <1>2 DEF Call
<1>6. [r EXCEPT !.pc = p, !.flag = a, !.status = s] \in Call
  BY <1>1, <1>2 DEF Call
<1>7. QED
  BY <1>3, <1>4, <1>5, <1>6

\* The three ways a call moves keep its type.
LEMMA Moves ==
    ASSUME TypeOK
    PROVE  /\ \A c \in Calls, p \in Pc : Goto(c, p) => call' \in [Calls -> Call]
           /\ \A c \in Calls, a \in BOOLEAN : Decide(c, a) => call' \in [Calls -> Call]
           /\ \A c \in Calls, s \in Status : Conclude(c, s) => call' \in [Calls -> Call]
<1>1. \A c \in Calls, p \in Pc : Goto(c, p) => call' \in [Calls -> Call]
  BY DEF TypeOK, Goto, Call
<1>2. \A c \in Calls, a \in BOOLEAN : Decide(c, a) => call' \in [Calls -> Call]
  <2> SUFFICES ASSUME NEW c \in Calls, NEW a \in BOOLEAN, Decide(c, a)
               PROVE  call' \in [Calls -> Call]
    OBVIOUS
  <2>1. [call[c] EXCEPT !.pc = "decided", !.allowed = a] \in Call
    BY Fields DEF TypeOK, Pc, InFlight, Status
  <2>2. QED
    BY <2>1, PutCall DEF Decide
<1>3. \A c \in Calls, s \in Status : Conclude(c, s) => call' \in [Calls -> Call]
  <2> SUFFICES ASSUME NEW c \in Calls, NEW s \in Status, Conclude(c, s)
               PROVE  call' \in [Calls -> Call]
    OBVIOUS
  <2>1. [call[c] EXCEPT !.pc = "finishing", !.status = s] \in Call
    BY Fields DEF TypeOK, Pc, InFlight, Status
  <2>2. QED
    BY <2>1, PutCall DEF Conclude
<1>4. QED
  BY <1>1, <1>2, <1>3

\* Every step keeps the types.
LEMMA TypeStep == TypeOK /\ [Next]_vars => TypeOK'
<1> SUFFICES ASSUME TypeOK, [Next]_vars PROVE TypeOK'
  OBVIOUS
<1> USE ToolCallsAssumption DEF TypeOK, table, store, history
<1>1. ASSUME NEW c \in Calls, Begin(c) PROVE TypeOK'
  BY <1>1, Moves DEF Begin, At, Pc, InFlight, InTool, Status
<1>2. ASSUME NEW c \in Calls, Reject(c) PROVE TypeOK'
  BY <1>2, Moves DEF Reject, At, Pc, InFlight, InTool, Status
<1>3. ASSUME NEW c \in Calls, AllowShell(c) PROVE TypeOK'
  BY <1>3, Moves DEF AllowShell, At, Pc, InFlight, InTool, Status
<1>4. ASSUME NEW c \in Calls, AllowByGrant(c) PROVE TypeOK'
  <2>1. PICK g \in grants : /\ grants' = Consume(g)
                            /\ ground' = [ground EXCEPT ![c] = {g}]
    BY <1>4 DEF AllowByGrant
  <2>2. grants' \in SUBSET Grant /\ ground' \in [Calls -> SUBSET Grant]
    BY <2>1 DEF Consume
  <2>3. call' \in [Calls -> Call]
    BY <1>4, Moves DEF AllowByGrant
  <2>4. QED
    BY <1>4, <2>2, <2>3 DEF AllowByGrant
<1>5. ASSUME NEW c \in Calls, DecideByPolicy(c) PROVE TypeOK'
  BY <1>5, Moves DEF DecideByPolicy, At, Pc, InFlight, InTool, Status, Of, Requests
<1>6. ASSUME NEW c \in Calls, Ask(c) PROVE TypeOK'
  BY <1>6, Moves DEF Ask, Register, At, Pc, InFlight, InTool, Status
<1>7. ASSUME NEW c \in Calls, Listen(c) PROVE TypeOK'
  BY <1>7, Moves DEF Listen, At, Pc, InFlight, InTool, Status
<1>8. ASSUME NEW c \in Calls, Hear(c) PROVE TypeOK'
  BY <1>8, Moves DEF Hear, At, Pc, InFlight, InTool, Status
<1>9. ASSUME NEW c \in Calls, Refuse(c) PROVE TypeOK'
  BY <1>9, Moves DEF Refuse, At, Pc, InFlight, InTool, Status
<1>10. ASSUME NEW c \in Calls, Start(c) PROVE TypeOK'
  BY <1>10, Moves DEF Start, At, Pc, InFlight, InTool, Status
<1>11. ASSUME NEW c \in Calls, Launch(c) PROVE TypeOK'
  BY <1>11, Moves DEF Launch, At, Pc, InFlight, InTool, Status
<1>12. ASSUME NEW c \in Calls, AskInTool(c) PROVE TypeOK'
  <2> DEFINE next == IF Interactive THEN "announcing_inner" ELSE "running"
  <2>1. [call[c] EXCEPT !.asked = TRUE, !.pc = next] \in Call
    <3>1. next \in Pc
      BY DEF Pc, InFlight, InTool
    <3>2. QED
      BY <3>1, Fields DEF Status
  <2>2. call' \in [Calls -> Call]
    BY <1>12, <2>1, PutCall DEF AskInTool
  <2>3. QED
    BY <1>12, <2>2 DEF AskInTool, Register
<1>13. ASSUME NEW c \in Calls, HearInTool(c) PROVE TypeOK'
  BY <1>13, Moves DEF HearInTool, At, Pc, InFlight, InTool, Status
<1>14. ASSUME NEW c \in Calls, EndTool(c) PROVE TypeOK'
  BY <1>14, Moves DEF EndTool, At, Pc, InFlight, InTool, Status
<1>15. ASSUME NEW c \in Calls, TimeOut(c) PROVE TypeOK'
  <2>1. [call[c] EXCEPT !.pc = "finishing", !.flag = TRUE, !.status = "timed_out"] \in Call
    BY Fields DEF Pc, InFlight, Status
  <2>2. call' \in [Calls -> Call]
    BY <1>15, <2>1, PutCall DEF TimeOut
  <2>3. QED
    BY <1>15, <2>2 DEF TimeOut
<1>16. ASSUME NEW c \in Calls, Finish(c) PROVE TypeOK'
  BY <1>16, Moves DEF Finish, At, Pc, InFlight, InTool, Status
<1>17. ASSUME NEW c \in Calls, NEW a \in {"yes", "no"}, Respond(c, a) PROVE TypeOK'
  BY <1>17 DEF Respond
<1>18. ASSUME NEW c \in Calls, CancelCall(c) PROVE TypeOK'
  BY <1>18 DEF CancelCall, Call, Pc, InFlight, InTool, Status
<1>19. ASSUME NEW s \in Sessions, NEW o \in Offers, NEW a \in BOOLEAN, SetGrant(s, o, a) PROVE TypeOK'
  BY <1>19 DEF SetGrant, Grant, Offer
<1>20. ASSUME NEW G, Revoke(G) PROVE TypeOK'
  BY <1>20 DEF Revoke
<1>21. ASSUME NEW s \in Sessions, NEW a \in BOOLEAN, SetShellGrant(s, a) PROVE TypeOK'
  BY <1>21 DEF SetShellGrant
<1>22. ASSUME NEW b \in Batches, StartBatch(b) \/ EndBatch(b) PROVE TypeOK'
  BY <1>22 DEF StartBatch, EndBatch
<1>23. ASSUME NEW B, CancelTasks(B), UNCHANGED <<answer, store, history>>,
             core' \in {core, "stopping"}
      PROVE  TypeOK'
  BY <1>23 DEF CancelTasks, Unwound, Call, Pc, InFlight, InTool, Status
<1>24. ASSUME CloseApprovals PROVE TypeOK'
  BY <1>24 DEF CloseApprovals, Closing
<1>25. ASSUME Stopped PROVE TypeOK'
  BY <1>25 DEF Stopped
<1>26. CASE UNCHANGED vars
  BY <1>26 DEF vars
<1>27. QED
  <2>1. ASSUME NEW c \in Calls, Advance(c) PROVE TypeOK'
    BY <2>1, <1>1, <1>2, <1>3, <1>4, <1>5, <1>6, <1>7, <1>8, <1>9, <1>10, <1>11, <1>12, <1>13,
       <1>14, <1>15, <1>16, Zenon DEF Advance
  <2>2. ASSUME NEW c \in Calls, Client(c) PROVE TypeOK'
    BY <2>2, <1>17, <1>18, Zenon DEF Client
  <2>3. CASE Permissions
    <3>1. CASE \E s \in Sessions, o \in Offers, a \in BOOLEAN : SetGrant(s, o, a)
      BY <3>1, <1>19
    <3>2. CASE \E g \in grants : Revoke({g})
      BY <3>2, <1>20
    <3>3. CASE \E k \in Capabilities : Revoke({g \in grants : g.cap = k})
      BY <3>3, <1>20
    <3>4. CASE \E s \in Sessions, a \in BOOLEAN : SetShellGrant(s, a)
      BY <3>4, <1>21
    <3>5. QED
      BY <2>3, <3>1, <3>2, <3>3, <3>4 DEF Permissions
  <2>4. ASSUME NEW b \in Batches, CancelRun(b) PROVE TypeOK'
    BY <2>4, <1>23 DEF CancelRun
  <2>5. CASE Stop
    BY <2>5, <1>23 DEF Stop
  <2>6. QED
    BY <2>1, <2>2, <2>3, <2>4, <2>5, <1>22, <1>24, <1>25, <1>26, Zenon DEF Next

\* TypeOK: the state of executor, approvals and grants stays well formed, and an approval
\* has no outcome but yes and no, for every set of calls and clients.
THEOREM TypeCorrect == Spec => []TypeOK
<1>1. Init => TypeOK
  BY ToolCallsAssumption DEF Init, TypeOK, Call, Pc, InFlight, Status
<1>2. QED
  BY <1>1, TypeStep, PTL DEF Spec

---------------------------------------------------------------------------
(* Steps that take no decision *)

\* A step that decides nothing, launches nothing and adds no grant keeps the invariant.
LEMMA Quiet ==
    ASSUME Permitted, TypeOK', grants' \subseteq grants,
           UNCHANGED <<nextId, launched, ground, byShell>>,
           \A c \in Calls : answer[c] = "yes" => answer'[c] = "yes",
           \A c \in Calls : call'[c].allowed = call[c].allowed,
           \A c \in Calls : Undecided(c)' => Undecided(c),
           \A c \in Calls : call'[c].pc \in {"announcing", "waiting"} =>
               call[c].pc \in {"announcing", "waiting"} \/ ~ NeedsScope(c),
           \A c \in Calls : call'[c].pc = "starting" => At(c, "starting") \/ call[c].allowed
    PROVE  Permitted'
<1>1. GrantIds' /\ SpentIsGone' /\ OnceGrantServesOneCall'
  BY DEF Permitted, GrantIds, SpentIsGone, OnceGrantServesOneCall
<1>2. AskedNeedsNoScope'
  BY DEF Permitted, AskedNeedsNoScope, NeedsScope, Of
<1>3. AllowedIsDecided'
  BY DEF Permitted, AllowedIsDecided, TypeOK, At
<1>4. AllowedInScope' /\ AllowedOnYes'
  BY DEF Permitted, AllowedInScope, AllowedOnYes, NeedsScope, Of
<1>5. QED
  BY <1>1, <1>2, <1>3, <1>4 DEF Permitted

\* A step that moves one call on to p and leaves what was decided alone.
Shifted(c, p) ==
    /\ call'[c].pc = p
    /\ \A d \in Calls \ {c} : call'[d].pc = call[d].pc
    /\ \A d \in Calls : call'[d].allowed = call[d].allowed

\* The primitive moves, and the two that set other fields too, are of that kind.
LEMMA Shifts ==
    ASSUME TypeOK, NEW c \in Calls
    PROVE  /\ \A p \in Pc : Goto(c, p) => Shifted(c, p)
           /\ \A s \in Status : Conclude(c, s) => Shifted(c, "finishing")
           /\ AskInTool(c) => \E p \in InTool : Shifted(c, p)
           /\ TimeOut(c) => Shifted(c, "finishing")
<1>1. call[c] \in Call /\ call \in [Calls -> Call]
  BY DEF TypeOK
<1>2. \A p \in Pc : Goto(c, p) => Shifted(c, p)
  BY <1>1 DEF Goto, Shifted, Call
<1>3. ASSUME NEW r, call' = [call EXCEPT ![c] = r], r.allowed = call[c].allowed
      PROVE  Shifted(c, r.pc)
  BY <1>1, <1>3 DEF Shifted
<1>4. \A s \in Status : Conclude(c, s) => Shifted(c, "finishing")
  <2> SUFFICES ASSUME NEW s \in Status, Conclude(c, s) PROVE Shifted(c, "finishing")
    OBVIOUS
  <2> DEFINE r == [call[c] EXCEPT !.pc = "finishing", !.status = s]
  <2>1. r.pc = "finishing" /\ r.allowed = call[c].allowed
    BY <1>1 DEF Call
  <2>2. call' = [call EXCEPT ![c] = r]
    BY DEF Conclude
  <2> HIDE DEF r
  <2>3. QED
    BY <1>3, <2>1, <2>2
<1>5. AskInTool(c) => \E p \in InTool : Shifted(c, p)
  <2> SUFFICES ASSUME AskInTool(c) PROVE \E p \in InTool : Shifted(c, p)
    OBVIOUS
  <2> DEFINE next == IF Interactive THEN "announcing_inner" ELSE "running"
  <2> DEFINE r == [call[c] EXCEPT !.asked = TRUE, !.pc = next]
  <2>1. r.pc = next /\ r.allowed = call[c].allowed
    BY <1>1 DEF Call
  <2>2. call' = [call EXCEPT ![c] = r]
    BY DEF AskInTool
  <2>3. next \in InTool
    BY DEF InTool
  <2> HIDE DEF r, next
  <2>4. QED
    BY <1>3, <2>1, <2>2, <2>3
<1>6. TimeOut(c) => Shifted(c, "finishing")
  <2> SUFFICES ASSUME TimeOut(c) PROVE Shifted(c, "finishing")
    OBVIOUS
  <2> DEFINE r == [call[c] EXCEPT !.pc = "finishing", !.flag = TRUE, !.status = "timed_out"]
  <2>1. r.pc = "finishing" /\ r.allowed = call[c].allowed
    BY <1>1 DEF Call
  <2>2. call' = [call EXCEPT ![c] = r]
    BY DEF TimeOut
  <2> HIDE DEF r
  <2>3. QED
    BY <1>3, <2>1, <2>2
<1>7. QED
  BY <1>2, <1>4, <1>5, <1>6

\* It keeps the invariant if it asks only where it may and starts only what is allowed.
LEMMA Moved ==
    ASSUME Permitted, TypeOK', NEW c \in Calls, NEW p, Shifted(c, p),
           p \in {"idle", "request", "announcing", "waiting"} => Undecided(c),
           p \in {"announcing", "waiting"} => At(c, "announcing") \/ ~ NeedsScope(c),
           p = "starting" => call[c].allowed,
           UNCHANGED <<answer, store, history>>
    PROVE  Permitted'
<1>1. UNCHANGED <<grants, nextId, launched, ground, byShell, answer>>
  BY DEF store, history
<1>2. QED
  BY <1>1, Quiet DEF Undecided, At, Shifted

---------------------------------------------------------------------------
(* Decisions *)

\* A decision that is justified, and spends the once grants it is justified by, keeps
\* the invariant.
LEMMA Decided ==
    ASSUME Permitted, TypeOK', NEW c \in Calls, NEW a \in BOOLEAN, Undecided(c), Decide(c, a),
           grants' \subseteq grants, UNCHANGED <<nextId, launched, answer>>,
           \A d \in Calls \ {c} : ground'[d] = ground[d],
           byShell \subseteq byShell', byShell' \subseteq byShell \cup {c},
           ground'[c] \subseteq grants,
           \A g \in ground'[c] : g.lifetime = "once" => g \notin grants',
           a /\ NeedsScope(c) /\ c \notin byShell' =>
               \E g \in ground'[c] : /\ g.session = Of(c).session
                                     /\ g.lifetime = "run" => g.scope = Of(c).run,
           a /\ Of(c).policy = "ask" /\ ground'[c] = {} /\ c \notin byShell' => answer[c] = "yes"
    PROVE  Permitted'
<1>1. call'[c].pc = "decided" /\ call'[c].allowed = a
  BY DEF Decide, Permitted, TypeOK, Call
<1>2. \A d \in Calls \ {c} : call'[d] = call[d]
  BY DEF Decide, Permitted, TypeOK
<1>3. GrantIds'
  <2>1. \A g \in ground'[c] : g.id < nextId
    BY DEF Permitted, GrantIds
  <2>2. QED
    BY <2>1 DEF Permitted, GrantIds
<1>4. SpentIsGone'
  BY DEF Permitted, SpentIsGone
<1>5. OnceGrantServesOneCall'
  <2>1. ASSUME NEW d \in Calls \ {c}, NEW g \in ground'[c] \cap ground[d], g.lifetime = "once"
        PROVE  FALSE
    BY <2>1 DEF Permitted, SpentIsGone
  <2>2. QED
    BY <2>1 DEF Permitted, OnceGrantServesOneCall
<1>6. AskedNeedsNoScope'
  BY <1>1, <1>2 DEF Permitted, AskedNeedsNoScope, NeedsScope, Of
<1>7. AllowedIsDecided'
  <2>1. c \notin launched
    BY DEF Permitted, AllowedIsDecided
  <2>2. \A d \in launched : call'[d].allowed
    BY <2>1, <1>2 DEF Permitted, AllowedIsDecided, TypeOK
  <2>3. QED
    BY <2>2, <1>1, <1>2 DEF Permitted, AllowedIsDecided, Undecided, At
<1>8. AllowedInScope'
  BY <1>1, <1>2 DEF Permitted, AllowedInScope, NeedsScope, Of
<1>9. AllowedOnYes'
  BY <1>1, <1>2 DEF Permitted, AllowedOnYes, Of
<1>10. QED
  BY <1>3, <1>4, <1>5, <1>6, <1>7, <1>8, <1>9 DEF Permitted

---------------------------------------------------------------------------
(* What a call does *)

\* Every step of a call keeps the invariant.
LEMMA CallStep ==
    ASSUME Permitted, TypeOK', NEW c \in Calls, Advance(c)
    PROVE  Permitted'
<1> USE ToolCallsAssumption DEF table, store, history
<1>0. call[c] \in Call /\ TypeOK
  BY DEF Permitted, TypeOK
<1>1. CASE Begin(c) \/ Reject(c) \/ Ask(c) \/ Listen(c) \/ Refuse(c) \/ Start(c) \/ AskInTool(c)
           \/ HearInTool(c) \/ EndTool(c) \/ TimeOut(c) \/ Finish(c)
  <2>1. CASE Begin(c)
    <3>1. Shifted(c, "request") /\ UNCHANGED <<answer, store, history>>
      BY <1>0, <2>1, Shifts DEF Begin, At, Undecided, Pc, InFlight
    <3>2. QED
      BY <2>1, <3>1, Moved DEF Begin, At, Undecided
  <2>2. CASE Reject(c)
    <3>1. Shifted(c, "finishing") /\ UNCHANGED <<answer, store, history>>
      BY <1>0, <2>2, Shifts DEF Reject, Status
    <3>2. QED
      BY <2>2, <3>1, Moved DEF Reject
  <2>3. CASE Ask(c)
    <3>1. Shifted(c, "announcing") /\ UNCHANGED <<answer, store, history>>
      BY <1>0, <2>3, Shifts DEF Ask, At, Undecided, Pc, InFlight
    <3>2. QED
      BY <2>3, <3>1, Moved DEF Ask, At, Undecided
  <2>4. CASE Refuse(c)
    <3>1. Shifted(c, "finishing") /\ UNCHANGED <<answer, store, history>>
      BY <1>0, <2>4, Shifts DEF Refuse, Status
    <3>2. QED
      BY <2>4, <3>1, Moved DEF Refuse
  <2>5. CASE Start(c)
    <3>1. Shifted(c, "starting") /\ UNCHANGED <<answer, store, history>>
      BY <1>0, <2>5, Shifts DEF Start, Pc, InFlight
    <3>2. QED
      BY <2>5, <3>1, Moved DEF Start
  <2>6. CASE HearInTool(c)
    <3>1. Shifted(c, "running") /\ UNCHANGED <<answer, store, history>>
      BY <1>0, <2>6, Shifts DEF HearInTool, Pc, InFlight, InTool
    <3>2. QED
      BY <2>6, <3>1, Moved DEF HearInTool
  <2>7. CASE EndTool(c)
    <3>1. Shifted(c, "finishing") /\ UNCHANGED <<answer, store, history>>
      BY <1>0, <2>7, Shifts DEF EndTool, Status
    <3>2. QED
      BY <2>7, <3>1, Moved DEF EndTool
  <2>8. CASE Finish(c)
    <3>1. Shifted(c, "over") /\ UNCHANGED <<answer, store, history>>
      BY <1>0, <2>8, Shifts DEF Finish, Pc
    <3>2. QED
      BY <2>8, <3>1, Moved DEF Finish
  <2>9. CASE TimeOut(c)
    <3>1. Shifted(c, "finishing") /\ UNCHANGED <<answer, store, history>>
      BY <1>0, <2>9, Shifts DEF TimeOut
    <3>2. QED
      BY <2>9, <3>1, Moved DEF TimeOut
  <2>10. CASE Listen(c)
    <3> DEFINE p == IF At(c, "announcing") THEN "waiting" ELSE "waiting_inner"
    <3>1. Shifted(c, p) /\ UNCHANGED <<answer, store, history>>
      BY <1>0, <2>10, Shifts DEF Listen, Pc, InFlight, InTool
    <3>2. QED
      BY <2>10, <3>1, Moved DEF Listen, At, Undecided
  <2>11. CASE AskInTool(c)
    <3>1. PICK p \in InTool : Shifted(c, p)
      BY <1>0, <2>11, Shifts
    <3>2. UNCHANGED <<answer, store, history>>
      BY <2>11 DEF AskInTool
    <3>3. QED
      BY <3>1, <3>2, Moved DEF InTool
  <2>12. QED
    BY <1>1, <2>1, <2>2, <2>3, <2>4, <2>5, <2>6, <2>7, <2>8, <2>9, <2>10, <2>11
<1>2. CASE AllowShell(c)
  <2>1. ground'[c] = {}
    BY <1>2 DEF AllowShell, At, Permitted, AllowedIsDecided, Undecided
  <2>2. c \in byShell' /\ Undecided(c)
    BY <1>2 DEF AllowShell, At, Undecided
  <2>3. QED
    BY <1>2, <2>1, <2>2, Decided DEF AllowShell
<1>3. CASE AllowByGrant(c)
  <2>1. PICK g \in grants : /\ IsFirst(g, c)
                            /\ grants' = Consume(g)
                            /\ ground' = [ground EXCEPT ![c] = {g}]
    BY <1>3 DEF AllowByGrant
  <2>2. ground'[c] = {g} /\ \A d \in Calls \ {c} : ground'[d] = ground[d]
    BY <1>0, <2>1 DEF TypeOK
  <2>3. g.session = Of(c).session /\ (g.lifetime = "run" => g.scope = Of(c).run)
    BY <2>1 DEF IsFirst, Matching, LifetimeMatches
  <2>4. grants' \subseteq grants /\ (g.lifetime = "once" => g \notin grants')
    BY <2>1 DEF Consume
  <2>5. Undecided(c) /\ Decide(c, TRUE) /\ UNCHANGED <<nextId, launched, answer, byShell>>
    BY <1>3 DEF AllowByGrant, At, Undecided
  <2>6. QED
    BY <2>2, <2>3, <2>4, <2>5, Decided
<1>4. CASE DecideByPolicy(c)
  <2> DEFINE a == Of(c).policy = "allow" /\ ~ NeedsScope(c)
  <2>1. Undecided(c) /\ Decide(c, a) /\ a \in BOOLEAN
    BY <1>4 DEF DecideByPolicy, At, Undecided
  <2>2. UNCHANGED <<answer, grants, nextId, launched, ground, byShell>>
    BY <1>4 DEF DecideByPolicy
  <2>3. ground'[c] = {}
    BY <2>1, <2>2 DEF Permitted, AllowedIsDecided
  <2>4. ~ (a /\ NeedsScope(c)) /\ ~ (a /\ Of(c).policy = "ask")
    OBVIOUS
  <2> HIDE DEF a
  <2>5. QED
    BY <2>1, <2>2, <2>3, <2>4, Decided
<1>5. CASE Hear(c)
  <2> DEFINE a == answer[c] = "yes"
  <2>1. Undecided(c) /\ Decide(c, a) /\ a \in BOOLEAN /\ ~ NeedsScope(c)
    BY <1>5 DEF Hear, At, Undecided, Permitted, AskedNeedsNoScope
  <2>2. UNCHANGED <<answer, grants, nextId, launched, ground, byShell>>
    BY <1>5 DEF Hear
  <2>3. ground'[c] = {}
    BY <2>1, <2>2 DEF Permitted, AllowedIsDecided
  <2>4. a => answer[c] = "yes"
    OBVIOUS
  <2> HIDE DEF a
  <2>5. QED
    BY <2>1, <2>2, <2>3, <2>4, Decided
<1>6. CASE Launch(c)
  <2>1. UNCHANGED <<answer, grants, nextId, ground, byShell>> /\ launched' = launched \cup {c}
    BY <1>6 DEF Launch
  <2>2. Shifted(c, "running") /\ At(c, "starting")
    BY <1>0, <1>6, Shifts DEF Launch, Pc, InFlight, InTool
  <2>3. GrantIds' /\ SpentIsGone' /\ OnceGrantServesOneCall'
    BY <2>1 DEF Permitted, GrantIds, SpentIsGone, OnceGrantServesOneCall
  <2>4. AskedNeedsNoScope'
    BY <2>2 DEF Permitted, AskedNeedsNoScope, Shifted, NeedsScope, Of
  <2>5. AllowedIsDecided'
    BY <1>0, <2>1, <2>2 DEF Permitted, AllowedIsDecided, Shifted, Undecided, At, TypeOK
  <2>6. AllowedInScope' /\ AllowedOnYes'
    BY <2>1, <2>2 DEF Permitted, AllowedInScope, AllowedOnYes, Shifted, NeedsScope, Of
  <2>7. QED
    BY <2>3, <2>4, <2>5, <2>6 DEF Permitted
<1>7. QED
  BY <1>1, <1>2, <1>3, <1>4, <1>5, <1>6 DEF Advance

---------------------------------------------------------------------------
(* What everybody else does *)

\* Setting a grant keeps the invariant: its id is new.
LEMMA GrantStep ==
    ASSUME Permitted, TypeOK', NEW s \in Sessions, NEW o \in Offers, NEW a \in BOOLEAN,
           SetGrant(s, o, a)
    PROVE  Permitted'
<1> DEFINE g == [id |-> nextId, session |-> s, cap |-> o.cap, res |-> o.res,
                 lifetime |-> o.lifetime, scope |-> o.scope, allowed |-> a]
<1>1. /\ grants' \subseteq grants \cup {g} /\ nextId' = nextId + 1
      /\ UNCHANGED <<call, answer, launched, ground, byShell>>
  BY DEF SetGrant, table, history
<1>2. g.id = nextId /\ nextId \in Nat
  BY DEF Permitted, TypeOK
<1> HIDE DEF g
<1>3. \A c \in Calls : g \notin ground[c]
  BY <1>2 DEF Permitted, GrantIds
<1>4. \A h \in grants : h.id \in Nat
  BY DEF Permitted, TypeOK, Grant
<1>5. \A c \in Calls : \A h \in ground[c] : h.id \in Nat
  BY DEF Permitted, TypeOK, Grant
<1>6. GrantIds'
  BY <1>1, <1>2, <1>4, <1>5 DEF Permitted, GrantIds
<1>7. SpentIsGone' /\ OnceGrantServesOneCall'
  BY <1>1, <1>3 DEF Permitted, SpentIsGone, OnceGrantServesOneCall
<1>8. AskedNeedsNoScope' /\ AllowedIsDecided' /\ AllowedInScope' /\ AllowedOnYes'
  BY <1>1 DEF Permitted, AskedNeedsNoScope, AllowedIsDecided, AllowedInScope, AllowedOnYes,
              Undecided, NeedsScope, Of, At
<1>9. QED
  BY <1>6, <1>7, <1>8 DEF Permitted

\* A cancellation decides nothing and allows nothing.
LEMMA CancelStep ==
    ASSUME Permitted, TypeOK', NEW B, CancelTasks(B), UNCHANGED <<answer, store, history>>
    PROVE  Permitted'
<1>1. \A c \in Calls : call'[c] \in {call[c], Unwound(c)}
  BY DEF CancelTasks
<1>2. \A c \in Calls : /\ Unwound(c).allowed = call[c].allowed
                       /\ Unwound(c).pc \in {"finishing", "aborted"}
  BY DEF Unwound, Permitted, TypeOK, Call
<1>3. \A c \in Calls : /\ call'[c].allowed = call[c].allowed
                       /\ call'[c].pc \in {call[c].pc, "finishing", "aborted"}
  BY <1>1, <1>2
<1>4. UNCHANGED <<answer, grants, nextId, launched, ground, byShell>>
  BY DEF store, history
<1>5. QED
  BY <1>3, <1>4, Quiet DEF Undecided, At

\* Every step keeps the invariant.
LEMMA PermittedStep == Permitted /\ [Next]_vars => Permitted'
<1> SUFFICES ASSUME Permitted, [Next]_vars PROVE Permitted'
  OBVIOUS
<1> USE DEF table, store, history
<1>0. TypeOK'
  BY TypeStep DEF Permitted
<1>1. ASSUME NEW c \in Calls, Advance(c) PROVE Permitted'
  BY <1>0, <1>1, CallStep
<1>2. ASSUME NEW c \in Calls, NEW a \in {"yes", "no"}, Respond(c, a) PROVE Permitted'
  <2>1. \A d \in Calls : answer[d] = "yes" => answer'[d] = "yes"
    BY <1>2 DEF Respond, CanAnswer, Permitted, TypeOK
  <2>2. UNCHANGED <<call, grants, nextId, launched, ground, byShell>>
    BY <1>2 DEF Respond
  <2>3. QED
    BY <1>0, <2>1, <2>2, Quiet DEF Undecided, At
<1>3. ASSUME NEW c \in Calls, CancelCall(c) PROVE Permitted'
  <2>1. \A d \in Calls : call'[d].allowed = call[d].allowed /\ call'[d].pc = call[d].pc
    BY <1>3 DEF CancelCall, Permitted, TypeOK, Call
  <2>2. UNCHANGED <<answer, grants, nextId, launched, ground, byShell>>
    BY <1>3 DEF CancelCall
  <2>3. QED
    BY <1>0, <2>1, <2>2, Quiet DEF Undecided, At
<1>4. ASSUME NEW s \in Sessions, NEW o \in Offers, NEW a \in BOOLEAN, SetGrant(s, o, a)
      PROVE  Permitted'
  BY <1>0, <1>4, GrantStep
<1>5. ASSUME NEW G, Revoke(G) PROVE Permitted'
  BY <1>0, <1>5, Quiet DEF Revoke, Undecided, At
<1>6. ASSUME NEW s \in Sessions, NEW a \in BOOLEAN, SetShellGrant(s, a) PROVE Permitted'
  BY <1>0, <1>6, Quiet DEF SetShellGrant, Undecided, At
<1>7. ASSUME NEW b \in Batches, StartBatch(b) \/ EndBatch(b) PROVE Permitted'
  BY <1>0, <1>7, Quiet DEF StartBatch, EndBatch, Undecided, At
<1>8. ASSUME NEW b \in Batches, CancelRun(b) PROVE Permitted'
  BY <1>0, <1>8, CancelStep DEF CancelRun
<1>9. CASE Stop
  BY <1>0, <1>9, CancelStep DEF Stop
<1>10. CASE CloseApprovals
  <2>1. \A d \in Calls : answer[d] = "yes" => answer'[d] = "yes"
    BY <1>10 DEF CloseApprovals, Closing, CanAnswer, Permitted, TypeOK
  <2>2. UNCHANGED <<call, grants, nextId, launched, ground, byShell>>
    BY <1>10 DEF CloseApprovals
  <2>3. QED
    BY <1>0, <2>1, <2>2, Quiet DEF Undecided, At
<1>11. CASE Stopped
  BY <1>0, <1>11, Quiet DEF Stopped, Undecided, At
<1>12. CASE UNCHANGED vars
  BY <1>0, <1>12, Quiet DEF vars, Undecided, At
<1>13. ASSUME NEW c \in Calls, Client(c) PROVE Permitted'
  BY <1>2, <1>3, <1>13 DEF Client
<1>14. CASE Permissions
  <2>1. CASE \E g \in grants : Revoke({g})
    BY <2>1, <1>5
  <2>2. CASE \E k \in Capabilities : Revoke({g \in grants : g.cap = k})
    BY <2>2, <1>5
  <2>3. CASE \E s \in Sessions, o \in Offers, a \in BOOLEAN : SetGrant(s, o, a)
    BY <2>3, <1>4
  <2>4. CASE \E s \in Sessions, a \in BOOLEAN : SetShellGrant(s, a)
    BY <2>4, <1>6
  <2>5. QED
    BY <1>14, <2>1, <2>2, <2>3, <2>4 DEF Permissions
<1>15. QED
  BY <1>1, <1>7, <1>8, <1>9, <1>10, <1>11, <1>12, <1>13, <1>14, Zenon DEF Next

---------------------------------------------------------------------------
(* Theorems *)

\* The inductive invariant of the permission to run a call.
THEOREM PermittedAlways == Spec => []Permitted
<1>1. Init => Permitted
  <2> SUFFICES ASSUME Init PROVE Permitted
    OBVIOUS
  <2>1. TypeOK
    BY ToolCallsAssumption DEF Init, TypeOK, Call, Pc, InFlight, Status
  <2>2. \A c \in Calls : call[c].pc = "idle" /\ ~ call[c].allowed /\ ground[c] = {}
    BY DEF Init
  <2>3. QED
    BY <2>1, <2>2 DEF Init, Permitted, GrantIds, SpentIsGone, OnceGrantServesOneCall,
       AskedNeedsNoScope, AllowedIsDecided, AllowedInScope, AllowedOnYes, Undecided, At
<1>2. QED
  BY <1>1, PermittedStep, PTL DEF Spec

\* OnceGrantServesOneCall: a grant for one use lets one call through, for any number of
\* calls being decided at a time (permissions.py:674-696).
THEOREM OnceIsOnce == Spec => []OnceGrantServesOneCall
<1>1. Permitted => OnceGrantServesOneCall
  BY DEF Permitted
<1>2. QED
  BY <1>1, PermittedAlways, PTL

\* GrantsStayInScope: a risky call of a model that ran had allow_all_cmd or a grant of its
\* session and, if that was for a run, of its run.
THEOREM ScopeHolds == Spec => []GrantsStayInScope
<1>1. Permitted => GrantsStayInScope
  BY DEF Permitted, GrantsStayInScope, AllowedIsDecided, AllowedInScope, NeedsScope, TypeOK
<1>2. QED
  BY <1>1, PermittedAlways, PTL

\* AskedRunsOnYes: what the user was asked about runs only on a yes to that call, whatever
\* is cancelled, answered late or shut down meanwhile.
THEOREM YesIsNeeded == Spec => []AskedRunsOnYes
<1>1. Permitted => AskedRunsOnYes
  BY DEF Permitted, AskedRunsOnYes, AllowedIsDecided, AllowedOnYes, TypeOK
<1>2. QED
  BY <1>1, PermittedAlways, PTL

\* AnswerIsFinal: the first answer to an approval counts (approval_bridge.py:95-97).
THEOREM FirstAnswerCounts == Spec => AnswerIsFinal
<1>1. TypeOK /\ [Next]_vars => [\A c \in Calls : answer[c] # "none" => answer'[c] = answer[c]]_answer
  <2> SUFFICES ASSUME TypeOK, [Next]_vars, NEW c \in Calls, answer[c] # "none"
               PROVE  answer'[c] = answer[c]
    OBVIOUS
  <2>1. CASE \E d \in Calls, a \in {"yes", "no"} : Respond(d, a)
    BY <2>1 DEF Respond, CanAnswer, TypeOK
  <2>2. CASE CloseApprovals
    BY <2>2 DEF CloseApprovals, Closing, CanAnswer
  <2>3. CASE UNCHANGED answer
    BY <2>3
  <2>4. ASSUME NEW d \in Calls, Advance(d) PROVE UNCHANGED answer
    BY <2>4 DEF Advance, Begin, Reject, AllowShell, AllowByGrant, DecideByPolicy, Ask, Listen,
       Hear, Refuse, Start, Launch, AskInTool, HearInTool, EndTool, TimeOut, Finish, table
  <2>5. ASSUME NEW d \in Calls, CancelCall(d) PROVE UNCHANGED answer
    BY <2>5 DEF CancelCall, table
  <2>6. CASE Permissions
    BY <2>6 DEF Permissions, SetGrant, Revoke, SetShellGrant, table
  <2>7. CASE (\E b \in Batches : StartBatch(b) \/ EndBatch(b) \/ CancelRun(b)) \/ Stop \/ Stopped
    BY <2>7 DEF StartBatch, EndBatch, CancelRun, Stop, Stopped, table
  <2>8. QED
    BY <2>1, <2>2, <2>3, <2>4, <2>5, <2>6, <2>7 DEF Next, Client, vars
<1>2. QED
  BY <1>1, TypeCorrect, PTL DEF Spec, AnswerIsFinal

---------------------------------------------------------------------------
(* Shutdown *)

\* Once the approvals are closed no batch of a run is open and none of its calls moves.
Quiesced == core \in {"closed", "down"} => RunsEnded

\* Every step keeps it: only Begin takes an idle call up, and only in an open batch.
LEMMA QuiescedStep == TypeOK /\ Quiesced /\ [Next]_vars => Quiesced'
<1> SUFFICES ASSUME TypeOK, Quiesced, [Next]_vars, core' \in {"closed", "down"}
             PROVE  RunsEnded'
  BY DEF Quiesced
<1> USE ToolCallsAssumption DEF TypeOK, Quiesced, RunsEnded, IsInFlight, OfRun, Of
<1>1. ASSUME NEW c \in Calls, Advance(c) PROVE RunsEnded'
  <2>1. core' = core /\ batch' = batch
    BY <1>1 DEF Advance, Begin, Reject, AllowShell, AllowByGrant, DecideByPolicy, Ask, Listen, Hear,
       Refuse, Start, Launch, AskInTool, HearInTool, EndTool, TimeOut, Finish
  <2>2. \A d \in Calls \ {c} : call'[d] = call[d]
    BY <1>1 DEF Advance, Begin, Reject, AllowShell, AllowByGrant, DecideByPolicy, Ask, Listen, Hear,
       Refuse, Start, Launch, AskInTool, HearInTool, EndTool, TimeOut, Finish, Goto, Decide, Conclude
  <2>3. IsInFlight(c) \/ (At(c, "idle") /\ batch[Of(c).batch] = "open")
    BY <1>1 DEF Advance, Begin, Reject, AllowShell, AllowByGrant, DecideByPolicy, Ask, Listen, Hear,
       Refuse, Start, Launch, AskInTool, HearInTool, EndTool, TimeOut, Finish, At, InFlight, InTool
  <2>4. ~ OfRun(c)
    BY <2>1, <2>3
  <2>5. QED
    BY <2>1, <2>2, <2>4
<1>2. ASSUME NEW c \in Calls, Client(c) PROVE RunsEnded'
  <2>1. core' = core /\ batch' = batch
    BY <1>2 DEF Client, Respond, CancelCall
  <2>2. \A d \in Calls : call'[d].pc = call[d].pc
    BY <1>2 DEF Client, Respond, CancelCall, Call
  <2>3. QED
    BY <2>1, <2>2
<1>3. ASSUME NEW b \in Batches, StartBatch(b) \/ EndBatch(b) PROVE RunsEnded'
  BY <1>3 DEF StartBatch, EndBatch
<1>4. ASSUME NEW b \in Batches, CancelRun(b) PROVE RunsEnded'
  BY <1>4 DEF CancelRun
<1>5. CASE Permissions
  BY <1>5 DEF Permissions, SetGrant, Revoke, SetShellGrant
<1>6. CASE Stop
  BY <1>6 DEF Stop
<1>7. CASE CloseApprovals \/ Stopped
  BY <1>7 DEF CloseApprovals, Stopped
<1>8. CASE UNCHANGED vars
  BY <1>8 DEF vars
<1>9. QED
  BY <1>1, <1>2, <1>3, <1>4, <1>5, <1>6, <1>7, <1>8 DEF Next

\* ClosedCoreRunsNothing: after approvals.shutdown no call of a run is on its way, so none
\* can ask for an approval nobody would answer (app.py:1544-1547).
THEOREM NothingRunsAfterClose == Spec => []ClosedCoreRunsNothing
<1>1. Init => Quiesced
  BY DEF Init, Quiesced
<1>2. Quiesced => ClosedCoreRunsNothing
  BY DEF Quiesced, RunsEnded, ClosedCoreRunsNothing
<1>3. QED
  BY <1>1, <1>2, TypeCorrect, QuiescedStep, PTL DEF Spec
================================================================================
