----------------------------- MODULE RunContract -----------------------------
(***************************************************************************)
(* What a durable agent run promises, whatever implements it: a run is     *)
(* begun once, may be interrupted and resumed, and ends for good.  While   *)
(* it is active it asks the model, round after round, and the calls it     *)
(* makes leave effects outside; it never asks again, and is never taken    *)
(* up again after an interruption, while the outcome of one of its effects *)
(* is unresolved.                                                          *)
(***************************************************************************)
EXTENDS Naturals

CONSTANT Runs

VARIABLES
    phase,      \* "new", "active", "interrupted" or "ended"
    rounds,     \* how often the model has been asked
    unresolved  \* effects whose outcome is not durable

contractVars == <<phase, rounds, unresolved>>

Init ==
    /\ phase = [r \in Runs |-> "new"]
    /\ rounds = [r \in Runs |-> 0]
    /\ unresolved = [r \in Runs |-> {}]

Move(r, from, to) ==
    /\ phase[r] = from
    /\ phase' = [phase EXCEPT ![r] = to]
    /\ UNCHANGED <<rounds, unresolved>>

Begin(r) == Move(r, "new", "active")
Interrupt(r) == Move(r, "active", "interrupted")
Resume(r) == unresolved[r] = {} /\ Move(r, "interrupted", "active")
End(r) == Move(r, "active", "ended")

Ask(r) ==
    /\ phase[r] = "active" /\ unresolved[r] = {}
    /\ rounds' = [rounds EXCEPT ![r] = @ + 1]
    /\ UNCHANGED <<phase, unresolved>>

Effect(r) ==
    /\ phase[r] = "active"
    /\ \E e \in unresolved'[r] \ unresolved[r] :
          unresolved' = [unresolved EXCEPT ![r] = @ \cup {e}]
    /\ UNCHANGED <<phase, rounds>>

Settle(r) ==
    /\ \E e \in unresolved[r] : unresolved' = [unresolved EXCEPT ![r] = @ \ {e}]
    /\ UNCHANGED <<phase, rounds>>

Next ==
    \E r \in Runs : \/ Begin(r) \/ Interrupt(r) \/ Resume(r) \/ End(r)
                    \/ Ask(r) \/ Effect(r) \/ Settle(r)

Spec == Init /\ [][Next]_contractVars
==============================================================================
