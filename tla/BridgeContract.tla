---------------------------- MODULE BridgeContract ----------------------------
(***************************************************************************)
(* What the desktop is promised of a request it makes through the bridge:  *)
(* one outcome, and an answer only to what the core has handled.  A        *)
(* failure promises nothing: the core may handle the request afterwards.   *)
(***************************************************************************)
CONSTANT Commands
VARIABLES outcome, handled

vars == <<outcome, handled>>

Init ==
    /\ outcome = [k \in Commands |-> "none"]
    /\ handled = [k \in Commands |-> FALSE]

Handle(k) ==
    /\ ~handled[k]
    /\ handled' = [handled EXCEPT ![k] = TRUE]
    /\ UNCHANGED outcome

Answer(k) ==
    /\ outcome[k] = "none" /\ handled[k]
    /\ outcome' = [outcome EXCEPT ![k] = "answered"]
    /\ UNCHANGED handled

Fail(k) ==
    /\ outcome[k] = "none"
    /\ outcome' = [outcome EXCEPT ![k] = "failed"]
    /\ UNCHANGED handled

Next == \E k \in Commands : Handle(k) \/ Answer(k) \/ Fail(k)

Spec == Init /\ [][Next]_vars
===============================================================================
