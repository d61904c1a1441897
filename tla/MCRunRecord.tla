----------------------------- MODULE MCRunRecord -----------------------------
(* RunRecord on a batch of three calls, one of which the user is asked about. *)
EXTENDS RunRecord

CONSTANTS a, b, c

MCBatch == <<a, b, c>>
MCId == [x \in Calls |-> CASE x = a -> "tool-0" [] x = b -> "tool-1" [] OTHER -> "tool-2"]
==============================================================================
