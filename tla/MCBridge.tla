------------------------------- MODULE MCBridge -------------------------------
(* Bridge on a few commands of any kind. *)
EXTENDS Bridge

CONSTANTS c1, c2
===============================================================================
