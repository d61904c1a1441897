---------------------------- MODULE MCCoreLifecycle ----------------------------
(* CoreLifecycle with two plugins and settings that go wrong in different ways. *)
EXTENDS CoreLifecycle

CONSTANTS p, q, echo, x, y, gone, s1, s2, s3

MCRank == [n \in Plugins |-> IF n = p THEN 1 ELSE 2]

\* first: only the echo provider.  both: x of p and y of q.  swapped: y of p, and a
\* route to y.  unset: both with a default that nobody provides.  clash: two
\* plugins with one name.  stray: only echo, and a route to x, which a rollback that
\* fails may leave there.  refused: options that q refuses.  nowhere: a route to a
\* provider that is not there.
MCEnabled == [c \in Configs |->
    CASE c \in {"first", "stray"} -> {} [] c = "swapped" -> {p} [] OTHER -> {p, q}]
MCProvides == [c \in Configs |-> [n \in Plugins |->
    CASE n \notin MCEnabled[c] -> {}
      [] c = "swapped" -> {y}
      [] c = "clash" -> {x}
      [] OTHER -> IF n = p THEN {x} ELSE {y}]]
MCRoutes == [c \in Configs |->
    CASE c = "first" -> {echo} [] c \in {"clash", "stray"} -> {x} [] c = "nowhere" -> {gone}
      [] OTHER -> {y}]
MCDefault == [c \in Configs |-> CASE c = "unset" -> gone [] OTHER -> echo]
MCFails == [c \in Configs |-> IF c = "refused" THEN {q} ELSE {}]

MCSessionId == [s \in Sessions |-> IF s = s3 THEN "b" ELSE "a"]
================================================================================
