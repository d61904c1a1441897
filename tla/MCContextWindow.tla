---------------------------- MODULE MCContextWindow ----------------------------
(* ContextWindow with budgets of a few characters. *)
EXTENDS ContextWindow

\* Short calls whose summary is longer, and long ones whose summary is not.
MCCallTexts == {<<1, 3>>, <<9, 5>>}

\* Fewer than fit, more than fit, one too long, and one that fits after one that does not.
MCCatalogs == {<<1>>, <<2, 1, 1>>, <<4, 3, 5, 1>>}
================================================================================
