----------------------------- MODULE MCToolCalls -----------------------------
(* ToolCalls on small instances. *)
EXTENDS ToolCalls

CONSTANTS m1, m2, p1, p2, u1, seq, par, ui, s1, shell, read

Base == [batch |-> seq, position |-> 1, session |-> s1, cap |-> read, res |-> "file",
         run |-> "r1", model |-> TRUE, shell |-> FALSE, inProfile |-> TRUE, scoped |-> FALSE,
         policy |-> "ask", tool |-> "plain"]

\* A model's batch of a risky call and one the user is asked about, a parallel batch
\* of two reads that only a grant allows, and a client that asks the user.
MCRequest == [c \in Calls |->
    CASE c = m1 -> [Base EXCEPT !.cap = shell, !.shell = TRUE, !.scoped = TRUE,
                                !.policy = "deny"]
      [] c = m2 -> [Base EXCEPT !.position = 2]
      [] c = p1 -> [Base EXCEPT !.batch = par, !.policy = "deny"]
      [] c = p2 -> [Base EXCEPT !.batch = par, !.position = 2, !.policy = "deny"]
      [] OTHER  -> [Base EXCEPT !.batch = ui, !.model = FALSE, !.run = "none",
                                !.policy = "allow", !.tool = "approval"]]

MCCovers == {<<"any", "any">>, <<"any", "file">>, <<"file", "file">>}

OnceRead == [cap |-> read, res |-> "any", lifetime |-> "once", scope |-> "none"]
RunShell(r) == [cap |-> shell, res |-> "file", lifetime |-> "run", scope |-> r]
MCOffers == {OnceRead, RunShell("r1"), RunShell("r2")}
==============================================================================
