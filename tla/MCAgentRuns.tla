----------------------------- MODULE MCAgentRuns -----------------------------
(* AgentRuns on small instances: the conversation each run talks in and what it
   is asked. *)
EXTENDS AgentRunsProofs

CONSTANTS a1, c1, k1

\* Every run talks in one conversation.
OneConversation == [r \in Runs |-> k1]

\* Everyone asks the same: the resume's fallback on the request text applies.
SameRequests == [r \in Runs |-> k1]
==============================================================================
