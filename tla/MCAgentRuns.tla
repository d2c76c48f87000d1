----------------------------- MODULE MCAgentRuns -----------------------------
(* Instances of AgentRuns for TLC. *)
EXTENDS AgentRunsInv

CONSTANTS t1, t2

\* Every request belongs to one conversation.
OneThread      == [r \in Runs |-> t1]
\* The last request belongs to another conversation.
TwoThreads     == [r \in Runs |-> IF r = NumRuns THEN t2 ELSE t1]
=============================================================================
