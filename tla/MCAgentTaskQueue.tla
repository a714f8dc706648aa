-------------------------- MODULE MCAgentTaskQueue --------------------------
(* Small instances of AgentTaskQueue: the later task has the higher priority. *)
EXTENDS AgentTaskQueue

MCPriority == [t \in Tasks |-> IF t = 2 THEN 9 ELSE 5]

=============================================================================
