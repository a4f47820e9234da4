---------------------------- MODULE MCAgentTasks ----------------------------
(* AgentTasks for TLC: the second task waits for the first. *)
EXTENDS AgentTasks
CONSTANTS t1, t2
InOrder == [t \in Task |-> IF t = t2 THEN {t1} ELSE {}]
=============================================================================
