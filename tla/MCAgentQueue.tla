---------------------------- MODULE MCAgentQueue ----------------------------
(* Three tasks, more agents wanted than the sum can count.                 *)
EXTENDS AgentQueue
=============================================================================
