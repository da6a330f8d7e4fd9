---------------------------- MODULE MCAgentRuntime ----------------------------
(* An instance of AgentRuntime for TLC. *)
EXTENDS AgentRuntime, TLC

Symmetry == Permutations(Agent) \cup Permutations(Slot) \cup Permutations(Task)
==============================================================================
