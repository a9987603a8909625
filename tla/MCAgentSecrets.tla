--------------------------- MODULE MCAgentSecrets ---------------------------
EXTENDS AgentSecrets, TLC

(* Request slots and agents are interchangeable. *)
Slots == Permutations(Requests) \cup Permutations(Agents)
=============================================================================
