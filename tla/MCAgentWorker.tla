---------------------------- MODULE MCAgentWorker ----------------------------
(* Symmetric agents for the safety runs of AgentWorker.                      *)
EXTENDS AgentWorker, TLC

AgentSymmetry == Permutations(Agents)
==============================================================================
