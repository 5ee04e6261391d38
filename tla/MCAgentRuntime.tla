-------------------------- MODULE MCAgentRuntime --------------------------
(* AgentRuntime on few calls: the values of its constants for TLC.         *)
EXTENDS AgentRuntime, TLC

CONSTANTS s1, c1, c2, c3

Sessions1 == {s1}
Calls3 == {c1, c2, c3}
CallSymmetry == Permutations(Call)
=============================================================================
