----------------------------- MODULE MCHostPair -----------------------------
(* HostPair on a small database: the values of its constants for TLC.      *)
EXTENDS HostPair, TLC

CONSTANTS h1, c1, c2, k1, k2, a1, a2

Hosts1 == {h1}
Challenges1 == {c1}
Challenges2 == {c1, c2}
Corrs2 == {k1, k2}
Attempts2 == {a1, a2}
ProductionOnly == {"production"}
BothModes == {"production", "simulation"}

AttemptSymmetry == Permutations(Attempt)
=============================================================================
