----------------------------- MODULE MCSendDue -----------------------------
(* SendDue on small tables: the values of its constants for TLC.           *)
EXTENDS SendDue

CONSTANTS p1, g1, g2, w1, w2

Contacts1 == {p1}
Campaigns2 == {g1, g2}
Slots2 == {w1, w2}
SameContact == [s \in Sequence |-> p1]
OwnCampaign == [s \in Sequence |-> IF s = 1 THEN g1 ELSE g2]
SegmentOfAll == [c \in Contact |-> "smb"]
LiveClient == {[mode |-> "production", configured |-> "auto"]}
TwoClients == LiveClient \cup {[mode |-> "simulation", configured |-> "auto"]}
NoRules == {{}}
=============================================================================
