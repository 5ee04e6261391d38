-------------------------------- MODULE MCGtm --------------------------------
(* Gtm on small tables: the values of its constants for TLC.               *)
EXTENDS Gtm

CONSTANTS p1, g1, k1, w1, r1, h1

Contacts1 == {p1}
Campaigns1 == {g1}
Corrs1 == {k1}
Slots1 == {w1}
Requests1 == {r1}
Handlers1 == {h1}
SameContact == [s \in Sequence |-> p1]
SameCampaign == [s \in Sequence |-> g1]
SegmentOfAll == [c \in Contact |-> "smb"]
LiveClient == {[mode |-> "production", configured |-> "auto"]}

(* The part of the tables a run starts from: everyone may be written to,  *)
(* by mail.                                                               *)
AdmissibleInit ==
    /\ LoopInit
    /\ contacts = [c \in Contact |-> [optOut |-> FALSE, phone |-> TRUE]]
    /\ campaigns = [g \in Campaign |-> [channel |-> "email", family |-> TRUE]]
AdmissibleSpec == AdmissibleInit /\ [][LoopNext]_loopVars
=============================================================================
