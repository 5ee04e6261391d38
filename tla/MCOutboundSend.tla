--------------------------- MODULE MCOutboundSend ---------------------------
(* OutboundSend on small tables: the values of its constants for TLC.      *)
EXTENDS OutboundSend, TLC

CONSTANTS p1, g1, k1, k2, r1, r2

Contacts1 == {p1}
Campaigns1 == {g1}
Corrs1 == {k1}
Corrs2 == {k1, k2}
Requests1 == {r1}
Requests2 == {r1, r2}
SegmentOfAll == [c \in Contact |-> "smb"]
LiveClient == {[mode |-> "production", configured |-> "auto"]}
LiveAndMisconfigured == LiveClient \cup {[mode |-> "simulation", configured |-> "twilio_sendgrid"]}
OneRule == {{}, {"block_all"}}

RequestSymmetry == Permutations(Request) \cup Permutations(Corr)

(* The part of the tables a run starts from. *)
AdmissibleInit ==
    /\ Init
    /\ contacts = [c \in Contact |-> [optOut |-> FALSE, phone |-> TRUE]]
    /\ campaigns = [g \in Campaign |-> [channel |-> "email", family |-> TRUE]]
AdmissibleSpec == AdmissibleInit /\ [][Next \/ World]_vars

(* A contact that is there or not, a campaign with and without a message.  *)
SomeInit ==
    /\ Init
    /\ contacts \in [Contact -> {NoRow, [optOut |-> FALSE, phone |-> FALSE]}]
    /\ campaigns \in [Campaign -> CampaignRow]
SomeSpec == SomeInit /\ [][Next \/ World]_vars
=============================================================================
