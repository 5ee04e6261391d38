------------------------------ MODULE GtmStore ------------------------------
(***************************************************************************)
(* The tables the go-to-market components share (contact with its account, *)
(* campaign with its message_family, policy_rule, evidence_ledger), the    *)
(* messages the providers really delivered, and the decisions every sender *)
(* takes on them: the send policy and the choice of a provider.            *)
(***************************************************************************)
EXTENDS EvidenceLedger

CONSTANTS
    Contact,        \* contact ids
    Segment,        \* the ICP segments of accounts
    SegmentOf,      \* the segment of the account of each contact
    Campaign,       \* campaign ids
    Channel,        \* the channels campaigns and requests name
    Client,         \* the configurations of the processes: see Clients
    PolicySet,      \* the sets of rules operators put in force
    MaxAssertions   \* bound on the opt-outs asserted from outside

(* A process runs under a sim_mode and a MINILAB_OUTBOUND_PROVIDER.        *)
Clients == [mode : {"production", "replay", "simulation", "counterfactual"},
            configured : {"auto", "mock", "twilio_sendgrid", "twilio_whatsapp"}]

ASSUME SegmentOfAssumption == SegmentOf \in [Contact -> Segment]
ASSUME ClientAssumption == Client \subseteq Clients

ASSUME PolicySetAssumption == PolicySet \subseteq SUBSET ({"block_all"} \cup Segment)
ASSUME MaxAssertionsAssumption == MaxAssertions \in Nat

VARIABLES
    contacts,       \* contact rows: NoRow, or opt_out and whether phone_e164 is set
    campaigns,      \* campaign rows: NoRow, or the channel and whether a message_family exists
    rules,          \* the active policy_rule rows of scope send
    ledger,         \* the evidence ledger
    delivered       \* the messages real providers accepted

tables == <<contacts, campaigns, rules, ledger, delivered>>

NoRow == [absent |-> TRUE]
ContactRow == [optOut : BOOLEAN, phone : BOOLEAN]
CampaignRow == [channel : Channel, family : BOOLEAN]

(* A rule blocks everything, or allows one segment only. *)
Rule == {"block_all"} \cup Segment

optOut(c) == contacts[c] # NoRow /\ contacts[c].optOut

-----------------------------------------------------------------------------
(* Seeded bug: the opt-out left to the gate of the other sender. *)
RulesOnlyBlock(contactOptOut, segment, active) ==
    \E rule \in active : rule = "block_all" \/ rule # segment

(* The verdict of the send policy: blocked on an opted-out contact, on a  *)
(* block_all rule, and on a rule for another segment.                     *)
DecideSendPolicyBlocks(contactOptOut, segment, active) ==
    \/ contactOptOut
    \/ \E rule \in active : rule = "block_all" \/ rule # segment

blocks_real_sends(client) == client.mode # "production"

(* The provider a dispatch goes to, or the error it ends with. *)
EffectiveProvider(client, channel) ==
    IF blocks_real_sends(client)
    THEN IF client.configured \in {"mock", "auto"} THEN "mock" ELSE "send_blocked"
    ELSE IF client.configured # "auto" THEN client.configured
    ELSE CASE channel = "email" -> "twilio_sendgrid"
           [] channel = "whatsapp" -> "twilio_whatsapp"
           [] OTHER -> "contract_error"

(* The part of dispatch_sequence that precedes the provider's answer: the *)
(* context is read, the message rendered, the provider chosen.  A         *)
(* whatsapp text has no subject for SendGrid, and WhatsApp needs a phone. *)
DispatchVerdict(client, campaign, contact) ==
    IF campaign = NoRow \/ contact = NoRow THEN "contract_error"
    ELSE IF ~campaign.family THEN "contract_error"
    ELSE LET provider == EffectiveProvider(client, campaign.channel)
         IN  IF \/ provider = "twilio_sendgrid" /\ campaign.channel = "whatsapp"
                \/ provider = "twilio_whatsapp" /\ ~contact.phone
             THEN "contract_error" ELSE provider

(* Seeded bug: the receipt names the provider where the channel belongs. *)
ReceiptProvider(provider, campaign) ==
    IF provider = "mock" THEN campaign.channel ELSE provider

(* The channel of the receipt: a real provider's own, the campaign's for  *)
(* the mock.                                                              *)
ReceiptChannel(provider, campaign) ==
    CASE provider = "twilio_sendgrid" -> "email"
      [] provider = "twilio_whatsapp" -> "whatsapp"
      [] provider = "mock" -> campaign.channel

-----------------------------------------------------------------------------
(* The rest of the world changes the tables under the components: rules   *)
(* are edited, and an opt-out is asserted in the contact column, in the   *)
(* ledger for one channel, or in the ledger for all of them ("*").        *)
EditRules(new) ==
    /\ rules' = new
    /\ UNCHANGED <<contacts, campaigns, ledger, delivered>>

SetOptOutColumn(c) ==
    /\ contacts[c] # NoRow /\ ~contacts[c].optOut
    /\ contacts' = [contacts EXCEPT ![c].optOut = TRUE]
    /\ UNCHANGED <<campaigns, rules, ledger, delivered>>

AssertOptOut(c, ch, row) ==
    /\ Cardinality({i \in DOMAIN ledger : ledger[i].kind = "optout.asserted"}) < MaxAssertions
    /\ ~HasKey(ledger, <<"optout.asserted", c, ch>>)
    /\ ledger' = InsertLedgerRow(ledger, row)
    /\ UNCHANGED <<contacts, campaigns, rules, delivered>>
=============================================================================
