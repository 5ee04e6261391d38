---------------------------- MODULE OutboundSend ----------------------------
(***************************************************************************)
(* The constitutional outbound.send orchestrator, submit_outbound_send of  *)
(* minilab-store/src/outbound_orchestrator.rs with the gates it composes,  *)
(* and the outcome real_dispatcher.rs reports of it.  A request is one     *)
(* call; its pc is the await it is blocked in.  A retry of a request is    *)
(* another request with the same correlation id.                           *)
(***************************************************************************)
EXTENDS GtmStore, Audit

CONSTANTS
    Corr,           \* correlation ids
    Request,        \* calls; also the fresh dispatch ids and provider message ids
    OptOutWindow    \* the limit of the opt-out query (20 in the code)

ASSUME OptOutWindowAssumption == OptOutWindow \in Nat \ {0}

VARIABLES
    pc,         \* the await each request is blocked in, or how it ended
    input,      \* what it was called with
    reason,     \* the reason_code it is being refused for, "" if none
    provider,   \* the provider of its dispatch
    late        \* for the properties: the opt-out was active when it was called

local == <<pc, input, reason, provider, late>>
vars == <<tables, local>>

Input == [contact : Contact, campaign : Campaign, channel : Channel,
          corr : Corr, client : Client]
NoInput == [absent |-> TRUE]

Reason == {"contact_suppressed", "optout_active", "policy_blocked",
           "provider_rejected", "provider_error"}
Provider == {"mock", "twilio_sendgrid", "twilio_whatsapp"}

(* The answers a call can end with: the three outcomes, a contract error, *)
(* or it is lost: any other store error, or the future was dropped.       *)
Ended == {"sent", "rejected", "provider_failed", "contract_error", "lost"}
Waiting == {"resolve", "eligibility", "premium", "optColumn", "optLedger", "rules",
            "policy", "admit", "context", "post", "recordSent", "reject",
            "rejectAfter"}
Pc == {"idle"} \cup Waiting \cup Ended

-----------------------------------------------------------------------------
(* The rows.  by is the request that posted the row and verdict what it   *)
(* found; the key of an evaluation has neither the channel nor the        *)
(* verdict in it.                                                         *)
RowOf(r, key, channel, verdict) ==
    [kind |-> key[1], key |-> key, corr |-> input[r].corr,
     contact |-> input[r].contact, channel |-> channel, verdict |-> verdict, by |-> r]

GateKey(kind, in) == <<kind, in.campaign, in.contact, in.corr>>
SentKey(r) == <<"outbound.sent", r>>
FailedKey(in, code) == <<"outbound.failed", in.campaign, in.contact, in.corr, code>>

Insert(r, key, channel, verdict) ==
    ledger' = InsertLedgerRow(ledger, RowOf(r, key, channel, verdict))

Goto(r, next) ==
    /\ pc' = [pc EXCEPT ![r] = next]
    /\ UNCHANGED <<input, reason, provider, late>>

(* On to the next await, or to the failure row when there is a reason. *)
Continue(r, code, next, refused) ==
    /\ pc' = [pc EXCEPT ![r] = IF code = "" THEN next ELSE refused]
    /\ reason' = [reason EXCEPT ![r] = code]
    /\ UNCHANGED <<input, provider, late>>

(* The last insert is made; its answer may still be lost. *)
Answer(r, outcome) == Goto(r, outcome) \/ Goto(r, "lost")

StoreUnchanged == UNCHANGED tables
OnlyLedger == UNCHANGED <<contacts, campaigns, rules, delivered>>

(* The opt-out rows the gate sees, and those that cover a channel. *)
LedgerOptOut(c, ch) ==
    \E i \in Latest(ledger, "optout.asserted", OptOutWindow) :
        ledger[i].contact = c /\ ledger[i].channel \in {ch, "*"}

(* For the properties: all of them, however many came after. *)
Assertions == {i \in DOMAIN ledger : ledger[i].kind = "optout.asserted"}
OnRecord(c, ch) == \E i \in Assertions : ledger[i].contact = c /\ ledger[i].channel \in {ch, "*"}

Init ==
    /\ contacts \in [Contact -> ContactRow \cup {NoRow}]
    /\ campaigns \in [Campaign -> CampaignRow \cup {NoRow}]
    /\ rules = {}
    /\ ledger = <<>>
    /\ delivered = {}
    /\ pc = [r \in Request |-> "idle"]
    /\ input = [r \in Request |-> NoInput]
    /\ reason = [r \in Request |-> ""]
    /\ provider = [r \in Request |-> ""]
    /\ late = [r \in Request |-> FALSE]

(* A caller submits a request.  late is the opt-out at this moment, on the *)
(* requested channel or on all of them.                                   *)
Submit(r, in) ==
    /\ pc[r] = "idle"
    /\ pc' = [pc EXCEPT ![r] = "resolve"]
    /\ input' = [input EXCEPT ![r] = in]
    /\ late' = [late EXCEPT ![r] = optOut(in.contact) \/ OnRecord(in.contact, in.channel)]
    /\ UNCHANGED <<reason, provider>>
    /\ StoreUnchanged

ResolveAccount(r) ==
    /\ pc[r] = "resolve"
    /\ Continue(r, IF contacts[input[r].contact] = NoRow THEN "contact_suppressed" ELSE "",
                "eligibility", "reject")
    /\ StoreUnchanged

(* Both evaluations are stubs that admit: they only leave their row. *)
EvaluateEligibility(r) ==
    /\ pc[r] = "eligibility"
    /\ Insert(r, GateKey("eligibility.evaluated", input[r]), input[r].channel, "admissible")
    /\ Goto(r, "premium")
    /\ OnlyLedger

EvaluatePremium(r) ==
    /\ pc[r] = "premium"
    /\ Insert(r, GateKey("premium.evaluated", input[r]), input[r].channel, "admissible")
    /\ Goto(r, "optColumn")
    /\ OnlyLedger

(* The gate makes two reads and decides after the second. *)
ReadOptOutColumn(r) ==
    /\ pc[r] = "optColumn"
    /\ Continue(r, IF optOut(input[r].contact) THEN "optout_active" ELSE "", "optLedger", "optLedger")
    /\ StoreUnchanged

(* Seeded bug: the ledger alone decides the gate. *)
ReadOptOutLedgerOnly(r) ==
    /\ pc[r] = "optLedger"
    /\ Continue(r, IF LedgerOptOut(input[r].contact, input[r].channel) THEN "optout_active" ELSE "",
                "rules", "reject")
    /\ StoreUnchanged

ReadOptOutLedger(r) ==
    /\ pc[r] = "optLedger"
    /\ Continue(r, IF LedgerOptOut(input[r].contact, input[r].channel) THEN "optout_active"
                   ELSE reason[r], "rules", "reject")
    /\ StoreUnchanged

ReadRules(r) ==
    /\ pc[r] = "rules"
    /\ Continue(r, IF DecideSendPolicyBlocks(FALSE, SegmentOf[input[r].contact], rules)
                   THEN "policy_blocked" ELSE "", "policy", "policy")
    /\ StoreUnchanged

(* Seeded bug: only a refusal leaves its policy row. *)
RecordPolicyWhenBlocked(r) ==
    /\ pc[r] = "policy"
    /\ IF reason[r] = "" THEN UNCHANGED ledger
       ELSE Insert(r, GateKey("policy.evaluated", input[r]), input[r].channel, "blocked")
    /\ Continue(r, reason[r], "admit", "reject")
    /\ OnlyLedger

RecordPolicy(r) ==
    /\ pc[r] = "policy"
    /\ Insert(r, GateKey("policy.evaluated", input[r]), input[r].channel,
              IF reason[r] = "" THEN "admissible" ELSE "blocked")
    /\ Continue(r, reason[r], "admit", "reject")
    /\ OnlyLedger

Admit(r) ==
    /\ pc[r] = "admit"
    /\ Insert(r, GateKey("outbound.admitted", input[r]), input[r].channel, "admissible")
    /\ Goto(r, "context")
    /\ OnlyLedger

(* dispatch_sequence up to the post; the mock provider needs none. *)
Dispatch(r) ==
    /\ pc[r] = "context"
    /\ LET verdict == DispatchVerdict(input[r].client, campaigns[input[r].campaign],
                                      contacts[input[r].contact])
       IN  CASE verdict = "contract_error" -> Goto(r, "contract_error")
             [] verdict = "send_blocked" -> Continue(r, "provider_error", "context", "rejectAfter")
             [] OTHER -> /\ provider' = [provider EXCEPT ![r] = verdict]
                         /\ pc' = [pc EXCEPT ![r] = IF verdict = "mock" THEN "recordSent" ELSE "post"]
                         /\ UNCHANGED <<input, reason, late>>
    /\ StoreUnchanged

Message(r) ==
    [id |-> r, contact |-> input[r].contact, corr |-> input[r].corr,
     channel |-> ReceiptChannel(provider[r], campaigns[input[r].campaign])]

(* The provider accepts the message or rejects it. *)
ProviderAccepts(r) ==
    /\ pc[r] = "post"
    /\ delivered' = delivered \cup {Message(r)}
    /\ Goto(r, "recordSent")
    /\ UNCHANGED <<contacts, campaigns, rules, ledger>>

ProviderRejects(r) ==
    /\ pc[r] = "post"
    /\ Continue(r, "provider_rejected", "post", "rejectAfter")
    /\ StoreUnchanged

RecordSent(r) ==
    /\ pc[r] = "recordSent"
    /\ Insert(r, SentKey(r), ReceiptChannel(provider[r], campaigns[input[r].campaign]), "sent")
    /\ Answer(r, "sent")
    /\ OnlyLedger

(* Seeded bug: the failure key without the reason code of the failure. *)
RejectOncePerAct(r) ==
    /\ pc[r] = "reject"
    /\ IF \E i \in DOMAIN ledger : ledger[i].kind = "outbound.failed" /\ ledger[i].corr = input[r].corr
       THEN UNCHANGED ledger
       ELSE Insert(r, FailedKey(input[r], reason[r]), input[r].channel, "pre_admission")
    /\ Answer(r, "rejected")
    /\ OnlyLedger

Reject(r) ==
    /\ pc[r] = "reject"
    /\ Insert(r, FailedKey(input[r], reason[r]), input[r].channel, "pre_admission")
    /\ Answer(r, "rejected")
    /\ OnlyLedger

RejectAfterAdmission(r) ==
    /\ pc[r] = "rejectAfter"
    /\ Insert(r, FailedKey(input[r], reason[r]), input[r].channel, "post_admission")
    /\ Answer(r, "provider_failed")
    /\ OnlyLedger

(* The request of an await, or the answer to it, is lost, or the timeout  *)
(* layer drops the future, or the process dies.  A post the provider      *)
(* accepted without being heard is ProviderAccepts, then Lose.            *)
Lose(r) ==
    /\ pc[r] \in Waiting
    /\ Goto(r, "lost")
    /\ StoreUnchanged

Step(r) ==
    \/ \E in \in Input : Submit(r, in)
    \/ ResolveAccount(r) \/ EvaluateEligibility(r) \/ EvaluatePremium(r)
    \/ ReadOptOutColumn(r) \/ ReadOptOutLedger(r)
    \/ ReadRules(r) \/ RecordPolicy(r) \/ Admit(r)
    \/ Dispatch(r) \/ ProviderAccepts(r) \/ ProviderRejects(r)
    \/ RecordSent(r) \/ Reject(r) \/ RejectAfterAdmission(r)
    \/ Lose(r)

Next == \E r \in Request : Step(r)

(* The rest of the world, for a model of this component alone. *)
OptOutRow(c, ch) ==
    [kind |-> "optout.asserted", key |-> <<"optout.asserted", c, ch>>, corr |-> "admin",
     contact |-> c, channel |-> ch, verdict |-> "irreversible", by |-> "admin"]

World ==
    /\ \/ \E new \in PolicySet : EditRules(new)
       \/ \E c \in Contact : SetOptOutColumn(c)
       \/ \E c \in Contact, ch \in Channel \cup {"*"} : AssertOptOut(c, ch, OptOutRow(c, ch))
    /\ UNCHANGED local

Spec == Init /\ [][Next \/ World]_vars

-----------------------------------------------------------------------------
GateKind == {"eligibility.evaluated", "premium.evaluated", "policy.evaluated", "outbound.admitted"}
AnyChannel == Channel \cup {"email", "whatsapp"}

TypeOK ==
    /\ contacts \in [Contact -> ContactRow \cup {NoRow}]
    /\ campaigns \in [Campaign -> CampaignRow \cup {NoRow}]
    /\ rules \subseteq Rule
    /\ \A i \in DOMAIN ledger :
          /\ ledger[i].kind = ledger[i].key[1]
          /\ ledger[i].kind \in GateKind \cup {"outbound.sent", "outbound.failed", "optout.asserted"}
          /\ ledger[i].contact \in Contact /\ ledger[i].channel \in AnyChannel \cup {"*"}
          /\ IF ledger[i].kind = "optout.asserted" THEN ledger[i].by = "admin"
             ELSE ledger[i].by \in Request /\ ledger[i].corr = input[ledger[i].by].corr
    /\ delivered \subseteq [id : Request, contact : Contact, corr : Corr, channel : AnyChannel]
    /\ pc \in [Request -> Pc]
    /\ input \in [Request -> Input \cup {NoInput}]
    /\ reason \in [Request -> Reason \cup {""}]
    /\ provider \in [Request -> Provider \cup {""}]
    /\ late \in [Request -> BOOLEAN]

(* A call made after the contact opted out, in the column for everything  *)
(* or in the ledger for the requested channel, delivers nothing: "either  *)
(* being present blocks the send" (optout_gate.rs).  It holds as long as  *)
(* no more opt-outs are asserted than the query for them reaches.         *)
OptOutBeforeCallIsHonoured == \A m \in delivered : ~late[m.id]

(* What is delivered, a production client sent after the whole chain, in  *)
(* its order and under its correlation, whatever retries and failures came *)
(* before.                                                                *)
DeliveryHasFullChain ==
    \A m \in delivered : ~blocks_real_sends(input[m.id].client) /\
        LET At(kind) == {i \in DOMAIN ledger : ledger[i].key = GateKey(kind, input[m.id])}
        IN  \E e \in At("eligibility.evaluated"), p \in At("premium.evaluated"),
               d \in At("policy.evaluated"), a \in At("outbound.admitted") :
               e < p /\ p < d /\ d < a

(* The answer, the ledger and the world agree.  An outcome is closed in    *)
(* the ledger under the call's own correlation, failures of other reasons  *)
(* or calls do not count, and the audit calls the trail of an admitted act *)
(* closed; a refusal before that leaves gates the audit misses.  A call    *)
(* that answered that it did not send has not sent.                        *)
OutcomeIsClosed ==
    \A r \in Request :
        /\ pc[r] = "sent" => HasKey(ledger, SentKey(r))
        /\ pc[r] \in {"rejected", "provider_failed"} => HasKey(ledger, FailedKey(input[r], reason[r]))
        /\ pc[r] \in {"sent", "provider_failed"} => evidence_closed(EvidenceTrail(ledger, input[r].corr))
        /\ pc[r] \in {"rejected", "provider_failed", "contract_error"} => \A m \in delivered : m.id # r

(* The audit answers for the sends.  A trail that shows a touch is closed, *)
(* says that the act was admitted, and stands for a message a provider    *)
(* accepted or a simulated one, whatever attempts share the correlation;  *)
(* the counters count every correlation a caller was told of, as sent and *)
(* as refused, and as sent none that reached no provider.                 *)
AuditAnswersForSends ==
    LET Trail == [c \in Corr |-> EvidenceTrail(ledger, c)]
        kpi == kpi_snapshot(Trail)
        Of(R) == Cardinality({input[r].corr : r \in R})
    IN  /\ \A c \in Corr : contacted(Trail[c]) =>
              /\ evidence_closed(Trail[c])
              /\ "outbound.admitted" \in why_contacted(Trail[c])
              /\ \/ \E m \in delivered : m.corr = c
                 \/ \E r \in Request : provider[r] = "mock" /\ input[r].corr = c
        /\ Of({r \in Request : pc[r] = "sent"}) <= kpi.with_send
        /\ kpi.with_send <= Of({r \in Request : provider[r] # ""})
        /\ Of({r \in Request : pc[r] \in {"rejected", "provider_failed"}}) <= kpi.with_block
=============================================================================
