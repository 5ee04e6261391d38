------------------------------- MODULE Audit -------------------------------
(***************************************************************************)
(* The lineage audit, minilab-store/src/audit.rs: what the ledger says of  *)
(* one correlation.  It only reads: its operators are functions of the     *)
(* rows, and the components that write them state what they may answer.    *)
(* The fields of a row that a reader looks for by name are those of its    *)
(* payload.                                                                *)
(***************************************************************************)
EXTENDS EvidenceLedger

(* The rows of one correlation; nothing that is said of them here depends *)
(* on the order of created_at they come in.                               *)
EvidenceTrail(ledger, corr) == {ledger[i] : i \in {j \in DOMAIN ledger : ledger[j].corr = corr}}

KindsOf(trail) == {row.kind : row \in trail}

OutboundKinds == {"outbound.sent", "outbound.failed", "outbound.admitted"}
Week1Kinds == {"trigger.ingested", "account.created", "account.merged", "account.scored",
               "message_family.created", "outreach.sent"}

(* What a trail must show: the gates for a constitutional send, the first *)
(* week's spine for the rest of the funnel, nothing for other rows.       *)
expected_gtm_kinds(kinds) ==
    IF kinds \cap OutboundKinds # {}
    THEN {"eligibility.evaluated", "premium.evaluated", "policy.evaluated", "outbound.admitted"}
    ELSE IF kinds \cap Week1Kinds # {}
    THEN {"trigger.ingested", "account.scored", "message_family.created"}
    ELSE {}

is_terminal_kind(kind) ==
    kind \in {"outreach.sent", "outbound.sent", "outbound.failed", "policy.blocked",
              "reply.classified", "contact.opted_out", "meeting.scheduled", "meeting.completed"}

missing_expected_kinds(trail) == expected_gtm_kinds(KindsOf(trail)) \ KindsOf(trail)

evidence_closed(trail) ==
    /\ \E kind \in KindsOf(trail) : is_terminal_kind(kind)
    /\ missing_expected_kinds(trail) = {}

contacted(trail) == KindsOf(trail) \cap {"outreach.sent", "outbound.sent"} # {}
blocked(trail) == KindsOf(trail) \cap {"policy.blocked", "outbound.failed"} # {}

(* A boolean of the payload under one of the names the reader knows.      *)
payload_bool(row, names, value) == \E name \in names \cap DOMAIN row : row[name] = value

(* The reasons it gives for a touch, one per kind of row that speaks.     *)
Speaks(row) ==
    CASE row.kind = "eligibility.evaluated" -> payload_bool(row, {"eligible", "allowed"}, TRUE)
      [] row.kind = "premium.evaluated" -> payload_bool(row, {"premium_required", "requires_premium"}, FALSE)
      [] row.kind = "policy.evaluated" -> payload_bool(row, {"allowed", "pass"}, TRUE)
      [] OTHER -> row.kind \in {"trigger.ingested", "buying_signal.observed", "account.scored",
                                "message_family.created", "outbound.admitted"}
why_contacted(trail) == KindsOf({row \in trail : Speaks(row)})

(* Seeded bug: a correlation that was sent after a refusal counts as sent. *)
kpi_snapshot_exclusive(trails) ==
    LET sent == {c \in DOMAIN trails : contacted(trails[c])}
    IN  [with_send |-> Cardinality(sent),
         with_block |-> Cardinality({c \in DOMAIN trails \ sent : blocked(trails[c])}),
         with_reply |-> 0]

(* The counters over the trails of correlations: one that was refused and *)
(* sent on another attempt is in both.                                    *)
kpi_snapshot(trails) ==
    [with_send |-> Cardinality({c \in DOMAIN trails : contacted(trails[c])}),
     with_block |-> Cardinality({c \in DOMAIN trails : blocked(trails[c])}),
     with_reply |-> Cardinality({c \in DOMAIN trails : "reply.classified" \in KindsOf(trails[c])})]
=============================================================================
