------------------------------ MODULE SendDue ------------------------------
(***************************************************************************)
(* The sequence sender: bin/send_due.rs, with policy.rs, outbound.rs and   *)
(* outreach.rs under it.  A slot is a cron slot: each of its runs is a     *)
(* fresh process that fetches a batch of due pending sequences and works   *)
(* through it, one sequence after the other; runs of different slots may   *)
(* overlap.  An error only skips the sequence; a crash ends the run.       *)
(***************************************************************************)
EXTENDS GtmStore

CONSTANTS
    Sequence,       \* sequence rows, numbered in the order of scheduled_at
    ContactOf,      \* the contact of each sequence
    CampaignOf,     \* its campaign
    Slot,           \* the cron slots
    BatchLimit,     \* the limit of the fetch (100 in the code)
    MaxFaults       \* bound on the errors and crashes of a behaviour

ASSUME SequenceAssumption ==
    /\ Sequence \subseteq Nat
    /\ ContactOf \in [Sequence -> Contact]
    /\ CampaignOf \in [Sequence -> Campaign]
ASSUME LimitAssumption == BatchLimit \in Nat \ {0} /\ MaxFaults \in Nat

VARIABLES
    sequences,  \* the state column of every sequence row
    now,        \* the clock: the sequences numbered up to it are due
    pc,         \* the await each slot is blocked in, "idle" between runs
    client,     \* the configuration of its process
    batch,      \* the sequences it fetched and has not finished with
    optSeen,    \* the opt_out it read for the current one
    desired,    \* the state it is moving the current one to
    provider,   \* the provider of its dispatch
    early,      \* for the properties: the contacts opted out when it fetched
    faults      \* the errors and crashes so far

local == <<sequences, now, pc, client, batch, optSeen, desired, provider, early, faults>>
vars == <<tables, local>>

Waiting == {"column", "rules", "context", "post", "mark", "recheck", "row"}

IsFirst(s, S) == s \in S /\ \A t \in S : s <= t
Current(w) == CHOOSE s \in batch[w] : IsFirst(s, batch[w])

ContactRowOf(w) == contacts[ContactOf[Current(w)]]
CampaignRowOf(w) == campaigns[CampaignOf[Current(w)]]

(* The first rows of the answer to state=pending&scheduled_at<=now,       *)
(* ordered by scheduled_at.                                               *)
DueBatch ==
    LET due == {s \in Sequence : s <= now /\ sequences[s] = "pending"}
    IN  {s \in due : Cardinality({t \in due : t < s}) < BatchLimit}

(* A dispatch has a correlation id and a message id of its own; the pair  *)
(* of slot and sequence stands for both.                                  *)
MessageId(w) == <<w, Current(w)>>

EvidenceKey(state, s) == IF state = "sent" THEN <<"outreach.sent", s>> ELSE <<"policy.blocked", s>>

EvidenceRow(w) ==
    [kind |-> EvidenceKey(desired[w], 0)[1], key |-> EvidenceKey(desired[w], Current(w)),
     corr |-> MessageId(w), contact |-> ContactOf[Current(w)],
     channel |-> IF desired[w] = "sent" THEN ReceiptChannel(provider[w], CampaignRowOf(w)) ELSE "*",
     verdict |-> IF desired[w] = "sent" THEN provider[w] ELSE "blocked", by |-> w]

-----------------------------------------------------------------------------
Init ==
    /\ contacts \in [Contact -> ContactRow]
    /\ campaigns \in [Campaign -> CampaignRow]
    /\ rules = {}
    /\ ledger = <<>>
    /\ delivered = {}
    /\ sequences = [s \in Sequence |-> "pending"]
    /\ now = 0
    /\ pc = [w \in Slot |-> "idle"]
    /\ client \in [Slot -> Client]
    /\ batch = [w \in Slot |-> {}]
    /\ optSeen = [w \in Slot |-> FALSE]
    /\ desired = [w \in Slot |-> "sent"]
    /\ provider = [w \in Slot |-> ""]
    /\ early = [w \in Slot |-> {}]
    /\ faults = 0

Goto(w, next) == pc' = [pc EXCEPT ![w] = next]

(* The run goes on with what is left of its batch, or ends when nothing   *)
(* is; the locals of the sequence it was working on are dead.             *)
GoOnWith(w, rest) ==
    /\ batch' = [batch EXCEPT ![w] = rest]
    /\ Goto(w, IF rest = {} THEN "idle" ELSE "column")
    /\ optSeen' = [optSeen EXCEPT ![w] = FALSE]
    /\ desired' = [desired EXCEPT ![w] = "sent"]
    /\ provider' = [provider EXCEPT ![w] = ""]
    /\ early' = IF rest = {} THEN [early EXCEPT ![w] = {}] ELSE early

NextSequence(w) == GoOnWith(w, batch[w] \ {Current(w)})
EndRun(w) == GoOnWith(w, {})

StayOn(w) == UNCHANGED <<batch, early>>
OnlyLedger == UNCHANGED <<contacts, campaigns, rules, delivered>>

Fetch(w) ==
    /\ pc[w] = "idle" /\ DueBatch # {}
    /\ batch' = [batch EXCEPT ![w] = DueBatch]
    /\ early' = [early EXCEPT ![w] = {c \in Contact : optOut(c)}]
    /\ Goto(w, "column")
    /\ UNCHANGED <<tables, sequences, now, client, optSeen, desired, provider, faults>>

ReadOptOut(w) ==
    /\ pc[w] = "column"
    /\ optSeen' = [optSeen EXCEPT ![w] = optOut(ContactOf[Current(w)])]
    /\ Goto(w, "rules")
    /\ StayOn(w)
    /\ UNCHANGED <<tables, sequences, now, client, desired, provider, faults>>

DecidePolicy(w) ==
    /\ pc[w] = "rules"
    /\ IF DecideSendPolicyBlocks(optSeen[w], SegmentOf[ContactOf[Current(w)]], rules)
       THEN desired' = [desired EXCEPT ![w] = "blocked"] /\ Goto(w, "mark")
       ELSE desired' = desired /\ Goto(w, "context")
    /\ StayOn(w)
    /\ UNCHANGED <<tables, sequences, now, client, optSeen, provider, faults>>

(* Seeded bug: the sequence is marked as sent before the provider is asked. *)
DispatchMarksFirst(w) ==
    /\ pc[w] = "context"
    /\ LET verdict == DispatchVerdict(client[w], CampaignRowOf(w), ContactRowOf(w))
       IN  IF verdict \in {"contract_error", "send_blocked"}
           THEN NextSequence(w)
           ELSE /\ provider' = [provider EXCEPT ![w] = verdict]
                /\ Goto(w, "mark")
                /\ StayOn(w)
                /\ UNCHANGED <<optSeen, desired>>
    /\ UNCHANGED <<tables, sequences, now, client, faults>>

(* Seeded bug: an error of the dispatch ends the run. *)
DispatchOrExit(w) ==
    /\ pc[w] = "context"
    /\ LET verdict == DispatchVerdict(client[w], CampaignRowOf(w), ContactRowOf(w))
       IN  IF verdict \in {"contract_error", "send_blocked"}
           THEN EndRun(w)
           ELSE /\ provider' = [provider EXCEPT ![w] = verdict]
                /\ Goto(w, IF verdict = "mock" THEN "mark" ELSE "post")
                /\ StayOn(w)
                /\ UNCHANGED <<optSeen, desired>>
    /\ UNCHANGED <<tables, sequences, now, client, faults>>

Dispatch(w) ==
    /\ pc[w] = "context"
    /\ LET verdict == DispatchVerdict(client[w], CampaignRowOf(w), ContactRowOf(w))
       IN  IF verdict \in {"contract_error", "send_blocked"}
           THEN NextSequence(w)
           ELSE /\ provider' = [provider EXCEPT ![w] = verdict]
                /\ Goto(w, IF verdict = "mock" THEN "mark" ELSE "post")
                /\ StayOn(w)
                /\ UNCHANGED <<optSeen, desired>>
    /\ UNCHANGED <<tables, sequences, now, client, faults>>

Message(w) ==
    [id |-> MessageId(w), contact |-> ContactOf[Current(w)], corr |-> MessageId(w),
     channel |-> ReceiptChannel(provider[w], CampaignRowOf(w))]

ProviderAccepts(w) ==
    /\ pc[w] = "post"
    /\ delivered' = delivered \cup {Message(w)}
    /\ Goto(w, "mark")
    /\ StayOn(w)
    /\ UNCHANGED <<contacts, campaigns, rules, ledger, sequences, now, client,
                   optSeen, desired, provider, faults>>

(* Seeded bug: the PATCH without its state=eq.pending filter. *)
MarkUnconditionally(w) ==
    /\ pc[w] = "mark"
    /\ sequences' = [sequences EXCEPT ![Current(w)] = desired[w]]
    /\ Goto(w, "row")
    /\ StayOn(w)
    /\ UNCHANGED <<tables, now, client, optSeen, desired, provider, faults>>

(* transition_sequence_state: the PATCH moves a pending row only; when it *)
(* moved none, the row is read again and must already be as desired.      *)
Mark(w) ==
    /\ pc[w] = "mark"
    /\ IF sequences[Current(w)] = "pending"
       THEN sequences' = [sequences EXCEPT ![Current(w)] = desired[w]] /\ Goto(w, "row")
       ELSE UNCHANGED sequences /\ Goto(w, "recheck")
    /\ StayOn(w)
    /\ UNCHANGED <<tables, now, client, optSeen, desired, provider, faults>>

Recheck(w) ==
    /\ pc[w] = "recheck"
    /\ IF sequences[Current(w)] = desired[w]
       THEN Goto(w, "row") /\ StayOn(w) /\ UNCHANGED <<optSeen, desired, provider>>
       ELSE NextSequence(w)
    /\ UNCHANGED <<tables, sequences, now, client, faults>>

WriteEvidence(w) ==
    /\ pc[w] = "row"
    /\ ledger' = InsertLedgerRow(ledger, EvidenceRow(w))
    /\ NextSequence(w)
    /\ OnlyLedger
    /\ UNCHANGED <<sequences, now, client, faults>>

(* A refusal of the provider or an error of the database: it is printed   *)
(* and the run goes on with the next sequence.                            *)
Skip(w) ==
    /\ pc[w] \in Waiting /\ faults < MaxFaults
    /\ faults' = faults + 1
    /\ NextSequence(w)
    /\ UNCHANGED <<tables, sequences, now, client>>

(* The process dies, or exits on a failed fetch. *)
Crash(w) ==
    /\ pc[w] \in Waiting /\ faults < MaxFaults
    /\ faults' = faults + 1
    /\ EndRun(w)
    /\ UNCHANGED <<tables, sequences, now, client>>

Tick ==
    /\ \E s \in Sequence : s > now
    /\ now' = now + 1
    /\ UNCHANGED <<tables, sequences, pc, client, batch, optSeen, desired, provider, early, faults>>

Work(w) ==
    \/ Fetch(w) \/ ReadOptOut(w) \/ DecidePolicy(w)
    \/ Dispatch(w) \/ ProviderAccepts(w)
    \/ Mark(w) \/ Recheck(w) \/ WriteEvidence(w)

Next == Tick \/ \E w \in Slot : Work(w) \/ Skip(w) \/ Crash(w)

World ==
    /\ \/ \E new \in PolicySet : EditRules(new)
       \/ \E c \in Contact : SetOptOutColumn(c)
    /\ UNCHANGED local

Spec == Init /\ [][Next \/ World]_vars

(* The clock goes on, cron starts every slot again, and a run that is not *)
(* hit by a fault makes its next step.                                    *)
Fairness == WF_vars(Tick) /\ \A w \in Slot : WF_vars(Work(w))
FairSpec == Spec /\ Fairness

-----------------------------------------------------------------------------
TypeOK ==
    /\ contacts \in [Contact -> ContactRow]
    /\ campaigns \in [Campaign -> CampaignRow]
    /\ rules \subseteq Rule
    /\ \A i \in DOMAIN ledger : ledger[i].kind = ledger[i].key[1] /\ ledger[i].channel \in Channel \cup {"email", "whatsapp", "*"}
    /\ delivered \subseteq [id : Slot \X Sequence, corr : Slot \X Sequence, contact : Contact,
                              channel : Channel \cup {"email", "whatsapp"}]
    /\ sequences \in [Sequence -> {"pending", "sent", "blocked"}]
    /\ now \in Nat
    /\ pc \in [Slot -> Waiting \cup {"idle"}]
    /\ client \in [Slot -> Client]
    /\ batch \in [Slot -> SUBSET Sequence]
    /\ \A w \in Slot : pc[w] = "idle" <=> batch[w] = {}
    /\ optSeen \in [Slot -> BOOLEAN]
    /\ desired \in [Slot -> {"sent", "blocked"}]
    /\ provider \in [Slot -> {"", "mock", "twilio_sendgrid", "twilio_whatsapp"}]
    /\ early \in [Slot -> SUBSET Contact]
    /\ faults \in 0..MaxFaults

(* The terminal row of a sequence agrees with its state, so that no       *)
(* sequence ever has both outreach.sent and policy.blocked, whichever     *)
(* runs overlap and wherever they stop.                                   *)
TerminalRowMatchesState ==
    \A s \in Sequence : \A state \in {"sent", "blocked"} :
        HasKey(ledger, EvidenceKey(state, s)) => sequences[s] = state

(* An outreach.sent row of a real provider names a message that provider  *)
(* accepted, under the correlation the message carries: a reply to it can *)
(* be traced to the row.                                                  *)
SentRowNamesDeliveredMessage ==
    \A row \in RowsOf(ledger, "outreach.sent") :
        row.verdict # "mock" => \E m \in delivered : /\ m.corr = row.corr /\ m.contact = row.contact
                                                    /\ m.channel = row.channel

(* A contact that had opted out when a run fetched its batch gets nothing *)
(* from that run, however late in the batch its sequence comes.           *)
OptOutBeforeFetchIsHonoured ==
    [][\A w \in Slot : \A m \in delivered' \ delivered :
          m.id[1] = w => m.contact \notin early[w]]_vars

(* A sequence that can be dispatched is eventually sent or blocked,       *)
(* whatever becomes of the sequences before it.  It needs a batch limit   *)
(* that the undispatchable sequences do not fill.                         *)
Dispatchable(s) ==
    \A w \in Slot : DispatchVerdict(client[w], campaigns[CampaignOf[s]], contacts[ContactOf[s]])
                      \notin {"contract_error", "send_blocked"}
DispatchableSettles == \A s \in Sequence : Dispatchable(s) ~> sequences[s] # "pending"

=============================================================================
