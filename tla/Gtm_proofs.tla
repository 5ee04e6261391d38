----------------------------- MODULE Gtm_proofs -----------------------------
(***************************************************************************)
(* Proofs about the sequence sender: for any number of overlapping runs    *)
(* that fail and crash anywhere, the terminal row of a sequence agrees     *)
(* with its state, a sent row names a message a provider accepted, and a   *)
(* run sends nothing to a contact opted out before it began.  And about    *)
(* the loop around it, for any number of runs, calls and replies: what an  *)
(* acknowledged STOP stops, and which STOP is never turned away.           *)
(***************************************************************************)
EXTENDS Gtm, EvidenceLedger_proofs

AnyChannel == Channel \cup {"email", "whatsapp"}
Providers == {"mock", "twilio_sendgrid", "twilio_whatsapp"}
Row == [kind : {"outreach.sent", "policy.blocked"},
        key : {"outreach.sent", "policy.blocked"} \X Sequence, corr : Slot \X Sequence,
        contact : Contact, channel : AnyChannel \cup {"*"}, verdict : Providers \cup {"blocked"}, by : Slot]

(* The types of the locals of the runs, whoever runs beside them.         *)
RunTypes ==
    /\ pc \in [Slot -> Waiting \cup {"idle"}] /\ client \in [Slot -> Client]
    /\ batch \in [Slot -> SUBSET Sequence]
    /\ \A w \in Slot : pc[w] = "idle" <=> batch[w] = {}
    /\ optSeen \in [Slot -> BOOLEAN] /\ desired \in [Slot -> {"sent", "blocked"}]
    /\ provider \in [Slot -> Providers \cup {""}] /\ early \in [Slot -> SUBSET Contact]

TypeInv ==
    /\ TypeOK
    /\ ledger \in Seq(Row)

(* What a run has ascertained or done by the await it is blocked in.      *)
SlotInv(w) ==
    /\ \A c \in early[w] : optOut(c)
    /\ pc[w] \in {"idle", "column", "rules", "context", "post"} => desired[w] = "sent"
    /\ pc[w] = "rules" /\ ContactOf[Current(w)] \in early[w] => optSeen[w] = TRUE
    /\ pc[w] \in {"context", "post"} => ContactOf[Current(w)] \notin early[w]
    /\ pc[w] = "post" => provider[w] \in {"twilio_sendgrid", "twilio_whatsapp"}
    /\ pc[w] \in {"mark", "recheck", "row"} /\ desired[w] = "sent" =>
          /\ provider[w] \in Providers
          /\ provider[w] # "mock" => Message(w) \in delivered
    /\ pc[w] = "row" => sequences[Current(w)] = desired[w]

IInv ==
    /\ TypeInv
    /\ \A w \in Slot : SlotInv(w)
    /\ TerminalRowMatchesState
    /\ SentRowNamesDeliveredMessage

-----------------------------------------------------------------------------
(* A set of numbers that is not empty has a first one.                    *)
LEMMA FirstExists == ASSUME NEW S \in SUBSET Nat, S # {} PROVE \E s \in S : IsFirst(s, S)
  <1> DEFINE R == OpToRel(<, Nat)
  <1>1. IsWellFoundedOn(R, Nat)  BY NatLessThanWellFounded
  <1> HIDE DEF R
  <1>2. PICK s \in S : \A t \in S : ~(<<t, s>> \in R)  BY <1>1, WFMin
  <1>3. \A t \in S : s <= t
    <2> TAKE t \in S
    <2>1. ~(t < s)  BY <1>2 DEF R, OpToRel
    <2> QED  BY <2>1
  <1> QED  BY <1>3 DEF IsFirst

(* A run that is not idle works on a sequence of its batch.               *)
LEMMA CurrentIsInBatch ==
    ASSUME RunTypes, NEW w \in Slot, pc[w] # "idle"
    PROVE  /\ Current(w) \in batch[w] /\ Current(w) \in Sequence
           /\ ContactOf[Current(w)] \in Contact /\ CampaignOf[Current(w)] \in Campaign
  <1>1. batch[w] \in SUBSET Nat /\ batch[w] # {} /\ batch[w] \subseteq Sequence
    BY SequenceAssumption DEF RunTypes
  <1>2. \E s \in batch[w] : IsFirst(s, batch[w])  BY <1>1, FirstExists
  <1>3. Current(w) \in batch[w]
    <2>1. Current(w) = CHOOSE s \in batch[w] : IsFirst(s, batch[w])  BY DEF Current
    <2> QED  BY <1>2, <2>1
  <1> QED  BY <1>1, <1>3, SequenceAssumption

(* What the provider of a slot may be, as TypeOK spells it.                *)
AnyProvider == {"", "mock", "twilio_sendgrid", "twilio_whatsapp"}

LEMMA AnyProviderIs == Providers \cup {""} = AnyProvider
  BY DEF Providers, AnyProvider

LEMMA TypesOfRuns == TypeOK => RunTypes
  <1> SUFFICES ASSUME TypeOK PROVE RunTypes
    OBVIOUS
  <1>1. provider \in [Slot -> AnyProvider]  BY DEF TypeOK, AnyProvider
  <1>2. provider \in [Slot -> Providers \cup {""}]  BY <1>1, AnyProviderIs
  <1> QED  BY <1>2 DEF TypeOK, RunTypes

(* A dispatch that does not end with an error goes to a provider.         *)
LEMMA VerdictIsProvider ==
    ASSUME NEW c \in Client, NEW campaign, NEW contact,
           DispatchVerdict(c, campaign, contact) \notin {"contract_error", "send_blocked"}
    PROVE  DispatchVerdict(c, campaign, contact) \in Providers
  <1>1. c.configured \in {"auto", "mock", "twilio_sendgrid", "twilio_whatsapp"}
    BY ClientAssumption DEF Clients
  <1>2. EffectiveProvider(c, campaign.channel) \in Providers \cup {"contract_error", "send_blocked"}
    BY <1>1 DEF EffectiveProvider, Providers
  <1> QED  BY <1>2 DEF DispatchVerdict

LEMMA ReceiptIsTyped ==
    ASSUME NEW p \in Providers, NEW campaign \in CampaignRow
    PROVE  ReceiptChannel(p, campaign) \in AnyChannel
  BY DEF ReceiptChannel, Providers, CampaignRow, AnyChannel

-----------------------------------------------------------------------------
(* What a step leaves behind, whoever makes it: opt-outs, messages and    *)
(* settled sequences stay.                                                *)
Kept ==
    /\ campaigns' = campaigns
    /\ delivered \subseteq delivered'
    /\ \A c \in Contact : optOut(c) => optOut(c)'
    /\ \A s \in Sequence : sequences[s] # "pending" => sequences'[s] = sequences[s]

(* A run keeps its locals in a step.                                      *)
Idles(x) ==
    /\ pc'[x] = pc[x] /\ batch'[x] = batch[x] /\ optSeen'[x] = optSeen[x]
    /\ desired'[x] = desired[x] /\ provider'[x] = provider[x] /\ early'[x] = early[x]

LEMMA OthersKeep ==
    ASSUME TypeInv, Kept, NEW x \in Slot, SlotInv(x), Idles(x)
    PROVE  SlotInv(x)'
  <1>1. Current(x)' = Current(x)  BY DEF Idles, Current
  <1>2. Message(x)' = Message(x)
    BY <1>1 DEF Idles, Kept, Message, MessageId, CampaignRowOf
  <1>3. early[x] \subseteq Contact  BY DEF TypeInv, TypeOK
  <1>4. pc[x] = "row" => sequences'[Current(x)] = sequences[Current(x)]
    <2> SUFFICES ASSUME pc[x] = "row" PROVE sequences'[Current(x)] = sequences[Current(x)]
      OBVIOUS
    <2>1. Current(x) \in Sequence  BY CurrentIsInBatch, TypesOfRuns DEF TypeInv
    <2>2. sequences[Current(x)] # "pending"  BY DEF SlotInv, TypeInv, TypeOK
    <2> QED  BY <2>1, <2>2 DEF Kept
  <1> QED  BY <1>1, <1>2, <1>3, <1>4 DEF SlotInv, Idles, Kept

(* The rows there were agree with the states and the messages after it.   *)
LEMMA RowsKeep ==
    ASSUME IInv, Kept, ledger' = ledger
    PROVE  TerminalRowMatchesState' /\ SentRowNamesDeliveredMessage'
  <1>1. TerminalRowMatchesState'
    BY DEF IInv, TerminalRowMatchesState, Kept, EvidenceKey, HasKey
  <1>2. SentRowNamesDeliveredMessage'
    BY DEF IInv, SentRowNamesDeliveredMessage, Kept, RowsOf
  <1> QED  BY <1>1, <1>2

(* It is enough to look at the run that makes a step without a row.       *)
LEMMA StepSuffices ==
    ASSUME IInv, TypeInv', Kept, ledger' = ledger, NEW w \in Slot, SlotInv(w)',
           \A x \in Slot \ {w} : Idles(x)
    PROVE  IInv'
  <1>1. \A x \in Slot : SlotInv(x)'
    <2> TAKE x \in Slot
    <2>1. CASE x = w  BY <2>1
    <2>2. CASE x # w  BY <2>2, OthersKeep DEF IInv
    <2> QED  BY <2>1, <2>2
  <1> QED  BY <1>1, RowsKeep DEF IInv

LEMMA InitIInv == Init => IInv
  <1> SUFFICES ASSUME Init PROVE IInv
    OBVIOUS
  <1>1. ledger \in Seq(Row) /\ DOMAIN ledger = {}
    <2>1. ledger = <<>>  BY DEF Init
    <2> QED  BY <2>1, EmptySeq
  <1>2. TypeInv
    <2>1. \A w \in Slot : pc[w] = "idle" <=> batch[w] = {}  BY DEF Init
    <2>2. optSeen \in [Slot -> BOOLEAN]  BY DEF Init
    <2>3. pc \in [Slot -> Waiting \cup {"idle"}] /\ batch \in [Slot -> SUBSET Sequence]
          /\ early \in [Slot -> SUBSET Contact]
      BY DEF Init
    <2>4. faults \in 0..MaxFaults
      <3>1. faults = 0  BY DEF Init
      <3> QED  BY <3>1, LimitAssumption
    <2> QED  BY <1>1, <2>1, <2>2, <2>3, <2>4 DEF Init, TypeInv, TypeOK
  <1>3. ASSUME NEW w \in Slot PROVE SlotInv(w)
    <2>1. pc[w] = "idle" /\ early[w] = {} /\ desired[w] = "sent"  BY DEF Init
    <2> QED  BY <2>1 DEF SlotInv
  <1>4. TerminalRowMatchesState /\ SentRowNamesDeliveredMessage
    BY <1>1 DEF TerminalRowMatchesState, SentRowNamesDeliveredMessage, HasKey, RowsOf
  <1> QED  BY <1>2, <1>3, <1>4 DEF IInv

-----------------------------------------------------------------------------
(* The run goes on with what is left of its batch.                        *)
LEMMA GoOnMoves ==
    ASSUME RunTypes, NEW w \in Slot, NEW rest \in SUBSET batch[w], GoOnWith(w, rest), client' = client
    PROVE  /\ RunTypes' /\ \A x \in Slot \ {w} : Idles(x)
           /\ pc'[w] \in {"idle", "column"} /\ desired'[w] = "sent"
           /\ early'[w] \in SUBSET early[w]
  <1> DEFINE next == IF rest = {} THEN "idle" ELSE "column"
             kept == IF rest = {} THEN {} ELSE early[w]
  <1>1. /\ batch' = [batch EXCEPT ![w] = rest] /\ pc' = [pc EXCEPT ![w] = next]
        /\ optSeen' = [optSeen EXCEPT ![w] = FALSE] /\ desired' = [desired EXCEPT ![w] = "sent"]
        /\ provider' = [provider EXCEPT ![w] = ""]
    BY DEF GoOnWith, Goto
  <1>2. early' = [early EXCEPT ![w] = kept]
    <2>1. early \in [Slot -> SUBSET Contact]  BY DEF RunTypes
    <2> QED  BY <2>1 DEF GoOnWith
  <1>3. /\ batch \in [Slot -> SUBSET Sequence] /\ pc \in [Slot -> Waiting \cup {"idle"}]
        /\ optSeen \in [Slot -> BOOLEAN] /\ desired \in [Slot -> {"sent", "blocked"}]
        /\ provider \in [Slot -> Providers \cup {""}] /\ early \in [Slot -> SUBSET Contact]
        /\ \A x \in Slot : pc[x] = "idle" <=> batch[x] = {}
    BY DEF RunTypes
  <1>4. next \in {"idle", "column"} /\ (next = "idle" <=> rest = {}) /\ kept \in SUBSET early[w]
    OBVIOUS
  <1> HIDE DEF next, kept
  <1>5. /\ pc'[w] = next /\ batch'[w] = rest /\ desired'[w] = "sent" /\ early'[w] = kept
        /\ \A x \in Slot \ {w} : Idles(x)
    BY <1>1, <1>2, <1>3 DEF Idles
  <1>6. \A x \in Slot : pc'[x] = "idle" <=> batch'[x] = {}
    <2> TAKE x \in Slot
    <2>1. CASE x = w  BY <1>4, <1>5, <2>1
    <2>2. CASE x # w  BY <1>3, <1>5, <2>2 DEF Idles
    <2> QED  BY <2>1, <2>2
  <1>7. pc' \in [Slot -> Waiting \cup {"idle"}]  BY <1>1, <1>3, <1>4 DEF Waiting
  <1>8. /\ batch' \in [Slot -> SUBSET Sequence] /\ early' \in [Slot -> SUBSET Contact]
    BY <1>1, <1>2, <1>3, <1>4
  <1>9. RunTypes'  BY <1>1, <1>3, <1>6, <1>7, <1>8 DEF RunTypes
  <1> QED  BY <1>4, <1>5, <1>9

LEMMA GoOnKeeps ==
    ASSUME IInv, NEW w \in Slot, NEW rest \in SUBSET batch[w], GoOnWith(w, rest), client' = client
    PROVE  /\ RunTypes' /\ \A x \in Slot \ {w} : Idles(x)
           /\ Kept => SlotInv(w)'
  <1>1. RunTypes  BY TypesOfRuns DEF IInv, TypeInv
  <1>2. /\ RunTypes' /\ \A x \in Slot \ {w} : Idles(x)
        /\ pc'[w] \in {"idle", "column"} /\ desired'[w] = "sent"
        /\ early'[w] \in SUBSET early[w]
    BY <1>1, GoOnMoves
  <1>3. ASSUME Kept PROVE SlotInv(w)'
    <2>1. \A c \in early'[w] : optOut(c)'
      BY <1>1, <1>2, <1>3 DEF IInv, SlotInv, Kept, RunTypes
    <2> QED  BY <1>2, <2>1 DEF SlotInv
  <1> QED  BY <1>2, <1>3

(* A step that only ends the work on a sequence, or a whole run.          *)
LEMMA EndingKeepsIInv ==
    ASSUME IInv, NEW w \in Slot, NEW rest \in SUBSET batch[w], GoOnWith(w, rest),
           UNCHANGED <<tables, sequences, now, client>>, faults' \in 0..MaxFaults
    PROVE  IInv'
  <1>1. ledger' = ledger /\ Kept  BY DEF tables, Kept, optOut
  <1>2. TypeInv'
    <2>1. RunTypes'  BY GoOnKeeps
    <2>2. provider' \in [Slot -> AnyProvider]  BY <2>1, AnyProviderIs DEF RunTypes
    <2> QED  BY <2>1, <2>2 DEF IInv, TypeInv, TypeOK, RunTypes, tables, AnyProvider
  <1> QED  BY <1>1, <1>2, GoOnKeeps, StepSuffices

-----------------------------------------------------------------------------
(* The steps of a run on a sequence it stays on.                          *)
LEMMA StayingKeepsTypes ==
    ASSUME RunTypes, NEW w \in Slot, pc[w] # "idle", StayOn(w), NEW next \in Waiting, Goto(w, next)
    PROVE  /\ pc' = [pc EXCEPT ![w] = next] /\ pc' \in [Slot -> Waiting \cup {"idle"}] /\ pc'[w] = next
           /\ \A x \in Slot \ {w} : pc'[x] = pc[x]
           /\ batch' = batch /\ early' = early
           /\ \A x \in Slot : pc'[x] = "idle" <=> batch'[x] = {}
           /\ Current(w)' = Current(w)
  <1>1. pc' = [pc EXCEPT ![w] = next] /\ batch' = batch /\ early' = early
    BY DEF Goto, StayOn
  <1>2. pc \in [Slot -> Waiting \cup {"idle"}] /\ \A x \in Slot : pc[x] = "idle" <=> batch[x] = {}
    BY DEF RunTypes
  <1>3. pc'[w] = next /\ \A x \in Slot \ {w} : pc'[x] = pc[x]
    BY <1>1, <1>2
  <1>4. \A x \in Slot : pc'[x] = "idle" <=> batch'[x] = {}
    <2> TAKE x \in Slot
    <2>1. CASE x = w  BY <1>1, <1>2, <1>3, <2>1 DEF Waiting
    <2>2. CASE x # w  BY <1>1, <1>2, <1>3, <2>2
    <2> QED  BY <2>1, <2>2
  <1> QED  BY <1>1, <1>2, <1>3, <1>4 DEF Current

LEMMA FetchKeepsIInv == ASSUME IInv, NEW w \in Slot, Fetch(w) PROVE IInv'
  <1>1. /\ pc' = [pc EXCEPT ![w] = "column"] /\ batch' = [batch EXCEPT ![w] = DueBatch]
        /\ early' = [early EXCEPT ![w] = {c \in Contact : optOut(c)}]
        /\ UNCHANGED <<contacts, campaigns, rules, ledger, delivered,
                       sequences, now, client, optSeen, desired, provider, faults>>
        /\ DueBatch # {} /\ pc[w] = "idle"
    BY DEF Fetch, Goto, tables
  <1>2. DueBatch \subseteq Sequence  BY DEF DueBatch
  <1>3. /\ batch \in [Slot -> SUBSET Sequence] /\ pc \in [Slot -> Waiting \cup {"idle"}]
        /\ early \in [Slot -> SUBSET Contact]
        /\ \A x \in Slot : pc[x] = "idle" <=> batch[x] = {}
    BY DEF IInv, TypeInv, TypeOK
  <1> DEFINE opted == {c \in Contact : optOut(c)}
             due == DueBatch
  <1> HIDE DEF due
  <1>4. /\ pc'[w] = "column" /\ batch'[w] = due /\ early'[w] = opted
        /\ \A x \in Slot \ {w} : pc'[x] = pc[x] /\ batch'[x] = batch[x] /\ early'[x] = early[x]
    BY <1>1, <1>3 DEF due
  <1>5. /\ pc' \in [Slot -> Waiting \cup {"idle"}]  /\ batch' \in [Slot -> SUBSET Sequence]
        /\ early' \in [Slot -> SUBSET Contact]
    BY <1>1, <1>2, <1>3 DEF Waiting
  <1>6. \A x \in Slot : pc'[x] = "idle" <=> batch'[x] = {}
    <2> TAKE x \in Slot
    <2>1. CASE x = w  BY <1>1, <1>4, <2>1 DEF due
    <2>2. CASE x # w  BY <1>3, <1>4, <2>2
    <2> QED  BY <2>1, <2>2
  <1>7. TypeInv'  BY <1>1, <1>5, <1>6 DEF IInv, TypeInv, TypeOK
  <1>8. Kept /\ \A x \in Slot \ {w} : Idles(x)  BY <1>1, <1>4 DEF Kept, Idles, optOut
  <1>9. SlotInv(w)'
    <2>1. \A c \in early'[w] : optOut(c)'  BY <1>1, <1>4 DEF optOut
    <2>2. desired[w] = "sent"  BY <1>1 DEF IInv, SlotInv
    <2> QED  BY <1>1, <1>4, <2>1, <2>2 DEF SlotInv
  <1> QED  BY <1>1, <1>7, <1>8, <1>9, StepSuffices

LEMMA ReadOptOutKeepsIInv == ASSUME IInv, NEW w \in Slot, ReadOptOut(w) PROVE IInv'
  <1> DEFINE c == ContactOf[Current(w)]
  <1>1. /\ pc[w] = "column" /\ StayOn(w) /\ Goto(w, "rules")
        /\ optSeen' = [optSeen EXCEPT ![w] = optOut(c)]
        /\ UNCHANGED <<contacts, campaigns, rules, ledger, delivered,
                       sequences, now, client, desired, provider, faults>>
    BY DEF ReadOptOut, tables
  <1>2. /\ pc' \in [Slot -> Waiting \cup {"idle"}] /\ pc'[w] = "rules"
        /\ \A x \in Slot \ {w} : pc'[x] = pc[x]
        /\ batch' = batch /\ early' = early
        /\ \A x \in Slot : pc'[x] = "idle" <=> batch'[x] = {}
        /\ Current(w)' = Current(w)
    BY <1>1, StayingKeepsTypes, TypesOfRuns DEF IInv, TypeInv, Waiting
  <1>3. c \in Contact  BY <1>1, CurrentIsInBatch, TypesOfRuns DEF IInv, TypeInv
  <1>4. optOut(c) \in BOOLEAN
    BY <1>3 DEF optOut, IInv, TypeInv, TypeOK, ContactRow
  <1> HIDE DEF c
  <1>5. optSeen \in [Slot -> BOOLEAN]  BY DEF IInv, TypeInv, TypeOK
  <1>6. optSeen' \in [Slot -> BOOLEAN] /\ optSeen'[w] = optOut(c)
        /\ \A x \in Slot \ {w} : optSeen'[x] = optSeen[x]
    BY <1>1, <1>4, <1>5
  <1>7. TypeInv'  BY <1>1, <1>2, <1>6 DEF IInv, TypeInv, TypeOK
  <1>8. Kept /\ \A x \in Slot \ {w} : Idles(x)  BY <1>1, <1>2, <1>6 DEF Kept, Idles, optOut
  <1>9. SlotInv(w)'
    <2>1. \A d \in early[w] : optOut(d) /\ optOut(d)'  BY <1>1 DEF IInv, SlotInv, optOut
    <2>2. desired[w] = "sent"  BY <1>1 DEF IInv, SlotInv
    <2>3. c \in early[w] => optSeen'[w] = TRUE  BY <1>4, <1>6, <2>1
    <2> QED  BY <1>1, <1>2, <2>1, <2>2, <2>3 DEF SlotInv, c
  <1> QED  BY <1>1, <1>7, <1>8, <1>9, StepSuffices

LEMMA DecidePolicyKeepsIInv == ASSUME IInv, NEW w \in Slot, DecidePolicy(w) PROVE IInv'
  <1> DEFINE c == ContactOf[Current(w)]
             blocks == DecideSendPolicyBlocks(optSeen[w], SegmentOf[c], rules)
             next == IF blocks THEN "mark" ELSE "context"
             wanted == IF blocks THEN "blocked" ELSE desired[w]
  <1>1. /\ pc[w] = "rules" /\ StayOn(w)
        /\ UNCHANGED <<contacts, campaigns, rules, ledger, delivered,
                       sequences, now, client, optSeen, provider, faults>>
    BY DEF DecidePolicy, tables
  <1>2. Goto(w, next) /\ desired' = [desired EXCEPT ![w] = wanted]
    <2>1. desired \in [Slot -> {"sent", "blocked"}]  BY DEF IInv, TypeInv, TypeOK
    <2>2. CASE blocks  BY <2>2 DEF DecidePolicy
    <2>3. CASE ~blocks
      <3>1. Goto(w, "context") /\ desired' = desired  BY <2>3 DEF DecidePolicy
      <3> QED  BY <2>1, <2>3, <3>1
    <2> QED  BY <2>2, <2>3
  <1>3. desired[w] = "sent"  BY <1>1 DEF IInv, SlotInv
  <1>4. /\ next \in {"mark", "context"}
        /\ next = "mark" => wanted = "blocked"
        /\ next = "context" => wanted = "sent" /\ optSeen[w] # TRUE
    BY <1>3 DEF DecideSendPolicyBlocks
  <1> HIDE DEF next, wanted, c, blocks
  <1>5. /\ pc' \in [Slot -> Waiting \cup {"idle"}] /\ pc'[w] = next
        /\ \A x \in Slot \ {w} : pc'[x] = pc[x]
        /\ batch' = batch /\ early' = early
        /\ \A x \in Slot : pc'[x] = "idle" <=> batch'[x] = {}
        /\ Current(w)' = Current(w)
    BY <1>1, <1>2, <1>4, StayingKeepsTypes, TypesOfRuns DEF IInv, TypeInv, Waiting
  <1>6. desired' \in [Slot -> {"sent", "blocked"}] /\ desired'[w] = wanted
        /\ \A x \in Slot \ {w} : desired'[x] = desired[x]
    <2>1. desired \in [Slot -> {"sent", "blocked"}]  BY DEF IInv, TypeInv, TypeOK
    <2> QED  BY <1>2, <1>4, <2>1
  <1>7. TypeInv'  BY <1>1, <1>5, <1>6 DEF IInv, TypeInv, TypeOK
  <1>8. Kept /\ \A x \in Slot \ {w} : Idles(x)  BY <1>1, <1>5, <1>6 DEF Kept, Idles, optOut
  <1>9. SlotInv(w)'
    <2>1. \A d \in early[w] : optOut(d)'  BY <1>1 DEF IInv, SlotInv, optOut
    <2>2. next = "context" => c \notin early[w]  BY <1>1, <1>4 DEF IInv, SlotInv, c
    <2> QED  BY <1>4, <1>5, <1>6, <2>1, <2>2 DEF SlotInv, c
  <1> QED  BY <1>1, <1>7, <1>8, <1>9, StepSuffices

LEMMA DispatchKeepsIInv == ASSUME IInv, NEW w \in Slot, Dispatch(w) PROVE IInv'
  <1> DEFINE verdict == DispatchVerdict(client[w], CampaignRowOf(w), ContactRowOf(w))
             next == IF verdict = "mock" THEN "mark" ELSE "post"
  <1>1. pc[w] = "context" /\ UNCHANGED <<tables, sequences, now, client, faults>>
    BY DEF Dispatch
  <1>2. CASE verdict \in {"contract_error", "send_blocked"}
    <2>1. GoOnWith(w, batch[w] \ {Current(w)})  BY <1>2 DEF Dispatch, NextSequence
    <2>2. faults' \in 0..MaxFaults  BY <1>1 DEF IInv, TypeInv, TypeOK
    <2>3. batch[w] \ {Current(w)} \in SUBSET batch[w]  OBVIOUS
    <2> QED  BY <1>1, <2>1, <2>2, <2>3, EndingKeepsIInv
  <1>3. CASE verdict \notin {"contract_error", "send_blocked"}
    <2>1. /\ StayOn(w) /\ Goto(w, next) /\ provider' = [provider EXCEPT ![w] = verdict]
          /\ UNCHANGED <<contacts, campaigns, rules, ledger, delivered,
                         sequences, now, client, optSeen, desired, faults>>
      BY <1>1, <1>3 DEF Dispatch, tables
    <2>2. client[w] \in Client  BY DEF IInv, TypeInv, TypeOK
    <2>3. verdict \in Providers  BY <1>3, <2>2, VerdictIsProvider
    <2>4. next \in {"mark", "post"} /\ (next = "mark" <=> verdict = "mock")  OBVIOUS
    <2> HIDE DEF verdict, next
    <2>5. /\ pc' \in [Slot -> Waiting \cup {"idle"}] /\ pc'[w] = next
          /\ \A x \in Slot \ {w} : pc'[x] = pc[x]
          /\ batch' = batch /\ early' = early
          /\ \A x \in Slot : pc'[x] = "idle" <=> batch'[x] = {}
          /\ Current(w)' = Current(w)
      BY <1>1, <2>1, <2>4, StayingKeepsTypes, TypesOfRuns DEF IInv, TypeInv, Waiting
    <2>6. provider' \in [Slot -> Providers \cup {""}] /\ provider'[w] = verdict
          /\ \A x \in Slot \ {w} : provider'[x] = provider[x]
      <3>1. provider \in [Slot -> AnyProvider]  BY DEF IInv, TypeInv, TypeOK, AnyProvider
      <3>2. provider \in [Slot -> Providers \cup {""}]  BY <3>1, AnyProviderIs
      <3> QED  BY <2>1, <2>3, <3>2
    <2>7. TypeInv'
      <3>1. provider' \in [Slot -> AnyProvider]  BY <2>6, AnyProviderIs
      <3> QED  BY <2>1, <2>5, <3>1 DEF IInv, TypeInv, TypeOK, AnyProvider
    <2>8. Kept /\ \A x \in Slot \ {w} : Idles(x)  BY <2>1, <2>5, <2>6 DEF Kept, Idles, optOut
    <2>9. SlotInv(w)'
      <3>1. \A d \in early[w] : optOut(d)'  BY <2>1 DEF IInv, SlotInv, optOut
      <3>2. desired[w] = "sent" /\ ContactOf[Current(w)] \notin early[w]
        BY <1>1 DEF IInv, SlotInv
      <3> QED  BY <2>1, <2>3, <2>4, <2>5, <2>6, <3>1, <3>2 DEF SlotInv, Providers
    <2> QED  BY <2>1, <2>7, <2>8, <2>9, StepSuffices
  <1> QED  BY <1>2, <1>3

LEMMA ProviderAcceptsKeepsIInv == ASSUME IInv, NEW w \in Slot, ProviderAccepts(w) PROVE IInv'
  <1>1. /\ pc[w] = "post" /\ StayOn(w) /\ Goto(w, "mark") /\ delivered' = delivered \cup {Message(w)}
        /\ UNCHANGED <<contacts, campaigns, rules, ledger,
                       sequences, now, client, optSeen, desired, provider, faults>>
    BY DEF ProviderAccepts
  <1>2. /\ pc' \in [Slot -> Waiting \cup {"idle"}] /\ pc'[w] = "mark"
        /\ \A x \in Slot \ {w} : pc'[x] = pc[x]
        /\ batch' = batch /\ early' = early
        /\ \A x \in Slot : pc'[x] = "idle" <=> batch'[x] = {}
        /\ Current(w)' = Current(w)
    BY <1>1, StayingKeepsTypes, TypesOfRuns DEF IInv, TypeInv, Waiting
  <1>3. /\ desired[w] = "sent" /\ provider[w] \in {"twilio_sendgrid", "twilio_whatsapp"}
        /\ \A d \in early[w] : optOut(d)
    BY <1>1 DEF IInv, SlotInv
  <1>4. Message(w) \in [id : Slot \X Sequence, corr : Slot \X Sequence, contact : Contact, channel : AnyChannel]
    <2>1. Current(w) \in Sequence /\ ContactOf[Current(w)] \in Contact /\ CampaignOf[Current(w)] \in Campaign
      BY <1>1, CurrentIsInBatch, TypesOfRuns DEF IInv, TypeInv
    <2>2. CampaignRowOf(w) \in CampaignRow  BY <2>1 DEF CampaignRowOf, IInv, TypeInv, TypeOK
    <2>3. ReceiptChannel(provider[w], CampaignRowOf(w)) \in AnyChannel
      BY <1>3, <2>2, ReceiptIsTyped DEF Providers
    <2> QED  BY <2>1, <2>3 DEF Message, MessageId
  <1>5. TypeInv'
    <2> DEFINE Messages == [id : Slot \X Sequence, corr : Slot \X Sequence, contact : Contact, channel : AnyChannel]
    <2>1. TypeOK /\ ledger \in Seq(Row)  BY DEF IInv, TypeInv
    <2>2. delivered' \in SUBSET Messages
      <3>1. delivered \in SUBSET Messages  BY <2>1 DEF TypeOK, AnyChannel
      <3> HIDE DEF Messages
      <3>2. Message(w) \in Messages  BY <1>4 DEF Messages
      <3> QED  BY <1>1, <3>1, <3>2
    <2>3. delivered' \subseteq [id : Slot \X Sequence, corr : Slot \X Sequence, contact : Contact,
                               channel : Channel \cup {"email", "whatsapp"}]
      BY <2>2 DEF AnyChannel
    <2> HIDE DEF Messages
    <2> QED  BY <1>1, <1>2, <2>1, <2>3 DEF TypeInv, TypeOK
  <1>6. Kept /\ \A x \in Slot \ {w} : Idles(x)  BY <1>1, <1>2 DEF Kept, Idles, optOut
  <1>7. Message(w)' = Message(w)  BY <1>1, <1>2 DEF Message, MessageId, CampaignRowOf
  <1>8. SlotInv(w)'
    BY <1>1, <1>2, <1>3, <1>7 DEF SlotInv, Providers, optOut
  <1> QED  BY <1>1, <1>5, <1>6, <1>8, StepSuffices

LEMMA MarkKeepsIInv == ASSUME IInv, NEW w \in Slot, Mark(w) PROVE IInv'
  <1> DEFINE s == Current(w)
             next == IF sequences[s] = "pending" THEN "row" ELSE "recheck"
             state == IF sequences[s] = "pending" THEN desired[w] ELSE sequences[s]
  <1>1. /\ pc[w] = "mark" /\ StayOn(w)
        /\ UNCHANGED <<contacts, campaigns, rules, ledger, delivered,
                       now, client, optSeen, desired, provider, faults>>
    BY DEF Mark, tables
  <1>2. s \in Sequence  BY <1>1, CurrentIsInBatch, TypesOfRuns DEF IInv, TypeInv
  <1>3. /\ sequences \in [Sequence -> {"pending", "sent", "blocked"}]
        /\ desired \in [Slot -> {"sent", "blocked"}]
    BY DEF IInv, TypeInv, TypeOK
  <1>4. Goto(w, next) /\ sequences' = [sequences EXCEPT ![s] = state]
    <2>1. CASE sequences[s] = "pending"  BY <2>1 DEF Mark
    <2>2. CASE sequences[s] # "pending"
      <3>1. Goto(w, "recheck") /\ sequences' = sequences  BY <2>2 DEF Mark
      <3> QED  BY <1>3, <2>2, <3>1
    <2> QED  BY <2>1, <2>2
  <1>5. /\ next \in {"row", "recheck"} /\ (next = "row" => state = desired[w])
        /\ sequences[s] # "pending" => state = sequences[s]
        /\ state \in {"pending", "sent", "blocked"}
    BY <1>2, <1>3
  <1> HIDE DEF next, state
  <1>6. /\ pc' \in [Slot -> Waiting \cup {"idle"}] /\ pc'[w] = next
        /\ \A x \in Slot \ {w} : pc'[x] = pc[x]
        /\ batch' = batch /\ early' = early
        /\ \A x \in Slot : pc'[x] = "idle" <=> batch'[x] = {}
        /\ Current(w)' = Current(w)
    BY <1>1, <1>4, <1>5, StayingKeepsTypes, TypesOfRuns DEF IInv, TypeInv, Waiting
  <1>7. /\ sequences' \in [Sequence -> {"pending", "sent", "blocked"}] /\ sequences'[s] = state
        /\ \A t \in Sequence : sequences[t] # "pending" => sequences'[t] = sequences[t]
    BY <1>2, <1>3, <1>4, <1>5
  <1>8. TypeInv'  BY <1>1, <1>6, <1>7 DEF IInv, TypeInv, TypeOK
  <1>9. Kept /\ \A x \in Slot \ {w} : Idles(x)  BY <1>1, <1>6, <1>7 DEF Kept, Idles, optOut
  <1>10. SlotInv(w)'
    <2>1. Message(w)' = Message(w)  BY <1>1, <1>6 DEF Message, MessageId, CampaignRowOf
    <2>2. SlotInv(w)  BY DEF IInv
    <2> QED  BY <1>1, <1>5, <1>6, <1>7, <2>1, <2>2 DEF SlotInv, optOut
  <1> QED  BY <1>1, <1>8, <1>9, <1>10, StepSuffices

LEMMA RecheckKeepsIInv == ASSUME IInv, NEW w \in Slot, Recheck(w) PROVE IInv'
  <1>1. pc[w] = "recheck" /\ UNCHANGED <<tables, sequences, now, client, faults>>
    BY DEF Recheck
  <1>2. CASE sequences[Current(w)] # desired[w]
    <2>1. GoOnWith(w, batch[w] \ {Current(w)})  BY <1>2 DEF Recheck, NextSequence
    <2>2. faults' \in 0..MaxFaults  BY <1>1 DEF IInv, TypeInv, TypeOK
    <2>3. batch[w] \ {Current(w)} \in SUBSET batch[w]  OBVIOUS
    <2> QED  BY <1>1, <2>1, <2>2, <2>3, EndingKeepsIInv
  <1>3. CASE sequences[Current(w)] = desired[w]
    <2>1. /\ StayOn(w) /\ Goto(w, "row")
          /\ UNCHANGED <<contacts, campaigns, rules, ledger, delivered,
                         sequences, now, client, optSeen, desired, provider, faults>>
      BY <1>1, <1>3 DEF Recheck, tables
    <2>2. /\ pc' \in [Slot -> Waiting \cup {"idle"}] /\ pc'[w] = "row"
          /\ \A x \in Slot \ {w} : pc'[x] = pc[x]
          /\ batch' = batch /\ early' = early
          /\ \A x \in Slot : pc'[x] = "idle" <=> batch'[x] = {}
          /\ Current(w)' = Current(w)
      BY <1>1, <2>1, StayingKeepsTypes, TypesOfRuns DEF IInv, TypeInv, Waiting
    <2>3. TypeInv'  BY <2>1, <2>2 DEF IInv, TypeInv, TypeOK
    <2>4. Kept /\ \A x \in Slot \ {w} : Idles(x)  BY <2>1, <2>2 DEF Kept, Idles, optOut
    <2>5. SlotInv(w)'
      <3>1. Message(w)' = Message(w)  BY <2>1, <2>2 DEF Message, MessageId, CampaignRowOf
      <3>2. SlotInv(w)  BY DEF IInv
      <3> QED  BY <1>1, <1>3, <2>1, <2>2, <3>1, <3>2 DEF SlotInv, optOut
    <2> QED  BY <2>1, <2>3, <2>4, <2>5, StepSuffices
  <1> QED  BY <1>2, <1>3

(* The terminal row agrees with the state the run has seen or set, and a  *)
(* sent row with the message the provider accepted.                       *)
LEMMA WriteEvidenceKeepsIInv == ASSUME IInv, NEW w \in Slot, WriteEvidence(w) PROVE IInv'
  <1> DEFINE s == Current(w)
             row == EvidenceRow(w)
             rest == batch[w] \ {s}
  <1>1. /\ pc[w] = "row" /\ ledger' = InsertLedgerRow(ledger, row) /\ GoOnWith(w, rest)
        /\ UNCHANGED <<contacts, campaigns, rules, delivered, sequences, now, client, faults>>
    BY DEF WriteEvidence, OnlyLedger, NextSequence
  <1>2. /\ s \in Sequence /\ ContactOf[s] \in Contact /\ CampaignOf[s] \in Campaign
    BY <1>1, CurrentIsInBatch, TypesOfRuns DEF IInv, TypeInv
  <1>3. /\ desired[w] \in {"sent", "blocked"} /\ sequences[s] = desired[w]
        /\ desired[w] = "sent" => /\ provider[w] \in Providers
                                  /\ provider[w] # "mock" => Message(w) \in delivered
    BY <1>1 DEF IInv, SlotInv, TypeInv, TypeOK
  <1>4. CampaignRowOf(w) \in CampaignRow  BY <1>2 DEF CampaignRowOf, IInv, TypeInv, TypeOK
  <1>5. /\ row \in Row /\ row.kind = row.key[1] /\ row.key = EvidenceKey(desired[w], s)
        /\ row.kind = "outreach.sent" /\ row.verdict # "mock" =>
              \E m \in delivered : m.corr = row.corr /\ m.contact = row.contact /\ m.channel = row.channel
    <2>1. CASE desired[w] = "sent"
      <3>1. ReceiptChannel(provider[w], CampaignRowOf(w)) \in AnyChannel
        BY <1>3, <1>4, <2>1, ReceiptIsTyped
      <3>2. row = [kind |-> "outreach.sent", key |-> <<"outreach.sent", s>>, corr |-> MessageId(w),
                   contact |-> ContactOf[s], channel |-> ReceiptChannel(provider[w], CampaignRowOf(w)),
                   verdict |-> provider[w], by |-> w]
        BY <2>1 DEF EvidenceRow, EvidenceKey
      <3>3. row \in Row  BY <1>2, <1>3, <2>1, <3>1, <3>2 DEF Row, MessageId
      <3>4. row.verdict # "mock" => Message(w) \in delivered  BY <1>3, <2>1, <3>2
      <3>5. Message(w).corr = row.corr /\ Message(w).contact = row.contact /\ Message(w).channel = row.channel
        BY <3>2 DEF Message
      <3> QED  BY <2>1, <3>2, <3>3, <3>4, <3>5 DEF EvidenceKey
    <2>2. CASE desired[w] = "blocked"
      <3>1. row = [kind |-> "policy.blocked", key |-> <<"policy.blocked", s>>, corr |-> MessageId(w),
                   contact |-> ContactOf[s], channel |-> "*", verdict |-> "blocked", by |-> w]
        BY <2>2 DEF EvidenceRow, EvidenceKey
      <3>2. row \in Row  BY <1>2, <3>1 DEF Row, MessageId
      <3> QED  BY <2>2, <3>1, <3>2 DEF EvidenceKey
    <2> QED  BY <1>3, <2>1, <2>2
  <1> HIDE DEF row, rest
  <1>6. row.key # NoKey  BY <1>5 DEF Row, NoKey
  <1>7. /\ ledger' \in Seq(Row) /\ IsExtension(ledger, ledger')
        /\ \A i \in DOMAIN ledger' : i \in DOMAIN ledger \/ (i = Len(ledger) + 1 /\ ledger'[i] = row)
    BY <1>1, <1>5, InsertExtends DEF IInv, TypeInv
  <1>8. \A i \in DOMAIN ledger' : (i \in DOMAIN ledger /\ ledger'[i] = ledger[i]) \/ ledger'[i] = row
    BY <1>7 DEF IsExtension
  <1>9. rest \in SUBSET batch[w]  BY DEF rest
  <1>10. Kept  BY <1>1 DEF Kept, optOut
  <1>11. TypeInv'
    <2>1. \A i \in DOMAIN ledger' : /\ ledger'[i].kind = ledger'[i].key[1]
                                    /\ ledger'[i].channel \in Channel \cup {"email", "whatsapp", "*"}
      <3>1. \A i \in DOMAIN ledger : /\ ledger[i].kind = ledger[i].key[1]
                                     /\ ledger[i].channel \in Channel \cup {"email", "whatsapp", "*"}
        BY DEF IInv, TypeInv, TypeOK
      <3>2. row.channel \in Channel \cup {"email", "whatsapp", "*"}  BY <1>5 DEF Row, AnyChannel
      <3> QED  BY <1>5, <1>8, <3>1, <3>2
    <2>2. RunTypes'  BY <1>1, <1>9, GoOnKeeps
    <2>3. provider' \in [Slot -> AnyProvider]  BY <2>2, AnyProviderIs DEF RunTypes
    <2> QED  BY <1>1, <1>7, <2>1, <2>2, <2>3 DEF IInv, TypeInv, TypeOK, RunTypes, AnyProvider
  <1>12. \A x \in Slot : SlotInv(x)'
    <2> TAKE x \in Slot
    <2>1. CASE x = w  BY <1>1, <1>9, <1>10, <2>1, GoOnKeeps
    <2>2. CASE x # w
      <3>1. Idles(x)  BY <1>1, <1>9, <2>2, GoOnKeeps
      <3> QED  BY <1>10, <3>1, OthersKeep DEF IInv
    <2> QED  BY <2>1, <2>2
  <1>13. TerminalRowMatchesState'
    <2> SUFFICES ASSUME NEW t \in Sequence, NEW state \in {"sent", "blocked"},
                        HasKey(ledger', EvidenceKey(state, t))
                 PROVE  sequences'[t] = state
      BY DEF TerminalRowMatchesState, EvidenceKey, HasKey
    <2>1. PICK i \in DOMAIN ledger' : ledger'[i].key = EvidenceKey(state, t)  BY DEF HasKey
    <2>2. CASE i \in DOMAIN ledger /\ ledger'[i] = ledger[i]
      <3>1. HasKey(ledger, EvidenceKey(state, t))  BY <2>1, <2>2 DEF HasKey
      <3> QED  BY <1>1, <3>1 DEF IInv, TerminalRowMatchesState
    <2>3. CASE ledger'[i] = row
      <3>1. EvidenceKey(state, t) = EvidenceKey(desired[w], s)  BY <1>5, <2>1, <2>3
      <3>2. state = desired[w] /\ t = s  BY <1>3, <3>1 DEF EvidenceKey
      <3> QED  BY <1>1, <1>3, <3>2
    <2> QED  BY <1>8, <2>1, <2>2, <2>3
  <1>14. SentRowNamesDeliveredMessage'
    <2> SUFFICES ASSUME NEW i \in DOMAIN ledger', ledger'[i].kind = "outreach.sent", ledger'[i].verdict # "mock"
                 PROVE  \E m \in delivered : /\ m.corr = ledger'[i].corr /\ m.contact = ledger'[i].contact
                                             /\ m.channel = ledger'[i].channel
      BY <1>1 DEF SentRowNamesDeliveredMessage, RowsOf
    <2>1. CASE i \in DOMAIN ledger /\ ledger'[i] = ledger[i]
      BY <2>1 DEF IInv, SentRowNamesDeliveredMessage, RowsOf
    <2>2. CASE ledger'[i] = row  BY <1>5, <2>2
    <2> QED  BY <1>8, <2>1, <2>2
  <1> QED  BY <1>11, <1>12, <1>13, <1>14 DEF IInv

LEMMA WorldKeepsIInv == ASSUME IInv, World \/ Tick \/ UNCHANGED vars PROVE IInv'
  <1>1. /\ ledger' = ledger
        /\ UNCHANGED <<campaigns, delivered, sequences, pc, client, batch, optSeen, desired, provider, early, faults>>
    BY DEF World, Tick, vars, tables, local, EditRules, SetOptOutColumn
  <1>2. contacts' \in [Contact -> ContactRow] /\ \A c \in Contact : optOut(c) => optOut(c)'
    <2>1. contacts \in [Contact -> ContactRow]  BY DEF IInv, TypeInv, TypeOK
    <2>2. CASE \E c \in Contact : SetOptOutColumn(c)
      <3>1. PICK c \in Contact : contacts' = [contacts EXCEPT ![c].optOut = TRUE]
        BY <2>2 DEF SetOptOutColumn
      <3>2. contacts' \in [Contact -> ContactRow]  BY <2>1, <3>1 DEF ContactRow
      <3>3. contacts'[c].optOut = TRUE /\ \A d \in Contact \ {c} : contacts'[d] = contacts[d]
        BY <2>1, <3>1 DEF ContactRow
      <3>4. \A d \in Contact : contacts'[d] # NoRow  BY <3>2 DEF ContactRow, NoRow
      <3> QED  BY <3>2, <3>3, <3>4 DEF optOut
    <2>3. CASE contacts' = contacts  BY <2>1, <2>3 DEF optOut
    <2> QED
      BY <2>2, <2>3 DEF World, Tick, vars, tables, EditRules
  <1>3. rules' \subseteq Rule
    <2>1. rules \subseteq Rule  BY DEF IInv, TypeInv, TypeOK
    <2> QED  BY <2>1, PolicySetAssumption DEF World, Tick, vars, tables, EditRules, SetOptOutColumn, Rule
  <1>4. now' \in Nat
    <2>1. now \in Nat  BY DEF IInv, TypeInv, TypeOK
    <2> QED  BY <2>1 DEF World, local, Tick, vars
  <1>5. TypeInv'  BY <1>1, <1>2, <1>3, <1>4 DEF IInv, TypeInv, TypeOK
  <1>6. Kept /\ \A x \in Slot : Idles(x)  BY <1>1, <1>2 DEF Kept, Idles
  <1>7. \A x \in Slot : SlotInv(x)'  BY <1>6, OthersKeep DEF IInv
  <1> QED  BY <1>1, <1>5, <1>6, <1>7, RowsKeep DEF IInv

LEMMA NextIInv == IInv /\ [Next \/ World]_vars => IInv'
  <1> SUFFICES ASSUME IInv, [Next \/ World]_vars PROVE IInv'
    OBVIOUS
  <1>1. ASSUME NEW w \in Slot, Work(w) PROVE IInv'
    <2>1. CASE Fetch(w) \/ ReadOptOut(w) \/ DecidePolicy(w) \/ Dispatch(w)
      BY <2>1, FetchKeepsIInv, ReadOptOutKeepsIInv, DecidePolicyKeepsIInv, DispatchKeepsIInv
    <2>2. CASE ProviderAccepts(w) \/ Mark(w) \/ Recheck(w) \/ WriteEvidence(w)
      BY <2>2, ProviderAcceptsKeepsIInv, MarkKeepsIInv, RecheckKeepsIInv, WriteEvidenceKeepsIInv
    <2> QED  BY <1>1, <2>1, <2>2 DEF Work
  <1>2. ASSUME NEW w \in Slot, Skip(w) \/ Crash(w) PROVE IInv'
    <2>1. faults' \in 0..MaxFaults
      <3>1. faults \in 0..MaxFaults /\ faults < MaxFaults /\ faults' = faults + 1
        BY <1>2 DEF Skip, Crash, IInv, TypeInv, TypeOK
      <3> QED  BY <3>1, LimitAssumption
    <2>2. PICK rest \in SUBSET batch[w] : GoOnWith(w, rest)
      BY <1>2 DEF Skip, Crash, NextSequence, EndRun
    <2>3. UNCHANGED <<tables, sequences, now, client>>  BY <1>2 DEF Skip, Crash
    <2> QED  BY <2>1, <2>2, <2>3, EndingKeepsIInv
  <1>3. CASE World \/ Tick \/ UNCHANGED vars  BY <1>3, WorldKeepsIInv
  <1> QED  BY <1>1, <1>2, <1>3 DEF Next

LEMMA SpecIInv == Spec => []IInv
  BY InitIInv, NextIInv, PTL DEF Spec

-----------------------------------------------------------------------------
(* The tables and the runs of the sender keep their types.                *)
THEOREM SenderTypeCorrect == Spec => []TypeOK
  <1>1. IInv => TypeOK  BY DEF IInv, TypeInv
  <1> QED  BY <1>1, SpecIInv, PTL

(* No sequence has both outreach.sent and policy.blocked: a terminal row  *)
(* agrees with the state (transition_sequence_state before the row).      *)
THEOREM RowsMatchStates == Spec => []TerminalRowMatchesState
  <1>1. IInv => TerminalRowMatchesState  BY DEF IInv
  <1> QED  BY <1>1, SpecIInv, PTL

(* A sent row names a message its provider accepted, under the            *)
(* correlation the message carries (record_outreach_sent).                *)
THEOREM SentRowsAreDelivered == Spec => []SentRowNamesDeliveredMessage
  <1>1. IInv => SentRowNamesDeliveredMessage  BY DEF IInv
  <1> QED  BY <1>1, SpecIInv, PTL

(* A run delivers nothing to a contact that had opted out when it fetched *)
(* its batch (decide_send_policy before every dispatch).                  *)
THEOREM EarlyOptOutsAreHonoured == Spec => OptOutBeforeFetchIsHonoured
  <1> DEFINE Honoured == \A w \in Slot : \A m \in delivered' \ delivered :
                            m.id[1] = w => m.contact \notin early[w]
  <1>1. ASSUME IInv, [Next \/ World]_vars PROVE [Honoured]_vars
    <2> SUFFICES ASSUME NEW w \in Slot, NEW m \in delivered' \ delivered, m.id[1] = w
                 PROVE  m.contact \notin early[w]
      OBVIOUS
    <2>1. PICK v \in Slot : ProviderAccepts(v)
      BY <1>1 DEF Next, Work, Fetch, ReadOptOut, DecidePolicy, Dispatch, Mark, Recheck, WriteEvidence,
                  OnlyLedger, Skip, Crash, Tick, World, EditRules, SetOptOutColumn, vars, tables
    <2>2. m = Message(v)  BY <2>1 DEF ProviderAccepts
    <2>3. m.id = <<v, Current(v)>> /\ m.contact = ContactOf[Current(v)]  BY <2>2 DEF Message, MessageId
    <2>4. v = w  BY <2>3
    <2>5. ContactOf[Current(v)] \notin early[v]  BY <1>1, <2>1 DEF IInv, SlotInv, ProviderAccepts
    <2> QED  BY <2>3, <2>4, <2>5
  <1> QED  BY <1>1, SpecIInv, PTL DEF Spec, OptOutBeforeFetchIsHonoured

-----------------------------------------------------------------------------
(* The loop.  What a run dispatches for a sequence goes out on the channel *)
(* its process and the campaign decide: a message and a row of one         *)
(* dispatch agree on it, in whatever order they come about.               *)
DispatchChannel(w, s) ==
    LET campaign == campaigns[CampaignOf[s]]
    IN  ReceiptChannel(EffectiveProvider(client[w], campaign.channel), campaign)

IsDispatch(d) ==
    \E w \in Slot, s \in Sequence :
        d.corr = <<w, s>> /\ d.contact = ContactOf[s] /\ d.channel = DispatchChannel(w, s)

(* The table is a sequence, of whatever rows there are.                   *)
IsTable(L) == L \in Seq({L[i] : i \in DOMAIN L})

(* A post adds at most its row.                                           *)
Grown(L, M, row) ==
    /\ IsTable(M)
    /\ \A kind : RowsOf(M, kind) \subseteq RowsOf(L, kind) \cup {row}
    /\ \A kind : row.kind # kind => RowsOf(M, kind) \subseteq RowsOf(L, kind)

Stops == {Stop(m) : m \in delivered}

CallTypes ==
    /\ callPc \in [Request -> Outbound!Pc]
    /\ callInput \in [Request -> Outbound!Input \cup {Outbound!NoInput}]
    /\ reason \in [Request -> Outbound!Reason \cup {""}]
    /\ \A r \in Request : callPc[r] # "idle" => callInput[r] \in Outbound!Input

ReplyTypes ==
    /\ replyPc \in [Handler -> Reply!Pc]
    /\ replyInput \in [Handler -> Stops \cup {Reply!NoMessage}]
    /\ \A h \in Handler : replyPc[h] # "idle" => replyInput[h] \in Stops

TableTypes ==
    /\ contacts \in [Contact -> ContactRow] /\ campaigns \in [Campaign -> CampaignRow]
    /\ IsTable(ledger)
    /\ \A m \in delivered : m.contact \in Contact

(* What a contact whose STOP was acknowledged before the run began still   *)
(* has ahead of it, and the provider of the dispatch under way.           *)
RunInv(w) ==
    /\ pc[w] = "rules" /\ ContactOf[Current(w)] \in ackedBefore[w] => optSeen[w] = TRUE
    /\ pc[w] \in {"context", "post"} => ContactOf[Current(w)] \notin ackedBefore[w]
    /\ pc[w] = "post" \/ (pc[w] \in {"mark", "recheck", "row"} /\ desired[w] = "sent") =>
          provider[w] = EffectiveProvider(client[w], CampaignRowOf(w).channel)

Passed == {"rules", "policy", "admit", "context", "post"}

CallInv(r) ==
    /\ callPc[r] = "optLedger" /\ callInput[r].contact \in ackedBefore[r] => reason[r] = "optout_active"
    /\ callPc[r] \in Passed => callInput[r].contact \notin ackedBefore[r]

(* The column is set before the provider of the reply is answered.        *)
ReplyInv(h) == replyPc[h] \in {"optedOut", "asserted", "answered"} => optOut(replyInput[h].from)

AckedInv ==
    /\ ackedBefore \in [Request \cup Slot -> SUBSET Contact]
    /\ \A x \in Request \cup Slot : \A c \in ackedBefore[x] : optOut(c)

(* Every message of the sender, and every row it wrote, is of a dispatch. *)
TraceInv ==
    /\ \A m \in delivered : m.corr \in Corr \/ IsDispatch(m)
    /\ \A row \in RowsOf(ledger, "outreach.sent") : IsDispatch(row)

LoopInv ==
    /\ TableTypes /\ RunTypes /\ CallTypes /\ ReplyTypes
    /\ AckedInv /\ TraceInv
    /\ \A w \in Slot : RunInv(w)
    /\ \A r \in Request : CallInv(r)
    /\ \A h \in Handler : ReplyInv(h)

-----------------------------------------------------------------------------
(* What a step of the loop leaves behind, whoever makes it.               *)
Stays ==
    /\ campaigns' = campaigns /\ client' = client
    /\ delivered \subseteq delivered'
    /\ \A c \in Contact : optOut(c) => optOut(c)'

CallIdles(r) == callPc'[r] = callPc[r] /\ callInput'[r] = callInput[r] /\ reason'[r] = reason[r]
ReplyIdles(h) == replyPc'[h] = replyPc[h] /\ replyInput'[h] = replyInput[h]

LEMMA DispatchStays == ASSUME Stays, NEW d, IsDispatch(d) PROVE IsDispatch(d)'
  BY DEF Stays, IsDispatch, DispatchChannel

(* Whoever was told that a STOP was taken, the column has it.             *)
LEMMA AckedAreOptedOut ==
    ASSUME LoopInv, NEW c \in Acked
    PROVE  c \in Contact /\ optOut(c)
  <1>1. PICK h \in Handler : replyPc[h] = "answered" /\ c = replyInput[h].from  BY DEF Acked
  <1>2. replyInput[h] \in Stops  BY <1>1 DEF LoopInv, ReplyTypes
  <1>3. PICK m \in delivered : replyInput[h] = Stop(m)  BY <1>2 DEF Stops
  <1>4. c \in Contact  BY <1>1, <1>3 DEF Stop, LoopInv, TableTypes
  <1> QED  BY <1>1, <1>4 DEF LoopInv, ReplyInv

(* What runs and calls remember is true, and does not change while they   *)
(* are under way.                                                         *)
LEMMA RememberKeeps ==
    ASSUME LoopInv, Stays, Remember
    PROVE  /\ AckedInv'
           /\ \A w \in Slot : pc[w] # "idle" \/ pc'[w] = "idle" => ackedBefore'[w] = ackedBefore[w]
           /\ \A r \in Request : callPc[r] # "idle" \/ callPc'[r] = "idle" =>
                 ackedBefore'[r] = ackedBefore[r]
  <1> DEFINE begins(x) == \/ x \in Request /\ callPc[x] = "idle" /\ callPc'[x] # "idle"
                          \/ x \in Slot /\ pc[x] = "idle" /\ pc'[x] # "idle"
             next(x) == IF begins(x) THEN Acked ELSE ackedBefore[x]
  <1>1. ackedBefore' = [x \in Request \cup Slot |-> next(x)]  BY DEF Remember
  <1>2. ASSUME NEW x \in Request \cup Slot
        PROVE  next(x) \in SUBSET Contact /\ \A c \in next(x) : optOut(c)
    <2>1. CASE begins(x)  BY <2>1, AckedAreOptedOut
    <2>2. CASE ~begins(x)  BY <2>2 DEF LoopInv, AckedInv
    <2> QED  BY <2>1, <2>2
  <1>3. ASSUME NEW w \in Slot, pc[w] # "idle" \/ pc'[w] = "idle" PROVE next(w) = ackedBefore[w]
    BY <1>3, IdAssumption
  <1>4. ASSUME NEW r \in Request, callPc[r] # "idle" \/ callPc'[r] = "idle"
        PROVE  next(r) = ackedBefore[r]
    BY <1>4, IdAssumption
  <1> HIDE DEF next
  <1>5. AckedInv'
    <2>1. ackedBefore' \in [Request \cup Slot -> SUBSET Contact]  BY <1>1, <1>2
    <2>2. ASSUME NEW x \in Request \cup Slot, NEW c \in ackedBefore'[x] PROVE optOut(c)'
      <3>1. c \in Contact /\ optOut(c)  BY <1>1, <1>2, <2>2
      <3> QED  BY <3>1 DEF Stays
    <2> QED  BY <2>1, <2>2 DEF AckedInv
  <1> QED  BY <1>1, <1>3, <1>4, <1>5

(* Runs, calls and replies that do nothing in a step keep what they had.  *)
LEMMA RunKeeps ==
    ASSUME LoopInv, Stays, Remember, NEW x \in Slot, Idles(x)
    PROVE  RunInv(x)'
  <1>1. Current(x)' = Current(x)  BY DEF Idles, Current
  <1>2. CampaignRowOf(x)' = CampaignRowOf(x)  BY <1>1 DEF Stays, CampaignRowOf
  <1>3. pc[x] # "idle" => ackedBefore'[x] = ackedBefore[x]  BY RememberKeeps
  <1>4. RunInv(x)  BY DEF LoopInv
  <1> QED  BY <1>1, <1>2, <1>3, <1>4 DEF RunInv, Idles, Stays

LEMMA CallKeeps ==
    ASSUME LoopInv, Stays, Remember, NEW x \in Request, CallIdles(x)
    PROVE  CallInv(x)'
  <1>1. callPc[x] # "idle" => ackedBefore'[x] = ackedBefore[x]  BY RememberKeeps
  <1>2. CallInv(x)  BY DEF LoopInv
  <1> QED  BY <1>1, <1>2 DEF CallInv, CallIdles, Passed

LEMMA ReplyKeeps ==
    ASSUME LoopInv, Stays, NEW x \in Handler, ReplyIdles(x)
    PROVE  ReplyInv(x)'
  <1> SUFFICES ASSUME replyPc[x] \in {"optedOut", "asserted", "answered"}
               PROVE  ReplyInv(x)'
    BY DEF ReplyInv, ReplyIdles
  <1>1. PICK c : c = replyInput[x].from  OBVIOUS
  <1>2. optOut(c)  BY <1>1 DEF LoopInv, ReplyInv
  <1>3. replyInput[x] \in Stops  BY DEF LoopInv, ReplyTypes
  <1>4. c \in Contact  BY <1>1, <1>3 DEF Stops, Stop, LoopInv, TableTypes
  <1>5. optOut(c)'  BY <1>2, <1>4 DEF Stays
  <1> QED  BY <1>1, <1>5 DEF ReplyInv, ReplyIdles, optOut

(* The messages there were, and the rows.                                 *)
LEMMA TraceKeeps ==
    ASSUME LoopInv, Stays,
           \A m \in delivered' \ delivered : m.corr \in Corr \/ IsDispatch(m)',
           \A row \in RowsOf(ledger, "outreach.sent")' \ RowsOf(ledger, "outreach.sent") : IsDispatch(row)'
    PROVE  TraceInv'
  <1>1. ASSUME NEW m \in delivered' PROVE m.corr \in Corr \/ IsDispatch(m)'
    <2>1. CASE m \in delivered  BY <2>1, DispatchStays DEF LoopInv, TraceInv
    <2>2. CASE m \notin delivered  BY <2>2
    <2> QED  BY <2>1, <2>2
  <1>2. ASSUME NEW row \in RowsOf(ledger, "outreach.sent")' PROVE IsDispatch(row)'
    <2>1. CASE row \in RowsOf(ledger, "outreach.sent")
      BY <2>1, DispatchStays DEF LoopInv, TraceInv
    <2>2. CASE row \notin RowsOf(ledger, "outreach.sent")  BY <2>2
    <2> QED  BY <2>1, <2>2
  <1> QED  BY <1>1, <1>2 DEF TraceInv

(* What posting a row does to a table of any rows.                        *)
LEMMA TableGrows ==
    ASSUME NEW L, IsTable(L), NEW row, NEW M, M = InsertLedgerRow(L, row)
    PROVE  Grown(L, M, row)
  <1> DEFINE old == {L[i] : i \in DOMAIN L}
             Rows == old \cup {row}
  <1>1. L \in Seq(old) /\ Len(L) \in Nat /\ DOMAIN L = 1..Len(L)  BY DEF IsTable
  <1>2. L \in Seq(Rows)
    <2>1. \A i \in 1..Len(L) : L[i] \in Rows  BY <1>1
    <2>2. L = [i \in 1..Len(L) |-> L[i]]  BY <1>1
    <2> HIDE DEF Rows
    <2> QED  BY <1>1, <2>1, <2>2
  <1> HIDE DEF Rows
  <1>3. row \in Rows  BY DEF Rows
  <1>4. /\ M \in Seq(Rows) /\ IsExtension(L, M)
        /\ \A i \in DOMAIN M : i \in DOMAIN L \/ (i = Len(L) + 1 /\ M[i] = row)
    BY <1>2, <1>3, InsertExtends
  <1>5. M \in Seq({M[i] : i \in DOMAIN M})
    <2>1. Len(M) \in Nat /\ DOMAIN M = 1..Len(M)  BY <1>4
    <2>2. PICK seen : seen = {M[i] : i \in DOMAIN M}  OBVIOUS
    <2>3. \A i \in 1..Len(M) : M[i] \in seen  BY <2>1, <2>2
    <2>4. M = [i \in 1..Len(M) |-> M[i]]  BY <1>4, <2>1
    <2>5. M \in Seq(seen)  BY <2>1, <2>3, <2>4
    <2> QED  BY <2>2, <2>5
  <1>6. \A i \in DOMAIN M : (i \in DOMAIN L /\ M[i] = L[i]) \/ M[i] = row
    BY <1>4 DEF IsExtension
  <1> QED  BY <1>5, <1>6 DEF RowsOf, Grown, IsTable

-----------------------------------------------------------------------------
(* A step of the sender in the loop.  It is enough to look at the run that *)
(* makes it, and at what it adds to the messages and the rows.            *)
LEMMA RunSuffices ==
    ASSUME LoopInv, Remember, UNCHANGED <<call, reply>>, contacts' = contacts, campaigns' = campaigns,
           NEW w \in Slot, RunTypes', client' = client, \A x \in Slot \ {w} : Idles(x),
           Stays /\ AckedInv' => RunInv(w)',
           IsTable(ledger'),
           delivered \subseteq delivered',
           \A m \in delivered' \ delivered : m.contact \in Contact /\ IsDispatch(m)',
           \A row \in RowsOf(ledger, "outreach.sent")' \ RowsOf(ledger, "outreach.sent") : IsDispatch(row)'
    PROVE  LoopInv'
  <1>1. Stays  BY DEF Stays, optOut
  <1>2. /\ callPc' = callPc /\ callInput' = callInput /\ reason' = reason
        /\ replyPc' = replyPc /\ replyInput' = replyInput
    BY DEF call, reply
  <1>3. AckedInv'  BY <1>1, RememberKeeps
  <1>4. TraceInv'  BY <1>1, TraceKeeps
  <1>5. TableTypes'  BY DEF LoopInv, TableTypes
  <1>6. CallTypes'  BY <1>2 DEF LoopInv, CallTypes
  <1>7. ReplyTypes'  BY <1>2 DEF LoopInv, ReplyTypes, Stops
  <1>8. \A x \in Slot : RunInv(x)'
    <2> TAKE x \in Slot
    <2>1. CASE x = w  BY <1>1, <1>3, <2>1
    <2>2. CASE x # w  BY <1>1, <2>2, RunKeeps
    <2> QED  BY <2>1, <2>2
  <1>9. \A r \in Request : CallInv(r)'  BY <1>1, <1>2, CallKeeps DEF CallIdles
  <1>10. \A h \in Handler : ReplyInv(h)'  BY <1>1, <1>2, ReplyKeeps DEF ReplyIdles
  <1> QED  BY <1>3, <1>4, <1>5, <1>6, <1>7, <1>8, <1>9, <1>10 DEF LoopInv

(* A step of a run that posts nothing and sends nothing.                  *)
LEMMA QuietRunSuffices ==
    ASSUME LoopInv, Remember, UNCHANGED <<call, reply>>, UNCHANGED tables,
           NEW w \in Slot, RunTypes', client' = client, \A x \in Slot \ {w} : Idles(x),
           Stays /\ AckedInv' => RunInv(w)'
    PROVE  LoopInv'
  <1>1. /\ contacts' = contacts /\ campaigns' = campaigns /\ ledger' = ledger
        /\ delivered' = delivered
    BY DEF tables
  <1>2. IsTable(ledger')
    BY <1>1 DEF LoopInv, TableTypes
  <1>3. RowsOf(ledger, "outreach.sent")' = RowsOf(ledger, "outreach.sent")  BY <1>1 DEF RowsOf
  <1> QED  BY <1>1, <1>2, <1>3, RunSuffices

LEMMA TickInLoop ==
    ASSUME LoopInv, Remember, UNCHANGED <<call, reply>>, Tick
    PROVE  LoopInv'
  <1>1. /\ UNCHANGED tables
        /\ UNCHANGED <<pc, client, batch, optSeen, desired, provider, early>>
    BY DEF Tick
  <1>2. Stays /\ RunTypes' /\ \A x \in Slot : Idles(x)
    BY <1>1 DEF Stays, tables, optOut, LoopInv, RunTypes, Idles
  <1>3. \A x \in Slot : RunInv(x)'  BY <1>2, RunKeeps
  <1>4. TableTypes'  BY <1>1 DEF LoopInv, TableTypes, tables
  <1>5. /\ callPc' = callPc /\ callInput' = callInput /\ reason' = reason
        /\ replyPc' = replyPc /\ replyInput' = replyInput
    BY DEF call, reply
  <1>6. CallTypes' /\ ReplyTypes'  BY <1>1, <1>5 DEF LoopInv, CallTypes, ReplyTypes, Stops, tables
  <1>7. RowsOf(ledger, "outreach.sent")' = RowsOf(ledger, "outreach.sent") /\ delivered' = delivered
    BY <1>1 DEF RowsOf, tables
  <1>8. TraceInv'  BY <1>2, <1>7, TraceKeeps
  <1>9. AckedInv'  BY <1>2, RememberKeeps
  <1>10. \A r \in Request : CallInv(r)'  BY <1>2, <1>5, CallKeeps DEF CallIdles
  <1>11. \A h \in Handler : ReplyInv(h)'  BY <1>2, <1>5, ReplyKeeps DEF ReplyIdles
  <1> QED  BY <1>2, <1>3, <1>4, <1>6, <1>8, <1>9, <1>10, <1>11 DEF LoopInv

LEMMA FetchInLoop ==
    ASSUME LoopInv, Remember, UNCHANGED <<call, reply>>, NEW w \in Slot, Fetch(w)
    PROVE  LoopInv'
  <1> DEFINE opted == {c \in Contact : optOut(c)}
             due == DueBatch
  <1>1. /\ pc[w] = "idle" /\ due # {} /\ due \subseteq Sequence
        /\ pc' = [pc EXCEPT ![w] = "column"] /\ batch' = [batch EXCEPT ![w] = due]
        /\ early' = [early EXCEPT ![w] = opted]
        /\ UNCHANGED tables /\ UNCHANGED <<client, optSeen, desired, provider>>
    BY DEF Fetch, Goto, DueBatch
  <1>2. opted \subseteq Contact  OBVIOUS
  <1> HIDE DEF due, opted
  <1>3. RunTypes  BY DEF LoopInv
  <1>4. /\ pc'[w] = "column" /\ batch'[w] = due
        /\ \A x \in Slot \ {w} : Idles(x)
    BY <1>1, <1>3 DEF RunTypes, Idles
  <1>5. RunTypes'
    <2>1. pc' \in [Slot -> Waiting \cup {"idle"}]  BY <1>1, <1>3 DEF RunTypes, Waiting
    <2>2. batch' \in [Slot -> SUBSET Sequence] /\ early' \in [Slot -> SUBSET Contact]
      BY <1>1, <1>2, <1>3 DEF RunTypes
    <2>3. \A x \in Slot : pc'[x] = "idle" <=> batch'[x] = {}
      <3> TAKE x \in Slot
      <3>1. CASE x = w  BY <1>1, <1>4, <3>1
      <3>2. CASE x # w  BY <1>3, <1>4, <3>2 DEF Idles, RunTypes
      <3> QED  BY <3>1, <3>2
    <2> QED  BY <1>1, <1>3, <2>1, <2>2, <2>3 DEF RunTypes
  <1>6. RunInv(w)'  BY <1>4 DEF RunInv
  <1> QED  BY <1>1, <1>4, <1>5, <1>6, QuietRunSuffices

(* A run that ends its work on a sequence, or altogether.                 *)
LEMMA EndingInLoop ==
    ASSUME LoopInv, Remember, UNCHANGED <<call, reply>>, NEW w \in Slot,
           NEW rest \in SUBSET batch[w], GoOnWith(w, rest), UNCHANGED tables, client' = client
    PROVE  LoopInv'
  <1>1. RunTypes  BY DEF LoopInv
  <1>2. /\ RunTypes' /\ \A x \in Slot \ {w} : Idles(x)
        /\ pc'[w] \in {"idle", "column"}
    BY <1>1, GoOnMoves
  <1>3. RunInv(w)'  BY <1>2 DEF RunInv
  <1> QED  BY <1>2, <1>3, QuietRunSuffices

(* A run that stays on its sequence keeps the rest of it.                 *)
LEMMA StayingMoves ==
    ASSUME LoopInv, Remember, NEW w \in Slot, pc[w] # "idle", StayOn(w), NEW next \in Waiting, Goto(w, next)
    PROVE  /\ pc' \in [Slot -> Waiting \cup {"idle"}] /\ pc'[w] = next
           /\ \A x \in Slot \ {w} : pc'[x] = pc[x]
           /\ batch' = batch /\ early' = early
           /\ \A x \in Slot : pc'[x] = "idle" <=> batch'[x] = {}
           /\ Current(w)' = Current(w) /\ Current(w) \in Sequence
           /\ ContactOf[Current(w)] \in Contact /\ CampaignOf[Current(w)] \in Campaign
           /\ Stays => /\ ackedBefore'[w] = ackedBefore[w]
                       /\ CampaignRowOf(w)' = CampaignRowOf(w)
           /\ RunInv(w)
  <1>1. RunTypes /\ RunInv(w)  BY DEF LoopInv
  <1>2. /\ pc' \in [Slot -> Waiting \cup {"idle"}] /\ pc'[w] = next
        /\ \A x \in Slot \ {w} : pc'[x] = pc[x]
        /\ batch' = batch /\ early' = early
        /\ \A x \in Slot : pc'[x] = "idle" <=> batch'[x] = {}
        /\ Current(w)' = Current(w)
    BY <1>1, StayingKeepsTypes
  <1>3. /\ Current(w) \in Sequence
        /\ ContactOf[Current(w)] \in Contact /\ CampaignOf[Current(w)] \in Campaign
    BY <1>1, CurrentIsInBatch
  <1>4. Stays => ackedBefore'[w] = ackedBefore[w]  BY RememberKeeps
  <1>5. Stays => CampaignRowOf(w)' = CampaignRowOf(w)  BY <1>2 DEF Stays, CampaignRowOf
  <1> QED  BY <1>1, <1>2, <1>3, <1>4, <1>5

(* The column is read after the run began: who had stopped before is seen *)
(* to have, and is blocked.                                               *)
LEMMA ReadOptOutInLoop ==
    ASSUME LoopInv, Remember, UNCHANGED <<call, reply>>, NEW w \in Slot, ReadOptOut(w)
    PROVE  LoopInv'
  <1> DEFINE c == ContactOf[Current(w)]
  <1>1. /\ pc[w] = "column" /\ StayOn(w) /\ Goto(w, "rules")
        /\ optSeen' = [optSeen EXCEPT ![w] = optOut(c)]
        /\ UNCHANGED tables /\ UNCHANGED <<client, desired, provider>>
    BY DEF ReadOptOut
  <1>2. /\ pc' \in [Slot -> Waiting \cup {"idle"}] /\ pc'[w] = "rules"
        /\ \A x \in Slot \ {w} : pc'[x] = pc[x]
        /\ batch' = batch /\ early' = early
        /\ \A x \in Slot : pc'[x] = "idle" <=> batch'[x] = {}
        /\ Current(w)' = Current(w) /\ c \in Contact
        /\ Stays => ackedBefore'[w] = ackedBefore[w]
    BY <1>1, StayingMoves DEF Waiting
  <1>3. optOut(c) \in BOOLEAN
    BY <1>2 DEF optOut, LoopInv, TableTypes, ContactRow
  <1>4. c \in ackedBefore[w] => optOut(c)  BY DEF LoopInv, AckedInv
  <1> HIDE DEF c
  <1>5. RunTypes  BY DEF LoopInv
  <1>6. /\ optSeen' \in [Slot -> BOOLEAN] /\ optSeen'[w] = optOut(c)
        /\ \A x \in Slot \ {w} : optSeen'[x] = optSeen[x]
    BY <1>1, <1>3, <1>5 DEF RunTypes
  <1>7. RunTypes'  BY <1>1, <1>2, <1>5, <1>6 DEF RunTypes
  <1>8. \A x \in Slot \ {w} : Idles(x)  BY <1>1, <1>2, <1>6 DEF Idles
  <1>9. ASSUME Stays PROVE RunInv(w)'
    <2>1. c \in ackedBefore'[w] => optSeen'[w] = TRUE  BY <1>2, <1>3, <1>4, <1>6, <1>9
    <2> QED  BY <1>2, <2>1 DEF RunInv, c
  <1> QED  BY <1>1, <1>7, <1>8, <1>9, QuietRunSuffices

LEMMA DecidePolicyInLoop ==
    ASSUME LoopInv, Remember, UNCHANGED <<call, reply>>, NEW w \in Slot, DecidePolicy(w)
    PROVE  LoopInv'
  <1> DEFINE c == ContactOf[Current(w)]
             blocks == DecideSendPolicyBlocks(optSeen[w], SegmentOf[c], rules)
             next == IF blocks THEN "mark" ELSE "context"
             wanted == IF blocks THEN "blocked" ELSE desired[w]
  <1>1. /\ pc[w] = "rules" /\ StayOn(w)
        /\ UNCHANGED tables /\ UNCHANGED <<client, optSeen, provider>>
    BY DEF DecidePolicy
  <1>2. RunTypes  BY DEF LoopInv
  <1>3. Goto(w, next) /\ desired' = [desired EXCEPT ![w] = wanted]
    <2>1. CASE blocks  BY <2>1 DEF DecidePolicy
    <2>2. CASE ~blocks
      <3>1. Goto(w, "context") /\ desired' = desired  BY <2>2 DEF DecidePolicy
      <3> QED  BY <1>2, <2>2, <3>1 DEF RunTypes
    <2> QED  BY <2>1, <2>2
  <1>4. /\ next \in {"mark", "context"} /\ wanted \in {"sent", "blocked"}
        /\ next = "mark" => wanted = "blocked"
        /\ next = "context" => optSeen[w] # TRUE
    BY <1>2 DEF DecideSendPolicyBlocks, RunTypes
  <1> HIDE DEF next, wanted, c, blocks
  <1>5. /\ pc' \in [Slot -> Waiting \cup {"idle"}] /\ pc'[w] = next
        /\ \A x \in Slot \ {w} : pc'[x] = pc[x]
        /\ batch' = batch /\ early' = early
        /\ \A x \in Slot : pc'[x] = "idle" <=> batch'[x] = {}
        /\ Current(w)' = Current(w)
        /\ Stays => ackedBefore'[w] = ackedBefore[w]
        /\ RunInv(w)
    BY <1>1, <1>3, <1>4, StayingMoves DEF Waiting
  <1>6. desired' \in [Slot -> {"sent", "blocked"}] /\ desired'[w] = wanted
        /\ \A x \in Slot \ {w} : desired'[x] = desired[x]
    BY <1>2, <1>3, <1>4 DEF RunTypes
  <1>7. RunTypes'  BY <1>1, <1>2, <1>5, <1>6 DEF RunTypes
  <1>8. \A x \in Slot \ {w} : Idles(x)  BY <1>1, <1>5, <1>6 DEF Idles
  <1>9. ASSUME Stays PROVE RunInv(w)'
    <2>1. next = "context" => c \notin ackedBefore[w]  BY <1>1, <1>4, <1>5 DEF RunInv, c
    <2> QED  BY <1>4, <1>5, <1>6, <1>9, <2>1 DEF RunInv, c
  <1> QED  BY <1>1, <1>7, <1>8, <1>9, QuietRunSuffices

(* The verdict of a dispatch that goes on is the provider of its process  *)
(* and its campaign.                                                      *)
LEMMA VerdictIsEffective ==
    ASSUME NEW c \in Client, NEW campaign, NEW contact,
           DispatchVerdict(c, campaign, contact) \notin {"contract_error", "send_blocked"}
    PROVE  DispatchVerdict(c, campaign, contact) = EffectiveProvider(c, campaign.channel)
  BY DEF DispatchVerdict

LEMMA DispatchInLoop ==
    ASSUME LoopInv, Remember, UNCHANGED <<call, reply>>, NEW w \in Slot, Dispatch(w)
    PROVE  LoopInv'
  <1> DEFINE verdict == DispatchVerdict(client[w], CampaignRowOf(w), ContactRowOf(w))
             next == IF verdict = "mock" THEN "mark" ELSE "post"
  <1>1. pc[w] = "context" /\ UNCHANGED tables /\ client' = client
    BY DEF Dispatch
  <1>2. CASE verdict \in {"contract_error", "send_blocked"}
    <2>1. GoOnWith(w, batch[w] \ {Current(w)})  BY <1>2 DEF Dispatch, NextSequence
    <2>2. batch[w] \ {Current(w)} \in SUBSET batch[w]  OBVIOUS
    <2> QED  BY <1>1, <2>1, <2>2, EndingInLoop
  <1>3. CASE verdict \notin {"contract_error", "send_blocked"}
    <2>1. /\ StayOn(w) /\ Goto(w, next) /\ provider' = [provider EXCEPT ![w] = verdict]
          /\ UNCHANGED <<optSeen, desired>>
      BY <1>3 DEF Dispatch
    <2>2. RunTypes /\ client[w] \in Client  BY DEF LoopInv, RunTypes
    <2>3. verdict \in Providers /\ verdict = EffectiveProvider(client[w], CampaignRowOf(w).channel)
      BY <1>3, <2>2, VerdictIsProvider, VerdictIsEffective
    <2>4. next \in {"mark", "post"}  OBVIOUS
    <2> HIDE DEF verdict, next
    <2>5. /\ pc' \in [Slot -> Waiting \cup {"idle"}] /\ pc'[w] = next
          /\ \A x \in Slot \ {w} : pc'[x] = pc[x]
          /\ batch' = batch /\ early' = early
          /\ \A x \in Slot : pc'[x] = "idle" <=> batch'[x] = {}
          /\ Current(w)' = Current(w)
          /\ Stays => ackedBefore'[w] = ackedBefore[w] /\ CampaignRowOf(w)' = CampaignRowOf(w)
          /\ RunInv(w)
      BY <1>1, <2>1, <2>4, StayingMoves DEF Waiting
    <2>6. provider' \in [Slot -> Providers \cup {""}] /\ provider'[w] = verdict
          /\ \A x \in Slot \ {w} : provider'[x] = provider[x]
      BY <2>1, <2>2, <2>3 DEF RunTypes
    <2>7. RunTypes'  BY <1>1, <2>1, <2>2, <2>5, <2>6 DEF RunTypes
    <2>8. \A x \in Slot \ {w} : Idles(x)  BY <2>1, <2>5, <2>6 DEF Idles
    <2>9. ASSUME Stays PROVE RunInv(w)'
      <3>1. ContactOf[Current(w)] \notin ackedBefore[w]  BY <1>1, <2>5 DEF RunInv
      <3>2. provider'[w] = EffectiveProvider(client'[w], CampaignRowOf(w)'.channel)
        BY <1>1, <2>3, <2>5, <2>6, <2>9
      <3> QED  BY <2>4, <2>5, <2>9, <3>1, <3>2 DEF RunInv
    <2> QED  BY <1>1, <2>7, <2>8, <2>9, QuietRunSuffices
  <1> QED  BY <1>2, <1>3

(* What a run sends, and the row it writes of it, are of its dispatch.    *)
LEMMA ProviderAcceptsInLoop ==
    ASSUME LoopInv, Remember, UNCHANGED <<call, reply>>, NEW w \in Slot, ProviderAccepts(w)
    PROVE  LoopInv'
  <1>1. /\ pc[w] = "post" /\ StayOn(w) /\ Goto(w, "mark") /\ delivered' = delivered \cup {Message(w)}
        /\ contacts' = contacts /\ campaigns' = campaigns /\ ledger' = ledger
        /\ UNCHANGED <<client, optSeen, desired, provider>>
    BY DEF ProviderAccepts
  <1>2. RunTypes  BY DEF LoopInv
  <1>3. /\ pc' \in [Slot -> Waiting \cup {"idle"}] /\ pc'[w] = "mark"
        /\ \A x \in Slot \ {w} : pc'[x] = pc[x]
        /\ batch' = batch /\ early' = early
        /\ \A x \in Slot : pc'[x] = "idle" <=> batch'[x] = {}
        /\ Current(w)' = Current(w) /\ Current(w) \in Sequence
        /\ ContactOf[Current(w)] \in Contact
        /\ Stays => CampaignRowOf(w)' = CampaignRowOf(w)
        /\ RunInv(w)
    BY <1>1, StayingMoves DEF Waiting
  <1>4. RunTypes'  BY <1>1, <1>2, <1>3 DEF RunTypes
  <1>5. \A x \in Slot \ {w} : Idles(x)  BY <1>1, <1>3 DEF Idles
  <1>6. provider[w] = EffectiveProvider(client[w], CampaignRowOf(w).channel)  BY <1>1, <1>3 DEF RunInv
  <1>7. ASSUME Stays PROVE RunInv(w)'
    BY <1>1, <1>3, <1>6, <1>7 DEF RunInv
  <1>8. IsTable(ledger')
    BY <1>1 DEF LoopInv, TableTypes
  <1>9. RowsOf(ledger, "outreach.sent")' = RowsOf(ledger, "outreach.sent")  BY <1>1 DEF RowsOf
  <1>10. ASSUME NEW m \in delivered' \ delivered PROVE m.contact \in Contact /\ IsDispatch(m)'
    <2>1. /\ m.corr = <<w, Current(w)>> /\ m.contact = ContactOf[Current(w)]
          /\ m.channel = ReceiptChannel(provider[w], CampaignRowOf(w))
      BY <1>1, <1>10 DEF Message, MessageId
    <2>2. m.channel = DispatchChannel(w, Current(w))
      BY <1>6, <2>1 DEF DispatchChannel, CampaignRowOf
    <2>3. IsDispatch(m)  BY <1>3, <2>1, <2>2 DEF IsDispatch
    <2>4. IsDispatch(m)'  BY <1>1, <2>3 DEF IsDispatch, DispatchChannel
    <2> QED  BY <1>3, <2>1, <2>4
  <1>11. delivered \subseteq delivered'  BY <1>1
  <1> QED  BY <1>1, <1>4, <1>5, <1>7, <1>8, <1>9, <1>10, <1>11, RunSuffices

LEMMA MarkInLoop ==
    ASSUME LoopInv, Remember, UNCHANGED <<call, reply>>, NEW w \in Slot, Mark(w)
    PROVE  LoopInv'
  <1> DEFINE next == IF sequences[Current(w)] = "pending" THEN "row" ELSE "recheck"
  <1>1. /\ pc[w] = "mark" /\ StayOn(w) /\ Goto(w, next) /\ UNCHANGED tables
        /\ UNCHANGED <<client, optSeen, desired, provider>>
    BY DEF Mark
  <1>2. next \in {"row", "recheck"}  OBVIOUS
  <1> HIDE DEF next
  <1>3. RunTypes  BY DEF LoopInv
  <1>4. /\ pc' \in [Slot -> Waiting \cup {"idle"}] /\ pc'[w] = next
        /\ \A x \in Slot \ {w} : pc'[x] = pc[x]
        /\ batch' = batch /\ early' = early
        /\ \A x \in Slot : pc'[x] = "idle" <=> batch'[x] = {}
        /\ Stays => CampaignRowOf(w)' = CampaignRowOf(w)
        /\ RunInv(w)
    BY <1>1, <1>2, StayingMoves DEF Waiting
  <1>5. RunTypes'  BY <1>1, <1>3, <1>4 DEF RunTypes
  <1>6. \A x \in Slot \ {w} : Idles(x)  BY <1>1, <1>4 DEF Idles
  <1>7. ASSUME Stays PROVE RunInv(w)'
    BY <1>1, <1>2, <1>4, <1>7 DEF RunInv
  <1> QED  BY <1>1, <1>5, <1>6, <1>7, QuietRunSuffices

LEMMA RecheckInLoop ==
    ASSUME LoopInv, Remember, UNCHANGED <<call, reply>>, NEW w \in Slot, Recheck(w)
    PROVE  LoopInv'
  <1>1. pc[w] = "recheck" /\ UNCHANGED tables /\ client' = client
    BY DEF Recheck
  <1>2. CASE sequences[Current(w)] # desired[w]
    <2>1. GoOnWith(w, batch[w] \ {Current(w)})  BY <1>2 DEF Recheck, NextSequence
    <2>2. batch[w] \ {Current(w)} \in SUBSET batch[w]  OBVIOUS
    <2> QED  BY <1>1, <2>1, <2>2, EndingInLoop
  <1>3. CASE sequences[Current(w)] = desired[w]
    <2>1. StayOn(w) /\ Goto(w, "row") /\ UNCHANGED <<optSeen, desired, provider>>
      BY <1>3 DEF Recheck
    <2>2. RunTypes  BY DEF LoopInv
    <2>3. /\ pc' \in [Slot -> Waiting \cup {"idle"}] /\ pc'[w] = "row"
          /\ \A x \in Slot \ {w} : pc'[x] = pc[x]
          /\ batch' = batch /\ early' = early
          /\ \A x \in Slot : pc'[x] = "idle" <=> batch'[x] = {}
          /\ Stays => CampaignRowOf(w)' = CampaignRowOf(w)
          /\ RunInv(w)
      BY <1>1, <2>1, StayingMoves DEF Waiting
    <2>4. RunTypes'  BY <1>1, <2>1, <2>2, <2>3 DEF RunTypes
    <2>5. \A x \in Slot \ {w} : Idles(x)  BY <2>1, <2>3 DEF Idles
    <2>6. ASSUME Stays PROVE RunInv(w)'
      BY <1>1, <2>1, <2>3, <2>6 DEF RunInv
    <2> QED  BY <1>1, <2>4, <2>5, <2>6, QuietRunSuffices
  <1> QED  BY <1>2, <1>3

LEMMA WriteEvidenceInLoop ==
    ASSUME LoopInv, Remember, UNCHANGED <<call, reply>>, NEW w \in Slot, WriteEvidence(w)
    PROVE  LoopInv'
  <1> DEFINE rest == batch[w] \ {Current(w)}
  <1>1. PICK row : row = EvidenceRow(w)  OBVIOUS
  <1>2. /\ pc[w] = "row" /\ ledger' = InsertLedgerRow(ledger, row) /\ GoOnWith(w, rest)
        /\ contacts' = contacts /\ campaigns' = campaigns /\ delivered' = delivered
        /\ client' = client
    BY <1>1 DEF WriteEvidence, OnlyLedger, NextSequence
  <1>3. rest \in SUBSET batch[w]  OBVIOUS
  <1> HIDE DEF rest
  <1>4. RunTypes /\ RunInv(w)  BY DEF LoopInv
  <1>5. /\ RunTypes' /\ \A x \in Slot \ {w} : Idles(x)
        /\ pc'[w] \in {"idle", "column"}
    BY <1>2, <1>3, <1>4, GoOnMoves
  <1>6. RunInv(w)'  BY <1>5 DEF RunInv
  <1>7. /\ IsTable(ledger')
        /\ RowsOf(ledger', "outreach.sent") \subseteq RowsOf(ledger, "outreach.sent") \cup {row}
        /\ row.kind # "outreach.sent" => RowsOf(ledger', "outreach.sent") \subseteq RowsOf(ledger, "outreach.sent")
    <2>1. PICK L, M : L = ledger /\ M = ledger'  OBVIOUS
    <2>2. IsTable(L)  BY <2>1 DEF LoopInv, TableTypes
    <2>3. Grown(L, M, row)  BY <1>2, <2>1, <2>2, TableGrows
    <2> QED  BY <2>1, <2>3 DEF Grown
  <1>8. ASSUME row.kind = "outreach.sent" PROVE IsDispatch(row)'
    <2>1. desired[w] = "sent"
      BY <1>1, <1>8 DEF EvidenceRow, EvidenceKey
    <2>2. /\ row.corr = <<w, Current(w)>> /\ row.contact = ContactOf[Current(w)]
          /\ row.channel = ReceiptChannel(provider[w], CampaignRowOf(w))
      BY <1>1, <2>1 DEF EvidenceRow, MessageId
    <2>3. provider[w] = EffectiveProvider(client[w], CampaignRowOf(w).channel)
      BY <1>2, <1>4, <2>1 DEF RunInv
    <2>4. row.channel = DispatchChannel(w, Current(w))
      BY <2>2, <2>3 DEF DispatchChannel, CampaignRowOf
    <2>5. Current(w) \in Sequence  BY <1>2, <1>4, CurrentIsInBatch
    <2>6. IsDispatch(row)  BY <2>2, <2>4, <2>5 DEF IsDispatch
    <2> QED  BY <1>2, <2>6 DEF IsDispatch, DispatchChannel
  <1>9. ASSUME NEW new \in RowsOf(ledger, "outreach.sent")' \ RowsOf(ledger, "outreach.sent")
        PROVE  IsDispatch(new)'
    <2>1. RowsOf(ledger, "outreach.sent")' = RowsOf(ledger', "outreach.sent")  BY DEF RowsOf
    <2>2. new = row /\ row.kind = "outreach.sent"  BY <1>7, <1>9, <2>1
    <2> QED  BY <1>8, <2>2
  <1>10. delivered' \ delivered = {} /\ delivered \subseteq delivered'  BY <1>2
  <1> QED  BY <1>2, <1>5, <1>6, <1>7, <1>9, <1>10, RunSuffices

LEMMA SenderInLoop ==
    ASSUME LoopInv, Remember, UNCHANGED <<call, reply>>, Next
    PROVE  LoopInv'
  <1>1. CASE Tick  BY <1>1, TickInLoop
  <1>2. ASSUME NEW w \in Slot, Work(w) PROVE LoopInv'
    <2>1. CASE Fetch(w) \/ ReadOptOut(w) \/ DecidePolicy(w) \/ Dispatch(w)
      BY <2>1, FetchInLoop, ReadOptOutInLoop, DecidePolicyInLoop, DispatchInLoop
    <2>2. CASE ProviderAccepts(w) \/ Mark(w) \/ Recheck(w) \/ WriteEvidence(w)
      BY <2>2, ProviderAcceptsInLoop, MarkInLoop, RecheckInLoop, WriteEvidenceInLoop
    <2> QED  BY <1>2, <2>1, <2>2 DEF Work
  <1>3. ASSUME NEW w \in Slot, Skip(w) \/ Crash(w) PROVE LoopInv'
    <2>1. PICK rest \in SUBSET batch[w] : GoOnWith(w, rest)
      BY <1>3 DEF Skip, Crash, NextSequence, EndRun
    <2>2. UNCHANGED tables /\ client' = client  BY <1>3 DEF Skip, Crash
    <2> QED  BY <2>1, <2>2, EndingInLoop
  <1> QED  BY <1>1, <1>2, <1>3 DEF Next

-----------------------------------------------------------------------------
(* A step of the constitutional path in the loop: what it does to the      *)
(* tables.                                                                *)
CallLeaves(r) ==
    /\ contacts' = contacts /\ campaigns' = campaigns
    /\ \/ ledger' = ledger
       \/ \E row : ledger' = InsertLedgerRow(ledger, row) /\ row.kind # "outreach.sent"
    /\ \/ delivered' = delivered
       \/ callPc[r] = "post" /\ delivered' = delivered \cup {Outbound!Message(r)}

LEMMA SameInsert ==
    ASSUME NEW L, NEW row
    PROVE  /\ Outbound!InsertLedgerRow(L, row) = InsertLedgerRow(L, row)
           /\ Reply!InsertLedgerRow(L, row) = InsertLedgerRow(L, row)
  BY DEF Outbound!InsertLedgerRow, Reply!InsertLedgerRow, InsertLedgerRow,
         Outbound!HasKey, Reply!HasKey, HasKey, Outbound!NoKey, Reply!NoKey, NoKey

LEMMA CallLeavesTables ==
    ASSUME NEW r \in Request, Outbound!Step(r)
    PROVE  CallLeaves(r)
  <1>1. ASSUME NEW key, NEW channel, NEW verdict, Outbound!Insert(r, key, channel, verdict),
               key[1] # "outreach.sent"
        PROVE  \E row : ledger' = InsertLedgerRow(ledger, row) /\ row.kind # "outreach.sent"
    <2>1. PICK row : row = Outbound!RowOf(r, key, channel, verdict)  OBVIOUS
    <2>2. row.kind = key[1]  BY <2>1 DEF Outbound!RowOf
    <2>3. ledger' = InsertLedgerRow(ledger, row)  BY <1>1, <2>1, SameInsert DEF Outbound!Insert
    <2> QED  BY <1>1, <2>2, <2>3
  <1>2. /\ \A kind, in : Outbound!GateKey(kind, in)[1] = kind
        /\ Outbound!SentKey(r)[1] # "outreach.sent"
        /\ \A in, code : Outbound!FailedKey(in, code)[1] # "outreach.sent"
    BY DEF Outbound!GateKey, Outbound!SentKey, Outbound!FailedKey
  <1>3. /\ "eligibility.evaluated" # "outreach.sent" /\ "premium.evaluated" # "outreach.sent"
        /\ "policy.evaluated" # "outreach.sent" /\ "outbound.admitted" # "outreach.sent"
    OBVIOUS
  <1>4. CASE \/ Outbound!EvaluateEligibility(r) \/ Outbound!EvaluatePremium(r)
             \/ Outbound!RecordPolicy(r) \/ Outbound!Admit(r)
    <2>1. \E kind, channel, verdict :
              /\ Outbound!Insert(r, Outbound!GateKey(kind, callInput[r]), channel, verdict)
              /\ kind # "outreach.sent"
      <3>1. CASE Outbound!EvaluateEligibility(r)  BY <1>3, <3>1, Zenon DEF Outbound!EvaluateEligibility
      <3>2. CASE Outbound!EvaluatePremium(r)  BY <1>3, <3>2, Zenon DEF Outbound!EvaluatePremium
      <3>3. CASE Outbound!RecordPolicy(r)  BY <1>3, <3>3, Zenon DEF Outbound!RecordPolicy
      <3>4. CASE Outbound!Admit(r)  BY <1>3, <3>4, Zenon DEF Outbound!Admit
      <3> QED  BY <1>4, <3>1, <3>2, <3>3, <3>4
    <2>2. Outbound!OnlyLedger
      BY <1>4 DEF Outbound!EvaluateEligibility, Outbound!EvaluatePremium, Outbound!RecordPolicy,
                  Outbound!Admit
    <2>3. PICK kind, channel, verdict :
              /\ Outbound!Insert(r, Outbound!GateKey(kind, callInput[r]), channel, verdict)
              /\ kind # "outreach.sent"
      BY <2>1
    <2>4. \E row : ledger' = InsertLedgerRow(ledger, row) /\ row.kind # "outreach.sent"
      BY <1>1, <1>2, <2>3
    <2> QED  BY <2>2, <2>4 DEF CallLeaves, Outbound!OnlyLedger
  <1>5. CASE Outbound!RecordSent(r) \/ Outbound!Reject(r) \/ Outbound!RejectAfterAdmission(r)
    <2>1. \E key, channel, verdict : Outbound!Insert(r, key, channel, verdict) /\ key[1] # "outreach.sent"
      <3>1. CASE Outbound!RecordSent(r)
        <4>1. PICK key : key = Outbound!SentKey(r)  OBVIOUS
        <4>2. \E channel, verdict : Outbound!Insert(r, key, channel, verdict)
          BY <3>1, <4>1, Zenon DEF Outbound!RecordSent
        <4> QED  BY <1>2, <4>1, <4>2
      <3>2. CASE Outbound!Reject(r) \/ Outbound!RejectAfterAdmission(r)
        <4>1. PICK key : key = Outbound!FailedKey(callInput[r], reason[r])  OBVIOUS
        <4>2. \E channel, verdict : Outbound!Insert(r, key, channel, verdict)
          BY <3>2, <4>1, Zenon DEF Outbound!Reject, Outbound!RejectAfterAdmission
        <4> QED  BY <1>2, <4>1, <4>2
      <3> QED  BY <1>5, <3>1, <3>2
    <2>2. Outbound!OnlyLedger
      BY <1>5 DEF Outbound!RecordSent, Outbound!Reject, Outbound!RejectAfterAdmission
    <2> QED  BY <1>1, <2>1, <2>2 DEF CallLeaves, Outbound!OnlyLedger
  <1>6. CASE \/ (\E in \in Outbound!Input : Outbound!Submit(r, in))
             \/ Outbound!ResolveAccount(r) \/ Outbound!ReadOptOutColumn(r)
             \/ Outbound!ReadOptOutLedger(r) \/ Outbound!ReadRules(r) \/ Outbound!Dispatch(r)
             \/ Outbound!ProviderRejects(r) \/ Outbound!Lose(r)
    <2>1. UNCHANGED tables
      BY <1>6, Zenon DEF Outbound!Submit, Outbound!ResolveAccount, Outbound!ReadOptOutColumn,
        Outbound!ReadOptOutLedger, Outbound!ReadRules, Outbound!Dispatch, Outbound!ProviderRejects,
        Outbound!Lose, Outbound!StoreUnchanged, Outbound!tables, tables
    <2> QED  BY <2>1 DEF CallLeaves, tables
  <1>7. CASE Outbound!ProviderAccepts(r)
    BY <1>7 DEF Outbound!ProviderAccepts, CallLeaves
  <1> QED  BY <1>4, <1>5, <1>6, <1>7, Zenon DEF Outbound!Step

-----------------------------------------------------------------------------
(* The two ways a call leaves an await, as its locals see them.           *)
CallOnly(r) ==
    /\ CallTypes' /\ callInput'[r] = callInput[r]
    /\ \A x \in Request \ {r} : CallIdles(x)

LEMMA GotoIsLocal ==
    ASSUME CallTypes, NEW r \in Request, callPc[r] # "idle",
           NEW next \in Outbound!Waiting \cup Outbound!Ended, Outbound!Goto(r, next)
    PROVE  CallOnly(r) /\ callPc'[r] = next /\ reason'[r] = reason[r]
  <1>1. /\ callPc' = [callPc EXCEPT ![r] = next]
        /\ callInput' = callInput /\ reason' = reason
    BY DEF Outbound!Goto
  <1>2. /\ callPc' \in [Request -> Outbound!Pc] /\ callPc'[r] = next
        /\ \A x \in Request \ {r} : callPc'[x] = callPc[x]
    BY <1>1 DEF CallTypes, Outbound!Pc
  <1> QED  BY <1>1, <1>2 DEF CallOnly, CallTypes, CallIdles

LEMMA ContinueIsLocal ==
    ASSUME CallTypes, NEW r \in Request, callPc[r] # "idle", NEW code \in Outbound!Reason \cup {""},
           NEW next \in Outbound!Waiting, NEW refused \in Outbound!Waiting,
           Outbound!Continue(r, code, next, refused)
    PROVE  CallOnly(r) /\ callPc'[r] \in {next, refused} /\ reason'[r] = code
           /\ (code # "" => callPc'[r] = refused)
  <1>1. PICK to : to = IF code = "" THEN next ELSE refused  OBVIOUS
  <1>2. to \in {next, refused} /\ (code # "" => to = refused)  BY <1>1, Zenon
  <1>3. /\ callPc' = [callPc EXCEPT ![r] = to] /\ reason' = [reason EXCEPT ![r] = code]
        /\ callInput' = callInput
    BY <1>1, Zenon DEF Outbound!Continue
  <1>4. /\ callPc' \in [Request -> Outbound!Pc] /\ callPc'[r] = to
        /\ \A x \in Request \ {r} : callPc'[x] = callPc[x]
    BY <1>2, <1>3 DEF CallTypes, Outbound!Pc
  <1>5. reason' \in [Request -> Outbound!Reason \cup {""}] /\ reason'[r] = code
        /\ \A x \in Request \ {r} : reason'[x] = reason[x]
    BY <1>3 DEF CallTypes
  <1>6. CallTypes'  BY <1>2, <1>3, <1>4, <1>5 DEF CallTypes
  <1> QED  BY <1>2, <1>3, <1>4, <1>5, <1>6 DEF CallOnly, CallIdles

(* Who had stopped before a call began is refused at the gate: nothing of *)
(* it comes to the provider.                                              *)
LEMMA CallMoves ==
    ASSUME LoopInv, Remember, NEW r \in Request, Outbound!Step(r)
    PROVE  /\ CallTypes' /\ \A x \in Request \ {r} : CallIdles(x)
           /\ Stays => CallInv(r)'
  <1>1. CallTypes /\ CallInv(r) /\ AckedInv  BY DEF LoopInv
  <1>2. /\ \A c : c \in ackedBefore[r] => optOut(c)
        /\ Stays /\ callPc[r] # "idle" => ackedBefore'[r] = ackedBefore[r]
    BY RememberKeeps DEF LoopInv, AckedInv
  <1>3. CASE \E in \in Outbound!Input : Outbound!Submit(r, in)
    <2>1. PICK in \in Outbound!Input : Outbound!Submit(r, in)  BY <1>3
    <2>2. /\ callPc' = [callPc EXCEPT ![r] = "resolve"] /\ callInput' = [callInput EXCEPT ![r] = in]
          /\ reason' = reason
      BY <2>1 DEF Outbound!Submit
    <2>3. /\ callPc' \in [Request -> Outbound!Pc] /\ callPc'[r] = "resolve"
          /\ callInput' \in [Request -> Outbound!Input \cup {Outbound!NoInput}] /\ callInput'[r] = in
          /\ \A x \in Request \ {r} : CallIdles(x)
      BY <1>1, <2>2 DEF CallTypes, CallIdles, Outbound!Pc, Outbound!Waiting
    <2>4. CallTypes'  BY <1>1, <2>2, <2>3 DEF CallTypes, CallIdles
    <2>5. CallInv(r)'  BY <2>3 DEF CallInv, Passed
    <2> QED  BY <2>3, <2>4, <2>5
  <1>4. ASSUME CallOnly(r), callPc[r] # "idle",
               callPc'[r] \in Passed => callInput[r].contact \notin ackedBefore[r],
               callPc'[r] = "optLedger" /\ callInput[r].contact \in ackedBefore[r] =>
                   reason'[r] = "optout_active"
        PROVE  /\ CallTypes' /\ \A x \in Request \ {r} : CallIdles(x)
               /\ Stays => CallInv(r)'
    BY <1>2, <1>4 DEF CallOnly, CallInv
  <1>5. CASE Outbound!ResolveAccount(r)
    <2>1. callPc[r] = "resolve"  BY <1>5 DEF Outbound!ResolveAccount
    <2>2. PICK code \in Outbound!Reason \cup {""} : Outbound!Continue(r, code, "eligibility", "reject")
      BY <1>5, Zenon DEF Outbound!ResolveAccount, Outbound!Reason
    <2>3. CallOnly(r) /\ callPc'[r] \in {"eligibility", "reject"}
      BY <1>1, <2>1, <2>2, ContinueIsLocal DEF Outbound!Waiting
    <2> QED  BY <1>4, <2>1, <2>3 DEF Passed
  <1>6. CASE Outbound!EvaluateEligibility(r) \/ Outbound!EvaluatePremium(r)
    <2>1. /\ callPc[r] \in {"eligibility", "premium"}
          /\ \E next \in {"premium", "optColumn"} : Outbound!Goto(r, next)
      BY <1>6 DEF Outbound!EvaluateEligibility, Outbound!EvaluatePremium
    <2>2. CallOnly(r) /\ callPc'[r] \in {"premium", "optColumn"}
      BY <1>1, <2>1, GotoIsLocal DEF Outbound!Waiting
    <2> QED  BY <1>4, <2>1, <2>2 DEF Passed
  <1>7. CASE Outbound!ReadOptOutColumn(r)
    <2>1. callPc[r] = "optColumn"  BY <1>7 DEF Outbound!ReadOptOutColumn
    <2>2. PICK code : code = IF optOut(callInput[r].contact) THEN "optout_active" ELSE ""
      OBVIOUS
    <2>3. Outbound!Continue(r, code, "optLedger", "optLedger")
      BY <1>7, <2>2, Zenon DEF Outbound!ReadOptOutColumn, Outbound!optOut, optOut, Outbound!NoRow, NoRow
    <2>4. code \in Outbound!Reason \cup {""}  BY <2>2, Zenon DEF Outbound!Reason
    <2>5. CallOnly(r) /\ callPc'[r] = "optLedger" /\ reason'[r] = code
      BY <1>1, <2>1, <2>3, <2>4, ContinueIsLocal DEF Outbound!Waiting
    <2>6. callInput[r].contact \in ackedBefore[r] => code = "optout_active"
      BY <1>2, <2>2, Zenon
    <2>7. callPc'[r] \notin Passed  BY <2>5 DEF Passed
    <2> QED  BY <1>4, <2>1, <2>5, <2>6, <2>7
  <1>8. CASE Outbound!ReadOptOutLedger(r)
    <2>1. callPc[r] = "optLedger"  BY <1>8 DEF Outbound!ReadOptOutLedger
    <2>2. PICK code : code = IF Outbound!LedgerOptOut(callInput[r].contact, callInput[r].channel)
                             THEN "optout_active" ELSE reason[r]
      OBVIOUS
    <2>3. Outbound!Continue(r, code, "rules", "reject")
      BY <1>8, <2>2, Zenon DEF Outbound!ReadOptOutLedger
    <2>4. reason[r] \in Outbound!Reason \cup {""}  BY <1>1 DEF CallTypes
    <2>5. code \in Outbound!Reason \cup {""}  BY <2>2, <2>4, Zenon DEF Outbound!Reason
    <2>6. CallOnly(r) /\ callPc'[r] \in {"rules", "reject"} /\ (code # "" => callPc'[r] = "reject")
      BY <1>1, <2>1, <2>3, <2>5, ContinueIsLocal DEF Outbound!Waiting
    <2>7. callInput[r].contact \in ackedBefore[r] => code = "optout_active"
      BY <1>1, <2>1, <2>2, Zenon DEF CallInv
    <2>8. "optout_active" # ""  BY Zenon
    <2>9. callInput[r].contact \in ackedBefore[r] => callPc'[r] = "reject"
      BY <2>6, <2>7, <2>8, Zenon
    <2>10. callPc'[r] \in Passed => callInput[r].contact \notin ackedBefore[r]
      BY <2>9 DEF Passed
    <2>11. callPc'[r] # "optLedger"  BY <2>6
    <2> QED  BY <1>4, <2>1, <2>6, <2>10, <2>11
  <1>9. ASSUME callPc[r] \in Passed, CallOnly(r), callPc'[r] # "optLedger"
        PROVE  /\ CallTypes' /\ \A x \in Request \ {r} : CallIdles(x)
               /\ Stays => CallInv(r)'
    <2>1. callPc[r] # "idle" /\ callInput[r].contact \notin ackedBefore[r]
      BY <1>1, <1>9 DEF CallInv, Passed
    <2> QED  BY <1>4, <1>9, <2>1
  <1>10. CASE \/ Outbound!ReadRules(r) \/ Outbound!RecordPolicy(r) \/ Outbound!ProviderRejects(r)
    <2>1. callPc[r] \in Passed /\ callPc[r] # "idle"
      BY <1>10 DEF Outbound!ReadRules, Outbound!RecordPolicy, Outbound!ProviderRejects, Passed
    <2>2. reason[r] \in Outbound!Reason \cup {""}  BY <1>1 DEF CallTypes
    <2>3. PICK code \in Outbound!Reason \cup {""} :
              \E next, refused \in {"policy", "admit", "post", "reject", "rejectAfter"} :
                  Outbound!Continue(r, code, next, refused)
      BY <1>10, <2>2, Zenon DEF Outbound!ReadRules, Outbound!RecordPolicy, Outbound!ProviderRejects,
                                Outbound!Reason
    <2>4. PICK next, refused \in {"policy", "admit", "post", "reject", "rejectAfter"} :
              Outbound!Continue(r, code, next, refused)
      BY <2>3
    <2>5. next \in Outbound!Waiting /\ refused \in Outbound!Waiting  BY DEF Outbound!Waiting
    <2>6. CallOnly(r) /\ callPc'[r] \in {next, refused}
      BY <1>1, <2>1, <2>4, <2>5, ContinueIsLocal
    <2>7. callPc'[r] # "optLedger"  BY <2>6
    <2> QED  BY <1>9, <2>1, <2>6, <2>7
  <1>11. CASE Outbound!Admit(r) \/ Outbound!ProviderAccepts(r)
    <2>1. /\ callPc[r] \in Passed /\ callPc[r] # "idle"
          /\ \E next \in {"context", "recordSent"} : Outbound!Goto(r, next)
      BY <1>11 DEF Outbound!Admit, Outbound!ProviderAccepts, Passed
    <2>2. CallOnly(r) /\ callPc'[r] \in {"context", "recordSent"}
      BY <1>1, <2>1, GotoIsLocal DEF Outbound!Waiting
    <2> QED  BY <1>9, <2>1, <2>2
  <1>12. CASE Outbound!Dispatch(r)
    <2>1. callPc[r] = "context"  BY <1>12 DEF Outbound!Dispatch
    <2>2. \/ Outbound!Goto(r, "contract_error")
          \/ Outbound!Continue(r, "provider_error", "context", "rejectAfter")
          \/ /\ \E next \in {"recordSent", "post"} : callPc' = [callPc EXCEPT ![r] = next]
             /\ callInput' = callInput /\ reason' = reason
      BY <1>12, Zenon DEF Outbound!Dispatch
    <2>3. CASE Outbound!Goto(r, "contract_error")
      <3>1. CallOnly(r) /\ callPc'[r] = "contract_error"
        BY <1>1, <2>1, <2>3, GotoIsLocal DEF Outbound!Ended
      <3> QED  BY <1>9, <2>1, <3>1 DEF Passed
    <2>4. CASE Outbound!Continue(r, "provider_error", "context", "rejectAfter")
      <3>1. CallOnly(r) /\ callPc'[r] \in {"context", "rejectAfter"}
        BY <1>1, <2>1, <2>4, ContinueIsLocal DEF Outbound!Waiting, Outbound!Reason
      <3> QED  BY <1>9, <2>1, <3>1 DEF Passed
    <2>5. CASE /\ \E next \in {"recordSent", "post"} : callPc' = [callPc EXCEPT ![r] = next]
               /\ callInput' = callInput /\ reason' = reason
      <3>1. PICK next \in {"recordSent", "post"} : callPc' = [callPc EXCEPT ![r] = next]  BY <2>5
      <3>2. /\ callPc' \in [Request -> Outbound!Pc] /\ callPc'[r] = next
            /\ \A x \in Request \ {r} : callPc'[x] = callPc[x]
        BY <1>1, <3>1 DEF CallTypes, Outbound!Pc, Outbound!Waiting
      <3>3. CallTypes'  BY <1>1, <2>1, <2>5, <3>2 DEF CallTypes
      <3>4. CallOnly(r) /\ callPc'[r] # "optLedger"  BY <2>5, <3>2, <3>3 DEF CallOnly, CallIdles
      <3> QED  BY <1>9, <2>1, <3>4 DEF Passed
    <2> QED  BY <2>2, <2>3, <2>4, <2>5
  <1>13. CASE \/ Outbound!RecordSent(r) \/ Outbound!Reject(r) \/ Outbound!RejectAfterAdmission(r)
              \/ Outbound!Lose(r)
    <2>1. callPc[r] \in Outbound!Waiting
      BY <1>13 DEF Outbound!RecordSent, Outbound!Reject, Outbound!RejectAfterAdmission, Outbound!Lose,
                   Outbound!Waiting
    <2>2. \E next \in {"sent", "rejected", "provider_failed", "lost"} : Outbound!Goto(r, next)
      BY <1>13, Zenon DEF Outbound!RecordSent, Outbound!Reject, Outbound!RejectAfterAdmission,
                          Outbound!Lose, Outbound!Answer
    <2>3. callPc[r] # "idle"  BY <2>1 DEF Outbound!Waiting
    <2>4. CallOnly(r) /\ callPc'[r] \in {"sent", "rejected", "provider_failed", "lost"}
      BY <1>1, <2>2, <2>3, GotoIsLocal DEF Outbound!Ended
    <2> QED  BY <1>4, <2>3, <2>4 DEF Passed
  <1> QED
    BY <1>3, <1>5, <1>6, <1>7, <1>8, <1>10, <1>11, <1>12, <1>13, Zenon DEF Outbound!Step

LEMMA CallsInLoop ==
    ASSUME LoopInv, Remember, Outbound!Next, UNCHANGED <<local, reply>>
    PROVE  LoopInv'
  <1>1. PICK r \in Request : Outbound!Step(r)  BY DEF Outbound!Next
  <1>2. /\ pc' = pc /\ client' = client /\ batch' = batch /\ optSeen' = optSeen
        /\ desired' = desired /\ provider' = provider /\ early' = early
        /\ replyPc' = replyPc /\ replyInput' = replyInput
    BY DEF local, reply
  <1>3. CallLeaves(r)  BY <1>1, CallLeavesTables
  <1>4. Stays  BY <1>2, <1>3 DEF CallLeaves, Stays, optOut
  <1>5. /\ CallTypes' /\ CallInv(r)' /\ \A x \in Request \ {r} : CallIdles(x)
    BY <1>1, <1>4, CallMoves
  <1>6. IsTable(ledger') /\ RowsOf(ledger', "outreach.sent") \subseteq RowsOf(ledger, "outreach.sent")
    <2>1. IsTable(ledger)  BY DEF LoopInv, TableTypes
    <2>2. CASE ledger' = ledger  BY <2>1, <2>2 DEF IsTable
    <2>3. CASE \E row : ledger' = InsertLedgerRow(ledger, row) /\ row.kind # "outreach.sent"
      <3>1. PICK row : ledger' = InsertLedgerRow(ledger, row) /\ row.kind # "outreach.sent"  BY <2>3
      <3>2. PICK L, M : L = ledger /\ M = ledger'  OBVIOUS
      <3>3. Grown(L, M, row)  BY <2>1, <3>1, <3>2, TableGrows
      <3> QED  BY <3>1, <3>2, <3>3 DEF Grown
    <2> QED  BY <1>3, <2>2, <2>3 DEF CallLeaves
  <1>7. ASSUME NEW m \in delivered' \ delivered PROVE m.contact \in Contact /\ m.corr \in Corr
    <2>1. callPc[r] = "post" /\ m = Outbound!Message(r)  BY <1>3, <1>7 DEF CallLeaves
    <2>2. m.contact = callInput[r].contact /\ m.corr = callInput[r].corr
      BY <2>1 DEF Outbound!Message
    <2>3. callInput[r] \in Outbound!Input  BY <2>1 DEF LoopInv, CallTypes
    <2> QED  BY <2>2, <2>3 DEF Outbound!Input
  <1>8. RowsOf(ledger, "outreach.sent")' = RowsOf(ledger', "outreach.sent")  BY DEF RowsOf
  <1>9. TraceInv'  BY <1>4, <1>6, <1>7, <1>8, TraceKeeps
  <1>10. TableTypes'
    <2>1. \A m \in delivered' : m.contact \in Contact  BY <1>7 DEF LoopInv, TableTypes
    <2> QED  BY <1>3, <1>6, <2>1 DEF LoopInv, TableTypes, CallLeaves
  <1>11. RunTypes'  BY <1>2 DEF LoopInv, RunTypes
  <1>12. ReplyTypes'
    <2>1. Stops \subseteq Stops'  BY <1>4 DEF Stays, Stops
    <2>2. replyInput \in [Handler -> Stops \cup {Reply!NoMessage}]  BY DEF LoopInv, ReplyTypes
    <2>3. replyInput \in [Handler -> Stops' \cup {Reply!NoMessage}]  BY <2>1, <2>2
    <2> QED  BY <1>2, <2>1, <2>3 DEF LoopInv, ReplyTypes
  <1>13. AckedInv'  BY <1>4, RememberKeeps
  <1>14. \A w \in Slot : RunInv(w)'  BY <1>2, <1>4, RunKeeps DEF Idles
  <1>15. \A h \in Handler : ReplyInv(h)'  BY <1>2, <1>4, ReplyKeeps DEF ReplyIdles
  <1>16. \A x \in Request : CallInv(x)'
    <2> TAKE x \in Request
    <2>1. CASE x = r  BY <1>5, <2>1
    <2>2. CASE x # r  BY <1>4, <1>5, <2>2, CallKeeps
    <2> QED  BY <2>1, <2>2
  <1> QED  BY <1>5, <1>9, <1>10, <1>11, <1>12, <1>13, <1>14, <1>15, <1>16 DEF LoopInv

-----------------------------------------------------------------------------
(* A step of the reply path in the loop: what it does to the tables.      *)
ReplyLeaves ==
    /\ campaigns' = campaigns /\ delivered' = delivered
    /\ contacts' \in [Contact -> ContactRow]
    /\ \A c \in Contact : optOut(c) => optOut(c)'
    /\ \/ ledger' = ledger
       \/ \E row : ledger' = InsertLedgerRow(ledger, row) /\ row.kind # "outreach.sent"

LEMMA SenderIsKnown ==
    ASSUME LoopInv, NEW h \in Handler, replyPc[h] # "idle"
    PROVE  /\ replyInput[h].stop = TRUE /\ replyInput[h].from \in Contact
           /\ \E m \in delivered : replyInput[h] = Stop(m)
  <1>1. PICK m \in delivered : replyInput[h] = Stop(m)  BY DEF LoopInv, ReplyTypes, Stops
  <1>2. m.contact \in Contact  BY DEF LoopInv, TableTypes
  <1>3. replyInput[h].stop = TRUE /\ replyInput[h].from \in Contact  BY <1>1, <1>2 DEF Stop
  <1> QED  BY <1>1, <1>3

(* The column takes the opt-out.                                          *)
LEMMA PatchSets ==
    ASSUME LoopInv, NEW c \in Contact, contacts' = [contacts EXCEPT ![c].optOut = TRUE]
    PROVE  /\ contacts' \in [Contact -> ContactRow]
           /\ \A d \in Contact : optOut(d) => optOut(d)'
           /\ optOut(c)'
  <1>1. contacts \in [Contact -> ContactRow]  BY DEF LoopInv, TableTypes
  <1>2. contacts' \in [Contact -> ContactRow]  BY <1>1 DEF ContactRow
  <1>3. contacts'[c].optOut = TRUE /\ \A d \in Contact \ {c} : contacts'[d] = contacts[d]
    BY <1>1 DEF ContactRow
  <1>4. \A d \in Contact : contacts'[d] # NoRow  BY <1>2 DEF ContactRow, NoRow
  <1> QED  BY <1>2, <1>3, <1>4 DEF optOut

LEMMA ReplyLeavesTables ==
    ASSUME LoopInv, NEW h \in Handler,
           Reply!Step(h) \/ \E m \in delivered : Reply!Deliver(h, Stop(m))
    PROVE  ReplyLeaves
  <1>1. contacts \in [Contact -> ContactRow]  BY DEF LoopInv, TableTypes
  <1>2. CASE \/ Reply!ResolveContact(h) \/ Reply!ResolveThread(h) \/ Reply!InsertReply(h)
             \/ Reply!Lose(h) \/ \E m \in delivered : Reply!Deliver(h, Stop(m))
    <2>1. UNCHANGED tables
      BY <1>2, Zenon DEF Reply!ResolveContact, Reply!ResolveThread, Reply!InsertReply, Reply!Lose,
        Reply!Deliver, Reply!tables, tables
    <2> QED  BY <1>1, <2>1 DEF ReplyLeaves, tables, optOut
  <1>3. CASE \/ Reply!RecordReceived(h) \/ Reply!RecordClassified(h) \/ Reply!RecordOptedOut(h)
             \/ Reply!RecordAsserted(h)
    <2>1. \E kind, key, verdict : Reply!Insert(h, kind, key, verdict) /\ kind # "outreach.sent"
      <3>1. /\ "reply.received" # "outreach.sent" /\ "reply.classified" # "outreach.sent"
            /\ "contact.opted_out" # "outreach.sent" /\ "optout.asserted" # "outreach.sent"
        OBVIOUS
      <3> QED
        BY <1>3, <3>1, Zenon DEF Reply!RecordReceived, Reply!RecordClassified, Reply!RecordOptedOut,
                                 Reply!RecordAsserted
    <2>2. PICK kind, key, verdict : Reply!Insert(h, kind, key, verdict) /\ kind # "outreach.sent"
      BY <2>1
    <2>3. PICK row : row = Reply!RowOf(h, kind, key, verdict)  OBVIOUS
    <2>4. row.kind = kind  BY <2>3 DEF Reply!RowOf
    <2>5. ledger' = InsertLedgerRow(ledger, row)  BY <2>2, <2>3, SameInsert DEF Reply!Insert
    <2>6. contacts' = contacts /\ campaigns' = campaigns /\ delivered' = delivered
      BY <1>3 DEF Reply!RecordReceived, Reply!RecordClassified, Reply!RecordOptedOut,
                  Reply!RecordAsserted, Reply!OnlyLedger
    <2> QED  BY <1>1, <2>2, <2>4, <2>5, <2>6 DEF ReplyLeaves, optOut
  <1>4. CASE Reply!PatchOptOut(h)
    <2>1. /\ replyPc[h] = "column" /\ contacts' = [contacts EXCEPT ![replyInput[h].from].optOut = TRUE]
          /\ campaigns' = campaigns /\ delivered' = delivered /\ ledger' = ledger
      BY <1>4 DEF Reply!PatchOptOut
    <2>2. replyInput[h].from \in Contact  BY <2>1, SenderIsKnown
    <2> QED  BY <2>1, <2>2, PatchSets DEF ReplyLeaves
  <1> QED  BY <1>2, <1>3, <1>4, Zenon DEF Reply!Step

(* A handler answers, or posts a row of the opt-out, only behind the      *)
(* column.                                                                *)
LEMMA ReplyMoves ==
    ASSUME LoopInv, ReplyLeaves, NEW h \in Handler,
           Reply!Step(h) \/ \E m \in delivered : Reply!Deliver(h, Stop(m))
    PROVE  /\ ReplyTypes' /\ ReplyInv(h)'
           /\ \A x \in Handler \ {h} : ReplyIdles(x)
  <1>1. ReplyTypes /\ ReplyInv(h) /\ Stops' = Stops
    BY DEF LoopInv, ReplyLeaves, Stops
  <1>2. ASSUME NEW next \in Reply!Pc, replyPc' = [replyPc EXCEPT ![h] = next], replyInput' = replyInput,
               replyPc[h] # "idle",
               next \in {"optedOut", "asserted", "answered"} =>
                   optOut(replyInput[h].from) \/ optOut(replyInput[h].from)'
        PROVE  /\ ReplyTypes' /\ ReplyInv(h)'
               /\ \A x \in Handler \ {h} : ReplyIdles(x)
    <2>1. /\ replyPc' \in [Handler -> Reply!Pc] /\ replyPc'[h] = next
          /\ \A x \in Handler \ {h} : ReplyIdles(x)
      BY <1>1, <1>2 DEF ReplyTypes, ReplyIdles
    <2>2. ReplyTypes'  BY <1>1, <1>2, <2>1 DEF ReplyTypes, ReplyIdles
    <2>3. PICK c : c = replyInput[h].from  OBVIOUS
    <2>4. c \in Contact  BY <1>2, <2>3, SenderIsKnown
    <2>5. next \in {"optedOut", "asserted", "answered"} => optOut(c)'
      BY <1>2, <2>3, <2>4 DEF ReplyLeaves, optOut
    <2> QED  BY <1>2, <2>1, <2>2, <2>3, <2>5 DEF ReplyInv, optOut
  <1>3. CASE \E m \in delivered : Reply!Deliver(h, Stop(m))
    <2>1. PICK m \in delivered : Reply!Deliver(h, Stop(m))  BY <1>3
    <2>2. PICK stop : stop = Stop(m) /\ stop \in Stops  BY DEF Stops
    <2>3. replyPc' = [replyPc EXCEPT ![h] = "contact"] /\ replyInput' = [replyInput EXCEPT ![h] = stop]
      BY <2>1, <2>2 DEF Reply!Deliver, Reply!Goto
    <2>4. /\ replyPc' \in [Handler -> Reply!Pc] /\ replyPc'[h] = "contact"
          /\ replyInput' \in [Handler -> Stops \cup {Reply!NoMessage}] /\ replyInput'[h] = stop
          /\ \A x \in Handler \ {h} : ReplyIdles(x)
      BY <1>1, <2>2, <2>3 DEF ReplyTypes, ReplyIdles, Reply!Pc, Reply!Waiting
    <2>5. ReplyTypes'  BY <1>1, <2>2, <2>4 DEF ReplyTypes, ReplyIdles
    <2> QED  BY <2>4, <2>5 DEF ReplyInv
  <1>4. CASE \/ Reply!ResolveContact(h) \/ Reply!ResolveThread(h) \/ Reply!RecordReceived(h)
             \/ Reply!InsertReply(h) \/ Reply!Lose(h)
    <2>1. replyPc[h] # "idle" /\ replyInput' = replyInput
      BY <1>4 DEF Reply!ResolveContact, Reply!ResolveThread, Reply!RecordReceived, Reply!InsertReply,
                  Reply!Lose, Reply!OnlyLedger, Reply!Waiting
    <2>2. \E next \in {"refused", "context", "received", "reply", "classified", "lost"} :
              replyPc' = [replyPc EXCEPT ![h] = next]
      BY <1>4, Zenon DEF Reply!ResolveContact, Reply!ResolveThread, Reply!RecordReceived,
                         Reply!InsertReply, Reply!Lose, Reply!Goto
    <2>3. PICK next \in {"refused", "context", "received", "reply", "classified", "lost"} :
              replyPc' = [replyPc EXCEPT ![h] = next]
      BY <2>2
    <2>4. next \in Reply!Pc /\ next \notin {"optedOut", "asserted", "answered"}
      BY DEF Reply!Pc, Reply!Waiting
    <2> QED  BY <1>2, <2>1, <2>3, <2>4
  <1>5. CASE Reply!RecordClassified(h)
    <2>1. replyPc[h] = "classified" /\ replyInput' = replyInput
      BY <1>5 DEF Reply!RecordClassified, Reply!OnlyLedger
    <2>2. replyInput[h].stop = TRUE  BY <2>1, SenderIsKnown
    <2>3. replyPc' = [replyPc EXCEPT ![h] = "column"]
      BY <1>5, <2>2 DEF Reply!RecordClassified, Reply!Goto
    <2>4. "column" \in Reply!Pc  BY DEF Reply!Pc, Reply!Waiting
    <2> QED  BY <1>2, <2>1, <2>3, <2>4
  <1>6. CASE Reply!PatchOptOut(h)
    <2>1. /\ replyPc[h] = "column" /\ replyInput' = replyInput
          /\ replyPc' = [replyPc EXCEPT ![h] = "optedOut"]
          /\ contacts' = [contacts EXCEPT ![replyInput[h].from].optOut = TRUE]
      BY <1>6 DEF Reply!PatchOptOut, Reply!Goto
    <2>2. PICK c \in Contact : c = replyInput[h].from  BY <2>1, SenderIsKnown
    <2>3. optOut(c)'  BY <2>1, <2>2, PatchSets
    <2>4. optOut(replyInput[h].from)'  BY <2>1, <2>2, <2>3 DEF optOut
    <2>5. "optedOut" \in Reply!Pc  BY DEF Reply!Pc, Reply!Waiting
    <2> QED  BY <1>2, <2>1, <2>4, <2>5
  <1>7. CASE Reply!RecordOptedOut(h) \/ Reply!RecordAsserted(h)
    <2>1. replyPc[h] \in {"optedOut", "asserted"} /\ replyInput' = replyInput
      BY <1>7 DEF Reply!RecordOptedOut, Reply!RecordAsserted, Reply!OnlyLedger
    <2>2. optOut(replyInput[h].from)  BY <1>1, <2>1 DEF ReplyInv
    <2>3. PICK next \in {"asserted", "answered"} : replyPc' = [replyPc EXCEPT ![h] = next]
      BY <1>7 DEF Reply!RecordOptedOut, Reply!RecordAsserted, Reply!Goto
    <2>4. next \in Reply!Pc  BY DEF Reply!Pc, Reply!Waiting
    <2> QED  BY <1>2, <2>1, <2>2, <2>3, <2>4
  <1> QED  BY <1>3, <1>4, <1>5, <1>6, <1>7, Zenon DEF Reply!Step

LEMMA RepliesInLoop ==
    ASSUME LoopInv, Remember, ReplyNext, UNCHANGED <<local, call>>
    PROVE  LoopInv'
  <1>1. PICK h \in Handler : Reply!Step(h) \/ \E m \in delivered : Reply!Deliver(h, Stop(m))
    BY DEF ReplyNext
  <1>2. /\ pc' = pc /\ client' = client /\ batch' = batch /\ optSeen' = optSeen
        /\ desired' = desired /\ provider' = provider /\ early' = early
        /\ callPc' = callPc /\ callInput' = callInput /\ reason' = reason
    BY DEF local, call
  <1>3. ReplyLeaves  BY <1>1, ReplyLeavesTables
  <1>4. Stays  BY <1>2, <1>3 DEF ReplyLeaves, Stays
  <1>5. /\ ReplyTypes' /\ ReplyInv(h)' /\ \A x \in Handler \ {h} : ReplyIdles(x)
    BY <1>1, <1>3, ReplyMoves
  <1>6. IsTable(ledger') /\ RowsOf(ledger', "outreach.sent") \subseteq RowsOf(ledger, "outreach.sent")
    <2>1. IsTable(ledger)  BY DEF LoopInv, TableTypes
    <2>2. CASE ledger' = ledger  BY <2>1, <2>2 DEF IsTable
    <2>3. CASE \E row : ledger' = InsertLedgerRow(ledger, row) /\ row.kind # "outreach.sent"
      <3>1. PICK row : ledger' = InsertLedgerRow(ledger, row) /\ row.kind # "outreach.sent"  BY <2>3
      <3>2. PICK L, M : L = ledger /\ M = ledger'  OBVIOUS
      <3>3. Grown(L, M, row)  BY <2>1, <3>1, <3>2, TableGrows
      <3> QED  BY <3>1, <3>2, <3>3 DEF Grown
    <2> QED  BY <1>3, <2>2, <2>3 DEF ReplyLeaves
  <1>7. RowsOf(ledger, "outreach.sent")' = RowsOf(ledger', "outreach.sent")  BY DEF RowsOf
  <1>8. TraceInv'
    <2>1. delivered' \ delivered = {}  BY <1>3 DEF ReplyLeaves
    <2> QED  BY <1>4, <1>6, <1>7, <2>1, TraceKeeps
  <1>9. TableTypes'  BY <1>3, <1>6 DEF LoopInv, TableTypes, ReplyLeaves
  <1>10. RunTypes' /\ CallTypes'  BY <1>2 DEF LoopInv, RunTypes, CallTypes
  <1>11. AckedInv'  BY <1>4, RememberKeeps
  <1>12. \A w \in Slot : RunInv(w)'  BY <1>2, <1>4, RunKeeps DEF Idles
  <1>13. \A r \in Request : CallInv(r)'  BY <1>2, <1>4, CallKeeps DEF CallIdles
  <1>14. \A x \in Handler : ReplyInv(x)'
    <2> TAKE x \in Handler
    <2>1. CASE x = h  BY <1>5, <2>1
    <2>2. CASE x # h  BY <1>4, <1>5, <2>2, ReplyKeeps
    <2> QED  BY <2>1, <2>2
  <1> QED  BY <1>5, <1>8, <1>9, <1>10, <1>11, <1>12, <1>13, <1>14 DEF LoopInv



-----------------------------------------------------------------------------
LEMMA LoopInitInv == LoopInit => LoopInv
  <1> SUFFICES ASSUME LoopInit PROVE LoopInv
    OBVIOUS
  <1>1. Init  BY DEF LoopInit
  <1>2. ledger = <<>> /\ delivered = {}  BY <1>1 DEF Init
  <1>3. IsTable(ledger) /\ RowsOf(ledger, "outreach.sent") = {}
    <2>1. ledger \in Seq({ledger[i] : i \in DOMAIN ledger}) /\ DOMAIN ledger = {}
      BY <1>2, EmptySeq
    <2> QED  BY <2>1 DEF IsTable, RowsOf
  <1>4. TableTypes  BY <1>1, <1>2, <1>3 DEF TableTypes, Init
  <1>5. RunTypes  BY <1>1, InitIInv, TypesOfRuns DEF IInv, TypeInv
  <1>6. CallTypes
    <2>1. \A r \in Request : callPc[r] = "idle"  BY DEF LoopInit
    <2>2. callPc \in [Request -> Outbound!Pc]  BY DEF LoopInit, Outbound!Pc
    <2>3. callInput \in [Request -> Outbound!Input \cup {Outbound!NoInput}]  BY DEF LoopInit
    <2>4. reason \in [Request -> Outbound!Reason \cup {""}]
      <3>1. PICK e : e = ""  BY Zenon
      <3>2. reason = [r \in Request |-> e]  BY <3>1, Zenon DEF LoopInit
      <3>3. reason \in [Request -> Outbound!Reason \cup {e}]  BY <3>2
      <3> QED  BY <3>1, <3>3, Zenon
    <2> QED  BY <2>1, <2>2, <2>3, <2>4 DEF CallTypes
  <1>7. ReplyTypes
    <2>1. replyPc = [h \in Handler |-> "idle"] /\ replyInput = [h \in Handler |-> Reply!NoMessage]
      BY DEF LoopInit
    <2> QED  BY <2>1 DEF ReplyTypes, Reply!Pc
  <1>8. AckedInv  BY DEF LoopInit, AckedInv
  <1>9. TraceInv  BY <1>2, <1>3 DEF TraceInv
  <1>10. ASSUME NEW w \in Slot PROVE RunInv(w)
    <2>1. pc[w] = "idle"  BY <1>1 DEF Init
    <2> QED  BY <2>1 DEF RunInv
  <1>11. ASSUME NEW r \in Request PROVE CallInv(r)
    <2>1. callPc[r] = "idle"  BY DEF LoopInit
    <2> QED  BY <2>1 DEF CallInv, Passed
  <1>12. ASSUME NEW h \in Handler PROVE ReplyInv(h)
    <2>1. replyPc[h] = "idle"  BY DEF LoopInit
    <2> QED  BY <2>1 DEF ReplyInv
  <1> QED  BY <1>4, <1>5, <1>6, <1>7, <1>8, <1>9, <1>10, <1>11, <1>12 DEF LoopInv

LEMMA LoopNextInv == LoopInv /\ [LoopNext]_loopVars => LoopInv'
  <1> SUFFICES ASSUME LoopInv, [LoopNext]_loopVars PROVE LoopInv'
    OBVIOUS
  <1>1. CASE LoopNext
    <2>1. Remember  BY <1>1 DEF LoopNext
    <2>2. CASE Next /\ UNCHANGED <<call, reply>>  BY <2>1, <2>2, SenderInLoop
    <2>3. CASE Outbound!Next /\ UNCHANGED <<local, reply>>  BY <2>1, <2>3, CallsInLoop
    <2>4. CASE ReplyNext /\ UNCHANGED <<local, call>>  BY <2>1, <2>4, RepliesInLoop
    <2> QED  BY <1>1, <2>2, <2>3, <2>4 DEF LoopNext
  <1>2. CASE UNCHANGED loopVars
    <2>1. UNCHANGED <<contacts, campaigns, ledger, delivered, pc, client, batch, optSeen, desired,
                      provider, early, callPc, callInput, reason, replyPc, replyInput, ackedBefore>>
      BY <1>2 DEF loopVars, tables, local, call, reply
    <2>2. TableTypes' /\ RunTypes' /\ CallTypes' /\ AckedInv'
      BY <2>1 DEF LoopInv, TableTypes, RunTypes, CallTypes, AckedInv, optOut
    <2>3. ReplyTypes' /\ TraceInv'
      BY <2>1 DEF LoopInv, ReplyTypes, Stops, TraceInv, IsDispatch, DispatchChannel, RowsOf
    <2>4. \A w \in Slot : RunInv(w)'
      BY <2>1 DEF LoopInv, RunInv, Current, CampaignRowOf
    <2>5. (\A r \in Request : CallInv(r)') /\ (\A h \in Handler : ReplyInv(h)')
      BY <2>1 DEF LoopInv, CallInv, ReplyInv, optOut
    <2> QED  BY <2>2, <2>3, <2>4, <2>5 DEF LoopInv
  <1> QED  BY <1>1, <1>2

LEMMA LoopSpecInv == LoopSpec => []LoopInv
  BY LoopInitInv, LoopNextInv, PTL DEF LoopSpec

-----------------------------------------------------------------------------
(* What a run is about to send when it is in the provider's hands goes to *)
(* someone who had not stopped when the run began.                        *)
LEMMA SenderSends ==
    ASSUME LoopInv, Next, NEW m \in delivered' \ delivered
    PROVE  m.contact \notin ackedBefore[SenderOf(m)]
  <1>1. PICK w \in Slot : ProviderAccepts(w)
    BY DEF Next, Work, Fetch, ReadOptOut, DecidePolicy, Dispatch, Mark, Recheck, WriteEvidence,
           OnlyLedger, Skip, Crash, Tick, EditRules, tables
  <1>2. m = Message(w) /\ pc[w] = "post"  BY <1>1 DEF ProviderAccepts
  <1>3. m.id = <<w, Current(w)>> /\ m.contact = ContactOf[Current(w)]  BY <1>2 DEF Message, MessageId
  <1>4. Current(w) \in Sequence  BY <1>2, CurrentIsInBatch DEF LoopInv
  <1>5. m.id \in OwnId  BY <1>3, <1>4 DEF OwnId
  <1>6. SenderOf(m) = w  BY <1>3, <1>5, IdAssumption DEF SenderOf
  <1>7. m.contact \notin ackedBefore[w]  BY <1>2, <1>3 DEF LoopInv, RunInv
  <1> QED  BY <1>6, <1>7

(* Likewise a call: it passed the gate.                                   *)
LEMMA CallSends ==
    ASSUME LoopInv, Outbound!Next, NEW m \in delivered' \ delivered
    PROVE  m.contact \notin ackedBefore[SenderOf(m)]
  <1>1. PICK r \in Request : Outbound!Step(r)  BY DEF Outbound!Next
  <1>2. m = Outbound!Message(r) /\ callPc[r] = "post"  BY <1>1, CallLeavesTables DEF CallLeaves
  <1>3. m.id = r /\ m.contact = callInput[r].contact  BY <1>2 DEF Outbound!Message
  <1>4. SenderOf(m) = r  BY <1>3 DEF SenderOf
  <1>5. m.contact \notin ackedBefore[r]  BY <1>2, <1>3 DEF LoopInv, CallInv, Passed
  <1> QED  BY <1>4, <1>5

(* The loop is closed: once the provider of a STOP has its answer         *)
(* (ingest_reply, apply_opt_out), no run (send_due_sequences) and no call *)
(* (send_governed_email) that begins later delivers to that contact.      *)
THEOREM AckedStopsAreFinal == LoopSpec => AckedStopStopsLaterSends
  <1> DEFINE Honoured == \A m \in delivered' \ delivered : m.contact \notin ackedBefore[SenderOf(m)]
  <1>1. ASSUME LoopInv, [LoopNext]_loopVars PROVE [Honoured]_loopVars
    <2>1. CASE UNCHANGED loopVars  BY <2>1
    <2>2. CASE LoopNext
      <3>1. CASE Next  BY <1>1, <3>1, SenderSends
      <3>2. CASE Outbound!Next  BY <1>1, <3>2, CallSends
      <3>3. CASE ReplyNext
        <4>1. delivered' = delivered  BY <1>1, <3>3, ReplyLeavesTables DEF ReplyNext, ReplyLeaves
        <4> QED  BY <4>1
      <3> QED  BY <2>2, <3>1, <3>2, <3>3 DEF LoopNext
    <2> QED  BY <1>1, <2>1, <2>2
  <1> QED  BY <1>1, LoopSpecInv, PTL DEF LoopSpec, AckedStopStopsLaterSends

-----------------------------------------------------------------------------
(* A STOP by mail to a message with a row of outreach: the rows of its    *)
(* correlation are all of the dispatch the message is of.                 *)
LEMMA RowsOfThread ==
    ASSUME LoopInv, NEW m \in delivered, NEW row \in RowsOf(ledger, "outreach.sent"), row.corr = m.corr
    PROVE  row.contact = m.contact /\ row.channel = m.channel /\ row.corr \in OwnId
  <1>1. PICK w \in Slot, s \in Sequence :
            row.corr = <<w, s>> /\ row.contact = ContactOf[s] /\ row.channel = DispatchChannel(w, s)
    BY DEF LoopInv, TraceInv, IsDispatch
  <1>2. row.corr \in OwnId  BY <1>1 DEF OwnId
  <1>3. IsDispatch(m)  BY <1>2, IdAssumption DEF LoopInv, TraceInv
  <1>4. PICK v \in Slot, t \in Sequence :
            m.corr = <<v, t>> /\ m.contact = ContactOf[t] /\ m.channel = DispatchChannel(v, t)
    BY <1>3 DEF IsDispatch
  <1>5. <<v, t>> = <<w, s>>  BY <1>1, <1>4
  <1>6. v = w /\ t = s  BY ONLY <1>5
  <1> QED  BY <1>1, <1>2, <1>4, <1>6

LEMMA StopFindsThread ==
    ASSUME LoopInv, NEW m \in delivered, m.channel = "email",
           NEW row \in RowsOf(ledger, "outreach.sent"), row.corr = m.corr
    PROVE  Reply!ThreadOf(Stop(m)) # NoThread
  <1>1. PICK stop : stop = Stop(m)  OBVIOUS
  <1>2. /\ stop.from = m.contact /\ stop.channel = "email" /\ stop.hint = m.corr
    BY <1>1 DEF Stop
  <1>3. stop.hint \in OwnId /\ stop.hint # NoHint
    <2>1. row.corr \in OwnId  BY RowsOfThread
    <2> QED  BY <1>2, <2>1, IdAssumption DEF Correlation
  <1>4. PICK found : found = {i \in DOMAIN ledger : /\ ledger[i].kind = "outreach.sent"
                                                   /\ ledger[i].channel = "email"
                                                   /\ ledger[i].corr = m.corr}
    OBVIOUS
  <1>5. Reply!Outreach(stop) = found
    BY <1>2, <1>3, <1>4 DEF Reply!Outreach
  <1>6. found # {}
    <2>1. PICK i \in DOMAIN ledger : ledger[i].kind = "outreach.sent" /\ ledger[i] = row
      BY DEF RowsOf
    <2>2. ledger[i].channel = "email"  BY <2>1, RowsOfThread
    <2> QED  BY <1>4, <2>1, <2>2
  <1>7. PICK last : last = CHOOSE i \in found : \A j \in found : j <= i  OBVIOUS
  <1>8. last \in found
    <2>1. Len(ledger) \in Nat /\ DOMAIN ledger = 1..Len(ledger)  BY DEF LoopInv, TableTypes, IsTable
    <2>2. found \subseteq 1..Len(ledger)  BY <1>4, <2>1
    <2> HIDE DEF LoopInv
    <2> QED  BY <1>6, <1>7, <2>1, <2>2, LastExists
  <1>9. Reply!LastOutreach(stop) = ledger[last]  BY <1>5, <1>7 DEF Reply!LastOutreach
  <1>10. ledger[last].corr = m.corr /\ ledger[last] \in RowsOf(ledger, "outreach.sent")
    BY <1>4, <1>8 DEF RowsOf
  <1>11. ledger[last].contact = m.contact /\ ledger[last].corr \in OwnId
    BY <1>10, RowsOfThread
  <1>12. ledger[last].corr # NoThread  BY <1>11, IdAssumption DEF Correlation
  <1>13. Reply!ThreadOf(stop) = ledger[last].corr
    BY <1>2, <1>5, <1>6, <1>9, <1>11 DEF Reply!ThreadOf
  <1> QED  BY <1>1, <1>12, <1>13

(* No opt-out by mail is turned away for want of the outreach it answers, *)
(* as long as that outreach is recorded (resolve_thread, which asks for   *)
(* it by its correlation).                                                *)
THEOREM RecordedStopsAreTaken == LoopSpec => StopToRecordedMailIsTaken
  <1> DEFINE Taken(h) ==
          (replyPc[h] # "refused" /\ replyPc'[h] = "refused" /\ replyInput[h].channel = "email") =>
              \A row \in RowsOf(ledger, "outreach.sent") : row.corr # replyInput[h].hint
  <1>1. ASSUME LoopInv, LoopNext PROVE \A h \in Handler : Taken(h)
    <2> SUFFICES ASSUME NEW h \in Handler, replyPc[h] # "refused", replyPc'[h] = "refused",
                        replyInput[h].channel = "email",
                        NEW row \in RowsOf(ledger, "outreach.sent"), row.corr = replyInput[h].hint
                 PROVE  FALSE
      OBVIOUS
    <2>1. ReplyNext  BY <1>1 DEF LoopNext, local, call, reply
    <2>2. PICK g \in Handler : Reply!Step(g) \/ \E m \in delivered : Reply!Deliver(g, Stop(m))
      BY <2>1 DEF ReplyNext
    <2>3. ReplyLeaves  BY <1>1, <2>2, ReplyLeavesTables
    <2>4. \A x \in Handler \ {g} : ReplyIdles(x)  BY <1>1, <2>2, <2>3, ReplyMoves
    <2>5. g = h  BY <2>4 DEF ReplyIdles
    <2>6. replyPc \in [Handler -> Reply!Pc]  BY <1>1 DEF LoopInv, ReplyTypes
    <2>7. Reply!ResolveContact(h) \/ Reply!ResolveThread(h)
      <3>1. \A to : Reply!Goto(h, to) => to = "refused"  BY <2>6 DEF Reply!Goto
      <3>2. /\ "contact" # "refused" /\ "reply" # "refused" /\ "classified" # "refused"
            /\ "column" # "refused" /\ "answered" # "refused" /\ "optedOut" # "refused"
            /\ "asserted" # "refused" /\ "lost" # "refused"
        OBVIOUS
      <3>3. CASE Reply!RecordClassified(h)
        <4>1. PICK to \in {"column", "answered"} : Reply!Goto(h, to)
          BY <3>3, Zenon DEF Reply!RecordClassified
        <4> QED  BY <3>1, <4>1
      <3> QED
        BY <2>2, <2>5, <3>1, <3>2, <3>3, Zenon
          DEF Reply!Step, Reply!Deliver, Reply!RecordReceived, Reply!InsertReply, Reply!PatchOptOut,
              Reply!RecordOptedOut, Reply!RecordAsserted, Reply!Lose
    <2>8. replyPc[h] # "idle"  BY <2>7 DEF Reply!ResolveContact, Reply!ResolveThread
    <2>9. PICK m \in delivered : replyInput[h] = Stop(m)  BY <1>1, <2>8, SenderIsKnown
    <2>10. m.channel = "email" /\ m.corr = row.corr  BY <2>9 DEF Stop
    <2>11. Reply!ThreadOf(replyInput[h]) # NoThread  BY <1>1, <2>9, <2>10, StopFindsThread
    <2>12. CASE Reply!ResolveThread(h)
      <3>1. Reply!Goto(h, "received")  BY <2>11, <2>12 DEF Reply!ResolveThread
      <3> QED  BY <2>6, <3>1 DEF Reply!Goto
    <2>13. CASE Reply!ResolveContact(h)
      <3>1. replyInput[h].from \in Contact  BY <1>1, <2>8, SenderIsKnown
      <3>2. contacts[replyInput[h].from] \in ContactRow  BY <1>1, <3>1 DEF LoopInv, TableTypes
      <3>3. contacts[replyInput[h].from] # Reply!NoRow  BY <3>2 DEF ContactRow, Reply!NoRow
      <3>4. replyInput[h].channel # "whatsapp"  OBVIOUS
      <3>5. Reply!Goto(h, "context")  BY <2>13, <3>3, <3>4 DEF Reply!ResolveContact
      <3> QED  BY <2>6, <3>5 DEF Reply!Goto
    <2> QED  BY <2>7, <2>12, <2>13
  <1>2. ASSUME LoopInv, [LoopNext]_loopVars PROVE [\A h \in Handler : Taken(h)]_loopVars
    BY <1>1, <1>2
  <1> QED  BY <1>2, LoopSpecInv, PTL DEF LoopSpec, StopToRecordedMailIsTaken
=============================================================================
