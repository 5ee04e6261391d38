------------------------ MODULE OutboundSend_proofs ------------------------
(***************************************************************************)
(* Proofs about the constitutional sender: for any number of calls, their  *)
(* retries and losses, and tables that change under them, what is          *)
(* delivered has its whole chain of evidence, every outcome is closed, the *)
(* audit answers for the sends, and an opt-out before the call is honoured *)
(* while the opt-outs fit the window of the query.                         *)
(***************************************************************************)
EXTENDS OutboundSend, EvidenceLedger_proofs, FiniteSetTheorems

Key ==
    (GateKind \X Campaign \X Contact \X Corr)
        \cup ({"outbound.failed"} \X Campaign \X Contact \X Corr \X Reason)
        \cup ({"outbound.sent"} \X Request)
        \cup ({"optout.asserted"} \X Contact \X (Channel \cup {"*"}))

Kind == GateKind \cup {"outbound.sent", "outbound.failed", "optout.asserted"}

Verdict == {"admissible", "blocked", "sent", "pre_admission", "post_admission", "irreversible"}

Row == [kind : Kind, key : Key, corr : Corr \cup {"admin"}, contact : Contact,
        channel : AnyChannel \cup {"*"}, verdict : Verdict, by : Request \cup {"admin"}]

Typed ==
    /\ contacts \in [Contact -> ContactRow \cup {NoRow}]
    /\ campaigns \in [Campaign -> CampaignRow \cup {NoRow}]
    /\ rules \subseteq Rule
    /\ delivered \subseteq [id : Request, contact : Contact, corr : Corr, channel : AnyChannel]
    /\ pc \in [Request -> Pc]
    /\ input \in [Request -> Input \cup {NoInput}]
    /\ reason \in [Request -> Reason \cup {""}]
    /\ provider \in [Request -> Provider \cup {""}]
    /\ late \in [Request -> BOOLEAN]

Has(kind, r) == HasKey(ledger, GateKey(kind, input[r]))

Chosen(r) == provider[r] # ""

(* A send is simulated, or a provider accepted a message of its trail.    *)
Backed(r) == provider[r] = "mock" \/ \E m \in delivered : m.corr = input[r].corr

Posted(row) == \E i \in DOMAIN ledger : ledger[i] = row

(* A row names its call, and its key the correlation it is filed under.   *)
RowInv(row) ==
    /\ row.kind = row.key[1]
    /\ row.kind = "optout.asserted" => row.by = "admin"
    /\ row.kind # "optout.asserted" =>
          row.by \in Request /\ pc[row.by] # "idle" /\ row.corr = input[row.by].corr
    /\ row.kind \in GateKind \cup {"outbound.failed"} => row.key[4] = row.corr
    /\ row.kind = "outbound.sent" =>
          /\ row.key = SentKey(row.by) /\ pc[row.by] \in {"sent", "lost"}
          /\ Chosen(row.by) /\ Backed(row.by) /\ Has("outbound.admitted", row.by)

(* The gate row an act's next gate row comes after.                       *)
Later == {"premium.evaluated", "policy.evaluated", "outbound.admitted"}
Earlier(kind) ==
    CASE kind = "premium.evaluated" -> "eligibility.evaluated"
      [] kind = "policy.evaluated" -> "premium.evaluated"
      [] kind = "outbound.admitted" -> "policy.evaluated"
EarlierKey(key) == <<Earlier(key[1]), key[2], key[3], key[4]>>

InOrder ==
    \A i \in DOMAIN ledger : ledger[i].kind \in Later =>
        \E j \in DOMAIN ledger : j < i /\ ledger[j].key = EarlierKey(ledger[i].key)

(* What a call has ascertained or done by the await it is blocked in.     *)
ReqInv(r) ==
    /\ pc[r] # "idle" => input[r] \in Input
    /\ pc[r] = "premium" => Has("eligibility.evaluated", r)
    /\ pc[r] \in {"optColumn", "optLedger", "rules", "policy"} => Has("premium.evaluated", r)
    /\ pc[r] = "admit" => Has("policy.evaluated", r)
    /\ pc[r] \in {"context", "post", "recordSent", "rejectAfter", "sent", "provider_failed"} =>
          Has("outbound.admitted", r)
    /\ pc[r] \in {"reject", "rejectAfter"} => reason[r] \in Reason
    /\ pc[r] \in {"post", "recordSent"} =>
          campaigns[input[r].campaign] \in CampaignRow /\ provider[r] \in Provider
    /\ pc[r] = "post" => provider[r] # "mock" /\ ~blocks_real_sends(input[r].client)
    /\ pc[r] = "recordSent" => Backed(r)
    /\ pc[r] = "sent" => HasKey(ledger, SentKey(r))
    /\ pc[r] \in {"rejected", "provider_failed"} => HasKey(ledger, FailedKey(input[r], reason[r]))

(* A message comes from an admitted call of a production client that has  *)
(* not answered that it failed.                                           *)
MessageInv(m) ==
    /\ pc[m.id] \in {"recordSent", "sent", "lost"}
    /\ ~blocks_real_sends(input[m.id].client)
    /\ Has("outbound.admitted", m.id)

IInv ==
    /\ Typed
    /\ ledger \in Seq(Row)
    /\ \A row \in Row : Posted(row) => RowInv(row)
    /\ InOrder
    /\ \A r \in Request : ReqInv(r)
    /\ \A m \in delivered : MessageInv(m)

-----------------------------------------------------------------------------
(* What a step leaves behind, whoever makes it.                           *)
Kept ==
    /\ campaigns' = campaigns
    /\ delivered \subseteq delivered'
    /\ \A key : HasKey(ledger, key) => HasKey(ledger', key)

Idles(x) ==
    /\ pc'[x] = pc[x] /\ input'[x] = input[x] /\ reason'[x] = reason[x]
    /\ provider'[x] = provider[x] /\ late'[x] = late[x]

(* A call moves on from an await.                                         *)
Acts(r) ==
    /\ pc[r] \in Waiting /\ pc'[r] \in Waiting \cup Ended
    /\ pc[r] = "recordSent" => pc'[r] \in {"sent", "lost"}
    /\ input' = input
    /\ \A x \in Request \ {r} : Idles(x)
    /\ Typed'

LEMMA ReqKeeps ==
    ASSUME Kept, NEW x \in Request, ReqInv(x), Idles(x)
    PROVE  ReqInv(x)'
  <1>1. Backed(x) => Backed(x)'  BY DEF Kept, Idles, Backed
  <1>2. \A kind : Has(kind, x) => Has(kind, x)'  BY DEF Kept, Idles, Has
  <1>3. SentKey(x)' = SentKey(x) /\ FailedKey(input[x], reason[x])' = FailedKey(input[x], reason[x])
    BY DEF Idles, SentKey, FailedKey
  <1> QED  BY <1>1, <1>2, <1>3 DEF Kept, Idles, ReqInv

LEMMA RowKeeps ==
    ASSUME Kept, NEW r \in Request, Acts(r), NEW row, RowInv(row)
    PROVE  RowInv(row)'
  <1>1. CASE row.kind = "optout.asserted"
    <2>1. row.kind \notin GateKind \cup {"outbound.failed", "outbound.sent"}  BY <1>1 DEF GateKind
    <2> QED  BY <1>1, <2>1 DEF RowInv
  <1>2. CASE row.kind # "optout.asserted"
    <2>1. row.by \in Request /\ pc[row.by] # "idle" /\ row.corr = input[row.by].corr
      BY <1>2 DEF RowInv
    <2>2. pc'[row.by] # "idle" /\ input'[row.by] = input[row.by]
      BY <2>1 DEF Acts, Idles, Waiting, Ended
    <2>3. ASSUME row.kind = "outbound.sent"
          PROVE  /\ pc'[row.by] \in {"sent", "lost"} /\ Chosen(row.by)'
                 /\ Backed(row.by)' /\ Has("outbound.admitted", row.by)'
      <3>1. pc[row.by] \in {"sent", "lost"} /\ Backed(row.by) /\ Has("outbound.admitted", row.by)
            /\ Chosen(row.by)
        BY <2>3 DEF RowInv
      <3>2. row.by # r  BY <3>1 DEF Acts, Waiting
      <3>3. Idles(row.by)  BY <2>1, <3>2 DEF Acts
      <3> QED  BY <3>1, <3>3 DEF Idles, Kept, Backed, Has, Chosen
    <2>4. row.kind = "outbound.sent" => row.key = SentKey(row.by)'  BY DEF RowInv, SentKey
    <2> QED  BY <1>2, <2>1, <2>2, <2>3, <2>4 DEF RowInv
  <1> QED  BY <1>1, <1>2

LEMMA MessageKeeps ==
    ASSUME Kept, NEW r \in Request, Acts(r), NEW m, m.id \in Request, MessageInv(m)
    PROVE  MessageInv(m)'
  <1>1. pc'[m.id] \in {"recordSent", "sent", "lost"}
    BY DEF MessageInv, Acts, Idles, Waiting
  <1>2. input'[m.id] = input[m.id]  BY DEF Acts
  <1> QED  BY <1>1, <1>2 DEF MessageInv, Has, Kept

(* An insert takes no row and no key away.                                *)
LEMMA InsertKeeps ==
    ASSUME IInv, NEW row \in Row, row.key # NoKey, ledger' = InsertLedgerRow(ledger, row)
    PROVE  /\ ledger' \in Seq(Row)
           /\ DOMAIN ledger = 1..Len(ledger) /\ Len(ledger) \in Nat
           /\ \A i \in DOMAIN ledger : i \in DOMAIN ledger' /\ ledger'[i] = ledger[i]
           /\ \A i \in DOMAIN ledger' : i \in DOMAIN ledger \/ (i = Len(ledger) + 1 /\ ledger'[i] = row)
           /\ \A key : HasKey(ledger, key) => HasKey(ledger', key)
           /\ HasKey(ledger', row.key)
  <1>1. ledger \in Seq(Row)  BY DEF IInv
  <1>2. /\ ledger' \in Seq(Row) /\ IsExtension(ledger, ledger')
        /\ \A i \in DOMAIN ledger' : i \in DOMAIN ledger \/ (i = Len(ledger) + 1 /\ ledger'[i] = row)
    BY <1>1, InsertExtends
  <1>3. DOMAIN ledger = 1..Len(ledger) /\ DOMAIN ledger' = 1..Len(ledger')
        /\ Len(ledger) \in Nat /\ Len(ledger') \in Nat
    BY <1>1, <1>2
  <1>4. /\ \A key : HasKey(ledger, key) => HasKey(ledger', key)
        /\ HasKey(ledger', row.key)
    BY <1>1, InsertHasKeys
  <1> QED  BY <1>2, <1>3, <1>4 DEF IsExtension

(* It is enough to look at the call that makes a step.                    *)
LEMMA QuietStep ==
    ASSUME IInv, NEW r \in Request, Acts(r), ledger' = ledger, delivered' = delivered,
           campaigns' = campaigns, ReqInv(r)'
    PROVE  IInv'
  <1>1. Kept  BY DEF Kept
  <1>2. Typed' /\ ledger' \in Seq(Row)  BY DEF IInv, Acts
  <1>3. \A row \in Row : Posted(row)' => RowInv(row)'
    BY <1>1, RowKeeps DEF IInv, Posted
  <1>4. InOrder'  BY DEF IInv, InOrder
  <1>5. \A x \in Request : ReqInv(x)'
    <2> TAKE x \in Request
    <2>1. CASE x = r  BY <2>1
    <2>2. CASE x # r  BY <1>1, <2>2, ReqKeeps DEF Acts, IInv
    <2> QED  BY <2>1, <2>2
  <1>6. \A m \in delivered' : MessageInv(m)'
    BY <1>1, MessageKeeps DEF IInv, Typed
  <1> QED  BY <1>2, <1>3, <1>4, <1>5, <1>6 DEF IInv

LEMMA KeysAreNotEmpty == \A key \in Key : key # NoKey
  <1>1. \A key \in GateKind \X Campaign \X Contact \X Corr : key # NoKey  BY DEF NoKey
  <1>2. \A key \in {"outbound.failed"} \X Campaign \X Contact \X Corr \X Reason : key # NoKey
    <2>1. \A a, b, c, d, e : <<a, b, c, d, e>> # NoKey  BY DEF NoKey
    <2> QED  BY <2>1
  <1>3. \A key \in {"outbound.sent"} \X Request : key # NoKey  BY DEF NoKey
  <1>4. \A key \in {"optout.asserted"} \X Contact \X (Channel \cup {"*"}) : key # NoKey
    <2>1. \A a, b, c : <<a, b, c>> # NoKey  BY DEF NoKey
    <2> QED  BY <2>1
  <1> QED  BY <1>1, <1>2, <1>3, <1>4 DEF Key

(* A row is posted: what it says must hold after the step.                *)
LEMMA InsertStep ==
    ASSUME IInv, NEW r \in Request, Acts(r), delivered' = delivered, campaigns' = campaigns,
           NEW key \in Key, NEW channel \in AnyChannel, NEW verdict \in Verdict,
           Insert(r, key, channel, verdict), key[1] \in Kind \ {"optout.asserted"},
           key[1] \in GateKind \cup {"outbound.failed"} => key[4] = input[r].corr,
           key[1] \in Later => HasKey(ledger, EarlierKey(key)),
           key[1] = "outbound.sent" => /\ key = SentKey(r) /\ pc'[r] \in {"sent", "lost"}
                                       /\ Chosen(r)' /\ Backed(r)' /\ Has("outbound.admitted", r),
           HasKey(ledger', key) /\ (\A k : HasKey(ledger, k) => HasKey(ledger', k)) => ReqInv(r)'
    PROVE  IInv'
  <1>1. PICK row : row = RowOf(r, key, channel, verdict)  OBVIOUS
  <1>2. input[r] \in Input  BY DEF IInv, ReqInv, Acts, Waiting
  <1>3. /\ row.kind = key[1] /\ row.key = key /\ row.corr = input[r].corr /\ row.by = r
        /\ row \in Row
    BY <1>1, <1>2 DEF RowOf, Row, Input
  <1>4. key # NoKey  BY KeysAreNotEmpty
  <1>5. ledger' = InsertLedgerRow(ledger, row)  BY <1>1 DEF Insert
  <1>6. /\ ledger' \in Seq(Row)
        /\ DOMAIN ledger = 1..Len(ledger) /\ Len(ledger) \in Nat
        /\ \A i \in DOMAIN ledger : i \in DOMAIN ledger' /\ ledger'[i] = ledger[i]
        /\ \A i \in DOMAIN ledger' : i \in DOMAIN ledger \/ (i = Len(ledger) + 1 /\ ledger'[i] = row)
        /\ \A k : HasKey(ledger, k) => HasKey(ledger', k)
        /\ HasKey(ledger', key)
    BY <1>3, <1>4, <1>5, InsertKeeps
  <1>7. Kept  BY <1>6 DEF Kept
  <1>8. RowInv(row)'
    <2>1. pc'[r] # "idle" /\ input' = input  BY DEF Acts, Waiting, Ended
    <2>2. Has("outbound.admitted", r) => Has("outbound.admitted", r)'  BY <2>1, <1>6 DEF Has
    <2>3. key = SentKey(r) => key = SentKey(r)'  BY DEF SentKey
    <2> QED  BY <1>3, <2>1, <2>2, <2>3 DEF RowInv, Backed, Has, SentKey, Chosen
  <1>9. \A old \in Row : Posted(old)' => RowInv(old)'
    <2> SUFFICES ASSUME NEW old \in Row, Posted(old)' PROVE RowInv(old)'
      OBVIOUS
    <2>1. Posted(old) \/ old = row  BY <1>6 DEF Posted
    <2>2. CASE Posted(old)  BY <1>7, <2>2, RowKeeps DEF IInv
    <2> QED  BY <1>8, <2>1, <2>2
  <1>10. InOrder'
    <2> SUFFICES ASSUME NEW i \in DOMAIN ledger', ledger'[i].kind \in Later
                 PROVE  \E j \in DOMAIN ledger' : j < i /\ ledger'[j].key = EarlierKey(ledger'[i].key)
      BY DEF InOrder, EarlierKey
    <2>1. CASE i \in DOMAIN ledger
      <3>1. ledger'[i] = ledger[i]  BY <1>6, <2>1
      <3>2. PICK j \in DOMAIN ledger : j < i /\ ledger[j].key = EarlierKey(ledger[i].key)
        BY <2>1, <3>1 DEF IInv, InOrder
      <3>3. j \in DOMAIN ledger' /\ ledger'[j] = ledger[j]  BY <1>6, <3>2
      <3> QED  BY <3>1, <3>2, <3>3
    <2>2. CASE i = Len(ledger) + 1 /\ ledger'[i] = row
      <3>1. HasKey(ledger, EarlierKey(key))  BY <1>3, <2>2
      <3>2. PICK j \in DOMAIN ledger : ledger[j].key = EarlierKey(key)  BY <3>1 DEF HasKey
      <3>3. j < i
        <4>1. j \in 1..Len(ledger) /\ Len(ledger) \in Nat /\ i = Len(ledger) + 1  BY <1>6, <2>2, <3>2
        <4> QED  BY <4>1
      <3>4. j \in DOMAIN ledger' /\ ledger'[j] = ledger[j]  BY <1>6, <3>2
      <3> QED  BY <1>3, <2>2, <3>2, <3>3, <3>4
    <2> QED  BY <1>6, <2>1, <2>2
  <1>11. \A x \in Request : ReqInv(x)'
    <2> TAKE x \in Request
    <2>1. CASE x = r  BY <1>6, <2>1
    <2>2. CASE x # r  BY <1>7, <2>2, ReqKeeps DEF Acts, IInv
    <2> QED  BY <2>1, <2>2
  <1>12. \A m \in delivered' : MessageInv(m)'
    BY <1>7, MessageKeeps DEF IInv, Typed
  <1>13. Typed'  BY DEF Acts
  <1> QED  BY <1>6, <1>9, <1>10, <1>11, <1>12, <1>13 DEF IInv

-----------------------------------------------------------------------------
(* The two ways a call leaves an await.                                   *)
LEMMA GotoActs ==
    ASSUME IInv, NEW r \in Request, NEW next \in Waiting \cup Ended, pc[r] \in Waiting,
           pc[r] = "recordSent" => next \in {"sent", "lost"}, Goto(r, next),
           UNCHANGED <<contacts, campaigns, rules>>,
           delivered' \subseteq [id : Request, contact : Contact, corr : Corr, channel : AnyChannel]
    PROVE  /\ Acts(r) /\ pc'[r] = next
           /\ reason' = reason /\ provider' = provider
  <1>1. pc \in [Request -> Pc]  BY DEF IInv, Typed
  <1>2. /\ pc' \in [Request -> Pc] /\ pc'[r] = next
        /\ \A x \in Request \ {r} : pc'[x] = pc[x]
    BY <1>1 DEF Goto, Pc
  <1>3. input' = input /\ reason' = reason /\ provider' = provider /\ late' = late  BY DEF Goto
  <1>4. Typed'  BY <1>2, <1>3 DEF IInv, Typed
  <1> QED  BY <1>2, <1>3, <1>4 DEF Acts, Idles

LEMMA ContinueActs ==
    ASSUME IInv, NEW r \in Request, NEW code \in Reason \cup {""}, pc[r] \in Waiting \ {"recordSent"},
           NEW next \in Waiting, NEW refused \in Waiting, Continue(r, code, next, refused),
           UNCHANGED <<contacts, campaigns, rules, delivered>>
    PROVE  /\ Acts(r) /\ provider' = provider /\ reason'[r] = code
           /\ code \in Reason => pc'[r] = refused
           /\ code \notin Reason => pc'[r] = next
  <1> DEFINE to == IF code = "" THEN next ELSE refused
  <1>1. /\ pc \in [Request -> Pc] /\ reason \in [Request -> Reason \cup {""}]
    BY DEF IInv, Typed
  <1>2. /\ code \in Reason => to = refused
        /\ code \notin Reason => to = next
        /\ to \in Waiting
    <2>1. "" \notin Reason  BY Zenon DEF Reason
    <2>2. code \notin Reason => code = ""  BY Zenon
    <2> QED  BY <2>1, <2>2, Zenon
  <1>3. pc' = [pc EXCEPT ![r] = to]  BY DEF Continue
  <1> HIDE DEF to
  <1>4. /\ pc' \in [Request -> Pc] /\ pc'[r] = to
        /\ \A x \in Request \ {r} : pc'[x] = pc[x]
    BY <1>1, <1>2, <1>3 DEF Pc
  <1>5. reason' = [reason EXCEPT ![r] = code]  BY DEF Continue
  <1>6. /\ reason' \in [Request -> Reason \cup {""}] /\ reason'[r] = code
        /\ \A x \in Request \ {r} : reason'[x] = reason[x]
    BY <1>1, <1>5, Zenon
  <1>7. input' = input /\ provider' = provider /\ late' = late  BY DEF Continue
  <1>8. Typed'  BY <1>4, <1>6, <1>7 DEF IInv, Typed
  <1> QED  BY <1>2, <1>4, <1>6, <1>7, <1>8 DEF Acts, Idles

LEMMA QuietKeeps ==
    ASSUME IInv, NEW r \in Request, Acts(r), ledger' = ledger, delivered' = delivered,
           provider' = provider
    PROVE  /\ input'[r] \in Input /\ input'[r] = input[r]
           /\ \A kind : Has(kind, r) => Has(kind, r)'
           /\ Backed(r) => Backed(r)'
  <1>1. input'[r] \in Input /\ input'[r] = input[r]  BY DEF IInv, ReqInv, Acts, Waiting
  <1> QED  BY <1>1 DEF Has, Backed

LEMMA ResolveAccountKeepsIInv == ASSUME IInv, NEW r \in Request, ResolveAccount(r) PROVE IInv'
  <1> DEFINE code == IF contacts[input[r].contact] = NoRow THEN "contact_suppressed" ELSE ""
  <1>1. code \in Reason \cup {""}  BY Zenon DEF Reason
  <1>2. /\ pc[r] = "resolve" /\ Continue(r, code, "eligibility", "reject")
        /\ UNCHANGED <<contacts, campaigns, rules, ledger, delivered>>
    BY DEF ResolveAccount, StoreUnchanged, tables
  <1> HIDE DEF code
  <1>3. /\ Acts(r) /\ provider' = provider /\ reason'[r] = code
        /\ code \in Reason => pc'[r] = "reject"
        /\ code \notin Reason => pc'[r] = "eligibility"
    BY <1>1, <1>2, ContinueActs DEF Waiting
  <1>4. ReqInv(r)'  BY <1>2, <1>3, QuietKeeps DEF ReqInv
  <1> QED  BY <1>2, <1>3, <1>4, QuietStep

LEMMA ReadOptOutColumnKeepsIInv == ASSUME IInv, NEW r \in Request, ReadOptOutColumn(r) PROVE IInv'
  <1> DEFINE code == IF optOut(input[r].contact) THEN "optout_active" ELSE ""
  <1>1. code \in Reason \cup {""}  BY Zenon DEF Reason
  <1>2. /\ pc[r] = "optColumn" /\ Continue(r, code, "optLedger", "optLedger")
        /\ UNCHANGED <<contacts, campaigns, rules, ledger, delivered>>
    BY DEF ReadOptOutColumn, StoreUnchanged, tables
  <1> HIDE DEF code
  <1>3. Acts(r) /\ provider' = provider /\ pc'[r] = "optLedger"
    BY <1>1, <1>2, ContinueActs DEF Waiting
  <1>4. Has("premium.evaluated", r)  BY <1>2 DEF IInv, ReqInv
  <1>5. ReqInv(r)'  BY <1>2, <1>3, <1>4, QuietKeeps DEF ReqInv
  <1> QED  BY <1>2, <1>3, <1>5, QuietStep

LEMMA ReadOptOutLedgerKeepsIInv == ASSUME IInv, NEW r \in Request, ReadOptOutLedger(r) PROVE IInv'
  <1> DEFINE code == IF LedgerOptOut(input[r].contact, input[r].channel) THEN "optout_active" ELSE reason[r]
  <1>1. code \in Reason \cup {""}
    <2>1. reason[r] \in Reason \cup {""}  BY Zenon DEF IInv, Typed
    <2> QED  BY <2>1, Zenon DEF Reason
  <1>2. /\ pc[r] = "optLedger" /\ Continue(r, code, "rules", "reject")
        /\ UNCHANGED <<contacts, campaigns, rules, ledger, delivered>>
    BY DEF ReadOptOutLedger, StoreUnchanged, tables
  <1> HIDE DEF code
  <1>3. /\ Acts(r) /\ provider' = provider /\ reason'[r] = code
        /\ code \in Reason => pc'[r] = "reject"
        /\ code \notin Reason => pc'[r] = "rules"
    BY <1>1, <1>2, ContinueActs DEF Waiting
  <1>4. Has("premium.evaluated", r)  BY <1>2 DEF IInv, ReqInv
  <1>5. ReqInv(r)'  BY <1>2, <1>3, <1>4, QuietKeeps DEF ReqInv
  <1> QED  BY <1>2, <1>3, <1>5, QuietStep

LEMMA ReadRulesKeepsIInv == ASSUME IInv, NEW r \in Request, ReadRules(r) PROVE IInv'
  <1> DEFINE code == IF DecideSendPolicyBlocks(FALSE, SegmentOf[input[r].contact], rules)
                     THEN "policy_blocked" ELSE ""
  <1>1. code \in Reason \cup {""}  BY Zenon DEF Reason
  <1>2. /\ pc[r] = "rules" /\ Continue(r, code, "policy", "policy")
        /\ UNCHANGED <<contacts, campaigns, rules, ledger, delivered>>
    BY DEF ReadRules, StoreUnchanged, tables
  <1> HIDE DEF code
  <1>3. Acts(r) /\ provider' = provider /\ pc'[r] = "policy"
    BY <1>1, <1>2, ContinueActs DEF Waiting
  <1>4. Has("premium.evaluated", r)  BY <1>2 DEF IInv, ReqInv
  <1>5. ReqInv(r)'  BY <1>2, <1>3, <1>4, QuietKeeps DEF ReqInv
  <1> QED  BY <1>2, <1>3, <1>5, QuietStep

LEMMA ProviderRejectsKeepsIInv == ASSUME IInv, NEW r \in Request, ProviderRejects(r) PROVE IInv'
  <1>1. /\ pc[r] = "post" /\ Continue(r, "provider_rejected", "post", "rejectAfter")
        /\ UNCHANGED <<contacts, campaigns, rules, ledger, delivered>>
    BY DEF ProviderRejects, StoreUnchanged, tables
  <1>2. "provider_rejected" \in Reason  BY DEF Reason
  <1>3. Acts(r) /\ provider' = provider /\ pc'[r] = "rejectAfter" /\ reason'[r] \in Reason
    BY <1>1, <1>2, ContinueActs DEF Waiting
  <1>4. Has("outbound.admitted", r)  BY <1>1 DEF IInv, ReqInv
  <1>5. ReqInv(r)'  BY <1>1, <1>3, <1>4, QuietKeeps DEF ReqInv
  <1> QED  BY <1>1, <1>3, <1>5, QuietStep

LEMMA LoseKeepsIInv == ASSUME IInv, NEW r \in Request, Lose(r) PROVE IInv'
  <1>1. /\ pc[r] \in Waiting /\ Goto(r, "lost")
        /\ UNCHANGED <<contacts, campaigns, rules, ledger, delivered>>
    BY DEF Lose, StoreUnchanged, tables
  <1>2. "lost" \in Waiting \cup Ended  BY DEF Ended
  <1>3. delivered' \subseteq [id : Request, contact : Contact, corr : Corr, channel : AnyChannel]
    BY <1>1 DEF IInv, Typed
  <1>4. Acts(r) /\ pc'[r] = "lost" /\ provider' = provider  BY <1>1, <1>2, <1>3, GotoActs
  <1>5. ReqInv(r)'  BY <1>1, <1>4, QuietKeeps DEF ReqInv
  <1> QED  BY <1>1, <1>4, <1>5, QuietStep

-----------------------------------------------------------------------------
(* The key of an act's gate row is typed, and follows that of its gate.   *)
LEMMA GateKeys ==
    ASSUME NEW in \in Input, NEW kind \in GateKind
    PROVE  /\ GateKey(kind, in) \in Key
           /\ GateKey(kind, in)[1] = kind /\ GateKey(kind, in)[4] = in.corr
           /\ kind \in Later => EarlierKey(GateKey(kind, in)) = GateKey(Earlier(kind), in)
  <1>1. in.campaign \in Campaign /\ in.contact \in Contact /\ in.corr \in Corr  BY DEF Input
  <1> QED  BY <1>1 DEF GateKey, Key, EarlierKey

(* A gate leaves its row when the gate before it has left its own.        *)
LEMMA GateStep ==
    ASSUME IInv, NEW r \in Request, Acts(r), NEW kind \in GateKind, NEW verdict \in Verdict,
           UNCHANGED <<campaigns, delivered>>,
           Insert(r, GateKey(kind, input[r]), input[r].channel, verdict),
           kind \in Later => Has(Earlier(kind), r),
           Has(kind, r)' => ReqInv(r)'
    PROVE  IInv'
  <1>1. input[r] \in Input /\ input' = input  BY DEF IInv, ReqInv, Acts, Waiting
  <1>2. PICK key \in Key : key = GateKey(kind, input[r])  BY <1>1, GateKeys
  <1>3. /\ key[1] = kind /\ key[4] = input[r].corr
        /\ kind \in Later => EarlierKey(key) = GateKey(Earlier(kind), input[r])
    BY <1>1, <1>2, GateKeys
  <1>4. input[r].channel \in AnyChannel  BY <1>1 DEF Input, AnyChannel
  <1>5. Insert(r, key, input[r].channel, verdict)  BY <1>2
  <1>6. key[1] \in Later => HasKey(ledger, EarlierKey(key))  BY <1>3 DEF Has
  <1>7. HasKey(ledger', key) => ReqInv(r)'  BY <1>1, <1>2 DEF Has
  <1>8. key[1] \in Kind \ {"optout.asserted"} /\ key[1] # "outbound.sent"  BY <1>3 DEF Kind, GateKind
  <1> HIDE DEF Later
  <1> QED  BY <1>3, <1>4, <1>5, <1>6, <1>7, <1>8, InsertStep

LEMMA GateActs ==
    ASSUME IInv, NEW r \in Request, NEW next \in Waiting, pc[r] \in Waiting \ {"recordSent"},
           Goto(r, next), OnlyLedger
    PROVE  /\ Acts(r) /\ pc'[r] = next /\ UNCHANGED <<campaigns, delivered>>
           /\ input'[r] \in Input
  <1>1. UNCHANGED <<contacts, campaigns, rules, delivered>>  BY DEF OnlyLedger
  <1>2. delivered' \subseteq [id : Request, contact : Contact, corr : Corr, channel : AnyChannel]
    BY <1>1 DEF IInv, Typed
  <1>3. Acts(r) /\ pc'[r] = next  BY <1>1, <1>2, GotoActs
  <1>4. input'[r] \in Input  BY DEF IInv, ReqInv, Waiting, Goto
  <1> QED  BY <1>1, <1>3, <1>4

LEMMA EvaluateEligibilityKeepsIInv == ASSUME IInv, NEW r \in Request, EvaluateEligibility(r) PROVE IInv'
  <1>1. /\ pc[r] = "eligibility" /\ Goto(r, "premium") /\ OnlyLedger
        /\ Insert(r, GateKey("eligibility.evaluated", input[r]), input[r].channel, "admissible")
    BY DEF EvaluateEligibility
  <1>2. "premium" \in Waiting /\ "eligibility" \in Waiting \ {"recordSent"}  BY DEF Waiting
  <1>3. Acts(r) /\ pc'[r] = "premium" /\ UNCHANGED <<campaigns, delivered>> /\ input'[r] \in Input
    BY <1>1, <1>2, GateActs
  <1>4. "eligibility.evaluated" \in GateKind \ Later /\ "admissible" \in Verdict
    BY DEF GateKind, Later, Verdict
  <1>5. Has("eligibility.evaluated", r)' => ReqInv(r)'  BY <1>3 DEF ReqInv
  <1> QED  BY <1>1, <1>3, <1>4, <1>5, GateStep

LEMMA EvaluatePremiumKeepsIInv == ASSUME IInv, NEW r \in Request, EvaluatePremium(r) PROVE IInv'
  <1>1. /\ pc[r] = "premium" /\ Goto(r, "optColumn") /\ OnlyLedger
        /\ Insert(r, GateKey("premium.evaluated", input[r]), input[r].channel, "admissible")
    BY DEF EvaluatePremium
  <1>2. "optColumn" \in Waiting /\ "premium" \in Waiting \ {"recordSent"}  BY DEF Waiting
  <1>3. Acts(r) /\ pc'[r] = "optColumn" /\ UNCHANGED <<campaigns, delivered>> /\ input'[r] \in Input
    BY <1>1, <1>2, GateActs
  <1>4. "premium.evaluated" \in GateKind /\ "admissible" \in Verdict  BY DEF GateKind, Verdict
  <1>5. Has(Earlier("premium.evaluated"), r)  BY <1>1 DEF IInv, ReqInv, Earlier
  <1>6. Has("premium.evaluated", r)' => ReqInv(r)'  BY <1>3 DEF ReqInv
  <1> QED  BY <1>1, <1>3, <1>4, <1>5, <1>6, GateStep

LEMMA RecordPolicyKeepsIInv == ASSUME IInv, NEW r \in Request, RecordPolicy(r) PROVE IInv'
  <1>1. PICK verdict \in {"admissible", "blocked"} :
            Insert(r, GateKey("policy.evaluated", input[r]), input[r].channel, verdict)
    BY Zenon DEF RecordPolicy
  <1>2. PICK code : code = reason[r]  OBVIOUS
  <1>3. /\ pc[r] = "policy" /\ Continue(r, code, "admit", "reject")
        /\ UNCHANGED <<contacts, campaigns, rules, delivered>>
    BY <1>2, Zenon DEF RecordPolicy, OnlyLedger
  <1>4. code \in Reason \cup {""}  BY <1>2, Zenon DEF IInv, Typed
  <1>5. /\ Acts(r) /\ reason'[r] = code
        /\ code \in Reason => pc'[r] = "reject"
        /\ code \notin Reason => pc'[r] = "admit"
    BY <1>3, <1>4, ContinueActs DEF Waiting
  <1>6. input'[r] \in Input  BY <1>3, <1>5 DEF IInv, ReqInv, Acts
  <1>7. "policy.evaluated" \in GateKind /\ verdict \in Verdict  BY DEF GateKind, Verdict
  <1>8. Has(Earlier("policy.evaluated"), r)  BY <1>3 DEF IInv, ReqInv, Earlier
  <1>9. Has("policy.evaluated", r)' => ReqInv(r)'  BY <1>5, <1>6 DEF ReqInv
  <1> QED  BY <1>1, <1>3, <1>5, <1>7, <1>8, <1>9, GateStep

LEMMA AdmitKeepsIInv == ASSUME IInv, NEW r \in Request, Admit(r) PROVE IInv'
  <1>1. /\ pc[r] = "admit" /\ Goto(r, "context") /\ OnlyLedger
        /\ Insert(r, GateKey("outbound.admitted", input[r]), input[r].channel, "admissible")
    BY DEF Admit
  <1>2. "context" \in Waiting /\ "admit" \in Waiting \ {"recordSent"}  BY DEF Waiting
  <1>3. Acts(r) /\ pc'[r] = "context" /\ UNCHANGED <<campaigns, delivered>> /\ input'[r] \in Input
    BY <1>1, <1>2, GateActs
  <1>4. "outbound.admitted" \in GateKind /\ "admissible" \in Verdict  BY DEF GateKind, Verdict
  <1>5. Has(Earlier("outbound.admitted"), r)  BY <1>1 DEF IInv, ReqInv, Earlier
  <1>6. Has("outbound.admitted", r)' => ReqInv(r)'  BY <1>3 DEF ReqInv
  <1> QED  BY <1>1, <1>3, <1>4, <1>5, <1>6, GateStep

-----------------------------------------------------------------------------
(* A dispatch that does not end with an error has a campaign and goes to a *)
(* provider, to a real one for a production client only.                  *)
LEMMA VerdictIsProvider ==
    ASSUME NEW c \in Client, NEW campaign, NEW contact,
           DispatchVerdict(c, campaign, contact) \notin {"contract_error", "send_blocked"}
    PROVE  /\ DispatchVerdict(c, campaign, contact) \in Provider
           /\ campaign # NoRow
           /\ DispatchVerdict(c, campaign, contact) # "mock" => ~blocks_real_sends(c)
  <1>1. c.configured \in {"auto", "mock", "twilio_sendgrid", "twilio_whatsapp"}
    BY ClientAssumption DEF Clients
  <1>2. /\ EffectiveProvider(c, campaign.channel) \in Provider \cup {"contract_error", "send_blocked"}
        /\ EffectiveProvider(c, campaign.channel) \notin {"mock", "contract_error", "send_blocked"} =>
              ~blocks_real_sends(c)
    BY <1>1 DEF EffectiveProvider, Provider
  <1> QED  BY <1>2 DEF DispatchVerdict

LEMMA ReceiptIsTyped ==
    ASSUME NEW p \in Provider, NEW campaign \in CampaignRow
    PROVE  ReceiptChannel(p, campaign) \in AnyChannel
  BY DEF ReceiptChannel, Provider, CampaignRow, AnyChannel

LEMMA DispatchKeepsIInv == ASSUME IInv, NEW r \in Request, Dispatch(r) PROVE IInv'
  <1> DEFINE verdict == DispatchVerdict(input[r].client, campaigns[input[r].campaign],
                                        contacts[input[r].contact])
             to == IF verdict = "mock" THEN "recordSent" ELSE "post"
  <1>1. pc[r] = "context" /\ UNCHANGED <<contacts, campaigns, rules, ledger, delivered>>
    BY DEF Dispatch, StoreUnchanged, tables
  <1>2. input[r] \in Input /\ Has("outbound.admitted", r)  BY <1>1 DEF IInv, ReqInv
  <1>3. /\ verdict = "contract_error" => Goto(r, "contract_error")
        /\ verdict = "send_blocked" => Continue(r, "provider_error", "context", "rejectAfter")
        /\ verdict \notin {"contract_error", "send_blocked"} =>
              /\ provider' = [provider EXCEPT ![r] = verdict] /\ pc' = [pc EXCEPT ![r] = to]
              /\ UNCHANGED <<input, reason, late>>
    BY DEF Dispatch
  <1>4. verdict \notin {"contract_error", "send_blocked"} =>
            /\ verdict \in Provider /\ campaigns[input[r].campaign] # NoRow
            /\ verdict # "mock" => ~blocks_real_sends(input[r].client)
    BY <1>2, VerdictIsProvider DEF Input
  <1>5. verdict = "mock" => to = "recordSent"  OBVIOUS
  <1>6. verdict # "mock" => to = "post"  OBVIOUS
  <1> HIDE DEF verdict, to
  <1>7. CASE verdict = "contract_error"
    <2>1. "contract_error" \in Waiting \cup Ended  BY DEF Ended
    <2>2. delivered' \subseteq [id : Request, contact : Contact, corr : Corr, channel : AnyChannel]
      BY <1>1 DEF IInv, Typed
    <2>3. Acts(r) /\ pc'[r] = "contract_error" /\ provider' = provider
      BY <1>1, <1>3, <1>7, <2>1, <2>2, GotoActs DEF Waiting
    <2>4. ReqInv(r)'  BY <1>1, <2>3, QuietKeeps DEF ReqInv
    <2> QED  BY <1>1, <2>3, <2>4, QuietStep
  <1>8. CASE verdict = "send_blocked"
    <2>1. "provider_error" \in Reason  BY DEF Reason
    <2>2. Acts(r) /\ provider' = provider /\ pc'[r] = "rejectAfter" /\ reason'[r] \in Reason
      BY <1>1, <1>3, <1>8, <2>1, ContinueActs DEF Waiting
    <2>3. ReqInv(r)'  BY <1>1, <1>2, <2>2, QuietKeeps DEF ReqInv
    <2> QED  BY <1>1, <2>2, <2>3, QuietStep
  <1>9. CASE verdict \notin {"contract_error", "send_blocked"}
    <2>1. /\ pc \in [Request -> Pc] /\ provider \in [Request -> Provider \cup {""}]
          /\ to \in Waiting
      BY <1>5, <1>6 DEF IInv, Typed, Waiting
    <2>2. /\ pc' \in [Request -> Pc] /\ pc'[r] = to
          /\ \A x \in Request \ {r} : pc'[x] = pc[x]
      BY <1>3, <1>9, <2>1 DEF Pc
    <2>3. /\ provider' \in [Request -> Provider \cup {""}] /\ provider'[r] = verdict
          /\ \A x \in Request \ {r} : provider'[x] = provider[x]
      BY <1>3, <1>4, <1>9, <2>1, Zenon
    <2>4. UNCHANGED <<input, reason, late>>  BY <1>3, <1>9
    <2>5. Typed'  BY <1>1, <2>2, <2>3, <2>4 DEF IInv, Typed
    <2>6. Acts(r)  BY <1>1, <2>1, <2>2, <2>3, <2>4, <2>5 DEF Acts, Idles, Waiting
    <2>7. campaigns[input[r].campaign] \in CampaignRow
      BY <1>2, <1>4, <1>9 DEF IInv, Typed, Input
    <2>8. verdict = "mock" => Backed(r)'  BY <2>3 DEF Backed
    <2>9. ReqInv(r)'
      <3>1. pc'[r] \in {"recordSent", "post"} /\ (pc'[r] = "recordSent" => verdict = "mock")
            /\ (pc'[r] = "post" => verdict # "mock")
        BY <1>5, <1>6, <2>2
      <3>2. Has("outbound.admitted", r)' /\ input'[r] = input[r]  BY <1>1, <1>2, <2>4 DEF Has
      <3> QED  BY <1>1, <1>2, <1>4, <1>9, <2>3, <2>7, <2>8, <3>1, <3>2 DEF ReqInv
    <2> QED  BY <1>1, <2>6, <2>9, QuietStep
  <1> QED  BY <1>7, <1>8, <1>9

(* The message is there from the moment the provider accepts it.          *)
LEMMA ProviderAcceptsKeepsIInv == ASSUME IInv, NEW r \in Request, ProviderAccepts(r) PROVE IInv'
  <1>1. /\ pc[r] = "post" /\ Goto(r, "recordSent") /\ delivered' = delivered \cup {Message(r)}
        /\ UNCHANGED <<contacts, campaigns, rules, ledger>>
    BY DEF ProviderAccepts
  <1>2. PICK m : m = Message(r)  OBVIOUS
  <1>3. /\ input[r] \in Input /\ campaigns[input[r].campaign] \in CampaignRow
        /\ provider[r] \in Provider /\ ~blocks_real_sends(input[r].client)
        /\ Has("outbound.admitted", r)
    BY <1>1 DEF IInv, ReqInv
  <1>4. ReceiptChannel(provider[r], campaigns[input[r].campaign]) \in AnyChannel
    BY <1>3, ReceiptIsTyped
  <1>5. /\ m \in [id : Request, contact : Contact, corr : Corr, channel : AnyChannel]
        /\ m.id = r /\ m.corr = input[r].corr
    BY <1>2, <1>3, <1>4 DEF Message, Input
  <1>6. delivered' \subseteq [id : Request, contact : Contact, corr : Corr, channel : AnyChannel]
    BY <1>1, <1>2, <1>5 DEF IInv, Typed
  <1>7. /\ Acts(r) /\ pc'[r] = "recordSent" /\ provider' = provider /\ input' = input
    BY <1>1, <1>6, GotoActs DEF Waiting, Acts
  <1>8. Kept  BY <1>1 DEF Kept
  <1>9. Has("outbound.admitted", r)' /\ Backed(r)'
    BY <1>1, <1>2, <1>3, <1>5, <1>7 DEF Has, Backed
  <1>10. ReqInv(r)'  BY <1>1, <1>3, <1>7, <1>9 DEF ReqInv
  <1>11. \A x \in Request : ReqInv(x)'
    <2> TAKE x \in Request
    <2>1. CASE x = r  BY <1>10, <2>1
    <2>2. CASE x # r  BY <1>7, <1>8, <2>2, ReqKeeps DEF Acts, IInv
    <2> QED  BY <2>1, <2>2
  <1>12. \A n \in delivered' : MessageInv(n)'
    <2> SUFFICES ASSUME NEW n \in delivered' PROVE MessageInv(n)'
      OBVIOUS
    <2>1. CASE n \in delivered  BY <1>7, <1>8, <2>1, MessageKeeps DEF IInv, Typed
    <2>2. CASE n = m  BY <1>3, <1>5, <1>7, <1>9, <2>2 DEF MessageInv
    <2> QED  BY <1>1, <1>2, <2>1, <2>2
  <1>13. \A row \in Row : Posted(row)' => RowInv(row)'
    BY <1>1, <1>7, <1>8, RowKeeps DEF IInv, Posted
  <1>14. InOrder' /\ ledger' \in Seq(Row)  BY <1>1 DEF IInv, InOrder
  <1> QED  BY <1>7, <1>11, <1>12, <1>13, <1>14 DEF IInv, Acts

(* The closing rows.                                                      *)
LEMMA RecordSentKeepsIInv == ASSUME IInv, NEW r \in Request, RecordSent(r) PROVE IInv'
  <1>1. /\ pc[r] = "recordSent" /\ UNCHANGED <<contacts, campaigns, rules, delivered>>
        /\ Insert(r, SentKey(r), ReceiptChannel(provider[r], campaigns[input[r].campaign]), "sent")
    BY DEF RecordSent, OnlyLedger
  <1>2. PICK next \in {"sent", "lost"} : Goto(r, next)  BY DEF RecordSent, Answer
  <1>3. delivered' \subseteq [id : Request, contact : Contact, corr : Corr, channel : AnyChannel]
    BY <1>1 DEF IInv, Typed
  <1>4. next \in Waiting \cup Ended  BY DEF Ended
  <1>5. Acts(r) /\ pc'[r] = next /\ provider' = provider /\ input' = input
    BY <1>1, <1>2, <1>3, <1>4, GotoActs DEF Waiting, Acts
  <1>6. /\ input[r] \in Input /\ campaigns[input[r].campaign] \in CampaignRow
        /\ provider[r] \in Provider /\ Has("outbound.admitted", r) /\ Backed(r)
    BY <1>1 DEF IInv, ReqInv
  <1>7. Chosen(r)' /\ Backed(r)'
    <2>1. provider[r] # ""  BY <1>6, Zenon DEF Provider
    <2>2. Backed(r)'  BY <1>1, <1>5, <1>6 DEF Backed
    <2> QED  BY <1>5, <2>1, <2>2, Zenon DEF Chosen
  <1>8. PICK channel \in AnyChannel : Insert(r, SentKey(r), channel, "sent")
    BY <1>1, <1>6, ReceiptIsTyped
  <1>9. PICK key \in Key : key = SentKey(r) /\ key[1] = "outbound.sent"
    <2>1. SentKey(r) \in {"outbound.sent"} \X Request /\ SentKey(r)[1] = "outbound.sent"  BY DEF SentKey
    <2> QED  BY <2>1 DEF Key
  <1>10. /\ key[1] \in Kind \ {"optout.asserted"} /\ key[1] \notin GateKind \cup {"outbound.failed"}
         /\ key[1] \notin Later /\ "sent" \in Verdict
    BY <1>9 DEF Kind, GateKind, Later, Verdict
  <1>11. HasKey(ledger', key) /\ (\A k : HasKey(ledger, k) => HasKey(ledger', k)) => ReqInv(r)'
    <2> SUFFICES ASSUME HasKey(ledger', key), \A k : HasKey(ledger, k) => HasKey(ledger', k)
                 PROVE  ReqInv(r)'
      OBVIOUS
    <2>1. Has("outbound.admitted", r)'  BY <1>5, <1>6 DEF Has
    <2>2. HasKey(ledger', SentKey(r)')  BY <1>9 DEF SentKey
    <2> QED  BY <1>2, <1>5, <1>6, <2>1, <2>2 DEF ReqInv
  <1>12. Insert(r, key, channel, "sent")  BY <1>8, <1>9
  <1> QED  BY <1>1, <1>2, <1>5, <1>6, <1>7, <1>9, <1>10, <1>11, <1>12, InsertStep

LEMMA FailureStep ==
    ASSUME IInv, NEW r \in Request, NEW verdict \in Verdict, NEW next \in {"rejected", "provider_failed"},
           pc[r] \in {"reject", "rejectAfter"}, next = "provider_failed" => pc[r] = "rejectAfter",
           Insert(r, FailedKey(input[r], reason[r]), input[r].channel, verdict),
           Answer(r, next), OnlyLedger
    PROVE  IInv'
  <1>1. UNCHANGED <<contacts, campaigns, rules, delivered>>  BY DEF OnlyLedger
  <1>2. PICK answer \in {next, "lost"} : Goto(r, answer)  BY DEF Answer
  <1>3. delivered' \subseteq [id : Request, contact : Contact, corr : Corr, channel : AnyChannel]
    BY <1>1 DEF IInv, Typed
  <1>4. answer \in Waiting \cup Ended  BY DEF Ended
  <1>5. Acts(r) /\ pc'[r] = answer /\ reason' = reason /\ input' = input
    BY <1>1, <1>2, <1>3, <1>4, GotoActs DEF Waiting, Acts
  <1>6. input[r] \in Input /\ reason[r] \in Reason  BY DEF IInv, ReqInv
  <1>7. PICK key \in Key : /\ key = FailedKey(input[r], reason[r])
                           /\ key[1] = "outbound.failed" /\ key[4] = input[r].corr
    BY <1>6 DEF FailedKey, Key, Input
  <1>8. key[1] \in Kind \ {"optout.asserted"} /\ key[1] \notin Later /\ key[1] # "outbound.sent"
    BY <1>7 DEF Kind, Later
  <1>9. HasKey(ledger', key) /\ (\A k : HasKey(ledger, k) => HasKey(ledger', k)) => ReqInv(r)'
    <2> SUFFICES ASSUME HasKey(ledger', key), \A k : HasKey(ledger, k) => HasKey(ledger', k)
                 PROVE  ReqInv(r)'
      OBVIOUS
    <2>1. pc[r] = "rejectAfter" => Has("outbound.admitted", r)  BY DEF IInv, ReqInv
    <2>2. pc[r] = "rejectAfter" => Has("outbound.admitted", r)'  BY <1>5, <2>1 DEF Has
    <2>3. HasKey(ledger', FailedKey(input[r], reason[r])')  BY <1>5, <1>7 DEF FailedKey
    <2> QED  BY <1>2, <1>5, <1>6, <2>2, <2>3 DEF ReqInv
  <1>10. Insert(r, key, input[r].channel, verdict)  BY <1>7
  <1>11. input[r].channel \in AnyChannel  BY <1>6 DEF Input, AnyChannel
  <1> QED  BY <1>1, <1>5, <1>7, <1>8, <1>9, <1>10, <1>11, InsertStep

LEMMA RejectKeepsIInv ==
    ASSUME IInv, NEW r \in Request, Reject(r) \/ RejectAfterAdmission(r) PROVE IInv'
  <1>1. "pre_admission" \in Verdict /\ "post_admission" \in Verdict  BY DEF Verdict
  <1>2. CASE Reject(r)
    BY <1>1, <1>2, FailureStep DEF Reject
  <1>3. CASE RejectAfterAdmission(r)
    BY <1>1, <1>3, FailureStep DEF RejectAfterAdmission
  <1> QED  BY <1>2, <1>3

-----------------------------------------------------------------------------
(* A call begins: nothing is filed under it yet.                          *)
LEMMA SubmitKeepsIInv == ASSUME IInv, NEW r \in Request, NEW in \in Input, Submit(r, in) PROVE IInv'
  <1>1. /\ pc[r] = "idle" /\ pc' = [pc EXCEPT ![r] = "resolve"] /\ input' = [input EXCEPT ![r] = in]
        /\ UNCHANGED <<reason, provider, contacts, campaigns, rules, ledger, delivered>>
    BY DEF Submit, StoreUnchanged, tables
  <1>2. PICK early \in BOOLEAN : late' = [late EXCEPT ![r] = early]
    <2>1. (optOut(in.contact) \/ OnRecord(in.contact, in.channel)) \in BOOLEAN
      BY Zenon DEF optOut, OnRecord
    <2> QED  BY <2>1, Zenon DEF Submit
  <1>3. /\ pc \in [Request -> Pc] /\ input \in [Request -> Input \cup {NoInput}]
        /\ late \in [Request -> BOOLEAN]
    BY DEF IInv, Typed
  <1>4. /\ pc' \in [Request -> Pc] /\ pc'[r] = "resolve"
        /\ input' \in [Request -> Input \cup {NoInput}] /\ input'[r] = in
        /\ \A x \in Request \ {r} : pc'[x] = pc[x] /\ input'[x] = input[x]
    BY <1>1, <1>3 DEF Pc, Waiting
  <1>5. late' \in [Request -> BOOLEAN] /\ \A x \in Request \ {r} : late'[x] = late[x]
    BY <1>2, <1>3, Zenon
  <1>6. Typed'  BY <1>1, <1>4, <1>5 DEF IInv, Typed
  <1>7. Kept /\ \A x \in Request \ {r} : Idles(x)  BY <1>1, <1>4, <1>5 DEF Kept, Idles
  <1>8. ReqInv(r)'  BY <1>4 DEF ReqInv
  <1>9. \A x \in Request : ReqInv(x)'
    <2> TAKE x \in Request
    <2>1. CASE x = r  BY <1>8, <2>1
    <2>2. CASE x # r  BY <1>7, <2>2, ReqKeeps DEF IInv
    <2> QED  BY <2>1, <2>2
  <1>10. \A m \in delivered' : MessageInv(m)'
    <2> SUFFICES ASSUME NEW m \in delivered PROVE MessageInv(m)'
      BY <1>1
    <2>1. MessageInv(m) /\ m.id \in Request  BY DEF IInv, Typed
    <2>2. m.id # r  BY <1>1, <2>1 DEF MessageInv
    <2>3. pc'[m.id] = pc[m.id] /\ input'[m.id] = input[m.id]  BY <1>4, <2>1, <2>2
    <2> QED  BY <1>1, <2>1, <2>3 DEF MessageInv, Has
  <1>11. \A row \in Row : Posted(row)' => RowInv(row)'
    <2> SUFFICES ASSUME NEW row \in Row, RowInv(row) PROVE RowInv(row)'
      BY <1>1 DEF IInv, Posted
    <2>1. CASE row.kind = "optout.asserted"
      <3>1. row.kind \notin GateKind \cup {"outbound.failed", "outbound.sent"}  BY <2>1 DEF GateKind
      <3> QED  BY <2>1, <3>1 DEF RowInv
    <2>2. CASE row.kind # "optout.asserted"
      <3>1. row.by \in Request /\ pc[row.by] # "idle" /\ row.corr = input[row.by].corr
        BY <2>2 DEF RowInv
      <3>2. pc'[row.by] = pc[row.by] /\ input'[row.by] = input[row.by]  BY <1>1, <1>4, <3>1
      <3>3. Backed(row.by) => Backed(row.by)'  BY <1>1, <3>2 DEF Backed
      <3>4. Has("outbound.admitted", row.by) => Has("outbound.admitted", row.by)'
        BY <1>1, <3>2 DEF Has
      <3>5. Chosen(row.by) => Chosen(row.by)'  BY <1>1, Zenon DEF Chosen
      <3>6. row.key = SentKey(row.by) => row.key = SentKey(row.by)'  BY DEF SentKey
      <3> QED  BY <2>2, <3>1, <3>2, <3>3, <3>4, <3>5, <3>6 DEF RowInv
    <2> QED  BY <2>1, <2>2
  <1>12. InOrder' /\ ledger' \in Seq(Row)  BY <1>1 DEF IInv, InOrder
  <1> QED  BY <1>6, <1>9, <1>10, <1>11, <1>12 DEF IInv

(* The rest of the world changes no call: rules, opt-outs in a column or  *)
(* in the ledger.                                                         *)
LEMMA LocalsStay ==
    ASSUME IInv, UNCHANGED local, Kept, delivered' = delivered
    PROVE  /\ \A x \in Request : ReqInv(x)'
           /\ \A m \in delivered' : MessageInv(m)'
           /\ \A row \in Row : RowInv(row) => RowInv(row)'
  <1>1. \A x \in Request : Idles(x)  BY DEF Idles, local
  <1>2. \A x \in Request : ReqInv(x)'  BY <1>1, ReqKeeps DEF IInv
  <1>3. \A kind : \A x : Has(kind, x) => Has(kind, x)'  BY DEF Has, Kept, local
  <1>4. \A m \in delivered' : MessageInv(m)'  BY <1>3 DEF IInv, MessageInv, local
  <1>5. \A x : /\ Backed(x) => Backed(x)'
               /\ Chosen(x) => Chosen(x)'
    <2>1. pc' = pc /\ input' = input /\ provider' = provider  BY DEF local
    <2> QED  BY <2>1, Zenon DEF Backed, Chosen
  <1>6. \A row \in Row : RowInv(row) => RowInv(row)'
    BY <1>3, <1>5 DEF RowInv, SentKey, local
  <1> QED  BY <1>2, <1>4, <1>6

LEMMA WorldKeepsIInv == ASSUME IInv, World \/ UNCHANGED vars PROVE IInv'
  <1>1. UNCHANGED local /\ campaigns' = campaigns /\ delivered' = delivered
    BY DEF World, vars, tables, EditRules, SetOptOutColumn, AssertOptOut
  <1>2. contacts' \in [Contact -> ContactRow \cup {NoRow}]
    <2>1. contacts \in [Contact -> ContactRow \cup {NoRow}]  BY DEF IInv, Typed
    <2>2. CASE \E c \in Contact : SetOptOutColumn(c)
      <3>1. PICK c \in Contact : /\ contacts' = [contacts EXCEPT ![c].optOut = TRUE]
                                 /\ contacts[c] # NoRow
        BY <2>2 DEF SetOptOutColumn
      <3>2. contacts[c] \in ContactRow  BY <2>1, <3>1
      <3> QED  BY <2>1, <3>1, <3>2 DEF ContactRow
    <2>3. CASE contacts' = contacts  BY <2>1, <2>3
    <2> QED  BY <2>2, <2>3 DEF World, vars, tables, EditRules, AssertOptOut
  <1>3. rules' \subseteq Rule
    <2>1. rules \subseteq Rule  BY DEF IInv, Typed
    <2> QED  BY <2>1, PolicySetAssumption DEF World, vars, tables, EditRules, SetOptOutColumn, AssertOptOut, Rule
  <1>4. Typed'
    <2>1. pc' = pc /\ input' = input /\ reason' = reason /\ provider' = provider /\ late' = late
      BY <1>1 DEF local
    <2> QED  BY <1>1, <1>2, <1>3, <2>1 DEF IInv, Typed
  <1>5. CASE ledger' = ledger
    <2>1. Kept  BY <1>1, <1>5 DEF Kept
    <2>2. InOrder' /\ ledger' \in Seq(Row)  BY <1>5 DEF IInv, InOrder
    <2>3. \A row \in Row : Posted(row)' => RowInv(row)'
      BY <1>1, <1>5, <2>1, LocalsStay DEF IInv, Posted
    <2> QED  BY <1>1, <1>4, <2>1, <2>2, <2>3, LocalsStay DEF IInv
  <1>6. ASSUME NEW c \in Contact, NEW ch \in Channel \cup {"*"}, AssertOptOut(c, ch, OptOutRow(c, ch))
        PROVE  IInv'
    <2>1. PICK row : row = OptOutRow(c, ch)  OBVIOUS
    <2>2. ledger' = InsertLedgerRow(ledger, row)  BY <1>6, <2>1 DEF AssertOptOut
    <2>3. /\ row.kind = "optout.asserted" /\ row.key = <<"optout.asserted", c, ch>> /\ row.by = "admin"
          /\ row.key[1] = "optout.asserted"
      BY <2>1 DEF OptOutRow
    <2>4. row.key \in Key  BY <2>3 DEF Key
    <2>5. row \in Row /\ row.key # NoKey
      BY <2>1, <2>3, <2>4, KeysAreNotEmpty DEF OptOutRow, Row, Kind, AnyChannel, Verdict
    <2>6. /\ ledger' \in Seq(Row)
          /\ \A i \in DOMAIN ledger : i \in DOMAIN ledger' /\ ledger'[i] = ledger[i]
          /\ \A i \in DOMAIN ledger' : i \in DOMAIN ledger \/ (i = Len(ledger) + 1 /\ ledger'[i] = row)
          /\ \A k : HasKey(ledger, k) => HasKey(ledger', k)
      BY <2>2, <2>5, InsertKeeps
    <2>7. Kept  BY <1>1, <2>6 DEF Kept
    <2>8. RowInv(row)  BY <2>3 DEF RowInv, GateKind
    <2>9. \A old \in Row : Posted(old)' => RowInv(old)'
      <3> SUFFICES ASSUME NEW old \in Row, Posted(old)' PROVE RowInv(old)'
        OBVIOUS
      <3>1. Posted(old) \/ old = row  BY <2>6 DEF Posted
      <3>2. RowInv(old)  BY <2>8, <3>1 DEF IInv
      <3> QED  BY <1>1, <2>7, <3>2, LocalsStay
    <2>10. InOrder'
      <3> SUFFICES ASSUME NEW i \in DOMAIN ledger', ledger'[i].kind \in Later
                   PROVE  \E j \in DOMAIN ledger' : j < i /\ ledger'[j].key = EarlierKey(ledger'[i].key)
        BY DEF InOrder, EarlierKey
      <3>1. ledger'[i] # row  BY <2>3 DEF Later
      <3>2. i \in DOMAIN ledger /\ ledger'[i] = ledger[i]  BY <2>6, <3>1
      <3>3. PICK j \in DOMAIN ledger : j < i /\ ledger[j].key = EarlierKey(ledger[i].key)
        BY <3>2 DEF IInv, InOrder
      <3> QED  BY <2>6, <3>2, <3>3
    <2> QED  BY <1>1, <1>4, <2>6, <2>7, <2>9, <2>10, LocalsStay DEF IInv
  <1> QED  BY <1>5, <1>6 DEF World, vars, tables, EditRules, SetOptOutColumn

LEMMA InitIInv == Init => IInv
  <1> SUFFICES ASSUME Init PROVE IInv
    OBVIOUS
  <1>1. ledger \in Seq(Row) /\ DOMAIN ledger = {}
    <2>1. ledger = <<>>  BY DEF Init
    <2> QED  BY <2>1, EmptySeq
  <1>2. /\ pc = [r \in Request |-> "idle"] /\ input = [r \in Request |-> NoInput]
        /\ late = [r \in Request |-> FALSE] /\ delivered = {} /\ rules = {}
        /\ contacts \in [Contact -> ContactRow \cup {NoRow}]
        /\ campaigns \in [Campaign -> CampaignRow \cup {NoRow}]
    BY DEF Init
  <1>3. reason \in [Request -> Reason \cup {""}] /\ provider \in [Request -> Provider \cup {""}]
    BY Zenon DEF Init
  <1>4. Typed  BY <1>2, <1>3 DEF Typed, Pc
  <1>5. \A r \in Request : ReqInv(r)  BY <1>2 DEF ReqInv
  <1> QED  BY <1>1, <1>2, <1>4, <1>5 DEF IInv, InOrder, Posted

LEMMA NextIInv == IInv /\ [Next \/ World]_vars => IInv'
  <1> SUFFICES ASSUME IInv, [Next \/ World]_vars PROVE IInv'
    OBVIOUS
  <1>1. ASSUME NEW r \in Request, Step(r) PROVE IInv'
    <2>1. CASE \/ \E in \in Input : Submit(r, in)
               \/ ResolveAccount(r) \/ EvaluateEligibility(r) \/ EvaluatePremium(r)
               \/ ReadOptOutColumn(r) \/ ReadOptOutLedger(r)
      BY <2>1, SubmitKeepsIInv, ResolveAccountKeepsIInv, EvaluateEligibilityKeepsIInv,
         EvaluatePremiumKeepsIInv, ReadOptOutColumnKeepsIInv, ReadOptOutLedgerKeepsIInv
    <2>2. CASE ReadRules(r) \/ RecordPolicy(r) \/ Admit(r) \/ Dispatch(r) \/ ProviderAccepts(r)
      BY <2>2, ReadRulesKeepsIInv, RecordPolicyKeepsIInv, AdmitKeepsIInv, DispatchKeepsIInv,
         ProviderAcceptsKeepsIInv
    <2>3. CASE ProviderRejects(r) \/ RecordSent(r) \/ Reject(r) \/ RejectAfterAdmission(r) \/ Lose(r)
      BY <2>3, ProviderRejectsKeepsIInv, RecordSentKeepsIInv, RejectKeepsIInv, LoseKeepsIInv
    <2> QED  BY <1>1, <2>1, <2>2, <2>3 DEF Step
  <1>2. CASE World \/ UNCHANGED vars  BY <1>2, WorldKeepsIInv
  <1> QED  BY <1>1, <1>2 DEF Next

LEMMA SpecIInv == Spec => []IInv
  BY InitIInv, NextIInv, PTL DEF Spec

-----------------------------------------------------------------------------
(* A row that is posted is typed and says what it must.                   *)
LEMMA PostedRows ==
    ASSUME IInv, NEW i \in DOMAIN ledger
    PROVE  ledger[i] \in Row /\ RowInv(ledger[i])
  <1>1. ledger[i] \in Row  BY DEF IInv
  <1>2. Posted(ledger[i])  BY DEF Posted
  <1> QED  BY <1>1, <1>2 DEF IInv

LEMMA IInvTypeOK == IInv => TypeOK
  <1> SUFFICES ASSUME IInv PROVE TypeOK
    OBVIOUS
  <1>1. \A i \in DOMAIN ledger :
          /\ ledger[i].kind = ledger[i].key[1]
          /\ ledger[i].kind \in GateKind \cup {"outbound.sent", "outbound.failed", "optout.asserted"}
          /\ ledger[i].contact \in Contact /\ ledger[i].channel \in AnyChannel \cup {"*"}
          /\ IF ledger[i].kind = "optout.asserted" THEN ledger[i].by = "admin"
             ELSE ledger[i].by \in Request /\ ledger[i].corr = input[ledger[i].by].corr
    <2> TAKE i \in DOMAIN ledger
    <2>1. ledger[i] \in Row /\ RowInv(ledger[i])  BY PostedRows
    <2> QED  BY <2>1 DEF Row, RowInv, Kind
  <1>2. Typed  BY DEF IInv
  <1> QED  BY <1>1, <1>2, Zenon DEF TypeOK, Typed

(* Behind the admission of an act stands its whole chain.                 *)
LEMMA GatesBehindAdmission ==
    ASSUME IInv, NEW r \in Request, input[r] \in Input, Has("outbound.admitted", r)
    PROVE  \E e, p, d, a \in DOMAIN ledger :
              /\ e < p /\ p < d /\ d < a
              /\ ledger[e].key = GateKey("eligibility.evaluated", input[r])
              /\ ledger[p].key = GateKey("premium.evaluated", input[r])
              /\ ledger[d].key = GateKey("policy.evaluated", input[r])
              /\ ledger[a].key = GateKey("outbound.admitted", input[r])
  <1>1. ASSUME NEW i \in DOMAIN ledger, NEW kind \in Later, ledger[i].key = GateKey(kind, input[r])
        PROVE  \E j \in DOMAIN ledger : j < i /\ ledger[j].key = GateKey(Earlier(kind), input[r])
    <2>1. kind \in GateKind  BY DEF Later, GateKind
    <2>2. RowInv(ledger[i])  BY PostedRows
    <2>3. ledger[i].kind = kind /\ EarlierKey(ledger[i].key) = GateKey(Earlier(kind), input[r])
      BY <1>1, <2>1, <2>2, GateKeys DEF RowInv
    <2> QED  BY <2>3 DEF IInv, InOrder
  <1>2. PICK a \in DOMAIN ledger : ledger[a].key = GateKey("outbound.admitted", input[r])
    BY DEF Has, HasKey
  <1>3. PICK d \in DOMAIN ledger : d < a /\ ledger[d].key = GateKey("policy.evaluated", input[r])
    BY <1>1, <1>2 DEF Later, Earlier
  <1>4. PICK p \in DOMAIN ledger : p < d /\ ledger[p].key = GateKey("premium.evaluated", input[r])
    BY <1>1, <1>3 DEF Later, Earlier
  <1>5. PICK e \in DOMAIN ledger : e < p /\ ledger[e].key = GateKey("eligibility.evaluated", input[r])
    BY <1>1, <1>4 DEF Later, Earlier
  <1> QED  BY <1>2, <1>3, <1>4, <1>5

LEMMA IInvChain == IInv => DeliveryHasFullChain
  <1> SUFFICES ASSUME IInv, NEW m \in delivered
               PROVE  /\ ~blocks_real_sends(input[m.id].client)
                      /\ LET At(kind) == {i \in DOMAIN ledger : ledger[i].key = GateKey(kind, input[m.id])}
                         IN  \E e \in At("eligibility.evaluated"), p \in At("premium.evaluated"),
                                d \in At("policy.evaluated"), a \in At("outbound.admitted") :
                                e < p /\ p < d /\ d < a
    BY Zenon DEF DeliveryHasFullChain
  <1>1. MessageInv(m) /\ m.id \in Request  BY DEF IInv, Typed
  <1>2. input[m.id] \in Input  BY <1>1 DEF MessageInv, IInv, ReqInv
  <1>3. Has("outbound.admitted", m.id) /\ ~blocks_real_sends(input[m.id].client)
    BY <1>1 DEF MessageInv
  <1>4. PICK e, p, d, a \in DOMAIN ledger :
              /\ e < p /\ p < d /\ d < a
              /\ ledger[e].key = GateKey("eligibility.evaluated", input[m.id])
              /\ ledger[p].key = GateKey("premium.evaluated", input[m.id])
              /\ ledger[d].key = GateKey("policy.evaluated", input[m.id])
              /\ ledger[a].key = GateKey("outbound.admitted", input[m.id])
    BY <1>1, <1>2, <1>3, GatesBehindAdmission
  <1> QED  BY <1>3, <1>4, Zenon

-----------------------------------------------------------------------------
(* A row of a correlation is on its trail.                                *)
LEMMA OnTrail ==
    ASSUME NEW i \in DOMAIN ledger
    PROVE  /\ ledger[i] \in EvidenceTrail(ledger, ledger[i].corr)
           /\ ledger[i].kind \in KindsOf(EvidenceTrail(ledger, ledger[i].corr))
  BY Zenon DEF EvidenceTrail, KindsOf

(* The trail of an admitted act that has a closing row is closed, and     *)
(* says that the act was admitted.                                        *)
LEMMA ClosedTrail ==
    ASSUME IInv, NEW r \in Request, input[r] \in Input, Has("outbound.admitted", r),
           NEW i \in DOMAIN ledger, ledger[i].corr = input[r].corr,
           ledger[i].kind \in {"outbound.sent", "outbound.failed"}
    PROVE  /\ evidence_closed(EvidenceTrail(ledger, input[r].corr))
           /\ "outbound.admitted" \in why_contacted(EvidenceTrail(ledger, input[r].corr))
  <1> DEFINE trail == EvidenceTrail(ledger, input[r].corr)
             Gates == {"eligibility.evaluated", "premium.evaluated", "policy.evaluated", "outbound.admitted"}
  <1>1. PICK e, p, d, a \in DOMAIN ledger :
              /\ ledger[e].key = GateKey("eligibility.evaluated", input[r])
              /\ ledger[p].key = GateKey("premium.evaluated", input[r])
              /\ ledger[d].key = GateKey("policy.evaluated", input[r])
              /\ ledger[a].key = GateKey("outbound.admitted", input[r])
    BY GatesBehindAdmission
  <1>2. ASSUME NEW j \in DOMAIN ledger, NEW kind \in GateKind, ledger[j].key = GateKey(kind, input[r])
        PROVE  ledger[j] \in trail /\ ledger[j].kind = kind /\ kind \in KindsOf(trail)
    <2>1. RowInv(ledger[j])  BY PostedRows
    <2>2. ledger[j].kind = kind /\ ledger[j].corr = input[r].corr
      BY <1>2, <2>1, GateKeys DEF RowInv
    <2> QED  BY <2>2, OnTrail
  <1>3. Gates \subseteq KindsOf(trail)  BY <1>1, <1>2 DEF GateKind
  <1>4. ledger[i].kind \in KindsOf(trail)  BY OnTrail
  <1>5. ledger[a] \in trail /\ ledger[a].kind = "outbound.admitted"  BY <1>1, <1>2 DEF GateKind
  <1> HIDE DEF trail
  <1>6. evidence_closed(trail)
    <2>1. is_terminal_kind(ledger[i].kind)  BY DEF is_terminal_kind
    <2>2. expected_gtm_kinds(KindsOf(trail)) = Gates
      BY <1>4 DEF expected_gtm_kinds, OutboundKinds
    <2>3. missing_expected_kinds(trail) = {}  BY <1>3, <2>2 DEF missing_expected_kinds
    <2> QED  BY <1>4, <2>1, <2>3, Zenon DEF evidence_closed
  <1>7. "outbound.admitted" \in why_contacted(trail)
    <2>1. Speaks(ledger[a])  BY <1>5 DEF Speaks
    <2>2. ledger[a] \in {row \in trail : Speaks(row)}  BY <1>5, <2>1
    <2> QED  BY <1>5, <2>2, Zenon DEF why_contacted, KindsOf
  <1> QED  BY <1>6, <1>7 DEF trail

LEMMA IInvClosed == IInv => OutcomeIsClosed
  <1> SUFFICES ASSUME IInv, NEW r \in Request
               PROVE  /\ pc[r] = "sent" => HasKey(ledger, SentKey(r))
                      /\ pc[r] \in {"rejected", "provider_failed"} =>
                            HasKey(ledger, FailedKey(input[r], reason[r]))
                      /\ pc[r] \in {"sent", "provider_failed"} =>
                            evidence_closed(EvidenceTrail(ledger, input[r].corr))
                      /\ pc[r] \in {"rejected", "provider_failed", "contract_error"} =>
                            \A m \in delivered : m.id # r
    BY DEF OutcomeIsClosed
  <1>1. ReqInv(r)  BY DEF IInv
  <1>2. ASSUME pc[r] \in {"sent", "provider_failed"}
        PROVE  evidence_closed(EvidenceTrail(ledger, input[r].corr))
    <2>1. input[r] \in Input /\ Has("outbound.admitted", r)  BY <1>1, <1>2 DEF ReqInv
    <2>2. PICK i \in DOMAIN ledger : ledger[i].corr = input[r].corr
                                     /\ ledger[i].kind \in {"outbound.sent", "outbound.failed"}
      <3>1. CASE pc[r] = "sent"
        <4>1. PICK i \in DOMAIN ledger : ledger[i].key = SentKey(r)  BY <1>1, <3>1 DEF ReqInv, HasKey
        <4>2. RowInv(ledger[i])  BY PostedRows
        <4>3. ledger[i].kind = "outbound.sent"  BY <4>1, <4>2 DEF RowInv, SentKey
        <4>4. ledger[i].by = r /\ ledger[i].corr = input[r].corr  BY <4>1, <4>2, <4>3 DEF RowInv, SentKey
        <4> QED  BY <4>3, <4>4
      <3>2. CASE pc[r] = "provider_failed"
        <4>1. PICK i \in DOMAIN ledger : ledger[i].key = FailedKey(input[r], reason[r])
          BY <1>1, <3>2 DEF ReqInv, HasKey
        <4>2. RowInv(ledger[i])  BY PostedRows
        <4>3. ledger[i].kind = "outbound.failed"  BY <4>1, <4>2 DEF RowInv, FailedKey
        <4>4. ledger[i].corr = input[r].corr  BY <4>1, <4>2, <4>3 DEF RowInv, FailedKey
        <4> QED  BY <4>3, <4>4
      <3> QED  BY <1>2, <3>1, <3>2
    <2> QED  BY <2>1, <2>2, ClosedTrail
  <1>3. pc[r] \in {"rejected", "provider_failed", "contract_error"} => \A m \in delivered : m.id # r
    BY DEF IInv, MessageInv
  <1> QED  BY <1>1, <1>2, <1>3 DEF ReqInv

(* A trail that shows a touch has a sent row, and its call was told.      *)
LEMMA TouchedTrail ==
    ASSUME IInv, NEW c \in Corr, contacted(EvidenceTrail(ledger, c))
    PROVE  /\ evidence_closed(EvidenceTrail(ledger, c))
           /\ "outbound.admitted" \in why_contacted(EvidenceTrail(ledger, c))
           /\ \/ \E m \in delivered : m.corr = c
              \/ \E r \in Request : provider[r] = "mock" /\ input[r].corr = c
           /\ \E r \in Request : Chosen(r) /\ input[r].corr = c
  <1>1. PICK kind \in {"outreach.sent", "outbound.sent"} : kind \in KindsOf(EvidenceTrail(ledger, c))
    BY DEF contacted
  <1>2. PICK i \in DOMAIN ledger : ledger[i].corr = c /\ ledger[i].kind = kind
    BY <1>1, Zenon DEF KindsOf, EvidenceTrail
  <1>3. ledger[i] \in Row /\ RowInv(ledger[i])  BY PostedRows
  <1>4. ledger[i].kind = "outbound.sent"  BY <1>2, <1>3 DEF Row, Kind, GateKind
  <1>5. PICK r \in Request : r = ledger[i].by  BY <1>3, <1>4 DEF RowInv
  <1>6. /\ pc[r] # "idle" /\ input[r].corr = c /\ Chosen(r) /\ Backed(r) /\ Has("outbound.admitted", r)
    BY <1>2, <1>3, <1>4, <1>5 DEF RowInv
  <1>7. input[r] \in Input  BY <1>6 DEF IInv, ReqInv
  <1>8. /\ evidence_closed(EvidenceTrail(ledger, c))
        /\ "outbound.admitted" \in why_contacted(EvidenceTrail(ledger, c))
    BY <1>2, <1>4, <1>6, <1>7, ClosedTrail
  <1> QED  BY <1>6, <1>8 DEF Backed

LEMMA IInvAudit == ASSUME IsFiniteSet(Corr), IInv PROVE AuditAnswersForSends
  <1> DEFINE Trail == [c \in Corr |-> EvidenceTrail(ledger, c)]
             Of(R) == {input[r].corr : r \in R}
             Touched == {c \in DOMAIN Trail : contacted(Trail[c])}
             Refused == {c \in DOMAIN Trail : blocked(Trail[c])}
             Sent == {r \in Request : pc[r] = "sent"}
             Rejected == {r \in Request : pc[r] \in {"rejected", "provider_failed"}}
             Dispatched == {r \in Request : provider[r] # ""}
  <1>1. /\ \A c \in Corr : Trail[c] = EvidenceTrail(ledger, c)
        /\ DOMAIN Trail = Corr
    OBVIOUS
  <1>2. \A r \in Sent \cup Rejected : input[r].corr \in Corr
    BY DEF IInv, ReqInv, Input
  <1>3. ASSUME NEW r \in Sent PROVE input[r].corr \in Touched
    <2>1. ReqInv(r)  BY DEF IInv
    <2>2. PICK i \in DOMAIN ledger : ledger[i].key = SentKey(r)  BY <2>1 DEF ReqInv, HasKey
    <2>3. RowInv(ledger[i])  BY PostedRows
    <2>4. ledger[i].kind = "outbound.sent"  BY <2>2, <2>3 DEF RowInv, SentKey
    <2>5. ledger[i].corr = input[r].corr  BY <2>2, <2>3, <2>4 DEF RowInv, SentKey
    <2>6. "outbound.sent" \in KindsOf(EvidenceTrail(ledger, input[r].corr))  BY <2>4, <2>5, OnTrail
    <2>7. contacted(EvidenceTrail(ledger, input[r].corr))  BY <2>6 DEF contacted
    <2> QED  BY <1>1, <1>2, <2>7
  <1>4. ASSUME NEW r \in Rejected PROVE input[r].corr \in Refused
    <2>1. ReqInv(r)  BY DEF IInv
    <2>2. PICK i \in DOMAIN ledger : ledger[i].key = FailedKey(input[r], reason[r])
      BY <2>1 DEF ReqInv, HasKey
    <2>3. RowInv(ledger[i])  BY PostedRows
    <2>4. ledger[i].kind = "outbound.failed"  BY <2>2, <2>3 DEF RowInv, FailedKey
    <2>5. ledger[i].corr = input[r].corr  BY <2>2, <2>3, <2>4 DEF RowInv, FailedKey
    <2>6. "outbound.failed" \in KindsOf(EvidenceTrail(ledger, input[r].corr))  BY <2>4, <2>5, OnTrail
    <2>7. blocked(EvidenceTrail(ledger, input[r].corr))  BY <2>6 DEF blocked
    <2> QED  BY <1>1, <1>2, <2>7
  <1>5. ASSUME NEW c \in Touched PROVE c \in Of(Dispatched)
    <2>1. c \in Corr /\ contacted(EvidenceTrail(ledger, c))  BY <1>1
    <2>2. PICK r \in Request : Chosen(r) /\ input[r].corr = c  BY <2>1, TouchedTrail
    <2>3. r \in Dispatched  BY <2>2, Zenon DEF Chosen
    <2> QED  BY <2>1, <2>2, <2>3, Zenon
  <1>6. ASSUME NEW c \in Corr, contacted(Trail[c])
        PROVE  /\ evidence_closed(Trail[c])
               /\ "outbound.admitted" \in why_contacted(Trail[c])
               /\ \/ \E m \in delivered : m.corr = c
                  \/ \E r \in Request : provider[r] = "mock" /\ input[r].corr = c
    <2>1. Trail[c] = EvidenceTrail(ledger, c)  BY <1>1
    <2> HIDE DEF Trail
    <2> QED  BY <1>6, <2>1, TouchedTrail
  <1>7. Of(Dispatched) \subseteq Corr \cup {NoInput.corr}
    <2> SUFFICES ASSUME NEW r \in Request PROVE input[r].corr \in Corr \cup {NoInput.corr}
      BY Zenon
    <2>1. input[r] \in Input \/ input[r] = NoInput  BY DEF IInv, Typed
    <2> QED  BY <2>1, Zenon DEF Input
  <1>8. kpi_snapshot(Trail).with_send = Cardinality(Touched)
        /\ kpi_snapshot(Trail).with_block = Cardinality(Refused)
    BY DEF kpi_snapshot
  <1>9. Touched \subseteq Corr /\ Refused \subseteq Corr  BY <1>1
  <1>10. Of(Sent) \subseteq Touched /\ Touched \subseteq Of(Dispatched) /\ Of(Rejected) \subseteq Refused
    BY <1>3, <1>4, <1>5, Zenon
  <1> HIDE DEF Trail, Of, Touched, Refused, Sent, Rejected, Dispatched
  <1>11. /\ IsFiniteSet(Touched) /\ IsFiniteSet(Refused) /\ IsFiniteSet(Of(Dispatched))
    BY <1>7, <1>9, FS_Subset, FS_AddElement
  <1>12. /\ Cardinality(Of(Sent)) <= Cardinality(Touched)
         /\ Cardinality(Touched) <= Cardinality(Of(Dispatched))
         /\ Cardinality(Of(Rejected)) <= Cardinality(Refused)
    BY <1>10, <1>11, FS_Subset
  <1>13. /\ Cardinality(Of(Sent)) <= kpi_snapshot(Trail).with_send
         /\ kpi_snapshot(Trail).with_send <= Cardinality(Of(Dispatched))
         /\ Cardinality(Of(Rejected)) <= kpi_snapshot(Trail).with_block
    BY <1>8, <1>12
  <1> QED  BY <1>6, <1>13, Zenon DEF AuditAnswersForSends, Trail, Of, Sent, Rejected, Dispatched

-----------------------------------------------------------------------------
Cleared == {"rules", "policy", "admit", "context", "post", "recordSent"}

(* A late call still finds the opt-out, has found it, or is past the gate *)
(* without having been cleared.                                           *)
OptReq(r) ==
    late[r] = TRUE =>
        /\ pc[r] \in {"resolve", "eligibility", "premium", "optColumn"} =>
              optOut(input[r].contact) \/ OnRecord(input[r].contact, input[r].channel)
        /\ pc[r] = "optLedger" =>
              reason[r] = "optout_active" \/ OnRecord(input[r].contact, input[r].channel)
        /\ pc[r] \notin Cleared

OptInv ==
    /\ Cardinality(Assertions) <= MaxAssertions
    /\ \A r \in Request : OptReq(r)
    /\ \A m \in delivered : late[m.id] = FALSE

(* While the opt-outs fit the window, the query finds every one of them.  *)
LEMMA WindowShowsAll ==
    ASSUME IInv, Cardinality(Assertions) <= MaxAssertions, MaxAssertions <= OptOutWindow,
           NEW c, NEW ch
    PROVE  LedgerOptOut(c, ch) <=> OnRecord(c, ch)
  <1>1. IsFiniteSet(Assertions)
    <2>1. DOMAIN ledger = 1..Len(ledger) /\ Len(ledger) \in Nat  BY DEF IInv
    <2>2. IsFiniteSet(1..Len(ledger))  BY <2>1, FS_Interval
    <2>3. Assertions \in SUBSET (1..Len(ledger))  BY <2>1 DEF Assertions
    <2> QED  BY <2>2, <2>3, FS_Subset
  <1>2. ASSUME NEW i \in Assertions PROVE Cardinality({j \in Assertions : j > i}) < OptOutWindow
    <2> DEFINE After == {j \in Assertions : j > i}
    <2>1. After \in SUBSET Assertions  OBVIOUS
    <2>2. i \notin After
      <3>1. i \in Nat  BY DEF Assertions, IInv
      <3> QED  BY <3>1
    <2> HIDE DEF After
    <2>3. Cardinality(After) <= Cardinality(Assertions) /\ Cardinality(After) # Cardinality(Assertions)
      BY <1>1, <2>1, <2>2, FS_Subset
    <2>4. Cardinality(After) \in Nat /\ Cardinality(Assertions) \in Nat
      BY <1>1, <2>1, FS_Subset, FS_CardinalityType
    <2>5. Cardinality(After) < OptOutWindow
      BY <2>3, <2>4, MaxAssertionsAssumption, OptOutWindowAssumption
    <2> QED  BY <2>5 DEF After
  <1>3. Latest(ledger, "optout.asserted", OptOutWindow) = Assertions
    BY <1>2 DEF Latest, Assertions
  <1> QED  BY <1>3 DEF LedgerOptOut, OnRecord

(* A post leaves every row where it is.                                   *)
LEMMA PostLeaves ==
    ASSUME IInv, NEW row, ledger' = InsertLedgerRow(ledger, row)
    PROVE  /\ \A i \in DOMAIN ledger : i \in DOMAIN ledger' /\ ledger'[i] = ledger[i]
           /\ \A i \in DOMAIN ledger' : i \in DOMAIN ledger \/ (i = Len(ledger) + 1 /\ ledger'[i] = row)
  <1> DEFINE Any == Row \cup {row}
  <1>1. ledger \in Seq(Any)
    <2>1. ledger \in Seq(Row)  BY DEF IInv
    <2> QED  BY <2>1
  <1>2. row \in Any  OBVIOUS
  <1> HIDE DEF Any
  <1>3. /\ ledger' \in Seq(Any) /\ IsExtension(ledger, ledger')
        /\ \A i \in DOMAIN ledger' : i \in DOMAIN ledger \/ (i = Len(ledger) + 1 /\ ledger'[i] = row)
    BY <1>1, <1>2, InsertExtends
  <1>4. DOMAIN ledger = 1..Len(ledger) /\ DOMAIN ledger' = 1..Len(ledger')
        /\ Len(ledger) \in Nat /\ Len(ledger') \in Nat
    BY <1>1, <1>3
  <1> QED  BY <1>3, <1>4 DEF IsExtension

(* What a step leaves of the opt-outs.                                    *)
Standing ==
    /\ Cardinality(Assertions') <= MaxAssertions
    /\ \A i \in Assertions : i \in Assertions' /\ ledger'[i] = ledger[i]
    /\ \A c \in Contact : optOut(c) => optOut(c)'

LEMMA PostStands ==
    ASSUME IInv, OptInv, contacts' = contacts,
           \/ ledger' = ledger
           \/ \E row : ledger' = InsertLedgerRow(ledger, row) /\ row.kind # "optout.asserted"
    PROVE  Standing
  <1>1. CASE ledger' = ledger
    <2>1. Assertions' = Assertions  BY <1>1 DEF Assertions
    <2> QED  BY <1>1, <2>1 DEF Standing, OptInv, optOut
  <1>2. CASE \E row : ledger' = InsertLedgerRow(ledger, row) /\ row.kind # "optout.asserted"
    <2>1. PICK row : ledger' = InsertLedgerRow(ledger, row) /\ row.kind # "optout.asserted"
      BY <1>2
    <2>2. /\ \A i \in DOMAIN ledger : i \in DOMAIN ledger' /\ ledger'[i] = ledger[i]
          /\ \A i \in DOMAIN ledger' : i \in DOMAIN ledger \/ (i = Len(ledger) + 1 /\ ledger'[i] = row)
      BY <2>1, PostLeaves
    <2>3. Assertions' = Assertions  BY <2>1, <2>2 DEF Assertions
    <2>4. \A i \in Assertions : ledger'[i] = ledger[i]  BY <2>2 DEF Assertions
    <2> QED  BY <2>3, <2>4 DEF Standing, OptInv, optOut
  <1> QED  BY <1>1, <1>2

LEMMA OnRecordStays ==
    ASSUME Standing, NEW c, NEW ch, OnRecord(c, ch) PROVE OnRecord(c, ch)'
  BY DEF Standing, OnRecord

LEMMA OptReqKeeps ==
    ASSUME IInv, Standing, NEW x \in Request, OptReq(x), Idles(x) PROVE OptReq(x)'
  <1>1. ASSUME OnRecord(input[x].contact, input[x].channel)
        PROVE  OnRecord(input[x].contact, input[x].channel)'
    BY <1>1 DEF Standing, Idles, OnRecord
  <1>2. pc[x] # "idle" /\ optOut(input[x].contact) => optOut(input[x].contact)'
    <2>1. pc[x] # "idle" => input[x].contact \in Contact  BY DEF IInv, ReqInv, Input
    <2> QED  BY <2>1 DEF Standing, Idles, optOut
  <1> QED  BY <1>1, <1>2 DEF OptReq, Idles

(* The others keep their locals in a call's step, late is written once,   *)
(* and input with it.                                                     *)
LEMMA StepIsLocal ==
    ASSUME IInv, NEW r \in Request, Step(r)
    PROVE  /\ \A x \in Request \ {r} : Idles(x)
           /\ pc[r] # "idle" => late'[r] = late[r] /\ input'[r] = input[r]
  <1>1. /\ pc \in [Request -> Pc] /\ input \in [Request -> Input \cup {NoInput}]
        /\ reason \in [Request -> Reason \cup {""}] /\ provider \in [Request -> Provider \cup {""}]
        /\ late \in [Request -> BOOLEAN]
    BY Zenon DEF IInv, Typed
  <1> DEFINE Stays(f, g) == \A x \in Request \ {r} : g[x] = f[x]
  <1>2. \A v : /\ pc' = [pc EXCEPT ![r] = v] => Stays(pc, pc')
               /\ input' = [input EXCEPT ![r] = v] => Stays(input, input')
               /\ reason' = [reason EXCEPT ![r] = v] => Stays(reason, reason')
               /\ provider' = [provider EXCEPT ![r] = v] => Stays(provider, provider')
               /\ late' = [late EXCEPT ![r] = v] => Stays(late, late')
    BY <1>1, Zenon
  <1>3. ASSUME NEW next, Goto(r, next)
        PROVE  (\A x \in Request \ {r} : Idles(x)) /\ late' = late /\ input' = input
    BY <1>2, <1>3, Zenon DEF Goto, Idles
  <1>4. ASSUME NEW code, NEW next, NEW refused, Continue(r, code, next, refused)
        PROVE  (\A x \in Request \ {r} : Idles(x)) /\ late' = late /\ input' = input
    <2>1. PICK to : pc' = [pc EXCEPT ![r] = to]  BY <1>4, Zenon DEF Continue
    <2>2. reason' = [reason EXCEPT ![r] = code] /\ UNCHANGED <<input, provider, late>>
      BY <1>4, Zenon DEF Continue
    <2> QED  BY <1>2, <2>1, <2>2, Zenon DEF Idles
  <1>5. CASE \E in \in Input : Submit(r, in)
    <2>1. PICK in \in Input : Submit(r, in)  BY <1>5
    <2>2. PICK early : late' = [late EXCEPT ![r] = early]  BY <2>1, Zenon DEF Submit
    <2>3. /\ pc[r] = "idle" /\ pc' = [pc EXCEPT ![r] = "resolve"] /\ input' = [input EXCEPT ![r] = in]
          /\ UNCHANGED <<reason, provider>>
      BY <2>1, Zenon DEF Submit
    <2> QED  BY <1>2, <2>2, <2>3, Zenon DEF Idles
  <1>6. CASE Dispatch(r)
    <2>1. \/ \E next : Goto(r, next)
          \/ \E code, next, refused : Continue(r, code, next, refused)
          \/ \E verdict, to : /\ provider' = [provider EXCEPT ![r] = verdict]
                              /\ pc' = [pc EXCEPT ![r] = to] /\ UNCHANGED <<input, reason, late>>
      BY <1>6, Zenon DEF Dispatch
    <2>2. CASE \E verdict, to : /\ provider' = [provider EXCEPT ![r] = verdict]
                                /\ pc' = [pc EXCEPT ![r] = to] /\ UNCHANGED <<input, reason, late>>
      BY <1>2, <2>2, Zenon DEF Idles
    <2> QED  BY <1>3, <1>4, <2>1, <2>2, Zenon
  <1>7. CASE \/ ResolveAccount(r) \/ ReadOptOutColumn(r) \/ ReadOptOutLedger(r)
             \/ ReadRules(r) \/ RecordPolicy(r) \/ ProviderRejects(r)
    <2>1. \E code, next, refused : Continue(r, code, next, refused)
      BY <1>7, Zenon DEF ResolveAccount, ReadOptOutColumn, ReadOptOutLedger, ReadRules, RecordPolicy, ProviderRejects
    <2> QED  BY <1>4, <2>1, Zenon
  <1>8. CASE \/ EvaluateEligibility(r) \/ EvaluatePremium(r) \/ Admit(r) \/ ProviderAccepts(r)
             \/ RecordSent(r) \/ Reject(r) \/ RejectAfterAdmission(r) \/ Lose(r)
    <2>1. \E next : Goto(r, next)
      BY <1>8, Zenon DEF EvaluateEligibility, EvaluatePremium, Admit, ProviderAccepts, RecordSent,
                         Reject, RejectAfterAdmission, Lose, Answer
    <2> QED  BY <1>3, <2>1, Zenon
  <1> QED  BY <1>5, <1>6, <1>7, <1>8, Zenon DEF Step

(* A call posts no opt-out and leaves the contact rows alone.             *)
LEMMA StepStands ==
    ASSUME IInv, OptInv, NEW r \in Request, Step(r)
    PROVE  Standing
  <1>1. contacts' = contacts
    BY Zenon DEF Step, Submit, ResolveAccount, EvaluateEligibility, EvaluatePremium, ReadOptOutColumn,
        ReadOptOutLedger, ReadRules, RecordPolicy, Admit, Dispatch, ProviderAccepts, ProviderRejects,
        RecordSent, Reject, RejectAfterAdmission, Lose, StoreUnchanged, OnlyLedger, tables
  <1>2. ASSUME NEW key, NEW channel, NEW verdict, Insert(r, key, channel, verdict),
               key[1] # "optout.asserted"
        PROVE  \E row : ledger' = InsertLedgerRow(ledger, row) /\ row.kind # "optout.asserted"
    <2>1. PICK row : row = RowOf(r, key, channel, verdict)  OBVIOUS
    <2>2. row.kind = key[1]  BY <2>1 DEF RowOf
    <2> QED  BY <1>2, <2>1, <2>2 DEF Insert
  <1>3. \/ ledger' = ledger
        \/ \E key, channel, verdict : Insert(r, key, channel, verdict) /\ key[1] # "optout.asserted"
    <2>1. /\ \A kind \in GateKind : \A in : GateKey(kind, in)[1] # "optout.asserted"
          /\ SentKey(r)[1] # "optout.asserted"
          /\ \A in, code : FailedKey(in, code)[1] # "optout.asserted"
      BY DEF GateKey, SentKey, FailedKey, GateKind
    <2>2. /\ "eligibility.evaluated" \in GateKind /\ "premium.evaluated" \in GateKind
          /\ "policy.evaluated" \in GateKind /\ "outbound.admitted" \in GateKind
      BY DEF GateKind
    <2>3. CASE \/ EvaluateEligibility(r) \/ EvaluatePremium(r) \/ RecordPolicy(r) \/ Admit(r)
      BY <2>1, <2>2, <2>3, Zenon DEF EvaluateEligibility, EvaluatePremium, RecordPolicy, Admit
    <2>4. CASE RecordSent(r) \/ Reject(r) \/ RejectAfterAdmission(r)
      BY <2>1, <2>4, Zenon DEF RecordSent, Reject, RejectAfterAdmission
    <2>5. CASE \/ (\E in \in Input : Submit(r, in)) \/ ResolveAccount(r) \/ ReadOptOutColumn(r)
               \/ ReadOptOutLedger(r) \/ ReadRules(r) \/ Dispatch(r) \/ ProviderAccepts(r)
               \/ ProviderRejects(r) \/ Lose(r)
      BY <2>5, Zenon DEF Submit, ResolveAccount, ReadOptOutColumn, ReadOptOutLedger, ReadRules,
          Dispatch, ProviderAccepts, ProviderRejects, Lose, StoreUnchanged, tables
    <2> QED  BY <2>3, <2>4, <2>5, Zenon DEF Step
  <1> QED  BY <1>1, <1>2, <1>3, PostStands

(* The gate: what the call knew when it began it finds, and a call that   *)
(* found it is refused.                                                   *)
LEMMA StepKeepsOptReq ==
    ASSUME IInv, OptInv, MaxAssertions <= OptOutWindow, NEW r \in Request, Step(r)
    PROVE  OptReq(r)'
  <1>1. Standing  BY StepStands
  <1>2. pc[r] # "idle" => late'[r] = late[r] /\ input'[r] = input[r]  BY StepIsLocal
  <1>3. /\ pc \in [Request -> Pc] /\ reason \in [Request -> Reason \cup {""}]
        /\ late \in [Request -> BOOLEAN] /\ input \in [Request -> Input \cup {NoInput}]
    BY Zenon DEF IInv, Typed
  <1>4. OptReq(r)  BY DEF OptInv
  <1>5. \A c, ch : LedgerOptOut(c, ch) <=> OnRecord(c, ch)  BY WindowShowsAll DEF OptInv
  <1>6. /\ OnRecord(input[r].contact, input[r].channel) /\ input'[r] = input[r] =>
              OnRecord(input[r].contact, input[r].channel)'
        /\ pc[r] # "idle" /\ optOut(input[r].contact) /\ input'[r] = input[r] =>
              optOut(input[r].contact)'
    <2>1. pc[r] # "idle" => input[r].contact \in Contact  BY DEF IInv, ReqInv, Input
    <2> QED  BY <1>1, <2>1 DEF Standing, OnRecord, optOut
  <1>7. CASE \E in \in Input : Submit(r, in)
    <2>1. PICK in \in Input : Submit(r, in)  BY <1>7
    <2>2. pc' = [pc EXCEPT ![r] = "resolve"] /\ input' = [input EXCEPT ![r] = in]
      BY <2>1, Zenon DEF Submit
    <2>3. pc'[r] = "resolve" /\ input'[r] = in  BY <1>3, <2>2, Zenon
    <2>4. late'[r] = TRUE => optOut(in.contact) \/ OnRecord(in.contact, in.channel)
      BY <1>3, <2>1, Zenon DEF Submit
    <2>5. late'[r] = TRUE => optOut(in.contact)' \/ OnRecord(in.contact, in.channel)'
      <3>1. in.contact \in Contact  BY DEF Input
      <3> QED  BY <1>1, <1>5, <2>4, <3>1, OnRecordStays DEF Standing
    <2>6. late'[r] = TRUE => optOut(input[r].contact)' \/ OnRecord(input[r].contact, input[r].channel)'
      BY <2>3, <2>5 DEF optOut, OnRecord
    <2> QED  BY <2>3, <2>6 DEF OptReq, Cleared
  <1>8. CASE ResolveAccount(r) \/ EvaluateEligibility(r) \/ EvaluatePremium(r)
    <2>1. /\ pc[r] \in {"resolve", "eligibility", "premium"}
          /\ pc'[r] \in {"eligibility", "premium", "optColumn", "reject"}
      <3>1. CASE ResolveAccount(r)
        <4>1. pc[r] = "resolve" /\ pc' = [pc EXCEPT ![r] = pc'[r]]
              /\ pc'[r] \in {"eligibility", "reject"}
          BY <1>3, <3>1, Zenon DEF ResolveAccount, Continue
        <4> QED  BY <4>1
      <3>2. CASE EvaluateEligibility(r) \/ EvaluatePremium(r)
        BY <1>3, <3>2, Zenon DEF EvaluateEligibility, EvaluatePremium, Goto
      <3> QED  BY <1>8, <3>1, <3>2
    <2> QED  BY <1>2, <1>4, <1>6, <2>1 DEF OptReq, Cleared
  <1>9. CASE ReadOptOutColumn(r)
    <2>1. pc[r] = "optColumn" /\ pc'[r] = "optLedger"
      BY <1>3, <1>9, Zenon DEF ReadOptOutColumn, Continue
    <2>2. optOut(input[r].contact) => reason'[r] = "optout_active"
      BY <1>3, <1>9, Zenon DEF ReadOptOutColumn, Continue
    <2> QED  BY <1>2, <1>4, <1>6, <2>1, <2>2 DEF OptReq, Cleared
  <1>10. CASE ReadOptOutLedger(r)
    <2>1. pc[r] = "optLedger" /\ pc'[r] \in {"rules", "reject"}
      BY <1>3, <1>10, Zenon DEF ReadOptOutLedger, Continue
    <2>2. ASSUME reason[r] = "optout_active" \/ LedgerOptOut(input[r].contact, input[r].channel)
          PROVE  pc'[r] = "reject"
      <3>1. "optout_active" # ""  BY Zenon
      <3> QED  BY <1>3, <1>10, <2>2, <3>1, Zenon DEF ReadOptOutLedger, Continue
    <2>3. late[r] = TRUE => pc'[r] = "reject"  BY <1>4, <1>5, <2>1, <2>2 DEF OptReq
    <2> QED  BY <1>2, <2>1, <2>3 DEF OptReq, Cleared
  <1>11. CASE \/ ReadRules(r) \/ RecordPolicy(r) \/ Admit(r) \/ Dispatch(r) \/ ProviderAccepts(r)
              \/ ProviderRejects(r) \/ RecordSent(r)
    <2>1. pc[r] \in Cleared
      BY <1>11, Zenon DEF ReadRules, RecordPolicy, Admit, Dispatch, ProviderAccepts, ProviderRejects,
                          RecordSent, Cleared
    <2>2. late[r] # TRUE  BY <1>4, <2>1 DEF OptReq
    <2>3. late'[r] # TRUE  BY <1>2, <2>1, <2>2 DEF Cleared
    <2> QED  BY <2>3 DEF OptReq
  <1>12. CASE Reject(r) \/ RejectAfterAdmission(r) \/ Lose(r)
    <2>1. pc'[r] \in {"rejected", "provider_failed", "lost"}
      BY <1>3, <1>12, Zenon DEF Reject, RejectAfterAdmission, Lose, Answer, Goto
    <2> QED  BY <2>1 DEF OptReq, Cleared
  <1> QED  BY <1>7, <1>8, <1>9, <1>10, <1>11, <1>12, Zenon DEF Step

LEMMA StepKeepsOptInv ==
    ASSUME IInv, OptInv, MaxAssertions <= OptOutWindow, NEW r \in Request, Step(r)
    PROVE  OptInv'
  <1>1. Standing  BY StepStands
  <1>2. \A x \in Request : OptReq(x)'
    <2> TAKE x \in Request
    <2>1. CASE x = r  BY <2>1, StepKeepsOptReq
    <2>2. CASE x # r
      <3>1. Idles(x)  BY <2>2, StepIsLocal
      <3> QED  BY <1>1, <3>1, OptReqKeeps DEF OptInv
    <2> QED  BY <2>1, <2>2
  <1>3. \A m \in delivered' : late'[m.id] = FALSE
    <2> SUFFICES ASSUME NEW m \in delivered' PROVE late'[m.id] = FALSE
      OBVIOUS
    <2>1. CASE m \in delivered
      <3>1. m.id \in Request /\ pc[m.id] # "idle" /\ late[m.id] = FALSE
        BY <2>1 DEF IInv, Typed, MessageInv, OptInv
      <3>2. CASE m.id = r  BY <3>1, <3>2, StepIsLocal
      <3>3. CASE m.id # r
        <4>1. Idles(m.id)  BY <3>1, <3>3, StepIsLocal
        <4> QED  BY <3>1, <4>1 DEF Idles
      <3> QED  BY <3>2, <3>3
    <2>2. CASE m \notin delivered
      <3>1. ProviderAccepts(r)
        BY <2>2, Zenon DEF Step, Submit, ResolveAccount, EvaluateEligibility, EvaluatePremium,
            ReadOptOutColumn, ReadOptOutLedger, ReadRules, RecordPolicy, Admit, Dispatch, ProviderRejects,
            RecordSent, Reject, RejectAfterAdmission, Lose, StoreUnchanged, OnlyLedger, tables
      <3>2. pc[r] = "post" /\ m = Message(r)  BY <2>2, <3>1 DEF ProviderAccepts
      <3>3. m.id = r  BY <3>2 DEF Message
      <3>4. late[r] # TRUE  BY <3>2 DEF OptInv, OptReq, Cleared
      <3>5. late[r] \in BOOLEAN  BY DEF IInv, Typed
      <3>6. late'[r] = late[r]  BY <3>2, StepIsLocal
      <3> QED  BY <3>3, <3>4, <3>5, <3>6
    <2> QED  BY <2>1, <2>2
  <1> QED  BY <1>1, <1>2, <1>3 DEF OptInv, Standing

(* The rest of the world takes no opt-out back, and asserts only as many  *)
(* as its bound.                                                          *)
LEMMA WorldKeepsOptInv == ASSUME IInv, OptInv, World \/ UNCHANGED vars PROVE OptInv'
  <1>1. /\ UNCHANGED local /\ delivered' = delivered
    BY DEF World, vars, tables, EditRules, SetOptOutColumn, AssertOptOut
  <1>2. ASSUME Standing PROVE OptInv'
    <2>1. \A x \in Request : Idles(x)  BY <1>1 DEF local, Idles
    <2>2. \A x \in Request : OptReq(x)'  BY <1>2, <2>1, OptReqKeeps DEF OptInv
    <2> QED  BY <1>1, <1>2, <2>2 DEF OptInv, Standing, local
  <1>3. CASE \E c \in Contact, ch \in Channel \cup {"*"} : AssertOptOut(c, ch, OptOutRow(c, ch))
    <2>1. PICK c, ch : AssertOptOut(c, ch, OptOutRow(c, ch))  BY <1>3
    <2>2. PICK row : row = OptOutRow(c, ch) /\ ledger' = InsertLedgerRow(ledger, row)
      BY <2>1 DEF AssertOptOut
    <2>3. /\ \A i \in DOMAIN ledger : i \in DOMAIN ledger' /\ ledger'[i] = ledger[i]
          /\ \A i \in DOMAIN ledger' : i \in DOMAIN ledger \/ (i = Len(ledger) + 1 /\ ledger'[i] = row)
      BY <2>2, PostLeaves
    <2>4. \A i \in Assertions : i \in Assertions' /\ ledger'[i] = ledger[i]  BY <2>3 DEF Assertions
    <2>5. Assertions' \in SUBSET (Assertions \cup {Len(ledger) + 1})  BY <2>3 DEF Assertions
    <2>6. Cardinality(Assertions) < MaxAssertions  BY <2>1 DEF AssertOptOut, Assertions
    <2>7. IsFiniteSet(Assertions)
      <3>1. DOMAIN ledger = 1..Len(ledger) /\ Len(ledger) \in Nat  BY DEF IInv
      <3>2. IsFiniteSet(1..Len(ledger))  BY <3>1, FS_Interval
      <3>3. Assertions \in SUBSET (1..Len(ledger))  BY <3>1 DEF Assertions
      <3> QED  BY <3>2, <3>3, FS_Subset
    <2>8. PICK more : more = Assertions \cup {Len(ledger) + 1}  OBVIOUS
    <2>9. IsFiniteSet(more) /\ Cardinality(more) <= Cardinality(Assertions) + 1
      <3>1. /\ IsFiniteSet(more)
            /\ Cardinality(more) = IF Len(ledger) + 1 \in Assertions THEN Cardinality(Assertions)
                                   ELSE Cardinality(Assertions) + 1
        BY <2>7, <2>8, FS_AddElement
      <3>2. Cardinality(Assertions) \in Nat  BY <2>7, FS_CardinalityType
      <3> QED  BY <3>1, <3>2
    <2>10. Cardinality(Assertions') <= Cardinality(more) /\ IsFiniteSet(Assertions')
      BY <2>5, <2>8, <2>9, FS_Subset
    <2>11. Cardinality(Assertions') \in Nat /\ Cardinality(more) \in Nat /\ Cardinality(Assertions) \in Nat
      BY <2>7, <2>9, <2>10, FS_CardinalityType
    <2>12. Cardinality(Assertions') <= MaxAssertions
      BY <2>6, <2>9, <2>10, <2>11, MaxAssertionsAssumption
    <2>13. contacts' = contacts  BY <2>1 DEF AssertOptOut
    <2>14. Standing  BY <2>4, <2>12, <2>13 DEF Standing, optOut
    <2> QED  BY <1>2, <2>14
  <1>4. CASE \E c \in Contact : SetOptOutColumn(c)
    <2>1. PICK c \in Contact : SetOptOutColumn(c)  BY <1>4
    <2>2. /\ contacts[c] # NoRow /\ contacts' = [contacts EXCEPT ![c].optOut = TRUE]
          /\ ledger' = ledger
      BY <2>1 DEF SetOptOutColumn
    <2>3. contacts \in [Contact -> ContactRow \cup {NoRow}]  BY DEF IInv, Typed
    <2>4. contacts[c] \in ContactRow  BY <2>2, <2>3
    <2>5. /\ contacts'[c].optOut = TRUE /\ contacts'[c] \in ContactRow
          /\ \A d \in Contact : d # c => contacts'[d] = contacts[d]
      BY <2>2, <2>3, <2>4 DEF ContactRow
    <2>6. contacts'[c] # NoRow  BY <2>5 DEF ContactRow, NoRow
    <2>7. \A d \in Contact : optOut(d) => optOut(d)'  BY <2>5, <2>6 DEF optOut
    <2>8. Assertions' = Assertions  BY <2>2 DEF Assertions
    <2>9. Standing  BY <2>2, <2>7, <2>8 DEF Standing, OptInv
    <2> QED  BY <1>2, <2>9
  <1>5. CASE ledger' = ledger /\ contacts' = contacts
    BY <1>2, <1>5, PostStands
  <1> QED
    BY <1>3, <1>4, <1>5 DEF World, vars, tables, EditRules

LEMMA InitOptInv == Init => OptInv
  <1> SUFFICES ASSUME Init PROVE OptInv
    OBVIOUS
  <1>1. ledger = <<>> /\ delivered = {} /\ late = [r \in Request |-> FALSE]  BY DEF Init
  <1>2. Assertions = {}  BY <1>1 DEF Assertions
  <1>3. Cardinality(Assertions) <= MaxAssertions
    <2>1. Cardinality(Assertions) = 0  BY <1>2, FS_EmptySet
    <2> QED  BY <2>1, MaxAssertionsAssumption
  <1> QED  BY <1>1, <1>3 DEF OptInv, OptReq

-----------------------------------------------------------------------------
(* The tables and the calls keep their types (submit_outbound_send).      *)
THEOREM OutboundTypeCorrect == Spec => []TypeOK
  BY SpecIInv, IInvTypeOK, PTL

(* What is delivered, a production client sent after the whole chain, in  *)
(* its order and under its correlation: the gates of submit_outbound_send *)
(* leave their rows before the dispatch.                                  *)
THEOREM DeliveriesAreAdmitted == Spec => []DeliveryHasFullChain
  BY SpecIInv, IInvChain, PTL

(* The answer, the ledger and the world agree, whatever attempts and      *)
(* failures share the act (record_sent, reject, reject_after_admission).  *)
THEOREM OutcomesAreClosed == Spec => []OutcomeIsClosed
  BY SpecIInv, IInvClosed, PTL

(* What audit.rs says of a correlation stands for what was sent and       *)
(* refused under it; counting takes finitely many correlations.           *)
THEOREM AuditIsRight ==
    ASSUME IsFiniteSet(Corr)
    PROVE  Spec => []AuditAnswersForSends
  <1>1. IInv => AuditAnswersForSends  BY IInvAudit
  <1> QED  BY <1>1, SpecIInv, PTL

(* A call made after the contact opted out delivers nothing, as long as   *)
(* the opt-outs in the ledger fit the window of evaluate_optout_gate's    *)
(* query, which reads the latest of every contact.                        *)
THEOREM OptOutsAreHonoured ==
    ASSUME MaxAssertions <= OptOutWindow
    PROVE  Spec => []OptOutBeforeCallIsHonoured
  <1>1. IInv /\ OptInv /\ [Next \/ World]_vars => OptInv'
    <2> SUFFICES ASSUME IInv, OptInv, [Next \/ World]_vars PROVE OptInv'
      OBVIOUS
    <2>1. CASE Next  BY <2>1, StepKeepsOptInv DEF Next
    <2>2. CASE World \/ UNCHANGED vars  BY <2>2, WorldKeepsOptInv
    <2> QED  BY <2>1, <2>2
  <1>2. OptInv => OptOutBeforeCallIsHonoured  BY Zenon DEF OptInv, OptOutBeforeCallIsHonoured
  <1> QED  BY <1>1, <1>2, InitOptInv, SpecIInv, PTL DEF Spec
=============================================================================
