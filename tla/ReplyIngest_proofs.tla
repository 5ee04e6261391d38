------------------------- MODULE ReplyIngest_proofs -------------------------
(***************************************************************************)
(* Proofs about the inbound reply path: for any number of deliveries of    *)
(* any messages, concurrent, repeated and cut off anywhere, a reply is     *)
(* filed under an outreach to its sender, an acknowledged STOP has been    *)
(* applied, and no row runs ahead of the contact column.                   *)
(***************************************************************************)
EXTENDS ReplyIngest, EvidenceLedger_proofs

(* The rows of the path and of the sequence sender beside it.             *)
Id == {m.id : m \in Inbound}
Key == ({"reply.received", "reply.classified"} \X Id)
         \cup ({"contact.opted_out"} \X Contact \X Id)
         \cup ({"optout.asserted"} \X Contact \X {"email", "whatsapp"})
         \cup ({"outreach.sent"} \X Corr)
Kind == {"reply.received", "reply.classified", "contact.opted_out", "optout.asserted", "outreach.sent"}
Verdict == {"none", "unsubscribe", "other", "irreversible", "sent"}
Row == [kind : Kind, key : Key, corr : Corr, contact : Contact,
        channel : Channel \cup {"email", "whatsapp"}, verdict : Verdict, by : Handler \cup {"send_due"}]

TypeInv ==
    /\ TypeOK
    /\ ledger \in Seq(Row)

(* An outreach to the sender of the message, on its channel.              *)
IsOutreach(row, m, corr) ==
    row.kind = "outreach.sent" /\ row.corr = corr /\ row.contact = m.from /\ row.channel = m.channel

Resolved == {"received", "reply", "classified", "column", "optedOut", "asserted", "answered"}

(* What a handler has ascertained or done by the await it is blocked in.  *)
HandlerInv(h) ==
    /\ pc[h] # "idle" => input[h] \in Inbound
    /\ pc[h] \in Resolved \cup {"context"} => contacts[input[h].from] # NoRow
    /\ pc[h] \in Resolved =>
          /\ thread[h] \in Corr
          /\ \E j \in DOMAIN ledger : IsOutreach(ledger[j], input[h], thread[h])
    /\ pc[h] \in {"column", "optedOut", "asserted"} => input[h].stop
    /\ pc[h] \in {"optedOut", "asserted", "answered"} /\ input[h].stop => optOut(input[h].from)
    /\ pc[h] \in {"asserted", "answered"} /\ input[h].stop => HasKey(ledger, OptedOutKey(input[h]))
    /\ pc[h] = "answered" /\ input[h].stop => HasKey(ledger, AssertedKey(input[h]))

(* What a row of the ledger is backed by.                                 *)
RowInv(i) ==
    /\ ledger[i].kind \in {"reply.received", "reply.classified"} =>
          \E j \in 1..(i - 1) : /\ ledger[j].kind = "outreach.sent" /\ ledger[j].corr = ledger[i].corr
                                /\ ledger[j].contact = ledger[i].contact
                                /\ ledger[j].channel = ledger[i].channel
    /\ ledger[i].kind \in {"contact.opted_out", "optout.asserted"} => optOut(ledger[i].contact)

IInv ==
    /\ TypeInv
    /\ \A h \in Handler : HandlerInv(h)
    /\ \A i \in DOMAIN ledger : RowInv(i)

-----------------------------------------------------------------------------
(* Messages, keys and rows have their types.                              *)
LEMMA MessagesAreTyped ==
    ASSUME NEW m \in Inbound
    PROVE  /\ m.from \in Contact /\ m.channel \in {"email", "whatsapp"} /\ m.id \in Id
           /\ m.stop \in BOOLEAN
  BY InboundAssumption DEF Message, Id

LEMMA KeysAreTyped ==
    ASSUME NEW m \in Inbound
    PROVE  /\ ReceivedKey(m) \in Key /\ ReceivedKey(m) = <<"reply.received">> \o <<m.id>>
           /\ ClassifiedKey(m) \in Key /\ ClassifiedKey(m) = <<"reply.classified">> \o <<m.id>>
           /\ OptedOutKey(m) \in Key /\ OptedOutKey(m) = <<"contact.opted_out">> \o <<m.from, m.id>>
           /\ AssertedKey(m) \in Key /\ AssertedKey(m) = <<"optout.asserted">> \o <<m.from, m.channel>>
  <1>1. m.from \in Contact /\ m.channel \in {"email", "whatsapp"} /\ m.id \in Id
    BY MessagesAreTyped
  <1>2. ReceivedKey(m) \in Key /\ ClassifiedKey(m) \in Key
    BY <1>1 DEF ReceivedKey, ClassifiedKey, Key
  <1>3. OptedOutKey(m) \in Key  BY <1>1 DEF OptedOutKey, Key
  <1>4. AssertedKey(m) \in Key  BY <1>1 DEF AssertedKey, Key
  <1>5. \A a, b, c : <<a>> \o <<b>> = <<a, b>> /\ <<a>> \o <<b, c>> = <<a, b, c>>
    BY TaggedKeys
  <1> QED  BY <1>2, <1>3, <1>4, <1>5 DEF ReceivedKey, ClassifiedKey, OptedOutKey, AssertedKey

LEMMA KeysAreKeys == ASSUME NEW key \in Key PROVE key # NoKey
  BY DEF Key, NoKey

(* The outreach a thread was resolved to is one to the sender.            *)
LEMMA ThreadIsAnOutreach ==
    ASSUME TypeInv, NEW m \in Inbound, ThreadOf(m) # NoThread
    PROVE  ThreadOf(m) \in Corr /\ \E j \in DOMAIN ledger : IsOutreach(ledger[j], m, ThreadOf(m))
  <1>1. DOMAIN ledger = 1..Len(ledger) /\ Len(ledger) \in Nat  BY DEF TypeInv
  <1>2. Outreach(m) \subseteq {i \in DOMAIN ledger : ledger[i].kind = "outreach.sent"
                                                     /\ ledger[i].channel = m.channel}
    BY DEF Outreach, Latest
  <1>3. Outreach(m) # {} /\ LastOutreach(m).contact = m.from /\ ThreadOf(m) = LastOutreach(m).corr
    BY DEF ThreadOf
  <1>4. PICK i \in Outreach(m) : LastOutreach(m) = ledger[i]
    BY <1>1, <1>2, <1>3, LastExists DEF LastOutreach
  <1>5. ledger[i] \in Row  BY <1>1, <1>2, ElementOfSeq DEF TypeInv
  <1> QED  BY <1>2, <1>3, <1>4, <1>5 DEF IsOutreach, Row

-----------------------------------------------------------------------------
(* What a step leaves behind: keys, rows, contacts and opt-outs stay.     *)
Kept ==
    /\ \A key : HasKey(ledger, key) => HasKey(ledger', key)
    /\ IsExtension(ledger, ledger')
    /\ \A c \in Contact : contacts[c] # NoRow => contacts'[c] # NoRow
    /\ \A c \in Contact : optOut(c) => optOut(c)'

(* A handler that does nothing in a step keeps what it had.               *)
LEMMA OthersKeep ==
    ASSUME TypeInv, TypeInv', Kept, NEW x \in Handler, HandlerInv(x),
           pc'[x] = pc[x], input'[x] = input[x], thread'[x] = thread[x]
    PROVE  HandlerInv(x)'
  <1>1. pc[x] # "idle" => input[x].from \in Contact  BY MessagesAreTyped DEF HandlerInv
  <1>2. pc[x] \in Resolved => \E j \in DOMAIN ledger' : IsOutreach(ledger'[j], input[x], thread[x])
    <2> SUFFICES ASSUME pc[x] \in Resolved
                 PROVE  \E j \in DOMAIN ledger' : IsOutreach(ledger'[j], input[x], thread[x])
      OBVIOUS
    <2>1. PICK j \in DOMAIN ledger : IsOutreach(ledger[j], input[x], thread[x])
      BY DEF HandlerInv
    <2>2. j \in DOMAIN ledger' /\ ledger'[j] = ledger[j]
      BY <2>1 DEF Kept, IsExtension, TypeInv
    <2> QED  BY <2>1, <2>2
  <1>3. pc[x] \in Resolved \cup {"context"} => pc[x] # "idle"  BY DEF Resolved
  <1> QED  BY <1>1, <1>2, <1>3 DEF HandlerInv, Kept, Resolved, OptedOutKey, AssertedKey

(* The rows there were are backed as before.                              *)
LEMMA RowsKeep ==
    ASSUME TypeInv, Kept, NEW i \in DOMAIN ledger, RowInv(i)
    PROVE  i \in DOMAIN ledger' /\ ledger'[i] = ledger[i]
           /\ (TypeInv' => RowInv(i)')
  <1>1. DOMAIN ledger = 1..Len(ledger) /\ Len(ledger) \in Nat  BY DEF TypeInv
  <1>2. \A j \in 1..i : j \in DOMAIN ledger /\ ledger'[j] = ledger[j]
    BY <1>1 DEF Kept, IsExtension
  <1>3. ledger[i].contact \in Contact  BY DEF TypeInv, TypeOK
  <1>4. TypeInv' => DOMAIN ledger' = 1..Len(ledger')  BY DEF TypeInv
  <1> QED  BY <1>1, <1>2, <1>3, <1>4 DEF RowInv, Kept, IsExtension, TypeInv

(* It is enough to look at the handler that makes the step and at the row *)
(* it may add.                                                            *)
LEMMA StepSuffices ==
    ASSUME IInv, TypeInv', Kept, NEW h \in Handler, HandlerInv(h)',
           \A x \in Handler \ {h} : pc'[x] = pc[x] /\ input'[x] = input[x] /\ thread'[x] = thread[x],
           \A i \in DOMAIN ledger' \ DOMAIN ledger : RowInv(i)'
    PROVE  IInv'
  <1>1. \A x \in Handler : HandlerInv(x)'
    <2> TAKE x \in Handler
    <2>1. CASE x = h  BY <2>1
    <2>2. CASE x # h  BY <2>2, OthersKeep DEF IInv
    <2> QED  BY <2>1, <2>2
  <1>2. \A i \in DOMAIN ledger' : RowInv(i)'
    <2> TAKE i \in DOMAIN ledger'
    <2>1. CASE i \in DOMAIN ledger  BY <2>1, RowsKeep DEF IInv
    <2> QED  BY <2>1
  <1> QED  BY <1>1, <1>2 DEF IInv

(* What posting a row does.                                               *)
LEMMA PostKeeps ==
    ASSUME TypeInv, NEW row \in Row, row.kind = row.key[1],
           ledger' = InsertLedgerRow(ledger, row), contacts' = contacts
    PROVE  /\ Kept /\ HasKey(ledger', row.key)
           /\ ledger' \in Seq(Row)
           /\ \A i \in DOMAIN ledger' : /\ ledger'[i].kind = ledger'[i].key[1] /\ ledger'[i].corr \in Corr
                                        /\ ledger'[i].contact \in Contact
                                        /\ ledger'[i].channel \in Channel \cup {"email", "whatsapp"}
           /\ \A i \in DOMAIN ledger' \ DOMAIN ledger : i = Len(ledger) + 1 /\ ledger'[i] = row
  <1>1. row.key # NoKey  BY KeysAreKeys DEF Row
  <1>2. /\ ledger' \in Seq(Row) /\ IsExtension(ledger, ledger')
        /\ \A i \in DOMAIN ledger' : i \in DOMAIN ledger \/ (i = Len(ledger) + 1 /\ ledger'[i] = row)
    BY InsertExtends DEF TypeInv
  <1>3. HasKey(ledger', row.key) /\ \A key : HasKey(ledger, key) => HasKey(ledger', key)
    BY <1>1, InsertHasKeys DEF TypeInv
  <1>4. \A i \in DOMAIN ledger' : ledger'[i] = row \/ (i \in DOMAIN ledger /\ ledger'[i] = ledger[i])
    BY <1>2 DEF IsExtension
  <1>5. Kept  BY <1>2, <1>3 DEF Kept, optOut
  <1> QED  BY <1>2, <1>3, <1>4, <1>5 DEF TypeInv, TypeOK, Row

(* The row a handler posts is a row.                                      *)
LEMMA PostedIsRow ==
    ASSUME NEW h \in Handler, input[h] \in Inbound, thread[h] \in Corr,
           NEW kind \in Kind, NEW key, <<kind>> \o key \in Key, NEW verdict \in Verdict
    PROVE  /\ RowOf(h, kind, key, verdict) \in Row
           /\ RowOf(h, kind, key, verdict).kind = kind
           /\ RowOf(h, kind, key, verdict).key = <<kind>> \o key
           /\ RowOf(h, kind, key, verdict).corr = thread[h]
           /\ RowOf(h, kind, key, verdict).contact = input[h].from
           /\ RowOf(h, kind, key, verdict).channel = input[h].channel
  <1>1. input[h].from \in Contact /\ input[h].channel \in {"email", "whatsapp"}  BY MessagesAreTyped
  <1> QED  BY <1>1 DEF RowOf, Row

LEMMA InitIInv == Init => IInv
  <1> SUFFICES ASSUME Init PROVE IInv
    OBVIOUS
  <1>1. ledger \in Seq(Row) /\ DOMAIN ledger = {}  BY EmptySeq DEF Init
  <1>2. TypeInv  BY <1>1 DEF Init, TypeInv, TypeOK, Pc
  <1>3. \A h \in Handler : HandlerInv(h)  BY DEF Init, HandlerInv, Resolved
  <1> QED  BY <1>1, <1>2, <1>3 DEF IInv

-----------------------------------------------------------------------------
(* Posting a row under a thread that was resolved keeps the table typed   *)
(* and its rows backed, and what the other handlers rest on.              *)
LEMMA Posting ==
    ASSUME IInv, NEW h \in Handler, pc[h] \in Resolved, NEW next \in Pc,
           NEW row \in Row, row.kind = row.key[1], row.corr = thread[h],
           row.contact = input[h].from, row.channel = input[h].channel,
           row.kind \in {"contact.opted_out", "optout.asserted"} => optOut(input[h].from),
           ledger' = InsertLedgerRow(ledger, row), OnlyLedger, Goto(h, next)
    PROVE  /\ TypeInv' /\ Kept
           /\ HasKey(ledger', row.key)
           /\ \E j \in DOMAIN ledger' : IsOutreach(ledger'[j], input[h], thread[h])
           /\ \A i \in DOMAIN ledger' \ DOMAIN ledger : RowInv(i)'
  <1>1. PICK j \in DOMAIN ledger : IsOutreach(ledger[j], input[h], thread[h])
    BY DEF IInv, HandlerInv
  <1>2. /\ contacts' = contacts /\ replies' = replies /\ input' = input /\ thread' = thread
        /\ pc' = [pc EXCEPT ![h] = next]
    BY DEF OnlyLedger, Goto
  <1>3. /\ Kept /\ HasKey(ledger', row.key) /\ ledger' \in Seq(Row)
        /\ \A i \in DOMAIN ledger' : /\ ledger'[i].kind = ledger'[i].key[1] /\ ledger'[i].corr \in Corr
                                     /\ ledger'[i].contact \in Contact
                                     /\ ledger'[i].channel \in Channel \cup {"email", "whatsapp"}
        /\ \A i \in DOMAIN ledger' \ DOMAIN ledger : i = Len(ledger) + 1 /\ ledger'[i] = row
    BY <1>2, PostKeeps DEF IInv
  <1>4. TypeInv'
    <2>1. pc' \in [Handler -> Pc]  BY <1>2 DEF IInv, TypeInv, TypeOK
    <2> QED  BY <1>2, <1>3, <2>1 DEF IInv, TypeInv, TypeOK
  <1>5. j \in DOMAIN ledger' /\ ledger'[j] = ledger[j]
    BY <1>1, <1>3, RowsKeep DEF IInv
  <1>6. ASSUME NEW i \in DOMAIN ledger' \ DOMAIN ledger PROVE RowInv(i)'
    <2>1. i = Len(ledger) + 1 /\ ledger'[i] = row  BY <1>3
    <2>2. j \in 1..(i - 1)
      <3>1. DOMAIN ledger = 1..Len(ledger) /\ Len(ledger) \in Nat  BY DEF IInv, TypeInv
      <3> QED  BY <1>1, <2>1, <3>1
    <2>3. row.kind \in {"contact.opted_out", "optout.asserted"} => optOut(row.contact)'
      BY <1>2 DEF optOut
    <2>4. \E q \in 1..(i - 1) : /\ ledger'[q].kind = "outreach.sent" /\ ledger'[q].corr = row.corr
                                /\ ledger'[q].contact = row.contact
                                /\ ledger'[q].channel = row.channel
      BY <1>1, <1>5, <2>2 DEF IsOutreach
    <2> QED  BY <2>1, <2>3, <2>4 DEF RowInv, optOut
  <1> QED  BY <1>1, <1>2, <1>3, <1>4, <1>5, <1>6

LEMMA RecordReceivedKeepsIInv == ASSUME IInv, NEW h \in Handler, RecordReceived(h) PROVE IInv'
  <1> DEFINE values == <<input[h].id>>
             row == RowOf(h, "reply.received", values, "none")
             next == "reply"
  <1>1. /\ pc[h] \in Resolved /\ input[h] \in Inbound /\ thread[h] \in Corr
    BY DEF IInv, HandlerInv, RecordReceived, Resolved
  <1>2. /\ row \in Row /\ row.kind = "reply.received" /\ row.key = ReceivedKey(input[h])
        /\ row.corr = thread[h] /\ row.contact = input[h].from /\ row.channel = input[h].channel
    <2>1. ReceivedKey(input[h]) \in Key /\ ReceivedKey(input[h]) = <<"reply.received">> \o values
      BY <1>1, KeysAreTyped
    <2>2. "none" \in Verdict  BY DEF Verdict, Category
    <2>3. "reply.received" \in Kind  BY DEF Kind
    <2> HIDE DEF row, values
    <2>4. row = RowOf(h, "reply.received", values, "none")  BY DEF row
    <2> QED  BY <1>1, <2>1, <2>2, <2>3, <2>4, PostedIsRow
  <1>3. /\ ledger' = InsertLedgerRow(ledger, row) /\ OnlyLedger /\ Goto(h, next)
    BY DEF RecordReceived, Insert
  <1>4. next \in Pc  BY <1>1, MessagesAreTyped DEF Pc, Waiting
  <1> HIDE DEF row, next, values
  <1>5. /\ TypeInv' /\ Kept /\ HasKey(ledger', ReceivedKey(input[h]))
        /\ \E j \in DOMAIN ledger' : IsOutreach(ledger'[j], input[h], thread[h])
        /\ \A i \in DOMAIN ledger' \ DOMAIN ledger : RowInv(i)'
    <2>1. row.kind = row.key[1]  BY <1>2 DEF ReceivedKey
    <2> QED  BY <1>1, <1>2, <1>3, <1>4, <2>1, Posting
  <1>6. pc' = [pc EXCEPT ![h] = next] /\ input' = input /\ thread' = thread /\ contacts' = contacts
    BY <1>3 DEF OnlyLedger, Goto
  <1>7. pc'[h] = next /\ \A x \in Handler \ {h} : pc'[x] = pc[x]
    BY <1>6 DEF IInv, TypeInv, TypeOK
  <1>8. HandlerInv(h)'
    BY <1>1, <1>5, <1>6, <1>7 DEF HandlerInv, IInv, Resolved, next
  <1> QED  BY <1>5, <1>6, <1>7, <1>8, StepSuffices

LEMMA RecordClassifiedKeepsIInv == ASSUME IInv, NEW h \in Handler, RecordClassified(h) PROVE IInv'
  <1> DEFINE values == <<input[h].id>>
             row == RowOf(h, "reply.classified", values, Category(input[h]))
             next == IF input[h].stop THEN "column" ELSE "answered"
  <1>1. /\ pc[h] \in Resolved /\ input[h] \in Inbound /\ thread[h] \in Corr
    BY DEF IInv, HandlerInv, RecordClassified, Resolved
  <1>2. /\ row \in Row /\ row.kind = "reply.classified" /\ row.key = ClassifiedKey(input[h])
        /\ row.corr = thread[h] /\ row.contact = input[h].from /\ row.channel = input[h].channel
    <2>1. ClassifiedKey(input[h]) \in Key /\ ClassifiedKey(input[h]) = <<"reply.classified">> \o values
      BY <1>1, KeysAreTyped
    <2>2. Category(input[h]) \in Verdict  BY DEF Verdict, Category
    <2>3. "reply.classified" \in Kind  BY DEF Kind
    <2> HIDE DEF row, values
    <2>4. row = RowOf(h, "reply.classified", values, Category(input[h]))  BY DEF row
    <2> QED  BY <1>1, <2>1, <2>2, <2>3, <2>4, PostedIsRow
  <1>3. /\ ledger' = InsertLedgerRow(ledger, row) /\ OnlyLedger /\ Goto(h, next)
    BY DEF RecordClassified, Insert
  <1>4. next \in Pc  BY <1>1, MessagesAreTyped DEF Pc, Waiting
  <1> HIDE DEF row, next, values
  <1>5. /\ TypeInv' /\ Kept /\ HasKey(ledger', ClassifiedKey(input[h]))
        /\ \E j \in DOMAIN ledger' : IsOutreach(ledger'[j], input[h], thread[h])
        /\ \A i \in DOMAIN ledger' \ DOMAIN ledger : RowInv(i)'
    <2>1. row.kind = row.key[1]  BY <1>2 DEF ClassifiedKey
    <2> QED  BY <1>1, <1>2, <1>3, <1>4, <2>1, Posting
  <1>6. pc' = [pc EXCEPT ![h] = next] /\ input' = input /\ thread' = thread /\ contacts' = contacts
    BY <1>3 DEF OnlyLedger, Goto
  <1>7. pc'[h] = next /\ \A x \in Handler \ {h} : pc'[x] = pc[x]
    BY <1>6 DEF IInv, TypeInv, TypeOK
  <1>8. HandlerInv(h)'
    BY <1>1, <1>5, <1>6, <1>7 DEF HandlerInv, IInv, Resolved, next
  <1> QED  BY <1>5, <1>6, <1>7, <1>8, StepSuffices

LEMMA RecordOptedOutKeepsIInv == ASSUME IInv, NEW h \in Handler, RecordOptedOut(h) PROVE IInv'
  <1> DEFINE values == <<input[h].from, input[h].id>>
             row == RowOf(h, "contact.opted_out", values, "none")
             next == "asserted"
  <1>1. /\ pc[h] \in Resolved /\ input[h] \in Inbound /\ thread[h] \in Corr
        /\ input[h].stop /\ optOut(input[h].from)
    BY DEF IInv, HandlerInv, RecordOptedOut, Resolved
  <1>2. /\ row \in Row /\ row.kind = "contact.opted_out" /\ row.key = OptedOutKey(input[h])
        /\ row.corr = thread[h] /\ row.contact = input[h].from /\ row.channel = input[h].channel
    <2>1. OptedOutKey(input[h]) \in Key /\ OptedOutKey(input[h]) = <<"contact.opted_out">> \o values
      BY <1>1, KeysAreTyped
    <2>2. "none" \in Verdict  BY DEF Verdict, Category
    <2>3. "contact.opted_out" \in Kind  BY DEF Kind
    <2> HIDE DEF row, values
    <2>4. row = RowOf(h, "contact.opted_out", values, "none")  BY DEF row
    <2> QED  BY <1>1, <2>1, <2>2, <2>3, <2>4, PostedIsRow
  <1>3. /\ ledger' = InsertLedgerRow(ledger, row) /\ OnlyLedger /\ Goto(h, next)
    BY DEF RecordOptedOut, Insert
  <1>4. next \in Pc  BY <1>1, MessagesAreTyped DEF Pc, Waiting
  <1> HIDE DEF row, next, values
  <1>5. /\ TypeInv' /\ Kept /\ HasKey(ledger', OptedOutKey(input[h]))
        /\ \E j \in DOMAIN ledger' : IsOutreach(ledger'[j], input[h], thread[h])
        /\ \A i \in DOMAIN ledger' \ DOMAIN ledger : RowInv(i)'
    <2>1. row.kind = row.key[1]  BY <1>2 DEF OptedOutKey
    <2> QED  BY <1>1, <1>2, <1>3, <1>4, <2>1, Posting
  <1>6. pc' = [pc EXCEPT ![h] = next] /\ input' = input /\ thread' = thread /\ contacts' = contacts
    BY <1>3 DEF OnlyLedger, Goto
  <1>7. pc'[h] = next /\ \A x \in Handler \ {h} : pc'[x] = pc[x]
    BY <1>6 DEF IInv, TypeInv, TypeOK
  <1>8. HandlerInv(h)'
    BY <1>1, <1>5, <1>6, <1>7 DEF HandlerInv, IInv, Resolved, next, OptedOutKey, optOut
  <1> QED  BY <1>5, <1>6, <1>7, <1>8, StepSuffices

LEMMA RecordAssertedKeepsIInv == ASSUME IInv, NEW h \in Handler, RecordAsserted(h) PROVE IInv'
  <1> DEFINE values == <<input[h].from, input[h].channel>>
             row == RowOf(h, "optout.asserted", values, "irreversible")
             next == "answered"
  <1>1. /\ pc[h] \in Resolved /\ input[h] \in Inbound /\ thread[h] \in Corr
        /\ input[h].stop /\ optOut(input[h].from) /\ HasKey(ledger, OptedOutKey(input[h]))
    BY DEF IInv, HandlerInv, RecordAsserted, Resolved
  <1>2. /\ row \in Row /\ row.kind = "optout.asserted" /\ row.key = AssertedKey(input[h])
        /\ row.corr = thread[h] /\ row.contact = input[h].from /\ row.channel = input[h].channel
    <2>1. AssertedKey(input[h]) \in Key /\ AssertedKey(input[h]) = <<"optout.asserted">> \o values
      BY <1>1, KeysAreTyped
    <2>2. "irreversible" \in Verdict  BY DEF Verdict, Category
    <2>3. "optout.asserted" \in Kind  BY DEF Kind
    <2> HIDE DEF row, values
    <2>4. row = RowOf(h, "optout.asserted", values, "irreversible")  BY DEF row
    <2> QED  BY <1>1, <2>1, <2>2, <2>3, <2>4, PostedIsRow
  <1>3. /\ ledger' = InsertLedgerRow(ledger, row) /\ OnlyLedger /\ Goto(h, next)
    BY DEF RecordAsserted, Insert
  <1>4. next \in Pc  BY <1>1, MessagesAreTyped DEF Pc, Waiting
  <1> HIDE DEF row, next, values
  <1>5. /\ TypeInv' /\ Kept /\ HasKey(ledger', AssertedKey(input[h]))
        /\ \E j \in DOMAIN ledger' : IsOutreach(ledger'[j], input[h], thread[h])
        /\ \A i \in DOMAIN ledger' \ DOMAIN ledger : RowInv(i)'
    <2>1. row.kind = row.key[1]  BY <1>2 DEF AssertedKey
    <2> QED  BY <1>1, <1>2, <1>3, <1>4, <2>1, Posting
  <1>6. pc' = [pc EXCEPT ![h] = next] /\ input' = input /\ thread' = thread /\ contacts' = contacts
    BY <1>3 DEF OnlyLedger, Goto
  <1>7. pc'[h] = next /\ \A x \in Handler \ {h} : pc'[x] = pc[x]
    BY <1>6 DEF IInv, TypeInv, TypeOK
  <1>8. HandlerInv(h)'
    BY <1>1, <1>5, <1>6, <1>7 DEF HandlerInv, IInv, Resolved, next, OptedOutKey, AssertedKey, optOut, Kept
  <1> QED  BY <1>5, <1>6, <1>7, <1>8, StepSuffices

-----------------------------------------------------------------------------
(* The steps that post nothing.                                           *)
LEMMA SilentKeeps ==
    ASSUME TypeInv, ledger' = ledger, contacts' = contacts
    PROVE  Kept /\ DOMAIN ledger' \ DOMAIN ledger = {}
  BY DEF Kept, IsExtension, TypeInv, optOut

LEMMA DeliverKeepsIInv == ASSUME IInv, NEW h \in Handler, NEW m \in Inbound, Deliver(h, m) PROVE IInv'
  <1>1. /\ UNCHANGED <<contacts, campaigns, rules, ledger, delivered, replies, thread>>
        /\ input' = [input EXCEPT ![h] = m] /\ pc' = [pc EXCEPT ![h] = "contact"]
    BY DEF Deliver, Goto, tables
  <1>2. TypeInv'
    BY <1>1 DEF IInv, TypeInv, TypeOK, Pc, Waiting
  <1>3. /\ pc'[h] = "contact" /\ input'[h] = m
        /\ \A x \in Handler \ {h} : pc'[x] = pc[x] /\ input'[x] = input[x] /\ thread'[x] = thread[x]
    BY <1>1 DEF IInv, TypeInv, TypeOK
  <1>4. HandlerInv(h)'
    BY <1>3 DEF HandlerInv, Resolved
  <1>5. Kept /\ DOMAIN ledger' \ DOMAIN ledger = {}
    BY <1>1, SilentKeeps DEF IInv
  <1> QED  BY <1>2, <1>3, <1>4, <1>5, StepSuffices

LEMMA ResolveContactKeepsIInv == ASSUME IInv, NEW h \in Handler, ResolveContact(h) PROVE IInv'
  <1>1. PICK next \in {"refused", "context"} :
           /\ pc' = [pc EXCEPT ![h] = next]
           /\ next = "context" => contacts[input[h].from] # NoRow
    BY DEF ResolveContact, Goto
  <1>2. UNCHANGED <<contacts, campaigns, rules, ledger, delivered, replies, input, thread>> /\ pc[h] = "contact"
    BY DEF ResolveContact, tables
  <1>3. TypeInv'
    BY <1>1, <1>2 DEF IInv, TypeInv, TypeOK, Pc, Waiting
  <1>4. pc'[h] = next /\ \A x \in Handler \ {h} : pc'[x] = pc[x]
    BY <1>1 DEF IInv, TypeInv, TypeOK
  <1>5. HandlerInv(h)'
    BY <1>1, <1>2, <1>4 DEF HandlerInv, IInv, Resolved
  <1>6. Kept /\ DOMAIN ledger' \ DOMAIN ledger = {}
    BY <1>2, SilentKeeps DEF IInv
  <1> QED  BY <1>2, <1>3, <1>4, <1>5, <1>6, StepSuffices

LEMMA ResolveThreadKeepsIInv == ASSUME IInv, NEW h \in Handler, ResolveThread(h) PROVE IInv'
  <1> DEFINE corr == ThreadOf(input[h])
             next == IF corr = NoThread THEN "refused" ELSE "received"
  <1>1. /\ UNCHANGED <<contacts, campaigns, rules, ledger, delivered, replies, input>> /\ pc[h] = "context"
        /\ thread' = [thread EXCEPT ![h] = corr] /\ pc' = [pc EXCEPT ![h] = next]
    BY DEF ResolveThread, tables, Goto
  <1>2. input[h] \in Inbound  BY <1>1 DEF IInv, HandlerInv
  <1>3. corr # NoThread => corr \in Corr /\ \E j \in DOMAIN ledger : IsOutreach(ledger[j], input[h], corr)
    BY <1>2, ThreadIsAnOutreach DEF IInv
  <1>4. next \in {"refused", "received"} /\ (next = "received" => corr # NoThread)
    OBVIOUS
  <1>5. contacts[input[h].from] # NoRow  BY <1>1 DEF IInv, HandlerInv
  <1> HIDE DEF corr, next
  <1>6. TypeInv'
    BY <1>1, <1>3, <1>4 DEF IInv, TypeInv, TypeOK, Pc, Waiting
  <1>7. /\ pc'[h] = next /\ thread'[h] = corr
        /\ \A x \in Handler \ {h} : pc'[x] = pc[x] /\ thread'[x] = thread[x]
    BY <1>1 DEF IInv, TypeInv, TypeOK
  <1>8. HandlerInv(h)'
    BY <1>1, <1>2, <1>3, <1>4, <1>5, <1>7 DEF HandlerInv, Resolved
  <1>9. Kept /\ DOMAIN ledger' \ DOMAIN ledger = {}
    BY <1>1, SilentKeeps DEF IInv
  <1> QED  BY <1>1, <1>6, <1>7, <1>8, <1>9, StepSuffices

LEMMA InsertReplyKeepsIInv == ASSUME IInv, NEW h \in Handler, InsertReply(h) PROVE IInv'
  <1> DEFINE m == input[h]
             reply == [id |-> m.id, contact |-> m.from, corr |-> thread[h], category |-> Category(m)]
  <1>1. /\ UNCHANGED <<contacts, campaigns, rules, ledger, delivered, input, thread>> /\ pc[h] = "reply"
        /\ pc' = [pc EXCEPT ![h] = "classified"]
        /\ replies' = IF \E row \in replies : row.id = m.id THEN replies ELSE replies \cup {reply}
    BY DEF InsertReply, tables, Goto
  <1>2. m \in Inbound /\ thread[h] \in Corr  BY <1>1 DEF IInv, HandlerInv, Resolved
  <1>3. reply \in [id : Id, contact : Contact, corr : Corr, category : {"unsubscribe", "other"}]
    <2>1. Category(m) \in {"unsubscribe", "other"}  BY DEF Category
    <2> HIDE DEF m
    <2> QED  BY <1>2, <2>1, MessagesAreTyped
  <1>4. reply.id = m.id  OBVIOUS
  <1> HIDE DEF reply, m
  <1>5. /\ replies' \subseteq [id : Id, contact : Contact, corr : Corr, category : {"unsubscribe", "other"}]
        /\ \A r, q \in replies' : r.id = q.id => r = q
    <2>1. /\ replies \subseteq [id : Id, contact : Contact, corr : Corr, category : {"unsubscribe", "other"}]
          /\ \A r, q \in replies : r.id = q.id => r = q
      BY DEF IInv, TypeInv, TypeOK, Id
    <2> QED  BY <1>1, <1>3, <1>4, <2>1
  <1>6. TypeInv'
    BY <1>1, <1>5 DEF IInv, TypeInv, TypeOK, Pc, Waiting, Id
  <1>7. pc'[h] = "classified" /\ \A x \in Handler \ {h} : pc'[x] = pc[x]
    BY <1>1 DEF IInv, TypeInv, TypeOK
  <1>8. HandlerInv(h)'
    BY <1>1, <1>7 DEF HandlerInv, IInv, Resolved
  <1>9. Kept /\ DOMAIN ledger' \ DOMAIN ledger = {}
    BY <1>1, SilentKeeps DEF IInv
  <1> QED  BY <1>1, <1>6, <1>7, <1>8, <1>9, StepSuffices

LEMMA PatchOptOutKeepsIInv == ASSUME IInv, NEW h \in Handler, PatchOptOut(h) PROVE IInv'
  <1> DEFINE c == input[h].from
  <1>1. /\ UNCHANGED <<campaigns, rules, ledger, delivered, replies, input, thread>> /\ pc[h] = "column"
        /\ pc' = [pc EXCEPT ![h] = "optedOut"]
        /\ contacts' = [contacts EXCEPT ![c].optOut = TRUE]
    BY DEF PatchOptOut, Goto
  <1>2. c \in Contact /\ contacts[c] # NoRow
    BY <1>1, MessagesAreTyped DEF IInv, HandlerInv, Resolved
  <1>3. contacts[c] \in ContactRow  BY <1>2 DEF IInv, TypeInv, TypeOK
  <1> HIDE DEF c
  <1>4. /\ contacts' \in [Contact -> ContactRow \cup {NoRow}]
        /\ contacts'[c] \in ContactRow /\ contacts'[c].optOut
        /\ \A x \in Contact \ {c} : contacts'[x] = contacts[x]
    BY <1>1, <1>2, <1>3 DEF IInv, TypeInv, TypeOK, ContactRow
  <1>5. contacts'[c] # NoRow  BY <1>4 DEF ContactRow, NoRow
  <1>6. TypeInv'
    BY <1>1, <1>4 DEF IInv, TypeInv, TypeOK, Pc, Waiting
  <1>7. pc'[h] = "optedOut" /\ \A x \in Handler \ {h} : pc'[x] = pc[x]
    BY <1>1 DEF IInv, TypeInv, TypeOK
  <1>8. HandlerInv(h)'
    BY <1>1, <1>4, <1>5, <1>7 DEF HandlerInv, IInv, Resolved, optOut, c
  <1>9. Kept /\ DOMAIN ledger' \ DOMAIN ledger = {}
    <2>1. IsExtension(ledger, ledger') /\ DOMAIN ledger' = DOMAIN ledger
      BY <1>1 DEF IsExtension, IInv, TypeInv
    <2> QED  BY <1>1, <1>4, <1>5, <2>1 DEF Kept, optOut
  <1> QED  BY <1>1, <1>6, <1>7, <1>8, <1>9, StepSuffices

LEMMA LoseKeepsIInv == ASSUME IInv, NEW h \in Handler, Lose(h) PROVE IInv'
  <1>1. /\ UNCHANGED <<contacts, campaigns, rules, ledger, delivered, replies, input, thread>>
        /\ pc[h] \in Waiting /\ pc' = [pc EXCEPT ![h] = "lost"]
    BY DEF Lose, tables, Goto
  <1>2. TypeInv'
    BY <1>1 DEF IInv, TypeInv, TypeOK, Pc
  <1>3. pc'[h] = "lost" /\ \A x \in Handler \ {h} : pc'[x] = pc[x]
    BY <1>1 DEF IInv, TypeInv, TypeOK
  <1>4. HandlerInv(h)'
    BY <1>1, <1>3 DEF HandlerInv, IInv, Resolved, Waiting
  <1>5. Kept /\ DOMAIN ledger' \ DOMAIN ledger = {}
    BY <1>1, SilentKeeps DEF IInv
  <1> QED  BY <1>1, <1>2, <1>3, <1>4, <1>5, StepSuffices

(* The sender beside the path, and the steps of neither.                  *)
LEMMA WorldKeepsIInv == ASSUME IInv, World PROVE IInv'
  <1>1. PICK c \in Contact, ch \in Channel, k \in Corr : RecordOutreach(c, ch, k)
    BY DEF World
  <1> DEFINE row == [kind |-> "outreach.sent", key |-> <<"outreach.sent", k>>, corr |-> k,
                     contact |-> c, channel |-> ch, verdict |-> "sent", by |-> "send_due"]
  <1>2. /\ ledger' = InsertLedgerRow(ledger, row)
        /\ UNCHANGED <<contacts, campaigns, rules, delivered, replies, pc, input, thread>>
    BY <1>1 DEF RecordOutreach, World, local
  <1>3. row \in Row /\ row.kind = row.key[1] /\ row.kind = "outreach.sent"
    <2>1. <<"outreach.sent", k>> \in Key  BY DEF Key
    <2> QED  BY <2>1 DEF Row, Kind, Verdict
  <1> HIDE DEF row
  <1>4. /\ Kept /\ ledger' \in Seq(Row)
        /\ \A i \in DOMAIN ledger' : /\ ledger'[i].kind = ledger'[i].key[1] /\ ledger'[i].corr \in Corr
                                     /\ ledger'[i].contact \in Contact
                                     /\ ledger'[i].channel \in Channel \cup {"email", "whatsapp"}
        /\ \A i \in DOMAIN ledger' \ DOMAIN ledger : i = Len(ledger) + 1 /\ ledger'[i] = row
    BY <1>2, <1>3, PostKeeps DEF IInv
  <1>5. TypeInv'
    BY <1>2, <1>4 DEF IInv, TypeInv, TypeOK
  <1>6. \A i \in DOMAIN ledger' \ DOMAIN ledger : RowInv(i)'
    BY <1>3, <1>4 DEF RowInv
  <1>7. \A x \in Handler : HandlerInv(x)'
    BY <1>2, <1>4, <1>5, OthersKeep DEF IInv
  <1>8. \A i \in DOMAIN ledger' : RowInv(i)'
    <2> TAKE i \in DOMAIN ledger'
    <2>1. CASE i \in DOMAIN ledger  BY <1>4, <1>5, <2>1, RowsKeep DEF IInv
    <2> QED  BY <1>6, <2>1
  <1> QED  BY <1>5, <1>7, <1>8 DEF IInv

LEMMA StutterKeepsIInv == ASSUME IInv, UNCHANGED vars PROVE IInv'
  BY DEF vars, tables, local, IInv, TypeInv, TypeOK, HandlerInv, RowInv, IsOutreach, HasKey, optOut

LEMMA NextIInv == IInv /\ [Next \/ World]_vars => IInv'
  <1> SUFFICES ASSUME IInv, [Next \/ World]_vars PROVE IInv'
    OBVIOUS
  <1>1. ASSUME NEW h \in Handler, NEW m \in Inbound, Deliver(h, m) PROVE IInv'
    BY <1>1, DeliverKeepsIInv
  <1>2. ASSUME NEW h \in Handler, Step(h) PROVE IInv'
    <2>1. CASE ResolveContact(h) \/ ResolveThread(h) \/ InsertReply(h) \/ PatchOptOut(h) \/ Lose(h)
      BY <2>1, ResolveContactKeepsIInv, ResolveThreadKeepsIInv, InsertReplyKeepsIInv,
         PatchOptOutKeepsIInv, LoseKeepsIInv
    <2>2. CASE RecordReceived(h) \/ RecordClassified(h) \/ RecordOptedOut(h) \/ RecordAsserted(h)
      BY <2>2, RecordReceivedKeepsIInv, RecordClassifiedKeepsIInv, RecordOptedOutKeepsIInv,
         RecordAssertedKeepsIInv
    <2> QED  BY <1>2, <2>1, <2>2 DEF Step
  <1>3. CASE World  BY <1>3, WorldKeepsIInv
  <1>4. CASE UNCHANGED vars  BY <1>4, StutterKeepsIInv
  <1> QED  BY <1>1, <1>2, <1>3, <1>4 DEF Next

LEMMA SpecIInv == Spec => []IInv
  BY InitIInv, NextIInv, PTL DEF Spec

-----------------------------------------------------------------------------
(* Every table and every handler of the path keeps its type, and one      *)
(* message is stored as at most one reply (insert_reply_row's conflict    *)
(* target channel_message_id).                                            *)
THEOREM ReplyTypeCorrect == Spec => []TypeOK
  <1>1. IInv => TypeOK  BY DEF IInv, TypeInv
  <1> QED  BY <1>1, SpecIInv, PTL

(* A provider that is told its STOP was taken finds it applied: the       *)
(* column and both rows, whatever earlier deliveries broke off            *)
(* (ingest_reply and apply_opt_out).                                      *)
THEOREM StopsAreApplied == Spec => []AckedStopIsApplied
  <1>1. IInv => AckedStopIsApplied  BY DEF IInv, HandlerInv, AckedStopIsApplied
  <1> QED  BY <1>1, SpecIInv, PTL

(* Whatever correlation a message claims, its reply is filed under an     *)
(* earlier outreach to its own sender on its own channel                  *)
(* (resolve_reply_context).                                               *)
THEOREM RepliesBelongToTheirSender == Spec => []ReplyFiledUnderSenderThread
  <1>1. IInv => ReplyFiledUnderSenderThread  BY DEF IInv, RowInv, ReplyFiledUnderSenderThread
  <1> QED  BY <1>1, SpecIInv, PTL

(* No row claims an opt-out before the contact column has it (the order   *)
(* of the writes of apply_opt_out).                                       *)
THEOREM ColumnLeadsLedger == Spec => []LedgerOptOutIsInColumn
  <1>1. IInv => LedgerOptOutIsInColumn
    <2> SUFFICES ASSUME IInv, NEW kind \in {"contact.opted_out", "optout.asserted"},
                        NEW row \in RowsOf(ledger, kind)
                 PROVE  optOut(row.contact)
      BY DEF LedgerOptOutIsInColumn
    <2>1. PICK i \in DOMAIN ledger : row = ledger[i] /\ ledger[i].kind = kind  BY DEF RowsOf
    <2> QED  BY <2>1 DEF IInv, RowInv
  <1> QED  BY <1>1, SpecIInv, PTL
=============================================================================
