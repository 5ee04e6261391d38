----------------------------- MODULE ReplyIngest -----------------------------
(***************************************************************************)
(* The inbound reply path: the two provider webhooks of minilab-api and    *)
(* ingest_reply of minilab-store/src/reply.rs under them.  A handler is    *)
(* one delivery of a webhook; its pc is the await it is blocked in.        *)
(* Providers deliver at least once: the same message may be delivered to   *)
(* several handlers, one after the other or at the same time.              *)
(***************************************************************************)
EXTENDS GtmStore

CONSTANTS
    Corr,           \* correlation ids of outreach; each stands for the
                    \* provider message id of that outreach too
    HeaderId,       \* the message ids providers give
    Handler,        \* deliveries of webhooks
    Inbound,        \* the messages that may come in
    ReplyWindow,    \* the limit of the outreach.sent queries (100 in the code)
    NoHint,         \* a message claims no correlation
    NoThread        \* a handler has resolved none

VARIABLES
    replies,    \* the rows of the reply table
    pc,         \* the await each handler is blocked in, or how it ended
    input,      \* the message it was given
    thread      \* the correlation id it resolved

local == <<replies, pc, input, thread>>
vars == <<tables, local>>

(* A mail that has no Message-ID header gets an id made of its sender.    *)
FallbackId(c) == <<"sendgrid-inbound", c>>

(* A normalized message.  hint: the correlation in the plus address of a  *)
(* mail, the replied-to message of a WhatsApp text, or none.  stop: it    *)
(* classifies as an unsubscribe.                                          *)
Message == [from : Contact, channel : {"email", "whatsapp"}, hint : Corr \cup {NoHint},
            stop : BOOLEAN, id : HeaderId \cup {FallbackId(c) : c \in Contact}]
NoMessage == [absent |-> TRUE]

ASSUME InboundAssumption ==
    /\ Inbound \subseteq Message
    /\ \A m \in Inbound : m.id \notin HeaderId => m.channel = "email" /\ m.id = FallbackId(m.from)
ASSUME ReplyWindowAssumption == ReplyWindow \in Nat \ {0}
ASSUME NoCorrAssumption == NoHint \notin Corr /\ NoThread \notin Corr

Waiting == {"contact", "context", "received", "reply", "classified",
            "column", "optedOut", "asserted"}
Pc == Waiting \cup {"idle", "answered", "refused", "lost"}

-----------------------------------------------------------------------------
RowOf(h, kind, key, verdict) ==
    [kind |-> kind, key |-> <<kind>> \o key, corr |-> thread[h], contact |-> input[h].from,
     channel |-> input[h].channel, verdict |-> verdict, by |-> h]

ReceivedKey(m) == <<"reply.received", m.id>>
ClassifiedKey(m) == <<"reply.classified", m.id>>
OptedOutKey(m) == <<"contact.opted_out", m.from, m.id>>
AssertedKey(m) == <<"optout.asserted", m.from, m.channel>>

Category(m) == IF m.stop THEN "unsubscribe" ELSE "other"

Insert(h, kind, key, verdict) == ledger' = InsertLedgerRow(ledger, RowOf(h, kind, key, verdict))
OnlyLedger == UNCHANGED <<contacts, campaigns, rules, delivered, replies, input, thread>>
Goto(h, next) == pc' = [pc EXCEPT ![h] = next]

(* Seeded bug: the query by correlation is limited like the other one. *)
OutreachInWindow(m) ==
    {i \in Latest(ledger, "outreach.sent", ReplyWindow) :
        /\ ledger[i].channel = m.channel
        /\ IF m.hint = NoHint THEN ledger[i].contact = m.from ELSE ledger[i].corr = m.hint}

(* The outreach rows a reply is looked for in, and among them those its   *)
(* hint names, or, when there is none, those of its sender and channel.   *)
Outreach(m) ==
    LET seen == IF m.channel = "email" /\ m.hint # NoHint
                THEN {i \in DOMAIN ledger : ledger[i].kind = "outreach.sent"}
                ELSE Latest(ledger, "outreach.sent", ReplyWindow)
    IN  {i \in seen : /\ ledger[i].channel = m.channel
                      /\ IF m.hint = NoHint THEN ledger[i].contact = m.from
                                            ELSE ledger[i].corr = m.hint}

LastOutreach(m) == ledger[CHOOSE i \in Outreach(m) : \A j \in Outreach(m) : j <= i]

(* Seeded bug: the hint is believed without looking at the sender. *)
ThreadOfHint(m) == IF Outreach(m) = {} THEN NoThread ELSE LastOutreach(m).corr

(* The outreach a reply belongs to must be one to its sender.             *)
ThreadOf(m) ==
    IF Outreach(m) = {} THEN NoThread
    ELSE IF LastOutreach(m).contact # m.from THEN NoThread
    ELSE LastOutreach(m).corr

Init ==
    /\ contacts \in [Contact -> ContactRow \cup {NoRow}]
    /\ campaigns = [g \in Campaign |-> NoRow]
    /\ rules = {}
    /\ ledger = <<>>
    /\ delivered = {}
    /\ replies = {}
    /\ pc = [h \in Handler |-> "idle"]
    /\ input = [h \in Handler |-> NoMessage]
    /\ thread = [h \in Handler |-> NoThread]

(* A provider delivers a message, or delivers it again.  A provider gives *)
(* an id to one message only.                                             *)
Deliver(h, m) ==
    /\ pc[h] = "idle"
    /\ \A g \in Handler : (input[g] # NoMessage /\ m.id \in HeaderId /\ input[g].id = m.id)
                              => input[g] = m
    /\ input' = [input EXCEPT ![h] = m]
    /\ Goto(h, "contact")
    /\ UNCHANGED <<tables, replies, thread>>

(* The sender is looked up by email, or by phone for WhatsApp.            *)
ResolveContact(h) ==
    /\ pc[h] = "contact"
    /\ LET contact == contacts[input[h].from]
       IN  Goto(h, IF contact = NoRow \/ (input[h].channel = "whatsapp" /\ ~contact.phone)
                   THEN "refused" ELSE "context")
    /\ UNCHANGED <<tables, replies, input, thread>>

ResolveThread(h) ==
    /\ pc[h] = "context"
    /\ thread' = [thread EXCEPT ![h] = ThreadOf(input[h])]
    /\ Goto(h, IF ThreadOf(input[h]) = NoThread THEN "refused" ELSE "received")
    /\ UNCHANGED <<tables, replies, input>>

RecordReceived(h) ==
    /\ pc[h] = "received"
    /\ Insert(h, "reply.received", <<input[h].id>>, "none")
    /\ Goto(h, "reply")
    /\ OnlyLedger

(* Seeded bug: a reply that is already stored is taken for handled. *)
InsertReplyOnce(h) ==
    /\ pc[h] = "reply"
    /\ IF \E row \in replies : row.id = input[h].id
       THEN UNCHANGED replies /\ Goto(h, "answered")
       ELSE /\ replies' = replies \cup {[id |-> input[h].id, contact |-> input[h].from,
                                         corr |-> thread[h], category |-> Category(input[h])]}
            /\ Goto(h, "classified")
    /\ UNCHANGED <<tables, input, thread>>

(* The insert ignores a row whose channel_message_id is there already:    *)
(* the handler goes on with the id of the existing row.                   *)
InsertReply(h) ==
    /\ pc[h] = "reply"
    /\ replies' = IF \E row \in replies : row.id = input[h].id THEN replies
                  ELSE replies \cup {[id |-> input[h].id, contact |-> input[h].from,
                                      corr |-> thread[h], category |-> Category(input[h])]}
    /\ Goto(h, "classified")
    /\ UNCHANGED <<tables, input, thread>>

RecordClassified(h) ==
    /\ pc[h] = "classified"
    /\ Insert(h, "reply.classified", <<input[h].id>>, Category(input[h]))
    /\ Goto(h, IF input[h].stop THEN "column" ELSE "answered")
    /\ OnlyLedger

(* Seeded bug: the status of the PATCH is not looked at. *)
PatchOptOutBestEffort(h) ==
    /\ pc[h] = "column"
    /\ contacts' = [contacts EXCEPT ![input[h].from].optOut = TRUE] \/ UNCHANGED contacts
    /\ Goto(h, "optedOut")
    /\ UNCHANGED <<campaigns, rules, ledger, delivered, replies, input, thread>>

(* apply_opt_out: the column, then the two rows.                          *)
PatchOptOut(h) ==
    /\ pc[h] = "column"
    /\ contacts' = [contacts EXCEPT ![input[h].from].optOut = TRUE]
    /\ Goto(h, "optedOut")
    /\ UNCHANGED <<campaigns, rules, ledger, delivered, replies, input, thread>>

RecordOptedOut(h) ==
    /\ pc[h] = "optedOut"
    /\ Insert(h, "contact.opted_out", <<input[h].from, input[h].id>>, "none")
    /\ Goto(h, "asserted")
    /\ OnlyLedger

RecordAsserted(h) ==
    /\ pc[h] = "asserted"
    /\ Insert(h, "optout.asserted", <<input[h].from, input[h].channel>>, "irreversible")
    /\ Goto(h, "answered")
    /\ OnlyLedger

(* The request of an await or the answer to it is lost, the timeout layer *)
(* drops the handler, or the process dies: the provider is not answered.  *)
Lose(h) ==
    /\ pc[h] \in Waiting
    /\ Goto(h, "lost")
    /\ UNCHANGED <<tables, replies, input, thread>>

Step(h) ==
    \/ ResolveContact(h) \/ ResolveThread(h)
    \/ RecordReceived(h) \/ InsertReply(h) \/ RecordClassified(h)
    \/ PatchOptOut(h) \/ RecordOptedOut(h) \/ RecordAsserted(h)
    \/ Lose(h)

Next == \E h \in Handler : Step(h) \/ \E m \in Inbound : Deliver(h, m)

(* The sequence sender, as far as this path sees it: it records outreach. *)
RecordOutreach(c, ch, k) ==
    /\ ~HasKey(ledger, <<"outreach.sent", k>>)
    /\ ledger' = InsertLedgerRow(ledger,
           [kind |-> "outreach.sent", key |-> <<"outreach.sent", k>>, corr |-> k,
            contact |-> c, channel |-> ch, verdict |-> "sent", by |-> "send_due"])
    /\ UNCHANGED <<contacts, campaigns, rules, delivered>>

World ==
    /\ \E c \in Contact, ch \in Channel, k \in Corr : RecordOutreach(c, ch, k)
    /\ UNCHANGED local

Spec == Init /\ [][Next \/ World]_vars

-----------------------------------------------------------------------------
TypeOK ==
    /\ contacts \in [Contact -> ContactRow \cup {NoRow}]
    /\ \A i \in DOMAIN ledger :
          /\ ledger[i].kind = ledger[i].key[1] /\ ledger[i].corr \in Corr
          /\ ledger[i].contact \in Contact /\ ledger[i].channel \in Channel \cup {"email", "whatsapp"}
    /\ replies \subseteq [id : {m.id : m \in Inbound}, contact : Contact, corr : Corr,
                          category : {"unsubscribe", "other"}]
    /\ \A r, q \in replies : r.id = q.id => r = q
    /\ pc \in [Handler -> Pc]
    /\ input \in [Handler -> Inbound \cup {NoMessage}]
    /\ thread \in [Handler -> Corr \cup {NoThread}]

(* When the provider is told that a STOP was taken, it has been applied:  *)
(* the column is set and both rows exist, whichever earlier delivery of   *)
(* the same message broke off where, and whatever runs beside it.         *)
AckedStopIsApplied ==
    \A h \in Handler : (pc[h] = "answered" /\ input[h].stop) =>
        /\ optOut(input[h].from)
        /\ HasKey(ledger, OptedOutKey(input[h])) /\ HasKey(ledger, AssertedKey(input[h]))

(* A reply is filed under an outreach that went to its own sender on its  *)
(* own channel, whatever correlation the message claims.                  *)
ReplyFiledUnderSenderThread ==
    \A i \in DOMAIN ledger : ledger[i].kind \in {"reply.received", "reply.classified"} =>
        \E j \in 1..(i - 1) : /\ ledger[j].kind = "outreach.sent" /\ ledger[j].corr = ledger[i].corr
                              /\ ledger[j].contact = ledger[i].contact
                              /\ ledger[j].channel = ledger[i].channel

(* No row claims an opt-out the contact column does not have: a sender    *)
(* that reads the column alone never misses one the ledger shows.         *)
LedgerOptOutIsInColumn ==
    \A row \in RowsOf(ledger, "contact.opted_out") \cup RowsOf(ledger, "optout.asserted") :
        optOut(row.contact)
=============================================================================
