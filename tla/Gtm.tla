--------------------------------- MODULE Gtm ---------------------------------
(***************************************************************************)
(* The go-to-market loop: the sequence sender, the constitutional          *)
(* outbound.send path and the inbound reply path over one database and one *)
(* outside world.  Replies are replies to messages that were delivered,    *)
(* and each asks to stop: the loop is closed when that stops the senders.  *)
(***************************************************************************)
EXTENDS SendDue

CONSTANTS
    Corr, Request, OptOutWindow,                \* see OutboundSend
    Handler, ReplyWindow, NoHint, NoThread      \* see ReplyIngest

VARIABLES
    callPc, callInput, reason, callProvider, late,
    replies, replyPc, replyInput, thread,
    ackedBefore     \* for the properties: of each run and call, the contacts
                    \* whose STOP had been acknowledged when it began

call == <<callPc, callInput, reason, callProvider, late>>
reply == <<replies, replyPc, replyInput, thread>>
loopVars == <<tables, local, call, reply, ackedBefore>>

(* The ids of the messages that can be delivered.  A dispatch of the      *)
(* sequence sender has a correlation of its own, which is its id.         *)
OwnId == Slot \X Sequence
AnyId == Request \cup OwnId
Correlation == Corr \cup OwnId

(* Runs, calls and the dispatches of runs are different things, and a     *)
(* dispatch makes a correlation id no caller has.                         *)
ASSUME IdAssumption ==
    /\ Request \cap Slot = {} /\ Request \cap OwnId = {} /\ Corr \cap OwnId = {}
    /\ NoHint \notin Correlation /\ NoThread \notin Correlation

Outbound == INSTANCE OutboundSend WITH
    pc <- callPc, input <- callInput, provider <- callProvider

(* The reply to a message has an id of its own, here that of the message. *)
Stop(m) == [from |-> m.contact, channel |-> m.channel, hint |-> m.corr, stop |-> TRUE, id |-> m.id]

Reply == INSTANCE ReplyIngest WITH
    pc <- replyPc, input <- replyInput, Corr <- Correlation, HeaderId <- AnyId,
    Inbound <- {Stop(m) : m \in [contact : Contact, channel : {"email", "whatsapp"},
                                 corr : Correlation, id : AnyId]}

LoopInit ==
    /\ Init
    /\ callPc = [r \in Request |-> "idle"]
    /\ callInput = [r \in Request |-> Outbound!NoInput]
    /\ reason = [r \in Request |-> ""]
    /\ callProvider = [r \in Request |-> ""]
    /\ late = [r \in Request |-> FALSE]
    /\ replies = {}
    /\ replyPc = [h \in Handler |-> "idle"]
    /\ replyInput = [h \in Handler |-> Reply!NoMessage]
    /\ thread = [h \in Handler |-> NoThread]
    /\ ackedBefore = [x \in Request \cup Slot |-> {}]

Acked == {replyInput[h].from : h \in {g \in Handler : replyPc[g] = "answered"}}

(* A run or a call that begins in this step remembers who had stopped.    *)
Remember ==
    ackedBefore' = [x \in Request \cup Slot |->
        IF \/ x \in Request /\ callPc[x] = "idle" /\ callPc'[x] # "idle"
           \/ x \in Slot /\ pc[x] = "idle" /\ pc'[x] # "idle"
        THEN Acked ELSE ackedBefore[x]]

ReplyNext ==
    \E h \in Handler : Reply!Step(h) \/ \E m \in delivered : Reply!Deliver(h, Stop(m))

LoopNext ==
    /\ \/ Next /\ UNCHANGED <<call, reply>>
       \/ Outbound!Next /\ UNCHANGED <<local, reply>>
       \/ ReplyNext /\ UNCHANGED <<local, call>>
    /\ Remember

LoopSpec == LoopInit /\ [][LoopNext]_loopVars

-----------------------------------------------------------------------------
(* The run or call that delivered a message.                              *)
SenderOf(m) == IF m.id \in Request THEN m.id ELSE m.id[1]

(* The loop is closed: no run and no call that begins after the provider  *)
(* was told that a STOP was taken delivers anything to that contact, on   *)
(* whichever channel the STOP came in.                                    *)
AckedStopStopsLaterSends ==
    [][\A m \in delivered' \ delivered : m.contact \notin ackedBefore[SenderOf(m)]]_loopVars

(* A STOP by mail to a message that is recorded as outreach is never      *)
(* turned away, however much outreach was recorded since; one to a        *)
(* message that only the provider has, or that the constitutional path    *)
(* recorded as outbound.sent, is.                                         *)
StopToRecordedMailIsTaken ==
    [][\A h \in Handler :
          (replyPc[h] # "refused" /\ replyPc'[h] = "refused" /\ replyInput[h].channel = "email") =>
              \A row \in RowsOf(ledger, "outreach.sent") : row.corr # replyInput[h].hint]_loopVars
=============================================================================
