------------------------------ MODULE HostPair ------------------------------
(***************************************************************************)
(* The constitutional host.pair orchestrator, submit_host_pair of          *)
(* minilab-store/src/host_pair.rs, run concurrently by the handlers of     *)
(* any number of processes over one database.                              *)
(*                                                                         *)
(* An attempt is one call.  Its pc names the await it is blocked in; an    *)
(* action is the database round trip that ends this await together with    *)
(* the local code up to the next one.  Whatever ends a call early (an      *)
(* HTTP error, the API's timeout layer dropping the future, a crash of     *)
(* the process) is the action Abort: the effects already made stay.        *)
(***************************************************************************)
EXTENDS EvidenceLedger

CONSTANTS
    Host,           \* host ids
    Challenge,      \* nonces (a challenge stands for its sha256)
    Corr,           \* correlation ids
    Attempt,        \* calls of submit_host_pair; also the fresh session uuids
    Mode,           \* the sim_modes the clients of this database run under
    ReplayWindow    \* the limit of the replay query (50 in the code)

ASSUME ModeAssumption == Mode \subseteq {"production", "replay", "simulation", "counterfactual"}
ASSUME ReplayWindowAssumption == ReplayWindow \in Nat \ {0}

VARIABLES
    hosts,      \* the host table: NoRow or a host row, per host
    ledger,     \* the evidence ledger
    pc,         \* the await each attempt is blocked in
    input,      \* what the attempt was called with
    reason,     \* the reason_code it is refusing with, "" while it is not
    late        \* for the properties: its nonce was initiated before the call

vars == <<hosts, ledger, pc, input, reason, late>>

(* token: pairing_token_hash is set; versions: both versions are set and   *)
(* neither is "unknown".                                                   *)
HostRow == [retired : BOOLEAN, token : BOOLEAN, versions : BOOLEAN]
NoRow == [absent |-> TRUE]

(* The input of a call and the mode of the client it runs on.  signed: the *)
(* signature verifies; plausible: challenge and pubkey pass the shape      *)
(* check.  The two are independent: an empty challenge can be signed.      *)
Input == [host : Host, challenge : Challenge, corr : Corr, mode : Mode,
          signed : BOOLEAN, plausible : BOOLEAN]
NoInput == [absent |-> TRUE]

PreAdmission == {"host_not_registered", "host_retired", "token_mismatch",
                 "version_inconsistent", "replay_detected"}
Execution == {"invalid_signature", "invalid_challenge"}
Reason == PreAdmission \cup Execution

Pc == {"idle", "fetch", "scan", "initiate", "pair", "fail", "answer",
       "returned", "aborted"}

(***************************************************************************)
(* The rows a call writes.  by is the attempt that posted the row: for     *)
(* host.paired it is the pairing_session_id of the payload; for the other  *)
(* kinds it is there for the properties only.                              *)
(***************************************************************************)
Key == UNION {{"host.pair.initiated"} \X Host \X Challenge,
              {"host.paired"} \X Host \X Attempt,
              {"host.pair_failed"} \X Host \X Challenge \X Reason}
Row == [kind : {"host.pair.initiated", "host.paired", "host.pair_failed"},
        key : Key, corr : Corr, mode : Mode, by : Attempt]

LedgerRow(a, key) ==
    [kind |-> key[1], key |-> key, corr |-> input[a].corr, mode |-> input[a].mode, by |-> a]

InitiatedKey(in) == <<"host.pair.initiated", in.host, in.challenge>>
PairedKey(a, in) == <<"host.paired", in.host, a>>
FailedKey(in, code) == <<"host.pair_failed", in.host, in.challenge, code>>

(* Seeded bug: the execution modes swapped. *)
BlocksOnlyProduction(mode) == mode = "production"
blocks_real_sends(mode) == mode # "production"

(* The pre-admission checks on the fetched row; "" when it passes. *)
HostRefusal(row) ==
    IF row = NoRow THEN "host_not_registered"
    ELSE IF row.retired THEN "host_retired"
    ELSE IF ~row.token THEN "token_mismatch"
    ELSE IF ~row.versions THEN "version_inconsistent"
    ELSE ""

(* The executor's verdict once the act is admitted; "" when it may pair. *)
ExecutionRefusal(in) ==
    IF ~blocks_real_sends(in.mode) /\ ~in.signed THEN "invalid_signature"
    ELSE IF ~in.plausible THEN "invalid_challenge"
    ELSE ""

(* Seeded bug: only challenges that were paired count as replayed. *)
PriorPairedExists(in) ==
    \E i \in Latest(ledger, "host.paired", ReplayWindow) :
        InitiatedKey(input[ledger[i].by]) = InitiatedKey(in)

PriorInitiatedExists(in) ==
    \E i \in Latest(ledger, "host.pair.initiated", ReplayWindow) :
        ledger[i].key = InitiatedKey(in)

-----------------------------------------------------------------------------
Init ==
    /\ hosts \in [Host -> HostRow \cup {NoRow}]
    /\ ledger = <<>>
    /\ pc = [a \in Attempt |-> "idle"]
    /\ input = [a \in Attempt |-> NoInput]
    /\ reason = [a \in Attempt |-> ""]
    /\ late = [a \in Attempt |-> FALSE]

(* The attempt leaves its await: to the given pc, or, when there is a     *)
(* reason to refuse, to the insert of the failure row.                    *)
Continue(a, refusal, next) ==
    /\ pc' = [pc EXCEPT ![a] = IF refusal = "" THEN next ELSE "fail"]
    /\ reason' = [reason EXCEPT ![a] = refusal]
    /\ UNCHANGED <<hosts, input, late>>

Goto(a, next) ==
    /\ pc' = [pc EXCEPT ![a] = next]
    /\ UNCHANGED <<hosts, input, reason, late>>

Insert(a, key) == ledger' = InsertLedgerRow(ledger, LedgerRow(a, key))

(* A handler calls submit_host_pair. *)
Submit(a, in) ==
    /\ pc[a] = "idle"
    /\ pc' = [pc EXCEPT ![a] = "fetch"]
    /\ input' = [input EXCEPT ![a] = in]
    /\ late' = [late EXCEPT ![a] = HasKey(ledger, InitiatedKey(in))]
    /\ UNCHANGED <<hosts, ledger, reason>>

FetchHost(a) ==
    /\ pc[a] = "fetch"
    /\ Continue(a, HostRefusal(hosts[input[a].host]), "scan")
    /\ UNCHANGED ledger

ScanReplay(a) ==
    /\ pc[a] = "scan"
    /\ Continue(a, IF PriorInitiatedExists(input[a]) THEN "replay_detected" ELSE "", "initiate")
    /\ UNCHANGED ledger

(* Seeded bug: the executor checks moved before the admission row. *)
RecordInitiatedIfVerified(a) ==
    /\ pc[a] = "initiate"
    /\ IF ExecutionRefusal(input[a]) = "" THEN Insert(a, InitiatedKey(input[a]))
                                         ELSE UNCHANGED ledger
    /\ Continue(a, ExecutionRefusal(input[a]), "pair")

(* The insert of host.pair.initiated, then the local executor checks.  A  *)
(* 409 on the insert is not an error and is not noticed.                  *)
RecordInitiated(a) ==
    /\ pc[a] = "initiate"
    /\ Insert(a, InitiatedKey(input[a]))
    /\ Continue(a, ExecutionRefusal(input[a]), "pair")

RecordPaired(a) ==
    /\ pc[a] = "pair"
    /\ Insert(a, PairedKey(a, input[a]))
    /\ Goto(a, "answer")

(* Seeded bug: an error of the failure insert is ignored. *)
RecordFailedBestEffort(a) ==
    /\ pc[a] = "fail"
    /\ Insert(a, FailedKey(input[a], reason[a])) \/ UNCHANGED ledger
    /\ Goto(a, "answer")

RecordFailed(a) ==
    /\ pc[a] = "fail"
    /\ Insert(a, FailedKey(input[a], reason[a]))
    /\ Goto(a, "answer")

(* The answer of the last insert arrives and the caller gets its outcome: *)
(* Paired when reason is "", Failed otherwise.                            *)
Return(a) ==
    /\ pc[a] = "answer"
    /\ Goto(a, "returned")
    /\ UNCHANGED ledger

(* The call ends at an await: its request or the answer to it is lost.    *)
Abort(a) ==
    /\ pc[a] \notin {"idle", "returned", "aborted"}
    /\ Goto(a, "aborted")
    /\ UNCHANGED ledger

(* Operators register and retire hosts with SQL; the code only reads the  *)
(* table.                                                                 *)
RegisterHost(h, row) ==
    /\ hosts[h] = NoRow
    /\ hosts' = [hosts EXCEPT ![h] = row]
    /\ UNCHANGED <<ledger, pc, input, reason, late>>

RetireHost(h) ==
    /\ hosts[h] # NoRow /\ hosts[h].retired = FALSE
    /\ hosts' = [hosts EXCEPT ![h].retired = TRUE]
    /\ UNCHANGED <<ledger, pc, input, reason, late>>

Step(a) ==
    \/ \E in \in Input : Submit(a, in)
    \/ FetchHost(a) \/ ScanReplay(a) \/ RecordInitiated(a)
    \/ RecordPaired(a) \/ RecordFailed(a) \/ Return(a) \/ Abort(a)

Next ==
    \/ \E a \in Attempt : Step(a)
    \/ \E h \in Host : RetireHost(h) \/ \E row \in HostRow : RegisterHost(h, row)

Spec == Init /\ [][Next]_vars

-----------------------------------------------------------------------------
TypeOK ==
    /\ hosts \in [Host -> HostRow \cup {NoRow}]
    /\ ledger \in Seq(Row)
    /\ pc \in [Attempt -> Pc]
    /\ input \in [Attempt -> Input \cup {NoInput}]
    /\ \A a \in Attempt : pc[a] # "idle" => input[a] \in Input
    /\ reason \in [Attempt -> Reason \cup {""}]
    /\ late \in [Attempt -> BOOLEAN]

(* Nothing is executed that was not admitted: every host.paired row and   *)
(* every failure of phase "execution" comes after a host.pair.initiated   *)
(* row of the same host and challenge, whichever calls race.              *)
ExecutionFollowsAdmission ==
    \A i \in DOMAIN ledger :
        (\/ ledger[i].kind = "host.paired"
         \/ ledger[i].kind = "host.pair_failed" /\ ledger[i].key[4] \in Execution)
        => \E j \in 1..(i - 1) : ledger[j].key = InitiatedKey(input[ledger[i].by])

(* A pairing recorded by a production client had a verified signature and *)
(* both base64 shapes, whatever the non-production clients of the same    *)
(* ledger do.                                                             *)
ProductionPairingIsVerified ==
    \A i \in DOMAIN ledger :
        (ledger[i].kind = "host.paired" /\ ledger[i].mode = "production")
        => input[ledger[i].by].signed /\ input[ledger[i].by].plausible

(* A call that answered its caller has its outcome in the ledger: its own *)
(* session when it paired, a failure of the same host, challenge and      *)
(* reason (maybe of an earlier call) when it refused.                     *)
ReturnedOutcomeIsRecorded ==
    \A a \in Attempt : pc[a] = "returned" =>
        IF reason[a] = "" THEN HasKey(ledger, PairedKey(a, input[a]))
                          ELSE HasKey(ledger, FailedKey(input[a], reason[a]))

(* The promise of Pairing, read off the ledger: a nonce is a host with a  *)
(* challenge, it is spent when its host.pair.initiated row exists, and a  *)
(* call has paired when its host.paired row exists.                       *)
Promise == INSTANCE Pairing WITH
    Call   <- Attempt,
    Nonce  <- {"host.pair.initiated"} \X Host \X Challenge,
    None   <- NoKey,
    nonce  <- [a \in Attempt |-> IF pc[a] = "idle" THEN NoKey ELSE InitiatedKey(input[a])],
    spent  <- {ledger[i].key : i \in {j \in DOMAIN ledger : ledger[j].kind = "host.pair.initiated"}},
    barred <- {a \in Attempt : late[a]},
    paired <- {ledger[i].by : i \in {j \in DOMAIN ledger : ledger[j].kind = "host.paired"}}

(* Every behaviour of the orchestrator keeps that promise: a challenge is *)
(* spent before it pairs, and a call that began after it was spent never  *)
(* spends it again nor pairs.  It needs the replay query to reach the     *)
(* row, see ReplayWindow.                                                 *)
KeepsPromise == Promise!Spec

-----------------------------------------------------------------------------
(* What the comments of the code say, and the interleavings refute.       *)

(* The unique keys are a safety net below the replay check: one challenge *)
(* of a host pairs at most once.                                          *)
ChallengePairsOnce ==
    \A i, j \in DOMAIN ledger :
        (/\ ledger[i].kind = "host.paired" /\ ledger[j].kind = "host.paired"
         /\ InitiatedKey(input[ledger[i].by]) = InitiatedKey(input[ledger[j].by]))
        => i = j
=============================================================================
