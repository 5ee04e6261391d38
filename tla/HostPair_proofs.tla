--------------------------- MODULE HostPair_proofs ---------------------------
(***************************************************************************)
(* Proofs about the host.pair orchestrator: type correctness, and, from    *)
(* one inductive invariant, the safety invariants of HostPair.tla that do  *)
(* not depend on how far the replay query reaches.                         *)
(***************************************************************************)
EXTENDS HostPair, EvidenceLedger_proofs, FiniteSetTheorems

(* A call about to post its failure row has a reason to: without this the *)
(* key of the row would be no key, and TypeOK is not inductive alone.     *)
FailingHasReason == \A a \in Attempt : pc[a] = "fail" => reason[a] \in Reason

TypeInv == TypeOK /\ FailingHasReason

(* A row was posted by a call in progress or over, from its input.        *)
RowsComeFromCalls ==
    \A i \in DOMAIN ledger :
        LET row == ledger[i]
            in  == input[row.by]
        IN  /\ pc[row.by] # "idle"
            /\ row.mode = in.mode
            /\ row.kind = row.key[1]
            /\ \/ row.key = InitiatedKey(in)
               \/ row.key = PairedKey(row.by, in) /\ ExecutionRefusal(in) = ""
               \/ \E code \in Reason : row.key = FailedKey(in, code)

(* A call about to pair has passed the executor.                          *)
PairingIsCleared ==
    \A a \in Attempt : pc[a] = "pair" => reason[a] = "" /\ ExecutionRefusal(input[a]) = ""

(* A call that executes has admitted its act.                             *)
ExecutingIsAdmitted ==
    \A a \in Attempt :
        (pc[a] = "pair" \/ (pc[a] = "fail" /\ reason[a] \in Execution))
            => HasKey(ledger, InitiatedKey(input[a]))

(* A call that has made its last insert finds its outcome in the ledger.  *)
AnswerIsRecorded ==
    \A a \in Attempt : pc[a] \in {"answer", "returned"} =>
        IF reason[a] = "" THEN HasKey(ledger, PairedKey(a, input[a]))
                          ELSE HasKey(ledger, FailedKey(input[a], reason[a]))

IInv ==
    /\ TypeInv
    /\ RowsComeFromCalls
    /\ PairingIsCleared
    /\ ExecutingIsAdmitted
    /\ AnswerIsRecorded
    /\ ExecutionFollowsAdmission

-----------------------------------------------------------------------------
(* The three keys of a call are keys, not NoKey, and told apart by their  *)
(* first element.                                                         *)
LEMMA KeysAreTyped ==
    ASSUME NEW in \in Input, NEW a \in Attempt, NEW code \in Reason
    PROVE  /\ InitiatedKey(in) \in Key /\ InitiatedKey(in)[1] = "host.pair.initiated"
           /\ PairedKey(a, in) \in Key /\ PairedKey(a, in)[1] = "host.paired"
           /\ FailedKey(in, code) \in Key /\ FailedKey(in, code)[1] = "host.pair_failed"
           /\ FailedKey(in, code)[4] = code
           /\ InitiatedKey(in) # NoKey /\ PairedKey(a, in) # NoKey /\ FailedKey(in, code) # NoKey
  <1>1. in.host \in Host /\ in.challenge \in Challenge  BY DEF Input
  <1>2. InitiatedKey(in) \in {"host.pair.initiated"} \X Host \X Challenge
    BY <1>1 DEF InitiatedKey
  <1>3. PairedKey(a, in) \in {"host.paired"} \X Host \X Attempt
    BY <1>1 DEF PairedKey
  <1>4. FailedKey(in, code) \in {"host.pair_failed"} \X Host \X Challenge \X Reason
    BY <1>1 DEF FailedKey
  <1>5. InitiatedKey(in) \in Key /\ PairedKey(a, in) \in Key /\ FailedKey(in, code) \in Key
    BY <1>2, <1>3, <1>4 DEF Key
  <1>6. InitiatedKey(in) # NoKey /\ PairedKey(a, in) # NoKey /\ FailedKey(in, code) # NoKey
    BY DEF InitiatedKey, PairedKey, FailedKey, NoKey
  <1> QED  BY <1>5, <1>6 DEF InitiatedKey, PairedKey, FailedKey

(* The row a call posts under one of its keys is a row.                   *)
LEMMA RowsAreTyped ==
    ASSUME TypeOK, NEW a \in Attempt, input[a] \in Input, NEW key \in Key,
           key[1] \in {"host.pair.initiated", "host.paired", "host.pair_failed"}
    PROVE  /\ LedgerRow(a, key) \in Row
           /\ LedgerRow(a, key).kind = key[1] /\ LedgerRow(a, key).key = key
           /\ LedgerRow(a, key).by = a /\ LedgerRow(a, key).mode = input[a].mode
  <1>1. input[a].corr \in Corr /\ input[a].mode \in Mode  BY DEF Input
  <1> QED  BY <1>1 DEF LedgerRow, Row

LEMMA EveryRowIsTyped ==
    ASSUME TypeOK, NEW i \in DOMAIN ledger
    PROVE  ledger[i] \in Row /\ ledger[i].by \in Attempt
  <1>1. ledger \in Seq(Row)  BY DEF TypeOK
  <1>2. i \in 1..Len(ledger)  BY <1>1
  <1>3. ledger[i] \in Row  BY <1>1, <1>2
  <1> QED  BY <1>3 DEF Row

(* The verdicts are reason codes.                                         *)
LEMMA RefusalsAreTyped ==
    /\ \A row : HostRefusal(row) \in PreAdmission \cup {""}
    /\ \A in : ExecutionRefusal(in) \in Execution \cup {""}
  BY DEF HostRefusal, ExecutionRefusal, PreAdmission, Execution

-----------------------------------------------------------------------------
LEMMA InitTypeInv == Init => TypeInv
  <1> SUFFICES ASSUME Init PROVE TypeInv
    OBVIOUS
  <1>1. ledger \in Seq(Row)  BY EmptySeq DEF Init
  <1>2. late \in [Attempt -> BOOLEAN]  BY DEF Init
  <1> QED  BY <1>1, <1>2 DEF Init, TypeInv, TypeOK, FailingHasReason, Pc

(* Posting a row of a call keeps the ledger a sequence of rows.           *)
LEMMA InsertKeepsType ==
    ASSUME TypeOK, NEW a \in Attempt, input[a] \in Input, NEW key \in Key,
           key[1] \in {"host.pair.initiated", "host.paired", "host.pair_failed"},
           Insert(a, key)
    PROVE  ledger' \in Seq(Row)
  <1>1. ledger \in Seq(Row)  BY DEF TypeOK
  <1>2. LedgerRow(a, key) \in Row  BY RowsAreTyped
  <1> QED  BY <1>1, <1>2, InsertExtends DEF Insert

LEMMA NextTypeInv == TypeInv /\ [Next]_vars => TypeInv'
  <1> SUFFICES ASSUME TypeOK, FailingHasReason, [Next]_vars PROVE TypeOK' /\ FailingHasReason'
    BY DEF TypeInv
  <1>1. CASE UNCHANGED vars
    BY <1>1 DEF TypeOK, FailingHasReason, vars
  <1>2. ASSUME NEW a \in Attempt, Step(a) PROVE TypeOK' /\ FailingHasReason'
    <2>0. pc[a] # "idle" => input[a] \in Input  BY DEF TypeOK
    <2>1. ASSUME NEW in \in Input, Submit(a, in) PROVE TypeOK' /\ FailingHasReason'
      <3>1. HasKey(ledger, InitiatedKey(in)) \in BOOLEAN  BY DEF HasKey
      <3>2. late' \in [Attempt -> BOOLEAN]  BY <2>1, <3>1 DEF TypeOK, Submit
      <3> QED  BY <2>1, <3>2 DEF TypeOK, FailingHasReason, Submit, Pc
    <2>2. CASE FetchHost(a)
      <3>1. HostRefusal(hosts[input[a].host]) \in Reason \cup {""}
        BY RefusalsAreTyped DEF Reason
      <3> QED  BY <2>2, <3>1 DEF TypeOK, FailingHasReason, FetchHost, Continue, Pc
    <2>3. CASE ScanReplay(a)
      BY <2>3 DEF TypeOK, FailingHasReason, ScanReplay, Continue, Pc, Reason, PreAdmission
    <2>4. CASE RecordInitiated(a)
      <3>1. ExecutionRefusal(input[a]) \in Reason \cup {""}
        BY RefusalsAreTyped DEF Reason
      <3>2. ledger' \in Seq(Row)
        BY <2>0, <2>4, KeysAreTyped, InsertKeepsType DEF RecordInitiated, Reason, PreAdmission
      <3> QED  BY <2>4, <3>1, <3>2 DEF TypeOK, FailingHasReason, RecordInitiated, Continue, Pc
    <2>5. CASE RecordPaired(a)
      <3>1. ledger' \in Seq(Row)
        BY <2>0, <2>5, KeysAreTyped, InsertKeepsType DEF RecordPaired, Reason, PreAdmission
      <3> QED  BY <2>5, <3>1 DEF TypeOK, FailingHasReason, RecordPaired, Goto, Pc
    <2>6. CASE RecordFailed(a)
      <3>1. ledger' \in Seq(Row)
        <4>1. reason[a] \in Reason /\ input[a] \in Input
          BY <2>0, <2>6 DEF FailingHasReason, RecordFailed
        <4> QED  BY <2>6, <4>1, KeysAreTyped, InsertKeepsType DEF RecordFailed
      <3> QED  BY <2>6, <3>1 DEF TypeOK, FailingHasReason, RecordFailed, Goto, Pc
    <2>7. CASE Return(a) \/ Abort(a)
      BY <2>7 DEF TypeOK, FailingHasReason, Return, Abort, Goto, Pc
    <2> QED  BY <1>2, <2>1, <2>2, <2>3, <2>4, <2>5, <2>6, <2>7 DEF Step
  <1>3. ASSUME NEW h \in Host, RetireHost(h) PROVE TypeOK' /\ FailingHasReason'
    BY <1>3 DEF TypeOK, FailingHasReason, RetireHost, HostRow, NoRow
  <1>4. ASSUME NEW h \in Host, NEW row \in HostRow, RegisterHost(h, row) PROVE TypeOK' /\ FailingHasReason'
    BY <1>4 DEF TypeOK, FailingHasReason, RegisterHost
  <1> QED  BY <1>1, <1>2, <1>3, <1>4 DEF Next

(* The type invariant of the orchestrator, for any number of hosts,       *)
(* challenges and concurrent calls and any replay window.                 *)
THEOREM TypeCorrect == Spec => []TypeOK
  <1>1. TypeInv => TypeOK  BY DEF TypeInv
  <1> QED  BY <1>1, InitTypeInv, NextTypeInv, PTL DEF Spec

-----------------------------------------------------------------------------
(* A call in progress or over keeps its input and never becomes idle.     *)
LEMMA CallsKeepInput ==
    ASSUME [Next]_vars, TypeOK, NEW x \in Attempt, pc[x] # "idle"
    PROVE  pc'[x] # "idle" /\ input'[x] = input[x]
  <1>1. CASE UNCHANGED vars  BY <1>1 DEF vars
  <1>2. ASSUME NEW a \in Attempt, Step(a) PROVE pc'[x] # "idle" /\ input'[x] = input[x]
    <2>1. ASSUME NEW in \in Input, Submit(a, in) PROVE pc'[x] # "idle" /\ input'[x] = input[x]
      BY <2>1 DEF Submit, TypeOK
    <2>2. CASE FetchHost(a) \/ ScanReplay(a) \/ RecordInitiated(a)
      BY <2>2 DEF FetchHost, ScanReplay, RecordInitiated, Continue, TypeOK
    <2>3. CASE RecordPaired(a) \/ RecordFailed(a) \/ Return(a) \/ Abort(a)
      BY <2>3 DEF RecordPaired, RecordFailed, Return, Abort, Goto, TypeOK
    <2> QED  BY <1>2, <2>1, <2>2, <2>3 DEF Step
  <1>3. ASSUME NEW h \in Host, RetireHost(h) PROVE pc'[x] # "idle" /\ input'[x] = input[x]
    BY <1>3 DEF RetireHost
  <1>4. ASSUME NEW h \in Host, NEW row \in HostRow, RegisterHost(h, row)
        PROVE pc'[x] # "idle" /\ input'[x] = input[x]
    BY <1>4 DEF RegisterHost
  <1> QED  BY <1>1, <1>2, <1>3, <1>4 DEF Next

(* The call a posts a row under the given key: one of the three inserts.  *)
Posts(a, key) ==
    /\ pc[a] # "idle" /\ input[a] \in Input /\ key \in Key
    /\ Insert(a, key)
    /\ \/ pc[a] = "initiate" /\ key = InitiatedKey(input[a])
       \/ pc[a] = "pair" /\ key = PairedKey(a, input[a])
       \/ pc[a] = "fail" /\ reason[a] \in Reason /\ key = FailedKey(input[a], reason[a])

(* A step leaves the ledger alone or is one insert of one call.           *)
LEMMA StepPostsAtMostOneRow ==
    ASSUME [Next]_vars, TypeInv
    PROVE  ledger' = ledger \/ \E a \in Attempt : \E key : Posts(a, key)
  <1>1. CASE UNCHANGED vars  BY <1>1 DEF vars
  <1>2. ASSUME NEW a \in Attempt, Step(a)
        PROVE  ledger' = ledger \/ \E key : Posts(a, key)
    <2>0. pc[a] # "idle" => input[a] \in Input  BY DEF TypeInv, TypeOK
    <2>1. CASE RecordInitiated(a)
      <3>1. Posts(a, InitiatedKey(input[a]))
        BY <2>0, <2>1, KeysAreTyped DEF RecordInitiated, Posts, Reason, PreAdmission
      <3> QED  BY <3>1
    <2>2. CASE RecordPaired(a)
      <3>1. Posts(a, PairedKey(a, input[a]))
        BY <2>0, <2>2, KeysAreTyped DEF RecordPaired, Posts, Reason, PreAdmission
      <3> QED  BY <3>1
    <2>3. CASE RecordFailed(a)
      <3>1. reason[a] \in Reason  BY <2>3 DEF RecordFailed, TypeInv, FailingHasReason
      <3>2. Posts(a, FailedKey(input[a], reason[a]))
        BY <2>0, <2>3, <3>1, KeysAreTyped DEF RecordFailed, Posts
      <3> QED  BY <3>2
    <2>4. ASSUME NEW in \in Input, Submit(a, in) PROVE ledger' = ledger
      BY <2>4 DEF Submit
    <2>5. CASE FetchHost(a) \/ ScanReplay(a) \/ Return(a) \/ Abort(a)
      BY <2>5 DEF FetchHost, ScanReplay, Return, Abort
    <2> QED  BY <1>2, <2>1, <2>2, <2>3, <2>4, <2>5 DEF Step
  <1>3. ASSUME NEW h \in Host, RetireHost(h) PROVE ledger' = ledger
    BY <1>3 DEF RetireHost
  <1>4. ASSUME NEW h \in Host, NEW row \in HostRow, RegisterHost(h, row) PROVE ledger' = ledger
    BY <1>4 DEF RegisterHost
  <1> QED  BY <1>1, <1>2, <1>3, <1>4 DEF Next

(* What posting a row does to the ledger.                                 *)
LEMMA PostedRow ==
    ASSUME TypeInv, NEW a \in Attempt, NEW key, Posts(a, key)
    PROVE  /\ IsExtension(ledger, ledger')
           /\ \A i \in DOMAIN ledger' :
                 i \in DOMAIN ledger \/ (i = Len(ledger) + 1 /\ ledger'[i] = LedgerRow(a, key))
           /\ \A k : HasKey(ledger, k) => HasKey(ledger', k)
           /\ HasKey(ledger', key)
           /\ LedgerRow(a, key).by = a /\ LedgerRow(a, key).key = key
           /\ LedgerRow(a, key).kind = key[1] /\ LedgerRow(a, key).mode = input[a].mode
  <1>1. ledger \in Seq(Row)  BY DEF TypeInv, TypeOK
  <1>2. /\ input[a] \in Input /\ key \in Key /\ key # NoKey
        /\ key[1] \in {"host.pair.initiated", "host.paired", "host.pair_failed"}
    <2>1. PICK code : code \in Reason /\ (pc[a] = "fail" => code = reason[a])
      BY DEF Posts, Reason, PreAdmission
    <2> QED  BY <2>1, KeysAreTyped DEF Posts
  <1>3. LedgerRow(a, key) \in Row /\ LedgerRow(a, key).by = a /\ LedgerRow(a, key).key = key
        /\ LedgerRow(a, key).kind = key[1] /\ LedgerRow(a, key).mode = input[a].mode
    BY <1>2, RowsAreTyped DEF TypeInv
  <1>4. ledger' = InsertLedgerRow(ledger, LedgerRow(a, key))  BY DEF Posts, Insert
  <1>5. /\ IsExtension(ledger, ledger')
        /\ \A i \in DOMAIN ledger' :
              i \in DOMAIN ledger \/ (i = Len(ledger) + 1 /\ ledger'[i] = LedgerRow(a, key))
    BY <1>1, <1>3, <1>4, InsertExtends
  <1>6. /\ \A k : HasKey(ledger, k) => HasKey(ledger', k)
        /\ HasKey(ledger', key)
    BY <1>1, <1>2, <1>3, <1>4, InsertHasKeys
  <1> QED  BY <1>3, <1>5, <1>6

(* No step takes a key out of the ledger.                                 *)
LEMMA KeysStay ==
    ASSUME [Next]_vars, TypeInv, NEW k, HasKey(ledger, k)
    PROVE  HasKey(ledger', k)
  BY StepPostsAtMostOneRow, PostedRow DEF HasKey

-----------------------------------------------------------------------------
LEMMA InitIInv == Init => IInv
  <1> SUFFICES ASSUME Init PROVE IInv
    OBVIOUS
  <1>1. TypeInv  BY InitTypeInv
  <1>2. DOMAIN ledger = {}
    <2>1. ledger \in Seq(Row) /\ Len(ledger) = 0  BY EmptySeq DEF Init
    <2> QED  BY <2>1
  <1>3. RowsComeFromCalls /\ ExecutionFollowsAdmission
    BY <1>2 DEF RowsComeFromCalls, ExecutionFollowsAdmission
  <1>4. PairingIsCleared /\ ExecutingIsAdmitted /\ AnswerIsRecorded
    BY DEF Init, PairingIsCleared, ExecutingIsAdmitted, AnswerIsRecorded
  <1> QED  BY <1>1, <1>3, <1>4 DEF IInv

(* A row that was there keeps its caller; a new one is of the caller that *)
(* posts it, which has passed the executor when the row is host.paired.   *)
LEMMA NextRowsComeFromCalls ==
    ASSUME IInv, [Next]_vars
    PROVE  RowsComeFromCalls'
  <1> DEFINE Fits(L, p, n, i) ==
        LET row == L[i]
            in  == n[row.by]
        IN  /\ p[row.by] # "idle"
            /\ row.mode = in.mode
            /\ row.kind = row.key[1]
            /\ \/ row.key = InitiatedKey(in)
               \/ row.key = PairedKey(row.by, in) /\ ExecutionRefusal(in) = ""
               \/ \E code \in Reason : row.key = FailedKey(in, code)
  <1> SUFFICES ASSUME NEW i \in DOMAIN ledger' PROVE Fits(ledger', pc', input', i)
    BY DEF RowsComeFromCalls
  <1>0. TypeInv /\ TypeOK  BY DEF IInv, TypeInv
  <1>1. ASSUME i \in DOMAIN ledger, ledger'[i] = ledger[i]
        PROVE  Fits(ledger', pc', input', i)
    <2>1. Fits(ledger, pc, input, i)  BY <1>1 DEF IInv, RowsComeFromCalls
    <2>2. ledger[i].by \in Attempt  BY <1>0, <1>1, EveryRowIsTyped
    <2>3. pc'[ledger[i].by] # "idle" /\ input'[ledger[i].by] = input[ledger[i].by]
      BY <1>0, <2>1, <2>2, CallsKeepInput
    <2> QED  BY <1>1, <2>1, <2>3
  <1>2. ASSUME NEW a \in Attempt, NEW key, Posts(a, key), ledger'[i] = LedgerRow(a, key)
        PROVE  Fits(ledger', pc', input', i)
    <2>1. /\ ledger'[i].by = a /\ ledger'[i].key = key
          /\ ledger'[i].kind = key[1] /\ ledger'[i].mode = input[a].mode
      BY <1>0, <1>2, PostedRow
    <2>2. pc'[a] # "idle" /\ input'[a] = input[a]  BY <1>0, <1>2, CallsKeepInput DEF Posts
    <2>3. \/ key = InitiatedKey(input[a])
          \/ key = PairedKey(a, input[a]) /\ ExecutionRefusal(input[a]) = ""
          \/ \E code \in Reason : key = FailedKey(input[a], code)
      BY <1>2 DEF Posts, IInv, PairingIsCleared
    <2> QED  BY <2>1, <2>2, <2>3
  <1>3. CASE ledger' = ledger  BY <1>1, <1>3
  <1>4. ASSUME NEW a \in Attempt, NEW key, Posts(a, key) PROVE Fits(ledger', pc', input', i)
    <2>1. CASE i \in DOMAIN ledger
      <3>1. ledger'[i] = ledger[i]  BY <1>0, <1>4, <2>1, PostedRow DEF IsExtension
      <3> QED  BY <1>1, <2>1, <3>1
    <2>2. CASE i \notin DOMAIN ledger
      <3>1. ledger'[i] = LedgerRow(a, key)  BY <1>0, <1>4, <2>2, PostedRow
      <3> QED  BY <1>2, <1>4, <3>1
    <2> QED  BY <2>1, <2>2
  <1> QED  BY <1>0, <1>3, <1>4, StepPostsAtMostOneRow

(* A call reaches the pairing insert only from the executor's checks.     *)
LEMMA NextPairingIsCleared ==
    ASSUME IInv, [Next]_vars
    PROVE  PairingIsCleared'
  <1> SUFFICES ASSUME NEW x \in Attempt, pc'[x] = "pair"
               PROVE  reason'[x] = "" /\ ExecutionRefusal(input'[x]) = ""
    BY DEF PairingIsCleared
  <1>0. TypeOK /\ PairingIsCleared  BY DEF IInv, TypeInv
  <1>1. CASE UNCHANGED vars  BY <1>0, <1>1 DEF vars, PairingIsCleared
  <1>2. ASSUME NEW a \in Attempt, Step(a)
        PROVE  reason'[x] = "" /\ ExecutionRefusal(input'[x]) = ""
    <2>1. ASSUME NEW in \in Input, Submit(a, in)
          PROVE  reason'[x] = "" /\ ExecutionRefusal(input'[x]) = ""
      BY <1>0, <2>1 DEF Submit, TypeOK, PairingIsCleared
    <2>2. CASE FetchHost(a) \/ ScanReplay(a)
      BY <1>0, <2>2 DEF FetchHost, ScanReplay, Continue, TypeOK, PairingIsCleared
    <2>3. CASE RecordInitiated(a)
      BY <1>0, <2>3 DEF RecordInitiated, Continue, TypeOK, PairingIsCleared
    <2>4. CASE RecordPaired(a) \/ RecordFailed(a) \/ Return(a) \/ Abort(a)
      BY <1>0, <2>4 DEF RecordPaired, RecordFailed, Return, Abort, Goto, TypeOK, PairingIsCleared
    <2> QED  BY <1>2, <2>1, <2>2, <2>3, <2>4 DEF Step
  <1>3. ASSUME NEW h \in Host, RetireHost(h)
        PROVE  reason'[x] = "" /\ ExecutionRefusal(input'[x]) = ""
    BY <1>0, <1>3 DEF RetireHost, PairingIsCleared
  <1>4. ASSUME NEW h \in Host, NEW row \in HostRow, RegisterHost(h, row)
        PROVE  reason'[x] = "" /\ ExecutionRefusal(input'[x]) = ""
    BY <1>0, <1>4 DEF RegisterHost, PairingIsCleared
  <1> QED  BY <1>1, <1>2, <1>3, <1>4 DEF Next

(* A call that was not executing begins to only by posting its admission. *)
LEMMA NextExecutingIsAdmitted ==
    ASSUME IInv, [Next]_vars
    PROVE  ExecutingIsAdmitted'
  <1> DEFINE Executes(p, r, x) == p[x] = "pair" \/ (p[x] = "fail" /\ r[x] \in Execution)
  <1> SUFFICES ASSUME NEW x \in Attempt, Executes(pc', reason', x)
               PROVE  HasKey(ledger', InitiatedKey(input'[x]))
    BY DEF ExecutingIsAdmitted
  <1>0. TypeInv /\ TypeOK /\ ExecutingIsAdmitted  BY DEF IInv, TypeInv
  <1>1. ASSUME Executes(pc, reason, x) PROVE HasKey(ledger', InitiatedKey(input'[x]))
    <2>1. input'[x] = input[x]  BY <1>0, <1>1, CallsKeepInput
    <2> QED  BY <1>0, <1>1, <2>1, KeysStay DEF ExecutingIsAdmitted
  <1>2. ASSUME NEW a \in Attempt, Step(a) PROVE HasKey(ledger', InitiatedKey(input'[x]))
    <2>1. ASSUME NEW in \in Input, Submit(a, in) PROVE Executes(pc, reason, x)
      BY <1>0, <2>1 DEF Submit, TypeOK
    <2>2. CASE FetchHost(a)
      <3>1. HostRefusal(hosts[input[a].host]) \notin Execution
        BY RefusalsAreTyped DEF PreAdmission, Execution
      <3>2. Executes(pc, reason, x)
        BY <1>0, <2>2, <3>1 DEF FetchHost, Continue, TypeOK
      <3> QED  BY <1>1, <3>2
    <2>3. CASE ScanReplay(a)
      <3>1. Executes(pc, reason, x)
        BY <1>0, <2>3 DEF ScanReplay, Continue, TypeOK, Execution
      <3> QED  BY <1>1, <3>1
    <2>4. CASE RecordInitiated(a)
      <3>1. CASE x = a
        <4>1. Posts(a, InitiatedKey(input[a]))
          <5>1. input[a] \in Input  BY <1>0, <2>4 DEF TypeOK, RecordInitiated
          <5>2. InitiatedKey(input[a]) \in Key  BY <5>1, KeysAreTyped DEF Reason, PreAdmission
          <5> QED  BY <2>4, <5>1, <5>2 DEF RecordInitiated, Posts
        <4>2. HasKey(ledger', InitiatedKey(input[a]))  BY <1>0, <4>1, PostedRow
        <4> QED  BY <2>4, <3>1, <4>2 DEF RecordInitiated, Continue
      <3>2. CASE x # a
        <4>1. Executes(pc, reason, x)
          BY <1>0, <2>4, <3>2 DEF RecordInitiated, Continue, TypeOK
        <4> QED  BY <1>1, <4>1
      <3> QED  BY <3>1, <3>2
    <2>5. CASE RecordPaired(a) \/ RecordFailed(a) \/ Return(a) \/ Abort(a)
      <3>1. Executes(pc, reason, x)
        BY <1>0, <2>5 DEF RecordPaired, RecordFailed, Return, Abort, Goto, TypeOK
      <3> QED  BY <1>1, <3>1
    <2> QED  BY <1>1, <1>2, <2>1, <2>2, <2>3, <2>4, <2>5 DEF Step
  <1>3. CASE UNCHANGED <<pc, reason>>  BY <1>1, <1>3
  <1>4. ASSUME NEW h \in Host, RetireHost(h) \/ \E row \in HostRow : RegisterHost(h, row)
        PROVE UNCHANGED <<pc, reason>>
    BY <1>4 DEF RetireHost, RegisterHost
  <1> QED  BY <1>2, <1>3, <1>4 DEF Next, vars

(* The answer of a call follows the insert of its outcome.                *)
LEMMA NextAnswerIsRecorded ==
    ASSUME IInv, [Next]_vars
    PROVE  AnswerIsRecorded'
  <1> DEFINE Outcome(n, r, x) == IF r[x] = "" THEN PairedKey(x, n[x]) ELSE FailedKey(n[x], r[x])
  <1> SUFFICES ASSUME NEW x \in Attempt, pc'[x] \in {"answer", "returned"}
               PROVE  HasKey(ledger', Outcome(input', reason', x))
    BY DEF AnswerIsRecorded
  <1>0. TypeInv /\ TypeOK /\ FailingHasReason /\ PairingIsCleared /\ AnswerIsRecorded
    BY DEF IInv, TypeInv
  <1>1. ASSUME pc[x] \in {"answer", "returned"}, reason'[x] = reason[x]
        PROVE  HasKey(ledger', Outcome(input', reason', x))
    <2>1. input'[x] = input[x]  BY <1>0, <1>1, CallsKeepInput
    <2>2. HasKey(ledger, Outcome(input, reason, x))  BY <1>0, <1>1 DEF AnswerIsRecorded
    <2>3. HasKey(ledger', Outcome(input, reason, x))  BY <1>0, <2>2, KeysStay
    <2> QED  BY <1>1, <2>1, <2>3
  <1>2. ASSUME NEW a \in Attempt, Step(a) PROVE HasKey(ledger', Outcome(input', reason', x))
    <2>1. ASSUME NEW in \in Input, Submit(a, in)
          PROVE  pc[x] \in {"answer", "returned"} /\ reason'[x] = reason[x]
      BY <1>0, <2>1 DEF Submit, TypeOK
    <2>2. CASE FetchHost(a) \/ ScanReplay(a) \/ RecordInitiated(a)
      <3>1. pc[x] \in {"answer", "returned"} /\ reason'[x] = reason[x]
        BY <1>0, <2>2 DEF FetchHost, ScanReplay, RecordInitiated, Continue, TypeOK
      <3> QED  BY <1>1, <3>1
    <2>3. CASE Return(a) \/ Abort(a)
      <3>1. pc[x] \in {"answer", "returned"} /\ reason'[x] = reason[x]
        BY <1>0, <2>3 DEF Return, Abort, Goto, TypeOK
      <3> QED  BY <1>1, <3>1
    <2>4. ASSUME (RecordPaired(a) /\ x = a) \/ (RecordFailed(a) /\ x = a)
          PROVE  HasKey(ledger', Outcome(input', reason', x))
      <3>1. input[a] \in Input  BY <1>0, <2>4 DEF TypeOK, RecordPaired, RecordFailed
      <3>2. UNCHANGED <<input, reason>>  BY <2>4 DEF RecordPaired, RecordFailed, Goto
      <3>3. CASE RecordPaired(a)
        <4>1. reason[a] = ""  BY <1>0, <3>3 DEF RecordPaired, PairingIsCleared
        <4>2. PairedKey(a, input[a]) \in Key  BY <3>1, KeysAreTyped DEF Reason, PreAdmission
        <4>3. Posts(a, PairedKey(a, input[a]))  BY <3>1, <3>3, <4>2 DEF RecordPaired, Posts
        <4> QED  BY <1>0, <2>4, <3>2, <4>1, <4>3, PostedRow
      <3>4. CASE RecordFailed(a)
        <4>1. reason[a] \in Reason  BY <1>0, <3>4 DEF RecordFailed, FailingHasReason
        <4>2. reason[a] # ""  BY <4>1 DEF Reason, PreAdmission, Execution
        <4>3. FailedKey(input[a], reason[a]) \in Key  BY <3>1, <4>1, KeysAreTyped
        <4>4. Posts(a, FailedKey(input[a], reason[a]))
          BY <3>1, <3>4, <4>1, <4>3 DEF RecordFailed, Posts
        <4> QED  BY <1>0, <2>4, <3>2, <4>2, <4>4, PostedRow
      <3> QED  BY <2>4, <3>3, <3>4
    <2>5. ASSUME RecordPaired(a) \/ RecordFailed(a), x # a
          PROVE  pc[x] \in {"answer", "returned"} /\ reason'[x] = reason[x]
      BY <1>0, <2>5 DEF RecordPaired, RecordFailed, Goto, TypeOK
    <2> QED  BY <1>1, <1>2, <2>1, <2>2, <2>3, <2>4, <2>5 DEF Step
  <1>3. CASE UNCHANGED <<pc, reason>>  BY <1>1, <1>3
  <1>4. ASSUME NEW h \in Host, RetireHost(h) \/ \E row \in HostRow : RegisterHost(h, row)
        PROVE UNCHANGED <<pc, reason>>
    BY <1>4 DEF RetireHost, RegisterHost
  <1> QED  BY <1>2, <1>3, <1>4 DEF Next, vars

(* Rows stay where they are, so an admission once before a row stays      *)
(* before it; and the row of a call that executes is posted at the end,   *)
(* after the admission the invariant says is there.                       *)
LEMMA NextExecutionFollowsAdmission ==
    ASSUME IInv, [Next]_vars
    PROVE  ExecutionFollowsAdmission'
  <1> DEFINE Executed(L, i) == \/ L[i].kind = "host.paired"
                               \/ L[i].kind = "host.pair_failed" /\ L[i].key[4] \in Execution
             Admits(L, n, i) == \E j \in 1..(i - 1) : L[j].key = InitiatedKey(n[L[i].by])
  <1> SUFFICES ASSUME NEW i \in DOMAIN ledger', Executed(ledger', i)
               PROVE  Admits(ledger', input', i)
    BY DEF ExecutionFollowsAdmission
  <1>0. /\ TypeInv /\ TypeOK /\ RowsComeFromCalls
        /\ ExecutingIsAdmitted /\ ExecutionFollowsAdmission
    BY DEF IInv, TypeInv
  <1>1. DOMAIN ledger = 1..Len(ledger) /\ Len(ledger) \in Nat
    <2>1. ledger \in Seq(Row)  BY <1>0 DEF TypeOK
    <2> QED  BY <2>1
  <1>2. ASSUME i \in DOMAIN ledger, IsExtension(ledger, ledger')
        PROVE  Admits(ledger', input', i)
    <2>1. ledger'[i] = ledger[i]  BY <1>2 DEF IsExtension
    <2>2. PICK j \in 1..(i - 1) : ledger[j].key = InitiatedKey(input[ledger[i].by])
      BY <1>0, <1>2, <2>1 DEF ExecutionFollowsAdmission
    <2>3. ledger'[j] = ledger[j]  BY <1>1, <1>2, <2>2 DEF IsExtension
    <2>4. ledger[i].by \in Attempt /\ pc[ledger[i].by] # "idle"
      BY <1>0, <1>2, EveryRowIsTyped DEF RowsComeFromCalls
    <2>5. input'[ledger[i].by] = input[ledger[i].by]  BY <1>0, <2>4, CallsKeepInput
    <2> QED  BY <2>1, <2>2, <2>3, <2>5
  <1>3. CASE ledger' = ledger
    <2>1. IsExtension(ledger, ledger')  BY <1>1, <1>3 DEF IsExtension
    <2> QED  BY <1>2, <1>3, <2>1
  <1>4. ASSUME NEW a \in Attempt, NEW key, Posts(a, key), i \notin DOMAIN ledger
        PROVE  Admits(ledger', input', i)
    <2>1. /\ i = Len(ledger) + 1 /\ IsExtension(ledger, ledger')
          /\ ledger'[i].by = a /\ ledger'[i].key = key /\ ledger'[i].kind = key[1]
      BY <1>0, <1>4, PostedRow
    <2>2. pc[a] = "pair" \/ (pc[a] = "fail" /\ reason[a] \in Execution)
      <3>1. input[a] \in Input  BY <1>4 DEF Posts
      <3>2. InitiatedKey(input[a])[1] = "host.pair.initiated"
        BY <3>1, KeysAreTyped DEF Reason, PreAdmission
      <3>3. pc[a] = "initiate" => key[1] = "host.pair.initiated"  BY <1>4, <3>2 DEF Posts
      <3>4. ASSUME pc[a] = "fail" PROVE reason[a] \in Execution
        <4>1. reason[a] \in Reason /\ key = FailedKey(input[a], reason[a])
          BY <1>4, <3>4 DEF Posts
        <4>2. key[1] = "host.pair_failed" /\ key[4] = reason[a]  BY <3>1, <4>1, KeysAreTyped
        <4> QED  BY <2>1, <4>2
      <3> QED  BY <1>4, <2>1, <3>3, <3>4 DEF Posts
    <2>3. PICK j \in DOMAIN ledger : ledger[j].key = InitiatedKey(input[a])
      BY <1>0, <2>2 DEF ExecutingIsAdmitted, HasKey
    <2>4. j \in 1..(i - 1) /\ ledger'[j] = ledger[j]  BY <1>1, <2>1, <2>3 DEF IsExtension
    <2>5. input'[a] = input[a]  BY <1>0, <1>4, CallsKeepInput DEF Posts
    <2> QED  BY <2>1, <2>3, <2>4, <2>5
  <1>5. ASSUME NEW a \in Attempt, NEW key, Posts(a, key) PROVE Admits(ledger', input', i)
    <2>1. IsExtension(ledger, ledger')  BY <1>0, <1>5, PostedRow
    <2> QED  BY <1>2, <1>4, <1>5, <2>1
  <1> QED  BY <1>0, <1>3, <1>5, StepPostsAtMostOneRow

-----------------------------------------------------------------------------
THEOREM Invariance == Spec => []IInv
  <1>1. IInv /\ [Next]_vars => IInv'
    <2> SUFFICES ASSUME IInv, [Next]_vars PROVE IInv'
      OBVIOUS
    <2>1. TypeInv'  BY NextTypeInv DEF IInv
    <2> QED  BY <2>1, NextRowsComeFromCalls, NextPairingIsCleared, NextExecutingIsAdmitted,
                NextAnswerIsRecorded, NextExecutionFollowsAdmission DEF IInv
  <1> QED  BY <1>1, InitIInv, PTL DEF Spec

(* Nothing is executed that was not admitted, for any number of calls     *)
(* racing for any challenges: each host.paired row and each execution     *)
(* failure has the host.pair.initiated row of its act before it.          *)
THEOREM AdmissionFirst == Spec => []ExecutionFollowsAdmission
  <1>1. IInv => ExecutionFollowsAdmission  BY DEF IInv
  <1> QED  BY <1>1, Invariance, PTL

(* A pairing a production client records had a verified signature and     *)
(* well-formed challenge and key.                                         *)
THEOREM ProductionIsVerified == Spec => []ProductionPairingIsVerified
  <1>1. IInv => ProductionPairingIsVerified
    <2> SUFFICES ASSUME IInv, NEW i \in DOMAIN ledger,
                        ledger[i].kind = "host.paired", ledger[i].mode = "production"
                 PROVE  input[ledger[i].by].signed /\ input[ledger[i].by].plausible
      BY DEF ProductionPairingIsVerified
    <2> DEFINE in == input[ledger[i].by]
    <2>1. TypeOK /\ RowsComeFromCalls  BY DEF IInv, TypeInv
    <2>2. /\ ledger[i].by \in Attempt /\ pc[ledger[i].by] # "idle"
          /\ ledger[i].key[1] = "host.paired" /\ in.mode = "production"
      BY <2>1, EveryRowIsTyped DEF RowsComeFromCalls
    <2>3. in \in Input  BY <2>1, <2>2 DEF TypeOK
    <2>4. /\ InitiatedKey(in)[1] # "host.paired"
          /\ \A code \in Reason : FailedKey(in, code)[1] # "host.paired"
      BY DEF InitiatedKey, FailedKey
    <2>5. ExecutionRefusal(in) = ""  BY <2>1, <2>2, <2>4 DEF RowsComeFromCalls
    <2> QED  BY <2>2, <2>3, <2>5 DEF ExecutionRefusal, blocks_real_sends, Input
  <1> QED  BY <1>1, Invariance, PTL

(* A call that answered has left its outcome in the ledger, even when its *)
(* own insert was answered by a conflict.                                 *)
THEOREM AnsweredIsRecorded == Spec => []ReturnedOutcomeIsRecorded
  <1>1. IInv => ReturnedOutcomeIsRecorded
    BY DEF IInv, AnswerIsRecorded, ReturnedOutcomeIsRecorded
  <1> QED  BY <1>1, Invariance, PTL

-----------------------------------------------------------------------------
(* The refinement of Pairing.  The window of the replay query matters now: *)
(* a call posts at most one host.pair.initiated row, so the query sees     *)
(* every one of them when the window has a place for every call.           *)
Initiations == {i \in DOMAIN ledger : ledger[i].kind = "host.pair.initiated"}

OneInitiation ==
    /\ \A i \in Initiations : pc[ledger[i].by] \notin {"idle", "fetch", "scan", "initiate"}
    /\ \A i, j \in Initiations : ledger[i].by = ledger[j].by => i = j

(* A call that began after its challenge was spent does not pass the      *)
(* replay check.                                                          *)
LateIsStopped ==
    \A a \in Attempt : late[a] = TRUE =>
        /\ pc[a] \notin {"idle", "initiate", "pair"}
        /\ pc[a] \in {"fetch", "scan"} => HasKey(ledger, InitiatedKey(input[a]))

PInv == OneInitiation /\ LateIsStopped

(* The key of a row says its kind.                                        *)
LEMMA InitiatedRows ==
    ASSUME IInv, NEW in, HasKey(ledger, InitiatedKey(in))
    PROVE  \E i \in Initiations : ledger[i].key = InitiatedKey(in)
  <1>1. PICK i \in DOMAIN ledger : ledger[i].key = InitiatedKey(in)  BY DEF HasKey
  <1>2. ledger[i].kind = ledger[i].key[1]  BY DEF IInv, RowsComeFromCalls
  <1>3. ledger[i].kind = "host.pair.initiated"  BY <1>1, <1>2 DEF InitiatedKey
  <1> QED  BY <1>1, <1>3 DEF Initiations

LEMMA WindowShowsAll ==
    ASSUME IInv, OneInitiation, IsFiniteSet(Attempt), Cardinality(Attempt) <= ReplayWindow
    PROVE  Latest(ledger, "host.pair.initiated", ReplayWindow) = Initiations
  <1> DEFINE f == [i \in Initiations |-> ledger[i].by]
  <1>0. TypeOK  BY DEF IInv, TypeInv
  <1>1. \A i \in Initiations : ledger[i].by \in Attempt
    BY <1>0, EveryRowIsTyped DEF Initiations
  <1>2. \A i, j \in DOMAIN f : f[i] = f[j] => i = j  BY DEF OneInitiation
  <1>3. f \in Injection(Initiations, Attempt)
    <2>1. f \in [Initiations -> Attempt]  BY <1>1
    <2> QED  BY <1>2, <2>1 DEF Injection, IsInjective
  <1> HIDE DEF f
  <1>4. IsFiniteSet(Initiations) /\ Cardinality(Initiations) <= Cardinality(Attempt)
    BY <1>3, FS_Injection
  <1>5. ASSUME NEW i \in Initiations PROVE Cardinality({j \in Initiations : j > i}) < ReplayWindow
    <2> DEFINE After == {j \in Initiations : j > i}
    <2>1. After \in SUBSET Initiations  OBVIOUS
    <2>2. i \notin After
      <3>1. ledger \in Seq(Row)  BY <1>0 DEF TypeOK
      <3>2. i \in Nat  BY <3>1 DEF Initiations
      <3> QED  BY <3>2
    <2> HIDE DEF After
    <2>3. Cardinality(After) <= Cardinality(Initiations) /\ Cardinality(After) # Cardinality(Initiations)
      BY <1>4, <2>1, <2>2, FS_Subset
    <2>4. Cardinality(After) \in Nat /\ Cardinality(Initiations) \in Nat /\ Cardinality(Attempt) \in Nat
      BY <1>4, <2>1, FS_Subset, FS_CardinalityType
    <2>5. Cardinality(After) < ReplayWindow
      BY <1>4, <2>3, <2>4, ReplayWindowAssumption
    <2> QED  BY <2>5 DEF After
  <1> QED  BY <1>5 DEF Latest, Initiations

LEMMA InitPInv == Init => PInv
  <1> SUFFICES ASSUME Init PROVE PInv
    OBVIOUS
  <1>1. DOMAIN ledger = {}
    <2>1. ledger \in Seq(Row) /\ Len(ledger) = 0  BY EmptySeq DEF Init
    <2> QED  BY <2>1
  <1>2. late = [a \in Attempt |-> FALSE]  BY DEF Init
  <1> QED  BY <1>1, <1>2 DEF PInv, OneInitiation, Initiations, LateIsStopped

(* A call on its way does not go back to where it could post an           *)
(* initiation once more.                                                  *)
LEMMA CallsGoOn ==
    ASSUME [Next]_vars, TypeOK, NEW x \in Attempt,
           pc[x] \notin {"idle", "fetch", "scan", "initiate"}
    PROVE  pc'[x] \notin {"idle", "fetch", "scan", "initiate"}
  <1>1. CASE UNCHANGED vars  BY <1>1 DEF vars
  <1>2. ASSUME NEW a \in Attempt, Step(a) PROVE pc'[x] \notin {"idle", "fetch", "scan", "initiate"}
    <2>1. CASE (\E in \in Input : Submit(a, in)) \/ FetchHost(a) \/ ScanReplay(a)
      BY <2>1 DEF Submit, FetchHost, ScanReplay, Continue, TypeOK
    <2>2. CASE RecordInitiated(a)  BY <2>2 DEF RecordInitiated, Continue, TypeOK
    <2>3. CASE RecordPaired(a) \/ RecordFailed(a) \/ Return(a) \/ Abort(a)
      BY <2>3 DEF RecordPaired, RecordFailed, Return, Abort, Goto, TypeOK
    <2> QED  BY <1>2, <2>1, <2>2, <2>3 DEF Step
  <1>3. CASE \E h \in Host : RetireHost(h) \/ \E row \in HostRow : RegisterHost(h, row)
    BY <1>3 DEF RetireHost, RegisterHost
  <1> QED  BY <1>1, <1>2, <1>3 DEF Next

(* The three inserts, and what they leave of the initiations.             *)
LEMMA StepPosts ==
    ASSUME TypeInv, NEW a \in Attempt
    PROVE  /\ RecordInitiated(a) => Posts(a, InitiatedKey(input[a]))
           /\ RecordPaired(a) => Posts(a, PairedKey(a, input[a]))
           /\ RecordFailed(a) => Posts(a, FailedKey(input[a], reason[a]))
  <1>0. pc[a] # "idle" => input[a] \in Input  BY DEF TypeInv, TypeOK
  <1>1. RecordInitiated(a) => Posts(a, InitiatedKey(input[a]))
    BY <1>0, KeysAreTyped DEF RecordInitiated, Posts, Reason, PreAdmission
  <1>2. RecordPaired(a) => Posts(a, PairedKey(a, input[a]))
    BY <1>0, KeysAreTyped DEF RecordPaired, Posts, Reason, PreAdmission
  <1>3. ASSUME RecordFailed(a) PROVE Posts(a, FailedKey(input[a], reason[a]))
    <2>1. reason[a] \in Reason  BY <1>3 DEF RecordFailed, TypeInv, FailingHasReason
    <2> QED  BY <1>0, <1>3, <2>1, KeysAreTyped DEF RecordFailed, Posts
  <1> QED  BY <1>1, <1>2, <1>3

LEMMA PostedRows ==
    ASSUME IInv, NEW a \in Attempt, NEW key, Posts(a, key)
    PROVE  /\ DOMAIN ledger = 1..Len(ledger) /\ Len(ledger) \in Nat
           /\ \A i \in DOMAIN ledger : i \in DOMAIN ledger' /\ ledger'[i] = ledger[i]
           /\ \A i \in DOMAIN ledger' : i \in DOMAIN ledger \/ (i = Len(ledger) + 1 /\ ledger'[i] = LedgerRow(a, key))
           /\ LedgerRow(a, key).by = a /\ LedgerRow(a, key).key = key
           /\ LedgerRow(a, key).kind = key[1]
           /\ HasKey(ledger', key)
           /\ \A k : HasKey(ledger, k) => HasKey(ledger', k)
  <1>0. TypeInv /\ TypeOK  BY DEF IInv, TypeInv
  <1>1. ledger \in Seq(Row)  BY <1>0 DEF TypeOK
  <1>2. LedgerRow(a, key) \in Row
    <2>1. PICK code : code \in Reason /\ (pc[a] = "fail" => code = reason[a])
      BY DEF Posts, Reason, PreAdmission
    <2>2. key[1] \in {"host.pair.initiated", "host.paired", "host.pair_failed"}
      BY <2>1, KeysAreTyped DEF Posts
    <2> QED  BY <1>0, <2>2, RowsAreTyped DEF Posts
  <1>3. ledger' = InsertLedgerRow(ledger, LedgerRow(a, key))  BY DEF Posts, Insert
  <1>4. ledger' \in Seq(Row)  BY <1>1, <1>2, <1>3, InsertExtends
  <1>5. DOMAIN ledger = 1..Len(ledger) /\ Len(ledger) \in Nat
        /\ DOMAIN ledger' = 1..Len(ledger') /\ Len(ledger') \in Nat
    BY <1>1, <1>4
  <1>6. IsExtension(ledger, ledger')  BY <1>0, PostedRow
  <1>7. \A i \in DOMAIN ledger : i \in DOMAIN ledger' /\ ledger'[i] = ledger[i]
    BY <1>5, <1>6 DEF IsExtension
  <1> QED  BY <1>0, <1>5, <1>7, PostedRow

(* A step of a call that posts no initiation.                             *)
NoInitiation ==
    /\ \A i \in DOMAIN ledger : i \in DOMAIN ledger' /\ ledger'[i] = ledger[i]
    /\ Initiations' = Initiations
    /\ \A k : HasKey(ledger, k) => HasKey(ledger', k)

LEMMA OthersInitiateNothing ==
    ASSUME IInv, NEW a \in Attempt, NEW key, Posts(a, key), key[1] # "host.pair.initiated"
    PROVE  NoInitiation
  <1>1. \A i \in DOMAIN ledger : i \in DOMAIN ledger' /\ ledger'[i] = ledger[i]  BY PostedRows
  <1>2. \A i \in DOMAIN ledger' : i \in DOMAIN ledger \/ ledger'[i].kind # "host.pair.initiated"
    BY PostedRows
  <1>3. \A k : HasKey(ledger, k) => HasKey(ledger', k)  BY PostedRows
  <1>4. Initiations' = Initiations  BY <1>1, <1>2 DEF Initiations
  <1> QED  BY <1>1, <1>3, <1>4 DEF NoInitiation

LEMMA NoInitiationKeepsOne ==
    ASSUME IInv, OneInitiation, [Next]_vars, NoInitiation PROVE OneInitiation'
  <1>0. TypeOK  BY DEF IInv, TypeInv
  <1>1. \A i \in Initiations : ledger'[i] = ledger[i] /\ ledger[i].by \in Attempt
    BY <1>0, EveryRowIsTyped DEF NoInitiation, Initiations
  <1>2. \A i \in Initiations : pc'[ledger[i].by] \notin {"idle", "fetch", "scan", "initiate"}
    BY <1>0, <1>1, CallsGoOn DEF OneInitiation
  <1>3. Initiations' = Initiations  BY DEF NoInitiation
  <1> QED  BY <1>1, <1>2, <1>3 DEF OneInitiation

LEMMA InitiationKeepsOne ==
    ASSUME IInv, OneInitiation, [Next]_vars, NEW a \in Attempt, RecordInitiated(a)
    PROVE  OneInitiation'
  <1>0. TypeOK /\ TypeInv  BY DEF IInv, TypeInv
  <1>1. Posts(a, InitiatedKey(input[a]))  BY <1>0, StepPosts
  <1>2. /\ \A i \in DOMAIN ledger : i \in DOMAIN ledger' /\ ledger'[i] = ledger[i]
        /\ \A i \in DOMAIN ledger' : i \in DOMAIN ledger \/ (i = Len(ledger) + 1 /\ ledger'[i].by = a)
    BY <1>1, PostedRows
  <1>3. pc'[a] \notin {"idle", "fetch", "scan", "initiate"}
    BY <1>0 DEF RecordInitiated, Continue, TypeOK
  <1>4. ASSUME NEW i \in Initiations', i \in DOMAIN ledger
        PROVE  /\ i \in Initiations /\ ledger'[i] = ledger[i] /\ ledger[i].by \in Attempt \ {a}
               /\ pc'[ledger'[i].by] \notin {"idle", "fetch", "scan", "initiate"}
    <2>1. i \in Initiations /\ ledger'[i] = ledger[i]  BY <1>2, <1>4 DEF Initiations
    <2>2. ledger[i].by \in Attempt  BY <1>0, <1>4, EveryRowIsTyped
    <2>3. pc[a] = "initiate"  BY DEF RecordInitiated
    <2>4. pc[ledger[i].by] \notin {"idle", "fetch", "scan", "initiate"}  BY <2>1 DEF OneInitiation
    <2>5. pc'[ledger[i].by] \notin {"idle", "fetch", "scan", "initiate"}  BY <1>0, <2>2, <2>4, CallsGoOn
    <2> QED  BY <2>1, <2>2, <2>3, <2>4, <2>5
  <1>5. \A i \in Initiations' : i \in DOMAIN ledger \/ (i = Len(ledger) + 1 /\ ledger'[i].by = a)
    BY <1>2 DEF Initiations
  <1>6. \A i \in Initiations' : pc'[ledger'[i].by] \notin {"idle", "fetch", "scan", "initiate"}
    BY <1>3, <1>4, <1>5
  <1>7. \A i, j \in Initiations' : ledger'[i].by = ledger'[j].by => i = j
    <2> SUFFICES ASSUME NEW i \in Initiations', NEW j \in Initiations', ledger'[i].by = ledger'[j].by
                 PROVE  i = j
      OBVIOUS
    <2>1. CASE i \in DOMAIN ledger /\ j \in DOMAIN ledger  BY <1>4, <2>1 DEF OneInitiation
    <2>2. CASE i \in DOMAIN ledger /\ j \notin DOMAIN ledger  BY <1>4, <1>5, <2>2
    <2>3. CASE i \notin DOMAIN ledger /\ j \in DOMAIN ledger  BY <1>4, <1>5, <2>3
    <2>4. CASE i \notin DOMAIN ledger /\ j \notin DOMAIN ledger  BY <1>5, <2>4
    <2> QED  BY <2>1, <2>2, <2>3, <2>4
  <1> QED  BY <1>6, <1>7 DEF OneInitiation

-----------------------------------------------------------------------------
(* The state of Pairing, read off the ledger.                             *)
Nonces == [a \in Attempt |-> IF pc[a] = "idle" THEN NoKey ELSE InitiatedKey(input[a])]
Spent == {ledger[i].key : i \in {j \in DOMAIN ledger : ledger[j].kind = "host.pair.initiated"}}
Barred == {a \in Attempt : late[a]}
Paired == {ledger[i].by : i \in {j \in DOMAIN ledger : ledger[j].kind = "host.paired"}}

(* Steps of Pairing in these terms.                                       *)
LEMMA Stutters ==
    ASSUME Nonces' = Nonces, Spent' = Spent, Barred' = Barred, Paired' = Paired
    PROVE  [Promise!Next]_(Promise!vars)
  BY DEF Nonces, Spent, Barred, Paired, Promise!vars

LEMMA Begins ==
    ASSUME NEW a \in Attempt, NEW n \in {"host.pair.initiated"} \X Host \X Challenge,
           Nonces[a] = NoKey, Nonces' = [Nonces EXCEPT ![a] = n],
           Barred' = IF n \in Spent THEN Barred \cup {a} ELSE Barred,
           Spent' = Spent, Paired' = Paired
    PROVE  [Promise!Next]_(Promise!vars)
  <1>1. Promise!Begin(a, n)  BY DEF Promise!Begin, Nonces, Spent, Barred, Paired
  <1> QED  BY <1>1 DEF Promise!Next

LEMMA Spends ==
    ASSUME NEW a \in Attempt, Nonces[a] # NoKey, a \notin Barred,
           Spent' = Spent \cup {Nonces[a]},
           Nonces' = Nonces, Barred' = Barred, Paired' = Paired
    PROVE  [Promise!Next]_(Promise!vars)
  <1>1. Promise!Spend(a)  BY DEF Promise!Spend, Nonces, Spent, Barred, Paired
  <1> QED  BY <1>1 DEF Promise!Next

LEMMA Pairs ==
    ASSUME NEW a \in Attempt, Nonces[a] \in Spent, a \notin Barred,
           Paired' = Paired \cup {a},
           Nonces' = Nonces, Barred' = Barred, Spent' = Spent
    PROVE  [Promise!Next]_(Promise!vars)
  <1>1. Promise!Pair(a)  BY DEF Promise!Pair, Nonces, Spent, Barred, Paired
  <1> QED  BY <1>1 DEF Promise!Next

(* What an insert spends and pairs, a conflict included: the row that was  *)
(* there says the same.                                                   *)
LEMMA PostSpends ==
    ASSUME IInv, IInv', NEW a \in Attempt, NEW key, Posts(a, key)
    PROVE  /\ key[1] = "host.pair.initiated" => Spent' = Spent \cup {key}
           /\ key[1] # "host.pair.initiated" => Spent' = Spent
           /\ key = PairedKey(a, input[a]) => Paired' = Paired \cup {a}
           /\ key[1] # "host.paired" => Paired' = Paired
  <1>1. /\ \A i \in DOMAIN ledger : i \in DOMAIN ledger' /\ ledger'[i] = ledger[i]
        /\ \A i \in DOMAIN ledger' : i \in DOMAIN ledger
              \/ (ledger'[i].by = a /\ ledger'[i].key = key /\ ledger'[i].kind = key[1])
        /\ HasKey(ledger', key)
    BY PostedRows
  <1>2. PICK k \in DOMAIN ledger' : ledger'[k].key = key  BY <1>1 DEF HasKey
  <1>3. /\ ledger'[k].kind = key[1]
        /\ \/ key = InitiatedKey(input'[ledger'[k].by])
           \/ key = PairedKey(ledger'[k].by, input'[ledger'[k].by])
           \/ \E code \in Reason : key = FailedKey(input'[ledger'[k].by], code)
    BY <1>2 DEF IInv, RowsComeFromCalls
  <1>4. CASE key[1] = "host.pair.initiated"
    <2>1. Spent' = Spent \cup {key}  BY <1>1, <1>2, <1>3, <1>4 DEF Spent
    <2>2. Paired' = Paired  BY <1>1, <1>4 DEF Paired
    <2>3. key # PairedKey(a, input[a])  BY <1>4 DEF PairedKey
    <2> QED  BY <1>4, <2>1, <2>2, <2>3
  <1>5. CASE key = PairedKey(a, input[a])
    <2>1. key[1] = "host.paired" /\ key[3] = a  BY <1>5 DEF PairedKey
    <2>2. ledger'[k].by = a  BY <1>3, <2>1 DEF PairedKey, InitiatedKey, FailedKey
    <2>3. Paired' = Paired \cup {a}  BY <1>1, <1>3, <2>1, <2>2 DEF Paired
    <2>4. Spent' = Spent  BY <1>1, <2>1 DEF Spent
    <2> QED  BY <2>1, <2>3, <2>4
  <1>6. CASE key[1] # "host.pair.initiated" /\ key # PairedKey(a, input[a])
    <2>1. Spent' = Spent  BY <1>1, <1>6 DEF Spent
    <2>2. key[1] # "host.paired" => Paired' = Paired  BY <1>1 DEF Paired
    <2> QED  BY <1>6, <2>1, <2>2
  <1> QED  BY <1>4, <1>5, <1>6

LEMMA QuietTables ==
    ASSUME ledger' = ledger PROVE Spent' = Spent /\ Paired' = Paired
  BY DEF Spent, Paired

(* A call that is under way stays for what it is for.                     *)
LEMMA QuietCalls ==
    ASSUME input' = input, late' = late,
           \A x \in Attempt : pc'[x] = "idle" <=> pc[x] = "idle"
    PROVE  Nonces' = Nonces /\ Barred' = Barred
  <1>1. Barred' = Barred  BY DEF Barred
  <1>2. \A x \in Attempt : (IF pc[x] = "idle" THEN NoKey ELSE InitiatedKey(input[x]))'
                           = IF pc[x] = "idle" THEN NoKey ELSE InitiatedKey(input[x])
    BY DEF InitiatedKey
  <1>3. Nonces' = Nonces  BY <1>2 DEF Nonces
  <1> QED  BY <1>1, <1>3

LEMMA AwaitsAreLeft ==
    ASSUME TypeOK, NEW a \in Attempt,
           FetchHost(a) \/ ScanReplay(a) \/ RecordInitiated(a)
              \/ RecordPaired(a) \/ RecordFailed(a) \/ Return(a) \/ Abort(a)
    PROVE  /\ input' = input /\ late' = late
           /\ pc[a] # "idle" /\ \A x \in Attempt : pc'[x] = "idle" <=> pc[x] = "idle"
           /\ \A x \in Attempt \ {a} : pc'[x] = pc[x]
  <1>1. CASE FetchHost(a) \/ ScanReplay(a) \/ RecordInitiated(a)
    BY <1>1 DEF FetchHost, ScanReplay, RecordInitiated, Continue, TypeOK
  <1>2. CASE RecordPaired(a) \/ RecordFailed(a) \/ Return(a) \/ Abort(a)
    BY <1>2 DEF RecordPaired, RecordFailed, Return, Abort, Goto, TypeOK
  <1> QED  BY <1>1, <1>2

(* A nonce is spent when its row exists.                                  *)
LEMMA SpentIsPosted ==
    ASSUME IInv, NEW in PROVE InitiatedKey(in) \in Spent <=> HasKey(ledger, InitiatedKey(in))
  <1>1. ASSUME HasKey(ledger, InitiatedKey(in)) PROVE InitiatedKey(in) \in Spent
    BY <1>1, InitiatedRows DEF Initiations, Spent
  <1>2. ASSUME InitiatedKey(in) \in Spent PROVE HasKey(ledger, InitiatedKey(in))
    BY <1>2 DEF Spent, HasKey
  <1> QED  BY <1>1, <1>2

LEMMA SubmitBegins ==
    ASSUME IInv, PInv, NEW a \in Attempt, NEW in \in Input, Submit(a, in)
    PROVE  [Promise!Next]_(Promise!vars)
  <1>1. PICK n : n = InitiatedKey(in)  OBVIOUS
  <1>2. PICK answer \in BOOLEAN : answer = HasKey(ledger, n)  BY DEF HasKey
  <1>3. /\ pc[a] = "idle" /\ pc' = [pc EXCEPT ![a] = "fetch"] /\ input' = [input EXCEPT ![a] = in]
        /\ late' = [late EXCEPT ![a] = answer] /\ ledger' = ledger
    BY <1>1, <1>2 DEF Submit
  <1>4. /\ pc \in [Attempt -> Pc] /\ input \in [Attempt -> Input \cup {NoInput}]
        /\ late \in [Attempt -> BOOLEAN]
    BY DEF IInv, TypeInv, TypeOK
  <1>5. /\ pc'[a] # "idle" /\ input'[a] = in /\ late'[a] = answer
        /\ \A x \in Attempt \ {a} : pc'[x] = pc[x] /\ input'[x] = input[x] /\ late'[x] = late[x]
    BY <1>3, <1>4
  <1>6. n \in {"host.pair.initiated"} \X Host \X Challenge  BY <1>1 DEF InitiatedKey, Input
  <1>7. Nonces' = [Nonces EXCEPT ![a] = n] /\ Nonces[a] = NoKey
    <2>1. Nonces[a] = NoKey  BY <1>3 DEF Nonces
    <2>2. \A x \in Attempt : Nonces'[x] = IF x = a THEN n ELSE Nonces[x]
      BY <1>1, <1>5 DEF Nonces, InitiatedKey
    <2>3. DOMAIN Nonces' = Attempt /\ DOMAIN Nonces = Attempt
          /\ Nonces' = [x \in Attempt |-> Nonces'[x]]
      BY DEF Nonces
    <2>4. Nonces' = [x \in Attempt |-> IF x = a THEN n ELSE Nonces[x]]  BY <2>2, <2>3
    <2> QED  BY <2>1, <2>3, <2>4
  <1>8. late[a] = FALSE  BY <1>3, <1>4 DEF PInv, LateIsStopped
  <1>9. answer <=> n \in Spent  BY <1>1, <1>2, SpentIsPosted
  <1>10. Barred' = IF n \in Spent THEN Barred \cup {a} ELSE Barred
    <2>1. CASE answer = TRUE  BY <1>5, <1>8, <1>9, <2>1 DEF Barred
    <2>2. CASE answer = FALSE  BY <1>5, <1>8, <1>9, <2>2 DEF Barred
    <2> QED  BY <1>2, <2>1, <2>2
  <1> QED  BY <1>3, <1>6, <1>7, <1>10, QuietTables, Begins

LEMMA NextPromise ==
    ASSUME IInv, IInv', PInv, [Next]_vars
    PROVE  [Promise!Next]_(Promise!vars)
  <1>0. TypeInv /\ TypeOK  BY DEF IInv, TypeInv
  <1>1. CASE UNCHANGED vars
    <2>1. ledger' = ledger /\ pc' = pc /\ input' = input /\ late' = late  BY <1>1 DEF vars
    <2> QED  BY <2>1, QuietTables, QuietCalls, Stutters
  <1>2. ASSUME NEW a \in Attempt, Step(a) PROVE [Promise!Next]_(Promise!vars)
    <2>1. CASE \E in \in Input : Submit(a, in)  BY <2>1, SubmitBegins
    <2>2. CASE FetchHost(a) \/ ScanReplay(a) \/ Return(a) \/ Abort(a)
      <3>1. ledger' = ledger  BY <2>2 DEF FetchHost, ScanReplay, Return, Abort
      <3>2. /\ input' = input /\ late' = late
            /\ \A x \in Attempt : pc'[x] = "idle" <=> pc[x] = "idle"
        BY <1>0, <2>2, AwaitsAreLeft
      <3> QED  BY <3>1, <3>2, QuietTables, QuietCalls, Stutters
    <2>3. CASE RecordInitiated(a)
      <3>1. Posts(a, InitiatedKey(input[a]))  BY <1>0, <2>3, StepPosts
      <3>2. Nonces' = Nonces /\ Barred' = Barred  BY <1>0, <2>3, AwaitsAreLeft, QuietCalls
      <3>3. InitiatedKey(input[a])[1] = "host.pair.initiated"  BY DEF InitiatedKey
      <3>4. Spent' = Spent \cup {InitiatedKey(input[a])} /\ Paired' = Paired
        BY <3>1, <3>3, PostSpends
      <3>5. Nonces[a] = InitiatedKey(input[a]) /\ Nonces[a] # NoKey
        BY <2>3 DEF RecordInitiated, Nonces, InitiatedKey, NoKey
      <3>6. a \notin Barred
        <4>1. late[a] \in BOOLEAN  BY <1>0 DEF TypeOK
        <4> QED  BY <2>3, <4>1 DEF RecordInitiated, PInv, LateIsStopped, Barred
      <3> QED  BY <3>2, <3>4, <3>5, <3>6, Spends
    <2>4. CASE RecordPaired(a)
      <3>1. Posts(a, PairedKey(a, input[a]))  BY <1>0, <2>4, StepPosts
      <3>2. Nonces' = Nonces /\ Barred' = Barred  BY <1>0, <2>4, AwaitsAreLeft, QuietCalls
      <3>3. PairedKey(a, input[a])[1] # "host.pair.initiated"  BY DEF PairedKey
      <3>4. Spent' = Spent /\ Paired' = Paired \cup {a}  BY <3>1, <3>3, PostSpends
      <3>5. Nonces[a] = InitiatedKey(input[a])  BY <2>4 DEF RecordPaired, Nonces
      <3>6. HasKey(ledger, InitiatedKey(input[a]))
        BY <2>4 DEF RecordPaired, IInv, ExecutingIsAdmitted
      <3>7. Nonces[a] \in Spent  BY <3>5, <3>6, SpentIsPosted
      <3>8. a \notin Barred
        <4>1. late[a] \in BOOLEAN  BY <1>0 DEF TypeOK
        <4> QED  BY <2>4, <4>1 DEF RecordPaired, PInv, LateIsStopped, Barred
      <3> QED  BY <3>2, <3>4, <3>7, <3>8, Pairs
    <2>5. CASE RecordFailed(a)
      <3>1. Posts(a, FailedKey(input[a], reason[a]))  BY <1>0, <2>5, StepPosts
      <3>2. Nonces' = Nonces /\ Barred' = Barred  BY <1>0, <2>5, AwaitsAreLeft, QuietCalls
      <3>3. FailedKey(input[a], reason[a])[1] \notin {"host.pair.initiated", "host.paired"}
        BY DEF FailedKey
      <3>4. Spent' = Spent /\ Paired' = Paired  BY <3>1, <3>3, PostSpends
      <3> QED  BY <3>2, <3>4, Stutters
    <2> QED  BY <1>2, <2>1, <2>2, <2>3, <2>4, <2>5 DEF Step
  <1>3. CASE \E h \in Host : RetireHost(h) \/ \E row \in HostRow : RegisterHost(h, row)
    <2>1. ledger' = ledger /\ pc' = pc /\ input' = input /\ late' = late
      BY <1>3 DEF RetireHost, RegisterHost
    <2> QED  BY <2>1, QuietTables, QuietCalls, Stutters
  <1> QED  BY <1>1, <1>2, <1>3 DEF Next

LEMMA InitPromise == Init => Promise!Init
  <1> SUFFICES ASSUME Init PROVE Promise!Init
    OBVIOUS
  <1>1. DOMAIN ledger = {}
    <2>1. ledger \in Seq(Row) /\ Len(ledger) = 0  BY EmptySeq DEF Init
    <2> QED  BY <2>1
  <1>2. pc = [a \in Attempt |-> "idle"] /\ late = [a \in Attempt |-> FALSE]  BY DEF Init
  <1> QED  BY <1>1, <1>2 DEF Promise!Init

-----------------------------------------------------------------------------
LEMMA NextOneInitiation ==
    ASSUME IInv, OneInitiation, [Next]_vars PROVE OneInitiation'
  <1>0. TypeInv  BY DEF IInv
  <1>1. ASSUME ledger' = ledger PROVE OneInitiation'
    <2>1. NoInitiation  BY <1>1 DEF NoInitiation, Initiations, HasKey
    <2> QED  BY <2>1, NoInitiationKeepsOne
  <1>2. ASSUME NEW a \in Attempt, Step(a) PROVE OneInitiation'
    <2>1. CASE (\E in \in Input : Submit(a, in)) \/ FetchHost(a) \/ ScanReplay(a) \/ Return(a) \/ Abort(a)
      BY <1>1, <2>1 DEF Submit, FetchHost, ScanReplay, Return, Abort
    <2>2. CASE RecordInitiated(a)  BY <2>2, InitiationKeepsOne
    <2>3. CASE RecordPaired(a)
      <3>1. Posts(a, PairedKey(a, input[a]))  BY <1>0, <2>3, StepPosts
      <3>2. PairedKey(a, input[a])[1] # "host.pair.initiated"  BY DEF PairedKey
      <3> QED  BY <3>1, <3>2, OthersInitiateNothing, NoInitiationKeepsOne
    <2>4. CASE RecordFailed(a)
      <3>1. Posts(a, FailedKey(input[a], reason[a]))  BY <1>0, <2>4, StepPosts
      <3>2. FailedKey(input[a], reason[a])[1] # "host.pair.initiated"  BY DEF FailedKey
      <3> QED  BY <3>1, <3>2, OthersInitiateNothing, NoInitiationKeepsOne
    <2> QED  BY <1>2, <2>1, <2>2, <2>3, <2>4 DEF Step
  <1>3. CASE UNCHANGED vars  BY <1>1, <1>3 DEF vars
  <1>4. CASE \E h \in Host : RetireHost(h) \/ \E row \in HostRow : RegisterHost(h, row)
    BY <1>1, <1>4 DEF RetireHost, RegisterHost
  <1> QED  BY <1>2, <1>3, <1>4 DEF Next

(* What LateIsStopped says of one call.                                   *)
StoppedIfLate(x) ==
    late[x] = TRUE =>
        /\ pc[x] \notin {"idle", "initiate", "pair"}
        /\ pc[x] \in {"fetch", "scan"} => HasKey(ledger, InitiatedKey(input[x]))

(* A call nobody moves, or that moves on with no new await to answer for. *)
LEMMA StaysStopped ==
    ASSUME IInv, [Next]_vars, NEW x \in Attempt, StoppedIfLate(x),
           late'[x] = late[x], input'[x] = input[x],
           pc'[x] = pc[x] \/ pc'[x] \in {"fail", "answer", "returned", "aborted"}
                          \/ (pc[x] = "fetch" /\ pc'[x] = "scan")
    PROVE  StoppedIfLate(x)'
  <1>1. HasKey(ledger, InitiatedKey(input[x])) => HasKey(ledger', InitiatedKey(input[x]))
    BY KeysStay DEF IInv
  <1>2. InitiatedKey(input[x])' = InitiatedKey(input[x])  BY DEF InitiatedKey
  <1> QED  BY <1>1, <1>2 DEF StoppedIfLate

LEMMA NextLateIsStopped ==
    ASSUME IInv, PInv, [Next]_vars, IsFiniteSet(Attempt), Cardinality(Attempt) <= ReplayWindow
    PROVE  LateIsStopped'
  <1> SUFFICES ASSUME NEW x \in Attempt PROVE StoppedIfLate(x)'
    BY DEF LateIsStopped, StoppedIfLate
  <1>0. TypeInv /\ TypeOK /\ StoppedIfLate(x)
    BY DEF IInv, TypeInv, PInv, LateIsStopped, StoppedIfLate
  <1>1. ASSUME late' = late, input' = input, pc' = pc PROVE StoppedIfLate(x)'
    BY <1>0, <1>1, StaysStopped
  <1>2. ASSUME NEW a \in Attempt, Step(a) PROVE StoppedIfLate(x)'
    <2>1. ASSUME NEW in \in Input, Submit(a, in) PROVE StoppedIfLate(x)'
      <3>1. PICK answer \in BOOLEAN : answer = HasKey(ledger, InitiatedKey(in))  BY DEF HasKey
      <3>2. /\ pc' = [pc EXCEPT ![a] = "fetch"] /\ input' = [input EXCEPT ![a] = in]
            /\ late' = [late EXCEPT ![a] = answer] /\ ledger' = ledger
        BY <2>1, <3>1 DEF Submit
      <3>3. /\ pc'[a] = "fetch" /\ input'[a] = in /\ late'[a] = answer
            /\ x # a => pc'[x] = pc[x] /\ input'[x] = input[x] /\ late'[x] = late[x]
        BY <1>0, <3>2 DEF TypeOK
      <3>4. CASE x = a
        <4>1. late'[a] = TRUE => HasKey(ledger', InitiatedKey(in))  BY <3>1, <3>2, <3>3
        <4>2. InitiatedKey(input[a])' = InitiatedKey(in)  BY <3>3 DEF InitiatedKey
        <4> QED  BY <3>3, <3>4, <4>1, <4>2 DEF StoppedIfLate
      <3> QED  BY <1>0, <3>3, <3>4, StaysStopped
    <2>2. ASSUME x # a, ~(\E in \in Input : Submit(a, in)) PROVE StoppedIfLate(x)'
      <3>1. pc'[x] = pc[x] /\ input'[x] = input[x] /\ late'[x] = late[x]
        BY <1>0, <1>2, <2>2, AwaitsAreLeft DEF Step
      <3> QED  BY <1>0, <3>1, StaysStopped
    <2>3. CASE x = a /\ FetchHost(a)
      <3>1. pc[a] = "fetch" /\ pc'[a] \in {"scan", "fail"} /\ input'[a] = input[a] /\ late'[a] = late[a]
        BY <1>0, <2>3 DEF FetchHost, Continue, TypeOK
      <3> QED  BY <1>0, <2>3, <3>1, StaysStopped
    <2>4. CASE x = a /\ ScanReplay(a)
      <3>1. pc[a] = "scan" /\ input'[a] = input[a] /\ late'[a] = late[a]
        BY <2>4 DEF ScanReplay, Continue
      <3>2. PriorInitiatedExists(input[a]) => pc'[a] = "fail"
        BY <1>0, <2>4 DEF ScanReplay, Continue, TypeOK
      <3>3. pc'[a] \in {"initiate", "fail"}  BY <1>0, <2>4 DEF ScanReplay, Continue, TypeOK
      <3>4. ASSUME late[a] = TRUE PROVE pc'[a] = "fail"
        <4>1. HasKey(ledger, InitiatedKey(input[a]))  BY <1>0, <2>4, <3>1, <3>4 DEF StoppedIfLate
        <4>2. PICK i \in Initiations : ledger[i].key = InitiatedKey(input[a])
          BY <4>1, InitiatedRows
        <4>3. i \in Latest(ledger, "host.pair.initiated", ReplayWindow)
          BY WindowShowsAll DEF PInv
        <4> QED  BY <3>2, <4>2, <4>3 DEF PriorInitiatedExists
      <3>5. CASE late[a] = TRUE  BY <1>0, <2>4, <3>1, <3>4, <3>5, StaysStopped
      <3>6. CASE late[a] # TRUE  BY <2>4, <3>1, <3>6 DEF StoppedIfLate
      <3> QED  BY <3>5, <3>6
    <2>5. CASE x = a /\ RecordInitiated(a)
      <3>1. pc[a] = "initiate" /\ late'[a] = late[a]  BY <2>5 DEF RecordInitiated, Continue
      <3> QED  BY <1>0, <2>5, <3>1 DEF StoppedIfLate
    <2>6. CASE x = a /\ (RecordPaired(a) \/ RecordFailed(a) \/ Return(a) \/ Abort(a))
      <3>1. pc'[a] \in {"answer", "returned", "aborted"} /\ input'[a] = input[a] /\ late'[a] = late[a]
        BY <1>0, <2>6 DEF RecordPaired, RecordFailed, Return, Abort, Goto, TypeOK
      <3> QED  BY <1>0, <2>6, <3>1, StaysStopped
    <2> QED  BY <1>2, <2>1, <2>2, <2>3, <2>4, <2>5, <2>6 DEF Step
  <1>3. CASE UNCHANGED vars  BY <1>1, <1>3 DEF vars
  <1>4. CASE \E h \in Host : RetireHost(h) \/ \E row \in HostRow : RegisterHost(h, row)
    BY <1>1, <1>4 DEF RetireHost, RegisterHost
  <1> QED  BY <1>2, <1>3, <1>4 DEF Next

(* The orchestrator implements Pairing: a challenge is spent before it    *)
(* pairs, and a call that began after it was spent neither spends it      *)
(* again nor pairs, as long as the replay query has room for the          *)
(* initiations of all calls.                                              *)
THEOREM PromiseIsKept ==
    ASSUME IsFiniteSet(Attempt), Cardinality(Attempt) <= ReplayWindow
    PROVE  Spec => KeepsPromise
  <1>1. IInv /\ PInv /\ [Next]_vars => PInv'
    <2>1. IInv /\ PInv /\ [Next]_vars => OneInitiation'  BY NextOneInitiation DEF PInv
    <2>2. IInv /\ PInv /\ [Next]_vars => LateIsStopped'  BY NextLateIsStopped
    <2> QED  BY <2>1, <2>2 DEF PInv
  <1>2. IInv /\ IInv' /\ PInv /\ [Next]_vars => [Promise!Next]_(Promise!vars)
    BY NextPromise
  <1> QED  BY <1>1, <1>2, InitPInv, InitPromise, Invariance, PTL DEF Spec, KeepsPromise, Promise!Spec
=============================================================================
