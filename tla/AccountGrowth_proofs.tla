------------------------ MODULE AccountGrowth_proofs ------------------------
(***************************************************************************)
(* Proofs about the head of the funnel: for any number of racing signals   *)
(* and overlapping score jobs, failing and cut off anywhere, a company has *)
(* one account, an answered signal is recorded in full, and every score is *)
(* accounted for.                                                          *)
(***************************************************************************)
EXTENDS AccountGrowth, FiniteSetTheorems, TLAPS

(* The rows of the ledger, by kind.                                       *)
AccountKind == {"account.created", "account.merged"}
TriggerRows == {[kind |-> "trigger.ingested", key |-> <<"trigger.ingested", i>>, corr |-> i, account |-> a] :
                    i \in Ingest, a \in Ingest}
AccountRows == {[kind |-> k, key |-> <<k, a, i>>, corr |-> i, account |-> a] :
                    k \in AccountKind, a \in Ingest, i \in Ingest}
ScoredRow == [kind : {"account.scored"}, key : {NoKey}, corr : Job \X Ingest, account : Ingest,
              score : 30..95, count : Nat, recent : BOOLEAN]
ScoredRows == {row \in ScoredRow : row.corr[2] = row.account}
FamilyRows == {[kind |-> "message_family.created", key |-> <<"message_family.created">>, corr |-> <<j, a>>] :
                    j \in Job, a \in Ingest}

LedgerInv ==
    /\ ledger \subseteq TriggerRows \cup AccountRows \cup ScoredRows \cup FamilyRows
    /\ \A row \in RowsOf("account.created") : row.account = row.corr

TypeInv == TypeOK /\ LedgerInv

KindsOf(i) == {row.kind : row \in EvidenceTrail(i)}

(* What a call has done by the await it is blocked in.                    *)
CallInv(i) ==
    /\ account[i] # "none" => /\ accounts[account[i]] # NoRow
                              /\ accounts[account[i]].domain = signal[i].domain
    /\ pc[i] \in {"idle", "select"} => account[i] = "none"
    /\ pc[i] \in {"trigger", "rowTrigger", "rowAccount", "done"} => account[i] # "none"
    /\ pc[i] \in {"idle", "select", "upsert", "failed"} => accounts[i] = NoRow
    /\ pc[i] \in {"idle", "select", "upsert", "trigger", "failed"} => triggers[i] = NoRow
    /\ pc[i] \in {"rowTrigger", "rowAccount", "done"} => /\ triggers[i] # NoRow
                                                         /\ triggers[i].account = account[i]
    /\ pc[i] \in {"idle", "select", "upsert", "trigger", "rowTrigger", "failed"} => EvidenceTrail(i) = {}
    /\ pc[i] = "rowAccount" => KindsOf(i) = {"trigger.ingested"}
    /\ pc[i] = "done" => KindsOf(i) = {"trigger.ingested", account_evidence_kind(i)}

OneDomain == \A a, b \in Rows(accounts) : accounts[a].domain = accounts[b].domain => a = b

(* What the facts a job has read of its account, or a row of them, rest on. *)
Supported(a, count, recent) ==
    /\ count <= Cardinality(TriggersOf(a))
    /\ recent => \E t \in TriggersOf(a) : triggers[t].jobPost

Counted == {"jobPost", "patch", "rowScored", "family", "rowFamily"}
Scored == {"patch", "rowScored", "family", "rowFamily"}

JobInv(j) ==
    /\ batch[j] \subseteq Rows(accounts)
    /\ jobPc[j] = "jobPost" => Supported(current[j], seen[j].count, FALSE)
    /\ jobPc[j] \in Scored => Supported(current[j], seen[j].count, seen[j].recent) /\ seen[j].score \in 30..95
    /\ jobPc[j] \in {"family", "rowFamily"} =>
          \E row \in RowsOf("account.scored") : row.corr = <<j, current[j]>> /\ row.score >= 70

(* The job that scored an account last is about to explain the score, or  *)
(* its last row does.                                                     *)
About(j, a) == jobPc[j] = "rowScored" /\ current[j] = a
Backed(a, j) ==
    \/ About(j, a) /\ seen[j].score = accounts[a].score
    \/ ~About(j, a) /\ \E row \in RowsOf("account.scored") :
                          row.corr = <<j, a>> /\ row.score = accounts[a].score

ScoreInv ==
    /\ \A row \in RowsOf("account.scored") : Supported(row.account, row.count, row.recent)
    /\ \A a \in Rows(accounts) : (accounts[a].score # 0 /\ faults = 0) => \E j \in Job : Backed(a, j)

IInv ==
    /\ TypeInv
    /\ \A i \in Ingest : CallInv(i)
    /\ OneDomain
    /\ \A j \in Job : JobInv(j)
    /\ ScoreInv

-----------------------------------------------------------------------------
(* Rows of the ledger have a kind, and their keys name it.                *)
LEMMA RowsAreTyped ==
    ASSUME TypeInv, NEW row \in ledger
    PROVE  \/ /\ row \in TriggerRows /\ row.kind = "trigger.ingested" /\ row.corr \in Ingest
              /\ row.key = <<"trigger.ingested", row.corr>>
           \/ /\ row \in AccountRows /\ row.kind \in AccountKind /\ row.corr \in Ingest
              /\ row.account \in Ingest /\ row.key = <<row.kind, row.account, row.corr>>
           \/ /\ row \in ScoredRows /\ row.kind = "account.scored" /\ row.key = NoKey
              /\ row.account \in Ingest /\ row.corr \in Job \X Ingest /\ row.corr[2] = row.account
           \/ /\ row \in FamilyRows /\ row.kind = "message_family.created"
              /\ row.key = <<"message_family.created">> /\ row.corr \in Job \X Ingest
  <1>1. CASE row \in TriggerRows  BY <1>1 DEF TriggerRows
  <1>2. CASE row \in AccountRows  BY <1>2 DEF AccountRows
  <1>3. CASE row \in ScoredRows  BY <1>3 DEF ScoredRows, ScoredRow
  <1>4. CASE row \in FamilyRows  BY <1>4 DEF FamilyRows
  <1> QED  BY <1>1, <1>2, <1>3, <1>4 DEF TypeInv, LedgerInv

LEMMA CorrelationsDiffer == \A i \in Ingest : \A j \in Job, a \in Ingest : i # <<j, a>>
  BY IdAssumption

LEMMA TriggersAreFinite == ASSUME NEW a, TypeOK PROVE IsFiniteSet(TriggersOf(a)) /\ Cardinality(TriggersOf(a)) \in Nat
  <1>1. TriggersOf(a) \in SUBSET Ingest  BY DEF TypeOK, TriggersOf, Rows
  <1> QED  BY <1>1, IdAssumption, FS_Subset, FS_CardinalityType

(* A score is what the rules add up to, between 30 and 95.                *)
LEMMA ScoreInRange == ASSUME NEW f PROVE compute_score(f) \in 30..95
  <1>1. \E a \in {0, 20}, b \in {0, 15}, c \in {0, 10}, d \in {0, 20} : compute_score(f) = 50 + a + b + c - d
    BY DEF compute_score
  <1> QED  BY <1>1

-----------------------------------------------------------------------------
(* What every step leaves behind: accounts keep their domains, triggers   *)
(* their account and what they are.                                       *)
Grown ==
    /\ signal' = signal
    /\ \A a \in Ingest : accounts[a] # NoRow =>
          accounts'[a] # NoRow /\ accounts'[a].domain = accounts[a].domain
    /\ \A t \in Ingest : triggers[t] # NoRow =>
          /\ triggers'[t] # NoRow /\ triggers'[t].account = triggers[t].account
          /\ triggers'[t].jobPost = triggers[t].jobPost

LEMMA SupportGrows ==
    ASSUME TypeOK, TypeOK', Grown, NEW a, NEW count \in Nat, NEW recent, Supported(a, count, recent)
    PROVE  Supported(a, count, recent)'
  <1>1. TriggersOf(a) \subseteq TriggersOf(a)'
    BY DEF TypeOK, Grown, TriggersOf, Rows
  <1>2. IsFiniteSet(TriggersOf(a)') /\ Cardinality(TriggersOf(a)') \in Nat /\ Cardinality(TriggersOf(a)) \in Nat
    <2>1. TriggersOf(a)' \in SUBSET Ingest  BY DEF TypeOK, TriggersOf, Rows
    <2> QED  BY <2>1, IdAssumption, FS_Subset, FS_CardinalityType, TriggersAreFinite
  <1>3. Cardinality(TriggersOf(a)) <= Cardinality(TriggersOf(a)')
    BY <1>1, <1>2, FS_Subset
  <1>4. \A t \in TriggersOf(a) : triggers[t].jobPost => triggers'[t].jobPost
    BY DEF Grown, TriggersOf, Rows, TypeOK
  <1> QED  BY <1>1, <1>2, <1>3, <1>4 DEF Supported

(* A call that does nothing in a step.                                    *)
CallIdles(x) ==
    /\ pc'[x] = pc[x] /\ account'[x] = account[x]
    /\ accounts[x] = NoRow => accounts'[x] = NoRow
    /\ triggers[x] = NoRow => triggers'[x] = NoRow
    /\ EvidenceTrail(x)' = EvidenceTrail(x)

LEMMA CallsKeep ==
    ASSUME TypeOK, Grown, NEW x \in Ingest, CallInv(x), CallIdles(x)
    PROVE  CallInv(x)'
  <1>1. account[x] \in Ingest \cup {"none"}  BY DEF TypeOK
  <1>2. KindsOf(x)' = KindsOf(x) /\ account_evidence_kind(x)' = account_evidence_kind(x)
    BY DEF CallIdles, KindsOf, account_evidence_kind
  <1> QED  BY <1>1, <1>2 DEF CallInv, CallIdles, Grown

(* A job that does nothing in a step.                                     *)
JobIdles(j) ==
    /\ jobPc'[j] = jobPc[j] /\ batch'[j] = batch[j] /\ current'[j] = current[j] /\ seen'[j] = seen[j]
    /\ \A row \in RowsOf("account.scored") :
          (\E a \in Ingest : row.corr = <<j, a>>) => row \in RowsOf("account.scored")'

LEMMA JobsKeep ==
    ASSUME TypeOK, TypeOK', Grown, NEW j \in Job, JobInv(j), JobIdles(j)
    PROVE  JobInv(j)'
  <1>1. batch'[j] \subseteq Rows(accounts)'
    BY DEF JobInv, JobIdles, Grown, Rows, TypeOK
  <1>2. jobPc[j] \in Scored \cup {"jobPost"} => current[j] \in Ingest
    <2>1. current[j] = "none" => jobPc[j] \notin Scoring \cup Planning  BY DEF TypeOK
    <2>2. current[j] # "none" => accounts[current[j]] # NoRow  BY DEF TypeOK
    <2> QED  BY <2>1, <2>2 DEF Scored, Scoring, Planning, TypeOK
  <1>3. seen[j].count \in Nat  BY DEF TypeOK, Facts
  <1>4. jobPc[j] = "jobPost" => Supported(current[j], seen[j].count, FALSE)'
    BY <1>3, SupportGrows DEF JobInv, JobIdles
  <1>5. jobPc[j] \in Scored => Supported(current[j], seen[j].count, seen[j].recent)'
    BY <1>3, SupportGrows DEF JobInv, JobIdles
  <1> QED
    BY <1>1, <1>2, <1>4, <1>5 DEF JobInv, JobIdles, Scored

(* The accounts and their scores as the rows explain them.                *)
LEMMA ScoresKeep ==
    ASSUME IInv, TypeOK', Grown, faults' = faults,
           RowsOf("account.scored")' = RowsOf("account.scored"),
           \A j \in Job : JobIdles(j),
           \A a \in Ingest : accounts'[a] # NoRow /\ accounts'[a].score # 0 =>
                                 accounts[a] # NoRow /\ accounts'[a].score = accounts[a].score
    PROVE  ScoreInv'
  <1>1. \A row \in RowsOf("account.scored") : Supported(row.account, row.count, row.recent)'
    <2> TAKE row \in RowsOf("account.scored")
    <2>1. row.count \in Nat
      BY DEF IInv, TypeInv, LedgerInv, RowsOf, TriggerRows, AccountRows, ScoredRows, ScoredRow, FamilyRows, AccountKind
    <2>2. Supported(row.account, row.count, row.recent)  BY DEF IInv, ScoreInv
    <2> QED  BY <2>1, <2>2, SupportGrows DEF IInv, TypeInv
  <1>2. ASSUME NEW a \in Rows(accounts)', accounts'[a].score # 0, faults' = 0
        PROVE  \E j \in Job : Backed(a, j)'
    <2>1. a \in Rows(accounts) /\ accounts'[a].score = accounts[a].score
      BY <1>2 DEF IInv, TypeInv, TypeOK, Rows
    <2>2. PICK j \in Job : Backed(a, j)  BY <1>2, <2>1 DEF IInv, ScoreInv
    <2>3. Backed(a, j)'  BY <2>1, <2>2 DEF Backed, About, JobIdles
    <2> QED  BY <2>3
  <1> QED  BY <1>1, <1>2 DEF ScoreInv

LEMMA OneDomainKeeps ==
    ASSUME IInv, TypeOK', Grown, Rows(accounts)' = Rows(accounts)
    PROVE  OneDomain'
  BY DEF IInv, OneDomain, Grown, Rows, TypeOK, TypeInv

LEMMA InitIInv == Init => IInv
  <1> SUFFICES ASSUME Init PROVE IInv
    OBVIOUS
  <1>1. ledger = {} /\ Rows(accounts) = {} /\ \A kind : RowsOf(kind) = {}
    BY DEF Init, Rows, RowsOf
  <1>2. TypeInv
    <2>1. LedgerInv  BY <1>1 DEF LedgerInv
    <2>2. /\ seen \in [Job -> Facts] /\ \A j \in Job : seen[j].score = 0
      <3>1. NoFacts \in Facts
        <4>1. 0 \in Nat /\ 0 \in 0..100  OBVIOUS
        <4>2. "" \in Segment  BY SegmentAssumption, Zenon
        <4> QED  BY <4>1, <4>2, Zenon DEF NoFacts, Facts
      <3> QED  BY <3>1 DEF Init, NoFacts
    <2>3. faults \in 0..MaxFaults
      <3>1. faults = 0  BY DEF Init
      <3> QED  BY <3>1, LimitAssumption
    <2>4. \A j \in Job : current[j] = "none" /\ jobPc[j] = "idle"  BY DEF Init
    <2> QED  BY <2>1, <2>2, <2>3, <2>4 DEF Init, TypeInv, TypeOK, Scoring, Planning
  <1>3. ASSUME NEW i \in Ingest PROVE CallInv(i)
    <2>1. pc[i] = "idle" /\ account[i] = "none" /\ accounts[i] = NoRow /\ triggers[i] = NoRow
      BY DEF Init
    <2>2. EvidenceTrail(i) = {}  BY <1>1 DEF EvidenceTrail
    <2> QED  BY <2>1, <2>2 DEF CallInv
  <1>4. ASSUME NEW j \in Job PROVE JobInv(j)
    BY DEF Init, JobInv, Scored
  <1> QED  BY <1>1, <1>2, <1>3, <1>4 DEF IInv, OneDomain, ScoreInv

-----------------------------------------------------------------------------
(* Ingest.  It is enough to look at the call that makes the step.         *)
LEMMA IngestSuffices ==
    ASSUME IInv, TypeInv', Grown, NEW i \in Ingest, CallInv(i)', OneDomain',
           \A x \in Ingest \ {i} : CallIdles(x),
           UNCHANGED job, RowsOf("account.scored")' = RowsOf("account.scored"),
           \A a \in Ingest : accounts'[a] # NoRow /\ accounts'[a].score # 0 =>
                                 accounts[a] # NoRow /\ accounts'[a].score = accounts[a].score
    PROVE  IInv'
  <1>1. \A x \in Ingest : CallInv(x)'
    <2> TAKE x \in Ingest
    <2>1. CASE x = i  BY <2>1
    <2>2. CASE x # i  BY <2>2, CallsKeep DEF IInv, TypeInv
    <2> QED  BY <2>1, <2>2
  <1>2. \A j \in Job : JobIdles(j)  BY DEF job, JobIdles
  <1>3. \A j \in Job : JobInv(j)'  BY <1>2, JobsKeep DEF IInv, TypeInv
  <1>4. ScoreInv'  BY <1>2, ScoresKeep DEF job, TypeInv
  <1> QED  BY <1>1, <1>3, <1>4 DEF IInv

(* A call posts a row of a kind that its trail does not have.             *)
LEMMA RecordAdds ==
    ASSUME IInv, NEW i \in Ingest, NEW row \in TriggerRows \cup AccountRows, row.corr = i,
           row.kind \notin KindsOf(i), Record(row),
           row.kind = "account.created" => row.account = row.corr
    PROVE  /\ LedgerInv' /\ \A r \in ledger' : r.corr \in Ingest \cup (Job \X Ingest)
           /\ KindsOf(i)' = KindsOf(i) \cup {row.kind}
           /\ \A x \in Ingest \ {i} : EvidenceTrail(x)' = EvidenceTrail(x)
           /\ RowsOf("account.scored")' = RowsOf("account.scored")
  <1>1. \/ row.kind = "trigger.ingested" /\ row.key = <<"trigger.ingested", i>>
        \/ row.kind \in AccountKind /\ \E a \in Ingest : row.key = <<row.kind, a, i>>
    BY DEF TriggerRows, AccountRows
  <1>2. \A r \in ledger : r.key # row.key
    <2> SUFFICES ASSUME NEW r \in ledger, r.key = row.key PROVE FALSE
      OBVIOUS
    <2>1. r.kind = row.kind /\ r.corr = i
      BY <1>1, RowsAreTyped DEF IInv, AccountKind, NoKey
    <2> QED  BY <2>1 DEF KindsOf, EvidenceTrail
  <1>3. ledger' = ledger \cup {row}
    <2>1. row.key # NoKey  BY <1>1 DEF NoKey
    <2> QED  BY <1>2, <2>1 DEF Record
  <1>4. LedgerInv'
    <2>1. RowsOf("account.created")' = RowsOf("account.created") \cup
             (IF row.kind = "account.created" THEN {row} ELSE {})
      BY <1>3 DEF RowsOf
    <2> QED  BY <1>3, <2>1 DEF IInv, TypeInv, LedgerInv
  <1>5. EvidenceTrail(i)' = EvidenceTrail(i) \cup {row}  BY <1>3 DEF EvidenceTrail
  <1>6. \A x \in Ingest \ {i} : EvidenceTrail(x)' = EvidenceTrail(x)  BY <1>3 DEF EvidenceTrail
  <1>7. RowsOf("account.scored")' = RowsOf("account.scored")
    BY <1>1, <1>3 DEF RowsOf, AccountKind
  <1>8. \A r \in ledger' : r.corr \in Ingest \cup (Job \X Ingest)
    BY <1>3 DEF IInv, TypeInv, TypeOK
  <1>9. KindsOf(i)' = KindsOf(i) \cup {row.kind}  BY <1>5 DEF KindsOf
  <1> QED  BY <1>4, <1>6, <1>7, <1>8, <1>9

(* A step that leaves the ledger alone.                                   *)
LEMMA LedgerKeeps ==
    ASSUME ledger' = ledger
    PROVE  /\ \A x : EvidenceTrail(x)' = EvidenceTrail(x) /\ KindsOf(x)' = KindsOf(x)
           /\ \A kind : RowsOf(kind)' = RowsOf(kind)
           /\ LedgerInv => LedgerInv'
  BY DEF EvidenceTrail, KindsOf, RowsOf, LedgerInv

LEMMA CallKeepsIInv ==
    ASSUME IInv, NEW i \in Ingest, Call(i) \/ SelectAccount(i) \/ Lose(i) PROVE IInv'
  <1> DEFINE found == \E a \in Rows(accounts) : accounts[a].domain = signal[i].domain
             id == CHOOSE a \in Rows(accounts) : accounts[a].domain = signal[i].domain
  <1>1. /\ UNCHANGED <<accounts, triggers, infra, ledger, jobPc, batch, current, seen, faults, signal>>
        /\ UNCHANGED job
    BY DEF Call, SelectAccount, Lose, store, job, CallKeeps
  <1>2. PICK to \in {"select", "upsert", "lost"}, acc \in Ingest \cup {"none"} :
           /\ pc' = [pc EXCEPT ![i] = to] /\ account' = [account EXCEPT ![i] = acc]
           /\ to = "select" => acc = "none" /\ pc[i] = "idle"
           /\ to = "upsert" => /\ pc[i] = "select"
                               /\ acc # "none" => accounts[acc] # NoRow /\ accounts[acc].domain = signal[i].domain
           /\ to = "lost" => acc = "none"
    <2>1. account \in [Ingest -> Ingest \cup {"none"}]  BY DEF IInv, TypeInv, TypeOK
    <2>2. CASE Call(i)
      <3>1. pc[i] = "idle" /\ pc' = [pc EXCEPT ![i] = "select"] /\ account' = account
        BY <2>2 DEF Call, Goto, CallKeeps
      <3>2. account[i] = "none"  BY <3>1 DEF IInv, CallInv
      <3>3. account' = [account EXCEPT ![i] = "none"]  BY <2>1, <3>1, <3>2
      <3> QED  BY <3>1, <3>3
    <2>3. CASE SelectAccount(i)
      <3>1. /\ pc[i] = "select" /\ pc' = [pc EXCEPT ![i] = "upsert"]
            /\ account' = [account EXCEPT ![i] = IF found THEN id ELSE "none"]
        BY <2>3 DEF SelectAccount, Goto
      <3>2. found => id \in Ingest /\ accounts[id] # NoRow /\ accounts[id].domain = signal[i].domain
        BY DEF Rows, IInv, TypeInv, TypeOK
      <3> HIDE DEF found, id
      <3>3. CASE found  BY <3>1, <3>2, <3>3
      <3>4. CASE ~found  BY <3>1, <3>4
      <3> QED  BY <3>3, <3>4
    <2>4. CASE Lose(i)  BY <2>4 DEF Lose, Goto
    <2> QED  BY <2>2, <2>3, <2>4
  <1>3. /\ pc'[i] = to /\ account'[i] = acc
        /\ \A x \in Ingest \ {i} : pc'[x] = pc[x] /\ account'[x] = account[x]
    BY <1>2 DEF IInv, TypeInv, TypeOK
  <1>4. Grown  BY <1>1 DEF Grown
  <1>5. TypeInv'  BY <1>1, <1>2, LedgerKeeps DEF IInv, TypeInv, TypeOK, Calling
  <1>6. \A x \in Ingest \ {i} : CallIdles(x)  BY <1>1, <1>3, LedgerKeeps DEF CallIdles
  <1>7. CallInv(i)'
    BY <1>1, <1>2, <1>3, LedgerKeeps DEF CallInv, IInv
  <1>8. OneDomain'  BY <1>1 DEF IInv, OneDomain, Rows
  <1> QED  BY <1>1, <1>4, <1>5, <1>6, <1>7, <1>8, LedgerKeeps, IngestSuffices

LEMMA InsertAccountKeepsIInv == ASSUME IInv, NEW i \in Ingest, InsertAccount(i) PROVE IInv'
  <1> DEFINE taken == \E a \in Rows(accounts) : accounts[a].domain = signal[i].domain
             row == [domain |-> signal[i].domain, segment |-> signal[i].segment,
                     strategic |-> FALSE, score |-> 0]
  <1>1. /\ UNCHANGED <<triggers, infra, ledger, jobPc, batch, current, seen, faults, signal>>
        /\ UNCHANGED job /\ pc[i] = "upsert" /\ account[i] = "none"
    BY DEF InsertAccount, job
  <1>2. /\ accounts[i] = NoRow /\ triggers[i] = NoRow /\ EvidenceTrail(i) = {}
    BY <1>1 DEF IInv, CallInv
  <1>3. CASE taken
    <2>1. pc' = [pc EXCEPT ![i] = "failed"] /\ accounts' = accounts /\ account' = account
      BY <1>3 DEF InsertAccount, Goto
    <2>2. pc'[i] = "failed" /\ \A x \in Ingest \ {i} : pc'[x] = pc[x]
      BY <2>1 DEF IInv, TypeInv, TypeOK
    <2>3. Grown  BY <1>1, <2>1 DEF Grown
    <2>4. TypeInv'  BY <1>1, <2>1, LedgerKeeps DEF IInv, TypeInv, TypeOK
    <2>5. \A x \in Ingest \ {i} : CallIdles(x)  BY <1>1, <2>1, <2>2, LedgerKeeps DEF CallIdles
    <2>6. CallInv(i)'  BY <1>1, <1>2, <2>1, <2>2, LedgerKeeps DEF CallInv
    <2>7. OneDomain'  BY <2>1 DEF IInv, OneDomain, Rows
    <2> QED  BY <1>1, <2>1, <2>3, <2>4, <2>5, <2>6, <2>7, LedgerKeeps, IngestSuffices
  <1>4. CASE ~taken
    <2>1. /\ pc' = [pc EXCEPT ![i] = "trigger"] /\ accounts' = [accounts EXCEPT ![i] = row]
          /\ account' = [account EXCEPT ![i] = i]
      BY <1>4 DEF InsertAccount, Goto
    <2>2. row \in AccountRow /\ row.domain = signal[i].domain /\ row.score = 0
      <3>1. signal[i] \in Signal  BY DEF IInv, TypeInv, TypeOK
      <3>2. 0 \in 0..100  OBVIOUS
      <3> QED  BY <3>1, <3>2 DEF Signal, AccountRow
    <2>3. row # NoRow
      <3>1. row.domain \in Domain  BY <2>2 DEF AccountRow
      <3>2. "domain" \in DOMAIN row  OBVIOUS
      <3>3. "domain" \notin DOMAIN NoRow  BY DEF NoRow
      <3> QED  BY <3>2, <3>3
    <2>4. \A a \in Rows(accounts) : accounts[a].domain # row.domain  BY <1>4, <2>2
    <2> HIDE DEF row
    <2>5. /\ pc'[i] = "trigger" /\ account'[i] = i /\ accounts'[i] = row
          /\ \A x \in Ingest \ {i} : pc'[x] = pc[x] /\ account'[x] = account[x] /\ accounts'[x] = accounts[x]
      BY <2>1 DEF IInv, TypeInv, TypeOK
    <2>6. Grown  BY <1>1, <1>2, <2>5 DEF Grown
    <2>7. TypeInv'
      <3>1. accounts' \in [Ingest -> AccountRow \cup {NoRow}] /\ account' \in [Ingest -> Ingest \cup {"none"}]
            /\ pc' \in [Ingest -> Calling \cup {"idle", "done", "failed", "lost"}]
        BY <2>1, <2>2 DEF IInv, TypeInv, TypeOK, Calling
      <3>2. \A j \in Job : current[j] # "none" => accounts'[current[j]] # NoRow
        BY <2>6 DEF IInv, TypeInv, TypeOK, Grown
      <3> QED  BY <1>1, <3>1, <3>2, LedgerKeeps DEF IInv, TypeInv, TypeOK
    <2>8. \A x \in Ingest \ {i} : CallIdles(x)  BY <1>1, <2>5, LedgerKeeps DEF CallIdles
    <2>9. CallInv(i)'
      <3>1. signal'[i] = signal[i] /\ triggers'[i] = NoRow /\ EvidenceTrail(i)' = {}
        BY <1>1, <1>2, LedgerKeeps
      <3>2. i # "none"  BY IdAssumption
      <3> QED  BY <2>2, <2>3, <2>5, <3>1, <3>2 DEF CallInv
    <2>10. OneDomain'
      <3> SUFFICES ASSUME NEW a \in Rows(accounts)', NEW b \in Rows(accounts)',
                          accounts'[a].domain = accounts'[b].domain
                   PROVE  a = b
        BY DEF OneDomain
      <3>1. a \in Ingest /\ b \in Ingest /\ accounts'[a] # NoRow /\ accounts'[b] # NoRow
        BY <2>7 DEF Rows, TypeInv, TypeOK
      <3>2. Rows(accounts) = {x \in Ingest : accounts[x] # NoRow}  BY DEF Rows, IInv, TypeInv, TypeOK
      <3> QED  BY <2>4, <2>5, <3>1, <3>2 DEF IInv, OneDomain
    <2>11. \A a \in Ingest : accounts'[a] # NoRow /\ accounts'[a].score # 0 =>
                                 accounts[a] # NoRow /\ accounts'[a].score = accounts[a].score
      BY <2>2, <2>5
    <2> QED  BY <1>1, <2>6, <2>7, <2>8, <2>9, <2>10, <2>11, LedgerKeeps, IngestSuffices
  <1> QED  BY <1>3, <1>4

LEMMA MergeAccountKeepsIInv == ASSUME IInv, NEW i \in Ingest, MergeAccount(i) PROVE IInv'
  <1> DEFINE a == account[i]
  <1>1. /\ UNCHANGED <<triggers, infra, ledger, jobPc, batch, current, seen, faults, signal, account>>
        /\ UNCHANGED job /\ pc[i] = "upsert" /\ a # "none" /\ pc' = [pc EXCEPT ![i] = "trigger"]
        /\ accounts' = accounts \/ accounts' = [accounts EXCEPT ![a].segment = signal[i].segment]
    BY DEF MergeAccount, job, CallKeeps, Goto
  <1>2. a \in Ingest /\ accounts[a] # NoRow /\ signal[i] \in Signal /\ accounts[a] \in AccountRow
    BY <1>1 DEF IInv, CallInv, TypeInv, TypeOK
  <1>3. pc'[i] = "trigger" /\ \A x \in Ingest \ {i} : pc'[x] = pc[x]
    BY <1>1 DEF IInv, TypeInv, TypeOK
  <1>4. /\ accounts' \in [Ingest -> AccountRow \cup {NoRow}]
        /\ \A x \in Ingest : /\ accounts[x] = NoRow <=> accounts'[x] = NoRow
                             /\ accounts[x] # NoRow => /\ accounts'[x].domain = accounts[x].domain
                                                       /\ accounts'[x].score = accounts[x].score
    <2>1. accounts \in [Ingest -> AccountRow \cup {NoRow}]  BY DEF IInv, TypeInv, TypeOK
    <2>2. CASE accounts' = [accounts EXCEPT ![a].segment = signal[i].segment]
      <3>1. signal[i].segment \in Segment  BY <1>2 DEF Signal
      <3>2. /\ accounts'[a] \in AccountRow /\ accounts'[a].domain = accounts[a].domain
            /\ accounts'[a].score = accounts[a].score
            /\ \A x \in Ingest \ {a} : accounts'[x] = accounts[x]
        BY <1>2, <2>1, <2>2, <3>1 DEF AccountRow
      <3>3. \A r \in AccountRow : r # NoRow  BY DEF AccountRow, NoRow
      <3>4. accounts' \in [Ingest -> AccountRow \cup {NoRow}]  BY <1>2, <2>1, <2>2, <3>2
      <3> QED  BY <1>2, <3>2, <3>3, <3>4
    <2> QED  BY <1>1, <2>1, <2>2
  <1> HIDE DEF a
  <1>5. Grown  BY <1>1, <1>4 DEF Grown
  <1>6. TypeInv'
    <2>1. \A j \in Job : current[j] # "none" => accounts'[current[j]] # NoRow
      BY <1>5 DEF IInv, TypeInv, TypeOK, Grown
    <2>2. pc' \in [Ingest -> Calling \cup {"idle", "done", "failed", "lost"}]
      BY <1>1 DEF IInv, TypeInv, TypeOK, Calling
    <2> QED  BY <1>1, <1>4, <2>1, <2>2, LedgerKeeps DEF IInv, TypeInv, TypeOK
  <1>7. \A x \in Ingest \ {i} : CallIdles(x)  BY <1>1, <1>3, <1>4, LedgerKeeps DEF CallIdles
  <1>8. CallInv(i)'
    <2>1. EvidenceTrail(i)' = EvidenceTrail(i)  BY <1>1, LedgerKeeps
    <2> QED  BY <1>1, <1>2, <1>3, <1>4, <2>1 DEF CallInv, IInv, a
  <1>9. Rows(accounts)' = Rows(accounts)  BY <1>4 DEF Rows, IInv, TypeInv, TypeOK
  <1>10. OneDomain'  BY <1>5, <1>6, <1>9, OneDomainKeeps DEF TypeInv
  <1> QED  BY <1>1, <1>4, <1>5, <1>6, <1>7, <1>8, <1>10, LedgerKeeps, IngestSuffices

LEMMA InsertTriggerKeepsIInv == ASSUME IInv, NEW i \in Ingest, InsertTrigger(i) PROVE IInv'
  <1> DEFINE row == [account |-> account[i], jobPost |-> signal[i].jobPost, recent |-> TRUE]
  <1>1. /\ UNCHANGED <<accounts, infra, ledger, jobPc, batch, current, seen, faults, signal, account>>
        /\ UNCHANGED job /\ pc[i] = "trigger" /\ pc' = [pc EXCEPT ![i] = "rowTrigger"]
        /\ triggers' = [triggers EXCEPT ![i] = row]
    BY DEF InsertTrigger, job, CallKeeps, Goto
  <1>2. account[i] \in Ingest /\ triggers[i] = NoRow /\ EvidenceTrail(i) = {}
    BY <1>1 DEF IInv, CallInv, TypeInv, TypeOK
  <1>3. row \in TriggerRow /\ row.account = account[i]
    <2>1. signal[i].jobPost \in BOOLEAN  BY DEF IInv, TypeInv, TypeOK, Signal
    <2> QED  BY <1>2, <2>1 DEF TriggerRow
  <1>4. row # NoRow
    <2>1. "account" \in DOMAIN row  OBVIOUS
    <2>2. "account" \notin DOMAIN NoRow  BY DEF NoRow
    <2> QED  BY <2>1, <2>2
  <1> HIDE DEF row
  <1>5. /\ pc'[i] = "rowTrigger" /\ triggers'[i] = row
        /\ \A x \in Ingest \ {i} : pc'[x] = pc[x] /\ triggers'[x] = triggers[x]
    BY <1>1 DEF IInv, TypeInv, TypeOK
  <1>6. Grown  BY <1>1, <1>2, <1>5 DEF Grown
  <1>7. TypeInv'  BY <1>1, <1>3, LedgerKeeps DEF IInv, TypeInv, TypeOK, Calling
  <1>8. \A x \in Ingest \ {i} : CallIdles(x)  BY <1>1, <1>5, LedgerKeeps DEF CallIdles
  <1>9. CallInv(i)'
    <2>1. EvidenceTrail(i)' = EvidenceTrail(i)  BY <1>1, LedgerKeeps
    <2>2. account[i] # "none"  BY <1>1 DEF IInv, CallInv
    <2> QED  BY <1>1, <1>2, <1>3, <1>4, <1>5, <2>1, <2>2 DEF CallInv, IInv
  <1>10. OneDomain'  BY <1>1 DEF IInv, OneDomain, Rows
  <1> QED  BY <1>1, <1>6, <1>7, <1>8, <1>9, <1>10, LedgerKeeps, IngestSuffices

LEMMA RecordingKeepsIInv ==
    ASSUME IInv, NEW i \in Ingest, RecordTrigger(i) \/ RecordAccount(i) PROVE IInv'
  <1> DEFINE kind == IF pc[i] = "rowTrigger" THEN "trigger.ingested" ELSE account_evidence_kind(i)
  <1>1. /\ UNCHANGED <<accounts, triggers, infra, jobPc, batch, current, seen, faults, signal, account>>
        /\ UNCHANGED job /\ pc[i] \in {"rowTrigger", "rowAccount"}
    BY DEF RecordTrigger, RecordAccount, job, CallKeeps
  <1>2. PICK to \in {"rowAccount", "done", "lost"} :
           /\ pc' = [pc EXCEPT ![i] = to]
           /\ pc[i] = "rowTrigger" => to = "rowAccount"
           /\ pc[i] = "rowAccount" => to \in {"done", "lost"}
    BY DEF RecordTrigger, RecordAccount, Goto
  <1>3. account[i] \in Ingest
    BY <1>1 DEF IInv, CallInv, TypeInv, TypeOK
  <1>4. PICK row \in TriggerRows \cup AccountRows :
           /\ row.corr = i /\ row.kind = kind /\ Record(row)
           /\ row.kind = "account.created" => row.account = row.corr
    <2>1. CASE pc[i] = "rowTrigger"
      <3> DEFINE r == [kind |-> "trigger.ingested", key |-> <<"trigger.ingested", i>>, corr |-> i,
                       account |-> account[i]]
      <3>1. Record(r)  BY <2>1 DEF RecordTrigger, RecordAccount
      <3>2. r \in TriggerRows /\ r.kind = kind /\ r.kind # "account.created"
        BY <1>3, <2>1 DEF TriggerRows
      <3> QED  BY <3>1, <3>2
    <2>2. CASE pc[i] = "rowAccount"
      <3> DEFINE r == [kind |-> account_evidence_kind(i), key |-> <<account_evidence_kind(i), account[i], i>>,
                       corr |-> i, account |-> account[i]]
      <3>1. Record(r)  BY <2>2 DEF RecordTrigger, RecordAccount
      <3>2. account_evidence_kind(i) \in AccountKind
            /\ (account_evidence_kind(i) = "account.created" => account[i] = i)
        BY DEF account_evidence_kind, AccountKind
      <3>3. r \in AccountRows /\ r.kind = kind
        BY <1>3, <2>2, <3>2 DEF AccountRows
      <3> QED  BY <3>1, <3>2, <3>3
    <2> QED  BY <1>1, <2>1, <2>2
  <1>5. /\ pc[i] = "rowTrigger" => kind = "trigger.ingested" /\ KindsOf(i) = {}
        /\ pc[i] = "rowAccount" => kind = account_evidence_kind(i) /\ KindsOf(i) = {"trigger.ingested"}
    BY DEF IInv, CallInv, KindsOf
  <1>6. row.kind \notin KindsOf(i)  BY <1>1, <1>4, <1>5 DEF account_evidence_kind
  <1> HIDE DEF kind
  <1>7. /\ LedgerInv' /\ \A r \in ledger' : r.corr \in Ingest \cup (Job \X Ingest)
        /\ KindsOf(i)' = KindsOf(i) \cup {kind}
        /\ \A x \in Ingest \ {i} : EvidenceTrail(x)' = EvidenceTrail(x)
        /\ RowsOf("account.scored")' = RowsOf("account.scored")
    BY <1>4, <1>6, RecordAdds
  <1>8. pc'[i] = to /\ \A x \in Ingest \ {i} : pc'[x] = pc[x]
    BY <1>2 DEF IInv, TypeInv, TypeOK
  <1>9. Grown  BY <1>1 DEF Grown
  <1>10. TypeInv'  BY <1>1, <1>2, <1>7 DEF IInv, TypeInv, TypeOK, Calling
  <1>11. \A x \in Ingest \ {i} : CallIdles(x)  BY <1>1, <1>7, <1>8 DEF CallIdles
  <1>12. CallInv(i)'
    <2>1. account_evidence_kind(i)' = account_evidence_kind(i)  BY <1>1 DEF account_evidence_kind
    <2> QED  BY <1>1, <1>2, <1>5, <1>7, <1>8, <2>1 DEF CallInv, IInv
  <1>13. OneDomain'  BY <1>1 DEF IInv, OneDomain, Rows
  <1> QED  BY <1>1, <1>7, <1>9, <1>10, <1>11, <1>12, <1>13, IngestSuffices

-----------------------------------------------------------------------------
(* The score job.  It is enough to look at the job that makes the step.   *)
LEMMA JobSuffices ==
    ASSUME IInv, TypeInv', Grown, UNCHANGED call, NEW j \in Job, JobInv(j)',
           \A k \in Job \ {j} : JobIdles(k), triggers' = triggers,
           \A x \in Ingest : accounts[x] = NoRow => accounts'[x] = NoRow,
           \A x \in Ingest : EvidenceTrail(x)' = EvidenceTrail(x), ScoreInv'
    PROVE  IInv'
  <1>1. \A x \in Ingest : CallIdles(x)  BY DEF call, CallIdles
  <1>2. \A x \in Ingest : CallInv(x)'  BY <1>1, CallsKeep DEF IInv, TypeInv
  <1>3. \A k \in Job : JobInv(k)'
    <2> TAKE k \in Job
    <2>1. CASE k = j  BY <2>1
    <2>2. CASE k # j  BY <2>2, JobsKeep DEF IInv, TypeInv
    <2> QED  BY <2>1, <2>2
  <1>4. OneDomain'
    <2>1. Rows(accounts)' = Rows(accounts)  BY DEF Rows, IInv, TypeInv, TypeOK, Grown
    <2> QED  BY <2>1, OneDomainKeeps DEF TypeInv
  <1> QED  BY <1>2, <1>3, <1>4 DEF IInv

(* The locals of the other jobs stay as they are.                         *)
OtherJobsIdle(j) ==
    \A k \in Job \ {j} : /\ jobPc'[k] = jobPc[k] /\ batch'[k] = batch[k]
                         /\ current'[k] = current[k] /\ seen'[k] = seen[k]

(* What such a step may do to the ledger.                                 *)
LedgerQuiet ==
    /\ LedgerInv' /\ \A row \in ledger' : row.corr \in Ingest \cup (Job \X Ingest)
    /\ RowsOf("account.scored")' = RowsOf("account.scored")
    /\ \A x \in Ingest : EvidenceTrail(x)' = EvidenceTrail(x)

LEMMA SameLedgerIsQuiet == ASSUME IInv, ledger' = ledger PROVE LedgerQuiet
  BY LedgerKeeps DEF LedgerQuiet, IInv, TypeInv, TypeOK

(* A step of a job that writes no score and leaves none unexplained, or   *)
(* that is a fault.                                                       *)
LEMMA QuietJobKeepsIInv ==
    ASSUME IInv, NEW j \in Job, UNCHANGED <<accounts, triggers, call>>, LedgerQuiet, TypeOK', JobInv(j)',
           OtherJobsIdle(j),
           faults' = 0 => faults = 0 /\ jobPc[j] # "rowScored" /\ jobPc'[j] # "rowScored"
    PROVE  IInv'
  <1>1. Grown  BY DEF Grown, call
  <1>2. TypeInv'  BY DEF LedgerQuiet, TypeInv
  <1>3. \A k \in Job \ {j} : JobIdles(k)  BY DEF JobIdles, OtherJobsIdle, LedgerQuiet
  <1>4. ScoreInv'
    <2>1. \A row \in RowsOf("account.scored")' : Supported(row.account, row.count, row.recent)'
      BY DEF IInv, ScoreInv, Supported, TriggersOf, Rows, LedgerQuiet
    <2>2. ASSUME NEW a \in Rows(accounts), accounts[a].score # 0, faults' = 0
          PROVE  \E k \in Job : Backed(a, k)'
      <3>1. PICK k \in Job : Backed(a, k)  BY <2>2 DEF IInv, ScoreInv
      <3>2. RowsOf("account.scored")' = RowsOf("account.scored")  BY DEF LedgerQuiet
      <3>3. About(k, a)' = About(k, a) /\ (About(k, a) => seen'[k] = seen[k])
        <4>1. CASE k = j  BY <2>2, <4>1 DEF About
        <4>2. CASE k # j  BY <4>2 DEF About, OtherJobsIdle
        <4> QED  BY <4>1, <4>2
      <3>4. Backed(a, k)'  BY <3>1, <3>2, <3>3 DEF Backed
      <3> QED  BY <3>4
    <2>3. Rows(accounts)' = Rows(accounts)  BY DEF Rows
    <2> QED  BY <2>1, <2>2, <2>3 DEF ScoreInv
  <1> QED  BY <1>1, <1>2, <1>3, <1>4, JobSuffices DEF LedgerQuiet

(* The job goes on with the next account, or its run ends.                *)
LEMMA GoingOn ==
    ASSUME IInv, NEW j \in Job, GoOn(j)
    PROVE  /\ jobPc' \in [Job -> Running \cup {"idle"}] /\ batch' = batch
           /\ current' \in [Job -> Ingest \cup {"none"}]
           /\ seen' \in [Job -> Facts] /\ \A k \in Job : seen'[k].score \in {0} \cup 30..95
           /\ current'[j] = "none" /\ jobPc'[j] \in {"idle", "account"}
           /\ OtherJobsIdle(j)
  <1> DEFINE next == IF batch[j] = {} THEN "idle" ELSE "account"
  <1>1. /\ jobPc' = [jobPc EXCEPT ![j] = next] /\ current' = [current EXCEPT ![j] = "none"]
        /\ seen' = [seen EXCEPT ![j] = NoFacts] /\ batch' = batch
    BY DEF GoOn
  <1>2. next \in {"idle", "account"} /\ {"idle", "account"} \subseteq Running \cup {"idle"}
    BY DEF Running
  <1>3. NoFacts \in Facts
    <2>1. 0 \in Nat /\ 0 \in 0..100  OBVIOUS
    <2>2. "" \in Segment  BY SegmentAssumption, Zenon
    <2> QED  BY <2>1, <2>2, Zenon DEF NoFacts, Facts
  <1>4. NoFacts.score = 0  BY Zenon DEF NoFacts
  <1> HIDE DEF next
  <1>5. /\ jobPc \in [Job -> Running \cup {"idle"}] /\ current \in [Job -> Ingest \cup {"none"}]
        /\ seen \in [Job -> Facts] /\ \A k \in Job : seen[k].score \in {0} \cup 30..95
    BY DEF IInv, TypeInv, TypeOK
  <1>6. /\ jobPc' \in [Job -> Running \cup {"idle"}] /\ current' \in [Job -> Ingest \cup {"none"}]
        /\ seen' \in [Job -> Facts]
    BY <1>1, <1>2, <1>3, <1>5
  <1>7. /\ jobPc'[j] = next /\ current'[j] = "none" /\ seen'[j].score = 0
        /\ \A k \in Job \ {j} : jobPc'[k] = jobPc[k] /\ current'[k] = current[k] /\ seen'[k] = seen[k]
    BY <1>1, <1>4, <1>5
  <1>8. \A k \in Job : seen'[k].score \in {0} \cup 30..95
    <2> TAKE k \in Job
    <2>1. CASE k = j  BY <1>7, <2>1
    <2>2. CASE k # j  BY <1>5, <1>7, <2>2
    <2> QED  BY <2>1, <2>2
  <1> QED  BY <1>1, <1>2, <1>6, <1>7, <1>8 DEF OtherJobsIdle

(* The variables of the tables keep their types when a job goes on.       *)
LEMMA GoingOnKeepsTypes ==
    ASSUME IInv, NEW j \in Job, GoOn(j), UNCHANGED <<accounts, triggers, call>>,
           \A row \in ledger' : row.corr \in Ingest \cup (Job \X Ingest),
           infra' \subseteq {"claims_profile", "campaign", "message_family"}, faults' \in 0..MaxFaults
    PROVE  TypeOK' /\ JobInv(j)'
  <1>1. TypeOK'
    <2>1. \A k \in Job : IF current'[k] = "none" THEN jobPc'[k] \notin Scoring \cup Planning
                                                 ELSE accounts'[current'[k]] # NoRow
      <3> TAKE k \in Job
      <3>1. CASE k = j  BY <3>1, GoingOn DEF Scoring, Planning
      <3>2. CASE k # j  BY <3>2, GoingOn DEF OtherJobsIdle, IInv, TypeInv, TypeOK
      <3> QED  BY <3>1, <3>2
    <2> QED  BY <2>1, GoingOn DEF IInv, TypeInv, TypeOK, call
  <1>2. JobInv(j)'
    <2>1. Rows(accounts)' = Rows(accounts)  BY DEF Rows
    <2> QED  BY <2>1, GoingOn DEF IInv, JobInv, Scored
  <1> QED  BY <1>1, <1>2

(* A job that moves from one await to another, and what the tables may    *)
(* become when it does.                                                   *)
Moves(j, next, todo, a, f) ==
    /\ jobPc' = [jobPc EXCEPT ![j] = next] /\ batch' = [batch EXCEPT ![j] = todo]
    /\ current' = [current EXCEPT ![j] = a] /\ seen' = [seen EXCEPT ![j] = f]
    /\ next \in Running /\ todo \in SUBSET Ingest /\ a \in Ingest \cup {"none"}
    /\ f \in Facts /\ f.score \in {0} \cup 30..95
    /\ a = "none" => next \notin Scoring \cup Planning
    /\ a # "none" => accounts'[a] # NoRow

TablesKeep ==
    /\ UNCHANGED <<triggers, call>> /\ accounts' \in [Ingest -> AccountRow \cup {NoRow}]
    /\ \A x \in Ingest : accounts[x] # NoRow => accounts'[x] # NoRow
    /\ infra' \subseteq {"claims_profile", "campaign", "message_family"} /\ faults' \in 0..MaxFaults
    /\ \A row \in ledger' : row.corr \in Ingest \cup (Job \X Ingest)

LEMMA JobMoves ==
    ASSUME IInv, NEW j \in Job, NEW next, NEW todo, NEW a, NEW f, Moves(j, next, todo, a, f), TablesKeep
    PROVE  /\ TypeOK' /\ OtherJobsIdle(j)
           /\ jobPc'[j] = next /\ batch'[j] = todo /\ current'[j] = a /\ seen'[j] = f
  <1> USE DEF Moves, TablesKeep
  <1>1. /\ jobPc \in [Job -> Running \cup {"idle"}] /\ current \in [Job -> Ingest \cup {"none"}]
        /\ batch \in [Job -> SUBSET Ingest]
        /\ seen \in [Job -> Facts] /\ \A k \in Job : seen[k].score \in {0} \cup 30..95
        /\ \A k \in Job : IF current[k] = "none" THEN jobPc[k] \notin Scoring \cup Planning
                                                 ELSE accounts[current[k]] # NoRow
    BY DEF IInv, TypeInv, TypeOK
  <1>2. /\ jobPc'[j] = next /\ batch'[j] = todo /\ current'[j] = a /\ seen'[j] = f
        /\ \A k \in Job \ {j} : /\ jobPc'[k] = jobPc[k] /\ batch'[k] = batch[k]
                                /\ current'[k] = current[k] /\ seen'[k] = seen[k]
    BY <1>1
  <1>3. /\ jobPc' \in [Job -> Running \cup {"idle"}] /\ current' \in [Job -> Ingest \cup {"none"}]
        /\ batch' \in [Job -> SUBSET Ingest] /\ seen' \in [Job -> Facts]
    BY <1>1
  <1>4. \A k \in Job : seen'[k].score \in {0} \cup 30..95
    <2> TAKE k \in Job
    <2>1. CASE k = j  BY <1>2, <2>1
    <2>2. CASE k # j  BY <1>1, <1>2, <2>2
    <2> QED  BY <2>1, <2>2
  <1>5. \A k \in Job : IF current'[k] = "none" THEN jobPc'[k] \notin Scoring \cup Planning
                                               ELSE accounts'[current'[k]] # NoRow
    <2> TAKE k \in Job
    <2>1. CASE k = j  BY <1>2, <2>1
    <2>2. CASE k # j  BY <1>1, <1>2, <2>2
    <2> QED  BY <2>1, <2>2
  <1>6. /\ triggers' \in [Ingest -> TriggerRow \cup {NoRow}] /\ signal' \in [Ingest -> Signal]
        /\ pc' \in [Ingest -> Calling \cup {"idle", "done", "failed", "lost"}]
        /\ account' \in [Ingest -> Ingest \cup {"none"}]
    BY DEF IInv, TypeInv, TypeOK, call
  <1> QED  BY <1>2, <1>3, <1>4, <1>5, <1>6 DEF TypeOK, OtherJobsIdle

(* A job that goes on, for whatever reason but a score row.               *)
LEMMA GoingOnKeepsIInv ==
    ASSUME IInv, NEW j \in Job, GoOn(j), UNCHANGED <<accounts, triggers, call>>, LedgerQuiet,
           infra' \subseteq {"claims_profile", "campaign", "message_family"}, faults' \in 0..MaxFaults,
           faults' = 0 => faults = 0 /\ jobPc[j] # "rowScored"
    PROVE  IInv'
  <1>1. TypeOK' /\ JobInv(j)' /\ OtherJobsIdle(j) /\ jobPc'[j] # "rowScored"
    BY GoingOnKeepsTypes, GoingOn DEF LedgerQuiet
  <1> QED  BY <1>1, QuietJobKeepsIInv

LEMMA CrashKeepsIInv == ASSUME IInv, NEW j \in Job, SkipAccount(j) \/ Crash(j) PROVE IInv'
  <1>1. /\ UNCHANGED <<accounts, triggers, infra, ledger, pc, signal, account>> /\ UNCHANGED call
        /\ faults < MaxFaults /\ faults' = faults + 1
    BY DEF SkipAccount, Crash, store, call
  <1>2. faults' \in 0..MaxFaults /\ faults' # 0
    <2>1. faults \in 0..MaxFaults  BY DEF IInv, TypeInv, TypeOK
    <2> QED  BY <1>1, <2>1, LimitAssumption
  <1>3. infra' \subseteq {"claims_profile", "campaign", "message_family"}
    BY <1>1 DEF IInv, TypeInv, TypeOK
  <1>4. LedgerQuiet  BY <1>1, SameLedgerIsQuiet
  <1>5. CASE SkipAccount(j)
    <2>1. GoOn(j)  BY <1>5 DEF SkipAccount
    <2> QED  BY <1>1, <1>2, <1>3, <1>4, <2>1, GoingOnKeepsIInv
  <1>6. CASE Crash(j)
    <2>1. /\ jobPc' = [jobPc EXCEPT ![j] = "idle"] /\ current' = [current EXCEPT ![j] = "none"]
          /\ batch' = [batch EXCEPT ![j] = {}] /\ seen' = [seen EXCEPT ![j] = NoFacts]
      BY <1>6 DEF Crash
    <2>2. NoFacts \in Facts
      <3>1. 0 \in Nat /\ 0 \in 0..100  OBVIOUS
      <3>2. "" \in Segment  BY SegmentAssumption, Zenon
      <3> QED  BY <3>1, <3>2, Zenon DEF NoFacts, Facts
    <2>3. NoFacts.score = 0  BY Zenon DEF NoFacts
    <2>4. /\ jobPc'[j] = "idle" /\ current'[j] = "none" /\ batch'[j] = {} /\ seen'[j] = NoFacts
          /\ OtherJobsIdle(j)
      BY <2>1 DEF IInv, TypeInv, TypeOK, OtherJobsIdle
    <2>5. TypeOK'
      <3>1. /\ jobPc' \in [Job -> Running \cup {"idle"}] /\ current' \in [Job -> Ingest \cup {"none"}]
            /\ batch' \in [Job -> SUBSET Ingest] /\ seen' \in [Job -> Facts]
        BY <2>1, <2>2 DEF IInv, TypeInv, TypeOK
      <3>2. \A k \in Job : seen'[k].score \in {0} \cup 30..95
        <4> TAKE k \in Job
        <4>1. CASE k = j  BY <2>3, <2>4, <4>1
        <4>2. CASE k # j  BY <2>4, <4>2 DEF OtherJobsIdle, IInv, TypeInv, TypeOK
        <4> QED  BY <4>1, <4>2
      <3>3. \A k \in Job : IF current'[k] = "none" THEN jobPc'[k] \notin Scoring \cup Planning
                                                   ELSE accounts'[current'[k]] # NoRow
        <4> TAKE k \in Job
        <4>1. CASE k = j  BY <2>4, <4>1 DEF Scoring, Planning
        <4>2. CASE k # j  BY <1>1, <2>4, <4>2 DEF OtherJobsIdle, IInv, TypeInv, TypeOK
        <4> QED  BY <4>1, <4>2
      <3> QED  BY <1>1, <1>2, <3>1, <3>2, <3>3 DEF IInv, TypeInv, TypeOK
    <2>6. JobInv(j)'  BY <2>4 DEF JobInv, Scored
    <2> QED  BY <1>1, <1>2, <1>4, <2>4, <2>5, <2>6, QuietJobKeepsIInv
  <1> QED  BY <1>5, <1>6

(* The locals a job has before a step.                                    *)
LEMMA JobLocals ==
    ASSUME IInv, NEW j \in Job
    PROVE  /\ batch[j] \in SUBSET Ingest /\ batch[j] \subseteq Rows(accounts)
           /\ current[j] \in Ingest \cup {"none"} /\ (current[j] # "none" => accounts[current[j]] # NoRow)
           /\ jobPc[j] \in Scoring \cup Planning => current[j] \in Ingest
           /\ seen[j] \in Facts /\ seen[j].score \in {0} \cup 30..95
           /\ batch = [batch EXCEPT ![j] = batch[j]] /\ current = [current EXCEPT ![j] = current[j]]
           /\ seen = [seen EXCEPT ![j] = seen[j]]
           /\ accounts \in [Ingest -> AccountRow \cup {NoRow}]
           /\ \A row \in ledger : row.corr \in Ingest \cup (Job \X Ingest)
           /\ infra \subseteq {"claims_profile", "campaign", "message_family"} /\ faults \in 0..MaxFaults
  BY DEF IInv, TypeInv, TypeOK, JobInv

LEMMA TablesStay ==
    ASSUME IInv, UNCHANGED <<accounts, triggers, call>>, faults' \in 0..MaxFaults,
           infra' \subseteq {"claims_profile", "campaign", "message_family"}, LedgerQuiet
    PROVE  TablesKeep
  BY DEF TablesKeep, LedgerQuiet, IInv, TypeInv, TypeOK

LEMMA FetchKeepsIInv == ASSUME IInv, NEW j \in Job, Fetch(j) \/ FetchFails(j) PROVE IInv'
  <1>1. PICK S \in SUBSET Rows(accounts) : Begin(j, S)
    BY DEF Fetch, FetchFails, Batches
  <1>2. S \in SUBSET Ingest  BY DEF Rows, IInv, TypeInv, TypeOK
  <1>3. faults' \in 0..MaxFaults /\ (faults' = 0 => faults = 0)
    <2>1. faults \in 0..MaxFaults /\ (faults' = faults \/ (faults < MaxFaults /\ faults' = faults + 1))
      BY DEF Fetch, FetchFails, IInv, TypeInv, TypeOK
    <2> QED  BY <2>1, LimitAssumption
  <1>4. /\ jobPc[j] = "idle" /\ jobPc' = [jobPc EXCEPT ![j] = "profile"] /\ batch' = [batch EXCEPT ![j] = S]
        /\ UNCHANGED <<accounts, triggers, infra, ledger, current, seen>> /\ UNCHANGED call
    BY <1>1 DEF Begin, store
  <1>5. current' = [current EXCEPT ![j] = current[j]] /\ seen' = [seen EXCEPT ![j] = seen[j]]
    BY <1>4, JobLocals
  <1>6. "profile" \in Running /\ "profile" \notin Scoring \cup Planning  BY DEF Running, Scoring, Planning
  <1>9. LedgerQuiet  BY <1>4, SameLedgerIsQuiet
  <1>7. /\ TypeOK' /\ OtherJobsIdle(j) /\ jobPc'[j] = "profile" /\ batch'[j] = S
    <2>1. TablesKeep  BY <1>3, <1>4, <1>9, JobLocals, TablesStay
    <2>2. Moves(j, "profile", S, current[j], seen[j])
      BY <1>2, <1>4, <1>5, <1>6, JobLocals DEF Moves
    <2> QED  BY <2>1, <2>2, JobMoves
  <1>8. JobInv(j)'  BY <1>4, <1>7 DEF JobInv, Scored, Rows
  <1> QED  BY <1>3, <1>4, <1>7, <1>8, <1>9, QuietJobKeepsIInv

LEMMA EnsureInfraKeepsIInv == ASSUME IInv, NEW j \in Job, EnsureInfra(j) PROVE IInv'
  <1>1. UNCHANGED <<accounts, triggers, ledger, faults>> /\ UNCHANGED call
    BY DEF EnsureInfra
  <1>2. infra' \subseteq {"claims_profile", "campaign", "message_family"} /\ faults' \in 0..MaxFaults
    BY <1>1, JobLocals DEF EnsureInfra
  <1>3. LedgerQuiet  BY <1>1, SameLedgerIsQuiet
  <1>4. CASE jobPc[j] = "campaign"
    <2>1. GoOn(j)  BY <1>4 DEF EnsureInfra
    <2> QED  BY <1>1, <1>2, <1>3, <1>4, <2>1, GoingOnKeepsIInv
  <1>5. CASE jobPc[j] = "profile"
    <2>1. jobPc' = [jobPc EXCEPT ![j] = "campaign"] /\ UNCHANGED <<batch, current, seen>>
      BY <1>5 DEF EnsureInfra, JobGoto
    <2>2. /\ batch' = [batch EXCEPT ![j] = batch[j]] /\ current' = [current EXCEPT ![j] = current[j]]
          /\ seen' = [seen EXCEPT ![j] = seen[j]]
      BY <2>1, JobLocals
    <2>3. "campaign" \in Running /\ "campaign" \notin Scoring \cup Planning  BY DEF Running, Scoring, Planning
    <2>4. /\ TypeOK' /\ OtherJobsIdle(j) /\ jobPc'[j] = "campaign" /\ batch'[j] = batch[j]
      <3>1. TablesKeep  BY <1>1, <1>2, <1>3, TablesStay
      <3>2. Moves(j, "campaign", batch[j], current[j], seen[j])
        BY <1>1, <2>1, <2>2, <2>3, JobLocals DEF Moves
      <3> QED  BY <3>1, <3>2, JobMoves
    <2>5. JobInv(j)'  BY <1>1, <2>4, JobLocals DEF JobInv, Scored, Rows
    <2> QED  BY <1>1, <1>3, <1>5, <2>4, <2>5, QuietJobKeepsIInv
  <1> QED  BY <1>4, <1>5 DEF EnsureInfra

LEMMA ReadAccountKeepsIInv == ASSUME IInv, NEW j \in Job, ReadAccount(j) PROVE IInv'
  <1>1. /\ UNCHANGED <<accounts, triggers, infra, ledger, faults>> /\ UNCHANGED call
        /\ jobPc[j] = "account" /\ jobPc' = [jobPc EXCEPT ![j] = "count"]
    BY DEF ReadAccount, store
  <1>2. PICK a \in batch[j] :
           /\ current' = [current EXCEPT ![j] = a] /\ batch' = [batch EXCEPT ![j] = @ \ {a}]
           /\ seen' = [seen EXCEPT ![j].segment = accounts[a].segment, ![j].strategic = accounts[a].strategic]
    BY DEF ReadAccount
  <1>3. a \in Ingest /\ accounts[a] \in AccountRow /\ accounts[a] # NoRow /\ a # "none"
    <2>1. a \in Ingest /\ accounts[a] # NoRow  BY JobLocals DEF Rows
    <2> QED  BY <2>1, JobLocals, IdAssumption
  <1> DEFINE f == [seen[j] EXCEPT !.segment = accounts[a].segment, !.strategic = accounts[a].strategic]
  <1>4. f \in Facts /\ f.score \in {0} \cup 30..95
    <2>1. seen[j] \in Facts /\ seen[j].score \in {0} \cup 30..95  BY JobLocals
    <2>2. accounts[a].segment \in Segment /\ accounts[a].strategic \in BOOLEAN  BY <1>3 DEF AccountRow
    <2> QED  BY <2>1, <2>2 DEF Facts
  <1>5. seen' = [seen EXCEPT ![j] = f]
    <2>1. seen \in [Job -> Facts]  BY DEF IInv, TypeInv, TypeOK
    <2> QED  BY <1>2, <2>1
  <1> HIDE DEF f
  <1>6. "count" \in Running  BY DEF Running, Scoring
  <1>7. batch' = [batch EXCEPT ![j] = batch[j] \ {a}] /\ batch[j] \ {a} \in SUBSET Ingest
    BY <1>2, JobLocals
  <1>8. LedgerQuiet  BY <1>1, SameLedgerIsQuiet
  <1>9. /\ TypeOK' /\ OtherJobsIdle(j) /\ jobPc'[j] = "count" /\ batch'[j] = batch[j] \ {a}
    <2>1. TablesKeep  BY <1>1, <1>8, JobLocals, TablesStay
    <2>2. Moves(j, "count", batch[j] \ {a}, a, f)
      BY <1>1, <1>2, <1>3, <1>4, <1>5, <1>6, <1>7 DEF Moves
    <2> QED  BY <2>1, <2>2, JobMoves
  <1>10. JobInv(j)'  BY <1>1, <1>9, JobLocals DEF JobInv, Scored, Rows
  <1> QED  BY <1>1, <1>8, <1>9, <1>10, QuietJobKeepsIInv

LEMMA CountTriggersKeepsIInv == ASSUME IInv, NEW j \in Job, CountTriggers(j) PROVE IInv'
  <1> DEFINE n == Cardinality(TriggersOf(current[j]))
             f == [seen[j] EXCEPT !.count = n]
  <1>1. /\ UNCHANGED <<accounts, triggers, infra, ledger, faults, batch, current>> /\ UNCHANGED call
        /\ jobPc[j] = "count" /\ jobPc' = [jobPc EXCEPT ![j] = "jobPost"]
        /\ seen' = [seen EXCEPT ![j].count = n]
    BY DEF CountTriggers, store, JobGoto, See
  <1>2. n \in Nat  BY TriggersAreFinite DEF IInv, TypeInv
  <1> HIDE DEF n
  <1>3. f \in Facts /\ f.score \in {0} \cup 30..95 /\ f.count = n
    <2>1. seen[j] \in Facts /\ seen[j].score \in {0} \cup 30..95  BY JobLocals
    <2> QED  BY <1>2, <2>1 DEF Facts
  <1>4. seen' = [seen EXCEPT ![j] = f]
    <2>1. seen \in [Job -> Facts]  BY DEF IInv, TypeInv, TypeOK
    <2> QED  BY <1>1, <2>1
  <1> HIDE DEF f
  <1>5. "jobPost" \in Running /\ current[j] \in Ingest /\ current[j] # "none"
    BY <1>1, JobLocals, IdAssumption DEF Running, Scoring
  <1>6. batch' = [batch EXCEPT ![j] = batch[j]] /\ current' = [current EXCEPT ![j] = current[j]]
    BY <1>1, JobLocals
  <1>7. LedgerQuiet  BY <1>1, SameLedgerIsQuiet
  <1>8. /\ TypeOK' /\ OtherJobsIdle(j) /\ jobPc'[j] = "jobPost" /\ batch'[j] = batch[j]
        /\ current'[j] = current[j] /\ seen'[j] = f
    <2>1. TablesKeep  BY <1>1, <1>7, JobLocals, TablesStay
    <2>2. Moves(j, "jobPost", batch[j], current[j], f)
      BY <1>1, <1>3, <1>4, <1>5, <1>6, JobLocals DEF Moves
    <2> QED  BY <2>1, <2>2, JobMoves
  <1>9. JobInv(j)'
    <2>1. Rows(accounts)' = Rows(accounts) /\ TriggersOf(current[j])' = TriggersOf(current[j])
      BY <1>1 DEF Rows, TriggersOf
    <2>2. batch'[j] \subseteq Rows(accounts)'  BY <1>8, <2>1, JobLocals
    <2>3. Supported(current[j], seen[j].count, FALSE)'
      <3>1. current'[j] = current[j] /\ seen'[j].count = n  BY <1>3, <1>8
      <3>2. TriggersOf(current[j])' = TriggersOf(current[j])  BY <1>1, <3>1 DEF Rows, TriggersOf
      <3>3. seen'[j].count <= Cardinality(TriggersOf(current[j])')  BY <1>2, <3>1, <3>2 DEF n
      <3> QED  BY <3>3 DEF Supported
    <2> QED  BY <1>8, <2>2, <2>3 DEF JobInv, Scored
  <1> QED  BY <1>1, <1>7, <1>8, <1>9, QuietJobKeepsIInv

(* The score rests on what the job has read, with the answer of the last  *)
(* query, or on no job post when that fails.                              *)
LEMMA ScoreWithKeepsIInv == ASSUME IInv, NEW j \in Job, ReadJobPost(j) \/ JobPostReadFails(j) PROVE IInv'
  <1> DEFINE post == \E t \in TriggersOf(current[j]) : triggers[t].jobPost /\ triggers[t].recent
  <1>1. PICK recent \in BOOLEAN : ScoreWith(j, recent) /\ (recent => post)
    <2>1. CASE ReadJobPost(j)  BY <2>1, Zenon DEF ReadJobPost
    <2>2. CASE JobPostReadFails(j)  BY <2>2 DEF JobPostReadFails
    <2> QED  BY <2>1, <2>2
  <1> DEFINE score == compute_score([seen[j] EXCEPT !.recent = recent])
             f == [seen[j] EXCEPT !.recent = recent, !.score = score]
  <1>2. score \in 30..95  BY ScoreInRange
  <1> HIDE DEF score
  <1>3. /\ UNCHANGED <<accounts, triggers, infra, ledger, batch, current>> /\ UNCHANGED call
        /\ jobPc[j] = "jobPost" /\ jobPc' = [jobPc EXCEPT ![j] = "patch"]
        /\ seen' = [seen EXCEPT ![j].recent = recent, ![j].score = score]
    BY <1>1 DEF ScoreWith, store, JobGoto, score
  <1>4. faults' \in 0..MaxFaults /\ (faults' = 0 => faults = 0)
    <2>1. faults \in 0..MaxFaults /\ (faults' = faults \/ (faults < MaxFaults /\ faults' = faults + 1))
      BY DEF ReadJobPost, JobPostReadFails, IInv, TypeInv, TypeOK
    <2> QED  BY <2>1, LimitAssumption
  <1>5. seen[j] \in Facts  BY JobLocals
  <1>6. f \in Facts /\ f.score \in 30..95 /\ f.count = seen[j].count /\ f.recent = recent
    <2>1. score \in 0..100  BY <1>2
    <2> QED  BY <1>2, <1>5, <2>1 DEF Facts
  <1>7. seen' = [seen EXCEPT ![j] = f]
    <2>1. seen \in [Job -> Facts]  BY DEF IInv, TypeInv, TypeOK
    <2> QED  BY <1>3, <2>1
  <1> HIDE DEF f
  <1>8. "patch" \in Running /\ current[j] \in Ingest /\ current[j] # "none"
    BY <1>3, JobLocals, IdAssumption DEF Running, Scoring
  <1>9. batch' = [batch EXCEPT ![j] = batch[j]] /\ current' = [current EXCEPT ![j] = current[j]]
    BY <1>3, JobLocals
  <1>10. LedgerQuiet  BY <1>3, SameLedgerIsQuiet
  <1>11. /\ TypeOK' /\ OtherJobsIdle(j) /\ jobPc'[j] = "patch" /\ batch'[j] = batch[j]
         /\ current'[j] = current[j] /\ seen'[j] = f
    <2>1. TablesKeep  BY <1>3, <1>4, <1>10, JobLocals, TablesStay
    <2>2. Moves(j, "patch", batch[j], current[j], f)
      BY <1>3, <1>6, <1>7, <1>8, <1>9, JobLocals DEF Moves
    <2> QED  BY <2>1, <2>2, JobMoves
  <1>12. JobInv(j)'
    <2>1. Rows(accounts)' = Rows(accounts)  BY <1>3 DEF Rows
    <2>2. batch'[j] \subseteq Rows(accounts)'  BY <1>11, <2>1, JobLocals
    <2>3. Supported(current[j], seen[j].count, seen[j].recent)'
      <3>1. TriggersOf(current[j])' = TriggersOf(current[j])  BY <1>3, <1>11 DEF Rows, TriggersOf
      <3>2. seen'[j].count = seen[j].count /\ seen'[j].recent = recent  BY <1>6, <1>11
      <3>3. seen[j].count <= Cardinality(TriggersOf(current[j]))
        BY <1>3 DEF IInv, JobInv, Supported
      <3>4. recent => \E t \in TriggersOf(current[j]) : triggers[t].jobPost  BY <1>1
      <3> QED  BY <1>3, <3>1, <3>2, <3>3, <3>4 DEF Supported
    <2>4. seen'[j].score \in 30..95  BY <1>6, <1>11
    <2> QED  BY <1>11, <2>2, <2>3, <2>4 DEF JobInv, Scored
  <1> QED  BY <1>3, <1>4, <1>10, <1>11, <1>12, QuietJobKeepsIInv

(* The score is written: this job explains it from now on.                *)
LEMMA PatchScoreKeepsIInv == ASSUME IInv, NEW j \in Job, PatchScore(j) PROVE IInv'
  <1> DEFINE a == current[j]
             s == seen[j].score
  <1>1. /\ UNCHANGED <<triggers, infra, ledger, faults, batch, current, seen>> /\ UNCHANGED call
        /\ jobPc[j] = "patch" /\ jobPc' = [jobPc EXCEPT ![j] = "rowScored"]
        /\ accounts' = [accounts EXCEPT ![a].score = s]
    BY DEF PatchScore, JobGoto
  <1>2. /\ a \in Ingest /\ a # "none" /\ accounts[a] \in AccountRow /\ accounts[a] # NoRow
        /\ s \in 30..95 /\ Supported(a, seen[j].count, seen[j].recent)
    <2>1. jobPc[j] \in Scoring \cup Planning /\ jobPc[j] \in Scored  BY <1>1 DEF Scoring, Scored
    <2>2. a \in Ingest /\ a # "none"  BY <2>1, JobLocals, IdAssumption
    <2>3. accounts[a] # NoRow /\ accounts[a] \in AccountRow  BY <2>2, JobLocals
    <2> QED  BY <2>1, <2>2, <2>3 DEF IInv, JobInv
  <1> HIDE DEF a, s
  <1>3. /\ accounts' \in [Ingest -> AccountRow \cup {NoRow}]
        /\ accounts'[a] # NoRow /\ accounts'[a].score = s /\ accounts'[a].domain = accounts[a].domain
        /\ \A x \in Ingest \ {a} : accounts'[x] = accounts[x]
    <2>1. accounts \in [Ingest -> AccountRow \cup {NoRow}]  BY JobLocals
    <2>2. s \in 0..100  BY <1>2
    <2>3. /\ accounts'[a] \in AccountRow /\ accounts'[a].score = s /\ accounts'[a].domain = accounts[a].domain
          /\ \A x \in Ingest \ {a} : accounts'[x] = accounts[x]
      BY <1>1, <1>2, <2>1, <2>2 DEF AccountRow
    <2>4. \A r \in AccountRow : r # NoRow  BY DEF AccountRow, NoRow
    <2>5. accounts' \in [Ingest -> AccountRow \cup {NoRow}]  BY <1>1, <1>2, <2>1, <2>3
    <2> QED  BY <2>3, <2>4, <2>5
  <1>4. Grown  BY <1>1, <1>2, <1>3 DEF Grown, call
  <1>5. LedgerQuiet  BY <1>1, SameLedgerIsQuiet
  <1>6. /\ TypeOK' /\ OtherJobsIdle(j) /\ jobPc'[j] = "rowScored" /\ batch'[j] = batch[j]
        /\ current'[j] = a /\ seen'[j] = seen[j]
    <2>1. TablesKeep
      BY <1>1, <1>3, <1>5, JobLocals DEF TablesKeep, LedgerQuiet
    <2>2. Moves(j, "rowScored", batch[j], a, seen[j])
      BY <1>1, <1>2, <1>3, JobLocals DEF Moves, Running, Scoring, a
    <2> QED  BY <2>1, <2>2, JobMoves
  <1>7. TypeInv'  BY <1>5, <1>6 DEF TypeInv, LedgerQuiet
  <1>8. \A k \in Job \ {j} : JobIdles(k)  BY <1>5, <1>6 DEF JobIdles, OtherJobsIdle, LedgerQuiet
  <1>9. JobInv(j)'
    <2>1. batch'[j] \subseteq Rows(accounts)'  BY <1>4, <1>6, JobLocals DEF Rows, Grown, TypeOK
    <2>2. Supported(current[j], seen[j].count, seen[j].recent)'
      <3>1. TriggersOf(current[j])' = TriggersOf(a)  BY <1>1, <1>6 DEF Rows, TriggersOf
      <3> QED  BY <1>1, <1>2, <1>6, <3>1 DEF Supported
    <2>3. seen'[j].score \in 30..95  BY <1>2, <1>6 DEF s
    <2> QED  BY <1>6, <2>1, <2>2, <2>3 DEF JobInv, Scored
  <1>10. ScoreInv'
    <2>1. RowsOf("account.scored")' = RowsOf("account.scored")  BY <1>5 DEF LedgerQuiet
    <2>2. \A row \in RowsOf("account.scored") : Supported(row.account, row.count, row.recent)'
      BY <1>1 DEF IInv, ScoreInv, Supported, TriggersOf, Rows
    <2>3. ASSUME NEW x \in Rows(accounts)', accounts'[x].score # 0, faults' = 0
          PROVE  \E k \in Job : Backed(x, k)'
      <3>1. x \in Ingest /\ accounts'[x] # NoRow  BY <1>3 DEF Rows
      <3>2. CASE x = a
        <4>1. Backed(x, j)'  BY <1>3, <1>6, <3>2 DEF Backed, About, s
        <4> QED  BY <4>1
      <3>3. CASE x # a
        <4>1. x \in Rows(accounts) /\ accounts'[x] = accounts[x]
          BY <1>3, <3>1, <3>3, JobLocals DEF Rows
        <4>2. PICK k \in Job : Backed(x, k)  BY <1>1, <2>3, <4>1 DEF IInv, ScoreInv
        <4>3. About(k, x)' = About(k, x) /\ seen'[k] = seen[k]
          <5>1. CASE k = j  BY <1>1, <1>6, <3>3, <5>1 DEF About, a
          <5>2. CASE k # j  BY <1>6, <5>2 DEF About, OtherJobsIdle
          <5> QED  BY <5>1, <5>2
        <4>4. Backed(x, k)'  BY <2>1, <4>1, <4>2, <4>3 DEF Backed
        <4> QED  BY <4>4
      <3> QED  BY <3>2, <3>3
    <2> QED  BY <2>1, <2>2, <2>3 DEF ScoreInv
  <1>11. \A x \in Ingest : accounts[x] = NoRow => accounts'[x] = NoRow  BY <1>2, <1>3
  <1> QED  BY <1>1, <1>4, <1>5, <1>7, <1>8, <1>9, <1>10, <1>11, JobSuffices DEF LedgerQuiet

(* The row explains the score and replaces the last one of this job, so   *)
(* what the other jobs have explained stays explained.                    *)
LEMMA RecordScoreKeepsIInv == ASSUME IInv, NEW j \in Job, RecordScore(j) PROVE IInv'
  <1> DEFINE a == current[j]
             new == ScoreRow(j, NoKey)
  <1>1. /\ UNCHANGED <<accounts, triggers, infra, faults>> /\ UNCHANGED call /\ jobPc[j] = "rowScored"
        /\ ledger' = {row \in ledger : row.kind # "account.scored" \/ row.corr # <<j, a>>} \cup {new}
        /\ AfterScore(j)
    BY DEF RecordScore
  <1>2. /\ a \in Ingest /\ a # "none" /\ seen[j] \in Facts /\ seen[j].score \in 30..95
        /\ Supported(a, seen[j].count, seen[j].recent)
    <2>1. jobPc[j] \in Scoring \cup Planning /\ jobPc[j] \in Scored  BY <1>1 DEF Scoring, Scored
    <2>2. a \in Ingest /\ a # "none" /\ seen[j] \in Facts  BY <2>1, JobLocals, IdAssumption
    <2>3. seen[j].score \in 30..95 /\ Supported(a, seen[j].count, seen[j].recent)
      BY <2>1 DEF IInv, JobInv
    <2> QED  BY <2>2, <2>3
  <1>3. /\ new \in ScoredRows /\ new.kind = "account.scored" /\ new.corr = <<j, a>> /\ new.account = a
        /\ new.score = seen[j].score /\ new.count = seen[j].count /\ new.recent = seen[j].recent
    <2>1. /\ new.kind = "account.scored" /\ new.corr = <<j, a>> /\ new.account = a /\ new.key = NoKey
          /\ new.score = seen[j].score /\ new.count = seen[j].count /\ new.recent = seen[j].recent
      BY DEF ScoreRow
    <2>2. seen[j].count \in Nat /\ seen[j].recent \in BOOLEAN  BY <1>2 DEF Facts
    <2>3. new \in ScoredRow  BY <1>2, <2>2 DEF ScoreRow, ScoredRow
    <2> QED  BY <2>1, <2>3 DEF ScoredRows
  <1> HIDE DEF a, new
  <1>4. /\ \A row \in ledger' : row \in ledger \/ row = new
        /\ \A row \in ledger : row.kind # "account.scored" \/ row.corr # <<j, a>> => row \in ledger'
        /\ new \in ledger'
    BY <1>1
  <1>5. LedgerInv' /\ \A row \in ledger' : row.corr \in Ingest \cup (Job \X Ingest)
    <2>1. LedgerInv /\ \A row \in ledger : row.corr \in Ingest \cup (Job \X Ingest)
      BY DEF IInv, TypeInv, TypeOK
    <2>2. \A row \in RowsOf("account.created")' : row.account = row.corr
      BY <1>3, <1>4, <2>1 DEF LedgerInv, RowsOf
    <2>3. ledger' \subseteq TriggerRows \cup AccountRows \cup ScoredRows \cup FamilyRows
      BY <1>3, <1>4, <2>1 DEF LedgerInv
    <2>4. new.corr \in Job \X Ingest  BY <1>2, <1>3
    <2> QED  BY <1>4, <2>1, <2>2, <2>3, <2>4 DEF LedgerInv
  <1>6. ASSUME NEW x \in Ingest PROVE EvidenceTrail(x)' = EvidenceTrail(x)
    <2>1. x # <<j, a>>  BY <1>2, CorrelationsDiffer
    <2> QED  BY <1>3, <1>4, <2>1 DEF EvidenceTrail
  <1>7. /\ TypeOK' /\ OtherJobsIdle(j) /\ batch'[j] = batch[j] /\ jobPc'[j] \in {"idle", "account", "family"}
        /\ jobPc'[j] = "family" =>
              current'[j] = a /\ seen'[j] = seen[j] /\ seen[j].score >= 70
    <2>1. infra \subseteq {"claims_profile", "campaign", "message_family"} /\ faults \in 0..MaxFaults
      BY JobLocals
    <2>2. CASE GetsFamily(seen[j].score)
      <3>1. jobPc' = [jobPc EXCEPT ![j] = "family"] /\ UNCHANGED <<batch, current, seen>>
        BY <1>1, <2>2 DEF AfterScore, JobGoto
      <3>2. TablesKeep  BY <1>1, <1>5, <2>1, JobLocals DEF TablesKeep
      <3>3. accounts'[a] # NoRow  BY <1>1, <1>2, JobLocals DEF a
      <3>4. Moves(j, "family", batch[j], a, seen[j])
        BY <1>2, <3>1, <3>3, JobLocals DEF Moves, Running, Scoring, Planning, a
      <3> QED  BY <2>2, <3>2, <3>4, JobMoves DEF GetsFamily
    <2>3. CASE ~GetsFamily(seen[j].score)
      <3>1. GoOn(j)  BY <1>1, <2>3 DEF AfterScore
      <3>2. TypeOK'  BY <1>1, <1>5, <2>1, <3>1, GoingOnKeepsTypes
      <3> QED  BY <3>1, <3>2, GoingOn
    <2> QED  BY <2>2, <2>3
  <1>8. Rows(accounts)' = Rows(accounts) /\ \A x : TriggersOf(x)' = TriggersOf(x)
    BY <1>1 DEF Rows, TriggersOf
  <1>9. JobInv(j)'
    <2>1. batch'[j] \subseteq Rows(accounts)'  BY <1>7, <1>8, JobLocals
    <2>2. ASSUME jobPc'[j] = "family"
          PROVE  Supported(current[j], seen[j].count, seen[j].recent)' /\ seen'[j].score \in 30..95
      <3>1. TriggersOf(current[j])' = TriggersOf(a)  BY <1>1, <1>7, <2>2 DEF Rows, TriggersOf
      <3> QED  BY <1>1, <1>2, <1>7, <2>2, <3>1 DEF Supported
    <2>3. jobPc'[j] = "family" =>
            \E row \in RowsOf("account.scored")' : row.corr = <<j, current'[j]>> /\ row.score >= 70
      BY <1>3, <1>4, <1>7 DEF RowsOf
    <2> QED  BY <1>7, <2>1, <2>2, <2>3 DEF JobInv, Scored
  <1>10. ASSUME NEW k \in Job \ {j} PROVE JobIdles(k)
    <2>1. \A x \in Ingest : <<k, x>> # <<j, a>>  OBVIOUS
    <2>2. \A row \in RowsOf("account.scored") :
            (\E x \in Ingest : row.corr = <<k, x>>) => row \in RowsOf("account.scored")'
      BY <1>4, <2>1 DEF RowsOf
    <2> QED  BY <1>7, <2>2 DEF JobIdles, OtherJobsIdle
  <1>11. ScoreInv'
    <2>1. ASSUME NEW row \in RowsOf("account.scored")'
          PROVE  Supported(row.account, row.count, row.recent)'
      <3>1. CASE row = new  BY <1>1, <1>2, <1>3, <1>8, <3>1 DEF Supported
      <3>2. CASE row # new
        <4>1. row \in RowsOf("account.scored")  BY <1>4, <3>2 DEF RowsOf
        <4> QED  BY <1>1, <1>8, <4>1 DEF IInv, ScoreInv, Supported
      <3> QED  BY <3>1, <3>2
    <2>2. ASSUME NEW x \in Rows(accounts), accounts[x].score # 0, faults = 0
          PROVE  \E k \in Job : Backed(x, k)'
      <3>1. PICK k \in Job : Backed(x, k)  BY <2>2 DEF IInv, ScoreInv
      <3>2. x \in Ingest  BY JobLocals DEF Rows
      <3>3. CASE k # j
        <4>1. About(k, x)' = About(k, x) /\ seen'[k] = seen[k]
          BY <1>7, <3>3 DEF About, OtherJobsIdle
        <4>2. \A row \in RowsOf("account.scored") : row.corr = <<k, x>> => row \in RowsOf("account.scored")'
          BY <1>10, <3>2, <3>3 DEF JobIdles
        <4>3. Backed(x, k)'  BY <1>1, <3>1, <4>1, <4>2 DEF Backed
        <4> QED  BY <4>3
      <3>4. CASE k = j
        <4>1. ~About(j, x)'  BY <1>7 DEF About
        <4>2. CASE x = a
          <5>1. About(j, x)  BY <1>1, <4>2 DEF About, a
          <5>2. new.score = accounts[x].score  BY <1>3, <3>1, <3>4, <5>1 DEF Backed
          <5>3. new \in RowsOf("account.scored")'  BY <1>3, <1>4 DEF RowsOf
          <5>4. Backed(x, j)'  BY <1>1, <1>3, <4>1, <4>2, <5>2, <5>3 DEF Backed
          <5> QED  BY <5>4
        <4>3. CASE x # a
          <5>1. ~About(j, x)  BY <4>3 DEF About, a
          <5>2. PICK row \in RowsOf("account.scored") : row.corr = <<j, x>> /\ row.score = accounts[x].score
            BY <3>1, <3>4, <5>1 DEF Backed
          <5>3. row \in RowsOf("account.scored")'  BY <1>4, <4>3, <5>2 DEF RowsOf
          <5>4. Backed(x, j)'  BY <1>1, <4>1, <5>2, <5>3 DEF Backed
          <5> QED  BY <5>4
        <4> QED  BY <4>2, <4>3
      <3> QED  BY <3>3, <3>4
    <2> QED  BY <1>1, <1>8, <2>1, <2>2 DEF ScoreInv
  <1>12. TypeInv'  BY <1>5, <1>7 DEF TypeInv
  <1>13. Grown  BY <1>1 DEF Grown, call
  <1> QED  BY <1>1, <1>6, <1>9, <1>10, <1>11, <1>12, <1>13, JobSuffices

LEMMA CreateFamilyKeepsIInv == ASSUME IInv, NEW j \in Job, CreateFamily(j) PROVE IInv'
  <1>1. /\ UNCHANGED <<accounts, triggers, ledger, faults, batch, current, seen>> /\ UNCHANGED call
        /\ jobPc[j] = "family" /\ jobPc' = [jobPc EXCEPT ![j] = "rowFamily"]
    BY DEF CreateFamily, JobGoto
  <1>2. infra' \subseteq {"claims_profile", "campaign", "message_family"} /\ faults' \in 0..MaxFaults
    BY <1>1, JobLocals DEF CreateFamily
  <1>3. current[j] \in Ingest /\ current[j] # "none" /\ accounts'[current[j]] # NoRow
    <2>1. jobPc[j] \in Scoring \cup Planning  BY <1>1 DEF Planning
    <2> QED  BY <1>1, <2>1, JobLocals, IdAssumption
  <1>4. LedgerQuiet  BY <1>1, SameLedgerIsQuiet
  <1>5. /\ TypeOK' /\ OtherJobsIdle(j) /\ jobPc'[j] = "rowFamily"
    <2>1. TablesKeep  BY <1>1, <1>2, <1>4, TablesStay
    <2>2. Moves(j, "rowFamily", batch[j], current[j], seen[j])
      BY <1>1, <1>3, JobLocals DEF Moves, Running, Planning
    <2> QED  BY <2>1, <2>2, JobMoves
  <1>6. JobInv(j)'
    <2>1. JobInv(j)  BY DEF IInv
    <2>2. Rows(accounts)' = Rows(accounts) /\ RowsOf("account.scored")' = RowsOf("account.scored")
      BY <1>1 DEF Rows, RowsOf
    <2>3. Supported(current[j], seen[j].count, seen[j].recent)'
      BY <1>1, <2>1 DEF JobInv, Supported, TriggersOf, Rows, Scored
    <2> QED  BY <1>1, <1>5, <2>1, <2>2, <2>3 DEF JobInv, Scored
  <1> QED  BY <1>1, <1>4, <1>5, <1>6, QuietJobKeepsIInv

LEMMA RecordFamilyKeepsIInv == ASSUME IInv, NEW j \in Job, RecordFamily(j) PROVE IInv'
  <1> DEFINE row == [kind |-> "message_family.created", key |-> <<"message_family.created">>,
                     corr |-> <<j, current[j]>>]
  <1>1. /\ UNCHANGED <<accounts, triggers, infra, faults>> /\ UNCHANGED call
        /\ jobPc[j] = "rowFamily" /\ Record(row) /\ GoOn(j)
    BY DEF RecordFamily
  <1>2. current[j] \in Ingest
    <2>1. jobPc[j] \in Scoring \cup Planning  BY <1>1 DEF Planning
    <2> QED  BY <2>1, JobLocals
  <1>3. row \in FamilyRows /\ row.kind = "message_family.created" /\ row.corr \in Job \X Ingest
    BY <1>2 DEF FamilyRows
  <1> HIDE DEF row
  <1>4. ledger' = ledger \/ ledger' = ledger \cup {row}  BY <1>1 DEF Record
  <1>5. LedgerQuiet
    <2>1. CASE ledger' = ledger  BY <2>1, SameLedgerIsQuiet
    <2>2. CASE ledger' = ledger \cup {row}
      <3>1. row.corr \notin Ingest  BY <1>3, CorrelationsDiffer
      <3>2. \A x \in Ingest : EvidenceTrail(x)' = EvidenceTrail(x)  BY <2>2, <3>1 DEF EvidenceTrail
      <3>3. \A kind \in {"account.created", "account.scored"} : RowsOf(kind)' = RowsOf(kind)
        BY <1>3, <2>2 DEF RowsOf
      <3>4. LedgerInv'  BY <1>3, <2>2, <3>3 DEF IInv, TypeInv, LedgerInv
      <3>5. \A r \in ledger' : r.corr \in Ingest \cup (Job \X Ingest)
        BY <1>3, <2>2 DEF IInv, TypeInv, TypeOK
      <3> QED  BY <3>2, <3>3, <3>4, <3>5 DEF LedgerQuiet
    <2> QED  BY <1>4, <2>1, <2>2
  <1> QED  BY <1>1, <1>5, JobLocals, GoingOnKeepsIInv

-----------------------------------------------------------------------------
LEMMA WorldKeepsIInv == ASSUME IInv, World PROVE IInv'
  <1>1. /\ UNCHANGED <<infra, ledger, pc, signal, account, jobPc, batch, current, seen, faults>>
        /\ \/ triggers' = triggers /\ \E a \in Rows(accounts) : accounts' = [accounts EXCEPT ![a].strategic = TRUE]
           \/ accounts' = accounts /\ \E t \in Rows(triggers) : triggers' = [triggers EXCEPT ![t].recent = FALSE]
    BY DEF World, call, job
  <1>2. accounts \in [Ingest -> AccountRow \cup {NoRow}] /\ triggers \in [Ingest -> TriggerRow \cup {NoRow}]
    BY DEF IInv, TypeInv, TypeOK
  <1>3. /\ accounts' \in [Ingest -> AccountRow \cup {NoRow}]
        /\ \A x \in Ingest : /\ accounts[x] = NoRow <=> accounts'[x] = NoRow
                             /\ accounts[x] # NoRow => /\ accounts'[x].domain = accounts[x].domain
                                                       /\ accounts'[x].score = accounts[x].score
    <2>1. ASSUME NEW a \in Rows(accounts), accounts' = [accounts EXCEPT ![a].strategic = TRUE]
          PROVE  <1>3!1 /\ <1>3!2
      <3>1. a \in Ingest /\ accounts[a] \in AccountRow  BY <1>2, <2>1 DEF Rows
      <3>2. /\ accounts'[a] \in AccountRow /\ accounts'[a].domain = accounts[a].domain
            /\ accounts'[a].score = accounts[a].score
            /\ \A x \in Ingest \ {a} : accounts'[x] = accounts[x]
        BY <1>2, <2>1, <3>1 DEF AccountRow
      <3>3. \A r \in AccountRow : r # NoRow  BY DEF AccountRow, NoRow
      <3>4. accounts' \in [Ingest -> AccountRow \cup {NoRow}]  BY <1>2, <2>1, <3>1, <3>2
      <3> QED  BY <3>1, <3>2, <3>3, <3>4
    <2> QED  BY <1>1, <1>2, <2>1
  <1>4. /\ triggers' \in [Ingest -> TriggerRow \cup {NoRow}]
        /\ \A x \in Ingest : /\ triggers[x] = NoRow <=> triggers'[x] = NoRow
                             /\ triggers[x] # NoRow => /\ triggers'[x].account = triggers[x].account
                                                       /\ triggers'[x].jobPost = triggers[x].jobPost
    <2>1. ASSUME NEW t \in Rows(triggers), triggers' = [triggers EXCEPT ![t].recent = FALSE]
          PROVE  <1>4!1 /\ <1>4!2
      <3>1. t \in Ingest /\ triggers[t] \in TriggerRow  BY <1>2, <2>1 DEF Rows
      <3>2. /\ triggers'[t] \in TriggerRow /\ triggers'[t].account = triggers[t].account
            /\ triggers'[t].jobPost = triggers[t].jobPost
            /\ \A x \in Ingest \ {t} : triggers'[x] = triggers[x]
        BY <1>2, <2>1, <3>1 DEF TriggerRow
      <3>3. \A r \in TriggerRow : r # NoRow  BY DEF TriggerRow, NoRow
      <3>4. triggers' \in [Ingest -> TriggerRow \cup {NoRow}]  BY <1>2, <2>1, <3>1, <3>2
      <3> QED  BY <3>1, <3>2, <3>3, <3>4
    <2> QED  BY <1>1, <1>2, <2>1
  <1>5. Grown  BY <1>1, <1>3, <1>4 DEF Grown
  <1>6. TypeOK'
    <2>1. \A j \in Job : IF current'[j] = "none" THEN jobPc'[j] \notin Scoring \cup Planning
                                                ELSE accounts'[current'[j]] # NoRow
      BY <1>1, <1>3 DEF IInv, TypeInv, TypeOK
    <2> QED  BY <1>1, <1>3, <1>4, <2>1 DEF IInv, TypeInv, TypeOK
  <1>7. TypeInv'  BY <1>1, <1>6, LedgerKeeps DEF IInv, TypeInv
  <1>8. \A x \in Ingest : CallInv(x)'
    <2>1. \A x \in Ingest : CallIdles(x)  BY <1>1, <1>3, <1>4, LedgerKeeps DEF CallIdles
    <2> QED  BY <1>5, <2>1, CallsKeep DEF IInv, TypeInv
  <1>9. \A j \in Job : JobIdles(j)  BY <1>1, LedgerKeeps DEF JobIdles
  <1>10. \A j \in Job : JobInv(j)'  BY <1>5, <1>6, <1>9, JobsKeep DEF IInv, TypeInv
  <1>11. OneDomain'
    <2>1. Rows(accounts)' = Rows(accounts)  BY <1>2, <1>3 DEF Rows
    <2> QED  BY <1>5, <1>6, <2>1, OneDomainKeeps
  <1>12. ScoreInv'  BY <1>1, <1>3, <1>5, <1>6, <1>9, LedgerKeeps, ScoresKeep
  <1> QED  BY <1>7, <1>8, <1>10, <1>11, <1>12 DEF IInv

LEMMA StutterKeepsIInv == ASSUME IInv, UNCHANGED vars PROVE IInv'
  <1>1. UNCHANGED <<accounts, triggers, infra, ledger, pc, signal, account, jobPc, batch, current, seen, faults>>
    BY DEF vars, store, call, job
  <1>2. TypeInv'  BY <1>1 DEF IInv, TypeInv, TypeOK, LedgerInv, RowsOf
  <1>3. Grown  BY <1>1 DEF Grown
  <1>4. \A x \in Ingest : CallInv(x)'
    <2>1. \A x \in Ingest : CallIdles(x)  BY <1>1, LedgerKeeps DEF CallIdles
    <2> QED  BY <1>3, <2>1, CallsKeep DEF IInv, TypeInv
  <1>5. \A j \in Job : JobIdles(j)  BY <1>1, LedgerKeeps DEF JobIdles
  <1>6. \A j \in Job : JobInv(j)'  BY <1>2, <1>3, <1>5, JobsKeep DEF IInv, TypeInv
  <1>7. OneDomain'  BY <1>1 DEF IInv, OneDomain, Rows
  <1>8. ScoreInv'  BY <1>1, <1>2, <1>3, <1>5, LedgerKeeps, ScoresKeep DEF TypeInv
  <1> QED  BY <1>2, <1>4, <1>6, <1>7, <1>8 DEF IInv

LEMMA NextIInv == IInv /\ [Next]_vars => IInv'
  <1> SUFFICES ASSUME IInv, [Next]_vars PROVE IInv'
    OBVIOUS
  <1>1. ASSUME NEW i \in Ingest, IngestStep(i) PROVE IInv'
    BY <1>1, CallKeepsIInv, InsertAccountKeepsIInv, MergeAccountKeepsIInv, InsertTriggerKeepsIInv,
       RecordingKeepsIInv DEF IngestStep
  <1>2. ASSUME NEW j \in Job, Work(j) PROVE IInv'
    BY <1>2, FetchKeepsIInv, EnsureInfraKeepsIInv, ReadAccountKeepsIInv, CountTriggersKeepsIInv,
       ScoreWithKeepsIInv, PatchScoreKeepsIInv, RecordScoreKeepsIInv, CreateFamilyKeepsIInv,
       RecordFamilyKeepsIInv DEF Work
  <1>3. ASSUME NEW j \in Job, FetchFails(j) \/ JobPostReadFails(j) \/ SkipAccount(j) \/ Crash(j)
        PROVE  IInv'
    BY <1>3, FetchKeepsIInv, ScoreWithKeepsIInv, CrashKeepsIInv
  <1>4. CASE World  BY <1>4, WorldKeepsIInv
  <1>5. CASE UNCHANGED vars  BY <1>5, StutterKeepsIInv
  <1> QED  BY <1>1, <1>2, <1>3, <1>4, <1>5 DEF Next

LEMMA SpecIInv == Spec => []IInv
  BY InitIInv, NextIInv, PTL DEF Spec

-----------------------------------------------------------------------------
(* The tables, the ledger and what calls and jobs hold have their types,  *)
(* and a job that is scoring has an account that is there.                *)
THEOREM GrowthTypeCorrect == Spec => []TypeOK
  <1>1. IInv => TypeOK  BY DEF IInv, TypeInv
  <1> QED  BY <1>1, SpecIInv, PTL

(* Of all the signals that race for a company, one inserts its account,   *)
(* and one row of the ledger says so.                                     *)
THEOREM OneInsertWins == Spec => []OneAccountPerDomain
  <1>1. ASSUME IInv PROVE OneAccountPerDomain
    <2>1. ASSUME NEW r \in RowsOf("account.created"), NEW s \in RowsOf("account.created"),
                 r.account = s.account
          PROVE  r = s
      <3>1. r.account = r.corr /\ s.account = s.corr  BY <1>1 DEF IInv, TypeInv, LedgerInv
      <3>2. r \in AccountRows /\ s \in AccountRows /\ r.kind = "account.created" /\ s.kind = "account.created"
        BY <1>1, RowsAreTyped DEF IInv, RowsOf
      <3>3. ASSUME NEW row \in AccountRows
            PROVE  row = [kind |-> row.kind, key |-> <<row.kind, row.account, row.corr>>, corr |-> row.corr,
                          account |-> row.account]
        <4>1. PICK k \in AccountKind, a \in Ingest, i \in Ingest :
                 row = [kind |-> k, key |-> <<k, a, i>>, corr |-> i, account |-> a]
          BY DEF AccountRows
        <4>2. row.kind = k /\ row.account = a /\ row.corr = i  BY <4>1
        <4> QED  BY <4>1, <4>2, Zenon
      <3>4. r.kind = s.kind /\ r.account = s.account /\ r.corr = s.corr  BY <2>1, <3>1, <3>2
      <3> QED  BY <3>2, <3>3, <3>4, Zenon
    <2> QED  BY <1>1, <2>1 DEF IInv, OneDomain, OneAccountPerDomain
  <1> QED  BY <1>1, SpecIInv, PTL

(* An answered signal is in its trail with what it did to the account; a  *)
(* failed one has left nothing.                                           *)
THEOREM AnswersAreRecorded == Spec => []AnsweredSignalIsRecorded
  <1>1. ASSUME IInv PROVE AnsweredSignalIsRecorded
    BY <1>1 DEF IInv, CallInv, KindsOf, AnsweredSignalIsRecorded
  <1> QED  BY <1>1, SpecIInv, PTL

(* What the rows of scores rest on is in the tables, and no score is      *)
(* unexplained unless a job was interrupted.                              *)
THEOREM ScoresAreAccountedFor == Spec => []ScoreIsAccountedFor
  <1>1. ASSUME IInv PROVE ScoreIsAccountedFor
    <2>1. \A row \in RowsOf("account.scored") : Supported(row.account, row.count, row.recent)
      BY <1>1 DEF IInv, ScoreInv
    <2>2. ASSUME NEW a \in Rows(accounts), accounts[a].score # 0, faults = 0
          PROVE  \/ \E row \in RowsOf("account.scored") : row.account = a /\ row.score = accounts[a].score
                 \/ \E j \in Job : jobPc[j] = "rowScored" /\ current[j] = a /\ seen[j].score = accounts[a].score
      <3>1. PICK j \in Job : Backed(a, j)  BY <1>1, <2>2 DEF IInv, ScoreInv
      <3>2. CASE About(j, a)  BY <3>1, <3>2 DEF Backed, About
      <3>3. CASE ~About(j, a)
        <4>1. PICK row \in RowsOf("account.scored") : row.corr = <<j, a>> /\ row.score = accounts[a].score
          BY <3>1, <3>3 DEF Backed
        <4>2. row \in ledger /\ row.kind = "account.scored"  BY DEF RowsOf
        <4>3. row.corr[2] = row.account  BY <1>1, <4>2, RowsAreTyped DEF IInv, AccountKind
        <4> QED  BY <4>1, <4>3
      <3> QED  BY <3>2, <3>3
    <2> QED  BY <2>1, <2>2 DEF ScoreIsAccountedFor, Supported
  <1> QED  BY <1>1, SpecIInv, PTL

(* The family a job creates is recorded in the trail of a target's score. *)
THEOREM FamiliesFollowScores == Spec => FamilyFollowsScore
  <1> DEFINE Follows == \A row \in RowsOf("message_family.created")' \ ledger :
                \E scored \in RowsOf("account.scored") : scored.corr = row.corr /\ scored.score >= 70
  <1>1. ASSUME IInv, [Next]_vars PROVE [Follows]_vars
    <2> SUFFICES ASSUME NEW row \in ledger', row \notin ledger, row.kind = "message_family.created"
                 PROVE  \E scored \in RowsOf("account.scored") : scored.corr = row.corr /\ scored.score >= 70
      BY DEF RowsOf
    <2>1. ASSUME NEW i \in Ingest, IngestStep(i) PROVE FALSE
      <3>1. CASE RecordTrigger(i)  BY <3>1 DEF RecordTrigger, Record
      <3>2. CASE RecordAccount(i)  BY <3>2 DEF RecordAccount, Record, account_evidence_kind
      <3> QED
        BY <2>1, <3>1, <3>2 DEF IngestStep, Call, SelectAccount, InsertAccount, MergeAccount, InsertTrigger,
                                Lose, store
    <2>2. ASSUME NEW j \in Job, RecordFamily(j)
          PROVE  \E scored \in RowsOf("account.scored") : scored.corr = row.corr /\ scored.score >= 70
      <3>1. jobPc[j] = "rowFamily" /\ row.corr = <<j, current[j]>>
        BY <2>2 DEF RecordFamily, Record
      <3> QED  BY <1>1, <3>1 DEF IInv, JobInv
    <2>3. ASSUME NEW j \in Job, RecordScore(j) PROVE FALSE
      <3>1. ScoreRow(j, NoKey).kind = "account.scored"  BY DEF ScoreRow
      <3> QED  BY <2>3, <3>1 DEF RecordScore
    <2>4. ASSUME NEW j \in Job, Work(j), ~RecordFamily(j), ~RecordScore(j) PROVE FALSE
      BY <2>4 DEF Work, Fetch, Begin, EnsureInfra, ReadAccount, CountTriggers, ReadJobPost, ScoreWith,
                  PatchScore, CreateFamily, store
    <2>5. ASSUME NEW j \in Job, FetchFails(j) \/ JobPostReadFails(j) \/ SkipAccount(j) \/ Crash(j)
          PROVE  FALSE
      BY <2>5 DEF FetchFails, Begin, JobPostReadFails, ScoreWith, SkipAccount, Crash, store
    <2>6. CASE World  BY <2>6 DEF World
    <2>7. CASE UNCHANGED vars  BY <2>7 DEF vars, store
    <2> QED  BY <1>1, <2>1, <2>2, <2>3, <2>4, <2>5, <2>6, <2>7 DEF Next
  <1>2. Spec => [][Follows]_vars  BY <1>1, SpecIInv, PTL DEF Spec
  <1> QED  BY <1>2 DEF FamilyFollowsScore
=============================================================================
