---------------------------- MODULE AccountGrowth ----------------------------
(***************************************************************************)
(* The head of the funnel: ingest_signal of minilab-store/src/store.rs     *)
(* with the function minilab_upsert_account of the database, and the job   *)
(* bin/score.rs with scoring.rs and campaign.rs under it.  An ingest call  *)
(* is made once; a signal is retried as another call.  A job is a cron     *)
(* slot: its runs follow one another, those of different slots overlap.    *)
(***************************************************************************)
EXTENDS Integers, FiniteSets

CONSTANTS
    Ingest,         \* ingest calls; also the ids of what they insert
    Job,            \* the cron slots of the score job
    Domain,         \* company domains, the dedupe keys
    Segment,        \* ICP segments signals name; "" is none
    TargetSegment,  \* the three segments that score higher
    FetchLimit,     \* the limit of the job's fetch (50 in the code)
    MaxFaults,      \* bound on the errors and crashes of the jobs
    MaxChanges      \* bound on the changes the rest of the world makes

ASSUME SegmentAssumption == "" \in Segment /\ TargetSegment \subseteq Segment \ {""}
ASSUME LimitAssumption == FetchLimit \in Nat \ {0} /\ MaxFaults \in Nat /\ MaxChanges \in Nat
ASSUME IdAssumption ==
    "none" \notin Ingest /\ Ingest \cap (Job \X Ingest) = {} /\ IsFiniteSet(Ingest)

VARIABLES
    accounts,   \* account rows, by the call that inserted them
    triggers,   \* trigger_event rows, by the call that inserted them
    infra,      \* which of claims_profile, campaign, message_family are there
    ledger,     \* the evidence ledger: nothing here reads it, so a set of rows
    pc,         \* the await each ingest call is blocked in, or how it ended
    signal,     \* the signal it was called with
    account,    \* the account it found or inserted, "none" before
    jobPc,      \* the await each job is blocked in, "idle" between runs
    batch,      \* the accounts it fetched and has not begun
    current,    \* the account it is scoring
    seen,       \* what it read of it, and the score it computed
    faults      \* the errors and crashes so far

store == <<accounts, triggers, infra, ledger>>
call == <<pc, signal, account>>
job == <<jobPc, batch, current, seen, faults>>
vars == <<store, call, job>>

NoRow == [absent |-> TRUE]
Signal == [domain : Domain, segment : Segment, jobPost : BOOLEAN]
AccountRow == [domain : Domain, segment : Segment, strategic : BOOLEAN, score : 0..100]
TriggerRow == [account : Ingest, jobPost : BOOLEAN, recent : BOOLEAN]
Facts == [segment : Segment, strategic : BOOLEAN, count : Nat, recent : BOOLEAN, score : 0..100]
NoFacts == [segment |-> "", strategic |-> FALSE, count |-> 0, recent |-> FALSE, score |-> 0]

Calling == {"select", "upsert", "trigger", "rowTrigger", "rowAccount"}
Scoring == {"count", "jobPost", "patch", "rowScored"}
Planning == {"family", "rowFamily"}
Running == {"profile", "campaign", "account"} \cup Scoring \cup Planning

(* A post under a key that is taken is answered 409, a success. *)
NoKey == <<>>
Record(row) ==
    ledger' = IF row.key # NoKey /\ \E r \in ledger : r.key = row.key THEN ledger ELSE ledger \cup {row}

RowsOf(kind) == {row \in ledger : row.kind = kind}
EvidenceTrail(corr) == {row \in ledger : row.corr = corr}

Rows(table) == {i \in DOMAIN table : table[i] # NoRow}
TriggersOf(a) == {t \in Rows(triggers) : triggers[t].account = a}

(* 30 at least and 95 at most, so the clamp of the code never bites. *)
compute_score(f) ==
    50 + (IF f.segment \in TargetSegment THEN 20 ELSE 0)
       + (IF f.recent THEN 15 ELSE 0)
       + (IF f.count > 1 THEN 10 ELSE 0)
       - (IF f.strategic THEN 20 ELSE 0)

Init ==
    /\ accounts = [i \in Ingest |-> NoRow]
    /\ triggers = [i \in Ingest |-> NoRow]
    /\ infra = {}
    /\ ledger = {}
    /\ pc = [i \in Ingest |-> "idle"]
    /\ signal \in [Ingest -> Signal]
    /\ account = [i \in Ingest |-> "none"]
    /\ jobPc = [j \in Job |-> "idle"]
    /\ batch = [j \in Job |-> {}]
    /\ current = [j \in Job |-> "none"]
    /\ seen = [j \in Job |-> NoFacts]
    /\ faults = 0

-----------------------------------------------------------------------------
(* Ingest.                                                                 *)
Goto(i, next) == pc' = [pc EXCEPT ![i] = next]
CallKeeps == UNCHANGED <<signal, account>>

(* The SELECT of the upsert function sees the rows committed by then.      *)
SelectAccount(i) ==
    /\ pc[i] = "select"
    /\ account' = [account EXCEPT ![i] =
          IF \E a \in Rows(accounts) : accounts[a].domain = signal[i].domain
          THEN CHOOSE a \in Rows(accounts) : accounts[a].domain = signal[i].domain
          ELSE "none"]
    /\ Goto(i, "upsert")
    /\ UNCHANGED <<store, job, signal>>

(* Seeded bug: the table without the unique index on dedupe_key. *)
InsertUnindexed(i) ==
    /\ pc[i] = "upsert" /\ account[i] = "none"
    /\ accounts' = [accounts EXCEPT ![i] = [domain |-> signal[i].domain, segment |-> signal[i].segment,
                                            strategic |-> FALSE, score |-> 0]]
    /\ account' = [account EXCEPT ![i] = i]
    /\ Goto(i, "trigger")
    /\ UNCHANGED <<triggers, infra, ledger, job, signal>>

(* The INSERT of a domain that another call inserted in between violates  *)
(* the unique index: the call fails, having written nothing.              *)
InsertAccount(i) ==
    /\ pc[i] = "upsert" /\ account[i] = "none"
    /\ IF \E a \in Rows(accounts) : accounts[a].domain = signal[i].domain
       THEN Goto(i, "failed") /\ UNCHANGED <<accounts, account>>
       ELSE /\ accounts' = [accounts EXCEPT ![i] =
                  [domain |-> signal[i].domain, segment |-> signal[i].segment,
                   strategic |-> FALSE, score |-> 0]]
            /\ account' = [account EXCEPT ![i] = i]
            /\ Goto(i, "trigger")
    /\ UNCHANGED <<triggers, infra, ledger, job, signal>>

(* The UPDATE keeps the segment when the signal names none. *)
MergeAccount(i) ==
    /\ pc[i] = "upsert" /\ account[i] # "none"
    /\ accounts' = IF signal[i].segment = "" THEN accounts
                   ELSE [accounts EXCEPT ![account[i]].segment = signal[i].segment]
    /\ Goto(i, "trigger")
    /\ CallKeeps
    /\ UNCHANGED <<triggers, infra, ledger, job>>

(* The table has no unique column: a retry inserts a second trigger.      *)
InsertTrigger(i) ==
    /\ pc[i] = "trigger"
    /\ triggers' = [triggers EXCEPT ![i] = [account |-> account[i], jobPost |-> signal[i].jobPost,
                                            recent |-> TRUE]]
    /\ Goto(i, "rowTrigger")
    /\ CallKeeps
    /\ UNCHANGED <<accounts, infra, ledger, job>>

(* Seeded bug: the key of the trigger's row names the account. *)
RecordTriggerOnce(i) ==
    /\ pc[i] = "rowTrigger"
    /\ Record([kind |-> "trigger.ingested", key |-> <<"trigger.ingested", account[i]>>, corr |-> i,
               account |-> account[i]])
    /\ Goto(i, "rowAccount")
    /\ CallKeeps
    /\ UNCHANGED <<accounts, triggers, infra, job>>

RecordTrigger(i) ==
    /\ pc[i] = "rowTrigger"
    /\ Record([kind |-> "trigger.ingested", key |-> <<"trigger.ingested", i>>, corr |-> i,
               account |-> account[i]])
    /\ Goto(i, "rowAccount")
    /\ CallKeeps
    /\ UNCHANGED <<accounts, triggers, infra, job>>

account_evidence_kind(i) == IF account[i] = i THEN "account.created" ELSE "account.merged"

(* The last insert; its answer may still be lost. *)
RecordAccount(i) ==
    /\ pc[i] = "rowAccount"
    /\ Record([kind |-> account_evidence_kind(i), key |-> <<account_evidence_kind(i), account[i], i>>,
           corr |-> i, account |-> account[i]])
    /\ Goto(i, "done") \/ Goto(i, "lost")
    /\ CallKeeps
    /\ UNCHANGED <<accounts, triggers, infra, job>>

Call(i) == pc[i] = "idle" /\ Goto(i, "select") /\ CallKeeps /\ UNCHANGED <<store, job>>

(* A request or its answer is lost, or the process dies. *)
Lose(i) ==
    /\ pc[i] \in Calling
    /\ Goto(i, "lost")
    /\ account' = [account EXCEPT ![i] = "none"]
    /\ UNCHANGED <<store, job, signal>>

IngestStep(i) ==
    \/ Call(i) \/ SelectAccount(i) \/ InsertAccount(i) \/ MergeAccount(i)
    \/ InsertTrigger(i) \/ RecordTrigger(i) \/ RecordAccount(i) \/ Lose(i)

-----------------------------------------------------------------------------
(* The score job.  What it is doing with one account is over: it goes on   *)
(* with the next one, or its run ends.                                    *)
GoOn(j) ==
    /\ jobPc' = [jobPc EXCEPT ![j] = IF batch[j] = {} THEN "idle" ELSE "account"]
    /\ current' = [current EXCEPT ![j] = "none"]
    /\ seen' = [seen EXCEPT ![j] = NoFacts]
    /\ UNCHANGED batch

JobGoto(j, next) == jobPc' = [jobPc EXCEPT ![j] = next] /\ UNCHANGED <<batch, current>>
See(j, field, value) == seen' = [seen EXCEPT ![j][field] = value]

Begin(j, S) ==
    /\ jobPc[j] = "idle"
    /\ batch' = [batch EXCEPT ![j] = S]
    /\ jobPc' = [jobPc EXCEPT ![j] = "profile"]
    /\ UNCHANGED <<store, call, current, seen>>

Batches == {S \in SUBSET Rows(accounts) :
               \/ S = Rows(accounts) /\ Cardinality(S) <= FetchLimit
               \/ Cardinality(S) = FetchLimit}

(* Seeded bug: the best accounts first. *)
FetchHighest(j) ==
    /\ \E S \in Batches :
          /\ \A a \in S, b \in Rows(accounts) \ S : accounts[a].score >= accounts[b].score
          /\ Begin(j, S)
    /\ UNCHANGED faults

(* The accounts with the lowest scores first, so the unscored ones: order *)
(* among equals is open.                                                  *)
Fetch(j) ==
    /\ \E S \in Batches :
          /\ \A a \in S, b \in Rows(accounts) \ S : accounts[a].score <= accounts[b].score
          /\ Begin(j, S)
    /\ UNCHANGED faults

(* An error status of the fetch is read as an empty answer. *)
FetchFails(j) ==
    /\ faults < MaxFaults /\ faults' = faults + 1
    /\ Begin(j, {})

(* Idempotent by name, before the first account. *)
EnsureInfra(j) ==
    /\ \/ jobPc[j] = "profile" /\ infra' = infra \cup {"claims_profile"} /\ JobGoto(j, "campaign") /\ UNCHANGED seen
       \/ jobPc[j] = "campaign" /\ infra' = infra \cup {"campaign"} /\ GoOn(j)
    /\ UNCHANGED <<accounts, triggers, ledger, call, faults>>

(* It takes an account of the batch and reads its row. *)
ReadAccount(j) ==
    /\ jobPc[j] = "account"
    /\ \E a \in batch[j] :
          /\ current' = [current EXCEPT ![j] = a]
          /\ batch' = [batch EXCEPT ![j] = @ \ {a}]
          /\ seen' = [seen EXCEPT ![j].segment = accounts[a].segment, ![j].strategic = accounts[a].strategic]
    /\ jobPc' = [jobPc EXCEPT ![j] = "count"]
    /\ UNCHANGED <<store, call, faults>>

CountTriggers(j) ==
    /\ jobPc[j] = "count"
    /\ See(j, "count", Cardinality(TriggersOf(current[j])))
    /\ JobGoto(j, "jobPost")
    /\ UNCHANGED <<store, call, faults>>

ScoreWith(j, recent) ==
    /\ jobPc[j] = "jobPost"
    /\ seen' = [seen EXCEPT ![j].recent = recent,
                            ![j].score = compute_score([seen[j] EXCEPT !.recent = recent])]
    /\ JobGoto(j, "patch")
    /\ UNCHANGED <<store, call>>

ReadJobPost(j) ==
    /\ ScoreWith(j, \E t \in TriggersOf(current[j]) : triggers[t].jobPost /\ triggers[t].recent)
    /\ UNCHANGED faults

(* An error status of this query is read as: no recent job post. *)
JobPostReadFails(j) ==
    /\ faults < MaxFaults /\ faults' = faults + 1
    /\ ScoreWith(j, FALSE)

PatchScore(j) ==
    /\ jobPc[j] = "patch"
    /\ accounts' = [accounts EXCEPT ![current[j]].score = seen[j].score]
    /\ JobGoto(j, "rowScored")
    /\ UNCHANGED <<triggers, infra, ledger, call, seen, faults>>

(* A run has a fresh correlation for every account and its row has no key. *)
(* Nothing here reads those rows, so of the rows that repeated runs of a   *)
(* job leave for an account the last is kept, under the pair of the two.   *)
ScoreRow(j, key) ==
    [kind |-> "account.scored", key |-> key, corr |-> <<j, current[j]>>, account |-> current[j],
     score |-> seen[j].score, count |-> seen[j].count, recent |-> seen[j].recent]

(* Seeded bug: the threshold one rule too low. *)
GetsFamilyLow(score) == score >= 65

GetsFamily(score) == score >= 70

AfterScore(j) ==
    IF GetsFamily(seen[j].score) THEN JobGoto(j, "family") /\ UNCHANGED seen ELSE GoOn(j)

(* Seeded bug: a key that lets an account be scored once. *)
RecordScoreOnce(j) ==
    /\ jobPc[j] = "rowScored"
    /\ Record(ScoreRow(j, <<"account.scored", current[j]>>))
    /\ AfterScore(j)
    /\ UNCHANGED <<accounts, triggers, infra, call, faults>>

RecordScore(j) ==
    /\ jobPc[j] = "rowScored"
    /\ ledger' = {row \in ledger : row.kind # "account.scored" \/ row.corr # <<j, current[j]>>}
                    \cup {ScoreRow(j, NoKey)}
    /\ AfterScore(j)
    /\ UNCHANGED <<accounts, triggers, infra, call, faults>>

CreateFamily(j) ==
    /\ jobPc[j] = "family"
    /\ infra' = infra \cup {"message_family"}
    /\ JobGoto(j, "rowFamily")
    /\ UNCHANGED <<accounts, triggers, ledger, call, seen, faults>>

(* The key names the campaign and the label, and the job has one of each: *)
(* the row is written once, under the first account that got a family.    *)
RecordFamily(j) ==
    /\ jobPc[j] = "rowFamily"
    /\ Record([kind |-> "message_family.created", key |-> <<"message_family.created">>,
           corr |-> <<j, current[j]>>])
    /\ GoOn(j)
    /\ UNCHANGED <<accounts, triggers, infra, call, faults>>

(* An error with one account is printed and the run goes on: an error of   *)
(* the first read is that of the second, for both are skips.              *)
SkipAccount(j) ==
    /\ jobPc[j] \in Scoring \cup Planning /\ faults < MaxFaults
    /\ faults' = faults + 1
    /\ GoOn(j)
    /\ UNCHANGED <<store, call>>

(* The process dies, or exits on an error of the infrastructure. *)
Crash(j) ==
    /\ jobPc[j] \in Running /\ faults < MaxFaults
    /\ faults' = faults + 1
    /\ jobPc' = [jobPc EXCEPT ![j] = "idle"]
    /\ batch' = [batch EXCEPT ![j] = {}]
    /\ current' = [current EXCEPT ![j] = "none"]
    /\ seen' = [seen EXCEPT ![j] = NoFacts]
    /\ UNCHANGED <<store, call>>

Work(j) ==
    \/ Fetch(j) \/ EnsureInfra(j) \/ ReadAccount(j) \/ CountTriggers(j)
    \/ ReadJobPost(j) \/ PatchScore(j) \/ RecordScore(j) \/ CreateFamily(j) \/ RecordFamily(j)

(* The founder takes an account over, and a trigger grows old. *)
World ==
    /\ \/ /\ \E a \in Rows(accounts) : accounts' = [accounts EXCEPT ![a].strategic = TRUE]
          /\ UNCHANGED triggers
       \/ /\ \E t \in Rows(triggers) : triggers' = [triggers EXCEPT ![t].recent = FALSE]
          /\ UNCHANGED accounts
    /\ Cardinality({a \in Rows(accounts)' : accounts'[a].strategic})
         + Cardinality({t \in Rows(triggers)' : ~triggers'[t].recent}) <= MaxChanges
    /\ UNCHANGED <<infra, ledger, call, job>>

Next ==
    \/ \E i \in Ingest : IngestStep(i)
    \/ \E j \in Job : Work(j) \/ FetchFails(j) \/ JobPostReadFails(j) \/ SkipAccount(j) \/ Crash(j)
    \/ World

Spec == Init /\ [][Next]_vars

(* Cron starts every job again, and a run makes its next step. *)
FairSpec == Spec /\ \A j \in Job : WF_vars(Work(j))

-----------------------------------------------------------------------------
TypeOK ==
    /\ accounts \in [Ingest -> AccountRow \cup {NoRow}]
    /\ triggers \in [Ingest -> TriggerRow \cup {NoRow}]
    /\ infra \subseteq {"claims_profile", "campaign", "message_family"}
    /\ \A row \in ledger : row.corr \in Ingest \cup (Job \X Ingest)
    /\ pc \in [Ingest -> Calling \cup {"idle", "done", "failed", "lost"}]
    /\ signal \in [Ingest -> Signal]
    /\ account \in [Ingest -> Ingest \cup {"none"}]
    /\ jobPc \in [Job -> Running \cup {"idle"}]
    /\ batch \in [Job -> SUBSET Ingest]
    /\ current \in [Job -> Ingest \cup {"none"}]
    /\ \A j \in Job : IF current[j] = "none" THEN jobPc[j] \notin Scoring \cup Planning
                                            ELSE accounts[current[j]] # NoRow
    /\ seen \in [Job -> Facts]
    /\ \A j \in Job : seen[j].score \in {0} \cup 30..95
    /\ faults \in 0..MaxFaults

(* However signals of one company race, it has one account, and at most   *)
(* one call tells the ledger it created it.                               *)
OneAccountPerDomain ==
    /\ \A a, b \in Rows(accounts) : accounts[a].domain = accounts[b].domain => a = b
    /\ \A r, s \in RowsOf("account.created") : r.account = s.account => r = s

(* A signal that was answered is in the trail of the answer, with what it *)
(* did to the account, and has its trigger at the account of its domain;  *)
(* one that failed on the race has left nothing to retry against.         *)
AnsweredSignalIsRecorded ==
    \A i \in Ingest :
        /\ pc[i] = "done" =>
             /\ {row.kind : row \in EvidenceTrail(i)} = {"trigger.ingested", account_evidence_kind(i)}
             /\ triggers[i].account = account[i]
             /\ accounts[account[i]].domain = signal[i].domain
        /\ pc[i] = "failed" => triggers[i] = NoRow /\ EvidenceTrail(i) = {}

(* Scores are accounted for.  What a row says its score rests on is in the *)
(* tables, although it was read in three requests while signals came in:  *)
(* no more triggers than the account has, and a job post only if there is *)
(* one.  And the score an account shows is one the ledger explains, or is *)
(* about to; only an interrupted job leaves it unexplained.               *)
ScoreIsAccountedFor ==
    /\ \A row \in RowsOf("account.scored") :
          /\ row.count <= Cardinality(TriggersOf(row.account))
          /\ row.recent => \E t \in TriggersOf(row.account) : triggers[t].jobPost
    /\ \A a \in Rows(accounts) :
          (accounts[a].score # 0 /\ faults = 0) =>
              \/ \E row \in RowsOf("account.scored") :
                    row.account = a /\ row.score = accounts[a].score
              \/ \E j \in Job : jobPc[j] = "rowScored" /\ current[j] = a /\ seen[j].score = accounts[a].score

(* The row of the family is written under the correlation of an account   *)
(* that was scored as a target before, in the same trail.                 *)
FamilyFollowsScore ==
    [][\A row \in RowsOf("message_family.created")' \ ledger :
          \E scored \in RowsOf("account.scored") : scored.corr = row.corr /\ scored.score >= 70]_vars

(* Again and again every account is scored, however many came and whatever *)
(* the limit: no score is as low as that of an unscored account, so the   *)
(* unscored are not starved by the scored.                                *)
EveryAccountIsScored ==
    []<>(\A a \in Rows(accounts) : accounts[a].score > 0)
=============================================================================
