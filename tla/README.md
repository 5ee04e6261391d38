# Minilab: specifications, model checks and proofs

This directory holds TLA+ modules that model the Rust workspace under `crates/`,
the TLC configurations that check them on small instances, and TLAPS proofs.
`PROJECT.json` maps every definition to the lines it models.

Minilab is a set of short-lived asynchronous handlers and cron binaries around one
PostgREST database. There is no transaction across requests, no lock and no leader:
every step of a handler is a separate HTTP request, any number of handlers run at the
same time, and each of them may be cut off between two requests by a timeout, an error
or a crash. What holds the system together is the **evidence ledger**, an append-only
table with a unique index on an optional idempotency key; a rejected duplicate (409)
is treated as success. Nearly every property below is about what this arrangement
does and does not give.

## 1. Inventory

| Component | State it keeps | Operations | Talks to |
|---|---|---|---|
| evidence ledger (`minilab-store/src/evidence.rs`, migration 005) | rows: kind, payload, correlation, sim_mode, key | keyed insert; newest-first limited queries | everything below |
| `host.pair` (`host_pair.rs`) | none of its own; reads `host` | one call: checks, replay query, initiated row, executor, paired / failed row | ledger, table `host` |
| `outbound.send` (`outbound_orchestrator.rs` with `eligibility.rs`, `premium.rs`, `optout_gate.rs`, `policy.rs`) | none; reads contact, account, campaign, policy_rule | one call: gates, policy, admission, dispatch, closing row | ledger, providers |
| dispatch (`outbound.rs`, `client.rs`) | none | context, rendering, choice of provider, post | SendGrid, Twilio, mock |
| sequence sender (`bin/send_due.rs`, `outreach.rs`) | `sequence.state` | cron run: fetch batch; per sequence policy, dispatch, state change, row | ledger, dispatch |
| inbound replies (`reply.rs`, `webhook.rs`, the webhooks of `minilab-api/src/app.rs`) | `reply`, `contact.opt_out` | verify, resolve contact and outreach, store, classify, apply opt-out | ledger |
| `install.reconcile` (`install_reconcile.rs`) | none (`installation_state` is written by no code) | one call: lookup, diff, plan row, step rows, closing row | ledger |
| command dispatcher (`dispatcher.rs`, `real_dispatcher.rs`) | none | decodes operational commands, reports Success / Failure / Blocked | orchestrators |
| plan executor (`constitutional-runtime/src/plan_executor.rs`) | none; a list of outcomes per run | dispatches the commands of a plan in order, halts, skips, blocks what waits for a confirmation | dispatcher |
| runtime admission (`constitutional-runtime/src/admission.rs`), decision, policy, capability, validation | none (pure) | verdict on an act, on an action | compiler, store admission |
| planning compiler, strong and operational grammar, lowering, IR | none (pure) | text to plan to commands | CLI, API |
| store admission (`minilab-store/src/admission.rs`) | the world's lists of rulings and admitted acts | load a context, evaluate, commit | runtime admission |
| account ingest (`store.rs`, `bin/ingest.rs`, migration 007) | account, trigger_event | one call per signal: select, insert or merge, trigger, two rows | ledger |
| scoring and campaign (`scoring.rs`, `campaign.rs`, `bin/score.rs`) | account.score, claims profile, campaign, message family | cron run: ensure the campaign, fetch accounts, score each, write the family once | ledger |
| lineage audit (`audit.rs`) | none | summarizes, explains and counts the trails of correlations | ledger |
| agent runtime (`minilab-api/src/agent_runtime.rs`) | sessions in memory behind one mutex: latest run, checkpoint, output, capped trail, pipeline evidence | message (draft, then its pipeline), governed drafts, artifact, summary, output, external result, note | planner, plan executor with a scripted dispatcher |
| API, MCP tools, inference | request state | routing, timeouts, formatting | all |
| core model (`minilab-core`) | static registries | elastic configuration, exploration, workflows | all |
| CLI | none | compiles files | compiler |

**Hard behaviours.** Two calls between whose requests anything may happen (all
orchestrators, ingest, the score job); rows of one call swallowed by rows of another one under the same key;
a retry after a lost answer; a run of the sender overlapping the next one; webhooks
delivered twice, at once or after a failure halfway; opt-outs arriving while a batch
or a call is under way; limited queries that no longer reach the row they look for; two
sending paths recording under different kinds. `PROJECT.json` lists each one at its
line under `hazards`.

**What makes each component correct.** *host.pair*: nothing executed before admission,
a spent challenge stays spent, production pairings verified, an answer is recorded.
*outbound.send*: an earlier opt-out is honoured, a production call and the whole chain
precede a delivery, what the caller was told is in the ledger, and the audit of the
ledger answers for what was sent. *Sequence sender*: rows agree with
state, a row names a delivered message, an opt-out known at the fetch holds for the
batch, a dispatchable sequence is not starved. *Replies*: an acknowledged STOP is
applied completely, a reply is filed under its sender's thread. *Loop*: an acknowledged
STOP stops all later runs and calls, and one that answers a recorded message is taken.
*install.reconcile*: closures backed by plan and step rows, a
retry of a call that closed well drives nothing, a manifest new to its installation is
installed when its call answers.
*Ingest and scoring*: one account per company, an answered signal is in its trail, a
score is accounted for by what it was computed from, a family only for a target, every
account is scored. *Admission*: what is admitted is permitted by the documents, a
receipt is the caller's own. *Planner*: a requested surface is not replaced, a text
acts only by the lines that command an act. *Plan executor*: nodes in order, nothing
behind a node that did not succeed, one act per node and run, outcomes that account for
the acts. *Agent runtime*: what is attached to a run stays on it, a draft that waits
ends by an output only, the trail shows the latest updates, no pipeline of a past
message is shown.

## 2. Modules

```
EvidenceLedger ─┬─ HostPair ──(refines)── Pairing
                ├─ InstallReconcile
                ├─ Audit ────────────────┐
                └─ GtmStore ─┬─ OutboundSend ─┐
                             ├─ SendDue ══════╪═ Gtm (composition)
                             └─ ReplyIngest ──┘
AccountGrowth          Admission
Planning ─┬─ PlanExecutor ──(refines)── PlanPromise
          ├─ StrongGrammar ── AgentRuntime
          └─ OperationalGrammar
```

`MC*` modules give the constants of a component their values for TLC (MCPlanExecutor
also the programs and texts of the two grammars); `*_proofs` modules hold the theorems
about the component they are named after. `Gtm` extends `SendDue` and instantiates the
other two over its tables, so `Gtm_proofs` has the theorems of the sender and those of
the loop.

Conventions shared by all of them. A process is a call, a handler or a cron slot; its
`pc` names the await it is blocked in, and one action is the request that ends this
await together with all local code up to the next one. The ledger is a sequence of
records; a key is the tuple of the values the code formats into the key string, so two
calls collide exactly when the strings would (in `AccountGrowth`, where nothing depends on
the order of rows, it is a set). Whatever ends a process early — an HTTP
error, the API's `TimeoutLayer`, a crash — is one action (`Abort`, `Lose`, `Skip`,
`Crash`) that keeps the effects already made; an effect whose answer is lost is the
effect's action followed by it. Fresh uuids (pairing session, dispatch id, the
correlation of a cron dispatch) are the identity of the process that draws them.
`late`, `early`, `ackedBefore`, `repeats`, `fresh` and, where the payload has no such
value, the field `by` of a row exist for the properties.
Definitions marked *Seeded bug* are used by nothing: they are what a plausible mistake
in that code would be, and show that each property can fail.

| Module | Models | Correspondence |
|---|---|---|
| `EvidenceLedger` | `evidence.rs`, migration 005 | `InsertLedgerRow` is the post with 409 as success, `Latest` a `kind=eq…&order=created_at.desc&limit=n` query |
| `Pairing` | what the comments of `host_pair.rs` promise about replays | abstract: begin, spend, pair |
| `HostPair` | `submit_host_pair` | `FetchHost` (checks 1–4), `ScanReplay` (5), `RecordInitiated` (6, 7 and the shape check), `RecordPaired` (8), `RecordFailed` (`fail`). The signature and the base64 shape are two independent facts about the input |
| `GtmStore` | the shared tables, `decide_send_policy`, `effective_provider`, the checks of `dispatch_sequence` before the post | a rule is `block_all` or one allowed segment; a contact has `opt_out` and maybe a phone; a campaign has a channel and maybe a message family |
| `OutboundSend` | `submit_outbound_send` and its gates | one action per await, in the order of the code. The two stub evaluators only leave rows |
| `SendDue` | `bin/send_due.rs`, `outreach.rs` | a slot runs again and again, each run a fresh process; `Mark` is the conditional PATCH, `Recheck` the second read. `send_due` reads the opt-out column and the rules, never the ledger |
| `ReplyIngest` | `ingest_reply`, the webhooks | `ResolveContact`, `ResolveThread`, then one action per write. A message is (sender, channel, hint, stop, id) |
| `Gtm` | the three above over one database | a step of the loop is a step of one of them that leaves the locals of the others alone; replies answer delivered messages and ask to stop |
| `Audit` | `audit.rs` | pure operators over the rows of a correlation: what it expects, takes for closed, contacted, blocked, and gives as reasons. `OutboundSend` states what they must answer |
| `AccountGrowth` | `ingest_signal`, the function of migration 007, the score job | one action per request of a call and of a job; the select and the insert of the database function are two steps under the unique index, as concurrent transactions see them. A job is a slot whose runs repeat; a call is made once, its retry is another call |
| `Admission` | `evaluate_admission`, `AdmissionService` | `evaluate_admission` as an operator on an act and a context; a call loads, evaluates outside the lock, commits under it |
| `InstallReconcile` | `submit_install_reconcile` | a manifest stands for its hash and is a validity flag with a sequence of services |
| `Planning` | `validation.rs`, `capability.rs`, `planning_compiler.rs`, `lowering.rs`, the contracts of `idempotency.rs` | pure operators. A program is the sequence of its nodes in graph order; a body is its wrappers (`Route`, `Schedule`, `Confirm`), its core primitive and what the planner reads of it. `Plans` is the plan of a program, or nothing |
| `OperationalGrammar` | `operational_grammar.rs`, `act_identity.rs` where it parses identities | pure operators: which texts of indented lines parse, what a command lowers to, and the nodes of a text, parents before their children |
| `StrongGrammar` | `strong_grammar.rs` | pure operators: what an expression compiles to, as the sequence of nodes in the order the executor visits them, or nothing when the compiler refuses |
| `PlanPromise` | what the comments of `plan_executor.rs` promise | abstract: act once at a node, go on after a success, stop for good otherwise |
| `PlanExecutor` | `plan_executor.rs` (both executors), `dispatcher.rs`, `real_dispatcher.rs` | `Continue` is the loop body up to the next await, `Outcomes` the match of `dispatch_real`. A slice is reduced to the stages a plan can see: called, admitted, acted, closed |
| `CommandTexts` | the executor on programs of the operational grammar | what a text, compiled by `OperationalGrammar`, planned and executed, may do |
| `AgentRuntime` | `agent_runtime.rs` and its handlers in `app.rs`, `mcp_command.rs`, `mcp_artifacts.rs` | one action per possession of the mutex; only a message takes it twice, `RecordDraft` and `AttachRuntimePipeline`. Handlers await nothing in between, so none is cut off. `Located` is the lookup by session or run id |

In `AgentRuntime` the fresh uuids are the call that draws them; reply texts, the number
of artifacts, timestamps and the kind of a candidate are left out; `updates` and
`racing` exist for the properties. The definitions of `AgentRuntime` and `Admission`
that every module has are named after what they model (`SessionsInit`, `AdmissionNext`),
since `Runtime_proofs` extends both beside the executor.

The commands of `host.pair`, `outbound.send` and `install.reconcile` are the only ones
that reach an orchestrator. `PlanExecutor` reduces them to four stages and lets a slice
fail at each of them; what a slice does between two stages is the subject of its own
module, and which answer belongs to which stage is taken from it. `Declare` lets a
caller put a `ConfirmedNonIdempotent` contract on nodes of a plan: no planner does this,
but the executor takes any plan, and its tests do.

Abstracted: message and template texts, HTTP formats, the provider's status codes
(accept, reject, or lost), the wording of `reason_detail`, timestamps (order of rows,
order of sequences), everything of a payload no query and no property reads.

External assumptions. A dispatch of the sender draws a correlation no caller has, and
the ids of runs, calls and dispatches differ (`IdAssumption` in `Gtm`; `send_due.rs:47`
draws a fresh uuid, as the callers do). PostgREST applies each request atomically, and answers a
duplicate key with 409. The insert into `reply` sends `resolution=ignore-duplicates`
without naming a conflict target; `InsertReply` takes it as the comment-free code
does, as ignoring a duplicate `channel_message_id` and reading the existing row. If
PostgREST resolved the conflict on the primary key only, the duplicate would be a 409
and every redelivery would end there: the model would have to follow
`InsertReplyOnce`, under which `AckedStopIsApplied` fails. A provider gives an id to
one message only. Operators edit rules and host rows with SQL.

## 3. Runs

Passing runs. Every property has a mutant of a modelled definition that breaks it.

| Run | Instance | Shows |
|---|---|---|
| `HostPair` | 2 calls, 2 challenges, 2 correlations, production and simulation, every input | `ExecutionFollowsAdmission`, `ProductionPairingIsVerified`, `ReturnedOutcomeIsRecorded`; `KeepsPromise`: HostPair implements `Pairing` |
| `OutboundSend` | 2 calls that may be retries of one another, a live client and a misconfigured simulation, rules changing, 1 asserted opt-out | `OptOutBeforeCallIsHonoured`, `DeliveryHasFullChain`, `OutcomeIsClosed`, `AuditAnswersForSends` |
| `SendDue` | 2 slots under either mode, 2 sequences with campaigns of their own, 1 fault, fair | `TerminalRowMatchesState`, `SentRowNamesDeliveredMessage`, `OptOutBeforeFetchIsHonoured`, `DispatchableSettles` |
| `ReplyIngest` | 2 deliveries, 2 contacts, every hint, a second STOP mail | `ReplyFiledUnderSenderThread`, `AckedStopIsApplied`, `LedgerOptOutIsInColumn` |
| `Gtm` | 2 sequences, 1 call, 1 reply, 1 fault | `AckedStopStopsLaterSends`, `StopToRecordedMailIsTaken` |
| `InstallReconcile` | 2 calls, every pair of 5 manifests as desired and applied | `ClosureIsBacked`, `RetryDrivesNothing`, `NewManifestIsInstalled` |
| `PlanExecutor` | 2 runs of each program: 18 bodies, every pair with one that lands, two triples, the compilations of Strong Grammar expressions and of 22 texts (up to 5 nodes), 5 sets of manifests, 10 contexts, contracts declared for any nodes | `OnlyMaterialClassesAct`, `NothingActsPastConfirmation`, `ExplicitSurfaceIsKept`, `OutcomesAccountForActs`, `TextsActByTheirLines`; `KeepsPlanPromise`: PlanExecutor implements `PlanPromise` |
| `AgentRuntime` | 3 calls, a named session and the unnamed ones, a known and an unknown output class | `AttachmentsFollowTheirRun`, `WaitingEndsByOutput`, `TrailShowsLatestUpdates`, `PipelineIsOwnOrRacing` |
| `AccountGrowth` | 2 signals of one company or two, 1 score job running again and again, a fetch of 1, 1 fault, 1 change from outside, fair | `OneAccountPerDomain`, `AnsweredSignalIsRecorded`, `ScoreIsAccountedFor`, `FamilyFollowsScore`, `EveryAccountIsScored` |
| `Admission` | 2 calls with every act, 2 actors, 2 dids, contexts of up to 1 passport, 2 visas, 1 gate, 2 boundaries | `AdmittedIsPermitted`, `ReceiptNamesItsRuling` |

The type invariant is checked by the runs `OutboundSend`, `PlanExecutor` (`TypeOK`) and
`AgentRuntime` (`SessionsTypeOK`); it is a theorem for every component (section 4), and
part of the invariant of `Gtm`.

Violation runs. Each states what a comment or a document says, and TLC shows the code
does otherwise; `PROJECT.json` quotes the line under `findings`.

| Run | Property refuted | In short |
|---|---|---|
| `HostPairReuse` | `ChallengePairsOnce` | the unique key is no net below the replay check: its 409 is success and two racing calls both pair |
| `PlanRetry` | `RetryIsNoOp` | `outbound.send` is declared deduplicated, but a plan run again delivers again |

**Met while modelling.** The models contain these behaviours too; no run is kept for
them, each is a few steps long:

- *keys without a correlation*: the loser of a pairing race pairs without an
  `initiated` row of its own; the second refusal of one challenge for one reason, the
  policy verdict of a retry and the second of two install plans are swallowed as
  duplicates; an installation may close over steps filed under another correlation; a
  service named twice in a manifest leaves one step row (`ClosuresAreBacked` assumes
  there is none);
- *ledger shared between modes*: the replay query and the unique keys do not look at
  `sim_mode`, so the initiated row of a simulation or a counterfactual call spends a
  challenge for production, although `simulation.rs:23` says of the latter "without
  touching production evidence";
- *limited queries*: a challenge older than the latest 50 initiated rows of all hosts
  pairs again; the opt-out query sees the latest 20 of all contacts, an older one no
  longer stops a message unless the column has it, although `optout_gate.rs:53` names
  the rows "for this contact" and says "Either being present blocks the send"
  (`OptOutBeforeCallIsHonoured` judges by all rows, and is violated with `OptOutWindow`
  below `MaxAssertions`); 100 undispatchable sequences starve all others, although
  `send_due.rs:1` says "on all pending sequences";
- *two sending paths*: a STOP to an `outbound.sent` message finds no thread, since the
  reply path reads `outreach.sent` only; the opt-out gate checks the requested channel,
  the message leaves on the campaign's;
- *effects in two requests*: after a crash a sent sequence may have no row; a sequence
  one run delivered may be recorded as blocked by an overlapping one, or delivered by
  both; an opt-out that arrives during a dispatch stops nothing; a host retired during
  a pairing call is still paired;
- *closing rows*: a contract error or an error of the dispatch other than the provider's
  refusal (`outbound_orchestrator.rs:266`) after admission closes nothing, although
  `outbound_orchestrator.rs:100` says "Every terminal branch writes closed evidence";
- *closures that outlive the state*: a call is answered from any earlier closure of its
  installation and manifest before desired and applied are compared. Going back to a
  manifest that was reconciled before another one is therefore answered as reconciled
  with nothing applied, whatever the snapshot says, although
  `docs/integration/reconcile-anatomy.md:11` says that install.reconcile "compares it
  with an optional applied manifest snapshot, applies only divergent payload-service
  steps", and `install_reconcile.rs:4` that it compares "desired and applied". Without
  a closure, the step rows of an earlier, cut-off call of the manifest swallow the new
  ones as duplicates. `RetryDrivesNothing` is therefore about the retry of the same call with no
  step in between, and `NewManifestIsInstalled` about a manifest new to its installation:
  both stop short of this boundary;
- *audit*: a refusal before admission is never `evidence_closed`, its trail lacks the
  expected kinds; `explain_touch` looks for payload names (`eligible`, `pass`, `reason`)
  the orchestrators do not write and takes a float score for none, so "why contacted"
  (`slice-roadmap.md:18`) says only that the act was admitted; a retry refused after a
  delivery whose answer was lost closes a trail as not contacted; the trail of an
  `outreach.sent` row is never closed, because `send_due` draws its own correlation, nor
  is one of the first week, because ingest and score draw different ones and the family
  row is written once ever;
- *growth*: a strategic account scores up to 75 and gets a family although
  `scoring.rs:16` says "route to Founder, skip SDR"; a domain is not normalised; a
  retried signal is another trigger, ten points more; an error of the `job_post` query
  is read as none;
- *admission*: the first closed and valid visa decides, a later visa that forbids the
  act is not read; one act can be admitted any number of times; times are compared as
  strings; the Supabase world refuses every load and commit;
- *plans*: `real_dispatcher.rs:174` takes every contract error for a refusal before the
  dispatch, yet `outbound.send` has one after its admission row, so a blocked node may
  be admitted; `requires_confirmation` of a lowering is read by nobody, and
  `NothingActsPastConfirmation` holds only because no command that carries it has an
  orchestrator; a plan does not carry its context, so one made away from the execution
  boundary for class D can be executed; `install.reconcile` has no idempotency contract,
  which `planning_compiler.rs:600` asks of every new verb;
- *operational grammar*: `install.reconcile` has an orchestrator and no mapping,
  `host.verify` a mapping (`operational_grammar.rs:797`) and no orchestrator; a
  `chat.reply` without a text is incomplete and is planned as blocked; the printer
  escapes quotes and not backslashes; the indent unit is leaked once per text;
- *agent runtime*: of two racing messages of one session, the pipeline of one is attached
  to the run of the other (`docs/integration/chatgpt-place-adapter.md:520` describes a
  message and its pipeline as one step); the governed submissions skip the pipeline;
  `agent_sessions_pending` counts sessions by a flag that is never true; an artifact or a
  summary closes the checkpoint of a run that still waits; a summary counts its first
  artifact only; the summary of a payload is cut at byte 220 even inside a character; the
  recent timeline is cut in the order of session ids;
- *Strong Grammar*: edges are not read by the executor, so the node of an `on_failure`
  handler runs after a success and is skipped after a failure;
- *others*: mails without a Message-ID share one key (`reply.rs:250`); an invalid applied
  snapshot ends an installation without a row.

**Bounds.** Calls, handlers and slots communicate only through the tables, so a race
needs two of them. Runs of one plan meet only in what a slice remembers, so two
of them show a retry and an overlap; three nodes have one before and one behind the
node that halts. Three calls of the agent runtime are a message, one that replaces its run,
and an update between or after the two; a message alone fills the trail to its cap.
`ReplayWindow`, `OptOutWindow`, `BatchLimit`, `ReplyWindow`, `ReconciledWindow`,
`FetchLimit` are the limits 50, 20, 100, 100, 50, 50 of the code. In the runs the first,
second, third and fifth reach every row a run can write, so what is shown holds as long
as the tables are below the limits; `ReplyWindow = 1` in `Gtm` and `FetchLimit = 1` in
`AccountGrowth` are below what a run writes, since what is asked there is whether a row
is found, an account scored, in spite of the limit. `MaxFaults = 1` bounds the errors
and crashes of the sender and of the score job; other components have no bound on them,
a cut-off call ends. `MaxAssertions` bounds the opt-outs asserted from outside,
`MaxChanges` the ageing triggers and reclassified accounts. `AccountGrowth` has one score job whose
runs follow one another: two overlapping jobs exceed what TLC finishes, and are covered
by the proofs for its safety properties only. `HostPair` starts from every host table,
`ReplyIngest` from every contact table. `SomeSpec` (`OutboundSend`) starts from a contact
that is there or not and every campaign, `SmallSpec` (`Admission`) from contexts whose
documents suffice with any two boundaries, and from those that lack something with at
most one visa and boundary. `AdmissibleSpec` (`Gtm`) starts from tables that let a message
through, where the question is what happens after that.
`CHECK_DEADLOCK FALSE` everywhere: calls end, and a system with no call left stops.
Symmetry is used on calls, handlers and correlations in safety runs only.

**Fairness.** `SendDue!FairSpec`: the clock advances and cron starts each slot again,
as the deployment documents ask for, and a run that no fault hits makes its next
request. Providers and the database answer, or the answer is a fault, of which there
are finitely many. Nothing is assumed of rules, opt-outs or other processes.
`DispatchableSettles` needs it, and a batch limit that the undispatchable sequences do
not fill. `EveryAccountIsScored` needs the same of the score job (`WF` on `Work(j)`),
and nothing of the limit of its fetch: a scored account leaves the head of the order.

## 4. Proofs

Every theorem holds for every number of hosts, contacts, calls, slots, jobs and so on,
and for every value of the limits; what a theorem assumes beyond the assumptions of its
module stands in the last column. `Spec` has no fairness in any of them.

| Module | Theorem | Says | Assumes |
|---|---|---|---|
| `HostPair_proofs` | `TypeCorrect`, `Invariance` | `[]TypeOK`, `[]IInv` | |
| | `AdmissionFirst` | `[]ExecutionFollowsAdmission` | |
| | `ProductionIsVerified` | `[]ProductionPairingIsVerified` | |
| | `AnsweredIsRecorded` | `[]ReturnedOutcomeIsRecorded` | |
| | `PromiseIsKept` | `KeepsPromise`, the refinement of `Pairing` | calls are finitely many and fit `ReplayWindow` |
| `OutboundSend_proofs` | `OutboundTypeCorrect` | `[]TypeOK` | |
| | `DeliveriesAreAdmitted` | `[]DeliveryHasFullChain` | |
| | `OutcomesAreClosed` | `[]OutcomeIsClosed` | |
| | `AuditIsRight` | `[]AuditAnswersForSends` | finitely many correlations |
| | `OptOutsAreHonoured` | `[]OptOutBeforeCallIsHonoured` | `MaxAssertions <= OptOutWindow` |
| `Gtm_proofs`, sender | `SenderTypeCorrect` | `[]TypeOK` | |
| | `RowsMatchStates` | `[]TerminalRowMatchesState` | |
| | `SentRowsAreDelivered` | `[]SentRowNamesDeliveredMessage` | |
| | `EarlyOptOutsAreHonoured` | `OptOutBeforeFetchIsHonoured` | |
| loop | `AckedStopsAreFinal` | `AckedStopStopsLaterSends` | |
| | `RecordedStopsAreTaken` | `StopToRecordedMailIsTaken` | |
| `ReplyIngest_proofs` | `ReplyTypeCorrect` | `[]TypeOK` | |
| | `StopsAreApplied` | `[]AckedStopIsApplied` | |
| | `RepliesBelongToTheirSender` | `[]ReplyFiledUnderSenderThread` | |
| | `ColumnLeadsLedger` | `[]LedgerOptOutIsInColumn` | |
| `InstallReconcile_proofs` | `InstallTypeCorrect` | `[]TypeOK` | |
| | `ClosuresAreBacked` | `[]ClosureIsBacked` | no manifest names a service twice |
| | `RetriesAreAnswered` | `[]RetryDrivesNothing` | calls are finitely many and fit `ReconciledWindow` |
| | `NewManifestsAreInstalled` | `NewManifestIsInstalled` | no manifest names a service twice |
| `AccountGrowth_proofs` | `GrowthTypeCorrect` | `[]TypeOK` | |
| | `OneInsertWins` | `[]OneAccountPerDomain` | |
| | `AnswersAreRecorded` | `[]AnsweredSignalIsRecorded` | |
| | `ScoresAreAccountedFor` | `[]ScoreIsAccountedFor` | |
| | `FamiliesFollowScores` | `FamilyFollowsScore` | |
| `Runtime_proofs`, executor | `ExecutorTypeCorrect`, `ExecutorInvariance` | `[]TypeOK`, `[]ExecutorInv` | |
| | `MaterialClassesAct` | `[]OnlyMaterialClassesAct` | |
| | `ConfirmationsHold` | `[]NothingActsPastConfirmation` | |
| | `SurfacesAreKept` | `[]ExplicitSurfaceIsKept` | |
| | `OutcomesTellTheActs` | `[]OutcomesAccountForActs` | |
| | `PlanPromiseIsKept` | `KeepsPlanPromise`, the refinement of `PlanPromise` | |
| | `TextsActOutright` | `[]TextsActByTheirLines` | |
| agent runtime | `SessionsTypeCorrect`, `SessionsInvariance` | `[]SessionsTypeOK`, `[]SessionsInv` | |
| | `AttachmentsAreOnTheirRun` | `[]AttachmentsFollowTheirRun` | |
| | `OnlyOutputEndsWaiting` | `[]WaitingEndsByOutput` | |
| | `TrailIsLatest` | `[]TrailShowsLatestUpdates` | |
| | `PipelinesAreOwn` | `[]PipelineIsOwnOrRacing` | |
| admission | `AdmissionTypeCorrect`, `AdmissionInvariance` | `[]AdmissionTypeOK`, `[]AdmissionInv` | |
| | `AdmissionIsPermission` | `[]AdmittedIsPermitted` | |
| | `ReceiptsAreTheirOwn` | `[]ReceiptNamesItsRuling` | |

`EvidenceLedger_proofs` has the facts all of them rest on: an insert only extends the
ledger, and afterwards its key is there; a set of positions has a last one.

The argument is the same everywhere, and so is the reason for it. None of the
properties is inductive: they speak of rows, messages and finished calls, while the next
step is decided by what a call under way carries from one await to the next. Each
inductive invariant (`IInv`, or a name of its own) therefore says what a call has ascertained or done by the
await it is blocked in. Rows are never removed and no call touches what another one
carries, so these facts survive the steps of the others; the step of the call itself
turns the fact of one await into that of the next. TLC checks the properties
themselves on the instances of section 3. What is particular:

- `HostPair`: a call in or past execution has the initiated row of its nonce in the
  ledger, whoever wrote it (`ExecutingIsAdmitted`), since a 409 goes unnoticed; a call
  waiting for its last answer has its row (`AnswerIsRecorded`). For the refinement,
  `PInv` adds that a call posts at most one initiated row (`OneInitiation`), so that the
  replay query shows all of them when it has room for every call (`WindowShowsAll`), and
  that a call begun after its nonce was spent does not pass it (`LateIsStopped`). A step
  of HostPair then is `Begin`, `Spend` or `Pair` on the nonces read off the ledger, or a
  stutter; an insert that meets a conflict spends what is spent already.
- `OutboundSend`: `ReqInv` has the rows of the gates a call has passed, `InOrder` the
  order of the rows of one trail however many retries filled it, `MessageInv` that a
  message comes from an admitted production call that has not answered that it failed,
  `RowInv` that an `outbound.sent` row is simulated or backed by a message of its trail.
  The audit theorem counts trails, so it needs finitely many. `OptInv` is a second
  invariant: what a call that began after an opt-out still sees of it at its two reads.
- sender: `SlotInv` says that a run about to write a row wrote, or read back, the state of the
  sequence that the row names, and that a run on its way to a provider works for no
  contact that had opted out at the fetch.
- `Gtm`: `LoopInv` ties what a run or a call remembers of acknowledged STOPs
  (`ackedBefore`) to the column, which a handler sets before it answers (`ReplyInv`) and
  nothing resets (`AckedInv`). Between the read of the column and the post, `RunInv` and
  `CallInv` carry it on: whoever stopped before is seen as opted out at the next await,
  or the await behind the gate is not reached. Neither half is inductive alone, as the
  read that matters may precede many steps of the other two components. For the second
  property `TraceInv` says that every message of the sender and every
  `outreach.sent` row is of a dispatch, and that a dispatch determines contact and
  channel (`DispatchChannel`, from a client and a campaign no step changes): so
  whichever row of the correlation the reply path finds last, it is one to the sender of
  the STOP on the channel it came in (`RowsOfThread`). A step of a component is taken
  into the loop by what it leaves alone (`Stays`, `Idles`, `CallIdles`, `ReplyIdles`).
  TLC finds `LoopInv` to hold on the instance of the run `Gtm`.
- `ReplyIngest`: `HandlerInv` has the three effects of a STOP in their order, `RowInv`
  that no row runs ahead of the column, which nothing resets.
- `InstallReconcile`: `CallInv` has a step row for every service the loop has reached
  (of this call or another one, hence the assumption on names), `Backing` what stands
  before the row at each position; `RetryInv` that a retry, up to its lookup, still has the
  closure to find. `FreshInv` follows a call that began alone with a manifest of which
  nothing was recorded: nobody joins it at its installation, the only rows of the
  manifest are those of the steps it has reached (`OwnSteps`), so that no insert of its
  is swallowed, and every service it has reached, or found applied and not replaced, is
  still what the last step of its name applied (`Present`).
- `AccountGrowth`: `JobInv` bounds what a job has read by what the tables have now, as triggers
  are never removed; `ScoreInv` keeps, per account, a job that explains the score it
  shows or is about to.
- executor: a program is data the executor walks, so nothing here needs an induction
  over programs: plans have any length, and a run is described by its outcomes as a
  sequence. `PlanInv` says what planning leaves behind: a plan is empty or holds the
  plan of every node, and a node that reaches a slice has a body that commands it
  outright (`SliceNodes`, from the wrapping, policy and routing operators of
  `Planning`). `RunInv` has the shape of the outcomes (`WellFormed`: successes, or
  successes, one halt and skips to the end, which is what `Continue` and `SkipTo`
  return, lemma `ContinueFacts`), that a run waits for a slice only at a node behind
  its successes which no gate blocks, and that its stage tells whether that node was
  admitted or acted on. `OutcomeInv` compares the outcomes with the acts, `ActInv` says
  that all nodes before one that was admitted or acted on had succeeded. Without it
  `OutcomesAccountForActs` would not be inductive: that a skipped node has not acted is
  a fact about nodes a run has not reached. The confirmation theorem also needs that a
  node whose primitive or contract asks for a confirmation is blocked by the gate or
  reaches no orchestrator, which is how the code comes by it. The refinement maps a step to `PlanPromise` by counting successes
  (`AnsweredOutcomes`, then cardinalities of intervals); `Begin` and every step of a
  slice short of the act are stutters, unless the gate stops the run at once.
- texts: `LinesReachTheirSlice` is about `ToIrPrimitive`, line by line: the outermost
  wrapper of a line that asks for a confirmation or a schedule is not `Execute`.
  The compiler keeps the order of the commands, which is all the theorem needs beside
  it, so the number of lines is open.
- agent runtime: `SessionInv` says of every session that its run is a draft recorded
  there (`RunOfSession`), and relates each part of what it shows to the calls that
  updated that run: the waiting fields to whether an output is among them, the head of
  the trail to the latest of them, the events that were attached by run id to that run,
  the pipeline to the run or to those racing with it. `CallInv` says that a call that has
  not begun has left no trace, and that a message between its two possessions of the
  mutex is the run its session shows or races with it.
  The lookup by run id (`Located`) finds the session that shows that run, so an
  attachment cannot reach the run that replaced it.
- admission: `CallsAreRuled` says the ruling a call carries across the unlocked
  section is the evaluator's on its own act; `YesIsPermitted` and the lemmas before
  it are about `evaluate_admission` alone.

Only model-checked: liveness (`DispatchableSettles`, `EveryAccountIsScored`), which the
prover does not do. Every other property of a passing run is a theorem. What the grammars compute for a
text or an expression (recursions over its lines and branches) is evaluated by TLC on
the instances of section 3; the theorems take their results as any program.

## 5. Not modelled, and plan

Not modelled, and why:

- *runtime evidence sinks and ingress* (`evidence*.rs`, `ingress.rs` of
  constitutional-runtime): they store what they are given, and nothing outside their
  module reads it back;
- *core model* (`minilab-core` beside `simulation.rs` and the kinds of `week1.rs`, which
  the audit names): static registries, canon texts and constructors; elastic
  configuration, exploration and workflows are pure and called by no other crate;
- *`decision.rs`*: nothing outside its tests calls it;
- *API and MCP tools* beyond the webhooks, the timeout layer and the tools that change
  sessions: routing, queries and formatting around the components above;
- *command line, inference client, static prompts, signature algorithms* (a fact about
  the input), SQL beyond the constraints the code relies on.

What would come next: the whole of the invariants of `OutboundSend` and `ReplyIngest`
carried into the loop, and `OutboundSend`'s calls as a refinement of an abstract gate;
two overlapping score jobs under fairness; the query tools of `mcp_query.rs` against the
audit; the composition of ingest, scoring and the senders over one ledger, where
`Audit`'s first-week chain could close.
