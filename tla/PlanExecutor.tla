---------------------------- MODULE PlanExecutor ----------------------------
(***************************************************************************)
(* The plan executor of constitutional-runtime/src/plan_executor.rs over   *)
(* the dispatcher of minilab-store (dispatcher.rs, real_dispatcher.rs).    *)
(* Runs of one plan are retries of one another, or overlap.                *)
(*                                                                         *)
(* Between two awaits of a run there is only local code: the actions are   *)
(* the steps of the slice a run is awaiting.  Of a slice there remains     *)
(* what a plan can see of it: it looks for an earlier act, leaves the row  *)
(* that admits it, acts, and answers; HostPair, OutboundSend and           *)
(* InstallReconcile have it in full.                                       *)
(***************************************************************************)
EXTENDS Planning

CONSTANTS
    Run,            \* runs of the plan
    Program,        \* programs: sequences of bodies
    ManifestSet,    \* what the substrates declare, one of these sets
    Ctx             \* the contexts programs are admitted under

ASSUME ProgramAssumption ==
    \A p \in Program : p \in Seq({p[n] : n \in DOMAIN p}) /\ \A n \in DOMAIN p : IsBody(p[n])
ASSUME CtxAssumption == Ctx \subseteq Context

VARIABLES
    given,      \* the program, the manifests and the context it was planned under
    plan,       \* the compiled plan, empty when the program was refused
    phase,      \* "idle", "running" or "lost", per run
    results,    \* the outcomes a run has recorded, per run
    stage,      \* how far the slice has come that the run is awaiting
    replayed,   \* that slice found an earlier act under its key
    known,      \* the keys later calls will find: initiated pairings, closures
    admitted,   \* the nodes whose admission row is in the ledger, with their runs
    acts        \* the material acts in the order they happened

vars == <<given, plan, phase, results, stage, replayed, known, admitted, acts>>

Refused == Plans(given.program, given.manifests, given.ctx) = {}
Outcome == {"Success", "Failure", "Blocked", "Skipped"}

-----------------------------------------------------------------------------
(* The local code of the executor. *)

(* Seeded bug: a node that was blocked does not halt the run. *)
FailureHalts(outcome) == outcome = "Failure"
IsTerminalHalt(outcome) == outcome \in {"Failure", "Blocked"}
Halted(res) == \E n \in DOMAIN res : IsTerminalHalt(res[n])

IdempotencyGate(np) == np.contract = ConfirmedOnly

SkipTo(res, length) == [n \in 1..length |-> IF n \in DOMAIN res THEN res[n] ELSE "Skipped"]

(* Seeded bug: one skipped node too many. *)
ContinueOffByOne(res) == IF Halted(res) THEN SkipTo(res, Len(plan) + 1) ELSE res

(* On from the recorded outcomes to the next await, or to the report. *)
Continue(res) ==
    IF Halted(res) THEN SkipTo(res, Len(plan))
    ELSE IF Len(res) < Len(plan) /\ IdempotencyGate(plan[Len(res) + 1])
    THEN SkipTo(Append(res, "Blocked"), Len(plan))
    ELSE res

Reported(r) == phase[r] = "running" /\ Len(results[r]) = Len(plan)

-----------------------------------------------------------------------------
(* The dispatcher. *)

At(r) == Len(results[r]) + 1
Command(r) == plan[At(r)]
Key(r) == <<Command(r).verb, Command(r).args>>

Supported(np) == <<np.verb, np.target>> \in
    {<<"outbound.send", "Provider">>, <<"host.pair", "Platform">>, <<"install.reconcile", "Platform">>}

ReachesOrchestrator(np) == Supported(np) /\ np.args # "malformed"

(* Seeded bug: every error of a slice is reported as a refusal to start. *)
ErrorsAreBlocked(r) ==
    IF stage[r] \in {"acted", "closed"} THEN {"Success", "Blocked"} ELSE {"Blocked"}

(* The outcomes dispatch_real can report of the awaited slice.  A contract *)
(* error is Blocked: host.pair has one when a lookup answers no JSON, and  *)
(* outbound.send when the campaign it has admitted cannot be rendered.     *)
Outcomes(r) ==
    LET verb == Command(r).verb
    IN  IF ~ReachesOrchestrator(Command(r)) THEN {"Blocked"}
        ELSE {"Failure"} \cup
             CASE stage[r] = "called" ->
                    CASE verb = "host.pair" -> {"Blocked"}
                      [] verb = "install.reconcile" /\ replayed[r] -> {"Success"}
                      [] OTHER -> {}
               [] stage[r] = "admitted" -> IF verb = "outbound.send" THEN {"Blocked"} ELSE {}
               [] stage[r] = "acted" -> IF verb = "install.reconcile" THEN {} ELSE {"Success"}
               [] stage[r] = "closed" -> {"Success"}

-----------------------------------------------------------------------------
(* A caller may declare a contract of its own for nodes of a plan. *)
Declare(p, nodes) ==
    [n \in DOMAIN p |-> IF n \in nodes THEN [p[n] EXCEPT !.contract = ConfirmedOnly] ELSE p[n]]

Init ==
    /\ given \in [program : Program, manifests : ManifestSet, ctx : Ctx]
    /\ LET compiled == Plans(given.program, given.manifests, given.ctx)
       IN  IF compiled = {} THEN plan = <<>>
           ELSE \E p \in compiled : \E nodes \in SUBSET DOMAIN p : plan = Declare(p, nodes)
    /\ phase = [r \in Run |-> "idle"]
    /\ results = [r \in Run |-> <<>>]
    /\ stage = [r \in Run |-> "none"]
    /\ replayed = [r \in Run |-> FALSE]
    /\ known = {}
    /\ admitted = {}
    /\ acts = <<>>

Begin(r) ==
    /\ phase[r] = "idle" /\ ~Refused
    /\ phase' = [phase EXCEPT ![r] = "running"]
    /\ results' = [results EXCEPT ![r] = Continue(<<>>)]
    /\ UNCHANGED <<given, plan, stage, replayed, known, admitted, acts>>

(* The slice is called and looks for an earlier act under its key. *)
Dispatch(r) ==
    /\ phase[r] = "running" /\ stage[r] = "none" /\ ~Reported(r)
    /\ stage' = [stage EXCEPT ![r] = "called"]
    /\ replayed' = [replayed EXCEPT ![r] = Key(r) \in known]
    /\ UNCHANGED <<given, plan, phase, results, known, admitted, acts>>

(* The slice leaves the row that admits the act; the one of host.pair is   *)
(* what later calls look for.                                              *)
Admit(r) ==
    /\ stage[r] = "called" /\ ReachesOrchestrator(Command(r)) /\ ~replayed[r]
    /\ stage' = [stage EXCEPT ![r] = "admitted"]
    /\ admitted' = admitted \cup {<<r, At(r)>>}
    /\ known' = IF Command(r).verb = "host.pair" THEN known \cup {Key(r)} ELSE known
    /\ UNCHANGED <<given, plan, phase, results, replayed, acts>>

(* A message delivered, a host paired, the steps of a manifest applied. *)
Act(r) ==
    /\ stage[r] = "admitted"
    /\ stage' = [stage EXCEPT ![r] = "acted"]
    /\ acts' = Append(acts, [run |-> r, node |-> At(r)])
    /\ UNCHANGED <<given, plan, phase, results, replayed, known, admitted>>

(* install.reconcile closes, also when there was nothing to apply. *)
Close(r) ==
    /\ stage[r] \in {"admitted", "acted"} /\ Command(r).verb = "install.reconcile"
    /\ stage' = [stage EXCEPT ![r] = "closed"]
    /\ known' = known \cup {Key(r)}
    /\ UNCHANGED <<given, plan, phase, results, replayed, admitted, acts>>

(* Seeded bug: a failed node is dispatched again. *)
AnswerOrRetry(r) ==
    /\ phase[r] = "running" /\ stage[r] # "none"
    /\ \E outcome \in Outcomes(r) :
          results' = IF outcome = "Failure" THEN results
                     ELSE [results EXCEPT ![r] = Continue(Append(@, outcome))]
    /\ stage' = [stage EXCEPT ![r] = "none"]
    /\ UNCHANGED <<given, plan, phase, replayed, known, admitted, acts>>

(* The slice answers, at whatever stage it has come to. *)
Answer(r) ==
    /\ phase[r] = "running" /\ stage[r] # "none"
    /\ \E outcome \in Outcomes(r) :
          results' = [results EXCEPT ![r] = Continue(Append(@, outcome))]
    /\ stage' = [stage EXCEPT ![r] = "none"]
    /\ UNCHANGED <<given, plan, phase, replayed, known, admitted, acts>>

(* The future of the run is dropped while it awaits a slice. *)
Drop(r) ==
    /\ phase[r] = "running" /\ stage[r] # "none"
    /\ phase' = [phase EXCEPT ![r] = "lost"]
    /\ stage' = [stage EXCEPT ![r] = "none"]
    /\ UNCHANGED <<given, plan, results, replayed, known, admitted, acts>>

Step(r) == Begin(r) \/ Dispatch(r) \/ Admit(r) \/ Act(r) \/ Close(r) \/ Answer(r) \/ Drop(r)

Next == \E r \in Run : Step(r)

Spec == Init /\ [][Next]_vars

-----------------------------------------------------------------------------
TypeOK ==
    /\ given \in [program : Program, manifests : ManifestSet, ctx : Ctx]
    /\ Len(plan) = IF Refused THEN 0 ELSE Len(given.program)
    /\ known \subseteq {<<plan[n].verb, plan[n].args>> : n \in DOMAIN plan}
    /\ phase \in [Run -> {"idle", "running", "lost"}]
    /\ \A r \in Run : /\ Len(results[r]) <= Len(plan)
                      /\ \A n \in DOMAIN results[r] : results[r][n] \in Outcome
    /\ stage \in [Run -> {"none", "called", "admitted", "acted", "closed"}]
    /\ replayed \in [Run -> BOOLEAN]
    /\ admitted \subseteq Run \X DOMAIN given.program
    /\ \A i \in DOMAIN acts : acts[i] \in [run : Run, node : DOMAIN given.program]

(* Whatever a plan wraps an act in and whoever runs it again, a program    *)
(* admitted for a class that may not act, or reserved from execution, acts *)
(* on nothing.                                                             *)
OnlyMaterialClassesAct ==
    acts # <<>> => /\ given.ctx.permitted /\ given.ctx.class # "A"
                   /\ given.ctx.class = "D" => ~given.ctx.boundary

(* No act is performed at or behind a node that waits for a confirmation,  *)
(* by its lowering or by a contract declared for it: the executor knows no *)
(* confirmation, so the run must have halted there.                        *)
NothingActsPastConfirmation ==
    \A i \in DOMAIN acts : \A n \in 1..acts[i].node :
        ~plan[n].confirm /\ plan[n].contract # ConfirmedOnly

(* A surface that was asked for is the one selected, and a substrate of    *)
(* that name can realize the node; it is never silently replaced.          *)
ExplicitSurfaceIsKept ==
    \A n \in DOMAIN plan :
        LET b == given.program[n]
        IN  AsksForSurface(b) =>
                /\ plan[n].surface = RequestedSurface(b)
                /\ \E m \in given.manifests : m.substrate = plan[n].surface /\ Name(b) \in m.primitives

Acted(r, n) == \E i \in DOMAIN acts : acts[i] = [run |-> r, node |-> n]

(* The outcomes of a run tell what happened: a successful send or pairing  *)
(* has acted, a blocked node has not, a skipped one was not even admitted. *)
(* A program is planned as a whole: one node that structure, policy,       *)
(* capability, surface or lowering refuses keeps all others from starting. *)
OutcomesAccountForActs ==
    /\ \A r \in Run : \A n \in DOMAIN results[r] :
          /\ results[r][n] = "Success" /\ plan[n].verb \in {"outbound.send", "host.pair"} => Acted(r, n)
          /\ results[r][n] \in {"Blocked", "Skipped"} => ~Acted(r, n)
          /\ results[r][n] = "Skipped" => <<r, n>> \notin admitted
    /\ (\E n \in DOMAIN given.program : ~Plannable(given.program[n], given.manifests, given.ctx))
          => admitted = {}

(* The executor implements PlanPromise. *)
Successes(r) == {n \in DOMAIN results[r] : results[r][n] = "Success"}
Promise == INSTANCE PlanPromise WITH
    at <- [r \in Run |-> 1 + Cardinality(Successes(r))],
    stopped <- {r \in Run : phase[r] = "lost" \/ Halted(results[r]) \/ Reported(r)}
KeepsPlanPromise == Promise!Spec

-----------------------------------------------------------------------------
(* What the comments say, and the code refutes. *)

(* A retry of an act that declares itself deduplicated by its key is a     *)
(* no-op success.                                                          *)
RetryIsNoOp ==
    \A i, j \in DOMAIN acts :
        LET a == plan[acts[i].node]
            b == plan[acts[j].node]
        IN  (/\ a.contract = Contract("DeduplicatedMaterialAction", "SilentSuccess")
             /\ a.verb = b.verb /\ a.args = b.args) => i = j
=============================================================================
