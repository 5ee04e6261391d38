------------------------------ MODULE Planning ------------------------------
(***************************************************************************)
(* From a program to a plan, in constitutional-runtime/src: the admission  *)
(* of an IR node in three passes (validation.rs, capability.rs), the       *)
(* choice of an inference surface, the lowering to a command, and the      *)
(* all-or-nothing planner (planning_compiler.rs, lowering.rs).             *)
(*                                                                         *)
(* A program is the sequence of its IR nodes in the order of the graph;    *)
(* the id of a node is its position.                                       *)
(***************************************************************************)
EXTENDS Naturals, Sequences, FiniteSets

Wrapper == {"Route", "Schedule", "Confirm"}
ReadPrimitive == {"Observe", "Collect", "Fetch"}
InferPrimitive == {"Compress", "Classify", "Prioritize"}
PrimitiveName == Wrapper \cup ReadPrimitive \cup InferPrimitive \cup
    {"Compare", "Decide", "Execute", "Reconcile", "Emit", "Persist", "Cancel"}

Substrate == {"lab256", "lab8gb", "lab512"}
InferSurface == Substrate \cup {"local", "cloud", "hybrid"}

(* A body.  wrappers are the primitives around the core, outermost first;  *)
(* complete: none of its required fields is blank; kind is the kind field  *)
(* or the action of an Execute, carrier how that action is carried, and    *)
(* surface "none" where there is none to ask for.  args is the key the     *)
(* slice works under, or "malformed".                                      *)
IsBody(b) ==
    /\ DOMAIN b = {"wrappers", "core", "complete", "kind", "carrier", "surface", "args"}
    /\ b.wrappers \in Seq(Wrapper)
    /\ b.core \in PrimitiveName \ Wrapper
    /\ b.complete \in BOOLEAN
    /\ b.carrier \in {"none", "canonical", "host_reconcile", "custom"}
    /\ (b.carrier # "none") <=> (b.core = "Execute")
    /\ b.surface \in InferSurface \cup {"none"}

Manifest == [substrate : Substrate \cup {"local"}, primitives : SUBSET PrimitiveName,
             kinds : SUBSET STRING, evidence : BOOLEAN]
Context == [class : {"A", "B", "C", "D"}, permitted : BOOLEAN,
            boundary : BOOLEAN, closure : BOOLEAN]

Name(b) == IF b.wrappers = <<>> THEN b.core ELSE Head(b.wrappers)
NoKind == "none"
Kind(b) ==
    IF Name(b) \in InferPrimitive \cup {"Collect", "Fetch", "Compare", "Execute"}
    THEN b.kind ELSE NoKind

(* The three landed acts are the canonical ones the dispatcher knows. *)
Slice == {"outbound.send", "host.pair", "install.reconcile"}
IsCanonical(b) == Name(b) = "Execute" /\ b.carrier = "canonical"
InferAction == {"lab.summary", "lab.drift", "lab.route", "lab.organize",
                "flow.verify_report", "flow.drift_review", "flow.recover_cmd"}

-----------------------------------------------------------------------------
(* Admission. *)

MAX_ROUTE_NESTING_DEPTH == 4
ValidStructure(b) == b.complete /\ 1 + Len(b.wrappers) <= MAX_ROUTE_NESTING_DEPTH

(* Seeded bug: a class that is to act on nothing may execute. *)
PolicyAllowsExecute(class, p) ==
    IF class = "B" THEN p # "Reconcile" ELSE TRUE

(* The matrix looks at the outermost primitive alone. *)
PolicyAllowsPrimitive(class, p) ==
    CASE class = "A" -> p \in ReadPrimitive \cup InferPrimitive
                              \cup {"Compare", "Emit", "Route", "Schedule"}
      [] class = "B" -> p # "Reconcile"
      [] OTHER -> TRUE

ValidPolicy(b, ctx) ==
    /\ ctx.permitted
    /\ ctx.boundary => Name(b) # "Decide" /\ ctx.class # "D"
    /\ PolicyAllowsPrimitive(ctx.class, Name(b))

CanRealize(m, b, ctx) ==
    /\ Name(b) \in m.primitives
    /\ m.kinds = {} \/ Kind(b) = NoKind \/ Kind(b) \in m.kinds
    /\ ctx.closure => m.evidence

ValidCapability(b, ms, ctx) == \E m \in ms : CanRealize(m, b, ctx)

Admissible(b, ms, ctx) ==
    ValidStructure(b) /\ ValidPolicy(b, ctx) /\ ValidCapability(b, ms, ctx)

-----------------------------------------------------------------------------
(* The inference surface. *)

InferRoutable(b) == Name(b) \in InferPrimitive \/ (IsCanonical(b) /\ b.kind \in InferAction)

(* "none" and "local" ask for no particular surface. *)
RequestedSurface(b) == IF InferRoutable(b) THEN b.surface ELSE "none"
AsksForSurface(b) == RequestedSurface(b) \notin {"none", "local"}

(* cloud and hybrid name no substrate. *)
SurfaceAvailable(s, b, ms, ctx) ==
    s \in Substrate /\ \E m \in ms : m.substrate = s /\ CanRealize(m, b, ctx)

(* Seeded bug: a surface nobody offers is treated as not asked for. *)
SurfaceOrDefault(b, ms, ctx) == TRUE
SurfaceGranted(b, ms, ctx) ==
    AsksForSurface(b) => SurfaceAvailable(RequestedSurface(b), b, ms, ctx)

SelectedSurface(b, ms, ctx) ==
    IF AsksForSurface(b) /\ SurfaceAvailable(RequestedSurface(b), b, ms, ctx)
    THEN RequestedSurface(b)
    ELSE IF InferRoutable(b) /\ SurfaceAvailable("lab512", b, ms, ctx) THEN "lab512"
    ELSE "none"

-----------------------------------------------------------------------------
(* Lowering: nothing is lowered through a wrapper. *)

Lowerable(b) == Name(b) # "Decide"

(* Seeded bug: a wrapped act is lowered as if it stood alone. *)
ReachesSliceThroughWrapper(b) ==
    b.core = "Execute" /\ b.carrier = "canonical" /\ b.kind \in Slice
ReachesSlice(b) == IsCanonical(b) /\ b.kind \in Slice

Target(b) ==
    IF ~ReachesSlice(b) THEN "MinilabOperationalGrammar"
    ELSE IF b.kind = "outbound.send" THEN "Provider" ELSE "Platform"

RequiresConfirmation(b) ==
    \/ Name(b) \in {"Confirm", "Reconcile", "Cancel"}
    \/ Name(b) = "Execute" /\ b.carrier = "host_reconcile"

(* Idempotency contracts: the class and what a replay is answered with. *)
Contract(class, stance) == [class |-> class, replay_stance |-> stance]
NoContract == Contract("undeclared", "undeclared")
ConfirmedOnly == Contract("ConfirmedNonIdempotent", "EscalateToConfirm")

InferIdempotency(b) ==
    CASE Name(b) \in ReadPrimitive -> Contract("PureRead", "SilentSuccess")
      [] Name(b) \in InferPrimitive \cup {"Compare"} ->
            Contract("DeterministicRecompute", "SilentSuccess")
      [] IsCanonical(b) /\ b.kind = "outbound.send" ->
            Contract("DeduplicatedMaterialAction", "SilentSuccess")
      [] IsCanonical(b) /\ b.kind = "host.pair" ->
            Contract("DeduplicatedMaterialAction", "ReplayRejection")
      [] OTHER -> NoContract

-----------------------------------------------------------------------------
(* Planning. *)

NodePlan(b, ms, ctx) ==
    [verb |-> IF ReachesSlice(b) THEN b.kind ELSE Name(b),
     target |-> Target(b),
     args |-> b.args,
     confirm |-> RequiresConfirmation(b),
     surface |-> SelectedSurface(b, ms, ctx),
     contract |-> InferIdempotency(b)]

Plannable(b, ms, ctx) ==
    Admissible(b, ms, ctx) /\ SurfaceGranted(b, ms, ctx) /\ Lowerable(b)

PlanOf(program, ms, ctx) == [n \in DOMAIN program |-> NodePlan(program[n], ms, ctx)]

(* The plan of a program, or none: the first node that fails aborts it. *)
Plans(program, ms, ctx) ==
    IF \A n \in DOMAIN program : Plannable(program[n], ms, ctx)
    THEN {PlanOf(program, ms, ctx)} ELSE {}
=============================================================================
