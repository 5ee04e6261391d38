--------------------------- MODULE StrongGrammar ---------------------------
(***************************************************************************)
(* The Strong Grammar of constitutional-runtime/src/strong_grammar.rs: how *)
(* a parsed program becomes the nodes of an IR graph, in their order.      *)
(***************************************************************************)
EXTENDS Planning

Review == {"SystemReview", "DriftReview"}
PipelineStep == InferPrimitive \cup {"Collect", "Compare"}

(* A leaf: an Emit, an Execute or a Confirm of an Execute.  named: its     *)
(* surface or role is not blank; canonical: its action is namespace.verb.  *)
Leaf(form, named, action, canonical, args) ==
    [form |-> form, named |-> named, action |-> action, canonical |-> canonical, args |-> args]
Emission == Leaf("Emit", TRUE, "none", TRUE, "none")
NoHandler == Leaf("none", TRUE, "none", TRUE, "none")

(* A review or a pipeline. *)
Deliberation(form, target, steps, on_success, on_failure) ==
    [form |-> form, target |-> target, steps |-> steps,
     on_success |-> on_success, on_failure |-> on_failure]

-----------------------------------------------------------------------------
LeafCompiles(l) ==
    /\ l.form \in {"Execute", "Confirm"} => l.canonical
    /\ l.form = "Confirm" => l.named

LeafBody(l) ==
    [wrappers |-> IF l.form = "Confirm" THEN <<"Confirm">> ELSE <<>>,
     core |-> IF l.form = "Emit" THEN "Emit" ELSE "Execute",
     complete |-> l.named,
     kind |-> IF l.form = "Emit" THEN NoKind ELSE l.action,
     carrier |-> IF l.form = "Emit" THEN "none" ELSE "canonical",
     surface |-> "none",
     args |-> l.args]

(* A handler is wrapped in a Route of its own. *)
HandlerBody(l) == [LeafBody(l) EXCEPT !.wrappers = <<"Route">> \o @]

SurfaceForTarget(target) == IF target \in InferSurface THEN target ELSE "local"

StepKind(step) ==
    CASE step = "Collect" -> "events"
      [] step = "Compress" -> "summary"
      [] step = "Classify" -> "classification"
      [] step = "Prioritize" -> "priority"
      [] step = "Compare" -> "drift"

StepBody(step, target) ==
    [wrappers |-> <<>>, core |-> step, complete |-> TRUE, kind |-> StepKind(step),
     carrier |-> "none",
     surface |-> IF step \in InferPrimitive THEN SurfaceForTarget(target) ELSE "none",
     args |-> "none"]

DefaultSteps == <<"Collect", "Compress", "Classify", "Prioritize">>
StepsOf(p) == IF p.form \in Review /\ p.steps = <<>> THEN DefaultSteps ELSE p.steps

Handlers(p) ==
    (IF p.on_success = NoHandler THEN <<>> ELSE <<p.on_success>>) \o
    (IF p.on_failure = NoHandler THEN <<>> ELSE <<p.on_failure>>)

(* The nodes of a deliberation: its steps, then both handlers. *)
DeliberationNodes(p) ==
    LET steps == StepsOf(p)
        handlers == Handlers(p)
    IN  [n \in DOMAIN steps |-> StepBody(steps[n], p.target)] \o
        [n \in DOMAIN handlers |-> HandlerBody(handlers[n])]

DeliberationCompiles(p) ==
    /\ p.target # "blank"
    /\ StepsOf(p) # <<>>
    /\ \A n \in DOMAIN Handlers(p) : LeafCompiles(Handlers(p)[n])

(* The program of a Strong Grammar text, or none. *)
Compile(p) ==
    IF p.form \in Review \cup {"Pipeline"}
    THEN IF DeliberationCompiles(p) THEN {DeliberationNodes(p)} ELSE {}
    ELSE IF LeafCompiles(p) THEN {<<LeafBody(p)>>} ELSE {}
=============================================================================
