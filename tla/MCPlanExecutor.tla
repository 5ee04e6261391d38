--------------------------- MODULE MCPlanExecutor ---------------------------
(* PlanExecutor on small programs: the values of its constants for TLC.    *)
EXTENDS CommandTexts, StrongGrammar, TLC

CONSTANTS r1, r2

Runs2 == {r1, r2}
RunSymmetry == Permutations(Run)

Body(wrappers, core, kind, carrier, surface, args) ==
    [wrappers |-> wrappers, core |-> core, complete |-> TRUE, kind |-> kind,
     carrier |-> carrier, surface |-> surface, args |-> args]
Canonical(wrappers, action, args) == Body(wrappers, "Execute", action, "canonical", "none", args)

Send == Canonical(<<>>, "outbound.send", "x")
Pair == Canonical(<<>>, "host.pair", "x")
Reconcile == Canonical(<<>>, "install.reconcile", "x")
MalformedSend == Canonical(<<>>, "outbound.send", "malformed")
ConfirmedSend == Canonical(<<"Confirm">>, "outbound.send", "x")
RoutedSend == Canonical(<<"Route">>, "outbound.send", "x")
TooDeepSend == Canonical(<<"Route", "Schedule", "Route", "Confirm">>, "outbound.send", "x")
DeepPair == Canonical(<<"Schedule", "Route", "Confirm">>, "host.pair", "x")
CustomPair == Body(<<>>, "Execute", "host.pair", "custom", "none", "x")
HostReconcile == Body(<<>>, "Execute", "host.reconcile", "host_reconcile", "none", "x")
Observe == Body(<<>>, "Observe", "none", "none", "none", "x")
Decide == Body(<<>>, "Decide", "none", "none", "none", "x")
Incomplete == [Observe EXCEPT !.complete = FALSE]
Compress(surface) == Body(<<>>, "Compress", "events", "none", surface, "x")
Summary(surface) == Body(<<>>, "Execute", "lab.summary", "canonical", surface, "x")

Landed == {Send, Pair, Reconcile}
Others == {MalformedSend, ConfirmedSend, RoutedSend, TooDeepSend, DeepPair, CustomPair,
           HostReconcile, Observe, Decide, Incomplete, Compress("local"), Compress("lab8gb"),
           Compress("cloud"), Summary("none"), Summary("lab512")}

(* Programs of the Strong Grammar, some of which do not compile. *)
Install == Leaf("Execute", TRUE, "install.reconcile", TRUE, "x")
Ask(named, canonical) == Leaf("Confirm", named, "host.pair", canonical, "x")
StrongPrograms ==
    {Install, Emission, Ask(TRUE, TRUE), Ask(FALSE, TRUE), Ask(TRUE, FALSE),
     [Emission EXCEPT !.named = FALSE],
     Deliberation("SystemReview", "lab8gb", <<>>, Emission, NoHandler),
     Deliberation("DriftReview", "lab512", <<"Compare">>, NoHandler, Install),
     Deliberation("Pipeline", "place", <<"Compress">>, Ask(TRUE, TRUE), Install),
     Deliberation("Pipeline", "place", <<>>, NoHandler, NoHandler),
     Deliberation("SystemReview", "blank", <<"Collect">>, NoHandler, NoHandler)}
Compiled == UNION {Compile(p) : p \in StrongPrograms}

(* Texts of the operational grammar, some of which do not parse or lower. *)
Top(kind, args) == Line("none", kind, args)
Child(kind, args) == Line("two", kind, args)
KeyX == <<"key", "x">>
TargetCore == <<"target", "core">>
Collect == Top("lab.collect", <<<<"kind", "events">>, TargetCore, <<"window", "day">>>>)
Asking == Top("confirm.request", <<<<"action", "outbound.send">>, KeyX>>)
Scheduling == Top("flow.schedule", <<<<"kind", "report">>, <<"after", "now">>>>)
Texts ==
    {<<Comment, Asking>>, <<Scheduling>>, <<Scheduling, Asking>>,
     <<Top("outbound.send", <<KeyX>>), Comment, Child("host.pair", <<KeyX>>)>>,
     <<Top("host.pair", <<KeyX>>), [Asking EXCEPT !.indent = "two"], Top("outbound.send", <<KeyX>>)>>,
     <<Top("host.verify", <<KeyX>>), Scheduling, Top("host.pair", <<KeyX>>)>>,
     <<Top("outbound.send", <<>>)>>,
     <<Collect, Child("lab.compress", <<<<"kind", "events">>, TargetCore, <<"infer", "lab512">>>>)>>,
     <<Top("lab.classify", <<<<"kind", "events">>, TargetCore, <<"schema", "blank">>>>)>>,
     <<Top("lab.summary", <<<<"kind", "drift">>, <<"infer", "lab8gb">>>>)>>,
     <<Top("lab.drift", <<>>), Top("cmd.cancel", <<<<"id", "one">>>>)>>,
     <<Top("host.reconcile", <<TargetCore, <<"mode", "force">>>>), Top("outbound.send", <<KeyX>>)>>,
     <<Top("chat.reply", <<<<"thread", "t">>>>), Top("outbound.send", <<KeyX>>)>>,
     <<Top("chat.reply", <<<<"thread", "t">>, <<"text", "hi">>>>), Top("outbound.send", <<KeyX>>)>>,
     <<Top("host.pair", <<KeyX>>), Unreadable>>, <<Child("host.pair", <<KeyX>>)>>,
     <<Top("host.pair", <<KeyX>>), Child("host.pair", <<KeyX>>), Line("four", "host.pair", <<KeyX>>)>>,
     <<Top("host.pair", <<KeyX, KeyX>>)>>, <<Top("install.reconcile", <<KeyX>>)>>,
     <<[Asking EXCEPT !.args[1][2] = "malformed"]>>,
     <<Top("lab.compress", <<<<"kind", "events">>, TargetCore, <<"infer", "moon">>>>)>>, <<>>}

Programs == Compiled \cup UNION {CompiledTexts[t] : t \in Texts} \cup
    {<<b>> : b \in Landed \cup Others} \cup (Landed \X (Landed \cup Others)) \cup
    (Others \X Landed) \cup {<<Send, Pair, Send>>, <<Pair, ConfirmedSend, Reconcile>>}
SendOnly == {<<Send>>}

Full(substrate) ==
    [substrate |-> substrate, primitives |-> PrimitiveName \ {"Decide"}, kinds |-> {}, evidence |-> TRUE]
SendersOnly == [Full("local") EXCEPT !.kinds = {"outbound.send", "events"}]
Manifests == {{Full("local")}, {Full("local"), Full("lab512")},
              {SendersOnly, [Full("lab8gb") EXCEPT !.primitives = {"Compress"}]},
              {[Full("local") EXCEPT !.evidence = FALSE]}, {}}
OneManifest == {{Full("local")}}

Contexts == [class : {"A", "B", "C", "D"}, permitted : {TRUE}, boundary : BOOLEAN, closure : {TRUE}]
            \cup {[class |-> "C", permitted |-> FALSE, boundary |-> TRUE, closure |-> TRUE],
                  [class |-> "C", permitted |-> TRUE, boundary |-> TRUE, closure |-> FALSE]}
DefaultContext == {[class |-> "C", permitted |-> TRUE, boundary |-> TRUE, closure |-> TRUE]}
=============================================================================
