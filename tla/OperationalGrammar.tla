-------------------------- MODULE OperationalGrammar --------------------------
(***************************************************************************)
(* The operational grammar of constitutional-runtime/src/                  *)
(* operational_grammar.rs: from a text of indented command lines to the    *)
(* nodes of an IR graph, parents before their children.                    *)
(*                                                                         *)
(* A value is a string of its own; "blank" is one that is empty or white   *)
(* space, "absent" no value, and "key" stands for the arguments a slice    *)
(* reads.                                                                  *)
(***************************************************************************)
EXTENDS Planning

(* A line of a text: blank or a comment, something the line parser cannot  *)
(* read, or a command with its arguments in the order given.               *)
Line(indent, kind, args) == [form |-> "command", indent |-> indent, kind |-> kind, args |-> args]
Comment == [form |-> "comment", indent |-> "two", kind |-> "none", args |-> <<>>]
Unreadable == [form |-> "unreadable", indent |-> "none", kind |-> "none", args |-> <<>>]

Keys(l) == {l.args[i][1] : i \in DOMAIN l.args}
Arg(l, key) ==
    IF key \in Keys(l) THEN l.args[CHOOSE i \in DOMAIN l.args : l.args[i][1] = key][2] ELSE "absent"

Commands(text) == SelectSeq(text, LAMBDA l : l.form # "comment")

(* A line parses when it can be read and names no argument twice; a text   *)
(* when its lines do, its first is not indented, and all that are indented *)
(* are indented alike.                                                     *)
LineParses(l) == l.form = "command" /\ Cardinality(Keys(l)) = Len(l.args)
Parses(text) ==
    LET ls == Commands(text)
        indents == {ls[n].indent : n \in DOMAIN ls} \ {"none"}
    IN  /\ \A n \in DOMAIN ls : LineParses(ls[n])
        /\ ls # <<>> => Head(ls).indent = "none"
        /\ Cardinality(indents) <= 1

-----------------------------------------------------------------------------
(* The closed set of verbs that have a primitive. *)
Surfaced == {"lab.compress", "lab.classify", "lab.prioritize"}
Material == {"host.verify", "host.pair", "outbound.send"}
Wrapping == {"confirm.request", "flow.schedule"}
Cancelling == {"cmd.cancel", "flow.cancel"}
Verb == {"host.inspect", "host.facts", "lab.collect", "lab.compare", "host.reconcile", "chat.reply"}
            \cup Surfaced \cup InferAction \cup Material \cup Wrapping \cup Cancelling

Required(kind) ==
    CASE kind \in {"host.inspect", "host.facts", "host.reconcile", "flow.verify_report",
                   "flow.drift_review"} -> {"target"}
      [] kind = "lab.collect" -> {"kind", "target", "window"}
      [] kind \in Surfaced -> {"kind", "target"}
      [] kind \in {"lab.summary", "lab.organize", "lab.compare", "flow.schedule"} -> {"kind"}
      [] kind \in Cancelling \cup {"flow.recover_cmd"} -> {"id"}
      [] kind = "chat.reply" -> {"thread"}
      [] kind = "confirm.request" -> {"action"}
      [] OTHER -> {}

(* What an act to confirm is named by, and a flow to schedule: an identity *)
(* of two parts, and one part of one.                                      *)
CanonicalActionId == InferAction \cup Slice \cup {"host.verify"}
IdentityIsValid(l) ==
    /\ l.kind = "confirm.request" => Arg(l, "action") \in CanonicalActionId
    /\ l.kind = "flow.schedule" => Arg(l, "kind") \notin {"blank", "malformed"}

InferIsValid(l) ==
    l.kind \in Surfaced \cup InferAction => Arg(l, "infer") \in InferSurface \cup {"absent"}
ModeIsValid(l) ==
    l.kind = "host.reconcile" => Arg(l, "mode") \in {"apply", "dry", "dry_run", "dry-run", "force", "absent"}

Lowers(l) ==
    /\ l.kind \in Verb /\ Required(l.kind) \subseteq Keys(l)
    /\ IdentityIsValid(l) /\ InferIsValid(l) /\ ModeIsValid(l)

(* The fields of its primitive a command may leave blank to no avail: what *)
(* is absent has a default, except the text of a reply.                    *)
IsComplete(l) ==
    LET fields ==
            CASE l.kind = "host.inspect" -> {"target", "scope"}
              [] l.kind = "host.facts" -> {"target"}
              [] l.kind = "lab.collect" -> {"kind", "target", "window"}
              [] l.kind = "lab.compress" -> {"kind", "target"}
              [] l.kind = "lab.classify" -> {"kind", "target", "schema"}
              [] l.kind = "lab.prioritize" -> {"kind", "target", "policy"}
              [] l.kind = "lab.compare" -> {"kind", "left", "right"}
              [] l.kind = "host.reconcile" -> {"target", "desired"}
              [] l.kind = "confirm.request" -> {"role"}
              [] l.kind = "flow.schedule" -> {IF "after" \in Keys(l) THEN "after" ELSE "at"}
              [] l.kind \in Cancelling -> {"id"}
              [] l.kind = "chat.reply" -> {"text"}
              [] OTHER -> {}
    IN  /\ \A field \in fields : Arg(l, field) # "blank"
        /\ l.kind = "chat.reply" => "text" \in Keys(l)

Core(kind) ==
    CASE kind \in {"host.inspect", "host.facts"} -> "Observe"
      [] kind = "lab.collect" -> "Collect"
      [] kind = "lab.compress" -> "Compress"
      [] kind = "lab.classify" -> "Classify"
      [] kind = "lab.prioritize" -> "Prioritize"
      [] kind = "lab.compare" -> "Compare"
      [] kind = "host.reconcile" -> "Reconcile"
      [] kind = "chat.reply" -> "Emit"
      [] kind \in Cancelling -> "Cancel"
      [] OTHER -> "Execute"

ActionOf(l) ==
    CASE l.kind = "confirm.request" -> Arg(l, "action")
      [] l.kind = "flow.schedule" -> "a flow"
      [] OTHER -> l.kind

SurfaceOf(l) ==
    IF l.kind \in Surfaced /\ "infer" \notin Keys(l) THEN "local"
    ELSE IF l.kind \in Surfaced \cup InferAction /\ "infer" \in Keys(l) THEN Arg(l, "infer")
    ELSE "none"

(* Seeded bug: what a line asks to confirm or to schedule is commanded. *)
ToUnwrappedPrimitive(l) ==
    [wrappers |-> <<>>, core |-> Core(l.kind), complete |-> IsComplete(l),
     kind |-> IF Core(l.kind) = "Execute" THEN ActionOf(l) ELSE NoKind,
     carrier |-> IF Core(l.kind) = "Execute" THEN "canonical" ELSE "none",
     surface |-> SurfaceOf(l), args |-> IF "key" \in Keys(l) THEN Arg(l, "key") ELSE "malformed"]

ToIrPrimitive(l) ==
    [wrappers |-> CASE l.kind = "confirm.request" -> <<"Confirm">>
                    [] l.kind = "flow.schedule" -> <<"Schedule">>
                    [] OTHER -> <<>>,
     core |-> Core(l.kind),
     complete |-> IsComplete(l),
     kind |-> CASE Core(l.kind) = "Execute" -> ActionOf(l)
                [] l.kind \in Surfaced \cup {"lab.collect", "lab.compare"} -> Arg(l, "kind")
                [] OTHER -> NoKind,
     carrier |-> IF Core(l.kind) = "Execute" THEN "canonical" ELSE "none",
     surface |-> SurfaceOf(l),
     args |-> IF "key" \in Keys(l) THEN Arg(l, "key") ELSE "malformed"]

(* The program of a text, or none: a line without a primitive aborts it.   *)
(* A child comes right after its parent, so the order is that of the lines.*)
CompileText(text) ==
    LET ls == Commands(text)
    IN  IF Parses(text) /\ \A n \in DOMAIN ls : Lowers(ls[n])
        THEN {[n \in DOMAIN ls |-> ToIrPrimitive(ls[n])]} ELSE {}
=============================================================================
