---------------------------- MODULE CommandTexts ----------------------------
(***************************************************************************)
(* The plan executor on programs of the operational grammar: what a text   *)
(* of command lines, compiled, planned and executed, may do.               *)
(***************************************************************************)
EXTENDS PlanExecutor, OperationalGrammar

CONSTANT Text       \* texts, sequences of lines

(* The programs of the texts; a text that does not compile has none. *)
CompiledTexts == [t \in Text |-> CompileText(t)]

(* A text acts only by lines that command it outright: the act of a node   *)
(* is the verb of its own line, and what a line asks to confirm or to      *)
(* schedule is not done, whatever stands before or below it                *)
(* (operational_grammar.rs, planning_compiler.rs, plan_executor.rs).       *)
TextsActByTheirLines ==
    \A t \in Text : given.program \in CompiledTexts[t] =>
        \A i \in DOMAIN acts :
            LET l == Commands(t)[acts[i].node]
            IN  /\ l.kind \in Slice /\ l.kind = plan[acts[i].node].verb
                /\ Arg(l, "key") = plan[acts[i].node].args
=============================================================================
