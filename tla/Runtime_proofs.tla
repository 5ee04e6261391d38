---------------------------- MODULE Runtime_proofs ----------------------------
(***************************************************************************)
(* Proofs about the runtime: the plan executor, with any number of runs of *)
(* a plan of any length; the texts of the operational grammar on it; the   *)
(* sessions of the agent runtime, with any number of calls; and admission, *)
(* with any documents and any number of calls on one world.                *)
(***************************************************************************)
EXTENDS CommandTexts, AgentRuntime, Admission,
        FiniteSetTheorems, SequenceTheorems, WellFoundedInduction, TLAPS

-----------------------------------------------------------------------------
(* The plan executor.                                                      *)

(* The plan is the compiled one, with the contracts the caller declared.   *)
PlanInv ==
    /\ given \in [program : Program, manifests : ManifestSet, ctx : Ctx]
    /\ IF Refused THEN plan = <<>>
       ELSE \E nodes \in SUBSET DOMAIN given.program :
                plan = Declare(PlanOf(given.program, given.manifests, given.ctx), nodes)

TypeInv ==
    /\ phase \in [Run -> {"idle", "running", "lost"}]
    /\ results \in [Run -> Seq(Outcome)]
    /\ stage \in [Run -> {"none", "called", "admitted", "acted", "closed"}]
    /\ replayed \in [Run -> BOOLEAN]
    /\ known \subseteq {<<plan[n].verb, plan[n].args>> : n \in DOMAIN plan}
    /\ admitted \subseteq Run \X DOMAIN plan
    /\ acts \in Seq([run : Run, node : DOMAIN plan])

(* The first n nodes of a run succeeded. *)
Succeeded(res, n) == \A m \in 1..n : m \in DOMAIN res /\ res[m] = "Success"

(* A run halted at node n: those before succeeded, those behind are skipped. *)
HaltsAt(res, n) ==
    /\ Len(res) = Len(plan) /\ n \in DOMAIN res
    /\ Succeeded(res, n - 1)
    /\ IsTerminalHalt(res[n])
    /\ \A m \in n + 1 .. Len(res) : res[m] = "Skipped"

WellFormed(res) ==
    /\ Len(res) <= Len(plan)
    /\ Succeeded(res, Len(res)) \/ \E n \in DOMAIN res : HaltsAt(res, n)

Awaiting(r) == phase[r] = "running" /\ Len(results[r]) < Len(plan)

(* What is true of one run, of its outcomes and of the slice it awaits. *)
RunInv(r) ==
    /\ WellFormed(results[r])
    /\ phase[r] = "idle" => results[r] = <<>>
    /\ stage[r] # "none" => Awaiting(r)
    /\ Awaiting(r) => ~IdempotencyGate(Command(r))
    /\ stage[r] \in {"admitted", "acted", "closed"} => ReachesOrchestrator(Command(r))
    /\ stage[r] = "closed" => Command(r).verb = "install.reconcile"
    /\ stage[r] = "acted" => Acted(r, At(r))
    /\ stage[r] \in {"none", "called", "admitted"} /\ phase[r] # "lost" => ~Acted(r, At(r))

(* The outcomes of a run tell whether it acted. *)
OutcomeInv(r) ==
    \A n \in DOMAIN results[r] :
        /\ results[r][n] = "Success" => ReachesOrchestrator(plan[n]) /\ ~IdempotencyGate(plan[n])
        /\ results[r][n] = "Success" /\ plan[n].verb \in {"outbound.send", "host.pair"} => Acted(r, n)
        /\ Acted(r, n) => results[r][n] \in {"Success", "Failure"}

(* A node was admitted, and acted, when all before it had succeeded. *)
ActInv ==
    /\ \A i \in DOMAIN acts : /\ Succeeded(results[acts[i].run], acts[i].node - 1)
                              /\ ReachesOrchestrator(plan[acts[i].node])
                              /\ ~IdempotencyGate(plan[acts[i].node])
    /\ \A x \in admitted : Succeeded(results[x[1]], x[2] - 1)

ExecutorInv == PlanInv /\ TypeInv /\ (\A r \in Run : RunInv(r) /\ OutcomeInv(r)) /\ ActInv

-----------------------------------------------------------------------------
(* The nodes of the plan are those of the program, and a plan that is not  *)
(* refused is the plan of nodes that can all be planned.                   *)
LEMMA PlanFacts ==
    ASSUME PlanInv
    PROVE  /\ Len(plan) \in Nat /\ DOMAIN plan = 1..Len(plan)
           /\ Len(plan) = IF Refused THEN 0 ELSE Len(given.program)
           /\ DOMAIN plan \subseteq DOMAIN given.program
           /\ \A n \in DOMAIN plan :
                 LET b == given.program[n]
                     np == NodePlan(b, given.manifests, given.ctx)
                 IN  /\ Plannable(b, given.manifests, given.ctx)
                     /\ plan[n].verb = np.verb /\ plan[n].target = np.target
                     /\ plan[n].args = np.args /\ plan[n].confirm = np.confirm
                     /\ plan[n].surface = np.surface
  <1> DEFINE prog == given.program
             P == PlanOf(prog, given.manifests, given.ctx)
  <1>1. prog \in Program  BY DEF PlanInv
  <1>2. prog \in Seq({prog[n] : n \in DOMAIN prog})  BY <1>1, ProgramAssumption
  <1>3. Len(prog) \in Nat /\ DOMAIN prog = 1..Len(prog)  BY <1>2
  <1>4. CASE Refused
    <2>1. plan = <<>>  BY <1>4 DEF PlanInv
    <2>2. Len(plan) = 0 /\ DOMAIN plan = 1..0  BY <2>1
    <2> QED  BY <1>4, <2>2
  <1>5. CASE ~Refused
    <2>1. PICK nodes \in SUBSET DOMAIN prog : plan = Declare(P, nodes)  BY <1>5 DEF PlanInv
    <2>2. \A n \in DOMAIN prog : Plannable(prog[n], given.manifests, given.ctx)
      BY <1>5 DEF Refused, Plans
    <2>3. DOMAIN P = DOMAIN prog /\ \A n \in DOMAIN prog :
            P[n] = NodePlan(prog[n], given.manifests, given.ctx)
      BY DEF PlanOf
    <2> HIDE DEF P
    <2>4. /\ DOMAIN plan = DOMAIN prog
          /\ \A n \in DOMAIN prog :
                plan[n] = IF n \in nodes THEN [P[n] EXCEPT !.contract = ConfirmedOnly] ELSE P[n]
      BY <2>1, <2>3 DEF Declare
    <2>5. plan \in Seq({plan[n] : n \in DOMAIN plan})
      <3>1. plan = [n \in 1..Len(prog) |-> plan[n]]  BY <1>3, <2>1, <2>3, <2>4 DEF Declare
      <3>2. plan \in [1..Len(prog) -> {plan[n] : n \in DOMAIN plan}]  BY <1>3, <2>4, <3>1
      <3> QED  BY <1>3, <3>2, SeqDef
    <2>6. Len(plan) \in Nat /\ DOMAIN plan = 1..Len(plan)  BY <2>5
    <2>7. Len(plan) = Len(prog)  BY <1>3, <2>4, <2>6
    <2>8. ASSUME NEW n \in DOMAIN prog
          PROVE  LET np == NodePlan(prog[n], given.manifests, given.ctx)
                 IN  /\ plan[n].verb = np.verb /\ plan[n].target = np.target
                     /\ plan[n].args = np.args /\ plan[n].confirm = np.confirm
                     /\ plan[n].surface = np.surface
      <3>1. P[n] = NodePlan(prog[n], given.manifests, given.ctx)  BY <2>3
      <3>2. CASE n \in nodes
        <4>1. plan[n] = [P[n] EXCEPT !.contract = ConfirmedOnly]  BY <2>4, <3>2
        <4> QED  BY <3>1, <4>1 DEF NodePlan
      <3>3. CASE n \notin nodes  BY <2>4, <3>1, <3>3
      <3> QED  BY <3>2, <3>3
    <2> QED  BY <1>5, <2>2, <2>4, <2>6, <2>7, <2>8
  <1> QED  BY <1>4, <1>5

(* A node that reaches a slice is a bare canonical act: none that waits    *)
(* for a confirmation, and admitted for a class that may act.              *)
LEMMA SliceNodes ==
    ASSUME PlanInv, NEW n \in DOMAIN plan, Supported(plan[n])
    PROVE  /\ ReachesSlice(given.program[n])
           /\ plan[n].confirm = FALSE
           /\ given.ctx.permitted /\ given.ctx.class # "A"
           /\ given.ctx.class = "D" => ~given.ctx.boundary
  <1> DEFINE b == given.program[n]
  <1>1. /\ plan[n].target = Target(b) /\ plan[n].confirm = RequiresConfirmation(b)
        /\ Plannable(b, given.manifests, given.ctx)
    BY PlanFacts DEF NodePlan
  <1>2. ReachesSlice(b)  BY <1>1 DEF Supported, Target
  <1>3. Name(b) = "Execute" /\ b.carrier = "canonical"  BY <1>2 DEF ReachesSlice, IsCanonical
  <1>4. RequiresConfirmation(b) = FALSE  BY <1>3 DEF RequiresConfirmation
  <1>5. /\ given.ctx.permitted
        /\ given.ctx.boundary => given.ctx.class # "D"
        /\ PolicyAllowsPrimitive(given.ctx.class, "Execute")
    BY <1>1, <1>3 DEF Plannable, Admissible, ValidPolicy
  <1>6. given.ctx.class # "A"
    BY <1>5 DEF PolicyAllowsPrimitive, ReadPrimitive, InferPrimitive
  <1> QED  BY <1>1, <1>2, <1>4, <1>5, <1>6

-----------------------------------------------------------------------------
(* On from outcomes that are all successes the run goes on, or halts at a  *)
(* gate; on from a halt it skips the rest.                                 *)
LEMMA ContinueFacts ==
    ASSUME PlanInv, NEW res \in Seq(Outcome), Len(res) <= Len(plan), NEW c, c = Continue(res)
    PROVE  /\ c \in Seq(Outcome)
           /\ Len(res) <= Len(c) /\ Len(c) <= Len(plan)
           /\ \A n \in 1..Len(res) : c[n] = res[n]
           /\ Succeeded(res, Len(res)) =>
                 \/ c = res /\ (Len(res) < Len(plan) => ~IdempotencyGate(plan[Len(res) + 1]))
                 \/ HaltsAt(c, Len(res) + 1) /\ c[Len(res) + 1] = "Blocked" /\ Len(res) < Len(plan)
           /\ (Len(res) > 0 /\ Succeeded(res, Len(res) - 1) /\ IsTerminalHalt(res[Len(res)]))
                 => HaltsAt(c, Len(res))
  <1>0. Len(plan) \in Nat /\ Len(res) \in Nat /\ DOMAIN res = 1..Len(res)
        /\ \A n \in 1..Len(res) : res[n] \in Outcome
    BY PlanFacts
  <1>1. ASSUME NEW s \in Seq(Outcome), Len(s) <= Len(plan)
        PROVE  /\ SkipTo(s, Len(plan)) \in Seq(Outcome)
               /\ Len(SkipTo(s, Len(plan))) = Len(plan)
               /\ \A n \in 1..Len(s) : SkipTo(s, Len(plan))[n] = s[n]
               /\ \A n \in Len(s) + 1 .. Len(plan) : SkipTo(s, Len(plan))[n] = "Skipped"
    <2>1. Len(s) \in Nat /\ DOMAIN s = 1..Len(s) /\ \A n \in 1..Len(s) : s[n] \in Outcome
      OBVIOUS
    <2>2. SkipTo(s, Len(plan)) \in [1..Len(plan) -> Outcome]
      BY <2>1 DEF SkipTo, Outcome
    <2>3. SkipTo(s, Len(plan)) \in Seq(Outcome)  BY <1>0, <2>2, SeqDef
    <2>4. Len(SkipTo(s, Len(plan))) = Len(plan)  BY <1>0, <2>2, <2>3, LenProperties
    <2> QED  BY <1>0, <1>1, <2>1, <2>3, <2>4 DEF SkipTo
  <1>2. CASE Halted(res)
    <2>1. c = SkipTo(res, Len(plan))  BY <1>2 DEF Continue
    <2>2. ~Succeeded(res, Len(res))
      BY <1>0, <1>2 DEF Halted, IsTerminalHalt, Succeeded
    <2>3. ASSUME Len(res) > 0, Succeeded(res, Len(res) - 1), IsTerminalHalt(res[Len(res)])
          PROVE  HaltsAt(c, Len(res))
      <3>1. /\ c \in Seq(Outcome) /\ Len(c) = Len(plan) /\ DOMAIN c = 1..Len(plan)
            /\ \A n \in 1..Len(res) : c[n] = res[n]
            /\ \A n \in Len(res) + 1 .. Len(plan) : c[n] = "Skipped"
        BY <1>0, <1>1, <2>1
      <3>2. c[Len(res)] = res[Len(res)] /\ Len(res) \in DOMAIN c  BY <1>0, <2>3, <3>1
      <3>3. Succeeded(c, Len(res) - 1)  BY <1>0, <2>3, <3>1 DEF Succeeded
      <3> QED  BY <1>0, <2>3, <3>1, <3>2, <3>3 DEF HaltsAt
    <2> QED  BY <1>0, <1>1, <2>1, <2>2, <2>3
  <1>3. CASE ~Halted(res)
    <2>1. ~(Len(res) > 0 /\ IsTerminalHalt(res[Len(res)]))  BY <1>0, <1>3 DEF Halted
    <2>2. CASE Len(res) < Len(plan) /\ IdempotencyGate(plan[Len(res) + 1])
      <3> DEFINE s == Append(res, "Blocked")
      <3>1. /\ s \in Seq(Outcome) /\ Len(s) = Len(res) + 1 /\ s[Len(res) + 1] = "Blocked"
            /\ \A n \in 1..Len(res) : s[n] = res[n]
        BY <1>0 DEF Outcome
      <3>2. c = SkipTo(s, Len(plan))  BY <1>3, <2>2 DEF Continue
      <3> HIDE DEF s
      <3>3. /\ c \in Seq(Outcome) /\ Len(c) = Len(plan) /\ DOMAIN c = 1..Len(plan)
            /\ \A n \in 1..Len(res) : c[n] = res[n]
            /\ c[Len(res) + 1] = "Blocked"
            /\ \A n \in Len(res) + 2 .. Len(plan) : c[n] = "Skipped"
        BY <1>0, <1>1, <2>2, <3>1, <3>2
      <3>4. ASSUME Succeeded(res, Len(res))  PROVE HaltsAt(c, Len(res) + 1)
        BY <1>0, <2>2, <3>3, <3>4 DEF HaltsAt, Succeeded, IsTerminalHalt
      <3> QED  BY <1>0, <2>1, <2>2, <3>3, <3>4
    <2>3. CASE ~(Len(res) < Len(plan) /\ IdempotencyGate(plan[Len(res) + 1]))
      <3>1. c = res  BY <1>3, <2>3 DEF Continue
      <3> QED  BY <1>0, <2>1, <2>3, <3>1
    <2> QED  BY <2>2, <2>3
  <1> QED  BY <1>2, <1>3

(* A run that awaits a slice has succeeded so far. *)
LEMMA AwaitingRuns ==
    ASSUME PlanInv, TypeInv, NEW r \in Run, RunInv(r), Awaiting(r)
    PROVE  /\ results[r] \in Seq(Outcome) /\ Len(results[r]) \in Nat
           /\ DOMAIN results[r] = 1..Len(results[r])
           /\ Succeeded(results[r], Len(results[r]))
           /\ At(r) \in DOMAIN plan /\ At(r) = Len(results[r]) + 1
  <1>1. results[r] \in Seq(Outcome)  BY DEF TypeInv
  <1>2. Len(results[r]) \in Nat /\ DOMAIN results[r] = 1..Len(results[r])  BY <1>1
  <1>3. Succeeded(results[r], Len(results[r]))  BY DEF RunInv, WellFormed, HaltsAt, Awaiting
  <1>4. Len(plan) \in Nat /\ DOMAIN plan = 1..Len(plan)  BY PlanFacts
  <1> QED  BY <1>1, <1>2, <1>3, <1>4 DEF At, Awaiting

(* Each act is of a run and of a node of the plan. *)
LEMMA ActTypes ==
    ASSUME TypeInv
    PROVE  /\ Len(acts) \in Nat /\ DOMAIN acts = 1..Len(acts)
           /\ \A i \in DOMAIN acts : /\ acts[i].run \in Run /\ acts[i].node \in DOMAIN plan
                                     /\ acts[i] = [run |-> acts[i].run, node |-> acts[i].node]
  <1> DEFINE S == [run : Run, node : DOMAIN plan]
  <1>1. acts \in Seq(S)  BY DEF TypeInv
  <1> HIDE DEF S
  <1>2. /\ Len(acts) \in Nat /\ DOMAIN acts = 1..Len(acts)
        /\ \A i \in DOMAIN acts : acts[i] \in S
    BY <1>1
  <1> QED  BY <1>2 DEF S

(* What a slice can have answered, told from what it has done. *)
LEMMA OutcomesFacts ==
    ASSUME ExecutorInv, NEW r \in Run, stage[r] # "none", NEW outcome \in Outcomes(r)
    PROVE  /\ outcome \in {"Success", "Failure", "Blocked"}
           /\ outcome = "Success" => ReachesOrchestrator(Command(r))
           /\ outcome = "Success" /\ Command(r).verb \in {"outbound.send", "host.pair"} =>
                Acted(r, At(r))
           /\ outcome = "Blocked" => ~Acted(r, At(r))
  <1>1. RunInv(r)  BY DEF ExecutorInv
  <1>2. stage[r] \in {"called", "admitted", "acted", "closed"}  BY DEF ExecutorInv, TypeInv
  <1>3. CASE ~ReachesOrchestrator(Command(r))
    <2>1. outcome = "Blocked"  BY <1>3 DEF Outcomes
    <2>2. ASSUME Acted(r, At(r)) PROVE FALSE
      <3>1. PICK i \in DOMAIN acts : acts[i] = [run |-> r, node |-> At(r)]  BY <2>2 DEF Acted
      <3>2. ReachesOrchestrator(plan[acts[i].node])  BY DEF ExecutorInv, ActInv
      <3> QED  BY <1>3, <3>1, <3>2 DEF Command
    <2> QED  BY <2>1, <2>2
  <1>4. CASE ReachesOrchestrator(Command(r))
    <2>1. CASE stage[r] = "called"
      <3>1. ~Acted(r, At(r))  BY <1>1, <2>1 DEF RunInv, Awaiting
      <3>2. outcome \in {"Failure", "Blocked"}
              \/ (outcome = "Success" /\ Command(r).verb = "install.reconcile")
        BY <1>4, <2>1 DEF Outcomes
      <3> QED  BY <1>4, <3>1, <3>2
    <2>2. CASE stage[r] = "admitted"
      <3>1. ~Acted(r, At(r))  BY <1>1, <2>2 DEF RunInv, Awaiting
      <3>2. outcome \in {"Failure", "Blocked"}  BY <1>4, <2>2 DEF Outcomes
      <3> QED  BY <3>1, <3>2
    <2>3. CASE stage[r] = "acted"
      <3>1. Acted(r, At(r))  BY <1>1, <2>3 DEF RunInv
      <3>2. outcome \in {"Failure", "Success"}  BY <1>4, <2>3 DEF Outcomes
      <3> QED  BY <1>4, <3>1, <3>2
    <2>4. CASE stage[r] = "closed"
      <3>1. Command(r).verb = "install.reconcile"  BY <1>1, <2>4 DEF RunInv
      <3>2. outcome \in {"Failure", "Success"}  BY <1>4, <2>4 DEF Outcomes
      <3> QED  BY <1>4, <3>1, <3>2
    <2> QED  BY <1>2, <2>1, <2>2, <2>3, <2>4
  <1> QED  BY <1>3, <1>4

-----------------------------------------------------------------------------
(* The inductive invariant holds initially. *)
LEMMA InitExecutorInv == Init => ExecutorInv
  <1> SUFFICES ASSUME Init PROVE ExecutorInv  OBVIOUS
  <1>1. PlanInv
    <2>1. given \in [program : Program, manifests : ManifestSet, ctx : Ctx]  BY DEF Init
    <2>2. CASE Refused  BY <2>1, <2>2 DEF Init, PlanInv, Refused
    <2>3. CASE ~Refused
      <3>1. Plans(given.program, given.manifests, given.ctx)
              = {PlanOf(given.program, given.manifests, given.ctx)}
        BY <2>3 DEF Refused, Plans
      <3>2. PICK nodes \in SUBSET DOMAIN PlanOf(given.program, given.manifests, given.ctx) :
                plan = Declare(PlanOf(given.program, given.manifests, given.ctx), nodes)
        BY <3>1 DEF Init
      <3>3. DOMAIN PlanOf(given.program, given.manifests, given.ctx) = DOMAIN given.program
        BY DEF PlanOf
      <3> QED  BY <2>1, <2>3, <3>2, <3>3 DEF PlanInv
    <2> QED  BY <2>2, <2>3
  <1>2. acts \in Seq([run : Run, node : DOMAIN plan]) /\ Len(acts) = 0 /\ DOMAIN acts = {}
    BY EmptySeq DEF Init
  <1>3. \A r \in Run : results[r] \in Seq(Outcome) /\ Len(results[r]) = 0 /\ DOMAIN results[r] = {}
    BY EmptySeq DEF Init
  <1>4. TypeInv
    <2>1. results \in [Run -> Seq(Outcome)]  BY EmptySeq DEF Init
    <2> QED  BY <1>2, <2>1 DEF Init, TypeInv
  <1>5. Len(plan) \in Nat  BY <1>1, PlanFacts
  <1>6. ASSUME NEW r \in Run PROVE RunInv(r) /\ OutcomeInv(r)
    <2>1. WellFormed(results[r])  BY <1>3, <1>5 DEF WellFormed, Succeeded
    <2>2. \A n : ~Acted(r, n)  BY <1>2 DEF Acted
    <2>3. phase[r] = "idle" /\ stage[r] = "none" /\ results[r] = <<>>  BY DEF Init
    <2> QED  BY <1>3, <2>1, <2>2, <2>3 DEF RunInv, OutcomeInv, Awaiting
  <1>7. ActInv  BY <1>2 DEF ActInv, Init
  <1> QED  BY <1>1, <1>4, <1>6, <1>7 DEF ExecutorInv

-----------------------------------------------------------------------------
(* Steps: what a step of one run leaves alone. *)

(* The program and the plan never change. *)
LEMMA PlanKept ==
    ASSUME PlanInv, UNCHANGED <<given, plan>>
    PROVE  PlanInv'
  BY DEF PlanInv, Refused

(* What was acted in an appended act. *)
LEMMA ActedAppend ==
    ASSUME acts \in Seq([run : Run, node : DOMAIN plan]), NEW r \in Run, NEW k \in DOMAIN plan,
           acts' = Append(acts, [run |-> r, node |-> k])
    PROVE  /\ Acted(r, k)'
           /\ \A q, n : Acted(q, n)' => Acted(q, n) \/ (q = r /\ n = k)
           /\ \A q, n : Acted(q, n) => Acted(q, n)'
           /\ \A i \in DOMAIN acts' :
                 \/ i \in DOMAIN acts /\ acts'[i] = acts[i]
                 \/ acts'[i] = [run |-> r, node |-> k]
  <1>1. /\ Len(acts) \in Nat /\ DOMAIN acts = 1..Len(acts)
        /\ DOMAIN acts' = 1..(Len(acts) + 1)
        /\ \A i \in 1..Len(acts) : acts'[i] = acts[i]
        /\ acts'[Len(acts) + 1] = [run |-> r, node |-> k]
    OBVIOUS
  <1>2. Acted(r, k)'  BY <1>1 DEF Acted
  <1>3. \A i \in DOMAIN acts' :
        \/ i \in DOMAIN acts /\ acts'[i] = acts[i]
        \/ acts'[i] = [run |-> r, node |-> k]
    BY <1>1
  <1>4. ASSUME NEW q, NEW n, Acted(q, n)' PROVE Acted(q, n) \/ (q = r /\ n = k)
    <2>1. PICK i \in DOMAIN acts' : acts'[i] = [run |-> q, node |-> n]  BY <1>4 DEF Acted
    <2> QED  BY <1>3, <2>1 DEF Acted
  <1>5. ASSUME NEW q, NEW n, Acted(q, n) PROVE Acted(q, n)'
    <2>1. PICK i \in DOMAIN acts : acts[i] = [run |-> q, node |-> n]  BY <1>5 DEF Acted
    <2> QED  BY <1>1, <2>1 DEF Acted
  <1> QED  BY <1>2, <1>3, <1>4, <1>5

(* A run none of whose state changed keeps its invariant. *)
LEMMA RunKept ==
    ASSUME NEW q \in Run, RunInv(q), OutcomeInv(q), plan' = plan,
           phase'[q] = phase[q], stage'[q] = stage[q], results'[q] = results[q],
           \A n : Acted(q, n)' <=> Acted(q, n)
    PROVE  RunInv(q)' /\ OutcomeInv(q)'
  <1>1. WellFormed(results[q])' <=> WellFormed(results[q])
    BY DEF WellFormed, HaltsAt, Succeeded
  <1>2. (Awaiting(q)' <=> Awaiting(q)) /\ At(q)' = At(q) /\ Command(q)' = Command(q)
    BY DEF Awaiting, At, Command
  <1>3. RunInv(q)'  BY <1>1, <1>2 DEF RunInv
  <1>4. OutcomeInv(q)'  BY DEF OutcomeInv
  <1> QED  BY <1>3, <1>4

(* A step that extends the outcomes of one run, and no others. *)
LEMMA ActsKept ==
    ASSUME TypeInv, ActInv, UNCHANGED <<plan, acts, admitted>>,
           \A q \in Run : \A n : Succeeded(results[q], n) => Succeeded(results'[q], n)
    PROVE  ActInv'
  <1>1. \A i \in DOMAIN acts : acts[i].run \in Run  BY ActTypes
  <1>2. \A x \in admitted : x[1] \in Run  BY DEF TypeInv
  <1>3. ASSUME NEW i \in DOMAIN acts
        PROVE  /\ Succeeded(results'[acts[i].run], acts[i].node - 1)
               /\ ReachesOrchestrator(plan[acts[i].node])
               /\ ~IdempotencyGate(plan[acts[i].node])
    BY <1>1 DEF ActInv
  <1>4. ASSUME NEW x \in admitted PROVE Succeeded(results'[x[1]], x[2] - 1)
    BY <1>2 DEF ActInv
  <1> QED  BY <1>3, <1>4 DEF ActInv

-----------------------------------------------------------------------------
(* The steps of the executor. *)

(* A run that begins halts at a gate, or awaits the first slice. *)
LEMMA BeginKeepsExecutorInv ==
    ASSUME ExecutorInv, NEW r \in Run, Begin(r)
    PROVE  ExecutorInv'
  <1> DEFINE c == Continue(<<>>)
  <1> USE DEF ExecutorInv
  <1>1. PlanInv'  BY PlanKept DEF Begin
  <1>2. <<>> \in Seq(Outcome) /\ Len(<<>>) = 0  BY EmptySeq
  <1>3. Len(plan) \in Nat /\ DOMAIN plan = 1..Len(plan)  BY PlanFacts
  <1>4. Succeeded(<<>>, Len(<<>>))  BY <1>2 DEF Succeeded
  <1>5. /\ c \in Seq(Outcome) /\ Len(c) <= Len(plan)
        /\ \/ c = <<>> /\ (0 < Len(plan) => ~IdempotencyGate(plan[1]))
           \/ HaltsAt(c, 1) /\ c[1] = "Blocked" /\ 0 < Len(plan)
    <2>1. PICK e \in Seq(Outcome) : e = <<>> /\ Len(e) = 0  BY <1>2
    <2>2. Len(e) <= Len(plan) /\ Succeeded(e, Len(e)) /\ Len(e) + 1 = 1  BY <1>3, <2>1 DEF Succeeded
    <2>3. c = Continue(e)  BY <2>1
    <2>4. PlanInv  OBVIOUS
    <2> HIDE DEF c
    <2>5. /\ c \in Seq(Outcome) /\ Len(c) <= Len(plan)
          /\ \/ c = e /\ (Len(e) < Len(plan) => ~IdempotencyGate(plan[Len(e) + 1]))
             \/ HaltsAt(c, Len(e) + 1) /\ c[Len(e) + 1] = "Blocked" /\ Len(e) < Len(plan)
      BY ONLY <2>2, <2>3, <2>4, ContinueFacts
    <2> QED  BY <2>1, <2>5
  <1>6. results[r] = <<>> /\ phase[r] = "idle" /\ stage[r] = "none"
    BY DEF Begin, RunInv, Awaiting, TypeInv
  <1>7. At(r) = 1  BY <1>2, <1>6 DEF At
  <1>8. \A n \in Nat \ {0} : ~Acted(r, n)
    <2> SUFFICES ASSUME NEW n \in Nat \ {0}, Acted(r, n) PROVE FALSE  OBVIOUS
    <2>1. PICK i \in DOMAIN acts : acts[i] = [run |-> r, node |-> n]  BY DEF Acted
    <2>2. Succeeded(results[r], n - 1)  BY <2>1 DEF ActInv
    <2>3. n = 1  BY <1>2, <1>6, <2>2 DEF Succeeded
    <2>4. ~Acted(r, 1)  BY <1>6, <1>7 DEF RunInv
    <2> QED  BY <2>3, <2>4
  <1>9. /\ results' = [results EXCEPT ![r] = c] /\ phase' = [phase EXCEPT ![r] = "running"]
        /\ UNCHANGED <<given, plan, stage, replayed, known, admitted, acts>>
    BY DEF Begin
  <1> HIDE DEF c
  <1>10. TypeInv'
    <2>1. /\ results' \in [Run -> Seq(Outcome)]
          /\ phase' \in [Run -> {"idle", "running", "lost"}]
      BY <1>5, <1>9 DEF TypeInv
    <2> QED  BY <1>9, <2>1 DEF TypeInv
  <1>11. /\ results'[r] = c /\ phase'[r] = "running" /\ stage'[r] = "none"
         /\ \A n : Acted(r, n)' <=> Acted(r, n)
    BY <1>6, <1>9 DEF TypeInv, Acted
  <1>12. Len(c) \in Nat /\ DOMAIN c = 1..Len(c)  BY <1>5
  <1>13. RunInv(r)' /\ OutcomeInv(r)'
    <2>1. CASE c = <<>> /\ (0 < Len(plan) => ~IdempotencyGate(plan[1]))
      <3>1. WellFormed(results[r])'  BY <1>2, <1>3, <1>9, <1>11, <1>12, <2>1 DEF WellFormed, Succeeded
      <3>2. At(r)' = 1 /\ DOMAIN c = {}  BY <1>2, <1>11, <1>12, <2>1 DEF At
      <3>3. Awaiting(r)' => ~IdempotencyGate(Command(r))'
        BY <1>2, <1>9, <1>11, <2>1, <3>2 DEF Awaiting, Command
      <3>4. ~Acted(r, At(r))'  BY <1>8, <1>11, <3>2
      <3> QED  BY <1>11, <3>1, <3>2, <3>3, <3>4 DEF RunInv, OutcomeInv
    <2>2. CASE HaltsAt(c, 1) /\ c[1] = "Blocked" /\ 0 < Len(plan)
      <3>1. /\ Len(c) = Len(plan) /\ \A m \in 2..Len(c) : c[m] = "Skipped"
        BY <2>2 DEF HaltsAt
      <3>2. WellFormed(results[r])'
        BY <1>3, <1>9, <1>11, <1>12, <2>2 DEF WellFormed, HaltsAt, Succeeded
      <3>3. ~Awaiting(r)'  BY <1>3, <1>9, <1>11, <3>1 DEF Awaiting
      <3>4. At(r)' \in Nat \ {0}  BY <1>11, <1>12 DEF At
      <3>5. ~Acted(r, At(r))'  BY <1>8, <1>11, <3>4
      <3>6. RunInv(r)'  BY <1>11, <3>2, <3>3, <3>5 DEF RunInv
      <3>7. \A n \in DOMAIN c : c[n] \in {"Blocked", "Skipped"} /\ ~Acted(r, n)'
        BY <1>8, <1>11, <1>12, <2>2, <3>1
      <3> QED  BY <1>11, <3>6, <3>7 DEF OutcomeInv
    <2> QED  BY <1>5, <2>1, <2>2
  <1>14. ASSUME NEW q \in Run, q # r PROVE RunInv(q)' /\ OutcomeInv(q)'
    <2>1. phase'[q] = phase[q] /\ stage'[q] = stage[q] /\ results'[q] = results[q]
      BY <1>9, <1>14 DEF TypeInv
    <2> QED  BY <1>9, <2>1, RunKept DEF Acted
  <1>15. ActInv'
    <2>1. ASSUME NEW q \in Run, NEW n, Succeeded(results[q], n) PROVE Succeeded(results'[q], n)
      <3>1. CASE q = r
        <4>1. \A m \in 1..n : m \in DOMAIN <<>>  BY <1>6, <2>1, <3>1 DEF Succeeded
        <4>2. \A m \in 1..n : FALSE  BY <1>2, <4>1
        <4> QED  BY <4>2 DEF Succeeded
      <3>2. CASE q # r  BY <1>9, <2>1, <3>2 DEF TypeInv
      <3> QED  BY <3>1, <3>2
    <2> QED  BY <1>9, <2>1, ActsKept
  <1> QED  BY <1>1, <1>10, <1>13, <1>14, <1>15

(* The slice is called, and looks for an earlier act. *)
LEMMA DispatchKeepsExecutorInv ==
    ASSUME ExecutorInv, NEW r \in Run, Dispatch(r)
    PROVE  ExecutorInv'
  <1> USE DEF ExecutorInv
  <1>1. PlanInv'  BY PlanKept DEF Dispatch
  <1>2. /\ stage' = [stage EXCEPT ![r] = "called"]
        /\ UNCHANGED <<given, plan, phase, results, known, admitted, acts>>
    BY DEF Dispatch
  <1>3. TypeInv'  BY <1>2 DEF TypeInv, Dispatch
  <1>4. stage'[r] = "called" /\ stage[r] = "none" /\ phase[r] = "running"
    BY <1>2 DEF TypeInv, Dispatch
  <1>5. /\ WellFormed(results[r])' <=> WellFormed(results[r])
        /\ Awaiting(r)' <=> Awaiting(r)
        /\ At(r)' = At(r) /\ Command(r)' = Command(r)
        /\ \A n : Acted(r, n)' <=> Acted(r, n)
    BY <1>2 DEF WellFormed, HaltsAt, Succeeded, Awaiting, At, Command, Acted
  <1>6. Awaiting(r)
    <2>1. Len(results[r]) \in Nat /\ Len(plan) \in Nat  BY PlanFacts DEF TypeInv
    <2>2. Len(results[r]) <= Len(plan) /\ Len(results[r]) # Len(plan)
      BY <1>4 DEF RunInv, WellFormed, Dispatch, Reported
    <2> QED  BY <1>4, <2>1, <2>2 DEF Awaiting
  <1>7. RunInv(r)'  BY <1>2, <1>4, <1>5, <1>6 DEF RunInv
  <1>8. OutcomeInv(r)'  BY <1>2, <1>5 DEF OutcomeInv
  <1>9. ASSUME NEW q \in Run, q # r PROVE RunInv(q)' /\ OutcomeInv(q)'
    <2>1. stage'[q] = stage[q]  BY <1>2, <1>9 DEF TypeInv
    <2> QED  BY <1>2, <2>1, RunKept DEF Acted
  <1>10. ActInv'  BY <1>2, ActsKept
  <1> QED  BY <1>1, <1>3, <1>7, <1>8, <1>9, <1>10

(* The admission of a node whose predecessors all succeeded. *)
LEMMA AdmitKeepsExecutorInv ==
    ASSUME ExecutorInv, NEW r \in Run, Admit(r)
    PROVE  ExecutorInv'
  <1> USE DEF ExecutorInv
  <1>1. PlanInv'  BY PlanKept DEF Admit
  <1>2. /\ stage' = [stage EXCEPT ![r] = "admitted"]
        /\ admitted' = admitted \cup {<<r, At(r)>>}
        /\ UNCHANGED <<given, plan, phase, results, replayed, acts>>
        /\ stage[r] = "called" /\ ReachesOrchestrator(Command(r))
        /\ known' \subseteq known \cup {Key(r)}
    BY DEF Admit
  <1>3. Awaiting(r)  BY <1>2 DEF RunInv
  <1>4. /\ Succeeded(results[r], Len(results[r])) /\ At(r) = Len(results[r]) + 1
        /\ At(r) \in DOMAIN plan /\ Len(results[r]) \in Nat
    BY <1>3, AwaitingRuns
  <1>5. TypeInv'
    <2>1. Key(r) \in {<<plan[n].verb, plan[n].args>> : n \in DOMAIN plan}
      BY <1>4 DEF Key, Command
    <2>2. known' \subseteq {<<plan[n].verb, plan[n].args>> : n \in DOMAIN plan}
      BY <1>2, <2>1 DEF TypeInv
    <2> QED  BY <1>2, <1>4, <2>2 DEF TypeInv
  <1>6. stage'[r] = "admitted"  BY <1>2 DEF TypeInv
  <1>7. /\ WellFormed(results[r])' <=> WellFormed(results[r])
        /\ Awaiting(r)' <=> Awaiting(r)
        /\ At(r)' = At(r) /\ Command(r)' = Command(r)
        /\ \A q, n : Acted(q, n)' <=> Acted(q, n)
    BY <1>2 DEF WellFormed, HaltsAt, Succeeded, Awaiting, At, Command, Acted
  <1>8. RunInv(r)'
    <2>1. (ReachesOrchestrator(Command(r)))' <=> ReachesOrchestrator(Command(r))
      BY <1>7
    <2> QED  BY <1>2, <1>3, <1>6, <1>7, <2>1 DEF RunInv
  <1>9. OutcomeInv(r)'  BY <1>2, <1>7 DEF OutcomeInv
  <1>10. ASSUME NEW q \in Run, q # r PROVE RunInv(q)' /\ OutcomeInv(q)'
    <2>1. stage'[q] = stage[q]  BY <1>2, <1>10 DEF TypeInv
    <2> QED  BY <1>2, <1>7, <2>1, RunKept
  <1>11. ActInv'
    <2>1. ASSUME NEW x \in admitted' PROVE Succeeded(results[x[1]], x[2] - 1)
      <3>1. CASE x \in admitted  BY <3>1 DEF ActInv
      <3>2. CASE x = <<r, At(r)>>  BY <1>4, <3>2
      <3> QED  BY <1>2, <3>1, <3>2
    <2> QED  BY <1>2, <2>1 DEF ActInv
  <1> QED  BY <1>1, <1>5, <1>8, <1>9, <1>10, <1>11

(* The act of a node, the first of the run for it. *)
LEMMA ActKeepsExecutorInv ==
    ASSUME ExecutorInv, NEW r \in Run, Act(r)
    PROVE  ExecutorInv'
  <1> USE DEF ExecutorInv
  <1>1. PlanInv'  BY PlanKept DEF Act
  <1>2. /\ stage' = [stage EXCEPT ![r] = "acted"]
        /\ acts' = Append(acts, [run |-> r, node |-> At(r)])
        /\ UNCHANGED <<given, plan, phase, results, replayed, known, admitted>>
        /\ stage[r] = "admitted"
    BY DEF Act
  <1>3. Awaiting(r)  BY <1>2 DEF RunInv
  <1>4. /\ Succeeded(results[r], Len(results[r])) /\ At(r) = Len(results[r]) + 1
        /\ At(r) \in DOMAIN plan /\ Len(results[r]) \in Nat
        /\ DOMAIN results[r] = 1..Len(results[r])
    BY <1>3, AwaitingRuns
  <1>5. acts \in Seq([run : Run, node : DOMAIN plan])  BY DEF TypeInv
  <1> PICK k \in DOMAIN plan : k = At(r)  BY <1>4
  <1>6. TypeInv'
    <2>1. acts' \in Seq([run : Run, node : DOMAIN plan])
      <3> DEFINE S == [run : Run, node : DOMAIN plan]
      <3>1. [run |-> r, node |-> At(r)] \in S /\ acts \in Seq(S)  BY <1>4, <1>5
      <3> HIDE DEF S
      <3>2. acts' \in Seq(S)  BY <1>2, <3>1
      <3> QED  BY <3>2 DEF S
    <2> QED  BY <1>2, <2>1 DEF TypeInv
  <1>7. /\ Acted(r, k)'
        /\ \A q, n : Acted(q, n)' => Acted(q, n) \/ (q = r /\ n = k)
        /\ \A q, n : Acted(q, n) => Acted(q, n)'
        /\ \A i \in DOMAIN acts' :
              \/ i \in DOMAIN acts /\ acts'[i] = acts[i]
              \/ acts'[i] = [run |-> r, node |-> k]
    BY <1>2, <1>4, <1>5, ActedAppend
  <1>8. stage'[r] = "acted"  BY <1>2 DEF TypeInv
  <1>9. /\ WellFormed(results[r])' <=> WellFormed(results[r])
        /\ Awaiting(r)' <=> Awaiting(r)
        /\ At(r)' = At(r) /\ Command(r)' = Command(r)
    BY <1>2 DEF WellFormed, HaltsAt, Succeeded, Awaiting, At, Command
  <1>10. RunInv(r)'
    <2>1. Acted(r, At(r))'  BY <1>7, <1>9
    <2>2. ReachesOrchestrator(Command(r)) /\ ~IdempotencyGate(Command(r)) /\ WellFormed(results[r])
      BY <1>2, <1>3 DEF RunInv
    <2> QED  BY <1>2, <1>3, <1>8, <1>9, <2>1, <2>2 DEF RunInv
  <1>11. OutcomeInv(r)'
    <2>1. ASSUME NEW n \in DOMAIN results[r] PROVE Acted(r, n)' <=> Acted(r, n)
      BY <1>4, <1>7
    <2> QED  BY <1>2, <2>1 DEF OutcomeInv
  <1>12. ASSUME NEW q \in Run, q # r PROVE RunInv(q)' /\ OutcomeInv(q)'
    <2>1. stage'[q] = stage[q]  BY <1>2, <1>12 DEF TypeInv
    <2> QED  BY <1>2, <1>7, <1>12, <2>1, RunKept
  <1>13. ActInv'
    <2>1. ASSUME NEW i \in DOMAIN acts'
          PROVE  /\ Succeeded(results[acts'[i].run], acts'[i].node - 1)
                 /\ ReachesOrchestrator(plan[acts'[i].node])
                 /\ ~IdempotencyGate(plan[acts'[i].node])
      <3>1. CASE i \in DOMAIN acts /\ acts'[i] = acts[i]  BY <3>1 DEF ActInv
      <3>2. CASE acts'[i] = [run |-> r, node |-> k]
        <4>1. ReachesOrchestrator(Command(r)) /\ ~IdempotencyGate(Command(r))
          BY <1>2, <1>3 DEF RunInv
        <4> QED  BY <1>4, <3>2, <4>1 DEF Command
      <3> QED  BY <1>7, <3>1, <3>2
    <2> QED  BY <1>2, <2>1 DEF ActInv
  <1> QED  BY <1>1, <1>6, <1>10, <1>11, <1>12, <1>13

(* install.reconcile closes, whether it acted or not. *)
LEMMA CloseKeepsExecutorInv ==
    ASSUME ExecutorInv, NEW r \in Run, Close(r)
    PROVE  ExecutorInv'
  <1> USE DEF ExecutorInv
  <1>1. PlanInv'  BY PlanKept DEF Close
  <1>2. /\ stage' = [stage EXCEPT ![r] = "closed"]
        /\ known' = known \cup {Key(r)}
        /\ UNCHANGED <<given, plan, phase, results, replayed, admitted, acts>>
        /\ stage[r] \in {"admitted", "acted"} /\ Command(r).verb = "install.reconcile"
    BY DEF Close
  <1>3. Awaiting(r)  BY <1>2 DEF RunInv
  <1>4. At(r) \in DOMAIN plan  BY <1>3, AwaitingRuns
  <1>5. TypeInv'
    <2>1. Key(r) \in {<<plan[n].verb, plan[n].args>> : n \in DOMAIN plan}
      BY <1>4 DEF Key, Command
    <2> QED  BY <1>2, <2>1 DEF TypeInv
  <1>6. stage'[r] = "closed"  BY <1>2 DEF TypeInv
  <1>7. /\ WellFormed(results[r])' <=> WellFormed(results[r])
        /\ Awaiting(r)' <=> Awaiting(r)
        /\ At(r)' = At(r) /\ Command(r)' = Command(r)
        /\ \A q, n : Acted(q, n)' <=> Acted(q, n)
    BY <1>2 DEF WellFormed, HaltsAt, Succeeded, Awaiting, At, Command, Acted
  <1>8. RunInv(r)'
    <2>1. ReachesOrchestrator(Command(r)) /\ ~IdempotencyGate(Command(r)) /\ WellFormed(results[r])
      BY <1>2, <1>3 DEF RunInv
    <2> QED  BY <1>2, <1>3, <1>6, <1>7, <2>1 DEF RunInv
  <1>9. OutcomeInv(r)'  BY <1>2, <1>7 DEF OutcomeInv
  <1>10. ASSUME NEW q \in Run, q # r PROVE RunInv(q)' /\ OutcomeInv(q)'
    <2>1. stage'[q] = stage[q]  BY <1>2, <1>10 DEF TypeInv
    <2> QED  BY <1>2, <1>7, <2>1, RunKept
  <1>11. ActInv'  BY <1>2, ActsKept
  <1> QED  BY <1>1, <1>5, <1>8, <1>9, <1>10, <1>11

(* A dropped run stays where it was. *)
LEMMA DropKeepsExecutorInv ==
    ASSUME ExecutorInv, NEW r \in Run, Drop(r)
    PROVE  ExecutorInv'
  <1> USE DEF ExecutorInv
  <1>1. PlanInv'  BY PlanKept DEF Drop
  <1>2. /\ phase' = [phase EXCEPT ![r] = "lost"] /\ stage' = [stage EXCEPT ![r] = "none"]
        /\ UNCHANGED <<given, plan, results, replayed, known, admitted, acts>>
    BY DEF Drop
  <1>3. TypeInv'  BY <1>2 DEF TypeInv
  <1>4. phase'[r] = "lost" /\ stage'[r] = "none"  BY <1>2 DEF TypeInv
  <1>5. RunInv(r)'
    <2>1. WellFormed(results[r])' <=> WellFormed(results[r])
      BY <1>2 DEF WellFormed, HaltsAt, Succeeded
    <2> QED  BY <1>2, <1>4, <2>1 DEF RunInv, Awaiting
  <1>6. \A q, n : Acted(q, n)' <=> Acted(q, n)  BY <1>2 DEF Acted
  <1>7. OutcomeInv(r)'  BY <1>2, <1>6 DEF OutcomeInv
  <1>8. ASSUME NEW q \in Run, q # r PROVE RunInv(q)' /\ OutcomeInv(q)'
    <2>1. stage'[q] = stage[q] /\ phase'[q] = phase[q]  BY <1>2, <1>8 DEF TypeInv
    <2> QED  BY <1>2, <1>6, <2>1, RunKept
  <1>9. ActInv'  BY <1>2, ActsKept
  <1> QED  BY <1>1, <1>3, <1>5, <1>7, <1>8, <1>9

(* The outcomes of a run once the slice at node k has answered: those      *)
(* before stay, the answer is that of node k, and the run either goes on   *)
(* past it, halts at the gate behind it, or halts at it.                   *)
LEMMA AnsweredOutcomes ==
    ASSUME ExecutorInv, NEW r \in Run, stage[r] # "none", NEW k \in Nat, k = At(r),
           NEW outcome \in Outcomes(r), NEW new, new = Continue(Append(results[r], outcome))
    PROVE  /\ new \in Seq(Outcome) /\ Len(new) \in Nat /\ DOMAIN new = 1..Len(new)
           /\ k <= Len(new) /\ Len(new) <= Len(plan) /\ Len(plan) \in Nat
           /\ k > 0 /\ Len(results[r]) = k - 1
           /\ \A n \in 1 .. k - 1 : new[n] = "Success" /\ results[r][n] = "Success"
           /\ new[k] = outcome
           /\ outcome = "Success" =>
                 \/ Len(new) = k /\ (k < Len(plan) => ~IdempotencyGate(plan[k + 1]))
                 \/ HaltsAt(new, k + 1) /\ new[k + 1] = "Blocked" /\ k < Len(plan)
           /\ outcome # "Success" => HaltsAt(new, k)
  <1>1. PlanInv /\ TypeInv /\ RunInv(r)  BY DEF ExecutorInv
  <1>2. Awaiting(r)  BY <1>1 DEF RunInv
  <1>3. /\ results[r] \in Seq(Outcome) /\ Len(results[r]) \in Nat
        /\ DOMAIN results[r] = 1..Len(results[r])
        /\ Succeeded(results[r], Len(results[r]))
        /\ k = Len(results[r]) + 1 /\ k <= Len(plan)
        /\ Len(plan) \in Nat
    BY <1>1, <1>2, AwaitingRuns, PlanFacts DEF Awaiting
  <1>4. outcome \in {"Success", "Failure", "Blocked"} /\ outcome \in Outcome
    BY OutcomesFacts DEF Outcome
  <1> DEFINE s == Append(results[r], outcome)
  <1>5. /\ s \in Seq(Outcome) /\ Len(s) = k
        /\ \A n \in 1 .. k - 1 : s[n] = results[r][n]
        /\ s[k] = outcome /\ DOMAIN s = 1..k
    BY <1>3, <1>4
  <1>6. new = Continue(s)  OBVIOUS
  <1> HIDE DEF s
  <1>c. /\ Len(s) <= Len(new) /\ Len(new) <= Len(plan) /\ new \in Seq(Outcome)
        /\ \A n \in 1..Len(s) : new[n] = s[n]
        /\ Succeeded(s, Len(s)) =>
              \/ new = s /\ (Len(s) < Len(plan) => ~IdempotencyGate(plan[Len(s) + 1]))
              \/ HaltsAt(new, Len(s) + 1) /\ new[Len(s) + 1] = "Blocked" /\ Len(s) < Len(plan)
        /\ (Len(s) > 0 /\ Succeeded(s, Len(s) - 1) /\ IsTerminalHalt(s[Len(s)]))
              => HaltsAt(new, Len(s))
    <2>1. PlanInv /\ s \in Seq(Outcome) /\ Len(s) <= Len(plan)  BY <1>1, <1>3, <1>5
    <2> QED  BY <1>6, <2>1, ContinueFacts
  <1>7. \A n \in 1 .. k - 1 : results[r][n] = "Success"  BY <1>3 DEF Succeeded
  <1>8. Succeeded(s, k - 1)  BY <1>3, <1>5, <1>7 DEF Succeeded
  <1>9. /\ new \in Seq(Outcome) /\ k <= Len(new) /\ Len(new) <= Len(plan)
        /\ \A n \in 1..k : new[n] = s[n]
    BY <1>5, <1>c
  <1>10. Len(new) \in Nat /\ DOMAIN new = 1..Len(new)  BY <1>9
  <1>11. /\ k > 0 /\ Len(results[r]) = k - 1
         /\ \A n \in 1 .. k - 1 : new[n] = "Success"
         /\ new[k] = outcome
    <2>1. k \in Nat /\ k > 0 /\ Len(results[r]) = k - 1  BY <1>3
    <2>2. k \in 1..k /\ \A n \in 1 .. k - 1 : n \in 1..k  BY <2>1
    <2>3. new[k] = outcome  BY <1>5, <1>9, <2>2
    <2>4. ASSUME NEW n \in 1 .. k - 1 PROVE new[n] = "Success"
      <3>1. new[n] = s[n] /\ s[n] = results[r][n]  BY <1>5, <1>9, <2>2
      <3> QED  BY <1>7, <3>1
    <2> QED  BY <2>1, <2>3, <2>4
  <1>12. ASSUME outcome = "Success"
         PROVE  \/ Len(new) = k /\ (k < Len(plan) => ~IdempotencyGate(plan[k + 1]))
                \/ HaltsAt(new, k + 1) /\ new[k + 1] = "Blocked" /\ k < Len(plan)
    <2>1. Succeeded(s, Len(s))  BY <1>3, <1>5, <1>8, <1>12 DEF Succeeded
    <2> QED  BY <1>5, <1>c, <2>1
  <1>13. ASSUME outcome # "Success" PROVE HaltsAt(new, k)
    <2>1. IsTerminalHalt(s[Len(s)])  BY <1>4, <1>5, <1>13 DEF IsTerminalHalt
    <2>2. Len(s) > 0 /\ Len(s) - 1 = k - 1  BY <1>3, <1>5
    <2> QED  BY <1>5, <1>8, <1>c, <2>1, <2>2
  <1> QED  BY <1>3, <1>7, <1>9, <1>10, <1>11, <1>12, <1>13

(* A run acts on no node behind the one it is at. *)
LEMMA NoActAhead ==
    ASSUME ExecutorInv, NEW r \in Run, NEW n \in Nat, n > At(r)
    PROVE  ~Acted(r, n)
  <1> SUFFICES ASSUME Acted(r, n) PROVE FALSE  OBVIOUS
  <1>1. PICK i \in DOMAIN acts : acts[i] = [run |-> r, node |-> n]  BY DEF Acted
  <1>2. Succeeded(results[r], n - 1)  BY <1>1 DEF ExecutorInv, ActInv
  <1>3. Len(results[r]) \in Nat /\ DOMAIN results[r] = 1..Len(results[r])  BY DEF ExecutorInv, TypeInv
  <1>4. n - 1 \in DOMAIN results[r]  BY <1>2, <1>3 DEF Succeeded, At
  <1> QED  BY <1>3, <1>4 DEF At

(* An answer is recorded under the node it is about, and nothing behind it *)
(* starts unless it was a success.                                         *)
LEMMA AnswerKeepsExecutorInv ==
    ASSUME ExecutorInv, NEW r \in Run, Answer(r)
    PROVE  ExecutorInv'
  <1>0. PlanInv /\ TypeInv /\ RunInv(r) /\ OutcomeInv(r) /\ ActInv  BY DEF ExecutorInv
  <1>1. PlanInv'  BY <1>0, PlanKept DEF Answer
  <1>2. /\ stage' = [stage EXCEPT ![r] = "none"]
        /\ UNCHANGED <<given, plan, phase, replayed, known, admitted, acts>>
        /\ stage[r] # "none" /\ phase[r] = "running"
    BY DEF Answer
  <1>3. PICK outcome \in Outcomes(r) :
            results' = [results EXCEPT ![r] = Continue(Append(results[r], outcome))]
    BY DEF Answer
  <1>4. Len(results[r]) \in Nat /\ At(r) \in Nat  BY <1>0 DEF TypeInv, At
  <1> PICK k \in Nat : k = At(r)  BY <1>4
  <1> PICK new : new = Continue(Append(results[r], outcome))  OBVIOUS
  <1>5. /\ new \in Seq(Outcome) /\ Len(new) \in Nat /\ DOMAIN new = 1..Len(new)
        /\ k <= Len(new) /\ Len(new) <= Len(plan) /\ Len(plan) \in Nat
        /\ k > 0 /\ Len(results[r]) = k - 1
        /\ \A n \in 1 .. k - 1 : new[n] = "Success" /\ results[r][n] = "Success"
        /\ new[k] = outcome
        /\ outcome = "Success" =>
              \/ Len(new) = k /\ (k < Len(plan) => ~IdempotencyGate(plan[k + 1]))
              \/ HaltsAt(new, k + 1) /\ new[k + 1] = "Blocked" /\ k < Len(plan)
        /\ outcome # "Success" => HaltsAt(new, k)
    BY <1>2, AnsweredOutcomes
  <1>6. /\ outcome = "Success" => ReachesOrchestrator(plan[k]) /\ ~IdempotencyGate(plan[k])
        /\ outcome = "Success" /\ plan[k].verb \in {"outbound.send", "host.pair"} => Acted(r, k)
        /\ outcome = "Blocked" => ~Acted(r, k)
        /\ outcome \in {"Success", "Failure", "Blocked"}
    BY <1>0, <1>2, OutcomesFacts DEF Command, RunInv
  <1>7. /\ results'[r] = new /\ stage'[r] = "none" /\ phase'[r] = "running"
        /\ \A q \in Run : q # r => results'[q] = results[q] /\ stage'[q] = stage[q]
        /\ results' = [results EXCEPT ![r] = new]
    BY <1>0, <1>2, <1>3 DEF TypeInv
  <1>8. \A q, n : Acted(q, n)' <=> Acted(q, n)  BY <1>2 DEF Acted
  <1>9. \A n \in Nat : n > k => ~Acted(r, n)  BY NoActAhead
  <1>10. TypeInv'  BY <1>0, <1>2, <1>5, <1>7 DEF TypeInv
  <1>11. /\ \A n \in 1..k : n \in DOMAIN new
         /\ \A n \in DOMAIN new : n > k => new[n] \in {"Blocked", "Skipped"}
         /\ WellFormed(new)
         /\ Len(new) < Len(plan) => ~IdempotencyGate(plan[Len(new) + 1])
    <2>1. CASE outcome = "Success" /\ Len(new) = k
      BY <1>5, <2>1 DEF WellFormed, Succeeded, HaltsAt
    <2>2. CASE HaltsAt(new, k + 1) /\ new[k + 1] = "Blocked"
      <3>1. /\ k + 1 \in DOMAIN new /\ Len(new) = Len(plan)
            /\ \A m \in k + 2 .. Len(new) : new[m] = "Skipped"
        BY <1>5, <2>2 DEF HaltsAt
      <3>2. WellFormed(new)  BY <2>2, <3>1, <1>5 DEF WellFormed
      <3> QED  BY <1>5, <2>2, <3>1, <3>2
    <2>3. CASE HaltsAt(new, k) /\ outcome # "Success"
      <3>1. /\ k \in DOMAIN new /\ Len(new) = Len(plan)
            /\ \A m \in k + 1 .. Len(new) : new[m] = "Skipped"
        BY <1>5, <2>3 DEF HaltsAt
      <3>2. WellFormed(new)  BY <2>3, <3>1, <1>5 DEF WellFormed
      <3> QED  BY <1>5, <2>3, <3>1, <3>2
    <2> QED  BY <1>5, <2>1, <2>2, <2>3
  <1>12. RunInv(r)'
    <2>1. WellFormed(results[r])' <=> WellFormed(new)
      BY <1>2, <1>7 DEF WellFormed, HaltsAt, Succeeded
    <2>2. At(r)' = Len(new) + 1 /\ Command(r)' = plan[Len(new) + 1]
      BY <1>2, <1>7 DEF At, Command
    <2>3. Awaiting(r)' => ~IdempotencyGate(Command(r))'
      BY <1>2, <1>7, <1>11, <2>2 DEF Awaiting
    <2>4. ~Acted(r, At(r))'  BY <1>5, <1>8, <1>9, <2>2
    <2> QED  BY <1>7, <1>11, <2>1, <2>3, <2>4 DEF RunInv
  <1>13. OutcomeInv(r)'
    <2> SUFFICES ASSUME NEW n \in DOMAIN new
                 PROVE  /\ new[n] = "Success" =>
                             ReachesOrchestrator(plan[n]) /\ ~IdempotencyGate(plan[n])
                        /\ new[n] = "Success" /\ plan[n].verb \in {"outbound.send", "host.pair"} =>
                             Acted(r, n)
                        /\ Acted(r, n) => new[n] \in {"Success", "Failure"}
      BY <1>2, <1>7, <1>8 DEF OutcomeInv
    <2>1. CASE n < k
      <3>1. n \in DOMAIN results[r] /\ results[r][n] = "Success" /\ new[n] = "Success"
        <4>1. DOMAIN results[r] = 1..Len(results[r])  BY <1>0 DEF TypeInv
        <4> QED  BY <1>5, <2>1, <4>1
      <3> QED  BY <1>0, <3>1 DEF OutcomeInv
    <2>2. CASE n = k  BY <1>5, <1>6, <2>2
    <2>3. CASE n > k
      <3>1. n \in Nat  BY <1>5
      <3>2. new[n] \in {"Blocked", "Skipped"}  BY <1>11, <2>3
      <3>3. ~Acted(r, n)  BY <1>9, <2>3, <3>1
      <3> QED  BY <3>2, <3>3
    <2> QED  BY <1>5, <2>1, <2>2, <2>3
  <1>14. ASSUME NEW q \in Run, q # r PROVE RunInv(q)' /\ OutcomeInv(q)'
    <2>1. RunInv(q) /\ OutcomeInv(q)  BY DEF ExecutorInv
    <2> QED  BY <1>2, <1>7, <1>8, <1>14, <2>1, RunKept
  <1>15. ActInv'
    <2>1. ASSUME NEW q \in Run, NEW n, Succeeded(results[q], n) PROVE Succeeded(results'[q], n)
      <3>1. CASE q = r
        <4>1. DOMAIN results[r] = 1..Len(results[r])  BY <1>0 DEF TypeInv
        <4> QED  BY <1>5, <1>7, <2>1, <3>1, <4>1 DEF Succeeded
      <3>2. CASE q # r  BY <1>7, <2>1, <3>2
      <3> QED  BY <3>1, <3>2
    <2> QED  BY <1>0, <1>2, <2>1, ActsKept
  <1> QED  BY <1>0, <1>1, <1>10, <1>12, <1>13, <1>14, <1>15 DEF ExecutorInv

-----------------------------------------------------------------------------
(* The inductive invariant is an invariant. *)
LEMMA NextKeepsExecutorInv == ExecutorInv /\ [Next]_vars => ExecutorInv'
  <1> SUFFICES ASSUME ExecutorInv, [Next]_vars PROVE ExecutorInv'  OBVIOUS
  <1>1. CASE Next
    <2>1. PICK r \in Run : Step(r)  BY <1>1 DEF Next
    <2>2. CASE Begin(r)  BY <2>2, BeginKeepsExecutorInv
    <2>3. CASE Dispatch(r)  BY <2>3, DispatchKeepsExecutorInv
    <2>4. CASE Admit(r)  BY <2>4, AdmitKeepsExecutorInv
    <2>5. CASE Act(r)  BY <2>5, ActKeepsExecutorInv
    <2>6. CASE Close(r)  BY <2>6, CloseKeepsExecutorInv
    <2>7. CASE Answer(r)  BY <2>7, AnswerKeepsExecutorInv
    <2>8. CASE Drop(r)  BY <2>8, DropKeepsExecutorInv
    <2> QED  BY <2>1, <2>2, <2>3, <2>4, <2>5, <2>6, <2>7, <2>8 DEF Step
  <1>2. CASE UNCHANGED vars
    <2> USE DEF vars
    <2>1. PlanInv'  BY <1>2, PlanKept DEF ExecutorInv
    <2>2. TypeInv'  BY <1>2 DEF ExecutorInv, TypeInv
    <2>3. ASSUME NEW q \in Run PROVE RunInv(q)' /\ OutcomeInv(q)'
      <3>1. \A n : Acted(q, n)' <=> Acted(q, n)  BY <1>2 DEF Acted
      <3> QED  BY <1>2, <3>1, RunKept DEF ExecutorInv
    <2>4. ActInv'  BY <1>2, ActsKept DEF ExecutorInv
    <2> QED  BY <2>1, <2>2, <2>3, <2>4 DEF ExecutorInv
  <1> QED  BY <1>1, <1>2

LEMMA ExecutorInvariance == Spec => []ExecutorInv
  BY InitExecutorInv, NextKeepsExecutorInv, PTL DEF Spec

-----------------------------------------------------------------------------
(* What follows from the inductive invariant. *)

(* The program and its plan, the runs and their outcomes, the slices       *)
(* awaited and what they left are of their types, and a plan has a node    *)
(* for each node of the program or none.                                   *)
THEOREM ExecutorTypeCorrect == Spec => []TypeOK
  <1>1. ExecutorInv => TypeOK
    <2> SUFFICES ASSUME ExecutorInv PROVE TypeOK  OBVIOUS
    <2> USE DEF ExecutorInv
    <2>1. /\ Len(plan) = IF Refused THEN 0 ELSE Len(given.program)
          /\ DOMAIN plan \subseteq DOMAIN given.program
      BY PlanFacts
    <2>2. ASSUME NEW r \in Run
          PROVE  /\ Len(results[r]) <= Len(plan)
                 /\ \A n \in DOMAIN results[r] : results[r][n] \in Outcome
      <3>1. results[r] \in Seq(Outcome)  BY DEF TypeInv
      <3> QED  BY <3>1 DEF RunInv, WellFormed
    <2>3. \A i \in DOMAIN acts : acts[i] \in [run : Run, node : DOMAIN given.program]
      <3> SUFFICES ASSUME NEW i \in DOMAIN acts
                   PROVE  acts[i] \in [run : Run, node : DOMAIN given.program]
        OBVIOUS
      <3>1. /\ acts[i].run \in Run /\ acts[i].node \in DOMAIN given.program
            /\ acts[i] = [run |-> acts[i].run, node |-> acts[i].node]
        BY <2>1, ActTypes
      <3> QED  BY <3>1
    <2>4. admitted \subseteq Run \X DOMAIN given.program  BY <2>1 DEF TypeInv
    <2> QED  BY <2>1, <2>2, <2>3, <2>4 DEF TypeOK, PlanInv, TypeInv
  <1> QED  BY <1>1, ExecutorInvariance, PTL

(* Who may not act acts on nothing: an act is of a node that reaches its   *)
(* slice through no wrapper, and such a node was admitted as it stands.    *)
THEOREM MaterialClassesAct == Spec => []OnlyMaterialClassesAct
  <1>1. ExecutorInv => OnlyMaterialClassesAct
    <2> SUFFICES ASSUME ExecutorInv, acts # <<>>
                 PROVE  /\ given.ctx.permitted /\ given.ctx.class # "A"
                        /\ given.ctx.class = "D" => ~given.ctx.boundary
      BY DEF OnlyMaterialClassesAct
    <2>1. 1 \in DOMAIN acts
      <3>1. acts \in Seq([run : Run, node : DOMAIN plan])  BY DEF ExecutorInv, TypeInv
      <3>2. Len(acts) # 0  BY <3>1, EmptySeq
      <3> QED  BY <3>2, ActTypes DEF ExecutorInv
    <2>2. acts[1].node \in DOMAIN plan  BY <2>1, ActTypes DEF ExecutorInv
    <2>3. Supported(plan[acts[1].node])  BY <2>1 DEF ExecutorInv, ActInv, ReachesOrchestrator
    <2> QED  BY <2>2, <2>3, SliceNodes DEF ExecutorInv
  <1> QED  BY <1>1, ExecutorInvariance, PTL

(* No run acts at or behind a node that waits for a confirmation: every    *)
(* node up to an act has reached its slice, which none that waits does.    *)
THEOREM ConfirmationsHold == Spec => []NothingActsPastConfirmation
  <1>1. ExecutorInv => NothingActsPastConfirmation
    <2> SUFFICES ASSUME ExecutorInv, NEW i \in DOMAIN acts, NEW n \in 1..acts[i].node
                 PROVE  ~plan[n].confirm /\ plan[n].contract # ConfirmedOnly
      BY DEF NothingActsPastConfirmation
    <2>1. acts[i].run \in Run /\ acts[i].node \in DOMAIN plan  BY ActTypes DEF ExecutorInv
    <2>2. n \in Nat /\ acts[i].node \in Nat /\ n \in DOMAIN plan  BY <2>1, PlanFacts DEF ExecutorInv
    <2>3. Succeeded(results[acts[i].run], acts[i].node - 1)  BY DEF ExecutorInv, ActInv
    <2>4. ReachesOrchestrator(plan[n]) /\ ~IdempotencyGate(plan[n])
      <3>1. CASE n = acts[i].node  BY <3>1 DEF ExecutorInv, ActInv
      <3>2. CASE n # acts[i].node
        <4>1. n \in DOMAIN results[acts[i].run] /\ results[acts[i].run][n] = "Success"
          BY <2>2, <2>3, <3>2 DEF Succeeded
        <4> QED  BY <2>1, <4>1 DEF ExecutorInv, OutcomeInv
      <3> QED  BY <3>1, <3>2
    <2>5. plan[n].confirm = FALSE  BY <2>2, <2>4, SliceNodes DEF ExecutorInv, ReachesOrchestrator
    <2> QED  BY <2>4, <2>5 DEF IdempotencyGate
  <1> QED  BY <1>1, ExecutorInvariance, PTL

(* A plan has the surface that was asked for, and a substrate of that name *)
(* that can realize the node.                                              *)
THEOREM SurfacesAreKept == Spec => []ExplicitSurfaceIsKept
  <1>1. ExecutorInv => ExplicitSurfaceIsKept
    <2> SUFFICES ASSUME ExecutorInv, NEW n \in DOMAIN plan, AsksForSurface(given.program[n])
                 PROVE  LET b == given.program[n]
                        IN  /\ plan[n].surface = RequestedSurface(b)
                            /\ \E m \in given.manifests :
                                  m.substrate = plan[n].surface /\ Name(b) \in m.primitives
      BY DEF ExplicitSurfaceIsKept
    <2> DEFINE b == given.program[n]
    <2>1. /\ Plannable(b, given.manifests, given.ctx)
          /\ plan[n].surface = SelectedSurface(b, given.manifests, given.ctx)
      BY PlanFacts DEF ExecutorInv, NodePlan
    <2>2. SurfaceAvailable(RequestedSurface(b), b, given.manifests, given.ctx)
      BY <2>1 DEF Plannable, SurfaceGranted
    <2>3. plan[n].surface = RequestedSurface(b)  BY <2>1, <2>2 DEF SelectedSurface
    <2>4. \E m \in given.manifests : m.substrate = RequestedSurface(b) /\ Name(b) \in m.primitives
      BY <2>2 DEF SurfaceAvailable, CanRealize
    <2> QED  BY <2>3, <2>4
  <1> QED  BY <1>1, ExecutorInvariance, PTL

(* A success of a send or a pairing has acted, a blocked node has not, a   *)
(* skipped one was not admitted, and a program with a node that cannot be  *)
(* planned admits none.                                                    *)
THEOREM OutcomesTellTheActs == Spec => []OutcomesAccountForActs
  <1>1. ExecutorInv => OutcomesAccountForActs
    <2> SUFFICES ASSUME ExecutorInv PROVE OutcomesAccountForActs  OBVIOUS
    <2>1. ASSUME NEW r \in Run, NEW n \in DOMAIN results[r]
          PROVE  /\ results[r][n] = "Success" /\ plan[n].verb \in {"outbound.send", "host.pair"} =>
                      Acted(r, n)
                 /\ results[r][n] \in {"Blocked", "Skipped"} => ~Acted(r, n)
                 /\ results[r][n] = "Skipped" => <<r, n>> \notin admitted
      <3>1. OutcomeInv(r) /\ WellFormed(results[r])  BY DEF ExecutorInv, RunInv
      <3>2. ASSUME results[r][n] = "Skipped", <<r, n>> \in admitted PROVE FALSE
        <4>1. Succeeded(results[r], n - 1)  BY <3>2 DEF ExecutorInv, ActInv
        <4>2. n \in 1..Len(results[r]) /\ Len(results[r]) \in Nat  BY DEF ExecutorInv, TypeInv
        <4>3. PICK h \in DOMAIN results[r] : HaltsAt(results[r], h)
          BY <3>1, <3>2, <4>2 DEF WellFormed, Succeeded
        <4>4. h \in 1..Len(results[r])  BY DEF ExecutorInv, TypeInv
        <4>5. h < n  BY <3>2, <4>2, <4>3, <4>4 DEF HaltsAt, Succeeded, IsTerminalHalt
        <4>6. results[r][h] = "Success"  BY <4>1, <4>2, <4>4, <4>5 DEF Succeeded
        <4> QED  BY <4>3, <4>6 DEF HaltsAt, IsTerminalHalt
      <3> QED  BY <3>1, <3>2 DEF OutcomeInv
    <2>2. ASSUME NEW n \in DOMAIN given.program,
                 ~Plannable(given.program[n], given.manifests, given.ctx)
          PROVE  admitted = {}
      <3>1. Refused  BY <2>2 DEF Refused, Plans
      <3>2. DOMAIN plan = {}  BY <3>1, PlanFacts DEF ExecutorInv
      <3> QED  BY <3>2 DEF ExecutorInv, TypeInv
    <2> QED  BY <2>1, <2>2 DEF OutcomesAccountForActs
  <1> QED  BY <1>1, ExecutorInvariance, PTL

-----------------------------------------------------------------------------
(* The refinement of PlanPromise. *)

Position(r) == 1 + Cardinality(Successes(r))
Stopped(r) == phase[r] = "lost" \/ Halted(results[r]) \/ Reported(r)

(* Outcomes that begin with k successes and have no other count k. *)
LEMMA SuccessesCounted ==
    ASSUME NEW r, NEW k \in Nat, Succeeded(results[r], k),
           \A n \in DOMAIN results[r] : n \in Nat \ {0},
           \A n \in DOMAIN results[r] : n > k => results[r][n] # "Success"
    PROVE  Position(r) = k + 1
  <1>1. Successes(r) = 1..k  BY DEF Successes, Succeeded
  <1>2. Cardinality(1..k) = k  BY FS_Interval
  <1> QED  BY <1>1, <1>2 DEF Position

(* A run that awaits a slice is at the node behind its successes, and goes *)
(* on.                                                                     *)
LEMMA AwaitingPosition ==
    ASSUME ExecutorInv, NEW r \in Run, Awaiting(r)
    PROVE  Position(r) = At(r) /\ ~Stopped(r)
  <1>1. /\ Succeeded(results[r], Len(results[r])) /\ Len(results[r]) \in Nat
        /\ DOMAIN results[r] = 1..Len(results[r])
    BY AwaitingRuns DEF ExecutorInv
  <1>2. Position(r) = Len(results[r]) + 1  BY <1>1, SuccessesCounted
  <1>3. ~Halted(results[r])  BY <1>1 DEF Halted, IsTerminalHalt, Succeeded
  <1>4. ~Reported(r) /\ phase[r] # "lost"
    <2>1. Len(plan) \in Nat  BY PlanFacts DEF ExecutorInv
    <2> QED  BY <1>1, <2>1 DEF Awaiting, Reported
  <1> QED  BY <1>2, <1>3, <1>4 DEF Stopped, At

(* A run whose outcomes and phase stay keeps its place in the promise. *)
LEMMA PositionKept ==
    ASSUME NEW q, plan' = plan, phase'[q] = phase[q], results'[q] = results[q]
    PROVE  Position(q)' = Position(q) /\ (Stopped(q)' <=> Stopped(q))
  BY DEF Position, Successes, Stopped, Halted, Reported

(* The places of the runs and the stopped runs, as PlanPromise has them. *)
Positions == [r \in Run |-> Position(r)]
StoppedRuns == {r \in Run : Stopped(r)}

LEMMA PromiseVariables ==
    /\ Promise!vars = <<acts, Positions, StoppedRuns>>
    /\ Promise!Init <=> acts = <<>> /\ Positions = [r \in Run |-> 1] /\ StoppedRuns = {}
    /\ [Promise!Next]_(Promise!vars) <=>
          \/ \E r \in Run \ StoppedRuns :
                \/ /\ \A i \in DOMAIN acts : acts[i].run = r => acts[i].node < Positions[r]
                   /\ acts' = Append(acts, [run |-> r, node |-> Positions[r]])
                   /\ Positions' = Positions /\ StoppedRuns' = StoppedRuns
                \/ /\ Positions' = [Positions EXCEPT ![r] = @ + 1]
                   /\ acts' = acts /\ StoppedRuns' = StoppedRuns
                \/ /\ StoppedRuns' = StoppedRuns \cup {r}
                   /\ acts' = acts /\ Positions' = Positions
                \/ /\ Positions' = [Positions EXCEPT ![r] = @ + 1]
                   /\ StoppedRuns' = StoppedRuns \cup {r}
                   /\ acts' = acts
          \/ acts' = acts /\ Positions' = Positions /\ StoppedRuns' = StoppedRuns
  BY DEF Promise!vars, Promise!Init, Promise!Next, Promise!Act, Promise!Succeed, Promise!Stop,
         Promise!SucceedAndStop, Positions, StoppedRuns, Position, Stopped

(* Initially no run has moved, acted or stopped. *)
LEMMA InitPromise == Init => Promise!Init
  <1> SUFFICES ASSUME Init PROVE Promise!Init  OBVIOUS
  <1>1. ExecutorInv  BY InitExecutorInv
  <1>2. ASSUME NEW r \in Run PROVE Position(r) = 1 /\ ~Stopped(r)
    <2>1. results[r] = <<>> /\ phase[r] = "idle"  BY DEF Init
    <2>2. results[r] \in Seq(Outcome) /\ Len(results[r]) = 0  BY <2>1, EmptySeq
    <2>3. DOMAIN results[r] = {}  BY <2>2
    <2>4. Successes(r) = {}  BY <2>3 DEF Successes
    <2>5. Position(r) = 1  BY <2>4, FS_EmptySet DEF Position
    <2> QED  BY <2>1, <2>3, <2>5 DEF Stopped, Halted, Reported
  <1> QED  BY <1>2, PromiseVariables DEF Init, Positions, StoppedRuns

(* A step that moves no run but r, and r as PlanPromise has it. *)
LEMMA PromiseStep ==
    ASSUME NEW r \in Run, ~Stopped(r), acts' = acts,
           \A q \in Run : q # r => Position(q)' = Position(q) /\ (Stopped(q)' <=> Stopped(q)),
           \/ Position(r)' = Position(r)
           \/ Position(r)' = Position(r) + 1
    PROVE  [Promise!Next]_(Promise!vars)
  <1>1. r \in Run \ StoppedRuns  BY DEF StoppedRuns
  <1>2. StoppedRuns' = IF Stopped(r)' THEN StoppedRuns \cup {r} ELSE StoppedRuns
    BY DEF StoppedRuns
  <1>3. CASE Position(r)' = Position(r)
    <2>1. Positions' = Positions  BY <1>3 DEF Positions
    <2> QED  BY <1>1, <1>2, <2>1, PromiseVariables
  <1>4. CASE Position(r)' = Position(r) + 1
    <2>1. Positions' = [Positions EXCEPT ![r] = @ + 1]  BY <1>4 DEF Positions
    <2> QED  BY <1>1, <1>2, <2>1, PromiseVariables
  <1> QED  BY <1>3, <1>4

(* Every step of the executor is one of the promise, or none. *)
LEMMA NextPromise == ExecutorInv /\ ExecutorInv' /\ [Next]_vars => [Promise!Next]_(Promise!vars)
  <1> SUFFICES ASSUME ExecutorInv, ExecutorInv', [Next]_vars PROVE [Promise!Next]_(Promise!vars)
    OBVIOUS
  <1>1. ASSUME UNCHANGED <<plan, phase, results, acts>>
        PROVE  [Promise!Next]_(Promise!vars)
    <2>1. \A q : Position(q)' = Position(q) /\ (Stopped(q)' <=> Stopped(q))
      BY <1>1, PositionKept
    <2>2. Positions' = Positions /\ StoppedRuns' = StoppedRuns
      BY <2>1 DEF Positions, StoppedRuns
    <2> QED  BY <1>1, <2>2, PromiseVariables
  <1>2. ASSUME NEW r \in Run, Begin(r) PROVE [Promise!Next]_(Promise!vars)
    <2>1. /\ phase[r] = "idle" /\ results[r] = <<>> /\ acts' = acts /\ plan' = plan
          /\ phase' = [phase EXCEPT ![r] = "running"]
          /\ results' = [results EXCEPT ![r] = Continue(<<>>)]
      BY <1>2 DEF Begin, ExecutorInv, RunInv
    <2>2. PICK e \in Seq(Outcome) : e = <<>> /\ Len(e) = 0  BY EmptySeq
    <2>3. DOMAIN e = {} /\ Len(plan) \in Nat /\ Len(e) + 1 = 1  BY <2>2, PlanFacts DEF ExecutorInv
    <2>4. Position(r) = 1
      <3>1. Successes(r) = {}  BY <2>1, <2>2, <2>3 DEF Successes
      <3> QED  BY <3>1, FS_EmptySet DEF Position
    <2>5. ~Stopped(r)  BY <2>1, <2>2, <2>3 DEF Stopped, Halted, Reported
    <2>6. \A q \in Run : q # r => Position(q)' = Position(q) /\ (Stopped(q)' <=> Stopped(q))
      BY <2>1, PositionKept DEF ExecutorInv, TypeInv
    <2>7. results'[r] = Continue(e)  BY <2>1, <2>2 DEF ExecutorInv, TypeInv
    <2>8. /\ Continue(e) \in Seq(Outcome)
          /\ Continue(e) = e \/ HaltsAt(Continue(e), 1)
      <3>1. Succeeded(e, Len(e)) /\ Len(e) <= Len(plan)  BY <2>2, <2>3 DEF Succeeded
      <3> QED  BY <2>3, <3>1, ContinueFacts DEF ExecutorInv
    <2>9. DOMAIN Continue(e) = 1..Len(Continue(e)) /\ Len(Continue(e)) \in Nat  BY <2>8
    <2>10. \A n \in DOMAIN Continue(e) : n \in Nat \ {0} /\ Continue(e)[n] # "Success"
      BY <2>3, <2>8, <2>9 DEF HaltsAt, IsTerminalHalt
    <2>11. Position(r)' = 1
      <3>1. Successes(r)' = {}  BY <2>7, <2>10 DEF Successes
      <3> QED  BY <3>1, FS_EmptySet DEF Position
    <2> QED  BY <2>1, <2>4, <2>5, <2>6, <2>11, PromiseStep
  <1>3. ASSUME NEW r \in Run, Act(r) PROVE [Promise!Next]_(Promise!vars)
    <2>1. /\ stage[r] = "admitted" /\ phase' = phase /\ results' = results /\ plan' = plan
          /\ acts' = Append(acts, [run |-> r, node |-> At(r)])
      BY <1>3 DEF Act
    <2>2. Awaiting(r) /\ ~Acted(r, At(r))  BY <2>1 DEF ExecutorInv, RunInv, Awaiting
    <2>3. Position(r) = At(r) /\ ~Stopped(r)  BY <2>2, AwaitingPosition
    <2>4. \A i \in DOMAIN acts : acts[i].run = r => acts[i].node < At(r)
      <3> SUFFICES ASSUME NEW i \in DOMAIN acts, acts[i].run = r, ~(acts[i].node < At(r))
                   PROVE  FALSE
        OBVIOUS
      <3>1. /\ acts[i].node \in DOMAIN plan
            /\ acts[i] = [run |-> acts[i].run, node |-> acts[i].node]
        BY ActTypes DEF ExecutorInv
      <3>2. acts[i].node \in Nat  BY <3>1, PlanFacts DEF ExecutorInv
      <3>3. Acted(r, acts[i].node)  BY <3>1 DEF Acted
      <3>4. At(r) \in Nat  BY DEF At, ExecutorInv, TypeInv
      <3>5. acts[i].node = At(r)  BY <3>2, <3>3, <3>4, NoActAhead
      <3> QED  BY <2>2, <3>3, <3>5
    <2>5. \A q : Position(q)' = Position(q) /\ (Stopped(q)' <=> Stopped(q))
      BY <2>1, PositionKept
    <2>6. Positions' = Positions /\ StoppedRuns' = StoppedRuns
      BY <2>5 DEF Positions, StoppedRuns
    <2>7. r \in Run \ StoppedRuns /\ Positions[r] = At(r)  BY <2>3 DEF Positions, StoppedRuns
    <2> QED  BY <2>1, <2>4, <2>6, <2>7, PromiseVariables
  <1>4. ASSUME NEW r \in Run, Answer(r) PROVE [Promise!Next]_(Promise!vars)
    <2>1. /\ stage[r] # "none" /\ acts' = acts /\ plan' = plan /\ phase' = phase
      BY <1>4 DEF Answer
    <2>2. PICK outcome \in Outcomes(r) :
              results' = [results EXCEPT ![r] = Continue(Append(results[r], outcome))]
      BY <1>4 DEF Answer
    <2>3. Position(r) = At(r) /\ ~Stopped(r)  BY <2>1, AwaitingPosition DEF ExecutorInv, RunInv
    <2>4. \A q \in Run : q # r => Position(q)' = Position(q) /\ (Stopped(q)' <=> Stopped(q))
      BY <2>1, <2>2, PositionKept DEF ExecutorInv, TypeInv
    <2>5. At(r) \in Nat  BY DEF At, ExecutorInv, TypeInv
    <2> PICK k \in Nat : k = At(r)  BY <2>5
    <2> PICK new : new = Continue(Append(results[r], outcome))  OBVIOUS
    <2>6. results'[r] = new  BY <2>2 DEF ExecutorInv, TypeInv
    <2>7. /\ Len(new) \in Nat /\ DOMAIN new = 1..Len(new) /\ k <= Len(new) /\ k > 0
          /\ \A n \in 1 .. k - 1 : new[n] = "Success"
          /\ new[k] = outcome
          /\ outcome = "Success" =>
                Len(new) = k \/ (HaltsAt(new, k + 1) /\ new[k + 1] = "Blocked")
          /\ outcome # "Success" => HaltsAt(new, k)
      BY <2>1, AnsweredOutcomes
    <2>8. CASE outcome = "Success"
      <3>1. \A n \in 1..k : n \in DOMAIN new /\ new[n] = "Success"  BY <2>7, <2>8
      <3>2. \A n \in DOMAIN new : n \in Nat \ {0} /\ (n > k => new[n] # "Success")
        <4>1. CASE Len(new) = k  BY <2>7, <4>1
        <4>2. CASE HaltsAt(new, k + 1) /\ new[k + 1] = "Blocked"  BY <2>7, <4>2 DEF HaltsAt
        <4> QED  BY <2>7, <2>8, <4>1, <4>2
      <3>3. Successes(r)' = 1..k  BY <2>6, <2>7, <3>1, <3>2 DEF Successes
      <3>4. Cardinality(1..k) = k  BY FS_Interval
      <3>5. Position(r)' = Position(r) + 1  BY <2>3, <3>3, <3>4 DEF Position
      <3> QED  BY <2>1, <2>3, <2>4, <3>5, PromiseStep
    <2>9. CASE outcome # "Success"
      <3>1. \A n \in 1 .. k - 1 : n \in DOMAIN new /\ new[n] = "Success"  BY <2>7
      <3>2. \A n \in DOMAIN new : n \in Nat \ {0} /\ (n > k - 1 => new[n] # "Success")
        BY <2>7, <2>9 DEF HaltsAt
      <3>3. Successes(r)' = 1 .. k - 1  BY <2>6, <2>7, <3>1, <3>2 DEF Successes
      <3>4. Cardinality(1 .. k - 1) = k - 1  BY <2>7, FS_Interval
      <3>5. Position(r)' = Position(r)  BY <2>3, <3>3, <3>4 DEF Position
      <3> QED  BY <2>1, <2>3, <2>4, <3>5, PromiseStep
    <2> QED  BY <2>8, <2>9
  <1>5. ASSUME NEW r \in Run, Drop(r) PROVE [Promise!Next]_(Promise!vars)
    <2>1. /\ stage[r] # "none" /\ acts' = acts /\ plan' = plan /\ results' = results
          /\ phase' = [phase EXCEPT ![r] = "lost"]
      BY <1>5 DEF Drop
    <2>2. ~Stopped(r)  BY <2>1, AwaitingPosition DEF ExecutorInv, RunInv
    <2>3. \A q \in Run : q # r => Position(q)' = Position(q) /\ (Stopped(q)' <=> Stopped(q))
      BY <2>1, PositionKept DEF ExecutorInv, TypeInv
    <2>4. Position(r)' = Position(r)  BY <2>1 DEF Position, Successes
    <2> QED  BY <2>1, <2>2, <2>3, <2>4, PromiseStep
  <1>6. CASE Next
    <2>1. PICK r \in Run : Step(r)  BY <1>6 DEF Next
    <2>2. CASE Dispatch(r)  BY <1>1, <2>2 DEF Dispatch
    <2>3. CASE Admit(r)  BY <1>1, <2>3 DEF Admit
    <2>4. CASE Close(r)  BY <1>1, <2>4 DEF Close
    <2> QED  BY <1>2, <1>3, <1>4, <1>5, <2>1, <2>2, <2>3, <2>4 DEF Step
  <1>7. CASE UNCHANGED vars  BY <1>1, <1>7 DEF vars
  <1> QED  BY <1>6, <1>7

(* The executor implements PlanPromise: a run takes the nodes in order,    *)
(* acts at most once for a node and only while it is at it, goes on when   *)
(* the node succeeded and stops for good when it did not.                  *)
THEOREM PlanPromiseIsKept == Spec => KeepsPlanPromise
  BY InitPromise, NextPromise, ExecutorInvariance, PTL DEF Spec, KeepsPlanPromise, Promise!Spec

-----------------------------------------------------------------------------
(* The texts of the operational grammar.                                   *)

(* What a model or the lab is asked for is not an Execute.                 *)
LEMMA OnlyCommandsExecute ==
    ASSUME NEW kind \in Surfaced \cup {"lab.collect", "lab.compare"}
    PROVE  Core(kind) # "Execute"
  BY SMTT(30) DEF Surfaced, Core, Cancelling

(* A line whose primitive reaches a slice is the command of that slice     *)
(* itself; what is to be confirmed or scheduled is wrapped.                *)
LEMMA LinesReachTheirSlice ==
    ASSUME NEW l, ReachesSlice(ToIrPrimitive(l))
    PROVE  ToIrPrimitive(l).kind = l.kind /\ l.kind \in Slice
  <1>1. ToIrPrimitive(l).carrier = "canonical" => Core(l.kind) = "Execute"
    BY DEF ToIrPrimitive
  <1>2. /\ Name(ToIrPrimitive(l)) = "Execute" /\ ToIrPrimitive(l).carrier = "canonical"
        /\ ToIrPrimitive(l).kind \in Slice
    BY DEF ReachesSlice, IsCanonical
  <1>3. Head(<<"Confirm">>) = "Confirm" /\ <<"Confirm">> # <<>>  OBVIOUS
  <1>4. Head(<<"Schedule">>) = "Schedule" /\ <<"Schedule">> # <<>>  OBVIOUS
  <1>5. l.kind # "confirm.request"
    <2> SUFFICES ASSUME l.kind = "confirm.request" PROVE FALSE
      OBVIOUS
    <2>1. ToIrPrimitive(l).wrappers = <<"Confirm">>  BY DEF ToIrPrimitive
    <2>2. Name(ToIrPrimitive(l)) = "Confirm"  BY <1>3, <2>1 DEF Name
    <2> QED  BY <1>2, <2>2
  <1>6. l.kind # "flow.schedule"
    <2> SUFFICES ASSUME l.kind = "flow.schedule" PROVE FALSE
      OBVIOUS
    <2>1. ToIrPrimitive(l).wrappers = <<"Schedule">>  BY DEF ToIrPrimitive
    <2>2. Name(ToIrPrimitive(l)) = "Schedule"  BY <1>4, <2>1 DEF Name
    <2> QED  BY <1>2, <2>2
  <1>7. ToIrPrimitive(l).kind = ActionOf(l)
    <2>1. Core(l.kind) = "Execute"  BY <1>1, <1>2
    <2>2. l.kind \notin Surfaced \cup {"lab.collect", "lab.compare"}
      BY <2>1, OnlyCommandsExecute
    <2> QED  BY <2>1, <2>2 DEF ToIrPrimitive
  <1>8. ActionOf(l) = l.kind  BY <1>5, <1>6 DEF ActionOf
  <1> QED  BY <1>2, <1>7, <1>8

(* A text acts only by the lines that command a slice outright, with the   *)
(* key of that line, however many lines it has and whatever they wrap      *)
(* (operational_grammar.rs, planning_compiler.rs, plan_executor.rs).       *)
THEOREM TextsActOutright == Spec => []TextsActByTheirLines
  <1>1. ExecutorInv => TextsActByTheirLines
    <2> SUFFICES ASSUME ExecutorInv, NEW t \in Text, given.program \in CompiledTexts[t],
                        NEW i \in DOMAIN acts
                 PROVE  LET l == Commands(t)[acts[i].node]
                        IN  /\ l.kind \in Slice /\ l.kind = plan[acts[i].node].verb
                            /\ Arg(l, "key") = plan[acts[i].node].args
      BY DEF TextsActByTheirLines
    <2> PICK n : n = acts[i].node  OBVIOUS
    <2> PICK lines : lines = Commands(t)  OBVIOUS
    <2> PICK l : l = lines[n]  OBVIOUS
    <2>1. given.program = [m \in DOMAIN lines |-> ToIrPrimitive(lines[m])]
      BY DEF CompiledTexts, CompileText
    <2>2. n \in DOMAIN plan /\ ReachesOrchestrator(plan[n])
      BY ActTypes DEF ExecutorInv, ActInv
    <2>3. n \in DOMAIN given.program  BY <2>2, PlanFacts DEF ExecutorInv
    <2>4. given.program[n] = ToIrPrimitive(l)  BY <2>1, <2>3
    <2>5. Supported(plan[n]) /\ plan[n].args # "malformed"  BY <2>2 DEF ReachesOrchestrator
    <2>6. ReachesSlice(ToIrPrimitive(l))  BY <2>2, <2>4, <2>5, SliceNodes DEF ExecutorInv
    <2>7. plan[n].verb = ToIrPrimitive(l).kind /\ plan[n].args = ToIrPrimitive(l).args
      <3>1. /\ plan[n].verb = NodePlan(given.program[n], given.manifests, given.ctx).verb
            /\ plan[n].args = NodePlan(given.program[n], given.manifests, given.ctx).args
        BY <2>2, PlanFacts DEF ExecutorInv
      <3> QED  BY <2>4, <2>6, <3>1 DEF NodePlan
    <2>8. l.kind \in Slice /\ plan[n].verb = l.kind  BY <2>6, <2>7, LinesReachTheirSlice
    <2>9. ToIrPrimitive(l).args = IF "key" \in Keys(l) THEN Arg(l, "key") ELSE "malformed"
      BY DEF ToIrPrimitive
    <2>10. Arg(l, "key") = plan[n].args  BY <2>5, <2>7, <2>9
    <2> QED  BY <2>8, <2>10
  <1> QED  BY <1>1, ExecutorInvariance, PTL

-----------------------------------------------------------------------------
(* The sessions of the agent runtime.                                      *)

(* The run a session shows is that of a draft recorded in it, whose call   *)
(* is under way or answered; no other session shows it.                    *)
RunOfSession(s) ==
    LET run == sessions[s].run
    IN  /\ pc[run] \in {"pipeline", "answered"}
        /\ SessionOf(run) = s
        /\ request[run].op \in Message \cup Governed
        /\ \A i \in DOMAIN sessions[s].trail : pc[sessions[s].trail[i].by] # "idle"

(* What a session shows, part by part: AgentRuntime's invariants, with the *)
(* length of the trail that keeps its head in place.                       *)
AttachmentsOf(s) ==
    \A i \in DOMAIN sessions[s].trail :
        LET event == sessions[s].trail[i]
        IN  (event.kind \in Attachment /\ request[event.by].session = None)
                => request[event.by].run = sessions[s].run

WaitingOf(s) ==
    LET snap == sessions[s]
    IN  /\ snap.status = "waiting" <=> (Waits(request[snap.run].op) /\ ~OutputAttached(snap.run))
        /\ snap.status = "waiting" <=> snap.phase = "awaiting_input"
        /\ snap.status = "waiting" <=> snap.action = "proposed"

TrailOf(s) ==
    LET mine == updates[sessions[s].run]
    IN  \A i \in 1..Len(mine) :
            i <= MaxEvents => /\ i <= Len(sessions[s].trail)
                              /\ sessions[s].trail[i].by = mine[Len(mine) + 1 - i]

PipelineOf(s) ==
    LET run == sessions[s].run
    IN  /\ sessions[s].pipeline \in {None, run} \cup racing[s]
        /\ (pc[run] = "answered" /\ request[run].op \in Message) => sessions[s].pipeline # None

SessionInv(s) ==
    sessions[s] # NoSnapshot =>
        RunOfSession(s) /\ AttachmentsOf(s) /\ WaitingOf(s) /\ TrailOf(s) /\ PipelineOf(s)

(* A call that has not begun has left no trace; a message that is still    *)
(* unanswered is the run of its session, or raced with it.                 *)
CallInv(c) ==
    /\ pc[c] = "idle" => updates[c] = <<>>
    /\ \A i \in DOMAIN updates[c] : pc[updates[c][i]] # "idle"
    /\ pc[c] = "pipeline" =>
          /\ request[c].op \in Message
          /\ sessions[SessionOf(c)] # NoSnapshot
          /\ c \in {sessions[SessionOf(c)].run} \cup racing[SessionOf(c)]

SessionsInv ==
    /\ SessionsTypeOK
    /\ \A s \in SessionId : SessionInv(s)
    /\ \A c \in Call : CallInv(c)

-----------------------------------------------------------------------------
(* A complete body of known primitives that asks for no surface is planned *)
(* for an agent.                                                           *)
LEMMA AgentPlans ==
    ASSUME NEW b, b.complete, b.wrappers \in {<<>>, <<"Confirm">>, <<"Route">>},
           b.core \in PrimitiveName \ {"Decide"}, b.surface \in {"none", "local"}
    PROVE  Plannable(b, {AgentManifest}, AgentContext)
  <1>1. 1 + Len(b.wrappers) <= 4
    <2>1. CASE b.wrappers = <<>>  BY <2>1
    <2>2. CASE b.wrappers = <<"Confirm">>  BY <2>2
    <2>3. CASE b.wrappers = <<"Route">>  BY <2>3
    <2> QED  BY <2>1, <2>2, <2>3
  <1>2. Name(b) \in PrimitiveName \ {"Decide"}
    <2>1. Head(<<"Confirm">>) = "Confirm" /\ Head(<<"Route">>) = "Route"  OBVIOUS
    <2>2. {"Confirm", "Route"} \subseteq PrimitiveName \ {"Decide"}  BY DEF PrimitiveName, Wrapper
    <2> QED  BY <2>1, <2>2 DEF Name
  <1>3. ValidStructure(b)  BY <1>1 DEF ValidStructure, MAX_ROUTE_NESTING_DEPTH
  <1>4. ValidPolicy(b, AgentContext)
    BY <1>2 DEF ValidPolicy, AgentContext, PolicyAllowsPrimitive
  <1>5. ValidCapability(b, {AgentManifest}, AgentContext)
    BY <1>2 DEF ValidCapability, CanRealize, AgentManifest, AgentContext
  <1>6. SurfaceGranted(b, {AgentManifest}, AgentContext)
    BY DEF SurfaceGranted, AsksForSurface, RequestedSurface
  <1>7. Lowerable(b)  BY <1>2 DEF Lowerable
  <1> QED  BY <1>3, <1>4, <1>5, <1>6, <1>7 DEF Plannable, Admissible

(* What a concatenation holds.                                             *)
LEMMA Concatenated ==
    ASSUME NEW T, NEW s \in Seq(T), NEW t \in Seq(T)
    PROVE  /\ s \o t \in Seq(T) /\ Len(s) \in Nat /\ Len(t) \in Nat
           /\ DOMAIN (s \o t) = 1..(Len(s) + Len(t))
           /\ \A i \in 1..Len(s) : (s \o t)[i] = s[i]
           /\ \A i \in 1..Len(t) : (s \o t)[Len(s) + i] = t[i]
  OBVIOUS

(* The candidate of every message has a plan.                              *)
LEMMA MessagesHavePlans ==
    ASSUME NEW op \in Message
    PROVE  /\ Pipelines(op) # {}
           /\ \A compiled \in Pipelines(op) : \E n \in Nat : DOMAIN compiled = 1..n
  <1>1. ASSUME NEW nodes, NEW n \in Nat, DOMAIN nodes = 1..n, Compile(Candidate(op)) = {nodes},
               \A i \in 1..n : Plannable(nodes[i], {AgentManifest}, AgentContext)
        PROVE  /\ Pipelines(op) # {}
               /\ \A compiled \in Pipelines(op) : \E m \in Nat : DOMAIN compiled = 1..m
    <2>1. Plans(nodes, {AgentManifest}, AgentContext) = {PlanOf(nodes, {AgentManifest}, AgentContext)}
      BY <1>1 DEF Plans
    <2>2. DOMAIN PlanOf(nodes, {AgentManifest}, AgentContext) = 1..n  BY <1>1 DEF PlanOf
    <2>3. Pipelines(op) = {PlanOf(nodes, {AgentManifest}, AgentContext)}
      BY <1>1, <2>1 DEF Pipelines
    <2> QED  BY <2>2, <2>3
  <1>2. CASE op = "proposal"
    <2> DEFINE l == Leaf("Confirm", TRUE, "agent.propose", TRUE, None)
               b == LeafBody(l)
    <2>1. Candidate(op) = l  BY <1>2 DEF Candidate
    <2>2. LeafCompiles(l) /\ l.form \notin Review \cup {"Pipeline"}
      BY DEF LeafCompiles, Leaf, Review
    <2>3. Compile(Candidate(op)) = {<<b>>}  BY <2>1, <2>2 DEF Compile
    <2>4. b.complete /\ b.wrappers = <<"Confirm">> /\ b.core = "Execute" /\ b.surface = "none"
      BY DEF LeafBody, Leaf
    <2> HIDE DEF b
    <2>5. Plannable(b, {AgentManifest}, AgentContext)
      <3>1. "Execute" \in PrimitiveName \ {"Decide"}  BY DEF PrimitiveName
      <3> QED  BY <2>4, <3>1, AgentPlans
    <2>6. DOMAIN <<b>> = 1..1 /\ <<b>>[1] = b  OBVIOUS
    <2>7. \A i \in 1..1 : Plannable(<<b>>[i], {AgentManifest}, AgentContext)  BY <2>5, <2>6
    <2> QED  BY <1>1, <2>3, <2>6, <2>7
  <1>3. CASE op # "proposal"
    <2> DEFINE p == Deliberation("SystemReview", "place", DefaultSteps, Emission, NoHandler)
               steps == [n \in 1..4 |-> StepBody(DefaultSteps[n], "place")]
               handler == HandlerBody(Emission)
               nodes == steps \o <<handler>>
    <2>1. Candidate(op) = p  BY <1>3 DEF Candidate
    <2>2. /\ p.form = "SystemReview" /\ p.target = "place" /\ p.steps = DefaultSteps
          /\ p.on_success = Emission /\ p.on_failure = NoHandler
      BY DEF Deliberation
    <2> HIDE DEF p
    <2>3. Emission.form = "Emit" /\ NoHandler.form = "none" /\ Emission.named = TRUE
      BY DEF Emission, NoHandler, Leaf
    <2>4. Handlers(p) = <<Emission>>
      <3>1. Emission # NoHandler  BY <2>3
      <3>2. <<Emission>> \o <<>> = <<Emission>>  OBVIOUS
      <3> QED  BY <2>2, <3>1, <3>2 DEF Handlers
    <2>5. /\ DOMAIN DefaultSteps = 1..4
          /\ DefaultSteps[1] = "Collect" /\ DefaultSteps[2] = "Compress"
          /\ DefaultSteps[3] = "Classify" /\ DefaultSteps[4] = "Prioritize"
      BY DEF DefaultSteps
    <2>6. StepsOf(p) = DefaultSteps /\ DefaultSteps # <<>>
      <3>1. DOMAIN <<>> = {}  OBVIOUS
      <3>2. 1 \in DOMAIN DefaultSteps  BY <2>5
      <3> QED  BY <2>2, <3>1, <3>2 DEF StepsOf
    <2>7. DOMAIN <<Emission>> = {1} /\ <<Emission>>[1] = Emission  OBVIOUS
    <2>8. DeliberationCompiles(p)
      BY <2>2, <2>3, <2>4, <2>6, <2>7 DEF DeliberationCompiles, LeafCompiles
    <2>9. [n \in DOMAIN <<Emission>> |-> HandlerBody(<<Emission>>[n])] = <<handler>>
      <3>1. DOMAIN <<handler>> = {1} /\ <<handler>>[1] = handler  OBVIOUS
      <3> QED  BY <2>7, <3>1
    <2>10. DeliberationNodes(p) = nodes
      <3>1. [n \in DOMAIN DefaultSteps |-> StepBody(DefaultSteps[n], p.target)] = steps
        BY <2>2, <2>5
      <3> QED  BY <2>4, <2>6, <2>9, <3>1 DEF DeliberationNodes
    <2>11. Compile(Candidate(op)) = {nodes}
      BY <2>1, <2>2, <2>8, <2>10 DEF Compile, Review
    <2>12. \A n \in 1..4 : Plannable(steps[n], {AgentManifest}, AgentContext)
      <3> TAKE n \in 1..4
      <3> DEFINE b == StepBody(DefaultSteps[n], "place")
      <3>1. DefaultSteps[n] \in {"Collect", "Compress", "Classify", "Prioritize"}
        BY <2>5
      <3>2. DefaultSteps[n] \in PrimitiveName \ {"Decide"}
        BY <3>1 DEF PrimitiveName, ReadPrimitive, InferPrimitive
      <3>3. SurfaceForTarget("place") = "local"  BY DEF SurfaceForTarget, InferSurface, Substrate
      <3>4. b.complete /\ b.wrappers = <<>> /\ b.core = DefaultSteps[n]
              /\ b.surface \in {"none", "local"}
        BY <3>3 DEF StepBody
      <3> HIDE DEF b
      <3>5. Plannable(b, {AgentManifest}, AgentContext)  BY <3>2, <3>4, AgentPlans
      <3> QED  BY <3>5 DEF b
    <2>13. Plannable(handler, {AgentManifest}, AgentContext)
      <3>1. /\ LeafBody(Emission).wrappers = <<>> /\ LeafBody(Emission).core = "Emit"
            /\ LeafBody(Emission).complete /\ LeafBody(Emission).surface = "none"
        BY <2>3 DEF LeafBody
      <3>2. /\ handler.complete = LeafBody(Emission).complete
            /\ handler.core = LeafBody(Emission).core
            /\ handler.surface = LeafBody(Emission).surface
            /\ handler.wrappers = <<"Route">> \o LeafBody(Emission).wrappers
        BY DEF HandlerBody, LeafBody
      <3>3. <<"Route">> \o <<>> = <<"Route">>  OBVIOUS
      <3>4. "Emit" \in PrimitiveName \ {"Decide"}  BY DEF PrimitiveName
      <3> HIDE DEF handler
      <3> QED  BY <3>1, <3>2, <3>3, <3>4, AgentPlans
    <2> HIDE DEF handler
    <2>14. DOMAIN nodes = 1..5 /\ nodes[5] = handler /\ \A n \in 1..4 : nodes[n] = steps[n]
      <3> DEFINE S == {steps[n] : n \in 1..4} \cup {handler}
      <3>1. steps \in [1..4 -> S]  OBVIOUS
      <3>2. steps \in Seq(S)  BY <3>1, SeqDef
      <3>3. Len(steps) = 4  BY <3>1, <3>2, LenProperties
      <3>4. <<handler>> \in Seq(S) /\ Len(<<handler>>) = 1 /\ <<handler>>[1] = handler  OBVIOUS
      <3> HIDE DEF steps, S
      <3> DEFINE last == <<handler>>
      <3>5. /\ last \in Seq(S) /\ Len(last) = 1 /\ last[1] = handler  BY <3>4
      <3> HIDE DEF last
      <3>6. /\ DOMAIN (steps \o last) = 1..(Len(steps) + Len(last))
            /\ \A i \in 1..Len(steps) : (steps \o last)[i] = steps[i]
            /\ \A i \in 1..Len(last) : (steps \o last)[Len(steps) + i] = last[i]
        BY <3>2, <3>5, Concatenated
      <3>7. nodes = steps \o last  BY DEF last
      <3> HIDE DEF nodes
      <3> QED  BY <3>3, <3>5, <3>6, <3>7
    <2>15. \A i \in 1..5 : Plannable(nodes[i], {AgentManifest}, AgentContext)
      <3> HIDE DEF nodes, steps
      <3> QED  BY <2>12, <2>13, <2>14
    <2> HIDE DEF nodes
    <2> QED  BY <1>1, <2>11, <2>14, <2>15
  <1> QED  BY <1>2, <1>3

(* What a pipeline appends to a trail: no attachment, and all by its call. *)
LEMMA EvidenceEvents ==
    ASSUME NEW compiled, NEW n \in Nat, DOMAIN compiled = 1..n, NEW c \in Call
    PROVE  /\ Evidence(compiled, c) \in Seq(AuditEvent)
           /\ \A i \in DOMAIN Evidence(compiled, c) :
                 Evidence(compiled, c)[i].by = c /\ Evidence(compiled, c)[i].kind \notin Attachment
  <1> DEFINE T == {e \in AuditEvent : e.by = c /\ e.kind \notin Attachment}
             a == <<Event("message.received", c), Event("candidate.classified", c),
                    Event("pipeline.admitted", c)>>
             d == [i \in DOMAIN compiled |-> Event("node.dispatched", c)]
             z == <<Event("response.emitted", c)>>
  <1>1. \A kind \in {"message.received", "candidate.classified", "pipeline.admitted",
                     "node.dispatched", "response.emitted"} : Event(kind, c) \in T
    BY DEF Event, AuditEvent, EventKind, Attachment
  <1> HIDE DEF T
  <1>2. a \in Seq(T) /\ z \in Seq(T)  BY <1>1
  <1>3. d \in Seq(T)
    <2>1. d \in [1..n -> T]  BY <1>1
    <2> QED  BY <2>1, SeqDef
  <1>4. Evidence(compiled, c) = (a \o d) \o z
    <2> DEFINE aa == a
               dd == d
               zz == z
    <2>1. Evidence(compiled, c) = (aa \o dd) \o zz  BY DEF Evidence
    <2> QED  BY <2>1
  <1> HIDE DEF a, d, z
  <1>5. Evidence(compiled, c) \in Seq(T)  BY <1>2, <1>3, <1>4
  <1>6. \A i \in DOMAIN Evidence(compiled, c) : Evidence(compiled, c)[i] \in T  BY <1>5
  <1>7. T \subseteq AuditEvent  BY DEF T
  <1>8. Evidence(compiled, c) \in Seq(AuditEvent)  BY <1>5, <1>7
  <1> QED  BY <1>6, <1>8 DEF T

(* A pushed event heads the trail, and the events before it move down by   *)
(* one as far as the trail is kept.                                        *)
IsPushed(longer, trail, e) ==
    /\ longer \in Seq(AuditEvent) /\ Len(longer) \in Nat /\ DOMAIN longer = 1..Len(longer)
    /\ Len(longer) = IF Len(trail) + 1 > MaxEvents THEN MaxEvents ELSE Len(trail) + 1
    /\ longer[1] = e
    /\ \A i \in 2..Len(longer) : i - 1 \in 1..Len(trail) /\ longer[i] = trail[i - 1]

LEMMA Pushed ==
    ASSUME NEW trail \in Seq(AuditEvent), NEW e \in AuditEvent,
           NEW t, t = PushAuditEvent(trail, e)
    PROVE  IsPushed(t, trail, e)
  <1> USE DEF IsPushed
  <1>0. <<e>> \in Seq(AuditEvent) /\ Len(<<e>>) = 1 /\ <<e>>[1] = e  OBVIOUS
  <1> PICK head : head = <<e>>  OBVIOUS
  <1>1. head \in Seq(AuditEvent) /\ Len(head) = 1 /\ head[1] = e  BY <1>0
  <1> DEFINE longer == head \o trail
  <1>2. /\ longer \in Seq(AuditEvent) /\ Len(trail) \in Nat
        /\ DOMAIN longer = 1..(1 + Len(trail))
        /\ longer[1] = e /\ \A i \in 1..Len(trail) : longer[1 + i] = trail[i]
    <2>1. /\ longer \in Seq(AuditEvent) /\ Len(trail) \in Nat
          /\ DOMAIN longer = 1..(Len(head) + Len(trail))
          /\ \A i \in 1..Len(head) : longer[i] = head[i]
          /\ \A i \in 1..Len(trail) : longer[Len(head) + i] = trail[i]
      BY <1>1, Concatenated
    <2> HIDE DEF longer
    <2> QED  BY <1>1, <2>1
  <1>3. Len(longer) = Len(trail) + 1  BY <1>2
  <1>4. t = IF Len(longer) > MaxEvents THEN SubSeq(longer, 1, MaxEvents) ELSE longer
    BY DEF PushAuditEvent
  <1> HIDE DEF longer
  <1>5. \A i \in 2..(Len(trail) + 1) : i - 1 \in 1..Len(trail) /\ longer[i] = trail[i - 1]
    <2> TAKE i \in 2..(Len(trail) + 1)
    <2>1. i - 1 \in 1..Len(trail) /\ 1 + (i - 1) = i  BY <1>2
    <2> QED  BY <1>2, <2>1
  <1>6. CASE Len(longer) > MaxEvents
    <2>1. t = SubSeq(longer, 1, 8)  BY <1>4, <1>6 DEF MaxEvents
    <2>2. t \in Seq(AuditEvent) /\ Len(t) = 8 /\ \A i \in 1..8 : t[i] = longer[i]
      BY <1>2, <1>3, <1>6, <2>1 DEF MaxEvents
    <2> QED  BY <1>2, <1>3, <1>5, <1>6, <2>2 DEF MaxEvents
  <1>7. CASE ~(Len(longer) > MaxEvents)
    <2>1. t = longer  BY <1>4, <1>7
    <2> QED  BY <1>2, <1>3, <1>5, <1>7, <2>1 DEF MaxEvents
  <1> QED  BY <1>6, <1>7

(* What a session shows right after a draft.                               *)
LEMMA Drafted ==
    ASSUME NEW c \in Call, NEW op \in Message \cup Governed
    PROVE  LET snap == DraftSnapshot(c, op)
           IN  /\ snap \in Snapshot /\ snap.run = c /\ snap.pipeline = None
               /\ snap.status = IF Waits(op) THEN "waiting" ELSE "completed"
               /\ snap.phase = IF Waits(op) THEN "awaiting_input" ELSE "completed"
               /\ snap.action = IF Waits(op) THEN "proposed" ELSE "completed"
               /\ \A i \in DOMAIN snap.trail :
                     snap.trail[i].by = c /\ snap.trail[i].kind \notin Attachment
  <1> DEFINE trail == <<Event("session.opened", c), Event("run.created", c),
        Event("output.normalized", c)>>
             T == {e \in AuditEvent : e.by = c /\ e.kind \notin Attachment}
             snap == DraftSnapshot(c, op)
  <1>1. \A kind \in {"session.opened", "run.created", "output.normalized"} : Event(kind, c) \in T
    BY DEF Event, AuditEvent, EventKind, Attachment
  <1> HIDE DEF T
  <1>2. trail \in Seq(T)  BY <1>1
  <1>3. Output(op) \in OutputClass  BY DEF Output, OutputClass, Message, Governed
  <1>4. /\ snap.run = c /\ snap.pipeline = None /\ snap.trail = trail /\ snap.output = Output(op)
        /\ snap.status = IF Waits(op) THEN "waiting" ELSE "completed"
        /\ snap.phase = IF Waits(op) THEN "awaiting_input" ELSE "completed"
        /\ snap.checkpoint = snap.phase
        /\ snap.action = IF Waits(op) THEN "proposed" ELSE "completed"
        /\ snap = [run |-> snap.run, status |-> snap.status, phase |-> snap.phase,
                   checkpoint |-> snap.checkpoint, output |-> snap.output,
                   action |-> snap.action, trail |-> snap.trail, pipeline |-> snap.pipeline]
    BY DEF DraftSnapshot
  <1> HIDE DEF trail, snap
  <1>5. T \subseteq AuditEvent /\ \A e \in T : e.by = c /\ e.kind \notin Attachment  BY DEF T
  <1>6. trail \in Seq(AuditEvent)  BY <1>2, <1>5
  <1>7. snap \in Snapshot
    <2>1. /\ snap.status \in {"waiting", "completed"}
          /\ snap.phase \in {"awaiting_input", "completed"}
          /\ snap.action \in {"proposed", "completed"}
      BY <1>4
    <2> QED  BY <1>3, <1>4, <1>6, <2>1 DEF Snapshot
  <1>8. \A i \in DOMAIN trail : trail[i] \in T  BY <1>2
  <1> QED  BY <1>4, <1>5, <1>7, <1>8 DEF snap

(* The type of what a session shows.                                       *)
LEMMA ShownTypes ==
    ASSUME SessionsTypeOK, NEW s \in SessionId, sessions[s] # NoSnapshot
    PROVE  /\ sessions[s] \in Snapshot /\ sessions[s].run \in Call
           /\ sessions[s].trail \in Seq(AuditEvent) /\ Len(sessions[s].trail) \in Nat
           /\ DOMAIN sessions[s].trail = 1..Len(sessions[s].trail)
           /\ \A i \in DOMAIN sessions[s].trail : sessions[s].trail[i].by \in Call
  <1>1. sessions[s] \in Snapshot  BY DEF SessionsTypeOK
  <1>2. sessions[s].run \in Call /\ sessions[s].trail \in Seq(AuditEvent)  BY <1>1 DEF Snapshot
  <1>3. \A i \in DOMAIN sessions[s].trail : sessions[s].trail[i] \in AuditEvent  BY <1>2
  <1>4. \A e \in AuditEvent : e.by \in Call  BY DEF AuditEvent
  <1> QED  BY <1>1, <1>2, <1>3, <1>4

LEMMA SnapshotsAreShown == \A snap \in Snapshot : snap # NoSnapshot /\ snap.run # None
  BY IdAssumption DEF Snapshot, NoSnapshot, None

(* A request names the session it drafts in.                               *)
LEMMA SessionOfType ==
    ASSUME SessionsTypeOK, NEW c \in Call
    PROVE  SessionOf(c) \in SessionId
  BY DEF SessionsTypeOK, SessionOf, SessionId, NoRequest, Request, None

-----------------------------------------------------------------------------
(* What a step of one call leaves of a session it does not touch.          *)
LEMMA SessionKept ==
    ASSUME SessionsInv, NEW s \in SessionId, SessionInv(s),
           sessions'[s] = sessions[s], racing'[s] = racing[s],
           \A d \in Call : pc[d] # "idle" => pc'[d] # "idle" /\ request'[d] = request[d],
           sessions[s] # NoSnapshot => /\ pc'[sessions[s].run] = pc[sessions[s].run]
                                       /\ updates'[sessions[s].run] = updates[sessions[s].run]
    PROVE  SessionInv(s)'
  <1> SUFFICES ASSUME sessions[s] # NoSnapshot
               PROVE  (RunOfSession(s) /\ AttachmentsOf(s) /\ WaitingOf(s) /\ TrailOf(s)
                        /\ PipelineOf(s))'
    BY DEF SessionInv
  <1> DEFINE snap == sessions[s]
  <1> PICK run : run = snap.run  OBVIOUS
  <1>1. /\ run \in Call /\ \A i \in DOMAIN snap.trail : snap.trail[i].by \in Call
    BY ShownTypes DEF SessionsInv
  <1>2. RunOfSession(s) /\ AttachmentsOf(s) /\ WaitingOf(s) /\ TrailOf(s) /\ PipelineOf(s)
    BY DEF SessionInv
  <1>3. pc[run] # "idle" /\ request'[run] = request[run] /\ pc'[run] = pc[run]
        /\ updates'[run] = updates[run]
    BY <1>1, <1>2 DEF RunOfSession
  <1>4. \A i \in DOMAIN snap.trail : /\ pc'[snap.trail[i].by] # "idle"
                                     /\ request'[snap.trail[i].by] = request[snap.trail[i].by]
    BY <1>1, <1>2 DEF RunOfSession
  <1>5. RunOfSession(s)'  BY <1>2, <1>3, <1>4 DEF RunOfSession, SessionOf
  <1>6. AttachmentsOf(s)'  BY <1>2, <1>4 DEF AttachmentsOf
  <1>7. TrailOf(s)'  BY <1>2, <1>3 DEF TrailOf
  <1>8. PipelineOf(s)'  BY <1>2, <1>3 DEF PipelineOf
  <1>9. OutputAttached(run)' <=> OutputAttached(run)
    <2>1. \A i \in DOMAIN updates[run] : updates[run][i] \in Call /\ pc[updates[run][i]] # "idle"
      <3>1. updates[run] \in Seq(Call)  BY <1>1 DEF SessionsInv, SessionsTypeOK
      <3> QED  BY <1>1, <3>1 DEF SessionsInv, CallInv
    <2> QED  BY <1>3, <2>1 DEF OutputAttached
  <1>10. WaitingOf(s)'  BY <1>2, <1>3, <1>9 DEF WaitingOf
  <1> QED  BY <1>5, <1>6, <1>7, <1>8, <1>10

(* What a call can ask for.                                                *)
LEMMA RequestTypes ==
    ASSUME SessionsTypeOK
    PROVE  /\ SessionGiven \subseteq SessionId \cup {None} /\ Begun \subseteq Call
           /\ \A req \in Attachments :
                 /\ req \in [op : Message \cup Governed \cup Attachment,
                             session : SessionId \cup {None},
                             run : Call \cup {None}, class : Class \cup {None}]
                 /\ req.op \in Attachment
  <1>1. SessionGiven \subseteq SessionId \cup {None} /\ Begun \subseteq Call
    BY DEF SessionGiven, Begun, SessionId
  <1>2. ASSUME NEW op \in Attachment, NEW s \in SessionGiven, NEW r \in Call \cup {None},
               NEW class \in Class \cup {None}
        PROVE  /\ Request(op, s, r, class) \in
                     [op : Message \cup Governed \cup Attachment, session : SessionId \cup {None},
                      run : Call \cup {None}, class : Class \cup {None}]
               /\ Request(op, s, r, class).op \in Attachment
    BY <1>1 DEF Request
  <1>3. {"create_artifact", "summary", "output", "result", "note"} \subseteq Attachment
          /\ None \in SessionGiven
    BY DEF Attachment, SessionGiven
  <1>4. ASSUME NEW req \in Attachments
        PROVE  \E op \in Attachment, s \in SessionGiven, r \in Call \cup {None},
                 class \in Class \cup {None} :
                  req = Request(op, s, r, class)
    <2>1. \/ \E op \in {"create_artifact", "note"} : req \in OfSessionOrRun(op)
          \/ \E op \in {"summary", "output", "result"} : req \in OfRun(op, Class \cup {None})
      BY DEF Attachments, OfRun
    <2>2. CASE \E op \in {"create_artifact", "note"} : req \in OfSessionOrRun(op)
      BY <1>1, <1>3, <2>2 DEF OfSessionOrRun
    <2>3. CASE \E op \in {"summary", "output", "result"} : req \in OfRun(op, Class \cup {None})
      BY <1>1, <1>3, <2>3 DEF OfRun
    <2> QED  BY <2>1, <2>2, <2>3
  <1> QED  BY <1>1, <1>2, <1>4

-----------------------------------------------------------------------------
LEMMA InitSessionsInv == SessionsInit => SessionsInv
  <1> SUFFICES ASSUME SessionsInit PROVE SessionsInv
    OBVIOUS
  <1>1. SessionsTypeOK
    <2>1. updates \in [Call -> Seq(Call)]  BY EmptySeq DEF SessionsInit
    <2> QED  BY <2>1 DEF SessionsInit, SessionsTypeOK
  <1>2. \A s \in SessionId : SessionInv(s)  BY DEF SessionsInit, SessionInv
  <1>3. \A c \in Call : CallInv(c)
    <2>1. DOMAIN <<>> = {}  OBVIOUS
    <2>2. \A c \in Call : pc[c] = "idle" /\ updates[c] = <<>>  BY DEF SessionsInit
    <2> QED  BY <2>1, <2>2 DEF CallInv
  <1> QED  BY <1>1, <1>2, <1>3 DEF SessionsInv

(* A request that is refused changes nothing.                              *)
LEMMA RefuseKeepsInv ==
    ASSUME SessionsInv, NEW c \in Call, Refuse(c)
    PROVE  SessionsInv'
  <1>1. PICK req \in Attachments : request' = [request EXCEPT ![c] = req]  BY DEF Refuse
  <1>2. pc[c] = "idle" /\ pc' = [pc EXCEPT ![c] = "refused"] /\ UNCHANGED <<sessions, updates, racing>>
    BY DEF Refuse
  <1>3. SessionsTypeOK'
    BY <1>1, <1>2, RequestTypes DEF SessionsInv, SessionsTypeOK
  <1>4. \A d \in Call : d # c => pc'[d] = pc[d] /\ request'[d] = request[d]
    BY <1>1, <1>2 DEF SessionsInv, SessionsTypeOK
  <1>5. pc'[c] = "refused"  BY <1>2 DEF SessionsInv, SessionsTypeOK
  <1>6. ASSUME NEW s \in SessionId PROVE SessionInv(s)'
    <2>1. sessions[s] # NoSnapshot => sessions[s].run \in Call /\ sessions[s].run # c
      BY <1>2, ShownTypes DEF SessionsInv, SessionInv, RunOfSession
    <2> QED  BY <1>2, <1>4, <2>1, SessionKept DEF SessionsInv
  <1>7. ASSUME NEW d \in Call PROVE CallInv(d)'
    <2>1. CallInv(d) /\ updates[d] \in Seq(Call)  BY DEF SessionsInv, SessionsTypeOK
    <2>2. \A i \in DOMAIN updates[d] : updates[d][i] \in Call  BY <2>1
    <2>3. \A i \in DOMAIN updates[d] : pc'[updates[d][i]] # "idle"
      BY <1>2, <1>4, <2>1, <2>2 DEF CallInv
    <2>4. CASE d = c  BY <1>2, <1>5, <2>3, <2>4 DEF CallInv
    <2>5. CASE d # c  BY <1>2, <1>4, <2>1, <2>3, <2>5 DEF CallInv, SessionOf
    <2> QED  BY <2>4, <2>5
  <1> QED  BY <1>3, <1>6, <1>7 DEF SessionsInv

(* A draft is the run of its session, and what was unanswered there raced. *)
LEMMA RecordDraftKeepsInv ==
    ASSUME SessionsInv, NEW c \in Call, NEW op \in Message \cup Governed, NEW session \in SessionGiven,
           RecordDraft(c, op, session)
    PROVE  SessionsInv'
  <1> PICK s : s = IF session = None THEN c ELSE session  OBVIOUS
  <1> DEFINE req == Request(op, session, None, None)
             snap == DraftSnapshot(c, op)
             state == IF op \in Message THEN "pipeline" ELSE "answered"
             raced == {d \in Call : pc[d] = "pipeline" /\ SessionOf(d) = s}
  <1>1. /\ pc[c] = "idle" /\ pc' = [pc EXCEPT ![c] = state]
        /\ request' = [request EXCEPT ![c] = req]
        /\ sessions' = [sessions EXCEPT ![s] = snap]
        /\ racing' = [racing EXCEPT ![s] = raced]
        /\ updates' = updates
    BY DEF RecordDraft, Recorded
  <1>2. session \in SessionId \cup {None} /\ s \in SessionId
    BY RequestTypes DEF SessionsInv, SessionId
  <1>3. /\ snap \in Snapshot /\ snap.run = c /\ snap.pipeline = None /\ snap # NoSnapshot
        /\ snap.status = IF Waits(op) THEN "waiting" ELSE "completed"
        /\ snap.phase = IF Waits(op) THEN "awaiting_input" ELSE "completed"
        /\ snap.action = IF Waits(op) THEN "proposed" ELSE "completed"
        /\ \A i \in DOMAIN snap.trail :
              snap.trail[i].by = c /\ snap.trail[i].kind \notin Attachment
    BY Drafted, SnapshotsAreShown
  <1>4. req.op = op /\ req.session = session /\ raced \in SUBSET Call
        /\ req \in [op : Message \cup Governed \cup Attachment, session : SessionId \cup {None},
                    run : Call \cup {None}, class : Class \cup {None}]
    BY <1>2 DEF Request
  <1> HIDE DEF req, snap, raced
  <1>5. SessionsTypeOK'
    BY <1>1, <1>2, <1>3, <1>4 DEF SessionsInv, SessionsTypeOK
  <1>6. /\ pc'[c] = state /\ request'[c] = req /\ sessions'[s] = snap /\ racing'[s] = raced
        /\ \A d \in Call : d # c => pc'[d] = pc[d] /\ request'[d] = request[d]
        /\ \A t \in SessionId : t # s => sessions'[t] = sessions[t] /\ racing'[t] = racing[t]
    BY <1>1, <1>2 DEF SessionsInv, SessionsTypeOK
  <1>7. SessionOf(c)' = s  BY <1>4, <1>6 DEF SessionOf
  <1>8. updates[c] = <<>> /\ DOMAIN <<>> = {} /\ Len(<<>>) = 0
    <2>1. updates[c] = <<>>  BY <1>1 DEF SessionsInv, CallInv
    <2>2. DOMAIN <<>> = {} /\ Len(<<>>) = 0  OBVIOUS
    <2> QED  BY <2>1, <2>2
  <1>9. SessionInv(s)'
    <2>1. sessions'[s].run = c  BY <1>3, <1>6
    <2>2. RunOfSession(s)'  BY <1>3, <1>4, <1>6, <1>7, <2>1 DEF RunOfSession
    <2>3. AttachmentsOf(s)'  BY <1>3, <1>6 DEF AttachmentsOf
    <2>4. TrailOf(s)'  BY <1>1, <1>8, <2>1 DEF TrailOf
    <2>5. WaitingOf(s)'
      <3>1. OutputAttached(c)' = FALSE  BY <1>1, <1>8 DEF OutputAttached
      <3>2. request'[c].op = op  BY <1>4, <1>6
      <3> QED  BY <1>3, <1>6, <2>1, <3>1, <3>2 DEF WaitingOf
    <2>6. PipelineOf(s)'
      <3>1. sessions'[s].pipeline = None  BY <1>3, <1>6
      <3>2. ~(pc'[c] = "answered" /\ request'[c].op \in Message)  BY <1>4, <1>6
      <3> QED  BY <2>1, <3>1, <3>2 DEF PipelineOf
    <2> QED  BY <2>2, <2>3, <2>4, <2>5, <2>6 DEF SessionInv
  <1>10. ASSUME NEW t \in SessionId, t # s PROVE SessionInv(t)'
    <2>1. sessions[t] # NoSnapshot => sessions[t].run \in Call /\ sessions[t].run # c
      BY <1>1, ShownTypes DEF SessionsInv, SessionInv, RunOfSession
    <2> QED  BY <1>1, <1>6, <1>10, <2>1, SessionKept DEF SessionsInv
  <1>11. ASSUME NEW d \in Call PROVE CallInv(d)'
    <2>1. CallInv(d) /\ updates[d] \in Seq(Call)  BY DEF SessionsInv, SessionsTypeOK
    <2>2. \A i \in DOMAIN updates[d] : updates[d][i] \in Call  BY <2>1
    <2>3. \A i \in DOMAIN updates[d] : pc'[updates[d][i]] # "idle"
      BY <1>1, <1>6, <2>1, <2>2 DEF CallInv
    <2>4. CASE d = c
      <3>1. sessions'[s] # NoSnapshot /\ sessions'[s].run = c  BY <1>3, <1>6
      <3> QED  BY <1>1, <1>4, <1>6, <1>7, <2>3, <2>4, <3>1 DEF CallInv
    <2>5. CASE d # c
      <3>1. SessionOf(d)' = SessionOf(d) /\ SessionOf(d) \in SessionId
        BY <1>6, <2>5, SessionOfType DEF SessionOf, SessionsInv
      <3>2. CASE SessionOf(d) = s
        <4>1. pc[d] = "pipeline" => d \in racing'[s]  BY <1>6, <3>2 DEF raced
        <4>2. sessions'[s] # NoSnapshot  BY <1>3, <1>6
        <4> QED  BY <1>1, <1>6, <2>1, <2>3, <2>5, <3>1, <3>2, <4>1, <4>2 DEF CallInv
      <3>3. CASE SessionOf(d) # s
        BY <1>1, <1>6, <2>1, <2>3, <2>5, <3>1, <3>3 DEF CallInv
      <3> QED  BY <3>2, <3>3
    <2> QED  BY <2>4, <2>5
  <1> QED  BY <1>5, <1>9, <1>10, <1>11 DEF SessionsInv

(* The pipeline of a message lands in the run it drafted, or in one that   *)
(* was recorded while it was unanswered.                                   *)
LEMMA AttachPipelineKeepsInv ==
    ASSUME SessionsInv, NEW c \in Call, AttachRuntimePipeline(c)
    PROVE  SessionsInv'
  <1>s. PICK s : s = SessionOf(c)  OBVIOUS
  <1>old. PICK old : old = sessions[s]  OBVIOUS
  <1>kept. PICK kept : kept = old.trail  OBVIOUS
  <1>1. /\ pc[c] = "pipeline" /\ s \in SessionId /\ request[c].op \in Message
        /\ old # NoSnapshot /\ c \in {old.run} \cup racing[s]
    BY <1>s, <1>old, SessionOfType DEF AttachRuntimePipeline, SessionsInv, CallInv
  <1>2. /\ old \in Snapshot /\ old.run \in Call
        /\ kept \in Seq(AuditEvent) /\ Len(kept) \in Nat
        /\ DOMAIN kept = 1..Len(kept)
        /\ \A i \in DOMAIN kept : kept[i].by \in Call
    BY <1>old, <1>kept, <1>1, ShownTypes DEF SessionsInv
  <1>3. PICK compiled \in Pipelines(request[c].op) :
           /\ sessions' = [sessions EXCEPT ![s].trail = @ \o Evidence(compiled, c), ![s].pipeline = c]
           /\ pc' = [pc EXCEPT ![c] = "answered"]
           /\ UNCHANGED <<request, updates, racing>>
    BY <1>s, <1>1, MessagesHavePlans DEF AttachRuntimePipeline
  <1>4. PICK evidence \in Seq(AuditEvent) :
           /\ evidence = Evidence(compiled, c)
           /\ \A i \in DOMAIN evidence : evidence[i].by = c /\ evidence[i].kind \notin Attachment
    <2>1. PICK n \in Nat : DOMAIN compiled = 1..n  BY <1>1, MessagesHavePlans
    <2> QED  BY <2>1, EvidenceEvents
  <1>trail. PICK trail : trail = kept \o evidence  OBVIOUS
  <1>new. PICK new : new = [old EXCEPT !.trail = trail, !.pipeline = c]  OBVIOUS
  <1>5. /\ trail \in Seq(AuditEvent) /\ Len(evidence) \in Nat
        /\ DOMAIN trail = 1..(Len(kept) + Len(evidence))
        /\ \A i \in 1..Len(kept) : trail[i] = kept[i]
        /\ \A i \in 1..Len(evidence) : trail[Len(kept) + i] = evidence[i]
    BY <1>trail, <1>2, <1>4, Concatenated
  <1>6. /\ new.run = old.run /\ new.status = old.status /\ new.phase = old.phase
        /\ new.action = old.action /\ new.trail = trail /\ new.pipeline = c
        /\ new \in Snapshot
    BY <1>new, <1>2, <1>5 DEF Snapshot
  <1>7. sessions' = [sessions EXCEPT ![s] = new]
    <2>1. sessions \in [SessionId -> Snapshot \cup {NoSnapshot}]  BY DEF SessionsInv, SessionsTypeOK
    <2> QED  BY <1>old, <1>kept, <1>trail, <1>new, <1>1, <1>3, <1>4, <2>1
  <1>8. /\ sessions'[s] = new /\ pc'[c] = "answered"
        /\ \A d \in Call : d # c => pc'[d] = pc[d]
        /\ \A t \in SessionId : t # s => sessions'[t] = sessions[t]
    BY <1>1, <1>3, <1>7 DEF SessionsInv, SessionsTypeOK
  <1>9. SessionsTypeOK'
    <2>1. sessions' \in [SessionId -> Snapshot \cup {NoSnapshot}]
      BY <1>1, <1>6, <1>7 DEF SessionsInv, SessionsTypeOK
    <2>2. pc' \in [Call -> {"idle", "pipeline", "answered", "refused"}]
      BY <1>3 DEF SessionsInv, SessionsTypeOK
    <2>3. UNCHANGED <<request, updates, racing>>  BY <1>3
    <2> QED  BY <2>1, <2>2, <2>3 DEF SessionsInv, SessionsTypeOK
  <1>10. \A d \in Call : pc[d] # "idle" => pc'[d] # "idle"  BY <1>8
  <1>11. ASSUME NEW t \in SessionId, t # s PROVE SessionInv(t)'
    <2>1. sessions[t] # NoSnapshot => sessions[t].run \in Call /\ sessions[t].run # c
      BY <1>s, <1>11, ShownTypes DEF SessionsInv, SessionInv, RunOfSession
    <2> QED  BY <1>3, <1>8, <1>10, <1>11, <2>1, SessionKept DEF SessionsInv
  <1>run. PICK run : run = old.run  OBVIOUS
  <1>12. \A i \in DOMAIN trail :
            \/ i \in DOMAIN kept /\ trail[i] = kept[i]
            \/ trail[i].by = c /\ trail[i].kind \notin Attachment
    <2>0. DOMAIN evidence = 1..Len(evidence) /\ Len(evidence) \in Nat  BY <1>4
    <2> SUFFICES ASSUME NEW i \in DOMAIN trail, i \notin DOMAIN kept
                 PROVE  trail[i].by = c /\ trail[i].kind \notin Attachment
      BY <1>2, <1>5
    <2>1. i - Len(kept) \in 1..Len(evidence) /\ Len(kept) + (i - Len(kept)) = i
      BY <1>2, <1>5, <2>0
    <2>2. trail[Len(kept) + (i - Len(kept))] = evidence[i - Len(kept)]  BY <1>5, <2>1
    <2>3. trail[i] = evidence[i - Len(kept)]  BY <2>1, <2>2
    <2> QED  BY <1>4, <2>0, <2>1, <2>3
  <1>13. RunOfSession(s) /\ AttachmentsOf(s) /\ WaitingOf(s) /\ TrailOf(s) /\ PipelineOf(s)
    BY <1>old, <1>1 DEF SessionsInv, SessionInv
  <1>14. SessionInv(s)'
    <2>1. RunOfSession(s)'
      <3>1. pc'[run] \in {"pipeline", "answered"}
        BY <1>old, <1>run, <1>2, <1>8, <1>13 DEF RunOfSession
      <3>2. SessionOf(run)' = s /\ request'[run].op \in Message \cup Governed
        BY <1>old, <1>run, <1>3, <1>13 DEF RunOfSession, SessionOf
      <3>3. \A i \in DOMAIN trail : pc'[trail[i].by] # "idle"
        BY <1>old, <1>kept, <1>2, <1>8, <1>10, <1>12, <1>13 DEF RunOfSession
      <3> QED  BY <1>run, <1>6, <1>8, <3>1, <3>2, <3>3 DEF RunOfSession
    <2>2. AttachmentsOf(s)'
      <3>1. \A i \in DOMAIN kept : (kept[i].kind \in Attachment /\ request[kept[i].by].session = None)
                => request[kept[i].by].run = run
        BY <1>old, <1>kept, <1>run, <1>13 DEF AttachmentsOf
      <3>2. \A i \in DOMAIN trail :
              (trail[i].kind \in Attachment /\ request[trail[i].by].session = None)
                => request[trail[i].by].run = run
        BY <1>12, <3>1
      <3>3. sessions'[s].trail = trail /\ sessions'[s].run = run /\ request' = request
        BY <1>run, <1>3, <1>6, <1>8
      <3> QED  BY <3>2, <3>3 DEF AttachmentsOf
    <2>3. OutputAttached(run)' <=> OutputAttached(run)  BY <1>3 DEF OutputAttached
    <2>4. WaitingOf(s)'  BY <1>old, <1>run, <1>3, <1>6, <1>8, <1>13, <2>3 DEF WaitingOf
    <2>5. TrailOf(s)'
      <3>1. Len(trail) = Len(kept) + Len(evidence)  BY <1>2, <1>5
      <3>2. updates[run] \in Seq(Call)  BY <1>run, <1>2 DEF SessionsInv, SessionsTypeOK
      <3>3. \A i \in 1..Len(updates[run]) : i <= MaxEvents =>
               /\ i <= Len(kept) /\ kept[i].by = updates[run][Len(updates[run]) + 1 - i]
        BY <1>old, <1>kept, <1>run, <1>13 DEF TrailOf
      <3>4. \A i \in 1..Len(updates[run]) : i <= MaxEvents =>
               /\ i <= Len(trail) /\ trail[i].by = updates[run][Len(updates[run]) + 1 - i]
        <4> SUFFICES ASSUME NEW i \in 1..Len(updates[run]), i <= MaxEvents
                     PROVE  i <= Len(trail) /\ trail[i].by = updates[run][Len(updates[run]) + 1 - i]
          OBVIOUS
        <4>1. i \in 1..Len(kept)  BY <1>2, <3>2, <3>3
        <4>2. trail[i] = kept[i] /\ Len(kept) <= Len(trail)  BY <1>2, <1>5, <3>1, <4>1
        <4> QED  BY <1>2, <3>1, <3>2, <3>3, <4>1, <4>2
      <3>5. sessions'[s].trail = trail /\ sessions'[s].run = run /\ updates' = updates
        BY <1>run, <1>3, <1>6, <1>8
      <3> QED  BY <3>4, <3>5 DEF TrailOf
    <2>6. PipelineOf(s)'
      <3>1. c # None  BY IdAssumption DEF None
      <3>2. sessions'[s].pipeline = c /\ sessions'[s].run = old.run /\ racing'[s] = racing[s]
        BY <1>3, <1>6, <1>8
      <3> QED  BY <1>1, <3>1, <3>2 DEF PipelineOf
    <2> QED  BY <2>1, <2>2, <2>4, <2>5, <2>6 DEF SessionInv
  <1>15. ASSUME NEW d \in Call PROVE CallInv(d)'
    <2>1. CallInv(d) /\ updates[d] \in Seq(Call)  BY DEF SessionsInv, SessionsTypeOK
    <2>2. \A i \in DOMAIN updates[d] : updates[d][i] \in Call  BY <2>1
    <2>3. \A i \in DOMAIN updates[d] : pc'[updates[d][i]] # "idle"
      BY <1>10, <2>1, <2>2 DEF CallInv
    <2>4. SessionOf(d)' = SessionOf(d) /\ SessionOf(d) \in SessionId
      BY <1>3, SessionOfType DEF SessionOf, SessionsInv
    <2>5. CASE d = c  BY <1>1, <1>3, <1>8, <2>1, <2>3, <2>5 DEF CallInv
    <2>6. CASE d # c
      <3>1. new # NoSnapshot  BY <1>6, SnapshotsAreShown
      <3>2. sessions[SessionOf(d)] # NoSnapshot =>
               /\ sessions'[SessionOf(d)] # NoSnapshot
               /\ sessions'[SessionOf(d)].run = sessions[SessionOf(d)].run
        BY <1>old, <1>6, <1>8, <2>4, <3>1
      <3> QED  BY <1>3, <1>8, <2>1, <2>3, <2>4, <2>6, <3>2 DEF CallInv
    <2> QED  BY <2>5, <2>6
  <1> QED  BY <1>9, <1>11, <1>14, <1>15 DEF SessionsInv

(* An update leaves the run of its session alone; only an output ends the  *)
(* waiting.                                                                *)
LEMMA ChangedSnapshot ==
    ASSUME NEW req, req.op \in Attachment, NEW snap \in Snapshot,
           req.op \in {"output", "result"} => req.class \in OutputClass
    PROVE  LET new == Changed(req, snap)
           IN  /\ new \in Snapshot
               /\ new.run = snap.run /\ new.trail = snap.trail /\ new.pipeline = snap.pipeline
               /\ req.op = "output" =>
                     new.status = "completed" /\ new.phase = "completed" /\ new.action = "completed"
               /\ req.op # "output" =>
                     new.status = snap.status /\ new.phase = snap.phase /\ new.action = snap.action
  <1>1. CASE req.op = "create_artifact"
    <2>1. Changed(req, snap) = WithArtifact(snap)  BY <1>1 DEF Changed
    <2> QED  BY <1>1, <2>1 DEF WithArtifact, Snapshot
  <1>2. CASE req.op = "summary"
    <2>1. Changed(req, snap) = WithSummary(snap)  BY <1>2 DEF Changed
    <2> QED  BY <1>2, <2>1 DEF WithSummary, Snapshot
  <1>3. CASE req.op = "output"
    <2>1. Changed(req, snap) = WithOutput(snap, req.class)  BY <1>3 DEF Changed
    <2> QED  BY <1>3, <2>1 DEF WithOutput, Snapshot
  <1>4. CASE req.op = "result"
    <2>1. Changed(req, snap) = WithResult(snap, req.class)  BY <1>4 DEF Changed
    <2> QED  BY <1>4, <2>1 DEF WithResult, Snapshot
  <1>5. CASE req.op = "note"
    <2>1. Changed(req, snap) = snap  BY <1>5 DEF Changed
    <2> QED  BY <1>5, <2>1
  <1> QED  BY <1>1, <1>2, <1>3, <1>4, <1>5 DEF Attachment

(* An update heads the trail of the run it names.                          *)
LEMMA UpdateKeepsInv ==
    ASSUME SessionsInv, NEW c \in Call, NEW req \in Attachments, Update(c, req),
           req.op \in {"output", "result"} => req.class \in OutputClass
    PROVE  SessionsInv'
  <1>1. PICK s \in Located(req) :
           /\ sessions' = [sessions EXCEPT ![s] = Updated(c, req, @)]
           /\ updates' = [updates EXCEPT ![sessions[s].run] = Append(@, c)]
    BY DEF Update
  <1>2. /\ pc[c] = "idle" /\ pc' = [pc EXCEPT ![c] = "answered"]
        /\ request' = [request EXCEPT ![c] = req] /\ racing' = racing
    BY DEF Update
  <1>3. /\ s \in SessionId /\ sessions[s] # NoSnapshot
        /\ req.session = None => sessions[s].run = req.run
    BY <1>1 DEF Located
  <1>old. PICK old : old = sessions[s]  OBVIOUS
  <1>kept. PICK kept : kept = old.trail  OBVIOUS
  <1>run. PICK run : run = old.run  OBVIOUS
  <1>e. PICK e : e = Event(req.op, c)  OBVIOUS
  <1>trail. PICK trail : trail = PushAuditEvent(kept, e)  OBVIOUS
  <1>new. PICK new : new = [Changed(req, old) EXCEPT !.trail = trail]  OBVIOUS
  <1>mine. PICK mine : mine = updates[run]  OBVIOUS
  <1>4. /\ old \in Snapshot /\ run \in Call
        /\ kept \in Seq(AuditEvent) /\ Len(kept) \in Nat /\ DOMAIN kept = 1..Len(kept)
        /\ \A i \in DOMAIN kept : kept[i].by \in Call
        /\ RunOfSession(s) /\ AttachmentsOf(s) /\ WaitingOf(s) /\ TrailOf(s) /\ PipelineOf(s)
    BY <1>3, <1>old, <1>kept, <1>run, ShownTypes DEF SessionsInv, SessionInv
  <1>5. /\ req.op \in Attachment
        /\ req \in [op : Message \cup Governed \cup Attachment, session : SessionId \cup {None},
                    run : Call \cup {None}, class : Class \cup {None}]
    BY RequestTypes DEF SessionsInv
  <1>6. e \in AuditEvent /\ e.by = c  BY <1>5, <1>e DEF Event, AuditEvent, EventKind
  <1>7. /\ trail \in Seq(AuditEvent) /\ Len(trail) \in Nat /\ DOMAIN trail = 1..Len(trail)
        /\ Len(trail) = IF Len(kept) + 1 > MaxEvents THEN MaxEvents ELSE Len(kept) + 1
        /\ trail[1] = e
        /\ \A i \in 2..Len(trail) : i - 1 \in 1..Len(kept) /\ trail[i] = kept[i - 1]
    <2>1. kept \in Seq(AuditEvent) /\ e \in AuditEvent  BY <1>4, <1>6
    <2>2. IsPushed(trail, kept, e)  BY ONLY <2>1, <1>trail, Pushed
    <2> QED  BY <2>2 DEF IsPushed
  <1>8. /\ new \in Snapshot /\ new.run = run /\ new.trail = trail /\ new.pipeline = old.pipeline
        /\ req.op = "output" =>
              new.status = "completed" /\ new.phase = "completed" /\ new.action = "completed"
        /\ req.op # "output" =>
              new.status = old.status /\ new.phase = old.phase /\ new.action = old.action
    <2>0. PICK changed : changed = Changed(req, old)  OBVIOUS
    <2>1. /\ changed \in Snapshot
          /\ changed.run = old.run /\ changed.pipeline = old.pipeline
          /\ req.op = "output" =>
                changed.status = "completed" /\ changed.phase = "completed"
                  /\ changed.action = "completed"
          /\ req.op # "output" =>
                changed.status = old.status /\ changed.phase = old.phase /\ changed.action = old.action
      BY <1>4, <1>5, <2>0, ChangedSnapshot
    <2>2. new = [changed EXCEPT !.trail = trail]  BY <1>new, <2>0
    <2>3. /\ new \in Snapshot /\ new.run = changed.run /\ new.trail = trail
          /\ new.pipeline = changed.pipeline /\ new.status = changed.status
          /\ new.phase = changed.phase /\ new.action = changed.action
      BY <1>7, <2>1, <2>2 DEF Snapshot
    <2> QED  BY <1>run, <2>1, <2>3
  <1>9. sessions' = [sessions EXCEPT ![s] = new]
          /\ updates' = [updates EXCEPT ![run] = Append(mine, c)]
    <2>1. Changed(req, old).trail = old.trail  BY <1>4, <1>5, ChangedSnapshot
    <2>2. sessions \in [SessionId -> Snapshot \cup {NoSnapshot}]  BY DEF SessionsInv, SessionsTypeOK
    <2>3. sessions' = [sessions EXCEPT ![s] = new]
      <3>1. Updated(c, req, old) = new
        BY <1>kept, <1>e, <1>trail, <1>new, <2>1 DEF Updated
      <3>2. sessions' = [sessions EXCEPT ![s] = Updated(c, req, old)]  BY <1>1, <1>3, <1>old, <2>2
      <3> QED  BY <3>1, <3>2
    <2> QED  BY <1>1, <1>old, <1>run, <1>mine, <1>4, <2>3 DEF SessionsInv, SessionsTypeOK
  <1>10. /\ mine \in Seq(Call) /\ Len(mine) \in Nat /\ DOMAIN mine = 1..Len(mine)
         /\ Append(mine, c) \in Seq(Call) /\ Len(Append(mine, c)) = Len(mine) + 1
         /\ DOMAIN Append(mine, c) = 1..(Len(mine) + 1)
         /\ Append(mine, c)[Len(mine) + 1] = c
         /\ \A i \in 1..Len(mine) : Append(mine, c)[i] = mine[i]
    <2>1. mine \in Seq(Call)  BY <1>4, <1>mine DEF SessionsInv, SessionsTypeOK
    <2> QED  BY <2>1
  <1>11. SessionsTypeOK'
    <2>1. sessions' \in [SessionId -> Snapshot \cup {NoSnapshot}]
      BY <1>3, <1>8, <1>9 DEF SessionsInv, SessionsTypeOK
    <2>2. pc' \in [Call -> {"idle", "pipeline", "answered", "refused"}]
      BY <1>2 DEF SessionsInv, SessionsTypeOK
    <2>3. updates' \in [Call -> Seq(Call)]  BY <1>4, <1>9, <1>10 DEF SessionsInv, SessionsTypeOK
    <2>4. racing' \in [SessionId -> SUBSET Call]  BY <1>2 DEF SessionsInv, SessionsTypeOK
    <2> QED  BY <1>2, <1>5, <2>1, <2>2, <2>3, <2>4 DEF SessionsInv, SessionsTypeOK
  <1>12. /\ pc'[c] = "answered" /\ request'[c] = req /\ sessions'[s] = new
         /\ updates'[run] = Append(mine, c) /\ racing'[s] = racing[s]
         /\ \A d \in Call : d # c => pc'[d] = pc[d] /\ request'[d] = request[d]
         /\ \A d \in Call : d # run => updates'[d] = updates[d]
         /\ \A t \in SessionId : t # s => sessions'[t] = sessions[t]
    BY <1>2, <1>3, <1>4, <1>9 DEF SessionsInv, SessionsTypeOK
  <1>13. run # c /\ pc'[run] = pc[run] /\ request'[run] = request[run]
    BY <1>2, <1>4, <1>12, <1>old, <1>run DEF RunOfSession
  <1>14. \A d \in Call : pc[d] # "idle" => pc'[d] # "idle" /\ request'[d] = request[d]
    BY <1>2, <1>12
  <1>15. \A i \in DOMAIN trail :
            \/ i = 1 /\ trail[i] = e
            \/ i - 1 \in DOMAIN kept /\ trail[i] = kept[i - 1]
    BY <1>4, <1>7
  <1>16. \A i \in DOMAIN kept : /\ pc[kept[i].by] # "idle" /\ kept[i].by # c
                                /\ request'[kept[i].by] = request[kept[i].by]
    BY <1>2, <1>4, <1>14, <1>old, <1>kept DEF RunOfSession
  <1>17. sessions'[s].trail = trail /\ sessions'[s].run = run  BY <1>8, <1>12
  <1>18. RunOfSession(s)'
    <2>1. pc'[run] \in {"pipeline", "answered"}  BY <1>4, <1>13, <1>old, <1>run DEF RunOfSession
    <2>2. SessionOf(run)' = s /\ request'[run].op \in Message \cup Governed
      BY <1>4, <1>13, <1>old, <1>run DEF RunOfSession, SessionOf
    <2>3. \A i \in DOMAIN trail : pc'[trail[i].by] # "idle"
      BY <1>4, <1>6, <1>12, <1>14, <1>15, <1>16
    <2> QED  BY <1>17, <2>1, <2>2, <2>3 DEF RunOfSession
  <1>19. AttachmentsOf(s)'
    <2>1. \A i \in DOMAIN kept : (kept[i].kind \in Attachment /\ request[kept[i].by].session = None)
              => request[kept[i].by].run = run
      BY <1>4, <1>old, <1>kept, <1>run DEF AttachmentsOf
    <2>2. req.session = None => req.run = run  BY <1>3, <1>old, <1>run
    <2>3. \A i \in DOMAIN trail :
            (trail[i].kind \in Attachment /\ request'[trail[i].by].session = None)
              => request'[trail[i].by].run = run
      BY <1>6, <1>12, <1>15, <1>16, <2>1, <2>2
    <2> QED  BY <1>17, <2>3 DEF AttachmentsOf
  <1>20. WaitingOf(s)'
    <2>1. OutputAttached(run)' <=> (OutputAttached(run) \/ req.op = "output")
      <3>1. \A i \in DOMAIN mine : request'[mine[i]] = request[mine[i]]
        <4>1. \A i \in DOMAIN mine : mine[i] \in Call /\ pc[mine[i]] # "idle"
          BY <1>4, <1>10, <1>mine DEF SessionsInv, CallInv
        <4> QED  BY <1>14, <4>1
      <3>2. ASSUME req.op = "output" PROVE OutputAttached(run)'
        <4>1. Len(mine) + 1 \in DOMAIN updates'[run] /\ updates'[run][Len(mine) + 1] = c
          BY <1>10, <1>12
        <4> QED  BY <1>12, <3>2, <4>1 DEF OutputAttached
      <3>3. ASSUME OutputAttached(run) PROVE OutputAttached(run)'
        <4>1. PICK i \in DOMAIN mine : request[mine[i]].op = "output"
          BY <1>mine, <3>3 DEF OutputAttached
        <4>2. i \in DOMAIN updates'[run] /\ updates'[run][i] = mine[i]  BY <1>10, <1>12, <4>1
        <4> QED  BY <3>1, <4>1, <4>2 DEF OutputAttached
      <3>4. ASSUME OutputAttached(run)', req.op # "output" PROVE OutputAttached(run)
        <4>1. PICK i \in DOMAIN updates'[run] : request'[updates'[run][i]].op = "output"
          BY <3>4 DEF OutputAttached
        <4>2. i \in DOMAIN mine /\ updates'[run][i] = mine[i]
          <5>1. i # Len(mine) + 1  BY <1>10, <1>12, <3>4, <4>1
          <5>2. i \in 1..(Len(mine) + 1)  BY <1>10, <1>12, <4>1
          <5> QED  BY <1>10, <1>12, <5>1, <5>2
        <4> QED  BY <1>mine, <3>1, <4>1, <4>2 DEF OutputAttached
      <3> QED  BY <3>2, <3>3, <3>4
    <2>2. /\ old.status = "waiting" <=> (Waits(request[run].op) /\ ~OutputAttached(run))
          /\ old.status = "waiting" <=> old.phase = "awaiting_input"
          /\ old.status = "waiting" <=> old.action = "proposed"
      BY <1>4, <1>old, <1>run DEF WaitingOf
    <2>3. /\ new.status = "waiting" <=> (Waits(request'[run].op) /\ ~OutputAttached(run)')
          /\ new.status = "waiting" <=> new.phase = "awaiting_input"
          /\ new.status = "waiting" <=> new.action = "proposed"
      <3>1. CASE req.op = "output"  BY <1>8, <2>1, <3>1
      <3>2. CASE req.op # "output"  BY <1>8, <1>13, <2>1, <2>2, <3>2
      <3> QED  BY <3>1, <3>2
    <2> QED  BY <1>12, <1>17, <2>3 DEF WaitingOf
  <1>21. TrailOf(s)'
    <2>1. \A i \in 1..Len(mine) : i <= MaxEvents =>
             i <= Len(kept) /\ kept[i].by = mine[Len(mine) + 1 - i]
      BY <1>4, <1>old, <1>kept, <1>run, <1>mine DEF TrailOf
    <2>2. ASSUME NEW i \in 1..(Len(mine) + 1), i <= MaxEvents
          PROVE  i <= Len(trail) /\ trail[i].by = Append(mine, c)[Len(mine) + 2 - i]
      <3>1. CASE i = 1
        <4>1. 1 <= Len(trail)  BY <1>4, <1>7 DEF MaxEvents
        <4>2. Len(mine) + 2 - i = Len(mine) + 1  BY <1>10, <3>1
        <4> QED  BY <1>6, <1>7, <1>10, <3>1, <4>1, <4>2
      <3>2. CASE i # 1
        <4>1. /\ i - 1 \in 1..Len(mine) /\ i - 1 <= MaxEvents
              /\ Len(mine) + 1 - (i - 1) = Len(mine) + 2 - i /\ Len(mine) + 2 - i \in 1..Len(mine)
          BY <1>10, <2>2, <3>2 DEF MaxEvents
        <4>2. i - 1 <= Len(kept) /\ kept[i - 1].by = mine[Len(mine) + 1 - (i - 1)]  BY <2>1, <4>1
        <4>3. i \in 2..Len(trail)  BY <1>4, <1>7, <1>10, <2>2, <3>2, <4>2 DEF MaxEvents
        <4>4. trail[i] = kept[i - 1]  BY <1>7, <4>3
        <4>5. Append(mine, c)[Len(mine) + 2 - i] = mine[Len(mine) + 2 - i]  BY <1>10, <4>1
        <4> QED  BY <1>7, <4>1, <4>2, <4>3, <4>4, <4>5
      <3> QED  BY <3>1, <3>2
    <2>3. updates'[run] = Append(mine, c) /\ Len(updates'[run]) = Len(mine) + 1
          /\ Len(mine) + 1 + 1 = Len(mine) + 2
      BY <1>10, <1>12
    <2>4. \A i \in 1..Len(updates'[run]) : i <= MaxEvents =>
             i <= Len(trail) /\ trail[i].by = updates'[run][Len(updates'[run]) + 1 - i]
      <3> SUFFICES ASSUME NEW i \in 1..Len(updates'[run]), i <= MaxEvents
                   PROVE  i <= Len(trail) /\ trail[i].by = updates'[run][Len(updates'[run]) + 1 - i]
        OBVIOUS
      <3>1. i \in 1..(Len(mine) + 1)  BY <2>3
      <3>2. Len(updates'[run]) + 1 - i = Len(mine) + 2 - i  BY <1>10, <2>3
      <3>3. i <= Len(trail) /\ trail[i].by = Append(mine, c)[Len(mine) + 2 - i]  BY <2>2, <3>1
      <3> QED  BY <2>3, <3>2, <3>3
    <2> QED  BY <1>17, <2>4 DEF TrailOf
  <1>22. PipelineOf(s)'
    <2>1. sessions'[s].pipeline = old.pipeline  BY <1>8, <1>12
    <2> QED  BY <1>4, <1>12, <1>13, <1>17, <1>old, <1>run, <2>1 DEF PipelineOf
  <1>23. SessionInv(s)'  BY <1>18, <1>19, <1>20, <1>21, <1>22 DEF SessionInv
  <1>24. ASSUME NEW t \in SessionId, t # s PROVE SessionInv(t)'
    <2>1. sessions[t] # NoSnapshot =>
             sessions[t].run \in Call /\ sessions[t].run # c /\ sessions[t].run # run
      <3>1. SessionOf(run) = s  BY <1>4, <1>old, <1>run DEF RunOfSession
      <3> QED  BY <1>2, <1>24, <3>1, ShownTypes DEF SessionsInv, SessionInv, RunOfSession
    <2> QED  BY <1>2, <1>12, <1>14, <1>24, <2>1, SessionKept DEF SessionsInv
  <1>25. ASSUME NEW d \in Call PROVE CallInv(d)'
    <2>1. CallInv(d) /\ updates[d] \in Seq(Call)  BY DEF SessionsInv, SessionsTypeOK
    <2>2. \A i \in DOMAIN updates[d] : updates[d][i] \in Call  BY <2>1
    <2>3. \A i \in DOMAIN updates[d] : pc'[updates[d][i]] # "idle"  BY <1>14, <2>1, <2>2 DEF CallInv
    <2>4. \A i \in DOMAIN updates'[d] : pc'[updates'[d][i]] # "idle"
      <3>1. CASE d # run  BY <1>12, <2>3, <3>1
      <3>2. CASE d = run
        <4>1. \A i \in 1..Len(mine) : pc'[mine[i]] # "idle"  BY <1>10, <1>mine, <2>3, <3>2
        <4>2. \A i \in 1..(Len(mine) + 1) : i \in 1..Len(mine) \/ i = Len(mine) + 1  BY <1>10
        <4> QED  BY <1>10, <1>12, <3>2, <4>1, <4>2
      <3> QED  BY <3>1, <3>2
    <2>5. pc'[d] = "idle" => updates'[d] = <<>>
      <3>1. pc[run] # "idle"  BY <1>4, <1>old, <1>run DEF RunOfSession
      <3> QED  BY <1>12, <1>13, <2>1, <3>1 DEF CallInv
    <2>6. ASSUME pc'[d] = "pipeline"
          PROVE  /\ request'[d].op \in Message
                 /\ sessions'[SessionOf(d)'] # NoSnapshot
                 /\ d \in {sessions'[SessionOf(d)'].run} \cup racing'[SessionOf(d)']
      <3>1. d # c /\ request'[d] = request[d] /\ pc[d] = "pipeline"  BY <1>12, <2>6
      <3>2. SessionOf(d)' = SessionOf(d) /\ SessionOf(d) \in SessionId
        BY <3>1, SessionOfType DEF SessionOf, SessionsInv
      <3>3. new # NoSnapshot  BY <1>8, SnapshotsAreShown
      <3>4. sessions[SessionOf(d)] # NoSnapshot =>
               /\ sessions'[SessionOf(d)] # NoSnapshot
               /\ sessions'[SessionOf(d)].run = sessions[SessionOf(d)].run
        BY <1>old, <1>run, <1>12, <1>17, <3>2, <3>3
      <3> QED  BY <1>2, <2>1, <3>1, <3>2, <3>4 DEF CallInv
    <2> QED  BY <2>4, <2>5, <2>6 DEF CallInv
  <1> QED  BY <1>11, <1>23, <1>24, <1>25 DEF SessionsInv

-----------------------------------------------------------------------------
LEMMA NextKeepsSessionsInv == SessionsInv /\ [SessionsNext]_sessionVars => SessionsInv'
  <1> SUFFICES ASSUME SessionsInv, [SessionsNext]_sessionVars PROVE SessionsInv'
    OBVIOUS
  <1>1. CASE UNCHANGED sessionVars
    <2>1. UNCHANGED <<pc, request, sessions, updates, racing>>  BY <1>1 DEF sessionVars
    <2>2. SessionsTypeOK'  BY <2>1 DEF SessionsInv, SessionsTypeOK
    <2>3. \A s \in SessionId : SessionInv(s)'
      BY <2>1 DEF SessionsInv, SessionInv, RunOfSession, AttachmentsOf, WaitingOf, TrailOf,
         PipelineOf, SessionOf, OutputAttached
    <2>4. \A c \in Call : CallInv(c)'  BY <2>1 DEF SessionsInv, CallInv, SessionOf
    <2> QED  BY <2>2, <2>3, <2>4 DEF SessionsInv
  <1>2. CASE SessionsNext
    <2> SUFFICES ASSUME NEW c \in Call, Handle(c) PROVE SessionsInv'
      BY <1>2 DEF SessionsNext
    <2>1. CASE SubmitMessage(c)
      BY <2>1, RecordDraftKeepsInv DEF SubmitMessage
    <2>2. CASE SubmitGoverned(c)
      BY <2>2, RecordDraftKeepsInv DEF SubmitGoverned
    <2>3. CASE AttachRuntimePipeline(c)  BY <2>3, AttachPipelineKeepsInv
    <2>4. CASE CreateArtifact(c)
      <3>1. PICK req \in OfSessionOrRun("create_artifact") : Update(c, req)
        BY <2>4 DEF CreateArtifact
      <3>2. req \in Attachments /\ req.op = "create_artifact"
        BY <3>1 DEF Attachments, OfSessionOrRun, Request
      <3> QED  BY <3>1, <3>2, UpdateKeepsInv
    <2>5. CASE AttachSummary(c)
      <3>1. PICK req \in OfRun("summary", {None}) : Update(c, req)
        BY <2>5 DEF AttachSummary
      <3>2. req \in Attachments /\ req.op = "summary"
        BY <3>1 DEF Attachments, OfRun, Request
      <3> QED  BY <3>1, <3>2, UpdateKeepsInv
    <2>6. CASE AttachRunOutput(c)
      <3>1. PICK req \in OfRun("output", Class) : ValidateOutputClass(req.class) /\ Update(c, req)
        BY <2>6 DEF AttachRunOutput
      <3>2. req \in Attachments /\ req.class \in OutputClass
        BY <3>1 DEF Attachments, ValidateOutputClass
      <3> QED  BY <3>1, <3>2, UpdateKeepsInv
    <2>7. CASE StoreExternalResult(c)
      <3>1. PICK req \in OfRun("result", Class) : ValidateOutputClass(req.class) /\ Update(c, req)
        BY <2>7 DEF StoreExternalResult
      <3>2. req \in Attachments /\ req.class \in OutputClass
        BY <3>1 DEF Attachments, ValidateOutputClass
      <3> QED  BY <3>1, <3>2, UpdateKeepsInv
    <2>8. CASE AppendEvidenceNote(c)
      <3>1. PICK req \in OfSessionOrRun("note") : Update(c, req)
        BY <2>8 DEF AppendEvidenceNote
      <3>2. req \in Attachments /\ req.op = "note"
        BY <3>1 DEF Attachments, OfSessionOrRun, Request
      <3> QED  BY <3>1, <3>2, UpdateKeepsInv
    <2>9. CASE Refuse(c)  BY <2>9, RefuseKeepsInv
    <2> QED  BY <2>1, <2>2, <2>3, <2>4, <2>5, <2>6, <2>7, <2>8, <2>9 DEF Handle
  <1> QED  BY <1>1, <1>2

LEMMA SessionsInvariance == SessionsSpec => []SessionsInv
  <1> QED  BY InitSessionsInv, NextKeepsSessionsInv, PTL DEF SessionsSpec

(* Every value of the variables is one the code can hold; a session never  *)
(* shows an output of a class that the runtime does not take.              *)
THEOREM SessionsTypeCorrect == SessionsSpec => []SessionsTypeOK
  BY SessionsInvariance, PTL DEF SessionsInv

(* What a client attached to a run by its id is seen on that run alone     *)
(* (agent_runtime.rs, locate_session and push_audit_event).                *)
THEOREM AttachmentsAreOnTheirRun == SessionsSpec => []AttachmentsFollowTheirRun
  <1>1. SessionsInv => AttachmentsFollowTheirRun
    BY DEF SessionsInv, SessionInv, AttachmentsOf, AttachmentsFollowTheirRun, Shown
  <1> QED  BY <1>1, SessionsInvariance, PTL

(* Only an output attached to its run ends the waiting of a draft          *)
(* (agent_runtime.rs, attach_run_output).                                  *)
THEOREM OnlyOutputEndsWaiting == SessionsSpec => []WaitingEndsByOutput
  <1>1. SessionsInv => WaitingEndsByOutput
    BY DEF SessionsInv, SessionInv, WaitingOf, WaitingEndsByOutput, Shown
  <1> QED  BY <1>1, SessionsInvariance, PTL

(* The trail of a run shows its latest updates, newest first, with any     *)
(* number of updates (agent_runtime.rs, push_audit_event).                 *)
THEOREM TrailIsLatest == SessionsSpec => []TrailShowsLatestUpdates
  <1>1. SessionsInv => TrailShowsLatestUpdates
    BY DEF SessionsInv, SessionInv, TrailOf, TrailShowsLatestUpdates, Shown
  <1> QED  BY <1>1, SessionsInvariance, PTL

(* The pipeline a session shows is that of its run or of a message that    *)
(* raced with it, however many calls share the session (agent_runtime.rs,  *)
(* submit_message and attach_runtime_pipeline).                            *)
THEOREM PipelinesAreOwn == SessionsSpec => []PipelineIsOwnOrRacing
  <1>1. SessionsInv => PipelineIsOwnOrRacing
    <2> SUFFICES ASSUME SessionsInv, NEW s \in SessionId, sessions[s] # NoSnapshot
                 PROVE  LET c == sessions[s].run
                        IN  /\ sessions[s].pipeline \in {None, c} \cup racing[s]
                            /\ pc[c] # "refused"
                            /\ (pc[c] = "answered" /\ request[c].op \in Message)
                                  => sessions[s].pipeline # None
      BY DEF PipelineIsOwnOrRacing, Shown
    <2> QED  BY DEF SessionsInv, SessionInv, RunOfSession, PipelineOf
  <1> QED  BY <1>1, SessionsInvariance, PTL

-----------------------------------------------------------------------------
(* Admission.                                                              *)

(* A call under way has an act, and its ruling is the evaluator's.        *)
CallsAreRuled ==
    \A c \in Caller :
        /\ progress[c] # "idle" => act[c] \in ProposedLogLineAct
        /\ progress[c] \in {"commit", "done"} => ruling[c] = evaluate_admission(act[c], context)

(* As many acts were admitted as rulings admit.                           *)
AdmissionsAreRulings ==
    Len(admitted_acts) = Cardinality({n \in DOMAIN rulings : rulings[n].ruling.decision = "yes"})

AdmissionInv ==
    /\ AdmissionTypeOK
    /\ CallsAreRuled
    /\ AdmittedIsPermitted
    /\ ReceiptNamesItsRuling
    /\ AdmissionsAreRulings

-----------------------------------------------------------------------------
(* A list of documents of which some apply has a first one that does.     *)
LEMMA FirstExists ==
    ASSUME NEW D, D \subseteq Nat, NEW S, S \subseteq D, S # {}
    PROVE  LET i == CHOOSE k \in D : IsFirst(k, S) IN i \in D /\ IsFirst(i, S)
  <1> DEFINE R == OpToRel(<, Nat)
  <1>1. IsWellFoundedOn(R, Nat)  BY NatLessThanWellFounded
  <1>2. S \subseteq Nat  OBVIOUS
  <1> HIDE DEF R
  <1>3. PICK m \in S : \A y \in S : ~(<<y, m>> \in R)  BY <1>1, <1>2, WFMin
  <1>4. \A y \in S : m <= y
    <2> TAKE y \in S
    <2>1. m \in Nat /\ y \in Nat  BY <1>2
    <2>2. ~(y < m)
      <3> SUFFICES ASSUME y < m PROVE <<y, m>> \in R
        BY <1>3
      <3> QED  BY <2>1 DEF R, OpToRel
    <2> QED  BY <2>1, <2>2
  <1>5. m \in D /\ IsFirst(m, S)  BY <1>4 DEF IsFirst
  <1> QED  BY <1>5

(* The counts of a ruling are naturals.                                   *)
LEMMA ClosedIsFinite ==
    ASSUME NEW ctx \in AdmissionContext
    PROVE  /\ DOMAIN ctx.boundaries \subseteq Nat
           /\ \A S \in SUBSET DOMAIN ctx.boundaries : Cardinality(S) \in Nat
  <1>1. ctx.boundaries \in Seq(Boundary)  BY DEF AdmissionContext
  <1>2. DOMAIN ctx.boundaries = 1..Len(ctx.boundaries) /\ Len(ctx.boundaries) \in Nat  BY <1>1
  <1>3. IsFiniteSet(DOMAIN ctx.boundaries)  BY <1>2, FS_Interval
  <1>4. \A S \in SUBSET DOMAIN ctx.boundaries : Cardinality(S) \in Nat
    BY <1>3, FS_Subset, FS_CardinalityType
  <1> QED  BY <1>2, <1>4

(* Boundaries rule yes only when none of the closed ones stops.           *)
LEMMA BoundariesAreRuled ==
    ASSUME NEW ctx \in AdmissionContext, NEW a, NEW visa
    PROVE  /\ RuleOnBoundaries(a, ctx, visa) \in Ruling
           /\ RuleOnBoundaries(a, ctx, visa).decision = "yes" => Stopping(a, ctx, visa) = {}
  <1>1. CASE Stopping(a, ctx, visa) = {}
    <2>1. Closed(ctx) \subseteq DOMAIN ctx.boundaries  BY DEF Closed
    <2>2. Cardinality(Closed(ctx)) \in Nat  BY <2>1, ClosedIsFinite
    <2> QED  BY <1>1, <2>2 DEF RuleOnBoundaries, Ruling, Decision
  <1>2. CASE Stopping(a, ctx, visa) # {}
    <2> DEFINE s == CHOOSE i \in DOMAIN ctx.boundaries : IsFirst(i, Stopping(a, ctx, visa))
               before == Cardinality({i \in Closed(ctx) : i < s})
               decision == IF ctx.boundaries[s].semantic THEN "cloud" ELSE "no"
    <2>1. {i \in Closed(ctx) : i < s} \subseteq DOMAIN ctx.boundaries  BY DEF Closed
    <2>2. before \in Nat  BY <2>1, ClosedIsFinite
    <2>3. RuleOnBoundaries(a, ctx, visa)
            = [decision |-> decision, checked |-> before + 1, passed |-> before]
      BY <1>2 DEF RuleOnBoundaries
    <2>4. decision \in {"cloud", "no"}  OBVIOUS
    <2> HIDE DEF s, before, decision
    <2> QED  BY <2>2, <2>3, <2>4 DEF Ruling, Decision
  <1> QED  BY <1>1, <1>2

(* The evaluator answers with a ruling, and a yes of it is a permission:   *)
(* the first documents of each kind are among those that apply.           *)
LEMMA YesIsPermitted ==
    ASSUME NEW ctx \in AdmissionContext, NEW a \in ProposedLogLineAct
    PROVE  /\ evaluate_admission(a, ctx) \in Ruling
           /\ evaluate_admission(a, ctx).decision = "yes" => Permitted(a, ctx)
  <1> DEFINE v == CHOOSE i \in DOMAIN ctx.visas : IsFirst(i, Visas(a, ctx))
             g == CHOOSE i \in DOMAIN ctx.gates : IsFirst(i, Gates(a, ctx))
             visa == ctx.visas[v]
             Ready == /\ a.complete /\ Passports(a, ctx) # {} /\ Visas(a, ctx) # {}
                      /\ Permits(visa, a) /\ Gates(a, ctx) # {}
  <1>1. Rule0("no") \in Ruling /\ Rule0("no").decision = "no"  BY DEF Rule0, Ruling, Decision
  <1>2. \/ evaluate_admission(a, ctx) = Rule0("no")
        \/ Ready /\ evaluate_admission(a, ctx) = RuleOnBoundaries(a, ctx, visa)
    BY DEF evaluate_admission
  <1>3. ASSUME Ready, Stopping(a, ctx, visa) = {} PROVE Permitted(a, ctx)
    <2>1. ctx.visas \in Seq(Visa)  BY DEF AdmissionContext
    <2>2. DOMAIN ctx.visas \subseteq Nat  BY <2>1
    <2>3. Visas(a, ctx) \subseteq DOMAIN ctx.visas /\ Visas(a, ctx) # {}  BY <1>3 DEF Visas
    <2>4. v \in DOMAIN ctx.visas /\ IsFirst(v, Visas(a, ctx))  BY <2>2, <2>3, FirstExists
    <2>5. v \in Visas(a, ctx)  BY <2>4 DEF IsFirst
    <2> HIDE DEF v
    <2>6. visa.closed /\ visa.holder = a.who /\ visa_time_valid(visa, ctx.now)
      BY <2>5 DEF Visas
    <2>7. a.did \in visa.allowed \ visa.forbidden  BY <1>3 DEF Permits
    <2>8. \A j \in DOMAIN ctx.boundaries : ctx.boundaries[j].closed =>
             ~ctx.boundaries[j].semantic /\ Passes(ctx.boundaries[j], a, visa)
      BY <1>3 DEF Stopping, Closed
    <2>9. \E i \in DOMAIN ctx.passports : ctx.passports[i].closed /\ ctx.passports[i].subject = a.who
      BY <1>3 DEF Passports
    <2>10. \E i \in DOMAIN ctx.gates : ctx.gates[i].closed /\ a.did \in ctx.gates[i].dids
      BY <1>3 DEF Gates
    <2> QED  BY <1>3, <2>4, <2>6, <2>7, <2>8, <2>9, <2>10 DEF Permitted
  <1> HIDE DEF v, g
  <1> QED  BY <1>1, <1>2, <1>3, BoundariesAreRuled

-----------------------------------------------------------------------------
LEMMA InitAdmissionInv == AdmissionInit => AdmissionInv
  <1> SUFFICES ASSUME AdmissionInit PROVE AdmissionInv
    OBVIOUS
  <1>1. AdmissionTypeOK  BY DEF AdmissionInit, AdmissionTypeOK, Rule0, Ruling, Receipt, Decision
  <1>2. CallsAreRuled /\ ReceiptNamesItsRuling
    BY DEF AdmissionInit, CallsAreRuled, ReceiptNamesItsRuling
  <1>3. AdmittedIsPermitted  BY DEF AdmissionInit, AdmittedIsPermitted
  <1>4. AdmissionsAreRulings
    <2>1. {n \in DOMAIN rulings : rulings[n].ruling.decision = "yes"} = {}  BY DEF AdmissionInit
    <2> QED  BY <2>1, FS_EmptySet DEF AdmissionInit, AdmissionsAreRulings
  <1> QED  BY <1>1, <1>2, <1>3, <1>4 DEF AdmissionInv

(* Proposing and loading leave what is committed alone.                   *)
LEMMA PreparingKeepsAdmissionInv ==
    ASSUME AdmissionInv, NEW c \in Caller, (\E a \in ProposedLogLineAct : Propose(c, a)) \/ Load(c)
    PROVE  AdmissionInv'
  <1> USE DEF AdmissionInv
  <1>1. ASSUME NEW a \in ProposedLogLineAct, Propose(c, a) PROVE AdmissionTypeOK' /\ CallsAreRuled'
    <2>1. AdmissionTypeOK'  BY <1>1 DEF Propose, Goto, AdmissionTypeOK
    <2>2. CallsAreRuled'  BY <1>1 DEF Propose, Goto, AdmissionTypeOK, CallsAreRuled
    <2> QED  BY <2>1, <2>2
  <1>2. ASSUME Load(c) PROVE AdmissionTypeOK' /\ CallsAreRuled'
    <2>1. act[c] \in ProposedLogLineAct  BY <1>2 DEF Load, CallsAreRuled
    <2>2. evaluate_admission(act[c], context) \in Ruling  BY <2>1, YesIsPermitted DEF AdmissionTypeOK
    <2>3. AdmissionTypeOK'  BY <1>2, <2>2 DEF Load, Goto, AdmissionTypeOK
    <2>4. CallsAreRuled'  BY <1>2, <2>1 DEF Load, Goto, AdmissionTypeOK, CallsAreRuled
    <2> QED  BY <2>3, <2>4
  <1>3. /\ UNCHANGED <<context, rulings, admitted_acts, receipt>>
        /\ \A d \in Caller : progress'[d] = "done" =>
              progress[d] = "done" /\ act'[d] = act[d] /\ ruling'[d] = ruling[d]
    BY DEF Propose, Load, Goto, AdmissionTypeOK
  <1>4. AdmittedIsPermitted' /\ AdmissionsAreRulings'
    BY <1>3 DEF AdmittedIsPermitted, AdmissionsAreRulings
  <1>5. ReceiptNamesItsRuling'  BY <1>3 DEF ReceiptNamesItsRuling
  <1> QED  BY <1>1, <1>2, <1>4, <1>5

(* What Append leaves and adds.                                           *)
LEMMA Appended ==
    ASSUME NEW T, NEW s \in Seq(T), NEW e \in T
    PROVE  LET t == Append(s, e)
           IN  /\ t \in Seq(T) /\ Len(s) \in Nat /\ Len(t) = Len(s) + 1
               /\ DOMAIN t = DOMAIN s \cup {Len(s) + 1} /\ DOMAIN s = 1..Len(s)
               /\ t[Len(s) + 1] = e /\ \A i \in DOMAIN s : t[i] = s[i]
  OBVIOUS

LEMMA CommitKeepsAdmissionInv ==
    ASSUME AdmissionInv, NEW c \in Caller, Commit(c)
    PROVE  AdmissionInv'
  <1> DEFINE row == [act |-> act[c], ruling |-> ruling[c]]
             yes == ruling[c].decision = "yes"
  <1>1. /\ act[c] \in ProposedLogLineAct /\ ruling[c] \in Ruling /\ ruling[c].decision \in Decision
        /\ ruling[c] = evaluate_admission(act[c], context)
        /\ progress[c] = "commit" /\ UNCHANGED <<context, act, ruling>>
    BY DEF AdmissionInv, AdmissionTypeOK, CallsAreRuled, Commit, Ruling
  <1>2. /\ rulings \in Seq([act : ProposedLogLineAct, ruling : Ruling])
        /\ row \in [act : ProposedLogLineAct, ruling : Ruling]
    BY <1>1 DEF AdmissionInv, AdmissionTypeOK
  <1>3. /\ rulings' = Append(rulings, row)
        /\ rulings' \in Seq([act : ProposedLogLineAct, ruling : Ruling])
        /\ Len(rulings) \in Nat /\ DOMAIN rulings = 1..Len(rulings)
        /\ DOMAIN rulings' = DOMAIN rulings \cup {Len(rulings) + 1}
        /\ rulings'[Len(rulings) + 1] = row /\ \A i \in DOMAIN rulings : rulings'[i] = rulings[i]
    BY <1>2, Appended DEF Commit
  <1>4. /\ Len(admitted_acts) \in Nat /\ DOMAIN admitted_acts = 1..Len(admitted_acts)
             /\ admitted_acts' \in Seq(ProposedLogLineAct)
        /\ \A i \in DOMAIN admitted_acts :
             i \in DOMAIN admitted_acts' /\ admitted_acts'[i] = admitted_acts[i]
        /\ ~yes => admitted_acts' = admitted_acts
        /\ yes => /\ Len(admitted_acts') = Len(admitted_acts) + 1
                  /\ DOMAIN admitted_acts' = DOMAIN admitted_acts \cup {Len(admitted_acts) + 1}
                  /\ admitted_acts'[Len(admitted_acts) + 1] = act[c]
    <2>1. admitted_acts \in Seq(ProposedLogLineAct)  BY DEF AdmissionInv, AdmissionTypeOK
    <2>2. CASE yes  BY <1>1, <2>1, <2>2, Appended DEF Commit
    <2>3. CASE ~yes  BY <2>1, <2>3 DEF Commit
    <2> QED  BY <2>2, <2>3
  <1>5. /\ progress' = [progress EXCEPT ![c] = "done"]
        /\ receipt' = [receipt EXCEPT ![c] = [decision |-> ruling[c].decision,
              ruling |-> Len(rulings) + 1, act |-> IF yes THEN Len(admitted_acts) + 1 ELSE 0]]
    BY DEF Commit, Goto
  <1>6. receipt'[c] = [decision |-> ruling[c].decision,
              ruling |-> Len(rulings) + 1, act |-> IF yes THEN Len(admitted_acts) + 1 ELSE 0]
    BY <1>5 DEF AdmissionInv, AdmissionTypeOK
  <1>7. \A d \in Caller \ {c} : progress'[d] = progress[d] /\ receipt'[d] = receipt[d]
    BY <1>5 DEF AdmissionInv, AdmissionTypeOK
  <1> HIDE DEF row
  <1>8. AdmissionTypeOK'
    <2>1. receipt'[c] \in Receipt  BY <1>1, <1>3, <1>4, <1>6 DEF Receipt
    <2>2. receipt' \in [Caller -> Receipt]  BY <1>5, <1>6, <2>1 DEF AdmissionInv, AdmissionTypeOK
    <2>3. progress' \in [Caller -> {"idle", "load", "commit", "refused", "done"}]
      BY <1>5 DEF AdmissionInv, AdmissionTypeOK
    <2> QED  BY <1>3, <1>4, <2>2, <2>3 DEF AdmissionInv, AdmissionTypeOK, Commit
  <1>9. CallsAreRuled'  BY <1>1, <1>7 DEF AdmissionInv, CallsAreRuled
  <1>10. AdmittedIsPermitted'
    <2>1. yes => Permitted(act[c], context)  BY <1>1, YesIsPermitted DEF AdmissionInv, AdmissionTypeOK
    <2>2. \A n \in DOMAIN admitted_acts' : Permitted(admitted_acts'[n], context)
      BY <1>4, <2>1 DEF AdmissionInv, AdmittedIsPermitted
    <2> QED  BY <1>1, <2>2 DEF AdmittedIsPermitted
  <1>11. ReceiptNamesItsRuling'
    <2> DEFINE Named(d) ==
            /\ receipt[d].ruling \in DOMAIN rulings
            /\ rulings[receipt[d].ruling] = [act |-> act[d], ruling |-> ruling[d]]
            /\ receipt[d].decision = ruling[d].decision
            /\ IF ruling[d].decision = "yes"
               THEN receipt[d].act \in DOMAIN admitted_acts /\ admitted_acts[receipt[d].act] = act[d]
               ELSE receipt[d].act = 0
    <2>1. \A d \in Caller : progress[d] = "done" => Named(d)
      BY DEF AdmissionInv, ReceiptNamesItsRuling
    <2>2. ASSUME NEW d \in Caller \ {c}, progress[d] = "done"
          PROVE  /\ Named(d)' /\ receipt'[d].ruling # receipt'[c].ruling
                 /\ receipt'[d].act = receipt'[c].act => receipt'[d].act = 0
      <3>1. Named(d) /\ receipt'[d] = receipt[d]  BY <1>7, <2>1, <2>2
      <3>2. Named(d)'  BY <1>1, <1>3, <1>4, <3>1
      <3>3. receipt[d].ruling # Len(rulings) + 1  BY <1>3, <3>1
      <3>4. receipt[d].act # 0 => receipt[d].act # Len(admitted_acts) + 1  BY <1>4, <3>1
      <3> QED  BY <1>6, <3>1, <3>2, <3>3, <3>4
    <2>3. Named(c)'  BY <1>1, <1>3, <1>4, <1>6 DEF row
    <2>4. \A d, e \in Caller : (progress[d] = "done" /\ progress[e] = "done" /\ d # e) =>
             /\ receipt[d].ruling # receipt[e].ruling
             /\ receipt[d].act = receipt[e].act => receipt[d].act = 0
      BY DEF AdmissionInv, ReceiptNamesItsRuling
    <2>5. \A d \in Caller : progress'[d] = "done" => Named(d)'
      BY <1>7, <2>2, <2>3
    <2>6. \A d, e \in Caller : (progress'[d] = "done" /\ progress'[e] = "done" /\ d # e) =>
             /\ receipt'[d].ruling # receipt'[e].ruling
             /\ receipt'[d].act = receipt'[e].act => receipt'[d].act = 0
      <3> HIDE DEF Named
      <3> QED  BY <1>7, <2>2, <2>4
    <2> QED  BY <2>5, <2>6 DEF ReceiptNamesItsRuling
  <1>12. AdmissionsAreRulings'
    <2> DEFINE Yes == {n \in DOMAIN rulings : rulings[n].ruling.decision = "yes"}
    <2>1. IsFiniteSet(Yes) /\ Len(rulings) + 1 \notin Yes
      <3>1. IsFiniteSet(DOMAIN rulings)  BY <1>3, FS_Interval
      <3>2. Yes \in SUBSET DOMAIN rulings  OBVIOUS
      <3>3. Len(rulings) + 1 \notin DOMAIN rulings  BY <1>3
      <3> HIDE DEF Yes
      <3> QED  BY <3>1, <3>2, <3>3, FS_Subset
    <2>2. Len(admitted_acts) = Cardinality(Yes)  BY DEF AdmissionInv, AdmissionsAreRulings
    <2>3. row.ruling.decision = "yes" <=> yes  BY DEF row
    <2>4. Yes' = IF yes THEN Yes \cup {Len(rulings) + 1} ELSE Yes  BY <1>3, <2>3
    <2>5. Len(admitted_acts') = IF yes THEN Len(admitted_acts) + 1 ELSE Len(admitted_acts)  BY <1>4
    <2>6. Len(admitted_acts') = Cardinality(Yes')
      <3> HIDE DEF Yes
      <3>1. Cardinality(Yes \cup {Len(rulings) + 1}) = Cardinality(Yes) + 1
        BY <2>1, FS_AddElement
      <3>2. CASE yes  BY <2>2, <2>4, <2>5, <3>1, <3>2
      <3>3. CASE ~yes  BY <2>2, <2>4, <2>5, <3>3
      <3> QED  BY <3>2, <3>3
    <2> QED  BY <2>6 DEF AdmissionsAreRulings
  <1> QED  BY <1>8, <1>9, <1>10, <1>11, <1>12 DEF AdmissionInv

LEMMA NextAdmissionInv == AdmissionInv /\ [AdmissionNext]_admissionVars => AdmissionInv'
  <1> SUFFICES ASSUME AdmissionInv, [AdmissionNext]_admissionVars PROVE AdmissionInv'
    OBVIOUS
  <1>1. CASE UNCHANGED admissionVars
    BY <1>1 DEF admissionVars, AdmissionInv, AdmissionTypeOK, CallsAreRuled, AdmittedIsPermitted,
       ReceiptNamesItsRuling, AdmissionsAreRulings
  <1>2. CASE AdmissionNext
    BY <1>2, PreparingKeepsAdmissionInv, CommitKeepsAdmissionInv DEF AdmissionNext
  <1> QED  BY <1>1, <1>2

THEOREM AdmissionInvariance == AdmissionSpec => []AdmissionInv
  <1> QED  BY InitAdmissionInv, NextAdmissionInv, PTL DEF AdmissionSpec

(* Every value of the variables is one the code can hold.                 *)
THEOREM AdmissionTypeCorrect == AdmissionSpec => []AdmissionTypeOK
  BY AdmissionInvariance, PTL DEF AdmissionInv

(* No act is admitted that the documents do not permit, with any number   *)
(* of documents in any order: admission.rs, evaluate_admission.           *)
THEOREM AdmissionIsPermission == AdmissionSpec => []AdmittedIsPermitted
  BY AdmissionInvariance, PTL DEF AdmissionInv

(* Any number of calls on one world are each told of their own ruling and *)
(* of their own admission: minilab-store admission.rs, commit.            *)
THEOREM ReceiptsAreTheirOwn == AdmissionSpec => []ReceiptNamesItsRuling
  BY AdmissionInvariance, PTL DEF AdmissionInv
=============================================================================
