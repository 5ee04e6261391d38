------------------------------ MODULE Admission ------------------------------
(***************************************************************************)
(* Constitutional admission of proposed acts: the pure evaluator of        *)
(* constitutional-runtime/src/admission.rs and the service of              *)
(* minilab-store/src/admission.rs that loads a context from a world,       *)
(* evaluates, and commits the ruling.  Calls share the world.              *)
(***************************************************************************)
EXTENDS Integers, Sequences, FiniteSets

CONSTANTS
    Caller,     \* the calls of admit
    Actor,      \* the actors acts name and documents are issued to
    Did,        \* what acts do
    Time        \* instants, in one notation; 0 is an absent one

ASSUME TimeAssumption == Time \subseteq Nat \ {0}
ASSUME NameAssumption == "none" \notin Actor \cup Did

VARIABLES
    context,        \* passports, visas, gates and boundaries, and the time
    world,          \* which adapter serves the calls
    progress,       \* where each call is
    act,            \* the act it proposes
    ruling,         \* the ruling it evaluated
    receipt,        \* what the world answered
    rulings,        \* the world's record of rulings, with the act each is about
    admitted_acts   \* the acts it admitted

admissionVars == <<context, world, progress, act, ruling, receipt, rulings, admitted_acts>>

(* complete: none of the nine slots is missing. *)
ProposedLogLineAct == [who : Actor, did : Did, complete : BOOLEAN]
Instant == Time \cup {0}
Passport == [subject : Actor, closed : BOOLEAN]
Visa == [holder : Actor, allowed : SUBSET Did, forbidden : SUBSET Did,
         from : Instant, until : Instant, closed : BOOLEAN]
(* named: its id is not blank.  A gate without a list of dids has them all. *)
Gate == [dids : SUBSET Did, failClosed : BOOLEAN, named : BOOLEAN, closed : BOOLEAN]
Rule == {"only_holder_may_do", "did_must_not_be", "did_must_be_allowed_by_visa", "unsupported"}
Boundary == [semantic : BOOLEAN, rule : Rule, value : Actor \cup Did \cup {"none"}, closed : BOOLEAN]
AdmissionContext == [passports : Seq(Passport), visas : Seq(Visa), gates : Seq(Gate),
            boundaries : Seq(Boundary), now : Instant]

Decision == {"yes", "no", "cloud"}
Ruling == [decision : Decision, checked : Nat, passed : Nat]
Receipt == [decision : Decision, ruling : Nat, act : Nat]
NoAct == [absent |-> TRUE]

-----------------------------------------------------------------------------
IsFirst(i, S) == i \in S /\ \A j \in S : i <= j

visa_time_valid(visa, now) ==
    now # 0 => /\ visa.from # 0 => now >= visa.from
               /\ visa.until # 0 => now <= visa.until

(* The documents that apply, by their place in the context: the first of  *)
(* each kind decides.                                                     *)
Passports(a, ctx) == {i \in DOMAIN ctx.passports :
    ctx.passports[i].subject = a.who /\ ctx.passports[i].closed}
(* Seeded bug: the first visa whose status is closed, valid now or not. *)
ClosedVisas(a, ctx) == {i \in DOMAIN ctx.visas :
    ctx.visas[i].holder = a.who /\ ctx.visas[i].closed}
Visas(a, ctx) == {i \in DOMAIN ctx.visas :
    /\ ctx.visas[i].holder = a.who /\ ctx.visas[i].closed
    /\ visa_time_valid(ctx.visas[i], ctx.now)}
Gates(a, ctx) == {i \in DOMAIN ctx.gates : ctx.gates[i].closed /\ a.did \in ctx.gates[i].dids}

Permits(visa, a) == a.did \notin visa.forbidden /\ a.did \in visa.allowed

(* A deterministic boundary without a value, or with a rule the evaluator *)
(* does not know, fails.                                                  *)
Passes(boundary, a, visa) ==
    CASE boundary.rule = "only_holder_may_do" -> boundary.value = a.who
      [] boundary.rule = "did_must_not_be" -> boundary.value \notin {a.did, "none"}
      [] boundary.rule = "did_must_be_allowed_by_visa" -> a.did \in visa.allowed
      [] OTHER -> FALSE

(* The closed boundaries, and those among them evaluation cannot pass.    *)
Closed(ctx) == {i \in DOMAIN ctx.boundaries : ctx.boundaries[i].closed}

Stopping(a, ctx, visa) ==
    {i \in Closed(ctx) : ctx.boundaries[i].semantic \/ ~Passes(ctx.boundaries[i], a, visa)}

Rule0(decision) == [decision |-> decision, checked |-> 0, passed |-> 0]

(* The boundaries are taken in order until one stops: a semantic one      *)
(* clouds the ruling, a deterministic one refuses.                        *)
RuleOnBoundaries(a, ctx, visa) ==
    IF Stopping(a, ctx, visa) = {}
    THEN [decision |-> "yes", checked |-> Cardinality(Closed(ctx)), passed |-> Cardinality(Closed(ctx))]
    ELSE LET s == CHOOSE i \in DOMAIN ctx.boundaries : IsFirst(i, Stopping(a, ctx, visa))
             before == Cardinality({i \in Closed(ctx) : i < s})
         IN  [decision |-> IF ctx.boundaries[s].semantic THEN "cloud" ELSE "no",
              checked |-> before + 1, passed |-> before]

evaluate_admission(a, ctx) ==
    IF ~a.complete \/ Passports(a, ctx) = {} \/ Visas(a, ctx) = {} THEN Rule0("no")
    ELSE LET visa == ctx.visas[CHOOSE i \in DOMAIN ctx.visas : IsFirst(i, Visas(a, ctx))]
         IN  IF ~Permits(visa, a) \/ Gates(a, ctx) = {} THEN Rule0("no")
             ELSE LET gate == ctx.gates[CHOOSE i \in DOMAIN ctx.gates : IsFirst(i, Gates(a, ctx))]
                  IN  IF gate.failClosed /\ ~gate.named THEN Rule0("no")
                      ELSE RuleOnBoundaries(a, ctx, visa)

-----------------------------------------------------------------------------
AdmissionInit ==
    /\ context \in AdmissionContext
    /\ world \in {"memory", "supabase"}
    /\ progress = [c \in Caller |-> "idle"]
    /\ act = [c \in Caller |-> NoAct]
    /\ ruling = [c \in Caller |-> Rule0("no")]
    /\ receipt = [c \in Caller |-> [decision |-> "no", ruling |-> 0, act |-> 0]]
    /\ rulings = <<>>
    /\ admitted_acts = <<>>

Goto(c, next) == progress' = [progress EXCEPT ![c] = next]

Propose(c, a) ==
    /\ progress[c] = "idle"
    /\ act' = [act EXCEPT ![c] = a]
    /\ Goto(c, "load")
    /\ UNCHANGED <<context, world, ruling, receipt, rulings, admitted_acts>>

(* The adapter for Supabase has no schema to load from and fails closed.  *)
Load(c) ==
    /\ progress[c] = "load"
    /\ IF world = "supabase"
       THEN Goto(c, "refused") /\ UNCHANGED ruling
       ELSE /\ ruling' = [ruling EXCEPT ![c] = evaluate_admission(act[c], context)]
            /\ Goto(c, "commit")
    /\ UNCHANGED <<context, world, act, receipt, rulings, admitted_acts>>

(* Seeded bug: the numbers of the receipt are those before the append. *)
CommitNumberedLate(c) ==
    /\ progress[c] = "commit"
    /\ rulings' = Append(rulings, [act |-> act[c], ruling |-> ruling[c]])
    /\ admitted_acts' = IF ruling[c].decision = "yes" THEN Append(admitted_acts, act[c]) ELSE admitted_acts
    /\ receipt' = [receipt EXCEPT ![c] = [decision |-> ruling[c].decision, ruling |-> Len(rulings),
                       act |-> IF ruling[c].decision = "yes" THEN Len(admitted_acts) ELSE 0]]
    /\ Goto(c, "done")
    /\ UNCHANGED <<context, world, act, ruling>>

(* Under the world's lock: the ruling, and the act when it is a yes.      *)
Commit(c) ==
    /\ progress[c] = "commit"
    /\ rulings' = Append(rulings, [act |-> act[c], ruling |-> ruling[c]])
    /\ admitted_acts' = IF ruling[c].decision = "yes" THEN Append(admitted_acts, act[c]) ELSE admitted_acts
    /\ receipt' = [receipt EXCEPT ![c] = [decision |-> ruling[c].decision, ruling |-> Len(rulings) + 1,
                       act |-> IF ruling[c].decision = "yes" THEN Len(admitted_acts) + 1 ELSE 0]]
    /\ Goto(c, "done")
    /\ UNCHANGED <<context, world, act, ruling>>

AdmissionNext == \E c \in Caller : (\E a \in ProposedLogLineAct : Propose(c, a)) \/ Load(c) \/ Commit(c)

AdmissionSpec == AdmissionInit /\ [][AdmissionNext]_admissionVars

-----------------------------------------------------------------------------
AdmissionTypeOK ==
    /\ context \in AdmissionContext
    /\ world \in {"memory", "supabase"}
    /\ progress \in [Caller -> {"idle", "load", "commit", "refused", "done"}]
    /\ act \in [Caller -> ProposedLogLineAct \cup {NoAct}]
    /\ ruling \in [Caller -> Ruling]
    /\ receipt \in [Caller -> Receipt]
    /\ rulings \in Seq([act : ProposedLogLineAct, ruling : Ruling])
    /\ admitted_acts \in Seq(ProposedLogLineAct)

(* Whatever the order of the documents, an admitted act has a closed       *)
(* passport, a closed visa in time that allows it and does not forbid it, *)
(* a closed gate, and no closed boundary that fails or asks for judgement, *)
(* be it the last.                                                        *)
Permitted(a, ctx) ==
    /\ a.complete
    /\ \E i \in DOMAIN ctx.passports : ctx.passports[i].closed /\ ctx.passports[i].subject = a.who
    /\ \E i \in DOMAIN ctx.gates : ctx.gates[i].closed /\ a.did \in ctx.gates[i].dids
    /\ \E i \in DOMAIN ctx.visas :
          LET visa == ctx.visas[i]
          IN  /\ visa.closed /\ visa.holder = a.who /\ visa_time_valid(visa, ctx.now)
              /\ a.did \in visa.allowed \ visa.forbidden
              /\ \A j \in DOMAIN ctx.boundaries :
                    ctx.boundaries[j].closed => /\ ~ctx.boundaries[j].semantic
                                                /\ Passes(ctx.boundaries[j], a, visa)

AdmittedIsPermitted == \A n \in DOMAIN admitted_acts : Permitted(admitted_acts[n], context)

(* Calls that share a world do not mix up what they are told: a receipt   *)
(* names the ruling of its own act and, for a yes, the admission of that  *)
(* act, and no two receipts name the same.                                *)
ReceiptNamesItsRuling ==
    /\ \A c \in Caller : progress[c] = "done" =>
          /\ receipt[c].ruling \in DOMAIN rulings
          /\ rulings[receipt[c].ruling] = [act |-> act[c], ruling |-> ruling[c]]
          /\ receipt[c].decision = ruling[c].decision
          /\ IF ruling[c].decision = "yes"
             THEN receipt[c].act \in DOMAIN admitted_acts /\ admitted_acts[receipt[c].act] = act[c]
             ELSE receipt[c].act = 0
    /\ \A c, d \in Caller : (progress[c] = "done" /\ progress[d] = "done" /\ c # d) =>
          /\ receipt[c].ruling # receipt[d].ruling
          /\ receipt[c].act = receipt[d].act => receipt[c].act = 0
=============================================================================
