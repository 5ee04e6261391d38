-------------------------- MODULE InstallReconcile --------------------------
(***************************************************************************)
(* The install.reconcile orchestrator, submit_install_reconcile of         *)
(* minilab-store/src/install_reconcile.rs, run concurrently over one       *)
(* ledger.  There is no installer behind it yet: to apply a step is to     *)
(* record it, so what is installed is what the step rows say.              *)
(***************************************************************************)
EXTENDS EvidenceLedger

CONSTANTS
    Installation,       \* installation ids
    Manifest,           \* the manifests in use; each stands for its hash
    Corr,               \* correlation ids
    Call,               \* calls of submit_install_reconcile
    ReconciledWindow    \* the limit of the query for prior closures (50 in the code)

ASSUME ManifestAssumption ==
    \A m \in Manifest :
        /\ m.valid \in BOOLEAN
        /\ m.services \in Seq([id : {m.services[k].id : k \in DOMAIN m.services},
                               version : {m.services[k].version : k \in DOMAIN m.services},
                               fails : BOOLEAN])
ASSUME ReconciledWindowAssumption == ReconciledWindow \in Nat \ {0}

VARIABLES
    ledger,     \* the evidence ledger
    pc,         \* the await each call is blocked in, or how it ended
    input,      \* what it was called with
    done,       \* the position in its manifest its loop over the steps has come to
    repeats,    \* for the properties: it repeats a call that had closed well
    fresh       \* for the properties: it is the first with its manifest, and alone

vars == <<ledger, pc, input, done, repeats, fresh>>

NoSnapshot == [absent |-> TRUE]
Input == [installation : Installation, desired : Manifest,
          applied : Manifest \cup {NoSnapshot}, corr : Corr]
NoInput == [absent |-> TRUE]

Waiting == {"lookup", "plan", "apply", "close", "fail"}
Ended == {"reconciled", "rerun", "failed", "contract_error", "lost"}

ServicesOf(m) == {m.services[k] : k \in DOMAIN m.services}
Applied(in) == IF in.applied = NoSnapshot THEN {} ELSE ServicesOf(in.applied)

(* The positions of the services that are not applied in exactly this      *)
(* form: the steps, those left behind position n, and the services of     *)
(* those up to it.                                                        *)
Divergent(in) == {k \in DOMAIN in.desired.services : in.desired.services[k] \notin Applied(in)}
Left(in, n) == {k \in Divergent(in) : k > n}
Reached(in, n) == {in.desired.services[k] : k \in Divergent(in) \ Left(in, n)}

IsFirst(k, S) == k \in S /\ \A j \in S : k <= j
NextPosition(in, n) == CHOOSE k \in Left(in, n) : IsFirst(k, Left(in, n))

-----------------------------------------------------------------------------
(* The rows.  steps are the steps of the plan, the step itself, or those  *)
(* a closing row counts as applied; the correlation is in no key.         *)
RowOf(a, key, steps) ==
    [kind |-> key[1], key |-> key, corr |-> input[a].corr, steps |-> steps, by |-> a]

PlannedKey(in) == <<"planned", in.installation, in.desired>>
StepKey(in, service) == <<"step.applied", in.installation, in.desired, service.id>>
ReconciledKey(in) == <<"reconciled", in.installation, in.desired>>
FailedKey(in, code) == <<"failed", in.installation, in.desired, code>>

Insert(a, key, steps) == ledger' = InsertLedgerRow(ledger, RowOf(a, key, steps))

Goto(a, next) ==
    /\ pc' = [pc EXCEPT ![a] = next]
    /\ UNCHANGED <<input, repeats, fresh>>

(* Seeded bug: only closures of the same correlation count. *)
PriorReconciledOfCorrelation(in) ==
    \E i \in Latest(ledger, "reconciled", ReconciledWindow) :
        ledger[i].key = ReconciledKey(in) /\ ledger[i].corr = in.corr

(* Seeded bug: the hash of the manifest is not compared. *)
PriorReconciledOfInstallation(in) ==
    \E i \in Latest(ledger, "reconciled", ReconciledWindow) : ledger[i].key[2] = in.installation

PriorReconciledExists(in) ==
    \E i \in Latest(ledger, "reconciled", ReconciledWindow) : ledger[i].key = ReconciledKey(in)

-----------------------------------------------------------------------------
(* For the properties, when a call begins: the same call closed well and  *)
(* the ledger shows no step of the installation since.                    *)
IsStepOf(i, in) == ledger[i].kind = "step.applied" /\ ledger[i].key[2] = in.installation
AlreadyReconciled(in) ==
    \E i \in DOMAIN ledger :
        /\ ledger[i].key = ReconciledKey(in) /\ input[ledger[i].by].applied = in.applied
        /\ \A j \in DOMAIN ledger : j > i => ~IsStepOf(j, in)

(* A service is installed when the last step of its name applied it.      *)
Installed(in, service) ==
    \E i \in DOMAIN ledger :
        /\ IsStepOf(i, in) /\ ledger[i].steps = {service}
        /\ \A j \in DOMAIN ledger : j > i /\ IsStepOf(j, in) => ledger[j].key[4] # service.id

(* No other call is at the installation, nothing was applied or closed    *)
(* for the manifest, and the snapshot, when there is one, is true.        *)
UnderWay(a, installation) == pc[a] \in Waiting /\ input[a].installation = installation
Undisturbed(in) ==
    /\ \A b \in Call : ~UnderWay(b, in.installation)
    /\ \A i \in DOMAIN ledger :
          ledger[i].kind \in {"step.applied", "reconciled"} =>
             <<ledger[i].key[2], ledger[i].key[3]>> # <<in.installation, in.desired>>
    /\ \A service \in Applied(in) : Installed(in, service)

-----------------------------------------------------------------------------
Init ==
    /\ ledger = <<>>
    /\ pc = [a \in Call |-> "idle"]
    /\ input = [a \in Call |-> NoInput]
    /\ done = [a \in Call |-> 0]
    /\ repeats = [a \in Call |-> FALSE]
    /\ fresh = [a \in Call |-> FALSE]

(* Seeded bug: the loop stops one step early. *)
NextStepOffByOne(a, n) ==
    IF Cardinality(Left(input[a], n)) <= 1 THEN "close"
    ELSE IF input[a].desired.services[NextPosition(input[a], n)].fails THEN "fail" ELSE "apply"

(* Where a call whose loop has come to position n waits next.             *)
NextStep(a, n) ==
    IF Left(input[a], n) = {} THEN "close"
    ELSE IF input[a].desired.services[NextPosition(input[a], n)].fails THEN "fail" ELSE "apply"

Submit(a, in) ==
    /\ pc[a] = "idle"
    /\ pc' = [pc EXCEPT ![a] = "lookup"]
    /\ input' = [input EXCEPT ![a] = in]
    /\ repeats' = [repeats EXCEPT ![a] = AlreadyReconciled(in)]
    /\ fresh' = [b \in Call |-> IF b = a THEN Undisturbed(in)
                                ELSE fresh[b] /\ ~UnderWay(b, in.installation)]
    /\ UNCHANGED <<ledger, done>>

(* The answer about prior closures comes first, the two manifests are     *)
(* looked at only without one; a bad snapshot is an error with no row.    *)
LookUp(a) ==
    /\ pc[a] = "lookup"
    /\ Goto(a, IF PriorReconciledExists(input[a]) THEN "rerun"
               ELSE IF ~input[a].desired.valid THEN "fail"
               ELSE IF input[a].applied # NoSnapshot /\ ~input[a].applied.valid
                    THEN "contract_error" ELSE "plan")
    /\ UNCHANGED <<ledger, done>>

RecordPlan(a) ==
    /\ pc[a] = "plan"
    /\ Insert(a, PlannedKey(input[a]), {input[a].desired.services[k] : k \in Divergent(input[a])})
    /\ Goto(a, NextStep(a, 0))
    /\ UNCHANGED done

ApplyStep(a) ==
    /\ pc[a] = "apply"
    /\ LET k == NextPosition(input[a], done[a])
           step == input[a].desired.services[k]
       IN  /\ Insert(a, StepKey(input[a], step), {step})
           /\ done' = [done EXCEPT ![a] = k]
           /\ Goto(a, NextStep(a, k))

(* The last insert; its answer may be lost. *)
Close(a) ==
    /\ pc[a] = "close"
    /\ Insert(a, ReconciledKey(input[a]), Reached(input[a], done[a]))
    /\ Goto(a, "reconciled") \/ Goto(a, "lost")
    /\ UNCHANGED done

Fail(a) ==
    /\ pc[a] = "fail"
    /\ IF input[a].desired.valid
       THEN Insert(a, FailedKey(input[a], "step_failed"), Reached(input[a], done[a]))
       ELSE Insert(a, FailedKey(input[a], "manifest_invalid"), {})
    /\ Goto(a, "failed") \/ Goto(a, "lost")
    /\ UNCHANGED done

(* The request of an await or the answer to it is lost, or the process    *)
(* dies: the rows already written stay.                                   *)
Lose(a) ==
    /\ pc[a] \in Waiting
    /\ Goto(a, "lost")
    /\ UNCHANGED <<ledger, done>>

Step(a) ==
    \/ \E in \in Input : Submit(a, in)
    \/ LookUp(a) \/ RecordPlan(a) \/ ApplyStep(a)
    \/ Close(a) \/ Fail(a) \/ Lose(a)

Next == \E a \in Call : Step(a)

Spec == Init /\ [][Next]_vars

-----------------------------------------------------------------------------
TypeOK ==
    /\ \A i \in DOMAIN ledger :
          /\ ledger[i].kind = ledger[i].key[1]
          /\ ledger[i].corr \in Corr /\ ledger[i].by \in Call
          /\ ledger[i].steps \subseteq ServicesOf(ledger[i].key[3])
    /\ pc \in [Call -> {"idle"} \cup Waiting \cup Ended]
    /\ input \in [Call -> Input \cup {NoInput}]
    /\ done \in [Call -> Nat]
    /\ repeats \in [Call -> BOOLEAN]
    /\ fresh \in [Call -> BOOLEAN]

(* Rows are backed by earlier rows, maybe of other calls, whichever calls  *)
(* race and wherever they are cut off.  Nothing is applied or closed as   *)
(* executed for a manifest that was not planned first.  A row that closes *)
(* a reconciliation, well or badly, has the row of every step it counts as *)
(* applied, and one that closes it well that of every service that        *)
(* diverged.  It needs manifests that name no service twice.              *)
ClosureIsBacked ==
    \A i \in DOMAIN ledger :
        LET in == input[ledger[i].by]
            applied(service) == \E j \in 1..(i - 1) : /\ ledger[j].key = StepKey(in, service)
                                                      /\ ledger[j].steps = {service}
        IN  /\ (\/ ledger[i].kind \in {"step.applied", "reconciled"}
                \/ ledger[i].kind = "failed" /\ ledger[i].key[4] = "step_failed")
                  => \E j \in 1..(i - 1) : ledger[j].key = PlannedKey(in)
            /\ ledger[i].kind \in {"reconciled", "failed"} =>
                  \A service \in ledger[i].steps : applied(service)
            /\ ledger[i].kind = "reconciled" =>
                  \A service \in ServicesOf(in.desired) \ Applied(in) : applied(service)

(* The retry of a call that closed well, whose answer may have been lost, *)
(* is answered from the closure, under whatever correlation it comes: it  *)
(* plans, applies and closes nothing a second time, and does not fail.    *)
(* It needs the query to reach the closure, see ReconciledWindow.         *)
RetryDrivesNothing ==
    \A a \in Call : repeats[a] => pc[a] \in {"lookup", "rerun", "lost"}

(* A manifest new to its installation, reconciled by a call that knew what *)
(* was installed and that no other call overlapped, is installed when the *)
(* call answers: what diverged was applied and what was skipped is there, *)
(* whatever earlier calls left half done.  Of a manifest that comes back  *)
(* after another one this is not true: its closure, or its step rows,     *)
(* answer for steps that were undone since.  It needs manifests that name *)
(* no service twice.                                                      *)
NewManifestIsInstalled ==
    [][\A a \in Call :
          fresh[a] /\ pc[a] \in Waiting /\ pc'[a] \in {"reconciled", "rerun"} =>
             \A service \in ServicesOf(input[a].desired) : Installed(input[a], service)']_vars
=============================================================================
