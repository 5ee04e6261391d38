---------------------------- MODULE PlanPromise ----------------------------
(***************************************************************************)
(* What the plan executor promises: each run works through the nodes in    *)
(* order, acts at most once for a node and only while it is at it, goes on *)
(* when the node succeeded, and stops for good when it did not.            *)
(***************************************************************************)
EXTENDS Naturals, Sequences

CONSTANT Run

VARIABLES
    acts,       \* the material acts, in the order they happened
    at,         \* the node each run is at
    stopped     \* the runs that stopped

vars == <<acts, at, stopped>>

Init == acts = <<>> /\ at = [r \in Run |-> 1] /\ stopped = {}

Act(r) ==
    /\ \A i \in DOMAIN acts : acts[i].run = r => acts[i].node < at[r]
    /\ acts' = Append(acts, [run |-> r, node |-> at[r]])
    /\ UNCHANGED <<at, stopped>>

Succeed(r) ==
    /\ at' = [at EXCEPT ![r] = @ + 1]
    /\ UNCHANGED <<acts, stopped>>

Stop(r) ==
    /\ stopped' = stopped \cup {r}
    /\ UNCHANGED <<acts, at>>

(* The last success and the stop may be one step: the next node is gated. *)
SucceedAndStop(r) ==
    /\ at' = [at EXCEPT ![r] = @ + 1]
    /\ stopped' = stopped \cup {r}
    /\ UNCHANGED acts

Next == \E r \in Run \ stopped : Act(r) \/ Succeed(r) \/ Stop(r) \/ SucceedAndStop(r)

Spec == Init /\ [][Next]_vars
=============================================================================
