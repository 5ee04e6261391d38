---------------------------- MODULE MCAdmission ----------------------------
(* Admission on small contexts: the values of its constants for TLC.       *)
EXTENDS Admission, TLC

CONSTANTS c1, c2, a1, a2, d1, d2

Callers2 == {c1, c2}
CallerSymmetry == Permutations(Caller)
Actors2 == {a1, a2}
Dids2 == {d1, d2}

(* Sequences of up to two members of S, and of up to one. *)
UpTo1(S) == {<<>>} \cup {<<x>> : x \in S}
UpTo2(S) == UpTo1(S) \cup {<<x, y>> : x, y \in S}

(* At instant 2: a visa that lets all do, one that forbids, one to come,   *)
(* one run out, an open one.                                              *)
FullVisa == [holder |-> a1, allowed |-> {d1}, forbidden |-> {}, from |-> 1, until |-> 2, closed |-> TRUE]
SomeVisas == {FullVisa, [FullVisa EXCEPT !.forbidden = {d1}], [FullVisa EXCEPT !.from = 3, !.until = 0],
              [FullVisa EXCEPT !.until = 1], [FullVisa EXCEPT !.closed = FALSE, !.allowed = {d1, d2}]}

FullGate == [dids |-> {d1}, failClosed |-> TRUE, named |-> TRUE, closed |-> TRUE]
SomeGates == {FullGate, [FullGate EXCEPT !.named = FALSE], [FullGate EXCEPT !.named = FALSE, !.failClosed = FALSE],
              [FullGate EXCEPT !.closed = FALSE]}

Holds == [semantic |-> FALSE, rule |-> "did_must_not_be", value |-> d2, closed |-> TRUE]
SomeBoundaries == {Holds, [Holds EXCEPT !.value = d1], [Holds EXCEPT !.value = "none"],
                   [Holds EXCEPT !.semantic = TRUE], [Holds EXCEPT !.semantic = TRUE, !.closed = FALSE],
                   [Holds EXCEPT !.rule = "only_holder_may_do", !.value = a1],
                   [Holds EXCEPT !.rule = "did_must_be_allowed_by_visa"],
                   [Holds EXCEPT !.rule = "unsupported"]}

SmallContexts ==
    [passports : UpTo1([subject : {a1}, closed : BOOLEAN]), visas : UpTo2(SomeVisas),
     gates : UpTo1(SomeGates), boundaries : UpTo2(SomeBoundaries), now : {0, 2}]

(* The contexts in which the documents suffice, with every list of        *)
(* boundaries, and those that lack something, with one of each.           *)
SmallInit ==
    /\ context \in SmallContexts
    /\ \/ context.passports = <<[subject |-> a1, closed |-> TRUE]>> /\ context.gates = <<FullGate>>
       \/ Len(context.boundaries) <= 1 /\ Len(context.visas) <= 1
    /\ AdmissionInit
SmallSpec == SmallInit /\ [][AdmissionNext]_admissionVars
=============================================================================
