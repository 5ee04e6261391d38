------------------------ MODULE MCInstallReconcile ------------------------
(* InstallReconcile with small manifests: the values of its constants for  *)
(* TLC.                                                                    *)
EXTENDS InstallReconcile, TLC

CONSTANTS i1, k1, k2, a1, a2

Installations1 == {i1}
Corrs2 == {k1, k2}
Calls2 == {a1, a2}

Service(id, version) == [id |-> id, version |-> version, fails |-> FALSE]
Of(services) == [valid |-> TRUE, services |-> services]

Api1 == Of(<<Service("api", 1)>>)
Api2 == Of(<<Service("api", 2)>>)
ApiAndWorker == Of(<<Service("api", 1), Service("worker", 1)>>)
FailingWorker == Of(<<Service("api", 1), [Service("worker", 1) EXCEPT !.fails = TRUE]>>)
Broken == [valid |-> FALSE, services |-> <<>>]

AllManifests == {Api1, Api2, ApiAndWorker, FailingWorker, Broken}

CallSymmetry == Permutations(Call)
=============================================================================
