--------------------------- MODULE MCAccountGrowth ---------------------------
(* AccountGrowth on small tables: the values of its constants for TLC.     *)
EXTENDS AccountGrowth, TLC

CONSTANTS i1, i2, j1

Ingests2 == {i1, i2}
Jobs1 == {j1}

(* Two signals of one company, or of two. *)
TwoSignalsInit ==
    /\ Init
    /\ signal[i1] = [domain |-> "acme", segment |-> "saas", jobPost |-> TRUE]
    /\ signal[i2] \in {[domain |-> "acme", segment |-> "other", jobPost |-> FALSE],
                      [domain |-> "beta", segment |-> "saas", jobPost |-> FALSE]}
FairSmallSpec == TwoSignalsInit /\ [][Next]_vars /\ \A j \in Job : WF_vars(Work(j))
=============================================================================
