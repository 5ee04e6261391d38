--------------------------- MODULE EvidenceLedger ---------------------------
(***************************************************************************)
(* The evidence_ledger table as every orchestrator of minilab-store sees   *)
(* it through PostgREST.  The table is a sequence of rows: readers order   *)
(* by created_at, so the order of arrival is part of the state.  A row     *)
(* has at least the fields                                                 *)
(*    kind   the evidence kind                                             *)
(*    key    the idempotency key, or NoKey                                 *)
(*    corr   the correlation id it is filed under                          *)
(* and each component adds the payload fields its properties distinguish.  *)
(* A key is the tuple of the values the code formats into the key string;  *)
(* its first element is the literal prefix, so two kinds never collide.    *)
(***************************************************************************)
EXTENDS Integers, Sequences, FiniteSets

(* The row was posted without an idempotency key. *)
NoKey == <<>>

HasKey(ledger, key) == \E i \in DOMAIN ledger : ledger[i].key = key

(* A post under a key the unique index already holds is answered 409,     *)
(* which the writer treats as success: nothing is inserted.               *)
InsertLedgerRow(ledger, row) ==
    IF row.key # NoKey /\ HasKey(ledger, row.key) THEN ledger
                                                  ELSE Append(ledger, row)

(* The positions a query "kind=eq.<kind>&order=created_at.desc&limit=<n>" *)
(* answers with.                                                          *)
Latest(ledger, kind, n) ==
    LET ofKind == {i \in DOMAIN ledger : ledger[i].kind = kind}
    IN  {i \in ofKind : Cardinality({j \in ofKind : j > i}) < n}

(* The rows of a kind, wherever they are in the table. *)
RowsOf(ledger, kind) ==
    {ledger[i] : i \in {j \in DOMAIN ledger : ledger[j].kind = kind}}

(* The table grows at the end and no row is ever rewritten. *)
IsExtension(ledger, later) ==
    /\ Len(ledger) <= Len(later)
    /\ \A i \in DOMAIN ledger : later[i] = ledger[i]
=============================================================================
