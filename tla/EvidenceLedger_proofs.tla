------------------------ MODULE EvidenceLedger_proofs ------------------------
(***************************************************************************)
(* What an insert into the evidence ledger does, for tables and rows of    *)
(* any type, and the last of the positions a query answers with: the facts *)
(* every orchestrator's proof rests on.                                    *)
(***************************************************************************)
EXTENDS EvidenceLedger, SequenceTheorems, WellFoundedInduction, TLAPS

(* An insert leaves every row where it is and adds at most the given one, *)
(* at the end.                                                            *)
LEMMA InsertExtends ==
    ASSUME NEW Rows, NEW L \in Seq(Rows), NEW row \in Rows
    PROVE  LET M == InsertLedgerRow(L, row)
           IN  /\ M \in Seq(Rows)
               /\ IsExtension(L, M)
               /\ \A i \in DOMAIN M : i \in DOMAIN L \/ (i = Len(L) + 1 /\ M[i] = row)
  <1> DEFINE M == InsertLedgerRow(L, row)
  <1>1. CASE row.key # NoKey /\ HasKey(L, row.key)
    <2>1. M = L  BY <1>1 DEF InsertLedgerRow
    <2> QED  BY <2>1 DEF IsExtension
  <1>2. CASE ~(row.key # NoKey /\ HasKey(L, row.key))
    <2>1. M = Append(L, row)  BY <1>2 DEF InsertLedgerRow
    <2>2. /\ M \in Seq(Rows) /\ Len(M) = Len(L) + 1
          /\ DOMAIN M = 1..(Len(L) + 1) /\ DOMAIN L = 1..Len(L)
          /\ \A i \in 1..Len(L) : M[i] = L[i]
          /\ M[Len(L) + 1] = row
      BY <2>1
    <2> QED  BY <2>2 DEF IsExtension
  <1> QED  BY <1>1, <1>2

(* An insert takes no key away, and the key of the row is there after it, *)
(* whether the row was added or answered by a conflict.                   *)
LEMMA InsertHasKeys ==
    ASSUME NEW Rows, NEW L \in Seq(Rows), NEW row \in Rows, row.key # NoKey
    PROVE  LET M == InsertLedgerRow(L, row)
           IN  /\ \A key : HasKey(L, key) => HasKey(M, key)
               /\ HasKey(M, row.key)
  <1> DEFINE M == InsertLedgerRow(L, row)
  <1>1. CASE HasKey(L, row.key)
    <2>1. M = L  BY <1>1 DEF InsertLedgerRow
    <2> QED  BY <1>1, <2>1
  <1>2. CASE ~HasKey(L, row.key)
    <2>1. M = Append(L, row)  BY <1>2 DEF InsertLedgerRow
    <2>2. M[Len(L) + 1] = row /\ Len(L) + 1 \in DOMAIN M  BY <2>1
    <2>3. \A i \in DOMAIN L : i \in DOMAIN M /\ M[i] = L[i]  BY <2>1
    <2> QED  BY <2>2, <2>3 DEF HasKey
  <1> QED  BY <1>1, <1>2

(* A key is its kind followed by the values it is made of.                *)
LEMMA TaggedKeys ==
    ASSUME NEW a, NEW b, NEW c
    PROVE  <<a>> \o <<b>> = <<a, b>> /\ <<a>> \o <<b, c>> = <<a, b, c>>
  <1> DEFINE S == {a, b, c}
  <1>1. <<a>> \in Seq(S) /\ <<b>> \in Seq(S) /\ <<b, c>> \in Seq(S)  OBVIOUS
  <1>2. <<a>> \o <<b>> = <<a, b>>
    <2>1. /\ <<a>> \o <<b>> \in Seq(S) /\ Len(<<a>> \o <<b>>) = 2
          /\ \A i \in 1..2 : (<<a>> \o <<b>>)[i] = IF i <= 1 THEN <<a>>[i] ELSE <<b>>[i - 1]
      BY <1>1, ConcatProperties
    <2>2. <<a, b>> \in Seq(S) /\ Len(<<a, b>>) = 2  OBVIOUS
    <2>3. \A i \in 1..2 : (<<a>> \o <<b>>)[i] = <<a, b>>[i]  BY <2>1
    <2> HIDE DEF S
    <2> QED  BY <2>1, <2>2, <2>3, SeqEqual
  <1>3. <<a>> \o <<b, c>> = <<a, b, c>>
    <2>1. /\ <<a>> \o <<b, c>> \in Seq(S) /\ Len(<<a>> \o <<b, c>>) = 3
          /\ \A i \in 1..3 : (<<a>> \o <<b, c>>)[i] = IF i <= 1 THEN <<a>>[i] ELSE <<b, c>>[i - 1]
      BY <1>1, ConcatProperties
    <2>2. <<a, b, c>> \in Seq(S) /\ Len(<<a, b, c>>) = 3  OBVIOUS
    <2>3. \A i \in 1..3 : (<<a>> \o <<b, c>>)[i] = <<a, b, c>>[i]  BY <2>1
    <2> HIDE DEF S
    <2> QED  BY <2>1, <2>2, <2>3, SeqEqual
  <1> QED  BY <1>2, <1>3

(* A set of positions that is not empty has a last one.                   *)
LEMMA LastExists ==
    ASSUME NEW n \in Nat, NEW S, S \subseteq 1..n, S # {}
    PROVE  LET i == CHOOSE k \in S : \A j \in S : j <= k IN i \in S /\ \A j \in S : j <= i
  <1> DEFINE R == OpToRel(<, Nat)
             T == {n - k : k \in S}
  <1>1. IsWellFoundedOn(R, Nat)  BY NatLessThanWellFounded
  <1> HIDE DEF R
  <1>2. T \subseteq Nat /\ T # {}
    <2>1. \A k \in S : k \in Nat /\ k <= n  OBVIOUS
    <2>2. \A k \in S : n - k \in Nat  BY <2>1
    <2> QED  BY <2>2
  <1>3. PICK t \in T : \A y \in T : ~(<<y, t>> \in R)  BY <1>1, <1>2, WFMin
  <1>4. PICK m \in S : t = n - m  BY <1>3
  <1>5. \A j \in S : j <= m
    <2> TAKE j \in S
    <2>1. ~(n - j < n - m)
      <3> SUFFICES ASSUME n - j < n - m PROVE <<n - j, t>> \in R
        BY <1>3
      <3> QED  BY <1>2, <1>4 DEF R, OpToRel
    <2> QED  BY <2>1
  <1> QED  BY <1>5
=============================================================================
