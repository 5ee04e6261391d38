---------------------- MODULE InstallReconcile_proofs ----------------------
(***************************************************************************)
(* Proofs about install.reconcile: for any number of calls that race and   *)
(* are cut off anywhere, over any manifests that name no service twice, a  *)
(* closure is backed by the rows it counts, and a new manifest is          *)
(* installed when its call answers; and while the closures fit the window  *)
(* of the query, a retry of what closed well drives nothing again.         *)
(***************************************************************************)
EXTENDS InstallReconcile, EvidenceLedger_proofs, FiniteSetTheorems

AllServices == UNION {ServicesOf(m) : m \in Manifest}
ServiceId == {service.id : service \in AllServices}
Kind == {"planned", "step.applied", "reconciled", "failed"}

Key ==
    ({"planned", "reconciled"} \X Installation \X Manifest)
        \cup ({"step.applied"} \X Installation \X Manifest \X ServiceId)
        \cup ({"failed"} \X Installation \X Manifest \X {"step_failed", "manifest_invalid"})

Row == [kind : Kind, key : Key, corr : Corr, steps : SUBSET AllServices, by : Call]

NoServiceTwice ==
    \A m \in Manifest : \A j, k \in DOMAIN m.services :
        m.services[j].id = m.services[k].id => j = k

Typed ==
    /\ pc \in [Call -> {"idle"} \cup Waiting \cup Ended]
    /\ input \in [Call -> Input \cup {NoInput}]
    /\ done \in [Call -> Nat]
    /\ repeats \in [Call -> BOOLEAN]
    /\ fresh \in [Call -> BOOLEAN]

(* A row names its call and what that call was asked for; a step row its  *)
(* service; and a call that closed well does nothing any more.            *)
RowInv(row) ==
    /\ row.kind = row.key[1] /\ pc[row.by] # "idle"
    /\ row.key[2] = input[row.by].installation /\ row.key[3] = input[row.by].desired
    /\ row.steps \subseteq ServicesOf(row.key[3])
    /\ row.kind = "step.applied" =>
          \E service \in ServicesOf(row.key[3]) : row.key[4] = service.id /\ row.steps = {service}
    /\ row.kind = "reconciled" => pc[row.by] \in {"reconciled", "lost"}

Posted(row) == \E i \in DOMAIN ledger : ledger[i] = row

(* The row of a step of a call; of two services of one name it may be the *)
(* other's.                                                               *)
HasStep(in, service) ==
    NoServiceTwice => \E j \in DOMAIN ledger : ledger[j].key = StepKey(in, service) /\ ledger[j].steps = {service}

(* What a call has done by the await it is blocked in.                    *)
CallInv(a) ==
    /\ pc[a] # "idle" => input[a] \in Input
    /\ pc[a] \in {"idle", "lookup", "plan"} => done[a] = 0
    /\ pc[a] \in {"plan", "apply", "close"} => input[a].desired.valid = TRUE
    /\ pc[a] \in {"apply", "close"} => HasKey(ledger, PlannedKey(input[a]))
    /\ pc[a] = "fail" /\ input[a].desired.valid => HasKey(ledger, PlannedKey(input[a]))
    /\ pc[a] = "apply" => Left(input[a], done[a]) # {}
    /\ pc[a] = "close" => Left(input[a], done[a]) = {}
    /\ pc[a] # "idle" => \A service \in Reached(input[a], done[a]) : HasStep(input[a], service)

OneClosure ==
    \A i, j \in DOMAIN ledger :
        (ledger[i].kind = "reconciled" /\ ledger[j].kind = "reconciled" /\ ledger[i].by = ledger[j].by) => i = j

(* What stands behind the row at a position must stand before it.          *)
StepBefore(in, service, i) ==
    NoServiceTwice => \E j \in 1..(i - 1) : ledger[j].key = StepKey(in, service) /\ ledger[j].steps = {service}

PlanBefore(in, i) == \E j \in 1..(i - 1) : ledger[j].key = PlannedKey(in)

Behind(row, in, i) ==
    /\ (row.kind \in {"step.applied", "reconciled"} \/ (row.kind = "failed" /\ row.key[4] = "step_failed"))
          => PlanBefore(in, i)
    /\ row.kind \in {"reconciled", "failed"} => \A service \in row.steps : StepBefore(in, service, i)
    /\ row.kind = "reconciled" =>
          \A service \in ServicesOf(in.desired) \ Applied(in) : StepBefore(in, service, i)

Backing(i) == Behind(ledger[i], input[ledger[i].by], i)

IInv ==
    /\ Typed
    /\ ledger \in Seq(Row)
    /\ \A row \in Row : Posted(row) => RowInv(row)
    /\ OneClosure
    /\ \A a \in Call : CallInv(a)
    /\ \A i \in DOMAIN ledger : Backing(i)

-----------------------------------------------------------------------------
(* A set of positions that is not empty has a first one.                  *)
LEMMA NextPositionIsFirst ==
    ASSUME NEW in \in Input, NEW n \in Nat, Left(in, n) # {}
    PROVE  /\ NextPosition(in, n) \in Left(in, n)
           /\ \A k \in Left(in, n) : NextPosition(in, n) <= k
  <1>1. in.desired \in Manifest  BY DEF Input
  <1>2. PICK Service : in.desired.services \in Seq(Service)  BY <1>1, ManifestAssumption
  <1>3. DOMAIN in.desired.services = 1..Len(in.desired.services) /\ Len(in.desired.services) \in Nat
    BY <1>2
  <1>4. Left(in, n) \in SUBSET Nat  BY <1>3 DEF Left, Divergent
  <1> DEFINE R == OpToRel(<, Nat)
  <1>5. IsWellFoundedOn(R, Nat)  BY NatLessThanWellFounded
  <1> HIDE DEF R
  <1>6. PICK s \in Left(in, n) : \A t \in Left(in, n) : ~(<<t, s>> \in R)  BY <1>4, <1>5, WFMin
  <1>7. IsFirst(s, Left(in, n))
    <2>1. \A t \in Left(in, n) : s <= t
      <3> TAKE t \in Left(in, n)
      <3>1. ~(t < s)  BY <1>4, <1>6 DEF R, OpToRel
      <3> QED  BY <1>4, <3>1
    <2> QED  BY <2>1 DEF IsFirst
  <1>8. \E k \in Left(in, n) : IsFirst(k, Left(in, n))  BY <1>7
  <1>9. NextPosition(in, n) \in Left(in, n) /\ IsFirst(NextPosition(in, n), Left(in, n))
    BY <1>8 DEF NextPosition
  <1> QED  BY <1>9 DEF IsFirst

(* The first step behind a position is the only one its call reaches next. *)
LEMMA ReachedGrows ==
    ASSUME NEW in \in Input, NEW n \in Nat, Left(in, n) # {}
    PROVE  LET k == NextPosition(in, n)
           IN  /\ k \in DOMAIN in.desired.services /\ k \in Nat
               /\ in.desired.services[k] \in ServicesOf(in.desired)
               /\ Reached(in, k) \subseteq Reached(in, n) \cup {in.desired.services[k]}
  <1> DEFINE k == NextPosition(in, n)
  <1>1. k \in Left(in, n) /\ \A j \in Left(in, n) : k <= j  BY NextPositionIsFirst
  <1>2. in.desired \in Manifest  BY DEF Input
  <1>3. PICK Service : in.desired.services \in Seq(Service)  BY <1>2, ManifestAssumption
  <1>4. DOMAIN in.desired.services = 1..Len(in.desired.services) /\ Len(in.desired.services) \in Nat
    BY <1>3
  <1>5. Divergent(in) \subseteq DOMAIN in.desired.services /\ Divergent(in) \subseteq Nat
    BY <1>4 DEF Divergent
  <1>6. k \in Divergent(in)  BY <1>1 DEF Left
  <1> HIDE DEF k
  <1>7. ASSUME NEW j \in Divergent(in) \ Left(in, k) PROVE j \in (Divergent(in) \ Left(in, n)) \cup {k}
    <2>1. j \in Nat /\ k \in Nat /\ j <= k  BY <1>5, <1>6, <1>7 DEF Left
    <2>2. j \in Left(in, n) => k <= j  BY <1>1
    <2> QED  BY <1>7, <2>1, <2>2
  <1>8. in.desired.services[k] \in ServicesOf(in.desired)  BY <1>5, <1>6 DEF ServicesOf
  <1>9. Reached(in, k) \subseteq Reached(in, n) \cup {in.desired.services[k]}
    BY <1>7 DEF Reached
  <1> QED  BY <1>5, <1>6, <1>8, <1>9 DEF k

LEMMA NothingReached ==
    ASSUME NEW in \in Input PROVE Reached(in, 0) = {}
  <1>1. in.desired \in Manifest  BY DEF Input
  <1>2. PICK Service : in.desired.services \in Seq(Service)  BY <1>1, ManifestAssumption
  <1>3. DOMAIN in.desired.services = 1..Len(in.desired.services) /\ Len(in.desired.services) \in Nat
    BY <1>2
  <1>4. \A k \in Divergent(in) : k > 0  BY <1>3 DEF Divergent
  <1>5. Divergent(in) \ Left(in, 0) = {}  BY <1>4 DEF Left
  <1> QED  BY <1>5 DEF Reached

(* Behind the last step everything that diverged is reached.              *)
LEMMA EverythingReached ==
    ASSUME NEW in \in Input, NEW n \in Nat, Left(in, n) = {}
    PROVE  ServicesOf(in.desired) \ Applied(in) \subseteq Reached(in, n)
  BY DEF ServicesOf, Divergent, Reached

LEMMA ReachedIsDesired ==
    ASSUME NEW in \in Input, NEW n \in Nat
    PROVE  Reached(in, n) \subseteq ServicesOf(in.desired) /\ ServicesOf(in.desired) \subseteq AllServices
  <1>1. in.desired \in Manifest  BY DEF Input
  <1>2. Reached(in, n) \subseteq ServicesOf(in.desired)  BY DEF Reached, Divergent, ServicesOf
  <1> QED  BY <1>1, <1>2 DEF AllServices

-----------------------------------------------------------------------------
(* A call moves on from an await; what a step leaves behind.              *)
Idles(x) == pc'[x] = pc[x] /\ done'[x] = done[x]

Acts(a) ==
    /\ pc[a] \in Waiting /\ pc'[a] \in Waiting \cup Ended
    /\ input' = input /\ repeats' = repeats /\ fresh' = fresh
    /\ \A x \in Call \ {a} : Idles(x)
    /\ Typed'

Kept ==
    /\ \A i \in DOMAIN ledger : i \in DOMAIN ledger' /\ ledger'[i] = ledger[i]
    /\ \A key : HasKey(ledger, key) => HasKey(ledger', key)

LEMMA StepsStay ==
    ASSUME Kept, input' = input, NEW a, NEW service, HasStep(input[a], service)
    PROVE  HasStep(input[a], service)'
  BY DEF Kept, HasStep, StepKey

LEMMA CallKeeps ==
    ASSUME Kept, input' = input, NEW x \in Call, CallInv(x), Idles(x)
    PROVE  CallInv(x)'
  <1>1. PlannedKey(input[x])' = PlannedKey(input[x])  BY DEF PlannedKey
  <1>2. /\ Left(input[x], done[x])' = Left(input[x], done[x])
        /\ Reached(input[x], done[x])' = Reached(input[x], done[x])
    BY DEF Idles, Left, Reached, Divergent, Applied, ServicesOf
  <1>3. \A service : HasStep(input[x], service) => HasStep(input[x], service)'  BY StepsStay
  <1> QED  BY <1>1, <1>2, <1>3 DEF CallInv, Idles, Kept

LEMMA RowKeeps ==
    ASSUME NEW a \in Call, Acts(a), NEW row \in Row, RowInv(row)
    PROVE  RowInv(row)'
  <1>1. row.by \in Call /\ pc[row.by] # "idle"  BY DEF Row, RowInv
  <1>2. pc'[row.by] # "idle"
    BY <1>1 DEF Acts, Idles, Waiting, Ended
  <1>3. pc[row.by] \in {"reconciled", "lost"} => pc'[row.by] = pc[row.by]
    BY <1>1 DEF Acts, Idles, Waiting
  <1> QED  BY <1>2, <1>3 DEF RowInv, Acts

LEMMA BackingIsAll ==
    ASSUME NoServiceTwice, \A i \in DOMAIN ledger : Backing(i)
    PROVE  ClosureIsBacked
  BY DEF ClosureIsBacked, Backing, Behind, StepBefore, PlanBefore

LEMMA BackingStays ==
    ASSUME IInv, Kept, input' = input, NEW i \in DOMAIN ledger
    PROVE  Backing(i)'
  <1>1. Backing(i)  BY DEF IInv
  <1>2. DOMAIN ledger = 1..Len(ledger) /\ Len(ledger) \in Nat  BY DEF IInv
  <1>3. 1..(i - 1) \subseteq DOMAIN ledger  BY <1>2
  <1>4. \A j \in 1..(i - 1) : ledger'[j] = ledger[j]  BY <1>3 DEF Kept
  <1>5. ledger'[i] = ledger[i]  BY DEF Kept
  <1>6. PICK row : row = ledger[i]  OBVIOUS
  <1>7. PICK in : in = input[row.by]  OBVIOUS
  <1>8. \A service : StepBefore(in, service, i) => StepBefore(in, service, i)'  BY <1>4 DEF StepBefore
  <1>9. PlanBefore(in, i) => PlanBefore(in, i)'  BY <1>4 DEF PlanBefore
  <1>10. ledger'[i] = row /\ input'[row.by] = in  BY <1>5, <1>6, <1>7
  <1>11. Behind(row, in, i)  BY <1>1, <1>6, <1>7 DEF Backing
  <1>12. Behind(row, in, i)'  BY <1>8, <1>9, <1>11 DEF Behind
  <1> QED  BY <1>10, <1>12 DEF Backing

(* It is enough to look at the call that makes a step.                    *)
LEMMA QuietStep ==
    ASSUME IInv, NEW a \in Call, Acts(a), ledger' = ledger, CallInv(a)'
    PROVE  IInv'
  <1>1. Kept  BY DEF Kept
  <1>2. Typed' /\ ledger' \in Seq(Row)  BY DEF IInv, Acts
  <1>3. \A row \in Row : Posted(row)' => RowInv(row)'
    BY RowKeeps DEF IInv, Posted
  <1>4. OneClosure'  BY DEF IInv, OneClosure
  <1>5. \A x \in Call : CallInv(x)'
    <2> TAKE x \in Call
    <2>1. CASE x = a  BY <2>1
    <2>2. CASE x # a  BY <1>1, <2>2, CallKeeps DEF Acts, IInv
    <2> QED  BY <2>1, <2>2
  <1>6. \A i \in DOMAIN ledger' : Backing(i)'  BY <1>1, BackingStays DEF Acts
  <1> QED  BY <1>2, <1>3, <1>4, <1>5, <1>6 DEF IInv

LEMMA KeysAreNotEmpty == \A key \in Key : key # NoKey /\ key[1] \in Kind
  <1>1. \A a, b, c : <<a, b, c>> # NoKey /\ <<a, b, c>>[1] = a  BY DEF NoKey
  <1>2. \A a, b, c, d : <<a, b, c, d>> # NoKey /\ <<a, b, c, d>>[1] = a  BY DEF NoKey
  <1>3. ASSUME NEW key \in {"planned", "reconciled"} \X Installation \X Manifest
        PROVE  key # NoKey /\ key[1] \in Kind
    <2>1. key[1] \in Kind /\ key = <<key[1], key[2], key[3]>>  BY <1>3 DEF Kind
    <2> QED  BY <1>1, <2>1
  <1>4. ASSUME NEW key \in {"step.applied"} \X Installation \X Manifest \X ServiceId
        PROVE  key # NoKey /\ key[1] \in Kind
    <2>1. key[1] \in Kind /\ key = <<key[1], key[2], key[3], key[4]>>  BY <1>4 DEF Kind
    <2> QED  BY <1>2, <2>1
  <1>5. ASSUME NEW key \in {"failed"} \X Installation \X Manifest \X {"step_failed", "manifest_invalid"}
        PROVE  key # NoKey /\ key[1] \in Kind
    <2>1. key[1] \in Kind /\ key = <<key[1], key[2], key[3], key[4]>>  BY <1>5 DEF Kind
    <2> QED  BY <1>2, <2>1
  <1> QED  BY <1>3, <1>4, <1>5 DEF Key

(* An insert takes no row and no key away.                                *)
LEMMA InsertKeeps ==
    ASSUME IInv, NEW row \in Row, ledger' = InsertLedgerRow(ledger, row)
    PROVE  /\ Kept /\ HasKey(ledger', row.key)
           /\ ledger' \in Seq(Row)
           /\ DOMAIN ledger = 1..Len(ledger) /\ Len(ledger) \in Nat
           /\ \A i \in DOMAIN ledger' : i \in DOMAIN ledger \/ (i = Len(ledger) + 1 /\ ledger'[i] = row)
  <1>1. ledger \in Seq(Row)  BY DEF IInv
  <1>2. row.key # NoKey  BY KeysAreNotEmpty DEF Row
  <1>3. /\ ledger' \in Seq(Row) /\ IsExtension(ledger, ledger')
        /\ \A i \in DOMAIN ledger' : i \in DOMAIN ledger \/ (i = Len(ledger) + 1 /\ ledger'[i] = row)
    BY <1>1, InsertExtends
  <1>4. DOMAIN ledger = 1..Len(ledger) /\ DOMAIN ledger' = 1..Len(ledger')
        /\ Len(ledger) \in Nat /\ Len(ledger') \in Nat
    BY <1>1, <1>3
  <1>5. /\ \A key : HasKey(ledger, key) => HasKey(ledger', key)
        /\ HasKey(ledger', row.key)
    BY <1>1, <1>2, InsertHasKeys
  <1>6. \A i \in DOMAIN ledger : i \in DOMAIN ledger' /\ ledger'[i] = ledger[i]
    BY <1>3, <1>4 DEF IsExtension
  <1> QED  BY <1>3, <1>4, <1>5, <1>6 DEF Kept

(* What a row counts as done must have its rows when it is posted.        *)
MayPost(a, key, steps) ==
    /\ key[2] = input[a].installation /\ key[3] = input[a].desired
    /\ steps \subseteq ServicesOf(key[3])
    /\ key[1] = "step.applied" =>
          \E service \in ServicesOf(key[3]) : key[4] = service.id /\ steps = {service}
    /\ key[1] = "reconciled" => pc[a] = "close" /\ pc'[a] \in {"reconciled", "lost"}
    /\ (key[1] \in {"step.applied", "reconciled"} \/ (key[1] = "failed" /\ key[4] = "step_failed"))
          => HasKey(ledger, PlannedKey(input[a]))
    /\ key[1] \in {"reconciled", "failed"} => \A service \in steps : HasStep(input[a], service)
    /\ key[1] = "reconciled" =>
          \A service \in ServicesOf(input[a].desired) \ Applied(input[a]) : HasStep(input[a], service)

RowsSay == \A row \in Row : Posted(row)' => RowInv(row)'

LEMMA NewRow ==
    ASSUME IInv, NEW a \in Call, Acts(a), NEW key \in Key, NEW steps \in SUBSET AllServices,
           Insert(a, key, steps), MayPost(a, key, steps)
    PROVE  \E row \in Row :
              /\ row.kind = key[1] /\ row.key = key /\ row.by = a /\ row.steps = steps
              /\ ledger' = InsertLedgerRow(ledger, row) /\ RowInv(row)'
  <1>1. PICK row : row = RowOf(a, key, steps)  OBVIOUS
  <1>2. input[a] \in Input  BY DEF IInv, CallInv, Acts, Waiting
  <1>3. /\ row.kind = key[1] /\ row.key = key /\ row.by = a /\ row.steps = steps /\ row.corr = input[a].corr
        /\ row = [kind |-> key[1], key |-> key, corr |-> input[a].corr, steps |-> steps, by |-> a]
    BY <1>1 DEF RowOf
  <1>4. key[1] \in Kind  BY KeysAreNotEmpty
  <1>5. row \in Row  BY <1>2, <1>3, <1>4 DEF Row, Input
  <1>6. pc'[a] # "idle" /\ input' = input  BY DEF Acts, Waiting, Ended
  <1>7. RowInv(row)'  BY <1>3, <1>6 DEF RowInv, MayPost
  <1> QED  BY <1>1, <1>3, <1>5, <1>7 DEF Insert

(* A row is posted.                                                       *)
LEMMA InsertStep ==
    ASSUME IInv, NEW a \in Call, Acts(a), NEW key \in Key, NEW steps \in SUBSET AllServices,
           Insert(a, key, steps), MayPost(a, key, steps),
           HasKey(ledger', key) /\ Kept /\ RowsSay /\ ledger' \in Seq(Row) => CallInv(a)'
    PROVE  IInv'
  <1>1. PICK row \in Row : /\ row.kind = key[1] /\ row.key = key /\ row.by = a /\ row.steps = steps
                           /\ ledger' = InsertLedgerRow(ledger, row) /\ RowInv(row)'
    BY NewRow
  <1>2. /\ Kept /\ HasKey(ledger', key)
        /\ ledger' \in Seq(Row)
        /\ DOMAIN ledger = 1..Len(ledger) /\ Len(ledger) \in Nat
        /\ \A i \in DOMAIN ledger' : i \in DOMAIN ledger \/ (i = Len(ledger) + 1 /\ ledger'[i] = row)
    BY <1>1, InsertKeeps
  <1>3. RowsSay
    <2> SUFFICES ASSUME NEW old \in Row, Posted(old)' PROVE RowInv(old)'
      BY DEF RowsSay
    <2>1. Posted(old) \/ old = row  BY <1>2 DEF Posted, Kept
    <2>2. CASE Posted(old)  BY <2>2, RowKeeps DEF IInv
    <2> QED  BY <1>1, <2>1, <2>2
  <1>4. OneClosure'
    <2> SUFFICES ASSUME NEW i \in DOMAIN ledger', NEW j \in DOMAIN ledger',
                        ledger'[i].kind = "reconciled", ledger'[j].kind = "reconciled",
                        ledger'[i].by = ledger'[j].by
                 PROVE  i = j
      BY DEF OneClosure
    <2>1. ASSUME NEW k \in DOMAIN ledger, ledger[k].kind = "reconciled"
          PROVE  pc[ledger[k].by] \in {"reconciled", "lost"}
      <3>1. ledger[k] \in Row /\ Posted(ledger[k])  BY DEF IInv, Posted
      <3> QED  BY <2>1, <3>1 DEF IInv, RowInv
    <2>2. row.kind = "reconciled" => pc[a] = "close"  BY <1>1 DEF MayPost
    <2>3. \A k \in DOMAIN ledger : ledger'[k] = ledger[k]  BY <1>2 DEF Kept
    <2>4. CASE i \in DOMAIN ledger /\ j \in DOMAIN ledger  BY <2>3, <2>4 DEF IInv, OneClosure
    <2>5. CASE i \in DOMAIN ledger /\ j \notin DOMAIN ledger  BY <1>1, <1>2, <2>1, <2>2, <2>3, <2>5
    <2>6. CASE i \notin DOMAIN ledger /\ j \in DOMAIN ledger  BY <1>1, <1>2, <2>1, <2>2, <2>3, <2>6
    <2>7. CASE i \notin DOMAIN ledger /\ j \notin DOMAIN ledger  BY <1>2, <2>7
    <2> QED  BY <2>4, <2>5, <2>6, <2>7
  <1>5. \A x \in Call : CallInv(x)'
    <2> TAKE x \in Call
    <2>1. CASE x = a  BY <1>2, <1>3, <2>1
    <2>2. CASE x # a  BY <1>2, <2>2, CallKeeps DEF Acts, IInv
    <2> QED  BY <2>1, <2>2
  <1>6. \A i \in DOMAIN ledger' : Backing(i)'
    <2> SUFFICES ASSUME NEW i \in DOMAIN ledger' PROVE Backing(i)'
      OBVIOUS
    <2>1. CASE i \in DOMAIN ledger  BY <1>2, <2>1, BackingStays DEF Acts
    <2>2. CASE i = Len(ledger) + 1 /\ ledger'[i] = row
      <3>1. \A j \in DOMAIN ledger : j \in 1..(i - 1) /\ ledger'[j] = ledger[j]
        <4>1. i = Len(ledger) + 1 /\ Len(ledger) \in Nat /\ DOMAIN ledger = 1..Len(ledger)
          BY <1>2, <2>2
        <4> QED  BY <1>2, <4>1 DEF Kept
      <3>2. input'[row.by] = input[a]  BY <1>1 DEF Acts
      <3>3. PICK in : in = input[a]  OBVIOUS
      <3>4. \A service : HasStep(in, service) => StepBefore(in, service, i)'
        BY <3>1 DEF HasStep, StepBefore
      <3>5. HasKey(ledger, PlannedKey(in)) => PlanBefore(in, i)'
        BY <3>1 DEF HasKey, PlanBefore
      <3>6. MayPost(a, key, steps)  OBVIOUS
      <3>7. Behind(row, in, i)'  BY <1>1, <3>3, <3>4, <3>5, <3>6 DEF Behind, MayPost
      <3>8. ledger'[i] = row /\ input'[row.by] = in  BY <2>2, <3>2, <3>3
      <3> QED  BY <3>7, <3>8 DEF Backing
    <2> QED  BY <1>2, <2>1, <2>2
  <1>7. Typed'  BY DEF Acts
  <1> QED  BY <1>2, <1>3, <1>4, <1>5, <1>6, <1>7 DEF IInv, RowsSay

-----------------------------------------------------------------------------
(* A call leaves an await.                                                *)
LEMMA GotoActs ==
    ASSUME IInv, NEW a \in Call, NEW next \in Waiting \cup Ended, pc[a] \in Waiting, Goto(a, next),
           NEW n \in Nat, done' = [done EXCEPT ![a] = n]
    PROVE  /\ Acts(a) /\ pc'[a] = next /\ done'[a] = n
           /\ input[a] \in Input /\ input'[a] = input[a]
  <1>1. pc \in [Call -> {"idle"} \cup Waiting \cup Ended] /\ done \in [Call -> Nat]  BY DEF IInv, Typed
  <1>2. /\ pc' \in [Call -> {"idle"} \cup Waiting \cup Ended] /\ pc'[a] = next
        /\ \A x \in Call \ {a} : pc'[x] = pc[x]
    BY <1>1 DEF Goto
  <1>3. input' = input /\ repeats' = repeats /\ fresh' = fresh  BY DEF Goto
  <1>4. done' \in [Call -> Nat] /\ done'[a] = n /\ \A x \in Call \ {a} : done'[x] = done[x]
    BY <1>1
  <1>5. Typed'  BY <1>2, <1>3, <1>4 DEF IInv, Typed
  <1>6. input[a] \in Input  BY DEF IInv, CallInv, Waiting
  <1> QED  BY <1>2, <1>3, <1>4, <1>5, <1>6 DEF Acts, Idles

LEMMA DoneStays ==
    ASSUME IInv, NEW a \in Call, UNCHANGED done
    PROVE  done[a] \in Nat /\ done' = [done EXCEPT ![a] = done[a]]
  BY DEF IInv, Typed

LEMMA KeysAreTyped ==
    ASSUME NEW in \in Input
    PROVE  /\ PlannedKey(in) \in Key /\ ReconciledKey(in) \in Key
           /\ FailedKey(in, "step_failed") \in Key /\ FailedKey(in, "manifest_invalid") \in Key
           /\ \A service \in ServicesOf(in.desired) : StepKey(in, service) \in Key
  <1>1. in.installation \in Installation /\ in.desired \in Manifest  BY DEF Input
  <1>2. \A service \in ServicesOf(in.desired) : service.id \in ServiceId
    BY <1>1 DEF ServiceId, AllServices
  <1> QED  BY <1>1, <1>2 DEF PlannedKey, ReconciledKey, FailedKey, StepKey, Key

LEMMA LookUpKeepsIInv == ASSUME IInv, NEW a \in Call, LookUp(a) PROVE IInv'
  <1>1. pc[a] = "lookup" /\ pc[a] \in Waiting /\ ledger' = ledger  BY DEF LookUp, Waiting
  <1>2. PICK next \in {"rerun", "fail", "contract_error", "plan"} :
          /\ Goto(a, next)
          /\ next = "plan" => input[a].desired.valid
          /\ next = "fail" => ~input[a].desired.valid
    BY DEF LookUp
  <1>3. next \in Waiting \cup Ended  BY DEF Waiting, Ended
  <1>4. done[a] = 0 /\ 0 \in Nat /\ done' = [done EXCEPT ![a] = 0]
    BY <1>1, DoneStays DEF IInv, CallInv, LookUp
  <1>5. Acts(a) /\ pc'[a] = next /\ done'[a] = 0 /\ input[a] \in Input /\ input'[a] = input[a]
    BY <1>1, <1>2, <1>3, <1>4, GotoActs
  <1>6. Reached(input[a], 0) = {}  BY <1>5, NothingReached
  <1>7. input[a].desired.valid \in BOOLEAN  BY <1>5, ManifestAssumption DEF Input
  <1>8. CallInv(a)'  BY <1>2, <1>5, <1>6, <1>7 DEF CallInv
  <1> QED  BY <1>1, <1>5, <1>8, QuietStep

LEMMA LoseKeepsIInv == ASSUME IInv, NEW a \in Call, Lose(a) PROVE IInv'
  <1>1. pc[a] \in Waiting /\ Goto(a, "lost") /\ ledger' = ledger /\ "lost" \in Waiting \cup Ended
    BY DEF Lose, Ended
  <1>2. done[a] \in Nat /\ done' = [done EXCEPT ![a] = done[a]]  BY DoneStays DEF Lose
  <1>3. /\ Acts(a) /\ pc'[a] = "lost" /\ done'[a] = done[a]
        /\ input[a] \in Input /\ input'[a] = input[a]
    BY <1>1, <1>2, GotoActs
  <1>4. Kept  BY <1>1 DEF Kept
  <1>5. \A service \in Reached(input[a], done[a]) : HasStep(input[a], service)'
    <2>1. \A service \in Reached(input[a], done[a]) : HasStep(input[a], service)
      BY <1>1 DEF IInv, CallInv, Waiting
    <2> QED  BY <1>4, <2>1, StepsStay, <1>3 DEF Acts
  <1>6. CallInv(a)'  BY <1>3, <1>5 DEF CallInv
  <1> QED  BY <1>1, <1>3, <1>6, QuietStep

(* Where the loop waits next says what is left of it.                     *)
LEMMA NextStepSays ==
    ASSUME NEW a \in Call, NEW n \in Nat
    PROVE  /\ NextStep(a, n) \in {"close", "fail", "apply"}
           /\ NextStep(a, n) = "apply" => Left(input[a], n) # {}
           /\ NextStep(a, n) = "close" => Left(input[a], n) = {}
  BY DEF NextStep

(* The call behind a plan or a step.                                      *)
LEMMA LoopGoesOn ==
    ASSUME IInv, NEW a \in Call, NEW n \in Nat, pc'[a] = NextStep(a, n), done'[a] = n,
           input[a] \in Input, input'[a] = input[a], input[a].desired.valid = TRUE,
           HasKey(ledger', PlannedKey(input[a])),
           \A service \in Reached(input[a], n) : HasStep(input[a], service)'
    PROVE  CallInv(a)'
  <1>1. PICK next : next = NextStep(a, n)  OBVIOUS
  <1>2. /\ next \in {"close", "fail", "apply"}
        /\ next = "apply" => Left(input[a], n) # {}
        /\ next = "close" => Left(input[a], n) = {}
    BY <1>1, NextStepSays
  <1>3. pc'[a] = next  BY <1>1
  <1> QED  BY <1>2, <1>3 DEF CallInv

LEMMA RecordPlanKeepsIInv == ASSUME IInv, NEW a \in Call, RecordPlan(a) PROVE IInv'
  <1> DEFINE steps == {input[a].desired.services[k] : k \in Divergent(input[a])}
             key == PlannedKey(input[a])
  <1>1. /\ pc[a] = "plan" /\ pc[a] \in Waiting /\ Insert(a, key, steps) /\ Goto(a, NextStep(a, 0))
        /\ UNCHANGED done
    BY DEF RecordPlan, Waiting
  <1>2. NextStep(a, 0) \in Waiting \cup Ended  BY NextStepSays DEF Waiting
  <1>3. done[a] = 0 /\ 0 \in Nat /\ done' = [done EXCEPT ![a] = 0]
    BY <1>1, DoneStays DEF IInv, CallInv
  <1>4. /\ Acts(a) /\ pc'[a] = NextStep(a, 0) /\ done'[a] = 0
        /\ input[a] \in Input /\ input'[a] = input[a]
    BY <1>1, <1>2, <1>3, GotoActs
  <1>5. steps \subseteq ServicesOf(input[a].desired) /\ steps \in SUBSET AllServices
    <2>1. steps \subseteq ServicesOf(input[a].desired)  BY DEF Divergent, ServicesOf
    <2> QED  BY <1>4, <2>1, ReachedIsDesired
  <1>6. key \in Key  BY <1>4, KeysAreTyped
  <1>7. MayPost(a, key, steps)
    <2>1. key[1] = "planned" /\ key[2] = input[a].installation /\ key[3] = input[a].desired
      BY DEF PlannedKey
    <2> HIDE DEF steps, key
    <2> QED  BY <1>5, <2>1 DEF MayPost
  <1>8. ASSUME HasKey(ledger', key) PROVE CallInv(a)'
    <2>1. Reached(input[a], 0) = {}  BY <1>4, NothingReached
    <2>2. input[a].desired.valid = TRUE  BY <1>1 DEF IInv, CallInv
    <2> QED  BY <1>3, <1>4, <1>8, <2>1, <2>2, LoopGoesOn
  <1> HIDE DEF steps, key
  <1> QED  BY <1>1, <1>4, <1>5, <1>6, <1>7, <1>8, InsertStep

LEMMA ApplyStepKeepsIInv == ASSUME IInv, NEW a \in Call, ApplyStep(a) PROVE IInv'
  <1>1. PICK k : k = NextPosition(input[a], done[a])  OBVIOUS
  <1>2. PICK step : step = input[a].desired.services[k]  OBVIOUS
  <1>3. PICK key : key = StepKey(input[a], step)  OBVIOUS
  <1>4. /\ pc[a] = "apply" /\ pc[a] \in Waiting /\ Insert(a, key, {step}) /\ Goto(a, NextStep(a, k))
        /\ done' = [done EXCEPT ![a] = k]
    BY <1>1, <1>2, <1>3 DEF ApplyStep, Waiting
  <1>5. /\ input[a] \in Input /\ done[a] \in Nat /\ Left(input[a], done[a]) # {}
        /\ input[a].desired.valid = TRUE /\ HasKey(ledger, PlannedKey(input[a]))
        /\ \A service \in Reached(input[a], done[a]) : HasStep(input[a], service)
    BY <1>4 DEF IInv, Typed, CallInv
  <1>6. /\ k \in Nat /\ step \in ServicesOf(input[a].desired)
        /\ Reached(input[a], k) \subseteq Reached(input[a], done[a]) \cup {step}
    BY <1>1, <1>2, <1>5, ReachedGrows
  <1>7. NextStep(a, k) \in Waiting \cup Ended  BY <1>6, NextStepSays DEF Waiting
  <1>8. /\ Acts(a) /\ pc'[a] = NextStep(a, k) /\ done'[a] = k /\ input'[a] = input[a]
    BY <1>4, <1>6, <1>7, GotoActs
  <1>9. key \in Key /\ {step} \in SUBSET AllServices
    BY <1>3, <1>5, <1>6, KeysAreTyped, ReachedIsDesired
  <1>10. key[1] = "step.applied" /\ key[2] = input[a].installation /\ key[3] = input[a].desired
         /\ key[4] = step.id
    BY <1>3 DEF StepKey
  <1>11. MayPost(a, key, {step})  BY <1>5, <1>6, <1>10 DEF MayPost
  <1>12. ASSUME HasKey(ledger', key), Kept, RowsSay, ledger' \in Seq(Row) PROVE CallInv(a)'
    <2>1. HasStep(input[a], step)'
      <3> SUFFICES ASSUME NoServiceTwice
                   PROVE  \E j \in DOMAIN ledger' : /\ ledger'[j].key = StepKey(input'[a], step)
                                                    /\ ledger'[j].steps = {step}
        BY DEF HasStep
      <3>1. PICK j \in DOMAIN ledger' : ledger'[j].key = key  BY <1>12 DEF HasKey
      <3>2. PICK row \in Row : row = ledger'[j]  BY <1>12
      <3>3. RowInv(row)'  BY <1>12, <3>1, <3>2 DEF RowsSay, Posted
      <3>4. row.key = key /\ row.kind = "step.applied"  BY <1>10, <3>1, <3>2, <3>3 DEF RowInv
      <3>5. PICK service \in ServicesOf(input[a].desired) : step.id = service.id /\ row.steps = {service}
        BY <1>10, <3>3, <3>4 DEF RowInv
      <3>6. service = step
        <4>1. input[a].desired \in Manifest  BY <1>5 DEF Input
        <4> QED  BY <1>6, <3>5, <4>1 DEF NoServiceTwice, ServicesOf
      <3>7. ledger'[j].key = StepKey(input[a], step) /\ ledger'[j].steps = {step}
        BY <1>3, <3>1, <3>2, <3>5, <3>6
      <3>8. StepKey(input[a], step) = StepKey(input'[a], step)  BY <1>8
      <3> QED  BY <3>1, <3>7, <3>8
    <2>2. \A service \in Reached(input[a], k) : HasStep(input[a], service)'
      <3> TAKE service \in Reached(input[a], k)
      <3>1. CASE service = step  BY <2>1, <3>1
      <3>2. CASE service \in Reached(input[a], done[a])
        BY <1>5, <1>8, <1>12, <3>2, StepsStay DEF Acts
      <3> QED  BY <1>6, <3>1, <3>2
    <2>3. HasKey(ledger', PlannedKey(input[a]))  BY <1>5, <1>12 DEF Kept
    <2> QED  BY <1>5, <1>6, <1>8, <2>2, <2>3, LoopGoesOn
  <1> QED  BY <1>4, <1>8, <1>9, <1>11, <1>12, InsertStep

(* A call that ends keeps what it did.                                    *)
LEMMA EndedCall ==
    ASSUME IInv, NEW a \in Call, pc[a] \in Waiting, pc'[a] \in Ended, done'[a] = done[a],
           input[a] \in Input, input' = input, Kept
    PROVE  CallInv(a)'
  <1>1. \A service \in Reached(input[a], done[a]) : HasStep(input[a], service)
    BY DEF IInv, CallInv, Waiting
  <1>2. \A service \in Reached(input[a], done[a]) : HasStep(input[a], service)'
    BY <1>1, StepsStay
  <1> QED  BY <1>2 DEF CallInv, Ended

LEMMA CloseKeepsIInv == ASSUME IInv, NEW a \in Call, Close(a) PROVE IInv'
  <1>1. PICK steps : steps = Reached(input[a], done[a])  OBVIOUS
  <1>2. PICK key : key = ReconciledKey(input[a])  OBVIOUS
  <1>3. PICK next \in {"reconciled", "lost"} : Goto(a, next)  BY DEF Close
  <1>4. /\ pc[a] = "close" /\ pc[a] \in Waiting /\ Insert(a, key, steps)
        /\ next \in Waiting \cup Ended /\ next \in Ended
    BY <1>1, <1>2 DEF Close, Waiting, Ended
  <1>5. done[a] \in Nat /\ done' = [done EXCEPT ![a] = done[a]]  BY DoneStays DEF Close
  <1>6. /\ Acts(a) /\ pc'[a] = next /\ done'[a] = done[a]
        /\ input[a] \in Input /\ input'[a] = input[a]
    BY <1>3, <1>4, <1>5, GotoActs
  <1>7. /\ Left(input[a], done[a]) = {} /\ HasKey(ledger, PlannedKey(input[a]))
        /\ \A service \in steps : HasStep(input[a], service)
    BY <1>1, <1>4 DEF IInv, CallInv
  <1>8. /\ ServicesOf(input[a].desired) \ Applied(input[a]) \subseteq steps
        /\ steps \subseteq ServicesOf(input[a].desired) /\ steps \in SUBSET AllServices
    BY <1>1, <1>5, <1>6, <1>7, EverythingReached, ReachedIsDesired
  <1>9. key \in Key  BY <1>2, <1>6, KeysAreTyped
  <1>10. key[1] = "reconciled" /\ key[2] = input[a].installation /\ key[3] = input[a].desired
    BY <1>2 DEF ReconciledKey
  <1>11. MayPost(a, key, steps)  BY <1>4, <1>6, <1>7, <1>8, <1>10 DEF MayPost
  <1>12. Kept => CallInv(a)'  BY <1>4, <1>6, EndedCall DEF Acts
  <1> QED  BY <1>4, <1>6, <1>8, <1>9, <1>11, <1>12, InsertStep

LEMMA FailKeepsIInv == ASSUME IInv, NEW a \in Call, Fail(a) PROVE IInv'
  <1>1. PICK next \in {"failed", "lost"} : Goto(a, next)  BY DEF Fail
  <1>2. pc[a] = "fail" /\ pc[a] \in Waiting /\ next \in Waiting \cup Ended /\ next \in Ended
    BY DEF Fail, Waiting, Ended
  <1>3. done[a] \in Nat /\ done' = [done EXCEPT ![a] = done[a]]  BY DoneStays DEF Fail
  <1>4. /\ Acts(a) /\ pc'[a] = next /\ done'[a] = done[a]
        /\ input[a] \in Input /\ input'[a] = input[a]
    BY <1>1, <1>2, <1>3, GotoActs
  <1>5. Kept => CallInv(a)'  BY <1>2, <1>4, EndedCall DEF Acts
  <1>6. CASE input[a].desired.valid
    <2>1. PICK steps : steps = Reached(input[a], done[a])  OBVIOUS
    <2>2. PICK key : key = FailedKey(input[a], "step_failed")  OBVIOUS
    <2>3. Insert(a, key, steps)  BY <1>6, <2>1, <2>2 DEF Fail
    <2>4. /\ HasKey(ledger, PlannedKey(input[a]))
          /\ \A service \in steps : HasStep(input[a], service)
      BY <1>2, <1>6, <2>1 DEF IInv, CallInv
    <2>5. steps \subseteq ServicesOf(input[a].desired) /\ steps \in SUBSET AllServices
      BY <1>3, <1>4, <2>1, ReachedIsDesired
    <2>6. key \in Key  BY <1>4, <2>2, KeysAreTyped
    <2>7. key[1] = "failed" /\ key[2] = input[a].installation /\ key[3] = input[a].desired
      BY <2>2 DEF FailedKey
    <2>8. MayPost(a, key, steps)  BY <2>4, <2>5, <2>7 DEF MayPost
    <2> QED  BY <1>4, <1>5, <2>3, <2>5, <2>6, <2>8, InsertStep
  <1>7. CASE ~input[a].desired.valid
    <2>1. PICK key : key = FailedKey(input[a], "manifest_invalid")  OBVIOUS
    <2>2. Insert(a, key, {})  BY <1>7, <2>1 DEF Fail
    <2>3. key \in Key /\ {} \in SUBSET AllServices  BY <1>4, <2>1, KeysAreTyped
    <2>4. key[1] = "failed" /\ key[2] = input[a].installation /\ key[3] = input[a].desired
          /\ key[4] = "manifest_invalid"
      BY <2>1 DEF FailedKey
    <2>5. MayPost(a, key, {})  BY <2>4 DEF MayPost
    <2> QED  BY <1>4, <1>5, <2>2, <2>3, <2>5, InsertStep
  <1> QED  BY <1>6, <1>7

(* A call that begins is fresh or not, and makes no other one fresh.      *)
LEMMA SubmitFreshens ==
    ASSUME IInv, NEW a \in Call, NEW in \in Input, Submit(a, in)
    PROVE  /\ fresh' \in [Call -> BOOLEAN]
           /\ fresh'[a] = TRUE => Undisturbed(in)
           /\ \A b \in Call \ {a} : fresh'[b] = TRUE => fresh[b] = TRUE /\ ~UnderWay(b, in.installation)
  <1>1. PICK answer \in BOOLEAN : answer = Undisturbed(in)  BY DEF Undisturbed
  <1>2. PICK overlapped \in [Call -> BOOLEAN] : \A b \in Call : overlapped[b] <=> UnderWay(b, in.installation)
    <2> DEFINE o == [b \in Call |-> UnderWay(b, in.installation)]
    <2>1. o \in [Call -> BOOLEAN]  BY DEF UnderWay
    <2> QED  BY <2>1
  <1>3. fresh' = [b \in Call |-> IF b = a THEN answer ELSE fresh[b] /\ ~overlapped[b]]
    BY <1>1, <1>2 DEF Submit
  <1>4. \A b \in Call : fresh[b] \in BOOLEAN /\ overlapped[b] \in BOOLEAN  BY <1>2 DEF IInv, Typed
  <1> QED  BY <1>1, <1>2, <1>3, <1>4

(* A call that begins has no row.                                         *)
LEMMA SubmitKeepsIInv == ASSUME IInv, NEW a \in Call, NEW in \in Input, Submit(a, in) PROVE IInv'
  <1>1. /\ pc[a] = "idle" /\ pc' = [pc EXCEPT ![a] = "lookup"] /\ input' = [input EXCEPT ![a] = in]
        /\ ledger' = ledger /\ done' = done
    BY DEF Submit
  <1>2. repeats' \in [Call -> BOOLEAN]
    <2>1. PICK answer \in BOOLEAN : answer = AlreadyReconciled(in)  BY DEF AlreadyReconciled
    <2>2. repeats' = [repeats EXCEPT ![a] = answer]  BY <2>1 DEF Submit
    <2>3. repeats \in [Call -> BOOLEAN]  BY DEF IInv, Typed
    <2> QED  BY <2>2, <2>3
  <1>3. /\ pc \in [Call -> {"idle"} \cup Waiting \cup Ended] /\ input \in [Call -> Input \cup {NoInput}]
        /\ done \in [Call -> Nat]
    BY DEF IInv, Typed
  <1>4. "lookup" \in Waiting  BY DEF Waiting
  <1>5. /\ pc' \in [Call -> {"idle"} \cup Waiting \cup Ended] /\ pc'[a] = "lookup"
        /\ \A x \in Call \ {a} : pc'[x] = pc[x]
        /\ input' \in [Call -> Input \cup {NoInput}] /\ input'[a] = in
        /\ \A x \in Call \ {a} : input'[x] = input[x]
    BY <1>1, <1>3, <1>4
  <1>6. fresh' \in [Call -> BOOLEAN]  BY SubmitFreshens
  <1>13. Typed'  BY <1>1, <1>2, <1>3, <1>5, <1>6 DEF Typed
  <1>7. \A row \in Row : Posted(row) => row.by \in Call \ {a} /\ RowInv(row)
    BY <1>1 DEF IInv, RowInv, Row
  <1>8. \A row \in Row : Posted(row)' => RowInv(row)'
    <2> SUFFICES ASSUME NEW row \in Row, Posted(row)' PROVE RowInv(row)'
      OBVIOUS
    <2>1. Posted(row)  BY <1>1 DEF Posted
    <2>2. pc'[row.by] = pc[row.by] /\ input'[row.by] = input[row.by]  BY <1>5, <1>7, <2>1
    <2> QED  BY <1>7, <2>1, <2>2 DEF RowInv
  <1>9. OneClosure'  BY <1>1 DEF IInv, OneClosure
  <1>10. \A x \in Call : CallInv(x)'
    <2> TAKE x \in Call
    <2>1. CASE x = a
      <3>1. done'[a] = 0  BY <1>1 DEF IInv, CallInv
      <3>2. Reached(in, 0) = {}  BY NothingReached
      <3> QED  BY <1>5, <2>1, <3>1, <3>2 DEF CallInv
    <2>2. CASE x # a
      <3>1. pc'[x] = pc[x] /\ input'[x] = input[x] /\ done'[x] = done[x] /\ CallInv(x)
        BY <1>1, <1>5, <2>2 DEF IInv
      <3>2. PICK y : y = input[x]  OBVIOUS
      <3>3. \A service : HasStep(y, service) <=> HasStep(y, service)'  BY <1>1 DEF HasStep
      <3>4. \A key : HasKey(ledger, key) <=> HasKey(ledger', key)  BY <1>1
      <3>5. PICK n : n = done[x]  OBVIOUS
      <3> QED  BY <3>1, <3>2, <3>3, <3>4, <3>5 DEF CallInv
    <2> QED  BY <2>1, <2>2
  <1>11. \A i \in DOMAIN ledger' : Backing(i)'
    <2> SUFFICES ASSUME NEW i \in DOMAIN ledger PROVE Backing(i)'
      BY <1>1
    <2>1. PICK row \in Row : row = ledger[i]  BY DEF IInv
    <2>2. Posted(row)  BY <2>1 DEF Posted
    <2>3. PICK y : y = input[row.by]  OBVIOUS
    <2>4. ledger'[i] = row /\ input'[row.by] = y  BY <1>1, <1>5, <1>7, <2>1, <2>2, <2>3
    <2>5. Behind(row, y, i)  BY <2>1, <2>3 DEF IInv, Backing
    <2>6. Behind(row, y, i)'  BY <1>1, <2>5 DEF Behind, StepBefore, PlanBefore
    <2> QED  BY <2>4, <2>6 DEF Backing
  <1>12. ledger' \in Seq(Row)  BY <1>1 DEF IInv
  <1> QED  BY <1>13, <1>8, <1>9, <1>10, <1>11, <1>12 DEF IInv

LEMMA InitIInv == Init => IInv
  <1> SUFFICES ASSUME Init PROVE IInv
    OBVIOUS
  <1>1. ledger \in Seq(Row) /\ DOMAIN ledger = {}
    <2>1. ledger = <<>>  BY DEF Init
    <2> QED  BY <2>1, EmptySeq
  <1>2. /\ pc = [a \in Call |-> "idle"] /\ input = [a \in Call |-> NoInput]
        /\ done = [a \in Call |-> 0] /\ repeats = [a \in Call |-> FALSE]
        /\ fresh = [a \in Call |-> FALSE]
    BY DEF Init
  <1>3. Typed  BY <1>2 DEF Typed
  <1>4. \A a \in Call : CallInv(a)  BY <1>2 DEF CallInv
  <1> QED  BY <1>1, <1>3, <1>4 DEF IInv, OneClosure, Posted

LEMMA StepKeepsIInv == ASSUME IInv, NEW a \in Call, Step(a) PROVE IInv'
  BY SubmitKeepsIInv, LookUpKeepsIInv, RecordPlanKeepsIInv, ApplyStepKeepsIInv,
     CloseKeepsIInv, FailKeepsIInv, LoseKeepsIInv DEF Step

LEMMA StutterKeepsIInv == ASSUME IInv, UNCHANGED vars PROVE IInv'
  <1>1. ledger' = ledger /\ pc' = pc /\ input' = input /\ done' = done /\ repeats' = repeats
        /\ fresh' = fresh
    BY DEF vars
  <1>2. Typed' /\ ledger' \in Seq(Row) /\ OneClosure'  BY <1>1 DEF IInv, Typed, OneClosure
  <1>3. \A row \in Row : Posted(row)' => RowInv(row)'  BY <1>1 DEF IInv, Posted, RowInv
  <1>4. Kept  BY <1>1 DEF Kept
  <1>5. \A a \in Call : CallInv(a)'  BY <1>1, <1>4, CallKeeps DEF IInv, Idles
  <1>6. \A i \in DOMAIN ledger : Backing(i)'  BY <1>1, <1>4, BackingStays
  <1>7. \A i \in DOMAIN ledger' : Backing(i)'  BY <1>1, <1>6
  <1> QED  BY <1>2, <1>3, <1>5, <1>7 DEF IInv

LEMMA SpecIInv == Spec => []IInv
  <1>1. IInv /\ [Next]_vars => IInv'  BY StepKeepsIInv, StutterKeepsIInv DEF Next
  <1> QED  BY <1>1, InitIInv, PTL DEF Spec

-----------------------------------------------------------------------------
LEMMA PostedRows ==
    ASSUME IInv, NEW i \in DOMAIN ledger
    PROVE  ledger[i] \in Row /\ RowInv(ledger[i])
  <1>1. ledger[i] \in Row  BY DEF IInv
  <1>2. Posted(ledger[i])  BY DEF Posted
  <1> QED  BY <1>1, <1>2 DEF IInv

LEMMA IInvTypeOK == IInv => TypeOK
  <1> SUFFICES ASSUME IInv PROVE TypeOK
    OBVIOUS
  <1>1. ASSUME NEW i \in DOMAIN ledger
        PROVE  /\ ledger[i].kind = ledger[i].key[1]
               /\ ledger[i].corr \in Corr /\ ledger[i].by \in Call
               /\ ledger[i].steps \subseteq ServicesOf(ledger[i].key[3])
    BY PostedRows DEF Row, RowInv
  <1> QED  BY <1>1 DEF IInv, Typed, TypeOK

(* The retry of a call that closed well does not pass the lookup.         *)
Answered == {"lookup", "rerun", "lost"}

RetryInv ==
    \A a \in Call : repeats[a] = TRUE =>
        /\ pc[a] \in Answered
        /\ pc[a] = "lookup" => HasKey(ledger, ReconciledKey(input[a]))

Closures == {i \in DOMAIN ledger : ledger[i].kind = "reconciled"}

(* A call closes well at most once, so the window shows every closure     *)
(* when it has a place for every call.                                    *)
LEMMA WindowShowsAll ==
    ASSUME IInv, IsFiniteSet(Call), Cardinality(Call) <= ReconciledWindow
    PROVE  Latest(ledger, "reconciled", ReconciledWindow) = Closures
  <1> DEFINE f == [i \in Closures |-> ledger[i].by]
  <1>1. \A i \in Closures : ledger[i].by \in Call
    BY PostedRows DEF Closures, Row
  <1>2. \A i, j \in Closures : f[i] = f[j] => i = j
    BY DEF IInv, OneClosure, Closures
  <1>3. f \in Injection(Closures, Call)
    <2>1. f \in [Closures -> Call]  BY <1>1
    <2>2. \A i, j \in DOMAIN f : f[i] = f[j] => i = j  BY <1>2
    <2> QED  BY <2>1, <2>2 DEF Injection, IsInjective
  <1> HIDE DEF f
  <1>4. IsFiniteSet(Closures) /\ Cardinality(Closures) <= Cardinality(Call)
    BY <1>3, FS_Injection
  <1>5. ASSUME NEW i \in Closures PROVE Cardinality({j \in Closures : j > i}) < ReconciledWindow
    <2> DEFINE After == {j \in Closures : j > i}
    <2>1. After \in SUBSET Closures  OBVIOUS
    <2>2. i \notin After
      <3>1. i \in Nat  BY DEF Closures, IInv
      <3> QED  BY <3>1
    <2> HIDE DEF After
    <2>3. Cardinality(After) <= Cardinality(Closures) /\ Cardinality(After) # Cardinality(Closures)
      BY <1>4, <2>1, <2>2, FS_Subset
    <2>4. Cardinality(After) \in Nat /\ Cardinality(Closures) \in Nat /\ Cardinality(Call) \in Nat
      BY <1>4, <2>1, FS_Subset, FS_CardinalityType
    <2>5. Cardinality(After) < ReconciledWindow
      BY <1>4, <2>3, <2>4, ReconciledWindowAssumption
    <2> QED  BY <2>5 DEF After
  <1> QED  BY <1>5 DEF Latest, Closures

(* What a step may do to the rows of the others.                          *)
LEMMA StepIsLocal ==
    ASSUME IInv, NEW a \in Call, Step(a)
    PROVE  /\ \A x \in Call \ {a} : pc'[x] = pc[x] /\ input'[x] = input[x] /\ repeats'[x] = repeats[x]
           /\ pc[a] # "idle" => input'[a] = input[a] /\ repeats'[a] = repeats[a]
           /\ \/ ledger' = ledger
              \/ /\ pc[a] \in {"plan", "apply", "close", "fail"}
                 /\ \E key, steps : Insert(a, key, steps)
  <1>1. /\ pc \in [Call -> {"idle"} \cup Waiting \cup Ended] /\ input \in [Call -> Input \cup {NoInput}]
        /\ repeats \in [Call -> BOOLEAN]
    BY DEF IInv, Typed
  <1>2. CASE \E in \in Input : Submit(a, in)
    <2>1. PICK in \in Input : Submit(a, in)  BY <1>2
    <2>2. PICK answer : answer = AlreadyReconciled(in)  OBVIOUS
    <2>3. /\ pc' = [pc EXCEPT ![a] = "lookup"] /\ input' = [input EXCEPT ![a] = in]
          /\ repeats' = [repeats EXCEPT ![a] = answer] /\ ledger' = ledger /\ pc[a] = "idle"
      BY <2>1, <2>2 DEF Submit
    <2> QED  BY <1>1, <2>3
  <1>3. ASSUME NEW next, Goto(a, next), pc[a] # "idle"
        PROVE  /\ \A x \in Call \ {a} : pc'[x] = pc[x] /\ input'[x] = input[x] /\ repeats'[x] = repeats[x]
               /\ input'[a] = input[a] /\ repeats'[a] = repeats[a]
    BY <1>1, <1>3 DEF Goto
  <1>4. CASE LookUp(a) \/ Lose(a)
    <2>1. pc[a] # "idle" /\ ledger' = ledger /\ \E next : Goto(a, next)
      BY <1>4 DEF LookUp, Lose, Waiting
    <2> QED  BY <1>3, <2>1
  <1>5. CASE RecordPlan(a) \/ ApplyStep(a) \/ Close(a) \/ Fail(a)
    <2>1. pc[a] \in {"plan", "apply", "close", "fail"} /\ \E next : Goto(a, next)
      BY <1>5 DEF RecordPlan, ApplyStep, Close, Fail
    <2>2. \E key, steps : Insert(a, key, steps)
      BY <1>5 DEF RecordPlan, ApplyStep, Close, Fail
    <2> QED  BY <1>3, <2>1, <2>2
  <1> QED  BY <1>2, <1>4, <1>5 DEF Step

LEMMA StepKeepsRetryInv ==
    ASSUME IInv, RetryInv, IsFiniteSet(Call), Cardinality(Call) <= ReconciledWindow,
           NEW a \in Call, Step(a)
    PROVE  RetryInv'
  <1>1. /\ \A x \in Call \ {a} : pc'[x] = pc[x] /\ input'[x] = input[x] /\ repeats'[x] = repeats[x]
        /\ pc[a] # "idle" => input'[a] = input[a] /\ repeats'[a] = repeats[a]
        /\ \/ ledger' = ledger
           \/ /\ pc[a] \in {"plan", "apply", "close", "fail"}
              /\ \E key, steps : Insert(a, key, steps)
    BY StepIsLocal
  <1>2. \A x \in Call : repeats[x] \in BOOLEAN  BY DEF IInv, Typed
  <1>3. CASE \E in \in Input : Submit(a, in)
    <2>1. PICK in \in Input : Submit(a, in)  BY <1>3
    <2>2. PICK answer \in BOOLEAN : answer = AlreadyReconciled(in)  BY DEF AlreadyReconciled
    <2>3. /\ pc' = [pc EXCEPT ![a] = "lookup"] /\ input' = [input EXCEPT ![a] = in]
          /\ repeats' = [repeats EXCEPT ![a] = answer] /\ ledger' = ledger /\ pc[a] = "idle"
      BY <2>1, <2>2 DEF Submit
    <2>4. pc'[a] = "lookup" /\ input'[a] = in /\ repeats'[a] = answer
      BY <2>3 DEF IInv, Typed
    <2>5. \A x \in Call : repeats'[x] = TRUE =>
             /\ pc'[x] \in Answered
             /\ pc'[x] = "lookup" => HasKey(ledger, ReconciledKey(input'[x]))
      <3> TAKE x \in Call
      <3>1. CASE x = a
        <4>1. AlreadyReconciled(in) => HasKey(ledger, ReconciledKey(in))  BY DEF AlreadyReconciled, HasKey
        <4> QED  BY <2>2, <2>4, <3>1, <4>1 DEF Answered
      <3>2. CASE x # a  BY <1>1, <3>2 DEF RetryInv
      <3> QED  BY <3>1, <3>2
    <2> QED  BY <2>3, <2>5 DEF RetryInv
  <1>4. CASE LookUp(a)
    <2>1. pc[a] = "lookup" /\ ledger' = ledger  BY <1>4 DEF LookUp
    <2>2. repeats[a] = TRUE => PriorReconciledExists(input[a])
      <3> SUFFICES ASSUME repeats[a] = TRUE PROVE PriorReconciledExists(input[a])
        OBVIOUS
      <3>1. PICK i \in DOMAIN ledger : ledger[i].key = ReconciledKey(input[a])
        BY <2>1 DEF RetryInv, HasKey
      <3>2. ledger[i].kind = "reconciled"  BY <3>1, PostedRows DEF RowInv, ReconciledKey
      <3>3. i \in Latest(ledger, "reconciled", ReconciledWindow)  BY <3>2, WindowShowsAll DEF Closures
      <3> QED  BY <3>1, <3>3 DEF PriorReconciledExists
    <2>3. PICK next \in {"rerun", "fail", "contract_error", "plan"} :
            Goto(a, next) /\ (PriorReconciledExists(input[a]) => next = "rerun")
      BY <1>4 DEF LookUp
    <2>4. pc'[a] = next  BY <2>3 DEF Goto, IInv, Typed
    <2>5. \A x \in Call : repeats'[x] = TRUE =>
             /\ pc'[x] \in Answered
             /\ pc'[x] = "lookup" => HasKey(ledger, ReconciledKey(input'[x]))
      <3> TAKE x \in Call
      <3>1. CASE x = a  BY <1>1, <2>1, <2>2, <2>3, <2>4, <3>1 DEF Answered
      <3>2. CASE x # a  BY <1>1, <3>2 DEF RetryInv
      <3> QED  BY <3>1, <3>2
    <2> QED  BY <2>1, <2>5 DEF RetryInv
  <1>5. CASE pc[a] \in Waiting \ {"lookup"} /\ ~(\E in \in Input : Submit(a, in)) /\ ~LookUp(a)
    <2>1. pc'[a] # "lookup" /\ (pc[a] \in {"plan", "apply", "close", "fail"} \/ pc'[a] = "lost")
      <3>1. \A next : Goto(a, next) => pc'[a] = next  BY DEF Goto, IInv, Typed
      <3>2. CASE RecordPlan(a)
        <4>1. PICK next \in {"close", "fail", "apply"} : Goto(a, next)  BY <3>2, NextStepSays DEF RecordPlan
        <4> QED  BY <3>1, <3>2, <4>1 DEF RecordPlan
      <3>3. CASE ApplyStep(a)
        <4>1. PICK n : Goto(a, NextStep(a, n)) /\ n = NextPosition(input[a], done[a])
          BY <3>3 DEF ApplyStep
        <4>2. PICK next \in {"close", "fail", "apply"} : Goto(a, next)  BY <4>1 DEF NextStep
        <4> QED  BY <3>1, <3>3, <4>2 DEF ApplyStep
      <3>4. CASE Close(a)  BY <3>1, <3>4 DEF Close
      <3>5. CASE Fail(a)  BY <3>1, <3>5 DEF Fail
      <3>6. CASE Lose(a)  BY <3>1, <3>6 DEF Lose
      <3> QED  BY <1>5, <3>2, <3>3, <3>4, <3>5, <3>6 DEF Step
    <2>2. pc[a] # "idle"  BY <1>5 DEF Waiting
    <2>3. pc[a] \in {"plan", "apply", "close", "fail"}
      BY <1>5 DEF Waiting
    <2>4. repeats[a] = FALSE /\ repeats'[a] = FALSE  BY <1>1, <1>2, <2>2, <2>3 DEF RetryInv, Answered
    <2>6. \A key : HasKey(ledger, key) => HasKey(ledger', key)
      <3>1. CASE ledger' = ledger  BY <3>1
      <3>2. CASE \E key, steps : Insert(a, key, steps)
        <4>1. PICK key, steps : Insert(a, key, steps)  BY <3>2
        <4>2. PICK row : row = RowOf(a, key, steps)  OBVIOUS
        <4>3. row.by = a /\ ledger' = InsertLedgerRow(ledger, row)  BY <4>1, <4>2 DEF Insert, RowOf
        <4>4. ledger \in Seq(Row)  BY DEF IInv
        <4>5. CASE ledger' = ledger  BY <4>5
        <4>6. CASE ledger' = Append(ledger, row)
          <5>1. ledger \in Seq(Row \cup {row})  BY <4>4
          <5>2. /\ DOMAIN ledger = 1..Len(ledger) /\ DOMAIN ledger' = 1..(Len(ledger) + 1)
                /\ Len(ledger) \in Nat
                /\ \A i \in DOMAIN ledger : ledger'[i] = ledger[i]
                /\ ledger'[Len(ledger) + 1] = row
            BY <4>6, <5>1
          <5> QED  BY <4>3, <5>2 DEF HasKey
        <4> QED  BY <4>3, <4>5, <4>6 DEF InsertLedgerRow
      <3> QED  BY <1>1, <3>1, <3>2
    <2>7. \A x \in Call : repeats'[x] = TRUE =>
             /\ pc'[x] \in Answered
             /\ pc'[x] = "lookup" => HasKey(ledger', ReconciledKey(input'[x]))
      <3> TAKE x \in Call
      <3>1. CASE x = a  BY <2>4, <3>1
      <3>2. CASE x # a
        <4>1. PICK key : key = ReconciledKey(input[x])  OBVIOUS
        <4>2. input'[x] = input[x] /\ pc'[x] = pc[x] /\ repeats'[x] = repeats[x]  BY <1>1, <3>2
        <4> QED  BY <2>6, <4>1, <4>2 DEF RetryInv
      <3> QED  BY <3>1, <3>2
    <2> QED  BY <2>7 DEF RetryInv
  <1>6. CASE Lose(a) /\ pc[a] = "lookup"
    <2>1. ledger' = ledger /\ pc'[a] = "lost"  BY <1>6 DEF Lose, Goto, IInv, Typed
    <2>2. \A x \in Call : repeats'[x] = repeats[x]  BY <1>1, <1>6
    <2>3. \A x \in Call : repeats'[x] = TRUE =>
             /\ pc'[x] \in Answered
             /\ pc'[x] = "lookup" => HasKey(ledger, ReconciledKey(input'[x]))
      <3> TAKE x \in Call
      <3>1. CASE x = a  BY <2>1, <3>1 DEF Answered
      <3>2. CASE x # a  BY <1>1, <3>2 DEF RetryInv
      <3> QED  BY <3>1, <3>2
    <2> QED  BY <2>1, <2>3 DEF RetryInv
  <1>7. (\E in \in Input : Submit(a, in)) \/ LookUp(a) \/ pc[a] \in Waiting
    BY DEF Step, RecordPlan, ApplyStep, Close, Fail, Lose, Waiting
  <1>8. pc[a] = "lookup" => (\E in \in Input : Submit(a, in)) \/ LookUp(a) \/ Lose(a)
    BY DEF Step, RecordPlan, ApplyStep, Close, Fail
  <1> QED  BY <1>3, <1>4, <1>5, <1>6, <1>7, <1>8

LEMMA StutterKeepsRetryInv == ASSUME RetryInv, UNCHANGED vars PROVE RetryInv'
  <1>1. ledger' = ledger /\ pc' = pc /\ input' = input /\ repeats' = repeats  BY DEF vars
  <1>3. \A a \in Call : ReconciledKey(input[a])' = ReconciledKey(input[a])  BY <1>1 DEF ReconciledKey
  <1> QED  BY <1>1, <1>3 DEF RetryInv

-----------------------------------------------------------------------------
(* What a call sees that is the first with its manifest and alone: the    *)
(* only rows of the manifest are those of its own steps, and what it has  *)
(* reached is installed, as is what it found and has not replaced.        *)
OwnSteps(in, n) ==
    \A i \in DOMAIN ledger :
        ledger[i].kind \in {"step.applied", "reconciled"}
              /\ ledger[i].key[2] = in.installation /\ ledger[i].key[3] = in.desired
           => /\ ledger[i].kind = "step.applied"
              /\ \E step \in Reached(in, n) : ledger[i].key[4] = step.id

Present(in, n) ==
    /\ \A service \in Reached(in, n) : Installed(in, service)
    /\ \A service \in Applied(in) :
          (\A step \in Reached(in, n) : step.id # service.id) => Installed(in, service)

FreshInv ==
    \A a \in Call : fresh[a] = TRUE /\ pc[a] \in Waiting =>
        /\ \A b \in Call \ {a} : ~UnderWay(b, input[a].installation)
        /\ OwnSteps(input[a], done[a])
        /\ Present(input[a], done[a])

(* A step of a call under way leaves the others alone and posts a row of   *)
(* its own installation, if it posts one.                                 *)
Posts(a, kinds) ==
    \E key, steps : Insert(a, key, steps) /\ key[1] \in kinds /\ key[2] = input[a].installation

LEMMA StepMoves ==
    ASSUME IInv, NEW a \in Call, Step(a), ~(\E in \in Input : Submit(a, in))
    PROVE  /\ pc[a] \in Waiting /\ input' = input /\ fresh' = fresh
           /\ \A x \in Call \ {a} : pc'[x] = pc[x] /\ done'[x] = done[x]
           /\ ledger' = ledger \/ Posts(a, Kind)
  <1>1. pc \in [Call -> {"idle"} \cup Waiting \cup Ended] /\ done \in [Call -> Nat]  BY DEF IInv, Typed
  <1>2. PICK in : in = input[a]  OBVIOUS
  <1>3. /\ PlannedKey(in)[1] = "planned" /\ PlannedKey(in)[2] = in.installation
        /\ ReconciledKey(in)[1] = "reconciled" /\ ReconciledKey(in)[2] = in.installation
        /\ \A code : FailedKey(in, code)[1] = "failed" /\ FailedKey(in, code)[2] = in.installation
        /\ \A s : StepKey(in, s)[1] = "step.applied" /\ StepKey(in, s)[2] = in.installation
    BY DEF PlannedKey, ReconciledKey, FailedKey, StepKey
  <1>4. \A next : Goto(a, next) => /\ input' = input /\ fresh' = fresh
                                   /\ \A x \in Call \ {a} : pc'[x] = pc[x]
    BY <1>1 DEF Goto
  <1>5. CASE LookUp(a) \/ Lose(a)
    <2>1. /\ pc[a] \in Waiting /\ ledger' = ledger /\ done' = done /\ \E next : Goto(a, next)
      BY <1>5 DEF LookUp, Lose, Waiting
    <2> QED  BY <1>4, <2>1
  <1>6. CASE RecordPlan(a)
    <2>1. /\ pc[a] \in Waiting /\ done' = done /\ \E next : Goto(a, next)
          /\ \E steps : Insert(a, PlannedKey(in), steps)
      BY <1>2, <1>6 DEF RecordPlan, Waiting
    <2>2. Posts(a, Kind)  BY <1>2, <1>3, <2>1 DEF Posts, Kind
    <2> QED  BY <1>4, <2>1, <2>2
  <1>7. CASE ApplyStep(a)
    <2>1. PICK k, step : /\ Insert(a, StepKey(in, step), {step}) /\ done' = [done EXCEPT ![a] = k]
                         /\ Goto(a, NextStep(a, k))
      BY <1>2, <1>7 DEF ApplyStep
    <2>2. Posts(a, Kind)  BY <1>2, <1>3, <2>1 DEF Posts, Kind
    <2>3. pc[a] \in Waiting  BY <1>7 DEF ApplyStep, Waiting
    <2> QED  BY <1>1, <1>4, <2>1, <2>2, <2>3
  <1>8. CASE Close(a)
    <2>1. /\ pc[a] \in Waiting /\ done' = done /\ \E next : Goto(a, next)
          /\ \E steps : Insert(a, ReconciledKey(in), steps)
      BY <1>2, <1>8 DEF Close, Waiting
    <2>2. Posts(a, Kind)  BY <1>2, <1>3, <2>1 DEF Posts, Kind
    <2> QED  BY <1>4, <2>1, <2>2
  <1>9. CASE Fail(a)
    <2>1. /\ pc[a] \in Waiting /\ done' = done /\ \E next : Goto(a, next)
          /\ \E code, steps : Insert(a, FailedKey(in, code), steps)
      BY <1>2, <1>9 DEF Fail, Waiting
    <2>2. Posts(a, Kind)  BY <1>2, <1>3, <2>1 DEF Posts, Kind
    <2> QED  BY <1>4, <2>1, <2>2
  <1> QED  BY <1>5, <1>6, <1>7, <1>8, <1>9 DEF Step

(* A row is appended, or there was one of its key.                        *)
LEMMA InsertAppends ==
    ASSUME IInv, NEW a \in Call, NEW key, NEW steps, Insert(a, key, steps)
    PROVE  /\ DOMAIN ledger = 1..Len(ledger) /\ Len(ledger) \in Nat
           /\ \/ ledger' = ledger /\ HasKey(ledger, key)
              \/ /\ DOMAIN ledger' = 1..(Len(ledger) + 1)
                 /\ \A i \in DOMAIN ledger : ledger'[i] = ledger[i]
                 /\ ledger'[Len(ledger) + 1].kind = key[1]
                 /\ ledger'[Len(ledger) + 1].key = key
                 /\ ledger'[Len(ledger) + 1].steps = steps
  <1>1. PICK row : row = RowOf(a, key, steps)  OBVIOUS
  <1>2. row.kind = key[1] /\ row.key = key /\ row.steps = steps  BY <1>1 DEF RowOf
  <1>3. ledger' = InsertLedgerRow(ledger, row)  BY <1>1 DEF Insert
  <1>4. ledger \in Seq(Row \cup {row})  BY DEF IInv
  <1>5. DOMAIN ledger = 1..Len(ledger) /\ Len(ledger) \in Nat  BY <1>4
  <1>6. CASE ledger' = ledger /\ HasKey(ledger, row.key)  BY <1>2, <1>5, <1>6
  <1>7. CASE ledger' = Append(ledger, row)
    <2>1. /\ DOMAIN ledger' = 1..(Len(ledger) + 1)
          /\ \A i \in DOMAIN ledger : ledger'[i] = ledger[i]
          /\ ledger'[Len(ledger) + 1] = row
      BY <1>4, <1>7
    <2> QED  BY <1>2, <1>5, <2>1
  <1> QED  BY <1>3, <1>6, <1>7 DEF InsertLedgerRow

(* A service stays installed until a step of its name is recorded.        *)
LEMMA InstalledStays ==
    ASSUME IInv, NEW a \in Call, NEW key, NEW steps, Insert(a, key, steps),
           NEW in, NEW service, Installed(in, service),
           key[1] = "step.applied" /\ key[2] = in.installation => key[4] # service.id
    PROVE  Installed(in, service)'
  <1>1. PICK i \in DOMAIN ledger :
          /\ IsStepOf(i, in) /\ ledger[i].steps = {service}
          /\ \A j \in DOMAIN ledger : j > i /\ IsStepOf(j, in) => ledger[j].key[4] # service.id
    BY DEF Installed
  <1>2. CASE ledger' = ledger
    BY <1>1, <1>2 DEF Installed, IsStepOf
  <1>3. CASE ledger' # ledger
    <2>1. /\ DOMAIN ledger = 1..Len(ledger) /\ Len(ledger) \in Nat
          /\ DOMAIN ledger' = 1..(Len(ledger) + 1)
          /\ \A j \in DOMAIN ledger : ledger'[j] = ledger[j]
          /\ ledger'[Len(ledger) + 1].kind = key[1] /\ ledger'[Len(ledger) + 1].key = key
      BY <1>3, InsertAppends
    <2>2. i \in DOMAIN ledger' /\ ledger'[i] = ledger[i]  BY <2>1
    <2>3. ASSUME NEW j \in DOMAIN ledger', j > i, ledger'[j].kind = "step.applied",
                 ledger'[j].key[2] = in.installation
          PROVE  ledger'[j].key[4] # service.id
      <3>1. CASE j \in DOMAIN ledger  BY <1>1, <2>1, <2>3, <3>1 DEF IsStepOf
      <3>2. CASE j = Len(ledger) + 1  BY <2>1, <2>3, <3>2
      <3> QED  BY <2>1, <3>1, <3>2
    <2> QED  BY <1>1, <2>2, <2>3 DEF Installed, IsStepOf
  <1> QED  BY <1>2, <1>3

(* What a call sees is in the rows.                                       *)
LEMMA SightNeedsRows ==
    ASSUME ledger' = ledger, NEW in, NEW n
    PROVE  /\ OwnSteps(in, n) => OwnSteps(in, n)'
           /\ Present(in, n) => Present(in, n)'
  <1>1. OwnSteps(in, n) => OwnSteps(in, n)'  BY DEF OwnSteps
  <1>2. \A service : Installed(in, service) => Installed(in, service)'
    BY DEF Installed, IsStepOf
  <1>3. Present(in, n) => Present(in, n)'  BY <1>2 DEF Present
  <1> QED  BY <1>1, <1>3

(* Rows of another installation, plans and failures change nothing.       *)
LEMMA SightStays ==
    ASSUME IInv, NEW a \in Call, NEW key, NEW steps, Insert(a, key, steps), NEW in, NEW n,
           OwnSteps(in, n), Present(in, n),
           key[2] # in.installation \/ key[1] \notin {"step.applied", "reconciled"}
    PROVE  OwnSteps(in, n)' /\ Present(in, n)'
  <1>1. OwnSteps(in, n)'
    <2>1. CASE ledger' = ledger  BY <2>1 DEF OwnSteps, Reached, Left, Divergent, Applied, ServicesOf
    <2>2. CASE ledger' # ledger
      <3>1. /\ DOMAIN ledger = 1..Len(ledger)
            /\ DOMAIN ledger' = 1..(Len(ledger) + 1) /\ Len(ledger) \in Nat
            /\ \A j \in DOMAIN ledger : ledger'[j] = ledger[j]
            /\ ledger'[Len(ledger) + 1].kind = key[1] /\ ledger'[Len(ledger) + 1].key = key
        BY <2>2, InsertAppends
      <3>2. \A i \in DOMAIN ledger' : i \in DOMAIN ledger \/ i = Len(ledger) + 1  BY <3>1
      <3> QED  BY <3>1, <3>2 DEF OwnSteps
    <2> QED  BY <2>1, <2>2
  <1>2. \A service : Installed(in, service) => Installed(in, service)'  BY InstalledStays
  <1>3. Present(in, n)'  BY <1>2 DEF Present
  <1> QED  BY <1>1, <1>3

(* The step behind a position is of a name not reached before.            *)
LEMMA NextStepIsNew ==
    ASSUME NoServiceTwice, NEW in \in Input, NEW n \in Nat, Left(in, n) # {}
    PROVE  LET k == NextPosition(in, n)
               step == in.desired.services[k]
           IN  /\ Reached(in, k) = Reached(in, n) \cup {step}
               /\ \A service \in Reached(in, n) : service.id # step.id
  <1>1. PICK k : k = NextPosition(in, n)  OBVIOUS
  <1>2. k \in Left(in, n)  BY <1>1, NextPositionIsFirst
  <1>3. PICK step : step = in.desired.services[k]  OBVIOUS
  <1>4. in.desired \in Manifest  BY DEF Input
  <1>5. PICK Service : in.desired.services \in Seq(Service)  BY <1>4, ManifestAssumption
  <1>6. DOMAIN in.desired.services = 1..Len(in.desired.services) /\ Len(in.desired.services) \in Nat
    BY <1>5
  <1>7. Divergent(in) \subseteq DOMAIN in.desired.services /\ Divergent(in) \subseteq Nat
    BY <1>6 DEF Divergent
  <1>8. k \in Divergent(in) /\ k \in Nat /\ k > n  BY <1>2, <1>7 DEF Left
  <1>9. Left(in, k) \subseteq Left(in, n) /\ k \notin Left(in, k)  BY <1>7, <1>8 DEF Left
  <1>10. Reached(in, k) \subseteq Reached(in, n) \cup {step}  BY <1>1, <1>3, ReachedGrows
  <1>11. Reached(in, n) \cup {step} \subseteq Reached(in, k)
    BY <1>3, <1>8, <1>9 DEF Reached
  <1>12. ASSUME NEW service \in Reached(in, n) PROVE service.id # step.id
    <2>1. PICK j \in Divergent(in) \ Left(in, n) : service = in.desired.services[j]
      BY <1>12 DEF Reached
    <2>2. j \in DOMAIN in.desired.services /\ k \in DOMAIN in.desired.services /\ j # k
      BY <1>2, <1>7, <1>8, <2>1
    <2> QED  BY <1>3, <1>4, <2>1, <2>2 DEF NoServiceTwice
  <1> QED  BY <1>1, <1>3, <1>10, <1>11, <1>12

(* The step of a call that is alone is installed when it is recorded.     *)
LEMMA ApplyKeepsSight ==
    ASSUME IInv, NoServiceTwice, NEW a \in Call, ApplyStep(a),
           OwnSteps(input[a], done[a]), Present(input[a], done[a])
    PROVE  OwnSteps(input[a], done[a])' /\ Present(input[a], done[a])'
  <1>1. PICK in : in = input[a]  OBVIOUS
  <1>2. PICK n : n = done[a]  OBVIOUS
  <1>3. PICK k : k = NextPosition(in, n)  OBVIOUS
  <1>4. PICK step : step = in.desired.services[k]  OBVIOUS
  <1>5. PICK key : key = StepKey(in, step)  OBVIOUS
  <1>6. /\ pc[a] = "apply" /\ Insert(a, key, {step}) /\ Goto(a, NextStep(a, k))
        /\ done' = [done EXCEPT ![a] = k]
    BY <1>1, <1>2, <1>3, <1>4, <1>5 DEF ApplyStep
  <1>7. in \in Input /\ n \in Nat /\ Left(in, n) # {} /\ in.desired.valid = TRUE
    BY <1>1, <1>2, <1>6 DEF IInv, Typed, CallInv
  <1>8. input'[a] = in /\ done'[a] = k
    BY <1>1, <1>6 DEF Goto, IInv, Typed
  <1>9. /\ Reached(in, k) = Reached(in, n) \cup {step}
        /\ \A service \in Reached(in, n) : service.id # step.id
    BY <1>3, <1>4, <1>7, NextStepIsNew
  <1>10. key[1] = "step.applied" /\ key[2] = in.installation /\ key[3] = in.desired /\ key[4] = step.id
    BY <1>5 DEF StepKey
  <1>11. OwnSteps(in, n) /\ Present(in, n)  BY <1>1, <1>2
  <1>12. ~HasKey(ledger, key)
    <2> SUFFICES ASSUME NEW i \in DOMAIN ledger, ledger[i].key = key PROVE FALSE
      BY DEF HasKey
    <2>1. ledger[i].kind = "step.applied"  BY <1>10, PostedRows DEF RowInv
    <2> QED  BY <1>9, <1>10, <1>11, <2>1 DEF OwnSteps
  <1>13. /\ DOMAIN ledger = 1..Len(ledger) /\ DOMAIN ledger' = 1..(Len(ledger) + 1) /\ Len(ledger) \in Nat
         /\ \A j \in DOMAIN ledger : ledger'[j] = ledger[j]
         /\ ledger'[Len(ledger) + 1].kind = key[1] /\ ledger'[Len(ledger) + 1].key = key
         /\ ledger'[Len(ledger) + 1].steps = {step}
    BY <1>6, <1>12, InsertAppends
  <1>14. OwnSteps(in, k)'
    <2>1. \A i \in DOMAIN ledger' : i \in DOMAIN ledger \/ i = Len(ledger) + 1  BY <1>13
    <2> QED  BY <1>9, <1>10, <1>11, <1>13, <2>1 DEF OwnSteps
  <1>15. Installed(in, step)'
    <2>1. Len(ledger) + 1 \in DOMAIN ledger' /\ \A j \in DOMAIN ledger' : ~(j > Len(ledger) + 1)
      BY <1>13
    <2> QED  BY <1>10, <1>13, <2>1 DEF Installed, IsStepOf
  <1>16. \A service : Installed(in, service) /\ service.id # step.id => Installed(in, service)'
    BY <1>6, <1>10, InstalledStays
  <1>17. Present(in, k)'
    <2>1. \A service \in Reached(in, k) : Installed(in, service)'
      BY <1>9, <1>11, <1>15, <1>16 DEF Present
    <2>2. ASSUME NEW service \in Applied(in), \A s \in Reached(in, k) : s.id # service.id
          PROVE  Installed(in, service)'
      <3>1. Installed(in, service) /\ service.id # step.id  BY <1>9, <1>11, <2>2 DEF Present
      <3> QED  BY <1>16, <3>1
    <2> QED  BY <2>1, <2>2 DEF Present
  <1> QED  BY <1>8, <1>14, <1>17

LEMMA SubmitKeepsFreshInv ==
    ASSUME IInv, FreshInv, NEW b \in Call, NEW in \in Input, Submit(b, in)
    PROVE  FreshInv'
  <1>1. /\ pc[b] = "idle" /\ pc' = [pc EXCEPT ![b] = "lookup"] /\ input' = [input EXCEPT ![b] = in]
        /\ ledger' = ledger /\ done' = done
    BY DEF Submit
  <1>2. pc'[b] = "lookup" /\ input'[b] = in /\ done[b] = 0
    BY <1>1 DEF IInv, Typed, CallInv
  <1>3. \A x \in Call \ {b} : pc'[x] = pc[x] /\ input'[x] = input[x]
    BY <1>1 DEF IInv, Typed
  <1>4. /\ fresh'[b] = TRUE => Undisturbed(in)
        /\ \A x \in Call \ {b} : fresh'[x] = TRUE => fresh[x] = TRUE /\ ~UnderWay(x, in.installation)
    BY SubmitFreshens
  <1> SUFFICES ASSUME NEW a \in Call, fresh'[a] = TRUE, pc'[a] \in Waiting
               PROVE  /\ \A x \in Call \ {a} : ~UnderWay(x, input[a].installation)'
                      /\ OwnSteps(input[a], done[a])' /\ Present(input[a], done[a])'
    BY DEF FreshInv
  <1>5. CASE a = b
    <2>1. Undisturbed(in)  BY <1>4, <1>5
    <2>2. \A x \in Call \ {a} : ~UnderWay(x, input[a].installation)'
      BY <1>2, <1>3, <1>5, <2>1 DEF Undisturbed, UnderWay
    <2>3. Reached(in, 0) = {}  BY NothingReached
    <2>4. OwnSteps(in, 0)' /\ Present(in, 0)'
      <3>1. OwnSteps(in, 0)
        <4> SUFFICES ASSUME NEW i \in DOMAIN ledger, ledger[i].kind \in {"step.applied", "reconciled"},
                            ledger[i].key[2] = in.installation, ledger[i].key[3] = in.desired
                     PROVE  FALSE
          BY DEF OwnSteps
        <4>1. <<ledger[i].key[2], ledger[i].key[3]>> # <<in.installation, in.desired>>
          BY <2>1 DEF Undisturbed
        <4> QED  BY <4>1
      <3>2. Present(in, 0)  BY <2>1, <2>3 DEF Present, Undisturbed
      <3> QED  BY <1>1, <3>1, <3>2 DEF OwnSteps, Present, Installed, IsStepOf
    <2> QED  BY <1>1, <1>2, <1>5, <2>2, <2>4
  <1>6. CASE a # b
    <2>1. PICK y : y = input[a]  OBVIOUS
    <2>2. PICK n : n = done[a]  OBVIOUS
    <2>3. input'[a] = y /\ done'[a] = n /\ pc[a] \in Waiting  BY <1>1, <1>3, <1>6, <2>1, <2>2
    <2>4. fresh[a] = TRUE /\ y.installation # in.installation
      BY <1>4, <1>6, <2>1, <2>3 DEF UnderWay
    <2>5. /\ \A x \in Call \ {a} : ~UnderWay(x, y.installation)
          /\ OwnSteps(y, n) /\ Present(y, n)
      BY <2>1, <2>2, <2>3, <2>4 DEF FreshInv
    <2>6. OwnSteps(y, n)' /\ Present(y, n)'
      BY <1>1, <2>5 DEF OwnSteps, Present, Installed, IsStepOf
    <2>7. \A x \in Call \ {a} : ~UnderWay(x, input[a].installation)'
      <3> SUFFICES ASSUME NEW x \in Call \ {a}
                   PROVE  ~(pc'[x] \in Waiting /\ input'[x].installation = input'[a].installation)
        BY DEF UnderWay
      <3>1. CASE x = b  BY <1>2, <2>3, <2>4, <3>1
      <3>2. CASE x # b  BY <1>3, <2>3, <2>5, <3>2 DEF UnderWay
      <3> QED  BY <3>1, <3>2
    <2> QED  BY <2>3, <2>6, <2>7
  <1> QED  BY <1>5, <1>6

LEMMA StepKeepsFreshInv ==
    ASSUME IInv, FreshInv, NoServiceTwice, NEW b \in Call, Step(b)
    PROVE  FreshInv'
  <1>1. CASE \E in \in Input : Submit(b, in)  BY <1>1, SubmitKeepsFreshInv
  <1>2. CASE ~(\E in \in Input : Submit(b, in))
    <2>1. /\ pc[b] \in Waiting /\ input' = input /\ fresh' = fresh
          /\ \A x \in Call \ {b} : pc'[x] = pc[x] /\ done'[x] = done[x]
          /\ ledger' = ledger \/ Posts(b, Kind)
      BY <1>2, StepMoves
    <2> SUFFICES ASSUME NEW a \in Call, fresh'[a] = TRUE, pc'[a] \in Waiting
                 PROVE  /\ \A x \in Call \ {a} : ~UnderWay(x, input[a].installation)'
                        /\ OwnSteps(input[a], done[a])' /\ Present(input[a], done[a])'
      BY DEF FreshInv
    <2>2. PICK y : y = input[a]  OBVIOUS
    <2>3. PICK n : n = done[a]  OBVIOUS
    <2>4. pc[a] \in Waiting /\ fresh[a] = TRUE /\ input'[a] = y  BY <2>1, <2>2
    <2>5. /\ \A x \in Call \ {a} : ~UnderWay(x, y.installation)
          /\ OwnSteps(y, n) /\ Present(y, n)
      BY <2>2, <2>3, <2>4 DEF FreshInv
    <2>6. \A x \in Call \ {a} : ~UnderWay(x, input[a].installation)'
      <3> SUFFICES ASSUME NEW x \in Call \ {a}
                   PROVE  ~(pc'[x] \in Waiting /\ input'[x].installation = input'[a].installation)
        BY DEF UnderWay
      <3>1. pc'[x] \in Waiting => pc[x] \in Waiting  BY <2>1
      <3> QED  BY <2>1, <2>2, <2>5, <3>1 DEF UnderWay
    <2>7. ledger' = ledger => OwnSteps(y, n)' /\ Present(y, n)'
      BY <2>5, SightNeedsRows
    <2>8. CASE a # b
      <3>1. done'[a] = n  BY <2>1, <2>3, <2>8
      <3>2. CASE Posts(b, Kind)
        <4>1. PICK key, steps : Insert(b, key, steps) /\ key[2] = input[b].installation
          BY <3>2 DEF Posts
        <4>2. key[2] # y.installation  BY <2>1, <2>5, <2>8, <4>1 DEF UnderWay
        <4>3. OwnSteps(y, n)' /\ Present(y, n)'  BY <2>5, <4>1, <4>2, SightStays
        <4> QED  BY <2>4, <2>6, <3>1, <4>3
      <3> QED  BY <2>1, <2>4, <2>6, <2>7, <3>1, <3>2
    <2>9. CASE a = b /\ ApplyStep(b)
      BY <2>2, <2>3, <2>5, <2>6, <2>9, ApplyKeepsSight
    <2>10. CASE a = b /\ (LookUp(b) \/ RecordPlan(b))
      <3>1. done'[a] = n  BY <2>3, <2>10 DEF LookUp, RecordPlan
      <3>2. CASE RecordPlan(b)
        <4>1. PICK key, steps : Insert(b, key, steps) /\ key[1] = "planned"
          BY <3>2 DEF RecordPlan, PlannedKey
        <4>2. OwnSteps(y, n)' /\ Present(y, n)'  BY <2>5, <4>1, SightStays
        <4> QED  BY <2>4, <2>6, <3>1, <4>2
      <3>3. CASE LookUp(b)  BY <2>4, <2>6, <2>7, <3>1, <3>3 DEF LookUp
      <3> QED  BY <2>10, <3>2, <3>3
    <2>11. CASE a = b /\ (Close(b) \/ Fail(b) \/ Lose(b))
      <3>1. \A next : Goto(b, next) => pc'[b] = next  BY DEF Goto, IInv, Typed
      <3>2. pc'[b] \in Ended
        BY <2>11, <3>1 DEF Close, Fail, Lose, Ended
      <3> QED  BY <2>11, <3>2 DEF Waiting, Ended
    <2> QED  BY <1>2, <2>8, <2>9, <2>10, <2>11 DEF Step
  <1> QED  BY <1>1, <1>2

LEMMA StutterKeepsFreshInv == ASSUME FreshInv, UNCHANGED vars PROVE FreshInv'
  <1>1. ledger' = ledger /\ pc' = pc /\ input' = input /\ done' = done /\ fresh' = fresh  BY DEF vars
  <1> SUFFICES ASSUME NEW a \in Call, fresh'[a] = TRUE, pc'[a] \in Waiting
               PROVE  /\ \A x \in Call \ {a} : ~UnderWay(x, input[a].installation)'
                      /\ OwnSteps(input[a], done[a])' /\ Present(input[a], done[a])'
    BY DEF FreshInv
  <1>2. PICK y : y = input[a]  OBVIOUS
  <1>3. PICK n : n = done[a]  OBVIOUS
  <1>4. input'[a] = y /\ done'[a] = n /\ fresh[a] = TRUE /\ pc[a] \in Waiting  BY <1>1, <1>2, <1>3
  <1>5. /\ \A x \in Call \ {a} : ~UnderWay(x, y.installation)
        /\ OwnSteps(y, n) /\ Present(y, n)
    BY <1>2, <1>3, <1>4 DEF FreshInv
  <1>6. OwnSteps(y, n)' /\ Present(y, n)'  BY <1>1, <1>5, SightNeedsRows
  <1>7. \A x \in Call \ {a} : ~UnderWay(x, input[a].installation)'
    BY <1>1, <1>4, <1>5 DEF UnderWay
  <1> QED  BY <1>4, <1>6, <1>7

(* Such a call does not find a closure, and closes when all is there.      *)
LEMMA FreshCallInstalls ==
    ASSUME IInv, FreshInv, NoServiceTwice, NEW b \in Call, Step(b), NEW a \in Call,
           fresh[a] = TRUE, pc[a] \in Waiting, pc'[a] \in {"reconciled", "rerun"}
    PROVE  \A service \in ServicesOf(input[a].desired) : Installed(input[a], service)'
  <1>1. PICK y : y = input[a]  OBVIOUS
  <1>2. PICK n : n = done[a]  OBVIOUS
  <1>3. OwnSteps(y, n) /\ Present(y, n) /\ y \in Input /\ n \in Nat
    BY <1>1, <1>2 DEF FreshInv, IInv, CallInv, Typed, Waiting
  <1>4. pc'[a] # pc[a]  BY DEF Waiting
  <1>5. ~(\E in \in Input : Submit(b, in))
    <2> SUFFICES ASSUME NEW in \in Input, Submit(b, in) PROVE FALSE
      OBVIOUS
    <2>1. pc' = [pc EXCEPT ![b] = "lookup"]  BY DEF Submit
    <2>2. pc'[b] = "lookup" /\ \A x \in Call \ {b} : pc'[x] = pc[x]  BY <2>1 DEF IInv, Typed
    <2> QED  BY <1>4, <2>2
  <1>6. a = b /\ input' = input  BY <1>4, <1>5, StepMoves
  <1>7. \A next : Goto(a, next) => pc'[a] = next  BY DEF Goto, IInv, Typed
  <1>8. ~LookUp(a)
    <2> SUFFICES ASSUME LookUp(a) PROVE FALSE
      OBVIOUS
    <2>1. PICK next \in {"rerun", "fail", "contract_error", "plan"} :
            Goto(a, next) /\ (next = "rerun" => PriorReconciledExists(input[a]))
      BY DEF LookUp
    <2>2. PriorReconciledExists(y)  BY <1>1, <1>7, <2>1
    <2>3. PICK i \in DOMAIN ledger : ledger[i].kind = "reconciled" /\ ledger[i].key = ReconciledKey(y)
      BY <2>2 DEF PriorReconciledExists, Latest
    <2> QED  BY <1>3, <2>3 DEF OwnSteps, ReconciledKey
  <1>9. Close(a)
    <2>1. \A m : NextStep(a, m) \in {"close", "fail", "apply"}  BY DEF NextStep
    <2>2. ~RecordPlan(a) /\ ~ApplyStep(a)
      BY <1>7, <2>1 DEF RecordPlan, ApplyStep
    <2>3. ~Fail(a) /\ ~Lose(a)  BY <1>7 DEF Fail, Lose
    <2> QED  BY <1>5, <1>6, <1>8, <2>2, <2>3 DEF Step
  <1>10. PICK key, steps : Insert(a, key, steps) /\ key[1] = "reconciled"
    BY <1>9 DEF Close, ReconciledKey
  <1>11. \A service : Installed(y, service) => Installed(y, service)'
    BY <1>10, InstalledStays
  <1>12. Left(y, n) = {}  BY <1>1, <1>2, <1>9 DEF Close, IInv, CallInv
  <1>13. ServicesOf(y.desired) \ Applied(y) \subseteq Reached(y, n)  BY <1>3, <1>12, EverythingReached
  <1>14. ASSUME NEW service \in ServicesOf(y.desired) PROVE Installed(y, service)
    <2>1. CASE service \in Reached(y, n)  BY <1>3, <2>1 DEF Present
    <2>2. CASE service \in Applied(y)
      <3>1. ASSUME NEW step \in Reached(y, n) PROVE step.id # service.id
        <4>1. PICK j \in Divergent(y) : step = y.desired.services[j]  BY <3>1 DEF Reached
        <4>2. j \in DOMAIN y.desired.services /\ step \notin Applied(y)  BY <4>1 DEF Divergent
        <4>3. PICK k \in DOMAIN y.desired.services : service = y.desired.services[k]
          BY <1>14 DEF ServicesOf
        <4>4. y.desired \in Manifest  BY <1>3 DEF Input
        <4> QED  BY <2>2, <4>1, <4>2, <4>3, <4>4 DEF NoServiceTwice
      <3> QED  BY <1>3, <2>2, <3>1 DEF Present
    <2> QED  BY <1>13, <1>14, <2>1, <2>2
  <1> QED  BY <1>1, <1>6, <1>11, <1>14

-----------------------------------------------------------------------------
(* Type correctness: for any number of calls and any manifests.           *)
THEOREM InstallTypeCorrect == Spec => []TypeOK
  BY SpecIInv, IInvTypeOK, PTL

(* Rows are backed by earlier rows, whichever calls race and wherever they *)
(* are cut off, when no manifest names a service twice.                   *)
THEOREM ClosuresAreBacked ==
    ASSUME NoServiceTwice
    PROVE  Spec => []ClosureIsBacked
  <1>1. IInv => ClosureIsBacked  BY BackingIsAll DEF IInv
  <1> QED  BY <1>1, SpecIInv, PTL

(* A retry of a call that closed well is answered from the closure, when  *)
(* the window of the query has a place for every call.                    *)
THEOREM RetriesAreAnswered ==
    ASSUME IsFiniteSet(Call), Cardinality(Call) <= ReconciledWindow
    PROVE  Spec => []RetryDrivesNothing
  <1>1. Init => RetryInv
    <2> SUFFICES ASSUME Init PROVE RetryInv
      OBVIOUS
    <2>1. repeats = [a \in Call |-> FALSE]  BY DEF Init
    <2> QED  BY <2>1 DEF RetryInv
  <1>2. IInv /\ RetryInv /\ [Next]_vars => RetryInv'
    BY StepKeepsRetryInv, StutterKeepsRetryInv DEF Next
  <1>3. IInv /\ RetryInv => RetryDrivesNothing
    BY DEF IInv, Typed, RetryInv, RetryDrivesNothing, Answered
  <1> QED  BY <1>1, <1>2, <1>3, SpecIInv, PTL DEF Spec

(* A manifest new to its installation is installed when a call answers    *)
(* that knew what was there and was not overlapped, when no manifest      *)
(* names a service twice.                                                 *)
THEOREM NewManifestsAreInstalled ==
    ASSUME NoServiceTwice
    PROVE  Spec => NewManifestIsInstalled
  <1>1. Init => FreshInv
    <2> SUFFICES ASSUME Init PROVE FreshInv
      OBVIOUS
    <2>1. fresh = [a \in Call |-> FALSE]  BY DEF Init
    <2> QED  BY <2>1 DEF FreshInv
  <1>2. IInv /\ FreshInv /\ [Next]_vars => FreshInv'
    BY StepKeepsFreshInv, StutterKeepsFreshInv DEF Next
  <1>3. IInv /\ FreshInv /\ [Next]_vars =>
           [\A a \in Call : fresh[a] /\ pc[a] \in Waiting /\ pc'[a] \in {"reconciled", "rerun"} =>
               \A service \in ServicesOf(input[a].desired) : Installed(input[a], service)']_vars
    <2> SUFFICES ASSUME IInv, FreshInv, NEW b \in Call, Step(b), NEW a \in Call,
                        fresh[a], pc[a] \in Waiting, pc'[a] \in {"reconciled", "rerun"}
                 PROVE  \A service \in ServicesOf(input[a].desired) : Installed(input[a], service)'
      BY DEF Next
    <2>1. fresh[a] = TRUE  BY DEF IInv, Typed
    <2> QED  BY <2>1, FreshCallInstalls
  <1> QED  BY <1>1, <1>2, <1>3, SpecIInv, PTL DEF Spec, NewManifestIsInstalled
=============================================================================
