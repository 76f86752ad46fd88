----------------------- MODULE OrganizationRun_proofs -----------------------
(* Proofs about OrganizationRun for every organization of finitely many units,  *)
(* every configuration of the run and any number of workers: what stays where   *)
(* it was during the walk is covered if and only if the configuration selects   *)
(* it, the pool leaves no work item without an outcome unless it is stopped,    *)
(* and GuardDuty is swept after the last of them.                               *)
EXTENDS OrganizationRun, FiniteSetTheorems, TLAPS

Before == {"walk", "accounts", "units", "write"}
Walking == {"walk", "accounts", "units"}
Busy == {"collecting", "pausing"}

Known == visited \cup ToSet(pending)

(* What was seen of a steady account still holds. *)
SeenHolds ==
  /\ \A a \in steady : home[a] = Home[a] /\ a \notin closed
  /\ \A a \in DOMAIN found \cap steady : found[a] = "ACTIVE"

(* The walk: nothing above a known unit is missing, nothing else is known. *)
WalkCovers ==
  phase \in Walking =>
    /\ ToSet(ParentIds) \subseteq Known
    /\ \A u \in visited : (phase = "walk" \/ u # at) => Below(u) \subseteq Known
    /\ \A u \in Known : InScope(u)
    /\ phase # "walk" => at \in visited
    /\ \A a \in DOMAIN found \cap steady : Home[a] \in visited
    /\ \A a \in steady :
         Home[a] \in visited /\ (phase = "accounts" => Home[a] # at) => a \in DOMAIN found

(* The inventory, and the work items built from it. *)
InventoryCovers ==
  /\ phase = "write" => \A a \in steady : a \in DOMAIN found <=> Selected(a)
  /\ phase \in Before => workItems = {}
  /\ \A i \in workItems : i.account \in steady => Selected(i.account)
  /\ phase \in {"collect", "sweep", "done"} =>
       \A a \in steady, n \in DOMAIN CollectionRegions :
         Selected(a) => \E i \in workItems : i.account = a /\ i.region = CollectionRegions[n]

(* The pool: a work item waits, is in the hands of a worker or has an outcome. *)
PoolHolds ==
  /\ \A w \in Workers : worker[w] \in Busy => phase = "collect" /\ item[w] \in workItems
  /\ \A w \in Workers : worker[w] = "pausing" => tried[w] < MaxAttempts
  /\ \A w \in Workers : worker[w] = "gone" => phase \notin Before /\ (aborted \/ todo = {})
  /\ phase = "collect" =>
       \A i \in workItems :
         \/ i \in todo \/ i \in DOMAIN outcome
         \/ \E w \in Workers : worker[w] \in Busy /\ item[w] = i

(* How it ends: only a stopped run leaves something without an outcome. *)
Endings ==
  /\ \A i \in DOMAIN outcome : outcome[i] = "abandoned" => aborted
  /\ phase \in {"sweep", "done"} \/ DOMAIN swept # {} =>
       /\ DOMAIN outcome = workItems
       /\ \A i \in DOMAIN outcome : outcome[i] # "abandoned"
  /\ DOMAIN swept # {} => phase \in {"sweep", "done", "failed"}
  /\ phase = "done" => ~AccountFailure
  /\ phase = "failed" /\ DOMAIN outcome # {} => AccountFailure /\ DOMAIN swept = SweepRegions

OrganizationInv ==
  /\ OrganizationTypeOK /\ SeenHolds /\ WalkCovers /\ InventoryCovers
  /\ PoolHolds /\ Endings

-----------------------------------------------------------------------------
(* Sequences: what a queue holds when one is taken or a set is appended.   *)

LEMMA Taken ==
  ASSUME NEW S, NEW q \in Seq(S), q # <<>>
  PROVE  /\ Tail(q) \in Seq(S) /\ Head(q) \in S
         /\ ToSet(q) = {Head(q)} \cup ToSet(Tail(q))
<1>1. Len(q) \in Nat \ {0} /\ DOMAIN q = 1 .. Len(q) /\ Head(q) = q[1]
  OBVIOUS
<1>2. /\ Len(Tail(q)) = Len(q) - 1 /\ DOMAIN Tail(q) = 1 .. Len(q) - 1
      /\ \A i \in 1 .. Len(q) - 1 : Tail(q)[i] = q[i + 1]
  OBVIOUS
<1>3. ASSUME NEW i \in 1 .. Len(q)
      PROVE  i = 1 \/ (i - 1 \in 1 .. Len(q) - 1 /\ Tail(q)[i - 1] = q[i])
  BY <1>1, <1>2
<1>4. ASSUME NEW i \in 1 .. Len(q) - 1 PROVE i + 1 \in 1 .. Len(q) /\ Tail(q)[i] = q[i + 1]
  BY <1>1, <1>2
<1>5. Tail(q) \in Seq(S) /\ Head(q) \in S
  OBVIOUS
<1>6. ASSUME NEW x \in ToSet(q) PROVE x = Head(q) \/ x \in ToSet(Tail(q))
  <2>1. PICK i \in 1 .. Len(q) : q[i] = x
    BY <1>1, <1>6 DEF ToSet
  <2>2. i = 1 \/ (i - 1 \in DOMAIN Tail(q) /\ Tail(q)[i - 1] = x)
    BY <1>2, <1>3, <2>1
  <2> QED
    BY <1>1, <2>1, <2>2 DEF ToSet
<1>7. ASSUME NEW x \in ToSet(Tail(q)) PROVE x \in ToSet(q)
  BY <1>1, <1>2, <1>4 DEF ToSet
<1>8. Head(q) \in ToSet(q)
  BY <1>1 DEF ToSet
<1> QED
  BY <1>5, <1>6, <1>7, <1>8

LEMMA Joined ==
  ASSUME NEW S, NEW q \in Seq(S), NEW r \in Seq(S)
  PROVE  q \o r \in Seq(S) /\ ToSet(q \o r) = ToSet(q) \cup ToSet(r)
<1>1. /\ DOMAIN q = 1 .. Len(q) /\ DOMAIN r = 1 .. Len(r) /\ Len(q) \in Nat /\ Len(r) \in Nat
      /\ DOMAIN (q \o r) = 1 .. Len(q) + Len(r)
      /\ \A i \in 1 .. Len(q) + Len(r) :
           (q \o r)[i] = IF i <= Len(q) THEN q[i] ELSE r[i - Len(q)]
  OBVIOUS
<1>2. ASSUME NEW x \in ToSet(q \o r) PROVE x \in ToSet(q) \/ x \in ToSet(r)
  <2>1. PICK i \in 1 .. Len(q) + Len(r) : (q \o r)[i] = x
    BY <1>1, <1>2 DEF ToSet
  <2>2. CASE i <= Len(q)
    BY <1>1, <2>1, <2>2 DEF ToSet
  <2>3. CASE ~(i <= Len(q))
    <3>1. i - Len(q) \in 1 .. Len(r) /\ x = r[i - Len(q)]
      BY <1>1, <2>1, <2>3
    <3> QED
      BY <1>1, <3>1 DEF ToSet
  <2> QED
    BY <2>2, <2>3
<1>3. ASSUME NEW i \in 1 .. Len(q)
      PROVE  i \in 1 .. Len(q) + Len(r) /\ (q \o r)[i] = q[i]
  BY <1>1
<1>4. ASSUME NEW i \in 1 .. Len(r)
      PROVE  i + Len(q) \in 1 .. Len(q) + Len(r) /\ (q \o r)[i + Len(q)] = r[i]
  BY <1>1
<1>5. ToSet(q) \subseteq ToSet(q \o r)
  BY <1>1, <1>3 DEF ToSet
<1>6. ToSet(r) \subseteq ToSet(q \o r)
  BY ZenonT(60), <1>1, <1>4 DEF ToSet
<1> QED
  BY <1>2, <1>5, <1>6

LEMMA Enumerated ==
  ASSUME NEW S, IsFiniteSet(S)
  PROVE  SetToSeq(S) \in Seq(S) /\ ToSet(SetToSeq(S)) = S
<1> DEFINE n == Cardinality(S)
           f == SetToSeq(S)
<1>1. n \in Nat /\ ExistsBijection(1 .. n, S)
  BY FS_CardinalityType
<1>2. PICK g : g \in Bijection(1 .. n, S)
  BY <1>1 DEF ExistsBijection
<1>3. g \in [1 .. n -> S] /\ IsInjective(g)
  BY <1>2 DEF Bijection, Injection
<1>4. f \in [1 .. n -> S] /\ IsInjective(f)
  BY <1>3 DEF SetToSeq
<1>5. f \in Injection(1 .. n, S)
  BY <1>4 DEF Injection
<1>6. IsFiniteSet(1 .. n) /\ Cardinality(1 .. n) = n
  BY <1>1, FS_Interval
<1>7. f \in Surjection(1 .. n, S)
  BY <1>5, <1>6, FS_Injection
<1>8. \A x \in S : \E i \in 1 .. n : f[i] = x
  BY <1>7 DEF Surjection
<1>9. DOMAIN f = 1 .. n /\ \A i \in 1 .. n : f[i] \in S
  BY <1>4
<1>10. f \in Seq(S)
  BY <1>1, <1>4
<1>11. ToSet(f) = S
  BY <1>8, <1>9 DEF ToSet
<1> QED
  BY <1>10, <1>11

-----------------------------------------------------------------------------
LEMMA OrganizationStart == Organized /\ OrganizationInit => OrganizationInv
<1> SUFFICES ASSUME Organized, OrganizationInit PROVE OrganizationInv
  OBVIOUS
<1> USE DEF OrganizationInit, InventoryInit, Organized
<1>1. InventoryTypeOK
  BY DEF InventoryTypeOK, ToSet
<1>2. OrganizationTypeOK
  <2>1. /\ worker \in [Workers -> {"idle", "collecting", "pausing", "gone"}]
        /\ item \in [Workers -> WorkItem \cup {NoItem}]
    OBVIOUS
  <2>2. tried \in [Workers -> 0 .. MaxAttempts]
    <3>1. 0 \in 0 .. MaxAttempts
      OBVIOUS
    <3> QED
      BY <3>1
  <2>3. DOMAIN outcome = {} /\ ToSet(outcome) = {} /\ DOMAIN swept = {} /\ ToSet(swept) = {}
    BY DEF ToSet
  <2> QED
    BY <1>1, <2>1, <2>2, <2>3 DEF OrganizationTypeOK
<1>3. SeenHolds /\ InventoryCovers /\ PoolHolds /\ Endings
  BY DEF SeenHolds, InventoryCovers, PoolHolds, Endings, Before, Busy
<1>4. \A u \in ToSet(ParentIds) : InScope(u)
  BY DEF InScope, DownwardClosed
<1>5. WalkCovers
  BY <1>4 DEF WalkCovers, Walking, Known
<1> QED
  BY <1>2, <1>3, <1>5 DEF OrganizationInv

(* While the inventory is made the pool is at rest.                        *)
LEMMA PoolRests ==
  ASSUME OrganizationInv, phase \in Before, phase' \in Before \cup {"failed"},
         todo' = workItems', workItems' = workItems,
         UNCHANGED <<aborted, worker, item, tried, outcome, swept>>
  PROVE  PoolHolds' /\ Endings'
<1>1. workItems = {} /\ DOMAIN outcome = {} /\ DOMAIN swept = {}
  BY DEF OrganizationInv, OrganizationTypeOK, InventoryCovers, Endings, Before
<1>2. \A w \in Workers : worker[w] \notin Busy /\ worker[w] # "gone"
  BY DEF OrganizationInv, PoolHolds, Before
<1>3. PoolHolds'
  BY <1>1, <1>2 DEF PoolHolds, Busy, Before
<1>4. Endings'
  BY <1>1 DEF Endings, Before
<1> QED
  BY <1>3, <1>4

(* The types of what only the pool and the inventory change.               *)
LEMMA InventoryTypes ==
  ASSUME OrganizationInv, InventoryTypeOK', todo' = workItems', workItems \subseteq workItems',
         UNCHANGED <<aborted, worker, item, tried, outcome, swept>>
  PROVE  OrganizationTypeOK'
BY DEF OrganizationInv, OrganizationTypeOK

LEMMA OrganizationChanges ==
  ASSUME OrganizationInv, Inventory, NEW a \in OrganizationAccounts,
         Close(a) \/ \E u \in Units : Move(a, u)
  PROVE  OrganizationInv'
<1>1. /\ phase \in Before /\ steady' = steady \ {a} /\ closed' \subseteq closed \cup {a}
      /\ UNCHANGED <<phase, walkVars, vertices, workItems>>
      /\ home' \in [OrganizationAccounts -> Units] /\ \A b \in steady' : home'[b] = home[b]
  BY DEF Close, Move, Before, OrganizationInv, OrganizationTypeOK, InventoryTypeOK
<1> USE DEF walkVars
<1>2. UNCHANGED <<aborted, worker, item, tried, outcome, swept>> /\ todo' = workItems'
  BY DEF Inventory
<1>3. InventoryTypeOK'
  BY <1>1 DEF OrganizationInv, OrganizationTypeOK, InventoryTypeOK
<1>4. OrganizationTypeOK'
  BY <1>1, <1>2, <1>3, InventoryTypes
<1>5. SeenHolds'
  BY <1>1 DEF OrganizationInv, SeenHolds
<1>6. WalkCovers'
  BY <1>1 DEF OrganizationInv, WalkCovers, Known
<1>7. InventoryCovers'
  BY <1>1 DEF OrganizationInv, InventoryCovers
<1>8. PoolHolds' /\ Endings'
  BY <1>1, <1>2, PoolRests
<1> QED
  BY <1>4, <1>5, <1>6, <1>7, <1>8 DEF OrganizationInv

(* The walk takes its next unit, and knows no more than before.            *)
LEMMA TakesNextUnit ==
  ASSUME Organized, OrganizationInv, Inventory, NextParent
  PROVE  OrganizationInv'
<1>1. /\ phase = "walk" /\ pending # <<>> /\ pending' = Tail(pending)
      /\ visited' = visited \cup {Head(pending)}
      /\ UNCHANGED <<organizationVars, found, vertices, workItems>>
      /\ \/ phase' = "walk" /\ at' = at /\ visited' = visited
         \/ phase' = "accounts" /\ at' = Head(pending) /\ Head(pending) \notin visited
  BY DEF NextParent
<1>2. /\ Head(pending) \in Units /\ Tail(pending) \in Seq(Units)
      /\ ToSet(pending) = {Head(pending)} \cup ToSet(Tail(pending))
  BY <1>1, Taken DEF OrganizationInv, OrganizationTypeOK, InventoryTypeOK
<1>3. Known' = Known
  BY <1>1, <1>2 DEF Known
<1>4. UNCHANGED <<aborted, worker, item, tried, outcome, swept>> /\ todo' = workItems'
  BY DEF Inventory
<1>5. InventoryTypeOK'
  BY <1>1, <1>2 DEF OrganizationInv, OrganizationTypeOK, InventoryTypeOK, organizationVars
<1>6. OrganizationTypeOK'
  BY <1>1, <1>4, <1>5, InventoryTypes
<1>7. SeenHolds'
  BY <1>1 DEF OrganizationInv, SeenHolds, organizationVars
<1>8. WalkCovers'
  <2>1. ToSet(ParentIds) \subseteq Known' /\ \A u \in Known' : InScope(u)
    BY <1>1, <1>3 DEF OrganizationInv, WalkCovers, Walking
  <2>2. \A u \in visited' : (phase' = "walk" \/ u # at') => Below(u) \subseteq Known'
    BY <1>1, <1>3 DEF OrganizationInv, WalkCovers, Walking
  <2>3. phase' # "walk" => at' \in visited'
    BY <1>1
  <2>4. \A a \in DOMAIN found' \cap steady' : Home[a] \in visited'
    BY <1>1 DEF OrganizationInv, WalkCovers, Walking, organizationVars
  <2>5. \A a \in steady' :
          Home[a] \in visited' /\ (phase' = "accounts" => Home[a] # at') => a \in DOMAIN found'
    BY <1>1 DEF OrganizationInv, WalkCovers, Walking, organizationVars
  <2> QED
    BY <2>1, <2>2, <2>3, <2>4, <2>5 DEF WalkCovers
<1>9. InventoryCovers'
  BY <1>1 DEF OrganizationInv, InventoryCovers, Before, organizationVars
<1>10. PoolHolds' /\ Endings'
  BY <1>1, <1>4, PoolRests DEF Before
<1> QED
  BY <1>6, <1>7, <1>8, <1>9, <1>10 DEF OrganizationInv

(* The accounts of a unit are listed as they are now.                      *)
LEMMA ListsAccounts ==
  ASSUME Organized, OrganizationInv, Inventory, ListAccounts
  PROVE  OrganizationInv'
<1> DEFINE here == {a \in OrganizationAccounts : home[a] = at}
<1>1. /\ phase = "accounts" /\ phase' = "units" /\ found' = Seen(here)
      /\ UNCHANGED <<organizationVars, pending, visited, at, vertices, workItems>>
  BY DEF ListAccounts
<1>2. /\ DOMAIN found' = DOMAIN found \cup here
      /\ \A a \in here : found'[a] = StateOf(a)
      /\ \A a \in DOMAIN found \ here : found'[a] = found[a]
  BY <1>1 DEF Seen
<1>3. UNCHANGED <<aborted, worker, item, tried, outcome, swept>> /\ todo' = workItems'
  BY DEF Inventory
<1>4. InventoryTypeOK'
  <2>1. DOMAIN found' \subseteq OrganizationAccounts
    BY <1>2 DEF OrganizationInv, OrganizationTypeOK, InventoryTypeOK
  <2>2. \A a \in DOMAIN found' : found'[a] \in States
    BY <1>2 DEF OrganizationInv, OrganizationTypeOK, InventoryTypeOK, StateOf, States, ToSet
  <2>3. ToSet(found') \subseteq States
    BY <2>2 DEF ToSet
  <2> QED
    BY <1>1, <2>1, <2>3 DEF OrganizationInv, OrganizationTypeOK, InventoryTypeOK, organizationVars
<1>5. OrganizationTypeOK'
  BY <1>1, <1>3, <1>4, InventoryTypes
<1>6. SeenHolds'
  BY <1>1, <1>2 DEF OrganizationInv, SeenHolds, StateOf, organizationVars
<1>7. \A a \in steady : a \in here <=> Home[a] = at
  BY DEF OrganizationInv, SeenHolds, OrganizationTypeOK, InventoryTypeOK
<1>8. WalkCovers'
  BY <1>1, <1>2, <1>7 DEF OrganizationInv, WalkCovers, Walking, Known, organizationVars
<1>9. InventoryCovers'
  BY <1>1 DEF OrganizationInv, InventoryCovers, Before, organizationVars
<1>10. PoolHolds' /\ Endings'
  BY <1>1, <1>3, PoolRests DEF Before
<1> QED
  BY <1>5, <1>6, <1>8, <1>9, <1>10 DEF OrganizationInv

(* The units below are appended; being below a unit in scope they are too. *)
LEMMA ListsUnits ==
  ASSUME Organized, OrganizationInv, Inventory, ListUnits
  PROVE  OrganizationInv'
<1>1. /\ phase = "units" /\ phase' = "walk" /\ at' = Nowhere
      /\ pending' = pending \o SetToSeq(Below(at))
      /\ UNCHANGED <<organizationVars, visited, found, vertices, workItems>>
  BY DEF ListUnits
<1>2. IsFiniteSet(Below(at)) /\ Below(at) \subseteq Units
  BY FS_Subset DEF Below, Organized
<1>3. SetToSeq(Below(at)) \in Seq(Units) /\ ToSet(SetToSeq(Below(at))) = Below(at)
  BY <1>2, Enumerated
<1>4. pending' \in Seq(Units) /\ ToSet(pending') = ToSet(pending) \cup Below(at)
  BY <1>1, <1>3, Joined DEF OrganizationInv, OrganizationTypeOK, InventoryTypeOK
<1>5. Known' = Known \cup Below(at)
  BY <1>1, <1>4 DEF Known
<1>6. UNCHANGED <<aborted, worker, item, tried, outcome, swept>> /\ todo' = workItems'
  BY DEF Inventory
<1>7. InventoryTypeOK'
  BY <1>1, <1>4 DEF OrganizationInv, OrganizationTypeOK, InventoryTypeOK, organizationVars
<1>8. OrganizationTypeOK'
  BY <1>1, <1>6, <1>7, InventoryTypes
<1>9. SeenHolds'
  BY <1>1 DEF OrganizationInv, SeenHolds, organizationVars
<1>10. WalkCovers'
  <2>1. at \in visited /\ InScope(at)
    BY <1>1 DEF OrganizationInv, WalkCovers, Walking, Known
  <2>2. \A u \in Below(at) : InScope(u)
    BY <2>1, <1>2 DEF InScope, DownwardClosed, OrganizationInv, OrganizationTypeOK, InventoryTypeOK
  <2>3. \A u \in Known' : InScope(u)
    BY <1>1, <1>5, <2>2 DEF OrganizationInv, WalkCovers, Walking
  <2>4. \A u \in visited' : Below(u) \subseteq Known'
    BY <1>1, <1>5 DEF OrganizationInv, WalkCovers, Walking
  <2>5. ToSet(ParentIds) \subseteq Known'
    BY <1>1, <1>5 DEF OrganizationInv, WalkCovers, Walking
  <2>6. /\ \A a \in DOMAIN found' \cap steady' : Home[a] \in visited'
        /\ \A a \in steady' : Home[a] \in visited' => a \in DOMAIN found'
    BY <1>1 DEF OrganizationInv, WalkCovers, Walking, organizationVars
  <2> QED
    BY <1>1, <2>3, <2>4, <2>5, <2>6 DEF WalkCovers
<1>11. InventoryCovers'
  BY <1>1 DEF OrganizationInv, InventoryCovers, Before, organizationVars
<1>12. PoolHolds' /\ Endings'
  BY <1>1, <1>6, PoolRests DEF Before
<1> QED
  BY <1>8, <1>9, <1>10, <1>11, <1>12 DEF OrganizationInv

LEMMA ListingFails ==
  ASSUME OrganizationInv, Inventory, ListFails
  PROVE  OrganizationInv'
<1>1. /\ phase \in {"accounts", "units"} /\ phase' = "failed"
      /\ UNCHANGED <<organizationVars, walkVars, vertices, workItems>>
  BY DEF ListFails
<1>2. UNCHANGED <<aborted, worker, item, tried, outcome, swept>> /\ todo' = workItems'
  BY DEF Inventory
<1>3. InventoryTypeOK'
  BY <1>1 DEF OrganizationInv, OrganizationTypeOK, InventoryTypeOK, organizationVars, walkVars
<1>4. OrganizationTypeOK'
  BY <1>1, <1>2, <1>3, InventoryTypes
<1>5. SeenHolds' /\ WalkCovers' /\ InventoryCovers'
  BY <1>1 DEF OrganizationInv, SeenHolds, WalkCovers, InventoryCovers, Walking, Before,
              organizationVars, walkVars
<1>6. PoolHolds' /\ Endings'
  BY <1>1, <1>2, PoolRests DEF Before
<1> QED
  BY <1>4, <1>5, <1>6 DEF OrganizationInv

(* Nothing is pending: the units visited are the units in scope.           *)
LEMMA EndsWalk ==
  ASSUME Organized, OrganizationInv, Inventory, WalkEnds
  PROVE  OrganizationInv'
<1>1. /\ phase = "walk" /\ phase' = "write" /\ pending = <<>>
      /\ DOMAIN found' = DOMAIN found \cup AccountIds
      /\ \A a \in DOMAIN found : found'[a] = found[a]
      /\ \A a \in AccountIds \ DOMAIN found : found'[a] = "ACTIVE"
      /\ UNCHANGED <<organizationVars, pending, visited, at, vertices, workItems>>
  BY DEF WalkEnds
<1>2. UNCHANGED <<aborted, worker, item, tried, outcome, swept>> /\ todo' = workItems'
  BY DEF Inventory
<1>3. InventoryTypeOK'
  <2>1. DOMAIN found' \subseteq OrganizationAccounts
    BY <1>1 DEF OrganizationInv, OrganizationTypeOK, InventoryTypeOK, Organized
  <2>2. \A a \in DOMAIN found' : found'[a] \in States
    BY <1>1 DEF OrganizationInv, OrganizationTypeOK, InventoryTypeOK, States, ToSet
  <2>3. ToSet(found') \subseteq States
    BY <2>2 DEF ToSet
  <2> QED
    BY <1>1, <2>1, <2>3 DEF OrganizationInv, OrganizationTypeOK, InventoryTypeOK, organizationVars
<1>4. OrganizationTypeOK'
  BY <1>1, <1>2, <1>3, InventoryTypes
<1>5. SeenHolds'
  BY <1>1 DEF OrganizationInv, SeenHolds, organizationVars
<1>6. Known = visited
  BY <1>1 DEF Known, ToSet
<1>7. \A u \in Units : InScope(u) <=> u \in visited
  <2>1. DownwardClosed(visited)
    BY <1>1, <1>6 DEF OrganizationInv, WalkCovers, Walking, DownwardClosed
  <2>2. visited \in SUBSET Units
    BY DEF OrganizationInv, OrganizationTypeOK, InventoryTypeOK
  <2>3. \A u \in visited : InScope(u)
    BY <1>1, <1>6 DEF OrganizationInv, WalkCovers, Walking
  <2>4. \A u \in Units : InScope(u) => u \in visited
    BY <2>1, <2>2 DEF InScope
  <2> QED
    BY <2>3, <2>4
<1>8. \A a \in steady : a \in DOMAIN found <=> Home[a] \in visited
  BY <1>1 DEF OrganizationInv, WalkCovers, Walking
<1>9. \A a \in steady : a \in DOMAIN found' <=> Selected(a)
  BY <1>1, <1>7, <1>8 DEF Selected, Organized, OrganizationInv, OrganizationTypeOK, InventoryTypeOK
<1>10. WalkCovers'
  BY <1>1 DEF WalkCovers, Walking
<1>11. InventoryCovers'
  BY <1>1, <1>9 DEF OrganizationInv, InventoryCovers, Before, organizationVars
<1>12. PoolHolds' /\ Endings'
  BY <1>1, <1>2, PoolRests DEF Before
<1> QED
  BY <1>4, <1>5, <1>10, <1>11, <1>12 DEF OrganizationInv

(* The work items are the active accounts found, in every Region.          *)
LEMMA WritesInventory ==
  ASSUME Organized, OrganizationInv, Inventory, WriteInventory
  PROVE  OrganizationInv'
<1>1. /\ phase = "write" /\ visited' = {} /\ DOMAIN found' = {}
      /\ UNCHANGED <<organizationVars, pending, at>>
  BY DEF WriteInventory
<1>2. UNCHANGED <<aborted, worker, item, tried, outcome, swept>> /\ todo' = workItems'
  BY DEF Inventory
<1>3. SeenHolds' /\ ToSet(found') = {}
  BY <1>1 DEF OrganizationInv, SeenHolds, organizationVars, ToSet
<1>4. CASE /\ vertices' = DOMAIN found /\ workItems' = BuildWorkItems(found)
           /\ phase' = "collect"
  <2>1. \A i \in workItems' : i \in WorkItem /\ i.account \in DOMAIN found
    <3> SUFFICES ASSUME NEW i \in workItems' PROVE i \in WorkItem /\ i.account \in DOMAIN found
      OBVIOUS
    <3>1. PICK a \in DOMAIN found, n \in DOMAIN CollectionRegions :
            i = [account |-> a, region |-> CollectionRegions[n], global |-> n = 1]
      BY <1>4 DEF BuildWorkItems
    <3>2. /\ a \in OrganizationAccounts /\ (n = 1) \in BOOLEAN
            /\ CollectionRegions[n] \in ToSet(CollectionRegions)
      BY DEF ToSet, OrganizationInv, OrganizationTypeOK, InventoryTypeOK
    <3> QED
      BY <3>1, <3>2 DEF WorkItem
  <2>2. ASSUME NEW a \in DOMAIN found, found[a] = "ACTIVE", NEW n \in DOMAIN CollectionRegions
        PROVE  \E i \in workItems' : i.account = a /\ i.region = CollectionRegions[n]
    <3> DEFINE i == [account |-> a, region |-> CollectionRegions[n], global |-> n = 1]
    <3>1. a \in {b \in DOMAIN found : found[b] = "ACTIVE"}
      BY <2>2
    <3>2. \E b \in {c \in DOMAIN found : found[c] = "ACTIVE"}, k \in DOMAIN CollectionRegions :
            i = [account |-> b, region |-> CollectionRegions[k], global |-> k = 1]
      BY <3>1, Zenon
    <3> HIDE DEF i
    <3>3. i \in BuildWorkItems(found)
      BY <3>2 DEF BuildWorkItems
    <3>4. i.account = a /\ i.region = CollectionRegions[n]
      BY DEF i
    <3> QED
      BY <1>4, <3>3, <3>4
  <2>3. InventoryTypeOK'
    BY <1>1, <1>3, <1>4, <2>1 DEF OrganizationInv, OrganizationTypeOK, InventoryTypeOK, organizationVars
  <2>4. workItems = {}
    BY <1>1 DEF OrganizationInv, InventoryCovers, Before
  <2>5. OrganizationTypeOK'
    BY <1>2, <2>3, <2>4, InventoryTypes
  <2>6. WalkCovers'
    BY <1>4 DEF WalkCovers, Walking
  <2>7. InventoryCovers'
    <3>1. \A a \in steady : a \in DOMAIN found <=> Selected(a)
      BY <1>1 DEF OrganizationInv, InventoryCovers
    <3>2. \A i \in workItems' : i.account \in steady' => Selected(i.account)
      BY <1>1, <2>1, <3>1 DEF organizationVars
    <3>3. ASSUME NEW a \in steady', NEW n \in DOMAIN CollectionRegions, Selected(a)
          PROVE  \E i \in workItems' : i.account = a /\ i.region = CollectionRegions[n]
      BY <1>1, <2>2, <3>1, <3>3 DEF organizationVars, OrganizationInv, SeenHolds
    <3> QED
      BY <1>4, <3>2, <3>3 DEF InventoryCovers, Before
  <2>8. /\ DOMAIN outcome = {} /\ DOMAIN swept = {}
        /\ \A w \in Workers : worker[w] \notin Busy /\ worker[w] # "gone"
    BY <1>1, <2>4 DEF OrganizationInv, OrganizationTypeOK, PoolHolds, Endings, Before
  <2>9. PoolHolds'
    BY <1>2, <1>4, <2>8 DEF PoolHolds, Before, Busy
  <2>10. Endings'
    BY <1>2, <1>4, <2>8 DEF Endings
  <2> QED
    BY <1>3, <2>5, <2>6, <2>7, <2>9, <2>10 DEF OrganizationInv
<1>5. CASE phase' = "failed" /\ UNCHANGED <<vertices, workItems>>
  <2>1. InventoryTypeOK'
    BY <1>1, <1>3, <1>5 DEF OrganizationInv, OrganizationTypeOK, InventoryTypeOK, organizationVars
  <2>2. OrganizationTypeOK'
    BY <1>2, <1>5, <2>1, InventoryTypes
  <2>3. WalkCovers' /\ InventoryCovers'
    BY <1>1, <1>5 DEF OrganizationInv, WalkCovers, InventoryCovers, Walking, Before, organizationVars
  <2>4. PoolHolds' /\ Endings'
    BY <1>1, <1>2, <1>5, PoolRests DEF Before
  <2> QED
    BY <1>3, <2>2, <2>3, <2>4 DEF OrganizationInv
<1> QED
  BY <1>4, <1>5 DEF WriteInventory

LEMMA InventoryInv ==
  ASSUME Organized, OrganizationInv, Inventory
  PROVE  OrganizationInv'
BY OrganizationChanges, TakesNextUnit, ListsAccounts, ListsUnits, ListingFails, EndsWalk,
   WritesInventory DEF Inventory, InventoryNext

-----------------------------------------------------------------------------
(* Once the work items are made the inventory stays as it is.              *)
LEMMA InventoryStands ==
  ASSUME OrganizationInv, phase' \notin Before,
         UNCHANGED <<organizationVars, walkVars, vertices, workItems>>,
         phase' \in {"collect", "sweep", "done"} => phase \in {"collect", "sweep"},
         phase' \in {"collect", "sweep", "done", "failed", "stopped"}
  PROVE  InventoryTypeOK' /\ SeenHolds' /\ WalkCovers' /\ InventoryCovers'
<1> USE DEF organizationVars, walkVars
<1>1. InventoryTypeOK' /\ SeenHolds' /\ WalkCovers'
  BY DEF OrganizationInv, OrganizationTypeOK, InventoryTypeOK, SeenHolds, WalkCovers, Walking, Before
<1>2. InventoryCovers'
  BY DEF OrganizationInv, InventoryCovers, Before
<1> QED
  BY <1>1, <1>2

LEMMA StopInv ==
  ASSUME OrganizationInv, Stop
  PROVE  OrganizationInv'
<1>1. aborted' = TRUE /\ UNCHANGED <<inventoryVars, poolVars, swept>>
  BY DEF Stop
<1> USE DEF inventoryVars, organizationVars, walkVars, poolVars
<1>2. OrganizationTypeOK'
  BY <1>1 DEF OrganizationInv, OrganizationTypeOK, InventoryTypeOK
<1>3. SeenHolds' /\ WalkCovers' /\ InventoryCovers'
  BY <1>1 DEF OrganizationInv, SeenHolds, WalkCovers, InventoryCovers, Known
<1>4. PoolHolds' /\ Endings'
  BY <1>1 DEF OrganizationInv, PoolHolds, Endings, AccountFailure
<1> QED
  BY <1>2, <1>3, <1>4 DEF OrganizationInv

-----------------------------------------------------------------------------
(* The pool.                                                               *)

LEMMA TakeInv ==
  ASSUME Organized, OrganizationInv, NEW w \in Workers, Take(w)
  PROVE  OrganizationInv'
<1>1. phase = "collect" /\ worker[w] = "idle" /\ UNCHANGED <<inventoryVars, aborted, outcome, swept>>
  BY DEF Take
<1> USE DEF inventoryVars
<1>2. InventoryTypeOK' /\ SeenHolds' /\ WalkCovers' /\ InventoryCovers'
  BY <1>1, InventoryStands DEF Before
<1>3. Endings'
  BY <1>1 DEF OrganizationInv, Endings, AccountFailure
<1>4. CASE /\ aborted \/ todo = {}
           /\ worker' = [worker EXCEPT ![w] = "gone"]
           /\ UNCHANGED <<todo, item, tried>>
  <2>1. OrganizationTypeOK'
    BY <1>1, <1>2, <1>4 DEF OrganizationInv, OrganizationTypeOK
  <2>2. PoolHolds'
    <3>1. \A v \in Workers : worker'[v] = IF v = w THEN "gone" ELSE worker[v]
      BY <1>4 DEF OrganizationInv, OrganizationTypeOK
    <3> QED
      BY <1>1, <1>4, <3>1 DEF OrganizationInv, PoolHolds, Busy, Before
  <2> QED
    BY <1>2, <1>3, <2>1, <2>2 DEF OrganizationInv
<1>5. CASE /\ ~aborted
           /\ \E i \in todo : todo' = todo \ {i} /\ item' = [item EXCEPT ![w] = i]
           /\ worker' = [worker EXCEPT ![w] = "collecting"]
           /\ tried' = [tried EXCEPT ![w] = 1]
  <2>1. PICK i \in todo : todo' = todo \ {i} /\ item' = [item EXCEPT ![w] = i]
    BY <1>5
  <2>2. i \in workItems /\ i \in WorkItem /\ 1 \in 0 .. MaxAttempts
    BY DEF OrganizationInv, OrganizationTypeOK, InventoryTypeOK, Organized
  <2>3. OrganizationTypeOK'
    BY <1>1, <1>2, <1>5, <2>1, <2>2 DEF OrganizationInv, OrganizationTypeOK
  <2>4. PoolHolds'
    <3>1. /\ \A v \in Workers : worker'[v] = IF v = w THEN "collecting" ELSE worker[v]
          /\ \A v \in Workers : item'[v] = IF v = w THEN i ELSE item[v]
          /\ \A v \in Workers : tried'[v] = IF v = w THEN 1 ELSE tried[v]
      BY <1>5, <2>1 DEF OrganizationInv, OrganizationTypeOK
    <3>2. \A v \in Workers : worker'[v] \in Busy => phase' = "collect" /\ item'[v] \in workItems'
      BY <1>1, <2>2, <3>1 DEF OrganizationInv, PoolHolds
    <3>3. \A v \in Workers : worker'[v] = "pausing" => tried'[v] < MaxAttempts
      BY <3>1 DEF OrganizationInv, PoolHolds
    <3>4. \A v \in Workers : worker'[v] = "gone" => phase' \notin Before /\ (aborted' \/ todo' = {})
      BY <1>1, <2>1, <3>1 DEF OrganizationInv, PoolHolds
    <3>5. ASSUME NEW j \in workItems'
          PROVE  \/ j \in todo' \/ j \in DOMAIN outcome'
                 \/ \E v \in Workers : worker'[v] \in Busy /\ item'[v] = j
      <4>1. CASE j = i
        BY <3>1, <4>1 DEF Busy
      <4>2. CASE j # i
        BY <1>1, <2>1, <3>1, <4>2 DEF OrganizationInv, PoolHolds, Busy
      <4> QED
        BY <4>1, <4>2
    <3> QED
      BY <3>2, <3>3, <3>4, <3>5 DEF PoolHolds
  <2> QED
    BY <1>2, <1>3, <2>3, <2>4 DEF OrganizationInv
<1> QED
  BY <1>4, <1>5 DEF Take

(* A worker that is done with its item has its outcome.                    *)
LEMMA FinishInv ==
  ASSUME Organized, OrganizationInv, NEW w \in Workers, worker[w] \in Busy,
         NEW result \in Outcomes, Finish(w, result), result = "abandoned" => aborted,
         UNCHANGED <<inventoryVars, aborted, todo, swept>>
  PROVE  OrganizationInv'
<1> USE DEF inventoryVars
<1>1. phase = "collect" /\ item[w] \in workItems
  BY DEF OrganizationInv, PoolHolds
<1>2. InventoryTypeOK' /\ SeenHolds' /\ WalkCovers' /\ InventoryCovers'
  BY <1>1, InventoryStands DEF Before
<1>3. /\ DOMAIN outcome' = DOMAIN outcome \cup {item[w]}
      /\ \A i \in DOMAIN outcome' : outcome'[i] = IF i = item[w] THEN result ELSE outcome[i]
  BY DEF Finish
<1>4. /\ worker' = [worker EXCEPT ![w] = "idle"]
      /\ item' = [item EXCEPT ![w] = NoItem] /\ tried' = [tried EXCEPT ![w] = 0]
  BY DEF Finish
<1>5. OrganizationTypeOK'
  <2>1. DOMAIN outcome' \subseteq workItems'
    BY <1>1, <1>3 DEF OrganizationInv, OrganizationTypeOK
  <2>2. \A i \in DOMAIN outcome' : outcome'[i] \in Outcomes
    BY <1>3 DEF OrganizationInv, OrganizationTypeOK, ToSet
  <2>3. ToSet(outcome') \subseteq Outcomes
    BY <2>2 DEF ToSet
  <2>4. 0 \in 0 .. MaxAttempts
    BY DEF Organized
  <2> QED
    BY <1>2, <1>4, <2>1, <2>3, <2>4 DEF OrganizationInv, OrganizationTypeOK
<1>6. PoolHolds'
  <2>1. /\ \A v \in Workers : worker'[v] = IF v = w THEN "idle" ELSE worker[v]
        /\ \A v \in Workers \ {w} : item'[v] = item[v] /\ tried'[v] = tried[v]
    BY <1>4 DEF OrganizationInv, OrganizationTypeOK
  <2>2. ASSUME NEW j \in workItems'
        PROVE  \/ j \in todo' \/ j \in DOMAIN outcome'
               \/ \E v \in Workers : worker'[v] \in Busy /\ item'[v] = j
    <3>1. CASE j = item[w]
      BY <1>3, <3>1
    <3>2. CASE j # item[w]
      BY <1>1, <1>3, <2>1, <3>2 DEF OrganizationInv, PoolHolds
    <3> QED
      BY <3>1, <3>2
  <2>3. \A v \in Workers : worker'[v] \in Busy => phase' = "collect" /\ item'[v] \in workItems'
    BY <2>1 DEF OrganizationInv, PoolHolds, Busy
  <2>4. \A v \in Workers : worker'[v] = "pausing" => tried'[v] < MaxAttempts
    BY <2>1 DEF OrganizationInv, PoolHolds
  <2>5. \A v \in Workers : worker'[v] = "gone" => phase' \notin Before /\ (aborted' \/ todo' = {})
    BY <2>1 DEF OrganizationInv, PoolHolds
  <2> QED
    BY <2>2, <2>3, <2>4, <2>5 DEF PoolHolds
<1>7. Endings'
  <2>1. \A i \in DOMAIN outcome' : outcome'[i] = "abandoned" => aborted'
    BY <1>3 DEF OrganizationInv, Endings
  <2>2. DOMAIN swept' = {} /\ phase' = "collect"
    BY <1>1 DEF OrganizationInv, Endings
  <2> QED
    BY <2>1, <2>2 DEF Endings
<1> QED
  BY <1>2, <1>5, <1>6, <1>7 DEF OrganizationInv

(* Between two attempts a worker keeps its item.                           *)
LEMMA KeepsItem ==
  ASSUME Organized, OrganizationInv, NEW w \in Workers, worker[w] \in Busy,
         NEW state \in Busy, worker' = [worker EXCEPT ![w] = state],
         tried' \in [Workers -> 0 .. MaxAttempts],
         \A v \in Workers : v # w => tried'[v] = tried[v],
         state = "pausing" => tried'[w] < MaxAttempts,
         UNCHANGED <<inventoryVars, aborted, todo, item, outcome, swept>>
  PROVE  OrganizationInv'
<1> USE DEF inventoryVars
<1>1. phase = "collect" /\ item[w] \in workItems
  BY DEF OrganizationInv, PoolHolds
<1>2. InventoryTypeOK' /\ SeenHolds' /\ WalkCovers' /\ InventoryCovers'
  BY <1>1, InventoryStands DEF Before
<1>3. OrganizationTypeOK'
  BY <1>2 DEF OrganizationInv, OrganizationTypeOK, Busy
<1>4. PoolHolds'
  <2>1. \A v \in Workers : worker'[v] = IF v = w THEN state ELSE worker[v]
    BY DEF OrganizationInv, OrganizationTypeOK
  <2>2. \A v \in Workers : worker'[v] \in Busy <=> worker[v] \in Busy
    BY <2>1
  <2>3. \A v \in Workers : worker'[v] = "gone" => worker[v] = "gone"
    BY <2>1 DEF Busy
  <2>4. \A v \in Workers : worker'[v] = "pausing" => tried'[v] < MaxAttempts
    BY <2>1 DEF OrganizationInv, PoolHolds
  <2> QED
    BY <2>2, <2>3, <2>4 DEF OrganizationInv, PoolHolds
<1>5. Endings'
  BY DEF OrganizationInv, Endings, AccountFailure
<1> QED
  BY <1>2, <1>3, <1>4, <1>5 DEF OrganizationInv

LEMMA WorkerInv ==
  ASSUME Organized, OrganizationInv, NEW w \in Workers,
         Collected(w) \/ Incomplete(w) \/ RetryItem(w)
  PROVE  OrganizationInv'
<1>1. UNCHANGED <<inventoryVars, aborted, todo, swept>> /\ worker[w] \in Busy
  BY DEF Collected, Incomplete, RetryItem, Busy
<1>2. CASE Collected(w)
  <2>1. PICK result \in {"collected", "degraded"} : Finish(w, result)
    BY <1>2 DEF Collected
  <2> QED
    BY <1>1, <2>1, FinishInv DEF Outcomes
<1>3. CASE GiveUp(w)
  BY <1>1, <1>3, FinishInv DEF GiveUp, Outcomes
<1>4. CASE Incomplete(w) /\ ~GiveUp(w)
  <2>1. /\ tried[w] < MaxAttempts /\ worker' = [worker EXCEPT ![w] = "pausing"]
        /\ UNCHANGED <<item, tried, outcome>>
    BY <1>4 DEF Incomplete
  <2>2. tried' \in [Workers -> 0 .. MaxAttempts]
    BY <2>1 DEF OrganizationInv, OrganizationTypeOK
  <2> QED
    BY <1>1, <2>1, <2>2, KeepsItem DEF Busy
<1>5. CASE RetryItem(w) /\ ~GiveUp(w)
  <2>1. /\ worker[w] = "pausing" /\ worker' = [worker EXCEPT ![w] = "collecting"]
        /\ tried' = [tried EXCEPT ![w] = @ + 1] /\ UNCHANGED <<item, outcome>>
    BY <1>5 DEF RetryItem
  <2>2. tried[w] \in 0 .. MaxAttempts /\ tried[w] < MaxAttempts /\ MaxAttempts \in Nat
    BY <2>1 DEF OrganizationInv, OrganizationTypeOK, PoolHolds, Organized
  <2>3. tried[w] + 1 \in 0 .. MaxAttempts
    BY <2>2
  <2>4. tried' \in [Workers -> 0 .. MaxAttempts] /\ \A v \in Workers : v # w => tried'[v] = tried[v]
    BY <2>1, <2>3 DEF OrganizationInv, OrganizationTypeOK
  <2> QED
    BY <1>1, <2>1, <2>4, KeepsItem DEF Busy
<1> QED
  BY <1>2, <1>3, <1>4, <1>5

-----------------------------------------------------------------------------
(* The end of the pool, and the sweep.                                     *)

LEMMA PoolEndsInv ==
  ASSUME Organized, OrganizationInv, PoolEnds
  PROVE  OrganizationInv'
<1> USE DEF organizationVars, walkVars, poolVars
<1>1. /\ phase = "collect" /\ phase' \in {"stopped", "sweep", "done", "failed"}
      /\ \A w \in Workers : worker[w] = "gone"
      /\ UNCHANGED <<organizationVars, walkVars, vertices, workItems, aborted, poolVars, swept>>
  BY DEF PoolEnds, RunEnds
<1>2. InventoryTypeOK' /\ SeenHolds' /\ WalkCovers' /\ InventoryCovers'
  BY <1>1, InventoryStands DEF Before
<1>3. OrganizationTypeOK'
  BY <1>1, <1>2 DEF OrganizationInv, OrganizationTypeOK
<1>4. PoolHolds'
  BY <1>1 DEF OrganizationInv, PoolHolds, Busy, Before
<1>5. Endings'
  <2>1. DOMAIN swept = {}
    BY <1>1 DEF OrganizationInv, Endings
  <2>2. ASSUME ~aborted
        PROVE  /\ DOMAIN outcome = workItems
               /\ \A i \in DOMAIN outcome : outcome[i] # "abandoned"
    <3>1. todo = {}
      BY <1>1, <2>2 DEF OrganizationInv, PoolHolds, Organized
    <3>2. \A w \in Workers : worker[w] \notin Busy
      BY <1>1 DEF Busy
    <3>3. workItems \subseteq DOMAIN outcome
      BY <1>1, <3>1, <3>2 DEF OrganizationInv, PoolHolds
    <3> QED
      BY <2>2, <3>3 DEF OrganizationInv, OrganizationTypeOK, Endings
  <2>3. CASE aborted /\ phase' = "stopped"
    BY <1>1, <2>1, <2>3 DEF OrganizationInv, Endings
  <2>4. CASE ~aborted /\ SweepRegions # {} /\ phase' = "sweep"
    BY <1>1, <2>1, <2>2, <2>4 DEF Endings
  <2>5. CASE ~aborted /\ SweepRegions = {} /\ RunEnds
    BY <1>1, <2>1, <2>2, <2>5 DEF Endings, RunEnds, AccountFailure
  <2> QED
    BY <2>3, <2>4, <2>5 DEF PoolEnds
<1> QED
  BY <1>2, <1>3, <1>4, <1>5 DEF OrganizationInv

LEMMA SweepInv ==
  ASSUME Organized, OrganizationInv, Sweep
  PROVE  OrganizationInv'
<1> USE DEF organizationVars, walkVars, poolVars
<1>1. /\ phase = "sweep" /\ phase' \in {"sweep", "done", "failed"}
      /\ UNCHANGED <<organizationVars, walkVars, vertices, workItems, aborted, poolVars>>
  BY DEF Sweep, RunEnds
<1>2. InventoryTypeOK' /\ SeenHolds' /\ WalkCovers' /\ InventoryCovers'
  BY <1>1, InventoryStands DEF Before
<1>3. OrganizationTypeOK'
  <2>1. PICK r \in SweepRegions \ DOMAIN swept, result \in {"SUCCEEDED", "NO_DETECTOR", "FAILED"} :
          swept' = [s \in DOMAIN swept \cup {r} |-> IF s = r THEN result ELSE swept[s]]
    BY DEF Sweep
  <2>2. DOMAIN swept' \subseteq SweepRegions
    BY <2>1 DEF OrganizationInv, OrganizationTypeOK
  <2>3. \A s \in DOMAIN swept' : swept'[s] \in {"SUCCEEDED", "NO_DETECTOR", "FAILED"}
    BY <2>1 DEF OrganizationInv, OrganizationTypeOK, ToSet
  <2>4. ToSet(swept') \subseteq {"SUCCEEDED", "NO_DETECTOR", "FAILED"}
    BY <2>3 DEF ToSet
  <2> QED
    BY <1>1, <1>2, <2>2, <2>4 DEF OrganizationInv, OrganizationTypeOK
<1>4. PoolHolds'
  BY <1>1 DEF OrganizationInv, PoolHolds, Before
<1>5. Endings'
  <2>1. DOMAIN outcome = workItems /\ \A i \in DOMAIN outcome : outcome[i] # "abandoned"
    BY <1>1 DEF OrganizationInv, Endings
  <2>2. phase' = "sweep" \/ (DOMAIN swept' = SweepRegions /\ RunEnds)
    BY <1>1 DEF Sweep
  <2> QED
    BY <1>1, <2>1, <2>2 DEF Endings, RunEnds, AccountFailure
<1> QED
  BY <1>2, <1>3, <1>4, <1>5 DEF OrganizationInv

-----------------------------------------------------------------------------
LEMMA OrganizationStep ==
  ASSUME Organized, OrganizationInv, [OrganizationNext]_organizationRunVars
  PROVE  OrganizationInv'
<1>1. CASE UNCHANGED organizationRunVars
  BY <1>1 DEF OrganizationInv, OrganizationTypeOK, InventoryTypeOK, SeenHolds, WalkCovers, Known,
              InventoryCovers, PoolHolds, Endings, AccountFailure, organizationRunVars,
              inventoryVars, organizationVars, walkVars, poolVars
<1>2. CASE OrganizationNext
  BY <1>2, InventoryInv, StopInv, TakeInv, WorkerInv, PoolEndsInv, SweepInv DEF OrganizationNext
<1> QED
  BY <1>1, <1>2

LEMMA InvCovers ==
  ASSUME OrganizationInv
  PROVE  AccountsAreCovered
<1>1. SteadyAccountsCovered
  <2>1. \A i \in workItems : i.account \in steady => Selected(i.account)
    BY DEF OrganizationInv, InventoryCovers
  <2>2. ASSUME phase = "done", NEW a \in steady, NEW n \in DOMAIN CollectionRegions, Selected(a)
        PROVE  \E i \in DOMAIN outcome :
                 /\ i.account = a /\ i.region = CollectionRegions[n]
                 /\ outcome[i] \in {"collected", "degraded"}
    <3>1. PICK i \in workItems : i.account = a /\ i.region = CollectionRegions[n]
      BY <2>2 DEF OrganizationInv, InventoryCovers
    <3>2. i \in DOMAIN outcome /\ outcome[i] \notin {"abandoned", "failed"}
      BY <2>2, <3>1 DEF OrganizationInv, Endings, AccountFailure
    <3>3. outcome[i] \in Outcomes
      BY <3>2 DEF OrganizationInv, OrganizationTypeOK, ToSet
    <3> QED
      BY <3>1, <3>2, <3>3 DEF Outcomes
  <2> QED
    BY <2>1, <2>2 DEF SteadyAccountsCovered
<1>2. SweepAfterEveryAccount
  BY DEF OrganizationInv, Endings, SweepAfterEveryAccount
<1> QED
  BY <1>1, <1>2 DEF OrganizationInv, AccountsAreCovered

(* A run covers what is configured, in every organization: an account that   *)
(* neither moved nor closed during the walk has an outcome in every Region    *)
(* when the run ends well if it is selected and no work item if it is not,    *)
(* and GuardDuty is swept when every work item has its outcome.               *)
THEOREM Covered == Organized => (OrganizationSpec => []AccountsAreCovered)
<1> SUFFICES ASSUME Organized PROVE OrganizationSpec => []AccountsAreCovered
  OBVIOUS
<1>1. OrganizationInit => OrganizationInv
  BY OrganizationStart
<1>2. OrganizationInv /\ [OrganizationNext]_organizationRunVars => OrganizationInv'
  BY OrganizationStep
<1>3. OrganizationInv => AccountsAreCovered
  BY InvCovers
<1> QED
  BY <1>1, <1>2, <1>3, PTL DEF OrganizationSpec
=============================================================================
