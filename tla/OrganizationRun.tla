---------------------------- MODULE OrganizationRun ----------------------------
(* One run of the organization collector, in two parts. The inventory: which   *)
(* accounts the run covers, those below the configured parents, found by a     *)
(* walk over the organization with one list call at a time while accounts move *)
(* and close, and the accounts listed by id; it is written as one mutation     *)
(* that reconciles the account vertices, and turned into one work item for     *)
(* each active account and Region. The pool: workers that collect the work     *)
(* items in a shuffled order with attempts and pauses, then the GuardDuty      *)
(* sweep over the administrator account's Regions. SIGTERM may come at any     *)
(* time.                                                                       *)
EXTENDS Naturals, Sequences, SequencesExt, FiniteSets

CONSTANTS OrganizationAccounts,
          Units,             \* roots and organizational units
          Home,              \* the unit each account starts in
          Above,             \* the unit each unit is in, or the unit itself
          ParentIds,         \* COLLECTION_PARENT_IDS, a sequence
          AccountIds,        \* COLLECTION_ACCOUNT_IDS
          CollectionRegions, \* COLLECTION_REGIONS, a sequence
          MaxChanges         \* moves and closures during a run (a bound)

VARIABLES home, closed,      \* the organization: where accounts are, which ended
          steady,            \* history: accounts untouched since the walk began
          phase,             \* the run's step
          pending, visited, at,  \* the walk: its queue, its set, its unit
          found,             \* the accounts it has seen, with their state
          vertices,          \* the account vertices in the graph
          workItems          \* what the run goes on with

organizationVars == <<home, closed, steady>>
walkVars == <<pending, visited, at, found>>
inventoryVars == <<organizationVars, phase, walkVars, vertices, workItems>>

States == {"ACTIVE", "SUSPENDED"}
WorkItem == [account : OrganizationAccounts, region : ToSet(CollectionRegions), global : BOOLEAN]
Nowhere == "nowhere"

InventoryTypeOK ==
  /\ home \in [OrganizationAccounts -> Units]
  /\ closed \subseteq OrganizationAccounts
  /\ steady \subseteq OrganizationAccounts
  /\ phase \in {"walk", "accounts", "units", "write", "collect", "sweep",
                "done", "failed", "stopped"}
  /\ pending \in Seq(Units)
  /\ visited \subseteq Units
  /\ at \in Units \cup {Nowhere}
  /\ DOMAIN found \subseteq OrganizationAccounts /\ ToSet(found) \subseteq States
  /\ vertices \subseteq OrganizationAccounts
  /\ workItems \subseteq WorkItem

InventoryInit ==
  /\ home = Home
  /\ closed = {}
  /\ steady = OrganizationAccounts
  /\ phase = "walk"
  /\ pending = ParentIds
  /\ visited = {}
  /\ at = Nowhere
  /\ found = [a \in {} |-> "ACTIVE"]
  /\ vertices = OrganizationAccounts
  /\ workItems = {}

-----------------------------------------------------------------------------
(* The organization. *)

Changes == Cardinality(OrganizationAccounts \ steady)

Move(a, u) ==
  /\ phase \in {"walk", "accounts", "units", "write"}
  /\ Changes < MaxChanges
  /\ a \in steady
  /\ home[a] # u
  /\ home' = [home EXCEPT ![a] = u]
  /\ steady' = steady \ {a}
  /\ UNCHANGED <<closed, phase, walkVars, vertices, workItems>>

Close(a) ==
  /\ phase \in {"walk", "accounts", "units", "write"}
  /\ Changes < MaxChanges
  /\ a \in steady
  /\ closed' = closed \cup {a}
  /\ steady' = steady \ {a}
  /\ UNCHANGED <<home, phase, walkVars, vertices, workItems>>

-----------------------------------------------------------------------------
(* The walk. *)

StateOf(a) == IF a \in closed THEN "SUSPENDED" ELSE "ACTIVE"

\* found with the accounts S as they are now; what is seen later wins.
Seen(S) == [a \in DOMAIN found \cup S |-> IF a \in S THEN StateOf(a) ELSE found[a]]

\* The next unit; one that was visited is passed over.
NextParent ==
  /\ phase = "walk"
  /\ pending # <<>>
  /\ pending' = Tail(pending)
  /\ IF Head(pending) \in visited
       THEN UNCHANGED <<phase, visited, at>>
       ELSE /\ visited' = visited \cup {Head(pending)}
            /\ at' = Head(pending)
            /\ phase' = "accounts"
  /\ UNCHANGED <<organizationVars, found, vertices, workItems>>

ListAccounts ==
  /\ phase = "accounts"
  /\ found' = Seen({a \in OrganizationAccounts : home[a] = at})
  /\ phase' = "units"
  /\ UNCHANGED <<organizationVars, pending, visited, at, vertices, workItems>>

Below(u) == {v \in Units \ {u} : Above[v] = u}

\* Mutant: the units below are taken for visited when they are found.
ListUnitsVisited ==
  /\ phase = "units"
  /\ pending' = pending \o SetToSeq(Below(at))
  /\ visited' = visited \cup Below(at)
  /\ at' = Nowhere
  /\ phase' = "walk"
  /\ UNCHANGED <<organizationVars, found, vertices, workItems>>

ListUnits ==
  /\ phase = "units"
  /\ pending' = pending \o SetToSeq(Below(at))
  /\ at' = Nowhere
  /\ phase' = "walk"
  /\ UNCHANGED <<organizationVars, visited, found, vertices, workItems>>

\* A list call throws: the run ends before anything was written.
ListFails ==
  /\ phase \in {"accounts", "units"}
  /\ phase' = "failed"
  /\ UNCHANGED <<organizationVars, walkVars, vertices, workItems>>

\* Nothing is pending: listed accounts the walk did not find are taken as active.
WalkEnds ==
  /\ phase = "walk"
  /\ pending = <<>>
  /\ found' = [a \in DOMAIN found \cup AccountIds |->
                 IF a \in DOMAIN found THEN found[a] ELSE "ACTIVE"]
  /\ phase' = "write"
  /\ UNCHANGED <<organizationVars, pending, visited, at, vertices, workItems>>

-----------------------------------------------------------------------------
(* The mutation and the work items. *)

\* Every active account in every Region; the first Region also collects what is
\* global to the account.
BuildWorkItems(accounts) ==
  {[account |-> a, region |-> CollectionRegions[i], global |-> i = 1] :
     a \in {b \in DOMAIN accounts : accounts[b] = "ACTIVE"}, i \in DOMAIN CollectionRegions}

WriteInventory ==
  /\ phase = "write"
  /\ \/ /\ vertices' = DOMAIN found
        /\ workItems' = BuildWorkItems(found)
        /\ phase' = "collect"
     \/ /\ phase' = "failed"
        /\ UNCHANGED <<vertices, workItems>>
  /\ visited' = {}
  /\ found' = [a \in {} |-> "ACTIVE"]
  /\ UNCHANGED <<organizationVars, pending, at>>

InventoryNext ==
  \/ \E a \in OrganizationAccounts : Close(a) \/ \E u \in Units : Move(a, u)
  \/ NextParent \/ ListAccounts \/ ListUnits \/ ListFails \/ WalkEnds
  \/ WriteInventory

-----------------------------------------------------------------------------
(* The pool of workers and the sweep. *)

CONSTANTS Workers,          \* COLLECTION_CONCURRENCY workers
          MaxAttempts,      \* COLLECTION_MAX_ATTEMPTS
          SweepRegions,     \* GUARDDUTY_FINDING_REGIONS, empty when unset
          NoItem

\* What the proofs ask of the parameters: an organization of finitely many units
\* and at least one worker.
Organized ==
  /\ IsFiniteSet(Units) /\ ParentIds \in Seq(Units)
  /\ Home \in [OrganizationAccounts -> Units] /\ AccountIds \subseteq OrganizationAccounts
  /\ Workers # {} /\ MaxAttempts \in Nat \ {0}

VARIABLES aborted,          \* the signal
          todo,             \* work items no worker has taken
          worker,           \* per worker: starting, collecting, pausing, gone
          item, tried,      \* per worker: its item and its attempts
          outcome,          \* per work item: how its collection ended
          swept             \* per Region of the sweep: its result

poolVars == <<todo, worker, item, tried, outcome>>
organizationRunVars == <<inventoryVars, aborted, poolVars, swept>>

Outcomes == {"collected", "degraded", "failed", "abandoned"}

OrganizationTypeOK ==
  /\ InventoryTypeOK
  /\ aborted \in BOOLEAN
  /\ todo \subseteq workItems
  /\ worker \in [Workers -> {"idle", "collecting", "pausing", "gone"}]
  /\ item \in [Workers -> WorkItem \cup {NoItem}]
  /\ tried \in [Workers -> 0 .. MaxAttempts]
  /\ DOMAIN outcome \subseteq workItems /\ ToSet(outcome) \subseteq Outcomes
  /\ DOMAIN swept \subseteq SweepRegions
  /\ ToSet(swept) \subseteq {"SUCCEEDED", "NO_DETECTOR", "FAILED"}

OrganizationInit ==
  /\ InventoryInit
  /\ aborted = FALSE
  /\ todo = {}
  /\ worker = [w \in Workers |-> "idle"]
  /\ item = [w \in Workers |-> NoItem]
  /\ tried = [w \in Workers |-> 0]
  /\ outcome = [i \in {} |-> "failed"]
  /\ swept = [r \in {} |-> "FAILED"]

Stop ==
  /\ phase \notin {"done", "failed", "stopped"}
  /\ aborted' = TRUE
  /\ UNCHANGED <<inventoryVars, poolVars, swept>>

Inventory ==
  /\ InventoryNext
  /\ todo' = workItems'
  /\ UNCHANGED <<aborted, worker, item, tried, outcome, swept>>

-----------------------------------------------------------------------------
(* A worker of the pool. *)

\* It leaves when the run is stopped or nothing is left, or takes one more item.
Take(w) ==
  /\ phase = "collect"
  /\ worker[w] = "idle"
  /\ \/ /\ aborted \/ todo = {}
        /\ worker' = [worker EXCEPT ![w] = "gone"]
        /\ UNCHANGED <<todo, item, tried>>
     \/ /\ ~aborted
        /\ \E i \in todo :
             /\ todo' = todo \ {i}
             /\ item' = [item EXCEPT ![w] = i]
        /\ worker' = [worker EXCEPT ![w] = "collecting"]
        /\ tried' = [tried EXCEPT ![w] = 1]
  /\ UNCHANGED <<inventoryVars, aborted, outcome, swept>>

Finish(w, result) ==
  /\ outcome' = [i \in DOMAIN outcome \cup {item[w]} |->
                   IF i = item[w] THEN result ELSE outcome[i]]
  /\ worker' = [worker EXCEPT ![w] = "idle"]
  /\ item' = [item EXCEPT ![w] = NoItem]
  /\ tried' = [tried EXCEPT ![w] = 0]

\* Every stage succeeded, or those that failed would fail again.
Collected(w) ==
  /\ worker[w] = "collecting"
  /\ \E result \in {"collected", "degraded"} : Finish(w, result)
  /\ UNCHANGED <<inventoryVars, aborted, todo, swept>>

\* After the last attempt, or when the run is stopped, the item is given up;
\* only the former counts as a failure.
GiveUp(w) == Finish(w, IF aborted THEN "abandoned" ELSE "failed")

\* The collection threw or some stage may succeed later.
Incomplete(w) ==
  /\ worker[w] = "collecting"
  /\ \/ /\ tried[w] < MaxAttempts
        /\ worker' = [worker EXCEPT ![w] = "pausing"]
        /\ UNCHANGED <<item, tried, outcome>>
     \/ tried[w] = MaxAttempts /\ GiveUp(w)
  /\ UNCHANGED <<inventoryVars, aborted, todo, swept>>

\* The pause ends by itself or by the signal.
RetryItem(w) ==
  /\ worker[w] = "pausing"
  /\ \/ /\ ~aborted
        /\ worker' = [worker EXCEPT ![w] = "collecting"]
        /\ tried' = [tried EXCEPT ![w] = @ + 1]
        /\ UNCHANGED <<item, outcome>>
     \/ aborted /\ GiveUp(w)
  /\ UNCHANGED <<inventoryVars, aborted, todo, swept>>

\* Some item's collection failed.
AccountFailure == \E i \in DOMAIN outcome : outcome[i] = "failed"

RunEnds == phase' = IF AccountFailure THEN "failed" ELSE "done"

\* All workers have left. A stopped run ends here, without an error.
PoolEnds ==
  /\ phase = "collect"
  /\ \A w \in Workers : worker[w] = "gone"
  /\ \/ aborted /\ phase' = "stopped"
     \/ ~aborted /\ SweepRegions # {} /\ phase' = "sweep"
     \/ ~aborted /\ SweepRegions = {} /\ RunEnds
  /\ UNCHANGED <<organizationVars, walkVars, vertices, workItems, aborted, poolVars, swept>>

\* One Region after the other; a failed one is recorded and passed over. The
\* failure of an account is thrown when the sweep is over.
Sweep ==
  /\ phase = "sweep"
  /\ \E r \in SweepRegions \ DOMAIN swept, result \in {"SUCCEEDED", "NO_DETECTOR", "FAILED"} :
       swept' = [s \in DOMAIN swept \cup {r} |-> IF s = r THEN result ELSE swept[s]]
  /\ \/ DOMAIN swept' # SweepRegions /\ phase' = phase
     \/ DOMAIN swept' = SweepRegions /\ RunEnds
  /\ UNCHANGED <<organizationVars, walkVars, vertices, workItems, aborted, poolVars>>

OrganizationNext ==
  \/ Inventory
  \/ Stop
  \/ \E w \in Workers : Take(w) \/ Collected(w) \/ Incomplete(w) \/ RetryItem(w)
  \/ PoolEnds
  \/ Sweep

OrganizationSpec == OrganizationInit /\ [][OrganizationNext]_organizationRunVars

-----------------------------------------------------------------------------
(* Properties. *)

\* The units the configuration selects: the parents and all below them, which is
\* to say the units in every set that holds the parents and what is below it.
DownwardClosed(units) ==
  ToSet(ParentIds) \subseteq units /\ \A u \in units : Below(u) \subseteq units

InScope(u) == \A units \in SUBSET Units : DownwardClosed(units) => u \in units

Selected(a) == InScope(Home[a]) \/ a \in AccountIds

\* A run covers exactly what is configured as far as the organization holds
\* still: an account that neither moved nor closed during the walk has an
\* outcome in every Region when the run ends well if it is selected, and no work
\* item if it is not (listAccountsForParents, buildWorkItems, runOrganization).
SteadyAccountsCovered ==
  /\ \A i \in workItems : i.account \in steady => Selected(i.account)
  /\ phase = "done" =>
       \A a \in steady, n \in DOMAIN CollectionRegions :
         Selected(a) =>
           \E i \in DOMAIN outcome :
             /\ i.account = a /\ i.region = CollectionRegions[n]
             /\ outcome[i] \in {"collected", "degraded"}

\* "After every account, so DETECTS_ON edges find the resource vertices this
\* sweep just wrote" (runtime/index.ts:552), and a failed account neither skips
\* the sweep nor is forgotten by it.
SweepAfterEveryAccount ==
  /\ DOMAIN swept # {} => DOMAIN outcome = workItems
  /\ phase = "done" => ~AccountFailure
  /\ phase = "failed" /\ DOMAIN outcome # {} => AccountFailure /\ DOMAIN swept = SweepRegions

\* An account that was active and in scope throughout a run is collected or
\* reported missing, although others move while the units are walked; and
\* GuardDuty is swept only after every account has had its turn.
AccountsAreCovered ==
  OrganizationTypeOK /\ SteadyAccountsCovered /\ SweepAfterEveryAccount
=============================================================================
