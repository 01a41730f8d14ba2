----------------------------- MODULE Maintenance -----------------------------
(***************************************************************************)
(* ControlPlaneMaintenance of apps/control-plane and the claim queries it  *)
(* uses: several Control Plane instances reap expired resource leases and  *)
(* prune old artifacts out of the same PostgreSQL tables.                  *)
(*                                                                         *)
(* A lease row and an artifact row go through the same steps, so both are  *)
(* items.  An item is due once its lease has expired, or once its artifact *)
(* is older than the retention and its run has a terminal status.  A claim *)
(* is a timestamp in the row; claim[x] names the cycle that wrote it,      *)
(* which the code itself never looks at: it only sees whether the time has *)
(* passed.                                                                 *)
(***************************************************************************)
EXTENDS Naturals, FiniteSets

CONSTANTS
  ControlPlane,     \* Control Plane instances
  Lease,         \* rows of resource_leases
  Artifact,      \* rows of artifacts
  Hopeless,      \* leases of a type without a cleaner, artifacts whose location
                 \* LocalArtifactCleaner refuses
  Age,           \* Age[x]: the order of expires_at and created_at, oldest first
  Batch,         \* batchSize
  MaxFaults,     \* bound: cleaner or database calls that fail
  MaxCrashes     \* bound: crashes of instances

Item == Lease \cup Artifact

ASSUME ItemAssumption ==
  /\ Lease \cap Artifact = {} /\ Hopeless \subseteq Item
  /\ Age \in [Item -> Nat]
  /\ \A x, y \in Item : Age[x] = Age[y] => x = y
ASSUME BoundAssumption ==
  /\ Batch \in Nat \ {0} /\ MaxFaults \in Nat /\ MaxCrashes \in Nat
ASSUME NameAssumption == {"none", "dead", "lapsed"} \cap ControlPlane = {}

VARIABLES
  row,        \* row[x]: "ACTIVE", or "SETTLED": released, or deleted
  real,       \* real[x]: the resource, or the file, exists
  due,        \* items that are due
  claim,      \* claim[x]: "none", the instance whose cycle claimed x, "dead" if
              \* that cycle is over, or "lapsed" once claimed_until has passed
  cycle,      \* cycle[i]: what the cycle of instance i is doing, or "idle"
  batch,      \* batch[i]: claimed items the cycle has not begun
  item,       \* item[i]: the item in hand
  late,       \* instances whose cycle is older than the claim TTL
  overran,    \* history: some cycle was
  faults, crashes

rowVars == <<row, real, due, claim>>
vars == <<rowVars, cycle, batch, item, late, overran, faults, crashes>>

Init ==
  /\ row = [x \in Item |-> "ACTIVE"] /\ real = [x \in Item |-> TRUE] /\ due = {}
  /\ claim = [x \in Item |-> "none"]
  /\ cycle = [i \in ControlPlane |-> "idle"] /\ batch = [i \in ControlPlane |-> {}]
  /\ item = [i \in ControlPlane |-> "none"]
  /\ late = {} /\ overran = FALSE /\ faults = 0 /\ crashes = 0

\* A call succeeds, or is one of the MaxFaults that fail.  A call that is
\* carried out and whose answer is lost leaves the same state as one that
\* succeeds when the next call of the cycle fails, or the cycle crashes.
Call(ok) == \/ ok /\ UNCHANGED faults
            \/ ~ok /\ faults < MaxFaults /\ faults' = faults + 1

-----------------------------------------------------------------------------
(* The claim queries                                                       *)

\* Mutant: rows under a live claim are candidates too.
claimable_Always(S) == {x \in S : x \in due /\ row[x] = "ACTIVE"}

\* Mutant: a claim never lapses.
claimable_Unclaimed(S) == {x \in S : x \in due /\ row[x] = "ACTIVE" /\ claim[x] = "none"}

claimable(S) ==
  {x \in S : x \in due /\ row[x] = "ACTIVE" /\ claim[x] \in {"none", "lapsed"}}

\* ORDER BY ... LIMIT: the oldest candidates, at most Batch of them.
candidates(S) ==
  {x \in claimable(S) : Cardinality({y \in claimable(S) : Age[y] < Age[x]}) < Batch}

\* Claim rows of S.  claimUntil was computed when the cycle started: what a
\* late cycle writes has already passed.
Claim(i, S) ==
  /\ batch' = [batch EXCEPT ![i] = candidates(S)]
  /\ claim' = [x \in Item |-> IF x \in candidates(S)
                              THEN IF i \in late THEN "lapsed" ELSE i
                              ELSE claim[x]]

\* Mutant: a failed cleanup settles the row.
recordFailure_Settles(x) == row' = [row EXCEPT ![x] = "SETTLED"] /\ UNCHANGED claim

\* recordResourceLeaseCleanupFailure, recordArtifactDeletionFailure: the
\* claim is cleared, whoever holds it by now.
recordFailure(x) ==
  /\ claim' = IF row[x] = "ACTIVE" THEN [claim EXCEPT ![x] = "none"] ELSE claim
  /\ UNCHANGED row

\* releaseResourceLease, deleteArtifactRecord.
Settle(x) == row' = [row EXCEPT ![x] = "SETTLED"] /\ claim' = [claim EXCEPT ![x] = "none"]

-----------------------------------------------------------------------------
(* One cycle                                                               *)

SetCycle(i, s) == cycle' = [cycle EXCEPT ![i] = s]

\* The cycle is over; claims it leaves behind wait for their time to pass.
End(i, crashed) ==
  /\ SetCycle(i, "idle")
  /\ batch' = [batch EXCEPT ![i] = {}] /\ item' = [item EXCEPT ![i] = "none"]
  /\ late' = late \ {i}
  /\ claim' = [x \in Item |-> IF claim[x] = i THEN "dead" ELSE claim[x]]
  /\ crashes' = IF crashed THEN crashes + 1 ELSE crashes

\* run(): at startup, by the timer or the endpoint; a running cycle is shared.
Run(i) ==
  /\ cycle[i] = "idle"
  /\ SetCycle(i, "claiming leases")
  /\ UNCHANGED <<rowVars, batch, item, late, overran, faults, crashes>>

ClaimLeases(i, ok) ==
  /\ cycle[i] = "claiming leases" /\ Call(ok)
  /\ \/ ok /\ Claim(i, Lease) /\ SetCycle(i, "leases") /\ UNCHANGED <<item, late, crashes>>
     \/ ~ok /\ End(i, FALSE)
  /\ UNCHANGED <<row, real, due, overran>>

ClaimArtifacts(i, ok) ==
  /\ cycle[i] = "claiming artifacts" /\ Call(ok)
  /\ \/ ok /\ Claim(i, Artifact) /\ SetCycle(i, "artifacts") /\ UNCHANGED <<item, late, crashes>>
     \/ ~ok /\ End(i, FALSE)
  /\ UNCHANGED <<row, real, due, overran>>

\* The next item of the batch; a hopeless one fails at once.
Take(i, x) ==
  /\ cycle[i] \in {"leases", "artifacts"} /\ x \in batch[i]
  /\ batch' = [batch EXCEPT ![i] = @ \ {x}] /\ item' = [item EXCEPT ![i] = x]
  /\ SetCycle(i, IF x \in Hopeless THEN "failing" ELSE "cleaning")
  /\ UNCHANGED <<rowVars, late, overran, faults, crashes>>

itemRest == <<due, batch, late, overran, crashes>>

\* The cleaner, or the deletion of the file: idempotent.
Clean(i, ok) ==
  /\ cycle[i] = "cleaning" /\ Call(ok)
  /\ real' = IF ok THEN [real EXCEPT ![item[i]] = FALSE] ELSE real
  /\ SetCycle(i, IF ok THEN "settling" ELSE "failing")
  /\ UNCHANGED <<row, claim, item>> /\ UNCHANGED itemRest

SettleItem(i, ok) ==
  /\ cycle[i] = "settling" /\ Call(ok)
  /\ \/ ok /\ Settle(item[i]) /\ SetCycle(i, "logging")
     \/ ~ok /\ SetCycle(i, "failing") /\ UNCHANGED <<row, claim>>
  /\ UNCHANGED <<real, item>> /\ UNCHANGED itemRest

\* Back to the loop the item belongs to.
Done(i) ==
  /\ SetCycle(i, IF item[i] \in Lease THEN "leases" ELSE "artifacts")
  /\ item' = [item EXCEPT ![i] = "none"]

\* The timeline; failing here takes the settled item to the failure branch.
LogSettled(i, ok) ==
  /\ cycle[i] = "logging" /\ Call(ok)
  /\ \/ ok /\ Done(i)
     \/ ~ok /\ SetCycle(i, "failing") /\ UNCHANGED item
  /\ UNCHANGED <<row, real, claim>> /\ UNCHANGED itemRest

\* Failing to store a failure ends the cycle.
RecordFailure(i, ok) ==
  /\ cycle[i] = "failing" /\ Call(ok)
  /\ \/ /\ ok /\ recordFailure(item[i]) /\ SetCycle(i, "logging failure")
        /\ UNCHANGED <<batch, item, late, crashes>>
     \/ ~ok /\ End(i, FALSE) /\ UNCHANGED row
  /\ UNCHANGED <<real, due, overran>>

LogFailure(i, ok) ==
  /\ cycle[i] = "logging failure" /\ Call(ok)
  /\ \/ ok /\ Done(i) /\ UNCHANGED <<claim, batch, late, crashes>>
     \/ ~ok /\ End(i, FALSE)
  /\ UNCHANGED <<row, real, due, overran>>

\* The loop over the leases, then the loop over the artifacts, is over.
EndLoop(i) ==
  /\ cycle[i] \in {"leases", "artifacts"} /\ batch[i] = {}
  /\ \/ /\ cycle[i] = "leases" /\ SetCycle(i, "claiming artifacts")
        /\ UNCHANGED <<claim, batch, item, late, crashes>>
     \/ cycle[i] = "artifacts" /\ End(i, FALSE)
  /\ UNCHANGED <<row, real, due, overran, faults>>

-----------------------------------------------------------------------------
(* Time, crashes and the runs themselves                                   *)

\* A lease expires, or an artifact's retention ends.
ComeDue(x) ==
  /\ x \notin due /\ due' = due \cup {x}
  /\ UNCHANGED <<row, real, claim, cycle, batch, item, late, overran, faults, crashes>>

\* The run that took a lease releases it in its own cleanup, at any time.
OwnerReleases(x) ==
  /\ x \in Lease /\ row[x] = "ACTIVE"
  /\ real' = [real EXCEPT ![x] = FALSE]
  /\ Settle(x)
  /\ UNCHANGED <<due, cycle, batch, item, late, overran, faults, crashes>>

\* claimTtlMs goes by while a cycle is at work.
Overrun(i) ==
  /\ cycle[i] # "idle" /\ i \notin late
  /\ late' = late \cup {i} /\ overran' = TRUE
  /\ claim' = [x \in Item |-> IF claim[x] = i THEN "lapsed" ELSE claim[x]]
  /\ UNCHANGED <<row, real, due, cycle, batch, item, faults, crashes>>

\* It goes by for a claim whose cycle is over.
Lapse(x) ==
  /\ claim[x] = "dead" /\ claim' = [claim EXCEPT ![x] = "lapsed"]
  /\ UNCHANGED <<row, real, due, cycle, batch, item, late, overran, faults, crashes>>

Crash(i) ==
  /\ cycle[i] # "idle" /\ crashes < MaxCrashes
  /\ End(i, TRUE)
  /\ UNCHANGED <<row, real, due, overran, faults>>

-----------------------------------------------------------------------------
Step(i) ==
  \/ Run(i) \/ EndLoop(i)
  \/ \E x \in Item : Take(i, x)
  \/ \E ok \in BOOLEAN :
       \/ ClaimLeases(i, ok) \/ ClaimArtifacts(i, ok) \/ Clean(i, ok) \/ SettleItem(i, ok)
       \/ LogSettled(i, ok) \/ RecordFailure(i, ok) \/ LogFailure(i, ok)

Next ==
  \/ \E i \in ControlPlane : Step(i) \/ Overrun(i) \/ Crash(i)
  \/ \E x \in Item : ComeDue(x) \/ OwnerReleases(x) \/ Lapse(x)

Spec == Init /\ [][Next]_vars

\* The timer starts cycles, their calls settle, and time passes.
Fairness == /\ \A i \in ControlPlane : WF_vars(Step(i))
            /\ \A x \in Item : WF_vars(Lapse(x))

FairSpec == Spec /\ Fairness

-----------------------------------------------------------------------------
(* Properties                                                              *)

CycleState == {"idle", "claiming leases", "leases", "claiming artifacts", "artifacts",
               "cleaning", "settling", "logging", "failing", "logging failure"}

InHand == {"cleaning", "settling", "logging", "failing", "logging failure"}

\* Types of the rows and of the cycles; a cycle has an item in hand exactly
\* while it works on one.
TypeOK ==
  /\ row \in [Item -> {"ACTIVE", "SETTLED"}] /\ real \in [Item -> BOOLEAN]
  /\ due \subseteq Item
  /\ claim \in [Item -> ControlPlane \cup {"none", "dead", "lapsed"}]
  /\ cycle \in [ControlPlane -> CycleState] /\ batch \in [ControlPlane -> SUBSET Item]
  /\ item \in [ControlPlane -> Item \cup {"none"}]
  /\ \A i \in ControlPlane : IF cycle[i] \in InHand THEN item[i] \in Item ELSE item[i] = "none"
  /\ late \subseteq ControlPlane /\ overran \in BOOLEAN
  /\ faults \in 0..MaxFaults /\ crashes \in 0..MaxCrashes

\* A lease is released, and an artifact record deleted, only once the
\* resource or the file is gone, however many instances work on the row and
\* wherever they fail or crash.
SettledIsClean == \A x \in Item : row[x] = "SETTLED" => ~real[x]

\* The rows of the batch and the item in hand, until it is done with or its
\* failure is stored.
Working(i) == batch[i] \cup
  (IF cycle[i] \in {"cleaning", "settling", "logging", "failing"} THEN {item[i]} ELSE {})

\* No two instances work on the same row, as long as no cycle has taken
\* longer than the claim TTL: not after crashes, abandoned claims and failures.
ExclusiveClaims ==
  ~overran => \A i, j \in ControlPlane : i # j =>
                \A x \in Working(i) \cap Working(j) : row[x] = "SETTLED"

\* Every item that is due is settled in the end, through failures, crashes
\* and abandoned claims, if fewer items than fill a batch are hopeless: more
\* of them, the oldest, would be claimed cycle after cycle in its place.
DueIsSettled ==
  Cardinality(Hopeless) < Batch =>
    \A x \in Item \ Hopeless : x \in due ~> row[x] = "SETTLED"
=============================================================================
