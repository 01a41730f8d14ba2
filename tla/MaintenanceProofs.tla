-------------------------- MODULE MaintenanceProofs --------------------------
(***************************************************************************)
(* Maintenance, for any number of instances, leases, artifacts, failures   *)
(* and crashes: types, SettledIsClean and ExclusiveClaims.                 *)
(***************************************************************************)
EXTENDS Maintenance, TLAPS

LEMMA CandidatesTyped ==
  ASSUME NEW S PROVE candidates(S) \subseteq claimable(S) /\ claimable(S) \subseteq S
  BY DEF candidates, claimable

LEMMA CallTyped == ASSUME TypeOK, NEW ok, Call(ok) PROVE faults' \in 0..MaxFaults
  BY BoundAssumption DEF TypeOK, Call

\* Ending a cycle, by whatever path.
LEMMA EndTyped ==
  ASSUME TypeOK, NEW i \in ControlPlane, NEW crashed \in BOOLEAN, End(i, crashed),
         crashed => crashes < MaxCrashes, UNCHANGED <<row, real, due>>,
         overran' = overran, faults' \in 0..MaxFaults
  PROVE  TypeOK'
  <1>1. claim' \in [Item -> ControlPlane \cup {"none", "dead", "lapsed"}]
    BY DEF End, TypeOK
  <1>2. cycle' \in [ControlPlane -> CycleState] /\ batch' \in [ControlPlane -> SUBSET Item]
    BY DEF End, TypeOK, SetCycle, CycleState
  <1>3. \A j \in ControlPlane :
          IF cycle'[j] \in InHand THEN item'[j] \in Item ELSE item'[j] = "none"
    <2> SUFFICES ASSUME NEW j \in ControlPlane
                 PROVE  IF cycle'[j] \in InHand THEN item'[j] \in Item ELSE item'[j] = "none"
      OBVIOUS
    <2> QED BY DEF End, TypeOK, SetCycle, InHand
  <1>4. /\ item' \in [ControlPlane -> Item \cup {"none"}]
        /\ late' \subseteq ControlPlane /\ crashes' \in 0..MaxCrashes
    BY BoundAssumption DEF End, TypeOK
  <1> QED BY <1>1, <1>2, <1>3, <1>4 DEF TypeOK

LEMMA TypeInit == Init => TypeOK
  <1> SUFFICES ASSUME Init PROVE TypeOK
    OBVIOUS
  <1>1. faults \in 0..MaxFaults /\ crashes \in 0..MaxCrashes
    BY BoundAssumption DEF Init
  <1>2. real \in [Item -> BOOLEAN] /\ overran \in BOOLEAN
    BY DEF Init
  <1> QED BY <1>1, <1>2 DEF Init, TypeOK, CycleState, InHand

\* Done leaves a cycle well typed, in a loop and with nothing in hand.
LEMMA DoneTyped ==
  ASSUME TypeOK, NEW i \in ControlPlane, item[i] \in Item, Done(i)
  PROVE  /\ cycle' \in [ControlPlane -> CycleState]
         /\ item' \in [ControlPlane -> Item \cup {"none"}]
         /\ \A j \in ControlPlane :
              IF cycle'[j] \in InHand THEN item'[j] \in Item ELSE item'[j] = "none"
  <1>1. /\ cycle \in [ControlPlane -> CycleState]
        /\ item \in [ControlPlane -> Item \cup {"none"}]
        /\ \A j \in ControlPlane :
             IF cycle[j] \in InHand THEN item[j] \in Item ELSE item[j] = "none"
    BY DEF TypeOK
  <1>2. PICK s \in {"leases", "artifacts"} : cycle' = [cycle EXCEPT ![i] = s]
    BY DEF Done, SetCycle
  <1>3. item' = [item EXCEPT ![i] = "none"]
    BY DEF Done
  <1> QED BY <1>1, <1>2, <1>3 DEF CycleState, InHand

\* Moving on with the item in hand.
LEMMA StageTyped ==
  ASSUME TypeOK, NEW i \in ControlPlane, item[i] \in Item, NEW s \in InHand, SetCycle(i, s),
         item' = item
  PROVE  /\ cycle' \in [ControlPlane -> CycleState]
         /\ item' \in [ControlPlane -> Item \cup {"none"}]
         /\ \A j \in ControlPlane :
              IF cycle'[j] \in InHand THEN item'[j] \in Item ELSE item'[j] = "none"
  <1>1. /\ cycle \in [ControlPlane -> CycleState]
        /\ item \in [ControlPlane -> Item \cup {"none"}]
        /\ \A j \in ControlPlane :
             IF cycle[j] \in InHand THEN item[j] \in Item ELSE item[j] = "none"
    BY DEF TypeOK
  <1>2. s \in CycleState
    BY DEF InHand, CycleState
  <1>3. cycle' = [cycle EXCEPT ![i] = s]
    BY DEF SetCycle
  <1> QED BY <1>1, <1>2, <1>3

LEMMA TypeStep == TypeOK /\ [Next]_vars => TypeOK'
  <1> SUFFICES ASSUME TypeOK, [Next]_vars PROVE TypeOK'
    OBVIOUS
  <1>1. ASSUME NEW i \in ControlPlane, Run(i) PROVE TypeOK'
    BY <1>1 DEF Run, SetCycle, TypeOK, CycleState, InHand, rowVars
  <1>2. ASSUME NEW i \in ControlPlane, NEW ok \in BOOLEAN,
               ClaimLeases(i, ok) \/ ClaimArtifacts(i, ok)
        PROVE  TypeOK'
    <2>0. faults' \in 0..MaxFaults
      BY <1>2, CallTyped DEF ClaimLeases, ClaimArtifacts
    <2>1. CASE End(i, FALSE)
      BY <1>2, <2>0, <2>1, EndTyped DEF ClaimLeases, ClaimArtifacts
    <2>2. CASE ~End(i, FALSE)
      <3>1. PICK S \in {Lease, Artifact}, s \in {"leases", "artifacts"} :
              Claim(i, S) /\ SetCycle(i, s) /\ UNCHANGED <<item, late, crashes>>
        BY <1>2, <2>2 DEF ClaimLeases, ClaimArtifacts
      <3>2. candidates(S) \subseteq Item
        BY CandidatesTyped DEF Item
      <3>3. claim' \in [Item -> ControlPlane \cup {"none", "dead", "lapsed"}]
        BY <3>1 DEF Claim, TypeOK
      <3>4. batch' \in [ControlPlane -> SUBSET Item]
        BY <3>1, <3>2 DEF Claim, TypeOK
      <3>5. cycle[i] \in {"claiming leases", "claiming artifacts"}
        BY <1>2 DEF ClaimLeases, ClaimArtifacts
      <3> QED BY <1>2, <2>0, <3>1, <3>3, <3>4, <3>5 DEF ClaimLeases, ClaimArtifacts, SetCycle,
                TypeOK, CycleState, InHand
    <2> QED BY <2>1, <2>2
  <1>3. ASSUME NEW i \in ControlPlane, NEW x \in Item, Take(i, x) PROVE TypeOK'
    BY <1>3 DEF Take, SetCycle, TypeOK, CycleState, InHand, rowVars
  <1>4. ASSUME NEW i \in ControlPlane, NEW ok \in BOOLEAN,
               Clean(i, ok) \/ SettleItem(i, ok) \/ LogSettled(i, ok)
        PROVE  TypeOK'
    <2>0. faults' \in 0..MaxFaults
      BY <1>4, CallTyped DEF Clean, SettleItem, LogSettled
    <2>1. item[i] \in Item
      BY <1>4 DEF Clean, SettleItem, LogSettled, TypeOK, InHand
    <2>2. CASE Clean(i, ok)
      <3>1. real' \in [Item -> BOOLEAN]
        BY <2>1, <2>2 DEF Clean, TypeOK
      <3>2. PICK s \in InHand : SetCycle(i, s)
        BY <2>2 DEF Clean, InHand
      <3>3. UNCHANGED <<row, claim, item, due, batch, late, overran, crashes>>
        BY <2>2 DEF Clean, itemRest
      <3> QED BY <2>0, <2>1, <3>1, <3>2, <3>3, StageTyped DEF TypeOK
    <2>3. CASE SettleItem(i, ok)
      <3>1. /\ row' \in [Item -> {"ACTIVE", "SETTLED"}]
            /\ claim' \in [Item -> ControlPlane \cup {"none", "dead", "lapsed"}]
        BY <2>1, <2>3 DEF SettleItem, Settle, TypeOK
      <3>2. PICK s \in InHand : SetCycle(i, s)
        BY <2>3 DEF SettleItem, InHand
      <3>3. UNCHANGED <<real, item, due, batch, late, overran, crashes>>
        BY <2>3 DEF SettleItem, itemRest
      <3> QED BY <2>0, <2>1, <3>1, <3>2, <3>3, StageTyped DEF TypeOK
    <2>4. CASE LogSettled(i, ok)
      <3>1. CASE Done(i) /\ UNCHANGED <<row, real, claim>> /\ UNCHANGED itemRest
        BY <2>0, <2>1, <3>1, DoneTyped DEF TypeOK, itemRest
      <3>2. CASE SetCycle(i, "failing") /\ UNCHANGED <<row, real, claim, item>> /\ UNCHANGED itemRest
        <4>1. "failing" \in InHand
          BY DEF InHand
        <4> QED BY <2>0, <2>1, <3>2, <4>1, StageTyped DEF TypeOK, itemRest
      <3> QED BY <2>4, <3>1, <3>2 DEF LogSettled
    <2> QED BY <1>4, <2>2, <2>3, <2>4
  <1>5. ASSUME NEW i \in ControlPlane, NEW ok \in BOOLEAN,
               RecordFailure(i, ok) \/ LogFailure(i, ok)
        PROVE  TypeOK'
    <2>0. faults' \in 0..MaxFaults
      BY <1>5, CallTyped DEF RecordFailure, LogFailure
    <2>1. CASE End(i, FALSE)
      BY <1>5, <2>0, <2>1, EndTyped DEF RecordFailure, LogFailure, recordFailure
    <2>2. CASE ~End(i, FALSE)
      <3>0. item[i] \in Item
        BY <1>5 DEF RecordFailure, LogFailure, TypeOK, InHand
      <3>1. claim' \in [Item -> ControlPlane \cup {"none", "dead", "lapsed"}]
        BY <1>5, <2>2, <3>0 DEF RecordFailure, LogFailure, recordFailure, TypeOK
      <3>2. CASE RecordFailure(i, ok)
        <4>1. "logging failure" \in InHand
          BY DEF InHand
        <4>2. SetCycle(i, "logging failure") /\ UNCHANGED <<row, real, due, batch, item, late, overran, crashes>>
          BY <2>2, <3>2 DEF RecordFailure, recordFailure
        <4> QED BY <2>0, <3>0, <3>1, <4>1, <4>2, StageTyped DEF TypeOK
      <3>3. CASE LogFailure(i, ok)
        <4>1. Done(i) /\ UNCHANGED <<row, real, due, claim, batch, late, overran, crashes>>
          BY <2>2, <3>3 DEF LogFailure
        <4> QED BY <2>0, <3>0, <4>1, DoneTyped DEF TypeOK
      <3> QED BY <1>5, <3>2, <3>3
    <2> QED BY <2>1, <2>2
  <1>6. ASSUME NEW i \in ControlPlane, EndLoop(i) \/ Crash(i) PROVE TypeOK'
    <2>1. CASE \E crashed \in BOOLEAN : End(i, crashed) /\ (crashed => crashes < MaxCrashes)
      BY <1>6, <2>1, EndTyped DEF EndLoop, Crash, TypeOK
    <2>2. CASE cycle[i] = "leases" /\ SetCycle(i, "claiming artifacts")
               /\ UNCHANGED <<row, real, due, claim, batch, item, late, overran, faults, crashes>>
      BY <2>2 DEF SetCycle, TypeOK, CycleState, InHand
    <2> QED BY <1>6, <2>1, <2>2 DEF EndLoop, Crash
  <1>7. ASSUME NEW i \in ControlPlane, Overrun(i) PROVE TypeOK'
    <2>1. claim' \in [Item -> ControlPlane \cup {"none", "dead", "lapsed"}]
      BY <1>7 DEF Overrun, TypeOK
    <2> QED BY <1>7, <2>1 DEF Overrun, TypeOK
  <1>8. ASSUME NEW x \in Item, ComeDue(x) \/ OwnerReleases(x) \/ Lapse(x) PROVE TypeOK'
    <2>1. CASE ComeDue(x)
      BY <1>8, <2>1 DEF ComeDue, TypeOK
    <2>2. CASE OwnerReleases(x)
      <3>1. /\ row' \in [Item -> {"ACTIVE", "SETTLED"}]
            /\ claim' \in [Item -> ControlPlane \cup {"none", "dead", "lapsed"}]
        BY <1>8, <2>2 DEF OwnerReleases, Settle, TypeOK
      <3> QED BY <2>2, <3>1 DEF OwnerReleases, TypeOK
    <2>3. CASE Lapse(x)
      <3>1. claim' \in [Item -> ControlPlane \cup {"none", "dead", "lapsed"}]
        BY <1>8, <2>3 DEF Lapse, TypeOK
      <3> QED BY <2>3, <3>1 DEF Lapse, TypeOK
    <2> QED BY <1>8, <2>1, <2>2, <2>3
  <1>9. CASE UNCHANGED vars
    BY <1>9 DEF vars, rowVars, TypeOK
  <1> QED BY <1>1, <1>2, <1>3, <1>4, <1>5, <1>6, <1>7, <1>8, <1>9 DEF Next, Step

\* Every reachable state of the maintenance cycles is well typed.
THEOREM TypeCorrect == Spec => []TypeOK
  BY TypeInit, TypeStep, PTL DEF Spec

-----------------------------------------------------------------------------
(* A row is settled after its resource is gone.                            *)

\* The cleaner has succeeded on an item about to be settled.
CleanInv == /\ SettledIsClean
            /\ \A i \in ControlPlane : cycle[i] = "settling" => ~real[item[i]]

LEMMA CleanStep == TypeOK /\ CleanInv /\ [Next]_vars => CleanInv'
  <1> SUFFICES ASSUME TypeOK, CleanInv, [Next]_vars PROVE CleanInv'
    OBVIOUS
  <1>0. /\ cycle \in [ControlPlane -> CycleState] /\ item \in [ControlPlane -> Item \cup {"none"}]
        /\ row \in [Item -> {"ACTIVE", "SETTLED"}] /\ real \in [Item -> BOOLEAN]
    BY DEF TypeOK
  <1>a. \A i \in ControlPlane : cycle[i] = "settling" => item[i] \in Item
    BY DEF TypeOK, InHand
  <1>b. ASSUME NEW i \in ControlPlane, NEW s, s # "settling", SetCycle(i, s),
               UNCHANGED <<row, real>>, \A j \in ControlPlane : j # i => item'[j] = item[j]
        PROVE  CleanInv'
    BY <1>0, <1>b DEF CleanInv, SettledIsClean, SetCycle
  <1>e. ASSUME NEW i \in ControlPlane, NEW crashed, End(i, crashed), UNCHANGED <<row, real>>
        PROVE  CleanInv'
    BY <1>0, <1>b, <1>e DEF End
  <1>1. ASSUME NEW i \in ControlPlane, Run(i) PROVE CleanInv'
    BY <1>b, <1>1 DEF Run, rowVars
  <1>2. ASSUME NEW i \in ControlPlane, NEW ok \in BOOLEAN,
               ClaimLeases(i, ok) \/ ClaimArtifacts(i, ok)
        PROVE  CleanInv'
    BY <1>b, <1>e, <1>2 DEF ClaimLeases, ClaimArtifacts
  <1>3. ASSUME NEW i \in ControlPlane, NEW x \in Item, Take(i, x) PROVE CleanInv'
    <2>1. \A j \in ControlPlane : j # i => item'[j] = item[j]
      BY <1>0, <1>3 DEF Take
    <2> QED BY <1>b, <1>3, <2>1 DEF Take, rowVars
  <1>4. ASSUME NEW i \in ControlPlane, NEW ok \in BOOLEAN, Clean(i, ok) PROVE CleanInv'
    <2>1. item[i] \in Item
      BY <1>4 DEF Clean, TypeOK, InHand
    <2>2. \A x \in Item : real'[x] => real[x]
      BY <1>0, <1>4, <2>1 DEF Clean
    <2>3. ok => ~real'[item[i]]
      BY <1>0, <1>4, <2>1 DEF Clean
    <2> QED BY <1>0, <1>4, <1>a, <2>1, <2>2, <2>3 DEF Clean, SetCycle, CleanInv, SettledIsClean
  <1>5. ASSUME NEW i \in ControlPlane, NEW ok \in BOOLEAN, SettleItem(i, ok) PROVE CleanInv'
    BY <1>0, <1>5, <1>a DEF SettleItem, Settle, SetCycle, CleanInv, SettledIsClean
  <1>6. ASSUME NEW i \in ControlPlane, NEW ok \in BOOLEAN,
               LogSettled(i, ok) \/ RecordFailure(i, ok) \/ LogFailure(i, ok)
        PROVE  CleanInv'
    <2>1. CASE End(i, FALSE)
      BY <1>e, <1>6, <2>1 DEF LogSettled, RecordFailure, LogFailure, recordFailure
    <2>2. CASE ~End(i, FALSE)
      <3>1. \A j \in ControlPlane : j # i => item'[j] = item[j]
        BY <1>0, <1>6, <2>2 DEF LogSettled, RecordFailure, LogFailure, Done
      <3>2. \E s : s # "settling" /\ SetCycle(i, s)
        BY <1>6, <2>2 DEF LogSettled, RecordFailure, LogFailure, Done
      <3>3. UNCHANGED <<row, real>>
        BY <1>6, <2>2 DEF LogSettled, RecordFailure, LogFailure, recordFailure
      <3> QED BY <1>b, <3>1, <3>2, <3>3
    <2> QED BY <2>1, <2>2
  <1>7. ASSUME NEW i \in ControlPlane, EndLoop(i) \/ Crash(i) PROVE CleanInv'
    BY <1>b, <1>e, <1>7 DEF EndLoop, Crash
  <1>8. ASSUME NEW i \in ControlPlane, Overrun(i) PROVE CleanInv'
    BY <1>8 DEF Overrun, CleanInv, SettledIsClean
  <1>9. ASSUME NEW x \in Item, ComeDue(x) \/ Lapse(x) PROVE CleanInv'
    BY <1>9 DEF ComeDue, Lapse, CleanInv, SettledIsClean
  <1>10. ASSUME NEW x \in Item, OwnerReleases(x) PROVE CleanInv'
    BY <1>0, <1>10, <1>a DEF OwnerReleases, Settle, CleanInv, SettledIsClean
  <1>11. CASE UNCHANGED vars
    BY <1>11 DEF vars, rowVars, CleanInv, SettledIsClean
  <1> QED BY <1>1, <1>2, <1>3, <1>4, <1>5, <1>6, <1>7, <1>8, <1>9, <1>10, <1>11 DEF Next, Step

\* SettledIsClean, for any number of instances, failures and crashes: no row
\* is released or deleted while its resource or file still exists.
THEOREM SettledIsCleanCorrect == Spec => []SettledIsClean
  <1>1. Init => CleanInv
    BY DEF Init, CleanInv, SettledIsClean
  <1>2. CleanInv => SettledIsClean
    BY DEF CleanInv
  <1> QED BY <1>1, <1>2, TypeInit, TypeStep, CleanStep, PTL DEF Spec

-----------------------------------------------------------------------------
(* Claims exclude each other.                                              *)

\* Until a cycle overruns, what an instance works on carries its claim, or
\* has been settled by the run that owned it.
ClaimInv == ~overran => /\ late = {}
                        /\ \A i \in ControlPlane : \A x \in Working(i) :
                             claim[x] = i \/ row[x] = "SETTLED"

\* The item in hand is no longer in the batch.
HandInv == \A i \in ControlPlane : cycle[i] \in InHand => item[i] \notin batch[i]

LEMMA HandStep == TypeOK /\ HandInv /\ [Next]_vars => HandInv'
  <1> SUFFICES ASSUME TypeOK, HandInv, [Next]_vars PROVE HandInv'
    OBVIOUS
  <1>0. /\ cycle \in [ControlPlane -> CycleState] /\ item \in [ControlPlane -> Item \cup {"none"}]
        /\ batch \in [ControlPlane -> SUBSET Item]
    BY DEF TypeOK
  <1> USE DEF HandInv, InHand, SetCycle
  <1>e. ASSUME NEW i \in ControlPlane, NEW crashed, End(i, crashed) PROVE HandInv'
    BY <1>0, <1>e DEF End
  <1>1. ASSUME NEW i \in ControlPlane, Run(i) \/ EndLoop(i) \/ Crash(i) \/ Overrun(i)
        PROVE  HandInv'
    BY <1>0, <1>1, <1>e DEF Run, EndLoop, Crash, Overrun
  <1>2. ASSUME NEW i \in ControlPlane, NEW ok \in BOOLEAN,
               ClaimLeases(i, ok) \/ ClaimArtifacts(i, ok)
        PROVE  HandInv'
    BY <1>0, <1>2, <1>e DEF ClaimLeases, ClaimArtifacts, Claim
  <1>3. ASSUME NEW i \in ControlPlane, NEW x \in Item, Take(i, x) PROVE HandInv'
    BY <1>0, <1>3 DEF Take
  <1>4. ASSUME NEW i \in ControlPlane, NEW ok \in BOOLEAN,
               Clean(i, ok) \/ SettleItem(i, ok) \/ LogSettled(i, ok)
        PROVE  HandInv'
    BY <1>0, <1>4 DEF Clean, SettleItem, LogSettled, Done, itemRest
  <1>5. ASSUME NEW i \in ControlPlane, NEW ok \in BOOLEAN,
               RecordFailure(i, ok) \/ LogFailure(i, ok)
        PROVE  HandInv'
    BY <1>0, <1>5, <1>e DEF RecordFailure, LogFailure, Done
  <1>6. ASSUME NEW x \in Item, ComeDue(x) \/ OwnerReleases(x) \/ Lapse(x) PROVE HandInv'
    BY <1>6 DEF ComeDue, OwnerReleases, Lapse
  <1>7. CASE UNCHANGED vars
    BY <1>7 DEF vars
  <1> QED BY <1>1, <1>2, <1>3, <1>4, <1>5, <1>6, <1>7 DEF Next, Step

\* An instance that works on no new row, while the claims others rely on and
\* the settled rows stay.
LEMMA ClaimKept ==
  ASSUME ClaimInv, overran' = overran, late = {} => late' = {},
         \A i \in ControlPlane : \A x \in Working(i)' :
           /\ x \in Working(i)
           /\ claim[x] = i => claim'[x] = i \/ row'[x] = "SETTLED"
           /\ row[x] = "SETTLED" => row'[x] = "SETTLED"
  PROVE  ClaimInv'
  BY DEF ClaimInv

LEMMA ClaimEnd ==
  ASSUME TypeOK, ClaimInv, NEW i \in ControlPlane, NEW crashed, End(i, crashed),
         UNCHANGED <<row, overran>>
  PROVE  ClaimInv'
  <1>1. \A j \in ControlPlane : j # i => Working(j)' = Working(j)
    BY DEF End, SetCycle, Working, TypeOK
  <1>2. Working(i)' = {}
    BY DEF End, SetCycle, Working, TypeOK
  <1>3. \A j \in ControlPlane : Working(j) \subseteq Item
    BY DEF Working, TypeOK, InHand
  <1>4. \A j \in ControlPlane, x \in Item : j # i /\ claim[x] = j => claim'[x] = j
    BY DEF End
  <1>5. late = {} => late' = {}
    BY DEF End
  <1> QED BY <1>1, <1>2, <1>3, <1>4, <1>5, ClaimKept

LEMMA ClaimStep == TypeOK /\ HandInv /\ ClaimInv /\ [Next]_vars => ClaimInv'
  <1> SUFFICES ASSUME TypeOK, HandInv, ClaimInv, [Next]_vars PROVE ClaimInv'
    OBVIOUS
  <1>0. /\ cycle \in [ControlPlane -> CycleState] /\ item \in [ControlPlane -> Item \cup {"none"}]
        /\ row \in [Item -> {"ACTIVE", "SETTLED"}] /\ batch \in [ControlPlane -> SUBSET Item]
        /\ claim \in [Item -> ControlPlane \cup {"none", "dead", "lapsed"}]
    BY DEF TypeOK
  <1>w. \A j \in ControlPlane : Working(j) \subseteq Item
    BY DEF Working, TypeOK, InHand
  \* A step of instance i that claims nothing and clears no claim.
  <1>q. ASSUME NEW i \in ControlPlane, NEW s, SetCycle(i, s),
               \A j \in ControlPlane : j # i => item'[j] = item[j] /\ batch'[j] = batch[j],
               Working(i)' \subseteq Working(i), UNCHANGED <<claim, row, overran, late>>
        PROVE  ClaimInv'
    <2>1. \A j \in ControlPlane : j # i => Working(j)' = Working(j)
      BY <1>0, <1>q DEF Working, SetCycle
    <2> QED BY <1>q, <2>1, ClaimKept
  <1>1. ASSUME NEW i \in ControlPlane, Run(i) PROVE ClaimInv'
    <2>1. Working(i)' \subseteq Working(i)
      BY <1>0, <1>1 DEF Run, Working, SetCycle
    <2> QED BY <1>q, <1>1, <2>1 DEF Run, rowVars
  <1>2. ASSUME NEW i \in ControlPlane, NEW ok \in BOOLEAN,
               ClaimLeases(i, ok) \/ ClaimArtifacts(i, ok)
        PROVE  ClaimInv'
    <2>1. CASE End(i, FALSE)
      BY <1>2, <2>1, ClaimEnd DEF ClaimLeases, ClaimArtifacts
    <2>2. CASE ~End(i, FALSE)
      <3>1. PICK S \in {Lease, Artifact}, s \in {"leases", "artifacts"} :
              Claim(i, S) /\ SetCycle(i, s) /\ UNCHANGED <<item, late, row, overran>>
        BY <1>2, <2>2 DEF ClaimLeases, ClaimArtifacts
      <3>2. candidates(S) \subseteq claimable(S) /\ candidates(S) \subseteq Item
        BY CandidatesTyped DEF Item
      <3>3. Working(i)' = candidates(S)
        BY <1>0, <3>1 DEF Claim, SetCycle, Working
      <3>4. \A j \in ControlPlane : j # i => Working(j)' = Working(j)
        BY <1>0, <3>1 DEF Claim, SetCycle, Working
      <3>5. ~overran => \A x \in candidates(S) : claim'[x] = i
        BY <3>1, <3>2 DEF Claim, ClaimInv
      <3>6. \A j \in ControlPlane : \A x \in Item : claim[x] = j => x \notin candidates(S)
        BY <3>2, NameAssumption DEF claimable
      <3>7. \A j \in ControlPlane : \A x \in Item : claim[x] = j => claim'[x] = j
        BY <3>1, <3>6 DEF Claim
      <3> QED BY <1>w, <3>1, <3>3, <3>4, <3>5, <3>7 DEF ClaimInv
    <2> QED BY <2>1, <2>2
  <1>3. ASSUME NEW i \in ControlPlane, NEW x \in Item, Take(i, x) PROVE ClaimInv'
    <2>1. Working(i)' \subseteq Working(i)
      BY <1>0, <1>3 DEF Take, SetCycle, Working
    <2>2. \A j \in ControlPlane : j # i => item'[j] = item[j] /\ batch'[j] = batch[j]
      BY <1>0, <1>3 DEF Take
    <2> QED BY <1>q, <1>3, <2>1, <2>2 DEF Take, rowVars
  <1>4. ASSUME NEW i \in ControlPlane, NEW ok \in BOOLEAN, Clean(i, ok) \/ LogSettled(i, ok)
        PROVE  ClaimInv'
    <2>1. CASE Clean(i, ok)
      <3>1. Working(i)' \subseteq Working(i)
        BY <1>0, <2>1 DEF Clean, SetCycle, Working, itemRest
      <3> QED BY <1>q, <2>1, <3>1 DEF Clean, itemRest
    <2>2. CASE LogSettled(i, ok)
      <3>1. Working(i)' \subseteq Working(i)
        BY <1>0, <2>2 DEF LogSettled, Done, SetCycle, Working, itemRest
      <3>2. \A j \in ControlPlane : j # i => item'[j] = item[j] /\ batch'[j] = batch[j]
        BY <1>0, <2>2 DEF LogSettled, Done, itemRest
      <3> QED BY <1>q, <2>2, <3>1, <3>2 DEF LogSettled, Done, itemRest
    <2> QED BY <1>4, <2>1, <2>2
  <1>5. ASSUME NEW i \in ControlPlane, NEW ok \in BOOLEAN, SettleItem(i, ok) PROVE ClaimInv'
    <2>1. item[i] \in Item
      BY <1>5 DEF SettleItem, TypeOK, InHand
    <2>2. \A j \in ControlPlane : Working(j)' = Working(j)
      BY <1>0, <1>5 DEF SettleItem, SetCycle, Working, itemRest
    <2>3. \A x \in Item : \/ claim'[x] = claim[x] /\ row'[x] = row[x]
                         \/ row'[x] = "SETTLED"
      BY <1>0, <1>5, <2>1 DEF SettleItem, Settle
    <2> QED BY <1>5, <1>w, <2>2, <2>3, ClaimKept DEF SettleItem, itemRest
  <1>6. ASSUME NEW i \in ControlPlane, NEW ok \in BOOLEAN, RecordFailure(i, ok) PROVE ClaimInv'
    <2>1. CASE End(i, FALSE)
      BY <1>6, <2>1, ClaimEnd DEF RecordFailure, recordFailure
    <2>2. CASE ~End(i, FALSE)
      <3> SUFFICES ASSUME ~overran, late = {}
                   PROVE  /\ late' = {}
                          /\ \A j \in ControlPlane : \A x \in Working(j)' :
                               claim'[x] = j \/ row'[x] = "SETTLED"
        BY <1>6 DEF ClaimInv, RecordFailure
      <3>0. recordFailure(item[i]) /\ SetCycle(i, "logging failure")
            /\ UNCHANGED <<batch, item, late, row>>
        BY <1>6, <2>2 DEF RecordFailure, recordFailure
      <3>1. item[i] \in Item /\ item[i] \in Working(i)
        BY <1>6 DEF RecordFailure, TypeOK, InHand, Working
      <3>2. \A j \in ControlPlane : j # i => Working(j)' = Working(j)
        BY <1>0, <3>0 DEF SetCycle, Working
      <3>3. Working(i)' = batch[i] /\ batch[i] \subseteq Working(i)
        BY <1>0, <3>0 DEF SetCycle, Working
      <3>4. \A x \in Item : x # item[i] => claim'[x] = claim[x]
        BY <1>0, <3>0, <3>1 DEF recordFailure
      <3>5. row[item[i]] = "SETTLED" => claim' = claim
        BY <3>0 DEF recordFailure
      <3>6. row[item[i]] # "SETTLED" => \A j \in ControlPlane : j # i => item[i] \notin Working(j)
        BY <3>1 DEF ClaimInv
      <3>7. item[i] \notin batch[i]
        BY <1>6 DEF RecordFailure, HandInv, InHand
      <3> QED BY <1>w, <3>0, <3>1, <3>2, <3>3, <3>4, <3>5, <3>6, <3>7 DEF ClaimInv
    <2> QED BY <2>1, <2>2
  <1>7. ASSUME NEW i \in ControlPlane, NEW ok \in BOOLEAN, LogFailure(i, ok) PROVE ClaimInv'
    <2>1. CASE End(i, FALSE)
      BY <1>7, <2>1, ClaimEnd DEF LogFailure
    <2>2. CASE ~End(i, FALSE)
      <3>1. Done(i) /\ UNCHANGED <<claim, batch, late, row, overran>>
        BY <1>7, <2>2 DEF LogFailure
      <3>2. Working(i)' \subseteq Working(i)
        BY <1>0, <3>1 DEF Done, SetCycle, Working
      <3>3. \A j \in ControlPlane : j # i => item'[j] = item[j] /\ batch'[j] = batch[j]
        BY <1>0, <3>1 DEF Done
      <3> QED BY <1>q, <3>1, <3>2, <3>3 DEF Done
    <2> QED BY <2>1, <2>2
  <1>8. ASSUME NEW i \in ControlPlane, EndLoop(i) \/ Crash(i) PROVE ClaimInv'
    <2>1. CASE \E crashed \in BOOLEAN : End(i, crashed)
      BY <1>8, <2>1, ClaimEnd DEF EndLoop, Crash
    <2>2. CASE ~\E crashed \in BOOLEAN : End(i, crashed)
      <3>1. SetCycle(i, "claiming artifacts") /\ UNCHANGED <<claim, batch, item, late, row, overran>>
        BY <1>8, <2>2 DEF EndLoop, Crash
      <3>2. Working(i)' \subseteq Working(i)
        BY <1>0, <3>1 DEF SetCycle, Working
      <3> QED BY <1>q, <3>1, <3>2
    <2> QED BY <2>1, <2>2
  <1>9. ASSUME NEW i \in ControlPlane, Overrun(i) PROVE ClaimInv'
    BY <1>9 DEF Overrun, ClaimInv
  <1>10. ASSUME NEW x \in Item, ComeDue(x) \/ OwnerReleases(x) \/ Lapse(x) PROVE ClaimInv'
    <2>1. \A j \in ControlPlane : Working(j)' = Working(j)
      BY <1>10 DEF ComeDue, OwnerReleases, Lapse, Working
    <2>2. \A y \in Item, j \in ControlPlane :
            /\ claim[y] = j => claim'[y] = j \/ row'[y] = "SETTLED"
            /\ row[y] = "SETTLED" => row'[y] = "SETTLED"
      BY <1>0, <1>10, NameAssumption DEF ComeDue, OwnerReleases, Settle, Lapse
    <2>3. overran' = overran /\ late' = late
      BY <1>10 DEF ComeDue, OwnerReleases, Lapse
    <2> QED BY <1>w, <2>1, <2>2, <2>3, ClaimKept
  <1>11. CASE UNCHANGED vars
    BY <1>11 DEF vars, rowVars, ClaimInv, Working
  <1> QED BY <1>1, <1>2, <1>3, <1>4, <1>5, <1>6, <1>7, <1>8, <1>9, <1>10, <1>11 DEF Next, Step

\* ExclusiveClaims, for any number of instances: the claim in the row keeps
\* them apart until a cycle takes longer than the claim lasts.
THEOREM ExclusiveClaimsCorrect == Spec => []ExclusiveClaims
  <1>1. Init => HandInv /\ ClaimInv
    BY DEF Init, HandInv, ClaimInv, InHand, Working
  <1>2. ClaimInv => ExclusiveClaims
    BY DEF ClaimInv, ExclusiveClaims
  <1> QED BY <1>1, <1>2, TypeInit, TypeStep, HandStep, ClaimStep, PTL DEF Spec
=============================================================================
