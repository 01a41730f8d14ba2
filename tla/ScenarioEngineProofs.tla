------------------------ MODULE ScenarioEngineProofs ------------------------
(***************************************************************************)
(* Proofs about ScenarioEngine, for every scenario tree.                   *)
(***************************************************************************)
EXTENDS ScenarioEngine, TLAPS

-----------------------------------------------------------------------------
(* Operators                                                               *)

\* A successor in the transition table is a status.
LEMMA TransitionTyped ==
  ASSUME NEW r \in RunStatus, NEW s, canTransition(r, s) PROVE s \in RunStatus
  BY DEF canTransition, transitions, RunStatus

\* Reversing a sequence permutes its elements.
LEMMA SnapshotTyped ==
  ASSUME NEW S, NEW q \in Seq(S) PROVE Snapshot(q) \in Seq(S)
  BY DEF Snapshot, Reverse

\* The errors built from an abort reason.
LEMMA ThrownTyped ==
  ASSUME NEW s PROVE thrown(s) \in Error
  BY DEF thrown, Error

\* The number of failed observer calls stays within its bound.
LEMMA ObservedTyped ==
  ASSUME faults \in 0..MaxFaults, NEW ok \in BOOLEAN, Observed(ok)
  PROVE  faults' \in 0..MaxFaults
  BY ParameterAssumption DEF Observed

\* A node or an entry of the tree is what its kind says.
LEMMA LeafTyped ==
  ASSUME NEW n \in Leaf PROVE n \in Node /\ StepId[n] \in Id
  BY DEF Leaf, Id

\* The children of a node are nodes.
LEMMA KidSetTyped ==
  ASSUME NEW n \in Node PROVE KidSet(n) \subseteq Node
  <1>1. Kids[n] \in Seq(Node)
    BY ShapeAssumption
  <1> QED BY <1>1 DEF KidSet

\* The step a list runs next is one of its children.
LEMMA KidInRange ==
  ASSUME NEW n \in Node, iter[n] \in Nat, iter[n] < Total(n)
  PROVE  /\ Len(Kids[n]) > 0
         /\ (iter[n] % Len(Kids[n])) + 1 \in 1..Len(Kids[n])
         /\ Kids[n][(iter[n] % Len(Kids[n])) + 1] \in KidSet(n)
  <1>1. Len(Kids[n]) \in Nat /\ Times[n] \in Nat
    BY ShapeAssumption, ParameterAssumption
  <1>2. Len(Kids[n]) > 0
    <2> SUFFICES ASSUME Len(Kids[n]) = 0 PROVE FALSE
      BY <1>1
    <2> QED BY <1>1 DEF Total
  <1>3. iter[n] % Len(Kids[n]) \in 0..(Len(Kids[n]) - 1)
    BY <1>1, <1>2
  <1> QED BY <1>1, <1>2, <1>3 DEF KidSet

-----------------------------------------------------------------------------
(* Types                                                                   *)

\* Only a leaf is in the states of executeAttemptedAction, and a leaf is
\* never open as a compound node is.
LeafInv == \A n \in Node : /\ pc[n] \in LeafPc => n \in Leaf
                           /\ pc[n] = "open" => n \notin Leaf

\* A list has not started more steps than it holds, nor a condition step a
\* branch it does not have.
IterInv == \A n \in Node : /\ Kind[n] = "steps" => iter[n] <= Total(n)
                           /\ Kind[n] = "choice" => iter[n] <= 2

TypeInv == TypeOK /\ LeafInv /\ IterInv

\* A node awaits only children of its own.
LEMMA AwaitedTyped ==
  ASSUME NodeTypes, IterInv, NEW n \in Node PROVE Awaited(n) \subseteq KidSet(n)
  <1>0. Len(Kids[n]) \in Nat /\ Times[n] \in Nat /\ iter[n] \in Nat
    BY ShapeAssumption, ParameterAssumption DEF NodeTypes
  <1>1. CASE iter[n] # 0 /\ Kind[n] = "steps"
    <2>1. Len(Kids[n]) > 0
      <3> SUFFICES ASSUME Len(Kids[n]) = 0 PROVE FALSE
        BY <1>0
      <3> QED BY <1>0, <1>1 DEF Total, IterInv
    <2>2. (iter[n] - 1) % Len(Kids[n]) \in 0..(Len(Kids[n]) - 1)
      BY <1>0, <1>1, <2>1
    <2>3. Current(n) \in KidSet(n)
      <3>1. PICK k \in 1..Len(Kids[n]) : k = ((iter[n] - 1) % Len(Kids[n])) + 1
        BY <1>0, <2>1, <2>2
      <3> QED BY <3>1 DEF Current, KidSet
    <2> QED BY <1>1, <2>3 DEF Awaited
  <1>2. CASE iter[n] # 0 /\ Kind[n] = "choice"
    <2>1. iter[n] <= 2
      BY <1>2 DEF IterInv
    <2>2. Len(Kids[n]) = 2
      BY <1>2, ShapeAssumption
    <2>3. iter[n] \in 1..Len(Kids[n])
      BY <1>0, <1>2, <2>1, <2>2
    <2> QED BY <1>2, <2>3 DEF Awaited, KidSet
  <1> QED BY <1>1, <1>2 DEF Awaited

LEMMA TypeInit == Init => TypeInv
  <1> SUFFICES ASSUME Init PROVE TypeInv
    OBVIOUS
  <1> USE DEF Init
  <1>1. LeafInv
    BY DEF LeafInv, InitPc, LeafPc
  <1>2. MainTypes
    <2>1. 0 \in 0..MaxFaults /\ 0 \in 0..PhaseCount
      BY ParameterAssumption DEF PhaseCount
    <2> QED BY <2>1 DEF MainTypes, RunStatus, Outcome
  <1>3. NodeTypes /\ RecTypes
    BY ParameterAssumption DEF NodeTypes, RecTypes, InitPc, Attempt, Settled, Error
  <1>4. ResTypes /\ WalkTypes
    BY DEF ResTypes, WalkTypes
  <1>5. IterInv
    BY ShapeAssumption, ParameterAssumption DEF IterInv, Total
  <1> QED BY <1>1, <1>2, <1>3, <1>4, <1>5 DEF TypeInv, TypeOK

\* A step that leaves the nodes alone keeps what is known of them.
LEMMA TypeNodesSame ==
  ASSUME NodeTypes, LeafInv, IterInv, UNCHANGED nodeVars
  PROVE  NodeTypes' /\ LeafInv' /\ IterInv'
  BY DEF NodeTypes, LeafInv, IterInv, nodeVars

\* A compound node fails.
LEMMA TypeFail ==
  ASSUME NodeTypes, LeafInv, IterInv, NEW n \in Node, NEW e \in Error, Fail(n, e),
         UNCHANGED <<iter, tries, no>>, sig' \in [Node -> Error \cup {"none"}]
  PROVE  NodeTypes' /\ LeafInv' /\ IterInv'
  BY DEF NodeTypes, LeafInv, IterInv, LeafPc, Settled, Fail

\* A leaf moves on.
LEMMA TypeLeafNode ==
  ASSUME NodeTypes, LeafInv, IterInv, NEW n \in Leaf,
         NEW v \in LeafPc \cup {"done", "failed"}, NEW e \in Error,
         pc' = [pc EXCEPT ![n] = v], err' = err \/ err' = [err EXCEPT ![n] = e],
         UNCHANGED <<sig, iter>>, tries' \in [Node -> Nat], no' \in [Node -> Attempt]
  PROVE  NodeTypes' /\ LeafInv' /\ IterInv'
  BY LeafTyped DEF NodeTypes, LeafInv, IterInv, LeafPc, Settled

\* Beginning children of one node, or a phase list.
LEMMA TypeBegin ==
  ASSUME NodeTypes, LeafInv, IterInv,
         NEW S \in SUBSET Node, NEW s \in Error \cup {"none"}, NEW its \in [Node -> Nat],
         \A m \in Node : /\ Kind[m] = "steps" => its[m] <= Total(m)
                         /\ Kind[m] = "choice" => its[m] <= 2,
         Begin(S, s, its)
  PROVE  NodeTypes' /\ LeafInv' /\ IterInv'
  <1>1. \A m \in Node : Total(m) \in Nat
    BY ShapeAssumption, ParameterAssumption DEF Total
  <1>2. NodeTypes'
    BY DEF NodeTypes, Begin, LeafPc
  <1>3. LeafInv'
    BY DEF LeafInv, NodeTypes, Begin, LeafPc
  <1>4. IterInv'
    BY <1>1 DEF IterInv, NodeTypes, Begin
  <1> QED BY <1>2, <1>3, <1>4

LEMMA TypeMain ==
  ASSUME TypeInv, Main PROVE TypeInv'
  <1> USE DEF TypeInv, TypeOK
  <1> DEFINE Same == RecTypes' /\ ResTypes' /\ NodeTypes' /\ LeafInv' /\ IterInv'
  <1>0. UNCHANGED <<nodeVars, recVars, resVars>> => Same
    BY TypeNodesSame DEF recVars, resVars, RecTypes, ResTypes
  <1>1. CASE Start
    BY <1>0, <1>1, TransitionTyped
       DEF Start, Transition, MainTypes, WalkTypes, walkVars
  <1>2. CASE PhaseHead
    BY <1>0, <1>2, TransitionTyped
       DEF PhaseHead, Transition, Catch, Outcome, MainTypes, WalkTypes, walkVars
  <1>3. CASE PhaseEnd
    BY <1>0, <1>3, TransitionTyped
       DEF PhaseEnd, Transition, Catch, Outcome, PhaseCount, MainTypes, WalkTypes, walkVars
  <1>4. CASE StartCleanups
    BY <1>0, <1>4, SnapshotTyped DEF StartCleanups, MainTypes, WalkTypes, ResTypes
  <1>5. CASE Settle
    BY <1>0, <1>5, TransitionTyped
       DEF Settle, Transition, Outcome, MainTypes, WalkTypes, walkVars
  <1>6. ASSUME NEW ok \in BOOLEAN, Entered(ok) PROVE TypeInv'
    <2>1. MainTypes' /\ WalkTypes'
      BY <1>6, ObservedTyped, TransitionTyped
         DEF Entered, Catch, Transition, Outcome, PhaseCount,
             MainTypes, WalkTypes, walkVars
    <2>2. CASE ok /\ phase > 0
      <3>1. PhaseRoot[phase] \in Node /\ rootSig \in Error \cup {"none"}
        BY <2>2, PhaseAssumption DEF MainTypes, Error
      <3>2. Begin({PhaseRoot[phase]}, rootSig, iter)
        BY <1>6, <2>2 DEF Entered, MainTypes
      <3>3. NodeTypes' /\ LeafInv' /\ IterInv'
        BY <3>1, <3>2, TypeBegin DEF IterInv, NodeTypes
      <3> QED BY <1>6, <2>1, <3>3 DEF Entered, recVars, resVars, RecTypes, ResTypes
    <2>3. CASE ~ok \/ phase = 0
      BY <1>0, <1>6, <2>1, <2>3 DEF Entered, MainTypes
    <2> QED BY <2>2, <2>3 DEF MainTypes
  <1>7. ASSUME NEW ok \in BOOLEAN, CancellingObserved(ok) PROVE TypeInv'
    BY <1>0, <1>7, ObservedTyped, TransitionTyped
       DEF CancellingObserved, Transition, MainTypes, WalkTypes, walkVars
  <1>8. ASSUME NEW ok \in BOOLEAN, DecisionObserved(ok) PROVE TypeInv'
    BY <1>0, <1>8, ObservedTyped, TransitionTyped
       DEF DecisionObserved, Transition, Catch, Outcome, MainTypes, WalkTypes, walkVars
  <1>9. ASSUME NEW ok \in BOOLEAN, CleanupObserved(ok) PROVE TypeInv'
    <2>1. MainTypes'
      BY <1>9, ObservedTyped DEF CleanupObserved, CleanupCatch, Outcome, MainTypes
    <2>2. Snapshot(comps) \in Seq(Node) /\ <<>> \in Seq(Node)
      BY SnapshotTyped DEF ResTypes
    <2>3. WalkTypes'
      BY <1>9, <2>2 DEF CleanupObserved, CleanupCatch, WalkTypes
    <2> QED BY <1>0, <1>9, <2>1, <2>3 DEF CleanupObserved
  <1>10. ASSUME NEW ok \in BOOLEAN, SettleObserved(ok) PROVE TypeInv'
    BY <1>0, <1>10, ObservedTyped
       DEF SettleObserved, CleanupCatch, Outcome, MainTypes, WalkTypes, walkVars
  <1>11. ASSUME NEW ok \in BOOLEAN, NEW b \in BOOLEAN, Compensate(ok, b) PROVE TypeInv'
    <2>1. Head(todo) \in Node /\ Tail(todo) \in Seq(Node)
      BY <1>11 DEF Compensate, WalkTypes
    <2>2. [node |-> Head(todo), no |-> 0, lease |-> FALSE] \in Entry
      BY <2>1, ParameterAssumption DEF Entry, Attempt
    <2>3. MainTypes' /\ WalkTypes' /\ ResTypes'
      BY <1>11, <2>1, <2>2 DEF Compensate, MainTypes, WalkTypes, ResTypes
    <2> QED BY <1>11, <2>3, TypeNodesSame DEF Compensate, recVars, RecTypes
  <1>12. ASSUME NEW ok \in BOOLEAN, NEW b \in BOOLEAN, RunCleanup(b, ok) PROVE TypeInv'
    <2>1. Head(todo) \in Entry /\ Tail(todo) \in Seq(Entry)
      BY <1>12 DEF RunCleanup, WalkTypes
    <2>2. MainTypes' /\ WalkTypes' /\ ResTypes'
      BY <1>12, <2>1 DEF RunCleanup, onResourceReleased, MainTypes, WalkTypes, ResTypes
    <2> QED BY <1>12, <2>2, TypeNodesSame DEF RunCleanup, recVars, RecTypes
  <1> QED BY <1>1, <1>2, <1>3, <1>4, <1>5, <1>6, <1>7, <1>8, <1>9, <1>10, <1>11, <1>12
          DEF Main

\* A compound node's step leaves everything but the nodes alone.
LEMMA TypeNodeRest ==
  ASSUME MainTypes, RecTypes, ResTypes, WalkTypes, UNCHANGED nodeRest
  PROVE  MainTypes' /\ RecTypes' /\ ResTypes' /\ WalkTypes'
  BY DEF MainTypes, RecTypes, ResTypes, WalkTypes,
         nodeRest, mainVars, recVars, resVars, walkVars

LEMMA TypeCompound ==
  ASSUME TypeInv, NEW n \in Node, Compound(n) \/ StepTimer(n) PROVE TypeInv'
  <1>a. UNCHANGED nodeRest
    BY DEF Compound, NextStep, StartParallel, SelectBranch, Complete, Unwind, LoseRace,
           StepTimer
  <1> SUFFICES NodeTypes' /\ LeafInv' /\ IterInv'
    BY <1>a, TypeNodeRest DEF TypeInv, TypeOK
  <1>0. /\ NodeTypes /\ LeafInv /\ IterInv
        /\ sig \in [Node -> Error \cup {"none"}]
        /\ tries \in [Node -> Nat] /\ no \in [Node -> Attempt]
    BY DEF TypeInv, TypeOK, NodeTypes
  <1>1. ASSUME NEW S \in SUBSET KidSet(n), NEW i \in Nat, BeginKids(n, S, i),
               Kind[n] = "steps" => i <= Total(n), Kind[n] = "choice" => i <= 2
        PROVE NodeTypes' /\ LeafInv' /\ IterInv'
    <2>1. S \in SUBSET Node
      BY KidSetTyped
    <2> DEFINE its == [iter EXCEPT ![n] = i]
    <2>2. its \in [Node -> Nat] /\ sig[n] \in Error \cup {"none"}
      BY <1>0 DEF NodeTypes
    <2>3. \A m \in Node : /\ Kind[m] = "steps" => its[m] <= Total(m)
                          /\ Kind[m] = "choice" => its[m] <= 2
      BY <1>0, <1>1 DEF NodeTypes, IterInv
    <2>4. Begin(S, sig[n], its)
      BY <1>1 DEF BeginKids
    <2> HIDE DEF its
    <2> QED BY <1>0, <2>1, <2>2, <2>3, <2>4, TypeBegin
  <1>2. CASE NextStep(n)
    <2>1. CASE sig[n] # "none"
      BY <1>0, <1>2, <2>1, ThrownTyped, TypeFail DEF NextStep
    <2>2. CASE sig[n] = "none"
      <3>1. iter[n] \in Nat /\ iter[n] < Total(n)
        BY <1>0, <1>2 DEF NextStep, NodeTypes
      <3>2. {Kids[n][(iter[n] % Len(Kids[n])) + 1]} \in SUBSET KidSet(n)
        BY <3>1, KidInRange
      <3>3. Total(n) \in Nat
        BY ShapeAssumption, ParameterAssumption DEF Total
      <3>4. iter[n] + 1 \in Nat /\ iter[n] + 1 <= Total(n)
        BY <3>1, <3>3
      <3> QED BY <1>1, <1>2, <2>2, <3>2, <3>4 DEF NextStep
    <2> QED BY <2>1, <2>2
  <1>3. CASE StartParallel(n)
    BY <1>1, <1>3 DEF StartParallel
  <1>4. CASE SelectBranch(n)
    <2>1. PICK i \in 1..2 : BeginKids(n, {Kids[n][i]}, i)
      BY <1>4 DEF SelectBranch
    <2>2. {Kids[n][i]} \in SUBSET KidSet(n)
      BY <1>4, ShapeAssumption DEF SelectBranch, KidSet
    <2> QED BY <1>1, <1>4, <2>1, <2>2 DEF SelectBranch
  <1>5. CASE Complete(n)
    BY <1>0, <1>5 DEF Complete, LeafPc, NodeTypes, LeafInv, IterInv, Settled
  <1>6. CASE Unwind(n)
    <2>1. PICK c \in Awaited(n) :
            /\ Fail(n, err[c])
            /\ sig' = IF Kind[n] = "parallel" THEN Abort(Below[n], err[c]) ELSE sig
      BY <1>6 DEF Unwind
    <2>2. c \in Node
      BY <1>0, <2>1, AwaitedTyped, KidSetTyped
    <2>3. err[c] \in Error
      BY <1>0, <2>2 DEF NodeTypes
    <2>4. sig' \in [Node -> Error \cup {"none"}]
      BY <1>0, <2>1, <2>3 DEF Abort
    <2> QED BY <1>0, <1>6, <2>1, <2>3, <2>4, TypeFail DEF Unwind
  <1>7. CASE LoseRace(n)
    <2>1. sig[n] \in Error
      BY <1>0, <1>7 DEF LoseRace, Raced
    <2> QED BY <1>0, <1>7, <2>1, TypeFail DEF LoseRace
  <1>8. CASE StepTimer(n)
    <2>1. sig' \in [Node -> Error \cup {"none"}]
      BY <1>0, <1>8 DEF StepTimer, Abort, Error
    <2> QED BY <1>0, <1>8, <2>1 DEF StepTimer, NodeTypes, LeafInv, IterInv
  <1> QED BY <1>2, <1>3, <1>4, <1>5, <1>6, <1>7, <1>8 DEF Compound

\* The pieces leaves and handlers leave alone.
LEMMA TypeLeafRest ==
  ASSUME MainTypes, WalkTypes, UNCHANGED leafRest, faults' \in 0..MaxFaults
  PROVE  MainTypes' /\ WalkTypes'
  BY DEF MainTypes, WalkTypes, leafRest, mainVars, walkVars

\* Storing a step record.
LEMMA TypeRecord ==
  ASSUME NodeTypes, RecTypes, NEW n \in Leaf,
         NEW s \in {"RUNNING", "PASSED", "FAILED", "CANCELLED"},
         Record(n, s), UNCHANGED counter
  PROVE  RecTypes'
  BY LeafTyped DEF Record, RecTypes, NodeTypes

LEMMA TypeLeaf ==
  ASSUME TypeInv, NEW n \in Node, LeafStep(n) \/ Interrupt(n) \/ PollExpire(n)
  PROVE  TypeInv'
  <1> DEFINE Nodes == NodeTypes' /\ LeafInv' /\ IterInv'
             Rest == MainTypes' /\ WalkTypes'
  <1>0. MainTypes /\ NodeTypes /\ RecTypes /\ ResTypes /\ WalkTypes /\ LeafInv /\ IterInv
    BY DEF TypeInv, TypeOK
  <1>1. pc[n] \in LeafPc
    BY DEF LeafStep, Try, Delay, StartObserved, PassObserved, FailObserved, Interrupt,
           PollExpire, LeafPc
  <1>2. n \in Leaf /\ StepId[n] \in Id
    BY <1>0, <1>1, LeafTyped DEF LeafInv
  <1>3. faults' \in 0..MaxFaults /\ UNCHANGED leafRest
    BY <1>0, ObservedTyped
       DEF LeafStep, Try, Delay, StartObserved, PassObserved, FailObserved, Interrupt,
           PollExpire, MainTypes
  <1>4. Rest
    BY <1>0, <1>3, TypeLeafRest
  <1>5. tries \in [Node -> Nat] /\ no \in [Node -> Attempt] /\ sig[n] \in Error \cup {"none"}
    BY <1>0 DEF NodeTypes
  <1>6. CASE Try(n)
    <2>1. CASE sig[n] # "none"
      <3>1. Nodes
        BY <1>0, <1>2, <1>5, <1>6, <2>1, ThrownTyped, TypeLeafNode DEF Try, Fail
      <3> QED BY <1>0, <1>4, <1>6, <2>1, <3>1
              DEF Try, RecTypes, ResTypes, resVars, TypeInv, TypeOK
    <2>2. CASE sig[n] = "none"
      <3>1. counter[StepId[n]] \in Attempt /\ counter[StepId[n]] < MaxAttempt
        BY <1>0, <1>2, <1>6, <2>2 DEF Try, RecTypes
      <3>2. actualAttempt(n) \in Attempt
        BY <3>1, ParameterAssumption DEF actualAttempt, Attempt
      <3>3. tries' \in [Node -> Nat] /\ no' \in [Node -> Attempt]
        BY <1>5, <1>6, <2>2, <3>2 DEF Try
      <3>4. Nodes
        BY <1>0, <1>2, <1>6, <2>2, <3>3, TypeLeafNode DEF Try, LeafPc, Error
      <3>5. RecTypes'
        BY <1>0, <1>2, <1>6, <2>2, <3>2 DEF Try, RecTypes
      <3> QED BY <1>0, <1>4, <1>6, <3>4, <3>5 DEF Try, ResTypes, resVars, TypeInv, TypeOK
    <2> QED BY <2>1, <2>2
  <1>7. ASSUME NEW ok \in BOOLEAN, StartObserved(n, ok) PROVE TypeInv'
    <2>1. Nodes
      BY <1>0, <1>2, <1>5, <1>7, ThrownTyped, TypeLeafNode
         DEF StartObserved, Caught, Fail, LeafPc, Error
    <2>2. RecTypes'
      BY <1>0, <1>2, <1>7, TypeRecord DEF StartObserved, RecTypes
    <2> DEFINE new == [node |-> n, no |-> no[n], stage |-> "work",
                       watched |-> sig[n] = "none"]
    <2>3. new \in HandlerType
      BY <1>2, <1>5 DEF HandlerType
    <2>4. /\ running' = running \/ running' = running \cup {new}
          /\ UNCHANGED <<cleanups, comps, leases>>
      BY <1>7 DEF StartObserved
    <2> HIDE DEF new
    <2>5. ResTypes'
      BY <1>0, <2>3, <2>4 DEF ResTypes
    <2> QED BY <1>4, <2>1, <2>2, <2>5 DEF TypeInv, TypeOK
  <1>8. CASE Interrupt(n)
    <2>1. Nodes
      BY <1>0, <1>2, <1>5, <1>8, TypeLeafNode DEF Interrupt, Caught, LeafPc, Error
    <2> QED BY <1>0, <1>4, <1>8, <2>1
            DEF Interrupt, RecTypes, recVars, ResTypes, resVars, TypeInv, TypeOK
  <1>9. ASSUME NEW ok \in BOOLEAN, PassObserved(n, ok) PROVE TypeInv'
    <2>1. Nodes
      BY <1>0, <1>2, <1>5, <1>9, TypeLeafNode DEF PassObserved, Caught, LeafPc, Error
    <2>2. RecTypes'
      BY <1>0, <1>2, <1>9, TypeRecord DEF PassObserved, RecTypes
    <2>3. ResTypes'
      <3>1. comps' \in {comps, Append(comps, n)} /\ UNCHANGED <<running, cleanups, leases>>
        BY <1>9 DEF PassObserved
      <3> QED BY <1>0, <3>1 DEF ResTypes
    <2> QED BY <1>4, <2>1, <2>2, <2>3 DEF TypeInv, TypeOK
  <1>10. ASSUME NEW ok \in BOOLEAN, FailObserved(n, ok) PROVE TypeInv'
    <2>1. Nodes
      BY <1>0, <1>2, <1>5, <1>10, TypeLeafNode DEF FailObserved, Fail, LeafPc, Error
    <2>2. RecTypes'
      BY <1>0, <1>2, <1>10, TypeRecord DEF FailObserved, RecTypes
    <2> QED BY <1>0, <1>4, <1>10, <2>1, <2>2
            DEF FailObserved, ResTypes, resVars, TypeInv, TypeOK
  <1>11. CASE Delay(n)
    <2>1. tries' \in [Node -> Nat] /\ no' \in [Node -> Attempt]
      BY <1>5, <1>11 DEF Delay
    <2>2. Nodes
      BY <1>0, <1>2, <1>5, <1>11, <2>1, ThrownTyped, TypeLeafNode DEF Delay, Fail, LeafPc, Error
    <2> QED BY <1>0, <1>4, <1>11, <2>2
            DEF Delay, RecTypes, recVars, ResTypes, resVars, TypeInv, TypeOK
  <1>12. CASE PollExpire(n)
    <2>1. Nodes
      BY <1>0, <1>2, <1>5, <1>12, TypeLeafNode DEF PollExpire, Fail, LeafPc, Error
    <2> QED BY <1>0, <1>4, <1>12, <2>1
            DEF PollExpire, RecTypes, recVars, ResTypes, resVars, TypeInv, TypeOK
  <1> QED BY <1>6, <1>7, <1>8, <1>9, <1>10, <1>11, <1>12 DEF LeafStep

LEMMA TypeHandler ==
  ASSUME TypeInv, NEW h \in running, Handler(h) PROVE TypeInv'
  <1> DEFINE Nodes == NodeTypes' /\ LeafInv' /\ IterInv'
  <1>0. MainTypes /\ NodeTypes /\ RecTypes /\ ResTypes /\ WalkTypes /\ LeafInv /\ IterInv
    BY DEF TypeInv, TypeOK
  <1>1. h \in HandlerType
    BY <1>0 DEF ResTypes
  <1>2. h.node \in Leaf /\ h.node \in Node /\ h.no \in Attempt
    BY <1>1, LeafTyped DEF HandlerType
  <1>3. \A b \in BOOLEAN : [node |-> h.node, no |-> h.no, lease |-> b] \in Entry
    BY <1>2 DEF Entry
  <1>4. CASE RegisterCleanup(h)
    <2>1. ResTypes'
      <3>1. /\ running' \subseteq running \cup {[h EXCEPT !.stage = s] : s \in {"held", "denied"}}
            /\ UNCHANGED comps
        BY <1>4 DEF RegisterCleanup, SetStage
      <3>2. PICK b \in BOOLEAN :
              LET e == [node |-> h.node, no |-> h.no, lease |-> b]
              IN cleanups' \in {cleanups, Append(cleanups, e)} /\ leases' \subseteq leases \cup {e}
        BY <1>4 DEF RegisterCleanup
      <3> DEFINE e == [node |-> h.node, no |-> h.no, lease |-> b]
      <3>3. e \in Entry /\ cleanups' \in {cleanups, Append(cleanups, e)}
                       /\ leases' \subseteq leases \cup {e}
        BY <1>3, <3>2
      <3> HIDE DEF e
      <3>4. cleanups' \in Seq(Entry) /\ leases' \subseteq Entry
        BY <1>0, <3>3 DEF ResTypes
      <3>5. \A s \in {"held", "denied"} : [h EXCEPT !.stage = s] \in HandlerType
        BY <1>1 DEF HandlerType
      <3>6. running' \subseteq HandlerType
        BY <1>0, <3>1, <3>5 DEF ResTypes
      <3> QED BY <1>0, <3>1, <3>4, <3>6 DEF ResTypes
    <2>2. Nodes
      BY <1>0, <1>4, TypeNodesSame DEF RegisterCleanup
    <2>3. MainTypes' /\ WalkTypes'
      BY <1>0, <1>4, TypeLeafRest DEF RegisterCleanup, MainTypes
    <2> QED BY <1>0, <1>4, <2>1, <2>2, <2>3
            DEF RegisterCleanup, RecTypes, recVars, TypeInv, TypeOK
  <1>5. ASSUME NEW ok \in BOOLEAN, RegisterResourceLease(h, ok) PROVE TypeInv'
    <2>1. ResTypes'
      <3>1. /\ running' \subseteq running \cup {[h EXCEPT !.stage = s] : s \in {"held", "denied"}}
            /\ UNCHANGED comps
        BY <1>5 DEF RegisterResourceLease, SetStage
      <3>2. PICK b \in BOOLEAN :
              LET e == [node |-> h.node, no |-> h.no, lease |-> b]
              IN cleanups' \in {cleanups, Append(cleanups, e)} /\ leases' \subseteq leases \cup {e}
        BY <1>5 DEF RegisterResourceLease
      <3> DEFINE e == [node |-> h.node, no |-> h.no, lease |-> b]
      <3>3. e \in Entry /\ cleanups' \in {cleanups, Append(cleanups, e)}
                       /\ leases' \subseteq leases \cup {e}
        BY <1>3, <3>2
      <3> HIDE DEF e
      <3>4. cleanups' \in Seq(Entry) /\ leases' \subseteq Entry
        BY <1>0, <3>3 DEF ResTypes
      <3>5. \A s \in {"held", "denied"} : [h EXCEPT !.stage = s] \in HandlerType
        BY <1>1 DEF HandlerType
      <3>6. running' \subseteq HandlerType
        BY <1>0, <3>1, <3>5 DEF ResTypes
      <3> QED BY <1>0, <3>1, <3>4, <3>6 DEF ResTypes
    <2>2. Nodes
      BY <1>0, <1>5, TypeNodesSame DEF RegisterResourceLease
    <2>3. MainTypes' /\ WalkTypes'
      BY <1>0, <1>5, TypeLeafRest, ObservedTyped DEF RegisterResourceLease, MainTypes
    <2> QED BY <1>0, <1>5, <2>1, <2>2, <2>3
            DEF RegisterResourceLease, RecTypes, recVars, TypeInv, TypeOK
  <1>6. ASSUME NEW ok \in BOOLEAN, HandlerSettles(h, ok) PROVE TypeInv'
    <2>1. Nodes
      <3>1. CASE UNCHANGED <<pc, err>>
        BY <1>0, <1>6, <3>1, TypeNodesSame DEF HandlerSettles, nodeVars
      <3>2. tries \in [Node -> Nat] /\ no \in [Node -> Attempt]
        BY <1>0 DEF NodeTypes
      <3>3. CASE pc' = [pc EXCEPT ![h.node] = "passing"] /\ UNCHANGED err
        BY <1>0, <1>2, <1>6, <3>2, <3>3, TypeLeafNode DEF HandlerSettles, LeafPc, Error
      <3>4. CASE Caught(h.node, "fail")
        BY <1>0, <1>2, <1>6, <3>2, <3>4, TypeLeafNode DEF HandlerSettles, Caught, LeafPc, Error
      <3> QED BY <1>6, <3>1, <3>3, <3>4 DEF HandlerSettles
    <2>2. ResTypes'
      BY <1>0, <1>6 DEF HandlerSettles, ResTypes
    <2>3. (ok \/ h.watched) \in BOOLEAN
      OBVIOUS
    <2>4. MainTypes' /\ WalkTypes'
      BY <1>0, <1>6, <2>3 DEF HandlerSettles, MainTypes, WalkTypes, mainVars, walkVars
    <2> QED BY <1>0, <1>6, <2>1, <2>2, <2>4
            DEF HandlerSettles, RecTypes, recVars, TypeInv, TypeOK
  <1> QED BY <1>4, <1>5, <1>6 DEF Handler

LEMMA TypeAbort ==
  ASSUME TypeInv, Cancel \/ ScenarioTimeout PROVE TypeInv'
  <1>1. PICK r \in {"fail", "timeout"} : AbortScenario(r)
    BY DEF Cancel, ScenarioTimeout
  <1>2. NodeTypes' /\ LeafInv' /\ IterInv'
    BY <1>1 DEF AbortScenario, Abort, Error, NodeTypes, LeafInv, IterInv, TypeInv, TypeOK
  <1> QED BY <1>1, <1>2
          DEF AbortScenario, TypeInv, TypeOK, MainTypes, RecTypes, ResTypes, WalkTypes,
              mainVars, recVars, resVars, walkVars

LEMMA TypeStep == TypeInv /\ [Next]_vars => TypeInv'
  <1> SUFFICES ASSUME TypeInv, [Next]_vars PROVE TypeInv'
    OBVIOUS
  <1>1. CASE UNCHANGED vars
    BY <1>1, TypeNodesSame
       DEF vars, mainVars, recVars, resVars, walkVars, TypeInv, TypeOK,
           MainTypes, RecTypes, ResTypes, WalkTypes
  <1>2. CASE Terminated
    BY <1>1, <1>2 DEF Terminated
  <1> QED BY <1>1, <1>2, TypeMain, TypeCompound, TypeLeaf, TypeHandler, TypeAbort DEF Next

\* The engine's state has its types in every reachable state, for every
\* scenario tree, retry policy and set of timeouts.
THEOREM TypeCorrect == Spec => []TypeOK
  <1>1. Spec => []TypeInv
    BY TypeInit, TypeStep, PTL DEF Spec
  <1>2. TypeInv => TypeOK
    BY DEF TypeInv
  <1> QED BY <1>1, <1>2, PTL

-----------------------------------------------------------------------------
(* A run that passes has nothing left running                              *)

\* Below a node that is idle or done, everything is idle or done.
QuietInv == \A n \in Node : pc[n] \in Settled => \A d \in Below[n] : pc[d] \in Settled

\* The children an open node does not await are idle or done.
KidsInv == \A n \in Node : pc[n] = "open" =>
             \A c \in KidSet(n) \ Awaited(n) : pc[c] \in Settled

\* Earlier phases are done, later ones have not begun.
PhaseInv ==
  /\ \A q \in 1..PhaseCount : /\ q < phase => pc[PhaseRoot[q]] = "done"
                              /\ q > phase => pc[PhaseRoot[q]] = "idle"
  /\ at \in {"entering", "head"} /\ phase > 0 => pc[PhaseRoot[phase]] = "idle"
  /\ at \in {"head", "steps"} => phase > 0
  /\ at = "created" => phase = 0

\* A verdict of PASSED, announced or not, comes after the last phase.
VerdictInv ==
  \/ at \notin {"created", "entering", "head", "steps"} /\ outcome = "PASSED"
  \/ state = "PASSED"
  => phase = PhaseCount /\ pc[PhaseRoot[PhaseCount]] = "done"

TreeInv == QuietInv /\ KidsInv /\ PhaseInv /\ VerdictInv

LEMMA TreeInit == Init => TreeInv
  <1> SUFFICES ASSUME Init PROVE TreeInv
    OBVIOUS
  <1> USE DEF Init, InitPc, Settled
  <1>1. QuietInv
    BY TreeAssumption DEF QuietInv
  <1>2. KidsInv
    BY DEF KidsInv
  <1>3. PhaseInv /\ VerdictInv
    BY PhaseAssumption DEF PhaseInv, VerdictInv, PhaseCount
  <1> QED BY <1>1, <1>2, <1>3 DEF TreeInv

\* What a node awaits depends on its progress only.
LEMMA AwaitedSame ==
  ASSUME NEW n, iter'[n] = iter[n] PROVE Awaited(n)' = Awaited(n)
  BY DEF Awaited, Current

\* A step that moves no node and keeps the run's bookkeeping.
LEMMA TreeSame ==
  ASSUME TreeInv, UNCHANGED <<pc, iter>>, PhaseInv', VerdictInv' PROVE TreeInv'
  <1>1. \A n \in Node : Awaited(n)' = Awaited(n)
    BY AwaitedSame
  <1> QED BY <1>1 DEF TreeInv, QuietInv, KidsInv

\* A step that moves one active node to a state other than open.
LEMMA TreeMove ==
  ASSUME TypeInv, TreeInv, NEW n \in Node, NEW v, v # "open", pc[n] \notin Settled,
         v \in Settled => v = "done" /\ \A d \in Below[n] : pc[d] \in Settled,
         pc' = [pc EXCEPT ![n] = v], UNCHANGED <<iter, mainVars>>
  PROVE  TreeInv'
  <1>0. pc \in [Node -> Settled \cup {"open", "failed"} \cup LeafPc]
    BY DEF TypeInv, TypeOK, NodeTypes
  <1>1. \A m \in Node : m # n => pc'[m] = pc[m]
    BY <1>0
  <1>2. pc'[n] = v
    BY <1>0
  <1>3. \A m \in Node : Awaited(m)' = Awaited(m)
    BY AwaitedSame
  <1>4. QuietInv'
    <2> SUFFICES ASSUME NEW m \in Node, pc'[m] \in Settled, NEW d \in Below[m]
                 PROVE  pc'[d] \in Settled
      BY DEF QuietInv
    <2>1. d \in Node /\ d # m
      BY TreeAssumption
    <2>2. CASE m = n
      BY <1>1, <1>2, <2>1, <2>2
    <2>3. CASE m # n
      BY <1>1, <2>1, <2>3 DEF TreeInv, QuietInv
    <2> QED BY <2>2, <2>3
  <1>5. KidsInv'
    <2> SUFFICES ASSUME NEW m \in Node, pc'[m] = "open", NEW c \in KidSet(m) \ Awaited(m)
                 PROVE  pc'[c] \in Settled
      BY <1>3 DEF KidsInv
    <2>1. m # n /\ pc[m] = "open"
      BY <1>1, <1>2
    <2>2. pc[c] \in Settled
      BY <2>1 DEF TreeInv, KidsInv
    <2>3. c \in Node /\ c # n
      BY <2>2, KidSetTyped
    <2> QED BY <1>1, <2>2, <2>3
  <1>6. \A q \in 1..PhaseCount : pc[PhaseRoot[q]] \in {"idle", "done"} =>
                                   pc'[PhaseRoot[q]] = pc[PhaseRoot[q]]
    BY <1>1, PhaseAssumption DEF Settled
  <1>7. PhaseInv'
    BY <1>6 DEF TreeInv, PhaseInv, mainVars, TypeInv, TypeOK, MainTypes
  <1>8. VerdictInv'
    <2>1. PhaseCount \in 1..PhaseCount
      BY DEF PhaseCount
    <2> QED BY <1>6, <2>1 DEF TreeInv, VerdictInv, mainVars
  <1> QED BY <1>4, <1>5, <1>7, <1>8 DEF TreeInv

\* An open node whose children are all settled begins some of them.
LEMMA TreeBegin ==
  ASSUME TypeInv, TreeInv, NEW n \in Node, pc[n] = "open",
         \A c \in KidSet(n) : pc[c] \in Settled,
         NEW S \in SUBSET KidSet(n), NEW i \in Nat, BeginKids(n, S, i),
         S \subseteq Awaited(n)', UNCHANGED mainVars
  PROVE  TreeInv'
  <1>0. pc \in [Node -> Settled \cup {"open", "failed"} \cup LeafPc] /\ iter \in [Node -> Nat]
    BY DEF TypeInv, TypeOK, NodeTypes
  <1>1. S \subseteq Node /\ n \notin S
    BY KidSetTyped DEF Settled
  <1>2. \A m \in Node : /\ m \notin S => pc'[m] = pc[m]
                        /\ m \in S => pc'[m] \notin Settled
                        /\ m \in S => iter'[m] = 0
                        /\ m \notin S /\ m # n => iter'[m] = iter[m]
    BY <1>0 DEF BeginKids, Begin, Settled
  <1>3. QuietInv'
    <2> SUFFICES ASSUME NEW m \in Node, pc'[m] \in Settled, NEW d \in Below[m]
                 PROVE  pc'[d] \in Settled
      BY DEF QuietInv
    <2>1. d \in Node
      BY TreeAssumption
    <2>2. m \notin S /\ pc[m] \in Settled
      BY <1>2
    <2>3. pc[d] \in Settled
      BY <2>2 DEF TreeInv, QuietInv
    <2>4. d \notin S
      <3> SUFFICES ASSUME d \in S PROVE FALSE
        OBVIOUS
      <3>1. m = n \/ n \in Below[m]
        BY TreeAssumption
      <3> QED BY <2>2, <3>1 DEF TreeInv, QuietInv, Settled
    <2> QED BY <1>2, <2>1, <2>3, <2>4
  <1>4. KidsInv'
    <2> SUFFICES ASSUME NEW m \in Node, pc'[m] = "open", NEW c \in KidSet(m),
                        c \notin Awaited(m)'
                 PROVE  pc'[c] \in Settled
      BY DEF KidsInv
    <2>1. c \in Node
      BY KidSetTyped
    <2>2. CASE m = n
      BY <1>2, <2>1, <2>2
    <2>3. CASE m \in S
      <3>1. pc[m] \in Settled /\ c \in Below[m]
        BY <2>3, TreeAssumption
      <3>2. pc[c] \in Settled
        BY <3>1 DEF TreeInv, QuietInv
      <3>3. c \notin S
        BY <1>1, <2>3, TreeAssumption
      <3> QED BY <1>2, <2>1, <3>2, <3>3
    <2>4. CASE m # n /\ m \notin S
      <3>1. pc[m] = "open" /\ c \notin Awaited(m)
        BY <1>2, <2>4, AwaitedSame
      <3>2. pc[c] \in Settled
        BY <3>1 DEF TreeInv, KidsInv
      <3>3. c \notin S
        BY <2>4, TreeAssumption
      <3> QED BY <1>2, <2>1, <3>2, <3>3
    <2> QED BY <2>2, <2>3, <2>4
  <1>5. \A q \in 1..PhaseCount : pc'[PhaseRoot[q]] = pc[PhaseRoot[q]]
    <2> SUFFICES ASSUME NEW q \in 1..PhaseCount PROVE pc'[PhaseRoot[q]] = pc[PhaseRoot[q]]
      OBVIOUS
    <2>1. PhaseRoot[q] \in Node /\ PhaseRoot[q] \notin Below[n]
      BY PhaseAssumption
    <2>2. KidSet(n) \subseteq Below[n]
      BY TreeAssumption
    <2> QED BY <1>2, <2>1, <2>2
  <1>6. PhaseInv'
    BY <1>5 DEF TreeInv, PhaseInv, mainVars, TypeInv, TypeOK, MainTypes
  <1>7. VerdictInv'
    <2>1. PhaseCount \in 1..PhaseCount
      BY DEF PhaseCount
    <2> QED BY <1>5, <2>1 DEF TreeInv, VerdictInv, mainVars
  <1> QED BY <1>3, <1>4, <1>6, <1>7 DEF TreeInv

LEMMA TreeCompound ==
  ASSUME TypeInv, TreeInv, NEW n \in Node, Compound(n) \/ StepTimer(n) PROVE TreeInv'
  <1>0. NodeTypes /\ IterInv
    BY DEF TypeInv, TypeOK
  <1>a. UNCHANGED mainVars /\ pc[n] = "open"
    BY DEF Compound, NextStep, StartParallel, SelectBranch, Complete, Unwind, LoseRace,
           StepTimer, nodeRest
  <1>b. pc[n] \notin Settled
    BY <1>a DEF Settled
  <1>c. ASSUME \A c \in Awaited(n) : pc[c] = "done" PROVE \A c \in KidSet(n) : pc[c] \in Settled
    BY <1>a, <1>c DEF TreeInv, KidsInv, Settled
  <1>d. ASSUME NEW e, Fail(n, e), UNCHANGED iter PROVE TreeInv'
    <2>1. "failed" \notin Settled /\ "failed" # "open"
      BY DEF Settled
    <2> QED BY <1>a, <1>b, <1>d, <2>1, TreeMove DEF Fail
  <1>1. CASE NextStep(n)
    <2>1. CASE sig[n] # "none"
      BY <1>1, <1>d, <2>1 DEF NextStep
    <2>2. CASE sig[n] = "none"
      <3> DEFINE c == Kids[n][(iter[n] % Len(Kids[n])) + 1]
      <3>1. iter[n] \in Nat /\ iter[n] < Total(n) /\ Kind[n] = "steps"
        BY <1>0, <1>1 DEF NextStep, NodeTypes
      <3>2. {c} \in SUBSET KidSet(n) /\ Len(Kids[n]) > 0
        BY <3>1, KidInRange
      <3>3. BeginKids(n, {c}, iter[n] + 1)
        BY <1>1, <2>2 DEF NextStep
      <3>4. n # c
        BY <1>c, <1>1, <1>b, <3>2 DEF NextStep
      <3>5. iter'[n] = iter[n] + 1
        BY <1>0, <3>3, <3>4 DEF BeginKids, Begin, NodeTypes
      <3>6. iter'[n] # 0 /\ iter'[n] - 1 = iter[n]
        BY <3>1, <3>5
      <3>7. Awaited(n)' = {c}
        BY <3>1, <3>6 DEF Awaited, Current
      <3>8. \A k \in KidSet(n) : pc[k] \in Settled
        BY <1>c, <1>1 DEF NextStep
      <3>9. iter[n] + 1 \in Nat
        BY <3>1
      <3> HIDE DEF c
      <3> QED BY <1>a, <3>2, <3>3, <3>7, <3>8, <3>9, TreeBegin
    <2> QED BY <2>1, <2>2
  <1>2. CASE StartParallel(n)
    <2>1. Kind[n] = "parallel" /\ iter[n] = 0 /\ BeginKids(n, KidSet(n), 1)
      BY <1>2 DEF StartParallel
    <2>2. \A k \in KidSet(n) : pc[k] \in Settled
      BY <1>c, <2>1 DEF Awaited
    <2>3. iter'[n] = 1
      BY <1>0, <1>b, <2>1, <2>2 DEF BeginKids, Begin, NodeTypes
    <2>4. Awaited(n)' = KidSet(n)
      BY <2>1, <2>3 DEF Awaited
    <2> QED BY <1>a, <2>1, <2>2, <2>4, TreeBegin
  <1>3. CASE SelectBranch(n)
    <2>1. Kind[n] = "choice" /\ iter[n] = 0
      BY <1>3 DEF SelectBranch
    <2>2. PICK i \in 1..2 : BeginKids(n, {Kids[n][i]}, i)
      BY <1>3 DEF SelectBranch
    <2>3. {Kids[n][i]} \in SUBSET KidSet(n)
      BY <2>1, ShapeAssumption DEF KidSet
    <2>4. \A k \in KidSet(n) : pc[k] \in Settled
      BY <1>c, <2>1 DEF Awaited
    <2>5. iter'[n] = i
      BY <1>0, <1>b, <2>2, <2>3, <2>4 DEF BeginKids, Begin, NodeTypes
    <2>6. Awaited(n)' = {Kids[n][i]}
      BY <2>1, <2>5 DEF Awaited
    <2> QED BY <1>a, <2>2, <2>3, <2>4, <2>6, TreeBegin
  <1>4. CASE Complete(n)
    <2>1. \A c \in KidSet(n) : pc[c] \in Settled
      BY <1>c, <1>4 DEF Complete
    <2>2. \A c \in KidSet(n) : c \in Node
      BY KidSetTyped
    <2>3. \A d \in Below[n] : pc[d] \in Settled
      BY <2>1, <2>2, TreeAssumption DEF TreeInv, QuietInv
    <2>4. pc' = [pc EXCEPT ![n] = "done"] /\ UNCHANGED iter
      BY <1>4 DEF Complete
    <2>5. "done" # "open"
      OBVIOUS
    <2> QED BY <1>a, <1>b, <2>3, <2>4, <2>5, TreeMove
  <1>5. CASE Unwind(n)
    BY <1>5, <1>d DEF Unwind
  <1>6. CASE LoseRace(n)
    BY <1>6, <1>d DEF LoseRace
  <1>7. CASE StepTimer(n)
    <2>1. UNCHANGED <<pc, iter>>
      BY <1>7 DEF StepTimer
    <2>2. PhaseInv' /\ VerdictInv'
      BY <1>a, <2>1 DEF TreeInv, PhaseInv, VerdictInv, mainVars
    <2> QED BY <2>1, <2>2, TreeSame
  <1> QED BY <1>1, <1>2, <1>3, <1>4, <1>5, <1>6, <1>7 DEF Compound

\* A leaf in the course of an attempt moves on.
LEMMA TreeLeafMove ==
  ASSUME TypeInv, TreeInv, NEW n \in Leaf, pc[n] \in LeafPc,
         NEW v \in LeafPc \cup {"done", "failed"},
         pc' = [pc EXCEPT ![n] = v], UNCHANGED <<iter, mainVars>>
  PROVE  TreeInv'
  <1>1. n \in Node /\ pc[n] \notin Settled /\ v # "open"
    BY LeafTyped DEF LeafPc, Settled
  <1>2. v \in Settled => v = "done"
    BY DEF LeafPc, Settled
  <1>3. Below[n] = {}
    <2>1. KidSet(n) = {}
      BY ShapeAssumption DEF KidSet
    <2> QED BY <1>1, <2>1, TreeAssumption
  <1> QED BY <1>1, <1>2, <1>3, TreeMove

LEMMA TreeLeaf ==
  ASSUME TypeInv, TreeInv, NEW n \in Node, LeafStep(n) \/ Interrupt(n) \/ PollExpire(n)
  PROVE  TreeInv'
  <1> USE DEF LeafStep, Try, Delay, StartObserved, PassObserved, FailObserved, Interrupt,
              PollExpire
  <1>1. pc[n] \in LeafPc
    BY DEF LeafPc
  <1>2. n \in Leaf
    BY <1>1 DEF TypeInv, LeafInv
  <1>3. UNCHANGED <<iter, mainVars>>
    BY DEF leafRest
  <1>4. \E v \in LeafPc \cup {"done", "failed"} : pc' = [pc EXCEPT ![n] = v]
    BY DEF Caught, Fail, LeafPc
  <1> QED BY <1>1, <1>2, <1>3, <1>4, TreeLeafMove

LEMMA TreeHandler ==
  ASSUME TypeInv, TreeInv, NEW h \in running, Handler(h) PROVE TreeInv'
  <1>1. h.node \in Leaf
    BY DEF TypeInv, TypeOK, ResTypes, HandlerType
  <1>2. UNCHANGED <<iter, mainVars>>
    BY DEF Handler, RegisterCleanup, RegisterResourceLease, HandlerSettles, leafRest, nodeVars
  <1>3. CASE UNCHANGED pc
    <2>1. PhaseInv' /\ VerdictInv'
      BY <1>2, <1>3 DEF TreeInv, PhaseInv, VerdictInv, mainVars
    <2> QED BY <1>2, <1>3, <2>1, TreeSame
  <1>4. CASE pc' # pc
    <2>1. pc[h.node] = "acting"
      BY <1>4 DEF Handler, RegisterCleanup, RegisterResourceLease, HandlerSettles, nodeVars
    <2>2. \E v \in {"passing", "failing", "cancelling"} : pc' = [pc EXCEPT ![h.node] = v]
      BY <1>4 DEF Handler, RegisterCleanup, RegisterResourceLease, HandlerSettles, nodeVars, Caught
    <2> QED BY <1>1, <1>2, <2>1, <2>2, TreeLeafMove DEF LeafPc
  <1> QED BY <1>3, <1>4

LEMMA TreeMain ==
  ASSUME TypeInv, TreeInv, Main PROVE TreeInv'
  <1>0. /\ phase \in 0..PhaseCount /\ PhaseCount \in Nat /\ PhaseCount \in 1..PhaseCount
        /\ PhaseInv /\ VerdictInv
    BY DEF TypeInv, TypeOK, MainTypes, TreeInv, PhaseCount
  <1>1. ASSUME NEW ok \in BOOLEAN, Entered(ok), ok, phase > 0 PROVE TreeInv'
    <2> DEFINE r == PhaseRoot[phase]
    <2>0. pc \in [Node -> Settled \cup {"open", "failed"} \cup LeafPc] /\ iter \in [Node -> Nat]
      BY DEF TypeInv, TypeOK, NodeTypes
    <2>1. r \in Node /\ r \notin Leaf /\ pc[r] = "idle"
      BY <1>0, <1>1, PhaseAssumption DEF Entered, PhaseInv, Leaf
    <2>2. Begin({r}, rootSig, iter) /\ at' = "steps" /\ UNCHANGED <<state, phase, outcome>>
      BY <1>0, <1>1 DEF Entered
    <2>3. at = "entering"
      BY <1>1 DEF Entered
    <2>4. \A m \in Node : /\ m # r => pc'[m] = pc[m] /\ iter'[m] = iter[m]
                          /\ m = r => pc'[m] = "open" /\ iter'[m] = 0
      BY <2>0, <2>1, <2>2 DEF Begin
    <2> HIDE DEF r
    <2>5. \A m \in Node : r \notin Below[m]
      BY <1>0, <1>1, PhaseAssumption DEF r
    <2>6. QuietInv'
      <3> SUFFICES ASSUME NEW m \in Node, pc'[m] \in Settled, NEW d \in Below[m]
                   PROVE  pc'[d] \in Settled
        BY DEF QuietInv
      <3>1. m # r /\ d # r /\ d \in Node
        BY <2>4, <2>5, TreeAssumption DEF Settled
      <3> QED BY <2>4, <3>1 DEF TreeInv, QuietInv
    <2>7. KidsInv'
      <3> SUFFICES ASSUME NEW m \in Node, pc'[m] = "open", NEW c \in KidSet(m),
                          c \notin Awaited(m)'
                   PROVE  pc'[c] \in Settled
        BY DEF KidsInv
      <3>1. c \in Node /\ c \in Below[m]
        BY KidSetTyped, TreeAssumption
      <3>2. c # r /\ pc'[c] = pc[c]
        BY <2>4, <2>5, <3>1
      <3>3. CASE m = r
        BY <2>1, <3>1, <3>2, <3>3 DEF TreeInv, QuietInv, Settled
      <3>4. CASE m # r
        BY <2>4, <3>2, <3>4, AwaitedSame DEF TreeInv, KidsInv
      <3> QED BY <3>3, <3>4
    <2>8. \A q \in 1..PhaseCount : q # phase => pc'[PhaseRoot[q]] = pc[PhaseRoot[q]]
      BY <1>0, <1>1, <2>4, PhaseAssumption DEF r
    <2>9. PhaseInv'
      BY <1>0, <1>1, <2>2, <2>8 DEF PhaseInv
    <2>10. VerdictInv'
      <3>1. ~(state = "PASSED")
        BY <1>0, <2>1 DEF VerdictInv, r
      <3> QED BY <2>2, <3>1 DEF VerdictInv
    <2> QED BY <2>6, <2>7, <2>9, <2>10 DEF TreeInv
  <1>2. ASSUME UNCHANGED <<pc, iter>>, PhaseInv', VerdictInv' PROVE TreeInv'
    BY <1>2, TreeSame
  <1> USE DEF PhaseInv, VerdictInv
  <1>3. ASSUME NEW ok \in BOOLEAN, Entered(ok), ~ok \/ phase = 0 PROVE TreeInv'
    <2>1. UNCHANGED <<pc, iter>>
      BY <1>0, <1>3 DEF Entered, nodeVars
    <2>2. PhaseInv' /\ VerdictInv'
      BY <1>0, <1>3, <2>1 DEF Entered, Catch, Transition, canTransition, transitions
    <2> QED BY <1>2, <2>1, <2>2
  <1>4. CASE Start
    BY <1>0, <1>2, <1>4 DEF Start, Transition, nodeVars
  <1>5. CASE PhaseHead
    <2>1. UNCHANGED <<pc, iter>> /\ at = "head" /\ UNCHANGED phase
      BY <1>5 DEF PhaseHead, Catch, nodeVars
    <2>2. \/ at' = "entering"
          \/ at' \in {"cancelling", "deciding", "threw"} /\ outcome' # "PASSED"
      <3>1. CASE Transition(PhaseStatus[phase], "entering")
        BY <3>1 DEF Transition
      <3>2. CASE Catch(thrown(rootSig))
        BY <3>2 DEF Catch, Transition
      <3> QED BY <1>5, <3>1, <3>2 DEF PhaseHead
    <2>3. phase \in 1..PhaseCount
      BY <1>0, <2>1
    <2>4. state' # "PASSED"
      <3>1. CASE Transition(PhaseStatus[phase], "entering")
        BY <2>3, <3>1 DEF Transition, PhaseStatus, PhaseCount
      <3>2. CASE Catch(thrown(rootSig))
        BY <1>0, <2>1, <3>2 DEF Catch, Transition
      <3> QED BY <1>5, <3>1, <3>2 DEF PhaseHead
    <2>5. PhaseInv' /\ VerdictInv'
      BY <1>0, <2>1, <2>2, <2>4
    <2> QED BY <1>2, <2>1, <2>5
  <1>6. CASE PhaseEnd
    <2>1. UNCHANGED <<pc, iter>>
      BY <1>6 DEF PhaseEnd, nodeVars
    <2>2. PhaseInv' /\ VerdictInv'
      BY <1>0, <1>6, <2>1 DEF PhaseEnd, Transition, Catch
    <2> QED BY <1>2, <2>1, <2>2
  <1>7. CASE StartCleanups \/ Settle
    BY <1>0, <1>2, <1>7 DEF StartCleanups, Settle, Transition, nodeVars
  <1>8. ASSUME NEW ok \in BOOLEAN, CancellingObserved(ok) \/ DecisionObserved(ok) PROVE TreeInv'
    BY <1>0, <1>2, <1>8 DEF CancellingObserved, DecisionObserved, Transition, Catch, nodeVars
  <1>9. ASSUME NEW ok \in BOOLEAN, CleanupObserved(ok) \/ SettleObserved(ok) PROVE TreeInv'
    BY <1>0, <1>2, <1>9 DEF CleanupObserved, SettleObserved, CleanupCatch, nodeVars
  <1>10. ASSUME NEW ok \in BOOLEAN, NEW b \in BOOLEAN, Compensate(ok, b) \/ RunCleanup(b, ok)
         PROVE TreeInv'
    BY <1>0, <1>2, <1>10 DEF Compensate, RunCleanup, nodeVars
  <1> QED BY <1>1, <1>3, <1>4, <1>5, <1>6, <1>7, <1>8, <1>9, <1>10, <1>0 DEF Main

LEMMA TreeAbort == ASSUME TypeInv, TreeInv, Cancel \/ ScenarioTimeout PROVE TreeInv'
  <1>1. UNCHANGED <<pc, iter, mainVars>>
    BY DEF Cancel, ScenarioTimeout, AbortScenario
  <1>2. PhaseInv' /\ VerdictInv'
    BY <1>1 DEF TreeInv, PhaseInv, VerdictInv, mainVars
  <1> QED BY <1>1, <1>2, TreeSame

LEMMA TreeStep == TypeInv /\ TreeInv /\ [Next]_vars => TreeInv'
  <1> SUFFICES ASSUME TypeInv, TreeInv, [Next]_vars PROVE TreeInv'
    OBVIOUS
  <1>1. CASE Main
    BY <1>1, TreeMain
  <1>2. ASSUME NEW n \in Node, Compound(n) \/ StepTimer(n) PROVE TreeInv'
    BY <1>2, TreeCompound
  <1>3. ASSUME NEW n \in Node, LeafStep(n) \/ Interrupt(n) \/ PollExpire(n) PROVE TreeInv'
    BY <1>3, TreeLeaf
  <1>4. ASSUME NEW h \in running, Handler(h) PROVE TreeInv'
    BY <1>4, TreeHandler
  <1>5. CASE Cancel \/ ScenarioTimeout
    BY <1>5, TreeAbort
  <1>6. CASE UNCHANGED vars
    <2>1. UNCHANGED <<pc, iter, mainVars>>
      BY <1>6 DEF vars, nodeVars
    <2>2. PhaseInv' /\ VerdictInv'
      BY <2>1 DEF TreeInv, PhaseInv, VerdictInv, mainVars
    <2> QED BY <2>1, <2>2, TreeSame
  <1> QED BY <1>1, <1>2, <1>3, <1>4, <1>5, <1>6 DEF Next, Terminated

\* PassedIsQuiet holds for every scenario tree: the verdict PASSED is only
\* announced once nothing below any phase list is executing.
THEOREM PassedIsQuietCorrect == Spec => []PassedIsQuiet
  <1>1. TypeInv /\ TreeInv => PassedIsQuiet
    <2> SUFFICES ASSUME TypeInv, TreeInv, state = "PASSED", NEW n \in Node
                 PROVE  pc[n] \in Settled
      BY DEF PassedIsQuiet
    <2>1. PICK q \in 1..PhaseCount : n = PhaseRoot[q] \/ n \in Below[PhaseRoot[q]]
      BY PhaseAssumption
    <2>2. pc[PhaseRoot[q]] = "done" /\ PhaseRoot[q] \in Node
      BY PhaseAssumption DEF TreeInv, PhaseInv, VerdictInv, PhaseCount
    <2> QED BY <2>1, <2>2 DEF TreeInv, QuietInv, Settled
  <1> QED BY <1>1, TypeInit, TypeStep, TreeInit, TreeStep, PTL DEF Spec

-----------------------------------------------------------------------------
(* Abort                                                                   *)

\* The abort of the scenario's controller has reached the signal of every
\* node, the ones not yet begun included: a node begins under its parent's.
SignalInv == rootSig # "none" => \A n \in Node : sig[n] # "none"

LEMMA SignalStep == TypeInv /\ SignalInv /\ [Next]_vars => SignalInv'
  <1> SUFFICES ASSUME TypeInv, SignalInv, [Next]_vars PROVE SignalInv'
    OBVIOUS
  <1>0. sig \in [Node -> Error \cup {"none"}] /\ rootSig \in {"none", "fail", "timeout"}
    BY DEF TypeInv, TypeOK, NodeTypes, MainTypes
  <1>s. ASSUME UNCHANGED <<rootSig, sig>> PROVE SignalInv'
    BY <1>s DEF SignalInv
  <1>b. ASSUME UNCHANGED rootSig, NEW S, NEW s, rootSig # "none" => s # "none",
               sig' = [m \in Node |-> IF m \in S THEN s ELSE sig[m]]
        PROVE  SignalInv'
    BY <1>b DEF SignalInv
  <1>1. CASE Main
    <2>1. CASE \E ok \in BOOLEAN : Entered(ok)
      <3>1. UNCHANGED rootSig
        BY <2>1 DEF Entered
      <3>2. \/ UNCHANGED sig
            \/ sig' = [m \in Node |-> IF m \in {PhaseRoot[phase]} THEN rootSig ELSE sig[m]]
        BY <2>1 DEF Entered, Begin, nodeVars
      <3>3. CASE UNCHANGED sig
        BY <1>s, <3>1, <3>3
      <3>4. CASE sig' = [m \in Node |-> IF m \in {PhaseRoot[phase]} THEN rootSig ELSE sig[m]]
        BY <3>1, <3>4 DEF SignalInv
      <3> QED BY <3>2, <3>3, <3>4
    <2>2. CASE ~\E ok \in BOOLEAN : Entered(ok)
      <3>1. UNCHANGED <<rootSig, sig>>
        BY <1>1, <2>2 DEF Main, Start, PhaseHead, PhaseEnd, StartCleanups, Settle,
             CancellingObserved, DecisionObserved, CleanupObserved, SettleObserved,
             Compensate, RunCleanup, nodeVars
      <3> QED BY <1>s, <3>1
    <2> QED BY <2>1, <2>2
  <1>2. ASSUME NEW n \in Node, Compound(n) \/ StepTimer(n) PROVE SignalInv'
    <2>1. UNCHANGED rootSig
      BY <1>2 DEF Compound, StepTimer, NextStep, StartParallel, SelectBranch, Complete,
           Unwind, LoseRace, nodeRest
    <2>2. ASSUME NEW S, NEW r \in Error, sig' = Abort(S, r) PROVE SignalInv'
      BY <1>0, <2>1, <2>2 DEF Abort, SignalInv, Error
    <2>3. ASSUME NEW S, NEW i, BeginKids(n, S, i) PROVE SignalInv'
      BY <1>b, <2>1, <2>3 DEF BeginKids, Begin, SignalInv
    <2>4. CASE StepTimer(n)
      BY <2>2, <2>4 DEF StepTimer, Error
    <2>5. CASE Unwind(n)
      <3>1. PICK c \in Awaited(n) :
              sig' = IF Kind[n] = "parallel" THEN Abort(Below[n], err[c]) ELSE sig
        BY <2>5 DEF Unwind
      <3>2. err[c] \in Error
        BY <3>1, AwaitedTyped, KidSetTyped DEF TypeInv, TypeOK, NodeTypes
      <3> QED BY <1>s, <2>1, <2>2, <3>1, <3>2
    <2>6. CASE NextStep(n)
      BY <1>s, <2>1, <2>3, <2>6 DEF NextStep
    <2>7. CASE StartParallel(n) \/ SelectBranch(n)
      BY <2>3, <2>7 DEF StartParallel, SelectBranch
    <2>8. CASE Complete(n) \/ LoseRace(n)
      BY <1>s, <2>1, <2>8 DEF Complete, LoseRace
    <2> QED BY <1>2, <2>4, <2>5, <2>6, <2>7, <2>8 DEF Compound
  <1>3. ASSUME NEW n \in Node, LeafStep(n) \/ Interrupt(n) \/ PollExpire(n) PROVE SignalInv'
    BY <1>s, <1>3 DEF LeafStep, Try, Delay, StartObserved, PassObserved, FailObserved,
         Interrupt, PollExpire, leafRest
  <1>4. ASSUME NEW h \in running, Handler(h) PROVE SignalInv'
    BY <1>s, <1>4 DEF Handler, RegisterCleanup, RegisterResourceLease, HandlerSettles,
         leafRest, nodeVars
  <1>5. CASE Cancel \/ ScenarioTimeout
    BY <1>0, <1>5 DEF Cancel, ScenarioTimeout, AbortScenario, Abort, SignalInv
  <1>6. CASE UNCHANGED vars
    BY <1>s, <1>6 DEF vars, nodeVars
  <1> QED BY <1>1, <1>2, <1>3, <1>4, <1>5, <1>6 DEF Next, Terminated

\* AbortStopsProgress holds for every scenario tree, however deep its groups
\* nest: an attempt or a phase begins only under a signal not yet aborted.
THEOREM AbortStopsProgressCorrect == Spec => AbortStopsProgress
  <1> DEFINE Stopped == rootSig # "none" =>
               no' = no /\ (state' = state \/ state' \notin PhaseStatuses)
  <1>1. TypeInv /\ SignalInv /\ [Next]_vars => [Stopped]_vars
    <2> SUFFICES ASSUME TypeInv, SignalInv, Next, rootSig # "none"
                 PROVE  no' = no /\ (state' = state \/ state' \notin PhaseStatuses)
      OBVIOUS
    <2>0. \A s \in {"VALIDATING", "PASSED", "FAILED", "CANCELLING", "CANCELLED", "CLEANUP"} :
            s \notin PhaseStatuses
      BY DEF PhaseStatuses, PhaseStatus, PhaseCount
    <2>a. outcome' \in Outcome
      BY TypeStep DEF TypeInv, TypeOK, MainTypes
    <2>1. CASE Main
      <3>1. no' = no
        BY <2>1 DEF Main, Start, Entered, PhaseHead, PhaseEnd, StartCleanups, Settle,
             CancellingObserved, DecisionObserved, CleanupObserved, SettleObserved,
             Compensate, RunCleanup, nodeVars, Begin
      <3>2. ASSUME NEW e, Catch(e) PROVE state' = state \/ state' \notin PhaseStatuses
        BY <2>0, <3>2 DEF Catch, Transition
      <3>3. state' = state \/ state' \notin PhaseStatuses
        BY <2>0, <2>1, <2>a, <3>2 DEF Main, Start, Entered, PhaseHead, PhaseEnd,
             StartCleanups, Settle, CancellingObserved, DecisionObserved, CleanupObserved,
             SettleObserved, Compensate, RunCleanup, Transition, Outcome
      <3> QED BY <3>1, <3>3
    <2>2. ASSUME NEW n \in Node, Compound(n) \/ StepTimer(n) PROVE UNCHANGED <<no, state>>
      BY <2>2 DEF Compound, StepTimer, NextStep, StartParallel, SelectBranch, Complete,
           Unwind, LoseRace, BeginKids, Begin, nodeRest, mainVars
    <2>3. ASSUME NEW n \in Node, LeafStep(n) \/ Interrupt(n) \/ PollExpire(n)
          PROVE  UNCHANGED <<no, state>>
      BY <2>3 DEF SignalInv, LeafStep, Try, Delay, StartObserved, PassObserved,
           FailObserved, Interrupt, PollExpire, leafRest, mainVars
    <2>4. ASSUME NEW h \in running, Handler(h) PROVE UNCHANGED <<no, state>>
      BY <2>4 DEF Handler, RegisterCleanup, RegisterResourceLease, HandlerSettles,
           leafRest, nodeVars, mainVars
    <2>5. CASE Cancel \/ ScenarioTimeout
      BY <2>5 DEF Cancel, ScenarioTimeout, AbortScenario, mainVars
    <2>6. CASE Terminated
      BY <2>6 DEF Terminated, vars, nodeVars, mainVars
    <2> QED BY <2>1, <2>2, <2>3, <2>4, <2>5, <2>6 DEF Next
  <1>2. Init => SignalInv
    BY DEF Init, SignalInv
  <1> QED BY <1>1, <1>2, TypeInit, TypeStep, SignalStep, PTL DEF Spec, AbortStopsProgress

-----------------------------------------------------------------------------
(* Cancellation                                                            *)

\* The caller has cancelled the run, or n is inside a step that has failed
\* already and will not report what becomes of n.
Blamed(n) == \/ rootSig = "fail"
             \/ \E m \in Node : pc[m] = "failed" /\ n \in Below[m]

\* Node n may raise a cancellation: its signal carries a reason that
\* throwIfAborted turns into one, or it has caught one.
Cancelling(n) ==
  \/ sig[n] \in {"fail", "cancelled"}
  \/ err[n] = "cancelled" /\ pc[n] \in {"failed", "failing", "cancelling"}

\* The cancellation errors a failing parallel group spreads stay inside it.
BlameInv == \A n \in Node : Cancelling(n) => Blamed(n)

CancelInv == BlameInv /\ CancelledOnlyOnRequest

\* A failure is final and so is a cancellation: who is blamed stays blamed.
LEMMA BlamedStays ==
  ASSUME NEW n \in Node, Blamed(n), rootSig = "fail" => rootSig' = "fail",
         \A m \in Node : pc[m] = "failed" => pc'[m] = "failed"
  PROVE  Blamed(n)'
  BY DEF Blamed

LEMMA BlameStep ==
  ASSUME BlameInv, rootSig = "fail" => rootSig' = "fail",
         \A m \in Node : pc[m] = "failed" => pc'[m] = "failed",
         \A m \in Node : Cancelling(m)' => Cancelling(m) \/ Blamed(m) \/ Blamed(m)'
  PROVE  BlameInv'
  BY BlamedStays DEF BlameInv

\* What excuses a child excuses its parent too, unless the parent is the one
\* that failed.
LEMMA BlameBelow ==
  ASSUME NEW n \in Node, NEW c \in KidSet(n), Blamed(c), pc[n] # "failed"
  PROVE  Blamed(n)
  <1>1. c \in Node
    BY KidSetTyped
  <1> QED BY <1>1, TreeAssumption DEF Blamed

\* What excuses a node excuses its children.
LEMMA BlameAbove ==
  ASSUME NEW n \in Node, NEW c \in KidSet(n), Blamed(n)
  PROVE  Blamed(c)
  <1>1. c \in Below[n]
    BY TreeAssumption
  <1>2. \A m \in Node : n \in Below[m] => c \in Below[m]
    BY <1>1, TreeAssumption
  <1> QED BY <1>2 DEF Blamed

\* Children of n begin, all of them idle or done before, under n's signal.
LEMMA BlameBegin ==
  ASSUME TypeInv, BlameInv, NEW n \in Node, NEW S \in SUBSET KidSet(n), NEW i,
         BeginKids(n, S, i), \A k \in S : pc[k] \in Settled, UNCHANGED rootSig
  PROVE  BlameInv'
  <1>0. pc \in [Node -> Settled \cup {"open", "failed"} \cup LeafPc]
        /\ sig \in [Node -> Error \cup {"none"}]
    BY DEF TypeInv, TypeOK, NodeTypes
  <1>1. S \subseteq Node
    BY KidSetTyped
  <1>2. \A m \in Node : /\ m \in S => pc'[m] \in {"trying", "open"} /\ sig'[m] = sig[n]
                        /\ m \notin S => pc'[m] = pc[m] /\ sig'[m] = sig[m]
                        /\ err'[m] = err[m]
    BY <1>0 DEF BeginKids, Begin
  <1>3. \A m \in Node : pc[m] = "failed" => pc'[m] = "failed"
    BY <1>2 DEF Settled
  <1>4. ASSUME NEW m \in Node, Cancelling(m)', ~Cancelling(m) PROVE Blamed(m)
    <2>1. CASE m \in S
      <3>1. sig'[m] = sig[n] /\ pc'[m] \in {"trying", "open"}
        BY <1>2, <2>1
      <3>2. Cancelling(n)
        BY <1>4, <3>1 DEF Cancelling
      <3> QED BY <2>1, <3>2, BlameAbove DEF BlameInv
    <2>2. CASE m \notin S
      BY <1>2, <1>4, <2>2 DEF Cancelling
    <2> QED BY <2>1, <2>2
  <1> QED BY <1>3, <1>4, BlameStep

\* A node fails that had not.
LEMMA BlameFail ==
  ASSUME TypeInv, BlameInv, NEW n \in Node, NEW e \in Error, Fail(n, e),
         e = "cancelled" => Blamed(n), UNCHANGED <<sig, rootSig>>
  PROVE  BlameInv'
  <1>0. pc \in [Node -> Settled \cup {"open", "failed"} \cup LeafPc] /\ err \in [Node -> Error]
    BY DEF TypeInv, TypeOK, NodeTypes
  <1>1. \A m \in Node : pc[m] = "failed" => pc'[m] = "failed"
    BY <1>0 DEF Fail
  <1>2. \A m \in Node : Cancelling(m)' => Cancelling(m) \/ Blamed(m)
    BY <1>0 DEF Cancelling, Fail
  <1> QED BY <1>1, <1>2, BlameStep

\* throwIfAborted cancels only under a signal that carries a cancellation.
LEMMA BlameThrown ==
  ASSUME BlameInv, NEW n \in Node, sig[n] \in Error, thrown(sig[n]) = "cancelled"
  PROVE  Blamed(n)
  BY DEF thrown, BlameInv, Cancelling, Error

LEMMA BlameCompound ==
  ASSUME TypeInv, TreeInv, BlameInv, NEW n \in Node, Compound(n) \/ StepTimer(n)
  PROVE  BlameInv'
  <1>0. NodeTypes /\ IterInv
    BY DEF TypeInv, TypeOK
  <1>1. UNCHANGED rootSig /\ pc[n] = "open" /\ sig[n] \in Error \cup {"none"}
    BY <1>0 DEF Compound, NextStep, StartParallel, SelectBranch, Complete, Unwind, LoseRace,
           StepTimer, nodeRest, NodeTypes
  <1>2. ASSUME \A c \in Awaited(n) : pc[c] = "done" PROVE \A c \in KidSet(n) : pc[c] \in Settled
    BY <1>1, <1>2 DEF TreeInv, KidsInv, Settled
  <1>3. CASE NextStep(n)
    <2>1. CASE sig[n] # "none"
      BY <1>1, <1>3, <2>1, ThrownTyped, BlameThrown, BlameFail DEF NextStep
    <2>2. CASE sig[n] = "none"
      <3> DEFINE c == Kids[n][(iter[n] % Len(Kids[n])) + 1]
      <3>1. iter[n] \in Nat /\ iter[n] < Total(n)
        BY <1>0, <1>3 DEF NextStep, NodeTypes
      <3>2. {c} \in SUBSET KidSet(n)
        BY <3>1, KidInRange
      <3>3. BeginKids(n, {c}, iter[n] + 1) /\ \A k \in KidSet(n) : pc[k] \in Settled
        BY <1>2, <1>3, <2>2 DEF NextStep
      <3> HIDE DEF c
      <3> QED BY <1>1, <3>2, <3>3, BlameBegin
    <2> QED BY <2>1, <2>2
  <1>4. CASE StartParallel(n)
    <2>1. \A k \in KidSet(n) : pc[k] \in Settled
      BY <1>2, <1>4 DEF Awaited, StartParallel
    <2> QED BY <1>1, <1>4, <2>1, BlameBegin DEF StartParallel
  <1>5. CASE SelectBranch(n)
    <2>1. Kind[n] = "choice" /\ \A k \in KidSet(n) : pc[k] \in Settled
      BY <1>2, <1>5 DEF Awaited, SelectBranch
    <2>2. PICK i \in 1..2 : BeginKids(n, {Kids[n][i]}, i)
      BY <1>5 DEF SelectBranch
    <2>3. {Kids[n][i]} \in SUBSET KidSet(n)
      BY <2>1, ShapeAssumption DEF KidSet
    <2> QED BY <1>1, <2>1, <2>2, <2>3, BlameBegin
  <1>6. CASE Complete(n)
    <2>1. \A m \in Node : pc[m] = "failed" => pc'[m] = "failed"
      BY <1>0, <1>1, <1>6 DEF Complete, NodeTypes
    <2>2. \A m \in Node : Cancelling(m)' => Cancelling(m)
      BY <1>0, <1>6 DEF Complete, Cancelling, NodeTypes
    <2> QED BY <1>1, <2>1, <2>2, BlameStep
  <1>7. CASE Unwind(n)
    <2>1. PICK c \in Awaited(n) :
            /\ pc[c] = "failed"
            /\ Fail(n, err[c])
            /\ sig' = IF Kind[n] = "parallel" THEN Abort(Below[n], err[c]) ELSE sig
      BY <1>7 DEF Unwind
    <2>2. c \in KidSet(n) /\ c \in Node
      BY <1>0, <2>1, AwaitedTyped, KidSetTyped
    <2>3. PICK e \in Error : e = err[c]
      BY <1>0, <2>2 DEF NodeTypes
    <2>4. e = "cancelled" => Blamed(n)
      BY <1>1, <2>1, <2>2, <2>3, BlameBelow DEF BlameInv, Cancelling
    <2>5. CASE sig' = sig
      BY <1>1, <2>1, <2>3, <2>4, <2>5, BlameFail
    <2>6. CASE sig' = Abort(Below[n], e)
      <3>1. pc' = [pc EXCEPT ![n] = "failed"] /\ err' = [err EXCEPT ![n] = e]
        BY <2>1, <2>3 DEF Fail
      <3>2. \A m \in Node : pc[m] = "failed" => pc'[m] = "failed"
        BY <1>0, <3>1 DEF NodeTypes
      <3>3. \A m \in Below[n] : m \in Node => Blamed(m)'
        BY <1>0, <3>1 DEF Blamed, NodeTypes
      <3>4. \A m \in Node : m \notin Below[n] => sig'[m] = sig[m]
        BY <2>6 DEF Abort
      <3>5. \A m \in Node : m \notin Below[n] /\ Cancelling(m)' => Cancelling(m) \/ Blamed(m)
        BY <1>0, <2>4, <3>1, <3>4 DEF Cancelling, NodeTypes
      <3> QED BY <1>1, <3>2, <3>3, <3>5, BlameStep
    <2> QED BY <2>1, <2>3, <2>5, <2>6
  <1>8. CASE LoseRace(n)
    <2>1. sig[n] \in Error /\ (sig[n] = "cancelled" => Blamed(n))
      BY <1>1, <1>8 DEF LoseRace, Raced, BlameInv, Cancelling
    <2> QED BY <1>1, <1>8, <2>1, BlameFail DEF LoseRace
  <1>9. CASE StepTimer(n)
    <2>1. \A m \in Node : Cancelling(m)' => Cancelling(m)
      BY <1>0, <1>9 DEF StepTimer, Cancelling, Abort, NodeTypes
    <2> QED BY <1>1, <1>9, <2>1, BlameStep DEF StepTimer
  <1> QED BY <1>3, <1>4, <1>5, <1>6, <1>7, <1>8, <1>9 DEF Compound

\* A leaf moves on, with an error it may have caught.
LEMMA BlameLeafMove ==
  ASSUME TypeInv, BlameInv, NEW n \in Node, pc[n] \in LeafPc, NEW v,
         pc' = [pc EXCEPT ![n] = v], UNCHANGED <<sig, rootSig>>,
         \/ UNCHANGED err /\ (v \in {"failed", "failing", "cancelling"} => Cancelling(n) \/ err[n] # "cancelled")
         \/ \E e \in Error : err' = [err EXCEPT ![n] = e] /\ (e = "cancelled" => Blamed(n))
  PROVE  BlameInv'
  <1>0. pc \in [Node -> Settled \cup {"open", "failed"} \cup LeafPc] /\ err \in [Node -> Error]
    BY DEF TypeInv, TypeOK, NodeTypes
  <1>1. \A m \in Node : pc[m] = "failed" => pc'[m] = "failed"
    BY <1>0 DEF LeafPc
  <1>2. \A m \in Node : m # n => pc'[m] = pc[m] /\ err'[m] = err[m] /\ sig'[m] = sig[m]
    BY <1>0
  <1>3. Cancelling(n)' => Cancelling(n) \/ Blamed(n)
    BY <1>0 DEF Cancelling
  <1>4. \A m \in Node : Cancelling(m)' => Cancelling(m) \/ Blamed(m)
    BY <1>2, <1>3 DEF Cancelling
  <1> QED BY <1>1, <1>4, BlameStep

\* A leaf catches an error it may raise.
LEMMA BlameCaught ==
  ASSUME TypeInv, BlameInv, NEW n \in Node, pc[n] \in LeafPc, NEW e \in Error,
         Caught(n, e), e = "cancelled" => Blamed(n), UNCHANGED <<sig, rootSig>>
  PROVE  BlameInv'
  BY BlameLeafMove DEF Caught

LEMMA BlameLeaf ==
  ASSUME TypeInv, BlameInv, NEW n \in Node, LeafStep(n) \/ Interrupt(n) \/ PollExpire(n)
  PROVE  BlameInv'
  <1>0. pc \in [Node -> Settled \cup {"open", "failed"} \cup LeafPc] /\ err \in [Node -> Error]
        /\ sig[n] \in Error \cup {"none"}
    BY DEF TypeInv, TypeOK, NodeTypes
  <1>1. pc[n] \in LeafPc /\ UNCHANGED <<sig, rootSig>>
    BY DEF LeafStep, Try, Delay, StartObserved, PassObserved, FailObserved, Interrupt,
           PollExpire, LeafPc, leafRest
  <1>2. sig[n] = "cancelled" => Blamed(n)
    BY DEF BlameInv, Cancelling
  <1>3. sig[n] # "none" => sig[n] \in Error /\ thrown(sig[n]) \in Error
                           /\ (thrown(sig[n]) = "cancelled" => Blamed(n))
    BY <1>0, ThrownTyped, BlameThrown
  <1>4. "fail" \in Error /\ "timeout" \in Error
    BY DEF Error
  <1>5. ASSUME NEW v \in LeafPc \cup {"done"}, v \notin {"failing", "cancelling"},
               pc' = [pc EXCEPT ![n] = v], UNCHANGED err
        PROVE  BlameInv'
    <2>1. v \notin {"failed", "failing", "cancelling"}
      BY <1>5 DEF LeafPc
    <2> QED BY <1>1, <1>5, <2>1, BlameLeafMove
  <1>6. CASE Try(n)
    BY <1>1, <1>3, <1>5, <1>6, BlameFail DEF Try, LeafPc
  <1>7. CASE Delay(n)
    BY <1>1, <1>2, <1>3, <1>5, <1>7, BlameFail DEF Delay, LeafPc
  <1>8. ASSUME NEW ok \in BOOLEAN, StartObserved(n, ok) PROVE BlameInv'
    BY <1>1, <1>3, <1>4, <1>5, <1>8, BlameFail, BlameCaught DEF StartObserved, LeafPc
  <1>9. ASSUME NEW ok \in BOOLEAN, PassObserved(n, ok) PROVE BlameInv'
    BY <1>1, <1>4, <1>5, <1>9, BlameCaught DEF PassObserved, LeafPc
  <1>10. ASSUME NEW ok \in BOOLEAN, FailObserved(n, ok) PROVE BlameInv'
    <2>1. CASE ok /\ pc' = [pc EXCEPT ![n] = "failed"]
      <3>1. pc[n] \in {"failing", "cancelling"} /\ UNCHANGED err
        BY <1>10, <2>1 DEF FailObserved
      <3>2. Cancelling(n) \/ err[n] # "cancelled"
        BY <3>1 DEF Cancelling
      <3> QED BY <1>1, <2>1, <3>1, <3>2, BlameLeafMove
    <2>2. CASE ok /\ pc' = [pc EXCEPT ![n] = "waiting"]
      BY <1>5, <1>10, <2>2 DEF FailObserved, LeafPc
    <2>3. CASE ~ok
      BY <1>1, <1>4, <1>10, <2>3, BlameFail DEF FailObserved
    <2> QED BY <1>10, <2>1, <2>2, <2>3 DEF FailObserved
  <1>11. CASE Interrupt(n)
    BY <1>1, <1>2, <1>3, <1>4, <1>11, BlameCaught DEF Interrupt
  <1>12. CASE PollExpire(n)
    BY <1>1, <1>4, <1>12, BlameFail DEF PollExpire
  <1> QED BY <1>6, <1>7, <1>8, <1>9, <1>10, <1>11, <1>12 DEF LeafStep

LEMMA BlameHandler ==
  ASSUME TypeInv, BlameInv, NEW h \in running, Handler(h) PROVE BlameInv'
  <1>1. h.node \in Node
    BY LeafTyped DEF TypeInv, TypeOK, ResTypes, HandlerType
  <1>2. UNCHANGED <<sig, rootSig>>
    BY DEF Handler, RegisterCleanup, RegisterResourceLease, HandlerSettles, leafRest, nodeVars
  <1>3. CASE UNCHANGED <<pc, err>>
    BY <1>2, <1>3 DEF BlameInv, Blamed, Cancelling
  <1>4. CASE ~UNCHANGED <<pc, err>>
    <2>1. PICK m \in Node : m = h.node
      BY <1>1
    <2>2. /\ pc[m] = "acting"
          /\ \/ pc' = [pc EXCEPT ![m] = "passing"] /\ UNCHANGED err
             \/ Caught(m, "fail")
      BY <1>4, <2>1 DEF Handler, RegisterCleanup, RegisterResourceLease, HandlerSettles, nodeVars
    <2>3. pc[m] \in LeafPc /\ "fail" \in Error
      BY <2>2 DEF LeafPc, Error
    <2>4. CASE pc' = [pc EXCEPT ![m] = "passing"] /\ UNCHANGED err
      BY <1>2, <2>3, <2>4, BlameLeafMove
    <2>5. CASE Caught(m, "fail")
      BY <1>2, <2>3, <2>5, BlameCaught
    <2> QED BY <2>2, <2>4, <2>5
  <1> QED BY <1>3, <1>4

\* The main routine cancels the run only if its caller did: no step contains
\* a phase list, so its list can blame nobody else.
LEMMA CancelMain ==
  ASSUME TypeInv, TreeInv, CancelInv, Main PROVE CancelInv'
  <1>0. /\ phase \in 0..PhaseCount /\ rootSig \in {"none", "fail", "timeout"}
        /\ pc \in [Node -> Settled \cup {"open", "failed"} \cup LeafPc]
        /\ sig \in [Node -> Error \cup {"none"}] /\ err \in [Node -> Error]
    BY DEF TypeInv, TypeOK, MainTypes, NodeTypes
  <1>1. UNCHANGED rootSig
    BY DEF Main, Start, Entered, PhaseHead, PhaseEnd, StartCleanups, Settle,
           CancellingObserved, DecisionObserved, CleanupObserved, SettleObserved,
           Compensate, RunCleanup
  <1>2. ASSUME UNCHANGED nodeVars PROVE BlameInv'
    BY <1>1, <1>2 DEF CancelInv, BlameInv, Blamed, Cancelling, nodeVars
  <1>3. ASSUME NEW ok \in BOOLEAN, Entered(ok), ok, phase > 0 PROVE BlameInv'
    <2>1. PICK r \in Node : r = PhaseRoot[phase]
      BY <1>0, <1>3, PhaseAssumption
    <2>2. pc[r] = "idle" /\ Begin({r}, rootSig, iter)
      BY <1>0, <1>3, <2>1 DEF Entered, TreeInv, PhaseInv
    <2>3. \A m \in Node : pc[m] = "failed" => pc'[m] = "failed"
      BY <1>0, <2>2 DEF Begin
    <2>4. \A m \in Node : m # r => (Cancelling(m)' => Cancelling(m))
      BY <1>0, <2>2 DEF Begin, Cancelling
    <2>5. Cancelling(r)' => Blamed(r)
      BY <1>0, <2>2 DEF Begin, Cancelling, Blamed
    <2> QED BY <1>1, <2>3, <2>4, <2>5, BlameStep DEF CancelInv
  <1>4. BlameInv'
    <2>1. CASE \E ok \in BOOLEAN : Entered(ok) /\ ok /\ phase > 0
      BY <1>3, <2>1
    <2>2. CASE ~\E ok \in BOOLEAN : Entered(ok) /\ ok /\ phase > 0
      <3>1. UNCHANGED nodeVars
        BY <1>0, <2>2 DEF Main, Start, Entered, PhaseHead, PhaseEnd, StartCleanups, Settle,
             CancellingObserved, DecisionObserved, CleanupObserved, SettleObserved,
             Compensate, RunCleanup
      <3> QED BY <1>2, <3>1
    <2> QED BY <2>1, <2>2
  <1> SUFFICES CancelledOnlyOnRequest'
    BY <1>4 DEF CancelInv
  <1>5. ASSUME NEW e, Catch(e), e = "cancelled" => rootSig = "fail"
        PROVE  CancelledOnlyOnRequest'
    BY <1>0, <1>1, <1>5 DEF Catch, isCancellation, CancelledOnlyOnRequest
  <1>6. ASSUME outcome' \in {outcome, "FAILED"} PROVE CancelledOnlyOnRequest'
    BY <1>1, <1>6 DEF CancelInv, CancelledOnlyOnRequest
  <1>7. CASE PhaseHead
    <2>1. CASE rootSig # "none"
      <3>1. PICK e : e = thrown(rootSig)
        OBVIOUS
      <3>2. Catch(e) /\ (e = "cancelled" => rootSig = "fail")
        BY <1>0, <1>7, <2>1, <3>1 DEF PhaseHead, thrown
      <3> QED BY <1>5, <3>2
    <2>2. CASE rootSig = "none"
      BY <1>6, <1>7, <2>2 DEF PhaseHead
    <2> QED BY <2>1, <2>2
  <1>8. CASE PhaseEnd
    <2>1. ASSUME pc[PhaseRoot[phase]] = "failed", Catch(err[PhaseRoot[phase]])
          PROVE  CancelledOnlyOnRequest'
      <3>1. phase \in 1..PhaseCount
        BY <1>0, <1>8 DEF PhaseEnd, TreeInv, PhaseInv
      <3>2. PICK r \in Node : r = PhaseRoot[phase]
        BY <3>1, PhaseAssumption
      <3>3. \A m \in Node : r \notin Below[m]
        BY <3>1, <3>2, PhaseAssumption
      <3>4. err[r] = "cancelled" => rootSig = "fail"
        BY <2>1, <3>2, <3>3 DEF CancelInv, BlameInv, Cancelling, Blamed
      <3> QED BY <1>5, <2>1, <3>2, <3>4
    <2>2. CASE UNCHANGED outcome
      BY <1>6, <2>2
    <2> QED BY <1>8, <2>1, <2>2 DEF PhaseEnd
  <1>9. ASSUME NEW ok \in BOOLEAN, Entered(ok) \/ DecisionObserved(ok)
        PROVE  CancelledOnlyOnRequest'
    BY <1>5, <1>6, <1>9 DEF Entered, DecisionObserved
  <1>10. CASE Start \/ StartCleanups \/ Settle
    <2>1. outcome' \in {outcome, "FAILED"}
      BY <1>10 DEF Start, StartCleanups, Settle
    <2> QED BY <1>6, <2>1
  <1>11. ASSUME NEW ok \in BOOLEAN,
                CancellingObserved(ok) \/ CleanupObserved(ok) \/ SettleObserved(ok)
         PROVE  CancelledOnlyOnRequest'
    BY <1>6, <1>11 DEF CancellingObserved, CleanupObserved, SettleObserved, CleanupCatch
  <1>12. ASSUME NEW ok \in BOOLEAN, NEW b \in BOOLEAN, Compensate(ok, b) \/ RunCleanup(b, ok)
         PROVE  CancelledOnlyOnRequest'
    BY <1>6, <1>12 DEF Compensate, RunCleanup
  <1> QED BY <1>7, <1>8, <1>9, <1>10, <1>11, <1>12 DEF Main

LEMMA CancelStep == TypeInv /\ TreeInv /\ CancelInv /\ [Next]_vars => CancelInv'
  <1> SUFFICES ASSUME TypeInv, TreeInv, CancelInv, [Next]_vars PROVE CancelInv'
    OBVIOUS
  <1>0. BlameInv /\ CancelledOnlyOnRequest /\ sig \in [Node -> Error \cup {"none"}]
    BY DEF CancelInv, TypeInv, TypeOK, NodeTypes
  <1>1. CASE Main
    BY <1>1, CancelMain
  <1>2. ASSUME NEW n \in Node, Compound(n) \/ StepTimer(n) PROVE CancelInv'
    <2>1. UNCHANGED <<outcome, rootSig>>
      BY <1>2 DEF Compound, NextStep, StartParallel, SelectBranch, Complete, Unwind,
           LoseRace, StepTimer, nodeRest, mainVars
    <2> QED BY <1>0, <1>2, <2>1, BlameCompound DEF CancelInv, CancelledOnlyOnRequest
  <1>3. ASSUME NEW n \in Node, LeafStep(n) \/ Interrupt(n) \/ PollExpire(n) PROVE CancelInv'
    <2>1. UNCHANGED <<outcome, rootSig>>
      BY <1>3 DEF LeafStep, Try, Delay, StartObserved, PassObserved, FailObserved,
           Interrupt, PollExpire, leafRest, mainVars
    <2> QED BY <1>0, <1>3, <2>1, BlameLeaf DEF CancelInv, CancelledOnlyOnRequest
  <1>4. ASSUME NEW h \in running, Handler(h) PROVE CancelInv'
    <2>1. UNCHANGED <<outcome, rootSig>>
      BY <1>4 DEF Handler, RegisterCleanup, RegisterResourceLease, HandlerSettles,
           leafRest, mainVars
    <2> QED BY <1>0, <1>4, <2>1, BlameHandler DEF CancelInv, CancelledOnlyOnRequest
  <1>5. CASE Cancel \/ ScenarioTimeout
    <2>1. rootSig = "none" /\ UNCHANGED <<pc, err, outcome>>
      BY <1>5 DEF Cancel, ScenarioTimeout, AbortScenario, mainVars
    <2>2. \A m \in Node : Cancelling(m)' => Cancelling(m) \/ Blamed(m)'
      BY <1>0, <1>5, <2>1
         DEF Cancel, ScenarioTimeout, AbortScenario, Abort, Cancelling, Blamed
    <2>3. BlameInv'
      BY <1>0, <2>1, <2>2, BlameStep
    <2> QED BY <1>0, <2>1, <2>3 DEF CancelInv, CancelledOnlyOnRequest
  <1>6. CASE UNCHANGED vars
    BY <1>0, <1>6
       DEF vars, nodeVars, mainVars, CancelInv, BlameInv, Blamed, Cancelling, CancelledOnlyOnRequest
  <1> QED BY <1>1, <1>2, <1>3, <1>4, <1>5, <1>6 DEF Next, Terminated

-----------------------------------------------------------------------------
(* The walks over compensations and cleanups                               *)

\* What is done and what is left of a walk are together the reversal of the
\* entries registered when it began.
Walks(past, rest, entries) ==
  /\ Len(past \o rest) <= Len(entries)
  /\ past \o rest = Reverse(SubSeq(entries, 1, Len(past \o rest)))

\* A walk begins with the whole snapshot.
LEMMA WalkStart ==
  ASSUME NEW S, NEW q \in Seq(S) PROVE Walks(<<>>, Snapshot(q), q)
  <1> DEFINE w == <<>> \o Snapshot(q)
  <1>1. Snapshot(q) \in Seq(S) /\ Len(Snapshot(q)) = Len(q)
    BY SnapshotTyped DEF Snapshot, Reverse
  <1>2. w = Reverse(q)
    BY <1>1 DEF Snapshot
  <1>3. SubSeq(q, 1, Len(q)) = q
    OBVIOUS
  <1>4. Len(w) = Len(q) /\ Len(w) <= Len(q)
    BY <1>1
  <1>5. w = Reverse(SubSeq(q, 1, Len(w)))
    BY <1>2, <1>3, <1>4
  <1> HIDE DEF w
  <1> QED BY <1>4, <1>5 DEF Walks, w

\* It goes on entry by entry.
LEMMA WalkOn ==
  ASSUME NEW S, NEW a \in Seq(S), NEW b \in Seq(S), b # <<>>, NEW q, Walks(a, b, q)
  PROVE  Walks(Append(a, Head(b)), Tail(b), q)
  <1>1. Append(a, Head(b)) \o Tail(b) = a \o b
    OBVIOUS
  <1> QED BY <1>1 DEF Walks

\* What is registered meanwhile is not part of it.
LEMMA WalkLate ==
  ASSUME NEW S, NEW a \in Seq(S), NEW b \in Seq(S), NEW q \in Seq(S), NEW x \in S, Walks(a, b, q)
  PROVE  Walks(a, b, Append(q, x))
  <1> DEFINE w == a \o b
  <1>1. w \in Seq(S) /\ Len(w) \in Nat /\ Len(w) <= Len(q)
    BY DEF Walks
  <1>2. PICK k \in Nat : k = Len(w)
    BY <1>1
  <1>3. SubSeq(Append(q, x), 1, k) = SubSeq(q, 1, k) /\ k <= Len(Append(q, x))
    BY <1>1, <1>2
  <1> HIDE DEF w
  <1> QED BY <1>1, <1>2, <1>3 DEF Walks, w

\* An entry of a sequence from position k on.
In(e, q, k) == \E i \in k..Len(q) : q[i] = e

\* Each walk starts when its stage does and covers what was registered then.
OrderInv ==
  /\ at \in {"created", "entering", "head", "steps", "cancelling", "deciding", "cleanup"} =>
       undone = <<>> /\ ran = <<>>
  /\ at = "compensating" =>
       /\ ran = <<>>
       /\ IF outcome = "PASSED" THEN todo = <<>> ELSE Walks(undone, todo, comps)
  /\ at = "releasing" => Walks(ran, todo, cleanups)
  /\ at \in {"settling", "returned"} => Len(ran) <= Len(cleanups)

\* A lease has its cleanup entry; once the walk is under way without an error
\* an active lease is still ahead of it, or its entry came too late for it.
LeaseInv ==
  /\ \A e \in leases : In(e, cleanups, 1)
  /\ at = "releasing" /\ ~dirty =>
       \A e \in leases : In(e, todo, 1) \/ In(e, cleanups, Len(ran \o todo) + 1)
  /\ at \in {"settling", "returned"} /\ ~dirty =>
       \A e \in leases : In(e, cleanups, Len(ran) + 1)

WalkInv == OrderInv /\ LeaseInv

\* A later registration moves no entry.
LEMMA InLate ==
  ASSUME NEW S, NEW q \in Seq(S), NEW x \in S, NEW e, NEW k \in Nat \ {0}
  PROVE  /\ In(e, q, k) => In(e, Append(q, x), k)
         /\ k <= Len(q) + 1 => In(x, Append(q, x), k)
  <1>1. Len(Append(q, x)) = Len(q) + 1 /\ Append(q, x)[Len(q) + 1] = x /\ Len(q) \in Nat
    OBVIOUS
  <1>2. \A i \in 1..Len(q) : Append(q, x)[i] = q[i]
    OBVIOUS
  <1>3. In(e, q, k) => In(e, Append(q, x), k)
    BY <1>1, <1>2 DEF In
  <1>4. k <= Len(q) + 1 => In(x, Append(q, x), k)
    BY <1>1 DEF In
  <1> QED BY <1>3, <1>4

\* The snapshot holds what the entries hold.
LEMMA InSnapshot ==
  ASSUME NEW S, NEW q \in Seq(S), NEW e, In(e, q, 1) PROVE In(e, Snapshot(q), 1)
  <1>1. PICK i \in 1..Len(q) : q[i] = e
    BY DEF In
  <1>2. Len(q) \in Nat
    OBVIOUS
  <1>3. Len(Snapshot(q)) = Len(q) /\ \A j \in 1..Len(q) : Snapshot(q)[j] = q[(Len(q) - j) + 1]
    BY DEF Snapshot, Reverse
  <1>4. (Len(q) - i) + 1 \in 1..Len(q) /\ (Len(q) - ((Len(q) - i) + 1)) + 1 = i
    BY <1>2
  <1> QED BY <1>1, <1>3, <1>4 DEF In

\* The rest of a walk holds everything but its head.
LEMMA InTail ==
  ASSUME NEW S, NEW q \in Seq(S), q # <<>>, NEW e, In(e, q, 1), e # Head(q)
  PROVE  In(e, Tail(q), 1)
  <1>1. PICK i \in 1..Len(q) : q[i] = e
    BY DEF In
  <1>2. i # 1 /\ i - 1 \in 1..Len(Tail(q)) /\ Tail(q)[i - 1] = e
    BY <1>1
  <1> QED BY <1>2 DEF In

\* A step beside the main routine may register a compensation, or a cleanup
\* with or without a lease.
LEMMA WalkGrows ==
  ASSUME TypeInv, WalkInv, UNCHANGED <<mainVars, walkVars>>,
         \/ UNCHANGED comps
         \/ \E n \in Node : comps' = Append(comps, n),
         \/ UNCHANGED <<cleanups, leases>>
         \/ \E e \in Entry : cleanups' = Append(cleanups, e) /\ leases' \in {leases, leases \cup {e}}
  PROVE  WalkInv'
  <1>0. /\ cleanups \in Seq(Entry) /\ comps \in Seq(Node) /\ leases \subseteq Entry
        /\ ran \in Seq(Entry) /\ undone \in Seq(Node)
        /\ at = "compensating" => todo \in Seq(Node)
        /\ at = "releasing" => todo \in Seq(Entry)
    BY DEF TypeInv, TypeOK, ResTypes, WalkTypes
  <1>1. UNCHANGED <<at, outcome, dirty, todo, undone, ran>>
    BY DEF mainVars, walkVars
  <1>2. at = "compensating" /\ Walks(undone, todo, comps) => Walks(undone, todo, comps')
    <2> SUFFICES ASSUME at = "compensating", Walks(undone, todo, comps)
                 PROVE  Walks(undone, todo, comps')
      OBVIOUS
    <2>1. CASE UNCHANGED comps
      BY <2>1
    <2>2. ASSUME NEW n \in Node, comps' = Append(comps, n) PROVE Walks(undone, todo, comps')
      BY <1>0, <2>2, WalkLate
    <2> QED BY <2>1, <2>2
  <1>3. CASE UNCHANGED <<cleanups, leases>>
    BY <1>1, <1>2, <1>3 DEF WalkInv, OrderInv, LeaseInv
  <1>4. ASSUME NEW e \in Entry, cleanups' = Append(cleanups, e),
               leases' \in {leases, leases \cup {e}}
        PROVE  WalkInv'
    <2>1. at = "releasing" => Walks(ran, todo, cleanups')
      BY <1>0, <1>4, WalkLate DEF WalkInv, OrderInv
    <2>2. Len(cleanups') = Len(cleanups) + 1 /\ Len(cleanups) \in Nat /\ Len(ran) \in Nat
      BY <1>0, <1>4
    <2>3. OrderInv'
      BY <1>1, <1>2, <2>1, <2>2 DEF WalkInv, OrderInv
    <2>4. ASSUME NEW k \in Nat \ {0}, NEW d \in leases', k <= Len(cleanups) + 1,
                 d \in leases => In(d, cleanups, k)
          PROVE  In(d, cleanups', k)
      BY <1>0, <1>4, <2>4, InLate
    <2>5. \A d \in leases' : In(d, cleanups', 1)
      BY <2>2, <2>4 DEF WalkInv, LeaseInv
    <2>6. ASSUME at = "releasing", ~dirty, NEW d \in leases'
          PROVE  In(d, todo, 1) \/ In(d, cleanups', Len(ran \o todo) + 1)
      <3>1. PICK k \in Nat \ {0} : k = Len(ran \o todo) + 1
        BY <1>0, <2>6
      <3>2. k <= Len(cleanups) + 1
        BY <1>0, <2>6, <3>1 DEF WalkInv, OrderInv, Walks
      <3>3. d \in leases => In(d, todo, 1) \/ In(d, cleanups, k)
        BY <2>6, <3>1 DEF WalkInv, LeaseInv
      <3> QED BY <2>4, <3>1, <3>2, <3>3
    <2>7. ASSUME at \in {"settling", "returned"}, ~dirty, NEW d \in leases'
          PROVE  In(d, cleanups', Len(ran) + 1)
      <3>1. PICK k \in Nat \ {0} : k = Len(ran) + 1
        BY <2>2
      <3>2. k <= Len(cleanups) + 1
        BY <2>2, <2>7, <3>1 DEF WalkInv, OrderInv
      <3>3. d \in leases => In(d, cleanups, k)
        BY <2>7, <3>1 DEF WalkInv, LeaseInv
      <3> QED BY <2>4, <3>1, <3>2, <3>3
    <2>8. LeaseInv'
      BY <1>1, <2>5, <2>6, <2>7 DEF LeaseInv
    <2> QED BY <2>3, <2>8 DEF WalkInv
  <1> QED BY <1>3, <1>4

LEMMA WalkMain ==
  ASSUME TypeInv, WalkInv, Main PROVE WalkInv'
  <1>0. /\ cleanups \in Seq(Entry) /\ comps \in Seq(Node) /\ leases \subseteq Entry
        /\ ran \in Seq(Entry) /\ undone \in Seq(Node) /\ dirty \in BOOLEAN
        /\ at = "compensating" => todo \in Seq(Node)
        /\ at = "releasing" => todo \in Seq(Entry)
    BY DEF TypeInv, TypeOK, ResTypes, WalkTypes, MainTypes
  <1>1. ASSUME at \in {"created", "entering", "head", "steps", "cancelling", "deciding"},
               at' \in {"created", "entering", "head", "steps", "cancelling", "deciding",
                        "cleanup", "threw"},
               UNCHANGED <<resVars, walkVars>>
        PROVE  WalkInv'
    BY <1>1 DEF WalkInv, OrderInv, LeaseInv, resVars, walkVars
  <1>2. CASE Start \/ PhaseHead \/ PhaseEnd
    BY <1>1, <1>2 DEF Start, PhaseHead, PhaseEnd, Transition, Catch
  <1>3. ASSUME NEW ok \in BOOLEAN, Entered(ok) \/ CancellingObserved(ok) \/ DecisionObserved(ok)
        PROVE  WalkInv'
    BY <1>1, <1>3 DEF Entered, CancellingObserved, DecisionObserved, Transition, Catch
  <1>4. ASSUME NEW ok \in BOOLEAN, CleanupObserved(ok) PROVE WalkInv'
    <2>1. at = "cleanup" /\ undone = <<>> /\ ran = <<>> /\ UNCHANGED <<undone, ran, resVars>>
      BY <1>4 DEF CleanupObserved, WalkInv, OrderInv
    <2>2. CASE ok
      <3>1. /\ at' = "compensating" /\ UNCHANGED outcome
            /\ todo' = IF outcome = "PASSED" THEN <<>> ELSE Snapshot(comps)
        BY <1>4, <2>2 DEF CleanupObserved
      <3>2. Walks(<<>>, Snapshot(comps), comps)
        BY <1>0, WalkStart
      <3>3. OrderInv'
        BY <2>1, <3>1, <3>2 DEF OrderInv, resVars
      <3>4. LeaseInv'
        BY <2>1, <3>1 DEF WalkInv, LeaseInv, resVars
      <3> QED BY <3>3, <3>4 DEF WalkInv
    <2>3. CASE ~ok
      <3>1. at' = "returned" /\ dirty'
        BY <1>4, <2>3 DEF CleanupObserved, CleanupCatch
      <3>2. Len(ran) <= Len(cleanups)
        BY <1>0, <2>1
      <3> QED BY <2>1, <3>1, <3>2 DEF WalkInv, OrderInv, LeaseInv, resVars
    <2> QED BY <2>2, <2>3
  <1>5. ASSUME NEW ok \in BOOLEAN, NEW b \in BOOLEAN, Compensate(ok, b) PROVE WalkInv'
    <2>1. /\ at = "compensating" /\ todo # <<>> /\ UNCHANGED <<at, outcome, comps, leases, ran>>
          /\ undone' = Append(undone, Head(todo)) /\ todo' = Tail(todo)
      BY <1>5 DEF Compensate
    <2>2. outcome # "PASSED" /\ Walks(undone, todo, comps) /\ ran = <<>>
      BY <2>1 DEF WalkInv, OrderInv
    <2>3. Walks(undone', todo', comps)
      BY <1>0, <2>1, <2>2, WalkOn
    <2>4. OrderInv'
      BY <2>1, <2>2, <2>3 DEF OrderInv
    <2>5. \A e \in leases : In(e, cleanups', 1)
      <3>1. CASE UNCHANGED cleanups
        BY <3>1 DEF WalkInv, LeaseInv
      <3>2. CASE cleanups' = Append(cleanups, [node |-> Head(todo), no |-> 0, lease |-> FALSE])
        <4>1. Head(todo) \in Node
          BY <1>0, <2>1
        <4>2. [node |-> Head(todo), no |-> 0, lease |-> FALSE] \in Entry
          BY <4>1, ParameterAssumption DEF Entry, Attempt
        <4>3. PICK x \in Entry : x = [node |-> Head(todo), no |-> 0, lease |-> FALSE]
          BY <4>2
        <4> QED BY <1>0, <3>2, <4>3, InLate DEF WalkInv, LeaseInv
      <3> QED BY <1>5, <3>1, <3>2 DEF Compensate
    <2>6. LeaseInv'
      BY <2>1, <2>5 DEF LeaseInv
    <2> QED BY <2>4, <2>6 DEF WalkInv
  <1>6. CASE StartCleanups
    <2>1. /\ at = "compensating" /\ at' = "releasing" /\ todo' = Snapshot(cleanups)
          /\ ran = <<>> /\ UNCHANGED <<ran, undone, cleanups, leases, dirty>>
      BY <1>6 DEF StartCleanups, WalkInv, OrderInv, resVars
    <2>2. Walks(<<>>, Snapshot(cleanups), cleanups)
      BY <1>0, WalkStart
    <2>3. OrderInv'
      BY <2>1, <2>2 DEF OrderInv
    <2>4. \A e \in leases : In(e, Snapshot(cleanups), 1)
      BY <1>0, InSnapshot DEF WalkInv, LeaseInv
    <2>5. LeaseInv'
      BY <2>1, <2>4 DEF WalkInv, LeaseInv
    <2> QED BY <2>3, <2>5 DEF WalkInv
  <1>7. ASSUME NEW ok \in BOOLEAN, NEW b \in BOOLEAN, RunCleanup(b, ok) PROVE WalkInv'
    <2>1. /\ at = "releasing" /\ todo # <<>> /\ UNCHANGED <<at, outcome, comps, cleanups, undone>>
          /\ ran' = Append(ran, Head(todo)) /\ todo' = Tail(todo)
          /\ leases' \subseteq leases /\ dirty' = (dirty \/ ~ok)
          /\ ok => leases' = leases \ {Head(todo)}
      BY <1>7 DEF RunCleanup, onResourceReleased
    <2>2. Walks(ran, todo, cleanups)
      BY <2>1 DEF WalkInv, OrderInv
    <2>3. Walks(ran', todo', cleanups)
      BY <1>0, <2>1, <2>2, WalkOn
    <2>4. OrderInv'
      BY <2>1, <2>3 DEF OrderInv
    <2>5. ASSUME ~dirty', NEW e \in leases'
          PROVE  In(e, todo', 1) \/ In(e, cleanups', Len(ran' \o todo') + 1)
      <3>1. ~dirty /\ ok /\ e \in leases /\ e # Head(todo)
        BY <1>0, <2>1, <2>5
      <3>2. Len(ran' \o todo') = Len(ran \o todo)
        BY <1>0, <2>1
      <3>3. In(e, todo, 1) \/ In(e, cleanups, Len(ran \o todo) + 1)
        BY <2>1, <3>1 DEF WalkInv, LeaseInv
      <3>4. In(e, todo, 1) => In(e, Tail(todo), 1)
        BY <1>0, <2>1, <3>1, InTail
      <3> QED BY <2>1, <3>2, <3>3, <3>4
    <2>6. LeaseInv'
      BY <2>1, <2>5 DEF WalkInv, LeaseInv
    <2> QED BY <2>4, <2>6 DEF WalkInv
  <1>8. CASE Settle
    <2>1. /\ at = "releasing" /\ todo = <<>> /\ at' = "settling"
          /\ UNCHANGED <<ran, cleanups, leases, dirty>>
      BY <1>8 DEF Settle, Transition, walkVars, resVars
    <2>2. ran \o todo = ran /\ Len(ran) <= Len(cleanups)
      BY <1>0, <2>1 DEF WalkInv, OrderInv, Walks
    <2>3. \A e \in leases : ~In(e, todo, 1)
      BY <2>1 DEF In
    <2> QED BY <2>1, <2>2, <2>3 DEF WalkInv, OrderInv, LeaseInv
  <1>9. ASSUME NEW ok \in BOOLEAN, SettleObserved(ok) PROVE WalkInv'
    <2>1. /\ at = "settling" /\ at' = "returned" /\ (dirty' \/ dirty' = dirty)
          /\ UNCHANGED <<ran, cleanups, leases>>
      BY <1>9 DEF SettleObserved, CleanupCatch, walkVars, resVars
    <2> QED BY <2>1 DEF WalkInv, OrderInv, LeaseInv
  <1> QED BY <1>2, <1>3, <1>4, <1>5, <1>6, <1>7, <1>8, <1>9 DEF Main

LEMMA WalkStep == TypeInv /\ WalkInv /\ [Next]_vars => WalkInv'
  <1> SUFFICES ASSUME TypeInv, WalkInv, [Next]_vars PROVE WalkInv'
    OBVIOUS
  <1>1. CASE Main
    BY <1>1, WalkMain
  <1>2. ASSUME NEW n \in Node, Compound(n) \/ StepTimer(n) PROVE WalkInv'
    <2>1. UNCHANGED <<mainVars, walkVars, comps, cleanups, leases>>
      BY <1>2 DEF Compound, NextStep, StartParallel, SelectBranch, Complete, Unwind,
           LoseRace, StepTimer, nodeRest, resVars
    <2> QED BY <2>1, WalkGrows
  <1>3. ASSUME NEW n \in Node, LeafStep(n) \/ Interrupt(n) \/ PollExpire(n) PROVE WalkInv'
    <2>1. UNCHANGED <<mainVars, walkVars, cleanups, leases>>
      BY <1>3 DEF LeafStep, Try, Delay, StartObserved, PassObserved, FailObserved,
           Interrupt, PollExpire, leafRest, resVars
    <2>2. UNCHANGED comps \/ comps' = Append(comps, n)
      BY <1>3 DEF LeafStep, Try, Delay, StartObserved, PassObserved, FailObserved,
           Interrupt, PollExpire, leafRest, resVars
    <2> QED BY <2>1, <2>2, WalkGrows
  <1>4. ASSUME NEW h \in running, Handler(h) PROVE WalkInv'
    <2>1. UNCHANGED <<mainVars, walkVars, comps>>
      BY <1>4 DEF Handler, RegisterCleanup, RegisterResourceLease, HandlerSettles, leafRest
    <2>2. h.node \in Node /\ h.no \in Attempt
      BY LeafTyped DEF TypeInv, TypeOK, ResTypes, HandlerType
    <2>3. \A b \in BOOLEAN : [node |-> h.node, no |-> h.no, lease |-> b] \in Entry
      BY <2>2 DEF Entry
    <2> DEFINE Registered(b) ==
          LET e == [node |-> h.node, no |-> h.no, lease |-> b]
          IN cleanups' = Append(cleanups, e) /\ leases' \in {leases, leases \cup {e}}
    <2>4. UNCHANGED <<cleanups, leases>> \/ \E b \in BOOLEAN : Registered(b)
      <3>1. CASE RegisterCleanup(h)
        BY <3>1 DEF RegisterCleanup
      <3>2. ASSUME NEW ok \in BOOLEAN, RegisterResourceLease(h, ok)
            PROVE  UNCHANGED <<cleanups, leases>> \/ Registered(TRUE)
        BY <3>2 DEF RegisterResourceLease
      <3>3. ASSUME NEW ok \in BOOLEAN, HandlerSettles(h, ok) PROVE UNCHANGED <<cleanups, leases>>
        BY <3>3 DEF HandlerSettles
      <3> QED BY <1>4, <3>1, <3>2, <3>3 DEF Handler
    <2> QED BY <2>1, <2>3, <2>4, WalkGrows
  <1>5. CASE Cancel \/ ScenarioTimeout \/ UNCHANGED vars
    <2>1. UNCHANGED <<mainVars, walkVars, comps, cleanups, leases>>
      BY <1>5 DEF Cancel, ScenarioTimeout, AbortScenario, vars, resVars
    <2> QED BY <2>1, WalkGrows
  <1> QED BY <1>1, <1>2, <1>3, <1>4, <1>5 DEF Next, Terminated

LEMMA WalkInit == Init => WalkInv
  BY DEF Init, WalkInv, OrderInv, LeaseInv

\* ReverseOrder holds for every scenario tree: compensations and cleanups are
\* each walked last to first over what was registered when the walk began.
THEOREM ReverseOrderCorrect == Spec => []ReverseOrder
  <1>1. WalkInv => ReverseOrder
    BY DEF WalkInv, OrderInv, Walks, ReverseOrder
  <1> QED BY <1>1, TypeInit, TypeStep, WalkInit, WalkStep, PTL DEF Spec

\* EndIsEarned holds for every scenario tree: only the caller's abort ends a
\* run CANCELLED, and a clean end that saw every registration holds no lease.
THEOREM EndIsEarnedCorrect == Spec => []EndIsEarned
  <1>1. TypeInv /\ WalkInv /\ CancelInv => EndIsEarned
    <2> SUFFICES ASSUME TypeInv, WalkInv, CancelInv, at = "returned", ~dirty,
                        Len(ran) = Len(cleanups), NEW e \in leases
                 PROVE  FALSE
      BY DEF EndIsEarned, CleanRunHoldsNoLease, CancelInv
    <2>1. In(e, cleanups, Len(ran) + 1) /\ Len(ran) \in Nat
      BY DEF WalkInv, LeaseInv, TypeInv, TypeOK, WalkTypes
    <2> QED BY <2>1 DEF In
  <1>2. Init => CancelInv
    BY DEF Init, InitPc, CancelInv, BlameInv, Cancelling, CancelledOnlyOnRequest
  <1> QED BY <1>1, <1>2, TypeInit, TypeStep, TreeInit, TreeStep, WalkInit, WalkStep, CancelStep,
             PTL DEF Spec

-----------------------------------------------------------------------------
(* Step records                                                            *)

\* A leaf has the number of an attempt whose record it still has to close.
Active == {"starting", "acting", "passing", "failing", "cancelling"}

\* Numbers not yet given out have no record; a leaf in the middle of an
\* attempt has a number of its own and its record is still open.
AttemptInv ==
  /\ \A i \in Id, k \in Attempt : k > counter[i] => rec[i][k] = "none"
  /\ \A n \in Leaf : pc[n] \in Active =>
       /\ no[n] <= counter[StepId[n]]
       /\ rec[StepId[n]][no[n]] \in {"none", "RUNNING"}
  /\ \A n, m \in Leaf : n # m /\ pc[n] \in Active /\ pc[m] \in Active /\ StepId[n] = StepId[m] =>
       no[n] # no[m]

RecordsStay ==
  \A i \in Id, k \in Attempt :
    rec[i][k] \in {"PASSED", "FAILED", "CANCELLED"} => rec'[i][k] = rec[i][k]

\* A step that leaves the records alone and begins no attempt.
LEMMA AttemptSame ==
  ASSUME AttemptInv, UNCHANGED <<counter, rec, no>>,
         \A n \in Leaf : pc'[n] \in Active => pc[n] \in Active
  PROVE  AttemptInv' /\ RecordsStay
  BY DEF AttemptInv, RecordsStay

\* A leaf in an attempt writes its record, and goes on if it leaves it open.
LEMMA AttemptRecord ==
  ASSUME TypeInv, AttemptInv, NEW n \in Leaf, pc[n] \in Active, NEW s, Record(n, s),
         UNCHANGED <<counter, no>>, NEW v, pc' = [pc EXCEPT ![n] = v],
         v \in Active => s = "RUNNING"
  PROVE  AttemptInv' /\ RecordsStay
  <1>0. /\ n \in Node /\ StepId[n] \in Id /\ no[n] \in Attempt
        /\ rec \in [Id -> [Attempt -> {"none", "RUNNING", "PASSED", "FAILED", "CANCELLED"}]]
        /\ counter \in [Id -> Attempt] /\ no \in [Node -> Attempt]
        /\ pc \in [Node -> Settled \cup {"open", "failed"} \cup LeafPc]
    BY LeafTyped DEF TypeInv, TypeOK, NodeTypes, RecTypes
  <1>1. \A i \in Id, k \in Attempt :
          rec'[i][k] = IF i = StepId[n] /\ k = no[n] THEN s ELSE rec[i][k]
    BY <1>0 DEF Record
  <1>2. no[n] <= counter[StepId[n]] /\ rec[StepId[n]][no[n]] \in {"none", "RUNNING"}
    BY DEF AttemptInv
  <1>3. RecordsStay
    BY <1>1, <1>2 DEF RecordsStay
  <1>4. \A i \in Id, k \in Attempt : k > counter[i] => rec'[i][k] = "none"
    <2> SUFFICES ASSUME NEW i \in Id, NEW k \in Attempt, k > counter[i]
                 PROVE  rec'[i][k] = "none"
      OBVIOUS
    <2>1. ~(i = StepId[n] /\ k = no[n])
      BY <1>0, <1>2, ParameterAssumption DEF Attempt
    <2> QED BY <1>1, <2>1 DEF AttemptInv
  <1>5. \A m \in Leaf : m \in Node /\ StepId[m] \in Id /\ no[m] \in Attempt
    BY <1>0, LeafTyped
  <1>6. \A m \in Leaf : m # n => pc'[m] = pc[m]
    BY <1>0, <1>5
  <1>7. pc'[n] = v
    BY <1>0
  <1>8. ASSUME NEW m \in Leaf, pc'[m] \in Active
        PROVE  no[m] <= counter[StepId[m]] /\ rec'[StepId[m]][no[m]] \in {"none", "RUNNING"}
    <2>1. CASE m = n
      BY <1>0, <1>1, <1>2, <1>7, <1>8, <2>1
    <2>2. CASE m # n
      <3>1. pc[m] \in Active
        BY <1>6, <1>8, <2>2
      <3>2. ~(StepId[m] = StepId[n] /\ no[m] = no[n])
        BY <2>2, <3>1 DEF AttemptInv
      <3> QED BY <1>1, <1>5, <3>1, <3>2 DEF AttemptInv
    <2> QED BY <2>1, <2>2
  <1>9. \A m \in Leaf : pc'[m] \in Active => pc[m] \in Active
    BY <1>6
  <1> QED BY <1>3, <1>4, <1>8, <1>9 DEF AttemptInv

\* A leaf begins an attempt under a number nobody has had.
LEMMA AttemptNew ==
  ASSUME TypeInv, AttemptInv, NEW n \in Leaf, counter[StepId[n]] < MaxAttempt,
         pc' = [pc EXCEPT ![n] = "starting"],
         counter' = [counter EXCEPT ![StepId[n]] = actualAttempt(n)],
         no' = [no EXCEPT ![n] = actualAttempt(n)], UNCHANGED rec
  PROVE  AttemptInv' /\ RecordsStay
  <1>0. /\ n \in Node /\ StepId[n] \in Id /\ counter \in [Id -> Attempt]
        /\ no \in [Node -> Attempt] /\ Attempt \subseteq Nat
        /\ pc \in [Node -> Settled \cup {"open", "failed"} \cup LeafPc]
    BY LeafTyped, ParameterAssumption DEF TypeInv, TypeOK, NodeTypes, RecTypes, Attempt
  <1>1. PICK c \in Nat : c = counter[StepId[n]]
    BY <1>0
  <1>2. c + 1 \in Attempt /\ actualAttempt(n) = c + 1
    BY <1>0, <1>1, ParameterAssumption DEF Attempt, actualAttempt
  <1>3. \A i \in Id : counter'[i] = IF i = StepId[n] THEN c + 1 ELSE counter[i]
    BY <1>0, <1>2
  <1>4. \A m \in Leaf : /\ m \in Node /\ StepId[m] \in Id /\ no[m] \in Nat
                        /\ m # n => pc'[m] = pc[m] /\ no'[m] = no[m]
                        /\ m = n => pc'[m] = "starting" /\ no'[m] = c + 1
    BY <1>0, <1>2, LeafTyped
  <1>5. \A i \in Id : counter[i] \in Nat /\ counter'[i] \in Nat /\ counter[i] <= counter'[i]
    <2> TAKE i \in Id
    <2>1. counter[i] \in Nat
      BY <1>0
    <2>2. counter'[i] = IF i = StepId[n] THEN c + 1 ELSE counter[i]
      BY <1>3
    <2> QED BY <1>1, <2>1, <2>2
  <1>6. \A i \in Id, k \in Attempt : k > counter'[i] => rec[i][k] = "none"
    BY <1>0, <1>5 DEF AttemptInv
  <1>7. rec[StepId[n]][c + 1] = "none"
    BY <1>0, <1>1, <1>2 DEF AttemptInv
  <1>8. ASSUME NEW m \in Leaf, pc'[m] \in Active
        PROVE  no'[m] <= counter'[StepId[m]] /\ rec[StepId[m]][no'[m]] \in {"none", "RUNNING"}
    <2>1. CASE m = n
      BY <1>0, <1>3, <1>4, <1>7, <2>1
    <2>2. CASE m # n
      <3>1. no[m] <= counter[StepId[m]] /\ rec[StepId[m]][no[m]] \in {"none", "RUNNING"}
        BY <1>4, <1>8, <2>2 DEF AttemptInv
      <3> QED BY <1>4, <1>5, <2>2, <3>1
    <2> QED BY <2>1, <2>2
  <1>9. ASSUME NEW m \in Leaf, m # n, pc[m] \in Active, StepId[m] = StepId[n]
        PROVE  no[m] # c + 1
    BY <1>1, <1>4, <1>9 DEF AttemptInv
  <1>10. ASSUME NEW m \in Leaf, NEW l \in Leaf, m # l, pc'[m] \in Active, pc'[l] \in Active,
                StepId[m] = StepId[l]
         PROVE  no'[m] # no'[l]
    <2>1. CASE m # n /\ l # n
      BY <1>4, <1>10, <2>1 DEF AttemptInv
    <2>2. CASE m = n \/ l = n
      BY <1>4, <1>9, <1>10, <2>2
    <2> QED BY <2>1, <2>2
  <1> QED BY <1>6, <1>8, <1>10 DEF AttemptInv, RecordsStay

LEMMA AttemptLeaf ==
  ASSUME TypeInv, AttemptInv, NEW n \in Node, LeafStep(n) \/ Interrupt(n) \/ PollExpire(n)
  PROVE  AttemptInv' /\ RecordsStay
  <1>0. pc \in [Node -> Settled \cup {"open", "failed"} \cup LeafPc]
    BY DEF TypeInv, TypeOK, NodeTypes
  <1>1. n \in Leaf
    BY DEF LeafStep, Try, Delay, StartObserved, PassObserved, FailObserved, Interrupt,
           PollExpire, LeafPc, TypeInv, LeafInv
  <1>2. ASSUME NEW v, pc' = [pc EXCEPT ![n] = v], v \in Active => pc[n] \in Active,
               UNCHANGED <<counter, rec, no>>
        PROVE  AttemptInv' /\ RecordsStay
    <2>1. \A m \in Leaf : pc'[m] \in Active => pc[m] \in Active
      BY <1>0, <1>2, LeafTyped
    <2> QED BY <1>2, <2>1, AttemptSame
  <1>3. "failed" \notin Active /\ "failing" \in Active /\ "cancelling" \in Active
        /\ "acting" \in Active /\ "starting" \in Active /\ "passing" \in Active
        /\ "trying" \notin Active /\ "waiting" \notin Active /\ "done" \notin Active
        /\ "polling" \notin Active
    BY DEF Active
  <1>4. CASE Try(n)
    <2>1. CASE sig[n] # "none"
      BY <1>2, <1>3, <1>4, <2>1 DEF Try, Fail
    <2>2. CASE sig[n] = "none"
      BY <1>1, <1>4, <2>2, AttemptNew DEF Try
    <2> QED BY <2>1, <2>2
  <1>5. CASE Delay(n)
    BY <1>2, <1>3, <1>5 DEF Delay, Fail, recVars
  <1>6. ASSUME NEW ok \in BOOLEAN, StartObserved(n, ok) PROVE AttemptInv' /\ RecordsStay
    <2>1. pc[n] \in Active /\ UNCHANGED <<counter, no>>
      BY <1>3, <1>6 DEF StartObserved
    <2>2. CASE ok
      <3>1. Record(n, "RUNNING") /\ \E v : pc' = [pc EXCEPT ![n] = v]
        BY <1>6, <2>2 DEF StartObserved, Caught
      <3> QED BY <1>1, <2>1, <3>1, AttemptRecord
    <2>3. CASE ~ok
      BY <1>2, <1>3, <1>6, <2>1, <2>3 DEF StartObserved, Fail
    <2> QED BY <2>2, <2>3
  <1>7. ASSUME NEW ok \in BOOLEAN, PassObserved(n, ok) PROVE AttemptInv' /\ RecordsStay
    <2>1. pc[n] \in Active /\ UNCHANGED <<counter, no>>
      BY <1>3, <1>7 DEF PassObserved
    <2>2. CASE ok
      <3>1. Record(n, "PASSED") /\ \E v \in {"done", "polling"} : pc' = [pc EXCEPT ![n] = v]
        BY <1>7, <2>2 DEF PassObserved
      <3> QED BY <1>1, <1>3, <2>1, <3>1, AttemptRecord
    <2>3. CASE ~ok
      BY <1>2, <1>7, <2>1, <2>3 DEF PassObserved, Caught
    <2> QED BY <2>2, <2>3
  <1>8. ASSUME NEW ok \in BOOLEAN, FailObserved(n, ok) PROVE AttemptInv' /\ RecordsStay
    <2>1. pc[n] \in Active /\ UNCHANGED <<counter, no>>
      BY <1>3, <1>8 DEF FailObserved
    <2>2. CASE ok
      <3>1. /\ \E s : Record(n, s)
            /\ \E v \in {"failed", "waiting"} : pc' = [pc EXCEPT ![n] = v]
        BY <1>8, <2>2 DEF FailObserved
      <3> QED BY <1>1, <1>3, <2>1, <3>1, AttemptRecord
    <2>3. CASE ~ok
      BY <1>2, <1>3, <1>8, <2>1, <2>3 DEF FailObserved, Fail
    <2> QED BY <2>2, <2>3
  <1>9. CASE Interrupt(n)
    BY <1>2, <1>3, <1>9 DEF Interrupt, Caught, recVars
  <1>10. CASE PollExpire(n)
    BY <1>2, <1>3, <1>10 DEF PollExpire, Fail, recVars
  <1> QED BY <1>4, <1>5, <1>6, <1>7, <1>8, <1>9, <1>10 DEF LeafStep

LEMMA AttemptStep == TypeInv /\ AttemptInv /\ [Next]_vars => AttemptInv' /\ RecordsStay
  <1> SUFFICES ASSUME TypeInv, AttemptInv, [Next]_vars PROVE AttemptInv' /\ RecordsStay
    OBVIOUS
  <1>0. /\ pc \in [Node -> Settled \cup {"open", "failed"} \cup LeafPc]
        /\ \A n \in Leaf : n \in Node
    BY LeafTyped DEF TypeInv, TypeOK, NodeTypes
  <1>2. CASE Main
    <2>1. UNCHANGED recVars
      BY <1>2 DEF Main, Start, Entered, PhaseHead, PhaseEnd, StartCleanups, Settle,
           CancellingObserved, DecisionObserved, CleanupObserved, SettleObserved,
           Compensate, RunCleanup
    <2>2. UNCHANGED nodeVars \/ Begin({PhaseRoot[phase]}, rootSig, iter)
      BY <1>2 DEF Main, Start, Entered, PhaseHead, PhaseEnd, StartCleanups, Settle,
           CancellingObserved, DecisionObserved, CleanupObserved, SettleObserved,
           Compensate, RunCleanup
    <2>3. CASE UNCHANGED nodeVars
      BY <2>1, <2>3, AttemptSame DEF nodeVars, recVars
    <2>4. CASE Begin({PhaseRoot[phase]}, rootSig, iter)
      <3>1. \A n \in Leaf : pc'[n] \in Active => pc[n] \in Active
        BY <1>0, <2>4 DEF Begin, Active
      <3> QED BY <2>1, <2>4, <3>1, AttemptSame DEF Begin, recVars
    <2> QED BY <2>2, <2>3, <2>4
  <1>3. ASSUME NEW n \in Node, Compound(n) \/ StepTimer(n) PROVE AttemptInv' /\ RecordsStay
    <2>1. UNCHANGED <<counter, rec, no>>
      BY <1>3 DEF Compound, NextStep, StartParallel, SelectBranch, Complete, Unwind,
           LoseRace, StepTimer, BeginKids, Begin, nodeRest, recVars
    <2>2. ASSUME NEW v, v \notin Active, pc' = [pc EXCEPT ![n] = v]
          PROVE  \A m \in Leaf : pc'[m] \in Active => pc[m] \in Active
      BY <1>0, <2>2
    <2>3. ASSUME NEW S, NEW i, BeginKids(n, S, i)
          PROVE  \A m \in Leaf : pc'[m] \in Active => pc[m] \in Active
      BY <1>0, <2>3 DEF BeginKids, Begin, Active
    <2>4. \A m \in Leaf : pc'[m] \in Active => pc[m] \in Active
      <3>1. CASE StepTimer(n)
        BY <3>1 DEF StepTimer
      <3>2. CASE NextStep(n)
        BY <2>2, <2>3, <3>2 DEF NextStep, Fail, Active
      <3>3. CASE StartParallel(n) \/ SelectBranch(n)
        BY <2>3, <3>3 DEF StartParallel, SelectBranch
      <3>4. CASE Complete(n) \/ Unwind(n) \/ LoseRace(n)
        BY <2>2, <3>4 DEF Complete, Unwind, LoseRace, Fail, Active
      <3> QED BY <1>3, <3>1, <3>2, <3>3, <3>4 DEF Compound
    <2> QED BY <2>1, <2>4, AttemptSame
  <1>4. ASSUME NEW n \in Node, LeafStep(n) \/ Interrupt(n) \/ PollExpire(n)
        PROVE  AttemptInv' /\ RecordsStay
    BY <1>4, AttemptLeaf
  <1>5. ASSUME NEW h \in running, Handler(h) PROVE AttemptInv' /\ RecordsStay
    <2>1. UNCHANGED <<counter, rec, no>>
      BY <1>5 DEF Handler, RegisterCleanup, RegisterResourceLease, HandlerSettles,
           leafRest, nodeVars, recVars
    <2>2. UNCHANGED pc \/ (pc[h.node] = "acting" /\ \E v : pc' = [pc EXCEPT ![h.node] = v])
      BY <1>5 DEF Handler, RegisterCleanup, RegisterResourceLease, HandlerSettles,
           nodeVars, Caught
    <2>3. \A m \in Leaf : pc'[m] \in Active => pc[m] \in Active
      BY <1>0, <2>2 DEF Active
    <2> QED BY <2>1, <2>3, AttemptSame
  <1>6. CASE Cancel \/ ScenarioTimeout \/ UNCHANGED vars
    <2>1. UNCHANGED <<counter, rec, no, pc>>
      BY <1>6 DEF Cancel, ScenarioTimeout, AbortScenario, vars, nodeVars, recVars
    <2> QED BY <2>1, AttemptSame
  <1> QED BY <1>2, <1>3, <1>4, <1>5, <1>6 DEF Next, Terminated

\* RecordsFinal holds for every scenario tree: attempt numbers never collide,
\* so a closed step record is never written again.
THEOREM RecordsFinalCorrect == Spec => RecordsFinal
  <1>1. Init => AttemptInv
    BY LeafTyped DEF Init, InitPc, AttemptInv, Active
  <1>2. TypeInv /\ AttemptInv /\ [Next]_vars => AttemptInv'
    BY AttemptStep
  <1>3. TypeInv /\ AttemptInv /\ [Next]_vars =>
          [\A i \in Id, k \in Attempt :
             rec[i][k] \in {"PASSED", "FAILED", "CANCELLED"} => rec'[i][k] = rec[i][k]]_vars
    BY AttemptStep DEF RecordsStay
  <1> QED BY <1>1, <1>2, <1>3, TypeInit, TypeStep, PTL DEF Spec, RecordsFinal

-----------------------------------------------------------------------------
(* The contract                                                            *)

\* The status a run shows while it executes a phase, or before the first.
Working(q) == IF q = 0 THEN "VALIDATING" ELSE PhaseStatus[q]

\* The status and the outcome at each point of executeScenario.
StatusInv ==
  /\ at = "created" => state = "CREATED" /\ phase = 0
  /\ at \in {"entering", "steps"} => state = Working(phase)
  /\ at = "head" => phase # 0 /\ state = Working(phase - 1)
  /\ at = "steps" => phase # 0
  /\ at = "cancelling" => state = "CANCELLING" /\ outcome = "CANCELLED"
  /\ at \in {"deciding", "settling"} => state = outcome
  /\ at \in {"cleanup", "compensating", "releasing"} => state = "CLEANUP"
  /\ at \in {"created", "entering", "head", "steps"} => outcome = "PASSED"

\* A phase follows the one before it, and any of them can fail or be
\* cancelled; the last one can pass.
LEMMA PhaseTable ==
  /\ \A q \in 1..PhaseCount : canTransition(Working(q - 1), Working(q))
  /\ \A q \in 0..PhaseCount : /\ canTransition(Working(q), "FAILED")
                              /\ canTransition(Working(q), "CANCELLING")
                              /\ Working(q) # "CREATED"
  /\ canTransition(Working(PhaseCount), "PASSED")
  <1>1. ASSUME NEW q \in 0..6
        PROVE Working(q) \in {"VALIDATING", "ALLOCATING", "COMPILING", "CONFIGURING", "RUNNING",
                              "OBSERVING", "ASSERTING"}
    BY DEF Working, PhaseStatus
  <1>2. \A q \in 1..6 : canTransition(Working(q - 1), Working(q))
    <2> SUFFICES ASSUME NEW q \in 1..6 PROVE canTransition(Working(q - 1), Working(q))
      OBVIOUS
    <2>1. q = 1 \/ q = 2 \/ q = 3 \/ q = 4 \/ q = 5 \/ q = 6
      OBVIOUS
    <2> QED BY <2>1 DEF Working, PhaseStatus, canTransition, transitions
  <1>3. \A q \in 0..6 : /\ canTransition(Working(q), "FAILED")
                        /\ canTransition(Working(q), "CANCELLING")
                        /\ Working(q) # "CREATED"
    BY <1>1 DEF canTransition, transitions
  <1>4. canTransition(Working(6), "PASSED")
    BY DEF Working, PhaseStatus, canTransition, transitions
  <1> QED BY <1>2, <1>3, <1>4 DEF PhaseCount

\* The contract has the same transition table.
LEMMA SameTable ==
  ASSUME NEW r, NEW s PROVE Contract!canTransition(r, s) = canTransition(r, s)
  BY DEF Contract!canTransition, Contract!transitions, canTransition, transitions

\* The execution the contract sees.
Seen == [status |-> state, stage |-> stage, verdict |-> verdict, signal |-> rootSig]

\* The verdict on a run that an error has interrupted.
Defeat == IF rootSig = "fail" THEN "CANCELLED" ELSE "FAILED"

\* Updating the fields of an execution.
LEMMA SeenExceptThree ==
  ASSUME NEW s, NEW g, NEW v
  PROVE  [Seen EXCEPT !.status = s, !.stage = g, !.verdict = v] =
           [status |-> s, stage |-> g, verdict |-> v, signal |-> rootSig]
  <1>1. PICK x : x = Seen /\ x = [status |-> state, stage |-> stage, verdict |-> verdict, signal |-> rootSig]
    BY DEF Seen
  <1> DEFINE y == [x EXCEPT !.status = s]
             z == [y EXCEPT !.stage = g]
  <1>2. [x EXCEPT !.status = s, !.stage = g, !.verdict = v] = [z EXCEPT !.verdict = v]
    OBVIOUS
  <1>3. y = [status |-> s, stage |-> stage, verdict |-> verdict, signal |-> rootSig]
    BY <1>1
  <1> HIDE DEF y
  <1>4. z = [status |-> s, stage |-> g, verdict |-> verdict, signal |-> rootSig]
    BY <1>3
  <1> HIDE DEF z
  <1>5. [z EXCEPT !.verdict = v] = [status |-> s, stage |-> g, verdict |-> v, signal |-> rootSig]
    BY <1>4
  <1>6. [x EXCEPT !.status = s, !.stage = g, !.verdict = v] =
          [status |-> s, stage |-> g, verdict |-> v, signal |-> rootSig]
    BY ONLY <1>2, <1>5, Zenon
  <1>7. x = Seen
    BY <1>1
  <1> QED BY ONLY <1>6, <1>7, Zenon

LEMMA SeenExceptTwo ==
  ASSUME NEW g, NEW v
  PROVE  [Seen EXCEPT !.stage = g, !.verdict = v] =
           [status |-> state, stage |-> g, verdict |-> v, signal |-> rootSig]
  <1>1. PICK x : x = Seen /\ x = [status |-> state, stage |-> stage, verdict |-> verdict, signal |-> rootSig]
    BY DEF Seen
  <1> DEFINE w == [x EXCEPT !.stage = g]
  <1>2. [x EXCEPT !.stage = g, !.verdict = v] = [w EXCEPT !.verdict = v]
    OBVIOUS
  <1>3. w = [status |-> state, stage |-> g, verdict |-> verdict, signal |-> rootSig]
    BY <1>1
  <1> HIDE DEF w
  <1>4. [w EXCEPT !.verdict = v] = [status |-> state, stage |-> g, verdict |-> v, signal |-> rootSig]
    BY <1>3
  <1>5. [x EXCEPT !.stage = g, !.verdict = v] =
          [status |-> state, stage |-> g, verdict |-> v, signal |-> rootSig]
    BY ONLY <1>2, <1>4, Zenon
  <1>6. x = Seen
    BY <1>1
  <1> QED BY ONLY <1>5, <1>6, Zenon

\* One announcement of the contract.
LEMMA SeenAnnounce ==
  ASSUME NEW s, NEW g, NEW v, canTransition(state, s),
         Seen' = [status |-> s, stage |-> g, verdict |-> v, signal |-> rootSig]
  PROVE  Seen' \in Contract!Announce(Seen, s, g, v)
  <1>1. Contract!canTransition(Seen.status, s)
    BY SameTable DEF Seen
  <1>2. Seen' = [Seen EXCEPT !.status = s, !.stage = g, !.verdict = v]
    <2>1. [Seen EXCEPT !.status = s, !.stage = g, !.verdict = v] =
            [status |-> s, stage |-> g, verdict |-> v, signal |-> rootSig]
      BY ONLY SeenExceptThree
    <2> QED BY <2>1
  <1> QED BY <1>1, <1>2 DEF Contract!Announce

\* The next status on the way through the phases is announced.
LEMMA SeenPhase ==
  ASSUME stage = "executing", NEW s, s = "VALIDATING" \/ (rootSig = "none" /\ s \in PhaseStatuses),
         canTransition(state, s),
         Seen' = [status |-> s, stage |-> "executing", verdict |-> "none", signal |-> rootSig]
  PROVE  Contract!Next
  <1>1. Seen' \in Contract!Announce(Seen, s, "executing", "none")
    BY SeenAnnounce
  <1>2. s \in IF Seen.signal = "none" THEN {"VALIDATING"} \cup Contract!PhaseStatuses
                                      ELSE {"VALIDATING"}
    BY DEF Seen, PhaseStatuses, Contract!PhaseStatuses, PhaseStatus, Contract!PhaseStatus,
           PhaseCount, Contract!PhaseCount
  <1>3. Seen.stage = "executing"
    BY DEF Seen
  <1>4. Seen' \in Contract!Moves(Seen)
    BY <1>1, <1>2, <1>3 DEF Contract!Moves
  <1> QED BY <1>4 DEF Contract!Next, Seen

\* The verdict is announced.
LEMMA SeenVerdict ==
  ASSUME stage = "executing", state # "CREATED", NEW v \in {"PASSED", Defeat}, NEW s,
         s = IF v = "CANCELLED" THEN "CANCELLING" ELSE v, canTransition(state, s),
         Seen' = [status |-> s, stage |-> "decided", verdict |-> v, signal |-> rootSig]
  PROVE  Contract!Next
  <1>1. Seen' \in Contract!Announce(Seen, s, "decided", v)
    BY SeenAnnounce
  <1>2. Seen.stage = "executing" /\ Seen.status # "CREATED" /\ Contract!announcement(v) = s
    BY DEF Seen, Contract!announcement
  <1>3. v \in {"PASSED", Contract!defeat(Seen)}
    BY DEF Seen, Contract!defeat, Defeat
  <1>4. Seen' \in Contract!Moves(Seen)
    BY <1>1, <1>2, <1>3 DEF Contract!Moves
  <1> QED BY <1>4 DEF Contract!Next, Seen

\* The rest of the way: CANCELLED or CLEANUP after the verdict.
LEMMA SeenDecided ==
  ASSUME stage = "decided", NEW s, NEW g, <<s, g>> \in {<<"CANCELLED", "decided">>, <<"CLEANUP", "cleaning">>},
         canTransition(state, s),
         Seen' = [status |-> s, stage |-> g, verdict |-> verdict, signal |-> rootSig]
  PROVE  Contract!Next
  <1>1. Seen' \in Contract!Announce(Seen, s, g, verdict)
    BY SeenAnnounce
  <1>2. Seen.stage = "decided" /\ Seen.verdict = verdict
    BY DEF Seen
  <1>3. Seen' \in Contract!Moves(Seen)
    BY <1>1, <1>2 DEF Contract!Moves
  <1> QED BY <1>3 DEF Contract!Next, Seen

\* The observer rejected what followed the verdict: the call throws.
LEMMA SeenThrew ==
  ASSUME stage = "decided", NEW v \in {verdict, Defeat},
         Seen' = [status |-> state, stage |-> "threw", verdict |-> v, signal |-> rootSig]
  PROVE  Contract!Next
  <1>1. Seen.stage = "decided" /\ v \in {Seen.verdict, Contract!defeat(Seen)}
    BY DEF Seen, Contract!defeat, Defeat
  <1>2. Seen' = [Seen EXCEPT !.stage = "threw", !.verdict = v]
    <2>1. [Seen EXCEPT !.stage = "threw", !.verdict = v] =
            [status |-> state, stage |-> "threw", verdict |-> v, signal |-> rootSig]
      BY ONLY SeenExceptTwo
    <2> QED BY <2>1
  <1>3. Seen' \in Contract!FaultMoves(Seen)
    BY <1>1, <1>2 DEF Contract!FaultMoves
  <1> QED BY <1>3 DEF Contract!Next, Seen

\* The final status is announced.
LEMMA SeenSettled ==
  ASSUME stage = "cleaning", NEW v, v = verdict \/ (v = "FAILED" /\ verdict = "PASSED"),
         canTransition(state, v),
         Seen' = [status |-> v, stage |-> "settled", verdict |-> v, signal |-> rootSig]
  PROVE  Contract!Next
  <1>1. Seen' \in Contract!Announce(Seen, v, "settled", v)
    BY SeenAnnounce
  <1>2. Seen.stage = "cleaning" /\ v \in {Seen.verdict, Contract!downgrade(Seen.verdict)}
    BY DEF Seen, Contract!downgrade
  <1>3. Seen' \in Contract!Moves(Seen)
    BY <1>1, <1>2 DEF Contract!Moves
  <1> QED BY <1>3 DEF Contract!Next, Seen

\* The report is returned, after cleanup trouble with a pass turned failure.
LEMMA SeenReturned ==
  ASSUME \/ stage = "settled" /\ verdict' = verdict
         \/ /\ stage \in {"cleaning", "settled"}
            /\ verdict' = IF verdict = "PASSED" THEN "FAILED" ELSE verdict,
         Seen' = [status |-> state, stage |-> "returned", verdict |-> verdict', signal |-> rootSig]
  PROVE  Contract!Next
  <1>1. Seen.stage = stage /\ Seen.verdict = verdict
    BY DEF Seen
  <1>2. CASE stage = "settled" /\ verdict' = verdict
    <2>1. Seen' = [Seen EXCEPT !.stage = "returned"]
      BY <1>2 DEF Seen
    <2>2. Seen' \in Contract!Moves(Seen)
      BY <1>1, <1>2, <2>1 DEF Contract!Moves
    <2> QED BY <2>2 DEF Contract!Next, Seen
  <1>3. CASE /\ stage \in {"cleaning", "settled"}
             /\ verdict' = IF verdict = "PASSED" THEN "FAILED" ELSE verdict
    <2>1. PICK v : v = verdict' /\ v = Contract!downgrade(Seen.verdict)
      BY <1>1, <1>3 DEF Contract!downgrade
    <2>2. Seen' = [Seen EXCEPT !.stage = "returned", !.verdict = v]
      <3>1. [Seen EXCEPT !.stage = "returned", !.verdict = v] =
              [status |-> state, stage |-> "returned", verdict |-> v, signal |-> rootSig]
        BY ONLY SeenExceptTwo
      <3> QED BY <2>1, <3>1
    <2>3. Seen' = [Seen EXCEPT !.stage = "returned", !.verdict = Contract!downgrade(@)]
      BY <2>1, <2>2
    <2>4. Seen' \in Contract!FaultMoves(Seen)
      BY <1>1, <1>3, <2>3 DEF Contract!FaultMoves
    <2> QED BY <2>4 DEF Contract!Next, Seen
  <1> QED BY <1>2, <1>3

\* The scenario's signal is aborted.
LEMMA SeenAborted ==
  ASSUME stage \in {"executing", "decided"}, rootSig = "none", NEW r \in {"fail", "timeout"},
         Seen' = [status |-> state, stage |-> stage, verdict |-> verdict, signal |-> r]
  PROVE  Contract!Next
  <1>1. Contract!Abortable(Seen)
    BY DEF Seen, Contract!Abortable
  <1>2. Seen' = Contract!Aborted(Seen, r)
    BY <1>1 DEF Seen, Contract!Aborted
  <1> QED BY <1>1, <1>2 DEF Contract!Next, Seen

\* The catch block, for an error that cancels only a cancelled run.
LEMMA CatchDefeats ==
  ASSUME TypeInv, NEW e, Catch(e), e = "cancelled" => rootSig = "fail"
  PROVE  /\ outcome' = Defeat /\ Defeat \in {"CANCELLED", "FAILED"}
         /\ LET s == IF Defeat = "CANCELLED" THEN "CANCELLING" ELSE "FAILED"
            IN \/ /\ canTransition(state, s) /\ state' = s
                  /\ at' = IF Defeat = "CANCELLED" THEN "cancelling" ELSE "deciding"
               \/ ~canTransition(state, s) /\ at' = "threw" /\ state' = state
  <1>1. rootSig \in {"none", "fail", "timeout"}
    BY DEF TypeInv, TypeOK, MainTypes
  <1>2. isCancellation(e, rootSig) <=> rootSig = "fail"
    BY <1>1 DEF isCancellation
  <1> QED BY <1>2 DEF Catch, Transition, Defeat

\* What the contract sees of each point of the main routine.
LEMMA StageOf ==
  ASSUME TypeInv
  PROVE  /\ stage = "executing" <=> at \in {"created", "entering", "head", "steps"}
         /\ stage = "decided" <=> at \in {"cancelling", "deciding"}
         /\ stage = "cleaning" <=> at \in {"cleanup", "compensating", "releasing"}
         /\ stage = "settled" <=> at = "settling"
         /\ verdict = IF stage = "executing" THEN "none" ELSE outcome
  BY DEF stage, verdict, TypeInv, TypeOK, MainTypes

\* While the scenario executes, the catch block announces the verdict.
LEMMA CatchWorking ==
  ASSUME TypeInv, StatusInv, at \in {"entering", "head", "steps"}, UNCHANGED rootSig,
         NEW e, Catch(e), e = "cancelled" => rootSig = "fail"
  PROVE  StatusInv' /\ Contract!Next
  <1>0. phase \in 0..PhaseCount /\ PhaseCount \in Nat
    BY DEF TypeInv, TypeOK, MainTypes, PhaseCount
  <1>1. \E q \in 0..PhaseCount : state = Working(q)
    BY <1>0 DEF StatusInv
  <1>2. /\ canTransition(state, "FAILED") /\ canTransition(state, "CANCELLING")
        /\ state # "CREATED"
    BY <1>1, PhaseTable
  <1>3. PICK v : v = Defeat
    OBVIOUS
  <1>4. PICK s : s = IF v = "CANCELLED" THEN "CANCELLING" ELSE v
    OBVIOUS
  <1>5. /\ outcome' = v /\ v \in {"CANCELLED", "FAILED"} /\ canTransition(state, s) /\ state' = s
        /\ at' = IF v = "CANCELLED" THEN "cancelling" ELSE "deciding"
    BY <1>2, <1>3, <1>4, CatchDefeats
  <1>6. StatusInv'
    BY <1>4, <1>5 DEF StatusInv
  <1>7. Seen' = [status |-> s, stage |-> "decided", verdict |-> v, signal |-> rootSig]
    BY <1>4, <1>5 DEF Seen, stage, verdict
  <1>8. stage = "executing"
    BY StageOf
  <1> QED BY <1>2, <1>3, <1>4, <1>5, <1>6, <1>7, <1>8, SeenVerdict

LEMMA ContractMain ==
  ASSUME TypeInv, TreeInv, CancelInv, StatusInv, Main
  PROVE  StatusInv' /\ (Contract!Next \/ Seen' = Seen)
  <1>0. /\ phase \in 0..PhaseCount /\ PhaseCount = 6 /\ outcome \in Outcome
        /\ rootSig \in {"none", "fail", "timeout"}
    BY DEF TypeInv, TypeOK, MainTypes, PhaseCount
  <1>1. UNCHANGED rootSig
    BY DEF Main, Start, Entered, PhaseHead, PhaseEnd, StartCleanups, Settle,
           CancellingObserved, DecisionObserved, CleanupObserved, SettleObserved,
           Compensate, RunCleanup
  <1>2. CASE Start
    <2>1. /\ at = "created" /\ at' = "entering" /\ state' = "VALIDATING"
          /\ canTransition(state, "VALIDATING") /\ UNCHANGED <<phase, outcome>>
      BY <1>2 DEF Start, Transition
    <2>2. StatusInv'
      BY <2>1 DEF StatusInv, Working
    <2>3. Seen' = [status |-> "VALIDATING", stage |-> "executing", verdict |-> "none",
                   signal |-> rootSig]
      BY <1>1, <2>1 DEF Seen, stage, verdict
    <2> QED BY <2>1, <2>2, <2>3, SeenPhase, StageOf
  <1>3. ASSUME NEW ok \in BOOLEAN, Entered(ok)
        PROVE  StatusInv' /\ (Contract!Next \/ Seen' = Seen)
    <2>1. at = "entering"
      BY <1>3 DEF Entered
    <2>2. CASE ok
      <3>1. /\ UNCHANGED <<state, outcome>>
            /\ \/ phase = 0 /\ phase' = 1 /\ at' = "head"
               \/ phase # 0 /\ phase' = phase /\ at' = "steps"
        BY <1>0, <1>3, <2>2 DEF Entered
      <3>2. StatusInv'
        BY <1>0, <2>1, <3>1 DEF StatusInv
      <3>3. Seen' = Seen
        BY <1>1, <2>1, <3>1 DEF Seen, stage, verdict
      <3> QED BY <3>2, <3>3
    <2>3. CASE ~ok
      BY <1>1, <1>3, <2>1, <2>3, CatchWorking DEF Entered
    <2> QED BY <2>2, <2>3
  <1>4. CASE PhaseHead
    <2>1. at = "head"
      BY <1>4 DEF PhaseHead
    <2>2. CASE rootSig = "none"
      <3>1. phase \in 1..PhaseCount /\ state = Working(phase - 1)
        BY <1>0, <2>1 DEF StatusInv
      <3>2. PICK s : s = Working(phase)
        OBVIOUS
      <3>3. s = PhaseStatus[phase] /\ s \in PhaseStatuses
        BY <3>1, <3>2 DEF Working, PhaseStatuses
      <3>4. /\ at' = "entering" /\ state' = s /\ canTransition(state, s)
            /\ UNCHANGED <<phase, outcome>>
        BY <1>4, <2>2, <3>3 DEF PhaseHead, Transition
      <3>5. StatusInv'
        BY <2>1, <3>2, <3>4 DEF StatusInv
      <3>6. Seen' = [status |-> s, stage |-> "executing", verdict |-> "none", signal |-> rootSig]
        BY <1>1, <3>4 DEF Seen, stage, verdict
      <3> QED BY <2>1, <2>2, <3>3, <3>4, <3>5, <3>6, SeenPhase, StageOf
    <2>3. CASE rootSig # "none"
      <3>1. PICK e : e = thrown(rootSig)
        OBVIOUS
      <3>2. Catch(e) /\ (e = "cancelled" => rootSig = "fail")
        BY <1>0, <1>4, <2>3, <3>1 DEF PhaseHead, thrown
      <3> QED BY <1>1, <2>1, <3>2, CatchWorking
    <2> QED BY <2>2, <2>3
  <1>5. CASE PhaseEnd
    <2>1. at = "steps" /\ phase \in 1..PhaseCount /\ state = Working(phase)
      BY <1>0, <1>5 DEF PhaseEnd, StatusInv
    <2>2. PICK r \in Node : r = PhaseRoot[phase]
      BY <2>1, PhaseAssumption
    <2>3. CASE pc[r] = "done" /\ phase < PhaseCount
      <3>1. phase' = phase + 1 /\ at' = "head" /\ UNCHANGED <<state, outcome>>
        BY <1>0, <1>5, <2>2, <2>3 DEF PhaseEnd
      <3>2. StatusInv'
        BY <1>0, <2>1, <3>1 DEF StatusInv
      <3>3. Seen' = Seen
        BY <1>1, <2>1, <3>1 DEF Seen, stage, verdict
      <3> QED BY <3>2, <3>3
    <2>4. CASE pc[r] = "done" /\ phase = PhaseCount
      <3>1. /\ state' = "PASSED" /\ at' = "deciding" /\ canTransition(state, "PASSED")
            /\ outcome' = outcome /\ outcome = "PASSED"
        BY <1>0, <1>5, <2>1, <2>2, <2>4 DEF PhaseEnd, Transition, StatusInv
      <3>2. StatusInv'
        BY <3>1 DEF StatusInv
      <3>3. Seen' = [status |-> "PASSED", stage |-> "decided", verdict |-> "PASSED",
                     signal |-> rootSig]
        BY <1>1, <3>1 DEF Seen, stage, verdict
      <3>4. state # "CREATED" /\ stage = "executing"
        BY <1>0, <2>1, PhaseTable, StageOf
      <3> QED BY <3>1, <3>2, <3>3, <3>4, SeenVerdict
    <2>5. CASE pc[r] = "failed"
      <3>1. PICK e : e = err[r]
        OBVIOUS
      <3>2. \A m \in Node : r \notin Below[m]
        BY <2>1, <2>2, PhaseAssumption
      <3>3. Catch(e) /\ (e = "cancelled" => rootSig = "fail")
        BY <1>5, <2>2, <2>5, <3>1, <3>2 DEF PhaseEnd, CancelInv, BlameInv, Cancelling, Blamed
      <3> QED BY <1>1, <2>1, <3>3, CatchWorking
    <2> QED BY <1>5, <2>2, <2>3, <2>4, <2>5 DEF PhaseEnd
  <1>6. ASSUME NEW ok \in BOOLEAN, CancellingObserved(ok)
        PROVE  StatusInv' /\ (Contract!Next \/ Seen' = Seen)
    <2>1. /\ at = "cancelling" /\ state = "CANCELLING" /\ outcome = "CANCELLED"
          /\ UNCHANGED outcome
      BY <1>6 DEF CancellingObserved, StatusInv
    <2>2. CASE ok
      <3>1. state' = "CANCELLED" /\ at' = "deciding" /\ canTransition(state, "CANCELLED")
        BY <1>6, <2>2 DEF CancellingObserved, Transition
      <3>2. StatusInv'
        BY <2>1, <3>1 DEF StatusInv
      <3>3. Seen' = [status |-> "CANCELLED", stage |-> "decided", verdict |-> verdict,
                     signal |-> rootSig]
        BY <1>1, <2>1, <3>1 DEF Seen, stage, verdict
      <3> QED BY <2>1, <3>1, <3>2, <3>3, SeenDecided, StageOf
    <2>3. CASE ~ok
      <3>1. at' = "threw" /\ UNCHANGED state
        BY <1>6, <2>3 DEF CancellingObserved
      <3>2. StatusInv'
        BY <3>1 DEF StatusInv
      <3>3. Seen' = [status |-> state, stage |-> "threw", verdict |-> verdict, signal |-> rootSig]
        BY <1>1, <2>1, <3>1 DEF Seen, stage, verdict
      <3>4. PICK v \in {verdict, Defeat} : v = verdict
        OBVIOUS
      <3> QED BY <2>1, <3>2, <3>3, <3>4, SeenThrew, StageOf
    <2> QED BY <2>2, <2>3
  <1>7. ASSUME NEW ok \in BOOLEAN, DecisionObserved(ok)
        PROVE  StatusInv' /\ (Contract!Next \/ Seen' = Seen)
    <2>1. at = "deciding" /\ state = outcome
      BY <1>7 DEF DecisionObserved, StatusInv
    <2>2. CASE ok
      <3>1. /\ state' = "CLEANUP" /\ at' = "cleanup" /\ canTransition(state, "CLEANUP")
            /\ UNCHANGED outcome
        BY <1>7, <2>2 DEF DecisionObserved, Transition
      <3>2. StatusInv'
        BY <3>1 DEF StatusInv
      <3>3. Seen' = [status |-> "CLEANUP", stage |-> "cleaning", verdict |-> verdict,
                     signal |-> rootSig]
        BY <1>1, <2>1, <3>1 DEF Seen, stage, verdict
      <3> QED BY <2>1, <3>1, <3>2, <3>3, SeenDecided, StageOf
    <2>3. CASE ~ok
      <3>1. at' = "threw" /\ state' = state /\ outcome' \in {outcome, Defeat}
        <4>1. CASE state = "PASSED"
          <5>1. ~canTransition(state, "FAILED") /\ ~canTransition(state, "CANCELLING")
            BY <4>1 DEF canTransition, transitions
          <5>2. Catch("fail")
            BY <1>7, <2>3, <4>1 DEF DecisionObserved
          <5> QED BY <5>1, <5>2, CatchDefeats
        <4>2. CASE state # "PASSED"
          BY <1>7, <2>3, <4>2 DEF DecisionObserved
        <4> QED BY <4>1, <4>2
      <3>2. StatusInv'
        BY <3>1 DEF StatusInv
      <3>3. PICK v \in {verdict, Defeat} : v = outcome'
        BY <2>1, <3>1, StageOf
      <3>4. Seen' = [status |-> state, stage |-> "threw", verdict |-> v, signal |-> rootSig]
        BY <1>1, <3>1, <3>3 DEF Seen, stage, verdict
      <3> QED BY <2>1, <3>2, <3>3, <3>4, SeenThrew, StageOf
    <2> QED BY <2>2, <2>3
  <1>8. ASSUME NEW ok \in BOOLEAN, CleanupObserved(ok) \/ SettleObserved(ok)
        PROVE  StatusInv' /\ (Contract!Next \/ Seen' = Seen)
    <2>1. /\ at \in {"cleanup", "settling"} /\ UNCHANGED state
          /\ \/ at = "cleanup" /\ at' = "compensating" /\ UNCHANGED outcome
             \/ at = "settling" /\ at' = "returned" /\ UNCHANGED outcome
             \/ at' = "returned" /\ outcome' = IF outcome = "CANCELLED" THEN "CANCELLED" ELSE "FAILED"
      BY <1>8 DEF CleanupObserved, SettleObserved, CleanupCatch
    <2>2. StatusInv'
      BY <2>1 DEF StatusInv
    <2>3. CASE at = "cleanup" /\ at' = "compensating" /\ UNCHANGED outcome
      BY <1>1, <2>1, <2>2, <2>3 DEF Seen, stage, verdict
    <2>4. CASE at' = "returned"
      <3>1. /\ Seen' = [status |-> state, stage |-> "returned", verdict |-> verdict',
                        signal |-> rootSig]
            /\ verdict' = outcome'
        BY <1>1, <2>1, <2>4 DEF Seen, stage, verdict
      <3>2. verdict = outcome
        BY <2>1 DEF stage, verdict
      <3>3. \/ stage = "settled" /\ verdict' = verdict
            \/ /\ stage \in {"cleaning", "settled"}
               /\ verdict' = IF verdict = "PASSED" THEN "FAILED" ELSE verdict
        BY <1>0, <2>1, <2>4, <3>1, <3>2, StageOf DEF Outcome
      <3> QED BY <2>2, <3>1, <3>3, SeenReturned
    <2> QED BY <2>1, <2>3, <2>4
  <1>9. ASSUME \/ StartCleanups
               \/ \E ok, b \in BOOLEAN : Compensate(ok, b) \/ RunCleanup(b, ok)
        PROVE  StatusInv' /\ Seen' = Seen
    <2>1. /\ at \in {"compensating", "releasing"} /\ at' \in {"compensating", "releasing"}
          /\ UNCHANGED <<state, phase, outcome>>
      BY <1>9 DEF StartCleanups, Compensate, RunCleanup
    <2> QED BY <1>1, <2>1 DEF StatusInv, Seen, stage, verdict
  <1>10. CASE Settle
    <2>1. PICK v : v = outcome'
      OBVIOUS
    <2>2. /\ at = "releasing" /\ at' = "settling" /\ state' = v /\ canTransition(state, v)
          /\ v = outcome \/ (v = "FAILED" /\ outcome = "PASSED")
      BY <1>10, <2>1 DEF Settle, Transition
    <2>3. StatusInv'
      BY <2>1, <2>2 DEF StatusInv
    <2>4. Seen' = [status |-> v, stage |-> "settled", verdict |-> v, signal |-> rootSig]
      BY <1>1, <2>1, <2>2 DEF Seen, stage, verdict
    <2>5. stage = "cleaning" /\ verdict = outcome
      BY <2>2, StageOf
    <2> QED BY <2>2, <2>3, <2>4, <2>5, SeenSettled
  <1> QED BY <1>2, <1>3, <1>4, <1>5, <1>6, <1>7, <1>8, <1>9, <1>10 DEF Main

LEMMA ContractStep ==
  TypeInv /\ TreeInv /\ CancelInv /\ StatusInv /\ [Next]_vars =>
    StatusInv' /\ (Contract!Next \/ Seen' = Seen)
  <1> SUFFICES ASSUME TypeInv, TreeInv, CancelInv, StatusInv, [Next]_vars
               PROVE  StatusInv' /\ (Contract!Next \/ Seen' = Seen)
    OBVIOUS
  <1>1. ASSUME UNCHANGED <<mainVars, rootSig>> PROVE StatusInv' /\ Seen' = Seen
    BY <1>1 DEF mainVars, StatusInv, Seen, stage, verdict
  <1>2. CASE Main
    BY <1>2, ContractMain
  <1>3. ASSUME NEW n \in Node,
               \/ Compound(n) \/ StepTimer(n)
               \/ LeafStep(n) \/ Interrupt(n) \/ PollExpire(n)
        PROVE  UNCHANGED <<mainVars, rootSig>>
    BY <1>3 DEF Compound, NextStep, StartParallel, SelectBranch, Complete, Unwind,
         LoseRace, StepTimer, nodeRest, LeafStep, Try, Delay, StartObserved, PassObserved,
         FailObserved, Interrupt, PollExpire, leafRest
  <1>4. ASSUME NEW h \in running, Handler(h) PROVE UNCHANGED <<mainVars, rootSig>>
    BY <1>4 DEF Handler, RegisterCleanup, RegisterResourceLease, HandlerSettles, leafRest
  <1>5. ASSUME NEW r \in {"fail", "timeout"}, AbortScenario(r) PROVE StatusInv' /\ Contract!Next
    <2>1. /\ at \in {"created", "entering", "head", "steps", "cancelling", "deciding"}
          /\ rootSig = "none" /\ rootSig' = r /\ UNCHANGED mainVars
      BY <1>5 DEF AbortScenario, Attached
    <2>2. StatusInv'
      BY <2>1 DEF mainVars, StatusInv
    <2>3. Seen' = [status |-> state, stage |-> stage, verdict |-> verdict, signal |-> r]
      BY <2>1 DEF mainVars, Seen, stage, verdict
    <2> QED BY <2>1, <2>2, <2>3, SeenAborted, StageOf
  <1>6. CASE UNCHANGED vars
    BY <1>1, <1>6 DEF vars
  <1> QED BY <1>1, <1>2, <1>3, <1>4, <1>5, <1>6 DEF Next, Terminated, Cancel, ScenarioTimeout

\* ImplementsContract holds for every scenario tree: whatever the steps, the
\* handlers and the observer do, the caller sees only what RunLifecycle
\* allows, which is what RunService relies on in place of the executor.
THEOREM ImplementsContractCorrect == Spec => ImplementsContract
  <1>1. Init => StatusInv /\ Contract!Init
    BY DEF Init, StatusInv, Contract!Init, Contract!NewExecution, stage, verdict
  <1>2. TypeInv /\ TreeInv /\ CancelInv /\ StatusInv /\ [Next]_vars => StatusInv'
    BY ContractStep
  <1>3. TypeInv /\ TreeInv /\ CancelInv /\ StatusInv /\ [Next]_vars
          => [Contract!Next]_[status |-> state, stage |-> stage, verdict |-> verdict,
                              signal |-> rootSig]
    BY ContractStep DEF Seen
  <1>4. Init => CancelInv
    BY DEF Init, InitPc, CancelInv, BlameInv, Cancelling, CancelledOnlyOnRequest
  <1> QED BY <1>1, <1>2, <1>3, <1>4, TypeInit, TypeStep, TreeInit, TreeStep, CancelStep, PTL
          DEF Spec, ImplementsContract, Contract!Spec
=============================================================================
