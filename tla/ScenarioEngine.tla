--------------------------- MODULE ScenarioEngine ---------------------------
(***************************************************************************)
(* executeScenario of packages/scenario-engine: one run of one resolved    *)
(* scenario, from VALIDATING to the report (or the exception) its caller   *)
(* gets.                                                                   *)
(*                                                                         *)
(* A scenario is a tree.  Its nodes are the six phase lists, the compound  *)
(* steps and the leaves:                                                   *)
(*   "steps"     a list run in order, Times[n] times: a phase, a branch    *)
(*               of a condition, or a repeat step;                         *)
(*   "parallel"  all children at once under one abort group;               *)
(*   "choice"    a condition step: children 1 (then) and 2 (else);         *)
(*   "task", "poll"  leaves that invoke an action handler.                 *)
(* A compound step with timeoutMs is in Timed; so is a task with one.  A   *)
(* poll with timeoutMs is a Timed "steps" node around the poll, which is   *)
(* the runWithTimeout wrapper executeStep puts around it.                  *)
(*                                                                         *)
(* Every await is a place where other callbacks may run, so each action    *)
(* below is the code between two awaits.  The rejection of a promise       *)
(* climbs one level of the tree per step; the event loop climbs faster, so *)
(* its orders are among those explored here.                               *)
(***************************************************************************)
EXTENDS RunStateMachine, FiniteSets, SequencesExt

CONSTANTS
  Node,          \* nodes of the scenario tree
  Kind,          \* Kind[n]: the kind of step
  Kids,          \* Kids[n]: the children, in order
  Below,         \* Below[n]: all proper descendants
  PhaseRoot,     \* PhaseRoot[q]: the step list of phase q
  Times,         \* Times[n]: how often a "steps" node runs its list
  Attempts,      \* Attempts[n]: retry.attempts of a leaf
  StepId,        \* StepId[n]: the id of a leaf; may repeat across lists
  Timed,         \* nodes with a timeoutMs
  Compensated,   \* tasks with a compensate clause
  Leasing,       \* leaves whose handler takes a resource lease
  Registering,   \* leaves whose handler registers a plain cleanup
  MaxFaults,     \* bound: observer calls that fail in one run
  MaxAttempt     \* bound: attempts per step id (a poll repeats freely)

Leaf == {n \in Node : Kind[n] \in {"task", "poll"}}
Id == {StepId[n] : n \in Leaf}
Attempt == 0..MaxAttempt
KidSet(n) == {Kids[n][i] : i \in 1..Len(Kids[n])}

ASSUME ShapeAssumption ==
  /\ Kind \in [Node -> {"steps", "parallel", "choice", "task", "poll"}]
  /\ Kids \in [Node -> Seq(Node)]
  /\ \A n \in Node : Kind[n] = "choice" => Len(Kids[n]) = 2
  /\ \A n \in Leaf : Kids[n] = <<>>

\* Below is what Kids makes it, and a node has one parent at most.
ASSUME TreeAssumption ==
  /\ Below \in [Node -> SUBSET Node]
  /\ \A n \in Node :
       /\ Below[n] = KidSet(n) \cup UNION {Below[c] : c \in KidSet(n)}
       /\ n \notin Below[n]
       /\ \A d \in Below[n] : Below[d] \subseteq Below[n]
  /\ \A n, m \in Node : m # n => KidSet(m) \cap KidSet(n) = {}
  /\ \A n, m \in Node : \A c \in KidSet(n) : c \in Below[m] => m = n \/ n \in Below[m]

\* The phase lists are the roots, and every node is in one of them.
ASSUME PhaseAssumption ==
  /\ PhaseRoot \in [1..PhaseCount -> Node]
  /\ \A q, r \in 1..PhaseCount : PhaseRoot[q] = PhaseRoot[r] => q = r
  /\ \A q \in 1..PhaseCount : Kind[PhaseRoot[q]] = "steps"
  /\ \A q \in 1..PhaseCount, n \in Node : PhaseRoot[q] \notin Below[n]
  /\ \A n \in Node : \E q \in 1..PhaseCount :
       n = PhaseRoot[q] \/ n \in Below[PhaseRoot[q]]

ASSUME ParameterAssumption ==
  /\ Times \in [Node -> Nat]
  /\ Attempts \in [Node -> Nat \ {0}]
  /\ DOMAIN StepId = Node
  /\ Timed \subseteq Node /\ Compensated \subseteq Node
  /\ Leasing \subseteq Leaf /\ Registering \subseteq Leaf
  /\ MaxFaults \in Nat /\ MaxAttempt \in Nat

VARIABLES
  state,      \* RunStateMachine.status
  at,         \* what executeScenario awaits
  phase,      \* index of the phase entered, 0 while VALIDATING
  outcome,    \* the local variable outcome
  dirty,      \* cleanupErrors.length > 0
  rootSig,    \* reason of the scenario's AbortController, or "none"
  pc,         \* pc[n]: progress of node n
  sig,        \* sig[n]: abort reason of the signal n runs under, or "none"
  err,        \* err[n]: the class of the error n failed with
  iter,       \* iter[n]: children a compound node has started
  tries,      \* tries[n]: attempts of the current executeAttemptedAction
  no,         \* no[n]: actualAttempt of the leaf's last attempt
  counter,    \* attemptCounters
  rec,        \* rec[id][k]: status of the stored step record, or "none"
  running,    \* action handlers that have not settled
  cleanups,   \* the cleanups array
  comps,      \* the compensations array
  todo,       \* what is left of the reversed snapshot being walked
  undone,     \* compensations invoked, in order
  ran,        \* cleanups invoked, in order
  leases,     \* entries whose stored lease is ACTIVE
  faults,     \* observer calls that have failed
  alive       \* FALSE once a rejection nobody handles has ended the process

mainVars == <<state, at, phase, outcome, dirty>>
nodeVars == <<pc, sig, err, iter, tries, no>>
recVars  == <<counter, rec>>
resVars  == <<running, cleanups, comps, leases>>
walkVars == <<todo, undone, ran>>
vars == <<mainVars, rootSig, nodeVars, recVars, resVars, walkVars, faults, alive>>

-----------------------------------------------------------------------------
(* Errors and abort reasons.  "cancelled" is a ScenarioCancelledError,     *)
(* "timeout" a ScenarioTimeoutError, "fail" any other Error; the caller's  *)
(* cancellation aborts with a plain Error.                                 *)

Error == {"fail", "timeout", "cancelled"}

\* Mutant: any aborted signal counts as a cancellation.
isCancellation_AnyAbort(e, s) == e = "cancelled" \/ s # "none"

isCancellation(e, s) == e = "cancelled" \/ s \in {"fail", "cancelled"}

\* The error throwIfAborted raises under an aborted signal.
thrown(s) == IF s = "timeout" THEN "timeout" ELSE "cancelled"

\* Mutant: the abort is not forwarded to the signals the leaves hold.
Abort_NotForwarded(S, r) ==
  [m \in Node |-> IF m \in S \ Leaf /\ sig[m] = "none" THEN r ELSE sig[m]]

\* AbortController.abort on every signal below: only the first reason counts.
Abort(S, r) == [m \in Node |-> IF m \in S /\ sig[m] = "none" THEN r ELSE sig[m]]

\* An observer call succeeds, or is one of the MaxFaults that fail.
Observed(ok) == \/ ok /\ UNCHANGED faults
                \/ ~ok /\ faults < MaxFaults /\ faults' = faults + 1

-----------------------------------------------------------------------------
(* executeScenario                                                         *)

InitPc == [n \in Node |-> "idle"]

Init ==
  /\ state = "CREATED" /\ at = "created" /\ phase = 0
  /\ outcome = "PASSED" /\ dirty = FALSE /\ rootSig = "none"
  /\ pc = InitPc
  /\ sig = [n \in Node |-> "none"] /\ err = [n \in Node |-> "fail"]
  /\ iter = [n \in Node |-> 0] /\ tries = [n \in Node |-> 0]
  /\ no = [n \in Node |-> 0]
  /\ counter = [i \in Id |-> 0]
  /\ rec = [i \in Id |-> [k \in Attempt |-> "none"]]
  /\ running = {} /\ cleanups = <<>> /\ comps = <<>> /\ leases = {}
  /\ todo = <<>> /\ undone = <<>> /\ ran = <<>>
  /\ faults = 0 /\ alive = TRUE

\* transition(s): the state machine first, then the observer is awaited.
Transition(s, next) ==
  /\ canTransition(state, s)
  /\ state' = s /\ at' = next

\* The catch block: CANCELLING or FAILED; an illegal transition is thrown.
Catch(e) ==
  LET cancelled == isCancellation(e, rootSig)
      s == IF cancelled THEN "CANCELLING" ELSE "FAILED"
  IN /\ outcome' = IF cancelled THEN "CANCELLED" ELSE "FAILED"
     /\ \/ Transition(s, IF cancelled THEN "cancelling" ELSE "deciding")
        \/ ~canTransition(state, s) /\ at' = "threw" /\ UNCHANGED state
     /\ UNCHANGED <<phase, dirty>>

Start ==
  /\ at = "created"
  /\ Transition("VALIDATING", "entering")
  /\ UNCHANGED <<phase, outcome, dirty, rootSig, nodeVars, recVars, resVars,
                 walkVars, faults, alive>>

\* Begin the nodes S under the signal s, as executeStep does; its: the other
\* nodes' progress.
Begin(S, s, its) ==
  /\ pc' = [m \in Node |-> IF m \in S
                           THEN IF m \in Leaf THEN "trying" ELSE "open"
                           ELSE pc[m]]
  /\ sig' = [m \in Node |-> IF m \in S THEN s ELSE sig[m]]
  /\ iter' = [m \in Node |-> IF m \in S THEN 0 ELSE its[m]]
  /\ tries' = [m \in Node |-> IF m \in S THEN 0 ELSE tries[m]]
  /\ UNCHANGED <<err, no>>

\* The observer has seen VALIDATING or the status of a phase.
Entered(ok) ==
  /\ at = "entering"
  /\ Observed(ok)
  /\ \/ /\ ok /\ phase = 0
        /\ phase' = 1 /\ at' = "head"
        /\ UNCHANGED <<state, outcome, dirty, nodeVars>>
     \/ /\ ok /\ phase > 0
        /\ at' = "steps" /\ Begin({PhaseRoot[phase]}, rootSig, iter)
        /\ UNCHANGED <<state, phase, outcome, dirty>>
     \/ ~ok /\ Catch("fail") /\ UNCHANGED nodeVars
  /\ UNCHANGED <<rootSig, recVars, resVars, walkVars, alive>>

\* Top of the phase loop.
PhaseHead ==
  /\ at = "head"
  /\ \/ /\ rootSig = "none"
        /\ Transition(PhaseStatus[phase], "entering")
        /\ UNCHANGED <<phase, outcome, dirty>>
     \/ rootSig # "none" /\ Catch(thrown(rootSig))
  /\ UNCHANGED <<rootSig, nodeVars, recVars, resVars, walkVars, faults, alive>>

\* executeSteps of the phase has resolved or rejected.
PhaseEnd ==
  /\ at = "steps"
  /\ \/ /\ pc[PhaseRoot[phase]] = "done" /\ phase < PhaseCount
        /\ phase' = phase + 1 /\ at' = "head"
        /\ UNCHANGED <<state, outcome, dirty>>
     \/ /\ pc[PhaseRoot[phase]] = "done" /\ phase = PhaseCount
        /\ Transition("PASSED", "deciding")
        /\ UNCHANGED <<phase, outcome, dirty>>
     \/ /\ pc[PhaseRoot[phase]] = "failed"
        /\ Catch(err[PhaseRoot[phase]])
  /\ UNCHANGED <<rootSig, nodeVars, recVars, resVars, walkVars, faults, alive>>

\* CANCELLING has been observed.  A failing observer escapes the catch block.
CancellingObserved(ok) ==
  /\ at = "cancelling"
  /\ Observed(ok)
  /\ \/ ok /\ Transition("CANCELLED", "deciding")
     \/ ~ok /\ at' = "threw" /\ UNCHANGED state
  /\ UNCHANGED <<phase, outcome, dirty, rootSig, nodeVars, recVars, resVars,
                 walkVars, alive>>

\* PASSED, FAILED or CANCELLED has been observed.  The failure for PASSED
\* lands in the catch block, the others escape it.
DecisionObserved(ok) ==
  /\ at = "deciding"
  /\ Observed(ok)
  /\ \/ ok /\ Transition("CLEANUP", "cleanup") /\ UNCHANGED <<phase, outcome, dirty>>
     \/ ~ok /\ state = "PASSED" /\ Catch("fail")
     \/ ~ok /\ state # "PASSED" /\ at' = "threw"
            /\ UNCHANGED <<state, phase, outcome, dirty>>
  /\ UNCHANGED <<rootSig, nodeVars, recVars, resVars, walkVars, alive>>

\* Mutant: a failing status update during cleanup reports FAILED in any case.
CleanupCatch_AlwaysFailed ==
  at' = "returned" /\ dirty' = TRUE /\ outcome' = "FAILED"

\* The catch of the cleanup block.
CleanupCatch ==
  /\ at' = "returned" /\ dirty' = TRUE
  /\ outcome' = IF outcome = "CANCELLED" THEN "CANCELLED" ELSE "FAILED"

\* Mutant: the snapshot is walked in registration order.
Snapshot_Forward(entries) == entries

\* [...entries].reverse(): later registrations are not seen by the loop.
Snapshot(entries) == Reverse(entries)

\* CLEANUP has been observed: compensations run, unless the run passed.
CleanupObserved(ok) ==
  /\ at = "cleanup"
  /\ Observed(ok)
  /\ \/ /\ ok /\ at' = "compensating"
        /\ todo' = IF outcome = "PASSED" THEN <<>> ELSE Snapshot(comps)
        /\ UNCHANGED <<outcome, dirty>>
     \/ ~ok /\ CleanupCatch /\ UNCHANGED todo
  /\ UNCHANGED <<state, phase, rootSig, nodeVars, recVars, resVars, undone, ran, alive>>

\* One compensation; it may register a cleanup, and it or its timeline may fail.
Compensate(ok, registers) ==
  /\ at = "compensating" /\ todo # <<>>
  /\ registers => Head(todo) \in Registering
  /\ undone' = Append(undone, Head(todo)) /\ todo' = Tail(todo)
  /\ dirty' = (dirty \/ ~ok)
  /\ cleanups' = IF registers
                 THEN Append(cleanups, [node |-> Head(todo), no |-> 0, lease |-> FALSE])
                 ELSE cleanups
  /\ UNCHANGED <<state, at, phase, outcome, rootSig, nodeVars, recVars, running,
                 comps, leases, ran, faults, alive>>

\* The cleanup loop starts on a snapshot of the registered cleanups.
StartCleanups ==
  /\ at = "compensating" /\ todo = <<>>
  /\ at' = "releasing" /\ todo' = Snapshot(cleanups)
  /\ UNCHANGED <<state, phase, outcome, dirty, rootSig, nodeVars, recVars,
                 resVars, undone, ran, faults, alive>>

\* The active leases once that of cleanup entry e has been released.
onResourceReleased(e) == leases \ {e}

\* One cleanup: the callback, then the release of its lease, then the
\* timeline.  Stopping before the release keeps the lease ACTIVE.
RunCleanup(released, ok) ==
  /\ at = "releasing" /\ todo # <<>>
  /\ ok => released
  /\ ran' = Append(ran, Head(todo)) /\ todo' = Tail(todo)
  /\ leases' = IF released THEN onResourceReleased(Head(todo)) ELSE leases
  /\ dirty' = (dirty \/ ~ok)
  /\ UNCHANGED <<state, at, phase, outcome, rootSig, nodeVars, recVars, running,
                 cleanups, comps, undone, faults, alive>>

\* The final transition; cleanup errors fail a run that had passed.
Settle ==
  /\ at = "releasing" /\ todo = <<>>
  /\ outcome' = IF dirty /\ outcome = "PASSED" THEN "FAILED" ELSE outcome
  /\ Transition(outcome', "settling")
  /\ UNCHANGED <<phase, dirty, rootSig, nodeVars, recVars, resVars, walkVars,
                 faults, alive>>

SettleObserved(ok) ==
  /\ at = "settling"
  /\ Observed(ok)
  /\ \/ ok /\ at' = "returned" /\ UNCHANGED <<outcome, dirty>>
     \/ ~ok /\ CleanupCatch
  /\ UNCHANGED <<state, phase, rootSig, nodeVars, recVars, resVars, walkVars, alive>>

-----------------------------------------------------------------------------
(* executeSteps, executeStep and executeStepCore: the compound nodes       *)

Total(n) == Times[n] * Len(Kids[n])
Current(n) == Kids[n][((iter[n] - 1) % Len(Kids[n])) + 1]

\* Mutant: Promise.race in place of Promise.all.
Awaited_First(n) ==
  IF iter[n] = 0 THEN {}
  ELSE IF Kind[n] = "steps" THEN {Current(n)}
  ELSE IF Kind[n] = "choice" THEN {Kids[n][iter[n]]}
  ELSE {Kids[n][1]}

\* The children whose settling n awaits.
Awaited(n) ==
  IF iter[n] = 0 THEN {}
  ELSE IF Kind[n] = "steps" THEN {Current(n)}
  ELSE IF Kind[n] = "choice" THEN {Kids[n][iter[n]]}
  ELSE KidSet(n)

\* A timed node races its own signal: once aborted, nothing else counts.
Raced(n) == n \in Timed /\ sig[n] # "none"

nodeRest == <<mainVars, rootSig, recVars, resVars, walkVars, faults, alive>>

Fail(n, e) ==
  /\ pc' = [pc EXCEPT ![n] = "failed"]
  /\ err' = [err EXCEPT ![n] = e]

\* Start the children S; the node has now started i of them.
BeginKids(n, S, i) == Begin(S, sig[n], [iter EXCEPT ![n] = i])

\* The next step of a list, after throwIfAborted.
NextStep(n) ==
  /\ pc[n] = "open" /\ Kind[n] = "steps" /\ ~Raced(n)
  /\ iter[n] < Total(n)
  /\ \A c \in Awaited(n) : pc[c] = "done"
  /\ \/ /\ sig[n] # "none"
        /\ Fail(n, thrown(sig[n]))
        /\ UNCHANGED <<sig, iter, tries, no>>
     \/ /\ sig[n] = "none"
        /\ BeginKids(n, {Kids[n][(iter[n] % Len(Kids[n])) + 1]}, iter[n] + 1)
  /\ UNCHANGED nodeRest

\* Promise.all starts every child of a parallel step.
StartParallel(n) ==
  /\ pc[n] = "open" /\ Kind[n] = "parallel" /\ iter[n] = 0 /\ ~Raced(n)
  /\ BeginKids(n, KidSet(n), 1)
  /\ UNCHANGED nodeRest

\* conditionMatches selects a branch.
SelectBranch(n) ==
  /\ pc[n] = "open" /\ Kind[n] = "choice" /\ iter[n] = 0 /\ ~Raced(n)
  /\ \E i \in 1..2 : BeginKids(n, {Kids[n][i]}, i)
  /\ UNCHANGED nodeRest

\* Everything the node had to run has resolved.
Complete(n) ==
  /\ pc[n] = "open" /\ ~Raced(n)
  /\ IF Kind[n] = "steps" THEN iter[n] = Total(n) ELSE iter[n] > 0
  /\ \A c \in Awaited(n) : pc[c] = "done"
  /\ pc' = [pc EXCEPT ![n] = "done"]
  /\ UNCHANGED <<sig, err, iter, tries, no>> /\ UNCHANGED nodeRest

\* A child rejected: so does the node, and a parallel node aborts its group.
Unwind(n) ==
  /\ pc[n] = "open" /\ ~Raced(n)
  /\ \E c \in Awaited(n) :
       /\ pc[c] = "failed"
       /\ Fail(n, err[c])
       /\ sig' = IF Kind[n] = "parallel" THEN Abort(Below[n], err[c]) ELSE sig
  /\ UNCHANGED <<iter, tries, no>> /\ UNCHANGED nodeRest

\* raceWithAbort of a timed node rejects with the reason of its signal.
LoseRace(n) ==
  /\ pc[n] = "open" /\ Raced(n)
  /\ Fail(n, sig[n])
  /\ UNCHANGED <<sig, iter, tries, no>> /\ UNCHANGED nodeRest

\* The timer of runWithTimeout around a compound step.
StepTimer(n) ==
  /\ pc[n] = "open" /\ n \in Timed /\ sig[n] = "none"
  /\ sig' = Abort(Below[n] \cup {n}, "timeout")
  /\ UNCHANGED <<pc, err, iter, tries, no>> /\ UNCHANGED nodeRest

-----------------------------------------------------------------------------
(* executeTask, executePoll, executeAttemptedAction: the leaves            *)

leafRest == <<mainVars, rootSig, walkVars, alive>>

Record(n, s) == rec' = [rec EXCEPT ![StepId[n]][no[n]] = s]

\* Record CANCELLED or FAILED next, for an error the catch block has caught.
Caught(n, e) ==
  /\ pc' = [pc EXCEPT ![n] = IF isCancellation(e, sig[n]) THEN "cancelling" ELSE "failing"]
  /\ err' = [err EXCEPT ![n] = e]

\* Mutant: attempts are numbered within one call of executeAttemptedAction.
actualAttempt_PerCall(n) == tries[n] + 1

\* The number of the next attempt: attemptCounters is shared by every leaf
\* with the same step id and survives retries, polls and repeats.
actualAttempt(n) == counter[StepId[n]] + 1

\* throwIfAborted, or a new attempt under the step id's next number.
Try(n) ==
  /\ pc[n] = "trying"
  /\ \/ /\ sig[n] # "none" /\ Fail(n, thrown(sig[n]))
        /\ UNCHANGED <<tries, no, counter>>
     \/ /\ sig[n] = "none" /\ counter[StepId[n]] < MaxAttempt
        /\ pc' = [pc EXCEPT ![n] = "starting"]
        /\ tries' = [tries EXCEPT ![n] = @ + 1]
        /\ counter' = [counter EXCEPT ![StepId[n]] = actualAttempt(n)]
        /\ no' = [no EXCEPT ![n] = actualAttempt(n)]
        /\ UNCHANGED err
  /\ UNCHANGED <<sig, iter, rec, resVars, faults, leafRest>>

\* RUNNING is recorded and the handler invoked, aborted signal or not; in
\* that case raceWithAbort throws before it subscribes to the handler.
StartObserved(n, ok) ==
  /\ pc[n] = "starting"
  /\ Observed(ok)
  /\ \/ /\ ok /\ Record(n, "RUNNING")
        /\ running' = running \cup {[node |-> n, no |-> no[n], stage |-> "work",
                                     watched |-> sig[n] = "none"]}
        /\ \/ sig[n] = "none" /\ pc' = [pc EXCEPT ![n] = "acting"] /\ UNCHANGED err
           \/ sig[n] # "none" /\ Caught(n, thrown(sig[n]))
     \/ ~ok /\ Fail(n, "fail") /\ UNCHANGED <<rec, running>>
  /\ UNCHANGED <<sig, iter, tries, no, counter, cleanups, comps, leases, leafRest>>

\* The race is lost to the abort of the signal, or to a task's own timer.
Interrupt(n) ==
  /\ pc[n] = "acting"
  /\ \/ sig[n] # "none" /\ Caught(n, sig[n])
     \/ sig[n] = "none" /\ n \in Timed /\ Caught(n, "timeout")
  /\ UNCHANGED <<sig, iter, tries, no, recVars, resVars, faults, leafRest>>

\* PASSED is recorded.  A task is done and owes its compensation; a poll is
\* done if its condition matches.  A failing observer fails the attempt.
PassObserved(n, ok) ==
  /\ pc[n] = "passing"
  /\ Observed(ok)
  /\ \/ /\ ok /\ Record(n, "PASSED")
        /\ \/ pc' = [pc EXCEPT ![n] = "done"]
           \/ Kind[n] = "poll" /\ pc' = [pc EXCEPT ![n] = "polling"]
        /\ comps' = IF n \in Compensated THEN Append(comps, n) ELSE comps
        /\ UNCHANGED err
     \/ ~ok /\ Caught(n, "fail") /\ UNCHANGED <<rec, comps>>
  /\ UNCHANGED <<sig, iter, tries, no, counter, running, cleanups, leases, leafRest>>

\* FAILED or CANCELLED is recorded; then rethrow or wait for the next attempt.
FailObserved(n, ok) ==
  /\ pc[n] \in {"failing", "cancelling"}
  /\ Observed(ok)
  /\ \/ /\ ok /\ Record(n, IF pc[n] = "failing" THEN "FAILED" ELSE "CANCELLED")
        /\ \/ /\ pc[n] = "cancelling" \/ tries[n] >= Attempts[n]
              /\ pc' = [pc EXCEPT ![n] = "failed"]
           \/ /\ pc[n] = "failing" /\ tries[n] < Attempts[n]
              /\ pc' = [pc EXCEPT ![n] = "waiting"]
        /\ UNCHANGED err
     \/ ~ok /\ Fail(n, "fail") /\ UNCHANGED rec
  /\ UNCHANGED <<sig, iter, tries, no, counter, resVars, leafRest>>

\* abortableDelay, before the next attempt or the next poll.
Delay(n) ==
  /\ pc[n] \in {"waiting", "polling"}
  /\ \/ /\ sig[n] # "none"
        /\ \E e \in {sig[n], thrown(sig[n])} : Fail(n, e)
        /\ UNCHANGED tries
     \/ /\ sig[n] = "none" /\ counter[StepId[n]] < MaxAttempt
        /\ pc' = [pc EXCEPT ![n] = "trying"]
        /\ tries' = [tries EXCEPT ![n] = IF pc[n] = "polling" THEN 0 ELSE @]
        /\ UNCHANGED err
  /\ UNCHANGED <<sig, iter, no, recVars, resVars, faults, leafRest>>

\* The deadline of a poll has passed when its loop condition is evaluated.
PollExpire(n) ==
  /\ pc[n] = "polling" /\ sig[n] = "none"
  /\ Fail(n, "timeout")
  /\ UNCHANGED <<sig, iter, tries, no, recVars, resVars, faults, leafRest>>

-----------------------------------------------------------------------------
(* Action handlers and the context they are given                          *)

SetStage(h, s) == running' = (running \ {h}) \cup {[h EXCEPT !.stage = s]}

\* registerCleanup, synchronous.
RegisterCleanup(h) ==
  /\ h.stage = "work" /\ h.node \in Registering
  /\ SetStage(h, "held")
  /\ cleanups' = Append(cleanups, [node |-> h.node, no |-> h.no, lease |-> FALSE])
  /\ UNCHANGED <<nodeVars, recVars, comps, leases, faults, leafRest>>

\* registerResourceLease: the lease is stored, then its cleanup registered.
RegisterResourceLease(h, ok) ==
  /\ h.stage = "work" /\ h.node \in Leasing
  /\ Observed(ok)
  /\ SetStage(h, IF ok THEN "held" ELSE "denied")
  /\ LET e == [node |-> h.node, no |-> h.no, lease |-> TRUE]
     IN /\ cleanups' = IF ok THEN Append(cleanups, e) ELSE cleanups
        /\ leases' = IF ok THEN leases \cup {e} ELSE leases
  /\ UNCHANGED <<nodeVars, recVars, comps, leafRest>>

\* The handler settles.  Its leaf hears of it only while the race is open; a
\* rejection nobody has subscribed to ends the process.
HandlerSettles(h, ok) ==
  /\ running' = running \ {h}
  /\ \/ /\ pc[h.node] = "acting" /\ no[h.node] = h.no /\ sig[h.node] = "none"
        /\ \/ ok /\ pc' = [pc EXCEPT ![h.node] = "passing"] /\ UNCHANGED err
           \/ ~ok /\ Caught(h.node, "fail")
        /\ UNCHANGED alive
     \/ /\ ~(pc[h.node] = "acting" /\ no[h.node] = h.no /\ sig[h.node] = "none")
        /\ alive' = (ok \/ h.watched)
        /\ UNCHANGED <<pc, err>>
  /\ UNCHANGED <<sig, iter, tries, no, recVars, cleanups, comps, leases, faults,
                 mainVars, rootSig, walkVars>>

-----------------------------------------------------------------------------
(* The scenario's controller: cancellation by the caller and the timer     *)

\* Mutant: the timer is cleared and the parent detached once steps run.
Attached_UntilSteps == at \in {"created", "entering", "head", "cancelling", "deciding"}

\* Both are attached until the finally block.
Attached == at \in {"created", "entering", "head", "steps", "cancelling", "deciding"}

AbortScenario(r) ==
  /\ Attached /\ rootSig = "none"
  /\ rootSig' = r
  /\ sig' = Abort(Node, r)
  /\ UNCHANGED <<mainVars, pc, err, iter, tries, no, recVars, resVars, walkVars,
                 faults, alive>>

Cancel == AbortScenario("fail")
ScenarioTimeout == AbortScenario("timeout")

Over == at \in {"returned", "threw"}

\* The caller has its answer, or the process is gone.
Terminated == (Over \/ ~alive) /\ UNCHANGED vars

-----------------------------------------------------------------------------
Main ==
  \/ Start \/ PhaseHead \/ PhaseEnd \/ StartCleanups \/ Settle
  \/ \E ok \in BOOLEAN :
       \/ Entered(ok) \/ CancellingObserved(ok) \/ DecisionObserved(ok)
       \/ CleanupObserved(ok) \/ SettleObserved(ok)
       \/ \E b \in BOOLEAN : Compensate(ok, b) \/ RunCleanup(b, ok)

Compound(n) ==
  NextStep(n) \/ StartParallel(n) \/ SelectBranch(n) \/ Complete(n) \/ Unwind(n)
    \/ LoseRace(n)

LeafStep(n) ==
  \/ Try(n) \/ Delay(n)
  \/ \E ok \in BOOLEAN :
       StartObserved(n, ok) \/ PassObserved(n, ok) \/ FailObserved(n, ok)

Handler(h) ==
  \/ RegisterCleanup(h)
  \/ \E ok \in BOOLEAN : RegisterResourceLease(h, ok) \/ HandlerSettles(h, ok)

Next ==
  \/ alive /\ Main
  \/ alive /\ \E n \in Node : Compound(n) \/ LeafStep(n)
  \/ alive /\ \E n \in Node : StepTimer(n) \/ Interrupt(n) \/ PollExpire(n)
  \/ alive /\ \E h \in running : Handler(h)
  \/ alive /\ (Cancel \/ ScenarioTimeout)
  \/ Terminated

Spec == Init /\ [][Next]_vars

\* What the event loop and the timers guarantee: the engine's continuations
\* run, observers and cleanup callbacks settle, timers fire.  Nothing is
\* assumed of the action handlers.
Fairness ==
  /\ WF_vars(alive /\ Main)
  /\ WF_vars(alive /\ ScenarioTimeout)
  /\ \A n \in Node : WF_vars(alive /\ (Compound(n) \/ LeafStep(n) \/ Interrupt(n)))

FairSpec == Spec /\ Fairness

-----------------------------------------------------------------------------
(* Properties                                                              *)

LeafPc == {"trying", "starting", "acting", "passing", "failing", "cancelling",
           "waiting", "polling"}
Settled == {"idle", "done"}
HandlerType == [node : Leaf, no : Attempt, watched : BOOLEAN,
                stage : {"work", "held", "denied"}]
Entry == [node : Node, no : Attempt, lease : BOOLEAN]

MainTypes ==
  /\ state \in RunStatus /\ phase \in 0..PhaseCount
  /\ at \in {"created", "entering", "head", "steps", "cancelling", "deciding",
             "cleanup", "compensating", "releasing", "settling", "returned", "threw"}
  /\ outcome \in Outcome /\ dirty \in BOOLEAN
  /\ rootSig \in {"none", "fail", "timeout"}
  /\ faults \in 0..MaxFaults /\ alive \in BOOLEAN

NodeTypes ==
  /\ pc \in [Node -> Settled \cup {"open", "failed"} \cup LeafPc]
  /\ sig \in [Node -> Error \cup {"none"}] /\ err \in [Node -> Error]
  /\ iter \in [Node -> Nat] /\ tries \in [Node -> Nat] /\ no \in [Node -> Attempt]

RecTypes ==
  /\ counter \in [Id -> Attempt]
  /\ rec \in [Id -> [Attempt -> {"none", "RUNNING", "PASSED", "FAILED", "CANCELLED"}]]

ResTypes ==
  /\ running \subseteq HandlerType
  /\ cleanups \in Seq(Entry) /\ comps \in Seq(Node) /\ leases \subseteq Entry

WalkTypes ==
  /\ ran \in Seq(Entry) /\ undone \in Seq(Node)
  /\ at = "compensating" => todo \in Seq(Node)
  /\ at = "releasing" => todo \in Seq(Entry)

\* Types of the engine's state.
TypeOK == MainTypes /\ NodeTypes /\ RecTypes /\ ResTypes /\ WalkTypes

\* When a run is declared PASSED, no step of any phase is still executing:
\* every branch of every parallel, repeat and condition step has resolved.
PassedIsQuiet == state = "PASSED" => \A n \in Node : pc[n] \in Settled

\* After the scenario's controller aborts (cancellation or timeout) the run
\* stops making progress: no leaf of any phase, however deep in groups and
\* retries, begins another attempt, and no further phase is entered, even if
\* the phases left are empty.
AbortStopsProgress ==
  [][rootSig # "none" => no' = no /\ (state' = state \/ state' \notin PhaseStatuses)]_vars

\* A run is CANCELLED only because its caller aborted it: the cancellation
\* errors that a failing parallel group spreads among its own branches, and
\* the timeouts, never surface as a cancelled run.
CancelledOnlyOnRequest == outcome = "CANCELLED" => rootSig = "fail"

\* A step record that has reached PASSED, FAILED or CANCELLED is not written
\* again: attempt numbers never collide, across retries, polls, repeats and
\* equal step ids in different branches.
RecordsFinal ==
  [][\A i \in Id, k \in Attempt :
       rec[i][k] \in {"PASSED", "FAILED", "CANCELLED"} => rec'[i][k] = rec[i][k]]_vars

\* Compensations and cleanups are each walked in reverse order of
\* registration, without skipping or repeating an entry, while handlers that
\* outlived their step may still be registering more.
ReverseOrder ==
  /\ at = "compensating" /\ outcome # "PASSED" =>
       undone \o todo = Reverse(SubSeq(comps, 1, Len(undone \o todo)))
  /\ at = "releasing" =>
       ran \o todo = Reverse(SubSeq(cleanups, 1, Len(ran \o todo)))

\* A run whose cleanup reported no error and saw every registration leaves no
\* stored lease ACTIVE.
CleanRunHoldsNoLease ==
  at = "returned" /\ ~dirty /\ Len(ran) = Len(cleanups) => leases = {}

\* The end a run reports is earned: CANCELLED by its caller's abort and by
\* nothing that happened inside, and a clean end by releasing every lease.
EndIsEarned == CancelledOnlyOnRequest /\ CleanRunHoldsNoLease

\* The caller gets an answer even if every action handler hangs.
RunSettles == <>(Over \/ ~alive)

\* "Failure and cancellation also pass through `CLEANUP`": the process is
\* not lost to an unhandled rejection before the run has been cleaned up.
CancellationReachesCleanup == ~alive => at \in {"settling", "returned", "threw"}

\* The executor implements its contract.
stage == IF at \in {"created", "entering", "head", "steps"} THEN "executing"
         ELSE IF at \in {"cancelling", "deciding"} THEN "decided"
         ELSE IF at \in {"cleanup", "compensating", "releasing"} THEN "cleaning"
         ELSE IF at = "settling" THEN "settled"
         ELSE at
verdict == IF stage = "executing" THEN "none" ELSE outcome
Contract == INSTANCE RunLifecycle
              WITH run <- [status |-> state, stage |-> stage, verdict |-> verdict,
                           signal |-> rootSig]
ImplementsContract == Contract!Spec
=============================================================================
