-------------------------- MODULE RunStateMachine --------------------------
(***************************************************************************)
(* The run status automaton of packages/scenario-engine: the table of      *)
(* permitted transitions, the order of the executable phases and the       *)
(* predicates the repositories use to classify a stored status.            *)
(***************************************************************************)
EXTENDS Integers, Sequences

\* The status a run may have, in memory and in the test_runs table.
RunStatus == {"CREATED", "VALIDATING", "ALLOCATING", "COMPILING",
              "CONFIGURING", "RUNNING", "OBSERVING", "ASSERTING",
              "PASSED", "FAILED", "CANCELLING", "CANCELLED", "CLEANUP"}

\* The statuses a run can be reported with.
Outcome == {"PASSED", "FAILED", "CANCELLED"}

\* The status of each executable phase, in execution order.
PhaseStatus == <<"ALLOCATING", "COMPILING", "CONFIGURING",
                 "RUNNING", "OBSERVING", "ASSERTING">>

PhaseCount == 6

PhaseStatuses == {PhaseStatus[q] : q \in 1..PhaseCount}

\* Successors of a status.
transitions ==
  [CREATED     |-> {"VALIDATING", "CANCELLING"},
   VALIDATING  |-> {"ALLOCATING", "FAILED", "CANCELLING"},
   ALLOCATING  |-> {"COMPILING", "FAILED", "CANCELLING"},
   COMPILING   |-> {"CONFIGURING", "FAILED", "CANCELLING"},
   CONFIGURING |-> {"RUNNING", "FAILED", "CANCELLING"},
   RUNNING     |-> {"OBSERVING", "FAILED", "CANCELLING"},
   OBSERVING   |-> {"ASSERTING", "FAILED", "CANCELLING"},
   ASSERTING   |-> {"PASSED", "FAILED", "CANCELLING"},
   PASSED      |-> {"CLEANUP"},
   FAILED      |-> {"CLEANUP"},
   CANCELLING  |-> {"CANCELLED"},
   CANCELLED   |-> {"CLEANUP"},
   CLEANUP     |-> {"PASSED", "FAILED", "CANCELLED"}]

canTransition(from, to) == to \in transitions[from]

\* What the repositories treat as finished when they list active runs.
isTerminal(s) == s \in Outcome

\* requestCancellation refuses finished runs and runs in cleanup.
cancellable(s) == ~isTerminal(s) /\ s # "CLEANUP"
=============================================================================
