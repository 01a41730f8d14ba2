---------------------------- MODULE RunLifecycle ----------------------------
(***************************************************************************)
(* The contract of executeScenario as a specification: ScenarioEngine      *)
(* implements it, and RunService uses its steps in place of the executor.  *)
(***************************************************************************)
EXTENDS RunContract

VARIABLE run

Init == run = NewExecution
Next == \/ run' \in Moves(run) \cup FaultMoves(run)
        \/ \E r \in {"fail", "timeout"} : Abortable(run) /\ run' = Aborted(run, r)
Spec == Init /\ [][Next]_run
=============================================================================
