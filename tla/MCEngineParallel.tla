-------------------------- MODULE MCEngineParallel --------------------------
(* A scenario whose run phase is one parallel step: a compensated task     *)
(* that registers a cleanup, beside a task with a timeout and a retry that *)
(* takes a lease.  Both have the same step id.                             *)
EXTENDS ScenarioEngine

MCNode == {"r1", "r2", "r3", "r4", "r5", "r6", "par", "a", "b"}
MCKind == [n \in MCNode |-> CASE n = "par" -> "parallel"
                              [] n \in {"a", "b"} -> "task"
                              [] OTHER -> "steps"]
MCKids == [n \in MCNode |-> CASE n = "r4" -> <<"par">>
                              [] n = "par" -> <<"a", "b">>
                              [] OTHER -> <<>>]
MCBelow == [n \in MCNode |-> CASE n = "r4" -> {"par", "a", "b"}
                               [] n = "par" -> {"a", "b"}
                               [] OTHER -> {}]
MCPhaseRoot == <<"r1", "r2", "r3", "r4", "r5", "r6">>
MCTimes == [n \in MCNode |-> 1]
MCAttempts == [n \in MCNode |-> IF n = "b" THEN 2 ELSE 1]
MCStepId == [n \in MCNode |-> "s"]
=============================================================================
