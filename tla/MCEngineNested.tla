--------------------------- MODULE MCEngineNested ---------------------------
(* A poll with a timeout in the configure phase, then, in the run phase, a *)
(* condition whose then-branch repeats a compensated task that registers a *)
(* cleanup on every pass, under a timeout of its own.                      *)
EXTENDS ScenarioEngine

MCNode == {"r1", "r2", "r3", "r4", "r5", "r6", "wrap", "poll",
           "cond", "then", "else", "rep", "t"}
MCKind == [n \in MCNode |-> CASE n = "cond" -> "choice"
                              [] n = "t" -> "task"
                              [] n = "poll" -> "poll"
                              [] OTHER -> "steps"]
MCKids == [n \in MCNode |-> CASE n = "r3" -> <<"wrap">>
                              [] n = "wrap" -> <<"poll">>
                              [] n = "r4" -> <<"cond">>
                              [] n = "cond" -> <<"then", "else">>
                              [] n = "then" -> <<"rep">>
                              [] n = "rep" -> <<"t">>
                              [] OTHER -> <<>>]
MCBelow == [n \in MCNode |-> CASE n = "r3" -> {"wrap", "poll"}
                               [] n = "wrap" -> {"poll"}
                               [] n = "r4" -> {"cond", "then", "else", "rep", "t"}
                               [] n = "cond" -> {"then", "else", "rep", "t"}
                               [] n = "then" -> {"rep", "t"}
                               [] n = "rep" -> {"t"}
                               [] OTHER -> {}]
MCPhaseRoot == <<"r1", "r2", "r3", "r4", "r5", "r6">>
MCTimes == [n \in MCNode |-> IF n = "rep" THEN 2 ELSE 1]
MCAttempts == [n \in MCNode |-> 1]
MCStepId == [n \in MCNode |-> n]
=============================================================================
