----------------------------- MODULE RunContract -----------------------------
(***************************************************************************)
(* What one execution of executeScenario does as its caller sees it: the   *)
(* statuses it announces, when it decides the outcome, and how the outcome *)
(* it reports relates to the one it decided.                               *)
(*                                                                         *)
(* An execution is a record: the status last announced, the stage          *)
(* ("executing", "decided", "cleaning", "settled", "returned", "threw"),   *)
(* the verdict ("none" until the outcome is decided) and the reason its    *)
(* signal was aborted with ("fail" for a caller's cancellation, "timeout"  *)
(* for the scenario's own timer), or "none".                               *)
(***************************************************************************)
EXTENDS RunStateMachine

Verdict == Outcome \cup {"none"}
Stage == {"executing", "decided", "cleaning", "settled", "returned", "threw"}
Execution == [status : RunStatus, stage : Stage, verdict : Verdict,
              signal : {"none", "fail", "timeout"}]

NewExecution ==
  [status |-> "CREATED", stage |-> "executing", verdict |-> "none", signal |-> "none"]

\* Cleanup trouble turns a pass into a failure and leaves the rest alone.
downgrade(v) == IF v = "PASSED" THEN "FAILED" ELSE v

\* The status that announces a verdict.
announcement(v) == IF v = "CANCELLED" THEN "CANCELLING" ELSE v

\* The verdict on an execution that has been interrupted by an error.
defeat(x) == IF x.signal = "fail" THEN "CANCELLED" ELSE "FAILED"

Announce(x, s, stage, v) ==
  IF canTransition(x.status, s)
  THEN {[x EXCEPT !.status = s, !.stage = stage, !.verdict = v]}
  ELSE {}

\* The executor goes on, its last announcement having reached the observer.
\* An aborted execution enters no further phase, but one whose last phase is
\* over still passes.
Moves(x) ==
  IF x.stage = "executing"
  THEN (UNION {Announce(x, s, "executing", "none") :
                 s \in IF x.signal = "none" THEN {"VALIDATING"} \cup PhaseStatuses
                                            ELSE {"VALIDATING"}})
         \cup (UNION {Announce(x, announcement(v), "decided", v) :
                         v \in IF x.status = "CREATED" THEN {} ELSE {"PASSED", defeat(x)}})
  ELSE IF x.stage = "decided"
  THEN Announce(x, "CANCELLED", "decided", x.verdict)
         \cup Announce(x, "CLEANUP", "cleaning", x.verdict)
  ELSE IF x.stage = "cleaning"
  THEN UNION {Announce(x, v, "settled", v) : v \in {x.verdict, downgrade(x.verdict)}}
  ELSE IF x.stage = "settled" THEN {[x EXCEPT !.stage = "returned"]}
  ELSE {}

\* The observer has rejected the last announcement.
FaultMoves(x) ==
  IF x.stage = "executing" THEN Announce(x, announcement(defeat(x)), "decided", defeat(x))
  ELSE IF x.stage = "decided"
  THEN {[x EXCEPT !.stage = "threw", !.verdict = v] : v \in {x.verdict, defeat(x)}}
  ELSE IF x.stage \in {"cleaning", "settled"}
  THEN {[x EXCEPT !.stage = "returned", !.verdict = downgrade(@)]}
  ELSE {}

\* The signal is aborted; the executor listens until the verdict is announced.
Abortable(x) == x.signal = "none" /\ x.stage \in {"executing", "decided"}
Aborted(x, r) == IF Abortable(x) THEN [x EXCEPT !.signal = r] ELSE x
=============================================================================
