----------------------------- MODULE RunService -----------------------------
(***************************************************************************)
(* ScenarioRunService of apps/control-plane over its PostgreSQL tables:    *)
(* create, cancel, shutdown and the recovery at startup, as one Control    *)
(* Plane process is started, crashes and is started again.                 *)
(*                                                                         *)
(* Each action is the code between two awaits.  A database call is issued  *)
(* by one action and answered by the next; a call that fails may have been *)
(* carried out all the same, its answer lost with the connection.  The     *)
(* executor is RunContract, which ScenarioEngine implements.               *)
(***************************************************************************)
EXTENDS RunContract

CONSTANTS
  RunId,         \* runs that may be created
  Caller,        \* concurrent requests to cancel
  MaxFaults,     \* bound: database calls that fail
  MaxCrashes     \* bound: crashes of the process

ASSUME BoundAssumption == MaxFaults \in Nat /\ MaxCrashes \in Nat

VARIABLES
  db,            \* test_runs: db[r] is the row of run r
  lease,         \* resource_leases: the status of the lease of run r
  proc,          \* the process: "down", "recovering", "up" or "stopping"
  job,           \* job[r]: what create, start and execute await for run r
  exec,          \* exec[r]: the execution of run r
  call,          \* call[r]: the executor awaits the write of a status
  request,       \* request[c]: a cancel request and what it awaits
  queue,         \* runs recovery has listed and not finished
  recovery,      \* what recoverInterruptedRuns awaits, and for which run
  awaited,       \* executions shutdown awaits
  stopped,       \* history: runs aborted by a shutdown
  faults, crashes

tables == <<db, lease>>
jobs == <<job, exec, call>>
vars == <<tables, proc, jobs, request, queue, recovery, awaited, stopped, faults, crashes>>

-----------------------------------------------------------------------------
(* The tables                                                              *)

NoRow == [status |-> "ABSENT", outcome |-> "none", cancel |-> FALSE, finished |-> FALSE,
          recovered |-> FALSE, errors |-> FALSE]

createRun(r) == [db EXCEPT ![r].status = "CREATED"]

\* updateRunStatus: outcome and finished_at keep their value unless given;
\* finishRun is the call that gives both.
updateRunStatus(r, s, v) ==
  [db EXCEPT ![r].status = s, ![r].outcome = IF v = "none" THEN @ ELSE v]

finishRun(r, v) == [updateRunStatus(r, v, v) EXCEPT ![r].finished = TRUE]

\* Mutant: a run in any status can be cancelled.
requestCancellation_AnyStatus(r) == TRUE

requestCancellation(r) == cancellable(db[r].status)

\* Mutant: runs in cleanup are left out.
listActiveRuns_NoCleanup == {r \in RunId : cancellable(db[r].status) /\ db[r].status # "ABSENT"}

\* Mutant: recovery looks only at runs that have started.
listActiveRuns_Started == {r \in RunId : /\ ~isTerminal(db[r].status)
                                         /\ db[r].status \notin {"ABSENT", "CREATED"}}

listActiveRuns == {r \in RunId : ~isTerminal(db[r].status) /\ db[r].status # "ABSENT"}

released(r) == IF lease[r] = "ACTIVE" THEN [lease EXCEPT ![r] = "RELEASED"] ELSE lease

\* What cleaning and releasing the lease of r may leave; an error is caught,
\* and the row may be released all the same.
cleanupPersistedLeases(r, cleaned) == {released(r)} \cup (IF cleaned THEN {} ELSE {lease})

\* A call succeeds, or fails with its effect lost or its answer lost.
Call(ok, written) ==
  \/ ok /\ db' = written /\ UNCHANGED faults
  \/ ~ok /\ faults < MaxFaults /\ faults' = faults + 1 /\ db' \in {db, written}

\* The same for a call that writes nothing modelled here: a read, the timeline.
Log(ok) == \/ ok /\ UNCHANGED faults
           \/ ~ok /\ faults < MaxFaults /\ faults' = faults + 1

-----------------------------------------------------------------------------
(* The process                                                             *)

Serving == proc \in {"up", "stopping"}
NoRequest == [run |-> "none", at |-> "idle", errors |-> FALSE]
NoRecovery == [run |-> "none", at |-> "idle", errors |-> FALSE, outcome |-> "none"]

Init ==
  /\ db = [r \in RunId |-> NoRow] /\ lease = [r \in RunId |-> "none"]
  /\ proc = "down"
  /\ job = [r \in RunId |-> "none"]
  /\ exec = [r \in RunId |-> NewExecution] /\ call = [r \in RunId |-> FALSE]
  /\ request = [c \in Caller |-> NoRequest]
  /\ queue = {} /\ recovery = NoRecovery /\ awaited = {} /\ stopped = {}
  /\ faults = 0 /\ crashes = 0

\* create has answered with the id of run r, so that it can be cancelled.
Named(r) == job[r] \notin {"none", "inserting", "logging", "refused"}

\* The process ends, and what it held in memory with it.
Die ==
  /\ proc' = "down"
  /\ job' = [r \in RunId |-> IF job[r] = "none" THEN "none"
                             ELSE IF Named(r) THEN "gone" ELSE "refused"]
  /\ exec' = [r \in RunId |-> NewExecution] /\ call' = [r \in RunId |-> FALSE]
  /\ request' = [c \in Caller |-> NoRequest]
  /\ queue' = {} /\ recovery' = NoRecovery /\ awaited' = {}
  /\ UNCHANGED stopped

Crash ==
  /\ proc # "down" /\ crashes < MaxCrashes
  /\ crashes' = crashes + 1
  /\ Die /\ UNCHANGED <<tables, faults>>

\* The process is started; nothing is served before recovery is over.
Boot ==
  /\ proc = "down"
  /\ proc' = "recovering" /\ recovery' = [NoRecovery EXCEPT !.at = "list"]
  /\ UNCHANGED <<tables, jobs, request, queue, awaited, stopped, faults, crashes>>

-----------------------------------------------------------------------------
(* recoverInterruptedRuns: any failure ends the process                    *)

RecoverList(ok) ==
  /\ recovery.at = "list"
  /\ Log(ok)
  /\ \/ /\ ok /\ queue' = listActiveRuns /\ recovery' = NoRecovery
        /\ UNCHANGED <<proc, jobs, request, awaited, stopped>>
     \/ ~ok /\ Die
  /\ UNCHANGED <<tables, crashes>>

\* Mutant: an interrupted run has failed.
interruptedOutcome_Failed(r) == "FAILED"

\* Cancelled if a cancellation had been stored, else failed.
interruptedOutcome(r) == IF db[r].cancel THEN "CANCELLED" ELSE "FAILED"

\* The next run of the list: its leases are listed and cleaned, the errors
\* of cleaning only counted.
RecoverLeases(r, ok, cleaned) ==
  /\ proc = "recovering" /\ recovery.at = "idle" /\ r \in queue
  /\ Log(ok)
  /\ \/ /\ ok /\ lease' \in cleanupPersistedLeases(r, cleaned)
        /\ recovery' = [run |-> r, at |-> "cleanup", outcome |-> interruptedOutcome(r),
                        errors |-> lease[r] = "ACTIVE" /\ ~cleaned]
        /\ UNCHANGED <<proc, jobs, request, queue, awaited, stopped>>
     \/ ~ok /\ Die /\ UNCHANGED lease
  /\ UNCHANGED <<db, crashes>>

RecoverCleanup(ok) ==
  LET r == recovery.run
  IN /\ recovery.at = "cleanup"
     /\ Call(ok, [updateRunStatus(r, "CLEANUP", recovery.outcome) EXCEPT
                    ![r].recovered = TRUE, ![r].errors = recovery.errors])
     /\ \/ /\ ok /\ recovery' = [recovery EXCEPT !.at = "log"]
           /\ UNCHANGED <<proc, jobs, request, queue, awaited, stopped>>
        \/ ~ok /\ Die
     /\ UNCHANGED <<lease, crashes>>

RecoverLog(ok) ==
  /\ recovery.at = "log"
  /\ Log(ok)
  /\ \/ /\ ok /\ recovery' = [recovery EXCEPT !.at = "settle"]
        /\ UNCHANGED <<proc, jobs, request, queue, awaited, stopped>>
     \/ ~ok /\ Die
  /\ UNCHANGED <<tables, crashes>>

RecoverSettle(ok) ==
  LET r == recovery.run
  IN /\ recovery.at = "settle"
     /\ Call(ok, finishRun(r, recovery.outcome))
     /\ \/ /\ ok /\ recovery' = NoRecovery /\ queue' = queue \ {r}
           /\ UNCHANGED <<proc, jobs, request, awaited, stopped>>
        \/ ~ok /\ Die
     /\ UNCHANGED <<lease, crashes>>

\* The server listens.
Listen ==
  /\ proc = "recovering" /\ recovery.at = "idle" /\ queue = {}
  /\ proc' = "up"
  /\ UNCHANGED <<tables, jobs, request, queue, recovery, awaited, stopped, faults, crashes>>

-----------------------------------------------------------------------------
(* create, start and execute                                               *)

\* The runs with an entry in controllers and executions.
controllers == {r \in RunId : job[r] \in {"running", "finishing", "catching", "finally"}}

SetJob(r, j) == job' = [job EXCEPT ![r] = j]

Create(r) ==
  /\ proc = "up" /\ job[r] = "none"
  /\ SetJob(r, "inserting")
  /\ UNCHANGED <<tables, proc, exec, call, request, queue, recovery, awaited, stopped,
                 faults, crashes>>

createRest == <<lease, proc, call, request, queue, recovery, awaited, stopped, crashes>>

Inserted(r, ok) ==
  /\ job[r] = "inserting"
  /\ Call(ok, createRun(r))
  /\ SetJob(r, IF ok THEN "logging" ELSE "refused")
  /\ UNCHANGED exec /\ UNCHANGED createRest

\* run-created is in the timeline: the run is started.  If that failed the
\* run stays CREATED and nothing will execute it.
Start(r, ok) ==
  /\ job[r] = "logging"
  /\ Log(ok)
  /\ SetJob(r, IF ok THEN "running" ELSE "refused")
  /\ exec' = IF ok THEN [exec EXCEPT ![r] = NewExecution] ELSE exec
  /\ UNCHANGED db /\ UNCHANGED createRest

\* The executor takes a step to x, then awaits onStatus, returns or throws.
Continue(r, x) ==
  /\ exec' = [exec EXCEPT ![r] = x]
  /\ call' = [call EXCEPT ![r] = x.stage \notin {"returned", "threw"}]
  /\ SetJob(r, IF x.stage = "returned" THEN "finishing"
               ELSE IF x.stage = "threw" THEN "catching" ELSE "running")

execRest == <<lease, proc, request, queue, recovery, awaited, stopped, crashes>>

Execute(r) ==
  /\ job[r] = "running" /\ ~call[r]
  /\ \E x \in Moves(exec[r]) : Continue(r, x)
  /\ UNCHANGED <<db, faults>> /\ UNCHANGED execRest

\* onStatus: the outcome is stored with the announcement of a verdict.
OnStatus(r, ok) ==
  LET s == exec[r].status
  IN /\ job[r] = "running" /\ call[r]
     /\ Call(ok, updateRunStatus(r, s, IF s \in Outcome THEN s ELSE "none"))
     /\ \/ ok /\ call' = [call EXCEPT ![r] = FALSE] /\ UNCHANGED <<job, exec>>
        \/ ~ok /\ \E x \in FaultMoves(exec[r]) : Continue(r, x)
     /\ UNCHANGED execRest

\* The scenario's own timer.
TimeOut(r) ==
  /\ job[r] = "running" /\ Abortable(exec[r])
  /\ exec' = [exec EXCEPT ![r] = Aborted(@, "timeout")]
  /\ UNCHANGED <<db, job, call, faults>> /\ UNCHANGED execRest

\* listAssertionResults and the write of the report.
Finish(r, ok) ==
  /\ job[r] = "finishing"
  /\ Call(ok, finishRun(r, exec[r].verdict))
  /\ SetJob(r, IF ok THEN "finally" ELSE "catching")
  /\ UNCHANGED <<exec, call>> /\ UNCHANGED execRest

\* The catch in start; a failure in it is an unhandled rejection.
CatchError(r, ok) ==
  /\ job[r] = "catching"
  /\ Call(ok, finishRun(r, "FAILED"))
  /\ \/ ok /\ SetJob(r, "finally")
           /\ UNCHANGED <<proc, exec, call, request, queue, recovery, awaited, stopped>>
     \/ ~ok /\ Die
  /\ UNCHANGED <<lease, crashes>>

Finally(r) ==
  /\ job[r] = "finally"
  /\ SetJob(r, "done")
  /\ UNCHANGED <<db, exec, call, faults>> /\ UNCHANGED execRest

\* An action handler takes its lease; it may have outlived the execution.
onResourceLease(r) ==
  /\ job[r] \in {"running", "finishing", "catching", "finally", "done"}
  /\ lease[r] = "none" /\ lease' = [lease EXCEPT ![r] = "ACTIVE"]
  /\ UNCHANGED <<db, proc, jobs, request, queue, recovery, awaited, stopped, faults, crashes>>

\* The executor's cleanup releases it.
onResourceReleased(r) ==
  /\ job[r] = "running" /\ exec[r].stage = "cleaning" /\ ~call[r]
  /\ lease[r] = "ACTIVE" /\ lease' = [lease EXCEPT ![r] = "RELEASED"]
  /\ UNCHANGED <<db, proc, jobs, request, queue, recovery, awaited, stopped, faults, crashes>>

-----------------------------------------------------------------------------
(* cancel                                                                  *)

SetRequest(c, q) == request' = [request EXCEPT ![c] = q]
cancelRest == <<proc, job, call, queue, recovery, awaited, stopped, crashes>>

Cancel(c, r) ==
  /\ proc = "up" /\ request[c] = NoRequest /\ Named(r)
  /\ SetRequest(c, [NoRequest EXCEPT !.run = r, !.at = "request"])
  /\ UNCHANGED <<tables, exec, faults>> /\ UNCHANGED cancelRest

CancelRequested(c, ok) ==
  LET r == request[c].run
      accepted == requestCancellation(r)
  IN /\ request[c].at = "request"
     /\ Call(ok, IF accepted THEN [db EXCEPT ![r].cancel = TRUE] ELSE db)
     /\ SetRequest(c, IF ok /\ accepted THEN [request[c] EXCEPT !.at = "log"] ELSE NoRequest)
     /\ UNCHANGED <<lease, exec>> /\ UNCHANGED cancelRest

\* The timeline is written; the run is aborted if it is executing here, and
\* finalized as an interrupted one if it is not.
CancelLogged(c, ok) ==
  LET r == request[c].run
  IN /\ request[c].at = "log"
     /\ Log(ok)
     /\ exec' = IF ok /\ r \in controllers THEN [exec EXCEPT ![r] = Aborted(@, "fail")]
                                           ELSE exec
     /\ SetRequest(c, IF ok /\ r \notin controllers
                      THEN [request[c] EXCEPT !.at = "leases"] ELSE NoRequest)
     /\ UNCHANGED tables /\ UNCHANGED cancelRest

\* finalizeInterruptedCancellation: leases first, then four writes.
FinalizeLeases(c, ok, cleaned) ==
  LET r == request[c].run
  IN /\ request[c].at = "leases"
     /\ Log(ok)
     /\ \/ /\ ok /\ lease' \in cleanupPersistedLeases(r, cleaned)
           /\ SetRequest(c, [request[c] EXCEPT !.at = "CANCELLING",
                                               !.errors = lease[r] = "ACTIVE" /\ ~cleaned])
        \/ ~ok /\ SetRequest(c, NoRequest) /\ UNCHANGED lease
     /\ UNCHANGED <<db, exec>> /\ UNCHANGED cancelRest

finalWrites == <<"CANCELLING", "CANCELLED", "CLEANUP", "finish">>

FinalizeWrite(c, ok) ==
  LET r == request[c].run
  IN \E i \in 1..4 :
       /\ request[c].at = finalWrites[i]
       /\ Call(ok, IF i = 1 THEN updateRunStatus(r, "CANCELLING", "none")
                   ELSE IF i < 4 THEN updateRunStatus(r, finalWrites[i], "CANCELLED")
                   ELSE [finishRun(r, "CANCELLED")
                           EXCEPT ![r].errors = request[c].errors])
       /\ SetRequest(c, IF ok /\ i < 4 THEN [request[c] EXCEPT !.at = finalWrites[i + 1]]
                                       ELSE NoRequest)
       /\ UNCHANGED <<lease, exec>> /\ UNCHANGED cancelRest

-----------------------------------------------------------------------------
(* shutdown                                                                *)

\* Every controller is aborted, with an error of its own, and the executions
\* of that moment awaited; requests under way go on.
Shutdown ==
  /\ proc = "up"
  /\ proc' = "stopping" /\ awaited' = controllers
  /\ exec' = [r \in RunId |-> IF r \in controllers THEN Aborted(exec[r], "fail") ELSE exec[r]]
  /\ stopped' = stopped \cup controllers
  /\ UNCHANGED <<tables, job, call, request, queue, recovery, faults, crashes>>

\* Promise.allSettled(executions).
Settled == awaited \cap controllers = {}

Exit ==
  /\ proc = "stopping" /\ Settled
  /\ Die /\ UNCHANGED <<tables, faults, crashes>>

-----------------------------------------------------------------------------
Recover ==
  \/ Listen
  \/ \E ok \in BOOLEAN : \/ RecoverList(ok) \/ RecoverCleanup(ok) \/ RecoverLog(ok)
                         \/ RecoverSettle(ok)
                         \/ \E r \in RunId, cleaned \in BOOLEAN : RecoverLeases(r, ok, cleaned)

Job(r) ==
  \/ Execute(r) \/ Finally(r)
  \/ \E ok \in BOOLEAN : \/ Inserted(r, ok) \/ Start(r, ok) \/ OnStatus(r, ok)
                         \/ Finish(r, ok) \/ CatchError(r, ok)

Answer(c) == \E ok \in BOOLEAN : \/ CancelRequested(c, ok) \/ CancelLogged(c, ok)
                                 \/ FinalizeWrite(c, ok)
                                 \/ \E cleaned \in BOOLEAN : FinalizeLeases(c, ok, cleaned)

Next ==
  \/ Boot \/ Crash \/ Shutdown \/ Exit \/ Recover
  \/ \E r \in RunId : \/ Create(r) \/ Job(r) \/ TimeOut(r)
                      \/ onResourceLease(r) \/ onResourceReleased(r)
  \/ \E c \in Caller : Answer(c) \/ \E r \in RunId : Cancel(c, r)

Spec == Init /\ [][Next]_vars

\* The event loop runs what is ready, the database answers, the executor
\* settles (RunSettles of ScenarioEngine) and a process that is down is
\* started again.
Fairness ==
  /\ WF_vars(Boot) /\ WF_vars(Recover) /\ WF_vars(Exit)
  /\ \A r \in RunId : WF_vars(Job(r))
  /\ \A c \in Caller : WF_vars(Answer(c))

FairSpec == Spec /\ Fairness

-----------------------------------------------------------------------------
(* Properties                                                              *)

JobState == {"none", "inserting", "logging", "running", "finishing", "catching", "finally",
         "done", "gone", "refused"}

\* Types of the tables and of what the process holds.
TypeOK ==
  /\ db \in [RunId -> [status : RunStatus \cup {"ABSENT"}, outcome : Verdict,
                       cancel : BOOLEAN, finished : BOOLEAN, recovered : BOOLEAN,
                       errors : BOOLEAN]]
  /\ lease \in [RunId -> {"none", "ACTIVE", "RELEASED"}]
  /\ proc \in {"down", "recovering", "up", "stopping"}
  /\ job \in [RunId -> JobState] /\ exec \in [RunId -> Execution]
  /\ call \in [RunId -> BOOLEAN]
  /\ request \in [Caller -> [run : RunId \cup {"none"}, errors : BOOLEAN,
                             at : {"idle", "request", "log", "leases", "CANCELLING",
                                   "CANCELLED", "CLEANUP", "finish"}]]
  /\ queue \subseteq RunId /\ awaited \subseteq RunId /\ stopped \subseteq RunId
  /\ recovery \in [run : RunId \cup {"none"}, errors : BOOLEAN,
                   at : {"idle", "list", "cleanup", "log", "settle"},
                   outcome : {"none", "FAILED", "CANCELLED"}]
  /\ faults \in 0..MaxFaults /\ crashes \in 0..MaxCrashes

active(r) == db[r].status # "ABSENT" /\ ~isTerminal(db[r].status)

\* While no database call has failed, a serving process never holds a run in
\* an active status that nothing in it will carry on: not after any crash and
\* recovery, any overlap of cancellations, any shutdown caught halfway.
NoOrphan ==
  faults = 0 /\ Serving =>
    \A r \in RunId : active(r) => \/ job[r] \notin {"none", "done", "gone", "refused"}
                                   \/ \E c \in Caller : request[c].run = r

\* A run is recorded CANCELLED only if a cancellation of it was stored or a
\* shutdown aborted it: no timeout, crash, recovery or failing write gets there.
CancelledOnAsk ==
  \A r \in RunId : db[r].outcome = "CANCELLED" => db[r].cancel \/ r \in stopped

\* A run finished by recovery is CANCELLED exactly when a cancellation had
\* been stored before the interruption, and nothing changes that afterwards.
RecoveredVerdict ==
  \A r \in RunId : db[r].recovered /\ db[r].finished =>
    db[r].outcome = IF db[r].cancel THEN "CANCELLED" ELSE "FAILED"

\* A run finished by recovery with no cleanup error has no ACTIVE lease left,
\* whenever the interrupted process had taken it.
RecoveredHoldsNoLease ==
  \A r \in RunId : db[r].recovered /\ db[r].finished /\ ~db[r].errors => lease[r] # "ACTIVE"

\* The end of a run is earned, by whatever mixture of execution, cancellation,
\* crash and recovery it came about: CANCELLED only if asked for, the verdict of
\* a recovery the one the interrupted process left, and no lease hidden by it.
EndsAreEarned == CancelledOnAsk /\ RecoveredVerdict /\ RecoveredHoldsNoLease

\* The row of a run that finished with no cancellation accepted by then never
\* changes again, except by the catch block whose own write was in doubt.
UncancelledIsFinal ==
  [][\A r \in RunId : db[r].finished /\ ~db[r].cancel /\ job[r] # "catching" =>
       db'[r] = db[r]]_vars

\* A shutdown that nothing disturbs leaves every run it found executing
\* finished in the table.
ShutdownWaits ==
  [][proc = "stopping" /\ proc' = "down" /\ UNCHANGED <<faults, crashes>> =>
       \A r \in awaited : db[r].finished]_vars

\* The row a run ends with is the last word on it: it is not written again,
\* and it is there before a shutdown lets the process go.
FinishedIsFinal == UncancelledIsFinal /\ ShutdownWaits

\* Every run that is stored reaches a terminal status, through crashes,
\* restarts, cancellations and shutdowns, as long as no database call fails.
RunsSettle == \A r \in RunId : active(r) ~> (isTerminal(db[r].status) \/ faults > 0)

\* "Any active state may transition through CANCELLING to CANCELLED": only
\* an active run is taken to CANCELLING.
CancelsActiveRuns ==
  [][\A r \in RunId : db'[r].status = "CANCELLING" => ~isTerminal(db[r].status)]_vars

\* "If the Control Plane restarts, active persisted runs are recovered": once
\* the server listens again, the runs of earlier processes are finished.
RestartFinishesRuns ==
  \A r \in RunId : proc = "up" /\ faults = 0 /\ job[r] = "gone" => db[r].finished
=============================================================================
