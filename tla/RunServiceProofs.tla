--------------------------- MODULE RunServiceProofs ---------------------------
(***************************************************************************)
(* RunService, for any number of runs, cancel requests, crashes and failed *)
(* database calls: types, NoOrphan, EndsAreEarned and FinishedIsFinal.     *)
(***************************************************************************)
EXTENDS RunService, TLAPS

Row == [status : RunStatus \cup {"ABSENT"}, outcome : Verdict, cancel : BOOLEAN,
        finished : BOOLEAN, recovered : BOOLEAN, errors : BOOLEAN]
Ask == [run : RunId \cup {"none"}, errors : BOOLEAN,
        at : {"idle", "request", "log", "leases", "CANCELLING", "CANCELLED", "CLEANUP", "finish"}]
Finalizing == {"leases", "CANCELLING", "CANCELLED", "CLEANUP", "finish"}
Idle == {"none", "gone", "refused"}        \* jobs of a process that serves nothing
-----------------------------------------------------------------------------
(* The inductive invariant.                                                *)

\* What a row says of itself, whoever wrote it last.
RowInv ==
  \A r \in RunId :
    /\ db[r].outcome = "CANCELLED" => db[r].cancel \/ r \in stopped
    /\ db[r].recovered =>
         /\ db[r].status \in Outcome \cup {"CLEANUP"}
         /\ db[r].outcome = interruptedOutcome(r)
         /\ ~db[r].errors => lease[r] # "ACTIVE"
    /\ db[r].finished /\ ~db[r].cancel => isTerminal(db[r].status)

\* The row of a run at each point of create, start and execute.
JobInv ==
  \A r \in RunId :
    /\ job[r] \in {"none", "inserting"} => db[r] = NoRow
    /\ job[r] \in {"logging", "running", "finishing"} => ~db[r].finished
    /\ job[r] \in {"finally", "done"} => db[r].finished
    /\ job[r] = "finally" => isTerminal(db[r].status)
    /\ db[r].recovered => job[r] \in {"gone", "refused"}

\* A process that does not serve has neither jobs nor requests.
ProcInv ==
  /\ ~Serving => /\ \A r \in RunId : job[r] \in Idle
                 /\ \A c \in Caller : request[c] = NoRequest
                 /\ awaited = {}
  /\ proc # "recovering" => queue = {} /\ recovery = NoRecovery
  /\ recovery.at = "idle" => recovery = NoRecovery

\* Recovery works on active rows and misses none.
QueueInv ==
  /\ \A r \in queue : active(r)
  /\ proc = "recovering" /\ recovery.at # "list" => \A r \in RunId : active(r) => r \in queue
  /\ recovery.at \in {"cleanup", "log", "settle"} =>
       /\ recovery.run \in queue
       /\ recovery.outcome = interruptedOutcome(recovery.run)
       /\ ~recovery.errors => lease[recovery.run] # "ACTIVE"

\* A request that was accepted is for a run whose row says so, and one that
\* finalizes has found the run without an execution.
RequestInv ==
  \A c \in Caller :
    /\ request[c].at = "idle" => request[c].run = "none"
    /\ request[c].at # "idle" => request[c].run \in RunId /\ Named(request[c].run)
    /\ request[c].at \notin {"idle", "request"} =>
         db[request[c].run].cancel /\ ~db[request[c].run].recovered
    /\ request[c].at \in Finalizing => job[request[c].run] \in {"done", "gone"}

\* One execution ends cancelled only by its signal, and with a verdict.
Sound(x) ==
  /\ x.verdict = "CANCELLED" \/ x.status \in {"CANCELLING", "CANCELLED"} => x.signal = "fail"
  /\ x.stage # "executing" => x.verdict \in Outcome
  /\ x.stage = "decided" => x.status # "CLEANUP"

\* An execution is cancelled only by the signal, and that only on request.
ExecInv ==
  \A r \in RunId :
    /\ Sound(exec[r])
    /\ exec[r].signal = "fail" => db[r].cancel \/ r \in stopped
    /\ job[r] = "finishing" => exec[r].stage = "returned"

\* The run that nothing executes and that is active is in the hands of a
\* request whose next write ends it.
CarryInv ==
  faults = 0 /\ Serving =>
    \A r \in RunId : active(r) /\ job[r] \in {"none", "done", "gone", "refused"} =>
      \E c \in Caller : request[c].run = r /\ request[c].at \in {"CANCELLED", "finish"}

\* What shutdown awaits is executing or over.
AwaitInv == \A r \in awaited : r \in controllers \/ job[r] = "done"

IInv == /\ TypeOK /\ RowInv /\ JobInv /\ ProcInv /\ QueueInv /\ RequestInv /\ ExecInv
        /\ CarryInv /\ AwaitInv

-----------------------------------------------------------------------------
(* The operators                                                           *)

\* A write of a status that does not finish the run, and one that does.
LEMMA UpdateFacts ==
  ASSUME TypeOK, NEW r \in RunId, NEW s \in RunStatus, NEW v \in Verdict
  PROVE  LET d == updateRunStatus(r, s, v) IN
         /\ d \in [RunId -> Row] /\ \A q \in RunId : q # r => d[q] = db[q]
         /\ d[r].status = s /\ d[r].outcome = (IF v = "none" THEN db[r].outcome ELSE v)
         /\ d[r].cancel = db[r].cancel /\ d[r].recovered = db[r].recovered
         /\ d[r].errors = db[r].errors /\ d[r].finished = db[r].finished
  <1>1. db \in [RunId -> Row] /\ db[r] \in Row
    BY DEF TypeOK, Row
  <1> DEFINE w == [db[r] EXCEPT !.status = s, !.outcome = IF v = "none" THEN db[r].outcome ELSE v]
  <1>3. updateRunStatus(r, s, v) = [db EXCEPT ![r] = w]
    BY <1>1 DEF updateRunStatus
  <1>4. /\ w \in Row
        /\ w.status = s /\ w.outcome = (IF v = "none" THEN db[r].outcome ELSE v)
        /\ w.cancel = db[r].cancel /\ w.recovered = db[r].recovered
        /\ w.errors = db[r].errors /\ w.finished = db[r].finished
    BY <1>1 DEF Row
  <1> HIDE DEF w
  <1> QED BY <1>1, <1>3, <1>4

LEMMA FinishFacts ==
  ASSUME TypeOK, NEW r \in RunId, NEW v \in Outcome
  PROVE  LET d == finishRun(r, v) IN
         /\ d \in [RunId -> Row] /\ \A q \in RunId : q # r => d[q] = db[q]
         /\ d[r].status = v /\ d[r].outcome = v /\ d[r].finished = TRUE
         /\ d[r].cancel = db[r].cancel /\ d[r].recovered = db[r].recovered
         /\ d[r].errors = db[r].errors
  <1>1. v \in RunStatus /\ v \in Verdict /\ v # "none"
    BY DEF Outcome, RunStatus, Verdict
  <1> DEFINE u == updateRunStatus(r, v, v)
  <1>2. /\ u \in [RunId -> Row] /\ \A q \in RunId : q # r => u[q] = db[q]
        /\ u[r].status = v /\ u[r].outcome = v
        /\ u[r].cancel = db[r].cancel /\ u[r].recovered = db[r].recovered
        /\ u[r].errors = db[r].errors
    BY <1>1, UpdateFacts
  <1> DEFINE w == [u[r] EXCEPT !.finished = TRUE]
  <1>3. finishRun(r, v) = [u EXCEPT ![r] = w]
    BY <1>2 DEF finishRun
  <1> HIDE DEF u
  <1>4. u[r] \in Row
    BY <1>2
  <1>5. /\ w \in Row /\ w.finished = TRUE
        /\ w.status = u[r].status /\ w.outcome = u[r].outcome /\ w.cancel = u[r].cancel
        /\ w.recovered = u[r].recovered /\ w.errors = u[r].errors
    BY <1>4 DEF Row
  <1> HIDE DEF w
  <1> QED BY <1>2, <1>3, <1>5

\* A finished run's row is written for that run alone.
LEMMA FinishElsewhere ==
  ASSUME TypeOK, NEW p \in RunId, NEW r \in RunId, r # p, NEW v \in Outcome
  PROVE  finishRun(p, v)[r] = db[r]
  BY FinishFacts

LEMMA CallTyped ==
  ASSUME TypeOK, NEW ok \in BOOLEAN, NEW d, Call(ok, d) \/ Log(ok)
  PROVE  faults' \in 0..MaxFaults /\ (ok = FALSE => faults' # 0) /\ (ok = TRUE => faults' = faults)
  BY BoundAssumption DEF TypeOK, Call, Log

LEMMA TransitionTyped ==
  ASSUME NEW r \in RunStatus, NEW s, canTransition(r, s) PROVE s \in RunStatus
  BY DEF canTransition, transitions, RunStatus

\* Announcing s after from: what the table says of the end of a run.
LEMMA TransitionFacts ==
  ASSUME NEW r \in RunStatus, NEW s, canTransition(r, s)
  PROVE  /\ s = "CANCELLED" => r \in {"CANCELLING", "CLEANUP"}
         /\ r = "CREATED" => s \in {"VALIDATING", "CANCELLING"}
  BY DEF canTransition, transitions, RunStatus

LEMMA NewSound == NewExecution \in Execution /\ Sound(NewExecution)
  BY DEF NewExecution, Execution, RunStatus, Stage, Verdict, Outcome, Sound

LEMMA AnnounceFacts ==
  ASSUME NEW x \in Execution, NEW s, NEW stage \in Stage, NEW v \in Verdict,
         NEW y \in Announce(x, s, stage, v)
  PROVE  /\ y \in Execution /\ canTransition(x.status, s)
         /\ y.status = s /\ y.stage = stage /\ y.verdict = v /\ y.signal = x.signal
  BY TransitionTyped DEF Announce, Execution

LEMMA MovesSound ==
  ASSUME NEW x \in Execution, Sound(x), NEW y \in Moves(x)
  PROVE  y \in Execution /\ Sound(y) /\ y.signal = x.signal
  <1>1. CASE x.stage = "executing"
    <2>1. CASE \E s \in {"VALIDATING"} \cup PhaseStatuses : y \in Announce(x, s, "executing", "none")
      <3>1. PICK s \in {"VALIDATING"} \cup PhaseStatuses : y \in Announce(x, s, "executing", "none")
        BY <2>1
      <3>2. s \notin {"CANCELLING", "CANCELLED"}
        BY DEF PhaseStatuses, PhaseStatus, PhaseCount
      <3> QED BY <3>1, <3>2, AnnounceFacts DEF Stage, Verdict, Sound
    <2>2. CASE \E v \in {"PASSED", defeat(x)} : y \in Announce(x, announcement(v), "decided", v)
      BY <2>2, AnnounceFacts DEF Stage, Verdict, Outcome, Sound, defeat, announcement
    <2> DEFINE Entered == UNION {Announce(x, s, "executing", "none") :
                           s \in IF x.signal = "none" THEN {"VALIDATING"} \cup PhaseStatuses
                                                      ELSE {"VALIDATING"}}
               Decided == UNION {Announce(x, announcement(v), "decided", v) :
                           v \in IF x.status = "CREATED" THEN {} ELSE {"PASSED", defeat(x)}}
    <2>3. Moves(x) = Entered \cup Decided
      BY <1>1 DEF Moves
    <2>4. y \in Entered \/ y \in Decided
      BY <2>3, Zenon
    <2>5. y \in Entered => \E s \in {"VALIDATING"} \cup PhaseStatuses : y \in Announce(x, s, "executing", "none")
      OBVIOUS
    <2>6. y \in Decided => \E v \in {"PASSED", defeat(x)} : y \in Announce(x, announcement(v), "decided", v)
      OBVIOUS
    <2> QED BY <2>1, <2>2, <2>4, <2>5, <2>6
  <1>2. CASE x.stage = "decided"
    <2>1. x.verdict \in Outcome
      BY <1>2 DEF Sound
    <2>2. CASE y \in Announce(x, "CANCELLED", "decided", x.verdict)
      <3>1. canTransition(x.status, "CANCELLED") /\ x.status \in RunStatus
        BY <2>1, <2>2, AnnounceFacts DEF Stage, Verdict, Execution
      <3>2. x.status = "CANCELLING"
        BY <1>2, <3>1, TransitionFacts DEF Sound
      <3> QED BY <2>1, <2>2, <3>2, AnnounceFacts DEF Stage, Verdict, Sound
    <2>3. CASE y \in Announce(x, "CLEANUP", "cleaning", x.verdict)
      BY <2>1, <2>3, AnnounceFacts DEF Stage, Verdict, Sound
    <2> QED BY <1>2, <2>2, <2>3 DEF Moves
  <1>3. CASE x.stage = "cleaning"
    <2>1. x.verdict \in Outcome
      BY <1>3 DEF Sound
    <2>2. PICK v \in {x.verdict, downgrade(x.verdict)} : y \in Announce(x, v, "settled", v)
      BY <1>3 DEF Moves
    <2> QED BY <2>1, <2>2, AnnounceFacts DEF Stage, Verdict, Outcome, Sound, downgrade
  <1>4. CASE x.stage \notin {"executing", "decided", "cleaning"}
    BY <1>4 DEF Moves, Execution, Stage, Sound
  <1> QED BY <1>1, <1>2, <1>3, <1>4

LEMMA FaultMovesSound ==
  ASSUME NEW x \in Execution, Sound(x), NEW y \in FaultMoves(x)
  PROVE  y \in Execution /\ Sound(y) /\ y.signal = x.signal
  <1>1. CASE x.stage = "executing"
    BY <1>1, AnnounceFacts DEF FaultMoves, Stage, Verdict, Outcome, Sound, defeat, announcement
  <1>2. CASE x.stage = "decided"
    <2>1. PICK v \in {x.verdict, defeat(x)} : y = [x EXCEPT !.stage = "threw", !.verdict = v]
      BY <1>2 DEF FaultMoves
    <2>2. v \in Outcome /\ (v = "CANCELLED" => x.signal = "fail")
      BY <1>2 DEF Sound, Outcome, defeat
    <2> QED BY <1>2, <2>1, <2>2 DEF Execution, Stage, Verdict, Outcome, Sound
  <1>3. CASE x.stage \in {"cleaning", "settled"}
    <2>1. y = [x EXCEPT !.stage = "returned", !.verdict = downgrade(x.verdict)]
      BY <1>3 DEF FaultMoves
    <2>2. downgrade(x.verdict) \in Outcome /\ (downgrade(x.verdict) = "CANCELLED" => x.signal = "fail")
      BY <1>3 DEF Sound, Outcome, downgrade
    <2> QED BY <1>3, <2>1, <2>2 DEF Execution, Stage, Verdict, Outcome, Sound
  <1>4. CASE x.stage \notin {"executing", "decided", "cleaning", "settled"}
    BY <1>4 DEF FaultMoves
  <1> QED BY <1>1, <1>2, <1>3, <1>4

LEMMA AbortedSound ==
  ASSUME NEW x \in Execution, Sound(x), NEW e \in {"fail", "timeout"}
  PROVE  /\ Aborted(x, e) \in Execution /\ Sound(Aborted(x, e))
         /\ Aborted(x, e).stage = x.stage /\ Aborted(x, e).signal \in {x.signal, e}
  BY DEF Aborted, Abortable, Execution, Sound

-----------------------------------------------------------------------------
(* The inductive step                                                      *)

LEMMA InvInit == Init => IInv
  <1> SUFFICES ASSUME Init PROVE IInv
    OBVIOUS
  <1>1. NoRow \in Row
    BY DEF NoRow, Row, RunStatus, Verdict
  <1>2. TypeOK
    <2>1. db \in [RunId -> Row]
      BY <1>1 DEF Init
    <2>2. exec \in [RunId -> Execution]
      BY NewSound DEF Init
    <2> QED BY <2>1, <2>2, BoundAssumption
            DEF Init, TypeOK, Row, JobState, NoRequest, NoRecovery
  <1>3. RowInv /\ JobInv
    BY DEF Init, RowInv, JobInv, NoRow
  <1>4. ProcInv /\ QueueInv /\ RequestInv
    BY DEF Init, ProcInv, QueueInv, RequestInv, NoRequest, NoRecovery, Serving, Idle, Finalizing
  <1>5. ExecInv
    BY NewSound DEF Init, ExecInv, NewExecution
  <1>6. CarryInv /\ AwaitInv
    BY DEF Init, CarryInv, AwaitInv, Serving
  <1> QED BY <1>2, <1>3, <1>4, <1>5, <1>6 DEF IInv

\* A process that dies leaves nothing but the tables behind.
LEMMA InvDie ==
  ASSUME IInv, Die, db' \in [RunId -> Row], lease' \in [RunId -> {"none", "ACTIVE", "RELEASED"}],
         faults' \in 0..MaxFaults, crashes' \in 0..MaxCrashes, RowInv',
         \A r \in RunId : job[r] = "none" => db'[r] = db[r]
  PROVE  IInv'
  <1> USE DEF IInv, Die
  <1>1. /\ \A r \in RunId : job'[r] \in Idle /\ (job'[r] = "none" <=> job[r] = "none")
        /\ job' \in [RunId -> JobState]
    BY DEF TypeOK, Idle, JobState
  <1>2. TypeOK'
    <2>1. exec' \in [RunId -> Execution]
      BY NewSound
    <2> QED BY <1>1, <2>1 DEF TypeOK, Row, NoRequest, NoRecovery
  <1>3. JobInv'
    <2> SUFFICES ASSUME NEW r \in RunId
                 PROVE  /\ job'[r] \in Idle
                        /\ job'[r] = "none" => db'[r] = NoRow
                        /\ db'[r].recovered => job'[r] # "none"
      BY DEF JobInv, Idle
    <2> QED BY <1>1 DEF JobInv, NoRow
  <1>4. ProcInv' /\ QueueInv' /\ RequestInv'
    BY <1>1 DEF ProcInv, QueueInv, RequestInv, Serving, NoRequest, NoRecovery, Finalizing
  <1>5. ExecInv'
    BY <1>1, NewSound DEF ExecInv, NewExecution, Idle
  <1>6. CarryInv' /\ AwaitInv'
    BY DEF CarryInv, AwaitInv, Serving
  <1> QED BY <1>2, <1>3, <1>4, <1>5, <1>6

\* Between calls: the process is started, crashes or exits.
LEMMA InvProcess == ASSUME IInv, Boot \/ Crash \/ Exit PROVE IInv'
  <1> USE DEF IInv
  <1>1. CASE Boot
    <2> USE <1>1 DEF Boot, tables, jobs
    <2>1. TypeOK'
      BY DEF TypeOK, NoRecovery
    <2>2. RowInv' /\ JobInv'
      BY DEF RowInv, JobInv, interruptedOutcome
    <2>3. ProcInv' /\ QueueInv'
      BY DEF ProcInv, QueueInv, Serving, NoRecovery
    <2>4. RequestInv' /\ ExecInv' /\ AwaitInv'
      BY DEF RequestInv, ExecInv, AwaitInv, Named, controllers
    <2>5. CarryInv'
      BY DEF CarryInv, Serving
    <2> QED BY <2>1, <2>2, <2>3, <2>4, <2>5
  <1>2. CASE Crash \/ Exit
    <2>1. /\ Die /\ UNCHANGED <<db, lease, faults>> /\ crashes' \in 0..MaxCrashes
      BY <1>2, BoundAssumption DEF Crash, Exit, tables, TypeOK
    <2>2. RowInv'
      BY <2>1 DEF RowInv, interruptedOutcome, Die
    <2> QED BY <2>1, <2>2, InvDie DEF TypeOK, Row
  <1> QED BY <1>1, <1>2

\* Recovery, one lemma for each of its calls.
LEMMA InvRecoverList == ASSUME IInv, NEW ok \in BOOLEAN, RecoverList(ok) PROVE IInv'
  <1> USE DEF IInv
  <1>a. proc = "recovering"
    BY DEF RecoverList, ProcInv, NoRecovery
  <1>0. /\ faults' \in 0..MaxFaults /\ (ok => faults' = faults) /\ UNCHANGED <<db, lease, crashes>>
        /\ proc = "recovering"
    BY <1>a, CallTyped DEF RecoverList, tables
  <1>1. CASE ok = FALSE
    <2>1. Die
      BY <1>1 DEF RecoverList
    <2>2. RowInv'
      BY <1>0, <2>1 DEF RowInv, interruptedOutcome, Die
    <2> QED BY <1>0, <2>1, <2>2, InvDie DEF TypeOK, Row
  <1>2. CASE ok = TRUE
    <2>1. /\ queue' = listActiveRuns /\ recovery' = NoRecovery
          /\ UNCHANGED <<db, lease, crashes, faults, proc, job, exec, call, request, awaited, stopped>>
      BY <1>0, <1>2, Zenon DEF RecoverList, jobs, Die
    <2>2. TypeOK'
      BY <1>0, <2>1 DEF TypeOK, NoRecovery, listActiveRuns
    <2>3. RowInv' /\ JobInv'
      BY <2>1 DEF RowInv, JobInv, interruptedOutcome
    <2>4. ProcInv' /\ QueueInv'
      BY <1>0, <2>1 DEF ProcInv, QueueInv, Serving, NoRecovery, listActiveRuns, active
    <2>5. RequestInv' /\ ExecInv' /\ AwaitInv'
      BY <2>1 DEF RequestInv, ExecInv, AwaitInv, Named, controllers
    <2>6. CarryInv'
      BY <1>0, <2>1 DEF CarryInv, Serving
    <2> QED BY <2>2, <2>3, <2>4, <2>5, <2>6
  <1> QED BY <1>1, <1>2

\* Cleaning the lease of r leaves the other leases alone and takes none.
LEMMA CleanedFacts ==
  ASSUME TypeOK, NEW r \in RunId, NEW cleaned \in BOOLEAN, lease' \in cleanupPersistedLeases(r, cleaned)
  PROVE  /\ lease' \in [RunId -> {"none", "ACTIVE", "RELEASED"}]
         /\ \A q \in RunId : lease'[q] = "ACTIVE" => lease[q] = "ACTIVE"
         /\ lease'[r] = "ACTIVE" => cleaned = FALSE
  BY DEF TypeOK, cleanupPersistedLeases, released

LEMMA InvRecoverLeases ==
  ASSUME IInv, NEW r \in RunId, NEW ok \in BOOLEAN, NEW cleaned \in BOOLEAN,
         RecoverLeases(r, ok, cleaned)
  PROVE  IInv'
  <1> USE DEF IInv
  <1>0. /\ faults' \in 0..MaxFaults /\ (ok => faults' = faults) /\ UNCHANGED <<db, crashes>>
        /\ proc = "recovering" /\ r \in queue
    BY CallTyped DEF RecoverLeases
  <1>1. CASE ok = FALSE
    <2>1. Die /\ UNCHANGED lease
      BY <1>1 DEF RecoverLeases
    <2>2. RowInv'
      BY <1>0, <2>1 DEF RowInv, interruptedOutcome, Die
    <2> QED BY <1>0, <2>1, <2>2, InvDie DEF TypeOK, Row
  <1>2. CASE ok = TRUE
    <2>1. /\ lease' \in cleanupPersistedLeases(r, cleaned)
          /\ recovery' = [run |-> r, at |-> "cleanup", outcome |-> interruptedOutcome(r),
                          errors |-> lease[r] = "ACTIVE" /\ ~cleaned]
          /\ UNCHANGED <<db, crashes, faults, proc, job, exec, call, request, queue, awaited, stopped>>
      BY <1>0, <1>2, Zenon DEF RecoverLeases, jobs, Die
    <2>a. recovery.at = "idle"
      BY DEF RecoverLeases
    <2>2. TypeOK'
      <3>1. recovery' \in [run : RunId \cup {"none"}, errors : BOOLEAN,
                   at : {"idle", "list", "cleanup", "log", "settle"},
                   outcome : {"none", "FAILED", "CANCELLED"}]
        BY <2>1 DEF interruptedOutcome
      <3> QED BY <1>0, <2>1, <3>1, CleanedFacts DEF TypeOK
    <2>3. RowInv' /\ JobInv'
      BY <2>1, CleanedFacts DEF RowInv, JobInv, interruptedOutcome
    <2>4. QueueInv'
      <3>1. recovery'.errors = FALSE => lease'[r] # "ACTIVE"
        <4>1. recovery'.errors = (lease[r] = "ACTIVE" /\ ~cleaned)
          BY <2>1
        <4> QED BY <2>1, <4>1, CleanedFacts
      <3>2. recovery'.run = r /\ recovery'.at = "cleanup" /\ recovery'.outcome = interruptedOutcome(r)
        BY <2>1
      <3>3. recovery'.errors \in BOOLEAN
        BY <2>2 DEF TypeOK
      <3> QED BY <1>0, <2>1, <2>a, <3>1, <3>2, <3>3 DEF QueueInv, active, interruptedOutcome
    <2>5. ProcInv' /\ RequestInv' /\ ExecInv' /\ AwaitInv'
      BY <1>0, <2>1 DEF ProcInv, RequestInv, ExecInv, AwaitInv, Named, controllers, Serving
    <2>6. CarryInv'
      BY <1>0, <2>1 DEF CarryInv, Serving
    <2> QED BY <2>2, <2>3, <2>4, <2>5, <2>6
  <1> QED BY <1>1, <1>2

\* The writes of recovery: the row stays sound, and a run that was never
\* created is not touched.
LEMMA RecoverRow ==
  ASSUME IInv, recovery.at \in {"cleanup", "log", "settle"}
  PROVE  /\ proc = "recovering" /\ recovery.run \in RunId /\ recovery.run \in queue
         /\ active(recovery.run) /\ job[recovery.run] \in {"gone", "refused"}
         /\ recovery.outcome = interruptedOutcome(recovery.run)
         /\ ~recovery.errors => lease[recovery.run] # "ACTIVE"
         /\ db[recovery.run].finished => db[recovery.run].cancel
         /\ recovery \in [run : RunId \cup {"none"}, errors : BOOLEAN,
                   at : {"idle", "list", "cleanup", "log", "settle"},
                   outcome : {"none", "FAILED", "CANCELLED"}]
  <1> USE DEF IInv
  <1>1. proc = "recovering"
    BY DEF ProcInv, NoRecovery
  <1>2. /\ recovery.run \in queue /\ recovery.outcome = interruptedOutcome(recovery.run)
        /\ ~recovery.errors => lease[recovery.run] # "ACTIVE"
    BY DEF QueueInv
  <1>3. recovery.run \in RunId
    BY <1>2 DEF TypeOK
  <1>4. active(recovery.run)
    BY <1>2 DEF QueueInv
  <1>5. job[recovery.run] \in {"gone", "refused"}
    <2>1. job[recovery.run] \in Idle
      BY <1>1, <1>3 DEF ProcInv, Serving
    <2>2. job[recovery.run] # "none"
      BY <1>3, <1>4 DEF JobInv, NoRow, active
    <2> QED BY <2>1, <2>2 DEF Idle
  <1>6. db[recovery.run].finished => db[recovery.run].cancel
    BY <1>3, <1>4 DEF RowInv, active
  <1> QED BY <1>1, <1>2, <1>3, <1>4, <1>5, <1>6 DEF TypeOK

LEMMA InvRecoverCleanup == ASSUME IInv, NEW ok \in BOOLEAN, RecoverCleanup(ok) PROVE IInv'
  <1> USE DEF IInv
  <1>0. recovery.at = "cleanup" /\ UNCHANGED <<lease, crashes>>
    BY DEF RecoverCleanup
  <1>a. PICK r \in RunId, o \in {"FAILED", "CANCELLED"}, e \in BOOLEAN :
          r = recovery.run /\ o = recovery.outcome /\ e = recovery.errors
    BY <1>0, RecoverRow DEF interruptedOutcome
  <1> DEFINE u == updateRunStatus(r, "CLEANUP", o)
             d == [u EXCEPT ![r].recovered = TRUE, ![r].errors = e]
  <1>1. /\ proc = "recovering" /\ r \in queue
        /\ active(r) /\ job[r] \in {"gone", "refused"}
        /\ o = interruptedOutcome(r)
        /\ e = FALSE => lease[r] # "ACTIVE"
        /\ db[r].finished => db[r].cancel
    BY <1>0, <1>a, RecoverRow
  <1>b. Call(ok, d)
    BY <1>a DEF RecoverCleanup
  <1>2. faults' \in 0..MaxFaults /\ (ok => faults' = faults) /\ db' \in {db, d} /\ (ok => db' = d)
    BY <1>b, CallTyped DEF Call
  <1>3. /\ u \in [RunId -> Row] /\ \A q \in RunId : q # r => u[q] = db[q]
        /\ u[r].status = "CLEANUP" /\ u[r].outcome = o
        /\ u[r].cancel = db[r].cancel /\ u[r].finished = db[r].finished
    <2>1. "CLEANUP" \in RunStatus /\ o \in Verdict /\ o # "none"
      BY DEF RunStatus, Verdict, Outcome
    <2> QED BY <2>1, UpdateFacts
  <1> HIDE DEF u
  <1>4. /\ d \in [RunId -> Row] /\ \A q \in RunId : q # r => d[q] = db[q]
        /\ d[r].status = "CLEANUP" /\ d[r].outcome = o
        /\ d[r].cancel = db[r].cancel /\ d[r].finished = db[r].finished
        /\ d[r].recovered = TRUE /\ d[r].errors = e
    BY <1>3 DEF Row
  <1> HIDE DEF d
  <1>5. stopped' = stopped
    BY DEF RecoverCleanup, Die
  <1>6. RowInv'
    <2> SUFFICES ASSUME NEW q \in RunId
                 PROVE /\ db'[q].outcome = "CANCELLED" => db'[q].cancel \/ q \in stopped
                       /\ db'[q].recovered =>
                           /\ db'[q].status \in Outcome \cup {"CLEANUP"}
                           /\ db'[q].outcome = IF db'[q].cancel THEN "CANCELLED" ELSE "FAILED"
                           /\ ~db'[q].errors => lease[q] # "ACTIVE"
                       /\ db'[q].finished /\ ~db'[q].cancel => isTerminal(db'[q].status)
      BY <1>0, <1>5 DEF RowInv, interruptedOutcome
    <2>1. CASE q = r /\ db' = d
      BY <1>1, <1>4, <2>1 DEF interruptedOutcome
    <2>2. CASE db'[q] = db[q]
      BY <2>2 DEF RowInv, interruptedOutcome
    <2> QED BY <1>2, <1>4, <2>1, <2>2
  <1>7. db' \in [RunId -> Row] /\ \A q \in RunId : q # r => db'[q] = db[q]
    BY <1>2, <1>4 DEF TypeOK, Row
  <1>8. CASE ok = FALSE
    <2>1. Die
      BY <1>8 DEF RecoverCleanup
    <2> QED BY <1>0, <1>1, <1>2, <1>6, <1>7, <2>1, InvDie DEF TypeOK
  <1>9. CASE ok = TRUE
    <2>1. /\ recovery' = [recovery EXCEPT !.at = "log"] /\ db' = d
          /\ UNCHANGED <<crashes, lease, faults, proc, job, exec, call, request, queue, awaited, stopped>>
      BY <1>0, <1>2, <1>9, Zenon DEF RecoverCleanup, jobs, Die
    <2>2. TypeOK'
      BY <1>7, <2>1 DEF TypeOK, Row
    <2>3. JobInv'
      BY <1>1, <1>4, <2>1 DEF JobInv
    <2>4. QueueInv'
      <3>1. recovery'.run = r /\ recovery'.outcome = o /\ recovery'.at = "log" /\ recovery'.errors = e
        BY <1>a, <2>1 DEF TypeOK
      <3>2. \A q \in RunId : active(q)' = active(q)
        BY <1>1, <1>4, <2>1 DEF active, isTerminal, Outcome
      <3>3. o = IF db'[r].cancel THEN "CANCELLED" ELSE "FAILED"
        BY <1>1, <1>4, <2>1 DEF interruptedOutcome
      <3>5. \A q \in queue : active(q)'
        BY <3>2 DEF QueueInv, TypeOK
      <3>6. \A q \in RunId : active(q)' => q \in queue
        BY <1>0, <1>1, <3>2 DEF QueueInv
      <3> QED BY <1>1, <2>1, <3>1, <3>3, <3>5, <3>6 DEF QueueInv, interruptedOutcome
    <2>5. ProcInv' /\ RequestInv' /\ ExecInv' /\ AwaitInv'
      BY <1>1, <1>4, <2>1 DEF ProcInv, RequestInv, ExecInv, AwaitInv, Named, controllers, Serving, NoRequest, Finalizing
    <2>6. CarryInv'
      BY <1>1, <2>1 DEF CarryInv, Serving
    <2> QED BY <1>6, <2>2, <2>3, <2>4, <2>5, <2>6
  <1> QED BY <1>8, <1>9

LEMMA InvRecoverLog == ASSUME IInv, NEW ok \in BOOLEAN, RecoverLog(ok) PROVE IInv'
  <1> USE DEF IInv
  <1>0. /\ faults' \in 0..MaxFaults /\ (ok => faults' = faults) /\ UNCHANGED <<db, lease, crashes>>
        /\ recovery.at = "log"
    BY CallTyped DEF RecoverLog, tables
  <1>a. proc = "recovering"
    BY <1>0, RecoverRow
  <1>1. CASE ok = FALSE
    <2>1. Die
      BY <1>1 DEF RecoverLog
    <2>2. RowInv'
      BY <1>0, <2>1 DEF RowInv, interruptedOutcome, Die
    <2> QED BY <1>0, <2>1, <2>2, InvDie DEF TypeOK, Row
  <1>2. CASE ok = TRUE
    <2>1. /\ recovery' = [recovery EXCEPT !.at = "settle"]
          /\ UNCHANGED <<db, lease, crashes, faults, proc, job, exec, call, request, queue, awaited, stopped>>
      BY <1>0, <1>2, Zenon DEF RecoverLog, jobs, Die
    <2>2. TypeOK'
      BY <2>1 DEF TypeOK
    <2>3. RowInv' /\ JobInv'
      BY <2>1 DEF RowInv, JobInv, interruptedOutcome
    <2>4. ProcInv' /\ QueueInv'
      BY <1>0, <1>a, <2>1 DEF ProcInv, QueueInv, Serving, active, TypeOK, interruptedOutcome
    <2>5. RequestInv' /\ ExecInv' /\ AwaitInv'
      BY <2>1 DEF RequestInv, ExecInv, AwaitInv, Named, controllers
    <2>6. CarryInv'
      BY <1>a, <2>1 DEF CarryInv, Serving
    <2> QED BY <2>2, <2>3, <2>4, <2>5, <2>6
  <1> QED BY <1>1, <1>2

LEMMA InvRecoverSettle == ASSUME IInv, NEW ok \in BOOLEAN, RecoverSettle(ok) PROVE IInv'
  <1> USE DEF IInv
  <1>0. recovery.at = "settle" /\ UNCHANGED <<lease, crashes>>
    BY DEF RecoverSettle
  <1>a. PICK r \in RunId, o \in {"FAILED", "CANCELLED"} :
          r = recovery.run /\ o = recovery.outcome
    BY <1>0, RecoverRow DEF interruptedOutcome
  <1> DEFINE d == finishRun(r, o)
  <1>1. /\ proc = "recovering" /\ r \in queue
        /\ active(r) /\ job[r] \in {"gone", "refused"}
        /\ o = interruptedOutcome(r)
    BY <1>0, <1>a, RecoverRow
  <1>b. Call(ok, d)
    BY <1>a DEF RecoverSettle
  <1>2. faults' \in 0..MaxFaults /\ (ok => faults' = faults) /\ db' \in {db, d} /\ (ok => db' = d)
    BY <1>b, CallTyped DEF Call
  <1>4. /\ d \in [RunId -> Row] /\ \A q \in RunId : q # r => d[q] = db[q]
        /\ d[r].status = o /\ d[r].outcome = o
        /\ d[r].cancel = db[r].cancel /\ d[r].finished = TRUE
        /\ d[r].recovered = db[r].recovered /\ d[r].errors = db[r].errors
    <2>1. o \in Outcome /\ TypeOK
      BY DEF Outcome
    <2> QED BY <2>1, FinishFacts
  <1> HIDE DEF d
  <1>5. stopped' = stopped
    BY DEF RecoverSettle, Die
  <1>6. RowInv'
    <2> SUFFICES ASSUME NEW q \in RunId
                 PROVE /\ db'[q].outcome = "CANCELLED" => db'[q].cancel \/ q \in stopped
                       /\ db'[q].recovered =>
                           /\ db'[q].status \in Outcome \cup {"CLEANUP"}
                           /\ db'[q].outcome = IF db'[q].cancel THEN "CANCELLED" ELSE "FAILED"
                           /\ ~db'[q].errors => lease[q] # "ACTIVE"
                       /\ db'[q].finished /\ ~db'[q].cancel => isTerminal(db'[q].status)
      BY <1>0, <1>5 DEF RowInv, interruptedOutcome
    <2>1. CASE q = r /\ db' = d
      BY <1>1, <1>4, <2>1 DEF interruptedOutcome, RowInv, isTerminal, Outcome
    <2>2. CASE db'[q] = db[q]
      BY <2>2 DEF RowInv, interruptedOutcome
    <2> QED BY <1>2, <1>4, <2>1, <2>2
  <1>7. db' \in [RunId -> Row] /\ \A q \in RunId : q # r => db'[q] = db[q]
    BY <1>2, <1>4 DEF TypeOK, Row
  <1>8. CASE ok = FALSE
    <2>1. Die
      BY <1>8 DEF RecoverSettle
    <2> QED BY <1>0, <1>1, <1>2, <1>6, <1>7, <2>1, InvDie DEF TypeOK
  <1>9. CASE ok = TRUE
    <2>1. /\ recovery' = NoRecovery /\ queue' = queue \ {r} /\ db' = d
          /\ UNCHANGED <<crashes, lease, faults, proc, job, exec, call, request, awaited, stopped>>
      BY <1>0, <1>2, <1>9, <1>a, Zenon DEF RecoverSettle, jobs, Die
    <2>2. TypeOK'
      BY <1>7, <2>1 DEF TypeOK, Row, NoRecovery
    <2>3. JobInv'
      BY <1>1, <1>4, <2>1 DEF JobInv
    <2>4. QueueInv'
      BY <1>0, <1>1, <1>4, <2>1 DEF QueueInv, active, isTerminal, Outcome, TypeOK, NoRecovery
    <2>5. ProcInv' /\ RequestInv' /\ ExecInv' /\ AwaitInv'
      BY <1>1, <1>4, <2>1 DEF ProcInv, RequestInv, ExecInv, AwaitInv, Named, controllers, Serving, NoRequest, Finalizing
    <2>6. CarryInv'
      BY <1>1, <2>1 DEF CarryInv, Serving
    <2> QED BY <1>6, <2>2, <2>3, <2>4, <2>5, <2>6
  <1> QED BY <1>8, <1>9

LEMMA InvListen == ASSUME IInv, Listen PROVE IInv'
  <1> USE DEF IInv
  <1>0. /\ proc = "recovering" /\ recovery.at = "idle" /\ queue = {} /\ proc' = "up"
        /\ UNCHANGED <<db, lease, job, exec, call, request, queue, recovery, awaited, stopped,
                       faults, crashes>>
    BY DEF Listen, tables, jobs
  <1>1. TypeOK'
    BY <1>0 DEF TypeOK
  <1>2. RowInv' /\ JobInv' /\ RequestInv' /\ ExecInv' /\ AwaitInv'
    BY <1>0 DEF RowInv, JobInv, interruptedOutcome, RequestInv, ExecInv, AwaitInv, Named, controllers
  <1>3. recovery = NoRecovery
    BY <1>0 DEF ProcInv
  <1>4. ProcInv' /\ QueueInv'
    BY <1>0, <1>3 DEF ProcInv, QueueInv, Serving, NoRecovery
  <1>5. CarryInv'
    BY <1>0 DEF CarryInv, QueueInv, active
  <1> QED BY <1>1, <1>2, <1>4, <1>5

\* create, start and execute.
LEMMA InvCreate == ASSUME IInv, NEW r \in RunId, Create(r) PROVE IInv'
  <1> USE DEF IInv
  <1>0. /\ proc = "up" /\ job[r] = "none" /\ job' = [job EXCEPT ![r] = "inserting"]
        /\ UNCHANGED <<db, lease, proc, exec, call, request, queue, recovery, awaited, stopped,
                       faults, crashes>>
    BY DEF Create, SetJob, tables
  <1>1. TypeOK'
    BY <1>0 DEF TypeOK, JobState
  <1>2. RowInv' /\ ProcInv' /\ QueueInv'
    BY <1>0 DEF RowInv, interruptedOutcome, ProcInv, Serving, QueueInv, active, TypeOK
  <1>3. JobInv'
    BY <1>0 DEF JobInv, TypeOK, NoRow
  <1>4. RequestInv'
    BY <1>0 DEF RequestInv, TypeOK, Named, Finalizing
  <1>5. ExecInv'
    BY <1>0 DEF ExecInv, TypeOK
  <1>6. CarryInv' /\ AwaitInv'
    BY <1>0 DEF CarryInv, AwaitInv, TypeOK, Serving, active, controllers
  <1> QED BY <1>1, <1>2, <1>3, <1>4, <1>5, <1>6

LEMMA InvInserted == ASSUME IInv, NEW r \in RunId, NEW ok \in BOOLEAN, Inserted(r, ok) PROVE IInv'
  <1> USE DEF IInv
  <1> DEFINE d == createRun(r)
             j == IF ok THEN "logging" ELSE "refused"
  <1>0. /\ job[r] = "inserting" /\ Call(ok, d) /\ job' = [job EXCEPT ![r] = j]
        /\ UNCHANGED <<lease, proc, exec, call, request, queue, recovery, awaited, stopped, crashes>>
    BY DEF Inserted, SetJob, createRest
  <1>1. /\ faults' \in 0..MaxFaults /\ (ok = FALSE => faults' # 0) /\ (ok = TRUE => faults' = faults)
        /\ db' \in {db, d}
    BY <1>0, CallTyped DEF Call
  <1>2. db[r] = NoRow /\ Serving
    BY <1>0 DEF JobInv, ProcInv, Idle
  <1>3. /\ db' \in [RunId -> Row] /\ \A q \in RunId : q # r => db'[q] = db[q]
        /\ db'[r].outcome = "none" /\ db'[r].cancel = FALSE
        /\ db'[r].recovered = FALSE /\ db'[r].finished = FALSE
    <2>1. db \in [RunId -> Row] /\ NoRow \in Row
      BY <1>2 DEF TypeOK, Row
    <2>2. /\ NoRow.outcome = "none" /\ NoRow.cancel = FALSE
          /\ NoRow.recovered = FALSE /\ NoRow.finished = FALSE
      BY DEF NoRow
    <2>3. CASE db' = db
      BY <1>2, <2>1, <2>2, <2>3
    <2>4. CASE db' = d
      <3>1. db' = [db EXCEPT ![r] = [db[r] EXCEPT !.status = "CREATED"]]
        BY <2>1, <2>4 DEF createRun
      <3>2. [db[r] EXCEPT !.status = "CREATED"] \in Row
        BY <2>1 DEF Row, RunStatus
      <3> QED BY <1>2, <2>1, <2>2, <3>1, <3>2 DEF Row
    <2> QED BY <1>1, <2>3, <2>4
  <1> HIDE DEF d
  <1>4. TypeOK'
    BY <1>0, <1>1, <1>3 DEF TypeOK, JobState, Row
  <1>5. RowInv'
    BY <1>0, <1>3 DEF RowInv, interruptedOutcome
  <1>5a. JobInv'
    <2>1. /\ job'[r] \in {"logging", "refused"}
          /\ \A q \in RunId : q # r => job'[q] = job[q]
      BY <1>0 DEF TypeOK
    <2> QED BY <2>1, <1>3 DEF JobInv
  <1>6. ProcInv' /\ QueueInv'
    BY <1>0, <1>2 DEF ProcInv, Serving, QueueInv, NoRecovery
  <1>7. RequestInv'
    BY <1>0, <1>3 DEF RequestInv, TypeOK, Named, Finalizing
  <1>8. ExecInv'
    BY <1>0, <1>3, <1>2 DEF ExecInv, TypeOK, NoRow
  <1>9. CarryInv'
    BY <1>0, <1>1, <1>3 DEF CarryInv, Serving, active, TypeOK
  <1>10. AwaitInv'
    BY <1>0 DEF AwaitInv, TypeOK, controllers
  <1> QED BY <1>4, <1>5, <1>5a, <1>6, <1>7, <1>8, <1>9, <1>10

LEMMA InvStart == ASSUME IInv, NEW r \in RunId, NEW ok \in BOOLEAN, Start(r, ok) PROVE IInv'
  <1> USE DEF IInv
  <1> DEFINE j == IF ok THEN "running" ELSE "refused"
  <1>0. /\ job[r] = "logging" /\ Log(ok) /\ job' = [job EXCEPT ![r] = j]
        /\ exec' = (IF ok THEN [exec EXCEPT ![r] = NewExecution] ELSE exec)
        /\ UNCHANGED <<db, lease, proc, call, request, queue, recovery, awaited, stopped, crashes>>
    BY DEF Start, SetJob, createRest
  <1>1. faults' \in 0..MaxFaults /\ (ok = FALSE => faults' # 0) /\ (ok = TRUE => faults' = faults)
    BY <1>0, CallTyped
  <1>2. Serving
    BY <1>0 DEF ProcInv, Idle
  <1>4. TypeOK'
    BY <1>0, <1>1, NewSound DEF TypeOK, JobState
  <1>5. RowInv' /\ JobInv'
    BY <1>0 DEF RowInv, JobInv, interruptedOutcome, TypeOK
  <1>6. ProcInv' /\ QueueInv'
    BY <1>0, <1>2 DEF ProcInv, Serving, QueueInv, NoRecovery
  <1>7. RequestInv'
    BY <1>0 DEF RequestInv, TypeOK, Named, Finalizing
  <1>8. ExecInv'
    BY <1>0, NewSound DEF ExecInv, TypeOK, NewExecution
  <1>9. CarryInv'
    BY <1>0, <1>1 DEF CarryInv, Serving, active, TypeOK
  <1>10. AwaitInv'
    BY <1>0 DEF AwaitInv, TypeOK, controllers
  <1> QED BY <1>4, <1>5, <1>6, <1>7, <1>8, <1>9, <1>10

\* The execution of r takes a step to a sound y, whatever it writes of r.
LEMMA InvContinue ==
  ASSUME IInv, NEW r \in RunId, job[r] = "running", NEW y \in Execution, Sound(y),
         y.signal = exec[r].signal, Continue(r, y), UNCHANGED execRest,
         faults' \in 0..MaxFaults, faults' = 0 => faults = 0,
         db' \in [RunId -> Row], \A q \in RunId : q # r => db'[q] = db[q],
         db'[r].cancel = db[r].cancel, db'[r].recovered = db[r].recovered,
         db'[r].finished = db[r].finished,
         db'[r].outcome = "CANCELLED" => db[r].cancel \/ r \in stopped
  PROVE  IInv'
  <1> USE DEF IInv
  <1>0. /\ exec' = [exec EXCEPT ![r] = y]
        /\ call' = [call EXCEPT ![r] = y.stage \notin {"returned", "threw"}]
        /\ UNCHANGED <<lease, proc, request, queue, recovery, awaited, stopped, crashes>>
    BY DEF Continue, execRest
  <1>1. PICK j \in {"running", "finishing", "catching"} :
          job' = [job EXCEPT ![r] = j] /\ (j = "finishing" => y.stage = "returned")
    BY DEF Continue, SetJob
  <1>2. Serving /\ ~db[r].recovered /\ ~db[r].finished
    BY DEF ProcInv, Idle, JobInv
  <1>3. TypeOK'
    BY <1>0, <1>1 DEF TypeOK, JobState, Row
  <1>4. RowInv'
    BY <1>0, <1>2 DEF RowInv, interruptedOutcome
  <1>5. JobInv'
    BY <1>0, <1>1, <1>2 DEF JobInv, TypeOK
  <1>6. ProcInv' /\ QueueInv'
    BY <1>0, <1>2 DEF ProcInv, Serving, QueueInv, NoRecovery
  <1>7. RequestInv'
    BY <1>0, <1>1 DEF RequestInv, TypeOK, Named, Finalizing
  <1>8. ExecInv'
    BY <1>0, <1>1 DEF ExecInv, TypeOK
  <1>9. CarryInv'
    BY <1>0, <1>1 DEF CarryInv, Serving, active, TypeOK
  <1>10. AwaitInv'
    BY <1>0, <1>1 DEF AwaitInv, TypeOK, controllers
  <1> QED BY <1>3, <1>4, <1>5, <1>6, <1>7, <1>8, <1>9, <1>10

LEMMA InvExecute == ASSUME IInv, NEW r \in RunId, Execute(r) PROVE IInv'
  <1>1. PICK y \in Moves(exec[r]) : Continue(r, y)
    BY DEF Execute
  <1>2. exec[r] \in Execution /\ Sound(exec[r]) /\ db \in [RunId -> Row]
    BY DEF IInv, TypeOK, ExecInv, Row
  <1>3. y \in Execution /\ Sound(y) /\ y.signal = exec[r].signal
    BY <1>2, MovesSound
  <1>4. job[r] = "running" /\ UNCHANGED <<db, faults>> /\ UNCHANGED execRest
    BY DEF Execute
  <1>5. /\ db[r].outcome = "CANCELLED" => db[r].cancel \/ r \in stopped
        /\ faults \in 0..MaxFaults
    BY DEF IInv, RowInv, TypeOK
  <1> QED BY <1>1, <1>2, <1>3, <1>4, <1>5, InvContinue

\* What the write of an announcement leaves of the row.
LEMMA OnStatusRow ==
  ASSUME IInv, NEW r \in RunId, NEW ok \in BOOLEAN, OnStatus(r, ok)
  PROVE  /\ db' \in [RunId -> Row] /\ \A q \in RunId : q # r => db'[q] = db[q]
         /\ db'[r].cancel = db[r].cancel /\ db'[r].recovered = db[r].recovered
         /\ db'[r].finished = db[r].finished
         /\ db'[r].outcome = "CANCELLED" => db[r].cancel \/ r \in stopped
         /\ faults' \in 0..MaxFaults /\ (ok = FALSE => faults' # 0) /\ (ok = TRUE => faults' = faults)
  <1> USE DEF IInv
  <1>0. exec[r] \in Execution /\ Sound(exec[r]) /\ TypeOK
    BY DEF TypeOK, ExecInv
  <1>1. PICK s \in RunStatus : s = exec[r].status
    BY <1>0 DEF Execution
  <1>2. PICK v \in Verdict : v = IF s \in Outcome THEN s ELSE "none"
    BY DEF Verdict
  <1> DEFINE d == updateRunStatus(r, s, v)
  <1>3. Call(ok, d)
    BY <1>1, <1>2 DEF OnStatus
  <1>4. /\ faults' \in 0..MaxFaults /\ (ok = FALSE => faults' # 0) /\ (ok = TRUE => faults' = faults)
        /\ db' \in {db, d}
    BY <1>3, CallTyped DEF Call
  <1>5. /\ d \in [RunId -> Row] /\ \A q \in RunId : q # r => d[q] = db[q]
        /\ d[r].outcome = (IF v = "none" THEN db[r].outcome ELSE v)
        /\ d[r].cancel = db[r].cancel /\ d[r].recovered = db[r].recovered
        /\ d[r].finished = db[r].finished
    BY <1>0, UpdateFacts
  <1> HIDE DEF d
  <1>6. db[r].outcome = "CANCELLED" => db[r].cancel \/ r \in stopped
    BY DEF RowInv
  <1>7. v = "CANCELLED" => db[r].cancel \/ r \in stopped
    BY <1>1, <1>2 DEF ExecInv, Sound
  <1>8. db \in [RunId -> Row]
    BY DEF TypeOK, Row
  <1> QED BY <1>4, <1>5, <1>6, <1>7, <1>8

LEMMA InvOnStatus == ASSUME IInv, NEW r \in RunId, NEW ok \in BOOLEAN, OnStatus(r, ok) PROVE IInv'
  <1>0. exec[r] \in Execution /\ Sound(exec[r])
    BY DEF IInv, TypeOK, ExecInv
  <1>1. /\ db' \in [RunId -> Row] /\ \A q \in RunId : q # r => db'[q] = db[q]
        /\ db'[r].cancel = db[r].cancel /\ db'[r].recovered = db[r].recovered
        /\ db'[r].finished = db[r].finished
        /\ db'[r].outcome = "CANCELLED" => db[r].cancel \/ r \in stopped
        /\ faults' \in 0..MaxFaults /\ (ok = FALSE => faults' # 0) /\ (ok = TRUE => faults' = faults)
    BY OnStatusRow
  <1>2. job[r] = "running" /\ UNCHANGED execRest
    BY DEF OnStatus
  <1>3. CASE ok = FALSE
    <2>1. PICK y \in FaultMoves(exec[r]) : Continue(r, y)
      BY <1>3 DEF OnStatus
    <2>2. y \in Execution /\ Sound(y) /\ y.signal = exec[r].signal
      BY <1>0, FaultMovesSound
    <2> QED BY <1>1, <1>2, <1>3, <2>1, <2>2, InvContinue
  <1>4. CASE ok = TRUE
    <2> USE DEF IInv
    <2>0. /\ call' = [call EXCEPT ![r] = FALSE] /\ UNCHANGED <<job, exec>>
      BY <1>1, <1>4, Zenon DEF OnStatus
    <2>1. UNCHANGED <<lease, proc, request, queue, recovery, awaited, stopped, crashes>>
      BY <1>2 DEF execRest
    <2>2. Serving /\ ~db[r].recovered /\ ~db[r].finished
      BY <1>2 DEF ProcInv, Idle, JobInv
    <2>3. TypeOK'
      BY <1>1, <2>0, <2>1 DEF TypeOK, Row
    <2>4. RowInv'
      BY <1>1, <2>1, <2>2 DEF RowInv, interruptedOutcome
    <2>5. JobInv'
      BY <1>1, <1>2, <2>0, <2>2 DEF JobInv
    <2>6. ProcInv' /\ QueueInv'
      BY <2>0, <2>1, <2>2 DEF ProcInv, Serving, QueueInv, NoRecovery
    <2>7. RequestInv' /\ ExecInv' /\ AwaitInv'
      BY <1>1, <2>0, <2>1 DEF RequestInv, Named, Finalizing, ExecInv, AwaitInv, controllers
    <2>9. CarryInv'
      BY <1>1, <1>2, <1>4, <2>0, <2>1 DEF CarryInv, Serving, active
    <2> QED BY <2>3, <2>4, <2>5, <2>6, <2>7, <2>9
  <1> QED BY <1>3, <1>4

LEMMA InvTimeOut == ASSUME IInv, NEW r \in RunId, TimeOut(r) PROVE IInv'
  <1> USE DEF IInv
  <1> DEFINE y == Aborted(exec[r], "timeout")
  <1>0. /\ job[r] = "running" /\ exec' = [exec EXCEPT ![r] = y]
        /\ UNCHANGED <<db, job, call, faults, lease, proc, request, queue, recovery, awaited,
                       stopped, crashes>>
    BY DEF TimeOut, execRest, TypeOK
  <1>1. /\ y \in Execution /\ Sound(y) /\ y.stage = exec[r].stage
        /\ y.signal \in {exec[r].signal, "timeout"}
    BY AbortedSound DEF TypeOK, ExecInv
  <1> HIDE DEF y
  <1>2. TypeOK'
    BY <1>0, <1>1 DEF TypeOK
  <1>3. RowInv' /\ JobInv' /\ ProcInv' /\ QueueInv'
    BY <1>0 DEF RowInv, interruptedOutcome, JobInv, ProcInv, Serving, QueueInv, active
  <1>4. RequestInv' /\ CarryInv' /\ AwaitInv'
    BY <1>0 DEF RequestInv, Named, CarryInv, Serving, active, AwaitInv, controllers
  <1>5. ExecInv'
    BY <1>0, <1>1 DEF ExecInv, TypeOK
  <1> QED BY <1>2, <1>3, <1>4, <1>5

LEMMA InvFinish == ASSUME IInv, NEW r \in RunId, NEW ok \in BOOLEAN, Finish(r, ok) PROVE IInv'
  <1> USE DEF IInv
  <1>a. exec[r] \in Execution /\ Sound(exec[r]) /\ TypeOK /\ job[r] = "finishing"
    BY DEF TypeOK, ExecInv, Finish
  <1>b. PICK v \in Outcome : v = exec[r].verdict
    BY <1>a DEF ExecInv, Sound
  <1> DEFINE d == finishRun(r, v)
             j == IF ok THEN "finally" ELSE "catching"
  <1>0. /\ Call(ok, d) /\ job' = [job EXCEPT ![r] = j]
        /\ UNCHANGED <<exec, call, lease, proc, request, queue, recovery, awaited, stopped, crashes>>
    BY <1>b DEF Finish, SetJob, execRest
  <1>1. /\ faults' \in 0..MaxFaults /\ (ok = FALSE => faults' # 0) /\ (ok = TRUE => faults' = faults)
        /\ db' \in {db, d} /\ (ok = TRUE => db' = d)
    BY <1>0, CallTyped DEF Call
  <1>2. /\ d \in [RunId -> Row] /\ \A q \in RunId : q # r => d[q] = db[q]
        /\ d[r].status = v /\ d[r].outcome = v /\ d[r].finished = TRUE
        /\ d[r].cancel = db[r].cancel /\ d[r].recovered = db[r].recovered
    BY <1>a, FinishFacts
  <1> HIDE DEF d
  <1>3. Serving /\ ~db[r].recovered /\ ~db[r].finished
    BY <1>a DEF ProcInv, Idle, JobInv
  <1>4. v = "CANCELLED" => db[r].cancel \/ r \in stopped
    BY <1>b DEF ExecInv, Sound
  <1>5. db' \in [RunId -> Row] /\ \A q \in RunId : q # r => db'[q] = db[q]
    BY <1>1, <1>2 DEF TypeOK, Row
  <1>6. TypeOK'
    BY <1>0, <1>1, <1>5 DEF TypeOK, JobState, Row
  <1>7. RowInv'
    BY <1>0, <1>1, <1>2, <1>3, <1>4 DEF RowInv, interruptedOutcome, isTerminal
  <1>8. JobInv'
    <2>1. job'[r] = j /\ \A q \in RunId : q # r => job'[q] = job[q]
      BY <1>0 DEF TypeOK
    <2> QED BY <1>1, <1>2, <1>3, <2>1 DEF JobInv, isTerminal
  <1>9. ProcInv' /\ QueueInv'
    BY <1>0, <1>3 DEF ProcInv, Serving, QueueInv, NoRecovery
  <1>10. RequestInv'
    BY <1>0, <1>1, <1>2, <1>a DEF RequestInv, TypeOK, Named, Finalizing
  <1>11. ExecInv' /\ AwaitInv'
    BY <1>0, <1>1, <1>2, <1>a DEF ExecInv, AwaitInv, controllers, TypeOK
  <1>12. CarryInv'
    BY <1>0, <1>1, <1>5, <1>a DEF CarryInv, Serving, active, TypeOK
  <1> QED BY <1>6, <1>7, <1>8, <1>9, <1>10, <1>11, <1>12

LEMMA InvCatchError ==
  ASSUME IInv, NEW r \in RunId, NEW ok \in BOOLEAN, CatchError(r, ok) PROVE IInv'
  <1> USE DEF IInv
  <1> DEFINE d == finishRun(r, "FAILED")
  <1>0. /\ Call(ok, d) /\ job[r] = "catching" /\ TypeOK
        /\ UNCHANGED <<lease, crashes, stopped>>
    BY DEF CatchError, Die
  <1>1. /\ faults' \in 0..MaxFaults /\ (ok = FALSE => faults' # 0) /\ (ok = TRUE => faults' = faults)
        /\ db' \in {db, d} /\ (ok = TRUE => db' = d)
    BY <1>0, CallTyped DEF Call
  <1>2. /\ d \in [RunId -> Row] /\ \A q \in RunId : q # r => d[q] = db[q]
        /\ d[r].status = "FAILED" /\ d[r].outcome = "FAILED" /\ d[r].finished = TRUE
        /\ d[r].cancel = db[r].cancel /\ d[r].recovered = db[r].recovered
    <2>1. "FAILED" \in Outcome
      BY DEF Outcome
    <2> QED BY <1>0, <2>1, FinishFacts
  <1> HIDE DEF d
  <1>3. Serving /\ ~db[r].recovered
    BY <1>0 DEF ProcInv, Idle, JobInv
  <1>4. db' \in [RunId -> Row] /\ \A q \in RunId : q # r => db'[q] = db[q]
    BY <1>1, <1>2 DEF TypeOK, Row
  <1>5. RowInv'
    BY <1>0, <1>1, <1>2, <1>3 DEF RowInv, interruptedOutcome, isTerminal, Outcome
  <1>6. CASE ok = FALSE
    <2>1. Die
      BY <1>6 DEF CatchError
    <2> QED BY <1>0, <1>1, <1>4, <1>5, <2>1, InvDie DEF TypeOK
  <1>7. CASE ok = TRUE
    <2>0. /\ job' = [job EXCEPT ![r] = "finally"] /\ db' = d /\ faults' = faults
          /\ UNCHANGED <<proc, exec, call, request, queue, recovery, awaited>>
      BY <1>1, <1>7, Zenon DEF CatchError, SetJob
    <2>1. TypeOK'
      BY <1>0, <1>1, <1>4, <2>0 DEF TypeOK, JobState, Row
    <2>2. JobInv'
      <3>1. job'[r] = "finally" /\ \A q \in RunId : q # r => job'[q] = job[q]
        BY <2>0 DEF TypeOK
      <3> QED BY <1>2, <1>3, <2>0, <3>1 DEF JobInv, isTerminal, Outcome
    <2>3. ProcInv' /\ QueueInv'
      BY <1>0, <1>3, <2>0 DEF ProcInv, Serving, QueueInv, NoRecovery
    <2>4. RequestInv'
      BY <1>0, <1>2, <2>0 DEF RequestInv, TypeOK, Named, Finalizing
    <2>5. ExecInv' /\ AwaitInv'
      BY <1>0, <1>2, <2>0 DEF ExecInv, AwaitInv, controllers, TypeOK
    <2>6. CarryInv'
      BY <1>0, <1>4, <2>0 DEF CarryInv, Serving, active, TypeOK
    <2> QED BY <1>5, <2>1, <2>2, <2>3, <2>4, <2>5, <2>6
  <1> QED BY <1>6, <1>7

LEMMA InvFinally == ASSUME IInv, NEW r \in RunId, Finally(r) PROVE IInv'
  <1> USE DEF IInv
  <1>0. /\ job[r] = "finally" /\ job' = [job EXCEPT ![r] = "done"]
        /\ UNCHANGED <<db, exec, call, faults, lease, proc, request, queue, recovery, awaited,
                       stopped, crashes>>
    BY DEF Finally, SetJob, execRest
  <1>1. Serving /\ db[r].finished /\ isTerminal(db[r].status)
    BY <1>0 DEF ProcInv, Idle, JobInv
  <1>2. TypeOK'
    BY <1>0 DEF TypeOK, JobState
  <1>3. RowInv' /\ ProcInv' /\ QueueInv'
    BY <1>0, <1>1 DEF RowInv, interruptedOutcome, ProcInv, Serving, QueueInv, active, NoRecovery
  <1>4. JobInv'
    BY <1>0, <1>1 DEF JobInv, TypeOK
  <1>5. RequestInv'
    BY <1>0 DEF RequestInv, TypeOK, Named, Finalizing
  <1>6. ExecInv' /\ AwaitInv'
    BY <1>0 DEF ExecInv, TypeOK, AwaitInv, controllers
  <1>7. CarryInv'
    BY <1>0, <1>1 DEF CarryInv, TypeOK, Serving, active
  <1> QED BY <1>2, <1>3, <1>4, <1>5, <1>6, <1>7

LEMMA InvLease ==
  ASSUME IInv, NEW r \in RunId, onResourceLease(r) \/ onResourceReleased(r) PROVE IInv'
  <1> USE DEF IInv
  <1>0. /\ job[r] \in {"running", "finishing", "catching", "finally", "done"}
        /\ lease' = [lease EXCEPT ![r] = "ACTIVE"] \/ lease' = [lease EXCEPT ![r] = "RELEASED"]
        /\ UNCHANGED <<db, proc, job, exec, call, request, queue, recovery, awaited, stopped,
                       faults, crashes>>
    BY DEF onResourceLease, onResourceReleased, jobs
  <1>1. Serving /\ ~db[r].recovered
    BY <1>0 DEF ProcInv, Idle, JobInv
  <1>2. TypeOK'
    BY <1>0 DEF TypeOK
  <1>3. RowInv'
    BY <1>0, <1>1 DEF RowInv, interruptedOutcome, TypeOK
  <1>4. JobInv' /\ ProcInv' /\ QueueInv'
    BY <1>0, <1>1 DEF JobInv, ProcInv, Serving, QueueInv, NoRecovery
  <1>5. RequestInv' /\ ExecInv' /\ AwaitInv' /\ CarryInv'
    BY <1>0 DEF RequestInv, Named, ExecInv, AwaitInv, controllers, CarryInv, Serving, active
  <1> QED BY <1>2, <1>3, <1>4, <1>5

LEMMA InvShutdown == ASSUME IInv, Shutdown PROVE IInv'
  <1> USE DEF IInv
  <1>0. /\ proc = "up" /\ proc' = "stopping" /\ awaited' = controllers
        /\ exec' = [r \in RunId |-> IF r \in controllers THEN Aborted(exec[r], "fail") ELSE exec[r]]
        /\ stopped' = stopped \cup controllers
        /\ UNCHANGED <<db, lease, job, call, request, queue, recovery, faults, crashes>>
    BY DEF Shutdown, tables
  <1>1. \A r \in RunId : /\ exec'[r] \in Execution /\ Sound(exec'[r])
                         /\ exec'[r].stage = exec[r].stage
                         /\ exec'[r].signal = "fail" => exec[r].signal = "fail" \/ r \in stopped'
    BY <1>0, AbortedSound DEF TypeOK, ExecInv
  <1>2. TypeOK'
    BY <1>0, <1>1 DEF TypeOK, controllers
  <1>3. RowInv' /\ JobInv'
    BY <1>0 DEF RowInv, interruptedOutcome, JobInv
  <1>4. ProcInv' /\ QueueInv'
    BY <1>0 DEF ProcInv, Serving, QueueInv, NoRecovery
  <1>5. RequestInv' /\ AwaitInv' /\ CarryInv'
    BY <1>0 DEF RequestInv, Named, AwaitInv, controllers, CarryInv, Serving, active
  <1>6. ExecInv'
    BY <1>0, <1>1 DEF ExecInv
  <1> QED BY <1>2, <1>3, <1>4, <1>5, <1>6

LEMMA InvCancel == ASSUME IInv, NEW c \in Caller, NEW r \in RunId, Cancel(c, r) PROVE IInv'
  <1> USE DEF IInv
  <1>0. /\ proc = "up" /\ request[c] = NoRequest /\ Named(r)
        /\ request' = [request EXCEPT ![c] = [NoRequest EXCEPT !.run = r, !.at = "request"]]
        /\ UNCHANGED <<db, lease, exec, faults, proc, job, call, queue, recovery, awaited, stopped, crashes>>
    BY DEF Cancel, SetRequest, tables, cancelRest
  <1>1. TypeOK'
    BY <1>0 DEF TypeOK, NoRequest
  <1>2. RowInv' /\ JobInv' /\ ExecInv' /\ AwaitInv'
    BY <1>0 DEF RowInv, interruptedOutcome, JobInv, ExecInv, AwaitInv, controllers
  <1>3. ProcInv' /\ QueueInv'
    BY <1>0 DEF ProcInv, Serving, QueueInv, NoRecovery
  <1>a. /\ request'[c].run = r /\ request'[c].at = "request"
        /\ \A e \in Caller : e # c => request'[e] = request[e]
    BY <1>0 DEF NoRequest, TypeOK
  <1>4. RequestInv'
    BY <1>0, <1>a DEF RequestInv, Named, Finalizing
  <1>5. CarryInv'
    <2>1. request[c].at = "idle"
      BY <1>0 DEF NoRequest
    <2> QED BY <1>0, <1>a, <2>1 DEF CarryInv, Serving, active
  <1> QED BY <1>1, <1>2, <1>3, <1>4, <1>5

\* A request moves to q; what the other requests say is untouched.
LEMMA RequestMoves ==
  ASSUME TypeOK, NEW c \in Caller, NEW q, SetRequest(c, q)
  PROVE  request'[c] = q /\ \A e \in Caller : e # c => request'[e] = request[e]
  BY DEF TypeOK, SetRequest

LEMMA AskMoves ==
  ASSUME TypeOK, NEW c \in Caller, NEW s \in Finalizing \cup {"log"}
  PROVE  LET q == [request[c] EXCEPT !.at = s] IN
         q \in Ask /\ q.run = request[c].run /\ q.at = s
  <1>1. request[c] \in Ask
    BY DEF TypeOK, Ask
  <1> QED BY <1>1 DEF Ask, Finalizing

LEMMA AskTyped == NoRequest \in Ask /\ (TypeOK => request \in [Caller -> Ask])
  BY DEF NoRequest, Ask, TypeOK

\* A process with a request under way serves, and the run of the request is known.
LEMMA RequestRun ==
  ASSUME IInv, NEW c \in Caller, request[c].at # "idle"
  PROVE  /\ Serving /\ queue = {} /\ recovery = NoRecovery
         /\ request[c].run \in RunId /\ Named(request[c].run)
  <1>1. Serving
    BY DEF IInv, ProcInv, NoRequest
  <1> QED BY <1>1 DEF IInv, ProcInv, RequestInv, Serving

LEMMA InvCancelRequested ==
  ASSUME IInv, NEW c \in Caller, NEW ok \in BOOLEAN, CancelRequested(c, ok) PROVE IInv'
  <1> USE DEF IInv
  <1>a. request[c].at = "request" /\ TypeOK
    BY DEF CancelRequested
  <1>b. PICK r \in RunId : r = request[c].run
    BY <1>a, RequestRun
  <1>c. Serving /\ queue = {} /\ recovery = NoRecovery /\ Named(r)
    BY <1>a, <1>b, RequestRun
  <1> DEFINE accepted == requestCancellation(r)
             d == IF accepted THEN [db EXCEPT ![r].cancel = TRUE] ELSE db
             q == IF ok /\ accepted THEN [request[c] EXCEPT !.at = "log"] ELSE NoRequest
  <1>0. /\ Call(ok, d) /\ SetRequest(c, q)
        /\ UNCHANGED <<lease, exec, proc, job, call, queue, recovery, awaited, stopped, crashes>>
    BY <1>b DEF CancelRequested, cancelRest
  <1>1. /\ faults' \in 0..MaxFaults /\ (ok = FALSE => faults' # 0) /\ (ok = TRUE => faults' = faults)
        /\ db' \in {db, d} /\ (ok = TRUE => db' = d)
    BY <1>0, CallTyped DEF Call
  <1>d. accepted => ~db[r].recovered
    BY DEF RowInv, requestCancellation, cancellable, isTerminal
  <1>2. /\ d \in [RunId -> Row] /\ \A p \in RunId : p # r => d[p] = db[p]
        /\ d[r].status = db[r].status /\ d[r].outcome = db[r].outcome
        /\ d[r].recovered = db[r].recovered /\ d[r].finished = db[r].finished
        /\ d[r].errors = db[r].errors
        /\ accepted => d[r].cancel = TRUE
        /\ ~accepted => d = db
    <2>1. db \in [RunId -> Row] /\ db[r] \in Row
      BY DEF TypeOK, Row
    <2> DEFINE w == [db[r] EXCEPT !.cancel = TRUE]
    <2>2. accepted => d = [db EXCEPT ![r] = w]
      BY <2>1
    <2>3. ~accepted => d = db
      OBVIOUS
    <2>4. /\ w \in Row /\ w.cancel = TRUE /\ w.status = db[r].status /\ w.outcome = db[r].outcome
          /\ w.recovered = db[r].recovered /\ w.finished = db[r].finished /\ w.errors = db[r].errors
      BY <2>1 DEF Row
    <2> HIDE DEF d, accepted, w
    <2>5. CASE accepted
      BY <2>1, <2>2, <2>4, <2>5
    <2>6. CASE ~accepted
      BY <2>1, <2>3, <2>6
    <2> QED BY <2>5, <2>6
  <1>3. /\ q \in {NoRequest, [request[c] EXCEPT !.at = "log"]}
        /\ q # NoRequest => ok = TRUE /\ accepted
    OBVIOUS
  <1> HIDE DEF d, q
  <1>4. request'[c] = q /\ \A e \in Caller : e # c => request'[e] = request[e]
    BY <1>0, <1>a, RequestMoves
  <1>5. db' \in [RunId -> Row] /\ \A p \in RunId : p # r => db'[p] = db[p]
    BY <1>1, <1>2 DEF TypeOK, Row
  <1>6. \A p \in RunId : /\ db'[p].status = db[p].status /\ db'[p].outcome = db[p].outcome
                         /\ db'[p].recovered = db[p].recovered /\ db'[p].finished = db[p].finished
                         /\ db'[p].errors = db[p].errors
                         /\ db'[p].cancel = db[p].cancel \/ (db'[p].cancel = TRUE /\ ~db[p].recovered)
                         /\ db[p].cancel => db'[p].cancel
    BY <1>1, <1>2, <1>d
  <1>7. TypeOK'
    <2>1. q \in Ask
      BY <1>3, <1>a, AskMoves, AskTyped
    <2>2. request' \in [Caller -> Ask]
      BY <1>0, <1>a, <2>1, AskTyped DEF SetRequest
    <2> QED BY <1>0, <1>1, <1>5, <2>2 DEF TypeOK, Row, Ask
  <1>8. RowInv'
    BY <1>0, <1>6 DEF RowInv, interruptedOutcome
  <1>9. JobInv'
    BY <1>0, <1>5, <1>6, <1>c DEF JobInv, Named
  <1>10. ProcInv' /\ QueueInv'
    BY <1>0, <1>c DEF ProcInv, Serving, QueueInv, NoRecovery
  <1>11. RequestInv'
    <2>1. \A e \in Caller : e # c =>
            /\ request'[e].at = "idle" => request'[e].run = "none"
            /\ request'[e].at # "idle" => request'[e].run \in RunId /\ Named(request[e].run)
            /\ request'[e].at \notin {"idle", "request"} =>
                 db'[request[e].run].cancel /\ ~db'[request[e].run].recovered
            /\ request'[e].at \in Finalizing => job[request[e].run] \in {"done", "gone"}
      BY <1>4, <1>6 DEF RequestInv, Finalizing
    <2>2. CASE q = NoRequest
      BY <1>0, <1>4, <2>1, <2>2 DEF RequestInv, NoRequest, Named, Finalizing
    <2>3. CASE q # NoRequest
      <3>1. request'[c].run = r /\ request'[c].at = "log"
        BY <1>3, <1>4, <1>b, <2>3 DEF TypeOK
      <3>2. db'[r].cancel /\ ~db'[r].recovered
        BY <1>1, <1>2, <1>3, <1>d, <2>3
      <3> QED BY <1>0, <1>4, <1>c, <2>1, <3>1, <3>2 DEF RequestInv, Named, Finalizing
    <2> QED BY <2>2, <2>3
  <1>12. ExecInv' /\ AwaitInv'
    BY <1>0, <1>6 DEF ExecInv, AwaitInv, controllers
  <1>13. CarryInv'
    BY <1>0, <1>1, <1>4, <1>6, <1>a DEF CarryInv, Serving, active
  <1> QED BY <1>7, <1>8, <1>9, <1>10, <1>11, <1>12, <1>13

LEMMA InvCancelLogged ==
  ASSUME IInv, NEW c \in Caller, NEW ok \in BOOLEAN, CancelLogged(c, ok) PROVE IInv'
  <1> USE DEF IInv
  <1>a. request[c].at = "log" /\ TypeOK
    BY DEF CancelLogged
  <1>b. PICK r \in RunId : r = request[c].run
    BY <1>a, RequestRun
  <1>c. /\ Serving /\ queue = {} /\ recovery = NoRecovery /\ Named(r)
        /\ db[r].cancel /\ ~db[r].recovered
    BY <1>a, <1>b, RequestRun DEF RequestInv
  <1> DEFINE y == Aborted(exec[r], "fail")
             q == IF ok /\ r \notin controllers THEN [request[c] EXCEPT !.at = "leases"]
                                                ELSE NoRequest
  <1>0. /\ Log(ok) /\ SetRequest(c, q)
        /\ exec' \in {exec, [exec EXCEPT ![r] = y]}
        /\ UNCHANGED <<db, lease, proc, job, call, queue, recovery, awaited, stopped, crashes>>
    BY <1>b DEF CancelLogged, cancelRest, tables
  <1>1. faults' \in 0..MaxFaults /\ (ok = FALSE => faults' # 0) /\ (ok = TRUE => faults' = faults)
    BY <1>0, CallTyped
  <1>2. y \in Execution /\ Sound(y) /\ y.stage = exec[r].stage
    BY AbortedSound DEF TypeOK, ExecInv
  <1>3. /\ q \in {NoRequest, [request[c] EXCEPT !.at = "leases"]}
        /\ q # NoRequest => r \notin controllers
    OBVIOUS
  <1> HIDE DEF y, q
  <1>4. request'[c] = q /\ \A e \in Caller : e # c => request'[e] = request[e]
    BY <1>0, <1>a, RequestMoves
  <1>5. TypeOK'
    <2>1. q \in Ask
      BY <1>3, <1>a, AskMoves, AskTyped DEF Finalizing
    <2>2. request' \in [Caller -> Ask]
      BY <1>0, <1>a, <2>1, AskTyped DEF SetRequest
    <2>3. exec' \in [RunId -> Execution]
      BY <1>0, <1>2 DEF TypeOK
    <2> QED BY <1>0, <1>1, <2>2, <2>3 DEF TypeOK, Ask
  <1>6. RowInv' /\ JobInv' /\ AwaitInv'
    BY <1>0 DEF RowInv, interruptedOutcome, JobInv, AwaitInv, controllers
  <1>7. ProcInv' /\ QueueInv'
    BY <1>0, <1>c DEF ProcInv, Serving, QueueInv, NoRecovery
  <1>8. RequestInv'
    <2>1. CASE q = NoRequest
      BY <1>0, <1>4, <2>1 DEF RequestInv, NoRequest, Named, Finalizing
    <2>2. CASE q # NoRequest
      <3>1. request'[c].run = r /\ request'[c].at = "leases"
        BY <1>3, <1>4, <1>b, <2>2 DEF TypeOK
      <3>2. job[r] \in {"done", "gone"}
        BY <1>3, <1>c, <2>2 DEF controllers, Named, TypeOK, JobState
      <3> QED BY <1>0, <1>4, <1>c, <3>1, <3>2 DEF RequestInv, Named, Finalizing
    <2> QED BY <2>1, <2>2
  <1>9. ExecInv'
    BY <1>0, <1>2, <1>c DEF ExecInv, TypeOK
  <1>10. CarryInv'
    BY <1>0, <1>1, <1>4, <1>a DEF CarryInv, Serving, active
  <1> QED BY <1>5, <1>6, <1>7, <1>8, <1>9, <1>10

LEMMA InvFinalizeLeases ==
  ASSUME IInv, NEW c \in Caller, NEW ok \in BOOLEAN, NEW cleaned \in BOOLEAN,
         FinalizeLeases(c, ok, cleaned)
  PROVE  IInv'
  <1> USE DEF IInv
  <1>a. request[c].at = "leases" /\ TypeOK
    BY DEF FinalizeLeases
  <1>b. PICK r \in RunId : r = request[c].run
    BY <1>a, RequestRun
  <1>c. /\ Serving /\ queue = {} /\ recovery = NoRecovery /\ Named(r)
        /\ db[r].cancel /\ ~db[r].recovered /\ job[r] \in {"done", "gone"}
    BY <1>a, <1>b, RequestRun DEF RequestInv, Finalizing
  <1>d. PICK e \in BOOLEAN : e = (lease[r] = "ACTIVE" /\ ~cleaned)
    OBVIOUS
  <1>e. PICK q \in {NoRequest, [request[c] EXCEPT !.at = "CANCELLING", !.errors = e]} :
          SetRequest(c, q)
    BY <1>b, <1>d DEF FinalizeLeases
  <1>0. /\ Log(ok)
        /\ lease' = lease \/ lease' \in cleanupPersistedLeases(r, cleaned)
        /\ UNCHANGED <<db, exec, proc, job, call, queue, recovery, awaited, stopped, crashes>>
    BY <1>b DEF FinalizeLeases, cancelRest
  <1>1. faults' \in 0..MaxFaults /\ (ok = FALSE => faults' # 0) /\ (ok = TRUE => faults' = faults)
    BY <1>0, CallTyped
  <1>2. /\ lease' \in [RunId -> {"none", "ACTIVE", "RELEASED"}]
        /\ \A p \in RunId : lease'[p] = "ACTIVE" => lease[p] = "ACTIVE"
    BY <1>0, <1>a, CleanedFacts DEF TypeOK
  <1>4. request'[c] = q /\ \A g \in Caller : g # c => request'[g] = request[g]
    BY <1>a, <1>e, RequestMoves
  <1>f. q \in Ask /\ (q = NoRequest \/ (q.run = r /\ q.at = "CANCELLING"))
    <2>1. CASE q = NoRequest
      BY <2>1, AskTyped
    <2>2. CASE q = [request[c] EXCEPT !.at = "CANCELLING", !.errors = e]
      <3>1. request[c] \in Ask
        BY <1>a, AskTyped
      <3> QED BY <1>b, <2>2, <3>1 DEF Ask
    <2> QED BY <2>1, <2>2
  <1>5. TypeOK'
    <2>1. request' \in [Caller -> Ask]
      BY <1>a, <1>e, <1>f, AskTyped DEF SetRequest
    <2> QED BY <1>0, <1>1, <1>2, <2>1 DEF TypeOK, Ask
  <1>6. RowInv' /\ JobInv' /\ AwaitInv' /\ ExecInv'
    BY <1>0, <1>2 DEF RowInv, interruptedOutcome, JobInv, AwaitInv, controllers, ExecInv
  <1>7. ProcInv' /\ QueueInv'
    BY <1>0, <1>c DEF ProcInv, Serving, QueueInv, NoRecovery
  <1>8. RequestInv'
    <2>1. CASE q = NoRequest
      BY <1>0, <1>4, <2>1 DEF RequestInv, NoRequest, Named, Finalizing
    <2>2. CASE q # NoRequest
      <3>1. request'[c].run = r /\ request'[c].at = "CANCELLING"
        BY <1>4, <1>f, <2>2
      <3> QED BY <1>0, <1>4, <1>c, <3>1 DEF RequestInv, Named, Finalizing
    <2> QED BY <2>1, <2>2
  <1>10. CarryInv'
    BY <1>0, <1>1, <1>4, <1>a DEF CarryInv, Serving, active
  <1> QED BY <1>5, <1>6, <1>7, <1>8, <1>10

\* One write of the finalization: the row of a cancelled run, in some status.
Written(c, r, ok, s, d, q) ==
  /\ Call(ok, d) /\ SetRequest(c, q)
  /\ \A p \in RunId : p # r => d[p] = db[p]
  /\ d[r].status = s /\ d[r].cancel = db[r].cancel
  /\ d[r].recovered = db[r].recovered
  /\ db[r].finished => d[r].finished
  /\ q = NoRequest \/ (q.run = r /\ q.at \in Finalizing)
  /\ ok = TRUE /\ s # "CANCELLED" => q.run = r /\ q.at \in {"CANCELLED", "finish"}

LEMMA FinalizeRow ==
  ASSUME TypeOK, NEW c \in Caller, NEW r \in RunId, r = request[c].run, NEW ok \in BOOLEAN,
         FinalizeWrite(c, ok)
  PROVE  /\ \E s \in {"CANCELLING", "CANCELLED", "CLEANUP"}, d \in [RunId -> Row], q \in Ask :
              Written(c, r, ok, s, d, q)
         /\ request[c].at \in Finalizing
         /\ UNCHANGED <<lease, exec, proc, job, call, queue, recovery, awaited, stopped, crashes>>
  <1>1. PICK i \in 1..4 :
       /\ request[c].at = finalWrites[i]
       /\ Call(ok, IF i = 1 THEN updateRunStatus(r, "CANCELLING", "none")
                   ELSE IF i < 4 THEN updateRunStatus(r, finalWrites[i], "CANCELLED")
                   ELSE [finishRun(r, "CANCELLED") EXCEPT ![r].errors = request[c].errors])
       /\ SetRequest(c, IF ok /\ i < 4 THEN [request[c] EXCEPT !.at = finalWrites[i + 1]]
                                       ELSE NoRequest)
    BY DEF FinalizeWrite
  <1>2. UNCHANGED <<lease, exec, proc, job, call, queue, recovery, awaited, stopped, crashes>>
    BY DEF FinalizeWrite, cancelRest
  <1>3. \A n \in 1..3 : LET q == [request[c] EXCEPT !.at = finalWrites[n + 1]] IN
          q \in Ask /\ q.run = r /\ q.at = finalWrites[n + 1]
    <2> SUFFICES ASSUME NEW n \in 1..3
                 PROVE  LET q == [request[c] EXCEPT !.at = finalWrites[n + 1]] IN
                        q \in Ask /\ q.run = r /\ q.at = finalWrites[n + 1]
      OBVIOUS
    <2>1. finalWrites[n + 1] \in Finalizing
      BY DEF finalWrites, Finalizing
    <2> HIDE DEF finalWrites
    <2> QED BY <2>1, AskMoves
  <1>4. /\ finalWrites[1] = "CANCELLING" /\ finalWrites[2] = "CANCELLED"
        /\ finalWrites[3] = "CLEANUP" /\ finalWrites[4] = "finish"
    BY DEF finalWrites
  <1>5. /\ {"CANCELLING", "CANCELLED", "CLEANUP"} \subseteq RunStatus
        /\ {"CANCELLED", "none"} \subseteq Verdict /\ "CANCELLED" \in Outcome
    BY DEF RunStatus, Verdict, Outcome
  <1>6. \A s \in {"CANCELLING", "CANCELLED", "CLEANUP"}, v \in {"CANCELLED", "none"} :
          LET d == updateRunStatus(r, s, v) IN
          /\ d \in [RunId -> Row] /\ \A p \in RunId : p # r => d[p] = db[p]
          /\ d[r].status = s /\ d[r].cancel = db[r].cancel
          /\ d[r].recovered = db[r].recovered /\ d[r].finished = db[r].finished
    BY <1>5, UpdateFacts
  <1> DEFINE q == IF ok /\ i < 4 THEN [request[c] EXCEPT !.at = finalWrites[i + 1]] ELSE NoRequest
  <1>7. /\ q \in Ask /\ SetRequest(c, q)
        /\ q = NoRequest \/ (q.run = r /\ q.at \in Finalizing)
        /\ ok = TRUE /\ i < 4 => q.run = r /\ q.at = finalWrites[i + 1]
    <2>1. SetRequest(c, q)
      BY <1>1
    <2>2. CASE ok = TRUE /\ i < 4
      <3>1. i \in 1..3 /\ q = [request[c] EXCEPT !.at = finalWrites[i + 1]]
        BY <2>2
      <3>2. q \in Ask /\ q.run = r /\ q.at = finalWrites[i + 1]
        BY <1>3, <3>1
      <3>3. finalWrites[i + 1] \in Finalizing
        BY <3>1, <1>4 DEF Finalizing
      <3> QED BY <2>1, <3>2, <3>3
    <2>3. CASE ~(ok = TRUE /\ i < 4)
      <3>1. q = NoRequest
        BY <2>3
      <3> QED BY <2>1, <2>3, <3>1, AskTyped
    <2> QED BY <2>2, <2>3
  <1> HIDE DEF q
  <1>8. request[c].at \in Finalizing
    BY <1>1, <1>4 DEF Finalizing
  <1>9. CASE i = 1
    <2> DEFINE d == updateRunStatus(r, "CANCELLING", "none")
    <2>1. Call(ok, d)
      BY <1>1, <1>9
    <2>2. /\ d \in [RunId -> Row] /\ \A p \in RunId : p # r => d[p] = db[p]
          /\ d[r].status = "CANCELLING" /\ d[r].cancel = db[r].cancel
          /\ d[r].recovered = db[r].recovered /\ d[r].finished = db[r].finished
      BY <1>6
    <2> HIDE DEF d
    <2>3. Written(c, r, ok, "CANCELLING", d, q)
      BY <1>4, <1>7, <1>9, <2>1, <2>2 DEF Written
    <2> QED BY <1>2, <1>7, <1>8, <2>2, <2>3
  <1>10. CASE i = 2
    <2> DEFINE d == updateRunStatus(r, "CANCELLED", "CANCELLED")
    <2>1. Call(ok, d)
      BY <1>1, <1>4, <1>10
    <2>2. /\ d \in [RunId -> Row] /\ \A p \in RunId : p # r => d[p] = db[p]
          /\ d[r].status = "CANCELLED" /\ d[r].cancel = db[r].cancel
          /\ d[r].recovered = db[r].recovered /\ d[r].finished = db[r].finished
      BY <1>6
    <2> HIDE DEF d
    <2>3. Written(c, r, ok, "CANCELLED", d, q)
      BY <1>7, <2>1, <2>2 DEF Written
    <2> QED BY <1>2, <1>7, <1>8, <2>2, <2>3
  <1>11. CASE i = 3
    <2> DEFINE d == updateRunStatus(r, "CLEANUP", "CANCELLED")
    <2>1. Call(ok, d)
      BY <1>1, <1>4, <1>11
    <2>2. /\ d \in [RunId -> Row] /\ \A p \in RunId : p # r => d[p] = db[p]
          /\ d[r].status = "CLEANUP" /\ d[r].cancel = db[r].cancel
          /\ d[r].recovered = db[r].recovered /\ d[r].finished = db[r].finished
      BY <1>6
    <2> HIDE DEF d
    <2>3. Written(c, r, ok, "CLEANUP", d, q)
      BY <1>4, <1>7, <1>11, <2>1, <2>2 DEF Written
    <2> QED BY <1>2, <1>7, <1>8, <2>2, <2>3
  <1>12. CASE i = 4
    <2>0. PICK e \in BOOLEAN : e = request[c].errors
      BY DEF TypeOK
    <2> DEFINE u == finishRun(r, "CANCELLED")
               d == [u EXCEPT ![r].errors = e]
    <2>1. Call(ok, d)
      BY <1>1, <1>12, <2>0
    <2>2. /\ u \in [RunId -> Row] /\ \A p \in RunId : p # r => u[p] = db[p]
          /\ u[r].status = "CANCELLED" /\ u[r].cancel = db[r].cancel
          /\ u[r].recovered = db[r].recovered /\ u[r].finished = TRUE
      BY <1>5, FinishFacts
    <2> HIDE DEF u
    <2>3. /\ d \in [RunId -> Row] /\ \A p \in RunId : p # r => d[p] = db[p]
          /\ d[r].status = "CANCELLED" /\ d[r].cancel = db[r].cancel
          /\ d[r].recovered = db[r].recovered /\ d[r].finished = TRUE
      BY <2>2 DEF Row
    <2> HIDE DEF d
    <2>4. Written(c, r, ok, "CANCELLED", d, q)
      BY <1>7, <2>1, <2>3 DEF Written
    <2> QED BY <1>2, <1>7, <1>8, <2>3, <2>4
  <1>13. i = 1 \/ i = 2 \/ i = 3 \/ i = 4
    OBVIOUS
  <1> QED BY <1>9, <1>10, <1>11, <1>12, <1>13

LEMMA InvFinalizeWrite ==
  ASSUME IInv, NEW c \in Caller, NEW ok \in BOOLEAN, FinalizeWrite(c, ok) PROVE IInv'
  <1> USE DEF IInv
  <1>a. request[c].at \in Finalizing /\ TypeOK
    BY DEF FinalizeWrite, finalWrites, Finalizing
  <1>b. PICK r \in RunId : r = request[c].run
    BY <1>a, RequestRun DEF Finalizing
  <1>c. /\ Serving /\ queue = {} /\ recovery = NoRecovery /\ Named(r)
        /\ db[r].cancel /\ ~db[r].recovered /\ job[r] \in {"done", "gone"}
    BY <1>a, <1>b, RequestRun DEF RequestInv, Finalizing
  <1>d. PICK s \in {"CANCELLING", "CANCELLED", "CLEANUP"}, d \in [RunId -> Row], q \in Ask :
              Written(c, r, ok, s, d, q)
    BY <1>a, <1>b, FinalizeRow
  <1>0. UNCHANGED <<lease, exec, proc, job, call, queue, recovery, awaited, stopped, crashes>>
    BY <1>a, <1>b, FinalizeRow
  <1>1. /\ faults' \in 0..MaxFaults /\ (ok = FALSE => faults' # 0) /\ (ok = TRUE => faults' = faults)
        /\ db' \in {db, d} /\ (ok = TRUE => db' = d)
    BY <1>d, CallTyped DEF Call, Written
  <1>4. request'[c] = q /\ \A g \in Caller : g # c => request'[g] = request[g]
    BY <1>a, <1>d, RequestMoves DEF Written
  <1>5. /\ db' \in [RunId -> Row] /\ \A p \in RunId : p # r => db'[p] = db[p]
        /\ db'[r].cancel = db[r].cancel /\ db'[r].recovered = db[r].recovered
        /\ db[r].finished => db'[r].finished
    BY <1>1, <1>d DEF TypeOK, Row, Written
  <1>6. TypeOK'
    <2>1. request' \in [Caller -> Ask]
      BY <1>a, <1>d, AskTyped DEF SetRequest, Written
    <2> QED BY <1>0, <1>1, <1>5, <2>1 DEF TypeOK, Ask, Row
  <1>7. RowInv'
    BY <1>0, <1>5, <1>c DEF RowInv, interruptedOutcome
  <1>8. JobInv'
    BY <1>0, <1>5, <1>c DEF JobInv
  <1>9. ProcInv' /\ QueueInv'
    BY <1>0, <1>c DEF ProcInv, Serving, QueueInv, NoRecovery
  <1>10. RequestInv'
    <2>1. CASE q = NoRequest
      BY <1>0, <1>4, <1>5, <2>1 DEF RequestInv, NoRequest, Named, Finalizing
    <2>2. CASE q.run = r /\ q.at \in Finalizing
      <3> SUFFICES ASSUME NEW g \in Caller
                   PROVE /\ request'[g].at = "idle" => request'[g].run = "none"
                         /\ request'[g].at # "idle" => request'[g].run \in RunId /\ Named(request'[g].run)
                         /\ request'[g].at \notin {"idle", "request"} =>
                              db'[request'[g].run].cancel /\ ~db'[request'[g].run].recovered
                         /\ request'[g].at \in Finalizing => job[request'[g].run] \in {"done", "gone"}
        BY <1>0 DEF RequestInv, Named
      <3>1. CASE g = c
        BY <1>4, <1>5, <1>c, <2>2, <3>1 DEF Finalizing
      <3>2. CASE g # c
        BY <1>4, <1>5, <3>2 DEF RequestInv, Finalizing
      <3> QED BY <3>1, <3>2
    <2> QED BY <1>d, <2>1, <2>2 DEF Written
  <1>11. ExecInv' /\ AwaitInv'
    BY <1>0, <1>5 DEF ExecInv, AwaitInv, controllers
  <1>12. CarryInv'
    <2> SUFFICES ASSUME faults' = 0, Serving', NEW p \in RunId, active(p)',
                        job'[p] \in {"none", "done", "gone", "refused"}
                 PROVE  \E g \in Caller : request'[g].run = p /\ request'[g].at \in {"CANCELLED", "finish"}
      BY DEF CarryInv
    <2>1. ok = TRUE /\ faults = 0
      BY <1>1
    <2>2. CASE p = r
      <3>1. s # "CANCELLED"
        BY <1>1, <1>d, <2>1, <2>2 DEF active, isTerminal, Outcome, Written
      <3> QED BY <1>4, <1>d, <2>1, <2>2, <3>1 DEF Written
    <2>3. CASE p # r
      <3>1. active(p) /\ job[p] \in {"none", "done", "gone", "refused"}
        BY <1>0, <1>5, <2>3 DEF active
      <3>2. PICK g \in Caller : request[g].run = p /\ request[g].at \in {"CANCELLED", "finish"}
        BY <1>c, <2>1, <3>1 DEF CarryInv
      <3> QED BY <1>4, <1>b, <2>3, <3>2
    <2> QED BY <2>2, <2>3
  <1> QED BY <1>6, <1>7, <1>8, <1>9, <1>10, <1>11, <1>12

LEMMA InvStep == IInv /\ [Next]_vars => IInv'
  <1> SUFFICES ASSUME IInv, [Next]_vars PROVE IInv'
    OBVIOUS
  <1>1. CASE UNCHANGED vars
    <2>1. UNCHANGED <<db, lease, proc, job, exec, call, request, queue, recovery, awaited, stopped,
                      faults, crashes>>
      BY <1>1 DEF vars, tables, jobs
    <2> QED BY <2>1 DEF IInv, TypeOK, RowInv, JobInv, ProcInv, QueueInv, RequestInv, ExecInv,
            CarryInv, AwaitInv, interruptedOutcome, Serving, active, Named, controllers
  <1>2. CASE Boot \/ Crash \/ Shutdown \/ Exit
    BY <1>2, InvProcess, InvShutdown
  <1>3. CASE Recover
    BY <1>3, InvListen, InvRecoverList, InvRecoverLeases, InvRecoverCleanup, InvRecoverLog,
       InvRecoverSettle DEF Recover
  <1>4. ASSUME NEW r \in RunId, \/ Create(r) \/ Job(r) \/ TimeOut(r)
                                \/ onResourceLease(r) \/ onResourceReleased(r)
        PROVE  IInv'
    BY <1>4, InvCreate, InvExecute, InvFinally, InvInserted, InvStart, InvOnStatus, InvFinish,
       InvCatchError, InvTimeOut, InvLease DEF Job
  <1>5. ASSUME NEW c \in Caller, Answer(c) \/ \E r \in RunId : Cancel(c, r) PROVE IInv'
    BY <1>5, InvCancel, InvCancelRequested, InvCancelLogged, InvFinalizeLeases, InvFinalizeWrite
       DEF Answer
  <1> QED BY <1>1, <1>2, <1>3, <1>4, <1>5 DEF Next

-----------------------------------------------------------------------------
(* The theorems                                                            *)

\* IInv holds in every reachable state.
LEMMA Invariance == Spec => []IInv
  BY InvInit, InvStep, PTL DEF Spec

\* The tables and what the process holds keep their types, whatever crashes,
\* failed calls, cancellations and shutdowns come together.
THEOREM TypeCorrect == Spec => []TypeOK
  <1>1. IInv => TypeOK
    BY DEF IInv
  <1> QED BY <1>1, Invariance, PTL

\* While no database call has failed, an active run of a serving process is
\* carried on by an execution or by a cancel request (service.ts: create,
\* cancel, recoverInterruptedRuns).
THEOREM NoOrphanCorrect == Spec => []NoOrphan
  <1>1. IInv => NoOrphan
    BY DEF IInv, CarryInv, NoOrphan
  <1> QED BY <1>1, Invariance, PTL

\* CANCELLED only on request, the verdict of recovery the one the interrupted
\* process left, and no lease hidden by a clean recovery (service.ts:
\* recoverInterruptedRuns, finalizeInterruptedCancellation).
THEOREM EndsAreEarnedCorrect == Spec => []EndsAreEarned
  <1>1. IInv => EndsAreEarned
    BY DEF IInv, RowInv, EndsAreEarned, CancelledOnAsk, RecoveredVerdict, RecoveredHoldsNoLease,
           interruptedOutcome
  <1> QED BY <1>1, Invariance, PTL

\* Which steps write a row, and in which case the row was finished before.
LEMMA FinalStep ==
  ASSUME IInv, Next, NEW r \in RunId, db[r].finished, ~db[r].cancel, job[r] # "catching"
  PROVE  db'[r] = db[r]
  <1> USE DEF IInv
  <1>0. TypeOK /\ isTerminal(db[r].status)
    BY DEF RowInv
  <1>1. CASE Boot \/ Crash \/ Shutdown \/ Exit
    BY <1>1 DEF Boot, Crash, Shutdown, Exit, tables
  <1>2. CASE Recover
    <2>1. CASE \E ok \in BOOLEAN : RecoverCleanup(ok) \/ RecoverSettle(ok)
      <3>1. PICK ok \in BOOLEAN : RecoverCleanup(ok) \/ RecoverSettle(ok)
        BY <2>1
      <3>2. recovery.at \in {"cleanup", "log", "settle"}
        BY <3>1 DEF RecoverCleanup, RecoverSettle
      <3>3. PICK p \in RunId, o \in Outcome : p = recovery.run /\ o = recovery.outcome /\ active(p)
        BY <3>2, RecoverRow DEF interruptedOutcome, Outcome
      <3>4. r # p
        BY <1>0, <3>3 DEF active
      <3>5. "CLEANUP" \in RunStatus /\ o \in Verdict
        BY DEF RunStatus, Verdict
      <3>6. updateRunStatus(p, "CLEANUP", o)[r] = db[r] /\ finishRun(p, o)[r] = db[r]
        <4>1. updateRunStatus(p, "CLEANUP", o)[r] = db[r]
          BY <1>0, <3>4, <3>5, UpdateFacts
        <4>2. finishRun(p, o)[r] = db[r]
          BY <1>0, <3>4, FinishElsewhere
        <4> QED BY <4>1, <4>2
      <3>7. updateRunStatus(p, "CLEANUP", o) \in [RunId -> Row]
        BY <1>0, <3>5, UpdateFacts
      <3>8. PICK e : e = recovery.errors
        OBVIOUS
      <3>9. [updateRunStatus(p, "CLEANUP", o) EXCEPT ![p].recovered = TRUE, ![p].errors = e][r] = db[r]
        BY <3>4, <3>6, <3>7
      <3> QED BY <3>1, <3>3, <3>6, <3>8, <3>9 DEF RecoverCleanup, RecoverSettle, Call
    <2>2. CASE ~\E ok \in BOOLEAN : RecoverCleanup(ok) \/ RecoverSettle(ok)
      BY <1>2, <2>2 DEF Recover, Listen, RecoverList, RecoverLog, RecoverLeases, tables
    <2> QED BY <2>1, <2>2
  <1>3. ASSUME NEW p \in RunId, \/ Create(p) \/ Job(p) \/ TimeOut(p)
                                \/ onResourceLease(p) \/ onResourceReleased(p)
        PROVE  db'[r] = db[r]
    <2>1. CASE UNCHANGED db
      BY <2>1
    <2>2. CASE \E ok \in BOOLEAN : Inserted(p, ok)
      <3>1. db[p] = NoRow /\ p # r
        BY <2>2 DEF Inserted, JobInv, NoRow
      <3> QED BY <2>2, <3>1 DEF Inserted, Call, createRun, TypeOK
    <2>3. CASE \E ok \in BOOLEAN : OnStatus(p, ok)
      <3>1. p # r
        BY <2>3 DEF OnStatus, JobInv
      <3> QED BY <2>3, <3>1, OnStatusRow
    <2>4. CASE \E ok \in BOOLEAN : Finish(p, ok)
      <3>1. p # r /\ job[p] = "finishing"
        BY <2>4 DEF Finish, JobInv
      <3>2. PICK v \in Outcome : v = exec[p].verdict
        BY <3>1 DEF ExecInv, Sound
      <3>3. finishRun(p, v)[r] = db[r]
        BY <1>0, <3>1, FinishElsewhere
      <3> QED BY <2>4, <3>2, <3>3 DEF Finish, Call
    <2>5. CASE \E ok \in BOOLEAN : CatchError(p, ok)
      <3>1. p # r
        BY <2>5 DEF CatchError
      <3>2. "FAILED" \in Outcome
        BY DEF Outcome
      <3>3. finishRun(p, "FAILED")[r] = db[r]
        BY <1>0, <3>1, <3>2, FinishElsewhere
      <3> QED BY <2>5, <3>3 DEF CatchError, Call
    <2> QED BY <1>3, <2>1, <2>2, <2>3, <2>4, <2>5 DEF Create, Job, TimeOut, onResourceLease,
            onResourceReleased, Execute, Finally, Start, tables
  <1>4. ASSUME NEW c \in Caller, Answer(c) \/ \E p \in RunId : Cancel(c, p) PROVE db'[r] = db[r]
    <2>1. CASE UNCHANGED db
      BY <2>1
    <2>2. CASE \E ok \in BOOLEAN : CancelRequested(c, ok)
      <3>1. PICK p \in RunId : p = request[c].run
        BY <2>2, RequestRun DEF CancelRequested
      <3>2. p = r => ~requestCancellation(p)
        BY <1>0 DEF requestCancellation, cancellable
      <3> QED BY <2>2, <3>1, <3>2 DEF CancelRequested, Call, TypeOK
    <2>3. CASE \E ok \in BOOLEAN : FinalizeWrite(c, ok)
      <3>1. request[c].at \in Finalizing
        BY <2>3 DEF FinalizeWrite, finalWrites, Finalizing
      <3>2. PICK p \in RunId : p = request[c].run
        BY <3>1, RequestRun DEF Finalizing
      <3>3. p # r
        BY <3>1, <3>2 DEF RequestInv, Finalizing
      <3>4. PICK ok \in BOOLEAN, s \in {"CANCELLING", "CANCELLED", "CLEANUP"},
                 d \in [RunId -> Row], q \in Ask : Written(c, p, ok, s, d, q)
        BY <1>0, <2>3, <3>2, FinalizeRow
      <3> QED BY <3>3, <3>4 DEF Written, Call
    <2> QED BY <1>4, <2>1, <2>2, <2>3 DEF Answer, Cancel, CancelLogged, FinalizeLeases, tables
  <1> QED BY <1>1, <1>2, <1>3, <1>4 DEF Next

\* A shutdown that ends by itself leaves what it awaited finished.
LEMMA ExitStep ==
  ASSUME IInv, Next, proc = "stopping", proc' = "down", UNCHANGED <<faults, crashes>>,
         NEW r \in awaited
  PROVE  db[r].finished
  <1> USE DEF IInv
  <1>1. Exit
    <2>1. crashes \in Nat /\ faults \in Nat
      BY BoundAssumption DEF TypeOK
    <2>2. ~Crash
      BY <2>1 DEF Crash
    <2>3. recovery = NoRecovery
      BY DEF ProcInv
    <2>4. \A p \in RunId, ok \in BOOLEAN : ~CatchError(p, ok)
      BY <2>1 DEF CatchError, Call
    <2> QED BY <2>2, <2>3, <2>4 DEF Next, Boot, Shutdown, Recover, Listen, RecoverList, RecoverLeases,
            RecoverCleanup, RecoverLog, RecoverSettle, NoRecovery, Create, Job, TimeOut, onResourceLease,
            onResourceReleased, Execute, Finally, Inserted, Start, OnStatus, Finish, createRest,
            execRest, Answer, Cancel, CancelRequested, CancelLogged, FinalizeWrite, FinalizeLeases,
            cancelRest
  <1>2. r \notin controllers
    BY <1>1 DEF Exit, Settled
  <1> QED BY <1>2 DEF AwaitInv, JobInv, TypeOK

\* The row of a run that finished uncancelled is not written again, except by
\* the catch block in doubt of its own write; and a shutdown ends only when
\* what it awaited is finished in the table (service.ts: start, shutdown).
THEOREM FinishedIsFinalCorrect == Spec => FinishedIsFinal
  <1>1. IInv /\ [Next]_vars =>
          [\A r \in RunId : db[r].finished /\ ~db[r].cancel /\ job[r] # "catching" =>
             db'[r] = db[r]]_vars
    BY FinalStep
  <1>2. IInv /\ [Next]_vars =>
          [proc = "stopping" /\ proc' = "down" /\ UNCHANGED <<faults, crashes>> =>
             \A r \in awaited : db[r].finished]_vars
    BY ExitStep
  <1> QED BY <1>1, <1>2, Invariance, PTL DEF Spec, FinishedIsFinal, UncancelledIsFinal, ShutdownWaits
=============================================================================
