---------------------------- MODULE VendorRuntime ----------------------------
(***************************************************************************)
(* The vendor runtime of one run: the handlers of                          *)
(* platform-actions/src/vendor-actions.ts, the state they share            *)
(* (registry.ts), the runtime manager and the Docker engine under them,    *)
(* the calls a container serves and the ledger that is collected from its  *)
(* log, the lease of the container, and the two ways it is cleaned: by the *)
(* run's own cleanups, or by the persisted cleaner.                        *)
(*                                                                         *)
(* One vendor, and so one container name.  Handlers of retried, timed-out  *)
(* and parallel steps run side by side.  What a container answers is       *)
(* VendorScript's subject; here a call matters for the lines it logs.      *)
(***************************************************************************)
EXTENDS VendorLedger

CONSTANTS
  Attempt,        \* handlers that may be in flight at once
  MaxContainers, MaxCompiles, MaxCalls, MaxStarts,   \* bounds
  MaxTroubles     \* bound: failed or lost calls of docker and of the database, crashes

ASSUME BoundsAssumption == MaxContainers \in Nat /\ MaxCalls \in Nat

VARIABLES
  vendors,     \* the VendorStates of the run; the map holds the last
  containers,  \* containers[c]: "running" or "removed"
  log,         \* log[c]: what the container logged
  under,       \* calls that have no summary yet
  calls,       \* calls made
  correlated,  \* whether the calls carry a correlation
  at,          \* at[h]: the handler, where it stands and what it holds
  leases,      \* containers with an unreleased lease
  cleanups,    \* the run's cleanups: 0 is "platform-run-state"
  cleanupRegistered,
  recordedCalls,   \* the provider calls in the database, in order
  claimed,     \* the calls in a recorded ledger summary
  phase,       \* "running", "cleaning", "over", "crashed"
  starts, troubles,
  forgotten,   \* containers that docker lost for the run, or a crash
  unleased,    \* containers whose lease could not be written
  unwritten    \* calls whose write was refused

platform == <<vendors, cleanupRegistered>>
docker == <<containers, log, under, calls>>
database == <<leases, recordedCalls, claimed, unwritten, unleased>>
bounds == <<starts, troubles>>
vars == <<platform, docker, database, correlated, at, cleanups, phase, bounds, forgotten>>

Container == 1..MaxContainers
Idle == [op |-> "none", step |-> "idle", gen |-> 0, c |-> 0, todo |-> <<>>, all |-> {},
         aborted |-> FALSE]
NewVendor == [runtime |-> 0, leased |-> FALSE, recorded |-> {}, stopped |-> {}]
Trouble == troubles < MaxTroubles /\ troubles' = troubles + 1

Init ==
  /\ vendors = <<>> /\ cleanupRegistered = FALSE
  /\ containers = <<>> /\ log = [c \in Container |-> <<>>] /\ under = {} /\ calls = 0
  /\ correlated \in BOOLEAN
  /\ at = [h \in Attempt |-> Idle]
  /\ leases = {} /\ cleanups = <<>> /\ recordedCalls = <<>> /\ claimed = {} /\ unwritten = {}
  /\ unleased = {}
  /\ phase = "running" /\ starts = 0 /\ troubles = 0 /\ forgotten = {}
-----------------------------------------------------------------------------
(* Handlers: how they start and end.                                       *)

Goes(h, step) == at' = [at EXCEPT ![h].step = step]
Ends(h) == at' = [at EXCEPT ![h] = Idle]

\* stateFor: the first handler of a run registers the cleanup of its state.
stateFor ==
  /\ cleanupRegistered' = TRUE
  /\ cleanups' = IF cleanupRegistered THEN cleanups ELSE Append(cleanups, 0)

Begins(h, op, step, c) ==
  /\ phase = "running" /\ at[h] = Idle /\ starts < MaxStarts
  /\ starts' = starts + 1
  /\ at' = [at EXCEPT ![h] = [Idle EXCEPT !.op = op, !.step = step,
                                          !.gen = Len(vendors), !.c = c]]
  /\ UNCHANGED <<docker, database, correlated, phase, troubles, forgotten>>

\* vendor.compile up to the written bundle: checks, loads, compiles and writes files.
Compile(h) ==
  Begins(h, "compile", "compiling", 0) /\ UNCHANGED <<platform, cleanups>>

\* requireRuntime: collecting needs a runtime of the vendor in the map.
Collect(h, op, step) ==
  /\ vendors # <<>> /\ Last(vendors).runtime # 0
  /\ Begins(h, op, step, Last(vendors).runtime)
  /\ stateFor /\ UNCHANGED vendors

\* vendor.start-runtime: a vendor that has its runtime goes on to its lease.
StartRuntime(h) ==
  /\ vendors # <<>>
  /\ LET vendor == Last(vendors)
     IN Begins(h, "start", IF vendor.runtime = 0 THEN "docker-run"
                           ELSE IF ~vendor.leased THEN "leasing" ELSE "observing",
               vendor.runtime)
  /\ stateFor /\ UNCHANGED vendors

handlersOnly == <<docker, database, correlated, phase, starts, forgotten>>

\* The bundle is written: a new VendorState replaces the one in the map.
Compiled(h) ==
  /\ at[h].step = "compiling" /\ Len(vendors) < MaxCompiles
  /\ vendors' = Append(vendors, NewVendor)
  /\ stateFor
  /\ Goes(h, "artifacts")
  /\ UNCHANGED <<handlersOnly, troubles>>

\* The package is refused, or its bundle cannot be written.
CompileFails(h) ==
  /\ at[h].step = "compiling" /\ Ends(h)
  /\ UNCHANGED <<platform, cleanups, handlersOnly, troubles>>

\* vendor.collect-state: the stores are read one by one, and an HTTP error ends the handler.
SnapshotRead(h, ok) ==
  /\ at[h].step = "snapshot"
  /\ IF ok THEN Goes(h, "observing") ELSE Ends(h)
  /\ UNCHANGED <<platform, cleanups, handlersOnly, troubles>>

\* The two artifacts of a bundle and the final observation of a handler: what is written is
\* not looked at again, and a failure ends the handler too.
Recorded(h) ==
  /\ at[h].step \in {"artifacts", "observing"}
  /\ Ends(h)
  /\ UNCHANGED <<platform, cleanups, handlersOnly, troubles>>
-----------------------------------------------------------------------------
(* ImposterRuntimeManager.start and the Docker engine under it.            *)

nameTaken == \E c \in DOMAIN containers : containers[c] = "running"
Settles(h) == UNCHANGED <<vendors, cleanupRegistered, cleanups, database, correlated, phase, starts>>

\* docker run --name: a name that is taken is refused, and nothing is left to remove.
DockerRun(h) ==
  /\ at[h].step = "docker-run"
  /\ IF nameTaken THEN Ends(h) /\ UNCHANGED containers
     ELSE /\ Len(containers) < MaxContainers
          /\ containers' = Append(containers, "running")
          /\ at' = [at EXCEPT ![h].step = "waiting", ![h].c = Len(containers) + 1]
  /\ UNCHANGED <<log, under, calls, troubles, forgotten>> /\ Settles(h)

\* The command fails or outlives its timeout; the container may have been created, and its
\* identifier is lost.
DockerRunFails(h, created) ==
  /\ at[h].step = "docker-run" /\ Trouble
  /\ IF created /\ ~nameTaken /\ Len(containers) < MaxContainers
     THEN /\ containers' = Append(containers, "running")
          /\ forgotten' = forgotten \cup {Len(containers) + 1}
     ELSE UNCHANGED <<containers, forgotten>>
  /\ Ends(h)
  /\ UNCHANGED <<log, under, calls>> /\ Settles(h)

\* docker rm --force, whose failure the engine tolerates.
removeContainer(c, works) ==
  /\ containers' = IF works THEN [containers EXCEPT ![c] = "removed"] ELSE containers
  /\ IF works THEN UNCHANGED <<forgotten, troubles>>
     ELSE Trouble /\ forgotten' = forgotten \cup {c}

\* Mutant: the wait does not look at the signal of its step.
RuntimeReadyLate(h) ==
  /\ at[h].step = "waiting"
  /\ Goes(h, "ready")
  /\ UNCHANGED <<platform, cleanups, handlersOnly, troubles>>

\* waitForReady reads a status that is ok; with its signal aborted it throws instead.
RuntimeReady(h) ==
  /\ at[h].step = "waiting" /\ ~at[h].aborted
  /\ Goes(h, "ready")
  /\ UNCHANGED <<platform, cleanups, handlersOnly, troubles>>

\* start returns, aborted meanwhile or not, and the handler stores the runtime in its vendor.
RuntimeStored(h) ==
  /\ at[h].step = "ready"
  /\ vendors' = [vendors EXCEPT ![at[h].gen].runtime = at[h].c]
  /\ Goes(h, IF vendors[at[h].gen].leased THEN "observing" ELSE "leasing")
  /\ UNCHANGED <<cleanupRegistered, cleanups, handlersOnly, troubles>>

\* It times out, or the step is aborted: start removes the container and throws.
RuntimeUnready(h, works) ==
  /\ at[h].step = "waiting"
  /\ removeContainer(at[h].c, works)
  /\ Ends(h)
  /\ UNCHANGED <<log, under, calls>> /\ Settles(h)

\* registerResourceLease: the lease is stored, then the cleanup is pushed.
LeaseStored(h) ==
  /\ at[h].step = "leasing"
  /\ leases' = leases \cup {at[h].c} /\ unleased' = unleased \ {at[h].c}
  /\ cleanups' = Append(cleanups, at[h].c)
  /\ vendors' = [vendors EXCEPT ![at[h].gen].leased = TRUE]
  /\ Goes(h, "observing")
  /\ UNCHANGED <<cleanupRegistered, docker, recordedCalls, claimed, unwritten, correlated,
                 phase, bounds, forgotten>>

\* The write is refused, or its answer lost: the runtime stays in the vendor without a
\* cleanup, until a later attempt registers it.
LeaseFails(h, stored) ==
  /\ at[h].step = "leasing" /\ Trouble
  /\ leases' = IF stored THEN leases \cup {at[h].c} ELSE leases
  /\ unleased' = unleased \cup ({at[h].c} \ leases')
  /\ Ends(h)
  /\ UNCHANGED <<platform, cleanups, docker, recordedCalls, claimed, unwritten, correlated,
                 phase, starts, forgotten>>
-----------------------------------------------------------------------------
(* The calls a container serves, and vendor.collect-ledger.                *)

event(kind, n, corr) == [kind |-> kind, call |-> n, corr |-> corr, case |-> "lookup",
                         data |-> NoData, answer |-> "none"]
corrOf(n) == IF correlated THEN n ELSE NoCorr

\* A call is matched, and its script logs its state.
Called(c) ==
  /\ containers[c] = "running" /\ calls < MaxCalls
  /\ calls' = calls + 1 /\ under' = under \cup {<<c, calls'>>}
  /\ log' = [log EXCEPT ![c] = @ \o <<event("match", calls', corrOf(calls')),
                                      event("state", calls', corrOf(calls'))>>]
  /\ UNCHANGED <<containers, platform, database, correlated, at, cleanups, phase, bounds, forgotten>>

\* It is answered, and its summary logged.
Answered(c, n) ==
  /\ <<c, n>> \in under /\ containers[c] = "running"
  /\ under' = under \ {<<c, n>>}
  /\ log' = [log EXCEPT ![c] = Append(@, event("summary", n, corrOf(n)))]
  /\ UNCHANGED <<containers, calls, platform, database, correlated, at, cleanups, phase, bounds,
                 forgotten>>

\* collectLedger: docker logs, whose failure the engine tolerates as an empty log.
LogsRead(h, works) ==
  /\ at[h].step = "logs"
  /\ IF works THEN UNCHANGED troubles ELSE Trouble
  /\ \E lines \in {IF works /\ containers[at[h].c] = "running" THEN log[at[h].c] ELSE <<>>} :
       LET entries == parseProviderCallLedger(lines)
       IN at' = [at EXCEPT ![h].step = "recording", ![h].todo = entries,
                           ![h].all = {entries[i].call : i \in DOMAIN entries}]
  /\ UNCHANGED <<platform, cleanups, handlersOnly>>

unrecorded(h) ==
  {i \in DOMAIN at[h].todo : ledgerKey(at[h].todo[i]) \notin vendors[at[h].gen].recorded}

\* Mutant: a call is marked when its write has succeeded.
RecordNextUnmarked(h) ==
  /\ at[h].step = "recording" /\ unrecorded(h) # {}
  /\ LET i == CHOOSE i \in unrecorded(h) : \A j \in unrecorded(h) : i <= j
     IN at' = [at EXCEPT ![h].step = "writing",
                         ![h].todo = SubSeq(@, i, Len(@))]
  /\ UNCHANGED <<platform, cleanups, handlersOnly, troubles>>

\* The next entry whose key is new is marked as recorded, then written.
RecordNext(h) ==
  /\ at[h].step = "recording" /\ unrecorded(h) # {}
  /\ LET i == CHOOSE i \in unrecorded(h) : \A j \in unrecorded(h) : i <= j
     IN /\ vendors' = [vendors EXCEPT ![at[h].gen].recorded = @ \cup {ledgerKey(at[h].todo[i])}]
        /\ at' = [at EXCEPT ![h].step = "writing", ![h].todo = SubSeq(@, i, Len(@))]
  /\ UNCHANGED <<cleanupRegistered, cleanups, handlersOnly, troubles>>

\* recordProviderCall: a refused write ends the handler; the entry stays marked.
CallWritten(h, ok) ==
  LET entry == at[h].todo[1]
  IN /\ at[h].step = "writing"
     /\ IF ok
        THEN /\ recordedCalls' = Append(recordedCalls, entry)
             /\ at' = [at EXCEPT ![h].step = "recording", ![h].todo = Tail(@)]
             /\ UNCHANGED <<troubles, unwritten>>
        ELSE /\ Trouble /\ Ends(h) /\ unwritten' = unwritten \cup {entry.call}
             /\ UNCHANGED recordedCalls
     /\ UNCHANGED <<platform, cleanups, docker, leases, claimed, unleased, correlated, phase, starts,
                    forgotten>>

\* Mutant: the summary is written before the calls.
SummariseEarly(h) ==
  /\ at[h].step = "recording"
  /\ claimed' = claimed \cup at[h].all
  /\ Goes(h, "observing")
  /\ UNCHANGED <<platform, cleanups, docker, leases, recordedCalls, unwritten, unleased, correlated,
                 phase, bounds, forgotten>>

\* Nothing is left to record: the summary names the whole ledger.
Summarise(h) ==
  /\ at[h].step = "recording" /\ unrecorded(h) = {}
  /\ claimed' = claimed \cup at[h].all
  /\ Ends(h)
  /\ UNCHANGED <<platform, cleanups, docker, leases, recordedCalls, unwritten, unleased, correlated,
                 phase, bounds, forgotten>>
-----------------------------------------------------------------------------
(* The end of the run, a crash, and the persisted cleaner.                 *)

\* Only the start of a runtime looks at the signal of its step.
Heeds(h) == at[h].step \in {"docker-run", "waiting"}

\* A step times out: its signal is aborted, and the executor stops waiting for the handler.
Abandon(h) ==
  /\ phase = "running" /\ Heeds(h) /\ ~at[h].aborted
  /\ at' = [at EXCEPT ![h].aborted = TRUE]
  /\ UNCHANGED <<platform, docker, database, correlated, cleanups, phase, bounds, forgotten>>

\* The scenario ends; handlers still under way are those whose signal was aborted.
BeginCleanup ==
  /\ phase = "running" /\ phase' = "cleaning"
  /\ at' = [h \in Attempt |-> [at[h] EXCEPT !.aborted = Heeds(h)]]
  /\ UNCHANGED <<platform, docker, database, correlated, cleanups, bounds, forgotten>>

\* The cleanup of a lease: runtime.stop (once per runtime), then the runtime leaves its vendor
\* and the lease is released.
CleanLease(works) ==
  /\ phase = "cleaning" /\ cleanups # <<>> /\ Last(cleanups) # 0
  /\ LET c == Last(cleanups)
         gone == \E g \in DOMAIN vendors : c \in vendors[g].stopped
     IN /\ IF gone THEN works /\ UNCHANGED <<containers, forgotten, troubles>>
           ELSE removeContainer(c, works)
        /\ vendors' = [g \in DOMAIN vendors |->
                         [vendors[g] EXCEPT !.runtime = IF @ = c THEN 0 ELSE @,
                                            !.stopped = IF vendors[g].runtime = c
                                                        THEN @ \cup {c} ELSE @]]
        /\ leases' = leases \ {c}
  /\ cleanups' = Front(cleanups)
  /\ UNCHANGED <<cleanupRegistered, log, under, calls, recordedCalls, claimed, unwritten,
                 unleased, correlated, at, phase, starts>>

\* The cleanup of the run's state, the first registered and so the last to run, forgets the
\* state; it fails if the vendor in the map still has a runtime, which ends the loop alike.
CleanState ==
  /\ phase = "cleaning"
  /\ cleanups \in {<<>>, <<0>>}
  /\ cleanups' = <<>> /\ phase' = "over"
  /\ UNCHANGED <<platform, docker, database, correlated, at, bounds, forgotten>>

\* What only the memory of the process knew of is lost with it.
Crash ==
  /\ phase \in {"running", "cleaning", "over"} /\ Trouble
  /\ phase' = "crashed"
  /\ forgotten' = forgotten \cup {c \in DOMAIN containers : containers[c] = "running" /\ c \notin leases}
  /\ at' = [h \in Attempt |-> Idle] /\ cleanups' = <<>>
  /\ vendors' = <<>> /\ cleanupRegistered' = FALSE
  /\ unwritten' = unwritten \cup {at[h].todo[1].call : h \in {k \in Attempt : at[k].step = "writing"}}
  /\ UNCHANGED <<docker, leases, recordedCalls, claimed, unleased, correlated, starts>>

\* Mutant: only the leases of crashed runs are recovered.
RecoverCrashed(c, works) ==
  /\ phase = "crashed" /\ c \in leases
  /\ removeContainer(c, works)
  /\ leases' = leases \ {c}
  /\ UNCHANGED <<platform, log, under, calls, recordedCalls, claimed, unwritten, unleased,
                 correlated, at, cleanups, phase, starts>>

\* The persisted cleaner "vendor-runtime": recovery after a crash, or maintenance when the
\* lease of a finished run expires.
Recover(c, works) ==
  /\ phase \in {"over", "crashed"} /\ c \in leases
  /\ removeContainer(c, works)
  /\ leases' = leases \ {c}
  /\ UNCHANGED <<platform, log, under, calls, recordedCalls, claimed, unwritten, unleased,
                 correlated, at, cleanups, phase, starts>>

Handler(h) ==
  \/ Compile(h) \/ StartRuntime(h)
  \/ Collect(h, "collect-ledger", "logs") \/ Collect(h, "collect-state", "snapshot")
  \/ \E ok \in BOOLEAN : DockerRunFails(h, ok) \/ LeaseFails(h, ok)

\* What a handler in flight goes on to do by itself.
Continues(h) ==
  \/ Compiled(h) \/ CompileFails(h) \/ Recorded(h)
  \/ DockerRun(h) \/ RuntimeReady(h) \/ RuntimeStored(h) \/ LeaseStored(h) \/ RecordNext(h) \/ Summarise(h)
  \/ \E ok \in BOOLEAN : RuntimeUnready(h, ok) \/ LogsRead(h, ok) \/ CallWritten(h, ok)
                         \/ SnapshotRead(h, ok)

Next ==
  \/ \E h \in Attempt : Handler(h) \/ Continues(h) \/ Abandon(h)
  \/ \E c \in DOMAIN containers : \/ Called(c) \/ (\E n \in 1..MaxCalls : Answered(c, n))
                                  \/ (\E works \in BOOLEAN : Recover(c, works))
  \/ BeginCleanup \/ CleanState \/ Crash
  \/ \E works \in BOOLEAN : CleanLease(works)

\* Docker and the database answer (the engine's commands have a timeout), the executor runs
\* its cleanups, and recovery and maintenance come round to every lease.
FairSpec ==
  /\ Init /\ [][Next]_vars
  /\ \A h \in Attempt : WF_vars(Continues(h))
  /\ WF_vars(CleanState \/ \E works \in BOOLEAN : CleanLease(works))
  /\ \A c \in Container : WF_vars(\E works \in BOOLEAN : Recover(c, works))
-----------------------------------------------------------------------------
(* Properties.                                                             *)

HandlerStep == {"idle", "compiling", "artifacts", "docker-run", "waiting", "ready", "leasing",
                "observing", "logs", "recording", "writing", "snapshot"}

\* The vendors, containers, handlers and records have their types.
TypeOK ==
  /\ Len(vendors) <= MaxCompiles /\ Len(containers) <= MaxContainers
  /\ \A g \in DOMAIN vendors : vendors[g].runtime \in {0} \cup DOMAIN containers
  /\ \A h \in Attempt : at[h].step \in HandlerStep /\ at[h].gen \in 0..MaxCompiles
  /\ leases \cup forgotten \cup unleased \subseteq DOMAIN containers
  /\ phase \in {"running", "cleaning", "over", "crashed"}
  /\ starts \in 0..MaxStarts /\ troubles \in 0..MaxTroubles

\* A container that runs is leased, or a handler in flight has yet to lease it, or a fault
\* (of docker, of the lease's write, or a crash before it) made the run lose sight of it:
\* neither parallel and retried starts, nor a second compilation, nor a handler that outlives
\* its run leaves a container that nobody would remove.
NoContainerUnaccounted ==
  \A c \in DOMAIN containers : containers[c] = "running" =>
    \/ c \in leases \cup forgotten \cup unleased
    \/ \E h \in Attempt : at[h].c = c /\ at[h].step \in {"waiting", "ready", "leasing"}

\* A collected call is stored once, however many collections run side by side, unless a
\* collection caught it before its summary was logged (then its key changes with it).
CallsRecordedOnce ==
  \A i, j \in DOMAIN recordedCalls :
    i < j /\ recordedCalls[i].call = recordedCalls[j].call =>
      0 \in {recordedCalls[i].summary, recordedCalls[j].summary}

\* vendor.collect-ledger writes deduplicated provider-call records.
CallsDeduplicated ==
  \A i, j \in DOMAIN recordedCalls :
    recordedCalls[i].call = recordedCalls[j].call => i = j

\* A ledger summary counts no call that is not stored: every call it counts was written, is
\* being written by another collection, or its write was refused.  (Calls without a
\* correlation that are caught before their summaries share one key.)
SummaryIsTrue ==
  correlated =>
    claimed \subseteq {recordedCalls[i].call : i \in DOMAIN recordedCalls} \cup unwritten
                        \cup {at[h].todo[1].call : h \in {k \in Attempt : at[k].step = "writing"}}

\* When the run is over, every container of it that no fault hid is removed in the end.
ContainersConverge ==
  \A c \in Container :
    phase \in {"over", "crashed"} /\ c \in DOMAIN containers
      ~> (c \in DOMAIN containers /\ containers[c] = "removed") \/ c \in forgotten \cup unleased
=============================================================================
