----------------------------- MODULE DemoSession -----------------------------
(***************************************************************************)
(* InteractiveDemoService of apps/control-plane: the life of one demo      *)
(* session, its row, its GL-EYE workspace and its resource leases, as      *)
(* operators, the expiry timer, the enrichment watch, maintenance and the  *)
(* recovery at startup act on it.                                          *)
(*                                                                         *)
(* Each action is the code between two awaits.  Every operation runs in a  *)
(* slot; what withTransition serializes waits in lock, the rest does not.  *)
(* DemoSessionRepository.update is two awaits: it reads the row, then      *)
(* writes every column back.  Sessions share nothing, so there is one.     *)
(***************************************************************************)
EXTENDS Naturals, Sequences, FiniteSets

CONSTANTS
  Req,            \* slots for concurrent requests of operators
  MaxWorkspaces,  \* bound: workspaces GL-EYE creates for the session
  MaxRequests,    \* bound: requests
  MaxExpiries,    \* bound: times the session's TTL runs out
  MaxFaults,      \* bound: calls that fail
  MaxCrashes      \* bound: crashes and shutdowns of the process

ASSUME BoundAssumption ==
  /\ MaxWorkspaces \in Nat \ {0} /\ MaxRequests \in Nat /\ MaxExpiries \in Nat
  /\ MaxFaults \in Nat /\ MaxCrashes \in Nat
ASSUME NameAssumption == Req \cap {"create", "timer", "boot"} = {}

Queued == Req \cup {"timer"}             \* slots whose operations take the lock
Slot == Queued \cup {"create", "boot"}
Workspace == 1..MaxWorkspaces
Res == MaxWorkspaces + 1                 \* the leases of all other resources
Lease == Workspace \cup {Res}

VARIABLES
  row,        \* the row of interactive_demo_sessions
  over,       \* how many of the session's TTLs have run out
  ws,         \* ws[w]: workspace w at GL-EYE: "none", "live", "paused" or "gone"
  leases,     \* ACTIVE leases: workspaces, and Res for runtimes, site and route
  prepared,   \* the workspace the adapter has prepared in this process, or 0
  runtime,    \* the session has an entry in runtimes
  proc,       \* the process: "down", "boot", "up" or "closing"
  op,         \* op[o]: the operation in slot o and what it awaits
  lock,       \* transitions: the slots that hold or await the session's lock
  out,        \* the collection of an outcome in flight
  holes,      \* history: "overlap" once a write hit a row changed since it was
              \* read, or an operation began during create; "unmarked" once
              \* failSession deleted the workspace of a row that says READY;
              \* "reaped" once maintenance deleted one kept for a retry
  requests, faults, crashes

target == <<ws, leases, prepared, runtime>>
world == <<over, proc, lock, requests, crashes>>
vars == <<row, target, world, op, out, holes, faults>>

NoRow == [status |-> "NONE", target |-> 0, keep |-> FALSE, pwd |-> FALSE,
          stopped |-> FALSE, life |-> 0]

\* kind: the operation; pc: what it awaits; snap: its session; seen: the row
\* an update has read; todo: leases to go; w: the prepared workspace; gone:
\* targetDeleted; err: a cleanup error; auto: started by the expiry.
Idle == [kind |-> "idle", pc |-> "none", snap |-> NoRow, seen |-> NoRow, todo |-> {},
         w |-> 0, gone |-> FALSE, err |-> FALSE, auto |-> FALSE]
NoOutcome == [pc |-> "none", seen |-> NoRow]

Init ==
  /\ row = NoRow /\ over = 0 /\ ws = [w \in Workspace |-> "none"] /\ leases = {}
  /\ prepared = 0 /\ runtime = FALSE /\ proc = "up"
  /\ op = [o \in Slot |-> Idle] /\ lock = <<>> /\ out = NoOutcome
  /\ holes = {} /\ requests = 0 /\ faults = 0 /\ crashes = 0

\* A call succeeds, or is one of the MaxFaults that fail.
Call(ok) == \/ ok /\ UNCHANGED faults
            \/ ~ok /\ faults < MaxFaults /\ faults' = faults + 1

Existing == {w \in Workspace : ws[w] \in {"live", "paused"}}
expired(r) == r.life <= over
isLive(r) == r.status \in {"READY", "ACTIVE"}

At(o, k, p) == op[o].kind \in k /\ op[o].pc = p
HasTurn(o) == o \in Queued => lock # <<>> /\ Head(lock) = o

-----------------------------------------------------------------------------
(* Exceptions                                                              *)

Begin(s, k, p) == [s EXCEPT !.kind = k, !.pc = p, !.seen = NoRow, !.todo = {}]

\* Mutant: a failed resume goes the way of a failed provisioning.
catch_ResumeDeletes(s) ==
  IF s.kind = "hibernate" /\ s.pc \in {"pause", "list", "release", "done", "log"}
    THEN Begin(s, "hibernate", "fail")
  ELSE IF (s.kind = "create" /\ s.pc # "log created") \/ s.kind \in {"resume", "recover"}
    THEN Begin(s, "fail", "delete")
  ELSE Begin(s, s.kind, "throw")

\* Where an exception takes the operation s: to the catch of hibernate; from
\* resume, or the recovery of a kept workspace, to hibernate; from create and
\* the recovery of any other to failSession; else out of the operation.
catch(s) ==
  IF s.kind = "hibernate" /\ s.pc \in {"pause", "list", "release", "done", "log"}
    THEN Begin(s, "hibernate", "fail")
  ELSE IF \/ s.kind = "resume" /\ s.pc \notin {"get", "mark"}
          \/ s.kind = "recover" /\ s.snap.keep /\ s.snap.target # 0
    THEN Begin(s, "hibernate", "get")
  ELSE IF (s.kind = "create" /\ s.pc # "log created") \/ s.kind = "recover"
    THEN Begin(s, "fail", "delete")
  ELSE Begin(s, s.kind, "throw")

Throw(o) == op' = [op EXCEPT ![o] = catch(@)]

\* A call that changes nothing modelled here: on to p, or an exception.
Await(o, ok, p) ==
  /\ Call(ok)
  /\ IF ok THEN op' = [op EXCEPT ![o].pc = p] ELSE Throw(o)
  /\ UNCHANGED <<row, target, world, out, holes>>

-----------------------------------------------------------------------------
(* DemoSessionRepository.update                                            *)

Updates == {<<"create", "mark">>, <<"create", "ready">>, <<"fail", "done">>,
            <<"visitor", "mark">>, <<"hibernate", "mark">>, <<"hibernate", "done">>,
            <<"hibernate", "fail">>, <<"resume", "mark">>, <<"resume", "enter">>,
            <<"resume", "ready">>, <<"recover", "enter">>, <<"recover", "ready">>,
            <<"stop", "mark">>, <<"stop", "done">>, <<"shutdown", "route">>}

\* Its get.
ReadRow(o, ok) ==
  /\ <<op[o].kind, op[o].pc>> \in Updates /\ op[o].seen = NoRow
  /\ Call(ok)
  /\ IF ok THEN op' = [op EXCEPT ![o].seen = row] ELSE Throw(o)
  /\ UNCHANGED <<row, target, world, out, holes>>

\* A write of the row r, patched from what was read.
overwrite(seen, r) ==
  /\ row' = r
  /\ holes' = IF row # seen THEN holes \cup {"overlap"} ELSE holes

\* create and stop go on with the row they have written.
update(o, r, p) ==
  /\ op[o].seen # NoRow
  /\ overwrite(op[o].seen, r)
  /\ op' = [op EXCEPT ![o].pc = p, ![o].seen = NoRow,
                      ![o].snap = IF op[o].kind \in {"create", "stop"} THEN r ELSE @]
  /\ UNCHANGED <<target, world, out, faults>>

\* Beginning a serialized operation while create runs is an overlap.
Enter == holes' = IF op["create"].kind # "idle" THEN holes \cup {"overlap"} ELSE holes

-----------------------------------------------------------------------------
(* create                                                                  *)

Create(keep) ==
  /\ proc = "up" /\ row = NoRow
  /\ row' = [NoRow EXCEPT !.status = "CREATE", !.keep = keep, !.pwd = TRUE, !.life = over + 1]
  /\ runtime' = TRUE
  /\ op' = [op EXCEPT !["create"] = [Idle EXCEPT !.kind = "create", !.pc = "log created"]]
  /\ UNCHANGED <<ws, leases, prepared, world, out, holes, faults>>

LogCreated(o, ok) == At(o, {"create"}, "log created") /\ Await(o, ok, "mark")

CreateMark(o) ==
  /\ At(o, {"create"}, "mark")
  /\ update(o, [op[o].seen EXCEPT !.status = "PROVISIONING"], "vendors")

CreateReady(o) ==
  /\ At(o, {"create"}, "ready")
  /\ update(o, [op[o].seen EXCEPT !.status = "READY", !.target = op[o].w], "log ready")

\* The vendor runtimes.  One that starts is leased even if a later one fails.
StartVendors(o, ok) ==
  /\ At(o, {"create"}, "vendors") /\ Call(ok)
  /\ \/ leases' = leases \cup {Res}
     \/ ~ok /\ UNCHANGED leases
  /\ IF ok THEN op' = [op EXCEPT ![o].pc = "prepare"] ELSE Throw(o)
  /\ UNCHANGED <<row, ws, prepared, runtime, world, out, holes>>

-----------------------------------------------------------------------------
(* target.prepare-run, and what create and resumeSession start             *)

Provisions == {"create", "resume", "recover"}

\* POST /runs: the workspace of this run if it has one, else a new one.  The
\* answer may be lost.
PrepareRun(o, ok) ==
  /\ At(o, Provisions, "prepare") /\ Call(ok)
  /\ \/ /\ ok /\ op[o].snap.pwd
        /\ \E w \in Workspace :
             /\ IF prepared # 0 THEN w = prepared
                ELSE IF Existing # {} THEN w \in Existing
                ELSE ws[w] = "none"
             /\ ws' = IF prepared = 0 /\ ws[w] = "none" THEN [ws EXCEPT ![w] = "live"] ELSE ws
             /\ prepared' = w
             /\ op' = [op EXCEPT ![o].w = w, ![o].pc = "lease"]
     \/ /\ \/ ~ok \/ ~op[o].snap.pwd
           \/ prepared = 0 /\ \A w \in Workspace : ws[w] = "gone"
        /\ Throw(o)
        /\ \/ UNCHANGED ws
           \/ /\ ~ok /\ prepared = 0 /\ Existing = {}
              /\ \E w \in Workspace : ws[w] = "none" /\ ws' = [ws EXCEPT ![w] = "live"]
        /\ UNCHANGED prepared
  /\ UNCHANGED <<row, leases, runtime, world, out, holes>>

\* registerResourceLease; an ACTIVE lease of the same workspace is refused by
\* the unique index.  resume requires the workspace it has saved.
Register(o, ok) ==
  /\ At(o, Provisions, "lease") /\ Call(ok)
  /\ LET stored == ok /\ op[o].w \notin leases
         saved == op[o].kind = "resume" => op[o].w = op[o].snap.target
     IN /\ leases' = IF stored THEN leases \cup {op[o].w} ELSE leases
        /\ IF stored /\ saved
           THEN op' = [op EXCEPT ![o].pc = IF op[o].kind = "resume" THEN "unpause" ELSE "provision"]
           ELSE Throw(o)
  /\ UNCHANGED <<row, ws, prepared, runtime, world, out, holes>>

Unpause(o, ok) ==
  /\ At(o, {"resume"}, "unpause") /\ Call(ok)
  /\ IF ok /\ op[o].w \in Existing
     THEN /\ op' = [op EXCEPT ![o].pc = "provision"] /\ ws' = [ws EXCEPT ![op[o].w] = "live"]
     ELSE Throw(o) /\ (UNCHANGED ws \/ (op[o].w \in Existing /\ ws' = [ws EXCEPT ![op[o].w] = "live"]))
  /\ UNCHANGED <<row, leases, prepared, runtime, world, out, holes>>

\* Vendors (resumeSession), route, site and the adapter's configure calls,
\* which need the prepared workspace.
Provision(o, ok) ==
  /\ At(o, Provisions, "provision") /\ Call(ok)
  /\ \/ leases' = leases \cup {Res}
     \/ ~ok /\ UNCHANGED leases
  /\ IF ok /\ prepared = op[o].w THEN op' = [op EXCEPT ![o].pc = "ready"] ELSE Throw(o)
  /\ UNCHANGED <<row, ws, prepared, runtime, world, out, holes>>

LogReady(o, ok) == At(o, Provisions, "log ready") /\ Await(o, ok, "return")

-----------------------------------------------------------------------------
(* Leases: suspendRuntime, cleanupRecoverableResources, cleanupSession     *)

ListLeases(o, ok) ==
  /\ op[o].pc = "list" /\ Call(ok)
  /\ IF ok THEN op' = [op EXCEPT ![o].pc = "release", ![o].todo = leases] ELSE Throw(o)
  /\ UNCHANGED <<row, target, world, out, holes>>

delete(S) ==
  /\ ws' = [w \in Workspace |-> IF w \in S THEN "gone" ELSE ws[w]]
  /\ prepared' = IF prepared \in S THEN 0 ELSE prepared

\* Mutant: hibernation keeps the lease of its workspace.
releases_NotTarget(k, l) == k \in {"stop", "fail"} \/ l = Res

\* A shutdown leaves the lease of the workspace.
releases(k, l) == k # "shutdown" \/ l = Res

\* The workspaces that cleaning lease l deletes: only stop and failSession
\* clean a workspace, if they have not deleted it yet.  The cleanup of the
\* runtime is cleanupRun, which deletes what the adapter has prepared.
cleaned(s, l) ==
  IF s.kind \notin {"stop", "fail"} \/ l = Res \/ s.gone THEN {}
  ELSE IF runtime THEN {prepared} \ {0} ELSE {l}

\* Cleaning may succeed and the release fail.  cleanupSession notes an error
\* and goes on, the others throw.
ReleaseLease(o, l, ok) ==
  /\ op[o].pc = "release" /\ l \in op[o].todo /\ Call(ok)
  /\ LET s == [op[o] EXCEPT !.todo = @ \ {l}]
         deletes == s.kind \in {"stop", "fail"} /\ l # Res
     IN \/ /\ ok
           /\ delete(cleaned(op[o], l))
           /\ leases' = IF releases(s.kind, l) THEN leases \ {l} ELSE leases
           /\ op' = [op EXCEPT ![o] = [s EXCEPT !.gone = @ \/ deletes]]
        \/ /\ ~ok /\ s.kind \in {"stop", "fail"} /\ UNCHANGED leases
           /\ \/ /\ delete(cleaned(op[o], l))
                 /\ op' = [op EXCEPT ![o] = [s EXCEPT !.gone = @ \/ deletes, !.err = TRUE]]
              \/ op' = [op EXCEPT ![o] = [s EXCEPT !.err = TRUE]] /\ UNCHANGED <<ws, prepared>>
        \/ ~ok /\ s.kind \notin {"stop", "fail"} /\ Throw(o) /\ UNCHANGED <<ws, prepared, leases>>
  /\ UNCHANGED <<row, runtime, world, out, holes>>

\* resumeSession puts a new runtime in the map, the others remove theirs.
\* The update of suspendRuntime is one with the update that follows it.
EndLeases(o) ==
  /\ op[o].pc = "release" /\ op[o].todo = {}
  /\ LET resumes == op[o].kind \in {"resume", "recover"}
         unconfirmed == op[o].kind \in {"stop", "fail"} /\ op[o].snap.target # 0 /\ ~op[o].gone
     IN /\ runtime' = resumes
        /\ op' = [op EXCEPT ![o].pc = IF resumes THEN "enter"
                                      ELSE IF op[o].kind = "shutdown" THEN "route" ELSE "done",
                            ![o].err = @ \/ unconfirmed]
  /\ UNCHANGED <<row, ws, leases, prepared, world, out, holes, faults>>

-----------------------------------------------------------------------------
(* stop and failSession                                                    *)

StopGet(o, ok) ==
  /\ At(o, {"stop"}, "get") /\ Call(ok) /\ Enter
  /\ IF ~ok THEN Throw(o)
     ELSE op' = [op EXCEPT ![o].pc = IF row.status = "STOPPED" THEN "return" ELSE "mark"]
  /\ UNCHANGED <<row, target, world, out>>

StopMark(o) ==
  /\ At(o, {"stop"}, "mark")
  /\ update(o, [op[o].seen EXCEPT !.status = "DELETING"], "delete")

\* The timeline entry of stop, then target.cleanup-target of the workspace the
\* session names, which is idempotent; its answer may be lost.
DeleteTarget(o, ok) ==
  /\ At(o, {"stop", "fail"}, "delete") /\ Call(ok)
  /\ LET t == op[o].snap.target
     IN \/ op[o].kind = "stop" /\ ~ok /\ Throw(o) /\ UNCHANGED <<ws, prepared>>
        \/ t = 0 /\ ok /\ op' = [op EXCEPT ![o].pc = "list"] /\ UNCHANGED <<ws, prepared>>
        \/ /\ t # 0
           /\ op' = [op EXCEPT ![o].pc = "list", ![o].gone = ok, ![o].err = ~ok]
           /\ delete({t}) \/ (~ok /\ UNCHANGED <<ws, prepared>>)
  /\ holes' = IF op[o].kind = "fail" /\ isLive(row) THEN holes \cup {"unmarked"} ELSE holes
  /\ UNCHANGED <<row, leases, runtime, world, out>>

\* Mutant: errors of the cleanup are overlooked.
erased_Always(s, status) == [s.seen EXCEPT !.status = status, !.stopped = TRUE, !.pwd = FALSE]

\* The password is cleared if the cleanup had no errors.
erased(s, status) ==
  [s.seen EXCEPT !.status = IF s.err THEN "FAILED" ELSE status, !.stopped = TRUE,
                 !.pwd = @ /\ s.err]

StopDone(o) == At(o, {"stop"}, "done") /\ update(o, erased(op[o], "STOPPED"), "finish run")
FailDone(o) == At(o, {"fail"}, "done") /\ update(o, erased(op[o], "FAILED"), "finish run")
FinishRun(o, ok) == At(o, {"stop", "fail"}, "finish run") /\ Await(o, ok, "return")

-----------------------------------------------------------------------------
(* hibernateUnlocked                                                       *)

\* A live session first completes, or joins, the collection of its outcome.
HibernateGet(o, ok) ==
  /\ At(o, {"hibernate"}, "get") /\ Call(ok) /\ Enter
  /\ LET refused == row.target = 0 \/ row.status \notin
                      {"READY", "ACTIVE", "HIBERNATING", "RESUMING", "PROVISIONING", "FAILED"}
         collects == isLive(row) /\ runtime
     IN IF ok /\ row.status = "HIBERNATED"
        THEN op' = [op EXCEPT ![o].pc = "return"] /\ UNCHANGED out
        ELSE IF ~ok \/ refused THEN Throw(o) /\ UNCHANGED out
        ELSE /\ op' = [op EXCEPT ![o].snap = row, ![o].pc = IF collects THEN "wait" ELSE "mark"]
             /\ out' = IF collects /\ out.pc = "none" THEN [out EXCEPT !.pc = "get"] ELSE out
  /\ UNCHANGED <<row, target, world>>

HibernateMark(o) ==
  /\ At(o, {"hibernate"}, "mark")
  /\ update(o, [op[o].seen EXCEPT !.status = "HIBERNATING", !.keep = TRUE], "pause")

\* target.hibernate-run: 404 for a deleted workspace; the adapter forgets it.
Pause(o, ok) ==
  /\ At(o, {"hibernate"}, "pause") /\ Call(ok)
  /\ LET t == op[o].snap.target
         paused == [ws EXCEPT ![t] = "paused"]
     IN IF ok /\ t \in Existing
        THEN /\ op' = [op EXCEPT ![o].pc = "list"] /\ ws' = paused
             /\ prepared' = IF prepared = t THEN 0 ELSE prepared
        ELSE /\ Throw(o) /\ UNCHANGED prepared
             /\ UNCHANGED ws \/ (t \in Existing /\ ws' = paused)
  /\ UNCHANGED <<row, leases, runtime, world, out, holes>>

HibernateDone(o) ==
  /\ At(o, {"hibernate"}, "done")
  /\ update(o, [op[o].seen EXCEPT !.status = "HIBERNATED", !.keep = TRUE], "log")

LogHibernated(o, ok) == At(o, {"hibernate"}, "log") /\ Await(o, ok, "return")

HibernateFail(o) ==
  /\ At(o, {"hibernate"}, "fail")
  /\ update(o, [op[o].seen EXCEPT !.status = "FAILED", !.keep = TRUE], "throw")

-----------------------------------------------------------------------------
(* resume and resumeSession                                                *)

ResumeGet(o, ok) ==
  /\ At(o, {"resume"}, "get") /\ Call(ok) /\ Enter
  /\ IF ok /\ isLive(row) THEN op' = [op EXCEPT ![o].pc = "return"]
     ELSE IF ok /\ row.status = "HIBERNATED" /\ row.target # 0 /\ row.pwd
     THEN op' = [op EXCEPT ![o].pc = "mark", ![o].snap = row]
     ELSE Throw(o)
  /\ UNCHANGED <<row, target, world, out>>

ResumeMark(o) ==
  /\ At(o, {"resume"}, "mark")
  /\ update(o, [op[o].seen EXCEPT !.status = "RESUMING"], "list")

ResumeEnter(o) ==
  /\ At(o, {"resume", "recover"}, "enter")
  /\ update(o, [op[o].seen EXCEPT !.stopped = FALSE,
                  !.status = IF op[o].kind = "resume" THEN "RESUMING" ELSE "PROVISIONING"],
            "prepare")

\* resume starts a new TTL; recovery restores the status.
ResumeReady(o) ==
  /\ At(o, {"resume", "recover"}, "ready")
  /\ update(o, [op[o].seen EXCEPT !.stopped = FALSE, !.target = op[o].w,
                  !.status = IF op[o].kind = "recover" THEN op[o].snap.status ELSE "READY",
                  !.life = IF op[o].kind = "resume" THEN over + 1 ELSE @],
            "log ready")

-----------------------------------------------------------------------------
(* applyVisitor and resetVisitor                                           *)

VisitorGet(o, ok) ==
  /\ At(o, {"visitor"}, "get") /\ Call(ok) /\ Enter
  /\ IF ok /\ isLive(row) /\ ~expired(row) /\ runtime
     THEN op' = [op EXCEPT ![o].pc = "route"] ELSE Throw(o)
  /\ UNCHANGED <<row, target, world, out>>

\* The new route, the providers and the tracking of the site.
VisitorRoute(o, ok) ==
  /\ At(o, {"visitor"}, "route") /\ Call(ok)
  /\ \/ leases' = leases \cup {Res}
     \/ ~ok /\ UNCHANGED leases
  /\ IF ok /\ prepared # 0 THEN op' = [op EXCEPT ![o].pc = "mark"] ELSE Throw(o)
  /\ UNCHANGED <<row, ws, prepared, runtime, world, out, holes>>

VisitorMark(o) ==
  /\ At(o, {"visitor"}, "mark")
  /\ update(o, [op[o].seen EXCEPT !.status = "ACTIVE"], "return")

-----------------------------------------------------------------------------
(* outcome: not serialized; called by operators and the enrichment watch   *)

\* Every caller waiting for the collection goes on.
settled == [o \in Slot |-> IF At(o, {"hibernate"}, "wait") THEN [op[o] EXCEPT !.pc = "mark"]
                           ELSE op[o]]

OutcomeGoto(p) ==
  IF p = "none" THEN out' = NoOutcome /\ op' = settled
  ELSE out' = [pc |-> p, seen |-> NoRow] /\ UNCHANGED op

\* requireRuntime, then at most one collection at a time.
StartOutcome ==
  /\ proc = "up" /\ runtime /\ out.pc = "none"
  /\ out' = [out EXCEPT !.pc = "get"]
  /\ UNCHANGED <<row, target, world, op, holes, faults>>

requireLiveSession == isLive(row) /\ ~expired(row) /\ runtime

\* Mutant: an expired session is stopped, under its lock, before it is refused.
OutcomeGet_Stops(ok) ==
  /\ out.pc = "get" /\ Call(ok) /\ (expired(row) => lock = <<>>)
  /\ OutcomeGoto(IF ok /\ requireLiveSession THEN "collect" ELSE "none")
  /\ UNCHANGED <<row, target, world, holes>>

OutcomeGet(ok) ==
  /\ out.pc = "get" /\ Call(ok)
  /\ OutcomeGoto(IF ok /\ requireLiveSession THEN "collect" ELSE "none")
  /\ UNCHANGED <<row, target, world, holes>>

\* Nothing to do, an enrichment to trigger, or the result of an earlier one to
\* note.
OutcomeCollect(ok, p) ==
  /\ out.pc = "collect" /\ p \in {"none", "trigger", "result"} /\ Call(ok)
  /\ p # "none" => ok /\ prepared # 0
  /\ OutcomeGoto(p)
  /\ UNCHANGED <<row, target, world, holes>>

\* trigger-enrichment and the second collection.
OutcomeVerify(ok) ==
  /\ out.pc = "verify" /\ Call(ok)
  /\ OutcomeGoto(IF ok /\ prepared # 0 THEN "result" ELSE "none")
  /\ UNCHANGED <<row, target, world, holes>>

\* Its updates patch columns that are not modelled, and write back the rest.
OutcomeRead(ok) ==
  /\ out.pc \in {"trigger", "result"} /\ out.seen = NoRow /\ Call(ok)
  /\ IF ok THEN out' = [out EXCEPT !.seen = row] /\ UNCHANGED op ELSE OutcomeGoto("none")
  /\ UNCHANGED <<row, target, world, holes>>

OutcomeWrite ==
  /\ out.seen # NoRow
  /\ overwrite(out.seen, out.seen)
  /\ OutcomeGoto(IF out.pc = "trigger" THEN "verify" ELSE "none")
  /\ UNCHANGED <<target, world, faults>>

-----------------------------------------------------------------------------
(* Requests, the lock and the expiry                                       *)

Request(o, k) ==
  /\ proc = "up" /\ row # NoRow /\ op[o] = Idle /\ requests < MaxRequests
  /\ requests' = requests + 1
  /\ op' = [op EXCEPT ![o] = Begin(Idle, k, "get")]
  /\ lock' = Append(lock, o)
  /\ UNCHANGED <<row, target, over, proc, crashes, out, holes, faults>>

\* expireSessions, and get, list the session; it may change before its turn.
ExpireRead ==
  /\ proc = "up" /\ op["timer"] = Idle /\ isLive(row) /\ expired(row)
  /\ op' = [op EXCEPT !["timer"] = [Begin(Idle, "expire", "enqueue") EXCEPT !.snap = row]]
  /\ UNCHANGED <<row, target, world, out, holes, faults>>

ExpireEnqueue ==
  /\ At("timer", {"expire"}, "enqueue")
  /\ op' = [op EXCEPT !["timer"] =
       [Begin(@, IF @.snap.keep THEN "hibernate" ELSE "stop", "get") EXCEPT !.auto = TRUE]]
  /\ lock' = Append(lock, "timer")
  /\ UNCHANGED <<row, target, over, proc, requests, crashes, out, holes, faults>>

\* The process is gone, and what it kept in memory.
Down ==
  /\ proc' = "down" /\ op' = [o \in Slot |-> Idle] /\ lock' = <<>> /\ out' = NoOutcome
  /\ runtime' = FALSE /\ prepared' = 0

unlocked(o) == IF o \in Queued THEN Tail(lock) ELSE lock

\* Recovery swallows the failure of a pending hibernation; any other ends
\* the startup.
Finish(o) ==
  /\ op[o].pc \in {"return", "throw"}
  /\ LET caught == op[o].kind = "hibernate" /\ op[o].snap.status \in {"HIBERNATING", "RESUMING"}
         ends == o = "boot" /\ (op[o].kind = "shutdown" \/ (op[o].pc = "throw" /\ ~caught))
     IN \/ ends /\ Down
        \/ /\ ~ends
           /\ op' = [op EXCEPT ![o] = Idle] /\ lock' = unlocked(o)
           /\ proc' = IF o = "boot" THEN "up" ELSE proc
           /\ UNCHANGED <<runtime, prepared, out>>
  /\ UNCHANGED <<row, ws, leases, over, requests, crashes, holes, faults>>

-----------------------------------------------------------------------------
(* Startup, shutdown, crashes, time and maintenance                        *)

\* recoverInterruptedSessions; HTTP and timers start after it.
recovery ==
  IF row.status \in {"HIBERNATING", "RESUMING"} THEN "hibernate"
  ELSE IF row.status \in {"DELETING", "CREATE", "PROVISIONING"} THEN "stop"
  ELSE IF isLive(row) /\ expired(row) THEN IF row.keep THEN "hibernate" ELSE "stop"
  ELSE IF isLive(row) THEN "recover" ELSE "none"

Boot ==
  /\ proc = "down"
  /\ IF recovery = "none" THEN proc' = "up" /\ UNCHANGED op
     ELSE /\ proc' = "boot"
          /\ op' = [op EXCEPT !["boot"] =
               [Begin(Idle, recovery, IF recovery = "recover" THEN "list" ELSE "get")
                  EXCEPT !.snap = row]]
  /\ UNCHANGED <<row, target, over, lock, requests, crashes, out, holes, faults>>

\* Fastify waits for requests in flight, then runs the onClose hooks.
Shutdown ==
  /\ proc = "up" /\ crashes < MaxCrashes /\ runtime
  /\ \A o \in Req \cup {"create"} : op[o] = Idle
  /\ proc' = "closing" /\ crashes' = crashes + 1
  /\ op' = [op EXCEPT !["boot"] = [Begin(Idle, "shutdown", "list") EXCEPT !.snap = row]]
  /\ UNCHANGED <<row, target, over, lock, requests, out, holes, faults>>

\* suspendRuntime ends with an update of a column that is not modelled.
ShutdownRoute(o) == At(o, {"shutdown"}, "route") /\ update(o, op[o].seen, "return")

Crash ==
  /\ proc # "down" /\ crashes < MaxCrashes /\ Down /\ crashes' = crashes + 1
  /\ UNCHANGED <<row, ws, leases, over, requests, holes, faults>>

TimePasses ==
  /\ row # NoRow /\ over < MaxExpiries /\ row.life = over + 1 /\ over' = over + 1
  /\ UNCHANGED <<row, target, proc, lock, requests, crashes, op, out, holes, faults>>

\* Maintenance cleans and releases an expired lease.  A lease lasts at least
\* as long as the TTL of its session (24 hours, the longest TTL), so it ends
\* with the session at rest in FAILED or STOPPED.
Reap(l) ==
  /\ proc = "up" /\ l \in leases /\ expired(row) /\ row.status \in {"FAILED", "STOPPED"}
  /\ \A o \in Slot : op[o] = Idle
  /\ leases' = leases \ {l} /\ delete({l} \cap Workspace)
  /\ holes' = IF row.status = "FAILED" /\ ~row.stopped /\ l = row.target
              THEN holes \cup {"reaped"} ELSE holes
  /\ UNCHANGED <<row, runtime, world, op, out, faults>>

-----------------------------------------------------------------------------
Step(o) ==
  /\ HasTurn(o)
  /\ \/ CreateMark(o) \/ CreateReady(o) \/ EndLeases(o) \/ StopMark(o) \/ StopDone(o)
     \/ FailDone(o) \/ HibernateMark(o) \/ HibernateDone(o) \/ HibernateFail(o)
     \/ ResumeMark(o) \/ ResumeEnter(o) \/ ResumeReady(o) \/ VisitorMark(o)
     \/ ShutdownRoute(o) \/ Finish(o)
     \/ \E ok \in BOOLEAN :
          \/ ReadRow(o, ok) \/ LogCreated(o, ok) \/ StartVendors(o, ok) \/ PrepareRun(o, ok)
          \/ Register(o, ok) \/ Unpause(o, ok) \/ Provision(o, ok) \/ LogReady(o, ok)
          \/ ListLeases(o, ok) \/ StopGet(o, ok) \/ DeleteTarget(o, ok)
          \/ FinishRun(o, ok) \/ HibernateGet(o, ok) \/ Pause(o, ok) \/ LogHibernated(o, ok)
          \/ ResumeGet(o, ok) \/ VisitorGet(o, ok) \/ VisitorRoute(o, ok)
          \/ \E l \in Lease : ReleaseLease(o, l, ok)

OutcomeStep ==
  \/ OutcomeWrite
  \/ \E ok \in BOOLEAN : OutcomeGet(ok) \/ OutcomeVerify(ok) \/ OutcomeRead(ok)
  \/ \E ok \in BOOLEAN, p \in {"none", "trigger", "result"} : OutcomeCollect(ok, p)

\* A behaviour is followed up to its first hole.
Next ==
  /\ holes = {}
  /\ \/ \E o \in Slot : Step(o)
     \/ OutcomeStep \/ StartOutcome
     \/ \E keep \in BOOLEAN : Create(keep)
     \/ \E o \in Req, k \in {"visitor", "hibernate", "resume", "stop"} : Request(o, k)
     \/ ExpireRead \/ ExpireEnqueue \/ Boot \/ Shutdown \/ Crash \/ TimePasses
     \/ \E l \in Lease : Reap(l)

Spec == Init /\ [][Next]_vars

\* Calls settle, the timer fires, and the process is started again when it
\* ends ("restart: unless-stopped").
Fairness == /\ \A o \in Slot : WF_vars(Step(o))
            /\ WF_vars(OutcomeStep) /\ WF_vars(ExpireRead \/ ExpireEnqueue) /\ WF_vars(Boot)

FairSpec == Spec /\ Fairness

-----------------------------------------------------------------------------
(* Properties                                                              *)

Status == {"NONE", "CREATE", "PROVISIONING", "READY", "ACTIVE", "HIBERNATING", "HIBERNATED",
           "RESUMING", "DELETING", "STOPPED", "FAILED"}
Row == [status : Status, target : 0..MaxWorkspaces, keep : BOOLEAN, pwd : BOOLEAN,
        stopped : BOOLEAN, life : 0..(MaxExpiries + 1)]

\* Types; the lock queue holds each serialized operation once, and nothing else.
TypeOK ==
  /\ row \in Row /\ over \in 0..MaxExpiries
  /\ ws \in [Workspace -> {"none", "live", "paused", "gone"}] /\ leases \subseteq Lease
  /\ prepared \in 0..MaxWorkspaces /\ runtime \in BOOLEAN
  /\ proc \in {"down", "boot", "up", "closing"}
  /\ DOMAIN op = Slot
  /\ \A o \in Slot : /\ op[o].snap \in Row /\ op[o].seen \in Row /\ op[o].todo \subseteq Lease
                     /\ op[o].w \in 0..MaxWorkspaces
                     /\ {op[o].gone, op[o].err, op[o].auto} \subseteq BOOLEAN
  /\ lock \in Seq(Queued)
  /\ \A o \in Queued : (op[o].kind \notin {"idle", "expire"}) =
                       (Cardinality({n \in DOMAIN lock : lock[n] = o}) = 1)
  /\ out.seen \in Row /\ holes \subseteq {"overlap", "unmarked", "reaped"}
  /\ requests \in 0..MaxRequests /\ faults \in 0..MaxFaults /\ crashes \in 0..MaxCrashes

\* A HIBERNATED session can be resumed: its workspace is there, paused, its
\* password is stored, and no lease is left that would delete the workspace.
\* Whatever failed, crashed or was recovered on the way, unless writes overlapped.
HibernatedIsIntact ==
  row.status = "HIBERNATED" /\ holes = {} =>
    /\ row.pwd /\ row.target # 0 /\ ws[row.target] = "paused"
    /\ leases = {} /\ ~runtime

\* A session is STOPPED, and its password cleared, only once the workspace it
\* names is deleted and every lease released: not after a cleanup of which
\* one call failed, nor after a crash and a recovery in the middle of it.
ErasedIsDeleted ==
  row # NoRow /\ holes = {} =>
    /\ row.status = "STOPPED" => leases = {} /\ ~row.pwd
    /\ ~row.pwd => leases = {} /\ (row.target # 0 => ws[row.target] = "gone")

\* A session whose hibernation failed keeps its workspace, its name and its
\* password, so that hibernation can be tried again.
FailedIsKept ==
  row.status = "FAILED" /\ ~row.stopped /\ holes = {} =>
    row.pwd /\ row.target # 0 /\ row.target \in Existing

\* Whatever failed or crashed, a session that is offered for resuming, or for
\* another try at hibernation, still has all that it takes.
SavedIsIntact == HibernatedIsIntact /\ FailedIsKept

\* "never delete persistent workspace data on a resume failure": no workspace
\* is deleted while its session is saved, being saved or being resumed.
SavedIsNotDeleted ==
  [][row.status \in {"HIBERNATING", "HIBERNATED", "RESUMING"} /\ holes = {} =>
       \A w \in Existing : ws'[w] # "gone"]_vars

\* An expired session does not stay live: the lock never blocks its expiry,
\* although hibernation waits for an outcome while it holds the lock.
ExpiryActs == isLive(row) /\ expired(row) ~> ~(isLive(row) /\ expired(row)) \/ holes # {}

\* "Hibernated sessions are excluded from expiration until manually
\* resumed/deleted": a HIBERNATED session is only deleted by an operator.
ExpirySparesHibernated ==
  [][row.status = "HIBERNATED" /\ row'.status = "DELETING" =>
       lock # <<>> /\ ~op[Head(lock)].auto]_vars

\* "the most recent successful action wins": the updates of an outcome, whose
\* columns are not modelled, leave the others as the last action wrote them.
MostRecentWins == [][out.seen # NoRow /\ proc' = proc /\ out'.seen = NoRow => row' = row]_vars

\* "Keep the workspace eligible for a retry": the workspace of a session
\* whose hibernation failed is there until somebody deletes the session.
KeptForRetry ==
  row.status = "FAILED" /\ ~row.stopped /\ holes \subseteq {"reaped"} =>
    row.target # 0 /\ row.target \in Existing
=============================================================================
