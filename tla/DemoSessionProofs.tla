-------------------------- MODULE DemoSessionProofs --------------------------
(***************************************************************************)
(* Proofs about DemoSession: what a session that is offered for resuming   *)
(* or retrying still has, what a session that says it is erased has lost,  *)
(* and that nothing deletes the workspace of a saved one.                  *)
(*                                                                         *)
(* The argument has three layers.  Types and Workspaces say what the state *)
(* is made of.  Serial says that at most one operation changes the session *)
(* at a time.  Rows and Works say what the row promises, and what the      *)
(* operation at work knows of the row at the call it awaits.               *)
(***************************************************************************)
EXTENDS DemoSession, SequenceTheorems, TLAPS

Kind == {"idle", "create", "fail", "visitor", "hibernate", "resume", "stop", "recover",
         "shutdown", "expire"}
Pc == {"none", "log created", "mark", "vendors", "prepare", "lease", "unpause", "provision",
       "ready", "log ready", "list", "release", "enter", "delete", "done", "finish run",
       "get", "wait", "pause", "log", "fail", "route", "enqueue", "return", "throw"}
Op == [kind : Kind, pc : Pc, snap : Row, seen : Row, todo : SUBSET Lease,
       w : 0..MaxWorkspaces, gone : BOOLEAN, err : BOOLEAN, auto : BOOLEAN]

Types ==
  /\ row \in Row /\ over \in 0..MaxExpiries
  /\ ws \in [Workspace -> {"none", "live", "paused", "gone"}] /\ leases \subseteq Lease
  /\ prepared \in 0..MaxWorkspaces /\ runtime \in BOOLEAN
  /\ proc \in {"down", "boot", "up", "closing"}
  /\ op \in [Slot -> Op] /\ lock \in Seq(Queued)
  /\ out \in [pc : {"none", "get", "collect", "trigger", "verify", "result"}, seen : Row]
  /\ holes \subseteq {"overlap", "unmarked", "reaped"}
  /\ requests \in 0..MaxRequests /\ faults \in 0..MaxFaults /\ crashes \in 0..MaxCrashes

\* GL-EYE has at most one workspace of the session that is not deleted, and the
\* adapter has prepared no other.
Workspaces ==
  /\ \A v, w \in Existing : v = w
  /\ prepared # 0 => prepared \in Existing

-----------------------------------------------------------------------------
(* Serialization                                                           *)

\* The kinds of operation that a slot runs.
Kinds(o) ==
  IF o = "create" THEN {"idle", "create", "fail"}
  ELSE IF o = "boot" THEN {"idle", "hibernate", "stop", "recover", "fail", "shutdown"}
  ELSE {"idle", "visitor", "hibernate", "resume", "stop", "expire"}

\* Operation o waits for its turn, has ended, or, as a shutdown, only lets go.
Quiet(o) ==
  \/ op[o].kind \in {"idle", "expire", "shutdown"}
  \/ o # "boot" /\ op[o].pc \in {"get", "return", "throw"}

Rests(o) == op[o].kind = "idle"

Serial ==
  /\ \A o \in Slot : /\ op[o].kind \in Kinds(o)
                     /\ op[o].kind = "idle" => op[o].pc = "none"
                     /\ op[o].kind = "expire" => op[o].pc = "enqueue"
  /\ \A o \in Queued : ~Quiet(o) => lock # <<>> /\ Head(lock) = o
  /\ ~Rests("create") => proc = "up" /\ Rests("boot") /\ \A o \in Queued : Quiet(o)
  /\ op["boot"].kind \notin {"idle", "shutdown"} =>
       proc = "boot" /\ \A o \in Slot \ {"boot"} : Rests(o)
  /\ op["boot"].kind = "shutdown" => proc = "closing" /\ \A o \in Req \cup {"create"} : Rests(o)
  /\ proc = "boot" => op["boot"].kind \notin {"idle", "shutdown"}
  /\ proc = "down" \/ row = NoRow => ~runtime /\ \A o \in Slot : Rests(o)

-----------------------------------------------------------------------------
(* The row                                                                 *)

\* The workspace of the session is there, and so is its password.
Kept == row.target # 0 /\ row.target \in Existing /\ row.pwd

Rows ==
  /\ row.status = "NONE" => row = NoRow
  /\ row # NoRow /\ ~row.pwd =>
       /\ leases = {} /\ row.stopped /\ (row.target # 0 => ws[row.target] = "gone")
       /\ row.status \in {"DELETING", "STOPPED", "FAILED", "HIBERNATING"}
  /\ row.status = "STOPPED" => ~row.pwd
  /\ row.status \in {"CREATE", "PROVISIONING"} => ~row.stopped
  /\ isLive(row) => Kept /\ ~row.stopped
  /\ row.status \in {"FAILED", "HIBERNATING"} /\ ~row.stopped => Kept
  /\ row.status = "RESUMING" => Kept
  /\ row.status = "HIBERNATED" =>
       Kept /\ ws[row.target] = "paused" /\ leases = {} /\ ~runtime
  /\ row.status = "PROVISIONING" /\ row.target # 0 =>
       proc \in {"boot", "down"} /\ (row.keep => Kept)

-----------------------------------------------------------------------------
(* The operation at work                                                   *)

In(o, k, P) == op[o].kind = k /\ op[o].pc \in P

\* A session that is not saved, whose cleanup may delete the workspace.
Dropped ==
  \/ row.status = "DELETING"
  \/ row.status \in {"CREATE", "PROVISIONING"} /\ (row.target = 0 \/ ~row.keep)

CreateWorks(o) ==
  /\ In(o, "create", {"log created", "mark"}) =>
       row.status = "CREATE" /\ row.target = 0 /\ op[o].snap.target = 0
  /\ In(o, "create", {"vendors", "prepare", "lease", "provision", "ready"}) =>
       row.status = "PROVISIONING" /\ row.target = 0 /\ op[o].snap.target = 0
  /\ In(o, "create", {"lease", "provision", "ready"}) => op[o].w \in Existing
  /\ In(o, "create", {"log ready"}) => isLive(row)
  /\ op[o].kind = "create" =>
       op[o].pc \in {"log created", "mark", "vendors", "prepare", "lease", "provision", "ready",
                    "log ready", "return", "throw"}

CleanupWorks(o) ==
  /\ In(o, "fail", {"delete"}) => isLive(row) \/ (Dropped /\ op[o].snap.target = row.target)
  /\ In(o, "stop", {"delete"}) => Dropped /\ op[o].snap.target = row.target
  /\ op[o].kind \in {"stop", "fail"} /\ op[o].pc \in {"list", "release", "done"} =>
       /\ Dropped /\ op[o].snap.target = row.target
       /\ row.target # 0 /\ ~op[o].err => ws[row.target] = "gone"
       /\ op[o].pc = "release" /\ ~op[o].err => leases \subseteq op[o].todo
       /\ op[o].pc = "done" /\ ~op[o].err => leases = {}

HibernateWorks(o) ==
  /\ In(o, "hibernate", {"wait"}) => isLive(row) /\ op[o].snap.target = row.target
  /\ In(o, "hibernate", {"mark"}) =>
       /\ op[o].snap.target = row.target
       /\ row.status \in {"READY", "ACTIVE", "HIBERNATING", "RESUMING", "PROVISIONING", "FAILED"}
       /\ ~row.stopped => Kept
  /\ In(o, "hibernate", {"pause", "list", "release", "done"}) =>
       row.status = "HIBERNATING" /\ op[o].snap.target = row.target
  /\ op[o].kind = "hibernate" =>
       op[o].pc \in {"get", "wait", "mark", "pause", "list", "release", "done", "log", "fail",
                    "return", "throw"}
  /\ In(o, "hibernate", {"list", "release", "done"}) =>
       row.target # 0 /\ ws[row.target] = "paused"
  /\ In(o, "hibernate", {"release"}) => leases \subseteq op[o].todo
  /\ In(o, "hibernate", {"done"}) => leases = {} /\ ~runtime
  /\ In(o, "hibernate", {"log"}) => row.status = "HIBERNATED"
  /\ In(o, "hibernate", {"fail"}) => row.status \in {"HIBERNATING", "HIBERNATED"}

ResumeWorks(o) ==
  /\ In(o, "resume", {"mark"}) => row.status = "HIBERNATED" /\ op[o].snap.target = row.target
  /\ In(o, "resume", {"list", "release", "enter", "prepare", "lease", "unpause", "provision",
                      "ready"}) =>
       row.status = "RESUMING" /\ op[o].snap.target = row.target
  /\ In(o, "resume", {"lease"}) => op[o].w \in Existing
  /\ In(o, "resume", {"unpause", "provision", "ready"}) => op[o].w = row.target

RecoverWorks(o) ==
  /\ In(o, "recover", {"list", "release", "enter"}) => row = op[o].snap /\ isLive(row)
  /\ In(o, "recover", {"prepare", "lease", "provision", "ready"}) =>
       /\ row.status = "PROVISIONING" /\ row.target = op[o].snap.target /\ Kept
       /\ row.keep = op[o].snap.keep /\ isLive(op[o].snap)
  /\ In(o, "recover", {"lease", "provision", "ready"}) => op[o].w \in Existing
  /\ In(o, "recover", {"log ready"}) => isLive(row)
  /\ op[o].kind = "recover" =>
       op[o].pc \in {"list", "release", "enter", "prepare", "lease", "provision", "ready",
                    "log ready", "return", "throw"}

\* What the recovery, which runs alone, knows between its operations.
BootWorks(o) ==
  o = "boot" =>
  /\ In(o, "hibernate", {"get"}) /\ row.status = "PROVISIONING" =>
       row.keep /\ isLive(op[o].snap)
  /\ In(o, "hibernate", {"mark", "throw"}) /\ row.status = "PROVISIONING" =>
       op[o].snap.status \notin {"HIBERNATING", "RESUMING"}
  /\ op[o].kind \in {"stop", "fail"} /\ op[o].pc \in {"finish run"} => row.status # "PROVISIONING"
  /\ op[o].kind \notin {"idle", "shutdown"} /\ op[o].pc = "return" => row.status # "PROVISIONING"

VisitorWorks(o) == In(o, "visitor", {"route", "mark"}) => isLive(row)

Works(o) ==
  /\ CreateWorks(o) /\ CleanupWorks(o) /\ HibernateWorks(o) /\ ResumeWorks(o)
  /\ RecoverWorks(o) /\ BootWorks(o) /\ VisitorWorks(o)

Ordered == Serial /\ Rows /\ \A o \in Slot : Works(o)

SessionInv == Types /\ Workspaces /\ (holes = {} => Ordered)

-----------------------------------------------------------------------------
(* Types                                                                   *)

LEMMA NoRowType == NoRow \in Row
  BY BoundAssumption DEF NoRow, Row, Status

LEMMA IdleType == Idle \in Op
  BY NoRowType, BoundAssumption DEF Idle, Op, Kind, Pc

LEMMA BeginType ==
  ASSUME NEW s \in Op, NEW k \in Kind, NEW p \in Pc
  PROVE  /\ Begin(s, k, p) \in Op
         /\ Begin(s, k, p).kind = k /\ Begin(s, k, p).pc = p /\ Begin(s, k, p).snap = s.snap
  BY NoRowType DEF Begin, Op

LEMMA CatchType ==
  ASSUME NEW s \in Op
  PROVE  catch(s) \in Op
<1>1. s.kind \in Kind /\ {"hibernate", "fail"} \subseteq Kind
      /\ {"fail", "get", "delete", "throw"} \subseteq Pc
  BY DEF Op, Kind, Pc
<1>2. /\ Begin(s, "hibernate", "fail") \in Op /\ Begin(s, "hibernate", "get") \in Op
      /\ Begin(s, "fail", "delete") \in Op /\ Begin(s, s.kind, "throw") \in Op
  BY <1>1, BeginType
<1> QED
  BY <1>2 DEF catch

\* The operation in slot o goes on as s.
Becomes(o, s) == op' = [op EXCEPT ![o] = s]
Others(o) == \A q \in Slot \ {o} : op'[q] = op[q]

LEMMA BecomesType ==
  ASSUME Types, NEW o \in Slot, NEW s \in Op, Becomes(o, s)
  PROVE  op' \in [Slot -> Op] /\ op'[o] = s /\ Others(o)
  BY DEF Becomes, Others, Types

\* What the actions make of a record in Op is in Op.
LEMMA OpTypes ==
  ASSUME NEW s \in Op
  PROVE  /\ \A r \in Row : [s EXCEPT !.seen = r] \in Op
         /\ \A p \in Pc : [s EXCEPT !.pc = p] \in Op
         /\ \A p \in Pc, r \in Row :
              /\ [s EXCEPT !.pc = p, !.snap = r] \in Op /\ [s EXCEPT !.snap = r, !.pc = p] \in Op
              /\ [s EXCEPT !.pc = p, !.seen = NoRow, !.snap = r] \in Op
         /\ \A p \in Pc, w \in 0..MaxWorkspaces : [s EXCEPT !.w = w, !.pc = p] \in Op
         /\ \A p \in Pc, L \in SUBSET Lease : [s EXCEPT !.pc = p, !.todo = L] \in Op
         /\ \A p \in Pc, err \in BOOLEAN : [s EXCEPT !.pc = p, !.err = err] \in Op
         /\ \A p \in Pc, gone, err \in BOOLEAN :
              [s EXCEPT !.pc = p, !.gone = gone, !.err = err] \in Op
         /\ \A L \in SUBSET Lease : [s EXCEPT !.todo = L] \in Op
         /\ \A gone \in BOOLEAN : [s EXCEPT !.gone = gone] \in Op
         /\ \A err \in BOOLEAN : [s EXCEPT !.err = err] \in Op
         /\ \A gone, err \in BOOLEAN : [s EXCEPT !.gone = gone, !.err = err] \in Op
         /\ \A auto \in BOOLEAN : [s EXCEPT !.auto = auto] \in Op
  BY NoRowType, Zenon DEF Op

LEMMA StepTypes ==
  ASSUME Types, NEW o \in Slot, Step(o), At(o, Provisions, "lease") => op[o].w \in Workspace
  PROVE  Types'
<1> USE BoundAssumption
<1>0. op[o] \in Op /\ catch(op[o]) \in Op /\ NoRow \in Row /\ Idle \in Op
  BY CatchType, NoRowType, IdleType DEF Types
<1>a. \A ok \in BOOLEAN : Call(ok) => faults' \in 0..MaxFaults
  BY DEF Call, Types
<1>b. Throw(o) => op' \in [Slot -> Op]
  BY <1>0 DEF Throw, Types
<1>c. /\ \A r \in Row : [op[o] EXCEPT !.seen = r] \in Op
      /\ \A p \in Pc : [op[o] EXCEPT !.pc = p] \in Op
      /\ \A p \in Pc : [op[o] EXCEPT !.snap = row, !.pc = p] \in Op
      /\ \A p \in Pc : [op[o] EXCEPT !.pc = p, !.snap = row] \in Op
      /\ \A p \in Pc, w \in 0..MaxWorkspaces : [op[o] EXCEPT !.w = w, !.pc = p] \in Op
      /\ \A p \in Pc : [op[o] EXCEPT !.pc = p, !.todo = leases] \in Op
      /\ \A p \in Pc, err \in BOOLEAN : [op[o] EXCEPT !.pc = p, !.err = err] \in Op
      /\ \A p \in Pc, gone, err \in BOOLEAN : [op[o] EXCEPT !.pc = p, !.gone = gone, !.err = err] \in Op
  <2>1. row \in Row /\ leases \in SUBSET Lease
    BY DEF Types
  <2> QED
    BY <1>0, <2>1, OpTypes
<1>d. /\ op[o].gone \in BOOLEAN /\ op[o].err \in BOOLEAN /\ op[o].seen \in Row /\ op[o].snap \in Row
      /\ op[o].w \in 0..MaxWorkspaces /\ op[o].todo \in SUBSET Lease /\ row \in Row
  BY <1>0 DEF Op, Types
<1>e. /\ "prepare" \in Pc /\ "lease" \in Pc /\ "unpause" \in Pc /\ "provision" \in Pc
      /\ "ready" \in Pc /\ "list" \in Pc /\ "release" \in Pc /\ "enter" \in Pc /\ "done" \in Pc
      /\ "wait" \in Pc /\ "mark" \in Pc /\ "route" \in Pc /\ "return" \in Pc
  BY DEF Pc
<1>1. ASSUME NEW r \in Row, NEW p \in Pc, update(o, r, p)
      PROVE  Types'
  BY <1>0, <1>1 DEF update, overwrite, Types, Op, target, world
<1>2. ASSUME NEW ok \in BOOLEAN, NEW p \in Pc, Await(o, ok, p)
      PROVE  Types'
  <2>1. op' \in [Slot -> Op]
    <3>1. CASE ok
      <4>1. Becomes(o, [op[o] EXCEPT !.pc = p])
        BY <1>2, <3>1 DEF Await, Becomes
      <4> QED
        BY <1>c, <4>1, BecomesType
    <3>2. CASE ~ok
      BY <1>2, <3>2, <1>b DEF Await
    <3> QED
      BY <3>1, <3>2
  <2>2. faults' \in 0..MaxFaults
    BY <1>2, <1>a DEF Await
  <2> QED
    BY <1>2, <2>1, <2>2 DEF Await, Types, target, world
<1>3. op[o].seen \in Row
  BY <1>0 DEF Op
<1>4. CASE CreateMark(o) \/ CreateReady(o) \/ StopMark(o) \/ StopDone(o) \/ FailDone(o)
        \/ HibernateMark(o) \/ HibernateDone(o) \/ HibernateFail(o) \/ ResumeMark(o)
        \/ ResumeEnter(o) \/ VisitorMark(o) \/ ShutdownRoute(o) \/ ResumeReady(o)
  <2>1. CASE CreateMark(o)
    BY <1>0, <1>1, <1>3, <2>1 DEF CreateMark, Row, Status, Pc
  <2>2. CASE CreateReady(o)
    BY <1>0, <1>1, <1>3, <2>2 DEF CreateReady, Row, Status, Pc, Op
  <2>3. CASE StopMark(o) \/ HibernateMark(o) \/ HibernateDone(o) \/ HibernateFail(o)
    BY <1>0, <1>1, <1>3, <2>3 DEF StopMark, HibernateMark, HibernateDone, HibernateFail, Row, Status, Pc
  <2>4. CASE StopDone(o) \/ FailDone(o)
    <3>1. erased(op[o], "STOPPED") \in Row /\ erased(op[o], "FAILED") \in Row
      <4>1. op[o].err \in BOOLEAN /\ (op[o].seen.pwd /\ op[o].err) \in BOOLEAN
        BY <1>d
      <4>2. "STOPPED" \in Status /\ "FAILED" \in Status
        BY DEF Status
      <4> QED
        BY <1>3, <4>1, <4>2, Zenon DEF erased, Row
    <3> QED
      BY <1>0, <1>1, <3>1, <2>4 DEF StopDone, FailDone, Pc
  <2>5. CASE ResumeMark(o) \/ ResumeEnter(o) \/ VisitorMark(o) \/ ShutdownRoute(o)
    BY <1>0, <1>1, <1>3, <2>5 DEF ResumeMark, ResumeEnter, VisitorMark, ShutdownRoute, Row, Status, Pc
  <2>6. CASE ResumeReady(o)
    <3>1. over + 1 \in 0..(MaxExpiries + 1) /\ op[o].w \in 0..MaxWorkspaces
          /\ op[o].snap.status \in Status
      BY <1>0 DEF Types, Op, Row
    <3> QED
      BY <1>0, <1>1, <1>3, <2>6, <3>1 DEF ResumeReady, Row, Status, Pc
  <2> QED
    BY <1>4, <2>1, <2>2, <2>3, <2>4, <2>5, <2>6
<1>5. CASE EndLeases(o)
  <2>1. PICK p \in Pc, err \in BOOLEAN : Becomes(o, [op[o] EXCEPT !.pc = p, !.err = err])
    <3> DEFINE err == op[o].err \/ (op[o].kind \in {"stop", "fail"} /\ op[o].snap.target # 0 /\ ~op[o].gone)
               p == IF op[o].kind \in {"resume", "recover"} THEN "enter"
                    ELSE IF op[o].kind = "shutdown" THEN "route" ELSE "done"
    <3>1. err \in BOOLEAN /\ p \in Pc
      BY <1>e
    <3>2. Becomes(o, [op[o] EXCEPT !.pc = p, !.err = err])
      BY <1>5 DEF EndLeases, Becomes
    <3> QED
      BY <3>1, <3>2
  <2>2. op' \in [Slot -> Op]
    BY <1>c, <2>1, BecomesType
  <2> QED
    BY <1>5, <2>2 DEF EndLeases, Types, world
<1>6. CASE Finish(o)
  <2>1. Tail(lock) \in Seq(Queued) \/ o \notin Queued
    BY <1>6 DEF Types, Finish, Step, HasTurn
  <2>2. lock' \in Seq(Queued)
    <3>1. <<>> \in Seq(Queued) /\ unlocked(o) \in Seq(Queued)
      BY <2>1 DEF Types, unlocked
    <3> QED
      BY <1>6, <3>1 DEF Finish, Down
  <2>3. op' \in [Slot -> Op]
    BY <1>0, <1>6 DEF Finish, Types, Down
  <2>4. out' = out \/ out' = NoOutcome
    BY <1>6 DEF Finish, Down
  <2>5. out' \in [pc : {"none", "get", "collect", "trigger", "verify", "result"}, seen : Row]
    BY <1>0, <2>4 DEF Types, NoOutcome
  <2>6. /\ runtime' \in BOOLEAN /\ prepared' \in 0..MaxWorkspaces
        /\ proc' \in {"down", "boot", "up", "closing"}
    <3>1. CASE Down
      <4>1. runtime' = FALSE /\ prepared' = 0 /\ proc' = "down"
        BY <3>1 DEF Down
      <4>2. 0 \in 0..MaxWorkspaces
        OBVIOUS
      <4> QED
        BY <4>1, <4>2, Zenon
    <3>2. CASE UNCHANGED <<runtime, prepared>> /\ (proc' = "up" \/ proc' = proc)
      BY <3>2 DEF Types
    <3> QED
      BY <1>6, <3>1, <3>2 DEF Finish, Down
  <2> QED
    BY <1>6, <2>2, <2>3, <2>5, <2>6 DEF Finish, Types
<1>7. ASSUME NEW ok \in BOOLEAN, ReadRow(o, ok)
     PROVE  Types'
  <2>1. \/ Becomes(o, [op[o] EXCEPT !.seen = row])
        \/ Becomes(o, catch(op[o]))
    BY <1>7 DEF ReadRow, Throw, Becomes
  <2>2. op' \in [Slot -> Op]
    BY <1>0, <1>c, <1>d, <1>e, <2>1, BecomesType DEF Workspace
  <2>3. faults' \in 0..MaxFaults
    BY <1>7, <1>a DEF ReadRow
  <2> QED
    BY <1>7, <1>d, <2>2, <2>3 DEF ReadRow, Types, target, world
<1>8. ASSUME NEW ok \in BOOLEAN, LogCreated(o, ok) \/ LogReady(o, ok)
               \/ FinishRun(o, ok) \/ LogHibernated(o, ok)
      PROVE  Types'
  BY <1>2, <1>8 DEF LogCreated, LogReady, FinishRun, LogHibernated, Pc
<1>9. ASSUME NEW ok \in BOOLEAN, StartVendors(o, ok)
     PROVE  Types'
  <2>1. \/ Becomes(o, [op[o] EXCEPT !.pc = "prepare"])
        \/ Becomes(o, catch(op[o]))
    BY <1>9 DEF StartVendors, Throw, Becomes
  <2>2. op' \in [Slot -> Op]
    BY <1>0, <1>c, <1>d, <1>e, <2>1, BecomesType DEF Workspace
  <2>3. faults' \in 0..MaxFaults
    BY <1>9, <1>a DEF StartVendors
  <2> QED
    BY <1>9, <1>d, <2>2, <2>3 DEF StartVendors, Types, target, world, Res, Lease
<1>10. ASSUME NEW ok \in BOOLEAN, Provision(o, ok)
      PROVE  Types'
  <2>1. \/ Becomes(o, [op[o] EXCEPT !.pc = "ready"])
        \/ Becomes(o, catch(op[o]))
    BY <1>10 DEF Provision, Throw, Becomes
  <2>2. op' \in [Slot -> Op]
    BY <1>0, <1>c, <1>d, <1>e, <2>1, BecomesType DEF Workspace
  <2>3. faults' \in 0..MaxFaults
    BY <1>10, <1>a DEF Provision
  <2> QED
    BY <1>10, <1>d, <2>2, <2>3 DEF Provision, Types, target, world, Res, Lease
<1>11. ASSUME NEW ok \in BOOLEAN, VisitorRoute(o, ok)
      PROVE  Types'
  <2>1. \/ Becomes(o, [op[o] EXCEPT !.pc = "mark"])
        \/ Becomes(o, catch(op[o]))
    BY <1>11 DEF VisitorRoute, Throw, Becomes
  <2>2. op' \in [Slot -> Op]
    BY <1>0, <1>c, <1>d, <1>e, <2>1, BecomesType DEF Workspace
  <2>3. faults' \in 0..MaxFaults
    BY <1>11, <1>a DEF VisitorRoute
  <2> QED
    BY <1>11, <1>d, <2>2, <2>3 DEF VisitorRoute, Types, target, world, Res, Lease
<1>12. ASSUME NEW ok \in BOOLEAN, PrepareRun(o, ok)
      PROVE  Types'
  <2>1. \/ \E w \in Workspace : Becomes(o, [op[o] EXCEPT !.w = w, !.pc = "lease"])
        \/ Becomes(o, catch(op[o]))
    BY <1>12 DEF PrepareRun, Throw, Becomes
  <2>2. op' \in [Slot -> Op]
    <3>1. ASSUME NEW w \in Workspace, Becomes(o, [op[o] EXCEPT !.w = w, !.pc = "lease"])
          PROVE  op' \in [Slot -> Op]
      <4>1. w \in 0..MaxWorkspaces
        BY DEF Workspace
      <4>2. [op[o] EXCEPT !.w = w, !.pc = "lease"] \in Op
        BY <1>c, <1>e, <4>1
      <4> QED
        BY <3>1, <4>2, BecomesType
    <3> QED
      BY <1>0, <2>1, <3>1, BecomesType
  <2>3. faults' \in 0..MaxFaults
    BY <1>12, <1>a DEF PrepareRun
  <2>4. ws' = ws \/ \E w \in Workspace : ws' = [ws EXCEPT ![w] = "live"]
    BY <1>12 DEF PrepareRun
  <2>5. prepared' \in 0..MaxWorkspaces
    <3>1. prepared' = prepared \/ prepared' \in Workspace
      BY <1>12 DEF PrepareRun
    <3> QED
      BY <3>1 DEF Types, Workspace
  <2> QED
    BY <1>12, <2>2, <2>3, <2>4, <2>5 DEF PrepareRun, Types, world
<1>13. ASSUME NEW ok \in BOOLEAN, Register(o, ok)
      PROVE  Types'
  <2>1. \/ Becomes(o, [op[o] EXCEPT !.pc = IF op[o].kind = "resume" THEN "unpause" ELSE "provision"])
        \/ Becomes(o, catch(op[o]))
    BY <1>13 DEF Register, Throw, Becomes
  <2>2. op' \in [Slot -> Op]
    BY <1>0, <1>c, <1>d, <1>e, <2>1, BecomesType DEF Workspace
  <2>3. faults' \in 0..MaxFaults
    BY <1>13, <1>a DEF Register
  <2>4. leases' = leases \/ (leases' = leases \cup {op[o].w} /\ op[o].w \in Workspace)
    BY <1>13 DEF Register
  <2> QED
    BY <1>13, <1>d, <2>2, <2>3, <2>4 DEF Register, Types, world, Lease, Workspace
<1>14. ASSUME NEW ok \in BOOLEAN, Unpause(o, ok)
      PROVE  Types'
  <2>1. \/ Becomes(o, [op[o] EXCEPT !.pc = "provision"])
        \/ Becomes(o, catch(op[o]))
    BY <1>14 DEF Unpause, Throw, Becomes
  <2>2. op' \in [Slot -> Op]
    BY <1>0, <1>c, <1>d, <1>e, <2>1, BecomesType DEF Workspace
  <2>3. faults' \in 0..MaxFaults
    BY <1>14, <1>a DEF Unpause
  <2> QED
    BY <1>14, <1>d, <2>2, <2>3 DEF Unpause, Types, target, world
<1>15. ASSUME NEW ok \in BOOLEAN, Pause(o, ok)
      PROVE  Types'
  <2>1. \/ Becomes(o, [op[o] EXCEPT !.pc = "list"])
        \/ Becomes(o, catch(op[o]))
    BY <1>15 DEF Pause, Throw, Becomes
  <2>2. op' \in [Slot -> Op]
    BY <1>0, <1>c, <1>d, <1>e, <2>1, BecomesType DEF Workspace
  <2>3. faults' \in 0..MaxFaults
    BY <1>15, <1>a DEF Pause
  <2> QED
    <3>1. UNCHANGED <<row, over, leases, runtime, proc, lock, out, holes, requests, crashes>>
      BY <1>15 DEF Pause, world
    <3>2. /\ prepared' = prepared \/ prepared' = 0
          /\ ws' = ws \/ ws' = [ws EXCEPT ![op[o].snap.target] = "paused"]
      BY <1>15 DEF Pause
    <3>3. prepared' \in 0..MaxWorkspaces /\ ws' \in [Workspace -> {"none", "live", "paused", "gone"}]
      BY <3>2 DEF Types
    <3> QED
      BY <2>2, <2>3, <3>1, <3>3, Zenon DEF Types
<1>16. ASSUME NEW ok \in BOOLEAN, ListLeases(o, ok)
      PROVE  Types'
  <2>1. \/ Becomes(o, [op[o] EXCEPT !.pc = "release", !.todo = leases])
        \/ Becomes(o, catch(op[o]))
    BY <1>16 DEF ListLeases, Throw, Becomes
  <2>2. op' \in [Slot -> Op]
    BY <1>0, <1>c, <1>d, <1>e, <2>1, BecomesType DEF Workspace
  <2>3. faults' \in 0..MaxFaults
    BY <1>16, <1>a DEF ListLeases
  <2> QED
    BY <1>16, <1>d, <2>2, <2>3 DEF ListLeases, Types, target, world
<1>17. ASSUME NEW ok \in BOOLEAN, StopGet(o, ok)
      PROVE  Types'
  <2>1. \/ Becomes(o, [op[o] EXCEPT !.pc = "return"])
        \/ Becomes(o, [op[o] EXCEPT !.pc = "mark"])
        \/ Becomes(o, catch(op[o]))
    BY <1>17 DEF StopGet, Throw, Becomes
  <2>2. op' \in [Slot -> Op]
    BY <1>0, <1>c, <1>d, <1>e, <2>1, BecomesType DEF Workspace
  <2>3. faults' \in 0..MaxFaults
    BY <1>17, <1>a DEF StopGet
  <2> QED
    BY <1>17, <1>d, <2>2, <2>3 DEF StopGet, Types, target, world, Enter
<1>18. ASSUME NEW ok \in BOOLEAN, ResumeGet(o, ok)
      PROVE  Types'
  <2>1. \/ Becomes(o, [op[o] EXCEPT !.pc = "return"])
        \/ Becomes(o, [op[o] EXCEPT !.pc = "mark", !.snap = row])
        \/ Becomes(o, catch(op[o]))
    BY <1>18 DEF ResumeGet, Throw, Becomes
  <2>2. op' \in [Slot -> Op]
    BY <1>0, <1>c, <1>d, <1>e, <2>1, BecomesType DEF Workspace
  <2>3. faults' \in 0..MaxFaults
    BY <1>18, <1>a DEF ResumeGet
  <2> QED
    BY <1>18, <1>d, <2>2, <2>3 DEF ResumeGet, Types, target, world, Enter
<1>19. ASSUME NEW ok \in BOOLEAN, VisitorGet(o, ok)
      PROVE  Types'
  <2>1. \/ Becomes(o, [op[o] EXCEPT !.pc = "route"])
        \/ Becomes(o, catch(op[o]))
    BY <1>19 DEF VisitorGet, Throw, Becomes
  <2>2. op' \in [Slot -> Op]
    BY <1>0, <1>c, <1>d, <1>e, <2>1, BecomesType DEF Workspace
  <2>3. faults' \in 0..MaxFaults
    BY <1>19, <1>a DEF VisitorGet
  <2> QED
    BY <1>19, <1>d, <2>2, <2>3 DEF VisitorGet, Types, target, world, Enter
<1>20. ASSUME NEW ok \in BOOLEAN, HibernateGet(o, ok)
      PROVE  Types'
  <2>1. \/ Becomes(o, [op[o] EXCEPT !.pc = "return"])
        \/ Becomes(o, [op[o] EXCEPT !.snap = row, !.pc = "wait"])
        \/ Becomes(o, [op[o] EXCEPT !.snap = row, !.pc = "mark"])
        \/ Becomes(o, catch(op[o]))
    BY <1>20 DEF HibernateGet, Throw, Becomes
  <2>2. op' \in [Slot -> Op]
    BY <1>0, <1>c, <1>d, <1>e, <2>1, BecomesType DEF Workspace
  <2>3. faults' \in 0..MaxFaults
    BY <1>20, <1>a DEF HibernateGet
  <2> QED
    BY <1>20, <1>d, <2>2, <2>3 DEF HibernateGet, Types, target, world, Enter
<1>21. ASSUME NEW ok \in BOOLEAN, DeleteTarget(o, ok)
      PROVE  Types'
  <2>1. \/ Becomes(o, [op[o] EXCEPT !.pc = "list"])
        \/ Becomes(o, [op[o] EXCEPT !.pc = "list", !.gone = ok, !.err = ~ok])
        \/ Becomes(o, catch(op[o]))
    BY <1>21 DEF DeleteTarget, Throw, Becomes
  <2>2. op' \in [Slot -> Op]
    BY <1>0, <1>c, <1>d, <1>e, <2>1, BecomesType DEF Workspace
  <2>3. faults' \in 0..MaxFaults
    BY <1>21, <1>a DEF DeleteTarget
  <2> QED
    BY <1>21, <1>d, <2>2, <2>3 DEF DeleteTarget, Types, target, world, delete
<1>22. ASSUME NEW ok \in BOOLEAN, NEW l \in Lease, ReleaseLease(o, l, ok)
      PROVE  Types'
  <2> DEFINE s == [op[o] EXCEPT !.todo = @ \ {l}]
             deletes == op[o].kind \in {"stop", "fail"} /\ l # Res
  <2>1. \/ Becomes(o, [s EXCEPT !.gone = @ \/ deletes])
        \/ Becomes(o, [s EXCEPT !.gone = @ \/ deletes, !.err = TRUE])
        \/ Becomes(o, [s EXCEPT !.err = TRUE])
        \/ Becomes(o, catch(op[o]))
    BY <1>22 DEF ReleaseLease, Throw, Becomes
  <2>2. s \in Op /\ s.gone \in BOOLEAN
    <3>1. op[o].todo \ {l} \in SUBSET Lease
      BY <1>d
    <3>2. s \in Op
      BY <1>0, <3>1, OpTypes
    <3> QED
      BY <3>2 DEF Op
  <2>3. /\ [s EXCEPT !.gone = @ \/ deletes] \in Op /\ [s EXCEPT !.err = TRUE] \in Op
        /\ [s EXCEPT !.gone = @ \/ deletes, !.err = TRUE] \in Op
    <3> HIDE DEF s
    <3> QED
      BY <2>2, OpTypes
  <2>4. op' \in [Slot -> Op]
    BY <1>0, <2>1, <2>3, BecomesType
  <2>5. faults' \in 0..MaxFaults
    BY <1>22, <1>a DEF ReleaseLease
  <2> QED
    BY <1>22, <2>4, <2>5 DEF ReleaseLease, delete, Types, world
<1> QED
  BY <1>4, <1>5, <1>6, <1>7, <1>8, <1>9, <1>10, <1>11, <1>12, <1>13, <1>14, <1>15, <1>16, <1>17, <1>18, <1>19, <1>20, <1>21, <1>22 DEF Step

LEMMA OutcomeTypes ==
  ASSUME Types, OutcomeStep \/ StartOutcome
  PROVE  Types'
<1> DEFINE OutType == [pc : {"none", "get", "collect", "trigger", "verify", "result"}, seen : Row]
<1>1. NoOutcome \in OutType /\ NoRow \in Row
  BY NoRowType DEF NoOutcome
<1>2. settled \in [Slot -> Op]
  <2>1. \A o \in Slot : [op[o] EXCEPT !.pc = "mark"] \in Op
    <3>1. "mark" \in Pc /\ \A o \in Slot : op[o] \in Op
      BY DEF Pc, Types
    <3> QED
      BY <3>1, OpTypes
  <2> QED
    BY <2>1 DEF settled, Types
<1>3. ASSUME NEW p \in {"none", "get", "collect", "trigger", "verify", "result"}, OutcomeGoto(p)
      PROVE  out' \in OutType /\ op' \in [Slot -> Op]
  BY <1>1, <1>2, <1>3 DEF OutcomeGoto, Types
<1>4. \A ok \in BOOLEAN : Call(ok) => faults' \in 0..MaxFaults
  BY BoundAssumption DEF Call, Types
<1>5. CASE OutcomeWrite
  <2>1. out' \in OutType /\ op' \in [Slot -> Op]
    BY <1>3, <1>5 DEF OutcomeWrite
  <2>2. row' \in Row /\ holes' \subseteq {"overlap", "unmarked", "reaped"}
    BY <1>5 DEF OutcomeWrite, overwrite, Types
  <2> QED
    BY <1>5, <2>1, <2>2 DEF OutcomeWrite, Types, target, world
<1>6. ASSUME NEW ok \in BOOLEAN, OutcomeGet(ok)
      PROVE  Types'
  <2>1. out' \in OutType /\ op' \in [Slot -> Op]
    BY <1>3, <1>6 DEF OutcomeGet
  <2>2. faults' \in 0..MaxFaults
    BY <1>4, <1>6 DEF OutcomeGet
  <2> QED
    BY <1>6, <2>1, <2>2 DEF OutcomeGet, Types, target, world
<1>7. ASSUME NEW ok \in BOOLEAN, OutcomeVerify(ok)
      PROVE  Types'
  <2>1. out' \in OutType /\ op' \in [Slot -> Op]
    BY <1>3, <1>7 DEF OutcomeVerify
  <2>2. faults' \in 0..MaxFaults
    BY <1>4, <1>7 DEF OutcomeVerify
  <2> QED
    BY <1>7, <2>1, <2>2 DEF OutcomeVerify, Types, target, world
<1>8. ASSUME NEW ok \in BOOLEAN, OutcomeRead(ok)
      PROVE  Types'
  <2>1. out' \in OutType /\ op' \in [Slot -> Op]
    <3>1. CASE out' = [out EXCEPT !.seen = row] /\ UNCHANGED op
      BY <3>1 DEF Types
    <3> QED
      BY <1>3, <1>8, <3>1 DEF OutcomeRead
  <2>2. faults' \in 0..MaxFaults
    BY <1>4, <1>8 DEF OutcomeRead
  <2> QED
    BY <1>8, <2>1, <2>2 DEF OutcomeRead, Types, target, world
<1>9. ASSUME NEW ok \in BOOLEAN, NEW p \in {"none", "trigger", "result"}, OutcomeCollect(ok, p)
      PROVE  Types'
  <2>1. out' \in OutType /\ op' \in [Slot -> Op]
    BY <1>3, <1>9 DEF OutcomeCollect
  <2>2. faults' \in 0..MaxFaults
    BY <1>4, <1>9 DEF OutcomeCollect
  <2> QED
    BY <1>9, <2>1, <2>2 DEF OutcomeCollect, Types, target, world
<1>10. CASE StartOutcome
  BY <1>10 DEF StartOutcome, Types, target, world
<1> QED
  BY <1>5, <1>6, <1>7, <1>8, <1>9, <1>10 DEF OutcomeStep

LEMMA OtherTypes ==
  ASSUME Types
  PROVE  /\ \A keep \in BOOLEAN : Create(keep) => Types'
         /\ \A o \in Req, k \in {"visitor", "hibernate", "resume", "stop"} : Request(o, k) => Types'
         /\ ExpireRead \/ ExpireEnqueue \/ Boot \/ Shutdown \/ Crash \/ TimePasses => Types'
         /\ \A l \in Lease : Reap(l) => Types'
<1> USE BoundAssumption
<1>0. NoRow \in Row /\ Idle \in Op /\ \A o \in Slot : op[o] \in Op
  BY NoRowType, IdleType DEF Types
<1>1. ASSUME NEW keep \in BOOLEAN, Create(keep) PROVE Types'
  <2>1. row' \in Row
    <3>1. over + 1 \in 0..(MaxExpiries + 1)
      BY DEF Types
    <3>2. "CREATE" \in Status
      BY DEF Status
    <3> QED
      BY <1>1, <1>0, <3>1, <3>2, Zenon DEF Create, Row
  <2>2. "create" \in Kind /\ "log created" \in Pc /\ "create" \in Slot
    BY DEF Kind, Pc, Slot
  <2>3. [Idle EXCEPT !.kind = "create", !.pc = "log created"] \in Op
    BY <1>0, <2>2, Zenon DEF Op
  <2>4. op' \in [Slot -> Op]
    BY <1>1, <2>2, <2>3, BecomesType DEF Create, Becomes
  <2> QED
    BY <1>1, <2>1, <2>4 DEF Create, Types, world
<1>2. ASSUME NEW o \in Req, NEW k \in {"visitor", "hibernate", "resume", "stop"}, Request(o, k)
      PROVE  Types'
  <2>1. k \in Kind /\ "get" \in Pc /\ o \in Queued /\ o \in Slot
    BY DEF Kind, Pc, Queued, Slot
  <2>2. Begin(Idle, k, "get") \in Op
    BY <1>0, <2>1, BeginType
  <2>3. op' \in [Slot -> Op]
    BY <1>2, <2>1, <2>2, BecomesType DEF Request, Becomes
  <2>4. lock' \in Seq(Queued)
    BY <1>2, <2>1 DEF Request, Types
  <2>5. requests' \in 0..MaxRequests
    BY <1>2 DEF Request, Types
  <2> QED
    BY <1>2, <2>3, <2>4, <2>5 DEF Request, Types, target
<1>3. CASE ExpireRead
  <2>1. "expire" \in Kind /\ "enqueue" \in Pc /\ "timer" \in Slot /\ row \in Row
    BY DEF Kind, Pc, Queued, Slot, Types
  <2>2. Begin(Idle, "expire", "enqueue") \in Op
    BY <1>0, <2>1, BeginType
  <2>3. [Begin(Idle, "expire", "enqueue") EXCEPT !.snap = row] \in Op
    BY <2>1, <2>2, Zenon DEF Op
  <2>4. op' \in [Slot -> Op]
    BY <1>3, <2>1, <2>3, BecomesType DEF ExpireRead, Becomes
  <2> QED
    BY <1>3, <2>4 DEF ExpireRead, Types, target, world
<1>4. CASE ExpireEnqueue
  <2> DEFINE k == IF op["timer"].snap.keep THEN "hibernate" ELSE "stop"
  <2>1. k \in Kind /\ "get" \in Pc /\ "timer" \in Slot /\ "timer" \in Queued
    BY DEF Kind, Pc, Queued, Slot, Types
  <2>2. Begin(op["timer"], k, "get") \in Op
    <3> HIDE DEF k
    <3> QED
      BY <1>0, <2>1, BeginType
  <2>3. [Begin(op["timer"], k, "get") EXCEPT !.auto = TRUE] \in Op
    <3> HIDE DEF k
    <3> QED
      BY <2>2, OpTypes
  <2>4. op' \in [Slot -> Op]
    <3>1. Becomes("timer", [Begin(op["timer"], k, "get") EXCEPT !.auto = TRUE])
      BY <1>4 DEF ExpireEnqueue, Becomes
    <3> HIDE DEF k
    <3> QED
      BY <2>1, <2>3, <3>1, BecomesType
  <2>5. lock' \in Seq(Queued)
    BY <1>4, <2>1 DEF ExpireEnqueue, Types
  <2> QED
    BY <1>4, <2>4, <2>5 DEF ExpireEnqueue, Types, target
<1>5. CASE Boot
  <2> DEFINE s == Begin(Idle, recovery, IF recovery = "recover" THEN "list" ELSE "get")
  <2>1. /\ recovery \in {"none", "hibernate", "stop", "recover"}
        /\ row \in Row /\ "boot" \in Slot
        /\ (IF recovery = "recover" THEN "list" ELSE "get") \in Pc
    BY DEF recovery, Types, Slot, Pc
  <2>2. recovery = "none" \/ [s EXCEPT !.snap = row] \in Op
    <3>1. CASE recovery # "none"
      <4>1. recovery \in Kind
        BY <2>1, <3>1 DEF Kind
      <4>2. s \in Op
        BY <1>0, <2>1, <4>1, BeginType
      <4> HIDE DEF s
      <4> QED
        BY <2>1, <4>2, Zenon DEF Op
    <3> QED
      BY <3>1
  <2>3. op' \in [Slot -> Op] /\ proc' \in {"down", "boot", "up", "closing"}
    <3>1. CASE recovery = "none"
      BY <1>5, <3>1 DEF Boot, Types
    <3>2. CASE recovery # "none"
      <4>1. Becomes("boot", [s EXCEPT !.snap = row])
        BY <1>5, <3>2 DEF Boot, Becomes
      <4>2. proc' = "boot"
        BY <1>5, <3>2 DEF Boot
      <4> HIDE DEF s
      <4> QED
        BY <2>1, <2>2, <3>2, <4>1, <4>2, BecomesType
    <3> QED
      BY <3>1, <3>2
  <2> QED
    BY <1>5, <2>3 DEF Boot, Types, target
<1>6. CASE Shutdown
  <2>1. "shutdown" \in Kind /\ "list" \in Pc /\ "boot" \in Slot /\ row \in Row
    BY DEF Kind, Pc, Slot, Types
  <2>2. Begin(Idle, "shutdown", "list") \in Op
    BY <1>0, <2>1, BeginType
  <2>3. [Begin(Idle, "shutdown", "list") EXCEPT !.snap = row] \in Op
    BY <2>1, <2>2, Zenon DEF Op
  <2>4. op' \in [Slot -> Op]
    BY <1>6, <2>1, <2>3, BecomesType DEF Shutdown, Becomes
  <2>5. /\ UNCHANGED <<row, over, ws, leases, prepared, runtime, lock, out, holes>>
        /\ UNCHANGED <<requests, faults>> /\ proc' = "closing"
    BY <1>6 DEF Shutdown, target
  <2>6. crashes' \in 0..MaxCrashes
    BY <1>6 DEF Shutdown, Types
  <2> HIDE DEF Shutdown
  <2> QED
    BY <2>4, <2>5, <2>6, Zenon DEF Types
<1>7. CASE Crash
  <2>1. /\ op' \in [Slot -> Op] /\ lock' = <<>> /\ out' = NoOutcome
        /\ runtime' = FALSE /\ prepared' = 0 /\ proc' = "down"
    BY <1>0, <1>7 DEF Crash, Down
  <2>2. NoOutcome \in [pc : {"none", "get", "collect", "trigger", "verify", "result"}, seen : Row]
    BY <1>0 DEF NoOutcome
  <2>3. crashes' \in 0..MaxCrashes /\ 0 \in 0..MaxWorkspaces
    BY <1>7 DEF Crash, Types
  <2>4. <<>> \in Seq(Queued) /\ FALSE \in BOOLEAN
    OBVIOUS
  <2> QED
    BY <1>7, <2>1, <2>2, <2>3, <2>4, Zenon DEF Crash, Types
<1>8. CASE TimePasses
  <2>1. over' \in 0..MaxExpiries
    BY <1>8 DEF TimePasses, Types
  <2> QED
    BY <1>8, <2>1 DEF TimePasses, Types, target
<1>9. ASSUME NEW l \in Lease, Reap(l) PROVE Types'
  BY <1>9 DEF Reap, delete, Types, world
<1> QED
  BY <1>1, <1>2, <1>3, <1>4, <1>5, <1>6, <1>7, <1>8, <1>9

-----------------------------------------------------------------------------
(* Workspaces                                                              *)

LEMMA DeleteWorkspaces ==
  ASSUME Types, Workspaces, NEW S, delete(S)
  PROVE  Workspaces'
  BY DEF delete, Workspaces, Existing, Types

LEMMA SameWorkspaces ==
  ASSUME Workspaces, UNCHANGED ws, prepared' = prepared \/ prepared' = 0
  PROVE  Workspaces'
  BY DEF Workspaces, Existing

\* A workspace that is resumed or paused was not deleted.
LEMMA OneWorkspace ==
  ASSUME Types, Workspaces, NEW w \in Workspace, NEW s \in {"live", "paused"},
         w \in Existing \/ Existing = {}, ws' = [ws EXCEPT ![w] = s],
         prepared' = prepared \/ prepared' \in {0, w}
  PROVE  Workspaces'
  BY DEF Workspaces, Existing, Types

LEMMA StepWorkspaces ==
  ASSUME Types, Workspaces, NEW o \in Slot, Step(o)
  PROVE  Workspaces'
<1>1. ASSUME NEW ok \in BOOLEAN, PrepareRun(o, ok)
      PROVE  Workspaces'
  <2>1. CASE UNCHANGED <<ws, prepared>>
    BY <2>1, SameWorkspaces
  <2>2. ASSUME NEW w \in Workspace, prepared = 0, ws[w] = "none", Existing = {},
               ws' = [ws EXCEPT ![w] = "live"], prepared' \in {prepared, w}
        PROVE  Workspaces'
    BY <2>2, OneWorkspace
  <2>3. ASSUME NEW w \in Workspace, w \in Existing, UNCHANGED ws, prepared' = w
        PROVE  Workspaces'
    BY <2>3 DEF Workspaces, Existing
  <2>4. \A w \in Workspace : w \in Existing => ws[w] # "none"
    BY DEF Existing
  <2>5. \/ UNCHANGED <<ws, prepared>>
        \/ \E w \in Workspace :
             \/ /\ prepared = 0 /\ ws[w] = "none" /\ Existing = {}
                /\ ws' = [ws EXCEPT ![w] = "live"] /\ prepared' \in {prepared, w}
             \/ w \in Existing /\ UNCHANGED ws /\ prepared' = w
    <3>1. CASE UNCHANGED prepared
      BY <1>1, <2>4, <3>1 DEF PrepareRun, Workspaces
    <3>2. CASE ~UNCHANGED prepared
      <4>1. PICK w \in Workspace :
              /\ IF prepared # 0 THEN w = prepared
                 ELSE IF Existing # {} THEN w \in Existing
                 ELSE ws[w] = "none"
              /\ ws' = IF prepared = 0 /\ ws[w] = "none" THEN [ws EXCEPT ![w] = "live"] ELSE ws
              /\ prepared' = w
        BY <1>1, <3>2 DEF PrepareRun
      <4> QED
        BY <2>4, <3>2, <4>1
    <3> QED
      BY <3>1, <3>2
  <2> QED
    BY <2>1, <2>2, <2>3, <2>5
<1>2. ASSUME NEW ok \in BOOLEAN, Unpause(o, ok)
      PROVE  Workspaces'
  <2>1. UNCHANGED prepared
    BY <1>2 DEF Unpause
  <2>2. UNCHANGED ws \/ (op[o].w \in Existing /\ ws' = [ws EXCEPT ![op[o].w] = "live"])
    BY <1>2 DEF Unpause
  <2>3. op[o].w \in Existing => op[o].w \in Workspace
    BY DEF Existing
  <2> QED
    BY <2>1, <2>2, <2>3, SameWorkspaces, OneWorkspace
<1>3. ASSUME NEW ok \in BOOLEAN, Pause(o, ok)
      PROVE  Workspaces'
  <2> DEFINE t == op[o].snap.target
  <2>1. /\ prepared' = prepared \/ prepared' = 0
        /\ UNCHANGED ws \/ (t \in Existing /\ ws' = [ws EXCEPT ![t] = "paused"])
    BY <1>3 DEF Pause
  <2>2. t \in Existing => t \in Workspace
    BY DEF Existing
  <2> QED
    BY <2>1, <2>2, SameWorkspaces, OneWorkspace
<1>4. ASSUME NEW ok \in BOOLEAN, DeleteTarget(o, ok)
      PROVE  Workspaces'
  <2>1. UNCHANGED <<ws, prepared>> \/ delete({op[o].snap.target})
    BY <1>4 DEF DeleteTarget
  <2> QED
    BY <2>1, DeleteWorkspaces, SameWorkspaces
<1>5. ASSUME NEW ok \in BOOLEAN, NEW l \in Lease, ReleaseLease(o, l, ok)
      PROVE  Workspaces'
  <2>1. UNCHANGED <<ws, prepared>> \/ delete(cleaned(op[o], l))
    BY <1>5 DEF ReleaseLease
  <2> QED
    BY <2>1, DeleteWorkspaces, SameWorkspaces
<1>6. CASE UNCHANGED ws /\ (prepared' = prepared \/ prepared' = 0)
  BY <1>6, SameWorkspaces
<1>7. CASE CreateMark(o) \/ CreateReady(o) \/ StopMark(o) \/ StopDone(o) \/ FailDone(o)
        \/ HibernateMark(o) \/ HibernateDone(o) \/ HibernateFail(o) \/ ResumeMark(o)
        \/ ResumeEnter(o) \/ VisitorMark(o) \/ ShutdownRoute(o) \/ ResumeReady(o)
  <2>1. \A r, p : update(o, r, p) => UNCHANGED <<ws, prepared>>
    BY DEF update, target
  <2> QED
    BY <1>6, <1>7, <2>1 DEF CreateMark, CreateReady, StopMark, StopDone, FailDone, HibernateMark,
      HibernateDone, HibernateFail, ResumeMark, ResumeEnter, VisitorMark, ShutdownRoute, ResumeReady
<1>8. CASE EndLeases(o) \/ Finish(o)
  BY <1>6, <1>8 DEF EndLeases, Finish, Down
<1>9. ASSUME NEW ok \in BOOLEAN,
             \/ LogCreated(o, ok) \/ LogReady(o, ok) \/ FinishRun(o, ok) \/ LogHibernated(o, ok)
             \/ ReadRow(o, ok) \/ ListLeases(o, ok) \/ StopGet(o, ok) \/ HibernateGet(o, ok)
             \/ ResumeGet(o, ok) \/ VisitorGet(o, ok)
      PROVE  Workspaces'
  BY <1>6, <1>9 DEF LogCreated, LogReady, FinishRun, LogHibernated, Await, ReadRow, ListLeases,
    StopGet, HibernateGet, ResumeGet, VisitorGet, target
<1>10. ASSUME NEW ok \in BOOLEAN,
              StartVendors(o, ok) \/ Register(o, ok) \/ Provision(o, ok) \/ VisitorRoute(o, ok)
       PROVE  Workspaces'
  BY <1>6, <1>10 DEF StartVendors, Register, Provision, VisitorRoute
<1> QED
  BY <1>1, <1>2, <1>3, <1>4, <1>5, <1>7, <1>8, <1>9, <1>10 DEF Step

LEMMA NextTypes ==
  ASSUME Types, Workspaces, [Next]_vars,
         \A o \in Slot : At(o, Provisions, "lease") => op[o].w \in Workspace
  PROVE  Types' /\ Workspaces'
<1>1. CASE \E o \in Slot : Step(o)
  BY <1>1, StepTypes, StepWorkspaces
<1>2. CASE OutcomeStep \/ StartOutcome
  <2>1. UNCHANGED <<ws, prepared>>
    BY <1>2 DEF OutcomeStep, OutcomeWrite, OutcomeGet, OutcomeVerify, OutcomeRead, OutcomeCollect,
      StartOutcome, target
  <2> QED
    BY <1>2, <2>1, OutcomeTypes, SameWorkspaces
<1>3. ASSUME NEW keep \in BOOLEAN, Create(keep)
      PROVE  Types' /\ Workspaces'
  <2>1. UNCHANGED <<ws, prepared>>
    BY <1>3 DEF Create
  <2> QED
    BY <1>3, <2>1, OtherTypes, SameWorkspaces
<1>4. ASSUME NEW o \in Req, NEW k \in {"visitor", "hibernate", "resume", "stop"}, Request(o, k)
      PROVE  Types' /\ Workspaces'
  <2>1. UNCHANGED <<ws, prepared>>
    BY <1>4 DEF Request, target
  <2> QED
    BY <1>4, <2>1, OtherTypes, SameWorkspaces
<1>5. CASE ExpireRead \/ ExpireEnqueue \/ Boot \/ Shutdown \/ Crash \/ TimePasses
  <2>1. UNCHANGED ws /\ (prepared' = prepared \/ prepared' = 0)
    BY <1>5 DEF ExpireRead, ExpireEnqueue, Boot, Shutdown, Crash, Down, TimePasses, target
  <2> QED
    BY <1>5, <2>1, OtherTypes, SameWorkspaces
<1>6. ASSUME NEW l \in Lease, Reap(l)
      PROVE  Types' /\ Workspaces'
  <2>1. delete({l} \cap Workspace)
    BY <1>6 DEF Reap
  <2> QED
    BY <1>6, <2>1, OtherTypes, DeleteWorkspaces
<1>7. CASE UNCHANGED vars
  BY <1>7 DEF vars, target, world, Types, Workspaces, Existing
<1> QED
  BY <1>1, <1>2, <1>3, <1>4, <1>5, <1>6, <1>7 DEF Next

-----------------------------------------------------------------------------
(* One operation at a time                                                 *)

LEMMA Slots ==
  /\ Slot = Queued \cup {"create", "boot"} /\ Queued = Req \cup {"timer"}
  /\ "create" \notin Queued /\ "boot" \notin Queued /\ "timer" \notin Req
  BY NameAssumption DEF Slot, Queued

\* While an operation changes the session, the others wait or rest.
LEMMA Single ==
  ASSUME Serial, NEW o \in Slot, HasTurn(o), ~Quiet(o)
  PROVE  \A q \in Slot \ {o} : Quiet(q)
<1>1. ~Rests(o)
  BY DEF Quiet, Rests
<1> SUFFICES ASSUME NEW q \in Slot \ {o}, ~Quiet(q)
             PROVE  FALSE
  OBVIOUS
<1>2. ~Rests(q)
  BY DEF Quiet, Rests
<1>3. CASE o \in Queued /\ q \in Queued
  BY <1>3 DEF Serial, HasTurn
<1>4. CASE o = "boot" \/ q = "boot"
  BY <1>1, <1>2, <1>4 DEF Serial, Quiet, Rests
<1>5. CASE o = "create" \/ q = "create"
  BY <1>1, <1>2, <1>5, Slots DEF Serial, Quiet, Rests
<1> QED
  BY <1>3, <1>4, <1>5, Slots

\* A step that takes nothing from the row and adds nothing to what it owns.
Calm == UNCHANGED <<row, ws, proc>> /\ leases' \subseteq leases /\ (runtime' => runtime)

LEMMA CalmRows ==
  ASSUME Types, Rows, Calm
  PROVE  Rows'
<1>1. Existing' = Existing /\ Kept' = Kept
  BY DEF Calm, Existing, Kept
<1>2. (leases = {} => leases' = {}) /\ (~runtime => ~runtime')
  BY DEF Calm
<1>3. isLive(row)' = isLive(row)
  BY DEF Calm, isLive
<1> QED
  BY <1>1, <1>2, <1>3 DEF Rows, Calm

\* What the invariant reads of an operation.
Alike(s, t) == /\ s.kind = t.kind /\ s.pc = t.pc /\ s.snap = t.snap /\ s.w = t.w
               /\ s.todo = t.todo /\ s.err = t.err

\* Such a step, unless it starts or ends the process.
Still == UNCHANGED <<row, ws>> /\ leases' \subseteq leases /\ (runtime' => runtime)

LEMMA StillWorks ==
  ASSUME Types, NEW q \in Slot, Works(q), Still, Alike(op'[q], op[q])
  PROVE  Works(q)'
<1>1. Existing' = Existing /\ Kept' = Kept /\ Dropped' = Dropped /\ row' = row /\ ws' = ws
  BY DEF Still, Existing, Kept, Dropped
<1>2. /\ leases = {} => leases' = {}
      /\ ~runtime => ~runtime'
      /\ \A S : leases \subseteq S => leases' \subseteq S
  BY DEF Still
<1>3. CreateWorks(q)'
  BY <1>1 DEF Alike, Works, CreateWorks, In, isLive
<1>4. CleanupWorks(q)'
  BY <1>1, <1>2 DEF Alike, Works, CleanupWorks, In, isLive
<1>5. HibernateWorks(q)'
  BY <1>1, <1>2 DEF Alike, Works, HibernateWorks, In, isLive
<1>6. ResumeWorks(q)' /\ RecoverWorks(q)'
  BY <1>1 DEF Alike, Works, ResumeWorks, RecoverWorks, In, isLive
<1>7. BootWorks(q)' /\ VisitorWorks(q)'
  BY <1>1 DEF Alike, Works, BootWorks, VisitorWorks, In, isLive
<1> QED
  BY <1>3, <1>4, <1>5, <1>6, <1>7 DEF Works

LEMMA CalmWorks ==
  ASSUME Types, NEW q \in Slot, Works(q), Calm, Alike(op'[q], op[q])
  PROVE  Works(q)'
  BY StillWorks DEF Calm, Still

\* What a waiting operation knows, nobody can change.
LEMMA QuietWorks ==
  ASSUME NEW q \in Slot, op[q].kind \in Kinds(q), Quiet(q), Works(q), op'[q] = op[q]
  PROVE  Works(q)'
<1>1. CASE q = "boot"
  <2>1. op[q].kind \in {"idle", "shutdown"}
    BY <1>1 DEF Quiet, Kinds
  <2> QED
    BY <2>1 DEF Works, CreateWorks, CleanupWorks, HibernateWorks, ResumeWorks, RecoverWorks,
      BootWorks, VisitorWorks, In
<1>2. CASE q # "boot" /\ op[q].kind \in {"idle", "expire", "shutdown"}
  BY <1>2 DEF Works, CreateWorks, CleanupWorks, HibernateWorks, ResumeWorks, RecoverWorks,
    BootWorks, VisitorWorks, In
<1>3. CASE q # "boot" /\ op[q].pc \in {"get", "return", "throw"}
  BY <1>3 DEF Works, CreateWorks, CleanupWorks, HibernateWorks, ResumeWorks, RecoverWorks,
    BootWorks, VisitorWorks, In
<1> QED
  BY <1>1, <1>2, <1>3 DEF Quiet

LEMMA SerialStep ==
  ASSUME Serial, NEW o \in Slot, HasTurn(o), Others(o), op[o].kind \notin {"idle", "expire"},
         op'[o].kind \in Kinds(o) \ {"idle", "expire"},
         (op'[o].kind = "shutdown") = (op[o].kind = "shutdown"), UNCHANGED <<lock, proc>>,
         row' # NoRow, o \in Queued /\ Quiet(o) => Rests("create")
  PROVE  Serial'
<1>1. ~Rests(o) /\ \A q \in Slot \ {o} : Rests(q)' = Rests(q) /\ Quiet(q)' = Quiet(q)
  BY DEF Rests, Quiet, Others
<1>2. \A q \in Slot : /\ op'[q].kind \in Kinds(q)
                      /\ op'[q].kind = "idle" => op'[q].pc = "none"
                      /\ op'[q].kind = "expire" => op'[q].pc = "enqueue"
  BY DEF Serial, Others
<1>3. \A q \in Queued : ~Quiet(q)' => lock' # <<>> /\ Head(lock') = q
  <2> SUFFICES ASSUME NEW q \in Queued, ~Quiet(q)'
               PROVE  lock' # <<>> /\ Head(lock') = q
    OBVIOUS
  <2>1. CASE q = o
    BY <2>1 DEF HasTurn
  <2>2. CASE q # o
    BY <1>1, <2>2, Slots DEF Serial
  <2> QED
    BY <2>1, <2>2
<1>4. ~Rests("create")' => proc' = "up" /\ Rests("boot")' /\ \A q \in Queued : Quiet(q)'
  <2>1. CASE o = "create"
    BY <1>1, <2>1, Slots DEF Serial
  <2>2. CASE o # "create"
    <3>1. Rests("create")
      BY <1>1, <2>2, Slots DEF Serial
    <3> QED
      BY <1>1, <2>2, <3>1, Slots
  <2> QED
    BY <2>1, <2>2
<1>5. op'["boot"].kind \notin {"idle", "shutdown"} =>
        proc' = "boot" /\ \A q \in Slot \ {"boot"} : Rests(q)'
  <2>1. CASE o = "boot"
    BY <1>1, <2>1 DEF Serial
  <2>2. CASE o # "boot"
    BY <1>1, <2>2, Slots DEF Serial, Others
  <2> QED
    BY <2>1, <2>2
<1>6. op'["boot"].kind = "shutdown" =>
        proc' = "closing" /\ \A q \in Req \cup {"create"} : Rests(q)'
  <2>1. CASE o = "boot"
    BY <1>1, <2>1, Slots DEF Serial
  <2>2. CASE o # "boot"
    BY <1>1, <2>2, Slots DEF Serial, Others
  <2> QED
    BY <2>1, <2>2
<1>7. proc' = "boot" => op'["boot"].kind \notin {"idle", "shutdown"}
  <2>1. CASE o = "boot"
    BY <2>1 DEF Serial
  <2>2. CASE o # "boot"
    BY <2>2, Slots DEF Serial, Others
  <2> QED
    BY <2>1, <2>2
<1>8. proc' # "down"
  BY <1>1 DEF Serial
<1> QED
  BY <1>2, <1>3, <1>4, <1>5, <1>6, <1>7, <1>8 DEF Serial

\* It is enough to look at the operation that takes the step.
LEMMA StepHolds ==
  ASSUME Types, Ordered, NEW o \in Slot, HasTurn(o), Others(o),
         op[o].kind \notin {"idle", "expire"}, op'[o].kind \in Kinds(o) \ {"idle", "expire"},
         (op'[o].kind = "shutdown") = (op[o].kind = "shutdown"), UNCHANGED <<lock, proc>>,
         row' # NoRow, o \in Queued /\ Quiet(o) => Rests("create"),
         Calm \/ (~Quiet(o) /\ Rows'), Works(o)'
  PROVE  Ordered'
<1>1. Serial'
  BY SerialStep DEF Ordered
<1>2. Rows'
  BY CalmRows DEF Ordered
<1>3. ASSUME NEW q \in Slot \ {o}
      PROVE  Works(q)'
  <2>1. Works(q) /\ op'[q] = op[q] /\ op[q].kind \in Kinds(q)
    BY DEF Ordered, Others, Serial
  <2>2. CASE Calm
    BY <2>1, <2>2, CalmWorks DEF Alike
  <2>3. CASE ~Quiet(o)
    BY <2>1, <2>3, Single, QuietWorks DEF Ordered
  <2> QED
    BY <2>2, <2>3
<1> QED
  BY <1>1, <1>2, <1>3 DEF Ordered

-----------------------------------------------------------------------------
(* Exceptions                                                              *)

Leads(s, k, p) == catch(s).kind = k /\ catch(s).pc = p /\ catch(s).snap = s.snap

\* hibernate catches its own exceptions; the late ones of a resume, and of the
\* recovery of a kept workspace, hibernate again; create and recovery fail.
Reverts(s) == s.kind = "hibernate" /\ s.pc \in {"pause", "list", "release", "done", "log"}
Resaves(s) == \/ s.kind = "resume" /\ s.pc \notin {"get", "mark"}
              \/ s.kind = "recover" /\ s.snap.keep /\ s.snap.target # 0
Drops(s) == \/ s.kind = "create" /\ s.pc # "log created"
            \/ s.kind = "recover" /\ ~(s.snap.keep /\ s.snap.target # 0)

LEMMA Catches ==
  ASSUME NEW s \in Op
  PROVE  /\ Reverts(s) => Leads(s, "hibernate", "fail")
         /\ Resaves(s) => Leads(s, "hibernate", "get")
         /\ Drops(s) => Leads(s, "fail", "delete")
         /\ ~Reverts(s) /\ ~Resaves(s) /\ ~Drops(s) => Leads(s, s.kind, "throw")
<1>1. /\ s.kind \in Kind /\ "hibernate" \in Kind /\ "fail" \in Kind
      /\ "fail" \in Pc /\ "get" \in Pc /\ "delete" \in Pc /\ "throw" \in Pc
  BY DEF Op, Kind, Pc
<1>2. \A k \in Kind, p \in Pc :
        Begin(s, k, p).kind = k /\ Begin(s, k, p).pc = p /\ Begin(s, k, p).snap = s.snap
  BY BeginType
<1>3. ASSUME Reverts(s) PROVE Leads(s, "hibernate", "fail")
  BY <1>1, <1>2, <1>3 DEF catch, Reverts, Resaves, Drops, Leads
<1>4. ASSUME Resaves(s) PROVE Leads(s, "hibernate", "get")
  <2>1. catch(s) = Begin(s, "hibernate", "get")
    BY <1>4 DEF catch, Reverts, Resaves, Drops
  <2> QED
    BY <1>1, <1>2, <2>1 DEF Leads
<1>5. ASSUME Drops(s) PROVE Leads(s, "fail", "delete")
  <2>1. catch(s) = Begin(s, "fail", "delete")
    BY <1>5 DEF catch, Reverts, Resaves, Drops
  <2> QED
    BY <1>1, <1>2, <2>1 DEF Leads
<1>6. ASSUME ~Reverts(s) /\ ~Resaves(s) /\ ~Drops(s) PROVE Leads(s, s.kind, "throw")
  <2>1. catch(s) = Begin(s, s.kind, "throw")
    BY <1>6 DEF catch, Reverts, Resaves, Drops
  <2> QED
    BY <1>1, <1>2, <2>1 DEF Leads
<1> QED
  BY <1>3, <1>4, <1>5, <1>6

\* After an exception the operation knows what its next handler needs.
LEMMA Throws ==
  ASSUME Types, Ordered, NEW o \in Slot, Becomes(o, catch(op[o])), row' = row,
         op[o].kind \notin {"idle", "expire"}, op[o].pc \notin {"return", "throw"}
  PROVE  /\ Others(o) /\ op'[o].kind \in Kinds(o) \ {"idle", "expire"}
         /\ (op'[o].kind = "shutdown") = (op[o].kind = "shutdown")
         /\ Works(o)'
<1>1. Others(o) /\ op'[o] = catch(op[o]) /\ op[o] \in Op /\ row \in Row
  BY CatchType, BecomesType DEF Types
<1>2. Works(o) /\ op[o].kind \in Kinds(o) /\ Rows
  BY DEF Ordered, Serial
<1> DEFINE s == op[o]
           to(k, p) == op'[o].kind = k /\ op'[o].pc = p /\ op'[o].snap = s.snap
<1>a. /\ Reverts(s) => to("hibernate", "fail")
      /\ Resaves(s) => to("hibernate", "get")
      /\ Drops(s) => to("fail", "delete")
      /\ ~Reverts(s) /\ ~Resaves(s) /\ ~Drops(s) => to(s.kind, "throw")
  BY <1>1, Catches DEF Leads
<1>3. CASE Reverts(s)
  <2>1. row'.status \in {"HIBERNATING", "HIBERNATED"}
    BY <1>2, <1>3, <1>a DEF Reverts, Works, HibernateWorks, In
  <2> QED
    BY <1>1, <1>2, <1>3, <1>a, <2>1 DEF Reverts, Works, CreateWorks, CleanupWorks, HibernateWorks, ResumeWorks,
      RecoverWorks, BootWorks, VisitorWorks, In
<1>4. CASE Resaves(s)
  <2>1. op'[o].kind \in Kinds(o)
    BY <1>2, <1>4, <1>a DEF Resaves, Kinds
  <2>2. o = "boot" /\ row'.status = "PROVISIONING" => row'.keep /\ isLive(s.snap)
    <3> SUFFICES ASSUME o = "boot", row.status = "PROVISIONING"
                 PROVE  row.keep /\ isLive(s.snap)
      OBVIOUS
    <3>1. s.kind = "recover" /\ s.snap.keep
      BY <1>2, <1>4, <1>a DEF Resaves, Kinds
    <3> QED
      BY <1>2, <3>1 DEF Works, RecoverWorks, In, isLive
  <2> QED
    BY <1>1, <1>4, <1>a, <2>1, <2>2 DEF Resaves, Works, CreateWorks, CleanupWorks, HibernateWorks, ResumeWorks,
      RecoverWorks, BootWorks, VisitorWorks, In, isLive
<1>5. CASE Drops(s)
  <2>1. op'[o].kind \in Kinds(o)
    BY <1>2, <1>5, <1>a DEF Drops, Kinds
  <2>2. isLive(row) \/ (Dropped /\ s.snap.target = row.target)
    BY <1>2, <1>5, <1>a DEF Drops, Works, CreateWorks, RecoverWorks, In, Dropped
  <2>3. isLive(row)' \/ (Dropped' /\ op'[o].snap.target = row'.target)
    BY <1>5, <1>a, <2>2 DEF isLive, Dropped
  <2> QED
    BY <1>1, <1>5, <1>a, <2>1, <2>3 DEF Drops, Works, CreateWorks, CleanupWorks, HibernateWorks, ResumeWorks,
      RecoverWorks, BootWorks, VisitorWorks, In
<1>6. CASE ~Reverts(s) /\ ~Resaves(s) /\ ~Drops(s)
  <2>1. o = "boot" /\ s.kind = "hibernate" /\ row'.status = "PROVISIONING" =>
          s.snap.status \notin {"HIBERNATING", "RESUMING"}
    BY <1>2, <1>6 DEF Reverts, Works, HibernateWorks, BootWorks, In, isLive
  <2> QED
    BY <1>1, <1>2, <1>6, <1>a, <2>1 DEF Reverts, Resaves, Drops, Works, CreateWorks, CleanupWorks, HibernateWorks, ResumeWorks,
      RecoverWorks, BootWorks, VisitorWorks, In
<1> QED
  BY <1>1, <1>3, <1>4, <1>5, <1>6

-----------------------------------------------------------------------------
(* What a step makes of its operation                                      *)

LEMMA Goes ==
  ASSUME Types, NEW o \in Slot, NEW p \in Pc, Becomes(o, [op[o] EXCEPT !.pc = p])
  PROVE  Others(o) /\ Alike(op'[o], [op[o] EXCEPT !.pc = p])
         /\ op'[o].kind = op[o].kind /\ op'[o].pc = p /\ op'[o].snap = op[o].snap
         /\ op'[o].w = op[o].w /\ op'[o].todo = op[o].todo /\ op'[o].err = op[o].err
<1>1. op[o] \in Op
  BY DEF Types
<1>2. [op[o] EXCEPT !.pc = p] \in Op
  BY <1>1, OpTypes
<1>3. Others(o) /\ op'[o] = [op[o] EXCEPT !.pc = p]
  BY <1>2, BecomesType
<1> QED
  BY <1>1, <1>3, Zenon DEF Op, Alike

LEMMA Awake ==
  ASSUME Serial, NEW o \in Slot, op[o].pc \notin {"none", "enqueue"}
  PROVE  op[o].kind \notin {"idle", "expire"} /\ row # NoRow /\ proc # "down"
  BY DEF Serial, Rests

LEMMA Working ==
  ASSUME Serial, NEW o \in Slot, op[o].kind \notin {"shutdown"},
         op[o].pc \notin {"none", "enqueue", "get", "return", "throw"}
  PROVE  ~Quiet(o) /\ op[o].kind \notin {"idle", "expire"} /\ row # NoRow
  BY DEF Serial, Rests, Quiet

LEMMA ThrowHolds ==
  ASSUME Types, Ordered, NEW o \in Slot, HasTurn(o), Throw(o), UNCHANGED <<row, lock, proc>>,
         op[o].pc \notin {"none", "enqueue", "return", "throw"},
         o \in Queued /\ op[o].pc = "get" => Rests("create"),
         Calm \/ (~Quiet(o) /\ Rows')
  PROVE  Ordered'
<1>1. op[o].kind \notin {"idle", "expire"} /\ row # NoRow
  BY Awake DEF Ordered
<1>2. Becomes(o, catch(op[o]))
  BY DEF Throw, Becomes
<1>3. /\ Others(o) /\ op'[o].kind \in Kinds(o) \ {"idle", "expire"}
      /\ (op'[o].kind = "shutdown") = (op[o].kind = "shutdown")
      /\ Works(o)'
  BY <1>1, <1>2, Throws
<1>4. o \in Queued /\ Quiet(o) => op[o].pc = "get"
  BY <1>1, Slots DEF Quiet, Ordered, Serial, Kinds
<1> QED
  BY <1>1, <1>3, <1>4, StepHolds

\* A step of an operation that goes on, of the same kind.
LEMMA GoesHolds ==
  ASSUME Types, Ordered, NEW o \in Slot, HasTurn(o), Others(o), op'[o].kind = op[o].kind,
         UNCHANGED <<lock, proc>>, row' # NoRow,
         op[o].pc \notin {"none", "enqueue", "return", "throw"},
         o \in Queued /\ op[o].pc = "get" => Rests("create"),
         Calm \/ (~Quiet(o) /\ Rows'), Works(o)'
  PROVE  Ordered'
<1>1. op[o].kind \notin {"idle", "expire"} /\ row # NoRow
  BY Awake DEF Ordered
<1>2. op[o].kind \in Kinds(o)
  BY DEF Ordered, Serial
<1>3. o \in Queued /\ Quiet(o) => op[o].pc = "get"
  BY <1>1, Slots DEF Quiet, Ordered, Serial, Kinds
<1> QED
  BY <1>1, <1>2, <1>3, StepHolds

LEMMA ReadRowHolds ==
  ASSUME Types, Ordered, NEW o \in Slot, HasTurn(o), NEW ok \in BOOLEAN, ReadRow(o, ok)
  PROVE  Ordered'
<1>1. Calm /\ UNCHANGED <<row, lock, proc>>
  BY DEF ReadRow, Calm, target, world
<1>2. op[o].pc \notin {"none", "enqueue", "get", "return", "throw"}
  BY DEF ReadRow, Updates
<1>3. row # NoRow
  BY <1>2, Awake DEF Ordered
<1>4. CASE Throw(o)
  BY <1>1, <1>2, <1>4, ThrowHolds
<1>5. CASE Becomes(o, [op[o] EXCEPT !.seen = row])
  <2>1. op[o] \in Op /\ row \in Row
    BY DEF Types
  <2>2. [op[o] EXCEPT !.seen = row] \in Op
    BY <2>1, OpTypes
  <2>3. Others(o) /\ op'[o] = [op[o] EXCEPT !.seen = row]
    BY <1>5, <2>2, BecomesType
  <2>4. Alike(op'[o], op[o])
    BY <2>1, <2>3, Zenon DEF Alike, Op
  <2>5. Works(o)'
    BY <1>1, <2>4, CalmWorks DEF Ordered
  <2> QED
    BY <1>1, <1>2, <1>3, <2>3, <2>4, <2>5, GoesHolds DEF Alike
<1> QED
  BY <1>4, <1>5 DEF ReadRow, Becomes

LEMMA AwaitHolds ==
  ASSUME Types, Ordered, NEW o \in Slot, HasTurn(o), NEW ok \in BOOLEAN,
         LogCreated(o, ok) \/ LogReady(o, ok) \/ FinishRun(o, ok) \/ LogHibernated(o, ok)
  PROVE  Ordered'
<1>1. PICK p \in {"mark", "return"} :
        /\ Await(o, ok, p)
        /\ \/ p = "mark" /\ At(o, {"create"}, "log created")
           \/ p = "return" /\ \/ At(o, Provisions, "log ready")
                              \/ At(o, {"stop", "fail"}, "finish run")
                              \/ At(o, {"hibernate"}, "log")
  BY DEF LogCreated, LogReady, FinishRun, LogHibernated
<1>2. Calm /\ UNCHANGED <<row, lock, proc>>
  BY <1>1 DEF Await, Calm, target, world
<1>3. op[o].pc \notin {"none", "enqueue", "get", "return", "throw"}
  BY <1>1 DEF At
<1>4. row # NoRow
  BY <1>3, Awake DEF Ordered
<1>5. CASE Throw(o)
  BY <1>2, <1>3, <1>5, ThrowHolds
<1>6. CASE Becomes(o, [op[o] EXCEPT !.pc = p])
  <2>1. /\ Others(o) /\ op'[o].kind = op[o].kind /\ op'[o].pc = p /\ op'[o].snap = op[o].snap
    <3>1. p \in Pc
      BY DEF Pc
    <3> QED
      BY <1>6, <3>1, Goes
  <2>2. Works(o) /\ row' = row /\ op[o].kind \in Kinds(o)
    BY <1>2 DEF Ordered, Serial
  <2>3. Works(o)'
    <3>1. CASE p = "mark"
      BY <1>1, <2>1, <2>2, <3>1 DEF At, Works, CreateWorks, CleanupWorks, HibernateWorks,
        ResumeWorks, RecoverWorks, BootWorks, VisitorWorks, In
    <3>2. CASE p = "return"
      <4>1. o = "boot" /\ op[o].kind \notin {"idle", "shutdown"} => row.status # "PROVISIONING"
        BY <1>1, <2>2, <3>2 DEF At, Works, HibernateWorks, RecoverWorks, BootWorks, In, isLive,
          Kinds, Provisions
      <4> QED
        BY <1>1, <2>1, <2>2, <3>2, <4>1 DEF At, Provisions, Works, CreateWorks, CleanupWorks,
          HibernateWorks, ResumeWorks, RecoverWorks, BootWorks, VisitorWorks, In
    <3> QED
      BY <3>1, <3>2
  <2> QED
    BY <1>2, <1>3, <1>4, <2>1, <2>3, GoesHolds
<1> QED
  BY <1>1, <1>5, <1>6 DEF Await, Becomes

-----------------------------------------------------------------------------
(* Leases                                                                  *)

\* What is deleted stays deleted, and the workspaces and the leases of a
\* session that is not saved may change.
LEMMA RowsKept ==
  ASSUME Types, Rows, UNCHANGED <<row, proc>>,
         Kept /\ ~Dropped => row.target \in Existing',
         \A w \in Workspace : ws[w] = "gone" => ws'[w] = "gone",
         leases' \subseteq leases \/ row.pwd,
         row.status = "HIBERNATED" => Calm
  PROVE  Rows'
<1>1. CASE Calm
  BY <1>1, CalmRows
<1>2. CASE row.status # "HIBERNATED"
  <2>1. row.target # 0 => row.target \in Workspace
    BY DEF Types, Row, Workspace
  <2>2. row' = row /\ proc' = proc /\ isLive(row)' = isLive(row)
    BY DEF isLive
  <2>3. Kept /\ ~Dropped => Kept'
    BY <2>2 DEF Kept
  <2>4. ~Kept => ~row.pwd \/ row.target = 0 \/ row.target \notin Existing
    BY DEF Kept
  <2>5. isLive(row) \/ row.status \in {"FAILED", "HIBERNATING", "RESUMING"} => ~Dropped
    BY DEF isLive, Dropped
  <2>6. row.status = "PROVISIONING" /\ row.target # 0 /\ row.keep => ~Dropped
    BY DEF Dropped
  <2> QED
    BY <1>2, <2>1, <2>2, <2>3, <2>5, <2>6 DEF Rows
<1> QED
  BY <1>1, <1>2

LEMMA ListLeasesHolds ==
  ASSUME Types, Ordered, NEW o \in Slot, HasTurn(o), NEW ok \in BOOLEAN, ListLeases(o, ok)
  PROVE  Ordered'
<1>1. Calm /\ UNCHANGED <<row, ws, leases, lock, proc>> /\ op[o].pc = "list"
  BY DEF ListLeases, Calm, target, world
<1>2. row # NoRow
  BY <1>1, Awake DEF Ordered
<1>3. CASE Throw(o)
  BY <1>1, <1>3, ThrowHolds
<1>4. CASE Becomes(o, [op[o] EXCEPT !.pc = "release", !.todo = leases])
  <2> DEFINE s == [op[o] EXCEPT !.pc = "release", !.todo = leases]
  <2>1. op[o] \in Op
    BY DEF Types
  <2>2. s \in Op
    <3>1. "release" \in Pc /\ leases \in SUBSET Lease
      BY DEF Pc, Types
    <3> QED
      BY <2>1, <3>1, OpTypes
  <2>3. Others(o) /\ op'[o] = s
    BY <1>4, <2>2, BecomesType
  <2>4. /\ op'[o].kind = op[o].kind /\ op'[o].pc = "release" /\ op'[o].todo = leases
        /\ op'[o].snap = op[o].snap /\ op'[o].err = op[o].err
    BY <2>1, <2>3, Zenon DEF Op
  <2>5. Works(o) /\ row' = row /\ ws' = ws /\ leases' = leases
    BY <1>1 DEF Ordered
  <2>6. isLive(row)' = isLive(row) /\ Dropped' = Dropped
    BY <1>1 DEF isLive, Dropped
  <2>7. CleanupWorks(o)'
    BY <1>1, <2>4, <2>5, <2>6 DEF Works, CleanupWorks, In
  <2>8. HibernateWorks(o)'
    BY <1>1, <2>4, <2>5 DEF Works, HibernateWorks, In
  <2>9. Works(o)'
    BY <1>1, <2>4, <2>5, <2>6, <2>7, <2>8 DEF Works, CreateWorks, ResumeWorks, RecoverWorks,
      BootWorks, VisitorWorks, In
  <2> QED
    BY <1>1, <1>2, <2>3, <2>4, <2>9, GoesHolds
<1> QED
  BY <1>3, <1>4 DEF ListLeases, Becomes

LEMMA EndLeasesHolds ==
  ASSUME Types, Ordered, NEW o \in Slot, HasTurn(o), EndLeases(o)
  PROVE  Ordered'
<1>1. /\ UNCHANGED <<row, ws, leases, lock, proc>> /\ op[o].pc = "release" /\ op[o].todo = {}
      /\ runtime' = (op[o].kind \in {"resume", "recover"})
  BY DEF EndLeases, world
<1>2. row # NoRow
  BY <1>1, Awake DEF Ordered
<1>3. PICK p \in Pc, err \in BOOLEAN :
        /\ Becomes(o, [op[o] EXCEPT !.pc = p, !.err = err])
        /\ p = IF op[o].kind \in {"resume", "recover"} THEN "enter"
               ELSE IF op[o].kind = "shutdown" THEN "route" ELSE "done"
        /\ op[o].err => err
  <2> DEFINE e == op[o].err \/ (op[o].kind \in {"stop", "fail"} /\ op[o].snap.target # 0 /\ ~op[o].gone)
             q == IF op[o].kind \in {"resume", "recover"} THEN "enter"
                  ELSE IF op[o].kind = "shutdown" THEN "route" ELSE "done"
  <2>1. q \in Pc /\ e \in BOOLEAN
    BY DEF Pc
  <2>2. Becomes(o, [op[o] EXCEPT !.pc = q, !.err = e])
    BY DEF EndLeases, Becomes
  <2> QED
    BY <2>1, <2>2
<1> DEFINE s == [op[o] EXCEPT !.pc = p, !.err = err]
<1>4. op[o] \in Op
  BY DEF Types
<1>5. Others(o) /\ op'[o] = s
  <2>1. s \in Op
    BY <1>4, OpTypes
  <2> QED
    BY <1>3, <2>1, BecomesType
<1>6. /\ op'[o].kind = op[o].kind /\ op'[o].pc = p /\ op'[o].err = err
      /\ op'[o].snap = op[o].snap
  BY <1>4, <1>5, Zenon DEF Op
<1>7. Works(o) /\ row' = row /\ ws' = ws /\ leases' = leases
  BY <1>1 DEF Ordered
<1>8. isLive(row)' = isLive(row) /\ Dropped' = Dropped
  BY <1>1 DEF isLive, Dropped
<1>9. CleanupWorks(o)'
  BY <1>1, <1>3, <1>6, <1>7, <1>8 DEF Works, CleanupWorks, In
<1>10. HibernateWorks(o)'
  BY <1>1, <1>3, <1>6, <1>7 DEF Works, HibernateWorks, In
<1>11. Works(o)'
  BY <1>1, <1>3, <1>6, <1>7, <1>8, <1>9, <1>10 DEF Works, CreateWorks, ResumeWorks, RecoverWorks,
    BootWorks, VisitorWorks, In
<1>12. Calm \/ (~Quiet(o) /\ Rows')
  <2>1. CASE op[o].kind \notin {"resume", "recover"}
    BY <1>1, <2>1 DEF Calm
  <2>2. CASE op[o].kind \in {"resume", "recover"}
    <3>1. ~Quiet(o)
      BY <1>1, <2>2, Working DEF Ordered
    <3>2. row.status # "HIBERNATED"
      BY <1>1, <1>7, <2>2 DEF Works, ResumeWorks, RecoverWorks, In, isLive
    <3>3. Existing' = Existing
      BY <1>1 DEF Existing
    <3>4. Kept => row.target \in Existing'
      BY <3>3 DEF Kept
    <3> QED
      BY <1>1, <3>1, <3>2, <3>4, RowsKept DEF Ordered
  <2> QED
    BY <2>1, <2>2
<1> QED
  BY <1>1, <1>2, <1>5, <1>6, <1>11, <1>12, GoesHolds

LEMMA ReleaseLeaseHolds ==
  ASSUME Types, Ordered, NEW o \in Slot, HasTurn(o), NEW ok \in BOOLEAN, NEW l \in Lease,
         ReleaseLease(o, l, ok)
  PROVE  Ordered'
<1> DEFINE deletes == op[o].kind \in {"stop", "fail"} /\ l # Res
           s == [op[o] EXCEPT !.todo = @ \ {l}]
<1>1. /\ UNCHANGED <<row, lock, proc, runtime>> /\ op[o].pc = "release"
      /\ leases' \subseteq leases
  BY DEF ReleaseLease, world
<1>2. row # NoRow
  BY <1>1, Awake DEF Ordered
<1>3. Works(o)
  BY DEF Ordered
<1>4. \A S : delete(S) => \A w \in Workspace : ws[w] = "gone" => ws'[w] = "gone"
  BY DEF delete
<1>5. op[o].kind \notin {"stop", "fail"} => ws' = ws
  <2>1. delete({}) => ws' = ws
    BY DEF delete, Types
  <2>2. op[o].kind \notin {"stop", "fail"} => cleaned(op[o], l) = {}
    BY DEF cleaned
  <2> QED
    BY <2>1, <2>2 DEF ReleaseLease
<1>6. op[o].kind \notin {"stop", "fail"} => Calm
  BY <1>1, <1>5 DEF Calm
<1>7. op[o].kind \in {"stop", "fail"} => ~Quiet(o) /\ Rows'
  <2> SUFFICES ASSUME op[o].kind \in {"stop", "fail"}
               PROVE  ~Quiet(o) /\ Rows'
    OBVIOUS
  <2>1. ~Quiet(o)
    BY <1>1, Working DEF Ordered
  <2>2. Dropped
    BY <1>1, <1>3 DEF Works, CleanupWorks
  <2>3. \A w \in Workspace : ws[w] = "gone" => ws'[w] = "gone"
    BY <1>4 DEF ReleaseLease
  <2>4. row.status # "HIBERNATED"
    BY <2>2 DEF Dropped
  <2> QED
    BY <1>1, <2>1, <2>2, <2>3, <2>4, RowsKept DEF Ordered
<1>8. CASE Throw(o)
  BY <1>1, <1>6, <1>7, <1>8, ThrowHolds
<1>9. ASSUME NEW t \in Op, Becomes(o, t), t.kind = op[o].kind, t.pc = "release",
             t.snap = op[o].snap, t.todo = op[o].todo \ {l}, op[o].err => t.err,
             t.err \/ leases' = leases \ {l} \/ op[o].kind \notin {"stop", "fail", "hibernate"},
             op[o].kind = "hibernate" => leases' = leases \ {l}
      PROVE  Ordered'
  <2>1. Others(o) /\ op'[o] = t
    BY <1>9, BecomesType
  <2>2. \A w \in Workspace : ws[w] = "gone" => ws'[w] = "gone"
    BY <1>4, <1>5 DEF ReleaseLease
  <2>3. Works(o)'
    <3>1. row' = row /\ isLive(row)' = isLive(row) /\ Dropped' = Dropped
      BY <1>1 DEF isLive, Dropped
    <3>2. row.target # 0 => row.target \in Workspace
      BY DEF Types, Row, Workspace
    <3>3. CleanupWorks(o)'
      BY <1>1, <1>3, <1>9, <2>1, <2>2, <3>1, <3>2 DEF Works, CleanupWorks, In
    <3>4. HibernateWorks(o)'
      BY <1>1, <1>3, <1>5, <1>9, <2>1, <3>1 DEF Works, HibernateWorks, In
    <3> QED
      BY <1>1, <1>3, <1>9, <2>1, <3>1, <3>3, <3>4 DEF Works, CreateWorks, ResumeWorks, RecoverWorks,
        BootWorks, VisitorWorks, In
  <2> QED
    BY <1>1, <1>2, <1>6, <1>7, <1>9, <2>1, <2>3, GoesHolds
<1>10. op[o] \in Op /\ s \in Op /\ s.kind = op[o].kind /\ s.pc = op[o].pc /\ s.snap = op[o].snap
       /\ s.todo = op[o].todo \ {l} /\ s.err = op[o].err /\ s.gone \in BOOLEAN
  <2>1. op[o] \in Op
    BY DEF Types
  <2>2. op[o].todo \ {l} \in SUBSET Lease
    BY <2>1 DEF Op
  <2>3. s \in Op
    BY <2>1, <2>2, OpTypes
  <2> QED
    BY <2>1, <2>3, Zenon DEF Op
<1> HIDE DEF s
<1>11. ASSUME NEW gone \in BOOLEAN
       PROVE  /\ [s EXCEPT !.gone = gone] \in Op /\ [s EXCEPT !.err = TRUE] \in Op
              /\ [s EXCEPT !.gone = gone, !.err = TRUE] \in Op
              /\ Alike([s EXCEPT !.gone = gone], s)
              /\ Alike([s EXCEPT !.gone = gone, !.err = TRUE], [s EXCEPT !.err = TRUE])
              /\ [s EXCEPT !.err = TRUE].kind = s.kind /\ [s EXCEPT !.err = TRUE].pc = s.pc
              /\ [s EXCEPT !.err = TRUE].snap = s.snap /\ [s EXCEPT !.err = TRUE].todo = s.todo
              /\ [s EXCEPT !.err = TRUE].err
  <2>1. /\ [s EXCEPT !.gone = gone] \in Op /\ [s EXCEPT !.err = TRUE] \in Op
        /\ [s EXCEPT !.gone = gone, !.err = TRUE] \in Op
    BY <1>10, OpTypes
  <2> QED
    BY <1>10, <2>1, Zenon DEF Op, Alike
<1>12. CASE /\ Becomes(o, [s EXCEPT !.gone = @ \/ deletes])
            /\ leases' = IF releases(op[o].kind, l) THEN leases \ {l} ELSE leases
  <2> DEFINE t == [s EXCEPT !.gone = @ \/ deletes]
  <2>1. (s.gone \/ deletes) \in BOOLEAN
    BY <1>10
  <2>2. t \in Op /\ Alike(t, s)
    BY <1>11, <2>1
  <2>3. op[o].kind # "shutdown" => leases' = leases \ {l}
    BY <1>12 DEF releases
  <2> HIDE DEF t
  <2>4. Becomes(o, t)
    BY <1>12 DEF t
  <2> QED
    BY <1>1, <1>9, <1>10, <2>2, <2>3, <2>4 DEF Alike
<1>13. CASE /\ \/ Becomes(o, [s EXCEPT !.gone = @ \/ deletes, !.err = TRUE])
               \/ Becomes(o, [s EXCEPT !.err = TRUE])
            /\ op[o].kind \in {"stop", "fail"}
  <2> DEFINE t == [s EXCEPT !.gone = @ \/ deletes, !.err = TRUE]
             u == [s EXCEPT !.err = TRUE]
  <2>1. (s.gone \/ deletes) \in BOOLEAN
    BY <1>10
  <2>2. t \in Op /\ u \in Op /\ Alike(t, u)
    BY <1>11, <2>1
  <2>3. u.kind = s.kind /\ u.pc = s.pc /\ u.snap = s.snap /\ u.todo = s.todo /\ u.err
    BY <1>11, <2>1
  <2> HIDE DEF t, u
  <2>4. Becomes(o, t) \/ Becomes(o, u)
    BY <1>13 DEF t, u
  <2>5. CASE Becomes(o, t)
    BY <1>1, <1>9, <1>10, <1>13, <2>2, <2>3, <2>5 DEF Alike
  <2>6. CASE Becomes(o, u)
    BY <1>1, <1>9, <1>10, <1>13, <2>2, <2>3, <2>6
  <2> QED
    BY <2>4, <2>5, <2>6
<1> QED
  BY <1>8, <1>12, <1>13 DEF ReleaseLease, Becomes, s

-----------------------------------------------------------------------------
(* Updates of the row                                                      *)

\* While no write overlaps another, an update patches the row as it is.
LEMMA Updated ==
  ASSUME Types, Ordered, NEW o \in Slot, NEW r \in Row, NEW p \in Pc, update(o, r, p),
         holes = {}, holes' = {}
  PROVE  /\ row = op[o].seen /\ row # NoRow /\ row' = r
         /\ UNCHANGED <<ws, leases, runtime, proc, lock, prepared>>
         /\ Existing' = Existing
         /\ Others(o) /\ op'[o].kind = op[o].kind /\ op'[o].pc = p /\ op'[o].w = op[o].w
         /\ op'[o].todo = op[o].todo /\ op'[o].err = op[o].err
         /\ op'[o].snap = IF op[o].kind \in {"create", "stop"} THEN r ELSE op[o].snap
<1>1. /\ op[o].seen # NoRow /\ row' = r /\ UNCHANGED <<ws, leases, runtime, proc, lock, prepared>>
      /\ holes' = IF row # op[o].seen THEN holes \cup {"overlap"} ELSE holes
  BY DEF update, overwrite, target, world
<1>2. row = op[o].seen
  BY <1>1
<1> DEFINE t == IF op[o].kind \in {"create", "stop"} THEN r ELSE op[o].snap
           s == [op[o] EXCEPT !.pc = p, !.seen = NoRow, !.snap = t]
<1>3. op[o] \in Op /\ t \in Row
  <2>1. op[o] \in Op
    BY DEF Types
  <2> QED
    BY <2>1 DEF Op
<1>4. Becomes(o, s)
  BY DEF update, Becomes
<1> HIDE DEF t
<1>5. s \in Op
  BY <1>3, OpTypes
<1>6. Others(o) /\ op'[o] = s
  BY <1>4, <1>5, BecomesType
<1>7. /\ op'[o].kind = op[o].kind /\ op'[o].pc = p /\ op'[o].w = op[o].w
      /\ op'[o].todo = op[o].todo /\ op'[o].err = op[o].err /\ op'[o].snap = t
  BY <1>3, <1>6, Zenon DEF Op
<1>8. Existing' = Existing
  BY <1>1 DEF Existing
<1> QED
  BY <1>1, <1>2, <1>6, <1>7, <1>8 DEF t

\* The fields of a patched row.
LEMMA Patched ==
  ASSUME NEW r \in Row
  PROVE  /\ \A st \in Status :
              LET n == [r EXCEPT !.status = st]
              IN n \in Row /\ n.status = st /\ n.target = r.target /\ n.keep = r.keep
                 /\ n.pwd = r.pwd /\ n.stopped = r.stopped
         /\ \A st \in Status :
              LET n == [r EXCEPT !.status = st, !.keep = TRUE]
              IN n \in Row /\ n.status = st /\ n.target = r.target /\ n.keep
                 /\ n.pwd = r.pwd /\ n.stopped = r.stopped
         /\ \A st \in Status :
              LET n == [r EXCEPT !.stopped = FALSE, !.status = st]
              IN n \in Row /\ n.status = st /\ n.target = r.target /\ n.keep = r.keep
                 /\ n.pwd = r.pwd /\ ~n.stopped
         /\ \A st \in Status, w \in 0..MaxWorkspaces :
              LET n == [r EXCEPT !.status = st, !.target = w]
              IN n \in Row /\ n.status = st /\ n.target = w /\ n.keep = r.keep
                 /\ n.pwd = r.pwd /\ n.stopped = r.stopped
         /\ \A st \in Status, w \in 0..MaxWorkspaces, k \in 0..(MaxExpiries + 1) :
              LET n == [r EXCEPT !.stopped = FALSE, !.target = w, !.status = st, !.life = k]
              IN n \in Row /\ n.status = st /\ n.target = w /\ n.keep = r.keep
                 /\ n.pwd = r.pwd /\ ~n.stopped
         /\ \A st \in Status, pwd \in BOOLEAN :
              LET n == [r EXCEPT !.status = st, !.stopped = TRUE, !.pwd = pwd]
              IN n \in Row /\ n.status = st /\ n.target = r.target /\ n.keep = r.keep
                 /\ n.pwd = pwd /\ n.stopped
  BY Zenon DEF Row

LEMMA Statuses ==
  /\ "PROVISIONING" \in Status /\ "READY" \in Status /\ "ACTIVE" \in Status
  /\ "HIBERNATING" \in Status /\ "HIBERNATED" \in Status /\ "RESUMING" \in Status
  /\ "DELETING" \in Status /\ "STOPPED" \in Status /\ "FAILED" \in Status
  BY DEF Status

LEMMA Pcs ==
  /\ "vendors" \in Pc /\ "log ready" \in Pc /\ "delete" \in Pc /\ "finish run" \in Pc
  /\ "pause" \in Pc /\ "log" \in Pc /\ "throw" \in Pc /\ "list" \in Pc /\ "prepare" \in Pc
  /\ "return" \in Pc /\ "mark" \in Pc /\ "wait" \in Pc /\ "route" \in Pc /\ "get" \in Pc
  /\ "ready" \in Pc /\ "provision" \in Pc /\ "unpause" \in Pc /\ "lease" \in Pc
  BY DEF Pc

LEMMA UpdateHolds ==
  ASSUME Types, Ordered, NEW o \in Slot, HasTurn(o), NEW r \in Row, NEW p \in Pc, update(o, r, p),
         holes = {}, holes' = {}, r # NoRow, op[o].kind # "shutdown",
         op[o].pc \notin {"none", "enqueue", "get", "return", "throw"}, Rows', Works(o)'
  PROVE  Ordered'
  BY Updated, Working, GoesHolds DEF Ordered

LEMMA CreateUpdatesHold ==
  ASSUME Types, Ordered, NEW o \in Slot, HasTurn(o), CreateMark(o) \/ CreateReady(o),
         holes = {}, holes' = {}
  PROVE  Ordered'
<1>1. Rows /\ Works(o) /\ op[o].kind \in Kinds(o) /\ row \in Row /\ op[o] \in Op
  BY DEF Ordered, Serial, Types
<1>2. op[o].seen \in Row /\ op[o].w \in 0..MaxWorkspaces
  BY <1>1 DEF Op
<1>3. CASE CreateMark(o)
  <2> DEFINE r == [op[o].seen EXCEPT !.status = "PROVISIONING"]
  <2>1. /\ r \in Row /\ r.status = "PROVISIONING" /\ r.target = op[o].seen.target
        /\ r.pwd = op[o].seen.pwd /\ r.stopped = op[o].seen.stopped
    BY <1>2, Statuses, Zenon DEF Row
  <2>2. update(o, r, "vendors") /\ op[o].kind = "create" /\ op[o].pc = "mark"
    BY <1>3 DEF CreateMark, At
  <2> HIDE DEF r
  <2>3. /\ row = op[o].seen /\ row # NoRow /\ row' = r /\ UNCHANGED <<ws, leases, runtime, proc>>
        /\ op'[o].kind = "create" /\ op'[o].pc = "vendors" /\ op'[o].snap = r
    BY <2>1, <2>2, Updated, Pcs
  <2>4. row.status = "CREATE" /\ row.target = 0 /\ row.pwd /\ ~row.stopped
    BY <1>1, <2>2, <2>3 DEF Works, CreateWorks, In, Rows
  <2>5. Rows'
    BY <1>1, <2>1, <2>3, <2>4 DEF Rows, isLive
  <2>6. Works(o)'
    BY <1>1, <2>1, <2>3, <2>4 DEF Works, CreateWorks, CleanupWorks, HibernateWorks, ResumeWorks,
      RecoverWorks, BootWorks, VisitorWorks, In
  <2>7. r # NoRow
    BY <2>1 DEF NoRow
  <2> QED
    BY <2>1, <2>2, <2>5, <2>6, <2>7, UpdateHolds, Pcs
<1>4. CASE CreateReady(o)
  <2> DEFINE r == [op[o].seen EXCEPT !.status = "READY", !.target = op[o].w]
  <2>1. /\ r \in Row /\ r.status = "READY" /\ r.target = op[o].w
        /\ r.pwd = op[o].seen.pwd /\ r.stopped = op[o].seen.stopped
    BY <1>2, Statuses, Zenon DEF Row
  <2>2. update(o, r, "log ready") /\ op[o].kind = "create" /\ op[o].pc = "ready"
    BY <1>4 DEF CreateReady, At
  <2> HIDE DEF r
  <2>3. /\ row = op[o].seen /\ row # NoRow /\ row' = r /\ UNCHANGED <<ws, leases, runtime, proc>>
        /\ op'[o].kind = "create" /\ op'[o].pc = "log ready" /\ Existing' = Existing
    BY <2>1, <2>2, Updated, Pcs
  <2>4. row.status = "PROVISIONING" /\ row.pwd /\ ~row.stopped /\ op[o].w \in Existing
    BY <1>1, <2>2, <2>3 DEF Works, CreateWorks, In, Rows
  <2>5. op[o].w # 0
    BY <2>4 DEF Existing, Workspace
  <2>6. Kept' /\ isLive(row)' /\ ~row'.stopped
    BY <2>1, <2>3, <2>4, <2>5 DEF Kept, isLive
  <2>7. Rows'
    BY <2>1, <2>3, <2>6 DEF Rows, Kept
  <2>8. Works(o)'
    BY <1>1, <2>1, <2>3, <2>6 DEF Works, CreateWorks, CleanupWorks, HibernateWorks, ResumeWorks,
      RecoverWorks, BootWorks, VisitorWorks, In
  <2>9. r # NoRow
    BY <2>1 DEF NoRow
  <2> QED
    BY <2>1, <2>2, <2>7, <2>8, <2>9, UpdateHolds, Pcs
<1> QED
  BY <1>3, <1>4

LEMMA CleanupUpdatesHold ==
  ASSUME Types, Ordered, NEW o \in Slot, HasTurn(o), StopMark(o) \/ StopDone(o) \/ FailDone(o),
         holes = {}, holes' = {}
  PROVE  Ordered'
<1>1. Rows /\ Works(o) /\ op[o].kind \in Kinds(o) /\ row \in Row /\ op[o] \in Op
  BY DEF Ordered, Serial, Types
<1>2. op[o].seen \in Row /\ op[o].err \in BOOLEAN
  BY <1>1 DEF Op
<1>3. CASE StopMark(o)
  <2> DEFINE r == [op[o].seen EXCEPT !.status = "DELETING"]
  <2>1. /\ r \in Row /\ r.status = "DELETING" /\ r.target = op[o].seen.target
        /\ r.pwd = op[o].seen.pwd /\ r.stopped = op[o].seen.stopped
    BY <1>2, Statuses, Zenon DEF Row
  <2>2. update(o, r, "delete") /\ op[o].kind = "stop" /\ op[o].pc = "mark"
    BY <1>3 DEF StopMark, At
  <2> HIDE DEF r
  <2>3. /\ row = op[o].seen /\ row # NoRow /\ row' = r /\ UNCHANGED <<ws, leases, runtime, proc>>
        /\ op'[o].kind = "stop" /\ op'[o].pc = "delete" /\ op'[o].snap = r
    BY <2>1, <2>2, Updated, Pcs
  <2>4. Rows'
    BY <1>1, <2>1, <2>3 DEF Rows, isLive
  <2>5. Works(o)'
    BY <1>1, <2>1, <2>3 DEF Works, CreateWorks, CleanupWorks, HibernateWorks, ResumeWorks,
      RecoverWorks, BootWorks, VisitorWorks, In, Dropped
  <2>6. r # NoRow
    BY <2>1 DEF NoRow
  <2> QED
    BY <2>1, <2>2, <2>4, <2>5, <2>6, UpdateHolds, Pcs
<1>4. CASE StopDone(o) \/ FailDone(o)
  <2>1. PICK st \in {"STOPPED", "FAILED"} :
          /\ update(o, erased(op[o], st), "finish run") /\ op[o].pc = "done"
          /\ op[o].kind = IF st = "STOPPED" THEN "stop" ELSE "fail"
    BY <1>4 DEF StopDone, FailDone, At
  <2> DEFINE r == erased(op[o], st)
  <2>2. /\ r \in Row /\ r.status = (IF op[o].err THEN "FAILED" ELSE st)
        /\ r.target = op[o].seen.target /\ r.pwd = (op[o].seen.pwd /\ op[o].err) /\ r.stopped
    <3>1. (IF op[o].err THEN "FAILED" ELSE st) \in Status
      BY Statuses
    <3>2. (op[o].seen.pwd /\ op[o].err) \in BOOLEAN
      BY <1>2 DEF Row
    <3> QED
      BY <1>2, <3>1, <3>2, Zenon DEF erased, Row
  <2> HIDE DEF r
  <2>3. /\ row = op[o].seen /\ row # NoRow /\ row' = r /\ UNCHANGED <<ws, leases, runtime, proc>>
        /\ op'[o].kind = op[o].kind /\ op'[o].pc = "finish run"
    BY <2>1, <2>2, Updated, Pcs DEF r
  <2>4. /\ Dropped
        /\ row.target # 0 /\ ~op[o].err => ws[row.target] = "gone"
        /\ ~op[o].err => leases = {}
    BY <1>1, <2>1 DEF Works, CleanupWorks
  <2>5. Rows'
    <3>1. row'.status \in {"STOPPED", "FAILED"} /\ row'.stopped /\ row'.target = row.target
          /\ ~isLive(row)'
      BY <2>2, <2>3 DEF isLive
    <3>2. ~row'.pwd => leases' = {} /\ (row'.target # 0 => ws'[row'.target] = "gone")
      BY <1>1, <2>2, <2>3, <2>4 DEF Rows
    <3>3. row'.status = "STOPPED" => ~row'.pwd
      BY <2>2, <2>3
    <3> QED
      BY <3>1, <3>2, <3>3 DEF Rows
  <2>6. Works(o)'
    BY <1>1, <2>1, <2>2, <2>3 DEF Works, CreateWorks, CleanupWorks, HibernateWorks, ResumeWorks,
      RecoverWorks, BootWorks, VisitorWorks, In
  <2>7. r # NoRow
    BY <2>2 DEF NoRow
  <2> QED
    BY <2>1, <2>2, <2>5, <2>6, <2>7, UpdateHolds, Pcs DEF r
<1> QED
  BY <1>3, <1>4

LEMMA HibernateUpdatesHold ==
  ASSUME Types, Ordered, NEW o \in Slot, HasTurn(o),
         HibernateMark(o) \/ HibernateDone(o) \/ HibernateFail(o), holes = {}, holes' = {}
  PROVE  Ordered'
<1>1. Rows /\ Works(o) /\ op[o].kind \in Kinds(o) /\ row \in Row /\ op[o] \in Op
  BY DEF Ordered, Serial, Types
<1>2. op[o].seen \in Row
  BY <1>1 DEF Op
<1>3. CASE HibernateMark(o)
  <2> DEFINE r == [op[o].seen EXCEPT !.status = "HIBERNATING", !.keep = TRUE]
  <2>1. /\ r \in Row /\ r.status = "HIBERNATING" /\ r.target = op[o].seen.target
        /\ r.pwd = op[o].seen.pwd /\ r.stopped = op[o].seen.stopped
    BY <1>2, Statuses, Zenon DEF Row
  <2>2. update(o, r, "pause") /\ op[o].kind = "hibernate" /\ op[o].pc = "mark"
    BY <1>3 DEF HibernateMark, At
  <2> HIDE DEF r
  <2>3. /\ row = op[o].seen /\ row # NoRow /\ row' = r /\ UNCHANGED <<ws, leases, runtime, proc>>
        /\ op'[o].kind = "hibernate" /\ op'[o].pc = "pause" /\ op'[o].snap = op[o].snap
        /\ Existing' = Existing
    BY <2>1, <2>2, Updated, Pcs
  <2>4. op[o].snap.target = row.target /\ (~row.stopped => Kept)
    BY <1>1, <2>2 DEF Works, HibernateWorks, In
  <2>5. Rows'
    BY <1>1, <2>1, <2>3, <2>4 DEF Rows, isLive, Kept
  <2>6. Works(o)'
    BY <1>1, <2>1, <2>3, <2>4 DEF Works, CreateWorks, CleanupWorks, HibernateWorks, ResumeWorks,
      RecoverWorks, BootWorks, VisitorWorks, In
  <2>7. r # NoRow
    BY <2>1 DEF NoRow
  <2> QED
    BY <2>1, <2>2, <2>5, <2>6, <2>7, UpdateHolds, Pcs
<1>4. CASE HibernateDone(o)
  <2> DEFINE r == [op[o].seen EXCEPT !.status = "HIBERNATED", !.keep = TRUE]
  <2>1. /\ r \in Row /\ r.status = "HIBERNATED" /\ r.target = op[o].seen.target
        /\ r.pwd = op[o].seen.pwd /\ r.stopped = op[o].seen.stopped
    BY <1>2, Statuses, Zenon DEF Row
  <2>2. update(o, r, "log") /\ op[o].kind = "hibernate" /\ op[o].pc = "done"
    BY <1>4 DEF HibernateDone, At
  <2> HIDE DEF r
  <2>3. /\ row = op[o].seen /\ row # NoRow /\ row' = r /\ UNCHANGED <<ws, leases, runtime, proc>>
        /\ op'[o].kind = "hibernate" /\ op'[o].pc = "log" /\ op'[o].snap = op[o].snap
        /\ Existing' = Existing
    BY <2>1, <2>2, Updated, Pcs
  <2>4. row.target # 0 /\ ws[row.target] = "paused" /\ leases = {} /\ ~runtime
    BY <1>1, <2>2 DEF Works, HibernateWorks, In
  <2>5. row.pwd /\ row.target \in Existing
    BY <1>1, <2>3, <2>4 DEF Rows, Row, Existing, Workspace
  <2>6. Rows'
    BY <2>1, <2>3, <2>4, <2>5 DEF Rows, isLive, Kept
  <2>7. Works(o)'
    BY <1>1, <2>1, <2>3 DEF Works, CreateWorks, CleanupWorks, HibernateWorks, ResumeWorks,
      RecoverWorks, BootWorks, VisitorWorks, In
  <2>8. r # NoRow
    BY <2>1 DEF NoRow
  <2> QED
    BY <2>1, <2>2, <2>6, <2>7, <2>8, UpdateHolds, Pcs
<1>5. CASE HibernateFail(o)
  <2> DEFINE r == [op[o].seen EXCEPT !.status = "FAILED", !.keep = TRUE]
  <2>1. /\ r \in Row /\ r.status = "FAILED" /\ r.target = op[o].seen.target
        /\ r.pwd = op[o].seen.pwd /\ r.stopped = op[o].seen.stopped
    BY <1>2, Statuses, Zenon DEF Row
  <2>2. update(o, r, "throw") /\ op[o].kind = "hibernate" /\ op[o].pc = "fail"
    BY <1>5 DEF HibernateFail, At
  <2> HIDE DEF r
  <2>3. /\ row = op[o].seen /\ row # NoRow /\ row' = r /\ UNCHANGED <<ws, leases, runtime, proc>>
        /\ op'[o].kind = "hibernate" /\ op'[o].pc = "throw" /\ op'[o].snap = op[o].snap
        /\ Existing' = Existing
    BY <2>1, <2>2, Updated, Pcs
  <2>4. row.status \in {"HIBERNATING", "HIBERNATED"}
    BY <1>1, <2>2 DEF Works, HibernateWorks, In
  <2>5. ~row.stopped => Kept
    BY <1>1, <2>4 DEF Rows
  <2>6. Rows'
    BY <1>1, <2>1, <2>3, <2>4, <2>5 DEF Rows, isLive, Kept
  <2>7. Works(o)'
    BY <1>1, <2>1, <2>3 DEF Works, CreateWorks, CleanupWorks, HibernateWorks, ResumeWorks,
      RecoverWorks, BootWorks, VisitorWorks, In
  <2>8. r # NoRow
    BY <2>1 DEF NoRow
  <2> QED
    BY <2>1, <2>2, <2>6, <2>7, <2>8, UpdateHolds, Pcs
<1> QED
  BY <1>3, <1>4, <1>5

LEMMA ResumeUpdatesHold ==
  ASSUME Types, Ordered, NEW o \in Slot, HasTurn(o),
         ResumeMark(o) \/ ResumeEnter(o) \/ ResumeReady(o), holes = {}, holes' = {}
  PROVE  Ordered'
<1>1. Rows /\ Works(o) /\ op[o].kind \in Kinds(o) /\ row \in Row /\ op[o] \in Op
  BY DEF Ordered, Serial, Types
<1>2. op[o].seen \in Row /\ op[o].w \in 0..MaxWorkspaces /\ op[o].snap \in Row
  BY <1>1 DEF Op
<1>3. CASE ResumeMark(o)
  <2> DEFINE r == [op[o].seen EXCEPT !.status = "RESUMING"]
  <2>1. /\ r \in Row /\ r.status = "RESUMING" /\ r.target = op[o].seen.target
        /\ r.pwd = op[o].seen.pwd /\ r.stopped = op[o].seen.stopped
    BY <1>2, Statuses, Zenon DEF Row
  <2>2. update(o, r, "list") /\ op[o].kind = "resume" /\ op[o].pc = "mark"
    BY <1>3 DEF ResumeMark, At
  <2> HIDE DEF r
  <2>3. /\ row = op[o].seen /\ row # NoRow /\ row' = r /\ UNCHANGED <<ws, leases, runtime, proc>>
        /\ op'[o].kind = "resume" /\ op'[o].pc = "list" /\ op'[o].snap = op[o].snap
        /\ Existing' = Existing
    BY <2>1, <2>2, Updated, Pcs
  <2>4. row.status = "HIBERNATED" /\ op[o].snap.target = row.target /\ Kept
    BY <1>1, <2>2 DEF Works, ResumeWorks, In, Rows
  <2>5. Rows'
    BY <1>1, <2>1, <2>3, <2>4 DEF Rows, isLive, Kept
  <2>6. Works(o)'
    BY <1>1, <2>1, <2>3, <2>4 DEF Works, CreateWorks, CleanupWorks, HibernateWorks, ResumeWorks,
      RecoverWorks, BootWorks, VisitorWorks, In
  <2>7. r # NoRow
    BY <2>1 DEF NoRow
  <2> QED
    BY <2>1, <2>2, <2>5, <2>6, <2>7, UpdateHolds, Pcs
<1>4. CASE ResumeEnter(o)
  <2> DEFINE st == IF op[o].kind = "resume" THEN "RESUMING" ELSE "PROVISIONING"
             r == [op[o].seen EXCEPT !.stopped = FALSE, !.status = st]
  <2>1. /\ r \in Row /\ r.status = st /\ r.target = op[o].seen.target /\ r.keep = op[o].seen.keep
        /\ r.pwd = op[o].seen.pwd /\ ~r.stopped
    <3>1. st \in Status
      BY Statuses
    <3> HIDE DEF st
    <3> QED
      BY <1>2, <3>1, Zenon DEF Row
  <2>2. update(o, r, "prepare") /\ op[o].kind \in {"resume", "recover"} /\ op[o].pc = "enter"
    BY <1>4 DEF ResumeEnter, At
  <2> HIDE DEF r
  <2>3. /\ row = op[o].seen /\ row # NoRow /\ row' = r /\ UNCHANGED <<ws, leases, runtime, proc>>
        /\ op'[o].kind = op[o].kind /\ op'[o].pc = "prepare" /\ op'[o].snap = op[o].snap
        /\ Existing' = Existing
    BY <2>1, <2>2, Updated, Pcs
  <2>4. /\ Kept /\ op[o].snap.target = row.target
        /\ op[o].kind = "recover" => row = op[o].snap /\ isLive(row) /\ proc = "boot"
    <3>1. CASE op[o].kind = "resume"
      BY <1>1, <2>2, <3>1 DEF Works, ResumeWorks, In, Rows
    <3>2. CASE op[o].kind = "recover"
      <4>1. o = "boot"
        BY <1>1, <3>2 DEF Kinds
      <4>2. proc = "boot"
        BY <3>2, <4>1 DEF Ordered, Serial
      <4> QED
        BY <1>1, <2>2, <3>2, <4>2 DEF Works, RecoverWorks, In, Rows
    <3> QED
      BY <2>2, <3>1, <3>2
  <2>5. Kept'
    BY <2>1, <2>3, <2>4 DEF Kept
  <2>6. Rows'
    BY <1>1, <2>1, <2>2, <2>3, <2>4, <2>5 DEF Rows, isLive, Kept
  <2>7. Works(o)'
    BY <1>1, <2>1, <2>2, <2>3, <2>4, <2>5 DEF Works, CreateWorks, CleanupWorks, HibernateWorks,
      ResumeWorks, RecoverWorks, BootWorks, VisitorWorks, In, isLive
  <2>8. r # NoRow
    BY <2>1 DEF NoRow
  <2> QED
    BY <2>1, <2>2, <2>6, <2>7, <2>8, UpdateHolds, Pcs
<1>5. CASE ResumeReady(o)
  <2> DEFINE st == IF op[o].kind = "recover" THEN op[o].snap.status ELSE "READY"
             life == IF op[o].kind = "resume" THEN over + 1 ELSE op[o].seen.life
             r == [op[o].seen EXCEPT !.stopped = FALSE, !.target = op[o].w, !.status = st,
                     !.life = life]
  <2>1. /\ r \in Row /\ r.status = st /\ r.target = op[o].w
        /\ r.pwd = op[o].seen.pwd /\ ~r.stopped
    <3>1. st \in Status
      BY <1>2, Statuses DEF Row
    <3>2. life \in 0..(MaxExpiries + 1)
      <4>1. op[o].seen.life \in 0..(MaxExpiries + 1)
        BY <1>2 DEF Row
      <4>2. over \in 0..MaxExpiries
        BY DEF Types
      <4> QED
        BY <4>1, <4>2, BoundAssumption
    <3> HIDE DEF st, life
    <3> QED
      BY <1>2, <3>1, <3>2, Zenon DEF Row
  <2>2. update(o, r, "log ready") /\ op[o].kind \in {"resume", "recover"} /\ op[o].pc = "ready"
    BY <1>5 DEF ResumeReady, At
  <2> HIDE DEF r
  <2>3. /\ row = op[o].seen /\ row # NoRow /\ row' = r /\ UNCHANGED <<ws, leases, runtime, proc>>
        /\ op'[o].kind = op[o].kind /\ op'[o].pc = "log ready" /\ op'[o].snap = op[o].snap
        /\ Existing' = Existing
    BY <2>1, <2>2, Updated, Pcs
  <2>4. /\ row.pwd /\ op[o].w \in Existing
        /\ op[o].kind = "recover" => isLive(op[o].snap)
    <3>1. CASE op[o].kind = "resume"
      BY <1>1, <2>2, <3>1 DEF Works, ResumeWorks, In, Rows, Kept
    <3>2. CASE op[o].kind = "recover"
      BY <1>1, <2>2, <3>2 DEF Works, RecoverWorks, In, Kept
    <3> QED
      BY <2>2, <3>1, <3>2
  <2>5. op[o].w # 0
    BY <2>4 DEF Existing, Workspace
  <2>6. Kept' /\ isLive(row)' /\ ~row'.stopped
    BY <2>1, <2>2, <2>3, <2>4, <2>5 DEF Kept, isLive
  <2>7. Rows'
    BY <2>6 DEF Rows, Kept, isLive
  <2>8. Works(o)'
    BY <1>1, <2>2, <2>3, <2>6 DEF Works, CreateWorks, CleanupWorks, HibernateWorks, ResumeWorks,
      RecoverWorks, BootWorks, VisitorWorks, In
  <2>9. r # NoRow
    <3>1. row'.status # "NONE"
      BY <2>6 DEF isLive
    <3>2. row' # NoRow
      BY <3>1 DEF NoRow
    <3> QED
      BY <2>3, <3>2
  <2> QED
    BY <2>1, <2>2, <2>7, <2>8, <2>9, UpdateHolds, Pcs
<1> QED
  BY <1>3, <1>4, <1>5

LEMMA OtherUpdatesHold ==
  ASSUME Types, Ordered, NEW o \in Slot, HasTurn(o), VisitorMark(o) \/ ShutdownRoute(o),
         holes = {}, holes' = {}
  PROVE  Ordered'
<1>1. Rows /\ Works(o) /\ op[o].kind \in Kinds(o) /\ row \in Row /\ op[o] \in Op
  BY DEF Ordered, Serial, Types
<1>2. op[o].seen \in Row
  BY <1>1 DEF Op
<1>3. CASE VisitorMark(o)
  <2> DEFINE r == [op[o].seen EXCEPT !.status = "ACTIVE"]
  <2>1. /\ r \in Row /\ r.status = "ACTIVE" /\ r.target = op[o].seen.target
        /\ r.pwd = op[o].seen.pwd /\ r.stopped = op[o].seen.stopped
    BY <1>2, Statuses, Zenon DEF Row
  <2>2. update(o, r, "return") /\ op[o].kind = "visitor" /\ op[o].pc = "mark"
    BY <1>3 DEF VisitorMark, At
  <2> HIDE DEF r
  <2>3. /\ row = op[o].seen /\ row # NoRow /\ row' = r /\ UNCHANGED <<ws, leases, runtime, proc>>
        /\ op'[o].kind = "visitor" /\ op'[o].pc = "return" /\ Existing' = Existing
    BY <2>1, <2>2, Updated, Pcs
  <2>4. Kept /\ ~row.stopped
    BY <1>1, <2>2 DEF Works, VisitorWorks, In, Rows
  <2>5. Rows'
    BY <1>1, <2>1, <2>3, <2>4 DEF Rows, isLive, Kept
  <2>6. Works(o)'
    BY <1>1, <2>1, <2>3 DEF Works, CreateWorks, CleanupWorks, HibernateWorks, ResumeWorks,
      RecoverWorks, BootWorks, VisitorWorks, In
  <2>7. r # NoRow
    BY <2>1 DEF NoRow
  <2> QED
    BY <2>1, <2>2, <2>5, <2>6, <2>7, UpdateHolds, Pcs
<1>4. CASE ShutdownRoute(o)
  <2>1. update(o, op[o].seen, "return") /\ op[o].kind = "shutdown" /\ op[o].pc = "route"
    BY <1>4 DEF ShutdownRoute, At
  <2>2. /\ row' = row /\ row # NoRow /\ UNCHANGED <<ws, leases, runtime, proc, lock>>
        /\ Others(o) /\ op'[o].kind = "shutdown" /\ op'[o].pc = "return"
    BY <1>2, <2>1, Updated, Pcs
  <2>3. Works(o)'
    BY <2>2 DEF Works, CreateWorks, CleanupWorks, HibernateWorks, ResumeWorks,
      RecoverWorks, BootWorks, VisitorWorks, In
  <2>4. Calm
    BY <2>2 DEF Calm
  <2> QED
    BY <2>1, <2>2, <2>3, <2>4, GoesHolds
<1> QED
  BY <1>3, <1>4

-----------------------------------------------------------------------------
(* Provisioning, pausing and deleting                                      *)

LEMMA WorkHolds ==
  ASSUME Types, Ordered, NEW o \in Slot, HasTurn(o), UNCHANGED <<row, lock, proc>>,
         op[o].kind # "shutdown", op[o].pc \notin {"none", "enqueue", "get", "return", "throw"},
         Kept /\ ~Dropped => row.target \in Existing',
         \A w \in Workspace : ws[w] = "gone" => ws'[w] = "gone",
         leases' \subseteq leases \/ row.pwd, row.status # "HIBERNATED",
         Throw(o) \/ (Others(o) /\ op'[o].kind = op[o].kind /\ Works(o)')
  PROVE  Ordered'
<1>1. ~Quiet(o) /\ row # NoRow
  BY Working DEF Ordered
<1>2. Rows'
  BY RowsKept DEF Ordered
<1>3. CASE Throw(o)
  BY <1>1, <1>2, <1>3, ThrowHolds
<1>4. CASE Others(o) /\ op'[o].kind = op[o].kind /\ Works(o)'
  BY <1>1, <1>2, <1>4, GoesHolds
<1> QED
  BY <1>3, <1>4

\* While a session is provisioned or resumed, it has a password.
LEMMA Provisioned ==
  ASSUME Types, Ordered, NEW o \in Slot,
         \/ op[o].kind = "create" /\ op[o].pc = "vendors"
         \/ op[o].kind \in Provisions
              /\ op[o].pc \in {"prepare", "lease", "unpause", "provision", "ready"}
  PROVE  row.pwd /\ row.status \in {"PROVISIONING", "RESUMING"}
<1>1. Works(o) /\ Rows /\ row # NoRow
  BY Awake DEF Ordered
<1>2. CASE op[o].kind = "create"
  BY <1>1, <1>2 DEF Works, CreateWorks, In, Rows
<1>3. CASE op[o].kind = "resume"
  BY <1>1, <1>3 DEF Works, ResumeWorks, In, Rows
<1>4. CASE op[o].kind = "recover"
  BY <1>1, <1>4 DEF Works, RecoverWorks, In, Rows
<1> QED
  BY <1>2, <1>3, <1>4 DEF Provisions

LEMMA ProvisionHolds ==
  ASSUME Types, Ordered, NEW o \in Slot, HasTurn(o), NEW ok \in BOOLEAN,
         StartVendors(o, ok) \/ Register(o, ok) \/ Provision(o, ok) \/ VisitorRoute(o, ok)
  PROVE  Ordered'
<1>1. /\ UNCHANGED <<row, ws, lock, proc>>
      /\ op[o].kind \in Provisions \cup {"visitor"}
      /\ op[o].pc \in {"vendors", "lease", "provision", "route"}
  BY DEF StartVendors, Register, Provision, VisitorRoute, At, Provisions, world
<1>2. Works(o) /\ Rows /\ row # NoRow
  BY <1>1, Awake DEF Ordered
<1>3. row.pwd /\ row.status # "HIBERNATED"
  <2>1. CASE VisitorRoute(o, ok)
    BY <1>2, <2>1 DEF VisitorRoute, At, Works, VisitorWorks, In, Rows, Kept, isLive
  <2>2. CASE StartVendors(o, ok) \/ Register(o, ok) \/ Provision(o, ok)
    <3>1. \/ op[o].kind = "create" /\ op[o].pc = "vendors"
          \/ op[o].kind \in Provisions
               /\ op[o].pc \in {"prepare", "lease", "unpause", "provision", "ready"}
      BY <2>2 DEF StartVendors, Register, Provision, At
    <3> QED
      BY <3>1, Provisioned
  <2> QED
    BY <2>1, <2>2
<1>4. /\ Existing' = Existing /\ isLive(row)' = isLive(row)
      /\ Kept' = Kept
      /\ Kept => row.target \in Existing
  BY <1>1 DEF Existing, isLive, Kept
<1>5. ASSUME NEW p \in {"prepare", "unpause", "provision", "ready", "mark"},
             Becomes(o, [op[o] EXCEPT !.pc = p]),
             \/ p = "prepare" /\ op[o].kind = "create" /\ op[o].pc = "vendors"
             \/ p = "unpause" /\ op[o].kind = "resume" /\ op[o].pc = "lease"
                  /\ op[o].w = op[o].snap.target
             \/ p = "provision" /\ op[o].kind \in {"create", "recover"} /\ op[o].pc = "lease"
             \/ p = "ready" /\ op[o].kind \in Provisions /\ op[o].pc = "provision"
             \/ p = "mark" /\ op[o].kind = "visitor" /\ op[o].pc = "route"
      PROVE  Others(o) /\ op'[o].kind = op[o].kind /\ Works(o)'
  <2>1. p \in Pc
    BY DEF Pc
  <2>2. /\ Others(o) /\ op'[o].kind = op[o].kind /\ op'[o].pc = p
        /\ op'[o].snap = op[o].snap /\ op'[o].w = op[o].w
    BY <1>5, <2>1, Goes
  <2>3. Works(o)'
    <3>1. CreateWorks(o)'
      BY <1>1, <1>2, <1>4, <1>5, <2>2 DEF Works, CreateWorks, In, Provisions
    <3>2. ResumeWorks(o)'
      BY <1>1, <1>2, <1>4, <1>5, <2>2 DEF Works, ResumeWorks, In, Provisions
    <3>3. RecoverWorks(o)'
      BY <1>1, <1>2, <1>4, <1>5, <2>2 DEF Works, RecoverWorks, In, Provisions
    <3>4. VisitorWorks(o)'
      BY <1>2, <1>4, <1>5, <2>2 DEF Works, VisitorWorks, In, Provisions
    <3>5. CleanupWorks(o)' /\ HibernateWorks(o)' /\ BootWorks(o)'
      BY <1>5, <2>2 DEF CleanupWorks, HibernateWorks, BootWorks, In, Provisions
    <3> QED
      BY <3>1, <3>2, <3>3, <3>4, <3>5 DEF Works
  <2> QED
    BY <2>2, <2>3
<1>6. Throw(o) \/ (Others(o) /\ op'[o].kind = op[o].kind /\ Works(o)')
  <2>1. CASE StartVendors(o, ok)
    BY <1>5, <2>1 DEF StartVendors, At, Becomes
  <2>2. CASE Register(o, ok)
    <3>1. CASE op[o].kind = "resume"
      <4>1. Throw(o) \/ (op[o].w = op[o].snap.target /\ Becomes(o, [op[o] EXCEPT !.pc = "unpause"]))
        BY <2>2, <3>1 DEF Register, Becomes
      <4> QED
        BY <1>5, <2>2, <3>1, <4>1 DEF Register, At
    <3>2. CASE op[o].kind # "resume"
      <4>1. Throw(o) \/ Becomes(o, [op[o] EXCEPT !.pc = "provision"])
        BY <2>2, <3>2 DEF Register, Becomes
      <4>2. op[o].kind \in {"create", "recover"} /\ op[o].pc = "lease"
        BY <2>2, <3>2 DEF Register, At, Provisions
      <4> QED
        BY <1>5, <4>1, <4>2
    <3> QED
      BY <3>1, <3>2
  <2>3. CASE Provision(o, ok)
    <3>1. Throw(o) \/ Becomes(o, [op[o] EXCEPT !.pc = "ready"])
      BY <2>3 DEF Provision, Becomes
    <3> QED
      BY <1>5, <2>3, <3>1 DEF Provision, At
  <2>4. CASE VisitorRoute(o, ok)
    <3>1. Throw(o) \/ Becomes(o, [op[o] EXCEPT !.pc = "mark"])
      BY <2>4 DEF VisitorRoute, Becomes
    <3> QED
      BY <1>5, <2>4, <3>1 DEF VisitorRoute, At
  <2> QED
    BY <2>1, <2>2, <2>3, <2>4
<1>7. op[o].kind # "shutdown" /\ op[o].pc \notin {"none", "enqueue", "get", "return", "throw"}
  BY <1>1 DEF Provisions
<1>8. Kept /\ ~Dropped => row.target \in Existing'
  BY <1>4
<1>9. \A w \in Workspace : ws[w] = "gone" => ws'[w] = "gone"
  BY <1>1
<1> QED
  BY <1>1, <1>3, <1>6, <1>7, <1>8, <1>9, WorkHolds

LEMMA PrepareRunHolds ==
  ASSUME Types, Workspaces, Ordered, NEW o \in Slot, HasTurn(o), NEW ok \in BOOLEAN,
         PrepareRun(o, ok)
  PROVE  Ordered'
<1>1. /\ UNCHANGED <<row, leases, lock, proc>>
      /\ op[o].kind \in Provisions /\ op[o].pc = "prepare"
  BY DEF PrepareRun, At, world
<1>2. Works(o) /\ Rows /\ row # NoRow
  BY <1>1, Awake DEF Ordered
<1>3. row.pwd /\ row.status # "HIBERNATED"
  BY <1>1, Provisioned
<1>4. ws' = ws \/ \E w \in Workspace : ws[w] = "none" /\ ws' = [ws EXCEPT ![w] = "live"]
  BY DEF PrepareRun
<1>5. /\ \A w \in Workspace : ws[w] = "gone" => ws'[w] = "gone"
      /\ Existing \subseteq Existing'
  BY <1>4 DEF Existing, Types
<1>6. ASSUME NEW w \in Workspace, Becomes(o, [op[o] EXCEPT !.w = w, !.pc = "lease"]),
             w \in Existing'
      PROVE  Others(o) /\ op'[o].kind = op[o].kind /\ Works(o)'
  <2> DEFINE s == [op[o] EXCEPT !.w = w, !.pc = "lease"]
  <2>1. op[o] \in Op
    BY DEF Types
  <2>2. s \in Op
    <3>1. "lease" \in Pc /\ w \in 0..MaxWorkspaces
      BY DEF Pc, Workspace
    <3> QED
      BY <2>1, <3>1, OpTypes
  <2>3. Others(o) /\ op'[o] = s
    BY <1>6, <2>2, BecomesType
  <2>4. /\ op'[o].kind = op[o].kind /\ op'[o].pc = "lease" /\ op'[o].snap = op[o].snap
        /\ op'[o].w = w
    BY <2>1, <2>2, <2>3, Zenon DEF Op
  <2>5. Kept => Kept'
    BY <1>1, <1>5 DEF Kept
  <2>6. Works(o)'
    BY <1>1, <1>2, <1>6, <2>4, <2>5 DEF Works, CreateWorks, CleanupWorks, HibernateWorks, ResumeWorks,
      RecoverWorks, BootWorks, VisitorWorks, In, Provisions
  <2> QED
    BY <2>3, <2>4, <2>6
<1>7. \/ Throw(o)
      \/ \E w \in Workspace : /\ Becomes(o, [op[o] EXCEPT !.w = w, !.pc = "lease"])
                              /\ IF prepared # 0 THEN w = prepared
                                 ELSE IF Existing # {} THEN w \in Existing
                                 ELSE ws[w] = "none"
                              /\ ws' = IF prepared = 0 /\ ws[w] = "none"
                                         THEN [ws EXCEPT ![w] = "live"] ELSE ws
  BY DEF PrepareRun, Becomes
<1>8. ASSUME NEW w \in Workspace,
             IF prepared # 0 THEN w = prepared
             ELSE IF Existing # {} THEN w \in Existing
             ELSE ws[w] = "none",
             ws' = IF prepared = 0 /\ ws[w] = "none" THEN [ws EXCEPT ![w] = "live"] ELSE ws
      PROVE  w \in Existing'
  <2>1. CASE w \in Existing
    BY <1>5, <2>1
  <2>2. CASE w \notin Existing
    <3>1. prepared = 0 /\ ws[w] = "none"
      BY <1>8, <2>2 DEF Workspaces
    <3> QED
      BY <1>8, <3>1 DEF Existing, Types
  <2> QED
    BY <2>1, <2>2
<1>9. Throw(o) \/ (Others(o) /\ op'[o].kind = op[o].kind /\ Works(o)')
  BY <1>6, <1>7, <1>8
<1>10. op[o].kind # "shutdown" /\ op[o].pc \notin {"none", "enqueue", "get", "return", "throw"}
  BY <1>1 DEF Provisions
<1>11. Kept /\ ~Dropped => row.target \in Existing'
  BY <1>5 DEF Kept
<1> QED
  BY <1>1, <1>3, <1>5, <1>9, <1>10, <1>11, WorkHolds

LEMMA UnpauseHolds ==
  ASSUME Types, Ordered, NEW o \in Slot, HasTurn(o), NEW ok \in BOOLEAN, Unpause(o, ok)
  PROVE  Ordered'
<1>1. /\ UNCHANGED <<row, leases, lock, proc>>
      /\ op[o].kind = "resume" /\ op[o].pc = "unpause"
  BY DEF Unpause, At, world
<1>2. Works(o) /\ Rows /\ row # NoRow
  BY <1>1, Awake DEF Ordered
<1>3. row.pwd /\ row.status # "HIBERNATED"
  BY <1>1, Provisioned DEF Provisions
<1>4. ws' = ws \/ (op[o].w \in Existing /\ ws' = [ws EXCEPT ![op[o].w] = "live"])
  BY DEF Unpause
<1>5. /\ \A w \in Workspace : ws[w] = "gone" => ws'[w] = "gone"
      /\ Existing \subseteq Existing'
  BY <1>4 DEF Existing, Types
<1>6. Throw(o) \/ (Others(o) /\ op'[o].kind = op[o].kind /\ Works(o)')
  <2>1. Throw(o) \/ Becomes(o, [op[o] EXCEPT !.pc = "provision"])
    BY DEF Unpause, Becomes
  <2>2. ASSUME Becomes(o, [op[o] EXCEPT !.pc = "provision"])
        PROVE  Others(o) /\ op'[o].kind = op[o].kind /\ Works(o)'
    <3>1. /\ Others(o) /\ op'[o].kind = op[o].kind /\ op'[o].pc = "provision"
          /\ op'[o].snap = op[o].snap /\ op'[o].w = op[o].w
      BY <2>2, Pcs, Goes
    <3>2. Works(o)'
      BY <1>1, <1>2, <3>1 DEF Works, CreateWorks, CleanupWorks, HibernateWorks, ResumeWorks,
        RecoverWorks, BootWorks, VisitorWorks, In
    <3> QED
      BY <3>1, <3>2
  <2> QED
    BY <2>1, <2>2
<1>7. Kept /\ ~Dropped => row.target \in Existing'
  BY <1>5 DEF Kept
<1> QED
  BY <1>1, <1>3, <1>5, <1>6, <1>7, WorkHolds

LEMMA PauseHolds ==
  ASSUME Types, Ordered, NEW o \in Slot, HasTurn(o), NEW ok \in BOOLEAN, Pause(o, ok)
  PROVE  Ordered'
<1> DEFINE t == op[o].snap.target
<1>1. /\ UNCHANGED <<row, leases, lock, proc>>
      /\ op[o].kind = "hibernate" /\ op[o].pc = "pause"
  BY DEF Pause, At, world
<1>2. Works(o)
  BY DEF Ordered
<1>3. row.status = "HIBERNATING" /\ t = row.target
  BY <1>1, <1>2 DEF Works, HibernateWorks, In
<1>4. ws' = ws \/ (t \in Existing /\ ws' = [ws EXCEPT ![t] = "paused"])
  BY DEF Pause
<1>5. /\ \A w \in Workspace : ws[w] = "gone" => ws'[w] = "gone"
      /\ Existing \subseteq Existing'
  BY <1>4 DEF Existing, Types
<1>6. Throw(o) \/ (Others(o) /\ op'[o].kind = op[o].kind /\ Works(o)')
  <2>1. \/ Throw(o)
        \/ /\ Becomes(o, [op[o] EXCEPT !.pc = "list"])
           /\ t \in Existing /\ ws' = [ws EXCEPT ![t] = "paused"]
    BY DEF Pause, Becomes
  <2>2. ASSUME Becomes(o, [op[o] EXCEPT !.pc = "list"]), t \in Existing,
               ws' = [ws EXCEPT ![t] = "paused"]
        PROVE  Others(o) /\ op'[o].kind = op[o].kind /\ Works(o)'
    <3>1. /\ Others(o) /\ op'[o].kind = op[o].kind /\ op'[o].pc = "list"
          /\ op'[o].snap = op[o].snap
      BY <2>2, Pcs, Goes
    <3>2. t # 0 /\ ws'[t] = "paused"
      BY <2>2 DEF Existing, Workspace, Types
    <3>3. Works(o)'
      BY <1>1, <1>2, <1>3, <3>1, <3>2 DEF Works, CreateWorks, CleanupWorks, HibernateWorks,
        ResumeWorks, RecoverWorks, BootWorks, VisitorWorks, In
    <3> QED
      BY <3>1, <3>3
  <2> QED
    BY <2>1, <2>2
<1>7. Kept /\ ~Dropped => row.target \in Existing'
  BY <1>5 DEF Kept
<1>8. row.status # "HIBERNATED" /\ leases' \subseteq leases
  BY <1>1, <1>3
<1> QED
  BY <1>1, <1>5, <1>6, <1>7, <1>8, WorkHolds

LEMMA DeleteTargetHolds ==
  ASSUME Types, Ordered, NEW o \in Slot, HasTurn(o), NEW ok \in BOOLEAN, DeleteTarget(o, ok),
         holes = {}, holes' = {}
  PROVE  Ordered'
<1> DEFINE t == op[o].snap.target
<1>1. /\ UNCHANGED <<row, leases, lock, proc>>
      /\ op[o].kind \in {"stop", "fail"} /\ op[o].pc = "delete"
  BY DEF DeleteTarget, At, world
<1>2. Works(o)
  BY DEF Ordered
<1>3. ~(op[o].kind = "fail" /\ isLive(row))
  BY DEF DeleteTarget
<1>4. Dropped /\ t = row.target
  BY <1>1, <1>2, <1>3 DEF Works, CleanupWorks, In
<1>5. \A w \in Workspace : ws[w] = "gone" => ws'[w] = "gone"
  BY DEF DeleteTarget, delete
<1>6. Dropped' /\ row' = row
  BY <1>1, <1>4 DEF Dropped
<1>7. ASSUME NEW s \in Op, Becomes(o, s), s.kind = op[o].kind, s.pc = "list",
             s.snap = op[o].snap, t # 0 /\ ~s.err => ws'[t] = "gone"
      PROVE  Others(o) /\ op'[o].kind = op[o].kind /\ Works(o)'
  <2>1. Others(o) /\ op'[o] = s
    BY <1>7, BecomesType
  <2>2. Works(o)'
    BY <1>1, <1>4, <1>6, <1>7, <2>1 DEF Works, CreateWorks, CleanupWorks, HibernateWorks,
      ResumeWorks, RecoverWorks, BootWorks, VisitorWorks, In
  <2> QED
    BY <1>7, <2>1, <2>2
<1>8. op[o] \in Op
  BY DEF Types
<1>9. Throw(o) \/ (Others(o) /\ op'[o].kind = op[o].kind /\ Works(o)')
  <2>1. \/ Throw(o)
        \/ t = 0 /\ Becomes(o, [op[o] EXCEPT !.pc = "list"])
        \/ /\ Becomes(o, [op[o] EXCEPT !.pc = "list", !.gone = ok, !.err = ~ok])
           /\ t # 0 /\ (ok => delete({t}))
    BY DEF DeleteTarget, Becomes
  <2>2. ASSUME t = 0, Becomes(o, [op[o] EXCEPT !.pc = "list"])
        PROVE  Others(o) /\ op'[o].kind = op[o].kind /\ Works(o)'
    <3> DEFINE s == [op[o] EXCEPT !.pc = "list"]
    <3>1. s \in Op
      BY <1>8, Pcs, OpTypes
    <3>2. s.kind = op[o].kind /\ s.pc = "list" /\ s.snap = op[o].snap
      BY <1>8, Zenon DEF Op
    <3> HIDE DEF s
    <3>3. Becomes(o, s)
      BY <2>2 DEF s
    <3> QED
      BY <1>7, <2>2, <3>1, <3>2, <3>3
  <2>3. ASSUME Becomes(o, [op[o] EXCEPT !.pc = "list", !.gone = ok, !.err = ~ok]), t # 0,
               ok => delete({t})
        PROVE  Others(o) /\ op'[o].kind = op[o].kind /\ Works(o)'
    <3> DEFINE e == ~ok
               s == [op[o] EXCEPT !.pc = "list", !.gone = ok, !.err = e]
    <3>1. e \in BOOLEAN
      OBVIOUS
    <3>2. ~e => ok
      OBVIOUS
    <3> HIDE DEF e
    <3>3. s \in Op
      BY <1>8, <3>1, Pcs, OpTypes
    <3>4. s.kind = op[o].kind /\ s.pc = "list" /\ s.snap = op[o].snap /\ s.err = e
      BY <1>8, Zenon DEF Op
    <3> HIDE DEF s
    <3>5. Becomes(o, s)
      BY <2>3 DEF s, e
    <3>6. t \in Workspace
      BY <1>8, <2>3 DEF Op, Row, Workspace
    <3>7. ~s.err => ws'[t] = "gone"
      BY <2>3, <3>2, <3>4, <3>6 DEF delete
    <3> QED
      BY <1>7, <3>3, <3>4, <3>5, <3>7
  <2> QED
    BY <2>1, <2>2, <2>3
<1>10. row.status # "HIBERNATED" /\ leases' \subseteq leases
  BY <1>1, <1>4 DEF Dropped
<1> QED
  BY <1>1, <1>4, <1>5, <1>9, <1>10, WorkHolds

-----------------------------------------------------------------------------
(* The first call of a serialized operation                                *)

\* An operation that has read the row goes on with it as its session, or not.
LEMMA GetGoes ==
  ASSUME Types, Ordered, NEW o \in Slot, HasTurn(o), op[o].pc = "get", Rests("create"), Calm,
         UNCHANGED lock,
         \/ Throw(o)
         \/ \E p \in Pc :
              /\ \/ Becomes(o, [op[o] EXCEPT !.pc = p])
                 \/ Becomes(o, [op[o] EXCEPT !.snap = row, !.pc = p])
              /\ op'[o].kind = op[o].kind => Works(o)'
  PROVE  Ordered'
<1>1. row # NoRow /\ UNCHANGED <<row, proc>>
  BY Awake DEF Ordered, Calm
<1>2. CASE Throw(o)
  BY <1>1, <1>2, ThrowHolds
<1>3. ASSUME NEW p \in Pc,
             \/ Becomes(o, [op[o] EXCEPT !.pc = p])
             \/ Becomes(o, [op[o] EXCEPT !.snap = row, !.pc = p]),
             op'[o].kind = op[o].kind => Works(o)'
      PROVE  Ordered'
  <2> DEFINE s == [op[o] EXCEPT !.pc = p]
             t == [op[o] EXCEPT !.snap = row, !.pc = p]
  <2>1. op[o] \in Op /\ row \in Row
    BY DEF Types
  <2>2. s \in Op /\ t \in Op
    BY <2>1, OpTypes
  <2>3. s.kind = op[o].kind /\ t.kind = op[o].kind
    BY <2>1, Zenon DEF Op
  <2> HIDE DEF s, t
  <2>4. Becomes(o, s) \/ Becomes(o, t)
    BY <1>3 DEF s, t
  <2>5. Others(o) /\ op'[o].kind = op[o].kind
    BY <2>2, <2>3, <2>4, BecomesType
  <2> QED
    BY <1>1, <1>3, <2>5, GoesHolds
<1> QED
  BY <1>2, <1>3

\* The fields of the operation that goes on.
LEMMA Fields ==
  ASSUME Types, NEW o \in Slot, NEW p \in Pc
  PROVE  /\ Becomes(o, [op[o] EXCEPT !.pc = p]) =>
              op'[o].kind = op[o].kind /\ op'[o].pc = p /\ op'[o].snap = op[o].snap
         /\ Becomes(o, [op[o] EXCEPT !.snap = row, !.pc = p]) =>
              op'[o].kind = op[o].kind /\ op'[o].pc = p /\ op'[o].snap = row
<1> DEFINE s == [op[o] EXCEPT !.pc = p]
           t == [op[o] EXCEPT !.snap = row, !.pc = p]
<1>1. op[o] \in Op /\ row \in Row
  BY DEF Types
<1>2. s \in Op /\ t \in Op
  BY <1>1, OpTypes
<1>3. /\ s.kind = op[o].kind /\ s.pc = p /\ s.snap = op[o].snap
      /\ t.kind = op[o].kind /\ t.pc = p /\ t.snap = row
  BY <1>1, Zenon DEF Op
<1> HIDE DEF s, t
<1>4. /\ Becomes(o, s) => op'[o] = s
      /\ Becomes(o, t) => op'[o] = t
  BY <1>2, BecomesType
<1>5. /\ Becomes(o, s) => op'[o].kind = op[o].kind /\ op'[o].pc = p /\ op'[o].snap = op[o].snap
      /\ Becomes(o, t) => op'[o].kind = op[o].kind /\ op'[o].pc = p /\ op'[o].snap = row
  BY <1>3, <1>4
<1> QED
  BY <1>5 DEF s, t

LEMMA GetHolds ==
  ASSUME Types, Ordered, NEW o \in Slot, HasTurn(o), NEW ok \in BOOLEAN,
         StopGet(o, ok) \/ ResumeGet(o, ok) \/ VisitorGet(o, ok), holes = {}, holes' = {}
  PROVE  Ordered'
<1>1. /\ Calm /\ UNCHANGED <<row, lock>> /\ op[o].pc = "get" /\ Rests("create")
      /\ op[o].kind \in {"stop", "resume", "visitor"}
  BY DEF StopGet, ResumeGet, VisitorGet, At, Enter, Calm, target, world, Rests
<1>2. \/ Throw(o)
      \/ \E p \in Pc :
           /\ \/ Becomes(o, [op[o] EXCEPT !.pc = p])
              \/ Becomes(o, [op[o] EXCEPT !.snap = row, !.pc = p])
           /\ op'[o].kind = op[o].kind => Works(o)'
  <2>1. CASE StopGet(o, ok)
    <3>1. \/ Throw(o)
          \/ row.status = "STOPPED" /\ Becomes(o, [op[o] EXCEPT !.pc = "return"])
          \/ Becomes(o, [op[o] EXCEPT !.pc = "mark"])
      BY <2>1 DEF StopGet, Becomes
    <3>2. ASSUME NEW p \in {"return", "mark"}, p = "return" => row.status = "STOPPED",
                 Becomes(o, [op[o] EXCEPT !.pc = p])
          PROVE  Works(o)'
      <4>1. op'[o].kind = "stop" /\ op'[o].pc = p
        BY <2>1, <3>2, Fields, Pcs DEF StopGet, At
      <4> QED
        BY <1>1, <3>2, <4>1 DEF Works, CreateWorks, CleanupWorks, HibernateWorks, ResumeWorks,
          RecoverWorks, BootWorks, VisitorWorks, In
    <3> QED
      BY <3>1, <3>2, Pcs
  <2>2. CASE ResumeGet(o, ok)
    <3>1. \/ Throw(o)
          \/ isLive(row) /\ Becomes(o, [op[o] EXCEPT !.pc = "return"])
          \/ row.status = "HIBERNATED" /\ Becomes(o, [op[o] EXCEPT !.pc = "mark", !.snap = row])
      BY <2>2 DEF ResumeGet, Becomes
    <3>2. ASSUME isLive(row), Becomes(o, [op[o] EXCEPT !.pc = "return"])
          PROVE  Works(o)'
      <4>1. op'[o].kind = "resume" /\ op'[o].pc = "return"
        BY <2>2, <3>2, Fields, Pcs DEF ResumeGet, At
      <4> QED
        BY <1>1, <3>2, <4>1 DEF Works, CreateWorks, CleanupWorks, HibernateWorks, ResumeWorks,
          RecoverWorks, BootWorks, VisitorWorks, In, isLive
    <3>3. [op[o] EXCEPT !.pc = "mark", !.snap = row] = [op[o] EXCEPT !.snap = row, !.pc = "mark"]
      <4>1. op[o] \in Op
        BY DEF Types
      <4> QED
        BY <4>1, Zenon DEF Op
    <3>4. ASSUME row.status = "HIBERNATED", Becomes(o, [op[o] EXCEPT !.snap = row, !.pc = "mark"])
          PROVE  Works(o)'
      <4>1. op'[o].kind = "resume" /\ op'[o].pc = "mark" /\ op'[o].snap = row
        BY <2>2, <3>4, Fields, Pcs DEF ResumeGet, At
      <4> QED
        BY <1>1, <3>4, <4>1 DEF Works, CreateWorks, CleanupWorks, HibernateWorks, ResumeWorks,
          RecoverWorks, BootWorks, VisitorWorks, In
    <3> QED
      BY <3>1, <3>2, <3>3, <3>4, Pcs
  <2>3. CASE VisitorGet(o, ok)
    <3>1. \/ Throw(o)
          \/ isLive(row) /\ Becomes(o, [op[o] EXCEPT !.pc = "route"])
      BY <2>3 DEF VisitorGet, Becomes
    <3>2. ASSUME isLive(row), Becomes(o, [op[o] EXCEPT !.pc = "route"])
          PROVE  Works(o)'
      <4>1. op'[o].kind = "visitor" /\ op'[o].pc = "route"
        BY <2>3, <3>2, Fields, Pcs DEF VisitorGet, At
      <4> QED
        BY <1>1, <3>2, <4>1 DEF Works, CreateWorks, CleanupWorks, HibernateWorks, ResumeWorks,
          RecoverWorks, BootWorks, VisitorWorks, In, isLive
    <3> QED
      BY <3>1, <3>2, Pcs
  <2> QED
    BY <2>1, <2>2, <2>3
<1> QED
  BY <1>1, <1>2, GetGoes

LEMMA HibernateGetHolds ==
  ASSUME Types, Ordered, NEW o \in Slot, HasTurn(o), NEW ok \in BOOLEAN, HibernateGet(o, ok),
         holes = {}, holes' = {}
  PROVE  Ordered'
<1>1. /\ Calm /\ UNCHANGED <<row, lock>> /\ op[o].pc = "get" /\ Rests("create")
      /\ op[o].kind = "hibernate"
  BY DEF HibernateGet, At, Enter, Calm, target, world, Rests
<1>2. Rows /\ Works(o) /\ Serial
  BY DEF Ordered
<1>3. \/ Throw(o)
      \/ row.status = "HIBERNATED" /\ Becomes(o, [op[o] EXCEPT !.pc = "return"])
      \/ isLive(row) /\ Becomes(o, [op[o] EXCEPT !.snap = row, !.pc = "wait"])
      \/ /\ row.target # 0
         /\ row.status \in {"READY", "ACTIVE", "HIBERNATING", "RESUMING", "PROVISIONING", "FAILED"}
         /\ Becomes(o, [op[o] EXCEPT !.snap = row, !.pc = "mark"])
  BY DEF HibernateGet, Becomes
<1>4. ASSUME row.status = "HIBERNATED", Becomes(o, [op[o] EXCEPT !.pc = "return"])
      PROVE  Works(o)'
  <2>1. op'[o].kind = "hibernate" /\ op'[o].pc = "return"
    BY <1>1, <1>4, Fields, Pcs
  <2> QED
    BY <1>1, <1>4, <2>1 DEF Works, CreateWorks, CleanupWorks, HibernateWorks, ResumeWorks,
      RecoverWorks, BootWorks, VisitorWorks, In
<1>5. ASSUME isLive(row), Becomes(o, [op[o] EXCEPT !.snap = row, !.pc = "wait"])
      PROVE  Works(o)'
  <2>1. op'[o].kind = "hibernate" /\ op'[o].pc = "wait" /\ op'[o].snap = row
    BY <1>1, <1>5, Fields, Pcs
  <2> QED
    BY <1>1, <1>5, <2>1 DEF Works, CreateWorks, CleanupWorks, HibernateWorks, ResumeWorks,
      RecoverWorks, BootWorks, VisitorWorks, In, isLive
<1>6. ASSUME row.target # 0,
             row.status \in {"READY", "ACTIVE", "HIBERNATING", "RESUMING", "PROVISIONING", "FAILED"},
             Becomes(o, [op[o] EXCEPT !.snap = row, !.pc = "mark"])
      PROVE  Works(o)'
  <2>1. op'[o].kind = "hibernate" /\ op'[o].pc = "mark" /\ op'[o].snap = row
    BY <1>1, <1>6, Fields, Pcs
  <2>2. ASSUME row.status = "PROVISIONING"
        PROVE  row.keep
    <3>1. proc \in {"boot", "down"} /\ ~Rests(o)
      BY <1>1, <1>2, <1>6, <2>2 DEF Rows, NoRow, Rests
    <3>2. proc = "boot"
      BY <1>2, <3>1 DEF Serial
    <3>3. o = "boot"
      BY <1>2, <3>1, <3>2 DEF Serial
    <3> QED
      BY <1>1, <1>2, <2>2, <3>3 DEF Works, BootWorks, In
  <2>3. ~row.stopped => Kept
    BY <1>2, <1>6, <2>2 DEF Rows, isLive, NoRow
  <2>4. Kept' = Kept /\ row' = row
    BY <1>1 DEF Kept, Calm, Existing
  <2> QED
    BY <1>6, <2>1, <2>3, <2>4 DEF Works, CreateWorks, CleanupWorks, HibernateWorks, ResumeWorks,
      RecoverWorks, BootWorks, VisitorWorks, In
<1>7. \/ Throw(o)
      \/ \E p \in Pc :
           /\ \/ Becomes(o, [op[o] EXCEPT !.pc = p])
              \/ Becomes(o, [op[o] EXCEPT !.snap = row, !.pc = p])
           /\ op'[o].kind = op[o].kind => Works(o)'
  BY <1>3, <1>4, <1>5, <1>6, Pcs
<1> QED
  BY <1>1, <1>7, GetGoes

LEMMA StepOrdered ==
  ASSUME Types, Workspaces, Ordered, NEW o \in Slot, Step(o), ~Finish(o),
         holes = {}, holes' = {}
  PROVE  Ordered'
<1>1. HasTurn(o)
  BY DEF Step
<1>2. CASE \/ CreateMark(o) \/ CreateReady(o) \/ StopMark(o) \/ StopDone(o) \/ FailDone(o)
           \/ HibernateMark(o) \/ HibernateDone(o) \/ HibernateFail(o)
           \/ ResumeMark(o) \/ ResumeEnter(o) \/ ResumeReady(o)
           \/ VisitorMark(o) \/ ShutdownRoute(o)
  BY <1>1, <1>2, CreateUpdatesHold, CleanupUpdatesHold, HibernateUpdatesHold, ResumeUpdatesHold,
    OtherUpdatesHold
<1>3. CASE EndLeases(o)
  BY <1>1, <1>3, EndLeasesHolds
<1>4. ASSUME NEW ok \in BOOLEAN,
             \/ ReadRow(o, ok) \/ LogCreated(o, ok) \/ LogReady(o, ok) \/ FinishRun(o, ok)
             \/ LogHibernated(o, ok) \/ ListLeases(o, ok)
      PROVE  Ordered'
  BY <1>1, <1>4, ReadRowHolds, AwaitHolds, ListLeasesHolds
<1>5. ASSUME NEW ok \in BOOLEAN,
             \/ StartVendors(o, ok) \/ PrepareRun(o, ok) \/ Register(o, ok) \/ Unpause(o, ok)
             \/ Provision(o, ok) \/ VisitorRoute(o, ok) \/ Pause(o, ok) \/ DeleteTarget(o, ok)
      PROVE  Ordered'
  BY <1>1, <1>5, ProvisionHolds, PrepareRunHolds, UnpauseHolds, PauseHolds, DeleteTargetHolds
<1>6. ASSUME NEW ok \in BOOLEAN,
             StopGet(o, ok) \/ HibernateGet(o, ok) \/ ResumeGet(o, ok) \/ VisitorGet(o, ok)
      PROVE  Ordered'
  BY <1>1, <1>6, GetHolds, HibernateGetHolds
<1>7. ASSUME NEW ok \in BOOLEAN, NEW l \in Lease, ReleaseLease(o, l, ok)
      PROVE  Ordered'
  BY <1>1, <1>7, ReleaseLeaseHolds
<1> QED
  BY <1>2, <1>3, <1>4, <1>5, <1>6, <1>7 DEF Step

-----------------------------------------------------------------------------
(* The end of an operation or of the process                               *)

LEMMA IdleWorks ==
  ASSUME NEW q \in Slot, op'[q].kind \in {"idle", "shutdown"}
  PROVE  Works(q)'
  BY DEF Works, CreateWorks, CleanupWorks, HibernateWorks, ResumeWorks, RecoverWorks,
    BootWorks, VisitorWorks, In

LEMMA DownHolds ==
  ASSUME Types, Ordered, Down, UNCHANGED <<row, ws, leases>>
  PROVE  Ordered'
<1>1. \A q \in Slot : op'[q].kind = "idle" /\ op'[q].pc = "none"
  BY DEF Down, Idle
<1>2. \A q \in Slot : Rests(q)' /\ Quiet(q)' /\ op'[q].kind \in Kinds(q)
  BY <1>1 DEF Rests, Quiet, Kinds
<1>3. proc' = "down" /\ runtime' = FALSE
  BY DEF Down
<1>4. Serial'
  BY <1>1, <1>2, <1>3, Slots DEF Serial
<1>5. Kept' = Kept /\ isLive(row)' = isLive(row)
  BY DEF Kept, Existing, isLive
<1>6. Rows'
  BY <1>3, <1>5 DEF Ordered, Rows
<1>7. \A q \in Slot : Works(q)'
  BY <1>1, IdleWorks
<1> QED
  BY <1>4, <1>6, <1>7 DEF Ordered

LEMMA FinishHolds ==
  ASSUME Types, Ordered, NEW o \in Slot, HasTurn(o), Finish(o)
  PROVE  Ordered'
<1>1. /\ UNCHANGED <<row, ws, leases>> /\ op[o].pc \in {"return", "throw"}
  BY DEF Finish
<1>2. ~Rests(o) /\ row # NoRow /\ proc # "down" /\ Works(o) /\ Serial /\ Rows
  BY <1>1, Awake DEF Ordered, Rests
<1>3. CASE Down
  BY <1>1, <1>3, DownHolds
<1>4. CASE /\ Becomes(o, Idle) /\ lock' = unlocked(o) /\ runtime' = runtime
           /\ proc' = IF o = "boot" THEN "up" ELSE proc
           /\ o = "boot" /\ op[o].kind # "shutdown" =>
                \/ op[o].pc = "return"
                \/ op[o].kind = "hibernate" /\ op[o].snap.status \in {"HIBERNATING", "RESUMING"}
           /\ o = "boot" => op[o].kind # "shutdown"
  <2>1. op'[o] = Idle /\ Others(o)
    BY <1>4, IdleType, BecomesType
  <2>2. op'[o].kind = "idle" /\ op'[o].pc = "none"
    BY <2>1 DEF Idle
  <2>3. \A q \in Slot \ {o} : op'[q] = op[q] /\ Rests(q)' = Rests(q) /\ Quiet(q)' = Quiet(q)
    BY <2>1 DEF Others, Rests, Quiet
  <2>4. Rests(o)' /\ Quiet(o)' /\ op'[o].kind \in Kinds(o)
    BY <2>2 DEF Rests, Quiet, Kinds
  <2>5. Serial'
    <3>1. \A q \in Queued : ~Quiet(q)' => lock' # <<>> /\ Head(lock') = q
      <4> SUFFICES ASSUME NEW q \in Queued, ~Quiet(q)'
                   PROVE  lock' # <<>> /\ Head(lock') = q
        OBVIOUS
      <4>1. q # o /\ ~Quiet(q)
        BY <2>3, <2>4, Slots
      <4>2. lock # <<>> /\ Head(lock) = q
        BY <1>2, <4>1 DEF Serial
      <4>3. o \notin Queued
        BY <4>1, <4>2 DEF HasTurn
      <4> QED
        BY <1>4, <4>2, <4>3 DEF unlocked
    <3>2. \A q \in Slot : /\ op'[q].kind \in Kinds(q)
                          /\ op'[q].kind = "idle" => op'[q].pc = "none"
                          /\ op'[q].kind = "expire" => op'[q].pc = "enqueue"
      BY <1>2, <2>2, <2>3, <2>4 DEF Serial
    <3>3. ~Rests("create")' => proc' = "up" /\ Rests("boot")' /\ \A q \in Queued : Quiet(q)'
      <4> SUFFICES ASSUME ~Rests("create")'
                   PROVE  proc' = "up" /\ Rests("boot")' /\ \A q \in Queued : Quiet(q)'
        OBVIOUS
      <4>1. o # "create" /\ ~Rests("create")
        BY <2>3, <2>4, Slots
      <4>2. proc = "up" /\ Rests("boot") /\ \A q \in Queued : Quiet(q)
        BY <1>2, <4>1 DEF Serial
      <4> QED
        BY <1>4, <2>3, <2>4, <4>2, Slots
    <3>4. /\ op'["boot"].kind \notin {"idle", "shutdown"} =>
               proc' = "boot" /\ \A q \in Slot \ {"boot"} : Rests(q)'
          /\ proc' = "boot" => op'["boot"].kind \notin {"idle", "shutdown"}
      <4>1. CASE o = "boot"
        BY <1>4, <2>2, <4>1
      <4>2. CASE o # "boot"
        <5>1. op'["boot"] = op["boot"] /\ proc' = proc
          BY <1>4, <2>3, <4>2, Slots
        <5>2. op["boot"].kind \in {"idle", "shutdown"}
          BY <1>2, <4>2 DEF Serial
        <5> QED
          BY <1>2, <5>1, <5>2 DEF Serial
      <4> QED
        BY <4>1, <4>2
    <3>5. op'["boot"].kind = "shutdown" =>
            proc' = "closing" /\ \A q \in Req \cup {"create"} : Rests(q)'
      <4>1. CASE o = "boot"
        BY <2>2, <4>1
      <4>2. CASE o # "boot"
        BY <1>2, <1>4, <2>3, <2>4, <4>2, Slots DEF Serial
      <4> QED
        BY <4>1, <4>2
    <3>6. proc' # "down" /\ row' # NoRow
      BY <1>1, <1>2, <1>4
    <3> QED
      BY <3>1, <3>2, <3>3, <3>4, <3>5, <3>6 DEF Serial
  <2>6. Rows'
    <3>1. Existing' = Existing /\ Kept' = Kept /\ isLive(row)' = isLive(row)
      BY <1>1 DEF Existing, Kept, isLive
    <3>2. row.status = "PROVISIONING" /\ row.target # 0 => proc' \in {"boot", "down"}
      <4>1. CASE o = "boot"
        <5>1. row.status # "PROVISIONING"
          BY <1>1, <1>2, <1>4, <4>1 DEF Works, BootWorks, In, Rests
        <5> QED
          BY <5>1
      <4>2. CASE o # "boot"
        BY <1>2, <1>4, <4>2 DEF Rows
      <4> QED
        BY <4>1, <4>2
    <3> QED
      BY <1>1, <1>2, <1>4, <3>1, <3>2 DEF Rows
  <2>7. ASSUME NEW q \in Slot
        PROVE  Works(q)'
    <3>1. CASE q = o
      BY <2>2, <3>1, IdleWorks
    <3>2. CASE q # o
      <4>1. Still /\ Works(q) /\ Alike(op'[q], op[q])
        BY <1>1, <1>4, <2>3, <3>2 DEF Still, Ordered, Alike
      <4> QED
        BY <4>1, StillWorks
    <3> QED
      BY <3>1, <3>2
  <2> QED
    BY <2>5, <2>6, <2>7 DEF Ordered
<1>5. \/ Down
      \/ /\ Becomes(o, Idle) /\ lock' = unlocked(o) /\ runtime' = runtime
         /\ proc' = IF o = "boot" THEN "up" ELSE proc
         /\ o = "boot" /\ op[o].kind # "shutdown" =>
              \/ op[o].pc = "return"
              \/ op[o].kind = "hibernate" /\ op[o].snap.status \in {"HIBERNATING", "RESUMING"}
         /\ o = "boot" => op[o].kind # "shutdown"
  BY DEF Finish, Becomes
<1> QED
  BY <1>3, <1>4, <1>5

-----------------------------------------------------------------------------
(* Everything else                                                         *)

\* The collection of an outcome settles the hibernations that wait for it, and
\* has no other part in what happens to the row.
LEMMA SettleHolds ==
  ASSUME Types, Ordered, Calm, UNCHANGED lock, op' = op \/ op' = settled
  PROVE  Ordered'
<1> DEFINE waits(q) == op[q].kind = "hibernate" /\ op[q].pc = "wait"
<1>1. ASSUME NEW q \in Slot
      PROVE  /\ op'[q] = op[q] \/ (waits(q) /\ op'[q] = [op[q] EXCEPT !.pc = "mark"])
             /\ op'[q].kind = op[q].kind /\ op'[q].snap = op[q].snap
             /\ op'[q].pc = op[q].pc \/ (waits(q) /\ op'[q].pc = "mark")
  <2>1. op'[q] = op[q] \/ (waits(q) /\ op'[q] = [op[q] EXCEPT !.pc = "mark"])
    BY DEF settled, At
  <2>2. op[q] \in Op
    BY DEF Types
  <2>3. /\ [op[q] EXCEPT !.pc = "mark"].kind = op[q].kind
        /\ [op[q] EXCEPT !.pc = "mark"].snap = op[q].snap
        /\ [op[q] EXCEPT !.pc = "mark"].pc = "mark"
    BY <2>2, Zenon DEF Op
  <2> QED
    BY <2>1, <2>3
<1>2. \A q \in Slot : Rests(q)' = Rests(q) /\ Quiet(q)' = Quiet(q)
  BY <1>1 DEF Rests, Quiet
<1>3. UNCHANGED <<row, proc>> /\ (runtime' => runtime)
  BY DEF Calm
<1>4. Serial'
  <2>1. \A q \in Slot : /\ op'[q].kind \in Kinds(q)
                        /\ op'[q].kind = "idle" => op'[q].pc = "none"
                        /\ op'[q].kind = "expire" => op'[q].pc = "enqueue"
    <3>1. \A q \in Slot : /\ op[q].kind \in Kinds(q)
                          /\ op[q].kind = "idle" => op[q].pc = "none"
                          /\ op[q].kind = "expire" => op[q].pc = "enqueue"
      BY DEF Ordered, Serial
    <3> SUFFICES ASSUME NEW q \in Slot
                 PROVE  /\ op'[q].kind \in Kinds(q)
                        /\ op'[q].kind = "idle" => op'[q].pc = "none"
                        /\ op'[q].kind = "expire" => op'[q].pc = "enqueue"
      OBVIOUS
    <3>2. op'[q].kind = op[q].kind /\ (op'[q].pc = op[q].pc \/ op[q].kind = "hibernate")
      BY <1>1
    <3> QED
      BY <3>1, <3>2
  <2>2. op'["boot"].kind = op["boot"].kind
    BY <1>1, Slots
  <2>3. \A q \in Queued : ~Quiet(q)' => lock' # <<>> /\ Head(lock') = q
    BY <1>2, Slots DEF Ordered, Serial
  <2>4. ~Rests("create")' => proc' = "up" /\ Rests("boot")' /\ \A q \in Queued : Quiet(q)'
    BY <1>2, <1>3, Slots DEF Ordered, Serial
  <2>5. /\ op'["boot"].kind \notin {"idle", "shutdown"} =>
             proc' = "boot" /\ \A q \in Slot \ {"boot"} : Rests(q)'
        /\ proc' = "boot" => op'["boot"].kind \notin {"idle", "shutdown"}
    BY <1>2, <1>3, <2>2 DEF Ordered, Serial
  <2>6. op'["boot"].kind = "shutdown" =>
          proc' = "closing" /\ \A q \in Req \cup {"create"} : Rests(q)'
    BY <1>2, <1>3, <2>2, Slots DEF Ordered, Serial
  <2>7. proc' = "down" \/ row' = NoRow => ~runtime' /\ \A q \in Slot : Rests(q)'
    BY <1>2, <1>3 DEF Ordered, Serial
  <2> QED
    BY <2>1, <2>3, <2>4, <2>5, <2>6, <2>7 DEF Serial
<1>5. Rows'
  BY CalmRows DEF Ordered
<1>6. ASSUME NEW q \in Slot
      PROVE  Works(q)'
  <2>1. Works(q) /\ Rows
    BY DEF Ordered
  <2>2. CASE op'[q] = op[q]
    BY <2>1, <2>2, CalmWorks DEF Alike
  <2>3. CASE waits(q) /\ op'[q] = [op[q] EXCEPT !.pc = "mark"]
    <3>1. op'[q].kind = "hibernate" /\ op'[q].snap = op[q].snap /\ op'[q].pc = "mark"
      BY <1>1, <2>3
    <3>2. isLive(row) /\ op[q].snap.target = row.target
      BY <2>1, <2>3 DEF Works, HibernateWorks, In
    <3>3. Kept' /\ row' = row
      BY <2>1, <3>2 DEF Rows, Kept, Calm, Existing
    <3> QED
      BY <3>1, <3>2, <3>3 DEF Works, CreateWorks, CleanupWorks, HibernateWorks, ResumeWorks,
        RecoverWorks, BootWorks, VisitorWorks, In, isLive
  <2> QED
    BY <1>1, <2>2, <2>3
<1> QED
  BY <1>4, <1>5, <1>6 DEF Ordered

LEMMA OutcomeHolds ==
  ASSUME Types, Ordered, OutcomeStep \/ StartOutcome, holes = {}, holes' = {}
  PROVE  Ordered'
<1>1. UNCHANGED <<ws, leases, runtime, proc, lock>>
  BY DEF OutcomeStep, OutcomeWrite, OutcomeGet, OutcomeVerify, OutcomeRead, OutcomeCollect,
    StartOutcome, target, world
<1>2. row' = row
  <2>1. CASE OutcomeWrite
    BY <2>1 DEF OutcomeWrite, overwrite
  <2>2. CASE ~OutcomeWrite
    BY <2>2 DEF OutcomeStep, OutcomeGet, OutcomeVerify, OutcomeRead, OutcomeCollect, StartOutcome
  <2> QED
    BY <2>1, <2>2
<1>3. op' = op \/ op' = settled
  BY DEF OutcomeStep, OutcomeWrite, OutcomeGet, OutcomeVerify, OutcomeRead, OutcomeCollect,
    StartOutcome, OutcomeGoto
<1>4. Calm
  BY <1>1, <1>2 DEF Calm
<1> QED
  BY <1>1, <1>3, <1>4, SettleHolds

LEMMA CreateHolds ==
  ASSUME Types, Ordered, NEW keep \in BOOLEAN, Create(keep)
  PROVE  Ordered'
<1> DEFINE s == [Idle EXCEPT !.kind = "create", !.pc = "log created"]
           r == [NoRow EXCEPT !.status = "CREATE", !.keep = keep, !.pwd = TRUE, !.life = over + 1]
<1>1. /\ proc = "up" /\ row = NoRow /\ row' = r /\ UNCHANGED <<ws, leases, proc, lock>>
      /\ op' = [op EXCEPT !["create"] = s]
  BY DEF Create, world
<1>2. \A q \in Slot : Rests(q) /\ op[q].pc = "none"
  BY <1>1 DEF Ordered, Serial, Rests
<1>3. /\ s.kind = "create" /\ s.pc = "log created" /\ s.snap.target = 0
      /\ r.status = "CREATE" /\ r.target = 0 /\ r.pwd /\ ~r.stopped
  BY DEF Idle, NoRow
<1> HIDE DEF s, r
<1>4. op'["create"] = s /\ \A q \in Slot \ {"create"} : op'[q] = op[q]
  BY <1>1, Slots DEF Types
<1>5. \A q \in Slot \ {"create"} : Rests(q)' /\ Quiet(q)' /\ op'[q].pc = "none"
  BY <1>2, <1>4 DEF Rests, Quiet
<1>6. row'.status = "CREATE" /\ row'.target = 0 /\ row'.pwd /\ ~row'.stopped /\ row' # NoRow
  <2>1. row'.status = "CREATE" /\ row'.target = 0 /\ row'.pwd /\ ~row'.stopped
    BY <1>1, <1>3
  <2>2. NoRow.status = "NONE"
    BY DEF NoRow
  <2> QED
    BY <2>1, <2>2
<1>7. Serial'
  <2>1. \A q \in Slot : op'[q].kind \in Kinds(q)
    BY <1>3, <1>4, <1>5 DEF Kinds, Rests
  <2>2. ~Rests("create")' /\ op'["create"].kind = "create"
    BY <1>3, <1>4 DEF Rests
  <2> QED
    BY <1>1, <1>5, <1>6, <2>1, <2>2, Slots DEF Serial, Rests
<1>8. Rows'
  BY <1>6 DEF Rows, isLive
<1>9. ASSUME NEW q \in Slot
      PROVE  Works(q)'
  <2>1. CASE q = "create"
    BY <1>3, <1>4, <1>6, <2>1 DEF Works, CreateWorks, CleanupWorks, HibernateWorks, ResumeWorks,
      RecoverWorks, BootWorks, VisitorWorks, In
  <2>2. CASE q # "create"
    BY <1>5, <2>2, IdleWorks DEF Rests
  <2> QED
    BY <2>1, <2>2
<1> QED
  BY <1>7, <1>8, <1>9 DEF Ordered

\* A slot takes up an operation, which waits for its turn.
LEMMA LaunchHolds ==
  ASSUME Types, Ordered, NEW o \in Queued, NEW s \in Op, Becomes(o, s),
         UNCHANGED <<row, target, proc>>, Rests(o) \/ op[o].kind = "expire",
         s.kind \in Kinds(o), proc \in {"up", "closing"}, row # NoRow, o \in Req => proc = "up",
         \/ s.kind = "expire" /\ s.pc = "enqueue" /\ lock' = lock
         \/ s.kind \notin {"idle", "expire"} /\ s.pc = "get" /\ lock' = Append(lock, o)
  PROVE  Ordered'
<1>1. o \in Slot /\ o # "boot" /\ o # "create"
  BY Slots
<1>2. op'[o] = s /\ Others(o)
  BY <1>1, BecomesType
<1>3. \A q \in Slot \ {o} : op'[q] = op[q] /\ Rests(q)' = Rests(q) /\ Quiet(q)' = Quiet(q)
  BY <1>2 DEF Others, Rests, Quiet
<1>4. Quiet(o)' /\ Quiet(o) /\ ~Rests(o)'
  BY <1>1, <1>2 DEF Quiet, Rests
<1>5. lock # <<>> => lock' # <<>> /\ Head(lock') = Head(lock)
  BY DEF Types
<1>6. Serial'
  <2>1. \A q \in Slot : /\ op'[q].kind \in Kinds(q)
                        /\ op'[q].kind = "idle" => op'[q].pc = "none"
                        /\ op'[q].kind = "expire" => op'[q].pc = "enqueue"
    BY <1>2, <1>3, <1>4 DEF Ordered, Serial, Rests
  <2>2. \A q \in Queued : ~Quiet(q)' => lock' # <<>> /\ Head(lock') = q
    BY <1>3, <1>4, <1>5, Slots DEF Ordered, Serial
  <2>3. ~Rests("create")' => proc' = "up" /\ Rests("boot")' /\ \A q \in Queued : Quiet(q)'
    BY <1>1, <1>3, <1>4, Slots DEF Ordered, Serial
  <2>4. op'["boot"] = op["boot"] /\ op["boot"].kind \in {"idle", "shutdown"}
    BY <1>1, <1>3, Slots DEF Ordered, Serial
  <2>5. op'["boot"].kind = "shutdown" =>
          proc' = "closing" /\ \A q \in Req \cup {"create"} : Rests(q)'
    BY <1>1, <1>3, <2>4, Slots DEF Ordered, Serial
  <2> QED
    BY <2>1, <2>2, <2>3, <2>4, <2>5 DEF Serial
<1>7. Calm
  BY DEF Calm, target
<1>8. Rows'
  BY <1>7, CalmRows DEF Ordered
<1>9. ASSUME NEW q \in Slot
      PROVE  Works(q)'
  <2>1. CASE q = o
    BY <1>1, <1>2, <2>1 DEF Works, CreateWorks, CleanupWorks, HibernateWorks, ResumeWorks,
      RecoverWorks, BootWorks, VisitorWorks, In, Kinds
  <2>2. CASE q # o
    <3>1. Works(q) /\ Alike(op'[q], op[q])
      BY <1>3, <2>2 DEF Ordered, Alike
    <3> QED
      BY <1>7, <3>1, CalmWorks
  <2> QED
    BY <2>1, <2>2
<1> QED
  BY <1>6, <1>8, <1>9 DEF Ordered

LEMMA RequestHolds ==
  ASSUME Types, Ordered, NEW o \in Req, NEW k \in {"visitor", "hibernate", "resume", "stop"},
         Request(o, k)
  PROVE  Ordered'
<1> DEFINE s == Begin(Idle, k, "get")
<1>1. s \in Op /\ s.kind = k /\ s.pc = "get"
  <2>1. k \in Kind /\ "get" \in Pc
    BY DEF Kind, Pc
  <2> QED
    BY <2>1, IdleType, BeginType
<1>2. o \in Queued /\ o \notin {"timer", "create", "boot"}
  BY NameAssumption DEF Queued
<1>3. /\ Becomes(o, s) /\ UNCHANGED <<row, target, proc>> /\ proc = "up" /\ row # NoRow
      /\ op[o] = Idle /\ lock' = Append(lock, o)
  BY DEF Request, Becomes
<1> HIDE DEF s
<1>4. Rests(o) /\ s.kind \in Kinds(o) /\ s.kind \notin {"idle", "expire"}
  BY <1>1, <1>2, <1>3 DEF Rests, Idle, Kinds
<1> QED
  BY <1>1, <1>2, <1>3, <1>4, LaunchHolds

LEMMA ExpiryHolds ==
  ASSUME Types, Ordered, ExpireRead \/ ExpireEnqueue
  PROVE  Ordered'
<1>1. "timer" \in Queued /\ "timer" \notin Req /\ "timer" \notin {"create", "boot"}
      /\ "timer" \in Slot
  BY Slots
<1>2. CASE ExpireRead
  <2> DEFINE t == Begin(Idle, "expire", "enqueue")
             s == [t EXCEPT !.snap = row]
  <2>1. t \in Op /\ t.kind = "expire" /\ t.pc = "enqueue" /\ row \in Row
    <3>1. "expire" \in Kind /\ "enqueue" \in Pc
      BY DEF Kind, Pc
    <3> QED
      BY <3>1, IdleType, BeginType DEF Types
  <2> HIDE DEF t
  <2>2. s \in Op /\ s.kind = "expire" /\ s.pc = "enqueue"
    BY <2>1, Zenon DEF Op
  <2>3. /\ Becomes("timer", s) /\ UNCHANGED <<row, target, proc, lock>> /\ proc = "up"
        /\ op["timer"] = Idle /\ isLive(row)
    BY <1>2 DEF ExpireRead, Becomes, world, t
  <2> HIDE DEF s
  <2>4. Rests("timer") /\ s.kind \in Kinds("timer") /\ row # NoRow
    BY <1>1, <2>2, <2>3 DEF Rests, Idle, Kinds, NoRow, isLive
  <2> QED
    BY <1>1, <2>2, <2>3, <2>4, LaunchHolds
<1>3. CASE ExpireEnqueue
  <2> DEFINE k == IF op["timer"].snap.keep THEN "hibernate" ELSE "stop"
             t == Begin(op["timer"], k, "get")
             s == [t EXCEPT !.auto = TRUE]
  <2>1. op["timer"] \in Op
    BY <1>1 DEF Types
  <2>2. k \in {"hibernate", "stop"}
    OBVIOUS
  <2>3. t \in Op /\ t.kind = k /\ t.pc = "get"
    <3>1. k \in Kind /\ "get" \in Pc
      BY <2>2 DEF Kind, Pc
    <3> HIDE DEF k
    <3> QED
      BY <2>1, <3>1, BeginType
  <2>4. /\ op' = [op EXCEPT !["timer"] = s] /\ UNCHANGED <<row, target, proc>>
        /\ op["timer"].kind = "expire" /\ lock' = Append(lock, "timer")
    BY <1>1, <1>3 DEF ExpireEnqueue, At, Types
  <2> HIDE DEF t
  <2>5. s \in Op /\ s.kind = t.kind /\ s.pc = t.pc
    BY <2>3, Zenon DEF Op
  <2>6. Becomes("timer", s)
    BY <2>4 DEF Becomes
  <2> HIDE DEF s, k
  <2>7. s.kind \in Kinds("timer") /\ s.kind \notin {"idle", "expire"} /\ s.pc = "get"
    BY <1>1, <2>2, <2>3, <2>5 DEF Kinds
  <2>8. proc \in {"up", "closing"} /\ row # NoRow
    <3>1. ~Rests("timer")
      BY <2>4 DEF Rests
    <3> QED
      BY <1>1, <3>1 DEF Ordered, Serial, Types
  <2> QED
    BY <1>1, <2>4, <2>5, <2>6, <2>7, <2>8, LaunchHolds
<1> QED
  BY <1>2, <1>3

LEMMA BootHolds ==
  ASSUME Types, Ordered, Boot
  PROVE  Ordered'
<1>1. /\ UNCHANGED <<row, ws, leases, runtime, lock>> /\ proc = "down"
  BY DEF Boot, target
<1>2. ~runtime /\ \A q \in Slot : Rests(q) /\ op[q].pc = "none"
  BY <1>1 DEF Ordered, Serial, Rests
<1>3. Existing' = Existing /\ Kept' = Kept /\ isLive(row)' = isLive(row)
  BY <1>1 DEF Existing, Kept, isLive
<1>4. CASE recovery = "none"
  <2>1. proc' = "up" /\ op' = op
    BY <1>4 DEF Boot
  <2>2. \A q \in Slot : Rests(q)' /\ Quiet(q)' /\ op'[q].kind \in Kinds(q) /\ op'[q].pc = "none"
    BY <1>2, <2>1 DEF Rests, Quiet, Kinds
  <2>3. Serial'
    BY <1>1, <1>2, <2>1, <2>2, Slots DEF Serial, Rests
  <2>4. row.status # "PROVISIONING"
    BY <1>4 DEF recovery
  <2>5. Rows'
    BY <1>1, <1>3, <2>4 DEF Ordered, Rows
  <2>6. \A q \in Slot : Works(q)'
    BY <2>2, IdleWorks DEF Rests
  <2> QED
    BY <2>3, <2>5, <2>6 DEF Ordered
<1>5. CASE recovery # "none"
  <2> DEFINE k == recovery
             p == IF recovery = "recover" THEN "list" ELSE "get"
             t == Begin(Idle, k, p)
             s == [t EXCEPT !.snap = row]
  <2>1. k \in {"hibernate", "stop", "recover"}
    BY <1>5 DEF recovery
  <2>2. t \in Op /\ t.kind = k /\ t.pc = p /\ row \in Row
    <3>1. k \in Kind /\ p \in Pc
      BY <2>1 DEF Kind, Pc
    <3> HIDE DEF k, p
    <3> QED
      BY <3>1, IdleType, BeginType DEF Types
  <2>3. proc' = "boot" /\ Becomes("boot", s)
    BY <1>5 DEF Boot, Becomes
  <2> HIDE DEF t
  <2>4. s \in Op /\ s.kind = t.kind /\ s.pc = t.pc /\ s.snap = row
    BY <2>2, Zenon DEF Op
  <2> HIDE DEF s
  <2>5. op'["boot"] = s /\ Others("boot")
    BY <2>3, <2>4, Slots, BecomesType
  <2>6. /\ op'["boot"].kind = k /\ op'["boot"].snap = row
        /\ op'["boot"].pc = p
    BY <2>2, <2>4, <2>5
  <2>7. \A q \in Slot \ {"boot"} : Rests(q)' /\ Quiet(q)' /\ op'[q].pc = "none"
    BY <1>2, <2>5 DEF Rests, Quiet, Others
  <2>8. row # NoRow
    BY <1>5 DEF recovery, NoRow, isLive
  <2>9. Serial'
    <3>1. \A q \in Slot : op'[q].kind \in Kinds(q)
      BY <2>1, <2>6, <2>7 DEF Kinds, Rests
    <3>2. ~Rests("boot")' /\ op'["boot"].kind \notin {"idle", "shutdown", "expire"}
      BY <2>1, <2>6 DEF Rests
    <3> QED
      BY <1>1, <2>3, <2>7, <2>8, <3>1, <3>2, Slots DEF Serial, Rests
  <2>10. Rows'
    BY <1>1, <1>3, <2>3 DEF Ordered, Rows
  <2>11. Works("boot")'
    <3>1. recovery = "recover" => isLive(row)
      BY DEF recovery
    <3>2. recovery = "hibernate" => row.status # "PROVISIONING"
      BY DEF recovery, isLive
    <3>3. row' = row
      BY <1>1
    <3> HIDE DEF recovery
    <3> QED
      BY <2>1, <2>6, <3>1, <3>2, <3>3 DEF Works, CreateWorks, CleanupWorks, HibernateWorks,
        ResumeWorks, RecoverWorks, BootWorks, VisitorWorks, In, isLive
  <2>12. \A q \in Slot : Works(q)'
    BY <2>7, <2>11, IdleWorks DEF Rests
  <2> QED
    BY <2>9, <2>10, <2>12 DEF Ordered
<1> QED
  BY <1>4, <1>5

LEMMA ShutdownHolds ==
  ASSUME Types, Ordered, Shutdown
  PROVE  Ordered'
<1> DEFINE t == Begin(Idle, "shutdown", "list")
           s == [t EXCEPT !.snap = row]
<1>1. /\ UNCHANGED <<row, ws, leases, runtime, lock>> /\ proc = "up" /\ proc' = "closing" /\ runtime
      /\ \A q \in Req \cup {"create"} : op[q] = Idle
      /\ Becomes("boot", s)
  BY DEF Shutdown, target, Becomes
<1>2. t \in Op /\ t.kind = "shutdown" /\ t.pc = "list" /\ row \in Row
  <2>1. "shutdown" \in Kind /\ "list" \in Pc
    BY DEF Kind, Pc
  <2> QED
    BY <2>1, IdleType, BeginType DEF Types
<1> HIDE DEF t
<1>3. s \in Op /\ s.kind = t.kind
  BY <1>2, Zenon DEF Op
<1> HIDE DEF s
<1>4. op'["boot"] = s /\ Others("boot") /\ op'["boot"].kind = "shutdown"
  BY <1>1, <1>2, <1>3, Slots, BecomesType
<1>5. \A q \in Slot \ {"boot"} : op'[q] = op[q] /\ Rests(q)' = Rests(q) /\ Quiet(q)' = Quiet(q)
  BY <1>4 DEF Others, Rests, Quiet
<1>6. row # NoRow
  BY <1>1 DEF Ordered, Serial
<1>7. \A q \in Req \cup {"create"} : q \in Slot \ {"boot"} /\ Rests(q)'
  <2>1. \A q \in Req \cup {"create"} : q \in Slot \ {"boot"} /\ Rests(q)
    BY <1>1, Slots DEF Rests, Idle
  <2> QED
    BY <1>5, <2>1
<1>8. Serial'
  <2>1. \A q \in Slot : /\ op'[q].kind \in Kinds(q)
                        /\ op'[q].kind = "idle" => op'[q].pc = "none"
                        /\ op'[q].kind = "expire" => op'[q].pc = "enqueue"
    BY <1>4, <1>5 DEF Ordered, Serial, Kinds
  <2>2. \A q \in Queued : ~Quiet(q)' => lock' # <<>> /\ Head(lock') = q
    BY <1>1, <1>5, Slots DEF Ordered, Serial
  <2> QED
    BY <1>1, <1>4, <1>6, <1>7, <2>1, <2>2 DEF Serial
<1>9. Rows'
  <2>1. Existing' = Existing /\ Kept' = Kept /\ isLive(row)' = isLive(row)
    BY <1>1 DEF Existing, Kept, isLive
  <2> QED
    BY <1>1, <2>1 DEF Ordered, Rows
<1>10. ASSUME NEW q \in Slot
       PROVE  Works(q)'
  <2>1. CASE q = "boot"
    BY <1>4, <2>1, IdleWorks
  <2>2. CASE q # "boot"
    <3>1. Still /\ Works(q) /\ Alike(op'[q], op[q])
      BY <1>1, <1>5, <2>2 DEF Still, Ordered, Alike
    <3> QED
      BY <3>1, StillWorks
  <2> QED
    BY <2>1, <2>2
<1> QED
  BY <1>8, <1>9, <1>10 DEF Ordered

LEMMA ReapHolds ==
  ASSUME Types, Ordered, NEW l \in Lease, Reap(l), holes = {}, holes' = {}
  PROVE  Ordered'
<1>1. /\ UNCHANGED <<row, runtime, proc, op, lock>> /\ row.status \in {"FAILED", "STOPPED"}
      /\ leases' \subseteq leases /\ delete({l} \cap Workspace)
      /\ row.status = "FAILED" /\ ~row.stopped => l # row.target
      /\ \A q \in Slot : op[q] = Idle
  BY DEF Reap, world
<1>2. \A q \in Slot : op'[q].kind = "idle"
  BY <1>1 DEF Idle
<1>3. \A q \in Slot : Rests(q)' = Rests(q) /\ Quiet(q)' = Quiet(q)
  BY <1>1 DEF Rests, Quiet
<1>4. Serial'
  BY <1>1, <1>3, Slots DEF Ordered, Serial
<1>5. /\ \A w \in Workspace : ws[w] = "gone" => ws'[w] = "gone"
      /\ \A w \in Existing \ {l} : w \in Existing'
  BY <1>1 DEF delete, Existing
<1>6. Rows'
  <2>1. row.target # 0 => row.target \in Workspace
    BY DEF Types, Row, Workspace
  <2>2. Kept /\ l # row.target => Kept'
    BY <1>1, <1>5 DEF Kept
  <2>3. leases = {} => leases' = {}
    BY <1>1
  <2> QED
    BY <1>1, <1>5, <2>1, <2>2, <2>3 DEF Ordered, Rows, isLive
<1>7. \A q \in Slot : Works(q)'
  BY <1>2, IdleWorks
<1> QED
  BY <1>4, <1>6, <1>7 DEF Ordered

-----------------------------------------------------------------------------
(* The invariant                                                           *)

LEMMA InitHolds == Init => SessionInv
<1> SUFFICES ASSUME Init
             PROVE  SessionInv
  OBVIOUS
<1> USE BoundAssumption DEF Init
<1>1. NoRow \in Row /\ Idle \in Op
  BY NoRowType, IdleType
<1>2. Types
  <2>1. op \in [Slot -> Op] /\ ws \in [Workspace -> {"none", "live", "paused", "gone"}]
    BY <1>1
  <2>2. out \in [pc : {"none", "get", "collect", "trigger", "verify", "result"}, seen : Row]
    BY <1>1 DEF NoOutcome
  <2>3. lock \in Seq(Queued)
    OBVIOUS
  <2>4. /\ over \in 0..MaxExpiries /\ prepared \in 0..MaxWorkspaces /\ requests \in 0..MaxRequests
        /\ faults \in 0..MaxFaults /\ crashes \in 0..MaxCrashes
    OBVIOUS
  <2>5. /\ row \in Row /\ leases \subseteq Lease /\ runtime \in BOOLEAN
        /\ proc \in {"down", "boot", "up", "closing"}
        /\ holes \subseteq {"overlap", "unmarked", "reaped"}
    BY <1>1
  <2> HIDE DEF Init
  <2> QED
    BY <2>1, <2>2, <2>3, <2>4, <2>5 DEF Types
<1>3. Workspaces
  BY DEF Workspaces, Existing
<1>4. \A q \in Slot : op[q].kind = "idle" /\ op[q].pc = "none"
  BY DEF Idle
<1>5. Serial
  <2>1. \A q \in Slot : Rests(q) /\ op[q].kind \in Kinds(q)
    BY <1>4 DEF Rests, Kinds
  <2>2. \A q \in Queued : Quiet(q)
    BY <1>4, Slots DEF Quiet
  <2> QED
    BY <1>4, <2>1, <2>2, Slots DEF Serial
<1>6. Rows
  <2>1. row.status = "NONE" /\ row.target = 0 /\ ~row.pwd /\ ~row.stopped
    BY DEF NoRow
  <2> QED
    BY <2>1 DEF Rows, isLive
<1>7. \A q \in Slot : Works(q)
  BY <1>4 DEF Works, CreateWorks, CleanupWorks, HibernateWorks, ResumeWorks, RecoverWorks,
    BootWorks, VisitorWorks, In
<1> QED
  BY <1>2, <1>3, <1>5, <1>6, <1>7 DEF SessionInv, Ordered

LEMMA NextOrdered ==
  ASSUME Types, Workspaces, Ordered, Next, holes = {}, holes' = {}
  PROVE  Ordered'
<1>1. ASSUME NEW o \in Slot, Step(o)
      PROVE  Ordered'
  <2>1. HasTurn(o)
    BY <1>1 DEF Step
  <2> QED
    BY <1>1, <2>1, StepOrdered, FinishHolds
<1>2. CASE OutcomeStep \/ StartOutcome
  BY <1>2, OutcomeHolds
<1>3. ASSUME NEW keep \in BOOLEAN, Create(keep)
      PROVE  Ordered'
  BY <1>3, CreateHolds
<1>4. ASSUME NEW o \in Req, NEW k \in {"visitor", "hibernate", "resume", "stop"}, Request(o, k)
      PROVE  Ordered'
  BY <1>4, RequestHolds
<1>5. CASE ExpireRead \/ ExpireEnqueue
  BY <1>5, ExpiryHolds
<1>6. CASE Boot
  BY <1>6, BootHolds
<1>7. CASE Shutdown
  BY <1>7, ShutdownHolds
<1>8. CASE Crash
  BY <1>8, DownHolds DEF Crash
<1>9. CASE TimePasses
  <2>1. Calm /\ UNCHANGED <<lock, op>>
    BY <1>9 DEF TimePasses, Calm, target
  <2> QED
    BY <2>1, SettleHolds
<1>10. ASSUME NEW l \in Lease, Reap(l)
       PROVE  Ordered'
  BY <1>10, ReapHolds
<1> QED
  BY <1>1, <1>2, <1>3, <1>4, <1>5, <1>6, <1>7, <1>8, <1>9, <1>10 DEF Next

\* A workspace to be leased exists, so it is one of those in the bound.
LEMMA LeasesExist ==
  ASSUME Ordered, NEW o \in Slot, At(o, Provisions, "lease")
  PROVE  op[o].w \in Workspace
<1>1. Works(o) /\ op[o].pc = "lease" /\ op[o].kind \in Provisions
  BY DEF Ordered, At
<1>2. op[o].w \in Existing
  BY <1>1 DEF Works, CreateWorks, ResumeWorks, RecoverWorks, In, Provisions
<1> QED
  BY <1>2 DEF Existing

LEMMA Inductive == SessionInv /\ [Next]_vars => SessionInv'
<1> SUFFICES ASSUME SessionInv, [Next]_vars
             PROVE  SessionInv'
  OBVIOUS
<1>1. CASE UNCHANGED vars
  <2>1. /\ UNCHANGED <<row, over, ws, leases, prepared, runtime, proc, op, lock, out, holes>>
        /\ UNCHANGED <<requests, faults, crashes>>
    BY <1>1 DEF vars, target, world
  <2>2. Types'
    BY <2>1 DEF SessionInv, Types
  <2>3. Workspaces'
    BY <2>1 DEF SessionInv, Workspaces, Existing
  <2>4. holes' = {} => Ordered'
    <3> SUFFICES ASSUME holes' = {}
                 PROVE  Ordered'
      OBVIOUS
    <3>1. Types /\ Ordered
      BY <2>1 DEF SessionInv
    <3>2. Calm
      BY <2>1 DEF Calm
    <3> QED
      BY <2>1, <3>1, <3>2, SettleHolds
  <2> QED
    BY <2>2, <2>3, <2>4 DEF SessionInv
<1>2. CASE Next
  <2>1. holes = {} /\ Types /\ Workspaces /\ Ordered
    BY <1>2 DEF Next, SessionInv
  <2>2. \A o \in Slot : At(o, Provisions, "lease") => op[o].w \in Workspace
    BY <2>1, LeasesExist
  <2>3. Types' /\ Workspaces'
    BY <1>2, <2>1, <2>2, NextTypes
  <2>4. holes' = {} => Ordered'
    BY <1>2, <2>1, NextOrdered
  <2> QED
    BY <2>3, <2>4 DEF SessionInv
<1> QED
  BY <1>1, <1>2

\* Types, Workspaces, one operation at a time, and what the row promises and
\* the operation at work knows, in every state up to the first hole.
THEOREM SessionInvCorrect == Spec => []SessionInv
<1>1. Init => SessionInv
  BY InitHolds
<1>2. SessionInv /\ [Next]_vars => SessionInv'
  BY Inductive
<1> QED
  BY <1>1, <1>2, PTL DEF Spec

-----------------------------------------------------------------------------
(* The theorems                                                            *)

\* A session is STOPPED, and its password cleared, only once the workspace it
\* names is deleted and every lease released, whatever stop, failSession and
\* the recovery at startup met on the way.
THEOREM ErasedIsDeletedCorrect == Spec => []ErasedIsDeleted
<1>1. SessionInv => ErasedIsDeleted
  BY DEF SessionInv, Ordered, Rows, ErasedIsDeleted
<1> QED
  BY <1>1, SessionInvCorrect, PTL

\* A session that is offered for resume(), or for another try at hibernate(),
\* still has its workspace, its name and its password.
THEOREM SavedIsIntactCorrect == Spec => []SavedIsIntact
<1>1. SessionInv => SavedIsIntact
  <2> SUFFICES ASSUME SessionInv, holes = {}
               PROVE  SavedIsIntact
    BY DEF SavedIsIntact, HibernatedIsIntact, FailedIsKept
  <2>1. Rows
    BY DEF SessionInv, Ordered
  <2> QED
    BY <2>1 DEF Rows, Kept, SavedIsIntact, HibernatedIsIntact, FailedIsKept
<1> QED
  BY <1>1, SessionInvCorrect, PTL

\* Only stop and failSession delete workspaces, and never one of a session
\* that is saved.
LEMMA Deletes ==
  ASSUME Types, Ordered, NEW o \in Slot, Step(o), NEW w \in Existing, ws'[w] = "gone"
  PROVE  Dropped \/ isLive(row)
<1>1. ws[w] # "gone" /\ w \in Workspace
  BY DEF Existing
<1>2. Works(o) /\ Rows
  BY DEF Ordered
<1>3. ASSUME NEW ok \in BOOLEAN, DeleteTarget(o, ok)
      PROVE  Dropped \/ isLive(row)
  <2>1. op[o].kind \in {"stop", "fail"} /\ op[o].pc = "delete"
    BY <1>3 DEF DeleteTarget, At
  <2> QED
    BY <1>2, <2>1 DEF Works, CleanupWorks, In
<1>4. ASSUME NEW ok \in BOOLEAN, NEW l \in Lease, ReleaseLease(o, l, ok)
      PROVE  Dropped
  <2>1. op[o].kind \in {"stop", "fail"}
    <3> SUFFICES ASSUME op[o].kind \notin {"stop", "fail"}
                 PROVE  FALSE
      OBVIOUS
    <3>1. cleaned(op[o], l) = {}
      BY DEF cleaned
    <3>2. delete({}) => ws' = ws
      BY DEF delete, Types
    <3> QED
      BY <1>1, <1>4, <3>1, <3>2 DEF ReleaseLease
  <2>2. op[o].pc = "release"
    BY <1>4 DEF ReleaseLease
  <2> QED
    BY <1>2, <2>1, <2>2 DEF Works, CleanupWorks
<1>5. ASSUME NEW ok \in BOOLEAN, PrepareRun(o, ok) \/ Unpause(o, ok) \/ Pause(o, ok)
      PROVE  FALSE
  <2>1. ws' = ws \/ \E v \in Workspace, s \in {"live", "paused"} : ws' = [ws EXCEPT ![v] = s]
    <3>1. CASE PrepareRun(o, ok)
      BY <3>1 DEF PrepareRun
    <3>2. CASE Unpause(o, ok)
      BY <3>2 DEF Unpause, Existing
    <3>3. CASE Pause(o, ok)
      BY <3>3 DEF Pause, Existing
    <3> QED
      BY <1>5, <3>1, <3>2, <3>3
  <2> QED
    BY <1>1, <2>1 DEF Types
<1>6. CASE UNCHANGED ws
  BY <1>1, <1>6
<1>7. CASE CreateMark(o) \/ CreateReady(o) \/ StopMark(o) \/ StopDone(o) \/ FailDone(o)
        \/ HibernateMark(o) \/ HibernateDone(o) \/ HibernateFail(o) \/ ResumeMark(o)
        \/ ResumeEnter(o) \/ VisitorMark(o) \/ ShutdownRoute(o) \/ ResumeReady(o)
  <2>1. \A r, p : update(o, r, p) => UNCHANGED ws
    BY DEF update, target
  <2> QED
    BY <1>6, <1>7, <2>1 DEF CreateMark, CreateReady, StopMark, StopDone, FailDone, HibernateMark,
      HibernateDone, HibernateFail, ResumeMark, ResumeEnter, VisitorMark, ShutdownRoute, ResumeReady
<1>8. CASE EndLeases(o) \/ Finish(o)
  BY <1>6, <1>8 DEF EndLeases, Finish
<1>9. ASSUME NEW ok \in BOOLEAN,
             \/ LogCreated(o, ok) \/ LogReady(o, ok) \/ FinishRun(o, ok) \/ LogHibernated(o, ok)
             \/ ReadRow(o, ok) \/ ListLeases(o, ok) \/ StopGet(o, ok) \/ HibernateGet(o, ok)
             \/ ResumeGet(o, ok) \/ VisitorGet(o, ok)
      PROVE  Dropped \/ isLive(row)
  BY <1>6, <1>9 DEF LogCreated, LogReady, FinishRun, LogHibernated, Await, ReadRow, ListLeases,
    StopGet, HibernateGet, ResumeGet, VisitorGet, target
<1>10. ASSUME NEW ok \in BOOLEAN,
              StartVendors(o, ok) \/ Register(o, ok) \/ Provision(o, ok) \/ VisitorRoute(o, ok)
       PROVE  Dropped \/ isLive(row)
  BY <1>6, <1>10 DEF StartVendors, Register, Provision, VisitorRoute
<1> QED
  BY <1>3, <1>4, <1>5, <1>7, <1>8, <1>9, <1>10 DEF Step

\* No workspace is deleted while its session is saved, being saved or being
\* resumed: neither by the operation at work nor by one that was started
\* before, by the expiry, by maintenance or by the recovery.
THEOREM SavedIsNotDeletedCorrect == Spec => SavedIsNotDeleted
<1>1. ASSUME SessionInv, [Next]_vars,
             row.status \in {"HIBERNATING", "HIBERNATED", "RESUMING"}, holes = {},
             NEW w \in Existing
      PROVE  ws'[w] # "gone"
  <2> SUFFICES ASSUME ws'[w] = "gone"
               PROVE  FALSE
    OBVIOUS
  <2>1. ws[w] # "gone" /\ w \in Workspace
    BY DEF Existing
  <2>2. Types /\ Ordered
    BY <1>1 DEF SessionInv
  <2>3. ~(Dropped \/ isLive(row)) /\ row.status \notin {"FAILED", "STOPPED"}
    BY <1>1 DEF Dropped, isLive
  <2>4. ASSUME NEW o \in Slot, Step(o)
        PROVE  FALSE
    BY <2>2, <2>3, <2>4, Deletes
  <2>5. CASE UNCHANGED ws
    BY <2>1, <2>5
  <2>6. CASE OutcomeStep \/ StartOutcome
    BY <2>5, <2>6 DEF OutcomeStep, OutcomeWrite, OutcomeGet, OutcomeVerify, OutcomeRead,
      OutcomeCollect, StartOutcome, target
  <2>7. ASSUME NEW keep \in BOOLEAN, Create(keep)
        PROVE  FALSE
    BY <2>5, <2>7 DEF Create
  <2>8. ASSUME NEW o \in Req, NEW k \in {"visitor", "hibernate", "resume", "stop"}, Request(o, k)
        PROVE  FALSE
    BY <2>5, <2>8 DEF Request, target
  <2>9. CASE ExpireRead \/ ExpireEnqueue \/ Boot \/ Shutdown \/ Crash \/ TimePasses
    BY <2>5, <2>9 DEF ExpireRead, ExpireEnqueue, Boot, Shutdown, Crash, TimePasses, target
  <2>10. ASSUME NEW l \in Lease, Reap(l)
         PROVE  FALSE
    BY <2>3, <2>10 DEF Reap
  <2>11. CASE UNCHANGED vars
    BY <2>5, <2>11 DEF vars, target
  <2> QED
    BY <1>1, <2>4, <2>6, <2>7, <2>8, <2>9, <2>10, <2>11 DEF Next
<1>2. SessionInv /\ [Next]_vars =>
        [row.status \in {"HIBERNATING", "HIBERNATED", "RESUMING"} /\ holes = {} =>
           \A w \in Existing : ws'[w] # "gone"]_vars
  BY <1>1
<1> QED
  BY <1>2, SessionInvCorrect, PTL DEF Spec, SavedIsNotDeleted
=============================================================================
