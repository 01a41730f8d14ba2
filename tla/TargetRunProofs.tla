---------------------------- MODULE TargetRunProofs ----------------------------
(***************************************************************************)
(* TargetRun, for either adapter and any number of handlers, routes,       *)
(* workspaces and troubles: NothingUnaccounted, CompletedIsEnriched and    *)
(* ReleasedIsGone.                                                         *)
(***************************************************************************)
EXTENDS TargetRun, SequenceTheorems, TLAPS

Preparation == [id : Nat, token : Nat]
Workspace == [id : Nat, hibernated : BOOLEAN, enriched : BOOLEAN, completed : BOOLEAN]
Request == {"createRoute", "deleteRoute", "ledger", "prepare", "delete", "hibernate", "resume",
            "enrich", "poll", "vendors", "site", "observe", "outcome"}
Op == {"none", "create-route", "replace-route", "ledger", "prepare-run", "vendors", "site", "enrich",
       "observe", "wait", "outcome", "hibernate", "resume", "cleanup-target", "cleanup-run"}
Handler == [op : Op, req : Request \cup {"none"}, arg : Nat,
            step : {"idle", "sent", "answered", "lease"}, answer : 0..Refused, held : Nat]

\* The requests of each handler.
Asked(op, req) ==
  \/ op = "create-route" /\ req = "createRoute"
  \/ op = "replace-route" /\ req \in {"createRoute", "deleteRoute"}
  \/ op = "prepare-run" /\ req = "prepare"
  \/ op = "wait" /\ req \in {"poll", "enrich"}
  \/ op = "cleanup-target" /\ req = "delete"
  \/ op = "cleanup-run" /\ req \in {"delete", "deleteRoute"}
  \/ op = req /\ op \in {"ledger", "vendors", "site", "enrich", "observe", "outcome",
                         "hibernate", "resume"}
-----------------------------------------------------------------------------
(* The inductive invariant.                                                *)

MapTypes ==
  /\ gateway \in Nat /\ gatewayLeaseRegistered \in BOOLEAN
  /\ prepared \in Preparation /\ adapterPrepared \in Preparation
  /\ targetLeaseRegistered \in BOOLEAN /\ observation \in BOOLEAN
  /\ adapterObservation \in BOOLEAN /\ enrichmentTriggered \in BOOLEAN

ServerTypes ==
  /\ routeCount \in Nat /\ routeCount <= MaxRoutes /\ routes \subseteq 1..routeCount
  /\ target \in Workspace
  /\ targetCount \in Nat /\ targetCount <= MaxTargets /\ target.id <= targetCount

RecordTypes ==
  /\ leases \subseteq Lease /\ cleanups \in Seq(Lease) /\ forgotten \subseteq Lease
  /\ completion \in Nat /\ completion <= targetCount
  /\ host \in {"engine", "demo"} /\ phase \in {"running", "cleaning", "over", "crashed"}
  /\ troubles \in 0..MaxTroubles /\ starts \in 0..MaxStarts
  /\ lost \subseteq [req : Request, arg : Nat]

\* A handler with the record x: which one it is, and when it may be awaiting.
HandlerOK(x) ==
  /\ x \in Handler
  /\ x.step = "idle" => x = Idle
  /\ x.op \in DemoOnly => host = "demo"
  /\ x.step \in {"sent", "answered"} => Asked(x.op, x.req)
  /\ x.step = "lease" => /\ x.op \in {"create-route", "replace-route", "prepare-run"}
                         /\ x.req = "none" /\ x.answer = 0
  /\ x.step # "idle" /\ phase # "running" =>
       host = "engine" /\ (x.step = "lease" \/ x.req \in GatewayRequest)

\* The routes it names have been created, and a deleted one stays deleted.
RouteOK(x) ==
  /\ x.held <= routeCount
  /\ x.op = "replace-route" /\ x.req # "deleteRoute" => x.held # 0
  /\ x.step = "lease" /\ x.op # "prepare-run" => x.arg \in 1..routeCount
  /\ x.step = "answered" /\ x.req = "createRoute" /\ x.answer # Refused =>
       x.answer \in 1..routeCount
  /\ x.req = "deleteRoute" =>
       /\ x.arg \in 1..routeCount
       /\ x.step = "answered" => x.arg \notin routes
       /\ x.op = "cleanup-run" => x.arg = gateway

\* The workspace it names is the one the maps know.
TargetOK(x) ==
  /\ x.op = "prepare-run" /\ x.step = "lease" => x.arg # 0 /\ prepared.id = x.arg
  /\ x.req = "prepare" /\ host = "demo" => prepared = Nobody /\ adapterPrepared = Nobody
  /\ x.req = "prepare" /\ x.step = "answered" =>
       /\ x.answer # Refused
       /\ x.answer % Redacted \in 1..targetCount
       /\ host = "engine" => x.answer % Redacted = target.id
  /\ x.req = "delete" =>
       /\ x.arg # 0 /\ x.arg <= targetCount
       /\ x.step = "answered" => target.id # x.arg
       /\ x.op = "cleanup-run" => x.arg = adapterPrepared.id
  /\ x.op \in {"wait", "enrich"} => x.arg # 0 /\ x.arg = adapterPrepared.id
  /\ x.req = "enrich" /\ x.step = "answered" /\ x.answer # Refused =>
       (target.id = x.arg => target.enriched)

HandlersInv ==
  /\ at \in [Attempt -> Handler]
  /\ \A h \in Attempt : HandlerOK(at[h]) /\ RouteOK(at[h]) /\ TargetOK(at[h])

\* The demo service runs one handler at a time.
LockInv ==
  host = "demo" =>
    \A g, h \in Attempt : at[g].step # "idle" /\ at[h].step # "idle" => g = h

\* What the maps say of the route and the workspace, and what its lease says.
PreparedInv ==
  /\ gateway <= routeCount
  /\ prepared.id = 0 => prepared = Nobody
  /\ adapterPrepared.id = 0 => adapterPrepared = Nobody
  /\ prepared.id <= targetCount /\ adapterPrepared.id <= targetCount
  /\ prepared.id # 0 /\ adapterPrepared.id # 0 => prepared.id = adapterPrepared.id
  /\ targetLeaseRegistered => prepared.id # 0
  /\ targetLeaseRegistered => <<"target-run", prepared.id>> \in leases \/ target.id # prepared.id
  /\ \A l \in leases : l[1] = "target-run" => l[2] <= targetCount
  /\ host = "engine" => \A q \in lost : q.req # "delete"
  /\ host = "engine" /\ phase = "running" =>
       /\ target.id = targetCount
       /\ prepared.id \in {0, adapterPrepared.id} /\ adapterPrepared.id \in {0, target.id}

\* The adapter remembers an enrichment only of the workspace it knows.
EnrichedInv ==
  enrichmentTriggered =>
    adapterPrepared.id # 0 /\ (target.id = adapterPrepared.id => target.enriched)

\* A cleanup of the run finds in the adapter the workspace that is live.
CleanupInv ==
  /\ cleanups # <<>> => host = "engine"
  /\ \A i \in 1..Len(cleanups) :
       cleanups[i][1] = "target-run" =>
         /\ cleanups[i][2] <= targetCount
         /\ target.id = cleanups[i][2] => adapterPrepared.id = cleanups[i][2]

\* The handler with record x has the route r, or the workspace t, in hand.
HasRoute(x, r) ==
  \/ x.step = "answered" /\ x.req = "createRoute" /\ x.answer # Refused /\ x.answer = r
  \/ x.step = "lease" /\ x.op # "prepare-run" /\ x.arg = r
  \/ x.req = "deleteRoute" /\ x.arg = r
HasTarget(x, t) ==
  \/ x.step = "answered" /\ x.req = "prepare" /\ x.answer % Redacted = t
  \/ x.step = "lease" /\ x.op = "prepare-run" /\ x.arg = t

RouteKept(r) == \/ <<"gateway-route", r>> \in leases \/ <<"gateway-route", r>> \in forgotten
                \/ gateway = r /\ ~gatewayLeaseRegistered
                \/ \E h \in Attempt : HasRoute(at[h], r)
TargetKept(t) == \/ <<"target-run", t>> \in leases \/ <<"target-run", t>> \in forgotten
                 \/ prepared.id = t /\ ~targetLeaseRegistered
                 \/ \E h \in Attempt : HasTarget(at[h], t)

\* As NothingUnaccounted, for a hibernated workspace too.
AccountInv ==
  /\ \A r \in routes : RouteKept(r)
  /\ target.id # 0 => TargetKept(target.id)

IInv == /\ MapTypes /\ ServerTypes /\ RecordTypes /\ HandlersInv /\ LockInv /\ PreparedInv
        /\ EnrichedInv /\ CleanupInv /\ AccountInv /\ CompletedIsEnriched
-----------------------------------------------------------------------------
(* The operators                                                           *)

\* Which routes and workspaces a handler and the state hold.
LEMMA HandRoute ==
  ASSUME NEW h \in Attempt, HandlerOK(at[h]), NEW r
  PROVE  <<"gateway-route", r>> \in inHand(h) <=> HasRoute(at[h], r)
  BY DEF inHand, HasRoute, HandlerOK, Asked, Request

LEMMA HandTarget ==
  ASSUME NEW h \in Attempt, HandlerOK(at[h]), NEW t
  PROVE  <<"target-run", t>> \in inHand(h) <=> HasTarget(at[h], t)
  BY DEF inHand, HasTarget, HandlerOK, Asked, Request

LEMMA HeldFacts ==
  ASSUME MapTypes, PreparedInv
  PROVE  /\ \A r : r # 0 => (<<"gateway-route", r>> \in held <=> gateway = r /\ ~gatewayLeaseRegistered)
         /\ \A t : t # 0 => (<<"target-run", t>> \in held <=> prepared.id = t /\ ~targetLeaseRegistered)
  BY DEF held, MapTypes, PreparedInv, Preparation, Nobody

LEMMA AccountImplies ==
  ASSUME MapTypes, ServerTypes, PreparedInv, HandlersInv, AccountInv PROVE NothingUnaccounted
  <1> SUFFICES ASSUME NEW x \in live
               PROVE  x \in leases \cup held \cup forgotten \/ \E h \in Attempt : x \in inHand(h)
    BY DEF NothingUnaccounted
  <1>1. CASE \E r \in routes : x = <<"gateway-route", r>>
    <2>1. PICK r \in routes : x = <<"gateway-route", r>>
      BY <1>1
    <2>2. r # 0 /\ RouteKept(r)
      BY DEF ServerTypes, AccountInv
    <2> QED BY <2>1, <2>2, HandRoute, HeldFacts DEF RouteKept, HandlersInv
  <1>2. CASE x = <<"target-run", target.id>> /\ target.id # 0
    <2>1. TargetKept(target.id)
      BY <1>2 DEF AccountInv
    <2> QED BY <1>2, <2>1, HandTarget, HeldFacts DEF TargetKept, HandlersInv
  <1> QED BY <1>1, <1>2 DEF live

LEMMA ServeRoutes ==
  ASSUME ServerTypes, NEW req \in Request, NEW arg \in Nat, NEW answer \in 0..Refused,
         serve(req, arg, answer)
  PROVE  /\ routeCount' \in Nat /\ routeCount <= routeCount' /\ routeCount' <= MaxRoutes
         /\ routes' \subseteq 1..routeCount'
         /\ req # "createRoute" => routes' \subseteq routes
         /\ req = "deleteRoute" => arg \notin routes' /\ answer # Refused
         /\ \A r \in routes' : r \in routes \/
              (req = "createRoute" /\ answer = r /\ r = routeCount + 1)
         /\ req = "createRoute" /\ answer # Refused => answer \in 1..routeCount' /\ answer \in routes'
  <1> USE DEF ServerTypes
  <1>1. CASE req = "createRoute"
    <2>1. createRoute(arg = 1, answer)
      BY <1>1 DEF serve
    <2>2. CASE arg # 1
      <3>1. answer = Refused /\ routes' = routes /\ routeCount' = routeCount
        BY <2>1, <2>2, Zenon DEF createRoute
      <3> QED BY <1>1, <3>1 DEF Refused
    <2>3. CASE arg = 1
      <3>1. /\ answer = routeCount + 1 /\ routeCount' = answer /\ routes' = routes \cup {answer}
            /\ routeCount < MaxRoutes
        BY <2>1, <2>3 DEF createRoute
      <3> QED BY <1>1, <3>1, BoundAssumption
    <2> QED BY <2>2, <2>3
  <1>2. CASE req = "deleteRoute"
    BY <1>2 DEF serve, deleteRoute, Refused
  <1>3. CASE req \notin {"createRoute", "deleteRoute"}
    <2>1. routes' = routes /\ routeCount' = routeCount
      BY <1>3 DEF serve, prepare, onTarget, servers, Request
    <2> QED BY <1>3, <2>1
  <1> QED BY <1>1, <1>2, <1>3

LEMMA Remainders ==
  ASSUME NEW n \in 1..48 PROVE n % 50 = n /\ (n + 50) % 50 = n
  OBVIOUS

LEMMA FreshTarget ==
  ASSUME NEW n \in Nat
  PROVE  [NoTarget EXCEPT !.id = n] \in Workspace /\ [NoTarget EXCEPT !.id = n].id = n
  BY DEF NoTarget, Workspace

LEMMA Marked ==
  ASSUME NEW w \in Workspace, NEW b \in BOOLEAN
  PROVE  /\ [w EXCEPT !.hibernated = b] \in Workspace /\ [w EXCEPT !.hibernated = b].id = w.id
         /\ [w EXCEPT !.hibernated = b].enriched = w.enriched
         /\ [w EXCEPT !.enriched = TRUE] \in Workspace /\ [w EXCEPT !.enriched = TRUE].id = w.id
         /\ [w EXCEPT !.enriched = TRUE].enriched = TRUE
         /\ [w EXCEPT !.completed = TRUE] \in Workspace /\ [w EXCEPT !.completed = TRUE].id = w.id
         /\ [w EXCEPT !.completed = TRUE].enriched = w.enriched
  BY DEF Workspace

LEMMA ServeTarget ==
  ASSUME ServerTypes, NEW req \in Request, NEW arg \in Nat, NEW answer \in 0..Refused,
         serve(req, arg, answer)
  PROVE  /\ target' \in Workspace
         /\ targetCount' \in Nat /\ targetCount <= targetCount' /\ targetCount' <= MaxTargets
         /\ target'.id <= targetCount'
         /\ target'.id = target.id \/ (target'.id = 0 /\ req = "delete" /\ target.id = arg)
              \/ (target.id = 0 /\ req = "prepare" /\ target'.id = targetCount + 1)
         /\ target'.id = target.id => targetCount' = targetCount
         /\ target'.id = 0 => targetCount' = targetCount
         /\ target'.id # target.id /\ target'.id # 0 => targetCount' = targetCount + 1
         /\ req = "prepare" => /\ answer # Refused /\ target'.id # 0
                               /\ answer % Redacted = target'.id
         /\ req = "delete" /\ arg # 0 => target'.id # arg
         /\ target'.id = target.id /\ target.id # 0 /\ target.enriched => target'.enriched
         /\ req = "enrich" /\ answer # Refused => target'.enriched
  <1>1. target \in Workspace /\ target.id \in Nat /\ NoTarget \in Workspace /\ NoTarget.id = 0
    BY DEF ServerTypes, NoTarget, Workspace
  <1>2. CASE req = "prepare"
    <2>1. prepare(answer)
      BY <1>2 DEF serve
    <2>2. CASE target.id # 0
      <3>1. target' = target /\ targetCount' = targetCount
        BY <2>1, <2>2 DEF prepare
      <3>2. answer \in {target.id, target.id + Redacted}
        BY <2>1, <2>2, <1>1 DEF prepare
      <3>3. target.id \in 1..48
        BY <2>2, <1>1, BoundAssumption DEF ServerTypes, Redacted, Refused
      <3>4. answer # Refused /\ answer % Redacted = target.id
        <4>1. PICK n \in 1..48 : n = target.id
          BY <3>3
        <4>2. n % 50 = n /\ (n + 50) % 50 = n
          BY Remainders
        <4>3. answer = n \/ answer = n + 50
          BY <3>2, <4>1 DEF Redacted
        <4>4. answer % 50 = n /\ answer # 99
          BY <4>2, <4>3
        <4> QED BY <4>1, <4>4 DEF Redacted, Refused
      <3> QED BY <1>1, <1>2, <2>2, <3>1, <3>4 DEF ServerTypes
    <2>3. CASE target.id = 0
      <3>1. /\ targetCount < MaxTargets /\ answer = targetCount + 1 /\ targetCount' = answer
            /\ target' = [NoTarget EXCEPT !.id = answer]
        BY <2>1, <2>3 DEF prepare
      <3>2. target' \in Workspace /\ target'.id = answer
        <4>1. answer \in Nat
          BY DEF Refused
        <4> QED BY <3>1, <4>1, FreshTarget
      <3>3. answer \in 1..48
        BY <3>1, BoundAssumption DEF ServerTypes, Redacted, Refused
      <3>4. answer # Refused /\ answer % Redacted = answer
        BY <3>3, Remainders DEF Redacted, Refused
      <3> QED BY <1>1, <1>2, <2>3, <3>1, <3>2, <3>3, <3>4, BoundAssumption DEF ServerTypes
    <2> QED BY <2>2, <2>3
  <1>3. CASE req \in {"createRoute", "deleteRoute", "ledger"}
    BY <1>1, <1>3 DEF serve, createRoute, deleteRoute, servers, ServerTypes
  <1>4. CASE req \notin {"prepare", "createRoute", "deleteRoute", "ledger"}
    <2>1. onTarget(req, arg, answer)
      BY <1>4 DEF serve
    <2>2. targetCount' = targetCount
      BY <2>1 DEF onTarget
    <2>3. CASE req = "delete"
      <3>1. target' = IF target.id = arg THEN NoTarget ELSE target
        BY <2>1, <2>3 DEF onTarget
      <3> QED BY <1>1, <2>2, <2>3, <3>1 DEF ServerTypes
    <2>4. CASE req # "delete" /\ target.id # arg
      <3>1. answer = Refused /\ target' = target
        BY <1>4, <2>1, <2>4 DEF onTarget
      <3> QED BY <1>1, <1>4, <2>2, <2>4, <3>1 DEF ServerTypes
    <2>5. CASE req = "hibernate" /\ target.id = arg
      <3>1. target' = [target EXCEPT !.hibernated = TRUE]
        BY <2>1, <2>5 DEF onTarget
      <3>2. target' \in Workspace /\ target'.id = target.id /\ target'.enriched = target.enriched
        BY <1>1, <3>1, Marked
      <3> QED BY <1>1, <2>2, <2>5, <3>2 DEF ServerTypes
    <2>6. CASE req = "resume" /\ target.id = arg
      <3>1. target' = [target EXCEPT !.hibernated = FALSE]
        BY <2>1, <2>6 DEF onTarget
      <3>2. target' \in Workspace /\ target'.id = target.id /\ target'.enriched = target.enriched
        BY <1>1, <3>1, Marked
      <3> QED BY <1>1, <2>2, <2>6, <3>2 DEF ServerTypes
    <2>7. CASE req = "enrich" /\ target.id = arg
      <3>1. target' = [target EXCEPT !.enriched = TRUE]
        BY <2>1, <2>7 DEF onTarget
      <3>2. target' \in Workspace /\ target'.id = target.id /\ target'.enriched = TRUE
        BY <1>1, <3>1, Marked
      <3> QED BY <1>1, <2>2, <2>7, <3>2 DEF ServerTypes
    <2>8. CASE req \in {"poll", "vendors", "site", "observe", "outcome"} /\ target.id = arg
      <3>1. target' = target
        BY <2>1, <2>8 DEF onTarget
      <3> QED BY <1>1, <1>4, <2>2, <2>8, <3>1 DEF ServerTypes
    <2> QED BY <1>4, <2>3, <2>4, <2>5, <2>6, <2>7, <2>8 DEF Request
  <1> QED BY <1>2, <1>3, <1>4

-----------------------------------------------------------------------------
(* The parts of the invariant, for a step that leaves their state alone.   *)

\* Who sends which request.
LEMMA Asking ==
  ASSUME NEW y, HandlerOK(y)
  PROVE  /\ y.req # "none" => y.step \in {"sent", "answered"} /\ Asked(y.op, y.req)
         /\ y.req = "prepare" => y.op = "prepare-run"
         /\ y.req = "delete" => y.op \in {"cleanup-target", "cleanup-run"}
         /\ y.req = "enrich" => y.op \in {"wait", "enrich"}
  BY DEF HandlerOK, Handler, Idle, Asked

\* A handler that a step of another actor leaves alone stays as it was.
LEMMA OtherOK ==
  ASSUME ServerTypes, ServerTypes', PreparedInv, NEW y, HandlerOK(y), RouteOK(y), TargetOK(y),
         host' = host, phase' = phase \/ y.step = "idle" \/
           (phase' # "crashed" /\ host = "engine" /\ (y.step = "lease" \/ y.req \in GatewayRequest)),
         routeCount <= routeCount', targetCount <= targetCount',
         \A r \in routes' : r <= routeCount => r \in routes,
         y.op = "cleanup-run" => gateway' = gateway,
         y.op = "prepare-run" =>
           /\ y.step = "lease" => prepared'.id = prepared.id
           /\ host = "demo" => prepared' = prepared /\ adapterPrepared' = adapterPrepared
           /\ host = "engine" /\ y.step = "answered" => target'.id = target.id,
         y.op \in {"cleanup-run", "wait", "enrich"} => adapterPrepared'.id = adapterPrepared.id,
         target'.id \in {0, target.id} \/ target'.id > targetCount,
         target'.id = target.id /\ target.id # 0 /\ target.enriched => target'.enriched
  PROVE  HandlerOK(y)' /\ RouteOK(y)' /\ TargetOK(y)'
  <1>1. HandlerOK(y)'
    BY DEF HandlerOK
  <1>2. RouteOK(y)'
    BY DEF RouteOK, HandlerOK, Handler, Asked, ServerTypes
  <1>3. TargetOK(y)'
    <2>0. /\ y.req \notin {"none", "createRoute", "deleteRoute", "ledger"} => y.step \in {"sent", "answered"}
          /\ y.req = "prepare" => y.op = "prepare-run"
          /\ y.req = "delete" => y.op \in {"cleanup-target", "cleanup-run"}
          /\ y.req = "enrich" => y.op \in {"wait", "enrich"}
          /\ y.arg \in Nat /\ y.answer \in 0..Refused
      BY Asking DEF HandlerOK, Handler
    <2>1. /\ y.op = "prepare-run" /\ y.step = "lease" => y.arg # 0 /\ prepared'.id = y.arg
          /\ y.req = "prepare" /\ host' = "demo" => prepared' = Nobody /\ adapterPrepared' = Nobody
      BY <2>0 DEF TargetOK
    <2>2. y.req = "prepare" /\ y.step = "answered" =>
             /\ y.answer # Refused
             /\ y.answer % Redacted \in 1..targetCount'
             /\ host' = "engine" => y.answer % Redacted = target'.id
      BY <2>0 DEF TargetOK, ServerTypes
    <2>3. y.req = "delete" =>
            /\ y.arg # 0 /\ y.arg <= targetCount'
            /\ y.step = "answered" => target'.id # y.arg
            /\ y.op = "cleanup-run" => y.arg = adapterPrepared'.id
      BY <2>0 DEF TargetOK, ServerTypes, Workspace
    <2>4. /\ y.op \in {"wait", "enrich"} => y.arg # 0 /\ y.arg = adapterPrepared'.id
          /\ y.op \in {"wait", "enrich"} => y.arg <= targetCount
      BY DEF TargetOK, PreparedInv
    <2>5. y.req = "enrich" /\ y.step = "answered" /\ y.answer # Refused =>
             (target'.id = y.arg => target'.enriched)
      BY <2>0, <2>4 DEF TargetOK, ServerTypes, Workspace
    <2> QED BY <2>1, <2>2, <2>3, <2>4, <2>5 DEF TargetOK
  <1> QED BY <1>1, <1>2, <1>3

LEMMA IdleOK ==
  ASSUME ServerTypes PROVE HandlerOK(Idle) /\ RouteOK(Idle) /\ TargetOK(Idle)
  BY DEF ServerTypes, HandlerOK, RouteOK, TargetOK, Idle, Handler, Op, DemoOnly, Refused

\* The lock of the demo service.
LEMMA OthersIdle ==
  ASSUME HandlersInv, LockInv, host = "demo", NEW h \in Attempt, at[h].step # "idle"
  PROVE  \A g \in Attempt \ {h} : at[g] = Idle
  <1> TAKE g \in Attempt \ {h}
  <1>1. at[g].step = "idle"
    BY DEF LockInv
  <1> QED BY <1>1 DEF HandlersInv, HandlerOK

LEMMA LockKept ==
  ASSUME HandlersInv, LockInv, host' = host, NEW h \in Attempt, at[h].step # "idle", NEW x,
         at' = [at EXCEPT ![h] = x]
  PROVE  LockInv'
  <1> SUFFICES ASSUME host = "demo", NEW g \in Attempt, NEW k \in Attempt,
                      at'[g].step # "idle", at'[k].step # "idle"
               PROVE  g = k
    BY DEF LockInv
  <1>1. \A f \in Attempt : f # h => at'[f] = at[f]
    BY DEF HandlersInv
  <1> QED BY <1>1 DEF LockInv
-----------------------------------------------------------------------------
(* The steps of the world around the handlers                              *)

LEMMA InitInv == Init => IInv
  <1> SUFFICES ASSUME Init PROVE IInv
    OBVIOUS
  <1> USE DEF Init, Nobody
  <1>1. MapTypes
    BY DEF MapTypes, Preparation
  <1>2. ServerTypes
    BY BoundAssumption DEF ServerTypes, NoTarget, Workspace
  <1>3. RecordTypes
    BY BoundAssumption DEF RecordTypes
  <1>4. HandlersInv
    BY <1>2, IdleOK DEF HandlersInv, HandlerOK
  <1>5. LockInv
    BY DEF LockInv, Idle
  <1>6. PreparedInv
    BY DEF PreparedInv, NoTarget
  <1>7. EnrichedInv /\ CleanupInv /\ AccountInv /\ CompletedIsEnriched
    BY DEF EnrichedInv, CleanupInv, AccountInv, NoTarget, CompletedIsEnriched
  <1> QED BY <1>1, <1>2, <1>3, <1>4, <1>5, <1>6, <1>7 DEF IInv

LEMMA TargetCompletesInv == IInv /\ TargetCompletes => IInv'
  <1> SUFFICES ASSUME IInv, TargetCompletes PROVE IInv'
    OBVIOUS
  <1> USE DEF IInv, integration, adapterMaps, records, ghosts
  <1>1. target' \in Workspace /\ target'.id = target.id /\ target'.enriched = target.enriched
    BY Marked DEF TargetCompletes, ServerTypes
  <1>2. MapTypes' /\ ServerTypes' /\ RecordTypes'
    BY <1>1 DEF TargetCompletes, MapTypes, ServerTypes, RecordTypes
  <1>3. \A g \in Attempt : HandlerOK(at[g])' /\ RouteOK(at[g])' /\ TargetOK(at[g])'
    <2> TAKE g \in Attempt
    <2>1. PICK y : y = at[g] /\ y = at'[g]
      BY DEF TargetCompletes
    <2>2. HandlerOK(y) /\ RouteOK(y) /\ TargetOK(y)
      BY <2>1 DEF HandlersInv
    <2>3. HandlerOK(y)' /\ RouteOK(y)' /\ TargetOK(y)'
      BY <1>1, <1>2, <2>2, OtherOK DEF TargetCompletes, ServerTypes
    <2> QED BY <2>1, <2>3
  <1>4. HandlersInv' /\ LockInv'
    BY <1>3 DEF TargetCompletes, HandlersInv, LockInv
  <1>5. PreparedInv' /\ EnrichedInv' /\ CleanupInv' /\ CompletedIsEnriched'
    BY <1>1 DEF TargetCompletes, PreparedInv, EnrichedInv, CleanupInv, CompletedIsEnriched
  <1>6. AccountInv'
    BY <1>1 DEF TargetCompletes, AccountInv, RouteKept, TargetKept
  <1> QED BY <1>2, <1>4, <1>5, <1>6

LEMMA RouteExpiresInv == ASSUME IInv, NEW r \in Route, RouteExpires(r) PROVE IInv'
  <1> USE DEF IInv, integration, adapterMaps, records, ghosts, RouteExpires
  <1>2. MapTypes' /\ ServerTypes' /\ RecordTypes'
    BY DEF MapTypes, ServerTypes, RecordTypes
  <1>3. \A g \in Attempt : HandlerOK(at[g])' /\ RouteOK(at[g])' /\ TargetOK(at[g])'
    <2> TAKE g \in Attempt
    <2>1. PICK y : y = at[g] /\ y = at'[g]
      OBVIOUS
    <2>2. HandlerOK(y) /\ RouteOK(y) /\ TargetOK(y)
      BY <2>1 DEF HandlersInv
    <2>3. HandlerOK(y)' /\ RouteOK(y)' /\ TargetOK(y)'
      BY <1>2, <2>2, OtherOK DEF ServerTypes
    <2> QED BY <2>1, <2>3
  <1>4. HandlersInv' /\ LockInv'
    BY <1>3 DEF HandlersInv, LockInv
  <1>5. PreparedInv' /\ EnrichedInv' /\ CleanupInv' /\ CompletedIsEnriched'
    BY DEF PreparedInv, EnrichedInv, CleanupInv, CompletedIsEnriched
  <1>6. AccountInv'
    BY DEF AccountInv, RouteKept, TargetKept
  <1> QED BY <1>2, <1>4, <1>5, <1>6

LEMMA FinishInv == IInv /\ (Finish \/ EndCleaning) => IInv'
  <1> SUFFICES ASSUME IInv, Finish \/ EndCleaning PROVE IInv'
    OBVIOUS
  <1> USE DEF IInv
  <1>1. UNCHANGED <<integration, adapterMaps, at, lost, servers, records, ghosts>>
    BY DEF Finish, EndCleaning
  <1> USE DEF integration, adapterMaps, servers, records, ghosts
  <1>2. MapTypes' /\ ServerTypes' /\ RecordTypes'
    BY <1>1 DEF MapTypes, ServerTypes, RecordTypes, Finish, EndCleaning
  <1>3. \A g \in Attempt : HandlerOK(at[g])' /\ RouteOK(at[g])' /\ TargetOK(at[g])'
    <2> TAKE g \in Attempt
    <2>1. PICK y : y = at[g] /\ y = at'[g]
      BY <1>1
    <2>2. HandlerOK(y) /\ RouteOK(y) /\ TargetOK(y)
      BY <2>1 DEF HandlersInv
    <2>4. y.step = "idle" \/ (host = "engine" /\ (y.step = "lease" \/ y.req \in GatewayRequest))
      BY <2>1, <2>2 DEF Finish, EndCleaning, Idle, HandlerOK
    <2>5. phase' # "crashed"
      BY DEF Finish, EndCleaning
    <2>3. HandlerOK(y)' /\ RouteOK(y)' /\ TargetOK(y)'
      BY <1>1, <1>2, <2>2, <2>4, <2>5, OtherOK DEF ServerTypes
    <2> QED BY <2>1, <2>3
  <1>4. HandlersInv' /\ LockInv'
    BY <1>1, <1>3 DEF HandlersInv, LockInv
  <1>5. EnrichedInv' /\ CleanupInv' /\ CompletedIsEnriched'
    BY <1>1 DEF EnrichedInv, CleanupInv, CompletedIsEnriched
  <1>7. PreparedInv'
    BY <1>1 DEF PreparedInv, Finish, EndCleaning
  <1>6. AccountInv'
    BY <1>1 DEF AccountInv, RouteKept, TargetKept
  <1> QED BY <1>2, <1>4, <1>5, <1>6, <1>7

\* A request that is served, whoever sent it.
LEMMA ServeInv ==
  ASSUME IInv, NEW req \in Request, NEW arg \in Nat, NEW answer \in 0..Refused,
         serve(req, arg, answer), req = "delete" => host = "demo",
         UNCHANGED <<integration, adapterMaps, records, phase, host>>, lost' \subseteq lost
  PROVE  ServerTypes' /\ MapTypes' /\ PreparedInv' /\ EnrichedInv' /\ CleanupInv' /\ CompletedIsEnriched'
  <1> USE DEF IInv, integration, adapterMaps, records
  <1>1. ServerTypes' /\ MapTypes'
    BY ServeRoutes, ServeTarget DEF ServerTypes, MapTypes
  <1>2. /\ target'.id = target.id \/ (target'.id = 0 /\ req = "delete" /\ target.id = arg)
             \/ (target.id = 0 /\ req = "prepare" /\ target'.id = targetCount + 1)
        /\ target'.id = target.id => targetCount' = targetCount
        /\ target'.id = 0 => targetCount' = targetCount
        /\ target'.id # target.id /\ target'.id # 0 => targetCount' = targetCount + 1
        /\ target'.id = target.id /\ target.id # 0 /\ target.enriched => target'.enriched
        /\ targetCount <= targetCount' /\ routeCount <= routeCount'
    BY ServeTarget, ServeRoutes
  <1>3. /\ target.id \in Nat /\ target'.id \in Nat /\ targetCount \in Nat /\ targetCount' \in Nat
        /\ target.id <= targetCount /\ routeCount \in Nat /\ routeCount' \in Nat
        /\ gateway \in Nat /\ prepared.id \in Nat /\ adapterPrepared.id \in Nat
        /\ completion \in Nat /\ completion <= targetCount
    BY <1>1 DEF ServerTypes, Workspace, MapTypes, Preparation, RecordTypes
  <1>4. PreparedInv'
    <2>1. \A l \in leases : l[1] = "target-run" => l[2] <= targetCount'
      <3>1. \A l \in leases : l[1] = "target-run" => l[2] \in Nat /\ l[2] <= targetCount
        BY DEF RecordTypes, PreparedInv, Lease, Id
      <3> QED BY <1>2, <1>3, <3>1
    <2> QED BY <1>2, <1>3, <2>1 DEF PreparedInv
  <1>5. EnrichedInv'
    BY <1>2, <1>3 DEF PreparedInv, EnrichedInv
  <1>6. CleanupInv'
    <2>1. \A i \in 1..Len(cleanups) : cleanups[i][1] = "target-run" => cleanups[i][2] \in 1..MaxTargets
      BY DEF RecordTypes, Lease, Id
    <2> QED BY <1>2, <1>3, <2>1 DEF CleanupInv
  <1>7. CompletedIsEnriched'
    BY <1>2, <1>3 DEF CompletedIsEnriched
  <1> QED BY <1>1, <1>4, <1>5, <1>6, <1>7

LEMMA ServeOthers ==
  ASSUME IInv, NEW req \in Request, NEW arg \in Nat, NEW answer \in 0..Refused,
         serve(req, arg, answer), req = "delete" => host = "demo",
         UNCHANGED <<integration, adapterMaps, records, phase, host>>, lost' \subseteq lost,
         NEW y, HandlerOK(y), RouteOK(y), TargetOK(y)
  PROVE  HandlerOK(y)' /\ RouteOK(y)' /\ TargetOK(y)'
  <1> USE DEF IInv, integration, adapterMaps, records
  <1>1. ServerTypes'
    BY ServeInv
  <1>2. /\ target'.id = target.id \/ (target'.id = 0 /\ req = "delete" /\ target.id = arg)
             \/ (target.id = 0 /\ req = "prepare" /\ target'.id = targetCount + 1)
        /\ target'.id = target.id /\ target.id # 0 /\ target.enriched => target'.enriched
        /\ targetCount <= targetCount' /\ routeCount <= routeCount'
    BY ServeTarget, ServeRoutes
  <1>3. \A r \in routes' : r <= routeCount => r \in routes
    BY ServeRoutes DEF ServerTypes
  <1>4. host = "engine" /\ y.op = "prepare-run" /\ y.step = "answered" => target.id # 0
    BY DEF HandlerOK, Asked, TargetOK, ServerTypes
  <1>5. target'.id \in {0, target.id} \/ target'.id > targetCount
    BY <1>2 DEF ServerTypes
  <1> QED BY <1>1, <1>2, <1>3, <1>4, <1>5, OtherOK

LEMMA ServeLostInv == ASSUME IInv, NEW q \in lost, ServeLost(q) PROVE IInv'
  <1> USE DEF IInv
  <1>0. PICK req \in Request, arg \in Nat : q.req = req /\ q.arg = arg
    BY DEF RecordTypes
  <1>1. PICK answer \in 0..Refused :
          /\ serve(req, arg, answer)
          /\ forgotten' = forgotten \cup
               (IF req = "createRoute" /\ answer # Refused THEN {<<"gateway-route", answer>>}
                ELSE IF req = "prepare" /\ target.id = 0 THEN {<<"target-run", answer>>} ELSE {})
    BY <1>0 DEF ServeLost
  <1>2. /\ req = "delete" => host = "demo"
        /\ UNCHANGED <<integration, adapterMaps, records, phase, host, at, starts, troubles>>
        /\ lost' \subseteq lost
    BY <1>0 DEF ServeLost, PreparedInv, RecordTypes
  <1>3. ServerTypes' /\ MapTypes' /\ PreparedInv' /\ EnrichedInv' /\ CleanupInv' /\ CompletedIsEnriched'
    BY <1>1, <1>2, ServeInv
  <1>4. \A g \in Attempt : HandlerOK(at[g])' /\ RouteOK(at[g])' /\ TargetOK(at[g])'
    <2> TAKE g \in Attempt
    <2>1. PICK y : y = at[g] /\ y = at'[g]
      BY <1>2
    <2>2. HandlerOK(y) /\ RouteOK(y) /\ TargetOK(y)
      BY <2>1 DEF HandlersInv
    <2>3. HandlerOK(y)' /\ RouteOK(y)' /\ TargetOK(y)'
      BY <1>1, <1>2, <2>2, ServeOthers
    <2> QED BY <2>1, <2>3
  <1>5. HandlersInv' /\ LockInv'
    BY <1>2, <1>4 DEF HandlersInv, LockInv
  <1>6. RecordTypes'
    <2>1. forgotten' \subseteq Lease
      <3>1. req = "createRoute" /\ answer # Refused => answer \in Route
        BY <1>1, ServeRoutes, BoundAssumption DEF Route, Refused
      <3>2. req = "prepare" /\ target.id = 0 => answer \in Id
        <4>1. ASSUME req = "prepare", target.id = 0
              PROVE  answer = targetCount + 1 /\ targetCount < MaxTargets
          BY <1>1, <4>1 DEF serve, prepare
        <4> QED BY <4>1, BoundAssumption DEF Id, ServerTypes
      <3> QED BY <1>1, <3>1, <3>2 DEF RecordTypes, Lease
    <2>2. targetCount <= targetCount' /\ targetCount \in Nat /\ targetCount' \in Nat
      BY <1>1, ServeTarget DEF ServerTypes
    <2> QED BY <1>2, <2>1, <2>2 DEF RecordTypes, records
  <1>7. AccountInv'
    <2> USE DEF integration, records
    <2>1. ASSUME NEW r \in routes' PROVE RouteKept(r)'
      <3>1. CASE r \in routes
        BY <1>1, <1>2, <3>1 DEF AccountInv, RouteKept
      <3>2. CASE r \notin routes
        <4>1. req = "createRoute" /\ answer = r /\ r = routeCount + 1 /\ r <= routeCount'
              /\ routeCount' <= MaxRoutes /\ routeCount \in Nat /\ routeCount' \in Nat
          BY <1>1, <3>2, ServeRoutes DEF ServerTypes
        <4>2. answer # Refused
          BY <4>1, BoundAssumption DEF Refused
        <4> QED BY <1>1, <4>1, <4>2 DEF RouteKept
      <3> QED BY <3>1, <3>2
    <2>2. ASSUME target'.id # 0 PROVE TargetKept(target.id)'
      <3>1. CASE target'.id = target.id
        BY <1>1, <1>2, <2>2, <3>1 DEF AccountInv, TargetKept
      <3>2. CASE target'.id # target.id
        <4>1. req = "prepare" /\ target.id = 0 /\ target'.id = targetCount + 1
          BY <1>1, <2>2, <3>2, ServeTarget
        <4>2. answer = targetCount + 1
          BY <1>1, <4>1 DEF serve, prepare
        <4> QED BY <1>1, <4>1, <4>2 DEF TargetKept
      <3> QED BY <3>1, <3>2
    <2> QED BY <2>1, <2>2 DEF AccountInv
  <1> QED BY <1>3, <1>5, <1>6, <1>7

LEMMA ServeInvH == ASSUME IInv, NEW h \in Attempt, Serve(h) PROVE IInv'
  <1> USE DEF IInv
  <1>0. PICK y : y = at[h] /\ HandlerOK(y) /\ RouteOK(y) /\ TargetOK(y) /\ y \in Handler /\ y.step = "sent"
    BY DEF Serve, HandlersInv
  <1>1. PICK req \in Request, arg \in Nat : y.req = req /\ y.arg = arg /\ Asked(y.op, req)
    BY <1>0 DEF HandlerOK, Handler, Asked, Request
  <1>2. PICK answer \in 0..Refused :
          /\ serve(req, arg, answer)
          /\ at' = [at EXCEPT ![h].step = "answered", ![h].answer = answer]
    BY <1>0, <1>1 DEF Serve
  <1> DEFINE x == [y EXCEPT !.step = "answered", !.answer = answer]
  <1>3. at' = [at EXCEPT ![h] = x]
    BY <1>0, <1>2 DEF HandlersInv
  <1>4. /\ req = "delete" => host = "demo"
        /\ UNCHANGED <<integration, adapterMaps, records, phase, host, lost, starts, troubles, forgotten>>
        /\ lost' \subseteq lost
    BY <1>0, <1>1 DEF Serve, ghosts, HandlerOK, DemoOnly, Asked
  <1>5. ServerTypes' /\ MapTypes' /\ PreparedInv' /\ EnrichedInv' /\ CleanupInv' /\ CompletedIsEnriched'
    BY <1>2, <1>4, ServeInv
  <1>6. x \in Handler /\ x.op = y.op /\ x.req = req /\ x.arg = arg /\ x.step = "answered"
        /\ x.answer = answer /\ x.held = y.held
    BY <1>0, <1>1 DEF Handler
  <1> HIDE DEF x
  <1>7. HandlerOK(x)' /\ RouteOK(x)' /\ TargetOK(x)'
    <2>1. HandlerOK(x)'
      BY <1>0, <1>1, <1>4, <1>6 DEF HandlerOK
    <2>2. RouteOK(x)'
      BY <1>0, <1>1, <1>2, <1>4, <1>5, <1>6, ServeRoutes DEF RouteOK, integration, Handler, ServerTypes
    <2>3. TargetOK(x)'
      <3>1. targetCount <= targetCount' /\ target'.id \in Nat /\ target'.id <= targetCount'
            /\ targetCount \in Nat /\ targetCount' \in Nat
        BY <1>2, <1>5, ServeTarget DEF ServerTypes, Workspace
      <3>2. req = "prepare" => /\ answer # Refused /\ target'.id # 0
                               /\ answer % Redacted = target'.id
        BY <1>2, ServeTarget
      <3>3. /\ req = "delete" /\ arg # 0 => target'.id # arg
            /\ req = "enrich" /\ answer # Refused => target'.enriched
        BY <1>2, ServeTarget
      <3> QED BY <1>0, <1>1, <1>4, <1>6, <3>1, <3>2, <3>3
              DEF TargetOK, integration, adapterMaps
    <2> QED BY <2>1, <2>2, <2>3
  <1>8. HandlersInv'
    <2>1. ASSUME NEW g \in Attempt, g # h PROVE HandlerOK(at[g])' /\ RouteOK(at[g])' /\ TargetOK(at[g])'
      <3>1. PICK z : z = at[g] /\ z = at'[g]
        BY <1>3, <2>1 DEF HandlersInv
      <3>2. HandlerOK(z) /\ RouteOK(z) /\ TargetOK(z)
        BY <3>1 DEF HandlersInv
      <3>3. HandlerOK(z)' /\ RouteOK(z)' /\ TargetOK(z)'
        BY <1>2, <1>4, <3>2, ServeOthers
      <3> QED BY <3>1, <3>3
    <2>2. at'[h] = x /\ at' \in [Attempt -> Handler]
      BY <1>3, <1>6 DEF HandlersInv
    <2> QED BY <1>7, <2>1, <2>2 DEF HandlersInv
  <1>9. LockInv'
    BY <1>0, <1>3, <1>4, LockKept
  <1>10. RecordTypes'
    <2>2. targetCount <= targetCount' /\ targetCount \in Nat /\ targetCount' \in Nat
      BY <1>2, ServeTarget DEF ServerTypes
    <2> QED BY <1>4, <2>2 DEF RecordTypes, records
  <1>11. AccountInv'
    <2> USE DEF integration, records
    <2>0. at'[h] = x /\ \A g \in Attempt : g # h => at'[g] = at[g]
      BY <1>3 DEF HandlersInv
    <2>1. ASSUME NEW r \in routes' PROVE RouteKept(r)'
      <3>1. CASE r \in routes
        <4>1. RouteKept(r)
          BY <3>1 DEF AccountInv
        <4>2. HasRoute(at[h], r) => HasRoute(at'[h], r)
          BY <1>0, <1>1, <1>6, <2>0 DEF HasRoute
        <4> QED BY <1>4, <2>0, <4>1, <4>2 DEF RouteKept
      <3>2. CASE r \notin routes
        <4>1. req = "createRoute" /\ answer = r /\ r = routeCount + 1 /\ r <= routeCount'
              /\ routeCount' <= MaxRoutes /\ routeCount \in Nat /\ routeCount' \in Nat
          BY <1>2, <3>2, ServeRoutes DEF ServerTypes
        <4>2. answer # Refused
          BY <4>1, BoundAssumption DEF Refused
        <4>3. HasRoute(at'[h], r)
          BY <1>6, <2>0, <4>1, <4>2 DEF HasRoute
        <4> QED BY <4>3 DEF RouteKept
      <3> QED BY <3>1, <3>2
    <2>2. ASSUME target'.id # 0 PROVE TargetKept(target.id)'
      <3>1. CASE target'.id = target.id
        <4>1. TargetKept(target.id)
          BY <2>2, <3>1 DEF AccountInv
        <4>2. ~HasTarget(at[h], target.id)
          BY <1>0 DEF HasTarget
        <4> QED BY <1>4, <2>0, <3>1, <4>1, <4>2 DEF TargetKept
      <3>2. CASE target'.id # target.id
        <4>1. req = "prepare" /\ answer % Redacted = target'.id
          BY <1>2, <2>2, <3>2, ServeTarget
        <4>3. HasTarget(at'[h], target'.id)
          BY <1>6, <2>0, <4>1 DEF HasTarget
        <4> QED BY <4>3 DEF TargetKept
      <3> QED BY <3>1, <3>2
    <2> QED BY <2>1, <2>2 DEF AccountInv
  <1> QED BY <1>5, <1>8, <1>9, <1>10, <1>11

-----------------------------------------------------------------------------
(* The cleaners                                                            *)

LEMMA FrontLast ==
  ASSUME NEW s \in Seq(Lease), s # <<>>
  PROVE  /\ Front(s) \in Seq(Lease) /\ Len(Front(s)) = Len(s) - 1
         /\ \A i \in 1..Len(Front(s)) : i \in 1..Len(s) /\ Front(s)[i] = s[i]
         /\ Len(s) \in 1..Len(s) /\ Last(s) = s[Len(s)] /\ Last(s) \in Lease
  <1>1. Len(s) \in Nat /\ Len(s) # 0
    OBVIOUS
  <1>2. /\ SubSeq(s, 1, Len(s) - 1) \in Seq(Lease) /\ Len(SubSeq(s, 1, Len(s) - 1)) = Len(s) - 1
        /\ \A i \in 1..(Len(s) - 1) : SubSeq(s, 1, Len(s) - 1)[i] = s[i]
    <2>1. PICK n \in Nat : n = Len(s) - 1
      BY <1>1
    <2>2. \A i \in 1..n : s[i] \in Lease
      BY <2>1
    <2>3. /\ SubSeq(s, 1, n) \in Seq(Lease)
          /\ Len(SubSeq(s, 1, n)) = IF 1 <= n THEN n - 1 + 1 ELSE 0
          /\ \A i \in 1..(n - 1 + 1) : SubSeq(s, 1, n)[i] = s[1 + i - 1]
      BY <2>2, SubSeqProperties
    <2> QED BY <2>1, <2>3
  <1> QED BY <1>1, <1>2 DEF Front, Last

\* After the run, what a cleaner does leaves the handlers alone.
LEMMA CleanerHandlers ==
  ASSUME IInv, ServerTypes', phase # "running", UNCHANGED <<integration, at, routeCount, targetCount, host, phase>>,
         routes' \subseteq routes, target' \in {target, NoTarget}
  PROVE  HandlersInv' /\ LockInv'
  <1> USE DEF IInv, integration
  <1>1. ASSUME NEW g \in Attempt PROVE HandlerOK(at[g])' /\ RouteOK(at[g])' /\ TargetOK(at[g])'
    <2>1. PICK y : y = at[g] /\ y = at'[g]
      OBVIOUS
    <2>2. HandlerOK(y) /\ RouteOK(y) /\ TargetOK(y)
      BY <2>1 DEF HandlersInv
    <2>3. y.op \notin {"cleanup-run", "wait", "enrich"} /\ (y.op = "prepare-run" => y.step = "lease" /\ host = "engine")
      BY <2>2 DEF HandlerOK, Idle, Asked, GatewayRequest, DemoOnly, Handler
    <2>4. NoTarget.id = 0 /\ target.id \in Nat /\ targetCount \in Nat /\ routeCount \in Nat
      BY DEF NoTarget, ServerTypes, Workspace
    <2>5. HandlerOK(y)' /\ RouteOK(y)' /\ TargetOK(y)'
      BY <2>2, <2>3, <2>4, OtherOK
    <2> QED BY <2>1, <2>5
  <1> QED BY <1>1 DEF HandlersInv, LockInv

LEMMA CleanInv == IInv /\ Clean => IInv'
  <1> SUFFICES ASSUME IInv, Clean PROVE IInv'
    OBVIOUS
  <1> USE DEF IInv
  <1>0. PICK s \in Seq(Lease) : s = cleanups
    BY DEF RecordTypes
  <1>1. PICK lease \in Lease : lease = Last(cleanups)
    BY <1>0, FrontLast DEF Clean
  <1>2. /\ phase = "cleaning" /\ cleanups # <<>> /\ cleanups' = Front(s) /\ host = "engine"
        /\ UNCHANGED <<integration, at, lost, routeCount, targetCount, completion, phase>>
    BY <1>0 DEF Clean, CleanupInv
  <1>3. /\ cleanups' \in Seq(Lease) /\ Len(cleanups') = Len(cleanups) - 1
        /\ \A i \in 1..Len(cleanups') : i \in 1..Len(cleanups) /\ cleanups'[i] = cleanups[i]
        /\ Len(cleanups) \in 1..Len(cleanups) /\ lease = cleanups[Len(cleanups)]
    BY <1>0, <1>1, <1>2, FrontLast
  <1>4. /\ NoTarget \in Workspace /\ NoTarget.id = 0 /\ Nobody \in Preparation /\ Nobody.id = 0
        /\ target.id \in Nat /\ adapterPrepared.id \in Nat
        /\ \A i \in 1..Len(cleanups) : cleanups[i][1] = "target-run" => cleanups[i][2] # 0
    BY DEF NoTarget, Workspace, Nobody, Preparation, ServerTypes, MapTypes, RecordTypes, Lease, Id
  <1>5. CASE lease[1] = "target-run" /\ cleanupRun(lease) /\ UNCHANGED <<routes, ghosts>>
    <2>1. /\ adapterPrepared' = Nobody /\ adapterObservation' = FALSE /\ enrichmentTriggered' = FALSE
          /\ target' = IF adapterPrepared # Nobody /\ target.id = adapterPrepared.id THEN NoTarget ELSE target
          /\ leases' = leases \ {lease}
          /\ UNCHANGED <<routes, ghosts>>
      BY <1>5 DEF cleanupRun, purge
    <2>2. lease[2] # 0 /\ (target.id = lease[2] => adapterPrepared.id = lease[2])
      BY <1>3, <1>4, <1>5 DEF CleanupInv
    <2>3. target' \in {target, NoTarget} /\ (target'.id # 0 => target' = target /\ target.id # adapterPrepared.id)
      BY <1>4, <2>1
    <2>4. MapTypes' /\ ServerTypes'
      <3>1. MapTypes'
        BY <1>2, <1>4, <2>1 DEF MapTypes, integration
      <3>2. target' \in Workspace /\ target'.id <= targetCount
        BY <1>4, <2>3 DEF ServerTypes
      <3> QED BY <1>2, <2>1, <3>1, <3>2 DEF ServerTypes
    <2>5. RecordTypes'
      BY <1>2, <1>3, <2>1 DEF RecordTypes, ghosts
    <2>6. HandlersInv' /\ LockInv'
      BY <1>2, <2>1, <2>3, <2>4, CleanerHandlers DEF ghosts
    <2>7. PreparedInv'
      <3>1. targetLeaseRegistered => <<"target-run", prepared.id>> \in leases' \/ target'.id # prepared.id
        <4> SUFFICES ASSUME targetLeaseRegistered, <<"target-run", prepared.id>> \notin leases', target'.id = prepared.id
                     PROVE  FALSE
          OBVIOUS
        <4>1. prepared.id # 0
          BY DEF PreparedInv
        <4>2. target' = target /\ target.id # adapterPrepared.id
          BY <2>3, <4>1
        <4>3. <<"target-run", prepared.id>> \in leases
          BY <4>2 DEF PreparedInv
        <4>4. lease = <<"target-run", prepared.id>>
          BY <2>1, <4>3
        <4> QED BY <2>2, <4>2, <4>4
      <3>2. /\ adapterPrepared'.id = 0 /\ phase' = "cleaning" /\ targetLeaseRegistered' = targetLeaseRegistered
            /\ prepared' = prepared /\ lost' = lost /\ gateway' = gateway /\ targetCount' = targetCount
            /\ routeCount' = routeCount /\ host' = host
        BY <1>2, <1>4, <2>1 DEF integration, ghosts
      <3>3. targetCount \in Nat
        BY DEF ServerTypes
      <3> QED BY <2>1, <3>1, <3>2, <3>3 DEF PreparedInv
    <2>8. EnrichedInv' /\ CompletedIsEnriched'
      BY <1>2, <1>4, <2>1, <2>3 DEF EnrichedInv, CompletedIsEnriched
    <2>9. CleanupInv'
      BY <1>2, <1>3, <1>4, <2>1, <2>3 DEF CleanupInv, ghosts
    <2>10. AccountInv'
      <3>1. ASSUME NEW r \in routes' PROVE RouteKept(r)'
        <4>1. RouteKept(r)
          BY <2>1 DEF AccountInv
        <4>2. <<"gateway-route", r>> # lease
          BY <1>5
        <4> QED BY <1>2, <2>1, <4>1, <4>2 DEF RouteKept, integration, ghosts
      <3>2. ASSUME target'.id # 0 PROVE TargetKept(target.id)'
        <4>1. TargetKept(target.id) /\ target' = target /\ target.id # adapterPrepared.id
          BY <2>3, <3>2 DEF AccountInv
        <4>2. <<"target-run", target.id>> # lease
          BY <2>2, <4>1
        <4> QED BY <1>2, <2>1, <4>1, <4>2 DEF TargetKept, integration, ghosts
      <3> QED BY <3>1, <3>2 DEF AccountInv
    <2> QED BY <2>4, <2>5, <2>6, <2>7, <2>8, <2>9, <2>10
  <1>6. CASE /\ lease[1] = "gateway-route" /\ routes' = routes \ {lease[2]}
             /\ leases' = leases \ {lease} /\ UNCHANGED <<adapterMaps, target, ghosts>>
    <2>4. MapTypes' /\ ServerTypes' /\ RecordTypes'
      BY <1>2, <1>3, <1>6 DEF MapTypes, ServerTypes, RecordTypes, integration, adapterMaps, ghosts
    <2>6. HandlersInv' /\ LockInv'
      BY <1>2, <1>6, <2>4, CleanerHandlers DEF ghosts
    <2>7. PreparedInv'
      <3>1. <<"target-run", prepared.id>> # lease
        BY <1>6
      <3> QED BY <1>2, <1>6, <3>1 DEF PreparedInv, integration, adapterMaps, ghosts
    <2>8. EnrichedInv' /\ CompletedIsEnriched' /\ CleanupInv'
      BY <1>2, <1>3, <1>6 DEF EnrichedInv, CompletedIsEnriched, CleanupInv, adapterMaps, ghosts
    <2>10. AccountInv'
      <3>1. ASSUME NEW r \in routes' PROVE RouteKept(r)'
        <4>1. RouteKept(r) /\ <<"gateway-route", r>> # lease
          BY <1>6 DEF AccountInv
        <4> QED BY <1>2, <1>6, <4>1 DEF RouteKept, integration, ghosts
      <3>2. ASSUME target'.id # 0 PROVE TargetKept(target.id)'
        <4>1. TargetKept(target.id) /\ <<"target-run", target.id>> # lease
          BY <1>6, <3>2 DEF AccountInv
        <4> QED BY <1>2, <1>6, <4>1 DEF TargetKept, integration, ghosts
      <3> QED BY <3>1, <3>2 DEF AccountInv
    <2> QED BY <2>4, <2>6, <2>7, <2>8, <2>10
  <1>7. CASE Trouble /\ UNCHANGED <<adapterMaps, routes, target, leases, host, starts, forgotten>>
    <2>4. MapTypes' /\ ServerTypes' /\ RecordTypes'
      BY <1>2, <1>3, <1>7, BoundAssumption DEF MapTypes, ServerTypes, RecordTypes, integration, adapterMaps, Trouble
    <2>6. HandlersInv' /\ LockInv'
      BY <1>2, <1>7, <2>4, CleanerHandlers
    <2>7. PreparedInv' /\ EnrichedInv' /\ CompletedIsEnriched' /\ CleanupInv'
      BY <1>2, <1>3, <1>7 DEF PreparedInv, EnrichedInv, CompletedIsEnriched, CleanupInv, adapterMaps, integration
    <2>10. AccountInv'
      BY <1>2, <1>7 DEF AccountInv, RouteKept, TargetKept, integration
    <2> QED BY <2>4, <2>6, <2>7, <2>10
  <1> QED BY <1>1, <1>5, <1>6, <1>7 DEF Clean

LEMMA RecoverInv == ASSUME IInv, NEW lease \in leases, Recover(lease) PROVE IInv'
  <1> USE DEF IInv
  <1>1. /\ phase \in {"over", "crashed"} /\ leases' = leases \ {lease} /\ lease \in Lease
        /\ UNCHANGED <<integration, at, lost, routeCount, targetCount, cleanups, completion, phase, ghosts>>
    BY DEF Recover, RecordTypes
  <1>4. /\ NoTarget \in Workspace /\ NoTarget.id = 0 /\ Nobody \in Preparation /\ Nobody.id = 0
        /\ target.id \in Nat /\ adapterPrepared.id \in Nat /\ targetCount \in Nat
        /\ target \in Workspace /\ target.id <= targetCount
    BY DEF NoTarget, Workspace, Nobody, Preparation, ServerTypes, MapTypes
  <1>5. CASE lease[1] = "gateway-route"
    <2>1. routes' = routes \ {lease[2]} /\ UNCHANGED <<adapterMaps, target>>
      BY <1>5 DEF Recover
    <2>4. MapTypes' /\ ServerTypes' /\ RecordTypes'
      BY <1>1, <2>1 DEF MapTypes, ServerTypes, RecordTypes, integration, adapterMaps, ghosts
    <2>6. HandlersInv' /\ LockInv'
      BY <1>1, <2>1, <2>4, CleanerHandlers DEF ghosts
    <2>7. PreparedInv'
      <3>1. <<"target-run", prepared.id>> # lease
        BY <1>5
      <3> QED BY <1>1, <2>1, <3>1 DEF PreparedInv, integration, adapterMaps, ghosts
    <2>8. EnrichedInv' /\ CompletedIsEnriched' /\ CleanupInv'
      BY <1>1, <2>1 DEF EnrichedInv, CompletedIsEnriched, CleanupInv, adapterMaps, ghosts
    <2>10. AccountInv'
      <3>1. ASSUME NEW r \in routes' PROVE RouteKept(r)'
        <4>1. RouteKept(r) /\ <<"gateway-route", r>> # lease
          BY <2>1 DEF AccountInv
        <4> QED BY <1>1, <2>1, <4>1 DEF RouteKept, integration, ghosts
      <3>2. ASSUME target'.id # 0 PROVE TargetKept(target.id)'
        <4>1. TargetKept(target.id) /\ <<"target-run", target.id>> # lease
          BY <1>5, <2>1, <3>2 DEF AccountInv
        <4> QED BY <1>1, <2>1, <4>1 DEF TargetKept, integration, ghosts
      <3> QED BY <3>1, <3>2 DEF AccountInv
    <2> QED BY <2>4, <2>6, <2>7, <2>8, <2>10
  <1>6. CASE lease[1] # "gateway-route"
    <2>1. /\ target' = IF target.id = lease[2] THEN NoTarget ELSE target
          /\ purge(lease[2]) /\ UNCHANGED routes
      BY <1>6 DEF Recover
    <2>2. lease = <<"target-run", lease[2]>> /\ lease[2] # 0
      BY <1>1, <1>6 DEF Lease, Id
    <2>3. target' \in {target, NoTarget} /\ (target'.id # 0 => target' = target /\ target.id # lease[2])
      BY <1>4, <2>1
    <2>4. \/ /\ adapterPrepared.id = lease[2] /\ adapterPrepared' = Nobody
             /\ adapterObservation' = FALSE /\ enrichmentTriggered' = FALSE
          \/ adapterPrepared.id # lease[2] /\ UNCHANGED adapterMaps
      BY <2>1 DEF purge
    <2>5. adapterPrepared' \in Preparation /\ (adapterPrepared' = adapterPrepared \/ adapterPrepared' = Nobody)
          /\ adapterObservation' \in BOOLEAN /\ enrichmentTriggered' \in BOOLEAN
      BY <1>4, <2>4 DEF MapTypes, adapterMaps
    <2>6. MapTypes' /\ ServerTypes'
      <3>1. MapTypes'
        BY <1>1, <2>5 DEF MapTypes, integration
      <3>2. target' \in Workspace /\ target'.id <= targetCount
        BY <1>4, <2>3 DEF ServerTypes
      <3> QED BY <1>1, <2>1, <3>1, <3>2 DEF ServerTypes
    <2>7. RecordTypes'
      BY <1>1 DEF RecordTypes, ghosts
    <2>8. HandlersInv' /\ LockInv'
      BY <1>1, <2>1, <2>3, <2>6, CleanerHandlers DEF ghosts
    <2>9. PreparedInv'
      <3>1. targetLeaseRegistered => <<"target-run", prepared.id>> \in leases' \/ target'.id # prepared.id
        <4> SUFFICES ASSUME targetLeaseRegistered, <<"target-run", prepared.id>> \notin leases', target'.id = prepared.id
                     PROVE  FALSE
          OBVIOUS
        <4>1. prepared.id # 0
          BY DEF PreparedInv
        <4>2. target' = target /\ target.id # lease[2]
          BY <2>3, <4>1
        <4>3. <<"target-run", prepared.id>> \in leases
          BY <4>2 DEF PreparedInv
        <4>4. lease = <<"target-run", prepared.id>>
          BY <1>1, <4>3
        <4> QED BY <4>2, <4>4
      <3>2. /\ phase' = phase /\ targetLeaseRegistered' = targetLeaseRegistered
            /\ prepared' = prepared /\ lost' = lost /\ gateway' = gateway /\ targetCount' = targetCount
            /\ routeCount' = routeCount /\ host' = host
        BY <1>1 DEF integration, ghosts
      <3> QED BY <1>1, <1>4, <2>5, <3>1, <3>2 DEF PreparedInv
    <2>10. EnrichedInv' /\ CompletedIsEnriched'
      <3>1. EnrichedInv'
        BY <1>4, <2>3, <2>4 DEF EnrichedInv, adapterMaps
      <3> QED BY <1>1, <1>4, <2>3, <3>1 DEF CompletedIsEnriched
    <2>11. CleanupInv'
      <3>1. \A i \in 1..Len(cleanups) : cleanups[i][1] = "target-run" => cleanups[i][2] # 0
        BY DEF RecordTypes, Lease, Id
      <3> QED BY <1>1, <1>4, <2>3, <2>4, <3>1 DEF CleanupInv, ghosts, adapterMaps
    <2>12. AccountInv'
      <3>1. ASSUME NEW r \in routes' PROVE RouteKept(r)'
        <4>1. RouteKept(r) /\ <<"gateway-route", r>> # lease
          BY <1>6, <2>1 DEF AccountInv
        <4> QED BY <1>1, <2>1, <4>1 DEF RouteKept, integration, ghosts
      <3>2. ASSUME target'.id # 0 PROVE TargetKept(target.id)'
        <4>1. TargetKept(target.id) /\ target' = target /\ <<"target-run", target.id>> # lease
          BY <2>3, <3>2 DEF AccountInv
        <4> QED BY <1>1, <2>1, <4>1 DEF TargetKept, integration, ghosts
      <3> QED BY <3>1, <3>2 DEF AccountInv
    <2> QED BY <2>6, <2>7, <2>8, <2>9, <2>10, <2>11, <2>12
  <1> QED BY <1>5, <1>6
-----------------------------------------------------------------------------
(* Faults                                                                  *)

LEMMA HeldLease == ASSUME IInv PROVE held \subseteq Lease
  <1> USE DEF IInv
  <1>1. /\ gateway \in Nat /\ gateway <= routeCount /\ routeCount \in Nat /\ routeCount <= MaxRoutes
        /\ prepared.id \in Nat /\ prepared.id <= targetCount /\ targetCount \in Nat /\ targetCount <= MaxTargets
        /\ prepared.id = 0 => prepared = Nobody
    BY DEF PreparedInv, MapTypes, Preparation, ServerTypes
  <1> QED BY <1>1, BoundAssumption DEF held, Lease, Route, Id

LEMMA HandLease == ASSUME IInv, NEW h \in Attempt PROVE inHand(h) \subseteq Lease
  <1> USE DEF IInv
  <1>1. /\ routeCount \in Nat /\ routeCount <= MaxRoutes /\ targetCount \in Nat /\ targetCount <= MaxTargets
        /\ prepared.id \in Nat /\ prepared.id <= targetCount
    BY DEF PreparedInv, MapTypes, Preparation, ServerTypes
  <1>2. HandlerOK(at[h]) /\ RouteOK(at[h]) /\ TargetOK(at[h])
    BY DEF HandlersInv
  <1>3. 1..routeCount \subseteq Route /\ 1..targetCount \subseteq Id
    BY <1>1, BoundAssumption DEF Route, Id
  <1>4. CASE at[h].step = "answered" /\ at[h].req = "createRoute" /\ at[h].answer # Refused
    BY <1>2, <1>3, <1>4 DEF inHand, RouteOK, Lease
  <1>5. CASE at[h].step = "answered" /\ at[h].req = "prepare"
    BY <1>2, <1>3, <1>5 DEF inHand, TargetOK, Lease
  <1>6. CASE at[h].step = "lease" /\ at[h].op = "prepare-run"
    <2>1. at[h].arg \in 1..targetCount
      BY <1>1, <1>2, <1>6 DEF TargetOK
    <2>2. inHand(h) = {<<"target-run", at[h].arg>>}
      BY <1>2, <1>6 DEF inHand, HandlerOK
    <2> QED BY <1>3, <2>1, <2>2 DEF Lease
  <1>7. CASE at[h].step = "lease" /\ at[h].op # "prepare-run"
    BY <1>2, <1>3, <1>7 DEF inHand, RouteOK, Lease
  <1>8. CASE at[h].step # "lease" /\ at[h].req = "deleteRoute"
    BY <1>2, <1>3, <1>8 DEF inHand, RouteOK, Lease
  <1> QED BY <1>4, <1>5, <1>6, <1>7, <1>8 DEF inHand

LEMMA CrashInv == IInv /\ Crash => IInv'
  <1> SUFFICES ASSUME IInv, Crash PROVE IInv'
    OBVIOUS
  <1> USE DEF IInv
  <1>1. /\ troubles < MaxTroubles /\ troubles' = troubles + 1 /\ phase' = "crashed"
        /\ at' = [h \in Attempt |-> Idle] /\ cleanups' = <<>>
        /\ gateway' = 0 /\ gatewayLeaseRegistered' = FALSE
        /\ prepared' = Nobody /\ targetLeaseRegistered' = FALSE /\ observation' = FALSE
        /\ adapterPrepared' = Nobody /\ adapterObservation' = FALSE /\ enrichmentTriggered' = FALSE
        /\ UNCHANGED <<routes, routeCount, target, targetCount, leases, completion, host, starts>>
    BY DEF Crash, Trouble, forgetRun, servers
  <1>2. forgotten' = forgotten \cup ((held \cup UNION {inHand(h) : h \in Attempt}) \ leases)
    BY DEF Crash
  <1>3. lost' \subseteq [req : Request, arg : Nat] /\ (host = "engine" => \A q \in lost' : q.req # "delete")
    <2>1. ASSUME NEW q \in lost' PROVE q \in [req : Request, arg : Nat] /\ (host = "engine" => q.req # "delete")
      <3>1. CASE q \in lost
        BY <3>1 DEF RecordTypes, PreparedInv
      <3>2. CASE q \notin lost
        <4>1. PICK g \in Attempt : at[g].step = "sent" /\ q = [req |-> at[g].req, arg |-> at[g].arg]
          BY <3>2 DEF Crash
        <4>2. HandlerOK(at[g]) /\ Asked(at[g].op, at[g].req)
          BY <4>1 DEF HandlersInv, HandlerOK
        <4>3. at[g].req \in Request /\ at[g].arg \in Nat /\ (at[g].req = "delete" => host = "demo")
          BY <4>2 DEF HandlerOK, Handler, Asked, Request, DemoOnly
        <4> QED BY <4>1, <4>3
      <3> QED BY <3>1, <3>2
    <2> QED BY <2>1
  <1>4. Nobody \in Preparation /\ Nobody.id = 0
    BY DEF Nobody, Preparation
  <1>5. MapTypes' /\ ServerTypes'
    BY <1>1, <1>4 DEF MapTypes, ServerTypes
  <1>6. RecordTypes'
    <2>1. forgotten' \subseteq Lease
      BY <1>2, HeldLease, HandLease DEF RecordTypes
    <2>2. cleanups' \in Seq(Lease)
      BY <1>1
    <2> QED BY <1>1, <1>3, <2>1, <2>2, BoundAssumption DEF RecordTypes
  <1>7. HandlersInv'
    <2>1. Idle \in Handler /\ HandlerOK(Idle)' /\ RouteOK(Idle)' /\ TargetOK(Idle)'
      <3>1. Idle \in Handler
        BY DEF Idle, Handler, Op, Refused
      <3>2. HandlerOK(Idle)' /\ RouteOK(Idle)' /\ TargetOK(Idle)'
        BY <1>5, <3>1 DEF HandlerOK, RouteOK, TargetOK, Idle, DemoOnly, ServerTypes
      <3> QED BY <3>1, <3>2
    <2> QED BY <1>1, <2>1 DEF HandlersInv
  <1>8. LockInv'
    BY <1>1 DEF LockInv, Idle
  <1>9. PreparedInv'
    BY <1>1, <1>3, <1>4 DEF PreparedInv, ServerTypes
  <1>10. EnrichedInv' /\ CleanupInv' /\ CompletedIsEnriched'
    BY <1>1 DEF EnrichedInv, CleanupInv, CompletedIsEnriched
  <1>11. AccountInv'
    <2>1. ASSUME NEW r \in routes PROVE <<"gateway-route", r>> \in leases \/ <<"gateway-route", r>> \in forgotten'
      <3>1. RouteKept(r) /\ r # 0
        BY DEF AccountInv, ServerTypes
      <3>2. ASSUME NEW h \in Attempt, HasRoute(at[h], r) PROVE <<"gateway-route", r>> \in inHand(h)
        BY <3>2, HandRoute DEF HandlersInv
      <3> QED BY <1>2, <3>1, <3>2, HeldFacts DEF RouteKept
    <2>2. ASSUME target.id # 0
          PROVE <<"target-run", target.id>> \in leases \/ <<"target-run", target.id>> \in forgotten'
      <3>1. TargetKept(target.id)
        BY <2>2 DEF AccountInv
      <3>2. ASSUME NEW h \in Attempt, HasTarget(at[h], target.id) PROVE <<"target-run", target.id>> \in inHand(h)
        BY <3>2, HandTarget DEF HandlersInv
      <3> QED BY <1>2, <2>2, <3>1, <3>2, HeldFacts DEF TargetKept
    <2> QED BY <1>1, <2>1, <2>2 DEF AccountInv, RouteKept, TargetKept
  <1> QED BY <1>5, <1>6, <1>7, <1>8, <1>9, <1>10, <1>11

\* A step of h that touches only its own record, and what may be forgotten.
LEMMA OwnStep ==
  ASSUME IInv, NEW h \in Attempt, NEW x \in Handler, at' = [at EXCEPT ![h] = x],
         UNCHANGED <<integration, adapterMaps, servers, phase, host>>,
         HandlerOK(x)', RouteOK(x)', TargetOK(x)'
  PROVE  MapTypes' /\ ServerTypes' /\ HandlersInv' /\ EnrichedInv'
  <1> USE DEF IInv, integration, adapterMaps, servers
  <1>1. MapTypes' /\ ServerTypes' /\ EnrichedInv'
    BY DEF MapTypes, ServerTypes, EnrichedInv
  <1>2. ASSUME NEW g \in Attempt, g # h PROVE HandlerOK(at[g])' /\ RouteOK(at[g])' /\ TargetOK(at[g])'
    <2>1. PICK z : z = at[g] /\ z = at'[g]
      BY <1>2 DEF HandlersInv
    <2>2. HandlerOK(z) /\ RouteOK(z) /\ TargetOK(z)
      BY <2>1 DEF HandlersInv
    <2>3. HandlerOK(z)' /\ RouteOK(z)' /\ TargetOK(z)'
      BY <1>1, <2>2, OtherOK DEF ServerTypes
    <2> QED BY <2>1, <2>3
  <1>3. at'[h] = x /\ at' \in [Attempt -> Handler]
    BY DEF HandlersInv
  <1> QED BY <1>1, <1>2, <1>3 DEF HandlersInv

LEMMA IdleHandler == Idle \in Handler
  BY DEF Idle, Handler, Op, Refused

LEMMA LoseInv == ASSUME IInv, NEW h \in Attempt, Lose(h) PROVE IInv'
  <1> USE DEF IInv
  <1>1. /\ at[h].step \in {"sent", "answered"} /\ at' = [at EXCEPT ![h] = Idle]
        /\ troubles < MaxTroubles /\ troubles' = troubles + 1
        /\ forgotten' = forgotten \cup (inHand(h) \ (leases \cup held))
        /\ UNCHANGED <<integration, adapterMaps, servers, records, phase, host, starts>>
    BY DEF Lose, Returned, Trouble
  <1>2. lost' \subseteq [req : Request, arg : Nat] /\ (host = "engine" => \A q \in lost' : q.req # "delete")
    <2>1. ASSUME NEW q \in lost' PROVE q \in [req : Request, arg : Nat] /\ (host = "engine" => q.req # "delete")
      <3>1. CASE q \in lost
        BY <3>1 DEF RecordTypes, PreparedInv
      <3>2. CASE q \notin lost
        <4>1. at[h].step = "sent" /\ q = [req |-> at[h].req, arg |-> at[h].arg]
          BY <3>2 DEF Lose
        <4>2. HandlerOK(at[h]) /\ Asked(at[h].op, at[h].req)
          BY <4>1 DEF HandlersInv, HandlerOK
        <4>3. at[h].req \in Request /\ at[h].arg \in Nat /\ (at[h].req = "delete" => host = "demo")
          BY <4>2 DEF HandlerOK, Handler, Asked, Request, DemoOnly
        <4> QED BY <4>1, <4>3
      <3> QED BY <3>1, <3>2
    <2> QED BY <2>1
  <1>3. HandlerOK(Idle)' /\ RouteOK(Idle)' /\ TargetOK(Idle)'
    BY <1>1, IdleHandler DEF HandlerOK, RouteOK, TargetOK, Idle, DemoOnly, ServerTypes, servers
  <1>4. MapTypes' /\ ServerTypes' /\ HandlersInv' /\ EnrichedInv'
    BY <1>1, <1>3, OwnStep, IdleHandler
  <1>5. LockInv'
    BY <1>1, LockKept
  <1>6. RecordTypes'
    BY <1>1, <1>2, HandLease, BoundAssumption DEF RecordTypes, records, servers
  <1>7. PreparedInv' /\ CleanupInv' /\ CompletedIsEnriched'
    BY <1>1, <1>2 DEF PreparedInv, CleanupInv, CompletedIsEnriched, records, servers, integration, adapterMaps
  <1>8. AccountInv'
    <2> USE DEF integration, records, servers
    <2>0. \A g \in Attempt : g # h => at'[g] = at[g]
      BY <1>1 DEF HandlersInv
    <2>1. ASSUME NEW r \in routes PROVE RouteKept(r)'
      <3>1. RouteKept(r) /\ r # 0
        BY DEF AccountInv, ServerTypes
      <3>2. HasRoute(at[h], r) => <<"gateway-route", r>> \in inHand(h)
        BY HandRoute DEF HandlersInv
      <3> QED BY <1>1, <2>0, <3>1, <3>2, HeldFacts DEF RouteKept
    <2>2. ASSUME target.id # 0 PROVE TargetKept(target.id)'
      <3>1. TargetKept(target.id)
        BY <2>2 DEF AccountInv
      <3>2. HasTarget(at[h], target.id) => <<"target-run", target.id>> \in inHand(h)
        BY HandTarget DEF HandlersInv
      <3> QED BY <1>1, <2>0, <2>2, <3>1, <3>2, HeldFacts DEF TargetKept
    <2> QED BY <1>1, <2>1, <2>2 DEF AccountInv
  <1> QED BY <1>4, <1>5, <1>6, <1>7, <1>8

-----------------------------------------------------------------------------
(* A handler starts                                                        *)

Begins(h) ==
  \E x \in Handler : HandlerOK(x) /\ RouteOK(x) /\ TargetOK(x) /\ at' = [at EXCEPT ![h] = x]

\* The request a handler sends, in terms of what the invariant asks of it.
LEMMA Sends ==
  ASSUME IInv, phase = "running", NEW h \in Attempt, NEW op \in Op, NEW req \in Request,
         NEW arg \in Nat, NEW hd \in Nat,
         Awaiting(h, op, req, arg, hd), Asked(op, req), op \in DemoOnly => host = "demo",
         hd <= routeCount, op = "replace-route" /\ req # "deleteRoute" => hd # 0,
         req = "deleteRoute" => arg \in 1..routeCount /\ (op = "cleanup-run" => arg = gateway),
         req = "prepare" /\ host = "demo" => prepared = Nobody /\ adapterPrepared = Nobody,
         req = "delete" => arg # 0 /\ arg <= targetCount /\ (op = "cleanup-run" => arg = adapterPrepared.id),
         op \in {"wait", "enrich"} => arg # 0 /\ arg = adapterPrepared.id
  PROVE  Begins(h)
  <1> DEFINE x == [op |-> op, req |-> req, arg |-> arg, step |-> "sent", answer |-> 0, held |-> hd]
  <1>1. /\ x \in Handler /\ x.op = op /\ x.req = req /\ x.arg = arg /\ x.step = "sent"
        /\ x.answer = 0 /\ x.held = hd
    BY DEF Handler, Refused
  <1>2. at' = [at EXCEPT ![h] = x]
    BY DEF Awaiting
  <1> HIDE DEF x
  <1>3. HandlerOK(x)
    BY <1>1 DEF HandlerOK
  <1>4. RouteOK(x)
    BY <1>1 DEF RouteOK
  <1>5. TargetOK(x)
    BY <1>1 DEF TargetOK
  <1> QED BY <1>1, <1>2, <1>3, <1>4, <1>5 DEF Begins

\* A handler that finds the resource in the state, and only leases it.
LEMMA Leases ==
  ASSUME IInv, phase = "running", NEW h \in Attempt, NEW op \in {"create-route", "prepare-run"},
         NEW arg \in Nat, Leasing(h, op, arg, 0),
         op = "create-route" => arg \in 1..routeCount,
         op = "prepare-run" => arg # 0 /\ prepared.id = arg
  PROVE  Begins(h)
  <1> DEFINE x == [op |-> op, req |-> "none", arg |-> arg, step |-> "lease", answer |-> 0, held |-> 0]
  <1>1. /\ x \in Handler /\ x.op = op /\ x.req = "none" /\ x.arg = arg /\ x.step = "lease"
        /\ x.answer = 0 /\ x.held = 0
    BY DEF Handler, Refused, Op
  <1>2. at' = [at EXCEPT ![h] = x]
    BY DEF Leasing
  <1> HIDE DEF x
  <1>3. HandlerOK(x)
    BY <1>1 DEF HandlerOK, DemoOnly
  <1>4. RouteOK(x)
    BY <1>1 DEF RouteOK, IInv, ServerTypes
  <1>5. TargetOK(x)
    BY <1>1 DEF TargetOK
  <1> QED BY <1>1, <1>2, <1>3, <1>4, <1>5 DEF Begins

StartsSame(h) ==
  \/ StartCreateRoute(h) \/ StartReplaceRoute(h) \/ StartCollectLedger(h)
  \/ \E kind \in {"vendors", "site"} : StartConfigure(h, kind)
  \/ StartTriggerEnrichment(h) \/ StartObservation(h) \/ StartWait(h)
  \/ StartCollectOutcome(h) \/ StartCleanupRun(h)
  \/ StartOnTarget(h, "hibernate", "hibernate") \/ StartOnTarget(h, "resume", "resume")
  \/ StartOnTarget(h, "cleanup-target", "delete")

LEMMA StartBegins == ASSUME IInv, NEW h \in Attempt, StartsSame(h) PROVE Begins(h)
  <1> USE DEF IInv
  <1>0. PICK gw \in Nat, t \in Nat : gw = gateway /\ t = adapterPrepared.id
    BY DEF MapTypes, Preparation
  <1>1. /\ routeCount \in Nat /\ gw <= routeCount /\ t <= targetCount /\ targetCount \in Nat
        /\ t = 0 => adapterPrepared = Nobody
        /\ t # 0 => adapterPrepared # Nobody
    BY <1>0 DEF ServerTypes, PreparedInv, Nobody
  <1>2. phase = "running"
    BY DEF StartsSame, StartCreateRoute, StartReplaceRoute, StartCollectLedger, StartConfigure,
           StartTriggerEnrichment, StartObservation, StartWait, StartCollectOutcome, StartCleanupRun,
           StartOnTarget, MayStart
  <1> USE DEF Op, Request, Asked, DemoOnly
  <1>3. CASE StartCreateRoute(h)
    <2>1. CASE gateway = 0
      <3>1. PICK a \in {0, 1} : Awaiting(h, "create-route", "createRoute", a, 0)
        BY <1>3, <2>1 DEF StartCreateRoute
      <3> QED BY <1>1, <1>2, <3>1, Sends
    <2>2. CASE gateway # 0
      <3>1. Leasing(h, "create-route", gw, 0)
        BY <1>0, <1>3, <2>2 DEF StartCreateRoute
      <3> QED BY <1>0, <1>1, <1>2, <2>2, <3>1, Leases
    <2> QED BY <2>1, <2>2
  <1>4. CASE StartReplaceRoute(h)
    <2>1. PICK a \in {0, 1} : Awaiting(h, "replace-route", "createRoute", a, gw) /\ gw # 0
      BY <1>0, <1>4 DEF StartReplaceRoute
    <2> QED BY <1>1, <1>2, <2>1, Sends
  <1>5. CASE StartCollectLedger(h)
    <2>1. Awaiting(h, "ledger", "ledger", gw, 0)
      BY <1>0, <1>5 DEF StartCollectLedger
    <2> QED BY <1>1, <1>2, <2>1, Sends
  <1>6. CASE \E kind \in {"vendors", "site"} : StartConfigure(h, kind)
    <2>1. PICK kind \in {"vendors", "site"} : Awaiting(h, kind, kind, t, 0)
      BY <1>0, <1>6 DEF StartConfigure
    <2> QED BY <1>1, <1>2, <2>1, Sends
  <1>7. CASE StartTriggerEnrichment(h)
    <2>1. Awaiting(h, "enrich", "enrich", t, 0) /\ t # 0
      BY <1>0, <1>1, <1>7 DEF StartTriggerEnrichment
    <2> QED BY <1>0, <1>1, <1>2, <2>1, Sends
  <1>8. CASE StartObservation(h)
    <2>1. Awaiting(h, "observe", "observe", t, 0)
      BY <1>0, <1>8 DEF StartObservation
    <2> QED BY <1>1, <1>2, <2>1, Sends
  <1>9. CASE StartWait(h)
    <2>1. Awaiting(h, "wait", "poll", t, 0) /\ t # 0
      BY <1>0, <1>1, <1>9 DEF StartWait
    <2> QED BY <1>0, <1>1, <1>2, <2>1, Sends
  <1>10. CASE StartCollectOutcome(h)
    <2>1. Awaiting(h, "outcome", "outcome", t, 0)
      BY <1>0, <1>10 DEF StartCollectOutcome
    <2> QED BY <1>1, <1>2, <2>1, Sends
  <1>11. CASE StartCleanupRun(h)
    <2>0. host = "demo"
      BY <1>11 DEF StartCleanupRun, MayStart
    <2>1. CASE adapterPrepared # Nobody
      <3>1. Awaiting(h, "cleanup-run", "delete", t, 0) /\ t # 0
        BY <1>0, <1>1, <1>11, <2>1 DEF StartCleanupRun
      <3> QED BY <1>0, <1>1, <1>2, <2>0, <3>1, Sends
    <2>2. CASE adapterPrepared = Nobody
      <3>1. Awaiting(h, "cleanup-run", "deleteRoute", gw, 0) /\ gw # 0
        BY <1>0, <1>11, <2>2 DEF StartCleanupRun
      <3> QED BY <1>0, <1>1, <1>2, <2>0, <3>1, Sends
    <2> QED BY <2>1, <2>2
  <1>12. ASSUME NEW op \in DemoOnly, NEW req \in {"hibernate", "resume", "delete"},
                Asked(op, req), op # "cleanup-run", StartOnTarget(h, op, req)
         PROVE  Begins(h)
    <2>1. host = "demo"
      BY <1>12 DEF StartOnTarget, MayStart
    <2>2. PICK lease \in leases : lease[1] = "target-run" /\ Awaiting(h, op, req, lease[2], 0)
      BY <1>12 DEF StartOnTarget
    <2>3. lease[2] \in Nat /\ lease[2] # 0 /\ lease[2] <= targetCount
      BY <2>2 DEF RecordTypes, PreparedInv, Lease, Id
    <2>4. op \in Op /\ req \in Request
      OBVIOUS
    <2> QED BY <1>1, <1>2, <1>12, <2>1, <2>2, <2>3, <2>4, Sends
  <1>13. CASE StartOnTarget(h, "hibernate", "hibernate") \/ StartOnTarget(h, "resume", "resume")
                \/ StartOnTarget(h, "cleanup-target", "delete")
    BY <1>12, <1>13
  <1> QED BY <1>3, <1>4, <1>5, <1>6, <1>7, <1>8, <1>9, <1>10, <1>11, <1>13 DEF StartsSame

\* The same with the preparation the adapter already has copied into the state.
BeginsAfter(h) ==
  \E x \in Handler : /\ HandlerOK(x)' /\ RouteOK(x)' /\ TargetOK(x)' /\ at' = [at EXCEPT ![h] = x]

LEMMA StartHandlerInv == ASSUME IInv, NEW h \in Attempt, StartHandler(h) PROVE IInv'
  <1> USE DEF IInv
  <1>0. /\ phase = "running" /\ at[h] = Idle /\ starts < MaxStarts
        /\ host = "demo" => \A g \in Attempt : at[g] = Idle
    BY DEF StartHandler, StartCreateRoute, StartReplaceRoute, StartCollectLedger, StartConfigure,
           StartTriggerEnrichment, StartObservation, StartWait, StartCollectOutcome, StartCleanupRun,
           StartOnTarget, StartPrepareRun, MayStart
  <1>1. /\ UNCHANGED <<gateway, gatewayLeaseRegistered, targetLeaseRegistered, observation,
                       adapterMaps, lost, servers, records, phase, host, forgotten, troubles>>
        /\ starts' = starts + 1
    BY DEF StartHandler
  <1>2. \/ StartsSame(h) /\ prepared' = prepared
        \/ StartPrepareRun(h)
    BY DEF StartHandler, StartsSame
  <1>3. Nobody.id = 0 /\ prepared.id \in Nat /\ adapterPrepared.id \in Nat /\ Idle.op = "none"
        /\ Idle.step = "idle" /\ Idle.req = "none"
    BY DEF Nobody, MapTypes, Preparation, Idle
  <1>4. prepared' = prepared \/
          (prepared = Nobody /\ adapterPrepared # Nobody /\ prepared' = adapterPrepared /\ ~targetLeaseRegistered)
    BY <1>2 DEF StartPrepareRun
  <1>5. MapTypes' /\ ServerTypes' /\ RecordTypes'
    BY <1>0, <1>1, <1>4, BoundAssumption DEF MapTypes, ServerTypes, RecordTypes, adapterMaps, servers, records
  <1>6. ASSUME NEW y, HandlerOK(y), RouteOK(y), TargetOK(y), prepared' = prepared
        PROVE  HandlerOK(y)' /\ RouteOK(y)' /\ TargetOK(y)'
    BY <1>1, <1>5, <1>6, OtherOK DEF adapterMaps, servers, ServerTypes
  <1>7. BeginsAfter(h)
    <2>1. CASE StartsSame(h) /\ prepared' = prepared
      BY <1>6, <2>1, StartBegins DEF Begins, BeginsAfter
    <2>2. CASE StartPrepareRun(h)
      <3> USE DEF Op, Request, Asked, DemoOnly
      <3>0. 0 <= routeCount
        BY DEF ServerTypes
      <3>1. CASE /\ prepared = Nobody /\ adapterPrepared = Nobody
                 /\ Awaiting(h, "prepare-run", "prepare", 0, 0) /\ UNCHANGED prepared
        <4>1. Begins(h)
          BY <1>0, <3>0, <3>1, Sends
        <4> QED BY <1>6, <3>1, <4>1 DEF Begins, BeginsAfter
      <3>2. CASE /\ prepared # Nobody /\ ~targetLeaseRegistered
                 /\ Leasing(h, "prepare-run", prepared.id, 0) /\ UNCHANGED prepared
        <4>1. PICK t \in Nat : t = prepared.id /\ t # 0
          BY <1>3, <3>2 DEF PreparedInv
        <4>2. Begins(h)
          BY <1>0, <3>2, <4>1, Leases
        <4> QED BY <1>6, <3>2, <4>2 DEF Begins, BeginsAfter
      <3>3. CASE /\ prepared = Nobody /\ adapterPrepared # Nobody /\ prepared' = adapterPrepared
                 /\ ~targetLeaseRegistered /\ Leasing(h, "prepare-run", adapterPrepared.id, 0)
        <4>1. PICK t \in Nat : t = adapterPrepared.id /\ t # 0
          BY <1>3, <3>3 DEF PreparedInv
        <4> DEFINE x == [op |-> "prepare-run", req |-> "none", arg |-> t, step |-> "lease",
                         answer |-> 0, held |-> 0]
        <4>2. /\ x \in Handler /\ x.op = "prepare-run" /\ x.req = "none" /\ x.arg = t /\ x.step = "lease"
              /\ x.answer = 0 /\ x.held = 0 /\ at' = [at EXCEPT ![h] = x]
          BY <3>3, <4>1 DEF Handler, Refused, Leasing
        <4> HIDE DEF x
        <4>3. HandlerOK(x)'
          BY <1>0, <1>1, <4>2 DEF HandlerOK
        <4>4. RouteOK(x)'
          BY <1>1, <3>0, <4>2 DEF RouteOK, servers
        <4>5. TargetOK(x)'
          BY <3>3, <4>1, <4>2 DEF TargetOK
        <4> QED BY <4>2, <4>3, <4>4, <4>5 DEF BeginsAfter
      <3> QED BY <2>2, <3>1, <3>2, <3>3 DEF StartPrepareRun
    <2> QED BY <1>2, <2>1, <2>2
  <1>8. PICK x \in Handler : HandlerOK(x)' /\ RouteOK(x)' /\ TargetOK(x)' /\ at' = [at EXCEPT ![h] = x]
    BY <1>7 DEF BeginsAfter
  <1>9. at'[h] = x /\ at' \in [Attempt -> Handler] /\ \A g \in Attempt : g # h => at'[g] = at[g]
    BY <1>8 DEF HandlersInv
  <1>10. HandlersInv'
    <2>1. ASSUME NEW g \in Attempt, g # h PROVE HandlerOK(at[g])' /\ RouteOK(at[g])' /\ TargetOK(at[g])'
      <3>1. PICK z : z = at[g] /\ z = at'[g]
        BY <1>9, <2>1
      <3>2. HandlerOK(z) /\ RouteOK(z) /\ TargetOK(z)
        BY <3>1 DEF HandlersInv
      <3>3. CASE prepared' = prepared
        BY <1>6, <3>1, <3>2, <3>3
      <3>4. CASE prepared = Nobody
        <4>1. z.op = "prepare-run" => z.step # "lease" /\ host = "engine"
          BY <1>0, <1>3, <3>1, <3>2, <3>4 DEF TargetOK, RecordTypes
        <4>2. HandlerOK(z)' /\ RouteOK(z)' /\ TargetOK(z)'
          BY <1>1, <1>5, <3>2, <4>1, OtherOK DEF adapterMaps, servers, ServerTypes
        <4> QED BY <3>1, <4>2
      <3> QED BY <1>4, <3>3, <3>4
    <2> QED BY <1>8, <1>9, <2>1 DEF HandlersInv
  <1>11. LockInv'
    BY <1>0, <1>1, <1>3, <1>9 DEF LockInv
  <1>12. PreparedInv'
    BY <1>1, <1>3, <1>4 DEF PreparedInv, adapterMaps, servers, records
  <1>13. EnrichedInv' /\ CleanupInv' /\ CompletedIsEnriched'
    BY <1>1 DEF EnrichedInv, CleanupInv, CompletedIsEnriched, adapterMaps, servers, records
  <1>14. AccountInv'
    <2>0. /\ \A r : ~HasRoute(at[h], r)
          /\ \A t : ~HasTarget(at[h], t)
      BY <1>0, <1>3 DEF HasRoute, HasTarget
    <2>1. ASSUME NEW r \in routes PROVE RouteKept(r)'
      BY <1>1, <1>9, <2>0 DEF AccountInv, RouteKept, records
    <2>2. ASSUME target.id # 0 PROVE TargetKept(target.id)'
      BY <1>1, <1>3, <1>4, <1>9, <2>0, <2>2 DEF AccountInv, TargetKept, records, servers
    <2> QED BY <1>1, <2>1, <2>2 DEF AccountInv, servers
  <1> QED BY <1>5, <1>10, <1>11, <1>12, <1>13, <1>14

-----------------------------------------------------------------------------
(* A lease is stored, or the write fails                                   *)

LEMMA Displaced ==
  ASSUME IInv, NEW h \in Attempt
  PROVE  /\ displaced(h) \subseteq Lease
         /\ \A r : r # 0 /\ gateway = r /\ ~gatewayLeaseRegistered =>
              <<"gateway-route", r>> \in displaced(h) \/ \E g \in Attempt : HasRoute(at[g], r)
  <1> USE DEF IInv
  <1>1. displaced(h) \subseteq Lease
    BY HeldLease DEF displaced
  <1>2. ASSUME NEW r, r # 0, gateway = r, ~gatewayLeaseRegistered, \A g \in Attempt : ~HasRoute(at[g], r)
        PROVE  <<"gateway-route", r>> \in displaced(h)
    <2>1. <<"gateway-route", r>> \in held
      BY <1>2, HeldFacts
    <2>2. \A g \in Attempt : <<"gateway-route", r>> \notin inHand(g)
      BY <1>2, HandRoute DEF HandlersInv
    <2> QED BY <2>1, <2>2 DEF displaced
  <1> QED BY <1>1, <1>2

\* A step of h after which the others are what they were, though the gateway's
\* route in the state may be another: no other handler is a cleanup-run.
LEMMA OthersStay ==
  ASSUME IInv, NEW h \in Attempt, at[h].step # "idle", NEW x, at' = [at EXCEPT ![h] = x],
         UNCHANGED <<servers, phase, host>>, prepared'.id = prepared.id,
         adapterPrepared'.id = adapterPrepared.id, ServerTypes'
  PROVE  /\ \A g \in Attempt : g # h => HandlerOK(at[g])' /\ RouteOK(at[g])' /\ TargetOK(at[g])'
         /\ at'[h] = x /\ \A g \in Attempt : g # h => at'[g] = at[g]
  <1> USE DEF IInv
  <1>1. at'[h] = x /\ \A g \in Attempt : g # h => at'[g] = at[g]
    BY DEF HandlersInv
  <1>2. ASSUME NEW g \in Attempt, g # h PROVE HandlerOK(at[g])' /\ RouteOK(at[g])' /\ TargetOK(at[g])'
    <2>1. PICK z : z = at[g] /\ z = at'[g]
      BY <1>1, <1>2
    <2>2. HandlerOK(z) /\ RouteOK(z) /\ TargetOK(z)
      BY <2>1 DEF HandlersInv
    <2>3. host = "demo" => z.op = "none"
      BY <1>2, <2>1, OthersIdle DEF Idle
    <2>4. z.op # "cleanup-run" /\ (z.op = "prepare-run" => host # "demo")
      BY <2>2, <2>3 DEF HandlerOK, DemoOnly, RecordTypes
    <2>5. HandlerOK(z)' /\ RouteOK(z)' /\ TargetOK(z)'
      BY <2>2, <2>4, OtherOK DEF servers, ServerTypes
    <2> QED BY <2>1, <2>5
  <1> QED BY <1>1, <1>2

LEMMA RegisterLeaseInv == ASSUME IInv, NEW h \in Attempt, NEW ok \in BOOLEAN, RegisterLease(h, ok) PROVE IInv'
  <1> USE DEF IInv
  <1>1. PICK y : /\ y = at[h] /\ HandlerOK(y) /\ RouteOK(y) /\ TargetOK(y) /\ y \in Handler /\ y.step = "lease"
                 /\ y.op \in {"create-route", "replace-route", "prepare-run"} /\ y.req = "none"
    BY DEF RegisterLease, HandlersInv, HandlerOK
  <1> DEFINE lease == <<IF y.op = "prepare-run" THEN "target-run" ELSE "gateway-route", y.arg>>
  <1>2. /\ UNCHANGED <<prepared, observation, adapterMaps, lost, servers, completion, phase, host, starts>>
        /\ gatewayLeaseRegistered' = (gatewayLeaseRegistered \/ (ok /\ y.op = "create-route"))
        /\ targetLeaseRegistered' = (targetLeaseRegistered \/ (ok /\ y.op = "prepare-run"))
    BY <1>1 DEF RegisterLease, LeaseSettled
  <1>3. lease \in Lease
    <2>1. lease \in inHand(h)
      <3>1. CASE y.op = "prepare-run"
        <4>1. HasTarget(at[h], y.arg)
          BY <1>1, <3>1 DEF HasTarget
        <4> QED BY <1>1, <3>1, <4>1, HandTarget
      <3>2. CASE y.op # "prepare-run"
        <4>1. HasRoute(at[h], y.arg)
          BY <1>1, <3>2 DEF HasRoute
        <4> QED BY <1>1, <3>2, <4>1, HandRoute
      <3> QED BY <3>1, <3>2
    <2> QED BY <2>1, HandLease
  <1>4. /\ y.arg \in Nat /\ y.held \in Nat /\ y.arg # 0 /\ routeCount \in Nat /\ targetCount \in Nat
        /\ prepared.id \in Nat /\ prepared.id <= targetCount
        /\ y.op # "prepare-run" => y.arg \in 1..routeCount
        /\ y.op = "prepare-run" => prepared.id = y.arg
    BY <1>1 DEF Handler, RouteOK, TargetOK, ServerTypes, MapTypes, Preparation, PreparedInv
  <1>5. ServerTypes'
    BY <1>2 DEF ServerTypes, servers
  <1>6. EnrichedInv' /\ CompletedIsEnriched'
    BY <1>2 DEF EnrichedInv, CompletedIsEnriched, adapterMaps, servers
  <1>7. HandlerOK(Idle)' /\ RouteOK(Idle)' /\ TargetOK(Idle)'
    BY <1>5, IdleHandler DEF HandlerOK, RouteOK, TargetOK, Idle, DemoOnly, ServerTypes
  <1>8. CASE ok
    <2>1. /\ leases' = leases \cup {lease} /\ troubles' = troubles
          /\ forgotten' = forgotten \cup
               (IF y.op = "create-route" \/ (y.op = "replace-route" /\ gateway # y.held)
                THEN displaced(h) ELSE {})
          /\ cleanups' = IF phase = "running" /\ host = "engine" THEN Append(cleanups, lease) ELSE cleanups
      BY <1>1, <1>8 DEF RegisterLease
    <2>2. RecordTypes'
      BY <1>2, <1>3, <2>1, Displaced DEF RecordTypes, servers
    <2>3. CleanupInv'
      <3>1. CASE phase = "running" /\ host = "engine"
        <4>1. cleanups \in Seq(Lease) /\ cleanups' = Append(cleanups, lease)
          BY <2>1, <3>1 DEF RecordTypes
        <4>2. \A i \in 1..Len(cleanups') :
                (i \in 1..Len(cleanups) /\ cleanups'[i] = cleanups[i]) \/ cleanups'[i] = lease
          BY <1>3, <4>1
        <4>3. lease[1] = "target-run" =>
                /\ lease[2] <= targetCount
                /\ target.id = lease[2] => adapterPrepared.id = lease[2]
          BY <1>4, <3>1 DEF PreparedInv
        <4> HIDE DEF lease
        <4> QED BY <1>2, <3>1, <4>2, <4>3 DEF CleanupInv, servers, adapterMaps
      <3>2. CASE ~(phase = "running" /\ host = "engine")
        BY <1>2, <2>1, <3>2 DEF CleanupInv, servers, adapterMaps
      <3> QED BY <3>1, <3>2
    <2>4. CASE y.op = "replace-route"
      <3> DEFINE x == [op |-> "replace-route", req |-> "deleteRoute", arg |-> y.held, step |-> "sent",
                       answer |-> 0, held |-> 0]
      <3>1. gateway' = y.arg /\ at' = [at EXCEPT ![h] = x]
            /\ gatewayLeaseRegistered' = gatewayLeaseRegistered
            /\ targetLeaseRegistered' = targetLeaseRegistered
        BY <1>1, <1>2, <1>8, <2>4 DEF RegisterLease, LeaseSettled, Awaiting, MapTypes
      <3>2. /\ x \in Handler /\ x.op = "replace-route" /\ x.req = "deleteRoute" /\ x.arg = y.held
            /\ x.step = "sent" /\ x.answer = 0 /\ x.held = 0
        BY <1>4 DEF Handler, Op, Request, Refused
      <3> HIDE DEF x
      <3>3. HandlerOK(x)' /\ RouteOK(x)' /\ TargetOK(x)'
        <4>1. HandlerOK(x)'
          BY <1>1, <1>2, <3>2 DEF HandlerOK, Asked, GatewayRequest, DemoOnly
        <4>2. RouteOK(x)'
          BY <1>1, <1>2, <1>4, <2>4, <3>2 DEF RouteOK, servers
        <4>3. TargetOK(x)'
          BY <3>2 DEF TargetOK
        <4> QED BY <4>1, <4>2, <4>3
      <3>4. /\ \A g \in Attempt : g # h => HandlerOK(at[g])' /\ RouteOK(at[g])' /\ TargetOK(at[g])'
            /\ at'[h] = x /\ \A g \in Attempt : g # h => at'[g] = at[g]
        BY <1>1, <1>2, <1>5, <3>1, OthersStay DEF adapterMaps
      <3>5. HandlersInv' /\ LockInv' /\ MapTypes'
        <4>1. at' \in [Attempt -> Handler]
          BY <3>1, <3>2 DEF HandlersInv
        <4>2. LockInv'
          BY <1>1, <1>2, <3>1, LockKept
        <4> QED BY <1>2, <1>4, <3>1, <3>3, <3>4, <4>1, <4>2 DEF HandlersInv, MapTypes, adapterMaps
      <3>6. PreparedInv'
        BY <1>2, <1>4, <2>1, <2>4, <3>1 DEF PreparedInv, adapterMaps, servers
      <3>7. AccountInv'
        <4>1. ASSUME NEW r \in routes PROVE RouteKept(r)'
          <5>0. r # 0 /\ RouteKept(r)
            BY DEF ServerTypes, AccountInv
          <5>1. CASE <<"gateway-route", r>> \in leases \/ <<"gateway-route", r>> \in forgotten
            BY <2>1, <5>1 DEF RouteKept
          <5>2. ASSUME NEW g \in Attempt, HasRoute(at[g], r) PROVE RouteKept(r)'
            <6>1. CASE g = h
              BY <1>1, <2>1, <2>4, <5>2, <6>1 DEF HasRoute, RouteKept
            <6>2. CASE g # h
              BY <3>4, <5>2, <6>2 DEF RouteKept
            <6> QED BY <6>1, <6>2
          <5>3. CASE gateway = r /\ ~gatewayLeaseRegistered
            <6>1. CASE r = y.held
              <7>1. HasRoute(at'[h], r)
                BY <3>2, <3>4, <6>1 DEF HasRoute
              <7> QED BY <7>1 DEF RouteKept
            <6>2. CASE r # y.held
              <7>1. displaced(h) \subseteq forgotten'
                BY <2>1, <2>4, <5>3, <6>2
              <7>2. <<"gateway-route", r>> \in displaced(h) \/ \E g \in Attempt : HasRoute(at[g], r)
                BY <5>0, <5>3, Displaced
              <7> QED BY <5>2, <7>1, <7>2 DEF RouteKept
            <6> QED BY <6>1, <6>2
          <5> QED BY <5>0, <5>1, <5>2, <5>3 DEF RouteKept
        <4>2. ASSUME target.id # 0 PROVE TargetKept(target.id)'
          <5>1. ~HasTarget(at[h], target.id)
            BY <1>1, <2>4 DEF HasTarget
          <5> QED BY <1>2, <2>1, <3>1, <3>4, <4>2, <5>1 DEF AccountInv, TargetKept, servers
        <4> QED BY <1>2, <4>1, <4>2 DEF AccountInv, servers
      <3> QED BY <1>5, <1>6, <2>2, <2>3, <3>5, <3>6, <3>7
    <2>5. CASE y.op # "replace-route"
      <3>1. gateway' = gateway /\ at' = [at EXCEPT ![h] = Idle]
        BY <1>1, <2>5 DEF RegisterLease, LeaseSettled, Returned
      <3>4. /\ \A g \in Attempt : g # h => HandlerOK(at[g])' /\ RouteOK(at[g])' /\ TargetOK(at[g])'
            /\ at'[h] = Idle /\ \A g \in Attempt : g # h => at'[g] = at[g]
        BY <1>1, <1>2, <1>5, <3>1, OthersStay DEF adapterMaps
      <3>5. HandlersInv' /\ LockInv' /\ MapTypes'
        <4>1. at' \in [Attempt -> Handler]
          BY <3>1, IdleHandler DEF HandlersInv
        <4>2. LockInv'
          BY <1>1, <1>2, <3>1, LockKept
        <4>3. MapTypes'
          BY <1>2, <3>1 DEF MapTypes, adapterMaps
        <4> QED BY <1>7, <3>4, <4>1, <4>2, <4>3 DEF HandlersInv
      <3>6. PreparedInv'
        <4>1. targetLeaseRegistered' =>
                prepared.id # 0 /\ (<<"target-run", prepared.id>> \in leases' \/ target.id # prepared.id)
          BY <1>2, <1>4, <1>8, <2>1 DEF PreparedInv
        <4>2. \A l \in leases' : l[1] = "target-run" => l[2] <= targetCount
          BY <1>4, <2>1 DEF PreparedInv
        <4> QED BY <1>2, <3>1, <4>1, <4>2 DEF PreparedInv, adapterMaps, servers
      <3>7. AccountInv'
        <4>1. ASSUME NEW r \in routes PROVE RouteKept(r)'
          <5>0. r # 0 /\ RouteKept(r)
            BY DEF ServerTypes, AccountInv
          <5>1. CASE <<"gateway-route", r>> \in leases \/ <<"gateway-route", r>> \in forgotten
            BY <2>1, <5>1 DEF RouteKept
          <5>2. ASSUME NEW g \in Attempt, HasRoute(at[g], r) PROVE RouteKept(r)'
            <6>1. CASE g = h
              BY <1>1, <2>1, <2>5, <5>2, <6>1 DEF HasRoute, RouteKept
            <6>2. CASE g # h
              BY <3>4, <5>2, <6>2 DEF RouteKept
            <6> QED BY <6>1, <6>2
          <5>3. CASE gateway = r /\ ~gatewayLeaseRegistered
            <6>1. CASE y.op = "create-route"
              <7>1. displaced(h) \subseteq forgotten'
                BY <2>1, <6>1
              <7>2. <<"gateway-route", r>> \in displaced(h) \/ \E g \in Attempt : HasRoute(at[g], r)
                BY <5>0, <5>3, Displaced
              <7> QED BY <5>2, <7>1, <7>2 DEF RouteKept
            <6>2. CASE y.op # "create-route"
              <7>1. gateway' = r /\ ~gatewayLeaseRegistered'
                BY <1>2, <3>1, <5>3, <6>2
              <7> QED BY <7>1 DEF RouteKept
            <6> QED BY <6>1, <6>2
          <5> QED BY <5>0, <5>1, <5>2, <5>3 DEF RouteKept
        <4>2. ASSUME target.id # 0 PROVE TargetKept(target.id)'
          <5>0. TargetKept(target.id) /\ target' = target
            BY <1>2, <4>2 DEF AccountInv, servers
          <5>1. CASE y.op = "prepare-run"
            <6>1. HasTarget(at[h], target.id) => <<"target-run", target.id>> \in leases'
              BY <1>1, <2>1, <5>1 DEF HasTarget
            <6>2. prepared.id = target.id => <<"target-run", target.id>> \in leases'
              BY <1>4, <2>1, <5>1
            <6> QED BY <2>1, <3>4, <5>0, <6>1, <6>2 DEF TargetKept
          <5>2. CASE y.op # "prepare-run"
            <6>1. ~HasTarget(at[h], target.id)
              BY <1>1, <5>2 DEF HasTarget
            <6>2. targetLeaseRegistered' <=> targetLeaseRegistered
              BY <1>2, <5>2
            <6> QED BY <1>2, <2>1, <3>4, <5>0, <6>1, <6>2 DEF TargetKept
          <5> QED BY <5>1, <5>2
        <4> QED BY <1>2, <4>1, <4>2 DEF AccountInv, servers
      <3> QED BY <1>5, <1>6, <2>2, <2>3, <3>5, <3>6, <3>7
    <2> QED BY <2>4, <2>5
  <1>9. CASE ~ok
    <2>1. /\ gateway' = gateway /\ at' = [at EXCEPT ![h] = Idle]
          /\ (gatewayLeaseRegistered' <=> gatewayLeaseRegistered)
          /\ (targetLeaseRegistered' <=> targetLeaseRegistered)
          /\ gatewayLeaseRegistered' \in BOOLEAN /\ targetLeaseRegistered' \in BOOLEAN
          /\ troubles < MaxTroubles /\ troubles' = troubles + 1 /\ leases' = leases /\ cleanups' = cleanups
      BY <1>1, <1>2, <1>9 DEF RegisterLease, LeaseSettled, Returned, Trouble
    <2>2. forgotten' = forgotten \/ forgotten' = forgotten \cup {lease}
      BY <1>1, <1>9 DEF RegisterLease
    <2>3. \/ lease \in forgotten'
          \/ y.op = "prepare-run"
          \/ y.op = "create-route" /\ gateway = y.arg /\ ~gatewayLeaseRegistered
      BY <1>1, <1>9 DEF RegisterLease
    <2>4. /\ \A g \in Attempt : g # h => HandlerOK(at[g])' /\ RouteOK(at[g])' /\ TargetOK(at[g])'
          /\ at'[h] = Idle /\ \A g \in Attempt : g # h => at'[g] = at[g]
      BY <1>1, <1>2, <1>5, <2>1, OthersStay DEF adapterMaps
    <2>5. HandlersInv' /\ LockInv' /\ MapTypes'
      <3>1. at' \in [Attempt -> Handler]
        BY <2>1, IdleHandler DEF HandlersInv
      <3>2. LockInv'
        BY <1>1, <1>2, <2>1, LockKept
      <3>3. MapTypes'
        BY <1>2, <2>1 DEF MapTypes, adapterMaps
      <3> QED BY <1>7, <2>4, <3>1, <3>2, <3>3 DEF HandlersInv
    <2>6. RecordTypes'
      BY <1>2, <1>3, <2>1, <2>2, BoundAssumption DEF RecordTypes, servers
    <2>7. PreparedInv' /\ CleanupInv'
      BY <1>2, <2>1 DEF PreparedInv, CleanupInv, adapterMaps, servers
    <2>8. AccountInv'
      <3>1. ASSUME NEW r \in routes PROVE RouteKept(r)'
        <4>0. RouteKept(r)
          BY DEF AccountInv
        <4>1. HasRoute(at[h], r) => lease = <<"gateway-route", r>> /\ y.op # "prepare-run" /\ y.arg = r
          BY <1>1 DEF HasRoute
        <4>2. HasRoute(at[h], r) => RouteKept(r)'
          BY <2>1, <2>3, <4>1 DEF RouteKept
        <4> QED BY <2>1, <2>2, <2>4, <4>0, <4>2 DEF RouteKept
      <3>2. ASSUME target.id # 0 PROVE TargetKept(target.id)'
        <4>0. TargetKept(target.id) /\ target' = target
          BY <1>2, <3>2 DEF AccountInv, servers
        <4>1. HasTarget(at[h], target.id) => prepared.id = target.id
          BY <1>1, <1>4 DEF HasTarget
        <4>2. prepared.id = target.id => <<"target-run", target.id>> \in leases \/ ~targetLeaseRegistered
          BY DEF PreparedInv
        <4>3. prepared.id = target.id => TargetKept(target.id)'
          BY <1>2, <2>1, <4>0, <4>2 DEF TargetKept
        <4> QED BY <1>2, <2>1, <2>2, <2>4, <4>0, <4>1, <4>3 DEF TargetKept
      <3> QED BY <1>2, <3>1, <3>2 DEF AccountInv, servers
    <2> QED BY <1>5, <1>6, <2>5, <2>6, <2>7, <2>8
  <1> QED BY <1>8, <1>9

-----------------------------------------------------------------------------
(* What follows an answer                                                  *)

LEMMA IdleNext == ASSUME ServerTypes' PROVE HandlerOK(Idle)' /\ RouteOK(Idle)' /\ TargetOK(Idle)'
  BY IdleHandler DEF HandlerOK, RouteOK, TargetOK, Idle, DemoOnly, ServerTypes

LEMMA HandlersNext ==
  ASSUME IInv, NEW h \in Attempt, at[h].step # "idle", NEW x \in Handler, at' = [at EXCEPT ![h] = x],
         host' = host, HandlerOK(x)', RouteOK(x)', TargetOK(x)',
         \A g \in Attempt : g # h => HandlerOK(at[g])' /\ RouteOK(at[g])' /\ TargetOK(at[g])'
  PROVE  HandlersInv' /\ LockInv'
  <1> USE DEF IInv
  <1>1. at' \in [Attempt -> Handler] /\ at'[h] = x
    BY DEF HandlersInv
  <1>2. LockInv'
    BY LockKept
  <1> QED BY <1>1, <1>2 DEF HandlersInv

\* Under the demo service's lock no other handler is under way.
LEMMA OthersDemo ==
  ASSUME IInv, host = "demo", NEW h \in Attempt, at[h].step # "idle", NEW x, at' = [at EXCEPT ![h] = x],
         ServerTypes'
  PROVE  \A g \in Attempt : g # h => HandlerOK(at[g])' /\ RouteOK(at[g])' /\ TargetOK(at[g])'
  <1> USE DEF IInv
  <1>1. \A g \in Attempt : g # h => at'[g] = Idle
    BY OthersIdle DEF HandlersInv
  <1> QED BY <1>1, IdleNext

\* What h had in hand, and what the state held, must be found again.
LEMMA AccountNext ==
  ASSUME IInv, NEW h \in Attempt, NEW x, at' = [at EXCEPT ![h] = x], UNCHANGED <<servers, leases>>,
         forgotten \subseteq forgotten',
         \A r \in routes : HasRoute(at[h], r) => RouteKept(r)',
         \A r \in routes : gateway = r /\ ~gatewayLeaseRegistered => RouteKept(r)',
         target.id # 0 /\ HasTarget(at[h], target.id) => TargetKept(target.id)',
         target.id # 0 /\ prepared.id = target.id /\ ~targetLeaseRegistered => TargetKept(target.id)'
  PROVE  AccountInv'
  <1> USE DEF IInv
  <1>1. \A g \in Attempt : g # h => at'[g] = at[g]
    BY DEF HandlersInv
  <1>2. ASSUME NEW r \in routes PROVE RouteKept(r)'
    <2>1. RouteKept(r)
      BY DEF AccountInv
    <2>2. ASSUME NEW g \in Attempt, HasRoute(at[g], r) PROVE RouteKept(r)'
      BY <1>1, <2>2 DEF RouteKept
    <2>3. CASE <<"gateway-route", r>> \in leases \/ <<"gateway-route", r>> \in forgotten
      BY <2>3 DEF RouteKept
    <2> QED BY <2>1, <2>2, <2>3 DEF RouteKept
  <1>3. ASSUME target.id # 0 PROVE TargetKept(target.id)'
    <2>1. TargetKept(target.id) /\ target' = target
      BY <1>3 DEF AccountInv, servers
    <2>2. ASSUME NEW g \in Attempt, HasTarget(at[g], target.id) PROVE TargetKept(target.id)'
      BY <1>1, <1>3, <2>1, <2>2 DEF TargetKept
    <2>3. CASE <<"target-run", target.id>> \in leases \/ <<"target-run", target.id>> \in forgotten
      BY <2>1, <2>3 DEF TargetKept
    <2> QED BY <1>3, <2>1, <2>2, <2>3 DEF TargetKept
  <1> QED BY <1>2, <1>3 DEF AccountInv, servers

\* The parts no answer disturbs.
Received(h) == /\ at[h].step = "answered"
               /\ UNCHANGED <<lost, servers, leases, cleanups, phase, host, starts>>

LEMMA ReceivedBase ==
  ASSUME IInv, NEW h \in Attempt, Received(h)
  PROVE  /\ ServerTypes' /\ HandlerOK(at[h]) /\ RouteOK(at[h]) /\ TargetOK(at[h]) /\ at[h] \in Handler
         /\ Asked(at[h].op, at[h].req) /\ at[h].req \in Request
         /\ HandlerOK(Idle)' /\ RouteOK(Idle)' /\ TargetOK(Idle)'
  <1>1. ServerTypes'
    BY DEF IInv, ServerTypes, Received, servers
  <1>2. HandlerOK(at[h]) /\ RouteOK(at[h]) /\ TargetOK(at[h]) /\ at[h] \in Handler
    BY DEF IInv, HandlersInv
  <1>3. Asked(at[h].op, at[h].req) /\ at[h].req \in Request
    BY <1>2 DEF HandlerOK, Received, Asked, Request
  <1> QED BY <1>1, <1>2, <1>3, IdleNext

\* A handler that returns and leaves the maps and the records alone.
LEMMA ReturnedInv ==
  ASSUME IInv, NEW h \in Attempt, Received(h), Returned(h), completion' \in Nat, completion' <= targetCount,
         UNCHANGED <<gateway, gatewayLeaseRegistered, prepared, targetLeaseRegistered, forgotten, adapterPrepared>>,
         observation' \in BOOLEAN, adapterObservation' \in BOOLEAN, enrichmentTriggered' \in BOOLEAN,
         troubles' \in 0..MaxTroubles,
         at[h].req = "createRoute" => at[h].answer = Refused, at[h].req # "prepare",
         EnrichedInv', CompletedIsEnriched'
  PROVE  IInv'
  <1> USE DEF IInv
  <1>1. ServerTypes' /\ HandlerOK(Idle)' /\ RouteOK(Idle)' /\ TargetOK(Idle)' /\ at' = [at EXCEPT ![h] = Idle]
        /\ RouteOK(at[h]) /\ at[h].step = "answered"
    BY ReceivedBase DEF Returned, Received
  <1>2. \A g \in Attempt : g # h => HandlerOK(at[g])' /\ RouteOK(at[g])' /\ TargetOK(at[g])'
    BY <1>1, OthersStay DEF Received, integration
  <1>3. HandlersInv' /\ LockInv'
    BY <1>1, <1>2, HandlersNext, IdleHandler DEF Received
  <1>4. MapTypes' /\ RecordTypes'
    BY DEF MapTypes, RecordTypes, Received, integration, servers
  <1>5. PreparedInv' /\ CleanupInv'
    BY DEF PreparedInv, CleanupInv, Received, integration, servers
  <1>6. AccountInv'
    <2>1. \A r \in routes : ~HasRoute(at[h], r)
      BY <1>1 DEF HasRoute, RouteOK
    <2>2. \A t : ~HasTarget(at[h], t)
      BY <1>1 DEF HasTarget
    <2>3. \A r : gateway = r /\ ~gatewayLeaseRegistered => RouteKept(r)'
      BY DEF RouteKept, integration
    <2>4. prepared.id = target.id /\ ~targetLeaseRegistered => TargetKept(target.id)'
      BY DEF TargetKept, integration, Received, servers
    <2> QED BY <1>1, <2>1, <2>2, <2>3, <2>4, AccountNext DEF Received
  <1> QED BY <1>1, <1>3, <1>4, <1>5, <1>6

LEMMA AskedAgain ==
  ASSUME IInv, NEW h \in Attempt, Received(h), at[h].op = "wait", NEW req \in {"poll", "enrich"},
         Awaiting(h, "wait", req, at[h].arg, 0),
         UNCHANGED <<integration, adapterMaps, completion, forgotten, troubles>>
  PROVE  IInv'
  <1> USE DEF IInv
  <1>1. /\ ServerTypes' /\ HandlerOK(at[h]) /\ RouteOK(at[h]) /\ TargetOK(at[h]) /\ at[h] \in Handler
        /\ Asked(at[h].op, at[h].req)
    BY ReceivedBase
  <1>2. PICK arg \in Nat : arg = at[h].arg
    BY <1>1 DEF Handler
  <1> DEFINE x == [op |-> "wait", req |-> req, arg |-> arg, step |-> "sent", answer |-> 0, held |-> 0]
  <1>3. /\ x \in Handler /\ x.op = "wait" /\ x.req = req /\ x.arg = arg
        /\ x.step = "sent" /\ x.answer = 0 /\ x.held = 0 /\ at' = [at EXCEPT ![h] = x]
    BY <1>2 DEF Handler, Op, Request, Refused, Awaiting
  <1> HIDE DEF x
  <1>4. HandlerOK(x)' /\ RouteOK(x)' /\ TargetOK(x)'
    <2>1. at[h].req \in {"poll", "enrich"}
      BY <1>1 DEF Asked
    <2>2. phase = "running"
      BY <1>1, <2>1 DEF HandlerOK, Received, GatewayRequest
    <2>3. HandlerOK(x)'
      BY <1>3, <2>2 DEF HandlerOK, Received, Asked, DemoOnly
    <2>4. RouteOK(x)'
      BY <1>1, <1>3 DEF RouteOK, ServerTypes
    <2>5. TargetOK(x)'
      BY <1>1, <1>2, <1>3 DEF TargetOK, adapterMaps
    <2> QED BY <2>3, <2>4, <2>5
  <1>5. \A g \in Attempt : g # h => HandlerOK(at[g])' /\ RouteOK(at[g])' /\ TargetOK(at[g])'
    BY <1>1, <1>3, OthersStay DEF Received, integration, adapterMaps
  <1>6. HandlersInv' /\ LockInv'
    BY <1>3, <1>4, <1>5, HandlersNext DEF Received
  <1>7. MapTypes' /\ RecordTypes' /\ EnrichedInv' /\ CompletedIsEnriched'
    BY DEF MapTypes, RecordTypes, EnrichedInv, CompletedIsEnriched, Received, integration, adapterMaps, servers
  <1>8. PreparedInv' /\ CleanupInv'
    BY DEF PreparedInv, CleanupInv, Received, integration, adapterMaps, servers
  <1>9. AccountInv'
    <2>1. at[h].req \in {"poll", "enrich"} /\ at[h].step = "answered"
      BY <1>1 DEF Asked, Received
    <2>2. /\ \A r : ~HasRoute(at[h], r)
          /\ \A t : ~HasTarget(at[h], t)
      BY <2>1 DEF HasRoute, HasTarget
    <2>3. \A r : gateway = r /\ ~gatewayLeaseRegistered => RouteKept(r)'
      BY DEF RouteKept, integration
    <2>4. prepared.id = target.id /\ ~targetLeaseRegistered => TargetKept(target.id)'
      BY DEF TargetKept, integration, Received, servers
    <2> QED BY <1>3, <2>2, <2>3, <2>4, AccountNext DEF Received
  <1> QED BY <1>1, <1>6, <1>7, <1>8, <1>9

\* wait-for-completion records a completion only of a workspace it enriched.
LEMMA WaitedInv ==
  ASSUME IInv, NEW h \in Attempt, Received(h), at[h].op = "wait", at[h].answer # Refused, Waited(h),
         UNCHANGED <<integration, adapterPrepared, adapterObservation, forgotten>>
  PROVE  IInv'
  <1> USE DEF IInv
  <1>1. /\ ServerTypes' /\ HandlerOK(at[h]) /\ RouteOK(at[h]) /\ TargetOK(at[h]) /\ at[h] \in Handler
        /\ at[h].req \in {"poll", "enrich"}
    BY ReceivedBase DEF Asked
  <1>2. /\ at[h].arg \in Nat /\ at[h].arg # 0 /\ at[h].arg = adapterPrepared.id /\ at[h].arg <= targetCount
        /\ at[h].req = "enrich" => (target.id = at[h].arg => target.enriched)
    BY <1>1 DEF TargetOK, Handler, PreparedInv, Received
  <1>3. CASE /\ at[h].req = "poll" /\ at[h].answer = 0
             /\ Awaiting(h, "wait", "poll", at[h].arg, 0) \/ Returned(h)
             /\ UNCHANGED <<enrichmentTriggered, completion, troubles>>
    <2>1. CASE Awaiting(h, "wait", "poll", at[h].arg, 0)
      BY <1>3, <2>1, AskedAgain DEF adapterMaps
    <2>2. CASE Returned(h)
      <3>1. /\ completion' \in Nat /\ completion' <= targetCount
            /\ observation' \in BOOLEAN /\ adapterObservation' \in BOOLEAN
            /\ enrichmentTriggered' \in BOOLEAN /\ troubles' \in 0..MaxTroubles
        BY <1>3 DEF RecordTypes, MapTypes, integration
      <3>2. EnrichedInv' /\ CompletedIsEnriched'
        BY <1>3 DEF EnrichedInv, CompletedIsEnriched, Received, servers
      <3> QED BY <1>3, <2>2, <3>1, <3>2, ReturnedInv DEF integration
    <2> QED BY <1>3, <2>1, <2>2
  <1>4. CASE /\ at[h].req = "poll" /\ at[h].answer = 1
             /\ Adapter = "gl-eye" /\ ~enrichmentTriggered
             /\ Awaiting(h, "wait", "enrich", at[h].arg, 0)
             /\ UNCHANGED <<enrichmentTriggered, completion, troubles>>
    BY <1>4, AskedAgain DEF adapterMaps
  <1>5. CASE /\ \/ at[h].req = "enrich"
                \/ at[h].req = "poll" /\ at[h].answer = 1 /\ (Adapter # "gl-eye" \/ enrichmentTriggered)
             /\ enrichmentTriggered' = (enrichmentTriggered \/ at[h].req = "enrich")
             /\ Returned(h)
             /\ \/ completion' = at[h].arg /\ UNCHANGED troubles
                \/ Trouble /\ UNCHANGED completion
    <2>1. /\ completion' \in Nat /\ completion' <= targetCount
          /\ observation' \in BOOLEAN /\ adapterObservation' \in BOOLEAN
          /\ enrichmentTriggered' \in BOOLEAN /\ troubles' \in 0..MaxTroubles
      BY <1>2, <1>5, BoundAssumption DEF RecordTypes, MapTypes, integration, Trouble
    <2>2. EnrichedInv'
      BY <1>2, <1>5 DEF EnrichedInv, Received, servers
    <2>3. CompletedIsEnriched'
      BY <1>2, <1>5 DEF CompletedIsEnriched, EnrichedInv, Received, servers
    <2> QED BY <1>1, <1>5, <2>1, <2>2, <2>3, ReturnedInv DEF integration
  <1> QED BY <1>3, <1>4, <1>5 DEF Waited

\* The handlers that only return: a refused answer, a trigger, an observation.
LEMMA PlainInv ==
  ASSUME IInv, NEW h \in Attempt, Received(h), Returned(h),
         UNCHANGED <<integration, adapterMaps, completion, forgotten, troubles>>,
         at[h].req = "createRoute" => at[h].answer = Refused, at[h].req # "prepare"
  PROVE  IInv'
  <1> USE DEF IInv, adapterMaps
  <1>1. /\ completion' \in Nat /\ completion' <= targetCount
        /\ observation' \in BOOLEAN /\ adapterObservation' \in BOOLEAN
        /\ enrichmentTriggered' \in BOOLEAN /\ troubles' \in 0..MaxTroubles
    BY DEF RecordTypes, MapTypes, integration
  <1>2. EnrichedInv' /\ CompletedIsEnriched'
    BY DEF EnrichedInv, CompletedIsEnriched, Received, servers
  <1> QED BY <1>1, <1>2, ReturnedInv DEF integration

LEMMA TriggeredInv ==
  ASSUME IInv, NEW h \in Attempt, Received(h), at[h].op = "enrich", at[h].answer # Refused, Triggered(h),
         UNCHANGED <<integration, adapterPrepared, adapterObservation, completion, forgotten, troubles>>
  PROVE  IInv'
  <1> USE DEF IInv
  <1>1. at[h].req = "enrich" /\ TargetOK(at[h])
    BY ReceivedBase DEF Asked
  <1>2. /\ completion' \in Nat /\ completion' <= targetCount
        /\ observation' \in BOOLEAN /\ adapterObservation' \in BOOLEAN
        /\ enrichmentTriggered' \in BOOLEAN /\ troubles' \in 0..MaxTroubles
    BY DEF RecordTypes, MapTypes, integration, Triggered
  <1>3. EnrichedInv'
    BY <1>1 DEF EnrichedInv, TargetOK, Received, servers
  <1>4. CompletedIsEnriched'
    BY DEF CompletedIsEnriched, Received, servers
  <1> QED BY <1>1, <1>2, <1>3, <1>4, ReturnedInv DEF Triggered, integration

LEMMA ObservingInv ==
  ASSUME IInv, NEW h \in Attempt, Received(h), at[h].op = "observe", Observing(h),
         UNCHANGED <<gateway, gatewayLeaseRegistered, prepared, targetLeaseRegistered,
                     adapterPrepared, enrichmentTriggered, completion, forgotten, troubles>>
  PROVE  IInv'
  <1> USE DEF IInv
  <1>1. at[h].req = "observe"
    BY ReceivedBase DEF Asked
  <1>2. /\ completion' \in Nat /\ completion' <= targetCount
        /\ observation' \in BOOLEAN /\ adapterObservation' \in BOOLEAN
        /\ enrichmentTriggered' \in BOOLEAN /\ troubles' \in 0..MaxTroubles
    BY DEF RecordTypes, MapTypes, Observing
  <1>3. EnrichedInv' /\ CompletedIsEnriched'
    BY DEF EnrichedInv, CompletedIsEnriched, Received, servers
  <1> QED BY <1>1, <1>2, <1>3, ReturnedInv DEF Observing

\* A handler that has an accepted answer goes on to lease what it got.
LeaseRecord(op, key, hd) ==
  [op |-> op, req |-> "none", arg |-> key, step |-> "lease", answer |-> 0, held |-> hd]

LEMMA LeaseRecordFields ==
  ASSUME NEW op \in {"create-route", "replace-route", "prepare-run"}, NEW key \in Nat, NEW hd \in Nat
  PROVE  LET x == LeaseRecord(op, key, hd)
         IN  /\ x \in Handler /\ x.op = op /\ x.req = "none" /\ x.arg = key
             /\ x.step = "lease" /\ x.answer = 0 /\ x.held = hd
  BY DEF LeaseRecord, Handler, Op, Refused

\* The created route replaces the state's, or the flag says nothing is missing.
LEMMA RouteCreatedInv ==
  ASSUME IInv, NEW h \in Attempt, Received(h), at[h].op = "create-route", at[h].answer # Refused,
         RouteCreated(h),
         UNCHANGED <<prepared, targetLeaseRegistered, observation, adapterMaps, completion, troubles>>
  PROVE  IInv'
  <1> USE DEF IInv
  <1>1. /\ ServerTypes' /\ HandlerOK(at[h]) /\ RouteOK(at[h]) /\ TargetOK(at[h]) /\ at[h] \in Handler
        /\ at[h].req = "createRoute" /\ at[h].step = "answered"
        /\ HandlerOK(Idle)' /\ RouteOK(Idle)' /\ TargetOK(Idle)'
    BY ReceivedBase DEF Asked, Received
  <1>2. PICK new \in Nat : new = at[h].answer /\ new \in 1..routeCount
    BY <1>1 DEF RouteOK, ServerTypes
  <1>3. gateway' = new /\ gatewayLeaseRegistered' = gatewayLeaseRegistered /\ routeCount' = routeCount
        /\ routeCount \in Nat
    BY <1>2 DEF RouteCreated, Received, servers, ServerTypes
  <1>4. MapTypes' /\ EnrichedInv' /\ CompletedIsEnriched' /\ PreparedInv' /\ CleanupInv'
    <2>1. MapTypes' /\ EnrichedInv' /\ CompletedIsEnriched' /\ CleanupInv'
      BY <1>3 DEF MapTypes, EnrichedInv, CompletedIsEnriched, CleanupInv, Received, adapterMaps, servers
    <2>2. PreparedInv'
      BY <1>2, <1>3 DEF PreparedInv, Received, adapterMaps, servers
    <2> QED BY <2>1, <2>2
  <1>5. HasRoute(at[h], new) /\ (\A r : HasRoute(at[h], r) => r = new) /\ (\A t : ~HasTarget(at[h], t))
    BY <1>1, <1>2 DEF HasRoute, HasTarget
  <1>6. prepared.id = target.id /\ ~targetLeaseRegistered => TargetKept(target.id)'
    BY DEF TargetKept, Received, servers
  <1>7. CASE gatewayLeaseRegistered
    <2>1. at' = [at EXCEPT ![h] = Idle] /\ forgotten' = forgotten \cup inHand(h)
      BY <1>7 DEF RouteCreated, Returned
    <2>2. \A g \in Attempt : g # h => HandlerOK(at[g])' /\ RouteOK(at[g])' /\ TargetOK(at[g])'
      BY <1>1, <2>1, OthersStay DEF Received, adapterMaps
    <2>3. HandlersInv' /\ LockInv'
      BY <1>1, <2>1, <2>2, HandlersNext, IdleHandler DEF Received
    <2>4. RecordTypes'
      BY <2>1, HandLease DEF RecordTypes, Received, servers
    <2>5. AccountInv'
      <3>1. RouteKept(new)'
        <4>1. <<"gateway-route", new>> \in inHand(h)
          BY <1>1, <1>5, HandRoute
        <4> QED BY <2>1, <4>1 DEF RouteKept
      <3> QED BY <1>5, <1>6, <1>7, <2>1, <3>1, AccountNext DEF Received
    <2> QED BY <1>1, <1>4, <2>3, <2>4, <2>5
  <1>8. CASE ~gatewayLeaseRegistered
    <2> DEFINE x == LeaseRecord("create-route", new, 0)
    <2>1. at' = [at EXCEPT ![h] = x] /\ forgotten' = forgotten \cup displaced(h)
      BY <1>2, <1>8 DEF RouteCreated, Leasing, LeaseRecord
    <2>2. /\ x \in Handler /\ x.op = "create-route" /\ x.req = "none" /\ x.arg = new
          /\ x.step = "lease" /\ x.answer = 0 /\ x.held = 0
      <3>1. new \in Nat /\ 0 \in Nat
        OBVIOUS
      <3> QED BY ONLY <3>1, LeaseRecordFields
    <2> HIDE DEF x
    <2>3. HandlerOK(x)' /\ RouteOK(x)' /\ TargetOK(x)'
      <3>1. HandlerOK(x)'
        BY <1>1, <2>2 DEF HandlerOK, Received, DemoOnly
      <3>2. RouteOK(x)'
        BY <1>2, <1>3, <2>2 DEF RouteOK
      <3>3. TargetOK(x)'
        BY <2>2 DEF TargetOK
      <3> QED BY <3>1, <3>2, <3>3
    <2>4. /\ \A g \in Attempt : g # h => HandlerOK(at[g])' /\ RouteOK(at[g])' /\ TargetOK(at[g])'
          /\ at'[h] = x /\ \A g \in Attempt : g # h => at'[g] = at[g]
      BY <1>1, <2>1, OthersStay DEF Received, adapterMaps
    <2>5. HandlersInv' /\ LockInv'
      BY <1>1, <2>1, <2>2, <2>3, <2>4, HandlersNext DEF Received
    <2>6. RecordTypes'
      BY <2>1, Displaced DEF RecordTypes, Received, servers
    <2>7. AccountInv'
      <3>1. RouteKept(new)'
        <4>1. HasRoute(at'[h], new)
          BY <2>2, <2>4 DEF HasRoute
        <4> QED BY <4>1 DEF RouteKept
      <3>2. ASSUME NEW r \in routes, gateway = r PROVE RouteKept(r)'
        <4>0. r # 0
          BY DEF ServerTypes
        <4>1. CASE <<"gateway-route", r>> \in displaced(h)
          BY <2>1, <4>1 DEF RouteKept
        <4>2. ASSUME NEW g \in Attempt, HasRoute(at[g], r) PROVE RouteKept(r)'
          <5>1. CASE g = h
            BY <1>5, <3>1, <4>2, <5>1
          <5>2. CASE g # h
            BY <2>4, <4>2, <5>2 DEF RouteKept
          <5> QED BY <5>1, <5>2
        <4> QED BY <1>8, <3>2, <4>0, <4>1, <4>2, Displaced
      <3> QED BY <1>5, <1>6, <2>1, <3>1, <3>2, AccountNext DEF Received
    <2> QED BY <1>1, <1>4, <2>5, <2>6, <2>7
  <1> QED BY <1>7, <1>8

\* replace-route leases the new route before it gives up the old one.
LEMMA ReplacingInv ==
  ASSUME IInv, NEW h \in Attempt, Received(h), at[h].op = "replace-route", at[h].req = "createRoute",
         at[h].answer # Refused, Leasing(h, "replace-route", at[h].answer, at[h].held),
         UNCHANGED <<integration, adapterMaps, completion, forgotten, troubles>>
  PROVE  IInv'
  <1> USE DEF IInv
  <1>1. /\ ServerTypes' /\ HandlerOK(at[h]) /\ RouteOK(at[h]) /\ at[h] \in Handler /\ at[h].step = "answered"
    BY ReceivedBase DEF Received
  <1>2. PICK new \in Nat, old \in Nat :
          new = at[h].answer /\ new \in 1..routeCount /\ old = at[h].held /\ old <= routeCount /\ old # 0
    BY <1>1 DEF RouteOK, ServerTypes, Handler
  <1> DEFINE x == LeaseRecord("replace-route", new, old)
  <1>3. at' = [at EXCEPT ![h] = x]
    BY <1>2 DEF Leasing, LeaseRecord
  <1>4. /\ x \in Handler /\ x.op = "replace-route" /\ x.req = "none" /\ x.arg = new
        /\ x.step = "lease" /\ x.answer = 0 /\ x.held = old
    BY LeaseRecordFields
  <1> HIDE DEF x
  <1>5. HandlerOK(x)' /\ RouteOK(x)' /\ TargetOK(x)'
    <2>1. HandlerOK(x)'
      BY <1>1, <1>4 DEF HandlerOK, Received, DemoOnly
    <2>2. RouteOK(x)'
      BY <1>2, <1>4 DEF RouteOK, Received, servers
    <2>3. TargetOK(x)'
      BY <1>4 DEF TargetOK
    <2> QED BY <2>1, <2>2, <2>3
  <1>6. /\ \A g \in Attempt : g # h => HandlerOK(at[g])' /\ RouteOK(at[g])' /\ TargetOK(at[g])'
        /\ at'[h] = x
    BY <1>1, <1>3, OthersStay DEF Received, integration, adapterMaps
  <1>7. HandlersInv' /\ LockInv'
    BY <1>1, <1>3, <1>4, <1>5, <1>6, HandlersNext DEF Received
  <1>8. MapTypes' /\ RecordTypes' /\ EnrichedInv' /\ CompletedIsEnriched'
    BY DEF MapTypes, RecordTypes, EnrichedInv, CompletedIsEnriched, Received, integration, adapterMaps, servers
  <1>9. PreparedInv' /\ CleanupInv'
    BY DEF PreparedInv, CleanupInv, Received, integration, adapterMaps, servers
  <1>10. AccountInv'
    <2>1. /\ \A r : HasRoute(at[h], r) => HasRoute(at'[h], r)
          /\ \A t : ~HasTarget(at[h], t)
      BY <1>1, <1>2, <1>4, <1>6 DEF HasRoute, HasTarget
    <2>2. \A r : HasRoute(at[h], r) => RouteKept(r)'
      BY <2>1 DEF RouteKept
    <2>3. \A r : gateway = r /\ ~gatewayLeaseRegistered => RouteKept(r)'
      BY DEF RouteKept, integration
    <2>4. prepared.id = target.id /\ ~targetLeaseRegistered => TargetKept(target.id)'
      BY DEF TargetKept, integration, Received, servers
    <2> QED BY <1>3, <2>1, <2>2, <2>3, <2>4, AccountNext DEF Received
  <1> QED BY <1>1, <1>7, <1>8, <1>9, <1>10

\* A preparation finds the workspace the run knows already, if it knows one.
LEMMA PreparedStepInv ==
  ASSUME IInv, NEW h \in Attempt, Received(h), at[h].op = "prepare-run", at[h].answer # Refused, Prepared(h),
         UNCHANGED <<gateway, gatewayLeaseRegistered, targetLeaseRegistered, observation,
                     adapterObservation, enrichmentTriggered, completion, forgotten, troubles>>
  PROVE  IInv'
  <1> USE DEF IInv
  <1>1. /\ ServerTypes' /\ HandlerOK(at[h]) /\ RouteOK(at[h]) /\ TargetOK(at[h]) /\ at[h] \in Handler
        /\ at[h].req = "prepare" /\ at[h].step = "answered"
        /\ HandlerOK(Idle)' /\ RouteOK(Idle)' /\ TargetOK(Idle)'
    BY ReceivedBase DEF Asked, Received
  <1>2. PICK id \in Nat : id = at[h].answer % Redacted /\ id \in 1..targetCount
    BY <1>1 DEF TargetOK, ServerTypes
  <1>3. phase = "running"
    BY <1>1 DEF HandlerOK, GatewayRequest
  <1>4. /\ host = "engine" => id = target.id /\ prepared.id \in {0, id} /\ adapterPrepared.id \in {0, id}
        /\ host = "demo" => prepared.id = 0 /\ adapterPrepared.id = 0
        /\ id # 0 /\ targetCount \in Nat /\ target.id \in Nat /\ id <= targetCount
        /\ prepared.id \in Nat /\ adapterPrepared.id \in Nat
        /\ host \in {"engine", "demo"}
    BY <1>1, <1>2, <1>3
       DEF TargetOK, PreparedInv, Nobody, ServerTypes, Workspace, MapTypes, Preparation, RecordTypes
  <1>5. PICK token \in Nat : prepared' = [id |-> id, token |-> token] /\ adapterPrepared' = prepared'
    BY <1>2 DEF Prepared
  <1>6. prepared'.id = id /\ adapterPrepared'.id = id /\ prepared' \in Preparation /\ adapterPrepared' \in Preparation
    BY <1>5 DEF Preparation
  <1>7. MapTypes' /\ RecordTypes' /\ CompletedIsEnriched'
    BY <1>6 DEF MapTypes, RecordTypes, CompletedIsEnriched, Received, servers
  <1>8. PreparedInv'
    <2>1. targetLeaseRegistered => prepared.id = id
      BY <1>4 DEF PreparedInv
    <2> QED BY <1>4, <1>6, <2>1 DEF PreparedInv, Received, servers
  <1>9. EnrichedInv'
    BY <1>4, <1>6 DEF EnrichedInv, Received, servers
  <1>10. CleanupInv'
    BY <1>4, <1>6 DEF CleanupInv, Received, servers
  <1>11. ASSUME NEW x, at' = [at EXCEPT ![h] = x], NEW g \in Attempt, g # h
         PROVE  HandlerOK(at[g])' /\ RouteOK(at[g])' /\ TargetOK(at[g])'
    <2>1. CASE host = "demo"
      BY <1>1, <1>11, <2>1, OthersDemo
    <2>2. CASE host = "engine"
      <3>1. PICK z : z = at[g] /\ z = at'[g]
        BY <1>11 DEF HandlersInv
      <3>2. HandlerOK(z) /\ RouteOK(z) /\ TargetOK(z)
        BY <3>1 DEF HandlersInv
      <3>3. /\ z.op # "cleanup-run"
            /\ z.op = "prepare-run" /\ z.step = "lease" => prepared'.id = prepared.id
            /\ z.op \in {"wait", "enrich"} => adapterPrepared'.id = adapterPrepared.id
        BY <1>4, <1>6, <2>2, <3>2 DEF HandlerOK, TargetOK, DemoOnly
      <3>4. HandlerOK(z)' /\ RouteOK(z)' /\ TargetOK(z)'
        BY <1>1, <2>2, <3>2, <3>3, OtherOK DEF Received, servers, ServerTypes
      <3> QED BY <3>1, <3>4
    <2> QED BY <1>4, <2>1, <2>2
  <1>12. /\ \A r : ~HasRoute(at[h], r)
         /\ \A t : HasTarget(at[h], t) => t = id
         /\ \A r : gateway = r /\ ~gatewayLeaseRegistered => RouteKept(r)'
    BY <1>1, <1>2 DEF HasRoute, HasTarget, RouteKept
  <1>13. prepared.id = target.id /\ target.id # 0 /\ ~targetLeaseRegistered => TargetKept(target.id)'
    BY <1>4, <1>6 DEF TargetKept, Received, servers
  <1>14. CASE targetLeaseRegistered
    <2>1. at' = [at EXCEPT ![h] = Idle]
      BY <1>14 DEF Prepared, Returned
    <2>2. HandlersInv' /\ LockInv'
      BY <1>1, <1>11, <2>1, HandlersNext, IdleHandler DEF Received
    <2>3. target.id = id => TargetKept(target.id)'
      <3>1. target.id = id => <<"target-run", target.id>> \in leases
        BY <1>4, <1>14 DEF PreparedInv
      <3> QED BY <3>1 DEF TargetKept, Received, servers
    <2>4. AccountInv'
      BY <1>12, <1>13, <2>1, <2>3, AccountNext DEF Received
    <2> QED BY <1>1, <1>7, <1>8, <1>9, <1>10, <2>2, <2>4
  <1>15. CASE ~targetLeaseRegistered
    <2> DEFINE x == LeaseRecord("prepare-run", id, 0)
    <2>1. at' = [at EXCEPT ![h] = x]
      BY <1>2, <1>15 DEF Prepared, Leasing, LeaseRecord
    <2>2. /\ x \in Handler /\ x.op = "prepare-run" /\ x.req = "none" /\ x.arg = id
          /\ x.step = "lease" /\ x.answer = 0 /\ x.held = 0
      BY LeaseRecordFields
    <2> HIDE DEF x
    <2>3. HandlerOK(x)' /\ RouteOK(x)' /\ TargetOK(x)'
      <3>1. HandlerOK(x)'
        BY <1>3, <2>2 DEF HandlerOK, Received, DemoOnly
      <3>2. RouteOK(x)'
        BY <1>1, <2>2 DEF RouteOK, ServerTypes
      <3>3. TargetOK(x)'
        BY <1>4, <1>6, <2>2 DEF TargetOK
      <3> QED BY <3>1, <3>2, <3>3
    <2>4. HandlersInv' /\ LockInv'
      BY <1>1, <1>11, <2>1, <2>2, <2>3, HandlersNext DEF Received
    <2>5. target.id = id => TargetKept(target.id)'
      BY <1>6, <1>15 DEF TargetKept, Received, servers
    <2>6. AccountInv'
      BY <1>12, <1>13, <2>1, <2>5, AccountNext DEF Received
    <2> QED BY <1>1, <1>7, <1>8, <1>9, <1>10, <2>4, <2>6
  <1> QED BY <1>14, <1>15

\* The demo service's handlers that forget the run: no cleanup of the run's own,
\* no other handler, and the adapter's maps are the workspace's or empty.
LEMMA ForgettingInv ==
  ASSUME IInv, NEW h \in Attempt, Received(h), host = "demo", Returned(h), forgetRun,
         \/ /\ adapterPrepared' = Nobody /\ adapterObservation' = FALSE /\ enrichmentTriggered' = FALSE
         \/ UNCHANGED adapterMaps,
         UNCHANGED <<completion, troubles>>, forgotten \subseteq forgotten', forgotten' \subseteq Lease,
         at[h].req \notin {"createRoute", "prepare"},
         \A r \in routes : gateway = r /\ ~gatewayLeaseRegistered => <<"gateway-route", r>> \in forgotten',
         target.id # 0 /\ prepared.id = target.id /\ ~targetLeaseRegistered =>
           <<"target-run", target.id>> \in forgotten'
  PROVE  IInv'
  <1> USE DEF IInv
  <1>1. /\ ServerTypes' /\ HandlerOK(Idle)' /\ RouteOK(Idle)' /\ TargetOK(Idle)' /\ at' = [at EXCEPT ![h] = Idle]
        /\ RouteOK(at[h]) /\ at[h].step = "answered"
    BY ReceivedBase DEF Returned, Received
  <1>2. \A g \in Attempt : g # h => HandlerOK(at[g])' /\ RouteOK(at[g])' /\ TargetOK(at[g])'
    BY <1>1, OthersDemo
  <1>3. HandlersInv' /\ LockInv'
    BY <1>1, <1>2, HandlersNext, IdleHandler DEF Received
  <1>4. /\ gateway' = 0 /\ gatewayLeaseRegistered' = FALSE
        /\ prepared' = Nobody /\ targetLeaseRegistered' = FALSE /\ observation' = FALSE
        /\ Nobody.id = 0 /\ Nobody \in Preparation
    BY DEF forgetRun, Nobody, Preparation
  <1>5. MapTypes'
    BY <1>4 DEF MapTypes, adapterMaps
  <1>6. RecordTypes' /\ CompletedIsEnriched'
    BY DEF RecordTypes, CompletedIsEnriched, Received, servers
  <1>7. PreparedInv'
    <2>1. adapterPrepared'.id <= targetCount /\ (adapterPrepared'.id = 0 => adapterPrepared' = Nobody)
      BY <1>4 DEF PreparedInv, adapterMaps, ServerTypes
    <2> QED BY <1>1, <1>4, <2>1 DEF PreparedInv, ServerTypes, Received, servers
  <1>8. EnrichedInv'
    BY DEF EnrichedInv, adapterMaps, Received, servers
  <1>9. CleanupInv'
    BY DEF CleanupInv, Received, servers, RecordTypes
  <1>10. AccountInv'
    <2>1. \A r \in routes : ~HasRoute(at[h], r)
      BY <1>1 DEF HasRoute, RouteOK
    <2>2. \A t : ~HasTarget(at[h], t)
      BY <1>1 DEF HasTarget
    <2>3. \A r \in routes : gateway = r /\ ~gatewayLeaseRegistered => RouteKept(r)'
      BY DEF RouteKept
    <2>4. target.id # 0 /\ prepared.id = target.id /\ ~targetLeaseRegistered => TargetKept(target.id)'
      BY DEF TargetKept, Received, servers
    <2> QED BY <1>1, <2>1, <2>2, <2>3, <2>4, AccountNext DEF Received
  <1> QED BY <1>1, <1>3, <1>5, <1>6, <1>7, <1>8, <1>9, <1>10

LEMMA HibernatedInv ==
  ASSUME IInv, NEW h \in Attempt, Received(h), at[h].op \in {"hibernate", "cleanup-target"}, Hibernated(h),
         UNCHANGED <<completion, troubles>>
  PROVE  IInv'
  <1> USE DEF IInv
  <1>1. host = "demo" /\ at[h].req \notin {"createRoute", "prepare"}
    BY ReceivedBase DEF HandlerOK, Asked, DemoOnly
  <1>2. \/ /\ adapterPrepared' = Nobody /\ adapterObservation' = FALSE /\ enrichmentTriggered' = FALSE
        \/ UNCHANGED adapterMaps
    BY DEF Hibernated, purge
  <1>3. forgotten' = forgotten \cup held /\ Returned(h) /\ forgetRun
    BY DEF Hibernated
  <1>4. forgotten' \subseteq Lease
    BY <1>3, HeldLease DEF RecordTypes
  <1>5. \A r \in routes : gateway = r /\ ~gatewayLeaseRegistered => <<"gateway-route", r>> \in forgotten'
    BY <1>3, HeldFacts DEF ServerTypes
  <1>6. target.id # 0 /\ prepared.id = target.id /\ ~targetLeaseRegistered => <<"target-run", target.id>> \in forgotten'
    BY <1>3, HeldFacts
  <1>7. forgotten \subseteq forgotten'
    BY <1>3
  <1> QED BY <1>1, <1>2, <1>3, <1>4, <1>5, <1>6, <1>7, ForgettingInv

LEMMA CleanedUpInv ==
  ASSUME IInv, NEW h \in Attempt, Received(h), at[h].op = "cleanup-run", CleanedUp(h),
         UNCHANGED <<completion, troubles>>
  PROVE  IInv'
  <1> USE DEF IInv
  <1>1. /\ ServerTypes' /\ HandlerOK(at[h]) /\ RouteOK(at[h]) /\ TargetOK(at[h]) /\ at[h] \in Handler
        /\ at[h].step = "answered" /\ host = "demo" /\ at[h].req \in {"delete", "deleteRoute"}
    BY ReceivedBase DEF HandlerOK, Asked, DemoOnly, Received
  <1>2. at[h].req = "delete" => /\ at[h].arg = adapterPrepared.id /\ at[h].arg # 0 /\ target.id # at[h].arg
                                /\ prepared.id \in {0, at[h].arg}
    BY <1>1 DEF TargetOK, PreparedInv
  <1>3. ASSUME at[h].req = "delete", purge(at[h].arg)
        PROVE  adapterPrepared' = Nobody /\ adapterObservation' = FALSE /\ enrichmentTriggered' = FALSE
    BY <1>2, <1>3 DEF purge
  <1>4. CASE /\ at[h].req = "delete" /\ gateway = 0 /\ purge(at[h].arg)
             /\ Returned(h) /\ forgetRun /\ UNCHANGED forgotten
    <2>1. \A r \in routes : r # gateway
      BY <1>4 DEF ServerTypes
    <2>2. forgotten' \subseteq Lease
      BY <1>4 DEF RecordTypes
    <2> QED BY <1>1, <1>2, <1>3, <1>4, <2>1, <2>2, ForgettingInv
  <1>5. CASE /\ at[h].req = "deleteRoute" /\ Returned(h) /\ forgetRun
             /\ forgotten' = forgotten \cup {r \in held : r[1] = "target-run"}
             /\ UNCHANGED adapterMaps
    <2>1. \A r \in routes : r # gateway
      BY <1>1, <1>5 DEF RouteOK
    <2>2. forgotten' \subseteq Lease /\ forgotten \subseteq forgotten'
      BY <1>5, HeldLease DEF RecordTypes
    <2>3. target.id # 0 /\ prepared.id = target.id /\ ~targetLeaseRegistered =>
            <<"target-run", target.id>> \in forgotten'
      BY <1>5, HeldFacts
    <2> QED BY <1>1, <1>5, <2>1, <2>2, <2>3, ForgettingInv
  <1>6. CASE /\ at[h].req = "delete" /\ gateway # 0 /\ purge(at[h].arg)
             /\ Awaiting(h, "cleanup-run", "deleteRoute", gateway, 0)
             /\ UNCHANGED <<integration, forgotten>>
    <2>1. PICK gw \in Nat : gw = gateway /\ gw # 0 /\ gw <= routeCount
      BY <1>6 DEF MapTypes, PreparedInv
    <2> DEFINE x == [op |-> "cleanup-run", req |-> "deleteRoute", arg |-> gw, step |-> "sent",
                     answer |-> 0, held |-> 0]
    <2>2. /\ x \in Handler /\ x.op = "cleanup-run" /\ x.req = "deleteRoute" /\ x.arg = gw
          /\ x.step = "sent" /\ x.answer = 0 /\ x.held = 0 /\ at' = [at EXCEPT ![h] = x]
      BY <1>6, <2>1 DEF Handler, Op, Request, Refused, Awaiting
    <2> HIDE DEF x
    <2>3. HandlerOK(x)' /\ RouteOK(x)' /\ TargetOK(x)'
      <3>0. phase = "running"
        BY <1>1 DEF HandlerOK
      <3>1. HandlerOK(x)'
        BY <1>1, <2>2, <3>0 DEF HandlerOK, Received, Asked
      <3>2. RouteOK(x)'
        BY <1>1, <1>6, <2>1, <2>2 DEF RouteOK, ServerTypes, Received, servers, integration
      <3>3. TargetOK(x)'
        BY <2>2 DEF TargetOK
      <3> QED BY <3>1, <3>2, <3>3
    <2>4. \A g \in Attempt : g # h => HandlerOK(at[g])' /\ RouteOK(at[g])' /\ TargetOK(at[g])'
      BY <1>1, <2>2, OthersDemo
    <2>5. HandlersInv' /\ LockInv'
      BY <1>1, <2>2, <2>3, <2>4, HandlersNext DEF Received
    <2>6. /\ adapterPrepared' = Nobody /\ adapterObservation' = FALSE /\ enrichmentTriggered' = FALSE
          /\ Nobody.id = 0 /\ Nobody \in Preparation
      BY <1>3, <1>6 DEF Nobody, Preparation
    <2>7. MapTypes' /\ RecordTypes' /\ EnrichedInv' /\ CompletedIsEnriched'
      BY <1>6, <2>6 DEF MapTypes, RecordTypes, EnrichedInv, CompletedIsEnriched, Received, integration, servers
    <2>8. PreparedInv' /\ CleanupInv'
      <3>1. CleanupInv'
        BY <1>1 DEF CleanupInv, Received, servers, RecordTypes
      <3>2. PreparedInv'
        BY <1>1, <1>6, <2>6 DEF PreparedInv, Received, integration, servers, ServerTypes
      <3> QED BY <3>1, <3>2
    <2>9. AccountInv'
      <3>1. \A r : ~HasRoute(at[h], r)
        BY <1>1, <1>6 DEF HasRoute
      <3>2. \A t : ~HasTarget(at[h], t)
        BY <1>1, <1>6 DEF HasTarget
      <3>3. \A r : gateway = r /\ ~gatewayLeaseRegistered => RouteKept(r)'
        BY <1>6 DEF RouteKept, integration
      <3>4. prepared.id = target.id /\ ~targetLeaseRegistered => TargetKept(target.id)'
        BY <1>6 DEF TargetKept, integration, Received, servers
      <3> QED BY <1>6, <2>2, <3>1, <3>2, <3>3, <3>4, AccountNext DEF Received
    <2> QED BY <1>1, <2>5, <2>7, <2>8, <2>9
  <1> QED BY <1>4, <1>5, <1>6 DEF CleanedUp

LEMMA ReceiveInv == ASSUME IInv, NEW h \in Attempt, Receive(h) PROVE IInv'
  <1> USE DEF IInv
  <1>1. Received(h)
    BY DEF Receive, Received
  <1>2. TargetOK(at[h]) /\ Asked(at[h].op, at[h].req)
    BY <1>1, ReceivedBase
  <1>3. CASE at[h].answer = Refused
    <2>1. Returned(h) /\ UNCHANGED <<integration, adapterMaps, completion, forgotten, troubles>>
      BY <1>3 DEF Receive
    <2>2. at[h].req # "prepare"
      BY <1>1, <1>2, <1>3 DEF TargetOK, Received
    <2> QED BY <1>1, <1>3, <2>1, <2>2, PlainInv
  <1>4. CASE at[h].answer # Refused
    <2>0. Answered(h)
      BY <1>4 DEF Receive
    <2>1. CASE /\ at[h].op = "create-route" /\ RouteCreated(h)
               /\ UNCHANGED <<prepared, targetLeaseRegistered, observation, adapterMaps, completion, troubles>>
      BY <1>1, <1>4, <2>1, RouteCreatedInv
    <2>2. CASE /\ at[h].op = "replace-route" /\ at[h].req = "createRoute"
               /\ Leasing(h, at[h].op, at[h].answer, at[h].held)
               /\ UNCHANGED <<integration, adapterMaps, completion, forgotten, troubles>>
      BY <1>1, <1>4, <2>2, ReplacingInv
    <2>3. CASE /\ at[h].op = "prepare-run" /\ Prepared(h)
               /\ UNCHANGED <<gateway, gatewayLeaseRegistered, targetLeaseRegistered, observation,
                              adapterObservation, enrichmentTriggered, completion, forgotten, troubles>>
      BY <1>1, <1>4, <2>3, PreparedStepInv
    <2>4. CASE /\ at[h].op = "enrich" /\ Triggered(h)
               /\ UNCHANGED <<integration, adapterPrepared, adapterObservation, completion, forgotten, troubles>>
      BY <1>1, <1>4, <2>4, TriggeredInv
    <2>5. CASE /\ at[h].op = "observe" /\ Observing(h)
               /\ UNCHANGED <<gateway, gatewayLeaseRegistered, prepared, targetLeaseRegistered,
                              adapterPrepared, enrichmentTriggered, completion, forgotten, troubles>>
      BY <1>1, <1>4, <2>5, ObservingInv
    <2>6. CASE /\ at[h].op = "wait" /\ Waited(h)
               /\ UNCHANGED <<integration, adapterPrepared, adapterObservation, forgotten>>
      BY <1>1, <1>4, <2>6, WaitedInv
    <2>7. CASE /\ \/ at[h].op = "cleanup-run" /\ CleanedUp(h)
                  \/ at[h].op \in {"hibernate", "cleanup-target"} /\ Hibernated(h)
               /\ UNCHANGED <<completion, troubles>>
      BY <1>1, <2>7, CleanedUpInv, HibernatedInv
    <2>8. CASE /\ \/ at[h].op \in {"ledger", "outcome"} /\ Collected(h)
                  \/ at[h].op = "resume" /\ Resumed(h)
                  \/ at[h].op \in {"vendors", "site"} /\ Configured(h)
                  \/ at[h].op = "replace-route" /\ at[h].req = "deleteRoute" /\ Configured(h)
               /\ UNCHANGED <<completion, forgotten, troubles>>
      <3>1. Returned(h) /\ UNCHANGED <<integration, adapterMaps, completion, forgotten, troubles>>
        BY <2>8 DEF Collected, Resumed, Configured
      <3>2. at[h].req \notin {"createRoute", "prepare"}
        BY <1>2, <2>8 DEF Asked
      <3> QED BY <1>1, <3>1, <3>2, PlainInv
    <2> QED BY <2>0, <2>1, <2>2, <2>3, <2>4, <2>5, <2>6, <2>7, <2>8 DEF Answered
  <1> QED BY <1>3, <1>4

-----------------------------------------------------------------------------
(* The theorems                                                            *)

LEMMA StutterInv == IInv /\ UNCHANGED vars => IInv'
  <1> SUFFICES ASSUME IInv, UNCHANGED vars PROVE IInv'
    OBVIOUS
  <1> USE DEF IInv, vars, integration, adapterMaps, servers, records, ghosts
  <1>1. MapTypes' /\ ServerTypes' /\ RecordTypes'
    BY DEF MapTypes, ServerTypes, RecordTypes
  <1>2. ASSUME NEW h \in Attempt
        PROVE  HandlerOK(at[h])' /\ RouteOK(at[h])' /\ TargetOK(at[h])'
    <2>1. HandlerOK(at[h]) /\ RouteOK(at[h]) /\ TargetOK(at[h])
      BY DEF HandlersInv
    <2> QED BY <2>1 DEF HandlerOK, RouteOK, TargetOK
  <1>3. HandlersInv' /\ LockInv'
    <2>1. at' \in [Attempt -> Handler]
      BY DEF HandlersInv
    <2>2. LockInv'
      BY DEF LockInv
    <2> QED BY <1>2, <2>1, <2>2 DEF HandlersInv
  <1>4. PreparedInv' /\ EnrichedInv' /\ CleanupInv' /\ CompletedIsEnriched'
    BY DEF PreparedInv, EnrichedInv, CleanupInv, CompletedIsEnriched
  <1>5. AccountInv'
    BY DEF AccountInv, RouteKept, TargetKept
  <1> QED BY <1>1, <1>3, <1>4, <1>5

LEMMA NextInv == IInv /\ [Next]_vars => IInv'
  <1> SUFFICES ASSUME IInv, [Next]_vars PROVE IInv'
    OBVIOUS
  <1>1. ASSUME NEW h \in Attempt, StartHandler(h) PROVE IInv'
    BY <1>1, StartHandlerInv
  <1>2. ASSUME NEW h \in Attempt, Serve(h) PROVE IInv'
    BY <1>2, ServeInvH
  <1>3. ASSUME NEW h \in Attempt, Receive(h) PROVE IInv'
    BY <1>3, ReceiveInv
  <1>4. ASSUME NEW h \in Attempt, Lose(h) PROVE IInv'
    BY <1>4, LoseInv
  <1>5. ASSUME NEW h \in Attempt, NEW ok \in BOOLEAN, RegisterLease(h, ok) PROVE IInv'
    BY <1>5, RegisterLeaseInv
  <1>6. ASSUME NEW q \in lost, ServeLost(q) PROVE IInv'
    BY <1>6, ServeLostInv
  <1>7. CASE TargetCompletes
    BY <1>7, TargetCompletesInv
  <1>8. ASSUME NEW r \in Route, RouteExpires(r) PROVE IInv'
    BY <1>8, RouteExpiresInv
  <1>9. CASE Finish \/ EndCleaning
    BY <1>9, FinishInv
  <1>10. CASE Clean
    BY <1>10, CleanInv
  <1>11. CASE Crash
    BY <1>11, CrashInv
  <1>12. ASSUME NEW lease \in leases, Recover(lease) PROVE IInv'
    BY <1>12, RecoverInv
  <1>13. CASE UNCHANGED vars
    BY <1>13, StutterInv
  <1> QED BY <1>1, <1>2, <1>3, <1>4, <1>5, <1>6, <1>7, <1>8, <1>9, <1>10, <1>11, <1>12, <1>13 DEF Next

\* The inductive invariant holds in every reachable state of either adapter.
THEOREM InvCorrect == FairSpec => []IInv
  BY InitInv, NextInv, PTL DEF FairSpec

\* For any number of handlers, routes, workspaces and faults: a live route or
\* workspace is named by a lease, by the run's state or by a handler about to
\* lease or delete it, or a fault made the run forget it.
THEOREM NothingUnaccountedCorrect == FairSpec => []NothingUnaccounted
  <1>1. IInv => NothingUnaccounted
    BY AccountImplies DEF IInv
  <1> QED BY <1>1, InvCorrect, PTL

\* A recorded completion is of a workspace that was told to enrich, however the
\* polls, the triggers and the retries of wait-for-completion interleave.
THEOREM CompletedIsEnrichedCorrect == FairSpec => []CompletedIsEnriched
  <1>1. IInv => CompletedIsEnriched
    BY DEF IInv
  <1> QED BY <1>1, InvCorrect, PTL

\* Only the cleaners release leases.
LEMMA ReleaseStep ==
  ASSUME IInv, Next, NEW lease \in leases, lease \notin leases'
  PROVE  (Clean /\ lease = Last(cleanups) /\ ~Trouble) \/ Recover(lease)
  <1>1. ASSUME NEW h \in Attempt, StartHandler(h) \/ Serve(h) \/ Receive(h) \/ Lose(h) PROVE FALSE
    BY <1>1 DEF StartHandler, Serve, Receive, Lose, records
  <1>2. ASSUME NEW h \in Attempt, NEW ok \in BOOLEAN, RegisterLease(h, ok) PROVE FALSE
    BY <1>2 DEF RegisterLease
  <1>3. ASSUME NEW q \in lost, ServeLost(q) PROVE FALSE
    BY <1>3 DEF ServeLost, records
  <1>4. CASE TargetCompletes \/ (\E r \in Route : RouteExpires(r)) \/ Finish \/ EndCleaning \/ Crash
    BY <1>4 DEF TargetCompletes, RouteExpires, Finish, EndCleaning, Crash, records
  <1>5. CASE Clean
    BY <1>5 DEF Clean, cleanupRun, ghosts, Trouble, IInv, RecordTypes
  <1>6. ASSUME NEW l \in leases, Recover(l) PROVE Recover(lease)
    BY <1>6 DEF Recover
  <1> QED BY <1>1, <1>2, <1>3, <1>4, <1>5, <1>6 DEF Next

\* A route or a workspace whose lease a cleaner releases is gone.
LEMMA ReleaseGone ==
  ASSUME IInv, Next, NEW lease \in leases, lease \notin leases' PROVE lease \notin live'
  <1> USE DEF IInv
  <1>0. lease \in Lease
    BY DEF RecordTypes
  <1>1. live' = {<<"gateway-route", r>> : r \in routes'} \cup
                (IF target'.id = 0 \/ target'.hibernated THEN {} ELSE {<<"target-run", target'.id>>})
    BY DEF live
  <1>2. CASE Recover(lease)
    <2>1. CASE lease[1] = "gateway-route"
      <3>1. routes' = routes \ {lease[2]}
        BY <1>2, <2>1 DEF Recover
      <3> QED BY <1>1, <2>1, <3>1
    <2>2. CASE lease[1] # "gateway-route"
      <3>1. target' = IF target.id = lease[2] THEN NoTarget ELSE target
        BY <1>2, <2>2 DEF Recover
      <3>2. lease[2] # 0 /\ NoTarget.id = 0
        BY <1>0, <2>2 DEF Lease, Id, NoTarget
      <3>3. target'.id # lease[2]
        BY <3>1, <3>2
      <3> QED BY <1>1, <2>2, <3>3
    <2> QED BY <2>1, <2>2
  <1>3. CASE Clean /\ lease = Last(cleanups) /\ ~Trouble
    <2>0. PICK s \in Seq(Lease) : s = cleanups /\ s # <<>>
      BY <1>3 DEF RecordTypes, Clean
    <2>1. Len(cleanups) \in 1..Len(cleanups) /\ lease = cleanups[Len(cleanups)]
      BY <1>3, <2>0, FrontLast
    <2>2. CASE lease[1] = "gateway-route"
      <3>1. routes' = routes \ {lease[2]}
        BY <1>3, <2>2 DEF Clean
      <3> QED BY <1>1, <2>2, <3>1
    <2>3. CASE lease[1] # "gateway-route"
      <3>0. lease[1] = "target-run" /\ lease[2] # 0 /\ NoTarget.id = 0 /\ Nobody.id = 0
        BY <1>0, <2>3 DEF Lease, Id, NoTarget, Nobody
      <3>1. target' = IF adapterPrepared # Nobody /\ target.id = adapterPrepared.id THEN NoTarget ELSE target
        BY <1>3, <2>3 DEF Clean, cleanupRun
      <3>2. target.id = lease[2] => adapterPrepared.id = lease[2]
        BY <2>1, <3>0 DEF CleanupInv
      <3>3. target'.id # lease[2]
        BY <3>0, <3>1, <3>2
      <3> QED BY <1>1, <2>3, <3>3
    <2> QED BY <2>2, <2>3
  <1> QED BY <1>2, <1>3, ReleaseStep

\* No step releases the lease of a workspace or a route that stays live: neither
\* the run's own cleanup, which trusts the adapter's memory of the workspace, nor
\* the persisted cleaners, which have only the lease's key.
THEOREM ReleasedIsGoneCorrect == FairSpec => ReleasedIsGone
  <1>1. IInv /\ [Next]_vars => [\A lease \in leases \ leases' : lease \notin live']_vars
    BY ReleaseGone
  <1> QED BY <1>1, InvCorrect, PTL DEF FairSpec, ReleasedIsGone
=============================================================================
