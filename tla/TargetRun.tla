------------------------------ MODULE TargetRun ------------------------------
(***************************************************************************)
(* The gateway route and the target workspace of one run: the handlers of  *)
(* packages/target-adapter, the state they share, the maps of the GL-EYE   *)
(* and reference-SUT adapters, the route registry of the gateway, the      *)
(* leases, and the two ways a lease is cleaned: by the run that took it,   *)
(* or by the persisted cleaners after a crash.                             *)
(*                                                                         *)
(* A handler shares its state with every other attempt of the run: the     *)
(* executor abandons a timed-out handler without stopping it, and branches *)
(* run side by side.  A request whose caller gave up may still be served.  *)
(***************************************************************************)
EXTENDS Naturals, FiniteSets, Sequences, SequencesExt

CONSTANTS
  Adapter,      \* "gl-eye" or "reference-sut"
  Attempt,      \* handlers that may be in flight at once
  RouteInput,   \* inputs of the route handlers
  MaxRoutes, MaxTargets,   \* bounds: routes and workspaces ever created
  MaxRouteTtlMs,
  MaxStarts,    \* bound: handlers started
  MaxTroubles   \* bound: lost answers, failed writes, failed cleanups, crashes

ASSUME AdapterAssumption == Adapter \in {"gl-eye", "reference-sut"}

VARIABLES
  gateway, gatewayLeaseRegistered,          \* RunIntegrationState
  prepared, targetLeaseRegistered, observation,
  adapterPrepared, adapterObservation, enrichmentTriggered,  \* the adapter's maps
  at,         \* at[h]: the handler, the request it awaits and what it holds
  lost,       \* requests nobody waits for that the server may still serve
  routes, routeCount,      \* the registry's live routes
  target,     \* the workspace: its id (0: none) and what was done to it
  targetCount,
  leases,     \* the persisted leases that are not released
  cleanups,   \* the run's own cleanups, in registration order
  completion, \* the workspace whose completion was observed and recorded
  host,       \* who calls the handlers: the scenario "engine" or the "demo" service
  phase,      \* "running", "cleaning", "over", "crashed"
  starts,
  forgotten,  \* resources a fault made the run lose sight of
  troubles

integration == <<gateway, gatewayLeaseRegistered, prepared, targetLeaseRegistered, observation>>
adapterMaps == <<adapterPrepared, adapterObservation, enrichmentTriggered>>
servers == <<routes, routeCount, target, targetCount>>
records == <<leases, cleanups, completion>>
ghosts == <<host, starts, forgotten, troubles>>
vars == <<integration, adapterMaps, at, lost, servers, records, phase, ghosts>>

Nobody == [id |-> 0, token |-> 0]     \* no preparation; token 0 is accepted by no target
Idle == [op |-> "none", req |-> "none", arg |-> 0, step |-> "idle", answer |-> 0, held |-> 0]
NoTarget == [id |-> 0, hibernated |-> FALSE, enriched |-> FALSE, completed |-> FALSE]
Route == 1..MaxRoutes
Id == 1..MaxTargets
Refused == 99                         \* the answer of a request with a status the caller refuses
Redacted == 50                        \* added to the answer of a preparation without its token
\* The numbers that stand for answers are kept apart.
ASSUME BoundAssumption ==
  /\ MaxRoutes \in Nat /\ MaxRoutes < Refused /\ MaxTargets \in Nat /\ MaxTargets + Redacted < Refused
  /\ MaxRouteTtlMs \in Nat /\ MaxStarts \in Nat /\ MaxTroubles \in Nat

Lease == ({"gateway-route"} \X Route) \cup ({"target-run"} \X Id)
\* The handlers only the demo service calls.
DemoOnly == {"hibernate", "resume", "cleanup-target", "cleanup-run"}
GatewayRequest == {"createRoute", "deleteRoute", "ledger"}
Trouble == troubles < MaxTroubles /\ troubles' = troubles + 1

Init ==
  /\ gateway = 0 /\ gatewayLeaseRegistered = FALSE
  /\ prepared = Nobody /\ targetLeaseRegistered = FALSE /\ observation = FALSE
  /\ adapterPrepared = Nobody /\ adapterObservation = FALSE /\ enrichmentTriggered = FALSE
  /\ at = [h \in Attempt |-> Idle] /\ lost = {}
  /\ routes = {} /\ routeCount = 0 /\ target = NoTarget /\ targetCount = 0
  /\ leases = {} /\ cleanups = <<>> /\ completion = 0
  /\ host \in {"engine", "demo"} /\ phase = "running" /\ starts = 0
  /\ forgotten = {} /\ troubles = 0
-----------------------------------------------------------------------------
(* The servers: the gateway's registry and the target's test support.      *)

\* GatewayRouteRegistry.createRoute: what an input must satisfy.
routeAccepted(input) ==
  /\ input.syntheticIp = "reserved"
  /\ input.ttlMs \in 1..MaxRouteTtlMs
  /\ input.targetOrigin = "allowlisted"   \* neither a real provider nor unknown

createRoute(accepted, answer) ==
  /\ IF ~accepted THEN answer = Refused /\ UNCHANGED <<routes, routeCount>>
     ELSE /\ routeCount < MaxRoutes /\ answer = routeCount + 1
          /\ routeCount' = answer /\ routes' = routes \cup {answer}
  /\ UNCHANGED <<target, targetCount>>

deleteRoute(route, answer) ==
  /\ answer = 0 /\ routes' = routes \ {route}
  /\ UNCHANGED <<routeCount, target, targetCount>>

\* POST runs: the answer is the workspace; a repeated preparation finds it, and
\* the reference SUT then answers with a placeholder in place of its token.
prepare(answer) ==
  /\ IF target.id # 0
     THEN /\ answer = target.id + (IF Adapter = "gl-eye" THEN 0 ELSE Redacted)
          /\ UNCHANGED <<target, targetCount>>
     ELSE /\ targetCount < MaxTargets /\ answer = targetCount + 1
          /\ targetCount' = answer /\ target' = [NoTarget EXCEPT !.id = answer]
  /\ UNCHANGED <<routes, routeCount>>

\* The requests on a workspace; a missing one is a 404, which only DELETE accepts.
onTarget(req, id, answer) ==
  /\ CASE req = "delete" ->
            answer = 0 /\ target' = IF target.id = id THEN NoTarget ELSE target
       [] req # "delete" /\ target.id # id -> answer = Refused /\ UNCHANGED target
       [] req = "hibernate" /\ target.id = id ->
            answer = 0 /\ target' = [target EXCEPT !.hibernated = TRUE]
       [] req = "resume" /\ target.id = id ->
            answer = 0 /\ target' = [target EXCEPT !.hibernated = FALSE]
       [] req = "enrich" /\ target.id = id ->
            answer = 0 /\ target' = [target EXCEPT !.enriched = TRUE]
       [] req = "poll" /\ target.id = id ->
            answer = (IF target.completed THEN 1 ELSE 0) /\ UNCHANGED target
       [] req \in {"vendors", "site", "observe", "outcome"} /\ target.id = id ->
            answer = 0 /\ UNCHANGED target
  /\ UNCHANGED <<routes, routeCount, targetCount>>

serve(req, arg, answer) ==
  CASE req = "createRoute" -> createRoute(arg = 1, answer)
    [] req = "deleteRoute" -> deleteRoute(arg, answer)
    [] req = "prepare" -> prepare(answer)
    [] req = "ledger" -> answer = 0 /\ UNCHANGED servers
    [] OTHER -> onTarget(req, arg, answer)

Serve(h) ==
  /\ at[h].step = "sent"
  /\ \E answer \in 0..Refused :
       /\ serve(at[h].req, at[h].arg, answer)
       /\ at' = [at EXCEPT ![h].step = "answered", ![h].answer = answer]
  /\ UNCHANGED <<integration, adapterMaps, lost, records, phase, ghosts>>

\* What a request nobody waits for creates, nobody has seen.
ServeLost(q) ==
  /\ q \in lost /\ lost' = lost \ {q}
  /\ \E answer \in 0..Refused :
       /\ serve(q.req, q.arg, answer)
       /\ forgotten' = forgotten \cup
            (IF q.req = "createRoute" /\ answer # Refused THEN {<<"gateway-route", answer>>}
             ELSE IF q.req = "prepare" /\ target.id = 0 THEN {<<"target-run", answer>>} ELSE {})
  /\ UNCHANGED <<integration, adapterMaps, at, records, phase, host, starts, troubles>>

\* Traffic completes in the workspace; a route's time to live runs out.
TargetCompletes ==
  /\ target.id # 0 /\ ~target.completed /\ ~target.hibernated
  /\ target' = [target EXCEPT !.completed = TRUE]
  /\ UNCHANGED <<integration, adapterMaps, at, lost, routes, routeCount, targetCount,
                 records, phase, ghosts>>

RouteExpires(r) ==
  /\ r \in routes /\ routes' = routes \ {r}
  /\ UNCHANGED <<integration, adapterMaps, at, lost, routeCount, target, targetCount,
                 records, phase, ghosts>>
-----------------------------------------------------------------------------
(* A handler: it starts, awaits a request or a lease, and returns.         *)

Awaiting(h, op, req, arg, held) ==
  at' = [at EXCEPT ![h] = [op |-> op, req |-> req, arg |-> arg, step |-> "sent",
                           answer |-> 0, held |-> held]]
Leasing(h, op, key, held) ==
  at' = [at EXCEPT ![h] = [op |-> op, req |-> "none", arg |-> key, step |-> "lease",
                           answer |-> 0, held |-> held]]
Returned(h) == at' = [at EXCEPT ![h] = Idle]

\* A handler may start; one that throws at once has no step.
MayStart(h, op) ==
  /\ phase = "running" /\ at[h] = Idle /\ starts < MaxStarts
  /\ op \in DemoOnly => host = "demo"
  /\ host = "demo" => \A g \in Attempt : at[g] = Idle     \* its transition lock

\* gateway.create-route: what is missing, the route or only its lease.
StartCreateRoute(h) ==
  /\ MayStart(h, "create-route")
  /\ IF gateway = 0
     THEN \E input \in RouteInput :
            Awaiting(h, "create-route", "createRoute", IF routeAccepted(input) THEN 1 ELSE 0, 0)
     ELSE ~gatewayLeaseRegistered /\ Leasing(h, "create-route", gateway, 0)

StartReplaceRoute(h) ==
  /\ MayStart(h, "replace-route") /\ gateway # 0
  /\ \E input \in RouteInput :
       Awaiting(h, "replace-route", "createRoute", IF routeAccepted(input) THEN 1 ELSE 0, gateway)

StartCollectLedger(h) ==
  /\ MayStart(h, "ledger") /\ gateway # 0
  /\ Awaiting(h, "ledger", "ledger", gateway, 0)

\* target.prepare-run, with the adapter's own check for a run it has prepared.
StartPrepareRun(h) ==
  /\ MayStart(h, "prepare-run")
  /\ \/ /\ prepared = Nobody /\ adapterPrepared = Nobody
        /\ Awaiting(h, "prepare-run", "prepare", 0, 0) /\ UNCHANGED prepared
     \/ /\ prepared = Nobody /\ adapterPrepared # Nobody
        /\ prepared' = adapterPrepared
        /\ ~targetLeaseRegistered /\ Leasing(h, "prepare-run", adapterPrepared.id, 0)
     \/ /\ prepared # Nobody /\ ~targetLeaseRegistered
        /\ Leasing(h, "prepare-run", prepared.id, 0) /\ UNCHANGED prepared

\* configure-vendors and configure-site, for endpoints and hostnames they accept.
StartConfigure(h, kind) ==
  /\ MayStart(h, kind) /\ prepared # Nobody /\ adapterPrepared # Nobody
  /\ kind = "site" => gateway # 0
  /\ Awaiting(h, kind, kind, adapterPrepared.id, 0)

StartTriggerEnrichment(h) ==
  /\ MayStart(h, "enrich") /\ Adapter = "gl-eye"
  /\ prepared # Nobody /\ adapterPrepared # Nobody
  /\ Awaiting(h, "enrich", "enrich", adapterPrepared.id, 0)

StartObservation(h) ==
  /\ MayStart(h, "observe") /\ prepared # Nobody /\ adapterPrepared # Nobody
  /\ Awaiting(h, "observe", "observe", adapterPrepared.id, 0)

StartWait(h) ==
  /\ MayStart(h, "wait") /\ observation /\ adapterObservation /\ adapterPrepared # Nobody
  /\ Awaiting(h, "wait", "poll", adapterPrepared.id, 0)

StartCollectOutcome(h) ==
  /\ MayStart(h, "outcome") /\ adapterPrepared # Nobody
  /\ Awaiting(h, "outcome", "outcome", adapterPrepared.id, 0)

\* hibernate-run, resume-run and cleanup-target name the workspace themselves.
StartOnTarget(h, op, req) ==
  /\ MayStart(h, op)
  /\ req \in {"hibernate", "resume"} => Adapter = "gl-eye"
  /\ \E lease \in leases : lease[1] = "target-run" /\ Awaiting(h, op, req, lease[2], 0)

StartCleanupRun(h) ==
  /\ MayStart(h, "cleanup-run")
  /\ IF adapterPrepared # Nobody
     THEN Awaiting(h, "cleanup-run", "delete", adapterPrepared.id, 0)
     ELSE gateway # 0 /\ Awaiting(h, "cleanup-run", "deleteRoute", gateway, 0)

StartHandler(h) ==
  /\ \/ /\ \/ StartCreateRoute(h) \/ StartReplaceRoute(h) \/ StartCollectLedger(h)
           \/ \E kind \in {"vendors", "site"} : StartConfigure(h, kind)
           \/ StartTriggerEnrichment(h) \/ StartObservation(h) \/ StartWait(h)
           \/ StartCollectOutcome(h) \/ StartCleanupRun(h)
           \/ StartOnTarget(h, "hibernate", "hibernate") \/ StartOnTarget(h, "resume", "resume")
           \/ StartOnTarget(h, "cleanup-target", "delete")
        /\ UNCHANGED prepared
     \/ StartPrepareRun(h)
  /\ starts' = starts + 1
  /\ UNCHANGED <<gateway, gatewayLeaseRegistered, targetLeaseRegistered, observation,
                 adapterMaps, lost, servers, records, phase, host, forgotten, troubles>>
-----------------------------------------------------------------------------
(* What follows an await.                                                  *)

\* The resources no lease names yet, but the run's state does.
held == (IF gateway # 0 /\ ~gatewayLeaseRegistered THEN {<<"gateway-route", gateway>>} ELSE {})
        \cup (IF prepared # Nobody /\ ~targetLeaseRegistered
              THEN {<<"target-run", prepared.id>>} ELSE {})

\* What h has of its own: a resource just created, or one it is deleting.
inHand(h) ==
  CASE at[h].step = "answered" /\ at[h].req = "createRoute" /\ at[h].answer # Refused ->
         {<<"gateway-route", at[h].answer>>}
    [] at[h].step = "answered" /\ at[h].req = "prepare" -> {<<"target-run", at[h].answer % Redacted>>}
    [] at[h].step = "lease" ->
         {<<IF at[h].op = "prepare-run" THEN "target-run" ELSE "gateway-route", at[h].arg>>}
    [] at[h].req = "deleteRoute" -> {<<"gateway-route", at[h].arg>>}
    [] OTHER -> {}

\* The route in the state that h's own displaces, when no other handler has it.
displaced(h) ==
  {r \in held : r[1] = "gateway-route"} \ UNION {inHand(g) : g \in Attempt}

\* create-route stores the route, replacing one a concurrent attempt stored,
\* and leases it unless the run's flag says that has been done.
RouteCreated(h) ==
  /\ gateway' = at[h].answer
  /\ IF gatewayLeaseRegistered
     THEN Returned(h) /\ forgotten' = forgotten \cup inHand(h)
     ELSE Leasing(h, "create-route", at[h].answer, 0) /\ forgotten' = forgotten \cup displaced(h)
  /\ UNCHANGED gatewayLeaseRegistered

Prepared(h) ==
  LET id == at[h].answer % Redacted
      found == [id |-> id, token |-> IF at[h].answer >= Redacted THEN 0 ELSE id]
  IN  /\ adapterPrepared' = found /\ prepared' = found
      /\ IF targetLeaseRegistered THEN Returned(h)
         ELSE Leasing(h, "prepare-run", id, 0)

\* The adapter forgets the workspace; the bundle forgets the run.
purge(id) ==
  IF adapterPrepared.id = id
  THEN adapterPrepared' = Nobody /\ adapterObservation' = FALSE /\ enrichmentTriggered' = FALSE
  ELSE UNCHANGED adapterMaps

forgetRun ==
  /\ gateway' = 0 /\ gatewayLeaseRegistered' = FALSE
  /\ prepared' = Nobody /\ targetLeaseRegistered' = FALSE /\ observation' = FALSE

\* Mutant: marks the run enriched before the request is answered.
WaitMarksFirst(h) ==
  \/ /\ at[h].req = "poll" /\ at[h].answer = 1
     /\ IF Adapter = "gl-eye" /\ ~enrichmentTriggered
        THEN /\ Awaiting(h, "wait", "enrich", at[h].arg, 0) /\ enrichmentTriggered' = TRUE
             /\ UNCHANGED <<completion, troubles>>
        ELSE /\ Returned(h) /\ completion' = at[h].arg /\ UNCHANGED <<enrichmentTriggered, troubles>>
  \/ /\ at[h].req = "enrich" /\ Returned(h) /\ completion' = at[h].arg
     /\ UNCHANGED <<enrichmentTriggered, troubles>>

\* wait-for-completion: poll again, trigger enrichment once, then record.
Waited(h) ==
  \/ /\ at[h].req = "poll" /\ at[h].answer = 0
     /\ Awaiting(h, "wait", "poll", at[h].arg, 0) \/ Returned(h)      \* its deadline
     /\ UNCHANGED <<enrichmentTriggered, completion, troubles>>
  \/ /\ at[h].req = "poll" /\ at[h].answer = 1
     /\ Adapter = "gl-eye" /\ ~enrichmentTriggered
     /\ Awaiting(h, "wait", "enrich", at[h].arg, 0)
     /\ UNCHANGED <<enrichmentTriggered, completion, troubles>>
  \/ /\ \/ at[h].req = "enrich"
        \/ at[h].req = "poll" /\ at[h].answer = 1 /\ (Adapter # "gl-eye" \/ enrichmentTriggered)
     /\ enrichmentTriggered' = (enrichmentTriggered \/ at[h].req = "enrich")
     /\ Returned(h)
     /\ \/ completion' = at[h].arg /\ UNCHANGED troubles
        \/ Trouble /\ UNCHANGED completion                \* recordObservation fails

Triggered(h) == Returned(h) /\ enrichmentTriggered' = TRUE

Observing(h) == Returned(h) /\ observation' = TRUE /\ adapterObservation' = TRUE

\* configure-vendors, configure-site and the last request of replace-route.
Configured(h) == Returned(h) /\ UNCHANGED <<integration, adapterMaps>>

\* collect-outcome and collect-ledger read, and an observation is written.
Collected(h) == Returned(h) /\ UNCHANGED <<integration, adapterMaps>>

\* After hibernation the run must be prepared again, and so after cleanup-target.
Hibernated(h) ==
  /\ Returned(h) /\ purge(at[h].arg) /\ forgetRun
  /\ forgotten' = forgotten \cup held

Resumed(h) == Returned(h) /\ UNCHANGED <<integration, adapterMaps>>

\* cleanup-run deletes the workspace, then the route of the state.
CleanedUp(h) ==
  \/ /\ at[h].req = "delete" /\ gateway # 0 /\ purge(at[h].arg)
     /\ Awaiting(h, "cleanup-run", "deleteRoute", gateway, 0)
     /\ UNCHANGED <<integration, forgotten>>
  \/ /\ at[h].req = "delete" /\ gateway = 0 /\ purge(at[h].arg)
     /\ Returned(h) /\ forgetRun /\ UNCHANGED forgotten
  \/ /\ at[h].req = "deleteRoute" /\ Returned(h) /\ forgetRun
     /\ forgotten' = forgotten \cup {r \in held : r[1] = "target-run"}
     /\ UNCHANGED adapterMaps

\* The continuation of each handler on an accepted answer.
Answered(h) ==
  LET op == at[h].op
      req == at[h].req
  IN  \/ /\ op = "create-route" /\ RouteCreated(h)
         /\ UNCHANGED <<prepared, targetLeaseRegistered, observation, adapterMaps, completion, troubles>>
      \/ /\ op = "replace-route" /\ req = "createRoute"
         /\ Leasing(h, op, at[h].answer, at[h].held)
         /\ UNCHANGED <<integration, adapterMaps, completion, forgotten, troubles>>
      \/ /\ op = "prepare-run" /\ Prepared(h)
         /\ UNCHANGED <<gateway, gatewayLeaseRegistered, targetLeaseRegistered, observation,
                        adapterObservation, enrichmentTriggered, completion, forgotten, troubles>>
      \/ /\ op = "enrich" /\ Triggered(h)
         /\ UNCHANGED <<integration, adapterPrepared, adapterObservation, completion, forgotten, troubles>>
      \/ /\ op = "observe" /\ Observing(h)
         /\ UNCHANGED <<gateway, gatewayLeaseRegistered, prepared, targetLeaseRegistered,
                        adapterPrepared, enrichmentTriggered, completion, forgotten, troubles>>
      \/ /\ op = "wait" /\ Waited(h)
         /\ UNCHANGED <<integration, adapterPrepared, adapterObservation, forgotten>>
      \/ /\ \/ op = "cleanup-run" /\ CleanedUp(h)
            \/ op \in {"hibernate", "cleanup-target"} /\ Hibernated(h)
         /\ UNCHANGED <<completion, troubles>>
      \/ /\ \/ op \in {"ledger", "outcome"} /\ Collected(h)
            \/ op = "resume" /\ Resumed(h)
            \/ op \in {"vendors", "site"} /\ Configured(h)
            \/ op = "replace-route" /\ req = "deleteRoute" /\ Configured(h)
         /\ UNCHANGED <<completion, forgotten, troubles>>

Receive(h) ==
  /\ at[h].step = "answered"
  /\ IF at[h].answer = Refused
     THEN Returned(h) /\ UNCHANGED <<integration, adapterMaps, completion, forgotten, troubles>>
     ELSE Answered(h)
  /\ UNCHANGED <<lost, servers, leases, cleanups, phase, host, starts>>

\* The caller gives up: its timer, its signal, or the connection.
Lose(h) ==
  /\ at[h].step \in {"sent", "answered"} /\ Trouble /\ Returned(h)
  /\ lost' = IF at[h].step = "sent" THEN lost \cup {[req |-> at[h].req, arg |-> at[h].arg]}
             ELSE lost
  /\ forgotten' = forgotten \cup (inHand(h) \ (leases \cup held))
  /\ UNCHANGED <<integration, adapterMaps, servers, records, phase, host, starts>>

\* Mutant: the flags are set before the lease is stored.
LeaseFlaggedFirst(h, ok) ==
  /\ gatewayLeaseRegistered' = (gatewayLeaseRegistered \/ at[h].op = "create-route")
  /\ targetLeaseRegistered' = (targetLeaseRegistered \/ at[h].op = "prepare-run")
  /\ IF ok /\ at[h].op = "replace-route"
     THEN gateway' = at[h].arg /\ Awaiting(h, "replace-route", "deleteRoute", at[h].held, 0)
     ELSE Returned(h) /\ UNCHANGED gateway

\* registerResourceLease resolves or rejects, and what the handler then does.
LeaseSettled(h, ok) ==
  /\ gatewayLeaseRegistered' = (gatewayLeaseRegistered \/ (ok /\ at[h].op = "create-route"))
  /\ targetLeaseRegistered' = (targetLeaseRegistered \/ (ok /\ at[h].op = "prepare-run"))
  /\ IF ok /\ at[h].op = "replace-route"
     THEN gateway' = at[h].arg /\ Awaiting(h, "replace-route", "deleteRoute", at[h].held, 0)
     ELSE Returned(h) /\ UNCHANGED gateway

RegisterLease(h, ok) ==
  LET lease == <<IF at[h].op = "prepare-run" THEN "target-run" ELSE "gateway-route", at[h].arg>>
      kept == IF lease[1] = "target-run" THEN prepared.id = lease[2]
              ELSE at[h].op = "create-route" /\ gateway = lease[2] /\ ~gatewayLeaseRegistered
  IN  /\ at[h].step = "lease"
      /\ LeaseSettled(h, ok)
      /\ IF ok
         THEN /\ leases' = leases \cup {lease} /\ UNCHANGED troubles
              /\ forgotten' = forgotten \cup
                   (IF at[h].op = "create-route" \/ (at[h].op = "replace-route" /\ gateway # at[h].held)
                    THEN displaced(h) ELSE {})
              /\ cleanups' = IF phase = "running" /\ host = "engine"
                             THEN Append(cleanups, lease) ELSE cleanups
         ELSE /\ Trouble /\ UNCHANGED <<leases, cleanups>>
              /\ forgotten' = IF kept THEN forgotten ELSE forgotten \cup {lease}
      /\ UNCHANGED <<prepared, observation, adapterMaps, lost, servers, completion, phase, host, starts>>
-----------------------------------------------------------------------------
(* The end of the run.                                                     *)

\* A handler the run does not wait for any more has an aborted signal, which the
\* adapter's requests obey and the gateway client's and the lease's do not.
Finish ==
  /\ phase = "running"
  /\ \A h \in Attempt :
       \/ at[h] = Idle
       \/ host = "engine" /\ (at[h].step = "lease" \/ at[h].req \in GatewayRequest)
  /\ phase' = IF host = "engine" THEN "cleaning" ELSE "over"
  /\ UNCHANGED <<integration, adapterMaps, at, lost, servers, records, ghosts>>

\* Mutant: the adapter forgets the run and leaves the workspace.
CleanupForgets(lease) ==
  /\ purge(adapterPrepared.id) /\ leases' = leases \ {lease} /\ UNCHANGED target

\* adapter.cleanupRun: nothing when the adapter does not know the run.
cleanupRun(lease) ==
  /\ purge(adapterPrepared.id)
  /\ target' = IF adapterPrepared # Nobody /\ target.id = adapterPrepared.id THEN NoTarget ELSE target
  /\ leases' = leases \ {lease}

\* The run's cleanups, the last registered first; a failed one keeps its lease.
Clean ==
  /\ phase = "cleaning" /\ cleanups # <<>> /\ cleanups' = Front(cleanups)
  /\ LET lease == Last(cleanups)
     IN  \/ /\ lease[1] = "target-run" /\ cleanupRun(lease) /\ UNCHANGED <<routes, ghosts>>
         \/ /\ lease[1] = "gateway-route" /\ routes' = routes \ {lease[2]}
            /\ leases' = leases \ {lease} /\ UNCHANGED <<adapterMaps, target, ghosts>>
         \/ /\ Trouble /\ UNCHANGED <<adapterMaps, routes, target, leases, host, starts, forgotten>>
  /\ UNCHANGED <<integration, at, lost, routeCount, targetCount, completion, phase>>

EndCleaning ==
  /\ phase = "cleaning" /\ cleanups = <<>> /\ phase' = "over"
  /\ UNCHANGED <<integration, adapterMaps, at, lost, servers, records, ghosts>>

\* The process dies with its maps, its handlers and its cleanups.
Crash ==
  /\ phase # "crashed" /\ Trouble /\ phase' = "crashed"
  /\ forgotten' = forgotten \cup
       ((held \cup UNION {inHand(h) : h \in Attempt}) \ leases)
  /\ lost' = lost \cup {[req |-> at[h].req, arg |-> at[h].arg] :
                          h \in {g \in Attempt : at[g].step = "sent"}}
  /\ at' = [h \in Attempt |-> Idle] /\ cleanups' = <<>>
  /\ forgetRun
  /\ adapterPrepared' = Nobody /\ adapterObservation' = FALSE /\ enrichmentTriggered' = FALSE
  /\ UNCHANGED <<servers, leases, completion, host, starts>>

\* Mutant: maintenance looks only at runs that crashed.
RecoverCrashed(lease) ==
  /\ phase = "crashed" /\ lease \in leases /\ leases' = leases \ {lease}
  /\ IF lease[1] = "gateway-route"
     THEN routes' = routes \ {lease[2]} /\ UNCHANGED <<adapterMaps, target>>
     ELSE /\ target' = IF target.id = lease[2] THEN NoTarget ELSE target
          /\ purge(lease[2]) /\ UNCHANGED routes
  /\ UNCHANGED <<integration, at, lost, routeCount, targetCount, cleanups, completion, phase, ghosts>>

\* The persisted cleaners: cleanupTarget and deleteRoute, by the lease's key.
Recover(lease) ==
  /\ phase \in {"over", "crashed"} /\ lease \in leases /\ leases' = leases \ {lease}
  /\ IF lease[1] = "gateway-route"
     THEN routes' = routes \ {lease[2]} /\ UNCHANGED <<adapterMaps, target>>
     ELSE /\ target' = IF target.id = lease[2] THEN NoTarget ELSE target
          /\ purge(lease[2]) /\ UNCHANGED routes
  /\ UNCHANGED <<integration, at, lost, routeCount, targetCount, cleanups, completion, phase, ghosts>>
-----------------------------------------------------------------------------
Next ==
  \/ \E h \in Attempt : StartHandler(h) \/ Serve(h) \/ Receive(h) \/ Lose(h)
                        \/ \E ok \in BOOLEAN : RegisterLease(h, ok)
  \/ \E q \in lost : ServeLost(q)
  \/ TargetCompletes \/ \E r \in Route : RouteExpires(r)
  \/ Finish \/ Clean \/ EndCleaning \/ Crash
  \/ \E lease \in leases : Recover(lease)

\* Cleanups and maintenance are not put off for ever, nor is a handler whose
\* request has a timer; nothing obliges an abandoned request to be served.
FairSpec ==
  /\ Init /\ [][Next]_vars
  /\ WF_vars(Clean) /\ WF_vars(EndCleaning) /\ WF_vars(Finish)
  /\ \A h \in Attempt : /\ WF_vars(Serve(h)) /\ WF_vars(Receive(h))
                        /\ WF_vars(\E ok \in BOOLEAN : RegisterLease(h, ok))
  /\ \A lease \in Lease : WF_vars(Recover(lease))
-----------------------------------------------------------------------------
\* Every variable keeps the shape the handlers and the maps give it.
TypeOK ==
  /\ gateway \in {0} \cup Route /\ gatewayLeaseRegistered \in BOOLEAN
  /\ {prepared, adapterPrepared} \subseteq [id : {0} \cup Id, token : {0} \cup Id]
  /\ {targetLeaseRegistered, observation, adapterObservation, enrichmentTriggered} \subseteq BOOLEAN
  /\ \A h \in Attempt : at[h].step \in {"idle", "sent", "answered", "lease"}
                        /\ (at[h].step = "idle") = (at[h] = Idle)
  /\ routes \subseteq 1..routeCount /\ routeCount \in {0} \cup Route
  /\ target.id \in {0, targetCount} /\ targetCount \in {0} \cup Id
  /\ leases \subseteq Lease /\ Range(cleanups) \subseteq Lease /\ forgotten \subseteq Lease
  /\ completion \in {0} \cup Id /\ host \in {"engine", "demo"}
  /\ phase \in {"running", "cleaning", "over", "crashed"} /\ troubles \in 0..MaxTroubles
  /\ starts \in 0..MaxStarts

live == {<<"gateway-route", r>> : r \in routes} \cup
        (IF target.id = 0 \/ target.hibernated THEN {} ELSE {<<"target-run", target.id>>})

\* A live route or workspace is always one a lease names, one a handler is about
\* to lease or delete, or one the run's state still offers to a retry; the only
\* others are those a lost answer, a failed write or a crash made it forget.
NothingUnaccounted ==
  live \subseteq leases \cup held \cup forgotten \cup UNION {inHand(h) : h \in Attempt}

\* A workspace whose completion the run recorded has been told to enrich, also
\* when the request or the record failed the first time and the step was retried.
CompletedIsEnriched ==
  (Adapter = "gl-eye" /\ completion # 0 /\ target.id = completion) => target.enriched

\* No step releases the lease of a workspace that stays live, whether the run
\* cleans it from the adapter's memory or maintenance from the lease's key.
ReleasedIsGone ==
  [][\A lease \in leases \ leases' : lease \notin live']_vars

\* Once the run is over, every lease it took is eventually released.
LeasesConverge == phase \in {"over", "crashed"} ~> leases = {}

\* The ingestion token a prepared run holds is one its workspace accepts, also
\* when the preparation had to be repeated.
TokenIsAccepted ==
  (prepared # Nobody /\ target.id = prepared.id) => prepared.token = target.id
=============================================================================
