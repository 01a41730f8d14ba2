-------------------------- MODULE TrafficPathProofs --------------------------
(***************************************************************************)
(* Proofs about TrafficPath, for every set of batches, every number of     *)
(* requests, attempts and workers, and every set of the target's           *)
(* deliberate defects: the target keeps the ingestion contract, a          *)
(* collected outcome is whole, and what the batch and the gateway report   *)
(* is what happened at the target.                                         *)
(***************************************************************************)
EXTENDS TrafficPath, FiniteSetTheorems, TLAPS

CallState == [gw : {"none", "sent", "authorized", "forwarded", "answered", "dropped"},
              sut : {"none", "reading", "replied"},
              reply : {0} \cup HttpStatus, status : {0} \cup HttpStatus]
WorkerState == [pc : {"take", "sleep", "wait", "done", "thrown"}, i : Nat, attempt : Nat]
EventState == {"none", "ipinfo", "apollo", "hunter", "egress", "processed", "failed"}

Good == 200..399

\* Where one call can be: the target has only what the gateway forwarded, it
\* replies once, and the client reads a good status only if the target said so.
CallSound(c) ==
  /\ call[c].gw # "none" => c[1] \in Index
  /\ call[c].gw \in {"none", "sent", "authorized"} =>
       call[c].sut = "none" /\ call[c].reply = 0 /\ call[c].status = 0
  /\ call[c].gw = "forwarded" => call[c].sut # "none"
  /\ call[c].sut # "replied" => call[c].reply = 0
  /\ call[c].status \in Good => call[c].reply = call[c].status

\* A good reply to an event means that its key is marked.
CallAccepted(c) ==
  call[c].reply \in Good /\ request(c[1]).op = "events" => key(c) \in idempotencyKeys

CallInv == call \in [Call -> CallState] /\ \A c \in Call : CallSound(c) /\ CallAccepted(c)

Busy(w) == worker[w].pc \in {"sleep", "wait"}

\* A worker in a request: the request is its own, and its later attempts are unsent.
WorkerSound(w) ==
  LET i == worker[w].i
      attempt == worker[w].attempt
  IN  /\ admissible(batch) /\ i \in Index /\ i < next
      /\ attempt <= request(i).retry.attempts
      /\ worker[w].pc = "sleep" => attempt < request(i).retry.attempts
      /\ worker[w].pc = "wait" => attempt > 0
      /\ \A c \in Call : c[1] = i /\ c[2] > attempt => call[c].gw = "none"

PoolInv ==
  /\ batch \in Batch /\ next \in Nat \ {0} /\ DOMAIN results = Index
  /\ worker \in [Worker -> WorkerState]
  /\ action \in {"running", "persisting", "passed", "failed", "error"} => admissible(batch)
  /\ action = "cancelled" => aborted
  /\ \A w \in Worker : Busy(w) => WorkerSound(w)
  /\ \A w, v \in Worker : Busy(w) /\ Busy(v) /\ w # v => worker[w].i # worker[v].i
  /\ \A c \in Call : c[1] >= next => call[c].gw = "none"

\* A result without a reason against it comes from a good reply.
Delivered(i) ==
  Passed(i) /\ expectsSuccess(i) =>
    \E a \in 1..results[i].attempts : <<i, a>> \in Call /\ call[<<i, a>>].reply \in Good

DeliveredInv == \A i \in Index : Delivered(i)

\* Once Promise.all has resolved no worker is left that could change a result.
FinalInv ==
  /\ action \in {"persisting", "passed", "failed", "error"} => \A w \in Worker : worker[w].pc = "done"
  /\ action = "passed" => \A i \in Index : Passed(i)

EntriesOf(c) == {entry \in ledger : entry[1] = c}

RouteInv == route \in {"live", "expired", "gone"}

\* While the route exists, an answered call that reached the target has one entry.
LedgerInv ==
  route # "gone" =>
    \A c \in Call :
      IF call[c].gw = "answered" /\ call[c].sut # "none"
      THEN \E e : EntriesOf(c) = {e} ELSE EntriesOf(c) = {}

\* A key is marked in the same step in which the work on its event begins.
EventInv ==
  /\ idempotencyKeys \subseteq Key /\ event \in [Key -> EventState]
  /\ \A k \in Key : event[k] = "none" <=> k \notin idempotencyKeys

\* One score for the whole run, written with the first processed event.
ScoreInv ==
  /\ IsFiniteSet(processedEvents)
  /\ scores = IF processedEvents = {} THEN 0 ELSE IF "duplicateScore" \in Mutations THEN 2 ELSE 1
  /\ state = "completed" => processedEvents # {}

\* What the observer saw and collected.
ObserverInv ==
  /\ watch = "completed" => processedEvents # {}
  /\ CompletedHasOutcome

IInv ==
  /\ CallInv /\ PoolInv /\ DeliveredInv /\ LedgerInv /\ RouteInv
  /\ FinalInv /\ EventInv /\ ScoreInv /\ ObserverInv

LEMMA InitInv ==
  ASSUME Init
  PROVE  IInv
<1> USE DEF Init, SutInit
<1>1. CallInv
  BY DEF CallInv, CallSound, CallAccepted, NoCall, CallState, Good, Call, HttpStatus
<1>2. PoolInv
  BY DEF PoolInv, Busy, Idle, WorkerState, NoCall, Call
<1>3. DeliveredInv /\ FinalInv
  BY DEF DeliveredInv, Delivered, FinalInv, Passed, Pending, Index
<1>4. LedgerInv /\ RouteInv
  BY DEF LedgerInv, RouteInv, EntriesOf, NoCall, Call
<1>5. EventInv
  BY DEF EventInv, EventState
<1>6. ScoreInv /\ ObserverInv
  BY FS_EmptySet DEF ScoreInv, ObserverInv, CompletedHasOutcome, NoOutcome
<1> QED
  BY <1>1, <1>2, <1>3, <1>4, <1>5, <1>6 DEF IInv
-----------------------------------------------------------------------------
(* The target and its observer.                                            *)

LEMMA AfterProvider ==
  ASSUME NEW p \in {"ipinfo", "apollo", "hunter", "egress"}
  PROVE  afterProvider(p) \in {"apollo", "hunter", "egress", "done"}
  BY DEF afterProvider

LEMMA IngestInv ==
  ASSUME EventInv, ScoreInv, NEW k \in Key, Ingest(k)
  PROVE  EventInv' /\ ScoreInv'
<1>1. EventInv'
  <2>1. CASE k \in idempotencyKeys
    BY <2>1 DEF EventInv, Ingest
  <2>2. CASE k \notin idempotencyKeys
    BY <2>2 DEF EventInv, Ingest, EventState
  <2> QED
    BY <2>1, <2>2
<1>2. ScoreInv'
  BY DEF ScoreInv, Ingest
<1> QED
  BY <1>1, <1>2

LEMMA ProviderInv ==
  ASSUME EventInv, ScoreInv, NEW k \in Key, NEW ok \in BOOLEAN, ProviderReturns(k, ok)
  PROVE  /\ EventInv' /\ ScoreInv' /\ idempotencyKeys' = idempotencyKeys
         /\ processedEvents # {} => processedEvents' # {}
<1>0. afterProvider(event[k]) \in {"apollo", "hunter", "egress", "done"}
  BY AfterProvider DEF ProviderReturns
<1>1. EventInv' /\ idempotencyKeys' = idempotencyKeys
  BY <1>0 DEF EventInv, EventState, ProviderReturns, Processed
<1>2. IsFiniteSet(processedEvents \cup {k})
  BY FS_AddElement DEF ScoreInv
<1>3. ScoreInv'
  BY <1>2 DEF ScoreInv, ProviderReturns, Processed
<1> QED
  BY <1>1, <1>3 DEF ProviderReturns, Processed

LEMMA CollectInv ==
  ASSUME ScoreInv, ObserverInv, CollectOutcome
  PROVE  ObserverInv'
<1>1. Cardinality(processedEvents) \in Nat /\ (Cardinality(processedEvents) = 0 <=> processedEvents = {})
  BY FS_CardinalityType, FS_EmptySet DEF ScoreInv
<1>2. /\ collected'.after = watch /\ collected'.processed = Cardinality(processedEvents)
      /\ collected'.score = scores /\ collected'.company = IF processedEvents = {} THEN 0 ELSE 1
  BY DEF CollectOutcome, outcome
<1> QED
  BY <1>1, <1>2 DEF ScoreInv, ObserverInv, CompletedHasOutcome, CollectOutcome

-----------------------------------------------------------------------------
(* One call moves.                                                         *)

Moves(c) == call' \in [Call -> CallState] /\ \A d \in Call : d # c => call'[d] = call[d]

LEMMA CallOthers ==
  ASSUME CallInv, NEW c \in Call, Moves(c), batch' = batch,
         idempotencyKeys \subseteq idempotencyKeys', CallSound(c)', CallAccepted(c)'
  PROVE  CallInv'
  BY DEF CallInv, Moves, CallSound, CallAccepted, request, key, Index

LEMMA CallSame ==
  ASSUME CallInv, call' = call, batch' = batch, idempotencyKeys \subseteq idempotencyKeys'
  PROVE  CallInv'
  BY DEF CallInv, CallSound, CallAccepted, request, key, Index

\* What the steps below need: the fields of the call that moves.
LEMMA CallMoves ==
  ASSUME CallInv, NEW c \in Call, batch' = batch, idempotencyKeys \subseteq idempotencyKeys',
         Moves(c), c[1] \in Index,
         call'[c].gw # "none", call[c].reply = 0 \/ call'[c].reply = call[c].reply,
         call'[c].gw \in {"sent", "authorized"} =>
           call'[c].sut = "none" /\ call'[c].reply = 0 /\ call'[c].status = 0,
         call'[c].gw = "forwarded" => call'[c].sut # "none",
         call'[c].sut # "replied" => call'[c].reply = 0,
         call'[c].status \in Good => call'[c].reply = call'[c].status,
         call[c].reply = 0 => CallAccepted(c)'
  PROVE  CallInv'
<1>1. CallSound(c)'
  BY DEF CallSound, Index
<1>2. CallAccepted(c)'
  BY DEF CallInv, CallAccepted, request, key
<1> QED
  BY <1>1, <1>2, CallOthers

LEMMA CallRefused ==
  ASSUME NEW c \in Call, NEW u \in {0} \cup HttpStatus, call \in [Call -> CallState],
         call' = [call EXCEPT ![c] = [@ EXCEPT !.gw = "answered", !.status = u]]
  PROVE  /\ Moves(c) /\ call'[c].gw = "answered" /\ call'[c].status = u
         /\ call'[c].sut = call[c].sut /\ call'[c].reply = call[c].reply
<1>1. /\ call' \in [Call -> CallState] /\ call'[c].gw = "answered" /\ call'[c].status = u
      /\ call'[c].sut = call[c].sut /\ call'[c].reply = call[c].reply
  BY DEF CallState
<1> QED
  BY <1>1 DEF Moves

LEMMA CallAnswered ==
  ASSUME NEW c \in Call, NEW u \in {0} \cup HttpStatus, call \in [Call -> CallState],
         call' = [call EXCEPT ![c].gw = "answered", ![c].status = u]
  PROVE  /\ Moves(c) /\ call'[c].gw = "answered" /\ call'[c].status = u
         /\ call'[c].sut = call[c].sut /\ call'[c].reply = call[c].reply
<1>1. /\ call' \in [Call -> CallState] /\ call'[c].gw = "answered" /\ call'[c].status = u
      /\ call'[c].sut = call[c].sut /\ call'[c].reply = call[c].reply
  BY DEF CallState
<1> QED
  BY <1>1 DEF Moves

LEMMA CallUnauthorized ==
  ASSUME NEW c \in Call, NEW u \in {0} \cup HttpStatus, call \in [Call -> CallState],
         call' = [call EXCEPT ![c] = [@ EXCEPT !.gw = "forwarded", !.sut = "replied", !.reply = u]]
  PROVE  /\ Moves(c) /\ call'[c].gw = "forwarded" /\ call'[c].sut = "replied"
         /\ call'[c].reply = u /\ call'[c].status = call[c].status
<1>1. /\ call' \in [Call -> CallState] /\ call'[c].gw = "forwarded" /\ call'[c].sut = "replied"
      /\ call'[c].reply = u /\ call'[c].status = call[c].status
  BY DEF CallState
<1> QED
  BY <1>1 DEF Moves

LEMMA CallReplied ==
  ASSUME NEW c \in Call, NEW u \in {0} \cup HttpStatus, call \in [Call -> CallState], Replies(c, u)
  PROVE  /\ Moves(c) /\ call'[c].gw = call[c].gw /\ call'[c].status = call[c].status
         /\ call'[c].sut = "replied" /\ call'[c].reply = u
<1>1. /\ call' \in [Call -> CallState] /\ call'[c].gw = call[c].gw /\ call'[c].status = call[c].status
      /\ call'[c].sut = "replied" /\ call'[c].reply = u
  BY DEF CallState, Replies
<1> QED
  BY <1>1 DEF Moves, Replies

LEMMA AuthorizeCall ==
  ASSUME CallInv, RouteInv, NEW c \in Call, Authorize(c)
  PROVE  /\ Moves(c) /\ CallInv' /\ call[c].gw = "sent" /\ call'[c].sut = "none"
         /\ call'[c].gw # "none" /\ call'[c].reply = 0
<1>0. /\ call \in [Call -> CallState] /\ call[c].gw = "sent" /\ call[c].sut = "none"
      /\ call[c].reply = 0 /\ call[c].status = 0 /\ c[1] \in Index
      /\ batch' = batch /\ idempotencyKeys' = idempotencyKeys
  BY DEF Authorize, CallInv, CallSound, client, sutVars, ingestion
<1>1. /\ Moves(c) /\ call'[c].sut = "none" /\ call'[c].reply = 0
      /\ \/ call'[c].gw = "authorized" /\ call'[c].status = 0
         \/ call'[c].gw = "answered" /\ call'[c].status \in {404, 410}
  <2>1. CASE route = "live"
    <3>1. call' = [call EXCEPT ![c] = [@ EXCEPT !.gw = "authorized"]]
      BY <2>1 DEF Authorize
    <3> QED
      BY <1>0, <3>1 DEF Moves, CallState
  <2>2. CASE route = "expired"
    <3>1. call' = [call EXCEPT ![c] = [@ EXCEPT !.gw = "answered", !.status = 410]]
      BY <2>2 DEF Authorize
    <3>2. PICK u \in {0} \cup HttpStatus : u = 410
      BY DEF HttpStatus
    <3>3. call' = [call EXCEPT ![c] = [@ EXCEPT !.gw = "answered", !.status = u]]
      BY <3>1, <3>2
    <3>4. /\ Moves(c) /\ call'[c].gw = "answered" /\ call'[c].status = u
          /\ call'[c].sut = call[c].sut /\ call'[c].reply = call[c].reply
      BY <1>0, <3>3, CallRefused
    <3> QED
      BY <1>0, <3>2, <3>4
  <2>3. CASE route = "gone"
    <3>1. call' = [call EXCEPT ![c] = [@ EXCEPT !.gw = "answered", !.status = 404]]
      BY <2>3 DEF Authorize
    <3>2. PICK u \in {0} \cup HttpStatus : u = 404
      BY DEF HttpStatus
    <3>3. call' = [call EXCEPT ![c] = [@ EXCEPT !.gw = "answered", !.status = u]]
      BY <3>1, <3>2
    <3>4. /\ Moves(c) /\ call'[c].gw = "answered" /\ call'[c].status = u
          /\ call'[c].sut = call[c].sut /\ call'[c].reply = call[c].reply
      BY <1>0, <3>3, CallRefused
    <3> QED
      BY <1>0, <3>2, <3>4
  <2> QED
    BY <2>1, <2>2, <2>3 DEF RouteInv
<1>2. CallAccepted(c)'
  BY <1>1 DEF CallAccepted, Good
<1>3. CallInv'
  BY <1>0, <1>1, <1>2, CallMoves DEF Good
<1> QED
  BY <1>0, <1>1, <1>3

LEMMA ForwardCall ==
  ASSUME CallInv, NEW c \in Call, Forward(c)
  PROVE  /\ Moves(c) /\ CallInv' /\ call[c].gw = "authorized" /\ call[c].reply = 0
         /\ call'[c].gw \in {"forwarded", "dropped"}
<1>0. /\ call \in [Call -> CallState] /\ call[c].gw = "authorized" /\ call[c].sut = "none"
      /\ call[c].reply = 0 /\ call[c].status = 0 /\ c[1] \in Index
      /\ batch' = batch /\ idempotencyKeys' = idempotencyKeys
  BY DEF Forward, CallInv, CallSound, client, sutVars, ingestion
<1>1. /\ Moves(c) /\ call'[c].gw \in {"forwarded", "dropped"} /\ call'[c].status = 0
      /\ call'[c].gw = "forwarded" => call'[c].sut # "none"
      /\ call'[c].sut # "replied" => call'[c].reply = 0
      /\ call'[c].reply \in {0, 401}
  <2>1. CASE call' = [call EXCEPT ![c] = [@ EXCEPT !.gw = "forwarded", !.sut = "reading"]]
    <3> DEFINE x == [call[c] EXCEPT !.gw = "forwarded", !.sut = "reading"]
    <3>1. /\ x \in CallState /\ x.gw = "forwarded" /\ x.sut = "reading"
          /\ x.reply = 0 /\ x.status = 0
      BY <1>0 DEF CallState
    <3>2. call' = [call EXCEPT ![c] = x]
      BY <2>1
    <3> HIDE DEF x
    <3> QED
      BY <1>0, <3>1, <3>2 DEF Moves
  <2>2. CASE call' = [call EXCEPT ![c] = [@ EXCEPT !.gw = "forwarded", !.sut = "replied", !.reply = 401]]
    <3>1. PICK u \in {0} \cup HttpStatus : u = 401
      BY DEF HttpStatus
    <3>2. call' = [call EXCEPT ![c] = [@ EXCEPT !.gw = "forwarded", !.sut = "replied", !.reply = u]]
      BY <2>2, <3>1
    <3>3. /\ Moves(c) /\ call'[c].gw = "forwarded" /\ call'[c].sut = "replied"
          /\ call'[c].reply = u /\ call'[c].status = call[c].status
      BY <1>0, <3>2, CallUnauthorized
    <3> QED
      BY <1>0, <3>1, <3>3
  <2>3. CASE call' = [call EXCEPT ![c].gw = "dropped"]
    BY <1>0, <2>3 DEF Moves, CallState
  <2> QED
    BY <2>1, <2>2, <2>3 DEF Forward
<1>2. CallAccepted(c)'
  BY <1>1 DEF CallAccepted, Good
<1>3. CallInv'
  BY <1>0, <1>1, <1>2, CallMoves DEF Good
<1> QED
  BY <1>0, <1>1, <1>3

LEMMA RelayCall ==
  ASSUME CallInv, NEW c \in Call, Relay(c)
  PROVE  /\ Moves(c) /\ CallInv' /\ call[c].gw = "forwarded" /\ call'[c].gw = "answered"
         /\ call[c].sut # "none" /\ call'[c].sut = call[c].sut /\ call'[c].reply = call[c].reply
<1>0. /\ call \in [Call -> CallState] /\ call[c].gw = "forwarded" /\ call[c].sut = "replied"
      /\ c[1] \in Index /\ batch' = batch /\ idempotencyKeys' = idempotencyKeys
      /\ call' = [call EXCEPT ![c].gw = "answered", ![c].status = call[c].reply]
  BY DEF Relay, CallInv, CallSound, client, sutVars, ingestion
<1>1. /\ Moves(c) /\ call'[c].gw = "answered" /\ call'[c].status = call[c].reply
      /\ call'[c].sut = call[c].sut /\ call'[c].reply = call[c].reply
  BY <1>0 DEF Moves, CallState
<1>2. CallAccepted(c)'
  BY <1>0, <1>1 DEF CallInv, CallAccepted, request, key
<1>3. CallInv'
  BY <1>0, <1>1, <1>2, CallMoves
<1> QED
  BY <1>0, <1>1, <1>3

LEMMA FailCall ==
  ASSUME CallInv, NEW c \in Call, TargetRequestFails(c)
  PROVE  /\ Moves(c) /\ CallInv' /\ call[c].gw = "forwarded" /\ call'[c].gw = "answered"
         /\ call[c].sut # "none" /\ call'[c].sut = call[c].sut /\ call'[c].reply = call[c].reply
<1>0. /\ call \in [Call -> CallState] /\ call[c].gw = "forwarded" /\ call[c].sut # "none"
      /\ call[c].sut # "replied" => call[c].reply = 0
      /\ c[1] \in Index /\ batch' = batch /\ idempotencyKeys' = idempotencyKeys
      /\ call' = [call EXCEPT ![c].gw = "answered", ![c].status = 500]
  BY DEF TargetRequestFails, CallInv, CallSound, client, sutVars, ingestion
<1>1. /\ Moves(c) /\ call'[c].gw = "answered" /\ call'[c].status = 500
      /\ call'[c].sut = call[c].sut /\ call'[c].reply = call[c].reply
  <2>1. PICK u \in {0} \cup HttpStatus : u = 500
    BY DEF HttpStatus
  <2> QED
    BY <1>0, <2>1, CallAnswered
<1>2. CallAccepted(c)'
  BY <1>0, <1>1 DEF CallInv, CallAccepted, request, key
<1>3. CallInv'
  BY <1>0, <1>1, <1>2, CallMoves DEF Good
<1> QED
  BY <1>0, <1>1, <1>3

LEMMA HandleCall ==
  ASSUME CallInv, batch \in Batch, NEW c \in Call, Handle(c)
  PROVE  /\ Moves(c) /\ CallInv' /\ call'[c].gw = call[c].gw /\ call[c].gw # "none"
         /\ call[c].sut = "reading" /\ call'[c].sut = "replied" /\ call[c].reply = 0
         /\ c[1] \in Index /\ key(c) \in Key
<1>1. /\ c[1] \in Index /\ call[c].reply = 0 /\ call[c].gw \notin {"none", "sent", "authorized"}
      /\ call \in [Call -> CallState] /\ call[c].sut = "reading" /\ call[c].status \notin Good
  BY DEF Handle, CallInv, CallState, CallSound, Good
<1>2. key(c) \in Key /\ request(c[1]).op \in {"events", "idempotent", "retry", "slow"}
  BY <1>1, BatchAssumption DEF key, request, Index
<1>3. idempotencyKeys \subseteq idempotencyKeys' /\ batch' = batch
  BY DEF Handle, Ingest, Probe, ingestion, client
<1>4. \E u \in {0} \cup HttpStatus : Replies(c, u)
  <2>0. {202, 204, 409, 503} \subseteq HttpStatus
    BY DEF HttpStatus
  <2>1. CASE request(c[1]).op = "events"
    BY <2>0, <2>1 DEF Handle
  <2>2. CASE request(c[1]).op # "events"
    <3>1. probeStatus(request(c[1]).op, key(c)) \in HttpStatus
      BY <1>2, <2>0, <2>2 DEF probeStatus
    <3> QED
      BY <2>2, <3>1 DEF Handle
  <2> QED
    BY <2>1, <2>2
<1>5. call \in [Call -> CallState]
  BY <1>1
<1>6. /\ Moves(c) /\ call'[c].gw = call[c].gw /\ call'[c].status = call[c].status
      /\ call'[c].sut = "replied"
  BY <1>4, <1>5, CallReplied
<1>7. CallAccepted(c)'
  <2>1. CASE request(c[1]).op = "events"
    BY <2>1, <1>3 DEF Handle, Ingest, CallAccepted, key, request
  <2>2. CASE request(c[1]).op # "events"
    BY <2>2, <1>3 DEF CallAccepted, key, request
  <2> QED
    BY <2>1, <2>2
<1>8. CallInv'
  BY <1>1, <1>3, <1>6, <1>7, CallMoves
<1> QED
  BY <1>1, <1>2, <1>6, <1>8

-----------------------------------------------------------------------------
(* The gateway and the target leave the pool, and what it was told, alone. *)

LEMMA PoolKept ==
  ASSUME PoolInv, UNCHANGED client,
         \A c \in Call : call[c].gw = "none" => call'[c].gw = "none"
  PROVE  PoolInv'
<1>1. UNCHANGED <<batch, next, worker, action, results, aborted>>
  BY DEF client
<1> QED
  BY <1>1 DEF PoolInv, WorkerSound, Busy, Index, Worker, request, admissible

LEMMA DeliveredKept ==
  ASSUME DeliveredInv, batch' = batch, results' = results,
         \A c \in Call : call[c].reply \in Good => call'[c].reply = call[c].reply
  PROVE  DeliveredInv'
  BY DEF DeliveredInv, Delivered, Passed, expectsSuccess, Index, request

LEMMA KeptByMove ==
  ASSUME PoolInv, DeliveredInv, UNCHANGED client, NEW c \in Call, Moves(c),
         call[c].gw # "none", call[c].reply = 0 \/ call'[c].reply = call[c].reply
  PROVE  PoolInv' /\ DeliveredInv'
<1>1. \A d \in Call : call[d].gw = "none" => call'[d].gw = "none"
  BY DEF Moves
<1>2. \A d \in Call : call[d].reply \in Good => call'[d].reply = call[d].reply
  BY DEF Moves, Good
<1>3. batch' = batch /\ results' = results
  BY DEF client
<1> QED
  BY <1>1, <1>2, <1>3, PoolKept, DeliveredKept

\* A call that is not answered yet, or that the target has not got, has no entry.
LEMMA LedgerKept ==
  ASSUME LedgerInv, NEW c \in Call, Moves(c), ledger' = ledger, route' = route \/ route' = "gone",
         (call'[c].gw = "answered" /\ call'[c].sut # "none")
           <=> (call[c].gw = "answered" /\ call[c].sut # "none")
  PROVE  LedgerInv'
<1>1. \A d \in Call : EntriesOf(d)' = EntriesOf(d)
  BY DEF EntriesOf
<1> SUFFICES ASSUME route' # "gone", NEW d \in Call
             PROVE  IF call'[d].gw = "answered" /\ call'[d].sut # "none"
                    THEN \E e : EntriesOf(d)' = {e} ELSE EntriesOf(d)' = {}
  BY DEF LedgerInv
<1>2. (call'[d].gw = "answered" /\ call'[d].sut # "none")
        <=> (call[d].gw = "answered" /\ call[d].sut # "none")
  BY DEF Moves
<1> QED
  BY <1>1, <1>2 DEF LedgerInv

LEMMA LedgerRecords ==
  ASSUME LedgerInv, NEW c \in Call, Moves(c), NEW result, record(c, result), route' = route,
         call[c].gw = "forwarded", call'[c].gw = "answered", call'[c].sut # "none"
  PROVE  LedgerInv'
<1>1. CASE route = "gone"
  BY <1>1 DEF LedgerInv
<1>2. CASE route # "gone"
  <2>1. ledger' = ledger \cup {<<c, result>>}
    BY <1>2 DEF record
  <2>2. EntriesOf(c)' = {<<c, result>>}
    BY <1>2, <2>1 DEF LedgerInv, EntriesOf
  <2>3. \A d \in Call : d # c => EntriesOf(d)' = EntriesOf(d)
    BY <2>1 DEF EntriesOf
  <2> QED
    BY <1>2, <2>2, <2>3 DEF LedgerInv, Moves
<1> QED
  BY <1>1, <1>2

LEMMA AuthorizeStep ==
  ASSUME CallInv, PoolInv, DeliveredInv, LedgerInv, RouteInv,
         NEW c \in Call, Authorize(c)
  PROVE  CallInv' /\ PoolInv' /\ DeliveredInv' /\ LedgerInv'
<1>1. UNCHANGED client
  BY DEF Authorize
<1>2. call[c].sut = "none" /\ call[c].reply = 0 /\ call[c].gw = "sent"
  BY DEF Authorize, CallInv, CallSound
<1>3. PoolInv' /\ DeliveredInv'
  BY <1>1, <1>2, AuthorizeCall, KeptByMove
<1>4. LedgerInv'
  <2>1. CASE route = "expired"
    BY <2>1 DEF Authorize, LedgerInv
  <2>2. CASE route # "expired"
    BY <2>2, <1>2, AuthorizeCall, LedgerKept DEF Authorize
  <2> QED
    BY <2>1, <2>2
<1> QED
  BY <1>3, <1>4, AuthorizeCall

LEMMA ForwardStep ==
  ASSUME CallInv, PoolInv, DeliveredInv, LedgerInv, NEW c \in Call, Forward(c)
  PROVE  CallInv' /\ PoolInv' /\ DeliveredInv' /\ LedgerInv'
<1>1. UNCHANGED client /\ ledger' = ledger /\ route' = route
  BY DEF Forward
<1>2. PoolInv' /\ DeliveredInv'
  BY <1>1, ForwardCall, KeptByMove
<1>3. LedgerInv'
  BY <1>1, ForwardCall, LedgerKept
<1> QED
  BY <1>2, <1>3, ForwardCall

LEMMA RelayStep ==
  ASSUME CallInv, PoolInv, DeliveredInv, LedgerInv, NEW c \in Call, Relay(c)
  PROVE  CallInv' /\ PoolInv' /\ DeliveredInv' /\ LedgerInv'
<1>1. UNCHANGED client /\ record(c, "forwarded") /\ route' = route
  BY DEF Relay
<1>2. PoolInv' /\ DeliveredInv'
  BY <1>1, RelayCall, KeptByMove
<1>3. LedgerInv'
  BY <1>1, RelayCall, LedgerRecords
<1> QED
  BY <1>2, <1>3, RelayCall

LEMMA FailStep ==
  ASSUME CallInv, PoolInv, DeliveredInv, LedgerInv, NEW c \in Call, TargetRequestFails(c)
  PROVE  CallInv' /\ PoolInv' /\ DeliveredInv' /\ LedgerInv'
<1>1. UNCHANGED client /\ record(c, "failed") /\ route' = route
  BY DEF TargetRequestFails
<1>2. PoolInv' /\ DeliveredInv'
  BY <1>1, FailCall, KeptByMove
<1>3. LedgerInv'
  BY <1>1, FailCall, LedgerRecords
<1> QED
  BY <1>2, <1>3, FailCall

LEMMA HandleStep ==
  ASSUME CallInv, PoolInv, DeliveredInv, LedgerInv, NEW c \in Call, Handle(c)
  PROVE  CallInv' /\ PoolInv' /\ DeliveredInv' /\ LedgerInv'
<1>1. UNCHANGED client /\ ledger' = ledger /\ route' = route /\ batch \in Batch
  BY DEF Handle, PoolInv
<1>2. PoolInv' /\ DeliveredInv'
  BY <1>1, HandleCall, KeptByMove
<1>3. LedgerInv'
  BY <1>1, HandleCall, LedgerKept
<1> QED
  BY <1>1, <1>2, <1>3, HandleCall

-----------------------------------------------------------------------------
(* The worker pool.                                                        *)

LEMMA Admitted ==
  ASSUME batch \in Batch, admissible(batch), NEW i \in Index
  PROVE  i \in 1..MaxRequests /\ request(i).retry.attempts \in 1..MaxRetryAttempts
<1>1. i \in 1..Len(batch.requests) /\ Len(batch.requests) \in 1..MaxRequests
  BY BatchAssumption DEF admissible, Index
<1>2. normalizeRequest(request(i))
  BY DEF admissible, Index, request
<1>3. request(i).retry.attempts \in 1..MaxRetryAttempts
  BY <1>2 DEF normalizeRequest, normalizeRetry
<1> QED
  BY <1>1, <1>3, PoolAssumption

LEMMA WorkerMoves ==
  ASSUME PoolInv, NEW w \in Worker, UNCHANGED <<batch, aborted>>,
         next' = next \/ next' = next + 1, DOMAIN results' = DOMAIN results,
         action' = action \/ (action' = "cancelled" /\ aborted),
         worker' \in [Worker -> WorkerState],
         \A v \in Worker : v # w => worker'[v] = worker[v],
         Busy(w)' => WorkerSound(w)',
         Busy(w)' => \A v \in Worker : v # w /\ Busy(v) => worker[v].i # worker'[w].i,
         \A c \in Call : call[c].gw = "none" =>
           call'[c].gw = "none" \/ (c[1] < next' /\ Busy(w)' /\ c[1] = worker'[w].i)
  PROVE  PoolInv'
<1>1. Worker' = Worker /\ Index' = Index /\ admissible(batch)' = admissible(batch)
  BY DEF Worker, Index, admissible
<1>2. next' \in Nat \ {0} /\ next <= next'
  BY DEF PoolInv
<1>3. \A v \in Worker : v # w => (Busy(v)' <=> Busy(v))
  BY DEF Busy
<1>4. \A v \in Worker : Busy(v)' => WorkerSound(v)'
  <2> SUFFICES ASSUME NEW v \in Worker, v # w, Busy(v)
               PROVE  WorkerSound(v)'
    BY <1>3
  <2>1. WorkerSound(v) /\ worker'[v] = worker[v]
    BY DEF PoolInv
  <2>2. \A c \in Call : c[1] = worker[v].i /\ c[2] > worker[v].attempt => call'[c].gw = "none"
    BY <2>1 DEF WorkerSound
  <2>3. worker[v].i < next'
    BY <1>2, <2>1 DEF WorkerSound, PoolInv, WorkerState
  <2> QED
    BY <1>1, <2>1, <2>2, <2>3 DEF WorkerSound, request
<1>5. \A v, u \in Worker : Busy(v)' /\ Busy(u)' /\ v # u => worker'[v].i # worker'[u].i
  BY <1>3 DEF PoolInv
<1>6. \A c \in Call : c[1] >= next' => call'[c].gw = "none"
  <2> SUFFICES ASSUME NEW c \in Call, c[1] >= next'
               PROVE  call'[c].gw = "none"
    OBVIOUS
  <2>1. c[1] \in Nat
    BY PoolAssumption DEF Call
  <2> QED
    BY <1>2, <2>1 DEF PoolInv
<1> QED
  BY <1>1, <1>2, <1>4, <1>5, <1>6 DEF PoolInv

LEMMA SendCall ==
  ASSUME CallInv, NEW i \in Index, NEW a, <<i, a>> \in Call, NEW w, Send(w, i, a),
         call[<<i, a>>].gw = "none", batch' = batch, idempotencyKeys' = idempotencyKeys
  PROVE  Moves(<<i, a>>) /\ CallInv' /\ call'[<<i, a>>].reply = call[<<i, a>>].reply
<1>1. PICK c \in Call : c = <<i, a>>
  OBVIOUS
<1>2. /\ call \in [Call -> CallState] /\ call[c].gw = "none" /\ call[c].sut = "none"
      /\ call[c].reply = 0 /\ call[c].status = 0 /\ c[1] \in Index
      /\ call' = [call EXCEPT ![c].gw = "sent"]
  BY <1>1 DEF Send, CallInv, CallSound
<1>3. /\ Moves(c) /\ call'[c].gw = "sent" /\ call'[c].sut = "none" /\ call'[c].reply = 0
      /\ call'[c].status = 0
  BY <1>2 DEF Moves, CallState
<1>4. CallAccepted(c)'
  BY <1>3 DEF CallAccepted, Good
<1>5. CallInv'
  BY <1>2, <1>3, <1>4, CallMoves DEF Good
<1> QED
  BY <1>1, <1>2, <1>3, <1>5

\* The request of worker w begins or goes on with an attempt that was never sent.
LEMMA SendStep ==
  ASSUME CallInv, PoolInv, DeliveredInv, LedgerInv, NEW w \in Worker, NEW i \in Index, NEW a \in Nat,
         admissible(batch), a \in 1..request(i).retry.attempts, i < next',
         Send(w, i, a), UNCHANGED <<batch, aborted, idempotencyKeys, route, ledger>>,
         next' = next \/ next' = next + 1,
         \A v \in Worker : v # w /\ Busy(v) => worker[v].i # i,
         \A c \in Call : c[1] = i /\ c[2] >= a => call[c].gw = "none"
  PROVE  CallInv' /\ PoolInv' /\ DeliveredInv' /\ LedgerInv'
<1>0. i \in 1..MaxRequests /\ request(i).retry.attempts \in 1..MaxRetryAttempts /\ i \in Nat
  BY Admitted, PoolAssumption DEF PoolInv
<1>1. <<i, a>> \in Call
  BY <1>0, LimitAssumption DEF Call
<1>2. call[<<i, a>>].gw = "none"
  BY <1>1
<1>3. Moves(<<i, a>>) /\ CallInv' /\ call'[<<i, a>>].reply = call[<<i, a>>].reply
  BY <1>1, <1>2, SendCall
<1>4. /\ worker' \in [Worker -> WorkerState] /\ worker'[w] = [pc |-> "wait", i |-> i, attempt |-> a]
      /\ \A v \in Worker : v # w => worker'[v] = worker[v]
  BY <1>0 DEF Send, PoolInv, WorkerState
<1>5. worker'[w].pc = "wait" /\ worker'[w].i = i /\ worker'[w].attempt = a
  BY <1>4
<1>6. \A c \in Call : c[1] = i /\ c[2] > a => call'[c].gw = "none"
  <2> SUFFICES ASSUME NEW c \in Call, c[1] = i, c[2] > a
               PROVE  call'[c].gw = "none"
    OBVIOUS
  <2>1. c # <<i, a>> /\ c[2] \in Nat
    BY LimitAssumption DEF Call
  <2>2. call[c].gw = "none"
    BY <2>1
  <2> QED
    BY <2>1, <2>2, <1>3 DEF Moves
<1>7. WorkerSound(w)'
  BY <1>0, <1>5, <1>6 DEF WorkerSound, Index, request, admissible
<1>8. \A c \in Call : call[c].gw = "none" =>
        call'[c].gw = "none" \/ (c[1] < next' /\ Busy(w)' /\ c[1] = worker'[w].i)
  BY <1>3, <1>5 DEF Moves, Busy
<1>9. PoolInv'
  BY <1>4, <1>5, <1>7, <1>8, WorkerMoves DEF Send
<1>10. \A c \in Call : call[c].reply \in Good => call'[c].reply = call[c].reply
  BY <1>3 DEF Moves
<1>11. DeliveredInv'
  BY <1>10, DeliveredKept DEF Send
<1>12. LedgerInv'
  <2>1. call'[<<i, a>>].gw = "sent"
    BY <1>1 DEF Send, CallInv, CallState
  <2> QED
    BY <1>1, <1>2, <1>3, <2>1, LedgerKept
<1> QED
  BY <1>3, <1>9, <1>11, <1>12

\* The worker of a request that ends, or that goes to sleep, sends nothing.
LEMMA IdleStep ==
  ASSUME PoolInv, NEW w \in Worker, UNCHANGED <<batch, aborted, call>>,
         next' = next \/ next' = next + 1, DOMAIN results' = DOMAIN results,
         action' = action \/ (action' = "cancelled" /\ aborted),
         worker' \in [Worker -> WorkerState],
         \A v \in Worker : v # w => worker'[v] = worker[v], ~Busy(w)'
  PROVE  PoolInv'
  BY WorkerMoves

LEMMA ThrownStep ==
  ASSUME CallInv, PoolInv, DeliveredInv, LedgerInv, NEW w \in Worker, NEW i \in Index, Thrown(w, i),
         UNCHANGED <<batch, aborted, idempotencyKeys, route, ledger>>,
         next' = next \/ next' = next + 1
  PROVE  CallInv' /\ PoolInv' /\ DeliveredInv' /\ LedgerInv'
<1>1. call' = call /\ DOMAIN results' = DOMAIN results
  BY DEF Thrown
<1>2. /\ worker' \in [Worker -> WorkerState] /\ \A v \in Worker : v # w => worker'[v] = worker[v]
      /\ ~Busy(w)'
  <2>1. CASE aborted
    BY <2>1 DEF Thrown, PoolInv, WorkerState, Busy
  <2>2. CASE ~aborted
    BY <2>2 DEF Thrown, PoolInv, WorkerState, Busy, Idle
  <2> QED
    BY <2>1, <2>2
<1>3. PoolInv'
  BY <1>1, <1>2, IdleStep DEF Thrown
<1>4. DeliveredInv'
  <2>1. CASE aborted
    BY <2>1, <1>1, DeliveredKept DEF Thrown
  <2>2. CASE ~aborted
    <3>1. results' = [results EXCEPT ![i] = BatchTimeout] /\ DOMAIN results = Index
      BY <2>2 DEF Thrown, PoolInv
    <3>2. BatchTimeout.reasons # {}
      BY DEF BatchTimeout
    <3> QED
      BY <1>1, <3>1, <3>2 DEF DeliveredInv, Delivered, Passed, expectsSuccess, Index, request
  <2> QED
    BY <2>1, <2>2
<1>5. CallInv' /\ LedgerInv'
  BY <1>1, CallSame DEF LedgerInv, EntriesOf
<1> QED
  BY <1>3, <1>4, <1>5

LEMMA TakeStep ==
  ASSUME CallInv, PoolInv, DeliveredInv, LedgerInv, NEW w \in Worker, Take(w)
  PROVE  CallInv' /\ PoolInv' /\ DeliveredInv' /\ LedgerInv'
<1>0. UNCHANGED <<batch, aborted, idempotencyKeys, route, ledger>> /\ next' = next + 1 /\ next \in Nat
  BY DEF Take, PoolInv, sutVars, ingestion
<1>1. CASE next \notin Index
  <2>1. /\ UNCHANGED <<action, results, call>>
        /\ worker' = [worker EXCEPT ![w] = [@ EXCEPT !.pc = "done"]]
    BY <1>1 DEF Take
  <2>2. /\ worker' \in [Worker -> WorkerState] /\ \A v \in Worker : v # w => worker'[v] = worker[v]
        /\ ~Busy(w)'
    BY <2>1 DEF PoolInv, WorkerState, Busy
  <2>3. PoolInv'
    BY <1>0, <2>1, <2>2, IdleStep
  <2>4. CallInv' /\ LedgerInv' /\ DeliveredInv'
    BY <1>0, <2>1, CallSame, DeliveredKept DEF LedgerInv, EntriesOf
  <2> QED
    BY <2>3, <2>4
<1>2. CASE next \in Index /\ Stopped
  BY <1>0, <1>2, ThrownStep DEF Take
<1>3. CASE next \in Index /\ ~Stopped
  <2>0. admissible(batch)
    BY <1>3 DEF Take, PoolInv, Stopped
  <2>1. \A v \in Worker : v # w /\ Busy(v) => worker[v].i # next
    BY DEF PoolInv, WorkerSound, WorkerState
  <2>2. \A c \in Call : c[1] = next => call[c].gw = "none"
    BY <1>0 DEF PoolInv
  <2>3. request(next).retry.attempts \in 1..MaxRetryAttempts
    BY <1>3, <2>0, Admitted DEF PoolInv
  <2>4. CASE request(next).delayBeforeMs > 0
    <3>1. /\ UNCHANGED <<action, results, call>>
          /\ worker' = [worker EXCEPT ![w] = [pc |-> "sleep", i |-> next, attempt |-> 0]]
      BY <1>3, <2>4 DEF Take
    <3>2. /\ worker' \in [Worker -> WorkerState]
          /\ \A v \in Worker : v # w => worker'[v] = worker[v]
          /\ worker'[w].pc = "sleep" /\ worker'[w].i = next /\ worker'[w].attempt = 0
      BY <1>0, <3>1 DEF PoolInv, WorkerState
    <3>3. WorkerSound(w)'
      BY <1>0, <1>3, <2>0, <2>2, <2>3, <3>1, <3>2, LimitAssumption
         DEF WorkerSound, Index, request, admissible
    <3>4. PoolInv'
      BY <1>0, <2>1, <3>1, <3>2, <3>3, WorkerMoves
    <3>5. CallInv' /\ LedgerInv' /\ DeliveredInv'
      BY <1>0, <3>1, CallSame, DeliveredKept DEF LedgerInv, EntriesOf
    <3> QED
      BY <3>4, <3>5
  <2>5. CASE ~(request(next).delayBeforeMs > 0)
    <3>1. Send(w, next, 1)
      BY <1>3, <2>5 DEF Take
    <3>2. 1 \in 1..request(next).retry.attempts
      BY <2>3, LimitAssumption
    <3> QED
      BY <1>0, <1>3, <2>0, <2>1, <2>2, <3>1, <3>2, SendStep
  <2> QED
    BY <2>4, <2>5
<1> QED
  BY <1>1, <1>2, <1>3

LEMMA BusyFacts ==
  ASSUME PoolInv, NEW w \in Worker, Busy(w)
  PROVE  /\ worker[w].i \in Index /\ worker[w].i \in Nat /\ worker[w].attempt \in Nat
         /\ admissible(batch) /\ worker[w].i < next
         /\ request(worker[w].i).retry.attempts \in 1..MaxRetryAttempts
         /\ \A v \in Worker : v # w /\ Busy(v) => worker[v].i # worker[w].i
<1>1. worker[w].i \in Index /\ admissible(batch) /\ worker[w].i < next
  BY DEF PoolInv, WorkerSound
<1>2. request(worker[w].i).retry.attempts \in 1..MaxRetryAttempts
  BY <1>1, Admitted DEF PoolInv
<1> QED
  BY <1>1, <1>2 DEF PoolInv, WorkerState

LEMMA AwakeStep ==
  ASSUME CallInv, PoolInv, DeliveredInv, LedgerInv, NEW w \in Worker, Awake(w)
  PROVE  CallInv' /\ PoolInv' /\ DeliveredInv' /\ LedgerInv'
<1>0. UNCHANGED <<batch, aborted, idempotencyKeys, route, ledger>> /\ next' = next /\ Busy(w)
  BY DEF Awake, sutVars, ingestion, Busy
<1>1. PICK i \in Index : i = worker[w].i
  BY <1>0, BusyFacts
<1>2. CASE Stopped
  BY <1>0, <1>1, <1>2, ThrownStep DEF Awake
<1>3. CASE ~Stopped
  <2>1. PICK a \in Nat : a = worker[w].attempt + 1
    BY <1>0, BusyFacts
  <2>2. Send(w, i, a)
    BY <1>1, <1>3, <2>1 DEF Awake
  <2>3. a \in 1..request(i).retry.attempts
    <3>1. worker[w].attempt < request(i).retry.attempts
      BY <1>0, <1>1 DEF PoolInv, WorkerSound, Awake
    <3>2. request(i).retry.attempts \in 1..MaxRetryAttempts /\ worker[w].attempt \in Nat
      BY <1>0, <1>1, BusyFacts
    <3> QED
      BY <2>1, <3>1, <3>2, LimitAssumption
  <2>4. \A c \in Call : c[1] = i /\ c[2] >= a => call[c].gw = "none"
    <3>1. \A c \in Call : c[2] \in Nat
      BY LimitAssumption DEF Call
    <3>2. worker[w].attempt \in Nat
      BY <1>0, BusyFacts
    <3>3. \A c \in Call : c[2] >= a => c[2] > worker[w].attempt
      BY <2>1, <3>1, <3>2
    <3> QED
      BY <1>0, <1>1, <3>3 DEF PoolInv, WorkerSound
  <2>5. admissible(batch) /\ i < next' /\ \A v \in Worker : v # w /\ Busy(v) => worker[v].i # i
    BY <1>0, <1>1, BusyFacts
  <2> QED
    BY <1>0, <2>2, <2>3, <2>4, <2>5, SendStep
<1> QED
  BY <1>2, <1>3

\* evaluateExpectation finds nothing against a request that had to succeed
\* only if its last attempt was answered, and well.
LEMMA JudgedWell ==
  ASSUME NEW q, NEW o, NEW status, NEW n, NEW ms,
         ~q.expect.networkFailure, q.expect.statuses \subseteq Good,
         evaluateExpectation(q, o, status, n, ms) = {}
  PROVE  o = "response" /\ status \in Good
<1>1. "unexpected-network-failure" \notin evaluateExpectation(q, o, status, n, ms)
  OBVIOUS
<1>2. o = "response"
  BY <1>1 DEF evaluateExpectation
<1>3. "unexpected-status" \notin evaluateExpectation(q, o, status, n, ms)
  OBVIOUS
<1>4. status \in IF q.expect.statuses # {} THEN q.expect.statuses ELSE 200..399
  BY <1>2, <1>3 DEF evaluateExpectation
<1> QED
  BY <1>2, <1>4 DEF Good

LEMMA SettleDelivered ==
  ASSUME CallInv, PoolInv, DeliveredInv, NEW i \in Index, NEW a \in Nat \ {0}, <<i, a>> \in Call,
         NEW o \in Outcomes(<<i, a>>), NEW status, batch' = batch, call' = call,
         status = IF o = "response" THEN call[<<i, a>>].status ELSE 0,
         results' = [results EXCEPT ![i] = judged(i, a, o, status)]
  PROVE  DeliveredInv'
<1>1. Index' = Index /\ DOMAIN results = Index
  BY DEF PoolInv, Index
<1>2. \A j \in Index : j # i => Delivered(j)'
  BY <1>1 DEF DeliveredInv, Delivered, Passed, expectsSuccess, request
<1>3. Delivered(i)'
  <2>1. /\ results'[i].attempts = a
        /\ results'[i].reasons = evaluateExpectation(request(i), o, status, a, elapsedMs(request(i), a))
    BY <1>1 DEF judged
  <2> SUFFICES ASSUME results'[i].reasons = {}, expectsSuccess(i)
               PROVE  call[<<i, a>>].reply \in Good
    BY <2>1 DEF Delivered, Passed, expectsSuccess, request
  <2>2. ~request(i).expect.networkFailure /\ request(i).expect.statuses \subseteq Good
    BY DEF expectsSuccess, Good
  <2>3. o = "response" /\ status \in Good
    BY <2>1, <2>2, JudgedWell
  <2>4. CallSound(<<i, a>>)
    BY DEF CallInv
  <2> QED
    BY <2>3, <2>4 DEF CallSound
<1> QED
  BY <1>1, <1>2, <1>3 DEF DeliveredInv

LEMMA SettleStep ==
  ASSUME CallInv, PoolInv, DeliveredInv, LedgerInv, NEW w \in Worker, Settle(w)
  PROVE  CallInv' /\ PoolInv' /\ DeliveredInv' /\ LedgerInv'
<1>0. UNCHANGED <<batch, aborted, idempotencyKeys, route, ledger>> /\ next' = next /\ Busy(w)
  BY DEF Settle, sutVars, ingestion, Busy
<1>1. PICK i \in Index : i = worker[w].i
  BY <1>0, BusyFacts
<1>2. PICK a \in Nat \ {0} : a = worker[w].attempt /\ a <= request(i).retry.attempts
  BY <1>0, <1>1, BusyFacts DEF PoolInv, WorkerSound, Settle
<1>3. <<i, a>> \in Call
  <2>1. i \in 1..MaxRequests /\ request(i).retry.attempts \in 1..MaxRetryAttempts
    BY <1>0, <1>1, BusyFacts, Admitted DEF PoolInv
  <2> QED
    BY <1>2, <2>1, LimitAssumption DEF Call
<1>4. CASE Stopped
  BY <1>0, <1>1, <1>4, ThrownStep DEF Settle
<1>5. CASE ~Stopped
  <2>1. PICK o \in Outcomes(<<i, a>>) :
          LET status == IF o = "response" THEN call[<<i, a>>].status ELSE 0
          IN  IF shouldRetry(request(i), a, o, status)
              THEN /\ worker' = [worker EXCEPT ![w] = [@ EXCEPT !.pc = "sleep"]]
                   /\ UNCHANGED <<action, results, call>>
              ELSE /\ worker' = [worker EXCEPT ![w] = Idle]
                   /\ results' = [results EXCEPT ![i] = judged(i, a, o, status)]
                   /\ UNCHANGED <<action, call>>
    BY <1>1, <1>2, <1>5 DEF Settle
  <2>2. PICK status : status = IF o = "response" THEN call[<<i, a>>].status ELSE 0
    OBVIOUS
  <2>3. call' = call /\ action' = action /\ CallInv' /\ LedgerInv'
    <3>1. call' = call /\ action' = action
      BY <2>1, <2>2
    <3> QED
      BY <1>0, <3>1, CallSame DEF LedgerInv, EntriesOf
  <2>4. CASE shouldRetry(request(i), a, o, status)
    <3>1. worker' = [worker EXCEPT ![w] = [@ EXCEPT !.pc = "sleep"]] /\ results' = results
      BY <2>1, <2>2, <2>4
    <3>2. /\ worker' \in [Worker -> WorkerState]
          /\ \A v \in Worker : v # w => worker'[v] = worker[v]
          /\ worker'[w].pc = "sleep" /\ worker'[w].i = i /\ worker'[w].attempt = a
      BY <3>1, <1>1, <1>2 DEF PoolInv, WorkerState
    <3>3. WorkerSound(w)'
      <4>1. WorkerSound(w) /\ a < request(i).retry.attempts
        BY <1>0, <2>4 DEF PoolInv, shouldRetry
      <4> QED
        BY <1>0, <1>1, <1>2, <2>3, <3>2, <4>1 DEF WorkerSound, Index, request, admissible
    <3>4. PoolInv'
      BY <1>0, <1>1, <2>3, <3>1, <3>2, <3>3, BusyFacts, WorkerMoves
    <3>5. DeliveredInv'
      BY <1>0, <2>3, <3>1, DeliveredKept
    <3> QED
      BY <2>3, <3>4, <3>5
  <2>5. CASE ~shouldRetry(request(i), a, o, status)
    <3>1. /\ worker' = [worker EXCEPT ![w] = Idle]
          /\ results' = [results EXCEPT ![i] = judged(i, a, o, status)]
      BY <2>1, <2>2, <2>5
    <3>2. /\ worker' \in [Worker -> WorkerState] /\ ~Busy(w)'
          /\ \A v \in Worker : v # w => worker'[v] = worker[v]
      BY <3>1 DEF PoolInv, WorkerState, Idle, Busy
    <3>3. PoolInv'
      BY <1>0, <2>3, <3>1, <3>2, IdleStep
    <3>4. DeliveredInv'
      BY <1>0, <1>3, <2>2, <2>3, <3>1, SettleDelivered
    <3> QED
      BY <2>3, <3>3, <3>4
  <2> QED
    BY <2>4, <2>5
<1> QED
  BY <1>4, <1>5

\* The steps of the action outside its workers, and those of the route.
LEMMA ActionStep ==
  ASSUME CallInv, PoolInv, DeliveredInv, LedgerInv, RouteInv,
         \/ Submit \/ BatchTimer \/ Abort \/ Report \/ Persist \/ ExpireRoute \/ DeleteRoute
         \/ UNCHANGED <<client, call, route, ledger>> /\ idempotencyKeys \subseteq idempotencyKeys'
  PROVE  CallInv' /\ PoolInv' /\ DeliveredInv' /\ LedgerInv' /\ RouteInv'
<1>0. /\ UNCHANGED <<batch, next, worker, call>> /\ idempotencyKeys \subseteq idempotencyKeys'
      /\ aborted => aborted'
  BY DEF Submit, BatchTimer, Abort, Report, Persist, ExpireRoute, DeleteRoute, client, sutVars,
         ingestion
<1>1. CallInv'
  BY <1>0, CallSame
<1>2. LedgerInv' /\ RouteInv'
  <2>1. (route' = route /\ ledger' = ledger) \/ (route' = "expired" /\ route = "live" /\ ledger' = ledger)
          \/ route' = "gone"
    BY DEF Submit, BatchTimer, Abort, Report, Persist, ExpireRoute, DeleteRoute
  <2> QED
    BY <1>0, <2>1 DEF LedgerInv, RouteInv, EntriesOf
<1>3. PoolInv'
  <2>1. DOMAIN results' = Index'
    BY <1>0 DEF Submit, BatchTimer, Abort, Report, Persist, ExpireRoute, DeleteRoute, PoolInv,
                client, Index
  <2>2. /\ action' \in {"running", "persisting", "passed", "failed", "error"} => admissible(batch)
        /\ action' = "cancelled" => aborted'
    BY DEF Submit, BatchTimer, Abort, Report, Persist, ExpireRoute, DeleteRoute, PoolInv, client
  <2>3. admissible(batch)' <=> admissible(batch)
    BY <1>0 DEF admissible
  <2>4. ASSUME NEW w \in Worker, Busy(w)'
        PROVE  Busy(w) /\ WorkerSound(w)'
    <3>1. Busy(w)
      BY <1>0, <2>4 DEF Busy
    <3>2. WorkerSound(w)
      BY <3>1 DEF PoolInv
    <3> QED
      BY <1>0, <2>3, <3>1, <3>2 DEF WorkerSound, Index, request
  <2> QED
    BY <1>0, <2>1, <2>2, <2>3, <2>4 DEF PoolInv, Worker
<1>4. DeliveredInv'
  <2>1. CASE Report
    <3>1. results' = [j \in Index |-> IF results[j] = Pending THEN BatchTimeout ELSE results[j]]
      BY <2>1 DEF Report
    <3>2. BatchTimeout.reasons # {}
      BY DEF BatchTimeout
    <3>3. Index' = Index
      BY <1>0 DEF Index
    <3>4. ASSUME NEW i \in Index, Passed(i)'
          PROVE  results'[i] = results[i] /\ Passed(i)
      BY <3>1, <3>2, <3>4 DEF Passed
    <3>5. \A i \in Index : expectsSuccess(i)' <=> expectsSuccess(i)
      BY <1>0 DEF expectsSuccess, request
    <3> QED
      BY <1>0, <3>3, <3>4, <3>5 DEF DeliveredInv, Delivered
  <2>2. CASE ~Report
    <3>1. results' = results
      BY <2>2 DEF Submit, BatchTimer, Abort, Persist, ExpireRoute, DeleteRoute, client
    <3> QED
      BY <1>0, <3>1, DeliveredKept
  <2> QED
    BY <2>1, <2>2
<1> QED
  BY <1>1, <1>2, <1>3, <1>4

-----------------------------------------------------------------------------
(* Every step, and the theorems.                                           *)

LEMMA TargetStep ==
  ASSUME IInv, [Next]_vars
  PROVE  \/ UNCHANGED ingestion
         \/ \E k \in Key : Ingest(k) /\ UNCHANGED observer
         \/ \E k \in Key, ok \in BOOLEAN : ProviderReturns(k, ok) /\ UNCHANGED observer
<1>1. CASE \E c \in Call : Handle(c)
  <2>1. PICK c \in Call : Handle(c)
    BY <1>1
  <2>2. key(c) \in Key
    BY <2>1, HandleCall DEF IInv, PoolInv
  <2> QED
    BY <2>1, <2>2 DEF Handle, Probe
<1>2. CASE \E k \in Key : Provider(k)
  BY <1>2 DEF Provider
<1>3. CASE ~(\E c \in Call : Handle(c)) /\ ~(\E k \in Key : Provider(k))
  <2>1. CASE UNCHANGED vars
    BY <2>1 DEF vars, sutVars
  <2>2. CASE Submit \/ BatchTimer \/ Abort \/ Report \/ Persist \/ ExpireRoute \/ DeleteRoute
    BY <2>2 DEF Submit, BatchTimer, Abort, Report, Persist, ExpireRoute, DeleteRoute, sutVars
  <2>3. CASE \E w \in Worker : Take(w) \/ Awake(w) \/ Settle(w)
    BY <2>3 DEF Take, Awake, Settle, sutVars
  <2>4. CASE \E c \in Call : Authorize(c) \/ Forward(c) \/ Relay(c) \/ TargetRequestFails(c)
    BY <2>4 DEF Authorize, Forward, Relay, TargetRequestFails, sutVars
  <2>5. CASE Poll \/ CollectOutcome \/ CleanupTarget
    BY <2>5 DEF Poll, CollectOutcome, CleanupTarget, DeleteRun, sutVars
  <2> QED
    BY <1>3, <2>1, <2>2, <2>3, <2>4, <2>5 DEF Next
<1> QED
  BY <1>1, <1>2, <1>3

LEMMA ObserverStep ==
  ASSUME ScoreInv, ObserverInv, [Next]_vars, processedEvents # {} => processedEvents' # {}
  PROVE  ObserverInv'
<1>1. CASE Poll
  BY <1>1 DEF Poll, ScoreInv, ObserverInv, CompletedHasOutcome
<1>2. CASE CollectOutcome
  BY <1>2, CollectInv
<1>3. CASE ~Poll /\ ~CollectOutcome
  <2>0. UNCHANGED observer
    <3>1. CASE UNCHANGED vars
      BY <3>1 DEF vars
    <3>2. CASE Submit \/ BatchTimer \/ Abort \/ Report \/ Persist \/ ExpireRoute \/ DeleteRoute
      BY <3>2 DEF Submit, BatchTimer, Abort, Report, Persist, ExpireRoute, DeleteRoute
    <3>3. CASE \E w \in Worker : Take(w) \/ Awake(w) \/ Settle(w)
      BY <3>3 DEF Take, Awake, Settle
    <3>4. CASE \E c \in Call : \/ Authorize(c) \/ Forward(c) \/ Relay(c)
                               \/ TargetRequestFails(c) \/ Handle(c)
      BY <3>4 DEF Authorize, Forward, Relay, TargetRequestFails, Handle
    <3>5. CASE \E k \in Key : Provider(k)
      BY <3>5 DEF Provider
    <3>6. CASE CleanupTarget
      BY <3>6 DEF CleanupTarget
    <3> QED
      BY <1>3, <3>1, <3>2, <3>3, <3>4, <3>5, <3>6 DEF Next
  <2> QED
    BY <2>0 DEF observer, ObserverInv, CompletedHasOutcome
<1> QED
  BY <1>1, <1>2, <1>3

LEMMA SutStep ==
  ASSUME IInv, [Next]_vars
  PROVE  EventInv' /\ ScoreInv' /\ ObserverInv'
<1>1. CASE UNCHANGED ingestion
  <2>1. EventInv' /\ ScoreInv' /\ processedEvents' = processedEvents
    BY <1>1 DEF IInv, EventInv, ScoreInv, ingestion
  <2> QED
    BY <2>1, ObserverStep DEF IInv
<1>2. CASE \E k \in Key : Ingest(k) /\ UNCHANGED observer
  <2>1. EventInv' /\ ScoreInv' /\ processedEvents' = processedEvents
    BY <1>2, IngestInv DEF IInv, Ingest
  <2> QED
    BY <2>1, ObserverStep DEF IInv
<1>3. CASE \E k \in Key, ok \in BOOLEAN : ProviderReturns(k, ok) /\ UNCHANGED observer
  <2>1. EventInv' /\ ScoreInv' /\ (processedEvents # {} => processedEvents' # {})
    BY <1>3, ProviderInv DEF IInv
  <2> QED
    BY <2>1, ObserverStep DEF IInv
<1> QED
  BY <1>1, <1>2, <1>3, TargetStep

LEMMA PathStep ==
  ASSUME IInv, [Next]_vars
  PROVE  CallInv' /\ PoolInv' /\ DeliveredInv' /\ LedgerInv' /\ RouteInv'
<1>0. CallInv /\ PoolInv /\ DeliveredInv /\ LedgerInv /\ RouteInv
  BY DEF IInv
<1>1. CASE Submit \/ BatchTimer \/ Abort \/ Report \/ Persist \/ ExpireRoute \/ DeleteRoute
  BY <1>0, <1>1, ActionStep
<1>2. CASE \E w \in Worker : Take(w) \/ Awake(w) \/ Settle(w)
  <2>1. RouteInv'
    BY <1>0, <1>2 DEF Take, Awake, Settle, RouteInv
  <2> QED
    BY <1>0, <1>2, <2>1, TakeStep, AwakeStep, SettleStep
<1>3. CASE \E c \in Call : \/ Authorize(c) \/ Forward(c) \/ Relay(c) \/ TargetRequestFails(c)
                           \/ Handle(c)
  <2>1. RouteInv'
    BY <1>0, <1>3 DEF Authorize, Forward, Relay, TargetRequestFails, Handle, RouteInv
  <2> QED
    BY <1>0, <1>3, <2>1, AuthorizeStep, ForwardStep, RelayStep, FailStep, HandleStep
<1>4. CASE (\E k \in Key : Provider(k)) \/ Poll \/ CollectOutcome \/ CleanupTarget \/ UNCHANGED vars
  <2>1. UNCHANGED <<client, call, route, ledger>> /\ idempotencyKeys \subseteq idempotencyKeys'
    BY <1>4 DEF Provider, ProviderReturns, Poll, CollectOutcome, CleanupTarget, DeleteRun, vars,
                sutVars, ingestion
  <2> QED
    BY <1>0, <2>1, ActionStep
<1> QED
  BY <1>1, <1>2, <1>3, <1>4 DEF Next

LEMMA FinalStep ==
  ASSUME FinalInv, [Next]_vars
  PROVE  FinalInv'
<1>1. CASE Submit \/ BatchTimer \/ Abort \/ Report \/ Persist
  BY <1>1 DEF Submit, BatchTimer, Abort, Report, Persist, FinalInv, Worker, Index, Passed
<1>2. CASE \E w \in Worker : Take(w) \/ Awake(w) \/ Settle(w)
  <2>1. PICK w \in Worker : Take(w) \/ Awake(w) \/ Settle(w)
    BY <1>2
  <2>2. action \notin {"persisting", "passed", "failed", "error"}
    BY <2>1 DEF FinalInv, Take, Awake, Settle
  <2>3. action' \in {action, "cancelled"}
    BY <2>1 DEF Take, Awake, Settle, Send, Thrown
  <2> QED
    BY <2>2, <2>3 DEF FinalInv
<1>3. CASE UNCHANGED client
  BY <1>3 DEF client, FinalInv, Worker, Index, Passed
<1>4. CASE ExpireRoute \/ DeleteRoute \/ Poll \/ CollectOutcome \/ CleanupTarget
           \/ (\E k \in Key : Provider(k)) \/ UNCHANGED vars
  BY <1>3, <1>4 DEF ExpireRoute, DeleteRoute, Poll, CollectOutcome, CleanupTarget, Provider, vars
<1>5. CASE \E c \in Call : \/ Authorize(c) \/ Forward(c) \/ Relay(c) \/ TargetRequestFails(c)
                           \/ Handle(c)
  BY <1>3, <1>5 DEF Authorize, Forward, Relay, TargetRequestFails, Handle
<1> QED
  BY <1>1, <1>2, <1>4, <1>5 DEF Next

\* The strengthened invariant: where every call, worker and event stands.
THEOREM InvCorrect == FairSpec => []IInv
<1>1. Init => IInv
  BY InitInv
<1>2. IInv /\ [Next]_vars => IInv'
  BY SutStep, PathStep, FinalStep DEF IInv
<1> QED
  BY <1>1, <1>2, PTL DEF FairSpec, Spec

\* A batch that passed was delivered, and the ledger of a live route tells of
\* exactly the answered requests that reached the target.
THEOREM ReportsAreTrueCorrect == FairSpec => []ReportsAreTrue
<1>1. IInv => ReportsAreTrue
  <2> SUFFICES ASSUME IInv
               PROVE  PassedIsDelivered /\ LedgerTells
    BY DEF ReportsAreTrue
  <2>1. PassedIsDelivered
    <3> SUFFICES ASSUME action = "passed", NEW i \in Index, expectsSuccess(i)
                 PROVE  /\ \E a \in 1..results[i].attempts : call[<<i, a>>].reply \in 200..399
                        /\ request(i).op = "events" => request(i).key \in idempotencyKeys
      BY DEF PassedIsDelivered
    <3>1. Delivered(i) /\ Passed(i)
      BY DEF IInv, DeliveredInv, FinalInv
    <3>2. PICK a \in 1..results[i].attempts : <<i, a>> \in Call /\ call[<<i, a>>].reply \in Good
      BY <3>1 DEF Delivered
    <3>3. CallAccepted(<<i, a>>)
      BY <3>2 DEF IInv, CallInv
    <3> QED
      BY <3>2, <3>3 DEF CallAccepted, key, Good
  <2>2. LedgerTells
    <3> SUFFICES ASSUME route # "gone", NEW c \in Call
                 PROVE  Cardinality(EntriesOf(c))
                          = IF call[c].gw = "answered" /\ call[c].sut # "none" THEN 1 ELSE 0
      BY DEF LedgerTells, EntriesOf
    <3> QED
      BY FS_EmptySet, FS_Singleton DEF IInv, LedgerInv
  <2> QED
    BY <2>1, <2>2
<1> QED
  BY <1>1, InvCorrect, PTL

\* An outcome collected after "completed" is whole: it has a processed event,
\* its company and exactly the scores of one run.
THEOREM CompletedHasOutcomeCorrect == FairSpec => []CompletedHasOutcome
<1>1. IInv => CompletedHasOutcome
  BY DEF IInv, ObserverInv
<1> QED
  BY <1>1, InvCorrect, PTL

LEMMA ContractInit ==
  ASSUME Init
  PROVE  Contract!Init
  BY DEF Init, SutInit, Contract!Init, ingestedNow

LEMMA ContractStep ==
  ASSUME IInv, [Next]_vars
  PROVE  [Contract!Next]_ingestedNow
<1>0. EventInv /\ EventInv'
  BY SutStep DEF IInv
<1>1. CASE UNCHANGED ingestion
  BY <1>1 DEF ingestion, ingestedNow
<1>2. CASE \E k \in Key : Ingest(k)
  <2>1. PICK k \in Key : Ingest(k)
    BY <1>2
  <2>2. CASE k \in idempotencyKeys
    BY <2>1, <2>2 DEF Ingest, ingestedNow
  <2>3. CASE k \notin idempotencyKeys
    <3>1. ingestedNow[k] = "new"
      BY <2>3 DEF ingestedNow
    <3>2. CASE vendorEndpoints
      <4>1. ingestedNow' = [ingestedNow EXCEPT ![k] = "processing"]
        BY <1>0, <2>1, <2>3, <3>2 DEF Ingest, ingestedNow, EventInv
      <4> QED
        BY <3>1, <4>1 DEF Contract!Next, Contract!Accept
    <3>3. CASE ~vendorEndpoints
      <4>1. ingestedNow' = [ingestedNow EXCEPT ![k] = "failed"]
        BY <1>0, <2>1, <2>3, <3>3 DEF Ingest, ingestedNow, EventInv
      <4> QED
        BY <3>1, <4>1 DEF Contract!Next, Contract!Accept
    <3> QED
      BY <3>2, <3>3
  <2> QED
    BY <2>2, <2>3
<1>3. CASE \E k \in Key, ok \in BOOLEAN : ProviderReturns(k, ok)
  <2>1. PICK k \in Key, ok \in BOOLEAN : ProviderReturns(k, ok)
    BY <1>3
  <2>2. /\ event[k] \in {"ipinfo", "apollo", "hunter", "egress"} /\ k \in idempotencyKeys
        /\ idempotencyKeys' = idempotencyKeys
    BY <1>0, <2>1 DEF ProviderReturns, EventInv
  <2>3. ingestedNow[k] = "processing"
    BY <2>2 DEF ingestedNow
  <2>4. afterProvider(event[k]) \in {"apollo", "hunter", "egress", "done"}
    BY <2>2, AfterProvider
  <2>5. CASE ~ok
    <3>1. ingestedNow' = [ingestedNow EXCEPT ![k] = "failed"]
      BY <1>0, <2>1, <2>2, <2>5 DEF ProviderReturns, ingestedNow, EventInv
    <3> QED
      BY <2>3, <3>1 DEF Contract!Next, Contract!Settle
  <2>6. CASE ok /\ afterProvider(event[k]) = "done"
    <3>1. ingestedNow' = [ingestedNow EXCEPT ![k] = "processed"]
      BY <1>0, <2>1, <2>2, <2>6 DEF ProviderReturns, Processed, ingestedNow, EventInv
    <3> QED
      BY <2>3, <3>1 DEF Contract!Next, Contract!Settle
  <2>7. CASE ok /\ afterProvider(event[k]) # "done"
    BY <1>0, <2>1, <2>2, <2>4, <2>7 DEF ProviderReturns, ingestedNow, EventInv
  <2> QED
    BY <2>5, <2>6, <2>7
<1> QED
  BY <1>1, <1>2, <1>3, TargetStep

\* The target implements the ingestion contract: however its events are
\* submitted, retried and duplicated, each is accepted, worked on and settled once.
THEOREM ImplementsIngestionCorrect == FairSpec => ImplementsIngestion
<1>1. Init => Contract!Init
  BY ContractInit
<1>2. IInv /\ [Next]_vars => [Contract!Next]_ingestedNow
  BY ContractStep
<1> QED
  BY <1>1, <1>2, InvCorrect, PTL DEF FairSpec, Spec, ImplementsIngestion, Contract!Spec
=============================================================================
