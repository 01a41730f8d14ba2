----------------------------- MODULE TrafficPath -----------------------------
(***************************************************************************)
(* One traffic.burst action, from the worker pool of HttpTrafficGenerator  *)
(* through the proxy of the traffic gateway to the reference SUT, the      *)
(* evidence the action persists, and the observation that follows it.      *)
(*                                                                         *)
(* A client that gives up on an attempt does not stop it: the gateway and  *)
(* the target go on with what they have read.  A call is one attempt of    *)
(* one request, and the three parties move it on their own.                *)
(***************************************************************************)
EXTENDS ReferenceSut, TrafficRules, Sequences, FiniteSetsExt

CONSTANTS
  Batch,          \* the batch definitions a scenario may submit
  MaxRequests, MaxConcurrency,
  MaxTroubles     \* bound: timers, aborts, failed target and provider calls, lost routes

ASSUME PoolAssumption == MaxRequests \in Nat \ {0} /\ MaxConcurrency \in Nat \ {0}

\* The requests of a batch are a list; each goes to one of the target's endpoints.
ASSUME BatchAssumption ==
  \A b \in Batch :
    /\ Len(b.requests) \in Nat /\ DOMAIN b.requests = 1..Len(b.requests)
    /\ \A i \in DOMAIN b.requests :
         b.requests[i].key \in Key /\ b.requests[i].op \in {"events", "idempotent", "retry", "slow"}

VARIABLES
  batch,      \* the submitted definition: its requests and its concurrency
  action,     \* the action: "submitted", "running", "persisting", then how it ended
  next,       \* the index of the next request to take
  worker,     \* worker[w]: what it awaits, its request and the attempt
  results,    \* results[i]: failure reasons and attempts of request i, or Pending
  timedOut, aborted,     \* the batch timer and the scenario's signal have fired
  call,       \* call[c]: where the gateway and the target are with attempt c
  route,      \* the gateway route: "live", "expired" (but kept) or "gone"
  ledger,     \* its ledger: calls and the outcome recorded
  watch,      \* the observation: "idle", "polling", then what it observed
  collected,  \* the outcome collected after it
  troubles

client == <<batch, action, next, worker, results, timedOut, aborted>>
observer == <<watch, collected>>
vars == <<sutVars, client, call, route, ledger, observer, troubles>>

Pending == [reasons |-> {"pending"}, attempts |-> 0]
BatchTimeout == [reasons |-> {"batch-timeout"}, attempts |-> 0]
Idle == [pc |-> "take", i |-> 0, attempt |-> 0]
NoCall == [gw |-> "none", sut |-> "none", reply |-> 0, status |-> 0]
NoOutcome == [after |-> "none", processed |-> 0, score |-> 0, company |-> 0]
request(i) == batch.requests[i]
Index == DOMAIN batch.requests
Call == (1..MaxRequests) \X (1..MaxRetryAttempts)
Worker == 1..batch.concurrency
Stopped == timedOut \/ aborted
key(c) == request(c[1]).key
Passed(i) == results[i].reasons = {}

\* Something out of the ordinary happens.
Trouble == troubles < MaxTroubles /\ troubles' = troubles + 1

TypeOK ==
  /\ SutTypeOK /\ batch \in Batch
  /\ action \in {"submitted", "rejected", "running", "cancelled", "persisting",
                 "passed", "failed", "error"}
  /\ next \in 1..(Len(batch.requests) + MaxConcurrency + 1)
  /\ \A w \in Worker : worker[w].pc \in {"take", "sleep", "wait", "done", "thrown"}
  /\ timedOut \in BOOLEAN /\ aborted \in BOOLEAN
  /\ \A c \in Call :
       /\ call[c].gw \in {"none", "sent", "authorized", "forwarded", "answered", "dropped"}
       /\ call[c].sut \in {"none", "reading", "replied"}
       /\ call[c].reply \in {0} \cup HttpStatus /\ call[c].status \in {0} \cup HttpStatus
  /\ route \in {"live", "expired", "gone"} /\ troubles \in 0..MaxTroubles
  /\ \A entry \in ledger : entry[1] \in Call /\ entry[2] \in {"forwarded", "failed"}

Init ==
  /\ SutInit /\ batch \in Batch
  /\ action = "submitted" /\ next = 1
  /\ worker = [w \in Worker |-> Idle]
  /\ results = [i \in Index |-> Pending]
  /\ timedOut = FALSE /\ aborted = FALSE
  /\ call = [c \in Call |-> NoCall]
  /\ route = "live" /\ ledger = {}
  /\ watch = "idle" /\ collected = NoOutcome
  /\ troubles = 0
-----------------------------------------------------------------------------
(* The generator.                                                          *)

\* burst: everything is validated before anything is sent.
admissible(b) ==
  /\ Len(b.requests) \in 1..MaxRequests
  /\ b.concurrency \in 1..MaxConcurrency
  /\ \A i \in DOMAIN b.requests : normalizeRequest(b.requests[i])
  /\ uniqueRequestIds(b.requests)

Submit ==
  /\ action = "submitted"
  /\ action' = IF aborted THEN "cancelled"
               ELSE IF admissible(batch) THEN "running" ELSE "rejected"
  /\ UNCHANGED <<batch, next, worker, results, timedOut, aborted,
                 sutVars, call, route, ledger, observer, troubles>>

\* executeAttempt up to the await of its fetch.
Send(w, i, attempt) ==
  /\ worker' = [worker EXCEPT ![w] = [pc |-> "wait", i |-> i, attempt |-> attempt]]
  /\ call' = [call EXCEPT ![<<i, attempt>>].gw = "sent"]
  /\ UNCHANGED <<action, results>>

\* Mutant: a worker gives up at the batch timer.
ThrownForGood(w, i) ==
  /\ worker' = [worker EXCEPT ![w] = [@ EXCEPT !.pc = "thrown"]]
  /\ action' = IF aborted THEN "cancelled" ELSE action
  /\ UNCHANGED <<results, call>>

\* A request's promise rejects: a worker rethrows for the scenario's signal,
\* which rejects the batch, and fails the request for the batch timer.
Thrown(w, i) ==
  /\ IF aborted
     THEN /\ worker' = [worker EXCEPT ![w] = [@ EXCEPT !.pc = "thrown"]]
          /\ action' = "cancelled" /\ UNCHANGED results
     ELSE /\ worker' = [worker EXCEPT ![w] = Idle]
          /\ results' = [results EXCEPT ![i] = BatchTimeout] /\ UNCHANGED action
  /\ UNCHANGED call

\* The head of a worker's loop; its request begins with a delay or an attempt.
Take(w) ==
  /\ action \in {"running", "cancelled"} /\ worker[w].pc = "take"
  /\ next' = next + 1
  /\ IF next \notin Index
     THEN /\ worker' = [worker EXCEPT ![w] = [@ EXCEPT !.pc = "done"]]
          /\ UNCHANGED <<action, results, call>>
     ELSE IF Stopped THEN Thrown(w, next)
     ELSE IF request(next).delayBeforeMs > 0
     THEN /\ worker' = [worker EXCEPT ![w] = [pc |-> "sleep", i |-> next, attempt |-> 0]]
          /\ UNCHANGED <<action, results, call>>
     ELSE Send(w, next, 1)
  /\ UNCHANGED <<batch, timedOut, aborted, sutVars, route, ledger, observer, troubles>>

\* A delay before the first attempt, or between two, ends or is interrupted.
Awake(w) ==
  /\ worker[w].pc = "sleep"
  /\ IF Stopped THEN Thrown(w, worker[w].i)
                ELSE Send(w, worker[w].i, worker[w].attempt + 1)
  /\ UNCHANGED <<batch, next, timedOut, aborted, sutVars, route, ledger,
                 observer, troubles>>

elapsedMs(q, attempts) ==
  q.delayBeforeMs + MapThenSumSet(LAMBDA a : retryDelayMs(q.retry, a), 1..(attempts - 1))

judged(i, attempt, outcome_, statusCode) ==
  [reasons |-> evaluateExpectation(request(i), outcome_, statusCode, attempt,
                                   elapsedMs(request(i), attempt)),
   attempts |-> attempt]

\* The body of an answer is read in full or found over the size limit.
readBoundedResponseBody(c) ==
  IF call[c].gw = "answered" THEN {"response", "response-too-large"} ELSE {}

\* What an attempt can come to: its answer, its timeout, its client abort or
\* a broken connection.
Outcomes(c) ==
  readBoundedResponseBody(c) \cup {"timeout", "network-error"}
  \cup (IF request(c[1]).abortAfterMs # Absent THEN {"client-abort"} ELSE {})

\* executeAttempt returns and executeRequest retries or settles its request.
Settle(w) ==
  /\ worker[w].pc = "wait"
  /\ LET i == worker[w].i
         attempt == worker[w].attempt
         c == <<i, attempt>>
     IN  IF Stopped THEN Thrown(w, i)
         ELSE \E o \in Outcomes(c) :
                LET status == IF o = "response" THEN call[c].status ELSE 0
                IN  IF shouldRetry(request(i), attempt, o, status)
                    THEN /\ worker' = [worker EXCEPT ![w] = [@ EXCEPT !.pc = "sleep"]]
                         /\ UNCHANGED <<action, results, call>>
                    ELSE /\ worker' = [worker EXCEPT ![w] = Idle]
                         /\ results' = [results EXCEPT ![i] = judged(i, attempt, o, status)]
                         /\ UNCHANGED <<action, call>>
  /\ UNCHANGED <<batch, next, timedOut, aborted, sutVars, route, ledger,
                 observer, troubles>>

BatchTimer ==
  /\ action = "running" /\ ~Stopped /\ Trouble /\ timedOut' = TRUE
  /\ UNCHANGED <<batch, action, next, worker, results, aborted,
                 sutVars, call, route, ledger, observer>>

\* The scenario is cancelled or its step times out.
Abort ==
  /\ action \in {"submitted", "running"} /\ ~aborted /\ Trouble /\ aborted' = TRUE
  /\ UNCHANGED <<batch, action, next, worker, results, timedOut,
                 sutVars, call, route, ledger, observer>>

\* Promise.all resolves; results no worker filled count as timed out.
Report ==
  /\ action = "running" /\ \A w \in Worker : worker[w].pc = "done"
  /\ action' = IF aborted THEN "cancelled" ELSE "persisting"
  /\ results' = [i \in Index |-> IF results[i] = Pending THEN BatchTimeout ELSE results[i]]
  /\ UNCHANGED <<batch, next, worker, timedOut, aborted,
                 sutVars, call, route, ledger, observer, troubles>>

\* persistBatch writes one record per result, then the batch; a write that
\* fails fails the action.  Only then are the expectations enforced.
Persist ==
  /\ action = "persisting"
  /\ \/ action' = "error"
     \/ action' = IF ~timedOut /\ \A i \in Index : Passed(i) THEN "passed" ELSE "failed"
  /\ UNCHANGED <<batch, next, worker, results, timedOut, aborted,
                 sutVars, call, route, ledger, observer, troubles>>
-----------------------------------------------------------------------------
(* The gateway.                                                            *)

abandoned(c) == ~\E w \in Worker : worker[w].pc = "wait" /\ c = <<worker[w].i, worker[w].attempt>>

\* authorize: the route's snapshot serves the rest of the handler.
Authorize(c) ==
  /\ call[c].gw = "sent"
  /\ call' = [call EXCEPT ![c] =
       CASE route = "live" -> [@ EXCEPT !.gw = "authorized"]
         [] route = "expired" -> [@ EXCEPT !.gw = "answered", !.status = 410]
         [] route = "gone" -> [@ EXCEPT !.gw = "answered", !.status = 404]]
  /\ route' = IF route = "expired" THEN "gone" ELSE route
  /\ ledger' = IF route = "expired" THEN {} ELSE ledger
  /\ UNCHANGED <<client, sutVars, observer, troubles>>

\* The target looks the ingestion token up before it awaits the body.
tokenAccepted(c) == request(c[1]).op = "events" => run

\* The body is read and the request forwarded, or the client left meanwhile:
\* the read is outside the try that records failures.
Forward(c) ==
  /\ call[c].gw = "authorized"
  /\ \/ call' = [call EXCEPT ![c] =
            IF tokenAccepted(c)
            THEN [@ EXCEPT !.gw = "forwarded", !.sut = "reading"]
            ELSE [@ EXCEPT !.gw = "forwarded", !.sut = "replied", !.reply = 401]]
     \/ abandoned(c) /\ call' = [call EXCEPT ![c].gw = "dropped"]
  /\ UNCHANGED <<client, sutVars, route, ledger, observer, troubles>>

\* record keeps an entry only in a route that still exists.
record(c, result) == ledger' = IF route = "gone" THEN ledger ELSE ledger \cup {<<c, result>>}

Relay(c) ==
  /\ call[c].gw = "forwarded" /\ call[c].sut = "replied"
  /\ call' = [call EXCEPT ![c].gw = "answered", ![c].status = call[c].reply]
  /\ record(c, "forwarded")
  /\ UNCHANGED <<client, sutVars, route, observer, troubles>>

\* The target request times out or breaks; the target may have it all the same.
TargetRequestFails(c) ==
  /\ call[c].gw = "forwarded" /\ Trouble
  /\ call' = [call EXCEPT ![c].gw = "answered", ![c].status = 500]
  /\ record(c, "failed")
  /\ UNCHANGED <<client, sutVars, route, observer>>

ExpireRoute ==
  /\ route = "live" /\ Trouble /\ route' = "expired"
  /\ UNCHANGED <<client, sutVars, call, ledger, observer>>

\* A concurrent gateway.replace-route, or the cleanup of the run.
DeleteRoute ==
  /\ route # "gone" /\ Trouble /\ route' = "gone" /\ ledger' = {}
  /\ UNCHANGED <<client, sutVars, call, observer>>
-----------------------------------------------------------------------------
(* The target, and the observation of it.                                  *)

Replies(c, status) ==
  call' = [call EXCEPT ![c] = [@ EXCEPT !.sut = "replied", !.reply = status]]

Handle(c) ==
  /\ call[c].sut = "reading"
  /\ IF request(c[1]).op = "events"
     THEN Ingest(key(c)) /\ Replies(c, 202)
     ELSE /\ Probe(request(c[1]).op, key(c))
          /\ Replies(c, probeStatus(request(c[1]).op, key(c)))
  /\ UNCHANGED <<client, route, ledger, observer, troubles>>

Provider(k) ==
  /\ \/ ProviderReturns(k, TRUE) /\ UNCHANGED troubles
     \/ ProviderReturns(k, FALSE) /\ Trouble
  /\ UNCHANGED <<client, call, route, ledger, observer>>

\* waitForCompletion: a poll sees the state, or the condition times out.
Poll ==
  /\ action = "passed" /\ watch \in {"idle", "polling"}
  /\ watch' \in IF state \in {"completed", "failed"} THEN {state, "timeout"}
                                                     ELSE {"polling", "timeout"}
  /\ UNCHANGED <<sutVars, client, call, route, ledger, collected, troubles>>

CollectOutcome ==
  /\ watch \in {"completed", "failed"} /\ watch' = "collected"
  /\ collected' = [outcome EXCEPT !.after = watch]
  /\ UNCHANGED <<sutVars, client, call, route, ledger, troubles>>

Ended == action \in {"rejected", "cancelled", "passed", "failed", "error"}

\* The cleanup phase deletes the target run.
CleanupTarget ==
  /\ Ended
  /\ action = "passed" => watch \notin {"idle", "polling", "completed", "failed"}
  /\ DeleteRun
  /\ UNCHANGED <<client, call, route, ledger, observer, troubles>>

Next ==
  \/ Submit \/ BatchTimer \/ Abort \/ Report \/ Persist
  \/ \E w \in Worker : Take(w) \/ Awake(w) \/ Settle(w)
  \/ ExpireRoute \/ DeleteRoute
  \/ \E c \in Call : \/ Authorize(c) \/ Forward(c) \/ Relay(c) \/ TargetRequestFails(c)
                     \/ Handle(c)
  \/ \E k \in Key : Provider(k)
  \/ Poll \/ CollectOutcome \/ CleanupTarget

Spec == Init /\ [][Next]_vars

\* Timers fire and promises settle: every await of the generator ends, an
\* attempt at the latest by its timeout.
FairSpec ==
  /\ Spec
  /\ WF_vars(Submit) /\ WF_vars(Report) /\ WF_vars(Persist)
  /\ \A w \in 1..MaxConcurrency :
       WF_vars(w \in Worker /\ (Take(w) \/ Awake(w) \/ Settle(w)))
-----------------------------------------------------------------------------
expectsSuccess(i) ==
  ~request(i).expect.networkFailure /\ request(i).expect.statuses \subseteq 200..399

\* A batch that passed was delivered: every request that had to succeed was
\* answered so by the target, and its event accepted, through whatever
\* timeouts, retries and lost answers.
PassedIsDelivered ==
  action = "passed" =>
    \A i \in Index : expectsSuccess(i) =>
      /\ \E a \in 1..results[i].attempts : call[<<i, a>>].reply \in 200..399
      /\ request(i).op = "events" => request(i).key \in idempotencyKeys

\* The ledger of a route that still exists tells of every request the target
\* got through it and that has been answered, once, and of no other.
LedgerTells ==
  route # "gone" =>
    \A c \in Call :
      Cardinality({entry \in ledger : entry[1] = c})
        = IF call[c].gw = "answered" /\ call[c].sut # "none" THEN 1 ELSE 0

\* What the batch and the gateway report is what happened at the target.
ReportsAreTrue == PassedIsDelivered /\ LedgerTells

\* An outcome collected after a wait that saw "completed" holds a processed
\* event, its company and its score, whatever other events did meanwhile.
CompletedHasOutcome ==
  collected.after = "completed" =>
    /\ collected.processed > 0 /\ collected.company = 1
    /\ collected.score = IF "duplicateScore" \in Mutations THEN 2 ELSE 1

\* The events of the run keep the ingestion contract: a key submitted again,
\* by a retry or a duplicate and however late it arrives, repeats no work.
ImplementsIngestion == Contract!Spec

\* Every batch ends, also when the target never answers.
BatchSettles == <>Ended
=============================================================================
