---------------------------- MODULE TrafficRules ----------------------------
(***************************************************************************)
(* The rules of packages/traffic-generator that need no state: what a      *)
(* request definition must satisfy before anything is sent, when an        *)
(* attempt is retried, after which delay, and how a request is judged.     *)
(*                                                                         *)
(* A definition keeps of its id, path, headers, body and payload what the  *)
(* rules tell apart; a status code is a number, no code is 0.              *)
(***************************************************************************)
EXTENDS Integers, FiniteSets

CONSTANTS
  MaxBodyBytes, MaxRequestTimeoutMs, MaxRetryAttempts, MaxRetryDelayMs

ASSUME LimitAssumption ==
  {MaxBodyBytes, MaxRequestTimeoutMs, MaxRetryAttempts} \subseteq Nat \ {0}
  /\ MaxRetryDelayMs \in Nat

Absent == -1       \* an optional number that is not given
HttpStatus == 100..599
sensitiveHeaders == {"authorization", "cookie", "x-api-key"}
protectedHeaders == {"host", "content-length", "x-testy-route-token", "x-testy-run-id"}

optional(value, range) == value = Absent \/ value \in range

normalizeHeaders(headers) ==
  headers \cap (sensitiveHeaders \cup protectedHeaders) = {}

normalizeRetry(retry) ==
  /\ retry.attempts \in 1..MaxRetryAttempts
  /\ optional(retry.delayMs, 0..MaxRetryDelayMs)
  /\ retry.backoffFactor \in 1..10
  /\ retry.statuses \subseteq HttpStatus

\* statuses is {} when the definition declares none.
normalizeExpectation(expect) ==
  /\ ~expect.emptyStatuses
  /\ expect.networkFailure => expect.statuses = {}
  /\ expect.statuses \subseteq HttpStatus
  /\ optional(expect.attempts, 1..MaxRetryAttempts)
  /\ optional(expect.minMs, 0..3600000) /\ optional(expect.maxMs, 0..3600000)
  /\ (expect.minMs # Absent /\ expect.maxMs # Absent) => expect.minMs <= expect.maxMs

\* What the privacy scan and the credential patterns found of the definition.
assertSyntheticRequest(q) == q.synthetic

\* "relative": under the gateway's origin, without a fragment.
normalizePath(path) == path = "relative"

encodeBody(q) ==
  /\ q.bodyBytes \in 0..MaxBodyBytes
  /\ q.method \in {"GET", "HEAD"} => q.bodyBytes = 0

\* identifier: the id matches requestIdPattern.
normalizeRequest(q) ==
  /\ q.identifier /\ assertSyntheticRequest(q) /\ normalizePath(q.path)
  /\ normalizeHeaders(q.headers) /\ encodeBody(q)
  /\ q.timeoutMs \in 1..MaxRequestTimeoutMs
  /\ optional(q.abortAfterMs, 1..MaxRequestTimeoutMs)
  /\ q.delayBeforeMs \in 0..MaxRetryDelayMs
  /\ normalizeRetry(q.retry)
  /\ normalizeExpectation(q.expect)
  /\ q.expect.attempts <= q.retry.attempts

power[base \in Nat, n \in Nat] == IF n = 0 THEN 1 ELSE base * power[base, n - 1]

retryDelayMs(retry, completedAttempt) ==
  LET base == IF retry.delayMs = Absent THEN 0 ELSE retry.delayMs
      delay == base * power[retry.backoffFactor, completedAttempt - 1]
  IN  IF delay > MaxRetryDelayMs THEN MaxRetryDelayMs ELSE delay

\* executeRequest's shouldRetry for the outcome of one attempt.
shouldRetry(q, attempt, outcome, statusCode) ==
  /\ attempt < q.retry.attempts
  /\ IF outcome = "response"
     THEN statusCode \in q.retry.statuses
     ELSE outcome # "response-too-large" /\ q.retry.networkError

\* Mutant: an attempt without an answer is not held against the request.
evaluateLeniently(q, outcome, statusCode, attemptCount, totalDurationMs) ==
  IF outcome # "response" THEN {}
  ELSE IF statusCode \in q.expect.statuses \cup 200..399 THEN {} ELSE {"unexpected-status"}

evaluateExpectation(q, outcome, statusCode, attemptCount, totalDurationMs) ==
  LET accepted == IF q.expect.statuses # {} THEN q.expect.statuses ELSE 200..399
  IN  {reason \in {"network-failure-not-observed", "unexpected-network-failure",
                   "unexpected-status", "duration-below-minimum",
                   "duration-above-maximum", "unexpected-attempt-count"} :
         CASE reason = "network-failure-not-observed" ->
                q.expect.networkFailure /\ outcome = "response"
           [] reason = "unexpected-network-failure" ->
                ~q.expect.networkFailure /\ outcome # "response"
           [] reason = "unexpected-status" ->
                outcome = "response" /\ statusCode \notin accepted
           [] reason = "duration-below-minimum" ->
                q.expect.minMs # Absent /\ totalDurationMs < q.expect.minMs
           [] reason = "duration-above-maximum" ->
                q.expect.maxMs # Absent /\ totalDurationMs > q.expect.maxMs
           [] reason = "unexpected-attempt-count" ->
                q.expect.attempts \notin {Absent, attemptCount}}

uniqueRequestIds(requests) ==
  \A i, j \in DOMAIN requests : requests[i].id = requests[j].id => i = j
=============================================================================
