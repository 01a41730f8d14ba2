----------------------------- MODULE ReferenceSut -----------------------------
(***************************************************************************)
(* apps/reference-sut: the prepared run of the target, its ingestion of    *)
(* tracking events and the provider work each event causes, and the        *)
(* direct-traffic probes the compatibility server answers in front of it.  *)
(*                                                                         *)
(* A handler looks its run up, awaits the body and goes on with the run    *)
(* object it holds: a run deleted meanwhile is still written to, and so is *)
(* the run of an event whose provider calls are under way.                 *)
(***************************************************************************)
EXTENDS Naturals, FiniteSets

CONSTANTS
  Key,        \* idempotency keys
  Mutations   \* the deliberate defects switched on in this run

ASSUME MutationAssumption ==
  Mutations \subseteq {"duplicateScore", "skipHunter", "unexpectedEgress"}

VARIABLES
  run,                \* runs has the target run
  vendorEndpoints,    \* the provider endpoints have been configured
  idempotencyKeys,    \* keys of the events accepted
  event,              \* event[k]: the await processEvent is at, or how it ended
  processedEvents,
  scores,             \* the length of scoreFingerprints
  state,              \* what the observation endpoint reports
  duplicateEventCount,
  seen, retryAttempts \* the compatibility server's keys and attempt counts

ingestion == <<idempotencyKeys, event, processedEvents, scores, state,
               duplicateEventCount>>
probes == <<seen, retryAttempts>>
sutVars == <<run, vendorEndpoints, ingestion, probes>>

SutInit ==
  /\ run = TRUE /\ vendorEndpoints \in BOOLEAN
  /\ idempotencyKeys = {} /\ event = [k \in Key |-> "none"]
  /\ processedEvents = {} /\ scores = 0 /\ state = "waiting"
  /\ duplicateEventCount = 0
  /\ seen = {} /\ retryAttempts = [k \in Key |-> 0]

\* The await that follows provider p in processEvent; "done" if none does.
afterProvider(p) ==
  LET last == IF "unexpectedEgress" \in Mutations THEN "egress" ELSE "done"
  IN  CASE p = "ipinfo" -> "apollo"
        [] p = "apollo" -> IF "skipHunter" \in Mutations THEN last ELSE "hunter"
        [] p = "hunter" -> last
        [] p = "egress" -> "done"

\* Mutant: looks the key up among the events already processed.
IngestWithoutMark(k) ==
  /\ IF k \in processedEvents
     THEN /\ duplicateEventCount' = duplicateEventCount + 1
          /\ UNCHANGED <<idempotencyKeys, event, state>>
     ELSE /\ idempotencyKeys' = idempotencyKeys \cup {k}
          /\ event' = [event EXCEPT ![k] = "ipinfo"]
          /\ state' = "processing"
          /\ UNCHANGED duplicateEventCount
  /\ UNCHANGED <<run, vendorEndpoints, processedEvents, scores, probes>>

\* POST traffic/events once the body is read: a known key is a duplicate, a
\* new one is marked before processEvent runs up to its first await.
Ingest(k) ==
  /\ IF k \in idempotencyKeys
     THEN /\ duplicateEventCount' = duplicateEventCount + 1
          /\ UNCHANGED <<idempotencyKeys, event, state>>
     ELSE /\ idempotencyKeys' = idempotencyKeys \cup {k}
          /\ event' = [event EXCEPT ![k] = IF vendorEndpoints THEN "ipinfo" ELSE "failed"]
          /\ state' = IF vendorEndpoints THEN "processing" ELSE "failed"
          /\ UNCHANGED duplicateEventCount
  /\ UNCHANGED <<run, vendorEndpoints, processedEvents, scores, probes>>

\* Mutant: a score for every event.
ProcessedEach(k) ==
  /\ event' = [event EXCEPT ![k] = "processed"]
  /\ processedEvents' = processedEvents \cup {k}
  /\ scores' = scores + 1
  /\ state' = "completed"

\* The end of processEvent, with no await between its reads and its writes.
Processed(k) ==
  /\ event' = [event EXCEPT ![k] = "processed"]
  /\ processedEvents' = processedEvents \cup {k}
  /\ scores' = IF scores # 0 THEN scores
               ELSE IF "duplicateScore" \in Mutations THEN 2 ELSE 1
  /\ state' = "completed"

\* callProvider returns, after its own retries, or throws; the egress probe
\* of a mutation never throws.
ProviderReturns(k, ok) ==
  /\ event[k] \in {"ipinfo", "apollo", "hunter", "egress"}
  /\ event[k] = "egress" => ok
  /\ IF ~ok
     THEN /\ event' = [event EXCEPT ![k] = "failed"] /\ state' = "failed"
          /\ UNCHANGED <<processedEvents, scores>>
     ELSE IF afterProvider(event[k]) = "done" THEN Processed(k)
     ELSE /\ event' = [event EXCEPT ![k] = afterProvider(event[k])]
          /\ UNCHANGED <<processedEvents, scores, state>>
  /\ UNCHANGED <<run, vendorEndpoints, idempotencyKeys, duplicateEventCount, probes>>

\* handleCompatibilityTraffic: "idempotent" refuses a key it has seen, "retry"
\* is unavailable twice per key, "slow" answers late.
probeStatus(op, k) ==
  CASE op = "idempotent" -> IF k \in seen THEN 409 ELSE 202
    [] op = "retry" -> IF retryAttempts[k] + 1 < 3 THEN 503 ELSE 202
    [] op = "slow" -> 204

Probe(op, k) ==
  /\ seen' = IF op = "idempotent" THEN seen \cup {k} ELSE seen
  /\ retryAttempts' =
       IF op = "retry"
       THEN [retryAttempts EXCEPT ![k] = IF @ + 1 < 3 THEN @ + 1 ELSE 0]
       ELSE retryAttempts
  /\ UNCHANGED <<run, vendorEndpoints, ingestion>>

\* DELETE of the run: its maps forget it, its events do not stop.
DeleteRun ==
  /\ run /\ run' = FALSE
  /\ UNCHANGED <<vendorEndpoints, ingestion, probes>>

\* The counts GET outcome reports.
outcome == [after |-> "none", processed |-> Cardinality(processedEvents), score |-> scores,
            company |-> IF processedEvents = {} THEN 0 ELSE 1]

SutTypeOK ==
  /\ run \in BOOLEAN /\ vendorEndpoints \in BOOLEAN
  /\ idempotencyKeys \subseteq Key /\ processedEvents \subseteq Key
  /\ event \in [Key -> {"none", "ipinfo", "apollo", "hunter", "egress",
                        "processed", "failed"}]
  /\ scores \in 0..2 /\ state \in {"waiting", "processing", "completed", "failed"}
  /\ duplicateEventCount \in Nat /\ seen \subseteq Key
  /\ retryAttempts \in [Key -> 0..2]

\* The run as the contract sees it.
ingestedNow ==
  [k \in Key |->
     IF k \notin idempotencyKeys THEN "new"
     ELSE IF event[k] \in {"processed", "failed"} THEN event[k] ELSE "processing"]

Contract == INSTANCE IngestionContract WITH ingested <- ingestedNow
=============================================================================
