-------------------------- MODULE IngestionContract --------------------------
(***************************************************************************)
(* What the target test-support contract promises of tracking ingestion:   *)
(* every event is accepted once, worked on once and settled once, however  *)
(* often it is submitted.                                                  *)
(***************************************************************************)
CONSTANT Key      \* idempotency keys of events

VARIABLE ingested \* ingested[k]: "new", "processing", "processed" or "failed"

Init == ingested = [k \in Key |-> "new"]

Accept(k, to) == ingested[k] = "new" /\ ingested' = [ingested EXCEPT ![k] = to]

Settle(k, to) ==
  ingested[k] = "processing" /\ ingested' = [ingested EXCEPT ![k] = to]

Next == \E k \in Key :
          \/ \E to \in {"processing", "failed"} : Accept(k, to)
          \/ \E to \in {"processed", "failed"} : Settle(k, to)

Spec == Init /\ [][Next]_ingested
=============================================================================
