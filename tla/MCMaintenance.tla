---- MODULE MCMaintenance ----
(* Maintenance for TLC: the ages of its items. *)
EXTENDS Maintenance

\* The hopeless item of the instance is the oldest of its table.
MCAge == [x \in Item |-> IF x \in Hopeless THEN 0 ELSE IF x \in Lease THEN 1 ELSE 2]
====
