---- MODULE MCRunService ----
(* RunService for TLC: its CONSTANTS are given in the .cfg files. *)
EXTENDS RunService
====
