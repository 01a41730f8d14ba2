----------------------------- MODULE MCTargetRun -----------------------------
(* Two handlers at a time, two routes and two workspaces, one trouble.      *)
EXTENDS TargetRun

MCRouteInput ==
  {[syntheticIp |-> "reserved", ttlMs |-> 1, targetOrigin |-> "allowlisted"],
   [syntheticIp |-> "reserved", ttlMs |-> 1, targetOrigin |-> "provider"]}
=============================================================================
