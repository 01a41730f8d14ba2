---------------------------- MODULE MCDemoSession ----------------------------
(* Model values for DemoSession.                                           *)
EXTENDS DemoSession
=============================================================================
