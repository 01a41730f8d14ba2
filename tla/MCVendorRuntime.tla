--------------------------- MODULE MCVendorRuntime ---------------------------
(* Two handlers side by side, and a container they may start and collect.  *)
EXTENDS VendorRuntime
=============================================================================
