------------------------- MODULE MCLocalAdbDiscovery -------------------------
(* Two services that may advertise either of two ports, found again after  *)
(* a network change: every field of LocalAdbDiscovery takes part.          *)
EXTENDS LocalAdbDiscovery
=============================================================================
