--------------------------- MODULE MCStartupSystem ---------------------------
(* One service, found again after a network change, under two generations  *)
(* of intent.                                                              *)
EXTENDS StartupSystem
=============================================================================
