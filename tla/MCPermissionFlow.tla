-------------------------- MODULE MCPermissionFlow --------------------------
(* A client that asks for two methods, twice: the second request may get   *)
(* the id of the first.                                                    *)
EXTENDS PermissionFlow
=============================================================================
