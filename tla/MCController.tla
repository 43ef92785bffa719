---------------------------- MODULE MCController ----------------------------
(* Small instances of Controller: two ports, so that an endpoint can       *)
(* change and change back, and two goroutines, one more than the code      *)
(* should ever have in flight.                                             *)
EXTENDS Controller
=============================================================================
