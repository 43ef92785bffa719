----------------------------- MODULE FixedAction -----------------------------
(***************************************************************************)
(* What the startup controller promises its operator, without discovery,   *)
(* ports, retries, goroutines or the mutex: an intent is replaced as a     *)
(* whole (an epoch); the fixed command runs for at most one epoch at a     *)
(* time; only the run of the current epoch can satisfy the intent, and a   *)
(* satisfied intent starts no further run.                                 *)
(***************************************************************************)
EXTENDS Naturals

VARIABLES
  epoch,     (* how often the intent was replaced                           *)
  wanted,    (* the current intent still asks for a run                     *)
  running,   (* the epoch a run in flight belongs to, or 0                  *)
  done       (* the current intent was satisfied                            *)

vars == <<epoch, wanted, running, done>>

Init ==
  /\ epoch = 0
  /\ wanted = FALSE
  /\ running = 0
  /\ done = FALSE

(* Configure, Apply or Start: an older run may still be returning.         *)
Intend ==
  /\ epoch' = epoch + 1
  /\ wanted' \in BOOLEAN
  /\ done' = FALSE
  /\ UNCHANGED running

Begin ==
  /\ running = 0
  /\ wanted
  /\ running' = epoch
  /\ UNCHANGED <<epoch, wanted, done>>

(* A run that satisfies nothing: it failed, or its epoch is over.          *)
End ==
  /\ running # 0
  /\ running' = 0
  /\ UNCHANGED <<epoch, wanted, done>>

(* A run of a past epoch returns and hands over to the current one.        *)
HandOver ==
  /\ running # 0
  /\ wanted
  /\ running' = epoch
  /\ UNCHANGED <<epoch, wanted, done>>

Succeed ==
  /\ running = epoch
  /\ wanted
  /\ running' = 0
  /\ wanted' = FALSE
  /\ done' = TRUE
  /\ UNCHANGED epoch

(* The process dies with everything but its file.                          *)
Reset == Init'

Next == Intend \/ Begin \/ End \/ HandOver \/ Succeed \/ Reset

Spec == Init /\ [][Next]_vars
=============================================================================
