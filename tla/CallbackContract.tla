-------------------------- MODULE CallbackContract --------------------------
(***************************************************************************)
(* What one Proxy stream promises the two sides of a callback, without     *)
(* pending map, channels, mutexes or goroutines: a call of the object asks *)
(* the client at most once; the answer the client sends is what the call   *)
(* returns, unless the client cancels the stream; and a call fails only    *)
(* when the stream is over.                                                *)
(***************************************************************************)
CONSTANT Calls

VARIABLES
  call,      (* none, told (expects no answer), asked, answered, returned   *)
             (* with the answer, or failed                                  *)
  line       (* the stream: open, closed by the server, or cancelled        *)

vars == <<call, line>>

Init ==
  /\ call = [c \in Calls |-> "none"]
  /\ line = "open"

Becomes(c, from, to) ==
  /\ call[c] = from
  /\ call' = [call EXCEPT ![c] = to]
  /\ UNCHANGED line

(* The call of a method without a result: it waits for nobody.             *)
Tell(c) == Becomes(c, "none", "told")

Ask(c) == line # "cancelled" /\ Becomes(c, "none", "asked")

Answer(c) == line = "open" /\ Becomes(c, "asked", "answered")

Return(c) == Becomes(c, "answered", "returned")

(* An answered call fails only if the client did not wait for its return.  *)
Fail(c) ==
  \/ line # "open" /\ (Becomes(c, "none", "failed") \/ Becomes(c, "asked", "failed"))
  \/ line = "cancelled" /\ Becomes(c, "answered", "failed")

Close ==
  /\ line = "open"
  /\ line' = "closed"
  /\ UNCHANGED call

Cancel ==
  /\ line # "cancelled"
  /\ line' = "cancelled"
  /\ UNCHANGED call

Next ==
  \/ \E c \in Calls : Tell(c) \/ Ask(c) \/ Answer(c) \/ Return(c) \/ Fail(c)
  \/ Close \/ Cancel

Spec == Init /\ [][Next]_vars
=============================================================================
