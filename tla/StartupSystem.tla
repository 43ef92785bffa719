---------------------------- MODULE StartupSystem ----------------------------
(***************************************************************************)
(* The controller and LocalAdbDiscovery joined by the bridge of            *)
(* cmd/jniservice/startup.go.  discovery.Update posts a runnable to the    *)
(* main looper while the controller's mutex is held, so runnables queue in *)
(* the order of their generations; the looper's native calls enter the     *)
(* controller's methods and wait for the mutex, so a request may overtake  *)
(* a report that the looper has already decided to make.                   *)
(*                                                                         *)
(* One process lifetime: its death ends both halves together, and Init     *)
(* already ranges over every file a process may start from.                *)
(***************************************************************************)
EXTENDS Controller, Sequences

CONSTANTS Releases, ServiceKeys, MaxRevision, MaxObjects

VARIABLES
  subscribing, inbox, jGeneration, jEnabled, revision, listener, retries, timers, object,
  services, servicePort, resolveQueue, resolving, outstanding, subscriptions,
  currentPort, calls

(* What LocalAdbDiscovery asks of its constants (DiscoveryAssumption).     *)
ASSUME LooperAssumption ==
  /\ Releases \subseteq BOOLEAN
  /\ ServiceKeys \subseteq Nat /\ IsFiniteSet(ServiceKeys)
  /\ {MaxRevision, MaxObjects} \subseteq Nat

J == INSTANCE LocalAdbDiscovery WITH
  MaxUpdates <- MaxGeneration, generation <- jGeneration, enabled <- jEnabled

looperVars == <<subscribing, jGeneration, jEnabled, revision, listener, retries, timers,
                object, services, servicePort, resolveQueue, resolving,
                outstanding, subscriptions, currentPort, calls>>
systemVars == <<vars, inbox, looperVars>>

SystemInit == Init /\ J!Init

(* Fault: the bridge reports success without posting.                      *)
PostNothing == inbox

(* androidADBDiscovery.Update: a successful call is a runnable posted.  No *)
(* two successive calls have the same arguments.                           *)
Post == IF posted' = posted THEN inbox ELSE Append(inbox, posted')

GoStep ==
  /\ Request \/ \E w \in Workers : WorkerStep(w)
  /\ inbox' = Post
  /\ UNCHANGED looperVars

LooperStep == J!Looper /\ UNCHANGED <<vars, subscribing>>

NativeCall ==
  /\ J!CallReturns /\ UNCHANGED subscribing
  /\ LET call == Head(calls)
     IN \/ /\ call.kind = "discovered"
           /\ \/ Discovered(call.generation, call.port)
              \/ Ignores(call.generation, call.port) /\ UNCHANGED vars
        \/ /\ call.kind = "failed"
           /\ \/ DiscoveryFailed(call.generation)
              \/ ~FailureCounts(call.generation) /\ UNCHANGED vars

SystemNext == GoStep \/ LooperStep \/ NativeCall

SystemSpec == SystemInit /\ [][SystemNext]_systemVars

(* Native calls return, since the mutex is only ever held for a bounded    *)
(* time, and the looper takes posted runnables in order: other callbacks   *)
(* delay a posted update but cannot keep it waiting for ever.              *)
FairSystemSpec ==
  /\ SystemSpec
  /\ SF_systemVars(LooperStep /\ J!Update)
  /\ WF_systemVars(NativeCall)

-----------------------------------------------------------------------------
(* Whenever both halves are on the same wanted generation and no report is *)
(* on its way, the controller's endpoint is the port the platform          *)
(* advertises.  Each half resets its port on its own, and each suppresses  *)
(* repeated reports by comparing with its own copy: a missed reset on      *)
(* either side would silence the other for good.                           *)
EndpointAgreement ==
  /\ jGeneration = generation
  /\ wanted /\ jEnabled
  /\ calls = <<>>
  => port = currentPort

(* The controller takes an endpoint only while discovery works for the     *)
(* same generation, however the report was delayed.                        *)
EndpointsAreFresh ==
  [][port' # port /\ port' # 0 => jGeneration = generation /\ jEnabled]_systemVars

(* No intent is lost between the halves: once the looper has taken all     *)
(* that was posted, the platform searches for the controller's present     *)
(* generation exactly if the action is wanted, or the status says that it  *)
(* refused, and no report of an earlier search may take that back.         *)
SearchAgreement ==
  inbox = <<>> /\ lastError \notin {"stop", "update"}
    => jGeneration = generation /\ jEnabled = wanted

(* "Success stops automatic retries and discovery", disabling stops it     *)
(* too, and enabling starts it (README.md, docs): through every sequence   *)
(* of intents the platform comes to search exactly while an action is      *)
(* wanted, unless the status reports that it refused.                      *)
SearchFollowsIntent ==
  []<>(jEnabled = wanted \/ lastError \in {"stop", "update"})
=============================================================================
