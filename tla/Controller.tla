----------------------------- MODULE Controller -----------------------------
(***************************************************************************)
(* The startup controller (startup/controller.go) with its persisted       *)
(* configuration (startup/config.go).                                      *)
(*                                                                         *)
(* Every exported method of Controller holds c.mu from its first to its    *)
(* last statement, so a method is one action.  The goroutine launchLocked  *)
(* spawns takes c.mu only in recordAttempt and finish: it is a process     *)
(* with a program counter whose steps interleave with the methods.         *)
(*                                                                         *)
(* External to the code under startup/: the Runner (what an ADB shell may  *)
(* return), the Discovery subscription and whoever calls the methods.      *)
(***************************************************************************)
EXTENDS Integers, FiniteSets

CONSTANTS
  Keys,           (* valid paired RSA private keys                          *)
  NoKey, BadKey,  (* the empty string; text adb.NewClient rejects           *)
  Endpoints,      (* ports the device's own TLS service may advertise       *)
  Workers,        (* identities for goroutines spawned by launchLocked      *)
  NoWorker,       (* c.cancel = nil                                         *)
  Missing,        (* no configuration file                                  *)
  Corrupt,        (* a file loadConfig refuses                              *)
  MaxGeneration,  (* bound: restartLocked calls in one process              *)
  MaxAttempts,    (* bound: endpoint changes stop after this many attempts  *)
  MaxBoots        (* bound: process restarts                                *)

ASSUME EndpointsAssumption ==
  \A p \in Endpoints : p \in Nat /\ 0 < p /\ p < 65536

ASSUME KeysAssumption ==
  NoKey \notin Keys /\ BadKey \notin Keys /\ NoKey # BadKey

ASSUME WorkersAssumption == NoWorker \notin Workers

ASSUME FilesAssumption ==
  /\ Missing # Corrupt
  /\ {Missing, Corrupt} \cap [enabled : BOOLEAN, key : Keys \cup {NoKey}] = {}

ASSUME BoundsAssumption ==
  MaxGeneration \in Nat /\ MaxAttempts \in Nat /\ MaxBoots \in Nat

VARIABLES
  disk,           (* contents of startup.json                               *)
  config,         (* c.config                                               *)
  loadFailed,     (* c.loadError # nil                                      *)
  started, wanted, port, attemptedPort,
  cancel,         (* the worker whose context c.cancel cancels              *)
  generation, state, attempts, lastError,     (* c.status                   *)
  result,         (* c.status.HasResult and LastExitCode                    *)
  posted,         (* arguments of the last successful discovery.Update      *)
  worker,         (* the goroutines                                         *)
  endpointRuns,   (* history: runs begun for the current endpoint           *)
  boots           (* process restarts so far                                *)

intent   == <<wanted, port, attemptedPort, generation>>
status   == <<state, lastError, result>>
stored   == <<disk, config, loadFailed, started>>
vars == <<stored, intent, status, attempts, cancel, posted, worker,
          endpointRuns, boots>>

-----------------------------------------------------------------------------
(* Configuration file.                                                     *)

Config == [enabled : BOOLEAN, key : Keys \cup {NoKey}]
EmptyConfig == [enabled |-> FALSE, key |-> NoKey]

Valid(c) == IF c.key = NoKey THEN ~c.enabled ELSE c.key \in Keys

(* Opening or reading a file may fail also when it is a valid one.         *)
LoadFails(file, failed) == file = Corrupt => failed
Loaded(file, failed) == IF failed \/ file = Missing THEN EmptyConfig ELSE file

(***************************************************************************)
(* saveConfig.  A failure before the rename leaves the old file (and then  *)
(* Configure changes nothing: a stutter).  A failure to open or sync the   *)
(* directory is reported as an error although the new file is in place.    *)
(***************************************************************************)
SaveConfig(next) ==
  /\ Valid(next)
  /\ disk' = next

-----------------------------------------------------------------------------
(* Workers: the goroutine of launchLocked running execute, then finish.    *)

MaxTries == 3
Outcomes == {"none", "ok", "exit", "auth", "protocol", "transient", "cancelled"}

IdleWorker ==
  [pc |-> "idle", generation |-> 0, port |-> 0, key |-> NoKey, attempt |-> 1,
   cancelled |-> FALSE, outcome |-> "none"]

(* Fault: forgets that a newer generation may use the same port.           *)
ForCurrentPort(w) == worker[w].port = port

Active(w) == worker[w].pc # "idle"
ForCurrent(w) == worker[w].generation = generation /\ worker[w].port = port

(* Fault: replaces the intent without cancelling the run in flight.        *)
LeaveActive == worker

(* c.cancel() where it is not nil: the slot itself stays taken.            *)
CancelActive ==
  IF cancel = NoWorker THEN worker
  ELSE [worker EXCEPT ![cancel].cancelled = TRUE]

(* Fault: does not wait for the previous run to return.                    *)
MayLaunchBeside(slot, p, attempted) == wanted /\ p # 0 /\ attempted # p

MayLaunch(slot, p, attempted) ==
  slot = NoWorker /\ wanted /\ p # 0 /\ attempted # p

(***************************************************************************)
(* launchLocked, given the fields its caller has just assigned: the        *)
(* goroutines ws, the slot, the port and attemptedPort, and the state it   *)
(* leaves when it returns early.                                           *)
(***************************************************************************)
LaunchLocked(ws, slot, p, attempted, idleState) ==
  \/ /\ ~MayLaunch(slot, p, attempted)
     /\ worker' = ws
     /\ cancel' = slot
     /\ attemptedPort' = attempted
     /\ state' = idleState
  \/ /\ MayLaunch(slot, p, attempted)
     /\ \E w \in Workers :
          /\ ws[w].pc = "idle"
          /\ worker' = [ws EXCEPT ![w] =
                         [IdleWorker EXCEPT !.pc = "check",
                                            !.generation = generation,
                                            !.port = p,
                                            !.key = config.key]]
          /\ cancel' = w
     /\ attemptedPort' = p
     /\ state' = "running"

-----------------------------------------------------------------------------
(* The controller's methods.                                               *)

(* Fault: asks the platform to search whatever the intent.                 *)
PostedEnabled(g, enabled) == [generation |-> g, enabled |-> TRUE]

Posted(g, enabled) == [generation |-> g, enabled |-> enabled]

(***************************************************************************)
(* restartLocked: cancels the active worker but keeps its slot, starts a   *)
(* new generation and posts it to the platform, which may refuse.          *)
(***************************************************************************)
RestartLocked(want) ==
  /\ generation < MaxGeneration
  /\ worker' = CancelActive
  /\ wanted' = want
  /\ port' = 0
  /\ attemptedPort' = 0
  /\ generation' = generation + 1
  /\ attempts' = 0
  /\ endpointRuns' = 0
  /\ \/ /\ posted' = Posted(generation + 1, want)
        /\ state' = IF want THEN "waiting" ELSE "disabled"
        /\ lastError' = "none"
     \/ /\ posted' = posted
        /\ state' = "failed"
        /\ lastError' = "update"
  /\ UNCHANGED <<cancel, result, boots>>

Start ==
  /\ ~started
  /\ started' = TRUE
  /\ UNCHANGED <<disk, config, loadFailed>>
  /\ \/ /\ loadFailed
        /\ UNCHANGED <<intent, status, attempts, cancel, posted, worker,
                       endpointRuns, boots>>
     \/ /\ ~loadFailed
        /\ RestartLocked(config.enabled)

Configure(key, enabled, synced) ==
  LET next == [enabled |-> enabled,
               key     |-> IF key = NoKey THEN config.key ELSE key]
  IN /\ SaveConfig(next)
     /\ UNCHANGED started
     /\ \/ /\ ~synced
           /\ UNCHANGED <<config, loadFailed, intent, status, attempts, cancel,
                          posted, worker, endpointRuns, boots>>
        \/ /\ synced
           /\ config' = next
           /\ loadFailed' = FALSE
           /\ RestartLocked(enabled /\ started)

Apply ==
  /\ ~loadFailed
  /\ config.key # NoKey
  /\ started
  /\ RestartLocked(TRUE)
  /\ UNCHANGED stored

(* Fault: takes the port as it comes.                                      *)
AnyPort(p) == TRUE

ValidPort(p) == 0 <= p /\ p <= 65535

(* Fault: takes a delayed report for an earlier generation.                *)
IgnoresNoGeneration(g, p) == ~wanted \/ ~ValidPort(p) \/ p = port

(* The early return: another generation, an unwanted port, an impossible   *)
(* one, or the one already known.                                          *)
Ignores(g, p) == g # generation \/ ~wanted \/ ~ValidPort(p) \/ p = port

Discovered(g, p) ==
  /\ ~Ignores(g, p)
  /\ attempts < MaxAttempts
  /\ port' = p
  /\ endpointRuns' = 0
  /\ LaunchLocked(CancelActive, cancel, p, 0, "waiting")
  /\ UNCHANGED <<stored, wanted, generation, attempts, lastError, result,
                 posted, boots>>

(* Fault: takes a delayed failure for an earlier generation.               *)
AnyFailureCounts(g) == wanted

FailureCounts(g) == g = generation /\ wanted

DiscoveryFailed(g) ==
  /\ FailureCounts(g)
  /\ lastError' = "platform"
  /\ UNCHANGED <<stored, intent, state, result, attempts, cancel, posted,
                 worker, endpointRuns, boots>>

-----------------------------------------------------------------------------
(* The worker.                                                             *)

controllerVars == <<stored, intent, status, attempts, cancel, posted,
                    endpointRuns, boots>>

(* ctx.Err() at the head of execute's loop.                                *)
CheckContext(w) ==
  /\ worker[w].pc = "check"
  /\ worker' = [worker EXCEPT ![w] =
                 IF @.cancelled THEN [@ EXCEPT !.pc = "finish", !.outcome = "cancelled"]
                                ELSE [@ EXCEPT !.pc = "record"]]
  /\ UNCHANGED controllerVars

(* recordAttempt, then the call of runner.Run.                             *)
RecordAttempt(w) ==
  /\ worker[w].pc = "record"
  /\ worker' = [worker EXCEPT ![w].pc = "run"]
  /\ IF ForCurrent(w)
     THEN /\ attempts' = attempts + 1
          /\ endpointRuns' = endpointRuns + 1
     ELSE UNCHANGED <<attempts, endpointRuns>>
  /\ UNCHANGED <<stored, intent, status, cancel, posted, boots>>

(* Fault: counts attempts from zero.                                       *)
RetriesOnceMore(w, outcome) ==
  outcome = "transient" /\ worker[w].attempt # MaxTries + 1

Retries(w, outcome) == outcome = "transient" /\ worker[w].attempt # MaxTries

(* runner.Run returns; only a cancelled context yields context.Canceled.   *)
RunReturns(w, outcome) ==
  /\ worker[w].pc = "run"
  /\ outcome \in Outcomes \ {"none"}
  /\ outcome = "cancelled" => worker[w].cancelled
  /\ worker' = [worker EXCEPT ![w] =
                 IF Retries(w, outcome)
                 THEN [@ EXCEPT !.pc = "backoff"]
                 ELSE [@ EXCEPT !.pc = "finish", !.outcome = outcome]]
  /\ UNCHANGED controllerVars

(* select between ctx.Done() and the timer: either, when both are ready.   *)
BackoffEnds(w) ==
  /\ worker[w].pc = "backoff"
  /\ \/ /\ worker[w].cancelled
        /\ worker' = [worker EXCEPT ![w].pc = "finish", ![w].outcome = "cancelled"]
     \/ worker' = [worker EXCEPT ![w].pc = "check", ![w].attempt = @ + 1]
  /\ UNCHANGED controllerVars

(* Fault: success leaves the intent in place.                              *)
StillWantedAlways(outcome) == TRUE

(* Success ends the intent, anything else keeps it.                        *)
StillWanted(outcome) == outcome # "ok"

(* The result a current worker leaves in status.                           *)
RecordResult(outcome) ==
  /\ result' = CASE outcome = "ok" -> "zero"
                 [] outcome = "exit" -> "nonzero"
                 [] OTHER -> "none"
  /\ \/ /\ outcome = "ok"
        /\ state' = "succeeded"
        /\ wanted' = StillWanted(outcome)
        /\ \/ /\ posted' = Posted(generation, FALSE)
              /\ lastError' = "none"
           \/ /\ posted' = posted
              /\ lastError' = "stop"
     \/ /\ outcome # "ok"
        /\ state' = IF outcome = "auth" THEN "authentication_failed" ELSE "failed"
        /\ lastError' = outcome
        /\ UNCHANGED <<wanted, posted>>

(* Fault: a stale worker frees the slot and launches nothing.              *)
DropPending(ws) ==
  /\ worker' = ws
  /\ cancel' = NoWorker
  /\ UNCHANGED <<attemptedPort, state>>

LaunchPending(ws) == LaunchLocked(ws, NoWorker, port, attemptedPort, state)

(* finish: frees the slot, then records a current result or launches what  *)
(* a newer generation or endpoint left pending.                            *)
Finish(w) ==
  LET ws == [worker EXCEPT ![w] = IdleWorker]
  IN /\ worker[w].pc = "finish"
     /\ \/ /\ ~ForCurrent(w) \/ ~wanted
           /\ LaunchPending(ws)
           /\ UNCHANGED <<wanted, lastError, result, posted>>
        \/ /\ ForCurrent(w) /\ wanted
           /\ RecordResult(worker[w].outcome)
           /\ worker' = ws
           /\ cancel' = NoWorker
           /\ UNCHANGED attemptedPort
     /\ UNCHANGED <<stored, port, generation, attempts, endpointRuns, boots>>

-----------------------------------------------------------------------------
(***************************************************************************)
(* New, on whatever the file holds.  The same assignments follow the death *)
(* of the process: nothing but the file survives.  A death inside          *)
(* saveConfig is a Configure that did not rename, or one that renamed and  *)
(* failed afterwards, followed by this action.                             *)
(***************************************************************************)
FreshState(failed) == IF failed THEN "failed" ELSE "disabled"
FreshError(failed) == IF failed THEN "load" ELSE "none"
NoWorkers == [w \in Workers |-> IdleWorker]

Init ==
  /\ disk \in {Missing, Corrupt} \cup {c \in Config : Valid(c)}
  /\ loadFailed \in BOOLEAN /\ LoadFails(disk, loadFailed)
  /\ config = Loaded(disk, loadFailed)
  /\ started = FALSE /\ wanted = FALSE
  /\ port = 0 /\ attemptedPort = 0
  /\ cancel = NoWorker /\ worker = NoWorkers
  /\ generation = 0 /\ attempts = 0 /\ endpointRuns = 0
  /\ state = FreshState(loadFailed) /\ lastError = FreshError(loadFailed)
  /\ result = "none"
  /\ posted = Posted(0, FALSE)
  /\ boots = 0

ProcessRestart ==
  /\ boots < MaxBoots
  /\ boots' = boots + 1
  /\ disk' = disk
  /\ loadFailed' \in BOOLEAN /\ LoadFails(disk, loadFailed')
  /\ config' = Loaded(disk, loadFailed')
  /\ started' = FALSE /\ wanted' = FALSE
  /\ port' = 0 /\ attemptedPort' = 0
  /\ cancel' = NoWorker /\ worker' = NoWorkers
  /\ generation' = 0 /\ attempts' = 0 /\ endpointRuns' = 0
  /\ state' = FreshState(loadFailed') /\ lastError' = FreshError(loadFailed')
  /\ result' = "none"
  /\ posted' = Posted(0, FALSE)

RequestKeys == Keys \cup {NoKey, BadKey}
CallbackPorts == Endpoints \cup {0, -1, 65536}

Request ==
  \/ Start
  \/ Apply
  \/ \E key \in RequestKeys, enabled, synced \in BOOLEAN :
       Configure(key, enabled, synced)

(* The platform calls back for any generation it was ever given.           *)
Callback ==
  \E g \in 1..posted.generation :
    \/ \E p \in CallbackPorts : Discovered(g, p)
    \/ DiscoveryFailed(g)

WorkerStep(w) ==
  \/ CheckContext(w)
  \/ RecordAttempt(w)
  \/ \E outcome \in Outcomes : RunReturns(w, outcome)
  \/ BackoffEnds(w)
  \/ Finish(w)

Next ==
  \/ Request
  \/ Callback
  \/ \E w \in Workers : WorkerStep(w)
  \/ ProcessRestart

Spec == Init /\ [][Next]_vars

(* Shell bounds a run with a 20 s timeout and the back-off is a timer, so  *)
(* a goroutine that can step does; nobody owes the controller a request,   *)
(* a callback or a restart.                                                *)
FairSpec == Spec /\ \A w \in Workers : WF_vars(WorkerStep(w))

-----------------------------------------------------------------------------
(***************************************************************************)
(* Properties.                                                             *)
(***************************************************************************)

Ports == Endpoints \cup {0}
WorkerState ==
  [pc : {"idle", "check", "record", "run", "backoff", "finish"},
   generation : Nat, port : Ports, key : Keys \cup {NoKey},
   attempt : 1..MaxTries, cancelled : BOOLEAN, outcome : Outcomes]

(* The fields hold values of their Go types; in particular no impossible   *)
(* port ever becomes the endpoint.                                         *)
TypeOK ==
  /\ disk \in Config \cup {Missing, Corrupt}
  /\ config \in Config
  /\ loadFailed \in BOOLEAN /\ started \in BOOLEAN /\ wanted \in BOOLEAN
  /\ port \in Ports /\ attemptedPort \in Ports
  /\ cancel \in Workers \cup {NoWorker}
  /\ generation \in Nat /\ attempts \in Nat /\ endpointRuns \in Nat
  /\ state \in {"disabled", "waiting", "running", "succeeded",
                 "authentication_failed", "failed"}
  /\ lastError \in Outcomes \cup {"load", "update", "platform", "stop"}
  /\ result \in {"none", "zero", "nonzero"}
  /\ posted \in [generation : Nat, enabled : BOOLEAN]
  /\ worker \in [Workers -> WorkerState]
  /\ boots \in Nat

(* "The one active action" (Controller): however requests, endpoint        *)
(* changes and late returns interleave, at most one goroutine is between   *)
(* launchLocked and the end of finish, and it is the one cancel would      *)
(* cancel.                                                                 *)
OneAction == \A w \in Workers : Active(w) => cancel = w

(* Every run that was not cancelled works for the intent in force: its     *)
(* generation, endpoint and key are the current ones and the action is     *)
(* still wanted.  A forgotten cancellation anywhere breaks this.           *)
UncancelledIsCurrent ==
  \A w \in Workers :
    Active(w) /\ ~worker[w].cancelled =>
      /\ ForCurrent(w)
      /\ worker[w].key = config.key
      /\ wanted
      /\ attemptedPort = port

(* Status reports "running" exactly while an uncancelled run is in flight: *)
(* neither a replaced run nor a finished one is shown as progress.         *)
RunningIsLive ==
  (state = "running") <=> \E w \in Workers : Active(w) /\ ~worker[w].cancelled

(* "Success unsubscribes and prevents continuous power-mode enforcement":  *)
(* once a success is reported nothing is wanted, nothing runs, and the     *)
(* reported exit is zero.                                                  *)
SuccessStops ==
  state = "succeeded" =>
    /\ ~wanted
    /\ result = "zero"
    /\ \A w \in Workers : ~Active(w)

(* What Snapshot shows is true: "running" while an uncancelled run is in   *)
(* flight and at no other time, and a success that nothing undoes.         *)
StatusIsTrue == RunningIsLive /\ SuccessStops

(* The platform searches for this generation exactly while the action is   *)
(* wanted, except where status says that stopping it failed.               *)
SubscriptionFollowsIntent ==
  posted.generation = generation =>
    posted.enabled = wanted \/ lastError = "stop"

(* "Transient socket failures have at most three attempts per endpoint":   *)
(* between two changes of endpoint or intent the command is started at     *)
(* most three times, whoever starts it.                                    *)
RetriesBounded == endpointRuns <= MaxTries

(* "An old command finishing after disable cannot overwrite disabled       *)
(* status": when a run of an earlier generation ends, status keeps its     *)
(* result and error, and its state unless a pending run starts.            *)
OldGenerationSilent ==
  [][\A w \in Workers :
       /\ worker[w].pc = "finish" /\ worker'[w] # worker[w]
       /\ worker[w].generation # generation
       /\ generation' = generation
       => /\ UNCHANGED <<result, lastError, wanted>>
          /\ state' \in {state, "running"}]_vars

(* "Reconfiguration ... waits for cancelled I/O to finish before another   *)
(* command runs": and then it does run.  An endpoint found for the current *)
(* generation while a run for another one is in flight is attempted unless *)
(* it is replaced or no longer wanted.                                     *)
ReplacementRuns ==
  \A g \in 1..MaxGeneration, p \in Endpoints, b \in 0..MaxBoots :
    /\ <<generation, port, boots>> = <<g, p, b>> /\ wanted
    /\ \E w \in Workers : cancel = w /\ ~ForCurrent(w)
    ~> \/ attemptedPort = p
       \/ <<generation, port, boots>> # <<g, p, b>>
       \/ ~wanted

(* "Discovery and network changes renew the endpoint"                      *)
(* (docs/fixed-performance-startup.md): an endpoint just found is          *)
(* attempted unless it is replaced or no longer wanted.                    *)
RenewedEndpointRuns ==
  \A g \in 1..MaxGeneration, p \in Endpoints, b \in 0..MaxBoots :
    /\ <<generation, port, boots>> = <<g, p, b>> /\ wanted
    /\ attemptedPort = 0
    ~> \/ attemptedPort = p
       \/ <<generation, port, boots>> # <<g, p, b>>
       \/ ~wanted

(* The controller implements the contract of FixedAction: an epoch is a    *)
(* generation, and a run belongs to the generation it was launched for.    *)
Contract == INSTANCE FixedAction WITH
  epoch <- generation,
  running <- IF cancel = NoWorker THEN 0 ELSE worker[cancel].generation,
  done <- state = "succeeded"

ContractSpec == Contract!Spec
=============================================================================
