------------------------- MODULE StartupSystemProofs -------------------------
(***************************************************************************)
(* The joined system, for any keys, ports, services, workers and bounds.   *)
(*                                                                         *)
(* First, each half stays within what the other one's own module allows    *)
(* it: the looper calls the controller as Controller!Callback does, and    *)
(* the controller posts as LocalAdbDiscovery!PostUpdate does.  So every    *)
(* behaviour of the joined system is one of each component, and what       *)
(* ControllerProofs and LocalAdbDiscoveryProofs prove of them alone holds  *)
(* here.  The two halves have to be taken together: a callback's port is   *)
(* right because the looper is, and a posted generation is new because the *)
(* controller is.                                                          *)
(*                                                                         *)
(* Then the two properties that neither half has alone.  They rest on the  *)
(* order of the looper's queue (a generation is enabled there at most      *)
(* once, before anything later), on the looper making its calls before it  *)
(* takes the next runnable, and on the controller resetting its port with  *)
(* every new generation, before the looper has heard of it.                *)
(***************************************************************************)
EXTENDS StartupSystem, ControllerProofs, SequenceTheorems

JP == INSTANCE LocalAdbDiscoveryProofs WITH
  MaxUpdates <- MaxGeneration, generation <- jGeneration, enabled <- jEnabled

(* Whatever is queued or has been taken is not newer than the last post,   *)
(* and a runnable that enables is newer than all before it.                *)
QueueInOrder ==
  /\ jGeneration <= posted.generation
  /\ \A i \in 1..Len(inbox) :
       /\ inbox[i].generation <= posted.generation
       /\ inbox[i].enabled =>
            /\ jGeneration < inbox[i].generation
            /\ \A h \in 1..(i - 1) : inbox[h].generation < inbox[i].generation

(* The last post is at the end of the queue, or in force.                  *)
LastIsPosted ==
  posted = IF inbox = <<>> THEN [generation |-> jGeneration, enabled |-> jEnabled]
                           ELSE inbox[Len(inbox)]

(* The looper's calls are for the generation it is on, and report the port *)
(* it is on.                                                               *)
CallsAreForNow ==
  /\ jEnabled => jGeneration # 0
  /\ calls # <<>> => jEnabled
  /\ \A i \in 1..Len(calls) :
       /\ calls[i].generation = jGeneration
       /\ calls[i].kind = "discovered" => calls[i].port = currentPort

(* An endpoint, and a run, are of a generation the looper has reached.     *)
NothingAhead ==
  /\ port # 0 => jGeneration = generation
  /\ \A w \in Workers : Active(w) => worker[w].generation <= jGeneration

Reporting == \E i \in 1..Len(calls) : calls[i].kind = "discovered"

(* EndpointAgreement, while other calls are being made.                    *)
AgreeUnlessReporting ==
  jGeneration = generation /\ wanted /\ jEnabled /\ ~Reporting => port = currentPort

Link ==
  /\ generation <= MaxGeneration
  /\ QueueInOrder /\ LastIsPosted /\ CallsAreForNow
  /\ NothingAhead /\ AgreeUnlessReporting

SystemInv == IInv /\ JP!IInv /\ Link

-----------------------------------------------------------------------------
(* The instance of LocalAdbDiscovery in StartupSystem and the one whose    *)
(* theorems are used here are the same formulas.                           *)

LEMMA LooperConstants == JP!DiscoveryAssumption
<1>1. JP!IsFiniteSet(ServiceKeys)
  BY LooperAssumption, Zenon DEF IsFiniteSet, JP!IsFiniteSet
<1>2. /\ Releases \subseteq BOOLEAN /\ ServiceKeys \subseteq Nat
      /\ {MaxGeneration, MaxRevision, MaxObjects} \subseteq Nat
  BY LooperAssumption, BoundsAssumption
<1>3. \A p \in Endpoints : p \in Nat /\ p # 0
  BY EndpointsAssumption
<1>4. Endpoints \subseteq Nat \ {0}
  BY <1>3
<1>5. QED
  BY <1>1, <1>2, <1>4, Zenon

LEMMA SameInit == J!Init <=> JP!Init
BY Zenon DEF J!Init, JP!Init, J!Absent, JP!Absent

LEMMA SameCallReturns == J!CallReturns <=> JP!CallReturns
BY Zenon DEF J!CallReturns, JP!CallReturns, J!lifetime, JP!lifetime, J!found, JP!found,
   J!table, JP!table, J!resolver, JP!resolver

LEMMA SamePostUpdate == J!PostUpdate <=> JP!PostUpdate
BY Zenon DEF J!PostUpdate, JP!PostUpdate, J!lifetime, JP!lifetime, J!found, JP!found,
   J!table, JP!table, J!resolver, JP!resolver

LEMMA SameLooper == J!Looper <=> JP!Looper
BY Zenon DEF J!Looper, JP!Looper, J!Update, JP!Update,
   J!NetworkChanged, JP!NetworkChanged, J!DiscoveryStarted, JP!DiscoveryStarted,
   J!StartFailed, JP!StartFailed, J!RetryTimer, JP!RetryTimer,
   J!ServiceFound, JP!ServiceFound, J!ServiceLost, JP!ServiceLost,
   J!InfoUpdated, JP!InfoUpdated, J!Resolved, JP!Resolved,
   J!InfoRegistrationFailed, JP!InfoRegistrationFailed,
   J!ResolveFailed, JP!ResolveFailed, J!StaleResolveEnds, JP!StaleResolveEnds,
   J!UpdateObject, JP!UpdateObject, J!Uninspected, JP!Uninspected,
   J!LooperFree, JP!LooperFree, J!Forget, JP!Forget, J!ForgetServices, JP!ForgetServices,
   J!StartDiscovery, JP!StartDiscovery, J!LossReport, JP!LossReport,
   J!RetryLeft, JP!RetryLeft, J!Close, JP!Close, J!RefreshPort, JP!RefreshPort,
   J!ResolveNext, JP!ResolveNext, J!AdvertisedPort, JP!AdvertisedPort,
   J!FirstOf, JP!FirstOf, J!Live, JP!Live, J!ActiveObject, JP!ActiveObject,
   J!Current, JP!Current, J!Discovered, JP!Discovered, J!Failed, JP!Failed,
   J!Absent, JP!Absent, J!lifetime, JP!lifetime, J!found, JP!found,
   J!table, JP!table, J!resolver, JP!resolver

-----------------------------------------------------------------------------
(* What the two invariants say of the fields the halves share.             *)

UpdateArgs == [generation : Nat, enabled : BOOLEAN]

Shared ==
  /\ generation \in Nat /\ port \in Endpoints \cup {0} /\ wanted \in BOOLEAN
  /\ posted \in UpdateArgs /\ posted.generation <= generation
  /\ wanted => generation # 0
  /\ worker \in [Workers -> WorkerState]
  /\ jGeneration \in Nat /\ jEnabled \in BOOLEAN
  /\ inbox \in Seq(UpdateArgs) /\ calls \in Seq(JP!Call)
  /\ currentPort \in Endpoints \cup {0}

LEMMA SharedTypes ==
  ASSUME IInv, JP!IInv
  PROVE  Shared
<1>1. /\ generation \in Nat /\ port \in Endpoints \cup {0} /\ wanted \in BOOLEAN
      /\ posted \in UpdateArgs /\ posted.generation <= generation
      /\ wanted => generation # 0
      /\ worker \in [Workers -> WorkerState]
  BY DEF IInv, TypeOK, IntentShape, Ports, UpdateArgs
<1>2. /\ jGeneration \in Nat /\ jEnabled \in BOOLEAN
      /\ inbox \in Seq(UpdateArgs) /\ calls \in Seq(JP!Call)
      /\ currentPort \in Endpoints \cup {0}
  BY DEF JP!IInv, JP!LooperTyped, JP!FoundTyped, UpdateArgs
<1>3. QED
  BY <1>1, <1>2 DEF Shared

LEMMA SystemInitially == SystemInit => SystemInv
<1> SUFFICES ASSUME SystemInit PROVE SystemInv
  OBVIOUS
<1>1. IInv
  BY InitIInv DEF SystemInit
<1>2. JP!IInv
  BY SameInit, LooperConstants, JP!Initially DEF SystemInit
<1>3. /\ generation = 0 /\ posted = Posted(0, FALSE) /\ port = 0 /\ worker = NoWorkers
      /\ jGeneration = 0 /\ jEnabled = FALSE /\ inbox = <<>> /\ calls = <<>>
  BY DEF SystemInit, Init, J!Init
<1>4. Len(inbox) = 0 /\ Len(calls) = 0
  BY <1>3, EmptySeq
<1>5. QueueInOrder /\ LastIsPosted
  <2>1. posted = [generation |-> 0, enabled |-> FALSE]
    BY <1>3 DEF Posted
  <2>2. LastIsPosted
    BY <1>3, <2>1, Zenon DEF LastIsPosted
  <2>3. QueueInOrder
    <3>1. jGeneration = 0
      BY <1>3
    <3>2. posted.generation = 0
      BY <2>1
    <3>3. 1..Len(inbox) = {}
      BY <1>4
    <3>4. QED
      BY <3>1, <3>2, <3>3 DEF QueueInOrder
  <2>4. QED
    BY <2>2, <2>3
<1>6. CallsAreForNow /\ AgreeUnlessReporting
  BY <1>3, <1>4 DEF CallsAreForNow, AgreeUnlessReporting
<1>7. NothingAhead
  BY <1>3 DEF NothingAhead, Active, NoWorkers, IdleWorker
<1>8. QED
  BY <1>1, <1>2, <1>3, <1>5, <1>6, <1>7, BoundsAssumption DEF SystemInv, Link

-----------------------------------------------------------------------------
(* What the controller's own steps do to the fields the looper depends on: *)
(* they begin a generation, or go on with the present one.                 *)

Renews ==
  /\ generation < MaxGeneration /\ generation' = generation + 1
  /\ port' = 0
  /\ posted' = posted \/ \E e \in BOOLEAN : posted' = Posted(generation + 1, e)
  /\ \A w \in Workers :
       Active(w)' => Active(w) /\ worker'[w].generation = worker[w].generation

Continues ==
  /\ generation' = generation /\ port' = port
  /\ wanted' => wanted
  /\ \/ posted' = posted
     \/ /\ posted' = Posted(generation, FALSE)
        /\ \E w \in Workers : Active(w) /\ worker[w].generation = generation
  /\ \A w \in Workers :
       Active(w)' =>
         \/ Active(w) /\ worker'[w].generation = worker[w].generation
         \/ port # 0 /\ worker'[w].generation = generation

LEMMA RestartRenews ==
  ASSUME IInv, NEW want \in BOOLEAN, RestartLocked(want)
  PROVE  Renews
<1>1. /\ generation < MaxGeneration /\ generation' = generation + 1 /\ port' = 0
      /\ worker' = CancelActive
      /\ posted' = posted \/ posted' = Posted(generation + 1, want)
  BY DEF RestartLocked
<1>2. \A w \in Workers : Active(w)' => Active(w) /\ worker'[w].generation = worker[w].generation
  BY <1>1, CancelActiveFacts DEF Active
<1>3. QED
  BY <1>1, <1>2 DEF Renews

LEMMA RequestRenews ==
  ASSUME IInv, Request
  PROVE  Renews \/ Continues
<1>1. config.enabled \in BOOLEAN /\ started \in BOOLEAN
  BY DEF IInv, TypeOK, Config
<1>2. ASSUME UNCHANGED <<intent, posted, worker>>
      PROVE  Continues
  BY <1>2 DEF Continues, intent, Active
<1>3. CASE Start
  BY <1>1, <1>2, <1>3, RestartRenews DEF Start
<1>4. CASE Apply
  BY <1>4, RestartRenews DEF Apply
<1>5. CASE \E key \in RequestKeys, enabled, synced \in BOOLEAN : Configure(key, enabled, synced)
  <2>1. PICK key \in RequestKeys, enabled \in BOOLEAN, synced \in BOOLEAN :
          Configure(key, enabled, synced)
    BY <1>5
  <2>2. (enabled /\ started) \in BOOLEAN
    BY <1>1, <2>1
  <2>3. CASE synced
    BY <2>1, <2>2, <2>3, RestartRenews DEF Configure
  <2>4. CASE ~synced
    BY <1>2, <2>1, <2>4 DEF Configure
  <2>5. QED
    BY <2>3, <2>4
<1>6. QED
  BY <1>3, <1>4, <1>5 DEF Request

LEMMA MoveContinues ==
  ASSUME IInv, NEW w \in Workers, CheckContext(w) \/ RecordAttempt(w)
           \/ BackoffEnds(w) \/ \E outcome \in Outcomes : RunReturns(w, outcome)
  PROVE  Continues
<1>1. UNCHANGED <<intent, posted>>
  BY DEF CheckContext, RecordAttempt, BackoffEnds, RunReturns, controllerVars
<1>2. worker \in [Workers -> WorkerState]
  BY DEF IInv, TypeOK
<1>3. worker[w].pc # "idle"
  BY DEF CheckContext, RecordAttempt, BackoffEnds, RunReturns
<1>4. /\ \A v \in Workers \ {w} : worker'[v] = worker[v]
      /\ worker'[w].generation = worker[w].generation
  <2>1. CASE CheckContext(w)
    BY <1>2, <2>1 DEF CheckContext, WorkerState
  <2>2. CASE RecordAttempt(w)
    BY <1>2, <2>2 DEF RecordAttempt, WorkerState
  <2>3. CASE BackoffEnds(w)
    BY <1>2, <2>3 DEF BackoffEnds, WorkerState
  <2>4. CASE \E outcome \in Outcomes : RunReturns(w, outcome)
    BY <1>2, <2>4 DEF RunReturns, WorkerState
  <2>5. QED
    BY <2>1, <2>2, <2>3, <2>4
<1>5. QED
  BY <1>1, <1>3, <1>4 DEF Continues, intent, Active

LEMMA FinishContinues ==
  ASSUME IInv, NEW w \in Workers, Finish(w)
  PROVE  Continues
<1> DEFINE ws == [worker EXCEPT ![w] = IdleWorker]
<1>1. /\ worker \in [Workers -> WorkerState] /\ Active(w)
      /\ generation' = generation /\ port' = port
  BY DEF IInv, TypeOK, Finish, Active
<1>2. \A v \in Workers : ws[v].pc # "idle" => v # w /\ ws[v] = worker[v]
  BY <1>1 DEF IdleWorker
<1>3. CASE LaunchPending(ws) /\ UNCHANGED <<wanted, posted>>
  <2>1. CASE worker' = ws
    BY <1>1, <1>2, <1>3, <2>1 DEF Continues, Active
  <2>2. ASSUME port # 0, NEW v \in Workers,
               worker' = [ws EXCEPT ![v] = [IdleWorker EXCEPT !.pc = "check",
                                                              !.generation = generation,
                                                              !.port = port,
                                                              !.key = config.key]]
        PROVE  Continues
    <3>1. \A u \in Workers : u # v => worker'[u] = ws[u]
      BY <1>1, <2>2
    <3>2. worker'[v].generation = generation
      BY <1>1, <2>2 DEF IdleWorker
    <3>3. \A u \in Workers :
            Active(u)' => \/ Active(u) /\ worker'[u].generation = worker[u].generation
                          \/ worker'[u].generation = generation
      BY <1>2, <3>1, <3>2 DEF Active
    <3>4. QED
      BY <1>1, <1>3, <2>2, <3>3 DEF Continues
  <2>3. QED
    BY <1>3, <2>1, <2>2 DEF LaunchPending, LaunchLocked, MayLaunch
<1>4. CASE ForCurrent(w) /\ wanted /\ RecordResult(worker[w].outcome) /\ worker' = ws
  <2>1. posted' = posted \/ posted' = Posted(generation, FALSE)
    BY <1>4 DEF RecordResult
  <2>2. wanted' => wanted
    BY <1>4
  <2>3. worker[w].generation = generation
    BY <1>4 DEF ForCurrent
  <2>4. \A v \in Workers :
          Active(v)' => Active(v) /\ worker'[v].generation = worker[v].generation
    BY <1>2, <1>4 DEF Active
  <2>5. QED
    BY <1>1, <2>1, <2>2, <2>3, <2>4 DEF Continues
<1>5. QED
  BY <1>3, <1>4 DEF Finish

LEMMA ControllerSteps ==
  ASSUME IInv, Request \/ \E w \in Workers : WorkerStep(w)
  PROVE  Renews \/ Continues
BY RequestRenews, MoveContinues, FinishContinues DEF WorkerStep

-----------------------------------------------------------------------------
(* The controller's posts.                                                 *)

LEMMA PostsAsAllowed ==
  ASSUME SystemInv, GoStep
  PROVE  \/ inbox' = inbox /\ posted' = posted
         \/ /\ posted' \in UpdateArgs /\ inbox' = Append(inbox, posted')
            /\ \/ posted'.generation > posted.generation
               \/ posted'.generation = posted.generation /\ ~posted'.enabled
            /\ J!PostUpdate
<1>1. Shared
  BY SharedTypes DEF SystemInv
<1>2. Renews \/ Continues
  BY ControllerSteps DEF SystemInv, GoStep
<1>3. CASE posted' = posted
  BY <1>3 DEF GoStep, Post
<1>4. CASE posted' # posted
  <2>1. inbox' = Append(inbox, posted') /\ UNCHANGED looperVars
    BY <1>4 DEF GoStep, Post
  <2>2. PICK g \in 1..MaxGeneration, e \in BOOLEAN :
          /\ posted' = [generation |-> g, enabled |-> e]
          /\ g > posted.generation \/ (g = posted.generation /\ posted.enabled /\ ~e)
    <3>1. CASE Renews
      BY <1>1, <1>4, <3>1, BoundsAssumption DEF Renews, Shared, Posted, UpdateArgs
    <3>2. CASE Continues
      <4>1. PICK w \in Workers : Active(w) /\ worker[w].generation = generation
        BY <1>4, <3>2 DEF Continues
      <4>2. generation <= jGeneration /\ jGeneration <= posted.generation
        BY <4>1 DEF SystemInv, Link, NothingAhead, QueueInOrder
      <4>3. posted.generation = generation
        BY <1>1, <4>2 DEF Shared, UpdateArgs
      <4>4. posted' = [generation |-> generation, enabled |-> FALSE]
        BY <1>4, <3>2 DEF Continues, Posted
      <4>5. posted.enabled
        BY <1>1, <1>4, <4>3, <4>4 DEF Shared, UpdateArgs
      <4>6. generation \in 1..MaxGeneration
        BY <1>1, <4>1, BoundsAssumption DEF Shared, SystemInv, Link, IInv, ActiveShape
      <4>7. QED
        BY <4>3, <4>4, <4>5, <4>6
    <3>3. QED
      BY <1>2, <3>1, <3>2
  <2>3. J!PostUpdate
    <3>1. posted = IF inbox = <<>> THEN [generation |-> jGeneration, enabled |-> jEnabled]
                   ELSE inbox[Len(inbox)]
      BY DEF SystemInv, Link, LastIsPosted
    <3>2. UNCHANGED <<J!lifetime, revision, listener, timers, J!found, calls>>
      BY <2>1 DEF looperVars, J!lifetime, J!found, J!table, J!resolver
    <3>3. QED
      BY <2>1, <2>2, <3>1, <3>2 DEF J!PostUpdate
  <2>4. posted' \in UpdateArgs
    BY <2>2, BoundsAssumption DEF UpdateArgs
  <2>5. QED
    BY <1>1, <2>1, <2>2, <2>3, <2>4 DEF Shared, UpdateArgs
<1>5. QED
  BY <1>3, <1>4

LEMMA AppendKeepsOrder ==
  ASSUME Shared, QueueInOrder, UNCHANGED jGeneration,
         posted' \in UpdateArgs, inbox' = Append(inbox, posted'),
         \/ posted'.generation > posted.generation
         \/ posted'.generation = posted.generation /\ ~posted'.enabled
  PROVE  QueueInOrder' /\ LastIsPosted'
<1>1. /\ Len(inbox) \in Nat /\ Len(inbox') = Len(inbox) + 1
      /\ \A i \in 1..Len(inbox) : inbox'[i] = inbox[i]
      /\ inbox'[Len(inbox) + 1] = posted'
      /\ inbox' # <<>>
  BY AppendProperties, LenProperties DEF Shared
<1>2. \A i \in 1..Len(inbox) : inbox[i] \in UpdateArgs
  BY ElementOfSeq DEF Shared
<1>3. LastIsPosted'
  BY <1>1 DEF LastIsPosted
<1>4. posted.generation \in Nat /\ posted'.generation \in Nat /\ jGeneration \in Nat
      /\ posted.generation <= posted'.generation
  BY DEF Shared, UpdateArgs
<1>5. ASSUME NEW i \in 1..Len(inbox')
      PROVE  /\ inbox'[i].generation <= posted'.generation
             /\ inbox'[i].enabled =>
                  /\ jGeneration < inbox'[i].generation
                  /\ \A h \in 1..(i - 1) : inbox'[h].generation < inbox'[i].generation
  <2>1. CASE i \in 1..Len(inbox)
    <3>1. /\ inbox[i].generation \in Nat /\ inbox[i].generation <= posted.generation
          /\ inbox[i].enabled =>
               /\ jGeneration < inbox[i].generation
               /\ \A h \in 1..(i - 1) : inbox[h].generation < inbox[i].generation
      BY <1>2, <2>1 DEF QueueInOrder, UpdateArgs
    <3>2. \A h \in 1..(i - 1) : h \in 1..Len(inbox)
      BY <1>1, <2>1
    <3>3. QED
      BY <1>1, <1>4, <2>1, <3>1, <3>2
  <2>2. CASE i = Len(inbox) + 1
    <3>1. \A h \in 1..(i - 1) :
            /\ inbox'[h] = inbox[h] /\ inbox[h].generation \in Nat
            /\ inbox[h].generation <= posted.generation
      BY <1>1, <1>2, <2>2 DEF QueueInOrder, UpdateArgs
    <3>2. jGeneration <= posted.generation
      BY DEF QueueInOrder
    <3>3. QED
      BY <1>1, <1>4, <2>2, <3>1, <3>2
  <2>3. QED
    BY <1>1, <2>1, <2>2
<1>6. jGeneration' <= posted'.generation
  BY <1>4 DEF QueueInOrder
<1>7. QED
  BY <1>3, <1>5, <1>6 DEF QueueInOrder

LEMMA GoStepLinks ==
  ASSUME SystemInv, GoStep
  PROVE  Link'
<1>1. Shared /\ Link
  BY SharedTypes DEF SystemInv
<1>2. UNCHANGED <<jGeneration, jEnabled, calls, currentPort>>
  BY DEF GoStep, looperVars
<1>3. Renews \/ Continues
  BY ControllerSteps DEF SystemInv, GoStep
<1>4. QueueInOrder' /\ LastIsPosted'
  <2>1. CASE inbox' = inbox /\ posted' = posted
    BY <1>1, <1>2, <2>1 DEF Link, QueueInOrder, LastIsPosted
  <2>2. CASE ~(inbox' = inbox /\ posted' = posted)
    BY <1>1, <1>2, <2>2, PostsAsAllowed, AppendKeepsOrder DEF Link
  <2>3. QED
    BY <2>1, <2>2
<1>5. CallsAreForNow'
  BY <1>1, <1>2 DEF Link, CallsAreForNow
<1>6. jGeneration <= generation
  BY <1>1 DEF Link, QueueInOrder, Shared, UpdateArgs
<1>7. CASE Renews
  <2>1. generation' <= MaxGeneration /\ port' = 0 /\ jGeneration' # generation'
    BY <1>1, <1>2, <1>6, <1>7, BoundsAssumption DEF Renews, Shared
  <2>2. NothingAhead'
    BY <1>1, <1>2, <1>7, <2>1 DEF Renews, Link, NothingAhead
  <2>3. AgreeUnlessReporting'
    BY <2>1 DEF AgreeUnlessReporting
  <2>4. QED
    BY <1>4, <1>5, <2>1, <2>2, <2>3 DEF Link
<1>8. CASE Continues
  <2>1. \A w \in Workers : Active(w)' => worker'[w].generation <= jGeneration'
    BY <1>1, <1>2, <1>8 DEF Continues, Link, NothingAhead, Shared
  <2>2. NothingAhead'
    BY <1>1, <1>2, <1>8, <2>1 DEF Continues, Link, NothingAhead
  <2>3. AgreeUnlessReporting'
    BY <1>1, <1>2, <1>8 DEF Continues, Link, AgreeUnlessReporting, Reporting
  <2>4. generation' <= MaxGeneration
    BY <1>1, <1>8 DEF Continues, Link
  <2>5. QED
    BY <1>4, <1>5, <2>2, <2>3, <2>4 DEF Link
<1>9. QED
  BY <1>3, <1>7, <1>8

-----------------------------------------------------------------------------
(* The looper's native calls.                                              *)

LEMMA HeadIsFirst ==
  ASSUME SystemInv, calls # <<>>
  PROVE  /\ Head(calls) = calls[1] /\ 1 \in 1..Len(calls)
         /\ Head(calls) \in JP!Call
         /\ Head(calls).generation = jGeneration
         /\ Head(calls).kind = "discovered" => Head(calls).port = currentPort
         /\ jGeneration \in 1..posted.generation
         /\ jEnabled
<1>1. Shared
  BY SharedTypes DEF SystemInv
<1>2. /\ Head(calls) = calls[1] /\ Len(calls) \in Nat /\ Len(calls) # 0
      /\ Head(calls) \in JP!Call
  BY <1>1, HeadTailProperties, LenProperties, EmptySeq DEF Shared
<1>3. CallsAreForNow /\ jGeneration <= posted.generation
  BY DEF SystemInv, Link, QueueInOrder
<1>4. QED
  BY <1>1, <1>2, <1>3 DEF CallsAreForNow, Shared, UpdateArgs

(* The looper calls back as the controller alone expects of the platform.  *)
LEMMA CallsAsAllowed ==
  ASSUME SystemInv, NativeCall
  PROVE  Callback \/ UNCHANGED vars
<1>1. calls # <<>>
  BY DEF NativeCall, J!CallReturns
<1>2. /\ Head(calls).generation \in 1..posted.generation
      /\ Head(calls).port \in CallbackPorts
  BY <1>1, HeadIsFirst DEF JP!Call, CallbackPorts
<1>3. \/ Discovered(Head(calls).generation, Head(calls).port)
      \/ DiscoveryFailed(Head(calls).generation)
      \/ UNCHANGED vars
  BY DEF NativeCall
<1>4. QED
  BY <1>2, <1>3 DEF Callback

LEMMA NativeCallLinks ==
  ASSUME SystemInv, NativeCall
  PROVE  Link'
<1>1. Shared /\ Link
  BY SharedTypes DEF SystemInv
<1>2. /\ calls # <<>> /\ calls' = Tail(calls)
      /\ UNCHANGED <<inbox, jGeneration, jEnabled, currentPort>>
  BY DEF NativeCall, J!CallReturns, J!lifetime, J!found
<1>3. /\ Len(calls') = Len(calls) - 1 /\ Len(calls) \in Nat
      /\ \A i \in 1..Len(calls') : calls'[i] = calls[i + 1]
  BY <1>1, <1>2, HeadTailProperties, LenProperties DEF Shared
<1>4. UNCHANGED <<generation, wanted, posted>>
  BY DEF NativeCall, Discovered, DiscoveryFailed, intent, vars
<1>5. QueueInOrder' /\ LastIsPosted'
  BY <1>1, <1>2, <1>4 DEF Link, QueueInOrder, LastIsPosted
<1>6. \A i \in 1..Len(calls') : i + 1 \in 1..Len(calls) /\ calls'[i] = calls[i + 1]
  BY <1>3
<1>7. CallsAreForNow'
  BY <1>1, <1>2, <1>6 DEF Link, CallsAreForNow
<1>8. DEFINE call == Head(calls)
<1>9. /\ call = calls[1] /\ 1 \in 1..Len(calls) /\ call.generation = jGeneration
      /\ call.kind = "discovered" => call.port = currentPort
  BY <1>2, HeadIsFirst
<1>10. ASSUME call.kind = "discovered", Discovered(call.generation, call.port)
       PROVE  Link'
  <2>1. jGeneration = generation /\ port' = currentPort
    BY <1>9, <1>10 DEF Discovered, Ignores
  <2>2. \A w \in Workers : Active(w)' => worker'[w].generation <= jGeneration
    <3>1. /\ CancelActive \in [Workers -> WorkerState]
          /\ \A w \in Workers : /\ CancelActive[w].pc = worker[w].pc
                                /\ CancelActive[w].generation = worker[w].generation
      BY CancelActiveFacts DEF SystemInv
    <3>2. CASE worker' = CancelActive
      BY <1>1, <3>1, <3>2 DEF Link, NothingAhead, Active
    <3>3. ASSUME NEW v \in Workers,
                 worker' = [CancelActive EXCEPT ![v] =
                             [IdleWorker EXCEPT !.pc = "check",
                                                !.generation = generation,
                                                !.port = call.port,
                                                !.key = config.key]]
          PROVE  \A w \in Workers : Active(w)' => worker'[w].generation <= jGeneration
      <4>1. \A w \in Workers : w # v => worker'[w] = CancelActive[w]
        BY <3>1, <3>3
      <4>2. worker'[v].generation = generation
        BY <3>1, <3>3 DEF IdleWorker
      <4>3. QED
        BY <1>1, <2>1, <3>1, <4>1, <4>2 DEF Link, NothingAhead, Active, Shared
    <3>4. QED
      BY <1>10, <3>2, <3>3 DEF Discovered, LaunchLocked
  <2>3. NothingAhead' /\ AgreeUnlessReporting'
    BY <1>2, <1>4, <2>1, <2>2 DEF NothingAhead, AgreeUnlessReporting
  <2>4. QED
    BY <1>1, <1>4, <1>5, <1>7, <2>3 DEF Link
<1>11. ASSUME UNCHANGED <<port, worker>>,
              call.kind = "discovered" => Ignores(call.generation, call.port)
       PROVE  Link'
  <2>1. NothingAhead'
    BY <1>1, <1>2, <1>4, <1>11 DEF Link, NothingAhead, Active
  <2>2. ASSUME jGeneration = generation, wanted, jEnabled, ~Reporting'
        PROVE  port = currentPort
    <3>1. CASE call.kind = "discovered"
      <4>1. ValidPort(currentPort)
        BY <1>1, EndpointsAssumption DEF Shared, ValidPort
      <4>2. QED
        BY <1>9, <1>11, <2>2, <3>1, <4>1 DEF Ignores
    <3>2. CASE call.kind # "discovered"
      <4>1. \A i \in 1..Len(calls) : i = 1 \/ i - 1 \in 1..Len(calls')
        BY <1>3
      <4>2. \A i \in 1..Len(calls) : i # 1 => calls[i] = calls'[i - 1]
        BY <1>3, <4>1
      <4>3. ~Reporting
        BY <1>9, <2>2, <3>2, <4>1, <4>2 DEF Reporting
      <4>4. QED
        BY <1>1, <2>2, <4>3 DEF Link, AgreeUnlessReporting
    <3>3. QED
      BY <3>1, <3>2
  <2>3. AgreeUnlessReporting'
    BY <1>2, <1>4, <1>11, <2>2 DEF AgreeUnlessReporting
  <2>4. QED
    BY <1>1, <1>4, <1>5, <1>7, <2>1, <2>3 DEF Link
<1>12. CASE call.kind = "discovered"
  BY <1>10, <1>11, <1>12 DEF NativeCall, vars, intent
<1>13. CASE call.kind = "failed"
  <2>1. UNCHANGED <<port, worker>>
    BY <1>13 DEF NativeCall, DiscoveryFailed, vars, intent
  <2>2. QED
    BY <1>11, <1>13, <2>1
<1>14. QED
  BY <1>12, <1>13 DEF NativeCall

-----------------------------------------------------------------------------
(* The looper's runnables: one takes a posted update, every other one      *)
(* leaves the queue and the generation alone and reports what it changes.  *)

LEMMA Singles ==
  ASSUME NEW a, NEW b
  PROVE  /\ Append(<<>>, a) = <<a>> /\ Len(<<a>>) = 1 /\ <<a>>[1] = a
         /\ Len(Append(<<a>>, b)) = 2
         /\ Append(<<a>>, b)[1] = a /\ Append(<<a>>, b)[2] = b
<1>1. Append(<<>>, a) = <<a>> /\ Len(<<a>>) = 1 /\ <<a>>[1] = a
  OBVIOUS
<1>2. <<a>> \in Seq({a, b}) /\ b \in {a, b}
  OBVIOUS
<1>3. QED
  BY <1>1, <1>2, AppendProperties

Takes ==
  /\ calls = <<>> /\ inbox # <<>> /\ inbox' = Tail(inbox)
  /\ \/ /\ Head(inbox).generation < jGeneration
        /\ UNCHANGED <<jGeneration, jEnabled, calls, currentPort>>
     \/ /\ Head(inbox).generation >= jGeneration
        /\ jGeneration' = Head(inbox).generation /\ jEnabled' = Head(inbox).enabled
        /\ currentPort' = 0
        /\ \/ calls' = <<>>
           \/ /\ jEnabled'
              /\ calls' = <<[kind |-> "failed", generation |-> jGeneration', port |-> 0]>>

Truthful(c) ==
  c.generation = jGeneration /\ (c.kind = "discovered" => c.port = currentPort')

Reports ==
  /\ UNCHANGED <<inbox, jGeneration, jEnabled>>
  /\ \/ UNCHANGED <<currentPort, calls>>
     \/ /\ calls = <<>> /\ jEnabled
        /\ \A i \in 1..Len(calls') : Truthful(calls'[i])
        /\ currentPort' = currentPort \/ Reporting'

LEMMA UpdateTakes ==
  ASSUME Shared, J!Update
  PROVE  Takes
<1>1. /\ calls = <<>> /\ inbox # <<>> /\ inbox' = Tail(inbox)
  BY DEF J!Update, J!LooperFree
<1>2. Head(inbox) \in UpdateArgs
  BY <1>1, HeadTailProperties DEF Shared
<1>3. CASE Head(inbox).generation < jGeneration
  BY <1>1, <1>3 DEF J!Update, J!lifetime, J!found, Takes
<1>4. CASE ~(Head(inbox).generation < jGeneration)
  <2>1. Head(inbox).generation >= jGeneration
    BY <1>2, <1>4 DEF Shared, UpdateArgs
  <2>2. /\ jGeneration' = Head(inbox).generation /\ jEnabled' = Head(inbox).enabled
        /\ currentPort' = 0
    BY <1>4 DEF J!Update, J!Forget, J!ForgetServices
  <2>3. CASE Head(inbox).enabled
    <3>1. J!StartDiscovery(revision + 2, <<>>, Head(inbox).generation)
      BY <1>4, <2>3 DEF J!Update
    <3>2. [J!Failed EXCEPT !.generation = Head(inbox).generation]
            = [kind |-> "failed", generation |-> Head(inbox).generation, port |-> 0]
      BY DEF J!Failed
    <3>3. QED
      BY <1>1, <2>1, <2>2, <2>3, <3>1, <3>2, Singles DEF J!StartDiscovery, Takes
  <2>4. CASE ~Head(inbox).enabled
    BY <1>1, <1>4, <2>1, <2>2, <2>4 DEF J!Update, Takes
  <2>5. QED
    BY <2>3, <2>4
<1>5. QED
  BY <1>3, <1>4

Undisturbed == UNCHANGED <<inbox, jGeneration, jEnabled>>

LEMMA CallsReport ==
  ASSUME Undisturbed, calls = <<>>, jEnabled,
         \/ currentPort' = currentPort /\ calls' = <<J!Failed>>
         \/ calls' = <<J!Discovered(currentPort')>>
         \/ calls' = Append(<<J!Failed>>, J!Discovered(currentPort'))
         \/ calls' = Append(<<J!Discovered(currentPort')>>, J!Failed)
  PROVE  Reports
<1>1. /\ Truthful(J!Failed) /\ Truthful(J!Discovered(currentPort'))
      /\ J!Discovered(currentPort').kind = "discovered"
  BY DEF Truthful, J!Failed, J!Discovered
<1>2. /\ \A i \in 1..Len(calls') : Truthful(calls'[i])
      /\ currentPort' = currentPort \/ Reporting'
  BY <1>1, Singles DEF Reporting
<1>3. QED
  BY <1>2 DEF Reports, Undisturbed

LEMMA RefreshReports ==
  ASSUME NEW svcs, NEW ports, NEW made, made \in {<<>>, <<J!Failed>>},
         Undisturbed, calls = <<>>, jEnabled, J!RefreshPort(svcs, ports, made)
  PROVE  Reports
<1>1. \/ calls' = made /\ currentPort' = currentPort
      \/ calls' = Append(made, J!Discovered(currentPort'))
  BY DEF J!RefreshPort
<1>2. CASE calls' = <<>> /\ currentPort' = currentPort
  BY <1>2 DEF Reports, Undisturbed
<1>3. QED
  BY <1>1, <1>2, CallsReport, Singles

LEMMA StartReports ==
  ASSUME NEW r, NEW made, J!StartDiscovery(r, made, jGeneration)
  PROVE  calls' = made \/ calls' = Append(made, J!Failed)
BY DEF J!StartDiscovery, J!Failed

LEMMA SearchReports ==
  ASSUME Shared,
         \/ J!DiscoveryStarted
         \/ \E g \in 1..jGeneration : J!NetworkChanged(g)
         \/ \E r \in 1..revision : J!StartFailed(r) \/ J!RetryTimer(r)
  PROVE  Reports
<1>1. CASE J!DiscoveryStarted
  BY <1>1 DEF J!DiscoveryStarted, J!lifetime, J!found, Reports
<1>2. ASSUME NEW g \in 1..jGeneration, J!NetworkChanged(g)
      PROVE  Reports
  <2>1. /\ Undisturbed /\ calls = <<>> /\ jEnabled /\ currentPort' = 0
        /\ J!StartDiscovery(revision + 2, <<J!Discovered(currentPort')>>, jGeneration)
    BY <1>2 DEF J!NetworkChanged, J!LooperFree, J!Forget, J!ForgetServices, J!LossReport,
       Undisturbed
  <2>2. QED
    BY <2>1, StartReports, CallsReport
<1>3. ASSUME NEW r \in 1..revision, J!StartFailed(r)
      PROVE  Reports
  <2>1. /\ Undisturbed /\ calls = <<>> /\ jEnabled
        /\ currentPort' = currentPort /\ calls' = <<J!Failed>>
    BY <1>3 DEF J!StartFailed, J!LooperFree, J!Current, J!found, Undisturbed
  <2>2. QED
    BY <2>1, CallsReport
<1>4. ASSUME NEW r \in 1..revision, J!RetryTimer(r)
      PROVE  Reports
  <2>1. Undisturbed /\ calls = <<>> /\ currentPort' = currentPort
    BY <1>4 DEF J!RetryTimer, J!LooperFree, J!lifetime, J!found, Undisturbed
  <2>2. CASE J!Current(r) /\ J!StartDiscovery(revision + 1, <<>>, jGeneration)
    BY <2>1, <2>2, StartReports, CallsReport, Singles
       DEF J!Current, Reports, Undisturbed
  <2>3. CASE calls' = calls
    BY <2>1, <2>3 DEF Reports, Undisturbed
  <2>4. QED
    BY <1>4, <2>2, <2>3 DEF J!RetryTimer
<1>5. QED
  BY <1>1, <1>2, <1>3, <1>4

LEMMA ServiceReports ==
  ASSUME NEW r, NEW k, J!ServiceFound(r, k) \/ J!ServiceLost(r, k)
  PROVE  Reports
<1>1. CASE J!ServiceFound(r, k)
  BY <1>1 DEF J!ServiceFound, J!lifetime, Reports
<1>2. CASE J!ServiceLost(r, k)
  <2>1. /\ Undisturbed /\ calls = <<>> /\ jEnabled
        /\ J!RefreshPort([services EXCEPT ![k] = 0], [servicePort EXCEPT ![k] = 0], <<>>)
    BY <1>2 DEF J!ServiceLost, J!LooperFree, J!Current, J!lifetime, Undisturbed
  <2>2. QED
    BY <2>1, RefreshReports
<1>3. QED
  BY <1>1, <1>2

LEMMA ObjectReports ==
  ASSUME NEW id,
         \/ \E p \in Endpoints \cup {0, J!Uninspected} : J!InfoUpdated(id, p) \/ J!Resolved(id, p)
         \/ J!InfoRegistrationFailed(id)
         \/ J!ResolveFailed(id)
         \/ J!StaleResolveEnds(id)
  PROVE  Reports
<1>1. ASSUME NEW p, J!ActiveObject(id), J!UpdateObject(id, p), Undisturbed, calls = <<>>
      PROVE  Reports
  <2>1. jEnabled
    BY <1>1 DEF J!ActiveObject, J!Live, J!Current
  <2>2. PICK ports :
          J!RefreshPort(services, ports, IF p = J!Uninspected THEN <<J!Failed>> ELSE <<>>)
    BY <1>1 DEF J!UpdateObject
  <2>3. QED
    BY <1>1, <2>1, <2>2, RefreshReports
<1>2. ASSUME NEW p \in Endpoints \cup {0, J!Uninspected}, J!InfoUpdated(id, p)
      PROVE  Reports
  BY <1>1, <1>2 DEF J!InfoUpdated, J!LooperFree, J!lifetime, Undisturbed
<1>3. ASSUME NEW p \in Endpoints \cup {0, J!Uninspected}, J!Resolved(id, p)
      PROVE  Reports
  <2>1. Undisturbed /\ calls = <<>>
    BY <1>3 DEF J!Resolved, J!LooperFree, J!lifetime, Undisturbed
  <2>2. CASE UNCHANGED <<currentPort, calls>>
    BY <2>1, <2>2 DEF Reports, Undisturbed
  <2>3. QED
    BY <1>1, <1>3, <2>1, <2>2 DEF J!Resolved
<1>4. CASE J!InfoRegistrationFailed(id) \/ J!ResolveFailed(id)
  <2>1. /\ Undisturbed /\ calls = <<>> /\ jEnabled
        /\ currentPort' = currentPort /\ calls' = <<J!Failed>>
    BY <1>4 DEF J!InfoRegistrationFailed, J!ResolveFailed, J!LooperFree, J!ActiveObject,
       J!Live, J!Current, J!lifetime, Undisturbed
  <2>2. QED
    BY <2>1, CallsReport
<1>5. CASE J!StaleResolveEnds(id)
  BY <1>5 DEF J!StaleResolveEnds, J!lifetime, Reports
<1>6. QED
  BY <1>2, <1>3, <1>4, <1>5

LEMMA LooperSteps ==
  ASSUME Shared, J!Looper
  PROVE  Takes \/ Reports
<1>1. CASE J!Update
  BY <1>1, UpdateTakes
<1>2. CASE \/ J!DiscoveryStarted
           \/ \E g \in 1..jGeneration : J!NetworkChanged(g)
           \/ \E r \in 1..revision : J!StartFailed(r) \/ J!RetryTimer(r)
  BY <1>2, SearchReports
<1>3. CASE \E r \in 1..revision, k \in ServiceKeys : J!ServiceFound(r, k) \/ J!ServiceLost(r, k)
  BY <1>3, ServiceReports
<1>4. ASSUME NEW id \in DOMAIN object,
             \/ \E p \in Endpoints \cup {0, J!Uninspected} : J!InfoUpdated(id, p) \/ J!Resolved(id, p)
             \/ J!InfoRegistrationFailed(id) \/ J!ResolveFailed(id) \/ J!StaleResolveEnds(id)
      PROVE  Reports
  BY <1>4, ObjectReports
<1>5. QED
  BY <1>1, <1>2, <1>3, <1>4 DEF J!Looper

LEMMA TakingLinks ==
  ASSUME SystemInv, Shared, Takes, UNCHANGED vars
  PROVE  Link'
<1>1. /\ UNCHANGED <<generation, port, wanted, posted, worker>>
      /\ Link
  BY DEF SystemInv, vars, intent
<1>2. /\ inbox \in Seq(UpdateArgs) /\ inbox # <<>> /\ inbox' = Tail(inbox)
      /\ Len(inbox) \in Nat /\ Len(inbox) # 0
      /\ Head(inbox) = inbox[1] /\ Head(inbox) \in UpdateArgs
      /\ Len(inbox') = Len(inbox) - 1
      /\ \A i \in 1..Len(inbox') : inbox'[i] = inbox[i + 1]
  BY HeadTailProperties, LenProperties, EmptySeq DEF Takes, Shared
<1>3. inbox' \in Seq(UpdateArgs)
  BY <1>2, HeadTailProperties
<1>4. inbox' = <<>> <=> Len(inbox) = 1
  BY <1>2, <1>3, EmptySeq, LenProperties
<1>5. /\ \A i \in 1..Len(inbox) : inbox[i] \in UpdateArgs
      /\ \A i \in 1..Len(inbox') : i + 1 \in 1..Len(inbox) /\ inbox'[i] = inbox[i + 1]
      /\ 1 \in 1..Len(inbox)
  BY <1>2, ElementOfSeq
<1>6. /\ posted \in UpdateArgs /\ posted.generation <= generation
      /\ jGeneration \in Nat /\ generation \in Nat
      /\ Head(inbox).generation \in Nat /\ Head(inbox).generation <= posted.generation
  BY <1>1, <1>2, <1>5 DEF Shared, UpdateArgs, Link, QueueInOrder
(* What the rest of the queue is still newer than.                         *)
<1>7. ASSUME jGeneration' \in {jGeneration, Head(inbox).generation},
             jGeneration' <= posted.generation
      PROVE  QueueInOrder'
  <2>1. ASSUME NEW i \in 1..Len(inbox')
        PROVE  /\ inbox'[i].generation <= posted.generation
               /\ inbox'[i].enabled =>
                    /\ jGeneration' < inbox'[i].generation
                    /\ \A h \in 1..(i - 1) : inbox'[h].generation < inbox'[i].generation
    <3>1. /\ i + 1 \in 1..Len(inbox) /\ inbox'[i] = inbox[i + 1]
          /\ 1 \in 1..((i + 1) - 1)
      BY <1>2, <1>5
    <3>2. /\ inbox[i + 1].generation <= posted.generation
          /\ inbox[i + 1].enabled =>
               /\ jGeneration < inbox[i + 1].generation
               /\ \A h \in 1..((i + 1) - 1) : inbox[h].generation < inbox[i + 1].generation
      BY <1>1, <3>1 DEF Link, QueueInOrder
    <3>3. \A h \in 1..(i - 1) : h + 1 \in 1..((i + 1) - 1) /\ inbox'[h] = inbox[h + 1]
      BY <1>2, <1>5
    <3>4. QED
      BY <1>2, <1>7, <3>1, <3>2, <3>3
  <2>2. QED
    BY <1>1, <1>7, <2>1 DEF QueueInOrder
<1>8. CASE /\ Head(inbox).generation < jGeneration
           /\ UNCHANGED <<jGeneration, jEnabled, calls, currentPort>>
  <2>1. QueueInOrder'
    BY <1>1, <1>7, <1>8 DEF Link, QueueInOrder
  <2>2. LastIsPosted'
    <3>1. Len(inbox) # 1
      BY <1>1, <1>2, <1>6, <1>8 DEF Link, LastIsPosted, QueueInOrder
    <3>2. posted = inbox[Len(inbox)]
      BY <1>1, <1>2 DEF Link, LastIsPosted
    <3>3. inbox'[Len(inbox')] = inbox[Len(inbox)]
      BY <1>2, <3>1
    <3>4. QED
      BY <1>1, <1>4, <3>1, <3>2, <3>3 DEF LastIsPosted
  <2>3. CallsAreForNow' /\ NothingAhead' /\ AgreeUnlessReporting'
    BY <1>1, <1>8 DEF Link, CallsAreForNow, NothingAhead, AgreeUnlessReporting, Reporting, Active
  <2>4. QED
    BY <1>1, <2>1, <2>2, <2>3 DEF Link
<1>9. CASE /\ Head(inbox).generation >= jGeneration
           /\ jGeneration' = Head(inbox).generation /\ jEnabled' = Head(inbox).enabled
           /\ currentPort' = 0
           /\ \/ calls' = <<>>
              \/ /\ jEnabled'
                 /\ calls' = <<[kind |-> "failed", generation |-> jGeneration', port |-> 0]>>
  <2>1. QueueInOrder'
    BY <1>6, <1>7, <1>9
  <2>2. LastIsPosted'
    <3>1. posted = inbox[Len(inbox)]
      BY <1>1, <1>2 DEF Link, LastIsPosted
    <3>2. CASE Len(inbox) = 1
      <4>1. posted = [generation |-> jGeneration', enabled |-> jEnabled']
        BY <1>2, <1>6, <1>9, <3>1, <3>2 DEF UpdateArgs
      <4>2. QED
        BY <1>1, <1>4, <3>2, <4>1 DEF LastIsPosted
    <3>3. CASE Len(inbox) # 1
      <4>1. inbox'[Len(inbox')] = inbox[Len(inbox)]
        BY <1>2, <3>3
      <4>2. QED
        BY <1>1, <1>4, <3>1, <3>3, <4>1 DEF LastIsPosted
    <3>4. QED
      BY <3>2, <3>3
  <2>3. jEnabled' => jGeneration < jGeneration'
    BY <1>1, <1>2, <1>5, <1>9 DEF Link, QueueInOrder
  <2>4. CallsAreForNow' /\ ~Reporting'
    <3>0. jGeneration' \in Nat
      BY <1>6, <1>9
    <3>1. jEnabled' => jGeneration' # 0
      BY <1>6, <2>3, <3>0
    <3>2. CASE calls' = <<>>
      <4>1. Len(calls') = 0
        BY <3>2, EmptySeq
      <4>2. QED
        BY <3>1, <3>2, <4>1 DEF CallsAreForNow, Reporting
    <3>3. CASE jEnabled' /\ calls' = <<[kind |-> "failed", generation |-> jGeneration', port |-> 0]>>
      <4>1. /\ Len(calls') = 1
            /\ calls'[1] = [kind |-> "failed", generation |-> jGeneration', port |-> 0]
        BY <3>3, Singles
      <4>2. \A i \in 1..Len(calls') :
              calls'[i].kind = "failed" /\ calls'[i].generation = jGeneration'
        BY <4>1
      <4>3. jEnabled'
        BY <3>3
      <4>4. QED
        BY <3>1, <4>2, <4>3 DEF CallsAreForNow, Reporting
    <3>4. QED
      BY <1>9, <3>2, <3>3
  <2>5. NothingAhead'
    <3>1. port # 0 => jGeneration' = generation
      <4>1. port # 0 => jGeneration = generation
        BY <1>1 DEF Link, NothingAhead
      <4>2. Head(inbox).generation <= generation
        BY <1>6 DEF UpdateArgs
      <4>3. port # 0 => Head(inbox).generation = generation
        BY <1>6, <1>9, <4>1, <4>2
      <4>4. QED
        BY <1>9, <4>3
    <3>2. \A w \in Workers : Active(w) => worker[w].generation <= jGeneration'
      BY <1>1, <1>6, <1>9 DEF Link, NothingAhead, Shared, Active, WorkerState
    <3>3. QED
      BY <1>1, <3>1, <3>2 DEF NothingAhead, Active
  <2>6. AgreeUnlessReporting'
    <3>1. ASSUME jGeneration' = generation, jEnabled'
          PROVE  port = 0
      BY <1>1, <1>6, <2>3, <3>1 DEF Link, NothingAhead
    <3>2. QED
      BY <1>1, <1>9, <3>1 DEF AgreeUnlessReporting
  <2>7. QED
    BY <1>1, <2>1, <2>2, <2>4, <2>5, <2>6 DEF Link
<1>10. QED
  BY <1>8, <1>9 DEF Takes

LEMMA ReportingLinks ==
  ASSUME SystemInv, Reports, UNCHANGED vars
  PROVE  Link'
<1>1. /\ UNCHANGED <<generation, port, wanted, posted, worker>>
      /\ UNCHANGED <<inbox, jGeneration, jEnabled>>
      /\ Link
  BY DEF SystemInv, vars, intent, Reports
<1>2. generation' <= MaxGeneration /\ QueueInOrder' /\ LastIsPosted' /\ NothingAhead'
  BY <1>1 DEF Link, QueueInOrder, LastIsPosted, NothingAhead, Active
<1>3. CASE UNCHANGED <<currentPort, calls>>
  BY <1>1, <1>2, <1>3 DEF Link, CallsAreForNow, AgreeUnlessReporting, Reporting
<1>4. CASE /\ calls = <<>> /\ jEnabled
           /\ \A i \in 1..Len(calls') : Truthful(calls'[i])
           /\ currentPort' = currentPort \/ Reporting'
  <2>1. CallsAreForNow'
    BY <1>1, <1>4 DEF Link, CallsAreForNow, Truthful
  <2>2. ~Reporting
    BY <1>4, EmptySeq DEF Reporting
  <2>3. AgreeUnlessReporting'
    BY <1>1, <1>4, <2>2 DEF Link, AgreeUnlessReporting
  <2>4. QED
    BY <1>2, <2>1, <2>3 DEF Link
<1>5. QED
  BY <1>3, <1>4 DEF Reports

-----------------------------------------------------------------------------
(* A refused post is what the status says until the next restart: nothing  *)
(* of an earlier generation may take its place.                            *)

RefusalShows == posted.generation = generation \/ lastError = "update"

(* What the next restart, or a call of the looper, does about it.          *)
LEMMA RestartShows ==
  ASSUME NEW want, RestartLocked(want)
  PROVE  RefusalShows'
BY DEF RestartLocked, RefusalShows, Posted

LEMMA GoStepShows ==
  ASSUME SystemInv, RefusalShows, GoStep
  PROVE  RefusalShows'
<1>1. CASE Request
  <2>1. ASSUME UNCHANGED <<posted, generation, lastError>>
        PROVE  RefusalShows'
    BY <2>1 DEF RefusalShows
  <2>2. QED
    BY <1>1, <2>1, RestartShows DEF Request, Start, Apply, Configure, intent, status
<1>2. ASSUME NEW w \in Workers, Finish(w)
      PROVE  RefusalShows'
  <2>1. generation' = generation
    BY <1>2 DEF Finish
  <2>2. CASE UNCHANGED <<lastError, posted>>
    BY <2>1, <2>2 DEF RefusalShows
  <2>3. CASE ForCurrent(w) /\ RecordResult(worker[w].outcome)
    <3>1. /\ Active(w) /\ worker[w].generation = generation
          /\ posted' = posted \/ posted' = Posted(generation, FALSE)
      BY <1>2, <2>3 DEF Finish, Active, ForCurrent, RecordResult
    <3>2. generation <= jGeneration /\ jGeneration <= posted.generation
      BY <3>1 DEF SystemInv, Link, NothingAhead, QueueInOrder
    <3>3. posted.generation = generation
      BY <3>2, SharedTypes DEF SystemInv, Shared, UpdateArgs
    <3>4. QED
      BY <2>1, <3>1, <3>3 DEF RefusalShows, Posted
  <2>4. QED
    BY <1>2, <2>2, <2>3 DEF Finish
<1>3. ASSUME NEW w \in Workers, CheckContext(w) \/ RecordAttempt(w) \/ BackoffEnds(w)
               \/ \E outcome \in Outcomes : RunReturns(w, outcome)
      PROVE  RefusalShows'
  BY <1>3 DEF CheckContext, RecordAttempt, BackoffEnds, RunReturns, controllerVars,
     intent, status, RefusalShows
<1>4. QED
  BY <1>1, <1>2, <1>3 DEF GoStep, WorkerStep

LEMMA NativeCallShows ==
  ASSUME SystemInv, RefusalShows, NativeCall
  PROVE  RefusalShows'
<1>1. UNCHANGED <<generation, posted>>
  BY DEF NativeCall, Discovered, DiscoveryFailed, intent, vars
<1>2. CASE lastError' = lastError
  BY <1>1, <1>2 DEF RefusalShows
<1>3. CASE DiscoveryFailed(Head(calls).generation)
  <2>1. Head(calls).generation = jGeneration /\ jGeneration \in 1..posted.generation
    BY HeadIsFirst DEF NativeCall, J!CallReturns
  <2>2. posted.generation = generation
    BY <1>3, <2>1, SharedTypes
       DEF DiscoveryFailed, FailureCounts, SystemInv, Shared, UpdateArgs
  <2>3. QED
    BY <1>1, <2>2 DEF RefusalShows
<1>4. QED
  BY <1>2, <1>3 DEF NativeCall, Discovered, vars, status

LEMMA SystemShows ==
  SystemInv /\ RefusalShows /\ [SystemNext]_systemVars => RefusalShows'
<1>1. UNCHANGED vars /\ RefusalShows => RefusalShows'
  BY DEF vars, intent, status, RefusalShows
<1>2. QED
  BY <1>1, GoStepShows, NativeCallShows DEF SystemNext, LooperStep, systemVars

-----------------------------------------------------------------------------
(* Every step of the joined system is one that each half may make alone.   *)

LEMMA LooperMoves ==
  ASSUME [SystemNext]_systemVars, SystemInv
  PROVE  [J!Next]_<<subscribing, J!vars>>
<1>1. CASE GoStep
  <2>1. UNCHANGED subscribing
    BY <1>1 DEF GoStep, looperVars
  <2>2. CASE inbox' = inbox
    BY <1>1, <2>2 DEF GoStep, looperVars, J!vars, J!lifetime, J!found, J!table, J!resolver
  <2>3. CASE J!PostUpdate
    BY <2>1, <2>3 DEF J!Next
  <2>4. QED
    BY <1>1, <2>2, <2>3, PostsAsAllowed
<1>2. CASE LooperStep
  BY <1>2 DEF LooperStep, J!Next
<1>3. CASE NativeCall
  BY <1>3 DEF NativeCall, J!Next
<1>4. CASE UNCHANGED systemVars
  BY <1>4 DEF systemVars, looperVars, J!vars, J!lifetime, J!found, J!table, J!resolver
<1>5. QED
  BY <1>1, <1>2, <1>3, <1>4 DEF SystemNext

LEMMA ControllerMoves ==
  ASSUME [SystemNext]_systemVars, SystemInv
  PROVE  [Next]_vars
<1>1. CASE GoStep
  BY <1>1 DEF GoStep, Next
<1>2. CASE LooperStep
  BY <1>2 DEF LooperStep
<1>3. CASE NativeCall
  BY <1>3, CallsAsAllowed DEF Next
<1>4. CASE UNCHANGED systemVars
  BY <1>4 DEF systemVars
<1>5. QED
  BY <1>1, <1>2, <1>3, <1>4 DEF SystemNext

LEMMA SameNext == [J!Next]_<<subscribing, J!vars>> => [JP!Next]_<<subscribing, JP!vars>>
<1>1. J!Next => JP!Next
  BY SameLooper, SamePostUpdate, SameCallReturns DEF J!Next, JP!Next
<1>2. UNCHANGED <<subscribing, J!vars>> => UNCHANGED <<subscribing, JP!vars>>
  BY Zenon DEF J!vars, JP!vars, J!lifetime, JP!lifetime, J!found, JP!found,
     J!table, JP!table, J!resolver, JP!resolver
<1>3. QED
  BY <1>1, <1>2

LEMMA SystemStep == SystemInv /\ [SystemNext]_systemVars => SystemInv'
<1> SUFFICES ASSUME SystemInv, [SystemNext]_systemVars
             PROVE  SystemInv'
  OBVIOUS
<1>1. Shared
  BY SharedTypes DEF SystemInv
<1>2. IInv'
  BY ControllerMoves, NextIInv DEF SystemInv
<1>3. JP!IInv'
  BY LooperMoves, SameNext, LooperConstants, JP!StepKeeps DEF SystemInv
<1>4. ASSUME LooperStep
      PROVE  Link'
  BY <1>1, <1>4, LooperSteps, TakingLinks, ReportingLinks DEF LooperStep
<1>5. ASSUME UNCHANGED systemVars
      PROVE  Link'
  <2>1. UNCHANGED vars /\ Reports
    BY <1>5 DEF systemVars, looperVars, Reports
  <2>2. QED
    BY <2>1, ReportingLinks
<1>6. Link'
  BY <1>4, <1>5, GoStepLinks, NativeCallLinks DEF SystemNext
<1>7. QED
  BY <1>2, <1>3, <1>6 DEF SystemInv

THEOREM SystemInductive == SystemSpec => []SystemInv
<1>1. QED
  BY SystemInitially, SystemStep, PTL DEF SystemSpec

(* Joined, the controller does nothing that it does not do alone: the      *)
(* looper, through the bridge, calls it only as Callback allows the        *)
(* platform to, for generations that were posted.  What ControllerProofs   *)
(* proves of Spec holds of the joined system.                              *)
THEOREM ControllerInSystem == SystemSpec => Spec
<1>1. SystemInit => Init
  BY DEF SystemInit
<1>2. SystemInv /\ [SystemNext]_systemVars => [Next]_vars
  BY ControllerMoves
<1>3. QED
  BY <1>1, <1>2, SystemInductive, PTL DEF SystemSpec, Spec

(* Joined, the looper does nothing that it does not do alone: the          *)
(* controller posts only as PostUpdate allows its callers to, each         *)
(* generation once and at most once more to stop it, however its requests  *)
(* and its runs interleave.  What LocalAdbDiscoveryProofs proves holds.    *)
THEOREM LooperInSystem == SystemSpec => J!Spec
<1>1. SystemInit => J!Init
  BY DEF SystemInit
<1>2. SystemInv /\ [SystemNext]_systemVars => [J!Next]_<<subscribing, J!vars>>
  BY LooperMoves
<1>3. QED
  BY <1>1, <1>2, SystemInductive, PTL DEF SystemSpec, J!Spec

(* Both halves on one wanted generation and no report on its way: they     *)
(* know the same port.                                                     *)
THEOREM EndpointAgreementHolds == SystemSpec => []EndpointAgreement
<1>1. SystemInv => EndpointAgreement
  <2> SUFFICES ASSUME SystemInv, jGeneration = generation, wanted, jEnabled, calls = <<>>
               PROVE  port = currentPort
    BY DEF EndpointAgreement
  <2>1. ~Reporting
    BY EmptySeq DEF Reporting
  <2>2. QED
    BY <2>1 DEF SystemInv, Link, AgreeUnlessReporting
<1>2. QED
  BY <1>1, SystemInductive, PTL

(* However long a report was delayed, the controller takes an endpoint     *)
(* only while the looper works for the same generation.                    *)
THEOREM EndpointsAreFreshHolds == SystemSpec => EndpointsAreFresh
<1>1. ASSUME SystemInv, [SystemNext]_systemVars
      PROVE  [port' # port /\ port' # 0 => jGeneration = generation /\ jEnabled]_systemVars
  <2> SUFFICES ASSUME port' # port, port' # 0
               PROVE  jGeneration = generation /\ jEnabled
    OBVIOUS
  <2>1. CASE GoStep
    BY <1>1, <2>1, ControllerSteps DEF GoStep, SystemInv, Renews, Continues
  <2>2. CASE NativeCall
    <3>1. calls # <<>>
      BY <2>2 DEF NativeCall, J!CallReturns
    <3>2. Discovered(Head(calls).generation, Head(calls).port)
      BY <2>2 DEF NativeCall, DiscoveryFailed, vars, intent
    <3>3. QED
      BY <1>1, <3>1, <3>2, HeadIsFirst DEF Discovered, Ignores
  <2>3. CASE LooperStep \/ UNCHANGED systemVars
    BY <2>3 DEF LooperStep, systemVars, vars, intent
  <2>4. QED
    BY <1>1, <2>1, <2>2, <2>3 DEF SystemNext
<1>2. QED
  BY <1>1, SystemInductive, PTL DEF SystemSpec, EndpointsAreFresh

(* No intent is lost between the halves: with an empty queue the platform  *)
(* searches exactly if the controller wants the action, or the status says *)
(* what was refused.                                                       *)
THEOREM SearchAgreementHolds == SystemSpec => []SearchAgreement
<1>1. SystemInit => RefusalShows
  BY DEF SystemInit, Init, RefusalShows, Posted
<1>2. SystemInv /\ RefusalShows => SearchAgreement
  <2> SUFFICES ASSUME SystemInv, RefusalShows, inbox = <<>>, lastError \notin {"stop", "update"}
               PROVE  jGeneration = generation /\ jEnabled = wanted
    BY DEF SearchAgreement
  <2>1. posted = [generation |-> jGeneration, enabled |-> jEnabled]
    BY DEF SystemInv, Link, LastIsPosted
  <2>2. posted.generation = generation
    BY DEF RefusalShows
  <2>3. posted.enabled = wanted
    BY <2>2 DEF SystemInv, IInv, SubscriptionFollowsIntent
  <2>4. QED
    BY <2>1, <2>2, <2>3
<1>3. QED
  BY <1>1, <1>2, SystemShows, SystemInductive, PTL DEF SystemSpec

(* The joined system keeps the operator's contract: what ImplementsContract *)
(* says of the controller among any callbacks holds of it here.            *)
THEOREM SystemImplementsContract == SystemSpec => ContractSpec
BY ControllerInSystem, ImplementsContract

=============================================================================
