-------------------------- MODULE ControllerProofs --------------------------
(***************************************************************************)
(* The controller's safety properties for every set of keys, ports and     *)
(* goroutines and every bound.  None of them is inductive alone: a stale   *)
(* run is harmless only because it keeps the slot, carries its generation  *)
(* and is already cancelled, so all are proved together as IInv.           *)
(***************************************************************************)
EXTENDS Controller, TLAPS

-----------------------------------------------------------------------------
(* The strengthening.                                                      *)

SlotIsActive == cancel # NoWorker => Active(cancel)

(* A run carries a real port and a generation that was once current, and   *)
(* backs off only with a try left.                                         *)
ActiveShape ==
  \A w \in Workers :
    /\ Active(w) => worker[w].port # 0
    /\ Active(w) => worker[w].generation # 0 /\ worker[w].generation <= generation
    /\ worker[w].pc = "backoff" => worker[w].attempt # MaxTries

IntentShape ==
  /\ posted.generation <= generation
  /\ wanted => generation # 0
  /\ lastError = "stop" => ~wanted

(* Only a run for the current endpoint counts against it, and each of its  *)
(* tries counts once.                                                      *)
RetryShape ==
  \A w \in Workers :
    Active(w) =>
      IF ForCurrent(w)
      THEN /\ endpointRuns <= worker[w].attempt
           /\ worker[w].pc \in {"check", "record"} => endpointRuns < worker[w].attempt
      ELSE endpointRuns = 0

IInv ==
  /\ TypeOK
  /\ OneAction
  /\ SlotIsActive
  /\ ActiveShape
  /\ IntentShape
  /\ RetryShape
  /\ UncancelledIsCurrent
  /\ RunningIsLive
  /\ SuccessStops
  /\ SubscriptionFollowsIntent
  /\ RetriesBounded

-----------------------------------------------------------------------------
(* New, and what a restarted process finds.                                *)

Fresh ==
  /\ disk \in Config \cup {Missing, Corrupt}
  /\ loadFailed \in BOOLEAN /\ LoadFails(disk, loadFailed)
  /\ config = Loaded(disk, loadFailed)
  /\ started = FALSE /\ wanted = FALSE
  /\ port = 0 /\ attemptedPort = 0
  /\ cancel = NoWorker /\ worker = NoWorkers
  /\ generation = 0 /\ attempts = 0 /\ endpointRuns = 0
  /\ state = FreshState(loadFailed) /\ lastError = FreshError(loadFailed)
  /\ result = "none"
  /\ posted = Posted(0, FALSE)
  /\ boots \in Nat

LEMMA FreshIInv == Fresh => IInv
<1> SUFFICES ASSUME Fresh PROVE IInv
  OBVIOUS
<1>1. Loaded(disk, loadFailed) \in Config
  BY DEF Fresh, LoadFails, Loaded, EmptyConfig, Config
<1>2. IdleWorker \in WorkerState
  BY DEF IdleWorker, WorkerState, Ports, Outcomes, MaxTries
<1>3. TypeOK
  BY <1>1, <1>2 DEF Fresh, TypeOK, FreshState, FreshError, NoWorkers, Posted,
    Ports, LoadFails, Outcomes
<1>4. \A w \in Workers : ~Active(w) /\ worker[w].pc # "backoff"
  BY DEF Fresh, Active, NoWorkers, IdleWorker
<1>5. state # "running" /\ state # "succeeded" /\ lastError # "stop"
  BY DEF Fresh, FreshState, FreshError
<1>6. /\ cancel = NoWorker /\ generation = 0
      /\ wanted = FALSE /\ endpointRuns = 0
  BY DEF Fresh
<1>7. posted.generation = 0 /\ posted.enabled = FALSE
  BY DEF Fresh, Posted
<1>8. OneAction /\ SlotIsActive /\ ActiveShape /\ RetryShape
  BY <1>4, <1>6 DEF OneAction, SlotIsActive, ActiveShape, RetryShape
<1>9. UncancelledIsCurrent /\ RunningIsLive /\ SuccessStops
  BY <1>4, <1>5 DEF UncancelledIsCurrent, RunningIsLive, SuccessStops
<1>10. IntentShape
  BY <1>5, <1>6, <1>7 DEF IntentShape
<1>11. SubscriptionFollowsIntent
  BY <1>6, <1>7 DEF SubscriptionFollowsIntent
<1>12. RetriesBounded
  BY <1>6 DEF RetriesBounded, MaxTries
<1>13. QED
  BY <1>3, <1>8, <1>9, <1>10, <1>11, <1>12 DEF IInv

LEMMA InitIInv == Init => IInv
<1>1. Init => Fresh
  BY DEF Init, Fresh
<1>2. QED
  BY <1>1, FreshIInv

LEMMA RestartedIInv ==
  ASSUME IInv, ProcessRestart PROVE IInv'
<1>1. Fresh'
  BY DEF IInv, TypeOK, ProcessRestart, Fresh
<1>2. Fresh' => IInv'
  BY FreshIInv, PTL
<1>3. QED
  BY <1>1, <1>2

-----------------------------------------------------------------------------
(* Cancelling: every run is cancelled and nothing else about it changes.   *)

LEMMA CancelActiveFacts ==
  ASSUME IInv
  PROVE  /\ CancelActive \in [Workers -> WorkerState]
         /\ \A w \in Workers :
              /\ CancelActive[w].pc = worker[w].pc
              /\ CancelActive[w].port = worker[w].port
              /\ CancelActive[w].generation = worker[w].generation
              /\ CancelActive[w].attempt = worker[w].attempt
              /\ Active(w) => CancelActive[w].cancelled
<1>1. worker \in [Workers -> WorkerState] /\ cancel \in Workers \cup {NoWorker}
  BY DEF IInv, TypeOK
<1>2. CASE cancel = NoWorker
  <2>1. \A w \in Workers : ~Active(w)
    BY <1>2, WorkersAssumption DEF IInv, OneAction
  <2>2. QED
    BY <1>1, <1>2, <2>1 DEF CancelActive
<1>3. CASE cancel # NoWorker
  <2>1. CancelActive = [worker EXCEPT ![cancel].cancelled = TRUE]
    BY <1>3 DEF CancelActive
  <2>2. \A w \in Workers : Active(w) => w = cancel
    BY DEF IInv, OneAction
  <2>3. QED
    BY <1>1, <1>3, <2>1, <2>2 DEF WorkerState
<1>4. QED
  BY <1>2, <1>3

-----------------------------------------------------------------------------
(* restartLocked, under any assignment to the file and the configuration.  *)

LEMMA RestartStep ==
  ASSUME IInv, NEW want \in BOOLEAN, RestartLocked(want), config' \in Config,
         disk' \in Config \cup {Missing, Corrupt},
         loadFailed' \in BOOLEAN, started' \in BOOLEAN
  PROVE  IInv'
<1>1. /\ CancelActive \in [Workers -> WorkerState]
      /\ worker' = CancelActive
  BY CancelActiveFacts DEF RestartLocked
<1>2. TypeOK'
  BY <1>1 DEF IInv, TypeOK, RestartLocked, Posted, Ports, Outcomes
<1>3. \A w \in Workers : /\ worker'[w].pc = worker[w].pc
                         /\ worker'[w].port = worker[w].port
                         /\ worker'[w].generation = worker[w].generation
                         /\ worker'[w].attempt = worker[w].attempt
                         /\ Active(w)' => worker'[w].cancelled
  BY <1>1, CancelActiveFacts DEF Active
<1>4. cancel' = cancel /\ generation' = generation + 1 /\ generation \in Nat
      /\ endpointRuns' = 0 /\ wanted' = want
  BY DEF RestartLocked, IInv, TypeOK
<1>5. \A w \in Workers : worker[w] \in WorkerState
  BY DEF IInv, TypeOK
<1>6. OneAction' /\ SlotIsActive'
  BY <1>3, <1>4 DEF IInv, TypeOK, OneAction, SlotIsActive, Active
<1>7. ActiveShape'
  BY <1>3, <1>4, <1>5 DEF IInv, ActiveShape, Active, WorkerState
<1>8. RetryShape'
  <2>1. \A w \in Workers : worker'[w].attempt \in 1..MaxTries
    BY <1>3, <1>5 DEF WorkerState
  <2>2. QED
    BY <1>4, <2>1 DEF RetryShape, MaxTries
<1>9. state' # "running" /\ state' # "succeeded" /\ lastError' # "stop"
  BY DEF RestartLocked
<1>10. UncancelledIsCurrent' /\ RunningIsLive' /\ SuccessStops'
  BY <1>3, <1>9 DEF UncancelledIsCurrent, RunningIsLive, SuccessStops
<1>11. posted' = Posted(generation + 1, want) \/ posted' = posted
  BY DEF RestartLocked
<1>12. posted.generation \in Nat /\ posted.generation <= generation
  BY DEF IInv, TypeOK, IntentShape
<1>13. IntentShape' /\ SubscriptionFollowsIntent'
  BY <1>4, <1>9, <1>11, <1>12 DEF IntentShape, SubscriptionFollowsIntent, Posted
<1>14. RetriesBounded'
  BY <1>4 DEF RetriesBounded, MaxTries
<1>15. QED
  BY <1>2, <1>6, <1>7, <1>8, <1>10, <1>13, <1>14 DEF IInv

-----------------------------------------------------------------------------
(* The methods that leave intent and run alone: Start after a failed load, *)
(* Configure after a failed directory sync, and stuttering.                *)

LEMMA StoredStep ==
  ASSUME IInv,
         UNCHANGED <<config, loadFailed, intent, status, attempts, cancel,
                     posted, worker, endpointRuns, boots>>,
         disk' \in Config \cup {Missing, Corrupt}, started' \in BOOLEAN
  PROVE  IInv'
<1> USE DEF intent, status
<1>1. TypeOK'
  BY DEF IInv, TypeOK
<1>2. \A w \in Workers : /\ Active(w)' = Active(w)
                         /\ ForCurrent(w)' = ForCurrent(w)
  BY DEF Active, ForCurrent
<1>3. OneAction' /\ SlotIsActive' /\ ActiveShape' /\ RetryShape'
  BY <1>2 DEF IInv, OneAction, SlotIsActive, ActiveShape, RetryShape, Active
<1>4. UncancelledIsCurrent' /\ RunningIsLive' /\ SuccessStops'
  BY <1>2 DEF IInv, UncancelledIsCurrent, RunningIsLive, SuccessStops
<1>5. IntentShape' /\ SubscriptionFollowsIntent' /\ RetriesBounded'
  BY DEF IInv, IntentShape, SubscriptionFollowsIntent, RetriesBounded
<1>6. QED
  BY <1>1, <1>3, <1>4, <1>5 DEF IInv

LEMMA StartStep ==
  ASSUME IInv, Start PROVE IInv'
<1>1. CASE loadFailed
  BY <1>1, StoredStep DEF Start, IInv, TypeOK
<1>2. CASE ~loadFailed
  <2>1. config.enabled \in BOOLEAN
    BY DEF IInv, TypeOK, Config
  <2>2. /\ RestartLocked(config.enabled)
        /\ config' \in Config /\ disk' \in Config \cup {Missing, Corrupt}
        /\ loadFailed' \in BOOLEAN /\ started' \in BOOLEAN
    BY <1>2 DEF Start, IInv, TypeOK
  <2>3. QED
    BY <2>1, <2>2, RestartStep
<1>3. QED
  BY <1>1, <1>2

LEMMA ConfigureStep ==
  ASSUME IInv, NEW key \in RequestKeys, NEW enabled \in BOOLEAN,
         NEW synced \in BOOLEAN, Configure(key, enabled, synced)
  PROVE  IInv'
<1> DEFINE next == [enabled |-> enabled,
                    key     |-> IF key = NoKey THEN config.key ELSE key]
<1>1. disk' = next /\ Valid(next) /\ started' = started /\ started \in BOOLEAN
  BY DEF Configure, SaveConfig, IInv, TypeOK
<1>2. next \in Config
  BY <1>1 DEF Valid, Config
<1>3. CASE ~synced
  BY <1>1, <1>2, <1>3, StoredStep DEF Configure
<1>4. CASE synced
  <2>1. (enabled /\ started) \in BOOLEAN
    OBVIOUS
  <2>2. /\ RestartLocked(enabled /\ started)
        /\ config' = next /\ loadFailed' = FALSE
    BY <1>4 DEF Configure
  <2>3. QED
    BY <1>1, <1>2, <2>1, <2>2, RestartStep
<1>5. QED
  BY <1>3, <1>4

LEMMA ApplyStep ==
  ASSUME IInv, Apply PROVE IInv'
<1>1. /\ RestartLocked(TRUE) /\ TRUE \in BOOLEAN
      /\ config' \in Config /\ disk' \in Config \cup {Missing, Corrupt}
      /\ loadFailed' \in BOOLEAN /\ started' \in BOOLEAN
  BY DEF Apply, stored, IInv, TypeOK
<1>2. QED
  BY <1>1, RestartStep

-----------------------------------------------------------------------------
(* Steps of a goroutine that change its own record only.                   *)

LEMMA InnerStep ==
  ASSUME IInv, NEW w \in Workers, Active(w), UNCHANGED controllerVars,
         NEW r \in WorkerState, worker' = [worker EXCEPT ![w] = r],
         r.pc # "idle",
         r.generation = worker[w].generation, r.port = worker[w].port,
         r.key = worker[w].key, r.cancelled = worker[w].cancelled,
         r.pc = "backoff" => r.attempt # MaxTries,
         worker[w].attempt <= r.attempt,
         r.pc \in {"check", "record"} =>
           worker[w].pc \in {"check", "record"} \/ worker[w].attempt < r.attempt
  PROVE  IInv'
<1> USE DEF controllerVars, intent, status, stored
<1>1. worker \in [Workers -> WorkerState] /\ endpointRuns \in Nat
  BY DEF IInv, TypeOK
<1>2. /\ worker'[w] = r
      /\ \A v \in Workers \ {w} : worker'[v] = worker[v]
  BY <1>1
<1>3. \A v \in Workers : /\ Active(v)' = Active(v)
                         /\ ForCurrent(v)' = ForCurrent(v)
                         /\ worker'[v].cancelled = worker[v].cancelled
                         /\ worker'[v].key = worker[v].key
                         /\ worker'[v].port = worker[v].port
                         /\ worker'[v].generation = worker[v].generation
  BY <1>2 DEF Active, ForCurrent
<1>4. TypeOK'
  BY <1>1 DEF IInv, TypeOK
<1>5. OneAction' /\ SlotIsActive'
  BY <1>3 DEF IInv, TypeOK, OneAction, SlotIsActive, Active
<1>6. ActiveShape'
  BY <1>2, <1>3 DEF IInv, ActiveShape
<1>7. RetryShape'
  <2>1. ASSUME NEW v \in Workers, Active(v)'
        PROVE  IF ForCurrent(v)'
               THEN /\ endpointRuns' <= worker'[v].attempt
                    /\ worker'[v].pc \in {"check", "record"} =>
                         endpointRuns' < worker'[v].attempt
               ELSE endpointRuns' = 0
    <3>1. CASE v # w
      BY <1>2, <1>3, <2>1, <3>1 DEF IInv, RetryShape
    <3>2. CASE v = w
      <4>1. worker[w].attempt \in Nat /\ r.attempt \in Nat
        BY <1>1 DEF WorkerState, MaxTries
      <4>2. CASE ~ForCurrent(w)
        BY <1>3, <3>2, <4>2 DEF IInv, RetryShape
      <4>3. CASE ForCurrent(w)
        <5>1. /\ endpointRuns <= worker[w].attempt
              /\ worker[w].pc \in {"check", "record"} =>
                   endpointRuns < worker[w].attempt
          BY <4>3 DEF IInv, RetryShape
        <5>2. QED
          BY <1>1, <1>2, <1>3, <3>2, <4>1, <4>3, <5>1
      <4>4. QED
        BY <4>2, <4>3
    <3>3. QED
      BY <3>1, <3>2
  <2>2. QED
    BY <2>1 DEF RetryShape
<1>8. UncancelledIsCurrent' /\ RunningIsLive' /\ SuccessStops'
  BY <1>3 DEF IInv, UncancelledIsCurrent, RunningIsLive, SuccessStops
<1>9. IntentShape' /\ SubscriptionFollowsIntent' /\ RetriesBounded'
  BY DEF IInv, IntentShape, SubscriptionFollowsIntent, RetriesBounded
<1>10. QED
  BY <1>4, <1>5, <1>6, <1>7, <1>8, <1>9 DEF IInv

(* The steps a goroutine can take alone: on to another point, to its end   *)
(* with an outcome, or back to the head of the loop with one more attempt. *)

LEMMA MoveStep ==
  ASSUME IInv, NEW w \in Workers, Active(w), UNCHANGED controllerVars,
         NEW pc \in {"record", "backoff"},
         worker' = [worker EXCEPT ![w] = [worker[w] EXCEPT !.pc = pc]],
         pc = "backoff" => worker[w].attempt # MaxTries,
         pc = "record" => worker[w].pc = "check"
  PROVE  IInv'
<1> DEFINE r == [worker[w] EXCEPT !.pc = pc]
<1>1. worker[w] \in WorkerState
  BY DEF IInv, TypeOK
<1>2. r \in WorkerState
  BY <1>1 DEF WorkerState
<1>3. r.pc = pc /\ r.attempt = worker[w].attempt /\ r.attempt \in Nat
  BY <1>1 DEF WorkerState, MaxTries
<1>4. /\ r.generation = worker[w].generation /\ r.port = worker[w].port
      /\ r.key = worker[w].key /\ r.cancelled = worker[w].cancelled
  BY <1>1 DEF WorkerState
<1>5. worker' = [worker EXCEPT ![w] = r]
  OBVIOUS
<1> HIDE DEF r
<1>6. /\ r.pc # "idle" /\ worker[w].attempt <= r.attempt
      /\ r.pc = "backoff" => r.attempt # MaxTries
      /\ r.pc \in {"check", "record"} => worker[w].pc \in {"check", "record"}
  BY <1>3
<1>7. QED
  BY <1>2, <1>4, <1>5, <1>6, InnerStep

LEMMA EndStep ==
  ASSUME IInv, NEW w \in Workers, Active(w), UNCHANGED controllerVars,
         NEW o \in Outcomes,
         worker' = [worker EXCEPT ![w] = [worker[w] EXCEPT !.pc = "finish",
                                                           !.outcome = o]]
  PROVE  IInv'
<1> DEFINE r == [worker[w] EXCEPT !.pc = "finish", !.outcome = o]
<1>1. worker[w] \in WorkerState
  BY DEF IInv, TypeOK
<1>2. r \in WorkerState
  BY <1>1 DEF WorkerState
<1>3. r.pc = "finish" /\ r.attempt = worker[w].attempt /\ r.attempt \in Nat
  BY <1>1 DEF WorkerState, MaxTries
<1>4. /\ r.generation = worker[w].generation /\ r.port = worker[w].port
      /\ r.key = worker[w].key /\ r.cancelled = worker[w].cancelled
  BY <1>1 DEF WorkerState
<1>5. worker' = [worker EXCEPT ![w] = r]
  OBVIOUS
<1> HIDE DEF r
<1>6. /\ r.pc # "idle" /\ worker[w].attempt <= r.attempt
      /\ r.pc # "backoff" /\ r.pc \notin {"check", "record"}
  BY <1>3
<1>7. QED
  BY <1>2, <1>4, <1>5, <1>6, InnerStep

LEMMA AgainStep ==
  ASSUME IInv, NEW w \in Workers, Active(w), UNCHANGED controllerVars,
         worker[w].attempt # MaxTries,
         worker' = [worker EXCEPT ![w] = [worker[w] EXCEPT !.pc = "check",
                                                           !.attempt = @ + 1]]
  PROVE  IInv'
<1> DEFINE n == worker[w].attempt + 1
           r == [worker[w] EXCEPT !.pc = "check", !.attempt = n]
<1>1. worker[w] \in WorkerState /\ worker[w].attempt \in 1..2
  BY DEF IInv, TypeOK, WorkerState, MaxTries
<1>2. r \in WorkerState
  <2>1. n \in 1..MaxTries
    BY <1>1 DEF MaxTries
  <2> HIDE DEF n
  <2>2. QED
    BY <1>1, <2>1 DEF WorkerState
<1>3. r.pc = "check" /\ r.attempt = worker[w].attempt + 1
  BY <1>1 DEF WorkerState
<1>4. /\ r.generation = worker[w].generation /\ r.port = worker[w].port
      /\ r.key = worker[w].key /\ r.cancelled = worker[w].cancelled
  BY <1>1 DEF WorkerState
<1>5. worker' = [worker EXCEPT ![w] = r]
  OBVIOUS
<1> HIDE DEF r
<1>6. /\ r.pc # "idle" /\ worker[w].attempt <= r.attempt
      /\ r.pc # "backoff" /\ worker[w].attempt < r.attempt
  BY <1>1, <1>3
<1>7. QED
  BY <1>2, <1>4, <1>5, <1>6, InnerStep

LEMMA CheckContextStep ==
  ASSUME IInv, NEW w \in Workers, CheckContext(w) PROVE IInv'
<1>1. worker[w].pc = "check" /\ UNCHANGED controllerVars /\ Active(w)
  BY DEF CheckContext, Active
<1>2. CASE worker[w].cancelled
  <2>1. worker' = [worker EXCEPT ![w] = [worker[w] EXCEPT !.pc = "finish",
                                                          !.outcome = "cancelled"]]
    BY <1>2 DEF CheckContext, IInv, TypeOK
  <2>2. QED
    BY <1>1, <2>1, EndStep DEF Outcomes
<1>3. CASE ~worker[w].cancelled
  <2>1. worker' = [worker EXCEPT ![w] = [worker[w] EXCEPT !.pc = "record"]]
    BY <1>3 DEF CheckContext, IInv, TypeOK
  <2>2. QED
    BY <1>1, <2>1, MoveStep
<1>4. QED
  BY <1>2, <1>3

LEMMA RunReturnsStep ==
  ASSUME IInv, NEW w \in Workers, NEW outcome \in Outcomes, RunReturns(w, outcome)
  PROVE  IInv'
<1>1. UNCHANGED controllerVars /\ Active(w)
  BY DEF RunReturns, Active
<1>2. CASE Retries(w, outcome)
  <2>1. worker' = [worker EXCEPT ![w] = [worker[w] EXCEPT !.pc = "backoff"]]
    BY <1>2 DEF RunReturns, IInv, TypeOK
  <2>2. worker[w].attempt # MaxTries
    BY <1>2 DEF Retries
  <2>3. QED
    BY <1>1, <2>1, <2>2, MoveStep
<1>3. CASE ~Retries(w, outcome)
  <2>1. worker' = [worker EXCEPT ![w] = [worker[w] EXCEPT !.pc = "finish",
                                                          !.outcome = outcome]]
    BY <1>3 DEF RunReturns, IInv, TypeOK
  <2>2. QED
    BY <1>1, <2>1, EndStep
<1>4. QED
  BY <1>2, <1>3

LEMMA BackoffEndsStep ==
  ASSUME IInv, NEW w \in Workers, BackoffEnds(w) PROVE IInv'
<1>1. worker[w].pc = "backoff" /\ UNCHANGED controllerVars /\ Active(w)
  BY DEF BackoffEnds, Active
<1>2. worker[w].attempt # MaxTries
  BY <1>1 DEF IInv, ActiveShape
<1>3. CASE worker' = [worker EXCEPT ![w].pc = "finish", ![w].outcome = "cancelled"]
  <2>1. worker' = [worker EXCEPT ![w] = [worker[w] EXCEPT !.pc = "finish",
                                                          !.outcome = "cancelled"]]
    BY <1>3 DEF IInv, TypeOK
  <2>2. QED
    BY <1>1, <2>1, EndStep DEF Outcomes
<1>4. CASE worker' = [worker EXCEPT ![w].pc = "check", ![w].attempt = @ + 1]
  <2>1. worker' = [worker EXCEPT ![w] = [worker[w] EXCEPT !.pc = "check",
                                                          !.attempt = @ + 1]]
    BY <1>4 DEF IInv, TypeOK
  <2>2. QED
    BY <1>1, <1>2, <2>1, AgainStep
<1>5. QED
  BY <1>3, <1>4 DEF BackoffEnds

LEMMA RecordAttemptStep ==
  ASSUME IInv, NEW w \in Workers, RecordAttempt(w) PROVE IInv'
<1> USE DEF intent, status, stored
<1> DEFINE r == [worker[w] EXCEPT !.pc = "run"]
<1>1. /\ worker \in [Workers -> WorkerState] /\ worker[w] \in WorkerState
      /\ endpointRuns \in Nat /\ attempts \in Nat
  BY DEF IInv, TypeOK
<1>2. worker[w].pc = "record" /\ worker' = [worker EXCEPT ![w] = r]
  BY <1>1 DEF RecordAttempt
<1>3. r \in WorkerState
  BY <1>1 DEF WorkerState
<1>4. /\ r.pc = "run" /\ r.attempt = worker[w].attempt /\ r.attempt \in 1..MaxTries
      /\ r.generation = worker[w].generation /\ r.port = worker[w].port
      /\ r.key = worker[w].key /\ r.cancelled = worker[w].cancelled
  BY <1>1 DEF WorkerState
<1> HIDE DEF r
<1>5. /\ worker'[w] = r
      /\ \A v \in Workers \ {w} : worker'[v] = worker[v]
  BY <1>1, <1>2
<1>6. UNCHANGED <<stored, intent, status, cancel, posted, boots>>
  BY DEF RecordAttempt
<1>7. \A v \in Workers : /\ Active(v)' = Active(v)
                         /\ ForCurrent(v)' = ForCurrent(v)
                         /\ worker'[v].cancelled = worker[v].cancelled
                         /\ worker'[v].key = worker[v].key
                         /\ worker'[v].port = worker[v].port
                         /\ worker'[v].generation = worker[v].generation
  BY <1>2, <1>4, <1>5, <1>6 DEF Active, ForCurrent
<1>8. \A v \in Workers : Active(v) => v = w
  BY <1>2 DEF IInv, OneAction, Active
<1>9. \/ ForCurrent(w) /\ attempts' = attempts + 1 /\ endpointRuns' = endpointRuns + 1
      \/ ~ForCurrent(w) /\ attempts' = attempts /\ endpointRuns' = endpointRuns
  BY DEF RecordAttempt
<1>10. IF ForCurrent(w) THEN endpointRuns < worker[w].attempt ELSE endpointRuns = 0
  BY <1>2 DEF IInv, RetryShape, Active
<1>11. TypeOK'
  BY <1>1, <1>2, <1>3, <1>6, <1>9 DEF IInv, TypeOK
<1>12. OneAction' /\ SlotIsActive'
  BY <1>6, <1>7 DEF IInv, TypeOK, OneAction, SlotIsActive, Active
<1>13. ActiveShape'
  BY <1>4, <1>5, <1>6, <1>7 DEF IInv, ActiveShape
<1>14. IF ForCurrent(w) THEN endpointRuns' <= r.attempt ELSE endpointRuns' = 0
  BY <1>1, <1>4, <1>9, <1>10 DEF MaxTries
<1>15. RetryShape'
  BY <1>4, <1>5, <1>7, <1>8, <1>14 DEF RetryShape
<1>16. UncancelledIsCurrent' /\ RunningIsLive' /\ SuccessStops'
  BY <1>6, <1>7 DEF IInv, UncancelledIsCurrent, RunningIsLive, SuccessStops
<1>17. IntentShape' /\ SubscriptionFollowsIntent'
  BY <1>6 DEF IInv, IntentShape, SubscriptionFollowsIntent
<1>18. RetriesBounded'
  BY <1>1, <1>4, <1>9, <1>14 DEF RetriesBounded, MaxTries
<1>19. QED
  BY <1>11, <1>12, <1>13, <1>15, <1>16, <1>17, <1>18 DEF IInv

-----------------------------------------------------------------------------
(* launchLocked when it launches: no goroutine is left, and the endpoint   *)
(* has not been tried.                                                     *)

LEMMA LaunchStep ==
  ASSUME IInv, NEW p \in Ports, NEW w \in Workers,
         NEW ws \in [Workers -> WorkerState],
         \A v \in Workers : ws[v].pc = "idle",
         p # 0, wanted,
         worker' = [ws EXCEPT ![w] = [IdleWorker EXCEPT !.pc = "check",
                                                        !.generation = generation,
                                                        !.port = p,
                                                        !.key = config.key]],
         cancel' = w, port' = p, attemptedPort' = p, state' = "running",
         endpointRuns' = 0,
         UNCHANGED <<stored, wanted, generation, attempts, lastError, result,
                     posted, boots>>
  PROVE  IInv'
<1> USE DEF stored
<1> DEFINE r == [IdleWorker EXCEPT !.pc = "check", !.generation = generation,
                                   !.port = p, !.key = config.key]
<1>1. generation \in Nat /\ generation # 0 /\ config.key \in Keys \cup {NoKey}
  BY DEF IInv, TypeOK, IntentShape, Config
<1>2. r \in WorkerState
  <2>1. IdleWorker \in WorkerState
    BY DEF IdleWorker, WorkerState, Ports, Outcomes, MaxTries
  <2>2. \A x \in WorkerState, n \in Nat, k \in Keys \cup {NoKey} :
          [x EXCEPT !.pc = "check", !.generation = n, !.port = p, !.key = k]
            \in WorkerState
    BY DEF WorkerState
  <2>3. QED
    BY <1>1, <2>1, <2>2
<1>3. /\ r.pc = "check" /\ r.generation = generation /\ r.port = p
      /\ r.key = config.key /\ r.attempt = 1 /\ r.cancelled = FALSE
  BY DEF IdleWorker
<1> HIDE DEF r
<1>4. /\ worker' = [ws EXCEPT ![w] = r]
      /\ worker'[w] = r
      /\ \A v \in Workers \ {w} : worker'[v].pc = "idle"
  BY DEF r
<1>5. \A v \in Workers : Active(v)' <=> v = w
  BY <1>3, <1>4 DEF Active
<1>6. ForCurrent(w)'
  BY <1>3, <1>4 DEF ForCurrent
<1>7. TypeOK'
  BY <1>2, <1>4 DEF IInv, TypeOK, Ports
<1>8. OneAction' /\ SlotIsActive'
  BY <1>5 DEF OneAction, SlotIsActive, Active
<1>9. ActiveShape'
  <2>1. worker'[w].port # 0 /\ worker'[w].generation # 0
        /\ worker'[w].generation <= generation' /\ worker'[w].pc # "backoff"
    BY <1>1, <1>3, <1>4
  <2>2. QED
    BY <1>4, <1>5, <2>1 DEF ActiveShape
<1>10. RetryShape'
  <2>1. worker'[w].attempt = 1 /\ endpointRuns' = 0
    BY <1>3, <1>4
  <2>2. QED
    BY <1>5, <1>6, <2>1 DEF RetryShape
<1>11. UncancelledIsCurrent'
  BY <1>3, <1>4, <1>5, <1>6 DEF UncancelledIsCurrent
<1>12. RunningIsLive' /\ SuccessStops'
  BY <1>3, <1>4, <1>5 DEF RunningIsLive, SuccessStops
<1>13. IntentShape' /\ SubscriptionFollowsIntent'
  BY DEF IInv, IntentShape, SubscriptionFollowsIntent
<1>14. RetriesBounded'
  BY DEF RetriesBounded, MaxTries
<1>15. QED
  BY <1>7, <1>8, <1>9, <1>10, <1>11, <1>12, <1>13, <1>14 DEF IInv

-----------------------------------------------------------------------------
(* Callbacks of the platform.                                              *)

(* The platform may name an impossible port; Discovered refuses it.        *)

LEMMA PossiblePorts ==
  ASSUME NEW p \in CallbackPorts, ValidPort(p) PROVE p \in Ports
<1>1. p # -1 /\ p # 65536
  BY DEF ValidPort
<1>2. QED
  BY <1>1 DEF CallbackPorts, Ports

LEMMA DiscoveredStep ==
  ASSUME IInv, NEW g, NEW p \in CallbackPorts, Discovered(g, p) PROVE IInv'
<1> USE DEF stored
<1>1. /\ p # port /\ wanted /\ endpointRuns' = 0 /\ port' = p
      /\ UNCHANGED <<stored, wanted, generation, attempts, lastError, result,
                     posted, boots>>
      /\ ValidPort(p)
  BY DEF Discovered, Ignores
<1>0. p \in Ports
  BY <1>1, PossiblePorts
<1>2. CASE MayLaunch(cancel, p, 0)
  <2>1. cancel = NoWorker /\ p # 0
    BY <1>2 DEF MayLaunch
  <2>2. PICK w \in Workers :
          /\ worker' = [CancelActive EXCEPT ![w] =
                         [IdleWorker EXCEPT !.pc = "check",
                                            !.generation = generation,
                                            !.port = p,
                                            !.key = config.key]]
          /\ cancel' = w
    BY <1>2 DEF Discovered, LaunchLocked
  <2>3. attemptedPort' = p /\ state' = "running"
    BY <1>2 DEF Discovered, LaunchLocked
  <2>4. \A v \in Workers : worker[v].pc = "idle"
    BY <2>1, WorkersAssumption DEF IInv, OneAction, Active
  <2>5. /\ CancelActive \in [Workers -> WorkerState]
        /\ \A v \in Workers : CancelActive[v].pc = "idle"
    BY <2>4, CancelActiveFacts
  <2>6. QED
    BY <1>0, <1>1, <2>1, <2>2, <2>3, <2>5, LaunchStep
<1>3. CASE ~MayLaunch(cancel, p, 0)
  <2>1. /\ worker' = CancelActive /\ cancel' = cancel
        /\ attemptedPort' = 0 /\ state' = "waiting"
    BY <1>3 DEF Discovered, LaunchLocked
  <2>2. /\ worker' \in [Workers -> WorkerState]
        /\ \A v \in Workers : /\ worker'[v].pc = worker[v].pc
                              /\ worker'[v].port = worker[v].port
                              /\ worker'[v].generation = worker[v].generation
                              /\ worker'[v].attempt = worker[v].attempt
                              /\ Active(v)' = Active(v)
                              /\ Active(v)' => worker'[v].cancelled
    BY <2>1, CancelActiveFacts DEF Active
  <2>3. TypeOK'
    BY <1>0, <1>1, <2>1, <2>2 DEF IInv, TypeOK, Ports
  <2>4. OneAction' /\ SlotIsActive'
    BY <2>1, <2>2 DEF IInv, TypeOK, OneAction, SlotIsActive, Active
  <2>5. ActiveShape'
    BY <1>1, <2>2 DEF IInv, ActiveShape
  <2>6. RetryShape'
    <3>1. \A v \in Workers : worker'[v].attempt \in 1..MaxTries
      BY <2>2 DEF WorkerState
    <3>2. QED
      BY <1>1, <3>1 DEF RetryShape, MaxTries
  <2>7. UncancelledIsCurrent' /\ RunningIsLive' /\ SuccessStops'
    BY <2>1, <2>2 DEF UncancelledIsCurrent, RunningIsLive, SuccessStops
  <2>8. IntentShape' /\ SubscriptionFollowsIntent'
    BY <1>1 DEF IInv, IntentShape, SubscriptionFollowsIntent
  <2>9. RetriesBounded'
    BY <1>1 DEF RetriesBounded, MaxTries
  <2>10. QED
    BY <2>3, <2>4, <2>5, <2>6, <2>7, <2>8, <2>9 DEF IInv
<1>4. QED
  BY <1>2, <1>3

LEMMA DiscoveryFailedStep ==
  ASSUME IInv, NEW g, DiscoveryFailed(g) PROVE IInv'
<1> USE DEF DiscoveryFailed, FailureCounts, stored, intent
<1>1. TypeOK'
  BY DEF IInv, TypeOK
<1>2. \A w \in Workers : /\ Active(w)' = Active(w)
                         /\ ForCurrent(w)' = ForCurrent(w)
  BY DEF Active, ForCurrent
<1>3. OneAction' /\ SlotIsActive' /\ ActiveShape' /\ RetryShape'
  BY <1>2 DEF IInv, OneAction, SlotIsActive, ActiveShape, RetryShape, Active
<1>4. UncancelledIsCurrent' /\ RunningIsLive' /\ SuccessStops'
  BY <1>2 DEF IInv, UncancelledIsCurrent, RunningIsLive, SuccessStops
<1>5. IntentShape' /\ SubscriptionFollowsIntent' /\ RetriesBounded'
  BY DEF IInv, IntentShape, SubscriptionFollowsIntent, RetriesBounded
<1>6. QED
  BY <1>1, <1>3, <1>4, <1>5 DEF IInv

-----------------------------------------------------------------------------
(* finish.  The run that ends is the only one; afterwards none is left, or *)
(* the pending one.                                                        *)

LEMMA FinishFacts ==
  ASSUME IInv, NEW w \in Workers, worker[w].pc = "finish"
  PROVE  /\ Active(w) /\ cancel = w
         /\ [worker EXCEPT ![w] = IdleWorker] \in [Workers -> WorkerState]
         /\ \A v \in Workers : [worker EXCEPT ![w] = IdleWorker][v].pc = "idle"
<1>1. Active(w) /\ cancel = w
  BY DEF Active, IInv, OneAction
<1>2. worker \in [Workers -> WorkerState]
  BY DEF IInv, TypeOK
<1>3. IdleWorker \in WorkerState /\ IdleWorker.pc = "idle"
  BY DEF IdleWorker, WorkerState, Ports, Outcomes, MaxTries
<1>4. \A v \in Workers : v # w => worker[v].pc = "idle"
  BY <1>1 DEF IInv, OneAction, Active
<1>5. QED
  BY <1>1, <1>2, <1>3, <1>4

(* A replaced run, or one no longer wanted, leaves status as it was.       *)

LEMMA StaleFinish ==
  ASSUME IInv, NEW w \in Workers, worker[w].pc = "finish",
         ~ForCurrent(w) \/ ~wanted,
         LaunchPending([worker EXCEPT ![w] = IdleWorker]),
         UNCHANGED <<wanted, lastError, result, posted>>,
         UNCHANGED <<stored, port, generation, attempts, endpointRuns, boots>>
  PROVE  IInv'
<1> USE DEF stored
<1> DEFINE ws == [worker EXCEPT ![w] = IdleWorker]
<1>1. /\ Active(w) /\ cancel = w /\ ws \in [Workers -> WorkerState]
      /\ \A v \in Workers : ws[v].pc = "idle"
  BY FinishFacts
<1> HIDE DEF ws
<1>2. LaunchLocked(ws, NoWorker, port, attemptedPort, state)
  BY DEF LaunchPending, ws
<1>3. port \in Ports /\ port' = port /\ endpointRuns' = endpointRuns
  BY DEF IInv, TypeOK
<1>4. CASE MayLaunch(NoWorker, port, attemptedPort)
  <2>1. port # 0 /\ wanted
    BY <1>4 DEF MayLaunch
  <2>2. endpointRuns = 0
    BY <1>1, <2>1 DEF IInv, RetryShape
  <2>3. PICK v \in Workers :
          /\ worker' = [ws EXCEPT ![v] =
                         [IdleWorker EXCEPT !.pc = "check",
                                            !.generation = generation,
                                            !.port = port,
                                            !.key = config.key]]
          /\ cancel' = v
    BY <1>2, <1>4 DEF LaunchLocked
  <2>4. attemptedPort' = port /\ state' = "running"
    BY <1>2, <1>4 DEF LaunchLocked
  <2>5. QED
    BY <1>1, <1>3, <2>1, <2>2, <2>3, <2>4, LaunchStep
<1>5. CASE ~MayLaunch(NoWorker, port, attemptedPort)
  <2>1. /\ worker' = ws /\ cancel' = NoWorker
        /\ attemptedPort' = attemptedPort /\ state' = state
    BY <1>2, <1>5 DEF LaunchLocked
  <2>2. \A v \in Workers : ~Active(v)' /\ worker'[v].pc = "idle"
    BY <1>1, <2>1 DEF Active
  <2>3. state # "succeeded"
    BY <1>1 DEF IInv, SuccessStops
  <2>4. state # "running"
    <3>1. worker[w].cancelled
      BY <1>1 DEF IInv, UncancelledIsCurrent
    <3>2. QED
      BY <1>1, <3>1 DEF IInv, RunningIsLive, OneAction
  <2>5. TypeOK'
    BY <1>1, <2>1 DEF IInv, TypeOK
  <2>6. OneAction' /\ SlotIsActive' /\ ActiveShape' /\ RetryShape'
    BY <2>1, <2>2 DEF OneAction, SlotIsActive, ActiveShape, RetryShape
  <2>7. UncancelledIsCurrent' /\ RunningIsLive' /\ SuccessStops'
    BY <2>1, <2>2, <2>3, <2>4 DEF UncancelledIsCurrent, RunningIsLive, SuccessStops
  <2>8. IntentShape' /\ SubscriptionFollowsIntent' /\ RetriesBounded'
    BY DEF IInv, IntentShape, SubscriptionFollowsIntent, RetriesBounded
  <2>9. QED
    BY <2>5, <2>6, <2>7, <2>8 DEF IInv
<1>6. QED
  BY <1>4, <1>5

LEMMA CurrentFinish ==
  ASSUME IInv, NEW w \in Workers, worker[w].pc = "finish", wanted,
         RecordResult(worker[w].outcome),
         worker' = [worker EXCEPT ![w] = IdleWorker], cancel' = NoWorker,
         UNCHANGED attemptedPort,
         UNCHANGED <<stored, port, generation, attempts, endpointRuns, boots>>
  PROVE  IInv'
<1> USE DEF stored
<1> DEFINE outcome == worker[w].outcome
<1>1. /\ worker' \in [Workers -> WorkerState]
      /\ \A v \in Workers : ~Active(v)' /\ worker'[v].pc = "idle"
  BY FinishFacts DEF Active
<1>2. outcome \in Outcomes /\ wanted = TRUE /\ generation # 0
  BY DEF IInv, TypeOK, WorkerState, IntentShape
<1>3. /\ posted \in [generation : Nat, enabled : BOOLEAN]
      /\ posted.generation <= generation /\ generation \in Nat
      /\ lastError # "stop"
  BY <1>2 DEF IInv, TypeOK, IntentShape
<1> HIDE DEF outcome
<1>4. result' = CASE outcome = "ok" -> "zero"
                  [] outcome = "exit" -> "nonzero"
                  [] OTHER -> "none"
  BY DEF RecordResult, outcome
<1>5. result' \in {"none", "zero", "nonzero"} /\ (outcome = "ok" => result' = "zero")
  BY <1>4
<1>6. \/ /\ outcome = "ok" /\ state' = "succeeded" /\ wanted' = FALSE
         /\ posted' = Posted(generation, FALSE) /\ lastError' = "none"
      \/ /\ outcome = "ok" /\ state' = "succeeded" /\ wanted' = FALSE
         /\ posted' = posted /\ lastError' = "stop"
      \/ /\ outcome # "ok" /\ state' \in {"authentication_failed", "failed"}
         /\ lastError' = outcome /\ wanted' = wanted /\ posted' = posted
  BY DEF RecordResult, StillWanted, outcome
<1>7. Posted(generation, FALSE) \in [generation : Nat, enabled : BOOLEAN]
      /\ Posted(generation, FALSE).generation = generation
      /\ Posted(generation, FALSE).enabled = FALSE
  BY <1>3 DEF Posted
<1>8. /\ posted' \in [generation : Nat, enabled : BOOLEAN]
      /\ posted'.generation <= generation
  <2>1. generation <= generation
    BY <1>3
  <2>2. CASE posted' = posted
    BY <1>3, <2>2
  <2>3. CASE posted' = Posted(generation, FALSE)
    BY <1>7, <2>1, <2>3
  <2>4. QED
    BY <1>6, <2>2, <2>3
<1>9. /\ wanted' \in BOOLEAN
      /\ lastError' \in Outcomes \cup {"load", "update", "platform", "stop"}
      /\ state' \in {"succeeded", "authentication_failed", "failed"}
      /\ lastError' = "stop" => wanted' = FALSE
  BY <1>2, <1>6 DEF Outcomes
<1>10. TypeOK'
  BY <1>1, <1>5, <1>8, <1>9 DEF IInv, TypeOK
<1>11. OneAction' /\ SlotIsActive' /\ ActiveShape' /\ RetryShape'
  BY <1>1 DEF OneAction, SlotIsActive, ActiveShape, RetryShape
<1>12. UncancelledIsCurrent' /\ RunningIsLive' /\ SuccessStops'
  BY <1>1, <1>5, <1>6 DEF UncancelledIsCurrent, RunningIsLive, SuccessStops
<1>13. IntentShape'
  BY <1>2, <1>8, <1>9 DEF IntentShape
<1>14. SubscriptionFollowsIntent'
  <2>1. posted.generation = generation => posted.enabled = TRUE
    BY <1>2, <1>3 DEF IInv, SubscriptionFollowsIntent
  <2>2. \/ lastError' = "stop"
        \/ posted'.generation = generation => posted'.enabled = wanted'
    BY <1>2, <1>6, <1>7, <2>1
  <2>3. QED
    BY <2>2 DEF SubscriptionFollowsIntent
<1>15. RetriesBounded'
  BY DEF IInv, RetriesBounded
<1>16. QED
  BY <1>10, <1>11, <1>12, <1>13, <1>14, <1>15 DEF IInv

LEMMA FinishStep ==
  ASSUME IInv, NEW w \in Workers, Finish(w) PROVE IInv'
<1>1. worker[w].pc = "finish"
      /\ UNCHANGED <<stored, port, generation, attempts, endpointRuns, boots>>
  BY DEF Finish
<1>2. CASE /\ ~ForCurrent(w) \/ ~wanted
           /\ LaunchPending([worker EXCEPT ![w] = IdleWorker])
           /\ UNCHANGED <<wanted, lastError, result, posted>>
  BY <1>1, <1>2, StaleFinish
<1>3. CASE /\ ForCurrent(w) /\ wanted
           /\ RecordResult(worker[w].outcome)
           /\ worker' = [worker EXCEPT ![w] = IdleWorker]
           /\ cancel' = NoWorker
           /\ UNCHANGED attemptedPort
  BY <1>1, <1>3, CurrentFinish
<1>4. QED
  BY <1>2, <1>3 DEF Finish

-----------------------------------------------------------------------------
(* Every step, and the theorems that follow.                               *)

LEMMA NextIInv == IInv /\ [Next]_vars => IInv'
<1> SUFFICES ASSUME IInv, [Next]_vars PROVE IInv'
  OBVIOUS
<1>1. CASE Request
  BY <1>1, StartStep, ApplyStep, ConfigureStep DEF Request
<1>2. CASE Callback
  BY <1>2, DiscoveredStep, DiscoveryFailedStep DEF Callback
<1>3. CASE \E w \in Workers : WorkerStep(w)
  BY <1>3, CheckContextStep, RecordAttemptStep, RunReturnsStep, BackoffEndsStep,
    FinishStep DEF WorkerStep
<1>4. CASE ProcessRestart
  BY <1>4, RestartedIInv
<1>5. CASE UNCHANGED vars
  <2>1. /\ UNCHANGED <<config, loadFailed, intent, status, attempts, cancel,
                       posted, worker, endpointRuns, boots>>
        /\ disk' = disk /\ started' = started
    BY <1>5 DEF vars, stored
  <2>2. disk \in Config \cup {Missing, Corrupt} /\ started \in BOOLEAN
    BY DEF IInv, TypeOK
  <2>3. QED
    BY <2>1, <2>2, StoredStep
<1>6. QED
  BY <1>1, <1>2, <1>3, <1>4, <1>5 DEF Next

LEMMA Inductive == Spec => []IInv
<1>1. QED
  BY InitIInv, NextIInv, PTL DEF Spec

(* The fields of the controller keep their Go types, and no impossible     *)
(* port becomes the endpoint.                                              *)
THEOREM TypeCorrect == Spec => []TypeOK
<1>1. IInv => TypeOK
  BY DEF IInv
<1>2. QED
  BY <1>1, Inductive, PTL

(* At most one goroutine is in flight, and c.cancel is its cancel function *)
(* (launchLocked, finish).                                                 *)
THEOREM OneActionHolds == Spec => []OneAction
<1>1. IInv => OneAction
  BY DEF IInv
<1>2. QED
  BY <1>1, Inductive, PTL

(* A run that was not cancelled works for the generation, endpoint and key *)
(* in force, and the action is still wanted.                               *)
THEOREM UncancelledIsCurrentHolds == Spec => []UncancelledIsCurrent
<1>1. IInv => UncancelledIsCurrent
  BY DEF IInv
<1>2. QED
  BY <1>1, Inductive, PTL

(* Status says "running" exactly while an uncancelled run is in flight,    *)
(* and a reported success leaves nothing wanted and nothing running.       *)
THEOREM StatusIsTrueHolds == Spec => []StatusIsTrue
<1>1. IInv => StatusIsTrue
  BY DEF IInv, StatusIsTrue
<1>2. QED
  BY <1>1, Inductive, PTL

(* The platform searches exactly while the action is wanted, unless        *)
(* stopping it failed and status says so.                                  *)
THEOREM SubscriptionFollowsIntentHolds == Spec => []SubscriptionFollowsIntent
<1>1. IInv => SubscriptionFollowsIntent
  BY DEF IInv
<1>2. QED
  BY <1>1, Inductive, PTL

(* The fixed command starts at most three times per endpoint, although     *)
(* the runs that start it come and go (execute, recordAttempt).            *)
THEOREM RetriesBoundedHolds == Spec => []RetriesBounded
<1>1. IInv => RetriesBounded
  BY DEF IInv
<1>2. QED
  BY <1>1, Inductive, PTL

-----------------------------------------------------------------------------
(* Which steps touch a run that is about to end.                           *)

Silent(w) ==
  /\ UNCHANGED <<result, lastError, wanted>>
  /\ state' \in {state, "running"}

LEMMA FinishingIsOnly ==
  ASSUME IInv, NEW w \in Workers, worker[w].pc = "finish",
         NEW v \in Workers, worker[v].pc # "idle"
  PROVE  v = w
BY DEF IInv, OneAction, Active

LEMMA CancelledKeptByDiscovered ==
  ASSUME IInv, NEW w \in Workers, worker[w].pc = "finish", ~ForCurrent(w),
         NEW g, NEW p \in CallbackPorts, Discovered(g, p)
  PROVE  worker'[w] = worker[w]
<1>1. Active(w) /\ cancel = w /\ cancel # NoWorker
  BY WorkersAssumption DEF Active, IInv, OneAction
<1>2. worker \in [Workers -> WorkerState] /\ worker[w].cancelled = TRUE
  BY <1>1 DEF IInv, UncancelledIsCurrent, TypeOK, WorkerState
<1>3. worker' = CancelActive
  BY <1>1 DEF Discovered, LaunchLocked, MayLaunch
<1>4. CancelActive = [worker EXCEPT ![w].cancelled = TRUE]
  BY <1>1 DEF CancelActive
<1>5. [worker[w] EXCEPT !.cancelled = TRUE] = worker[w]
  BY <1>2 DEF WorkerState
<1>6. QED
  BY <1>2, <1>3, <1>4, <1>5

LEMMA StaleFinishIsSilent ==
  ASSUME NEW w \in Workers, Finish(w), ~ForCurrent(w)
  PROVE  Silent(w)
BY DEF Finish, LaunchPending, LaunchLocked, Silent

LEMMA SilentStep ==
  ASSUME IInv, [Next]_vars, NEW w \in Workers,
         worker[w].pc = "finish", worker'[w] # worker[w],
         worker[w].generation # generation, generation' = generation
  PROVE  Silent(w)
<1>1. Active(w) /\ ~ForCurrent(w)
  BY DEF Active, ForCurrent
<1>2. generation \in Nat /\ worker[w].generation \in Nat /\ generation # 0
  BY <1>1 DEF IInv, TypeOK, ActiveShape, WorkerState
<1>3. generation' # generation + 1 /\ generation' # 0
  BY <1>2
<1>4. \A want : ~RestartLocked(want)
  BY <1>3 DEF RestartLocked
<1>5. CASE Request
  BY <1>4, <1>5 DEF Request, Start, Configure, Apply
<1>6. CASE Callback
  BY <1>1, <1>6, CancelledKeptByDiscovered DEF Callback, DiscoveryFailed
<1>7. CASE \E v \in Workers : WorkerStep(v)
  <2>1. PICK v \in Workers : WorkerStep(v)
    BY <1>7
  <2>2. v = w
    BY <2>1, FinishingIsOnly
      DEF WorkerStep, CheckContext, RecordAttempt, RunReturns, BackoffEnds, Finish
  <2>3. Finish(w)
    BY <2>1, <2>2
      DEF WorkerStep, CheckContext, RecordAttempt, RunReturns, BackoffEnds
  <2>4. QED
    BY <1>1, <2>3, StaleFinishIsSilent
<1>8. CASE ProcessRestart
  BY <1>3, <1>8 DEF ProcessRestart
<1>9. CASE UNCHANGED vars
  BY <1>9 DEF vars
<1>10. QED
  BY <1>5, <1>6, <1>7, <1>8, <1>9 DEF Next

(* "An old command finishing after disable cannot overwrite disabled       *)
(* status" (finish): the end of a run of an earlier generation leaves      *)
(* result, error and intent alone.                                         *)
THEOREM OldGenerationSilentHolds == Spec => OldGenerationSilent
<1>1. IInv /\ [Next]_vars =>
        [\A w \in Workers :
           /\ worker[w].pc = "finish" /\ worker'[w] # worker[w]
           /\ worker[w].generation # generation
           /\ generation' = generation
           => /\ UNCHANGED <<result, lastError, wanted>>
              /\ state' \in {state, "running"}]_vars
  BY SilentStep DEF Silent
<1>2. QED
  BY <1>1, Inductive, PTL DEF Spec, OldGenerationSilent

-----------------------------------------------------------------------------
(* The controller implements FixedAction: every step is one of its actions *)
(* under the mapping of Contract, or changes nothing it can see.           *)

Running == IF cancel = NoWorker THEN 0 ELSE worker[cancel].generation
Done == state = "succeeded"

Unseen == UNCHANGED <<generation, wanted>> /\ Running' = Running /\ Done' = Done

LEMMA UnseenIsStutter == Unseen => UNCHANGED Contract!vars
BY DEF Unseen, Running, Done, Contract!vars

LEMMA InitImplements == Init => Contract!Init
<1> SUFFICES ASSUME Init PROVE Contract!Init
  OBVIOUS
<1>1. generation = 0 /\ wanted = FALSE /\ cancel = NoWorker
  BY DEF Init
<1>2. (state = "succeeded") = FALSE
  BY DEF Init, FreshState
<1>3. QED
  BY <1>1, <1>2 DEF Contract!Init

LEMMA RestartImplements ==
  ASSUME IInv, NEW want \in BOOLEAN, RestartLocked(want) PROVE Contract!Intend
<1>1. /\ generation' = generation + 1 /\ wanted' = want /\ cancel' = cancel
      /\ (state' = "succeeded") = FALSE
  BY DEF RestartLocked
<1>2. Running' = Running
  <2>1. cancel \in Workers \cup {NoWorker} /\ worker' = CancelActive
    BY DEF IInv, TypeOK, RestartLocked
  <2>2. \A w \in Workers : worker'[w].generation = worker[w].generation
    BY <2>1, CancelActiveFacts
  <2>3. QED
    BY <1>1, <2>1, <2>2 DEF Running
<1>3. QED
  BY <1>1, <1>2 DEF Contract!Intend, Running

LEMMA RequestImplements ==
  ASSUME IInv, Request PROVE Contract!Intend \/ Unseen
<1> USE DEF intent, status, stored
<1>1. CASE Start
  <2>1. CASE loadFailed
    BY <1>1, <2>1 DEF Start, Unseen, Running, Done
  <2>2. CASE ~loadFailed
    <3>1. config.enabled \in BOOLEAN /\ RestartLocked(config.enabled)
      BY <1>1, <2>2 DEF Start, IInv, TypeOK, Config
    <3>2. QED
      BY <3>1, RestartImplements
  <2>3. QED
    BY <2>1, <2>2
<1>2. CASE Apply
  <2>1. RestartLocked(TRUE) /\ TRUE \in BOOLEAN
    BY <1>2 DEF Apply
  <2>2. QED
    BY <2>1, RestartImplements
<1>3. ASSUME NEW key \in RequestKeys, NEW enabled \in BOOLEAN,
             NEW synced \in BOOLEAN, Configure(key, enabled, synced)
      PROVE  Contract!Intend \/ Unseen
  <2>1. CASE ~synced
    BY <1>3, <2>1 DEF Configure, Unseen, Running, Done
  <2>2. CASE synced
    <3>1. RestartLocked(enabled /\ started) /\ (enabled /\ started) \in BOOLEAN
      BY <1>3, <2>2 DEF Configure
    <3>2. QED
      BY <3>1, RestartImplements
  <2>3. QED
    BY <2>1, <2>2
<1>4. QED
  BY <1>1, <1>2, <1>3 DEF Request

(* A launch begins a run for the current epoch, or hands over to it.       *)

LEMMA LaunchImplements ==
  ASSUME IInv, wanted, UNCHANGED <<generation, wanted>>,
         Running' = generation, Done' = FALSE
  PROVE  Contract!Begin \/ Contract!HandOver
<1>1. Done = FALSE
  BY DEF IInv, SuccessStops, Done
<1>2. QED
  BY <1>1 DEF Contract!Begin, Contract!HandOver, Running, Done

LEMMA LaunchedRunning ==
  ASSUME NEW w \in Workers, NEW ws, w \in DOMAIN ws, NEW p,
         worker' = [ws EXCEPT ![w] = [IdleWorker EXCEPT !.pc = "check",
                                                        !.generation = generation,
                                                        !.port = p,
                                                        !.key = config.key]],
         cancel' = w, state' = "running"
  PROVE  Running' = generation /\ Done' = FALSE
<1>1. worker'[w].generation = generation
  BY DEF IdleWorker
<1>2. cancel' # NoWorker
  BY WorkersAssumption
<1>3. QED
  BY <1>1, <1>2 DEF Running, Done

LEMMA CallbackImplements ==
  ASSUME IInv, Callback
  PROVE  Contract!Begin \/ Contract!HandOver \/ Unseen
<1> USE DEF stored, intent
<1>1. ASSUME NEW g, DiscoveryFailed(g) PROVE Unseen
  BY <1>1 DEF DiscoveryFailed, Unseen, Running, Done
<1>2. ASSUME NEW g, NEW p \in CallbackPorts, Discovered(g, p)
      PROVE  Contract!Begin \/ Contract!HandOver \/ Unseen
  <2>1. /\ wanted /\ UNCHANGED <<generation, wanted>>
        /\ LaunchLocked(CancelActive, cancel, p, 0, "waiting")
    BY <1>2 DEF Discovered, Ignores
  <2>2. CancelActive \in [Workers -> WorkerState]
    BY CancelActiveFacts
  <2>3. CASE MayLaunch(cancel, p, 0)
    <3>1. PICK w \in Workers :
            /\ worker' = [CancelActive EXCEPT ![w] =
                           [IdleWorker EXCEPT !.pc = "check",
                                              !.generation = generation,
                                              !.port = p,
                                              !.key = config.key]]
            /\ cancel' = w
      BY <2>1, <2>3 DEF LaunchLocked
    <3>2. state' = "running"
      BY <2>1, <2>3 DEF LaunchLocked
    <3>3. Running' = generation /\ Done' = FALSE
      BY <2>2, <3>1, <3>2, LaunchedRunning
    <3>4. QED
      BY <2>1, <3>3, LaunchImplements
  <2>4. CASE ~MayLaunch(cancel, p, 0)
    <3>1. worker' = CancelActive /\ cancel' = cancel /\ state' = "waiting"
      BY <2>1, <2>4 DEF LaunchLocked
    <3>2. cancel \in Workers \cup {NoWorker}
      BY DEF IInv, TypeOK
    <3>3. Running' = Running
      BY <3>1, <3>2, CancelActiveFacts DEF Running
    <3>4. Done = FALSE /\ Done' = FALSE
      BY <2>1, <3>1 DEF Done, IInv, SuccessStops
    <3>5. QED
      BY <2>1, <3>3, <3>4 DEF Unseen
  <2>5. QED
    BY <2>3, <2>4
<1>3. QED
  BY <1>1, <1>2 DEF Callback

LEMMA InnerImplements ==
  ASSUME IInv, NEW w \in Workers, NEW r, r.generation = worker[w].generation,
         worker' = [worker EXCEPT ![w] = r],
         UNCHANGED <<generation, wanted, state, cancel>>
  PROVE  Unseen
<1>1. worker \in [Workers -> WorkerState]
  BY DEF IInv, TypeOK
<1>2. Running' = Running
  BY <1>1 DEF Running
<1>3. QED
  BY <1>2 DEF Unseen, Done

LEMMA FinishImplements ==
  ASSUME IInv, NEW w \in Workers, Finish(w)
  PROVE  Contract!End \/ Contract!HandOver \/ Contract!Begin \/ Contract!Succeed
<1> DEFINE ws == [worker EXCEPT ![w] = IdleWorker]
<1>1. /\ Active(w) /\ cancel = w /\ cancel # NoWorker
      /\ ws \in [Workers -> WorkerState] /\ generation' = generation
  BY WorkersAssumption, FinishFacts DEF Finish
<1>2. /\ Running # 0 /\ Running = worker[w].generation
      /\ Done = FALSE
  BY <1>1 DEF Running, Done, IInv, ActiveShape, SuccessStops
<1> HIDE DEF ws
<1>3. CASE LaunchPending(ws) /\ wanted' = wanted
  <2>1. LaunchLocked(ws, NoWorker, port, attemptedPort, state)
    BY <1>3 DEF LaunchPending
  <2>2. CASE MayLaunch(NoWorker, port, attemptedPort)
    <3>1. PICK v \in Workers :
            /\ worker' = [ws EXCEPT ![v] =
                           [IdleWorker EXCEPT !.pc = "check",
                                              !.generation = generation,
                                              !.port = port,
                                              !.key = config.key]]
            /\ cancel' = v
      BY <2>1, <2>2 DEF LaunchLocked
    <3>2. state' = "running" /\ wanted
      BY <2>1, <2>2 DEF LaunchLocked, MayLaunch
    <3>3. Running' = generation /\ Done' = FALSE
      BY <1>1, <3>1, <3>2, LaunchedRunning
    <3>4. QED
      BY <1>1, <1>3, <3>2, <3>3, LaunchImplements
  <2>3. CASE ~MayLaunch(NoWorker, port, attemptedPort)
    <3>1. cancel' = NoWorker /\ state' = state
      BY <2>1, <2>3 DEF LaunchLocked
    <3>2. QED
      BY <1>1, <1>2, <1>3, <3>1 DEF Contract!End, Running, Done
  <2>4. QED
    BY <2>2, <2>3
<1>4. CASE ForCurrent(w) /\ wanted /\ RecordResult(worker[w].outcome)
           /\ cancel' = NoWorker
  <2>1. Running = generation /\ Running' = 0
    BY <1>2, <1>4 DEF ForCurrent, Running
  <2>2. \/ state' = "succeeded" /\ wanted' = FALSE
        \/ state' # "succeeded" /\ wanted' = wanted
    BY <1>4 DEF RecordResult, StillWanted
  <2>3. QED
    BY <1>1, <1>2, <1>4, <2>1, <2>2
      DEF Contract!Succeed, Contract!End, Running, Done
<1>5. QED
  BY <1>3, <1>4 DEF Finish, ws

LEMMA WorkerImplements ==
  ASSUME IInv, NEW w \in Workers, WorkerStep(w)
  PROVE  \/ Contract!End \/ Contract!HandOver \/ Contract!Begin
         \/ Contract!Succeed \/ Unseen
<1> USE DEF controllerVars, intent, status, stored
<1>1. worker \in [Workers -> WorkerState]
  BY DEF IInv, TypeOK
<1>2. CASE Finish(w)
  BY <1>2, FinishImplements
<1>3. CASE ~Finish(w)
  <2>1. /\ UNCHANGED <<generation, wanted, state, cancel>>
        /\ worker'[w].generation = worker[w].generation
        /\ worker' = [worker EXCEPT ![w] = worker'[w]]
    <3>1. CASE CheckContext(w)
      BY <1>1, <3>1 DEF CheckContext, WorkerState
    <3>2. CASE RecordAttempt(w)
      BY <1>1, <3>2 DEF RecordAttempt, WorkerState
    <3>3. CASE \E outcome \in Outcomes : RunReturns(w, outcome)
      BY <1>1, <3>3 DEF RunReturns, WorkerState
    <3>4. CASE BackoffEnds(w)
      BY <1>1, <3>4 DEF BackoffEnds, WorkerState
    <3>5. QED
      BY <1>3, <3>1, <3>2, <3>3, <3>4 DEF WorkerStep
  <2>2. QED
    BY <2>1, InnerImplements
<1>4. QED
  BY <1>2, <1>3

LEMMA ProcessRestartImplements == ProcessRestart => Contract!Reset
<1> SUFFICES ASSUME ProcessRestart PROVE Contract!Reset
  OBVIOUS
<1>1. generation' = 0 /\ wanted' = FALSE /\ cancel' = NoWorker
  BY DEF ProcessRestart
<1>2. (state' = "succeeded") = FALSE
  BY DEF ProcessRestart, FreshState
<1>3. QED
  BY <1>1, <1>2 DEF Contract!Reset, Contract!Init

(* The controller keeps its promise: one intent at a time, the command     *)
(* runs for at most one of them, and only the current one is satisfied.    *)
THEOREM ImplementsContract == Spec => ContractSpec
<1>1. IInv /\ [Next]_vars => [Contract!Next]_Contract!vars
  <2> SUFFICES ASSUME IInv, [Next]_vars
               PROVE  Contract!Next \/ UNCHANGED Contract!vars
    OBVIOUS
  <2>1. CASE Request
    BY <2>1, RequestImplements, UnseenIsStutter DEF Contract!Next
  <2>2. CASE Callback
    BY <2>2, CallbackImplements, UnseenIsStutter DEF Contract!Next
  <2>3. CASE \E w \in Workers : WorkerStep(w)
    BY <2>3, WorkerImplements, UnseenIsStutter DEF Contract!Next
  <2>4. CASE ProcessRestart
    BY <2>4, ProcessRestartImplements DEF Contract!Next
  <2>5. CASE UNCHANGED vars
    BY <2>5 DEF vars, intent, status, Contract!vars
  <2>6. QED
    BY <2>1, <2>2, <2>3, <2>4, <2>5 DEF Next
<1>2. QED
  BY <1>1, InitImplements, Inductive, PTL DEF Spec, ContractSpec, Contract!Spec
=============================================================================
