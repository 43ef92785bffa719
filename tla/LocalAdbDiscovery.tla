-------------------------- MODULE LocalAdbDiscovery --------------------------
(***************************************************************************)
(* LocalAdbDiscovery.java: finds the port of the device's own ADB TLS      *)
(* service and reports it to the controller through native calls.          *)
(*                                                                         *)
(* All state belongs to the main looper, so one runnable is one action.    *)
(* A callback of the platform is posted with the revision or the Service   *)
(* it was created for and may run arbitrarily late; one that is no longer  *)
(* current returns at once (no action).  A runnable that calls into the    *)
(* controller occupies the looper until the call returns: other runnables  *)
(* wait for calls to be empty.                                             *)
(*                                                                         *)
(* External: NsdManager, the network callbacks, the callers of setEnabled. *)
(***************************************************************************)
EXTENDS Integers, Sequences, FiniteSets

CONSTANTS
  Releases,      (* possible values of Build.VERSION.SDK_INT >= 34          *)
  ServiceKeys,   (* service names, numbered in HashMap iteration order      *)
  Endpoints,     (* ports those services may advertise                      *)
  MaxUpdates,    (* bound: generations posted by setEnabled                 *)
  MaxRevision,   (* bound: no network change or retry from this revision on *)
  MaxObjects     (* bound: Service objects created                          *)

ASSUME DiscoveryAssumption ==
  /\ Releases \subseteq BOOLEAN
  /\ ServiceKeys \subseteq Nat /\ IsFiniteSet(ServiceKeys)
  /\ Endpoints \subseteq Nat \ {0}
  /\ {MaxUpdates, MaxRevision, MaxObjects} \subseteq Nat

VARIABLES
  subscribing,   (* this device is of such a release                        *)
  inbox,         (* posted setEnabled runnables, in order                   *)
  generation, enabled, revision,
  listener,      (* "none", or what the platform made of discoverServices   *)
  retries,       (* discoveryRetries; beyond 2 its value makes no difference *)
  timers,        (* revisions with a delayed startDiscovery posted          *)
  object,        (* the Service objects, by creation                        *)
  services,      (* key -> index of its Service object, 0 when absent       *)
  servicePort,   (* key -> port of the Service object in services           *)
  resolveQueue, resolving,
  outstanding,   (* platform: objects with a resolveService in progress     *)
  subscriptions, (* platform: objects with a registered info callback       *)
  currentPort,
  calls          (* native calls the looper is still making                 *)

lifetime  == <<generation, enabled, retries>>
resolver  == <<resolveQueue, resolving, outstanding>>
table     == <<object, services, servicePort>>
found     == <<table, resolver, subscriptions, currentPort>>
vars == <<inbox, lifetime, revision, listener, timers, found, calls>>

Discovered(p) == [kind |-> "discovered", generation |-> generation, port |-> p]
Failed        == [kind |-> "failed", generation |-> generation, port |-> 0]

-----------------------------------------------------------------------------
(* Fault: any callback passes while discovery is enabled.                  *)
CurrentWhileEnabled(r) == enabled

Current(r) == enabled /\ revision = r

Absent == [k \in ServiceKeys |-> 0]

(* Service.active(), with these objects in these places.                   *)
Live(objs, svcs, id) ==
  Current(objs[id].expected) /\ svcs[objs[id].key] = id

ActiveObject(id) == Live(object, services, id)

FirstOf(S) == CHOOSE k \in S : \A j \in S : k <= j

(* Fault: looks at one service only.                                       *)
LowestService(svcs, ports) ==
  LET present == {k \in ServiceKeys : svcs[k] # 0}
  IN IF present = {} THEN 0 ELSE ports[FirstOf(present)]

(* refreshPort's scan: the first service that has a port.                  *)
AdvertisedPort(svcs, ports) ==
  LET ported == {k \in ServiceKeys : svcs[k] # 0 /\ ports[k] # 0}
  IN IF ported = {} THEN 0 ELSE ports[FirstOf(ported)]

(* refreshPort, after calls that the handler already made.                 *)
RefreshPort(svcs, ports, made) ==
  LET p == AdvertisedPort(svcs, ports)
  IN /\ currentPort' = p
     /\ calls' = IF p = currentPort THEN made ELSE Append(made, Discovered(p))

(* Fault: leaves the platform's info callbacks registered.                 *)
CloseNone(ids) == subscriptions

(* Service.close() of each of them.                                        *)
Close(ids) == subscriptions \ ids

(* Fault: notes the end of a request without making the next one.          *)
ResolveOnly(objs, svcs, queue, busy, pending) ==
  /\ resolveQueue' = queue
  /\ resolving' = busy
  /\ outstanding' = pending

(* resolveNext: unless a request is running, drops services that are no    *)
(* longer active and requests the first one that is.  queue, busy and      *)
(* pending are what the handler made of the resolver's state.              *)
ResolveNext(objs, svcs, queue, busy, pending) ==
  LET live == {i \in DOMAIN queue : Live(objs, svcs, queue[i])}
      i == FirstOf(live)
  IN IF busy \/ live = {}
     THEN /\ resolveQueue' = IF busy THEN queue ELSE <<>>
          /\ resolving' = busy
          /\ outstanding' = pending
     ELSE /\ resolveQueue' = SubSeq(queue, i + 1, Len(queue))
          /\ resolving' = TRUE
          /\ outstanding' = pending \cup {queue[i]}

(* stopDiscovery, except for revision and listener.                        *)
ForgetServices ==
  /\ services' = Absent
  /\ servicePort' = Absent
  /\ subscriptions' = Close({services[k] : k \in ServiceKeys})
  /\ resolveQueue' = <<>>
  /\ resolving' = FALSE
  /\ currentPort' = 0
  /\ UNCHANGED <<object, outstanding>>

(* startDiscovery as revision r: the platform accepts, or throws at once.  *)
StartDiscovery(r, made, g) ==
  /\ revision' = r
  /\ \/ /\ listener' = "starting"
        /\ calls' = made
     \/ /\ listener' = "none"
        /\ calls' = Append(made, [Failed EXCEPT !.generation = g])

-----------------------------------------------------------------------------
(* Runnables of the main looper.                                           *)

LooperFree == calls = <<>>

(* Fault: restarts discovery without forgetting what it found.             *)
KeepServices == UNCHANGED found

Forget == ForgetServices

Update ==
  /\ LooperFree
  /\ inbox # <<>>
  /\ inbox' = Tail(inbox)
  /\ LET next == Head(inbox)
     IN IF next.generation < generation
        THEN UNCHANGED <<lifetime, revision, listener, found, calls>>
        ELSE /\ Forget
             /\ generation' = next.generation
             /\ enabled' = next.enabled
             /\ retries' = 0
             /\ \/ /\ next.enabled
                   /\ StartDiscovery(revision + 2, <<>>, next.generation)
                \/ /\ ~next.enabled
                   /\ revision' = revision + 1
                   /\ listener' = "none"
                   /\ UNCHANGED calls
  /\ UNCHANGED timers

(* Fault: forgets the endpoint without telling the controller.             *)
NoReport == <<>>

LossReport == <<Discovered(0)>>

NetworkChanged(g) ==
  /\ LooperFree
  /\ enabled /\ generation = g
  /\ revision < MaxRevision
  /\ Forget
  /\ retries' = 0
  /\ StartDiscovery(revision + 2, LossReport, generation)
  /\ UNCHANGED <<inbox, generation, enabled, timers>>

(* The platform reports that discovery runs: nothing to do.                *)
DiscoveryStarted ==
  /\ listener = "starting"
  /\ listener' = "started"
  /\ UNCHANGED <<inbox, lifetime, revision, timers, found, calls>>

RetryLeft == retries < 2

StartFailed(r) ==
  /\ LooperFree
  /\ Current(r)
  /\ listener = "starting"
  /\ listener' = "none"
  /\ calls' = <<Failed>>
  /\ retries' = IF RetryLeft THEN retries + 1 ELSE retries
  /\ timers' = IF RetryLeft THEN timers \cup {r} ELSE timers
  /\ UNCHANGED <<inbox, generation, enabled, revision, found>>

RetryTimer(r) ==
  /\ LooperFree
  /\ r \in timers
  /\ revision < MaxRevision
  /\ timers' = timers \ {r}
  /\ \/ /\ Current(r)
        /\ StartDiscovery(revision + 1, <<>>, generation)
     \/ /\ ~Current(r)
        /\ UNCHANGED <<revision, listener, calls>>
  /\ UNCHANGED <<inbox, lifetime, found>>

ServiceFound(r, k) ==
  LET id   == Len(object) + 1
      objs == Append(object, [key |-> k, expected |-> r])
      svcs == [services EXCEPT ![k] = id]
  IN /\ LooperFree
     /\ Current(r)
     /\ r = revision => listener = "started"
     /\ services[k] = 0
     /\ id <= MaxObjects
     /\ object' = objs
     /\ services' = svcs
     /\ servicePort' = [servicePort EXCEPT ![k] = 0]
     /\ \/ /\ subscribing
           /\ subscriptions' = subscriptions \cup {id}
           /\ UNCHANGED resolver
        \/ /\ ~subscribing
           /\ ResolveNext(objs, svcs, Append(resolveQueue, id), resolving, outstanding)
           /\ UNCHANGED subscriptions
     /\ UNCHANGED <<inbox, lifetime, revision, listener, timers, currentPort, calls>>

ServiceLost(r, k) ==
  LET svcs  == [services EXCEPT ![k] = 0]
      ports == [servicePort EXCEPT ![k] = 0]
  IN /\ LooperFree
     /\ Current(r)
     /\ services[k] # 0
     /\ services' = svcs
     /\ servicePort' = ports
     /\ subscriptions' = Close({services[k]})
     /\ RefreshPort(svcs, ports, <<>>)
     /\ UNCHANGED <<inbox, lifetime, revision, listener, timers, object, resolver>>

(* Service.update with the port of an own, valid endpoint, 0 for any other *)
(* or Uninspected when the interfaces cannot be read: not own, and         *)
(* reported as a failure first.                                            *)
Uninspected == -1

UpdateObject(id, p) ==
  LET ports == [servicePort EXCEPT ![object[id].key] = IF p = Uninspected THEN 0 ELSE p]
  IN /\ servicePort' = ports
     /\ RefreshPort(services, ports, IF p = Uninspected THEN <<Failed>> ELSE <<>>)

(* onServiceUpdated, onServiceLost and a failed registration (SDK >= 34).  *)
InfoUpdated(id, p) ==
  /\ LooperFree
  /\ subscribing
  /\ ActiveObject(id)
  /\ UpdateObject(id, p)
  /\ UNCHANGED <<inbox, lifetime, revision, listener, timers, object, services,
                 resolver, subscriptions>>

InfoRegistrationFailed(id) ==
  /\ LooperFree
  /\ id \in subscriptions
  /\ ActiveObject(id)
  /\ servicePort[object[id].key] = 0
  /\ subscriptions' = subscriptions \ {id}
  /\ calls' = <<Failed>>
  /\ UNCHANGED <<inbox, lifetime, revision, listener, timers, table,
                 resolver, currentPort>>

(* onServiceResolved and onResolveFailed (SDK < 34).                       *)
Resolved(id, p) ==
  /\ LooperFree
  /\ id \in outstanding
  /\ Current(object[id].expected)
  /\ \/ /\ ActiveObject(id)
        /\ UpdateObject(id, p)
     \/ /\ ~ActiveObject(id)
        /\ UNCHANGED <<servicePort, currentPort, calls>>
  /\ ResolveNext(object, services, resolveQueue, FALSE, outstanding \ {id})
  /\ UNCHANGED <<inbox, lifetime, revision, listener, timers, object, services,
                 subscriptions>>

ResolveFailed(id) ==
  /\ LooperFree
  /\ id \in outstanding
  /\ Current(object[id].expected)
  /\ calls' = <<Failed>>
  /\ ResolveNext(object, services, resolveQueue, FALSE, outstanding \ {id})
  /\ UNCHANGED <<inbox, lifetime, revision, listener, timers, table,
                 subscriptions, currentPort>>

(* A resolve that outlived its revision ends without effect.               *)
StaleResolveEnds(id) ==
  /\ LooperFree
  /\ id \in outstanding
  /\ ~Current(object[id].expected)
  /\ outstanding' = outstanding \ {id}
  /\ UNCHANGED <<inbox, lifetime, revision, listener, timers, table,
                 resolveQueue, resolving, subscriptions, currentPort, calls>>

-----------------------------------------------------------------------------
Init ==
  /\ subscribing \in Releases
  /\ inbox = <<>>
  /\ generation = 0 /\ enabled = FALSE /\ revision = 0
  /\ listener = "none" /\ retries = 0 /\ timers = {}
  /\ object = <<>> /\ services = Absent /\ servicePort = Absent
  /\ resolveQueue = <<>> /\ resolving = FALSE
  /\ outstanding = {} /\ subscriptions = {}
  /\ currentPort = 0 /\ calls = <<>>

Looper ==
  \/ Update
  \/ \E g \in 1..generation : NetworkChanged(g)
  \/ DiscoveryStarted
  \/ \E r \in 1..revision :
       \/ StartFailed(r)
       \/ RetryTimer(r)
       \/ \E k \in ServiceKeys : ServiceFound(r, k) \/ ServiceLost(r, k)
  \/ \E id \in DOMAIN object :
       \/ \E p \in Endpoints \cup {0, Uninspected} : InfoUpdated(id, p) \/ Resolved(id, p)
       \/ InfoRegistrationFailed(id)
       \/ ResolveFailed(id)
       \/ StaleResolveEnds(id)

(* The callers of setEnabled post under the controller's mutex: each new   *)
(* generation at most once (a post may fail), and once again to stop an    *)
(* enabled one.                                                            *)
PostUpdate ==
  LET last == IF inbox = <<>> THEN [generation |-> generation, enabled |-> enabled]
              ELSE inbox[Len(inbox)]
  IN \E g \in 1..MaxUpdates, e \in BOOLEAN :
       /\ g > last.generation \/ (g = last.generation /\ last.enabled /\ ~e)
       /\ inbox' = Append(inbox, [generation |-> g, enabled |-> e])
       /\ UNCHANGED <<lifetime, revision, listener, timers, found, calls>>

(* The controller's Discovered or DiscoveryFailed returns.                 *)
CallReturns ==
  /\ calls # <<>>
  /\ calls' = Tail(calls)
  /\ UNCHANGED <<inbox, lifetime, revision, listener, timers, found>>

Next == (Looper \/ PostUpdate \/ CallReturns) /\ UNCHANGED subscribing
Spec == Init /\ [][Next]_<<subscribing, vars>>

(* The looper keeps running its queue and the platform answers a resolve   *)
(* request; services, networks and callers owe nothing.                    *)
FairSpec ==
  /\ Spec
  /\ WF_vars(CallReturns) /\ WF_vars(Update)
  /\ \A id \in 1..MaxObjects :
       WF_vars(id \in DOMAIN object
               /\ \/ \E p \in Endpoints \cup {0} : Resolved(id, p)
                  \/ ResolveFailed(id)
                  \/ StaleResolveEnds(id))

-----------------------------------------------------------------------------
(***************************************************************************)
(* Properties.                                                             *)
(***************************************************************************)

Object == [key : ServiceKeys, expected : Nat]

(* The looper's fields hold values of their types, and queues, tables and  *)
(* the platform's registrations name objects that exist.                   *)
TypeOK ==
  /\ inbox \in Seq([generation : Nat, enabled : BOOLEAN])
  /\ generation \in Nat /\ enabled \in BOOLEAN /\ revision \in Nat
  /\ listener \in {"none", "starting", "started"}
  /\ retries \in 0..2
  /\ timers \subseteq 1..revision
  /\ object \in Seq(Object)
  /\ services \in [ServiceKeys -> 0..Len(object)]
  /\ servicePort \in [ServiceKeys -> Endpoints \cup {0}]
  /\ resolveQueue \in Seq(DOMAIN object)
  /\ resolving \in BOOLEAN
  /\ outstanding \subseteq DOMAIN object
  /\ subscriptions \subseteq DOMAIN object
  /\ currentPort \in Endpoints \cup {0}
  /\ calls \in Seq([kind : {"discovered", "failed"}, generation : Nat,
                     port : Endpoints \cup {0}])

(* The services a port may be taken from were all found by the discovery   *)
(* that is running: nothing found for an earlier network, generation or    *)
(* start survives in the table, whatever callbacks arrive late.            *)
ServicesAreCurrent ==
  \A k \in ServiceKeys : services[k] # 0 =>
    enabled /\ object[services[k]].expected = revision

(* Between two runnables currentPort is the port of a service in the table *)
(* and is 0 only when none of them has one, although every handler updates *)
(* the table and the port separately.                                      *)
PortIsAdvertised ==
  LET ports == {servicePort[k] : k \in {j \in ServiceKeys : services[j] # 0}}
  IN IF currentPort = 0 THEN ports \subseteq {0} ELSE currentPort \in ports

(* Every info callback the platform still holds belongs to a service in    *)
(* the table: losing a service or its network leaks no registration.       *)
NoLeakedSubscription ==
  \A id \in subscriptions : services[object[id].key] = id

(* resolving is true exactly while the running discovery waits for one     *)
(* request, and then for one only; a queue is never left unserved.         *)
OneLiveResolve ==
  LET live == {id \in outstanding : enabled /\ object[id].expected = revision}
  IN /\ Cardinality(live) = IF resolving THEN 1 ELSE 0
     /\ resolveQueue # <<>> => resolving

(* A service waiting for its turn is eventually requested or forgotten.    *)
QueuedIsServed ==
  \A id \in 1..MaxObjects :
    (\E i \in DOMAIN resolveQueue : resolveQueue[i] = id)
    ~> ~(\E i \in DOMAIN resolveQueue : resolveQueue[i] = id)
=============================================================================
