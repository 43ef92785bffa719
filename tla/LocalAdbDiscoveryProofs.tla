----------------------- MODULE LocalAdbDiscoveryProofs -----------------------
(***************************************************************************)
(* The safety properties of LocalAdbDiscovery for any services, ports and  *)
(* bounds.                                                                 *)
(*                                                                         *)
(* The invariant adds what the runnables rely on without a check: objects  *)
(* were created for revisions up to the present one, the table files an    *)
(* object under its own key, nothing is found before the platform said     *)
(* that discovery started, and a retry of the present revision is due only *)
(* while no discovery runs.  That is why a retry may keep what was found:  *)
(* there is nothing.                                                       *)
(***************************************************************************)
EXTENDS LocalAdbDiscovery, TLAPS, FiniteSetTheorems, SequenceTheorems, WellFoundedInduction

Call == [kind : {"discovered", "failed"}, generation : Nat, port : Endpoints \cup {0}]

ObjectsArePast == \A id \in 1..Len(object) : object[id].expected \in 1..revision

FiledByKey == \A k \in ServiceKeys : services[k] # 0 => object[services[k]].key = k

LiveRequests == {id \in outstanding : enabled /\ object[id].expected = revision}

RequestsCounted ==
  /\ resolving => \E id \in outstanding : LiveRequests = {id}
  /\ ~resolving => LiveRequests = {} /\ resolveQueue = <<>>

FoundAfterStart == listener # "started" => services = Absent /\ ~resolving

RetryIsDue == revision \in timers => listener = "none"

(* TypeOK in two halves: the looper's own fields, and what it found.       *)
LooperTyped ==
  /\ inbox \in Seq([generation : Nat, enabled : BOOLEAN])
  /\ generation \in Nat /\ enabled \in BOOLEAN /\ revision \in Nat
  /\ listener \in {"none", "starting", "started"}
  /\ retries \in 0..2
  /\ timers \subseteq 1..revision
  /\ calls \in Seq(Call)

FoundTyped ==
  /\ object \in Seq(Object)
  /\ services \in [ServiceKeys -> 0..Len(object)]
  /\ servicePort \in [ServiceKeys -> Endpoints \cup {0}]
  /\ resolveQueue \in Seq(1..Len(object))
  /\ resolving \in BOOLEAN
  /\ outstanding \subseteq 1..Len(object)
  /\ subscriptions \subseteq 1..Len(object)
  /\ currentPort \in Endpoints \cup {0}

FoundRight ==
  /\ ServicesAreCurrent /\ PortIsAdvertised /\ NoLeakedSubscription
  /\ ObjectsArePast /\ FiledByKey /\ RequestsCounted
  /\ FoundAfterStart /\ RetryIsDue

IInv == LooperTyped /\ FoundTyped /\ FoundRight

-----------------------------------------------------------------------------
(* Sequences and the least element.                                        *)

LEMMA FirstIsMember ==
  ASSUME NEW S \in SUBSET Nat, S # {}
  PROVE  FirstOf(S) \in S
<1> DEFINE Less == OpToRel(<, Nat)
<1>1. IsWellFoundedOn(Less, Nat)
  BY NatLessThanWellFounded
<1>2. ASSUME NEW x \in Nat, NEW y \in Nat, y < x
      PROVE  <<y, x>> \in Less
  <2>1. <<y, x>> \in Nat \X Nat /\ <<y, x>>[1] < <<y, x>>[2]
    BY <1>2
  <2>2. QED
    BY <2>1 DEF OpToRel
<1> HIDE DEF Less
<1>3. PICK x \in S : \A y \in S : ~(<<y, x>> \in Less)
  BY <1>1, WFMin
<1>4. \A y \in S : ~(y < x)
  BY <1>2, <1>3
<1>5. \E k \in S : \A j \in S : k <= j
  BY <1>4
<1>6. QED
  BY <1>5, Zenon DEF FirstOf

(* PortIsAdvertised for a port that is about to be set.                    *)
PortRight(p, svcs, ports) ==
  IF p = 0 THEN \A k \in ServiceKeys : svcs[k] # 0 => ports[k] = 0
           ELSE \E k \in ServiceKeys : svcs[k] # 0 /\ ports[k] = p

LEMMA PortRightIsAdvertised ==
  /\ PortIsAdvertised <=> PortRight(currentPort, services, servicePort)
  /\ PortIsAdvertised' <=> PortRight(currentPort', services', servicePort')
BY DEF PortIsAdvertised, PortRight

(* refreshPort's scan finds a port if there is one.                        *)
LEMMA ScanIsRight ==
  ASSUME NEW svcs \in [ServiceKeys -> Nat],
         NEW ports \in [ServiceKeys -> Endpoints \cup {0}]
  PROVE  /\ AdvertisedPort(svcs, ports) \in Endpoints \cup {0}
         /\ PortRight(AdvertisedPort(svcs, ports), svcs, ports)
<1> DEFINE ported == {k \in ServiceKeys : svcs[k] # 0 /\ ports[k] # 0}
<1>1. CASE ported = {}
  BY <1>1 DEF AdvertisedPort, PortRight
<1>2. CASE ported # {}
  <2>1. ported \in SUBSET Nat
    <3>1. ServiceKeys \subseteq Nat
      BY DiscoveryAssumption
    <3>2. QED
      BY <3>1
  <2>2. FirstOf(ported) \in ported
    BY <1>2, <2>1, FirstIsMember
  <2>3. AdvertisedPort(svcs, ports) = ports[FirstOf(ported)]
    BY <1>2 DEF AdvertisedPort
  <2>4. QED
    BY <2>2, <2>3 DEF PortRight
<1>3. QED
  BY <1>1, <1>2

LEMMA RefreshIsRight ==
  ASSUME NEW svcs \in [ServiceKeys -> Nat],
         NEW ports \in [ServiceKeys -> Endpoints \cup {0}],
         NEW made \in Seq(Call), generation \in Nat,
         RefreshPort(svcs, ports, made)
  PROVE  /\ currentPort' \in Endpoints \cup {0}
         /\ PortRight(currentPort', svcs, ports)
         /\ calls' \in Seq(Call)
<1>1. currentPort' = AdvertisedPort(svcs, ports)
  BY DEF RefreshPort
<1>2. currentPort' \in Endpoints \cup {0} /\ PortRight(currentPort', svcs, ports)
  BY <1>1, ScanIsRight
<1>3. Discovered(currentPort') \in Call
  BY <1>2 DEF Discovered, Call
<1>4. calls' \in {made, Append(made, Discovered(currentPort'))}
  BY DEF RefreshPort
<1>5. Append(made, Discovered(currentPort')) \in Seq(Call)
  BY <1>3, AppendProperties
<1>6. QED
  BY <1>2, <1>4, <1>5

(* resolveNext keeps a running request, or makes one that is live, or      *)
(* leaves the queue empty.                                                 *)
Requested(objs, busy, pending) ==
  /\ resolveQueue' \in Seq(1..Len(objs))
  /\ \/ busy = TRUE /\ resolving' = TRUE /\ outstanding' = pending
     \/ busy = FALSE /\ resolving' = FALSE /\ outstanding' = pending /\ resolveQueue' = <<>>
     \/ /\ busy = FALSE /\ resolving' = TRUE
        /\ \E id \in 1..Len(objs) :
             Current(objs[id].expected) /\ outstanding' = pending \cup {id}

LEMMA NextRequest ==
  ASSUME NEW objs \in Seq(Object), NEW svcs \in [ServiceKeys -> Nat],
         NEW queue \in Seq(1..Len(objs)), NEW busy \in BOOLEAN,
         NEW pending \in SUBSET (1..Len(objs)),
         ResolveNext(objs, svcs, queue, busy, pending)
  PROVE  Requested(objs, busy, pending)
<1> DEFINE live == {i \in DOMAIN queue : Live(objs, svcs, queue[i])}
           i == FirstOf(live)
<1>1. DOMAIN queue = 1..Len(queue) /\ Len(queue) \in Nat
  BY LenProperties
<1>2. CASE busy \/ live = {}
  BY <1>2, EmptySeq DEF ResolveNext, Requested
<1>3. CASE ~(busy \/ live = {})
  <2>1. live \in SUBSET Nat
    BY <1>1
  <2>2. i \in live
    BY <1>3, <2>1, FirstIsMember
  <2>3. i \in 1..Len(queue) /\ Live(objs, svcs, queue[i]) /\ queue[i] \in 1..Len(objs)
    BY <1>1, <2>2, ElementOfSeq
  <2>4. /\ resolveQueue' = SubSeq(queue, i + 1, Len(queue))
        /\ resolving' = TRUE
        /\ outstanding' = pending \cup {queue[i]}
    BY <1>3 DEF ResolveNext
  <2> HIDE DEF i
  <2>5. i + 1 \in Int /\ Len(queue) \in Int
        /\ \A j \in (i + 1)..Len(queue) : queue[j] \in 1..Len(objs)
    BY <1>1, <2>3, ElementOfSeq
  <2>6. SubSeq(queue, i + 1, Len(queue)) \in Seq(1..Len(objs))
    BY <2>5, SubSeqProperties
  <2>7. QED
    BY <1>3, <2>3, <2>4, <2>6 DEF Live, Requested
<1>4. QED
  BY <1>2, <1>3

LEMMA StartingReports ==
  ASSUME NEW r, NEW g \in Nat, NEW made \in Seq(Call), StartDiscovery(r, made, g)
  PROVE  /\ revision' = r
         /\ listener' \in {"none", "starting"}
         /\ calls' \in Seq(Call)
<1>1. [Failed EXCEPT !.generation = g] \in Call
  BY DEF Failed, Call
<1>2. QED
  BY <1>1, AppendProperties DEF StartDiscovery

-----------------------------------------------------------------------------
LEMMA TypesTogether ==
  /\ LooperTyped /\ FoundTyped => TypeOK
  /\ Init => LooperTyped /\ FoundTyped
<1>1. ASSUME FoundTyped
      PROVE  DOMAIN object = 1..Len(object)
  BY <1>1, LenProperties DEF FoundTyped
<1>2. LooperTyped /\ FoundTyped => TypeOK
  BY <1>1 DEF LooperTyped, FoundTyped, TypeOK, Call
<1>3. ASSUME Init
      PROVE  LooperTyped /\ FoundTyped
  <2>1. /\ inbox \in Seq([generation : Nat, enabled : BOOLEAN])
        /\ calls \in Seq(Call) /\ object \in Seq(Object)
    BY <1>3, EmptySeq DEF Init
  <2>2. Len(object) = 0 /\ resolveQueue \in Seq(1..Len(object))
    BY <1>3, EmptySeq DEF Init
  <2>3. /\ services \in [ServiceKeys -> 0..Len(object)]
        /\ servicePort \in [ServiceKeys -> Endpoints \cup {0}]
    <3>1. services = Absent /\ servicePort = Absent
      BY <1>3 DEF Init
    <3>2. QED
      BY <3>1, <2>2 DEF Absent
  <2>4. resolving \in BOOLEAN /\ enabled \in BOOLEAN
    BY <1>3, Zenon DEF Init
  <2>5. FoundTyped
    <3>1. outstanding = {} /\ subscriptions = {} /\ currentPort = 0
      BY <1>3 DEF Init
    <3>2. QED
      BY <3>1, <2>1, <2>2, <2>3, <2>4 DEF FoundTyped
  <2>6. LooperTyped
    <3>1. generation = 0 /\ revision = 0 /\ listener = "none" /\ retries = 0 /\ timers = {}
      BY <1>3 DEF Init
    <3>2. QED
      BY <2>1, <2>4, <3>1 DEF LooperTyped
  <2>7. QED
    BY <2>5, <2>6
<1>4. QED
  BY <1>2, <1>3

LEMMA Initially == Init => IInv
<1>1. ASSUME Init
      PROVE  FoundRight
  BY <1>1, EmptySeq DEF Init, FoundRight, ServicesAreCurrent, PortIsAdvertised,
     NoLeakedSubscription, ObjectsArePast, FiledByKey, RequestsCounted, LiveRequests,
     FoundAfterStart, RetryIsDue, Absent
<1>2. QED
  BY <1>1, TypesTogether DEF IInv

(* A step that leaves what was found, the revision and the listener alone. *)
LEMMA FoundUnchanged ==
  ASSUME IInv, LooperTyped',
         UNCHANGED <<found, enabled, revision, listener, timers>>
  PROVE  IInv'
<1>1. UNCHANGED <<object, services, servicePort, resolveQueue, resolving, outstanding,
                  subscriptions, currentPort, enabled, revision, listener, timers>>
  BY DEF found, table, resolver
<1>2. FoundTyped'
  BY <1>1 DEF IInv, FoundTyped
<1>3. FoundRight'
  BY <1>1 DEF IInv, FoundRight, ServicesAreCurrent, PortIsAdvertised,
     NoLeakedSubscription, ObjectsArePast, FiledByKey, RequestsCounted, LiveRequests,
     FoundAfterStart, RetryIsDue
<1>4. QED
  BY <1>2, <1>3 DEF IInv

(* stopDiscovery with a new revision: nothing is left of the old one.      *)
LEMMA Restarted ==
  ASSUME IInv, LooperTyped', ForgetServices, timers' = timers,
         revision' > revision, listener' # "started"
  PROVE  IInv'
<1>1. /\ services' = Absent /\ servicePort' = Absent /\ subscriptions' = {}
      /\ resolveQueue' = <<>> /\ resolving' = FALSE /\ currentPort' = 0
      /\ object' = object /\ outstanding' = outstanding
  <2>1. \A id \in subscriptions : object[id].key \in ServiceKeys
    <3> SUFFICES ASSUME NEW id \in subscriptions PROVE object[id].key \in ServiceKeys
      OBVIOUS
    <3>1. object[id] \in Object
      BY ElementOfSeq DEF IInv, FoundTyped
    <3>2. QED
      BY <3>1 DEF Object
  <2>2. \A id \in subscriptions : id \in {services[k] : k \in ServiceKeys}
    BY <2>1 DEF IInv, FoundRight, NoLeakedSubscription
  <2>3. QED
    BY <2>2 DEF ForgetServices, Close
<1>2. /\ revision \in Nat /\ revision' \in Nat /\ timers' \subseteq 1..revision
      /\ \A id \in 1..Len(object) : object[id].expected \in 1..revision
      /\ outstanding \subseteq 1..Len(object)
  BY DEF IInv, LooperTyped, FoundTyped, FoundRight, ObjectsArePast
<1>3. FoundTyped'
  <2>1. <<>> \in Seq(1..Len(object))
    BY EmptySeq
  <2>2. object \in Seq(Object) /\ Len(object) \in Nat
    BY LenProperties DEF IInv, FoundTyped
  <2>3. /\ services' \in [ServiceKeys -> 0..Len(object)]
        /\ servicePort' \in [ServiceKeys -> Endpoints \cup {0}]
    BY <1>1, <2>2 DEF Absent
  <2>4. QED
    BY <1>1, <1>2, <2>1, <2>2, <2>3 DEF FoundTyped
<1>4. ServicesAreCurrent' /\ PortIsAdvertised' /\ NoLeakedSubscription' /\ FiledByKey'
  BY <1>1 DEF ServicesAreCurrent, PortIsAdvertised, NoLeakedSubscription, FiledByKey, Absent
<1>5. ObjectsArePast' /\ RetryIsDue'
  BY <1>1, <1>2 DEF ObjectsArePast, RetryIsDue
<1>6. RequestsCounted' /\ FoundAfterStart'
  <2>1. LiveRequests' = {}
    <3>1. ASSUME NEW id \in outstanding
          PROVE  object[id].expected # revision'
      BY <1>2
    <3>2. QED
      BY <1>1, <3>1 DEF LiveRequests
  <2>2. QED
    BY <1>1, <2>1 DEF RequestsCounted, FoundAfterStart
<1>7. QED
  BY <1>3, <1>4, <1>5, <1>6 DEF IInv, FoundRight

LEMMA UpdateKeeps ==
  ASSUME IInv, Update
  PROVE  IInv'
<1> DEFINE next == Head(inbox)
<1>1. /\ inbox \in Seq([generation : Nat, enabled : BOOLEAN]) /\ inbox # <<>>
      /\ next \in [generation : Nat, enabled : BOOLEAN]
      /\ inbox' \in Seq([generation : Nat, enabled : BOOLEAN])
  BY HeadTailProperties DEF IInv, LooperTyped, Update
<1>2. /\ generation \in Nat /\ enabled \in BOOLEAN /\ revision \in Nat
      /\ calls \in Seq(Call) /\ timers' = timers /\ timers \subseteq 1..revision
  BY DEF IInv, LooperTyped, Update
<1>3. <<>> \in Seq(Call)
  BY EmptySeq
<1>4. CASE next.generation < generation
  <2>1. UNCHANGED <<lifetime, revision, listener, found, calls>>
    BY <1>4 DEF Update
  <2>2. LooperTyped'
    BY <1>1, <1>2, <2>1 DEF IInv, LooperTyped, lifetime
  <2>3. QED
    BY <1>2, <2>1, <2>2, FoundUnchanged DEF lifetime
<1>5. CASE ~(next.generation < generation)
  <2>1. /\ ForgetServices /\ generation' = next.generation /\ enabled' = next.enabled
        /\ retries' = 0
    BY <1>5 DEF Update, Forget
  <2>2. /\ revision' \in Nat /\ revision' > revision
        /\ listener' \in {"none", "starting"} /\ calls' \in Seq(Call)
    <3>1. CASE StartDiscovery(revision + 2, <<>>, next.generation)
      <4>1. revision' = revision + 2 /\ listener' \in {"none", "starting"} /\ calls' \in Seq(Call)
        BY <1>1, <1>3, <3>1, StartingReports
      <4>2. QED
        BY <1>2, <4>1
    <3>2. CASE revision' = revision + 1 /\ listener' = "none" /\ calls' = calls
      BY <1>2, <3>2
    <3>3. QED
      BY <1>5, <3>1, <3>2 DEF Update
  <2>3. LooperTyped'
    BY <1>1, <1>2, <2>1, <2>2 DEF LooperTyped
  <2>4. QED
    BY <1>2, <2>1, <2>2, <2>3, Restarted
<1>6. QED
  BY <1>4, <1>5

LEMMA NetworkChangedKeeps ==
  ASSUME IInv, NEW g, NetworkChanged(g)
  PROVE  IInv'
<1>1. /\ generation \in Nat /\ revision \in Nat /\ timers \subseteq 1..revision
      /\ timers' = timers /\ retries' = 0 /\ ForgetServices
      /\ UNCHANGED <<inbox, generation, enabled>>
  BY DEF IInv, LooperTyped, NetworkChanged, Forget
<1>2. LossReport \in Seq(Call)
  BY <1>1 DEF LossReport, Discovered, Call
<1>3. revision' = revision + 2 /\ listener' \in {"none", "starting"} /\ calls' \in Seq(Call)
  BY <1>1, <1>2, StartingReports DEF NetworkChanged
<1>4. LooperTyped'
  BY <1>1, <1>3 DEF IInv, LooperTyped
<1>5. QED
  BY <1>1, <1>3, <1>4, Restarted

LEMMA DiscoveryStartedKeeps ==
  ASSUME IInv, DiscoveryStarted
  PROVE  IInv'
<1>1. /\ listener = "starting" /\ listener' = "started"
      /\ UNCHANGED <<inbox, generation, enabled, retries, revision, timers, calls,
                    object, services, servicePort, resolveQueue, resolving,
                    outstanding, subscriptions, currentPort>>
  BY DEF DiscoveryStarted, lifetime, found, table, resolver
<1>2. LooperTyped' /\ FoundTyped'
  BY <1>1 DEF IInv, LooperTyped, FoundTyped
<1>3. FoundRight'
  BY <1>1 DEF IInv, FoundRight, ServicesAreCurrent, PortIsAdvertised,
     NoLeakedSubscription, ObjectsArePast, FiledByKey, RequestsCounted, LiveRequests,
     FoundAfterStart, RetryIsDue
<1>4. QED
  BY <1>2, <1>3 DEF IInv

LEMMA StartFailedKeeps ==
  ASSUME IInv, NEW r \in 1..revision, StartFailed(r)
  PROVE  IInv'
<1>1. /\ listener = "starting" /\ listener' = "none" /\ r = revision
      /\ timers' \subseteq timers \cup {r} /\ calls' = <<Failed>>
      /\ retries' = IF retries < 2 THEN retries + 1 ELSE retries
      /\ UNCHANGED <<inbox, generation, enabled, revision,
                    object, services, servicePort, resolveQueue, resolving,
                    outstanding, subscriptions, currentPort>>
  BY DEF StartFailed, Current, RetryLeft, found, table, resolver
<1>2. Failed \in Call
  BY DEF IInv, LooperTyped, Failed, Call
<1>3. calls' \in Seq(Call)
  BY <1>1, <1>2
<1>4. LooperTyped' /\ FoundTyped'
  BY <1>1, <1>3 DEF IInv, LooperTyped, FoundTyped
<1>5. FoundRight'
  BY <1>1 DEF IInv, FoundRight, ServicesAreCurrent, PortIsAdvertised,
     NoLeakedSubscription, ObjectsArePast, FiledByKey, RequestsCounted, LiveRequests,
     FoundAfterStart, RetryIsDue
<1>6. QED
  BY <1>4, <1>5 DEF IInv

(* What was found stays, for there is nothing.                             *)
LEMMA RetryTimerKeeps ==
  ASSUME IInv, NEW r, RetryTimer(r)
  PROVE  IInv'
<1>1. /\ r \in timers /\ timers' = timers \ {r}
      /\ UNCHANGED <<inbox, generation, enabled, retries,
                    object, services, servicePort, resolveQueue, resolving,
                    outstanding, subscriptions, currentPort>>
  BY DEF RetryTimer, lifetime, found, table, resolver
<1>2. FoundTyped'
  BY <1>1 DEF IInv, FoundTyped
<1>3. CASE Current(r)
  <2>1. StartDiscovery(revision + 1, <<>>, generation) /\ r = revision /\ listener = "none"
    BY <1>1, <1>3 DEF RetryTimer, Current, IInv, FoundRight, RetryIsDue
  <2>2. <<>> \in Seq(Call) /\ generation \in Nat
    BY EmptySeq DEF IInv, LooperTyped
  <2>3. /\ revision' = revision + 1 /\ listener' \in {"none", "starting"}
        /\ calls' \in Seq(Call)
    BY <2>1, <2>2, StartingReports
  <2>4. LooperTyped'
    BY <1>1, <2>3 DEF IInv, LooperTyped
  <2>5. /\ services = Absent /\ ~resolving /\ resolveQueue = <<>>
        /\ revision \in Nat /\ timers \subseteq 1..revision
        /\ \A id \in 1..Len(object) : object[id].expected \in 1..revision
        /\ outstanding \subseteq 1..Len(object)
    BY <2>1 DEF IInv, LooperTyped, FoundTyped, FoundRight, FoundAfterStart,
       RequestsCounted, ObjectsArePast
  <2>6. ServicesAreCurrent' /\ PortIsAdvertised' /\ NoLeakedSubscription' /\ FiledByKey'
    BY <1>1, <2>5 DEF IInv, FoundRight, ServicesAreCurrent, PortIsAdvertised,
       NoLeakedSubscription, FiledByKey, Absent
  <2>7. ObjectsArePast' /\ RetryIsDue'
    BY <1>1, <2>3, <2>5 DEF ObjectsArePast, RetryIsDue
  <2>8. LiveRequests' = {}
    <3>1. ASSUME NEW id \in outstanding
          PROVE  object[id].expected # revision'
      BY <2>3, <2>5
    <3>2. QED
      BY <1>1, <3>1 DEF LiveRequests
  <2>9. RequestsCounted' /\ FoundAfterStart'
    BY <1>1, <2>5, <2>8 DEF RequestsCounted, FoundAfterStart, Absent
  <2>10. QED
    BY <1>2, <2>4, <2>6, <2>7, <2>9 DEF IInv, FoundRight
<1>4. CASE ~Current(r)
  <2>1. UNCHANGED <<revision, listener, calls>>
    BY <1>4 DEF RetryTimer
  <2>2. LooperTyped'
    BY <1>1, <2>1 DEF IInv, LooperTyped
  <2>3. FoundRight'
    BY <1>1, <2>1 DEF IInv, FoundRight, ServicesAreCurrent, PortIsAdvertised,
       NoLeakedSubscription, ObjectsArePast, FiledByKey, RequestsCounted, LiveRequests,
       FoundAfterStart, RetryIsDue
  <2>4. QED
    BY <1>2, <2>2, <2>3 DEF IInv
<1>5. QED
  BY <1>3, <1>4

-----------------------------------------------------------------------------
(* The table.                                                              *)

LEMMA ServiceFoundKeeps ==
  ASSUME IInv, NEW r \in 1..revision, NEW k \in ServiceKeys, ServiceFound(r, k)
  PROVE  IInv'
<1> DEFINE id == Len(object) + 1
           objs == Append(object, [key |-> k, expected |-> r])
           svcs == [services EXCEPT ![k] = id]
<1>1. /\ r = revision /\ enabled /\ listener = "started" /\ services[k] = 0
      /\ object' = objs /\ services' = svcs
      /\ servicePort' = [servicePort EXCEPT ![k] = 0]
      /\ UNCHANGED <<inbox, generation, enabled, retries, revision, listener, timers,
                    currentPort, calls>>
  BY DEF ServiceFound, Current, lifetime
<1>2. /\ object \in Seq(Object) /\ Len(object) \in Nat /\ revision \in Nat
      /\ [key |-> k, expected |-> r] \in Object
  BY <1>1, LenProperties DEF IInv, FoundTyped, LooperTyped, Object
<1>3. /\ objs \in Seq(Object) /\ Len(objs) = id
      /\ \A i \in 1..Len(object) : objs[i] = object[i]
      /\ objs[id] = [key |-> k, expected |-> r]
  BY <1>2, AppendProperties
<1> HIDE DEF objs
<1>4. /\ services \in [ServiceKeys -> 0..Len(object)]
      /\ servicePort \in [ServiceKeys -> Endpoints \cup {0}]
      /\ outstanding \subseteq 1..Len(object) /\ subscriptions \subseteq 1..Len(object)
  BY DEF IInv, FoundTyped
<1>5. svcs \in [ServiceKeys -> 0..id] /\ svcs \in [ServiceKeys -> Nat]
  BY <1>2, <1>4
<1>6. resolveQueue \in Seq(1..Len(object)) /\ resolving \in BOOLEAN
  BY DEF IInv, FoundTyped
<1>7. resolveQueue \in Seq(1..id) /\ Append(resolveQueue, id) \in Seq(1..id)
  <2>1. 1..Len(object) \subseteq 1..id /\ id \in 1..id
    BY <1>2
  <2>2. resolveQueue \in Seq(1..id)
    BY <1>6, <2>1, SeqMonotonic
  <2>3. QED
    BY <2>1, <2>2, AppendProperties
<1>8. /\ subscriptions' \subseteq subscriptions \cup {id}
      /\ resolveQueue' \in Seq(1..id) /\ resolving' \in BOOLEAN
      /\ \/ UNCHANGED <<resolving, outstanding>> /\ resolving
         \/ /\ ~resolving /\ resolving' = FALSE /\ outstanding' = outstanding
            /\ resolveQueue' = <<>>
         \/ /\ ~resolving /\ resolving' = TRUE
            /\ \E i \in 1..id : Current(objs[i].expected) /\ outstanding' = outstanding \cup {i}
  <2>1. CASE subscribing
    <3>1. subscriptions' = subscriptions \cup {id} /\ UNCHANGED resolver
      BY <2>1 DEF ServiceFound
    <3>2. ~resolving => resolveQueue = <<>>
      BY DEF IInv, FoundRight, RequestsCounted
    <3>3. QED
      BY <1>6, <1>7, <3>1, <3>2 DEF resolver
  <2>2. CASE ~subscribing
    <3>1. /\ ResolveNext(objs, svcs, Append(resolveQueue, id), resolving, outstanding)
          /\ UNCHANGED subscriptions
      BY <2>2 DEF ServiceFound, objs
    <3>2. outstanding \in SUBSET (1..Len(objs))
      BY <1>2, <1>3, <1>4
    <3>3. Append(resolveQueue, id) \in Seq(1..Len(objs))
      BY <1>3, <1>7
    <3> HIDE DEF svcs
    <3>4. Requested(objs, resolving, outstanding)
      BY <1>3, <1>5, <1>6, <3>1, <3>2, <3>3, NextRequest
    <3>5. QED
      BY <1>3, <3>1, <3>4 DEF Requested
  <2>3. QED
    BY <2>1, <2>2
<1>9. LooperTyped'
  BY <1>1 DEF IInv, LooperTyped
<1>10. FoundTyped'
  <2>1. outstanding' \subseteq 1..id /\ subscriptions' \subseteq 1..id
    <3>1. 1..Len(object) \subseteq 1..id /\ id \in 1..id
      BY <1>2
    <3>2. subscriptions' \subseteq 1..id
      BY <1>4, <1>8, <3>1
    <3>3. outstanding' \subseteq 1..id
      BY <1>4, <1>8, <3>1
    <3>4. QED
      BY <3>2, <3>3
  <2>2. servicePort' \in [ServiceKeys -> Endpoints \cup {0}]
    BY <1>1, <1>4
  <2>3. QED
    BY <1>1, <1>3, <1>5, <1>8, <2>1, <2>2 DEF IInv, FoundTyped
<1>11. ServicesAreCurrent' /\ FiledByKey'
  <2>1. ASSUME NEW j \in ServiceKeys, services'[j] # 0
        PROVE  object'[services'[j]].expected = revision /\ object'[services'[j]].key = j
    <3>1. CASE j = k
      BY <1>1, <1>3, <1>4, <3>1
    <3>2. CASE j # k
      <4>1. services'[j] = services[j] /\ services[j] \in 1..Len(object)
        BY <1>1, <1>2, <1>4, <2>1, <3>2
      <4>2. QED
        BY <1>1, <1>3, <2>1, <4>1 DEF IInv, FoundRight, ServicesAreCurrent, FiledByKey
    <3>3. QED
      BY <3>1, <3>2
  <2>2. QED
    BY <1>1, <2>1 DEF ServicesAreCurrent, FiledByKey
<1>12. PortIsAdvertised'
  <2>1. PortRight(currentPort, services, servicePort)
    BY PortRightIsAdvertised DEF IInv, FoundRight
  <2>2. PortRight(currentPort, services', servicePort')
    BY <1>1, <1>4, <2>1 DEF PortRight
  <2>3. QED
    BY <1>1, <2>2, PortRightIsAdvertised
<1>13. NoLeakedSubscription'
  <2>1. ASSUME NEW i \in subscriptions
        PROVE  services'[object'[i].key] = i
    <3>1. i \in 1..Len(object) /\ services[object[i].key] = i /\ object[i].key \in ServiceKeys
      <4>1. i \in 1..Len(object) /\ object[i] \in Object
        BY <1>2, <1>4, ElementOfSeq
      <4>2. QED
        BY <4>1 DEF IInv, FoundRight, NoLeakedSubscription, Object
    <3>2. object[i].key # k
      BY <1>1, <1>2, <3>1
    <3>3. QED
      BY <1>1, <1>3, <1>4, <3>1, <3>2
  <2>2. services'[object'[id].key] = id
    BY <1>1, <1>3, <1>4
  <2>3. QED
    BY <1>8, <2>1, <2>2 DEF NoLeakedSubscription
<1>14. ObjectsArePast'
  <2>1. \A i \in 1..Len(object) : objs[i].expected \in 1..revision
    BY <1>3 DEF IInv, FoundRight, ObjectsArePast
  <2>2. \A i \in 1..id : i \in 1..Len(object) \/ i = id
    BY <1>2
  <2>3. QED
    BY <1>1, <1>3, <2>1, <2>2 DEF ObjectsArePast
<1>15. RequestsCounted'
  <2>1. \A i \in outstanding : objs[i].expected = object[i].expected
    BY <1>3, <1>4
  <2>2. LiveRequests = {i \in outstanding : objs[i].expected = revision}
    BY <1>1, <2>1 DEF LiveRequests
  <2>3. LiveRequests' = {i \in outstanding' : objs[i].expected = revision}
    BY <1>1 DEF LiveRequests
  <2>4. CASE resolving /\ UNCHANGED <<resolving, outstanding>>
    BY <2>2, <2>3, <2>4 DEF IInv, FoundRight, RequestsCounted
  <2>5. CASE ~resolving /\ resolving' = FALSE /\ outstanding' = outstanding /\ resolveQueue' = <<>>
    BY <2>2, <2>3, <2>5 DEF IInv, FoundRight, RequestsCounted
  <2>6. ASSUME ~resolving, resolving' = TRUE, NEW i \in 1..id, Current(objs[i].expected),
               outstanding' = outstanding \cup {i}
        PROVE  RequestsCounted'
    <3>1. LiveRequests = {}
      BY <2>6 DEF IInv, FoundRight, RequestsCounted
    <3>2. LiveRequests' = {i}
      BY <2>2, <2>3, <2>6, <3>1 DEF Current
    <3>3. QED
      BY <2>6, <3>2 DEF RequestsCounted
  <2>7. QED
    BY <1>8, <2>4, <2>5, <2>6
<1>16. FoundAfterStart' /\ RetryIsDue'
  BY <1>1 DEF IInv, FoundRight, FoundAfterStart, RetryIsDue
<1>17. QED
  BY <1>9, <1>10, <1>11, <1>12, <1>13, <1>14, <1>15, <1>16 DEF IInv, FoundRight

LEMMA ServiceLostKeeps ==
  ASSUME IInv, NEW r, NEW k \in ServiceKeys, ServiceLost(r, k)
  PROVE  IInv'
<1> DEFINE svcs == [services EXCEPT ![k] = 0]
           ports == [servicePort EXCEPT ![k] = 0]
<1>1. /\ services[k] # 0 /\ services' = svcs /\ servicePort' = ports
      /\ subscriptions' = subscriptions \ {services[k]}
      /\ RefreshPort(svcs, ports, <<>>) /\ enabled
      /\ UNCHANGED <<inbox, generation, enabled, retries, revision, listener, timers,
                    object, resolveQueue, resolving, outstanding>>
  BY DEF ServiceLost, Current, Close, lifetime, resolver
<1>2. /\ services \in [ServiceKeys -> 0..Len(object)]
      /\ servicePort \in [ServiceKeys -> Endpoints \cup {0}]
      /\ object \in Seq(Object) /\ Len(object) \in Nat /\ generation \in Nat
      /\ subscriptions \subseteq 1..Len(object)
  BY LenProperties DEF IInv, FoundTyped, LooperTyped
<1>3. /\ svcs \in [ServiceKeys -> 0..Len(object)] /\ svcs \in [ServiceKeys -> Nat]
      /\ ports \in [ServiceKeys -> Endpoints \cup {0}]
  BY <1>2
<1>4. /\ currentPort' \in Endpoints \cup {0} /\ calls' \in Seq(Call)
      /\ PortRight(currentPort', svcs, ports)
  <2>1. <<>> \in Seq(Call)
    BY EmptySeq
  <2> HIDE DEF svcs, ports
  <2>2. QED
    BY <1>1, <1>2, <1>3, <2>1, RefreshIsRight
<1>5. LooperTyped' /\ FoundTyped'
  BY <1>1, <1>2, <1>3, <1>4 DEF IInv, LooperTyped, FoundTyped
<1>6. PortIsAdvertised'
  BY <1>1, <1>4, PortRightIsAdvertised
<1>7. ServicesAreCurrent' /\ FiledByKey' /\ ObjectsArePast'
  BY <1>1, <1>2 DEF IInv, FoundRight, ServicesAreCurrent, FiledByKey, ObjectsArePast
<1>8. NoLeakedSubscription'
  <2>1. ASSUME NEW i \in subscriptions, i # services[k]
        PROVE  services'[object[i].key] = i
    <3>1. services[object[i].key] = i /\ object[i].key \in ServiceKeys
      <4>1. object[i] \in Object
        BY <1>2, ElementOfSeq
      <4>2. QED
        BY <4>1 DEF IInv, FoundRight, NoLeakedSubscription, Object
    <3>2. QED
      BY <1>1, <1>2, <2>1, <3>1
  <2>2. QED
    BY <1>1, <2>1 DEF NoLeakedSubscription
<1>9. RequestsCounted' /\ RetryIsDue'
  BY <1>1 DEF IInv, FoundRight, RequestsCounted, LiveRequests, RetryIsDue
<1>10. FoundAfterStart'
  <2>1. listener = "started"
    BY <1>1 DEF IInv, FoundRight, FoundAfterStart, Absent
  <2>2. QED
    BY <1>1, <2>1 DEF FoundAfterStart
<1>11. QED
  BY <1>5, <1>6, <1>7, <1>8, <1>9, <1>10 DEF IInv, FoundRight

(* update of an active object: a port is noted and the scan made again.    *)
LEMMA ObjectUpdated ==
  ASSUME IInv, NEW id \in 1..Len(object), NEW p \in Endpoints \cup {0, Uninspected},
         ActiveObject(id), UpdateObject(id, p),
         UNCHANGED services
  PROVE  /\ servicePort' \in [ServiceKeys -> Endpoints \cup {0}]
         /\ currentPort' \in Endpoints \cup {0} /\ calls' \in Seq(Call)
         /\ PortIsAdvertised'
<1> DEFINE noted == IF p = Uninspected THEN 0 ELSE p
           ports == [servicePort EXCEPT ![object[id].key] = noted]
           made == IF p = Uninspected THEN <<Failed>> ELSE <<>>
<1>1. servicePort' = ports /\ RefreshPort(services, ports, made)
  BY DEF UpdateObject
<1>2. /\ services \in [ServiceKeys -> Nat] /\ generation \in Nat
      /\ servicePort \in [ServiceKeys -> Endpoints \cup {0}]
  <2>1. object \in Seq(Object) /\ Len(object) \in Nat
    BY LenProperties DEF IInv, FoundTyped
  <2>2. QED
    BY <2>1 DEF IInv, FoundTyped, LooperTyped
<1>3. ports \in [ServiceKeys -> Endpoints \cup {0}]
  <2>1. noted \in Endpoints \cup {0}
    OBVIOUS
  <2>2. QED
    BY <1>2, <2>1
<1>4. made \in Seq(Call)
  <2>1. Failed \in Call
    BY <1>2 DEF Failed, Call
  <2>2. <<Failed>> \in Seq(Call) /\ <<>> \in Seq(Call)
    BY <2>1, EmptySeq
  <2>3. QED
    BY <2>2
<1> HIDE DEF ports, made
<1>5. /\ currentPort' \in Endpoints \cup {0} /\ calls' \in Seq(Call)
      /\ PortRight(currentPort', services, ports)
  BY <1>1, <1>2, <1>3, <1>4, RefreshIsRight
<1>6. QED
  BY <1>1, <1>3, <1>5, PortRightIsAdvertised

(* A request of the present discovery ends and the next one is made.       *)
LEMMA RequestEnded ==
  ASSUME IInv, NEW id \in outstanding, Current(object[id].expected),
         ResolveNext(object, services, resolveQueue, FALSE, outstanding \ {id}),
         UNCHANGED <<object, enabled, revision>>
  PROVE  /\ resolveQueue' \in Seq(1..Len(object)) /\ resolving' \in BOOLEAN
         /\ outstanding' \subseteq 1..Len(object)
         /\ RequestsCounted' /\ listener = "started"
<1>1. id \in LiveRequests /\ enabled
  BY DEF LiveRequests, Current
<1>2. resolving /\ LiveRequests = {id} /\ listener = "started"
  BY <1>1 DEF IInv, FoundRight, RequestsCounted, FoundAfterStart
<1>3. /\ object \in Seq(Object) /\ Len(object) \in Nat
      /\ resolveQueue \in Seq(1..Len(object))
      /\ outstanding \subseteq 1..Len(object)
  BY LenProperties DEF IInv, FoundTyped
<1>4. services \in [ServiceKeys -> Nat]
  BY <1>3 DEF IInv, FoundTyped
<1>5. (outstanding \ {id}) \in SUBSET (1..Len(object)) /\ FALSE \in BOOLEAN
  BY <1>3
<1>6. Requested(object, FALSE, outstanding \ {id})
  BY <1>3, <1>4, <1>5, NextRequest
<1>7. resolveQueue' \in Seq(1..Len(object))
  BY <1>6 DEF Requested
<1>8. {i \in outstanding \ {id} : enabled /\ object[i].expected = revision} = {}
  BY <1>2 DEF LiveRequests
<1>9. CASE resolving' = FALSE /\ outstanding' = outstanding \ {id} /\ resolveQueue' = <<>>
  <2>1. LiveRequests' = {}
    BY <1>8, <1>9 DEF LiveRequests
  <2>2. RequestsCounted'
    BY <1>9, <2>1 DEF RequestsCounted
  <2>3. QED
    BY <1>2, <1>3, <1>7, <1>9, <2>2
<1>10. ASSUME resolving' = TRUE, NEW i \in 1..Len(object), Current(object[i].expected),
              outstanding' = (outstanding \ {id}) \cup {i}
       PROVE  /\ resolving' \in BOOLEAN /\ outstanding' \subseteq 1..Len(object)
              /\ RequestsCounted'
  <2>1. LiveRequests' = {i}
    BY <1>8, <1>10 DEF LiveRequests, Current
  <2>2. RequestsCounted'
    BY <1>10, <2>1 DEF RequestsCounted
  <2>3. QED
    BY <1>3, <1>10, <2>2
<1>11. QED
  BY <1>2, <1>6, <1>7, <1>9, <1>10 DEF Requested

LEMMA InfoUpdatedKeeps ==
  ASSUME IInv, NEW id \in 1..Len(object), NEW p \in Endpoints \cup {0, Uninspected},
         InfoUpdated(id, p)
  PROVE  IInv'
<1>1. /\ ActiveObject(id) /\ UpdateObject(id, p)
      /\ UNCHANGED <<inbox, generation, enabled, retries, revision, listener, timers,
                    object, services, resolveQueue, resolving, outstanding, subscriptions>>
  BY DEF InfoUpdated, lifetime, resolver
<1>2. /\ servicePort' \in [ServiceKeys -> Endpoints \cup {0}]
      /\ currentPort' \in Endpoints \cup {0} /\ calls' \in Seq(Call)
      /\ PortIsAdvertised'
  BY <1>1, ObjectUpdated
<1>3. LooperTyped' /\ FoundTyped'
  BY <1>1, <1>2 DEF IInv, LooperTyped, FoundTyped
<1>4. FoundRight'
  BY <1>1, <1>2 DEF IInv, FoundRight, ServicesAreCurrent, NoLeakedSubscription,
     ObjectsArePast, FiledByKey, RequestsCounted, LiveRequests, FoundAfterStart, RetryIsDue
<1>5. QED
  BY <1>3, <1>4 DEF IInv

LEMMA ResolvedKeeps ==
  ASSUME IInv, NEW id \in 1..Len(object), NEW p \in Endpoints \cup {0, Uninspected},
         Resolved(id, p)
  PROVE  IInv'
<1>1. /\ id \in outstanding /\ Current(object[id].expected)
      /\ ResolveNext(object, services, resolveQueue, FALSE, outstanding \ {id})
      /\ UNCHANGED <<inbox, generation, enabled, retries, revision, listener, timers,
                    object, services, subscriptions>>
  BY DEF Resolved, lifetime
<1>2. /\ resolveQueue' \in Seq(1..Len(object)) /\ resolving' \in BOOLEAN
      /\ outstanding' \subseteq 1..Len(object)
      /\ RequestsCounted' /\ listener = "started"
  BY <1>1, RequestEnded
<1>3. /\ servicePort' \in [ServiceKeys -> Endpoints \cup {0}]
      /\ currentPort' \in Endpoints \cup {0} /\ calls' \in Seq(Call)
      /\ PortIsAdvertised'
  <2>1. CASE ActiveObject(id) /\ UpdateObject(id, p)
    BY <1>1, <2>1, ObjectUpdated
  <2>2. CASE UNCHANGED <<servicePort, currentPort, calls>>
    BY <1>1, <2>2 DEF IInv, LooperTyped, FoundTyped, FoundRight, PortIsAdvertised
  <2>3. QED
    BY <2>1, <2>2 DEF Resolved
<1>4. LooperTyped' /\ FoundTyped'
  BY <1>1, <1>2, <1>3 DEF IInv, LooperTyped, FoundTyped
<1>5. FoundRight'
  BY <1>1, <1>2, <1>3 DEF IInv, FoundRight, ServicesAreCurrent, NoLeakedSubscription,
     ObjectsArePast, FiledByKey, FoundAfterStart, RetryIsDue
<1>6. QED
  BY <1>4, <1>5 DEF IInv

LEMMA ResolveFailedKeeps ==
  ASSUME IInv, NEW id \in 1..Len(object), ResolveFailed(id)
  PROVE  IInv'
<1>1. /\ id \in outstanding /\ Current(object[id].expected)
      /\ ResolveNext(object, services, resolveQueue, FALSE, outstanding \ {id})
      /\ calls' = <<Failed>>
      /\ UNCHANGED <<inbox, generation, enabled, retries, revision, listener, timers,
                    object, services, servicePort, subscriptions, currentPort>>
  BY DEF ResolveFailed, lifetime, table
<1>2. /\ resolveQueue' \in Seq(1..Len(object)) /\ resolving' \in BOOLEAN
      /\ outstanding' \subseteq 1..Len(object)
      /\ RequestsCounted' /\ listener = "started"
  BY <1>1, RequestEnded
<1>3. calls' \in Seq(Call)
  <2>1. Failed \in Call
    BY DEF IInv, LooperTyped, Failed, Call
  <2>2. QED
    BY <1>1, <2>1
<1>4. LooperTyped' /\ FoundTyped'
  BY <1>1, <1>2, <1>3 DEF IInv, LooperTyped, FoundTyped
<1>5. FoundRight'
  BY <1>1, <1>2 DEF IInv, FoundRight, ServicesAreCurrent, PortIsAdvertised,
     NoLeakedSubscription, ObjectsArePast, FiledByKey, FoundAfterStart, RetryIsDue
<1>6. QED
  BY <1>4, <1>5 DEF IInv

LEMMA InfoRegistrationFailedKeeps ==
  ASSUME IInv, NEW id, InfoRegistrationFailed(id)
  PROVE  IInv'
<1>1. /\ subscriptions' = subscriptions \ {id} /\ calls' = <<Failed>>
      /\ UNCHANGED <<inbox, generation, enabled, retries, revision, listener, timers,
                    object, services, servicePort, resolveQueue, resolving,
                    outstanding, currentPort>>
  BY DEF InfoRegistrationFailed, lifetime, table, resolver
<1>2. calls' \in Seq(Call)
  <2>1. Failed \in Call
    BY DEF IInv, LooperTyped, Failed, Call
  <2>2. QED
    BY <1>1, <2>1
<1>3. LooperTyped' /\ FoundTyped'
  BY <1>1, <1>2 DEF IInv, LooperTyped, FoundTyped
<1>4. FoundRight'
  BY <1>1 DEF IInv, FoundRight, ServicesAreCurrent, PortIsAdvertised,
     NoLeakedSubscription, ObjectsArePast, FiledByKey, RequestsCounted, LiveRequests,
     FoundAfterStart, RetryIsDue
<1>5. QED
  BY <1>3, <1>4 DEF IInv

LEMMA StaleResolveEndsKeeps ==
  ASSUME IInv, NEW id, StaleResolveEnds(id)
  PROVE  IInv'
<1>1. /\ id \in outstanding /\ ~Current(object[id].expected)
      /\ outstanding' = outstanding \ {id}
      /\ UNCHANGED <<inbox, generation, enabled, retries, revision, listener, timers,
                    object, services, servicePort, resolveQueue, resolving,
                    subscriptions, currentPort, calls>>
  BY DEF StaleResolveEnds, lifetime, table
<1>2. LooperTyped' /\ FoundTyped'
  BY <1>1 DEF IInv, LooperTyped, FoundTyped
<1>3. RequestsCounted'
  <2>1. LiveRequests' = LiveRequests
    BY <1>1 DEF LiveRequests, Current
  <2>2. QED
    BY <1>1, <2>1 DEF IInv, FoundRight, RequestsCounted, LiveRequests
<1>4. FoundRight'
  BY <1>1, <1>3 DEF IInv, FoundRight, ServicesAreCurrent, PortIsAdvertised,
     NoLeakedSubscription, ObjectsArePast, FiledByKey, FoundAfterStart, RetryIsDue
<1>5. QED
  BY <1>2, <1>4 DEF IInv

-----------------------------------------------------------------------------
(* The surroundings.                                                       *)

LEMMA PostUpdateKeeps ==
  ASSUME IInv, PostUpdate
  PROVE  IInv'
<1>1. PICK g \in 1..MaxUpdates, e \in BOOLEAN :
        /\ inbox' = Append(inbox, [generation |-> g, enabled |-> e])
        /\ UNCHANGED <<lifetime, revision, listener, timers, found, calls>>
  BY DEF PostUpdate
<1>2. [generation |-> g, enabled |-> e] \in [generation : Nat, enabled : BOOLEAN]
  BY DiscoveryAssumption
<1>3. inbox \in Seq([generation : Nat, enabled : BOOLEAN])
  BY DEF IInv, LooperTyped
<1>4. inbox' \in Seq([generation : Nat, enabled : BOOLEAN])
  BY <1>1, <1>2, <1>3, AppendProperties
<1>5. LooperTyped'
  BY <1>1, <1>4 DEF IInv, LooperTyped, lifetime
<1>6. QED
  BY <1>1, <1>5, FoundUnchanged DEF lifetime

LEMMA CallReturnsKeeps ==
  ASSUME IInv, CallReturns
  PROVE  IInv'
<1>1. /\ calls # <<>> /\ calls' = Tail(calls)
      /\ UNCHANGED <<inbox, lifetime, revision, listener, timers, found>>
  BY DEF CallReturns
<1>2. calls' \in Seq(Call)
  BY <1>1, HeadTailProperties DEF IInv, LooperTyped
<1>3. LooperTyped'
  BY <1>1, <1>2 DEF IInv, LooperTyped, lifetime
<1>4. QED
  BY <1>1, <1>3, FoundUnchanged DEF lifetime

LEMMA StepKeeps ==
  ASSUME IInv, [Next]_<<subscribing, vars>>
  PROVE  IInv'
<1>1. CASE UNCHANGED vars
  <2>1. UNCHANGED <<inbox, lifetime, revision, listener, timers, found, calls>>
    BY <1>1 DEF vars
  <2>2. LooperTyped'
    BY <2>1 DEF IInv, LooperTyped, lifetime
  <2>3. QED
    BY <2>1, <2>2, FoundUnchanged DEF lifetime
<1>2. CASE Looper
  <2>1. DOMAIN object = 1..Len(object)
    BY LenProperties DEF IInv, FoundTyped
  <2>2. CASE Update \/ DiscoveryStarted \/ \E g \in 1..generation : NetworkChanged(g)
    BY <2>2, UpdateKeeps, DiscoveryStartedKeeps, NetworkChangedKeeps
  <2>3. ASSUME NEW r \in 1..revision,
               StartFailed(r) \/ RetryTimer(r)
                 \/ \E k \in ServiceKeys : ServiceFound(r, k) \/ ServiceLost(r, k)
        PROVE  IInv'
    BY <2>3, StartFailedKeeps, RetryTimerKeeps, ServiceFoundKeeps, ServiceLostKeeps
  <2>4. ASSUME NEW id \in 1..Len(object),
               \/ \E p \in Endpoints \cup {0, Uninspected} : InfoUpdated(id, p) \/ Resolved(id, p)
               \/ InfoRegistrationFailed(id) \/ ResolveFailed(id) \/ StaleResolveEnds(id)
        PROVE  IInv'
    BY <2>4, InfoUpdatedKeeps, ResolvedKeeps, InfoRegistrationFailedKeeps,
       ResolveFailedKeeps, StaleResolveEndsKeeps
  <2>5. QED
    BY <1>2, <2>1, <2>2, <2>3, <2>4 DEF Looper
<1>3. QED
  BY <1>1, <1>2, PostUpdateKeeps, CallReturnsKeeps DEF Next

(* The invariant above holds of every behaviour.                           *)
THEOREM Inductive == Spec => []IInv
<1>1. Init => IInv
  BY Initially
<1>2. IInv /\ [Next]_<<subscribing, vars>> => IInv'
  BY StepKeeps
<1>3. QED
  BY <1>1, <1>2, PTL DEF Spec

(* Every field of the looper keeps its type.                               *)
THEOREM TypeCorrect == Spec => []TypeOK
<1>1. IInv => TypeOK
  BY TypesTogether DEF IInv
<1>2. QED
  BY <1>1, Inductive, PTL

(* Nothing found for an earlier network, generation or start is in the     *)
(* table, however late its callbacks come.                                 *)
THEOREM ServicesAreCurrentHolds == Spec => []ServicesAreCurrent
<1>1. IInv => ServicesAreCurrent
  BY DEF IInv, FoundRight
<1>2. QED
  BY <1>1, Inductive, PTL

(* The port shown is one a service in the table has, or none has one.      *)
THEOREM PortIsAdvertisedHolds == Spec => []PortIsAdvertised
<1>1. IInv => PortIsAdvertised
  BY DEF IInv, FoundRight
<1>2. QED
  BY <1>1, Inductive, PTL

(* No info callback stays registered for a service that is gone.           *)
THEOREM NoLeakedSubscriptionHolds == Spec => []NoLeakedSubscription
<1>1. IInv => NoLeakedSubscription
  BY DEF IInv, FoundRight
<1>2. QED
  BY <1>1, Inductive, PTL

(* The running discovery waits for one request or none, as resolving says. *)
THEOREM OneLiveResolveHolds == Spec => []OneLiveResolve
<1>1. IInv => OneLiveResolve
  <2>1. ASSUME IInv
        PROVE  /\ Cardinality(LiveRequests) = IF resolving THEN 1 ELSE 0
               /\ resolveQueue # <<>> => resolving
    <3>1. CASE resolving
      BY <2>1, <3>1, FS_Singleton DEF IInv, FoundRight, RequestsCounted
    <3>2. CASE ~resolving
      BY <2>1, <3>2, FS_EmptySet DEF IInv, FoundRight, RequestsCounted
    <3>3. QED
      BY <3>1, <3>2
  <2>2. QED
    BY <2>1 DEF OneLiveResolve, LiveRequests
<1>2. QED
  BY <1>1, Inductive, PTL
=============================================================================
