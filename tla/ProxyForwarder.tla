--------------------------- MODULE ProxyForwarder ---------------------------
(***************************************************************************)
(* One Proxy stream of the raw JNI service                                 *)
(* (grpc/server/jni_raw/proxy_stream.go, proxy_callback_forwarder.go and   *)
(* void_detector.go): JVM threads call methods of the proxied object; each *)
(* call becomes an event for the client, and a method that returns a value *)
(* blocks its thread until the client answers or the stream ends.          *)
(*                                                                         *)
(* Processes: the handler goroutine (creation of the proxy, receive loop,  *)
(* then its deferred calls in reverse order) and one thread per method     *)
(* call.  They share pending under pendingMu and the stream's send side    *)
(* under sendMu.                                                           *)
(*                                                                         *)
(* External: gRPC's stream, the JVM that makes calls while the proxy is    *)
(* registered, and the client.                                             *)
(***************************************************************************)
EXTENDS Integers, FiniteSets

CONSTANTS
  Calls,          (* method calls on the proxied object, one thread each    *)
  Valued,         (* those whose method returns a value                     *)
  Nobody,         (* no holder of a mutex                                   *)
  MaxResponses    (* bound: responses the client sends for one call         *)

ASSUME ProxyAssumption ==
  /\ Valued \subseteq Calls
  /\ Nobody \notin Calls
  /\ MaxResponses \in Nat

VARIABLES
  interface,      (* isInterface: a dynamic proxy, else an adapter object   *)
  handler,        (* where the handler goroutine is                         *)
  delivering,     (* the call whose response it is putting into a channel   *)
  stream,         (* "open", "halfClosed" (CloseSend) or "cancelled"        *)
  thread,         (* where each calling thread is                           *)
  expects,        (* expectsResponse, as the thread computed it             *)
  result,         (* what sendCallback returns: none, an answer or an error *)
  pending,        (* keys of f.pending                                      *)
  channel,        (* the response channel of a call, capacity one           *)
  sender,         (* holder of sendMu                                       *)
  inbound,        (* client responses not yet received, per call            *)
  events,         (* calls whose event the client has got                   *)
  responses,      (* responses the client has sent, per call                *)
  argHandles      (* calls whose argument handles are in the handle store   *)

client == <<inbound, events, responses>>
vars == <<interface, handler, delivering, stream, thread, expects, result, pending,
          channel, sender, client, argHandles>>

-----------------------------------------------------------------------------
(* Fault: changes pending while the receive loop delivers into it.         *)
PendingUnlocked == TRUE

(* pendingMu is held only inside one step, except by a receiveResponse     *)
(* that blocks on a full channel.                                          *)
PendingMuFree == handler # "blocked"

(* Fault: sends while another thread does.                                 *)
SendUnlocked == TRUE

(* The handler holds it while it sends the Created message.                *)
SendMuFree == sender = Nobody /\ handler # "announcing"

At(c, from, to) ==
  /\ thread[c] = from
  /\ thread' = [thread EXCEPT ![c] = to]

(* The object can be called from its creation on, an adapter even by its   *)
(* own constructor; afterwards the handler unregisters it.                 *)
ProxyRegistered == handler \notin {"opening", "returned"}
DetectorUsable == handler \notin {"detectorClosed", "returned"}

(* gRPC accepts a message until the handler has returned or the client has *)
(* cancelled; a half-closed stream still accepts.                          *)
SendAccepted == handler # "returned" /\ stream # "cancelled"

-----------------------------------------------------------------------------
(* A calling thread: the proxy's callback, then sendCallback.              *)

(* isVoid takes a method it cannot look up for one that returns a value;   *)
(* and it reads a reference that the handler's defer deletes without       *)
(* synchronisation: afterwards it may say anything.  The methods of an     *)
(* adapter are never asked about.                                          *)
MayExpect(c) == interface
MayNotExpect(c) == ~interface \/ c \notin Valued \/ ~DetectorUsable

(* isVoid and argHandles.                                                  *)
Invoke(c) ==
  /\ ProxyRegistered
  /\ \E e \in BOOLEAN :
       /\ IF e THEN MayExpect(c) ELSE MayNotExpect(c)
       /\ expects' = [expects EXCEPT ![c] = e]
       /\ At(c, "idle", IF e THEN "register" ELSE "send")
  /\ argHandles' = argHandles \cup {c}
  /\ UNCHANGED <<handler, delivering, stream, result, pending, channel, sender, client>>

RegisterPending(c) ==
  /\ PendingMuFree
  /\ At(c, "register", "send")
  /\ pending' = pending \cup {c}
  /\ channel' = [channel EXCEPT ![c] = "empty"]
  /\ UNCHANGED <<handler, delivering, stream, expects, result, sender, client, argHandles>>

LockSend(c) ==
  /\ SendMuFree
  /\ At(c, "send", "sending")
  /\ sender' = c
  /\ UNCHANGED <<interface, handler, delivering, stream, expects, result, pending, channel,
                 client, argHandles>>

SendSucceeds(c) ==
  /\ SendAccepted
  /\ At(c, "sending", IF expects[c] THEN "await" ELSE "done")
  /\ sender' = Nobody
  /\ events' = events \cup {c}
  /\ UNCHANGED <<handler, delivering, stream, expects, result, pending, channel,
                 inbound, responses, argHandles>>

(* Fault: gives the event's handles up only when it waits for an answer.   *)
ReleaseIfExpecting(c) == IF expects[c] THEN argHandles \ {c} ELSE argHandles

ReleaseArgHandles(c) == argHandles \ {c}

(* The error path: the handles are released before the channel is.  A call *)
(* that expects nothing hears only of errors other than the stream's end   *)
(* (isClosedProxyStreamError).                                             *)
SendFails(c) ==
  /\ ~SendAccepted
  /\ At(c, "sending", IF expects[c] THEN "unregister" ELSE "done")
  /\ sender' = Nobody
  /\ argHandles' = ReleaseArgHandles(c)
  /\ \E r \in {"none", "error"} :
       (expects[c] => r = "error") /\ result' = [result EXCEPT ![c] = r]
  /\ UNCHANGED <<handler, delivering, stream, expects, pending, channel, client>>

(* Fault: looks for the answer under pendingMu.                            *)
AnsweredUnderLock(c) == PendingMuFree /\ channel[c] \notin {"none", "empty"}

Answered(c) == channel[c] \notin {"none", "empty"}

(* callbackResultFromResponse: the answer in the channel, also a closed    *)
(* one, or the error of a channel closed without an answer.                *)
AwaitResponse(c) ==
  /\ Answered(c)
  /\ At(c, "await", "unregister")
  /\ result' = [result EXCEPT ![c] = IF channel[c] = "closed" THEN "error" ELSE "answer"]
  /\ channel' = [channel EXCEPT ![c] = IF @ = "full" THEN "empty" ELSE "closed"]
  /\ UNCHANGED <<handler, delivering, stream, expects, pending, sender, client,
                 argHandles>>

(* Fault: returns without forgetting the call.                             *)
KeepPending(c) == pending

Forget(c) == pending \ {c}

UnregisterPending(c) ==
  /\ PendingMuFree
  /\ At(c, "unregister", "done")
  /\ pending' = Forget(c)
  /\ UNCHANGED <<handler, delivering, stream, expects, result, channel, sender, client,
                 argHandles>>

-----------------------------------------------------------------------------
(* The handler.                                                            *)

(* Nothing happened yet that would have to be undone.                      *)
OpeningFails ==
  /\ handler = "opening"
  /\ handler' = "returned"
  /\ UNCHANGED <<delivering, stream, thread, expects, result, pending, channel, sender,
                 client, argHandles>>

(* NewProxyFull and Put, or RegisterProxyHandler before the adapter.       *)
CreateProxy ==
  /\ handler = "opening"
  /\ handler' = IF interface THEN "created" ELSE "constructing"
  /\ UNCHANGED <<delivering, stream, thread, expects, result, pending, channel, sender,
                 client, argHandles>>

(* The adapter object; without it the handler is unregistered again, and   *)
(* closePending does not run: its defer comes later.                       *)
ConstructAdapter ==
  /\ handler = "constructing"
  /\ handler' \in {"created", "returned"}
  /\ UNCHANGED <<delivering, stream, thread, expects, result, pending, channel, sender,
                 client, argHandles>>

LockAnnounce ==
  /\ handler = "created"
  /\ SendMuFree
  /\ handler' = "announcing"
  /\ UNCHANGED <<delivering, stream, thread, expects, result, pending, channel, sender,
                 client, argHandles>>

(* send(Created): an error runs the defers.                                *)
Announce ==
  /\ handler = "announcing"
  /\ handler' = IF SendAccepted THEN "receiving" ELSE "draining"
  /\ UNCHANGED <<delivering, stream, thread, expects, result, pending, channel, sender,
                 client, argHandles>>

(* receiveResponse: an unknown call is dropped; a full channel blocks the  *)
(* goroutine with pendingMu held.                                          *)
ReceiveResponse(c) ==
  /\ handler = "receiving"
  /\ inbound[c] > 0
  /\ inbound' = [inbound EXCEPT ![c] = @ - 1]
  /\ IF c \notin pending
     THEN UNCHANGED <<handler, delivering, channel>>
     ELSE \/ /\ channel[c] # "full"
             /\ channel' = [channel EXCEPT ![c] = "full"]
             /\ UNCHANGED <<handler, delivering>>
          \/ /\ channel[c] = "full"
             /\ handler' = "blocked"
             /\ delivering' = c
             /\ UNCHANGED channel
  /\ UNCHANGED <<stream, thread, expects, result, pending, sender, events, responses,
                 argHandles>>

DeliverBlocked ==
  /\ handler = "blocked"
  /\ channel[delivering] = "empty"
  /\ channel' = [channel EXCEPT ![delivering] = "full"]
  /\ handler' = "receiving"
  /\ delivering' = Nobody
  /\ UNCHANGED <<stream, thread, expects, result, pending, sender, client, argHandles>>

(* Recv returns io.EOF after the last response, or the cancellation.       *)
StreamEnds ==
  /\ handler = "receiving"
  /\ \/ stream = "halfClosed" /\ \A c \in Calls : inbound[c] = 0
     \/ stream = "cancelled"
  /\ handler' = "draining"
  /\ UNCHANGED <<delivering, stream, thread, expects, result, pending, channel, sender,
                 client, argHandles>>

(* Faults: empties the map and leaves the channels open; drops answers     *)
(* that were not taken yet.                                                *)
ChannelsLeftOpen == channel
AnswersDropped == [c \in Calls |-> IF c \in pending THEN "closed" ELSE channel[c]]

(* A closed channel still yields the answer it holds.                      *)
ChannelsClosed ==
  [c \in Calls |->
     IF c \notin pending THEN channel[c]
     ELSE IF channel[c] = "full" THEN "closedFull" ELSE "closed"]

ClosePending ==
  /\ handler = "draining"
  /\ handler' = "drained"
  /\ channel' = ChannelsClosed
  /\ pending' = {}
  /\ UNCHANGED <<delivering, stream, thread, expects, result, sender, client, argHandles>>

(* detector.close, then proxyCleanup and the handler's return.             *)
CloseDetector ==
  /\ handler = "drained"
  /\ handler' = "detectorClosed"
  /\ UNCHANGED <<delivering, stream, thread, expects, result, pending, channel, sender,
                 client, argHandles>>

HandlerReturns ==
  /\ handler = "detectorClosed"
  /\ handler' = "returned"
  /\ UNCHANGED <<delivering, stream, thread, expects, result, pending, channel, sender,
                 client, argHandles>>

-----------------------------------------------------------------------------
(* The client: answers events that expect it, releases handles it was      *)
(* given, and ends the stream.                                             *)

Respond(c) ==
  /\ stream = "open"
  /\ c \in events /\ expects[c]
  /\ responses[c] < MaxResponses
  /\ responses' = [responses EXCEPT ![c] = @ + 1]
  /\ inbound' = [inbound EXCEPT ![c] = @ + 1]
  /\ UNCHANGED <<handler, delivering, stream, thread, expects, result, pending, channel,
                 sender, events, argHandles>>

ReleaseHandle(c) ==
  /\ c \in events /\ c \in argHandles
  /\ argHandles' = argHandles \ {c}
  /\ UNCHANGED <<handler, delivering, stream, thread, expects, result, pending, channel,
                 sender, client>>

EndStream ==
  /\ \/ stream = "open" /\ stream' \in {"halfClosed", "cancelled"}
     \/ stream = "halfClosed" /\ stream' = "cancelled"
  /\ UNCHANGED <<handler, delivering, thread, expects, result, pending, channel, sender,
                 client, argHandles>>

-----------------------------------------------------------------------------
Init ==
  /\ interface \in BOOLEAN
  /\ handler = "opening" /\ delivering = Nobody /\ stream = "open"
  /\ thread = [c \in Calls |-> "idle"]
  /\ expects = [c \in Calls |-> FALSE] /\ result = [c \in Calls |-> "none"]
  /\ pending = {} /\ channel = [c \in Calls |-> "none"]
  /\ sender = Nobody
  /\ inbound = [c \in Calls |-> 0] /\ responses = [c \in Calls |-> 0]
  /\ events = {} /\ argHandles = {}

ThreadStep(c) ==
  /\ \/ RegisterPending(c) \/ LockSend(c) \/ SendSucceeds(c) \/ SendFails(c)
     \/ AwaitResponse(c) \/ UnregisterPending(c)
  /\ UNCHANGED interface

HandlerStep ==
  /\ \/ OpeningFails \/ CreateProxy \/ ConstructAdapter \/ LockAnnounce \/ Announce
     \/ \E c \in Calls : ReceiveResponse(c)
     \/ DeliverBlocked \/ StreamEnds \/ ClosePending \/ CloseDetector \/ HandlerReturns
  /\ UNCHANGED interface

ClientStep ==
  \/ \E c \in Calls : Respond(c) \/ ReleaseHandle(c)
  \/ EndStream

Next ==
  /\ \/ \E c \in Calls : Invoke(c) \/ ThreadStep(c)
     \/ HandlerStep
     \/ ClientStep
  /\ UNCHANGED interface

Spec == Init /\ [][Next]_vars

(* Goroutines and threads that can step do, and a message is sent or       *)
(* refused; mutexes are not starved.  Nobody has to call, answer, release  *)
(* or end the stream.                                                      *)
FairSpec ==
  /\ Spec
  /\ WF_vars(HandlerStep)
  /\ \A c \in Calls : WF_vars(ThreadStep(c)) /\ SF_vars(LockSend(c))

-----------------------------------------------------------------------------
(***************************************************************************)
(* Properties.                                                             *)
(***************************************************************************)

(* Every variable holds a value of its type; sendMu's holder is sending.   *)
TypeOK ==
  /\ interface \in BOOLEAN
  /\ handler \in {"opening", "constructing", "created", "announcing",
                  "receiving", "blocked", "draining", "drained",
                  "detectorClosed", "returned"}
  /\ delivering \in Calls \cup {Nobody}
  /\ stream \in {"open", "halfClosed", "cancelled"}
  /\ thread \in [Calls -> {"idle", "register", "send", "sending", "await",
                           "unregister", "done"}]
  /\ expects \in [Calls -> BOOLEAN] /\ result \in [Calls -> {"none", "answer", "error"}]
  /\ pending \subseteq Calls
  /\ channel \in [Calls -> {"none", "empty", "full", "closed", "closedFull"}]
  /\ sender \in Calls \cup {Nobody}
  /\ \A c \in Calls : thread[c] = "sending" <=> sender = c
  /\ inbound \in [Calls -> 0..MaxResponses]
  /\ responses \in [Calls -> 0..MaxResponses]
  /\ events \subseteq Calls /\ argHandles \subseteq Calls

(* A response is only ever put into an open channel: closing a channel and *)
(* forgetting it is one step, so a late response cannot panic the server,  *)
(* and the channel a blocked receive loop waits for is still registered.   *)
NoSendOnClosed ==
  /\ \A c \in pending : channel[c] \in {"empty", "full"}
  /\ handler = "blocked" => delivering \in pending

(* An entry of pending belongs to a call still in progress: after any mix  *)
(* of answers, failed sends and stream ends nothing stays behind.          *)
PendingIsLive ==
  \A c \in pending : thread[c] \in {"send", "sending", "await", "unregister"}

(* An argument handle in the store belongs to a call not yet sent or to an *)
(* event the client has got and can release: a refused event leaks none.   *)
HandlesAreOwned ==
  \A c \in argHandles :
    c \in events \/ thread[c] \in {"register", "send", "sending"}

(* Neither an entry of pending nor an argument handle outlives its call.   *)
NothingLeaks == PendingIsLive /\ HandlesAreOwned

(* Assumed of the client: it answers a call at most twice.                 *)
AnswersAreFew(c) == responses[c] <= 2

(* The receive loop, which holds pendingMu while it waits for room in a    *)
(* channel, does not wait for ever for the call of a client that answered  *)
(* it at most twice: that call takes the first answer without pendingMu.   *)
(* A third one blocks the loop after the call has taken its answer and     *)
(* before it unregisters, and then nothing makes room again.               *)
ReceiveLoopResumes ==
  \A c \in Calls :
    handler = "blocked" /\ delivering = c
      ~> handler # "blocked" \/ ~AnswersAreFew(c)

(* Every call that is waiting when the stream ends is released.            *)
PendingReleased ==
  \A c \in Calls :
    handler = "draining" /\ c \in pending ~> thread[c] = "done"

(* What the calls of the object and the client may count on                *)
(* (CallbackContract): an answer that was sent is the result of its call   *)
(* unless the client cancels, and a call fails only with the stream over.  *)
CallState(c) ==
  CASE thread[c] \in {"idle", "register", "send", "sending"} -> "none"
    [] thread[c] = "await" -> IF responses[c] = 0 THEN "asked" ELSE "answered"
    [] thread[c] \in {"unregister", "done"} ->
         CASE result[c] = "none" -> "told"
           [] result[c] = "answer" -> "returned"
           [] result[c] = "error" -> "failed"

Line ==
  IF stream = "cancelled" THEN "cancelled"
  ELSE IF handler \in {"drained", "detectorClosed", "returned"} THEN "closed"
  ELSE "open"

Contract == INSTANCE CallbackContract WITH
  call <- [c \in Calls |-> CallState(c)], line <- Line

ContractSpec == Contract!Spec

(* "Close all pending callback channels when the stream ends so that       *)
(* blocked callback goroutines do not deadlock" (Proxy): no call waits for *)
(* ever once the handler has returned.                                     *)
NoCallOutlivesStream ==
  \A c \in Calls :
    handler = "returned" /\ thread[c] # "idle" ~> thread[c] = "done"
=============================================================================
