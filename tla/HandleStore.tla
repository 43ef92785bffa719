----------------------------- MODULE HandleStore -----------------------------
(***************************************************************************)
(* The table of Java objects that clients name by number                   *)
(* (handlestore/handlestore.go), the requests that use it                  *)
(* (handlestore/server.go, grpc/server/jni_raw/server.go), and the two     *)
(* objects the service itself keeps in it (setAppContext in                *)
(* cmd/jniservice/server.go), which Java may set while requests are served *)
(* and sets again after a failure.                                         *)
(*                                                                         *)
(* A global reference is a number that is never used again; handle 0 and   *)
(* reference 0 are nil.  The store's lock protects its map only: a new     *)
(* reference is made and numbered before the lock is taken, and Get's      *)
(* result is used, and Release's result deleted, after it was given up.    *)
(*                                                                         *)
(* External: the JVM's table of global references, the clients.            *)
(***************************************************************************)
EXTENDS Integers, FiniteSets

CONSTANTS
  Requests,       (* request goroutines                                     *)
  Main,           (* Java's main thread, in setAppContext                   *)
  MaxRefs         (* bound: global references ever made, and handles        *)

ASSUME StoreAssumption ==
  /\ MaxRefs \in Nat
  /\ Main \notin Requests

VARIABLES
  objects,        (* handle -> global reference, 0 where the map has none   *)
  nextID,
  made,           (* global references made so far; the last one            *)
  live,           (* global references the JVM still holds                  *)
  thread,         (* where each goroutine or thread is                      *)
  known,          (* history: handles that were returned to clients         *)
  guessed,        (* history: entries released under handles not in known   *)
  context,        (* AppContextHandle                                       *)
  loader,         (* AppClassLoader                                         *)
  proxyLoader,    (* the reference SetProxyClassLoader was given            *)
  loaded          (* JNIServiceForeground.loaded                            *)

store == <<objects, nextID>>
jvm == <<made, live>>
history == <<known, guessed>>
owned == <<context, loader, proxyLoader, loaded>>
vars == <<store, jvm, thread, history, owned>>

Threads == Requests \cup {Main}
Handles == 1..MaxRefs
Resting == [pc |-> "idle", goal |-> "none", ref |-> 0, id |-> 0]

Goes(t, pc, goal, ref, id) ==
  thread' = [thread EXCEPT ![t] = [pc |-> pc, goal |-> goal, ref |-> ref, id |-> id]]

-----------------------------------------------------------------------------
(* The store.                                                              *)

(* Put, first step: NewGlobalRef, of a local reference that is the         *)
(* thread's own or of a global one.                                        *)
NewGlobalRef(t, goal) ==
  /\ made < MaxRefs
  /\ made' = made + 1
  /\ live' = live \cup {made + 1}
  /\ Goes(t, "numbering", goal, made + 1, 0)

(* Fault: numbers an object by how many there are.                         *)
IDByLength == Cardinality({h \in Handles : objects[h] # 0}) + 1

NewID == nextID + 1

TakeNumber(t) ==
  /\ thread[t].pc = "numbering"
  /\ nextID < MaxRefs
  /\ nextID' = NewID
  /\ Goes(t, "storing", thread[t].goal, thread[t].ref, NewID)
  /\ UNCHANGED <<objects, jvm, history, owned>>

(* Fault: looks the object up and forgets to delete the entry.             *)
StillThere(h) == objects

Without(h) == [objects EXCEPT ![h] = 0]

(* DeleteGlobalRef and ReleaseHandle: Release up to the end of remove,     *)
(* then the deletion of what it removed.  Whose handle it is nobody asks.  *)
Remove(t, h) ==
  /\ thread[t].pc = "idle"
  /\ objects[h] # 0
  /\ objects' = Without(h)
  /\ Goes(t, "deleting", "none", objects[h], 0)
  /\ guessed' = IF h \in known THEN guessed
                ELSE guessed \cup {[id |-> h, ref |-> objects[h]]}
  /\ UNCHANGED <<nextID, jvm, known, owned>>

Delete(t) ==
  /\ thread[t].pc = "deleting"
  /\ live' = live \ {thread[t].ref}
  /\ thread' = [thread EXCEPT ![t] = Resting]
  /\ UNCHANGED <<store, made, history, owned>>
-----------------------------------------------------------------------------
(* Requests.                                                               *)

(* A call that makes an object: FindClass, NewObject, a callback's         *)
(* arguments.                                                              *)
Create(t) ==
  /\ thread[t].pc = "idle"
  /\ NewGlobalRef(t, "reply")
  /\ UNCHANGED <<store, history, owned>>

(* requireObject: a call on an object the client names.                    *)
Require(t, h) ==
  /\ thread[t].pc = "idle"
  /\ objects[h] # 0
  /\ Goes(t, "holding", "call", objects[h], 0)
  /\ UNCHANGED <<store, jvm, history, owned>>

(* The call: it may return an object to put, or not.                       *)
Call(t) ==
  /\ thread[t].pc = "holding" /\ thread[t].goal = "call"
  /\ \/ thread' = [thread EXCEPT ![t] = Resting] /\ UNCHANGED jvm
     \/ NewGlobalRef(t, "reply")
  /\ UNCHANGED <<store, history, owned>>

(* GetAppContext: Get, and Put of what it got.                             *)
RequireContext(t) ==
  /\ thread[t].pc = "idle"
  /\ context # 0 /\ objects[context] # 0
  /\ Goes(t, "holding", "copy", objects[context], 0)
  /\ UNCHANGED <<store, jvm, history, owned>>

(* Fault: hands out the service's own handle.                              *)
ShareContext(t) ==
  /\ thread[t].pc = "holding" /\ thread[t].goal = "copy"
  /\ known' = known \cup {context}
  /\ thread' = [thread EXCEPT ![t] = Resting]
  /\ UNCHANGED <<store, jvm, guessed, owned>>

CopyContext(t) ==
  /\ thread[t].pc = "holding" /\ thread[t].goal = "copy"
  /\ NewGlobalRef(t, "reply")
  /\ UNCHANGED <<store, history, owned>>

(* The end of Put, and the reply that carries the handle.                  *)
Reply(t) ==
  /\ thread[t].pc = "storing" /\ thread[t].goal = "reply"
  /\ objects' = [objects EXCEPT ![thread[t].id] = thread[t].ref]
  /\ known' = known \cup {thread[t].id}
  /\ thread' = [thread EXCEPT ![t] = Resting]
  /\ UNCHANGED <<nextID, jvm, guessed, owned>>

-----------------------------------------------------------------------------
(* setAppContext, again whenever an earlier one failed.                    *)

SetAppContext ==
  /\ thread[Main].pc = "idle" /\ ~loaded
  /\ NewGlobalRef(Main, "context")
  /\ UNCHANGED <<store, history, owned>>

(* The context is stored; looking its class loader up may fail.            *)
ContextStored ==
  /\ thread[Main].pc = "storing" /\ thread[Main].goal = "context"
  /\ objects' = [objects EXCEPT ![thread[Main].id] = thread[Main].ref]
  /\ context' = thread[Main].id
  /\ \/ thread' = [thread EXCEPT ![Main] = Resting] /\ UNCHANGED jvm
     \/ NewGlobalRef(Main, "loader")
  /\ UNCHANGED <<nextID, history, loader, proxyLoader, loaded>>

(* What onStartCommand does next may still fail.                           *)
LoaderStored ==
  /\ thread[Main].pc = "storing" /\ thread[Main].goal = "loader"
  /\ objects' = [objects EXCEPT ![thread[Main].id] = thread[Main].ref]
  /\ loader' = thread[Main].id
  /\ proxyLoader' = thread[Main].ref
  /\ loaded' \in BOOLEAN
  /\ thread' = [thread EXCEPT ![Main] = Resting]
  /\ UNCHANGED <<nextID, jvm, history, context>>

-----------------------------------------------------------------------------
(* initAndroidContext may have stored a context before requests are        *)
(* served.                                                                 *)
Init ==
  /\ \/ /\ objects = [h \in Handles |-> 0]
        /\ nextID = 0 /\ made = 0 /\ live = {} /\ context = 0
     \/ /\ MaxRefs > 0
        /\ objects = [h \in Handles |-> IF h = 1 THEN 1 ELSE 0]
        /\ nextID = 1 /\ made = 1 /\ live = {1} /\ context = 1
  /\ thread = [t \in Threads |-> Resting]
  /\ known = {} /\ guessed = {}
  /\ loader = 0 /\ proxyLoader = 0 /\ loaded = FALSE

(* A client may name any number: its own handle, another client's or the   *)
(* service's.                                                              *)
Request(t) ==
  \/ Create(t) \/ Call(t) \/ RequireContext(t) \/ CopyContext(t) \/ Reply(t)
  \/ \E h \in Handles : Require(t, h) \/ Remove(t, h)

Next ==
  \/ \E t \in Requests : Request(t)
  \/ \E t \in Threads : TakeNumber(t) \/ Delete(t)
  \/ SetAppContext \/ ContextStored \/ LoaderStored

Spec == Init /\ [][Next]_vars

-----------------------------------------------------------------------------
(***************************************************************************)
(* Properties.                                                             *)
(***************************************************************************)

(* Every variable has its type; a number or a reference is never beyond    *)
(* the last one handed out.                                                *)
TypeOK ==
  /\ objects \in [Handles -> 0..made]
  /\ nextID \in 0..MaxRefs /\ made \in 0..MaxRefs
  /\ live \subseteq 1..made
  /\ thread \in [Threads ->
       [pc : {"idle", "numbering", "storing", "holding", "deleting"},
        goal : {"none", "reply", "call", "copy", "context", "loader"},
        ref : 0..made, id : 0..nextID]]
  /\ known \subseteq 1..nextID
  /\ guessed \subseteq [id : Handles, ref : 1..made]
  /\ context \in 0..nextID /\ loader \in 0..nextID
  /\ proxyLoader \in 0..made
  /\ loaded \in BOOLEAN

(* A Put that has not stored its reference yet, or a Release that has not  *)
(* deleted it.                                                             *)
Owns(t) == thread[t].pc \in {"numbering", "storing", "deleting"}

NoneLost ==
  \A r \in live : \/ \E h \in Handles : objects[h] = r
                  \/ \E t \in Threads : Owns(t) /\ thread[t].ref = r

EntriesOwn ==
  \A h \in Handles : objects[h] # 0 =>
    /\ objects[h] \in live
    /\ \A i \in Handles : objects[i] = objects[h] => i = h
    /\ \A t \in Threads : Owns(t) => thread[t].ref # objects[h]

ThreadsOwn ==
  \A t \in Threads : Owns(t) =>
    /\ thread[t].ref \in live
    /\ \A u \in Threads : Owns(u) /\ thread[u].ref = thread[t].ref => u = t

(* Every global reference the JVM holds has exactly one owner: a handle, a *)
(* Put under way or a Release under way, and an owner's reference is one   *)
(* the JVM holds.  So no interleaving of requests deletes a reference      *)
(* twice, overwrites an entry or loses a reference.                        *)
OneOwner == NoneLost /\ EntriesOwn /\ ThreadsOwn

(* A handle a client was given names the same object until it is released  *)
(* and nothing ever after: a stale handle, or one released twice, never    *)
(* reaches another client's object.                                        *)
HandlesAreFinal ==
  [][\A h \in known : objects'[h] \in {objects[h], 0}]_vars

IdGuessed(h) == \E e \in guessed : e.id = h
RefGuessed(r) == \E e \in guessed : e.ref = r

(* "GetAppContext returns caller-owned handles derived from this           *)
(* service-owned reference" (Server.AppContextHandle): of what they were   *)
(* given clients may release anything, and Java may set the context again  *)
(* at any time, the service's own objects stay, and so does the one a      *)
(* GetAppContext is copying.  A client that releases a number nobody gave  *)
(* it can take one away, and only the one it names: the store does not ask *)
(* whose handle it is.                                                     *)
ServiceKeepsItsOwn ==
  /\ \A h \in {context, loader} : h # 0 =>
       \/ objects[h] # 0 /\ objects[h] \in live
       \/ IdGuessed(h)
  /\ proxyLoader # 0 => (proxyLoader \in live \/ RefGuessed(proxyLoader))
  /\ \A t \in Requests :
       (thread[t].pc = "holding" /\ thread[t].goal = "copy") =>
         (thread[t].ref \in live \/ RefGuessed(thread[t].ref))

(* "Release is atomic - it removes the handle from the store and deletes   *)
(* the JNI global ref in a single locked operation, avoiding TOCTOU races" *)
(* (ReleaseHandle): what a request looked up is still an object when the   *)
(* request uses it.                                                        *)
NoUseAfterRelease ==
  \A t \in Requests :
    thread[t].pc = "holding" => thread[t].ref \in live
=============================================================================
