-------------------------- MODULE HandleStoreProofs --------------------------
(***************************************************************************)
(* The handle store's safety properties for any number of requests and     *)
(* references.  OneOwner needs to know that a number taken is still free   *)
(* and unpublished when it is stored, and ServiceKeepsItsOwn that what the *)
(* service keeps, and what a request copies from it, stays under a handle  *)
(* no client was given, also after Java has replaced the handle, unless a  *)
(* client that guessed this number released it.                            *)
(***************************************************************************)
EXTENDS HandleStore, TLAPS

-----------------------------------------------------------------------------
(* The strengthening.                                                      *)

Storing(t) == thread[t].pc = "storing"
Copying(t) == thread[t].pc = "holding" /\ thread[t].goal = "copy"

(* A number that was taken is nobody else's, free and unpublished.         *)
NumbersAreFresh ==
  /\ \A t \in Threads : Storing(t) =>
       /\ thread[t].id \in Handles /\ thread[t].id \notin known
       /\ objects[thread[t].id] = 0
       /\ \A u \in Threads : Storing(u) /\ thread[u].id = thread[t].id => u = t
  /\ \A h \in Handles : objects[h] # 0 => h <= nextID

Unpublished(r) == \E h \in Handles \ known : objects[h] = r

Kept(r) == Unpublished(r) \/ RefGuessed(r)

ServiceOwned ==
  /\ \A h \in {context, loader} : h # 0 =>
       h \notin known /\ (objects[h] # 0 \/ IdGuessed(h))
  /\ \A t \in Threads : Storing(t) => thread[t].id \notin {context, loader}
  /\ proxyLoader # 0 => Kept(proxyLoader)
  /\ \A t \in Threads : Copying(t) => thread[t].ref # 0 /\ Kept(thread[t].ref)

IInv == TypeOK /\ OneOwner /\ NumbersAreFresh /\ ServiceOwned

LEMMA RestingTyped ==
  /\ Resting.pc = "idle" /\ Resting.goal = "none" /\ Resting.ref = 0 /\ Resting.id = 0
BY DEF Resting

LEMMA HandleFacts ==
  ASSUME IInv
  PROVE  /\ known \subseteq Handles
         /\ \A h \in {context, loader} : h # 0 => h \in Handles
<1>1. nextID \in Nat /\ MaxRefs \in Nat /\ nextID <= MaxRefs
  BY StoreAssumption DEF IInv, TypeOK
<1>2. 1..nextID \subseteq Handles
  BY <1>1 DEF Handles
<1>3. /\ context # 0 => context \in 1..nextID
      /\ loader # 0 => loader \in 1..nextID
  BY <1>1 DEF IInv, TypeOK
<1>4. known \subseteq 1..nextID
  BY DEF IInv, TypeOK
<1>5. QED
  BY <1>2, <1>3, <1>4

LEMMA InitIInv == Init => IInv
<1> SUFFICES ASSUME Init PROVE IInv
  OBVIOUS
<1>1. \A t \in Threads : thread[t].pc = "idle" /\ thread[t] = Resting
  BY RestingTyped DEF Init
<1>2. \A h \in Handles : objects[h] # 0 => h = 1 /\ objects[h] = 1 /\ live = {1} /\ nextID = 1
  BY DEF Init
<1>3. TypeOK
  <2>1. /\ made \in 0..MaxRefs /\ nextID \in 0..MaxRefs /\ live \subseteq 1..made
        /\ context \in 0..nextID
    BY StoreAssumption DEF Init
  <2>2. objects \in [Handles -> 0..made]
    BY DEF Init
  <2>3. \A b, c \in Nat : Resting \in
          [pc : {"idle", "numbering", "storing", "holding", "deleting"},
           goal : {"none", "reply", "call", "copy", "context", "loader"},
           ref : 0..b, id : 0..c]
    BY DEF Resting
  <2>4. made \in Nat /\ nextID \in Nat
    BY DEF Init
  <2>5. thread \in [Threads ->
          [pc : {"idle", "numbering", "storing", "holding", "deleting"},
           goal : {"none", "reply", "call", "copy", "context", "loader"},
           ref : 0..made, id : 0..nextID]]
    BY <2>3, <2>4 DEF Init
  <2>6. /\ known \subseteq 1..nextID /\ loader \in 0..nextID
        /\ guessed \subseteq [id : Handles, ref : 1..made]
        /\ proxyLoader \in 0..made /\ loaded \in BOOLEAN
    <3>1. known = {} /\ guessed = {} /\ loader = 0 /\ proxyLoader = 0 /\ loaded = FALSE
      BY DEF Init
    <3>2. 0 \in 0..nextID /\ 0 \in 0..made
      BY <2>4
    <3>3. QED
      BY <3>1, <3>2, Zenon
  <2>7. QED
    BY <2>1, <2>2, <2>5, <2>6 DEF TypeOK
<1>4. OneOwner
  <2>1. \A r \in live : objects[r] = r /\ r \in Handles
    BY StoreAssumption DEF Init, Handles
  <2>2. EntriesOwn
    BY <1>1, <1>2 DEF EntriesOwn, Owns
  <2>3. QED
    BY <1>1, <2>1, <2>2 DEF OneOwner, NoneLost, ThreadsOwn, Owns
<1>5. NumbersAreFresh
  BY <1>1, <1>2 DEF NumbersAreFresh, Storing
<1>6. ServiceOwned
  <2>1. context # 0 => context \notin known /\ objects[context] # 0
    BY StoreAssumption DEF Init, Handles
  <2>2. loader = 0 /\ proxyLoader = 0
    BY DEF Init
  <2>3. QED
    BY <1>1, <2>1, <2>2 DEF ServiceOwned, Copying, Storing
<1>7. QED
  BY <1>3, <1>4, <1>5, <1>6 DEF IInv

-----------------------------------------------------------------------------
(* A new reference belongs to the thread that made it, whatever else the   *)
(* step does with the table, as long as the rest still has its owners.     *)

LEMMA MakeStep ==
  ASSUME IInv, NEW t \in Threads, ~Owns(t),
         NEW goal \in {"none", "reply", "call", "copy", "context", "loader"},
         NewGlobalRef(t, goal), UNCHANGED <<store, history, owned>>
  PROVE  IInv'
<1> USE DEF store, history, owned
<1>1. /\ made' = made + 1 /\ live' = live \cup {made + 1} /\ made \in Nat
      /\ made + 1 <= MaxRefs /\ MaxRefs \in Nat
  BY StoreAssumption DEF IInv, TypeOK, NewGlobalRef
<1>2. /\ thread'[t].pc = "numbering" /\ thread'[t].goal = goal
      /\ thread'[t].ref = made + 1 /\ thread'[t].id = 0
      /\ \A u \in Threads : u # t => thread'[u] = thread[u]
  BY DEF IInv, TypeOK, NewGlobalRef, Goes
<1>3. TypeOK'
  BY <1>1 DEF IInv, TypeOK, NewGlobalRef, Goes
<1>4. /\ made + 1 \notin live /\ \A h \in Handles : objects[h] # made + 1
      /\ \A u \in Threads : thread[u].ref # made + 1
  BY <1>1 DEF IInv, TypeOK
<1>5. /\ Owns(t)' /\ ~Storing(t)' /\ ~Copying(t)'
      /\ \A u \in Threads : u # t =>
           /\ Owns(u)' <=> Owns(u)
           /\ Storing(u)' <=> Storing(u)
           /\ Copying(u)' <=> Copying(u)
  BY <1>2 DEF Owns, Storing, Copying
<1>6. NoneLost'
  BY <1>1, <1>2, <1>5 DEF IInv, OneOwner, NoneLost
<1>7. EntriesOwn'
  BY <1>1, <1>2, <1>4, <1>5 DEF IInv, OneOwner, EntriesOwn
<1>8. ThreadsOwn'
  BY <1>1, <1>2, <1>4, <1>5 DEF IInv, OneOwner, ThreadsOwn
<1>9. NumbersAreFresh'
  BY <1>2, <1>5 DEF IInv, NumbersAreFresh
<1>10. ServiceOwned'
  BY <1>2, <1>5 DEF IInv, ServiceOwned, Kept, Unpublished, RefGuessed, IdGuessed
<1>11. QED
  BY <1>3, <1>6, <1>7, <1>8, <1>9, <1>10 DEF IInv, OneOwner

(* A thread that owns nothing goes where it owns nothing.                  *)
LEMMA HoldStep ==
  ASSUME IInv, NEW t \in Threads, ~Owns(t),
         NEW s \in [pc : {"idle", "holding"},
                    goal : {"none", "reply", "call", "copy", "context", "loader"},
                    ref : 0..made, id : 0..nextID],
         thread' = [thread EXCEPT ![t] = s],
         s.pc = "holding" /\ s.goal = "copy" => s.ref # 0 /\ Kept(s.ref),
         UNCHANGED <<store, jvm, history, owned>>
  PROVE  IInv'
<1> USE DEF store, history, owned, jvm
<1>1. thread'[t] = s /\ \A u \in Threads : u # t => thread'[u] = thread[u]
  BY DEF IInv, TypeOK
<1>2. TypeOK'
  BY DEF IInv, TypeOK
<1>3. /\ ~Owns(t)' /\ ~Storing(t)'
      /\ \A u \in Threads : u # t =>
           /\ Owns(u)' <=> Owns(u)
           /\ Storing(u)' <=> Storing(u)
           /\ Copying(u)' <=> Copying(u)
  BY <1>1 DEF Owns, Storing, Copying
<1>4. OneOwner'
  BY <1>1, <1>3 DEF IInv, OneOwner, NoneLost, EntriesOwn, ThreadsOwn
<1>5. NumbersAreFresh'
  BY <1>1, <1>3 DEF IInv, NumbersAreFresh
<1>6. ServiceOwned'
  BY <1>1, <1>3 DEF IInv, ServiceOwned, Kept, Unpublished, RefGuessed, IdGuessed, Copying
<1>7. QED
  BY <1>2, <1>4, <1>5, <1>6 DEF IInv

(* A reference is stored under the number taken for it; the thread then    *)
(* owns nothing, or a reference newer than every other.                    *)
LEMMA StoreStep ==
  ASSUME IInv, NEW t \in Threads, Storing(t),
         objects' = [objects EXCEPT ![thread[t].id] = thread[t].ref],
         UNCHANGED <<nextID, guessed>>,
         known' \in {known, known \cup {thread[t].id}},
         \/ thread' = [thread EXCEPT ![t] = Resting] /\ UNCHANGED jvm
         \/ NewGlobalRef(t, "loader"),
         context' \in {context, thread[t].id}, loader' \in {loader, thread[t].id},
         proxyLoader' \in {proxyLoader, thread[t].ref}, loaded' \in BOOLEAN
  PROVE  /\ TypeOK' /\ OneOwner' /\ NumbersAreFresh'
         /\ thread[t].id # 0 /\ thread[t].ref # 0
         /\ \A r \in 1..made : \A h \in Handles \ (known \cup {thread[t].id}) :
              objects[h] = r => objects'[h] = r
         /\ \A u \in Threads : Copying(u)' => Copying(u) /\ thread'[u] = thread[u]
         /\ \A h \in Handles : objects[h] # 0 => objects'[h] # 0 /\ h # thread[t].id
<1> DEFINE id == thread[t].id
           ref == thread[t].ref
<1>1. /\ id \in Handles /\ id \notin known /\ objects[id] = 0 /\ id <= nextID
      /\ id \in 1..nextID /\ ref \in live /\ ref \in 1..made /\ Owns(t)
  BY DEF IInv, TypeOK, NumbersAreFresh, OneOwner, ThreadsOwn, Storing, Owns, Handles
<1>2. /\ objects'[id] = ref
      /\ \A h \in Handles : h # id => objects'[h] = objects[h]
  BY <1>1 DEF IInv, TypeOK
<1>3. /\ made \in Nat /\ made' \in Nat /\ made' \in 0..MaxRefs /\ made <= made'
      /\ \/ made' = made /\ live' = live
         \/ made' = made + 1 /\ live' = live \cup {made + 1}
  BY StoreAssumption DEF IInv, TypeOK, NewGlobalRef, jvm
<1>4. /\ \A u \in Threads : u # t => thread'[u] = thread[u]
      /\ \/ /\ thread'[t] = Resting /\ made' = made /\ live' = live
         \/ /\ thread'[t] = [pc |-> "numbering", goal |-> "loader",
                             ref |-> made + 1, id |-> 0]
            /\ made' = made + 1 /\ live' = live \cup {made + 1}
  BY DEF IInv, TypeOK, NewGlobalRef, Goes, jvm
<1>5. /\ ~Storing(t)' /\ ~Copying(t)'
      /\ Owns(t)' => thread'[t].ref = made + 1 /\ made' = made + 1
      /\ \A u \in Threads : u # t =>
           /\ Owns(u)' <=> Owns(u)
           /\ Storing(u)' <=> Storing(u)
           /\ Copying(u)' <=> Copying(u)
  BY <1>4, RestingTyped DEF Owns, Storing, Copying
<1>6. TypeOK'
  <2>1. objects' \in [Handles -> 0..made']
    BY <1>1, <1>3 DEF IInv, TypeOK
  <2>2. thread' \in [Threads ->
          [pc : {"idle", "numbering", "storing", "holding", "deleting"},
           goal : {"none", "reply", "call", "copy", "context", "loader"},
           ref : 0..made', id : 0..nextID']]
    BY <1>3, RestingTyped DEF IInv, TypeOK, NewGlobalRef, Goes, Resting
  <2>3. live' \subseteq 1..made' /\ nextID' \in 0..MaxRefs
    <3>1. live \subseteq 1..made /\ nextID' \in 0..MaxRefs
      BY DEF IInv, TypeOK
    <3>2. CASE made' = made /\ live' = live
      BY <3>1, <3>2
    <3>3. CASE made' = made + 1 /\ live' = live \cup {made + 1}
      <4>1. 1..made \subseteq 1..made' /\ made + 1 \in 1..made'
        BY <1>3, <3>3
      <4>2. QED
        BY <3>1, <3>3, <4>1
    <3>4. QED
      BY <1>3, <3>1, <3>2, <3>3
  <2>4. known' \subseteq 1..nextID'
    BY <1>1 DEF IInv, TypeOK
  <2>5. context' \in 0..nextID' /\ loader' \in 0..nextID' /\ proxyLoader' \in 0..made'
    BY <1>1, <1>3 DEF IInv, TypeOK
  <2>6. guessed' \subseteq [id : Handles, ref : 1..made']
    <3>1. 1..made \subseteq 1..made'
      BY <1>3
    <3>2. guessed' = guessed /\ guessed \subseteq [id : Handles, ref : 1..made]
      BY DEF IInv, TypeOK
    <3>3. QED
      BY <3>1, <3>2
  <2>7. QED
    BY <1>3, <2>1, <2>2, <2>3, <2>4, <2>5, <2>6 DEF TypeOK
<1>7. NoneLost'
  <2> SUFFICES ASSUME NEW r \in live'
               PROVE  \/ \E h \in Handles : objects'[h] = r
                      \/ \E u \in Threads : Owns(u)' /\ thread'[u].ref = r
    BY DEF NoneLost
  <2>1. CASE r \notin live
    BY <1>4, <2>1, RestingTyped DEF Owns
  <2>2. CASE r \in live /\ \E h \in Handles : objects[h] = r
    BY <1>1, <1>2, <2>2 DEF IInv, TypeOK
  <2>3. CASE r \in live /\ \E u \in Threads : Owns(u) /\ thread[u].ref = r
    BY <1>1, <1>2, <1>4, <1>5, <2>3
  <2>4. QED
    BY <2>1, <2>2, <2>3 DEF IInv, OneOwner, NoneLost
<1>8. EntriesOwn'
  <2>1. \A h \in Handles : objects[h] # ref /\ objects[h] \in 0..made
    BY <1>1 DEF IInv, TypeOK, OneOwner, EntriesOwn
  <2>2. \A u \in Threads : u # t /\ Owns(u) => thread[u].ref # ref
    BY <1>1 DEF IInv, OneOwner, ThreadsOwn
  <2>3. \A h \in Handles : objects'[h] # 0 =>
          /\ objects'[h] \in live'
          /\ \A i \in Handles : objects'[i] = objects'[h] => i = h
    BY <1>1, <1>2, <1>3, <2>1 DEF IInv, OneOwner, EntriesOwn
  <2>4. \A h \in Handles : objects'[h] # 0 =>
          \A u \in Threads : Owns(u)' => thread'[u].ref # objects'[h]
    BY <1>1, <1>2, <1>3, <1>4, <1>5, <2>1, <2>2 DEF IInv, OneOwner, EntriesOwn
  <2>5. QED
    BY <2>3, <2>4 DEF EntriesOwn
<1>9. ThreadsOwn'
  BY <1>3, <1>4, <1>5 DEF IInv, TypeOK, OneOwner, ThreadsOwn
<1>10. NumbersAreFresh'
  <2>1. \A u \in Threads : u # t /\ Storing(u) => thread[u].id # id
    BY DEF IInv, NumbersAreFresh
  <2>2. QED
    BY <1>1, <1>2, <1>4, <1>5, <2>1 DEF IInv, NumbersAreFresh
<1>11. \A u \in Threads : Copying(u)' => Copying(u) /\ thread'[u] = thread[u]
  BY <1>4, <1>5
<1>12. QED
  BY <1>1, <1>2, <1>6, <1>7, <1>8, <1>9, <1>10, <1>11 DEF OneOwner

-----------------------------------------------------------------------------
(* One lemma per action.                                                   *)

LEMMA TakeNumberIInv ==
  ASSUME IInv, NEW t \in Threads, TakeNumber(t) PROVE IInv'
<1> USE DEF jvm, history, owned
<1>1. /\ thread[t].pc = "numbering" /\ nextID \in Nat /\ nextID' = nextID + 1
      /\ nextID' \in Handles /\ nextID' \in 0..MaxRefs
  BY StoreAssumption DEF IInv, TypeOK, TakeNumber, NewID, Handles
<1>2. /\ thread'[t].pc = "storing" /\ thread'[t].goal = thread[t].goal
      /\ thread'[t].ref = thread[t].ref /\ thread'[t].id = nextID'
      /\ \A u \in Threads : u # t => thread'[u] = thread[u]
  BY DEF IInv, TypeOK, TakeNumber, Goes
<1>3. /\ Owns(t) /\ Owns(t)' /\ ~Storing(t) /\ Storing(t)' /\ ~Copying(t)'
      /\ \A u \in Threads : u # t =>
           /\ Owns(u)' <=> Owns(u)
           /\ Storing(u)' <=> Storing(u)
           /\ Copying(u)' <=> Copying(u)
  BY <1>1, <1>2 DEF Owns, Storing, Copying
<1>4. TypeOK'
  <2>1. thread' \in [Threads ->
          [pc : {"idle", "numbering", "storing", "holding", "deleting"},
           goal : {"none", "reply", "call", "copy", "context", "loader"},
           ref : 0..made', id : 0..nextID']]
    BY <1>1 DEF IInv, TypeOK, TakeNumber, Goes
  <2>2. QED
    BY <1>1, <2>1 DEF IInv, TypeOK, TakeNumber
<1>5. OneOwner'
  BY <1>2, <1>3 DEF IInv, OneOwner, NoneLost, EntriesOwn, ThreadsOwn, TakeNumber
<1>6. NumbersAreFresh'
  <2>1. nextID' \notin known /\ objects[nextID'] = 0
    BY <1>1 DEF IInv, TypeOK, NumbersAreFresh
  <2>2. \A u \in Threads : thread[u].id # nextID'
    BY <1>1 DEF IInv, TypeOK
  <2>3. \A h \in Handles : objects[h] # 0 => h <= nextID'
    BY <1>1 DEF IInv, NumbersAreFresh, Handles
  <2>4. objects' = objects /\ known' = known
    BY DEF TakeNumber
  <2>5. QED
    BY <1>1, <1>2, <1>3, <2>1, <2>2, <2>3, <2>4 DEF IInv, NumbersAreFresh
<1>7. ServiceOwned'
  <2>1. nextID' \notin {context, loader}
    BY <1>1 DEF IInv, TypeOK
  <2>2. UNCHANGED <<objects, known, guessed, context, loader, proxyLoader>>
    BY DEF TakeNumber
  <2>3. \A r : Kept(r) <=> Kept(r)'
    BY <2>2 DEF Kept, Unpublished, RefGuessed
  <2>4. QED
    BY <1>2, <1>3, <2>1, <2>2, <2>3 DEF IInv, ServiceOwned, IdGuessed
<1>8. QED
  BY <1>4, <1>5, <1>6, <1>7 DEF IInv

LEMMA RemoveIInv ==
  ASSUME IInv, NEW t \in Threads, NEW h \in Handles, Remove(t, h) PROVE IInv'
<1> USE DEF jvm, owned
<1>1. /\ h \in Handles /\ objects[h] # 0 /\ objects[h] \in live /\ objects[h] \in 0..made
      /\ objects'[h] = 0
      /\ \A i \in Handles : i # h => objects'[i] = objects[i]
  BY StoreAssumption DEF IInv, TypeOK, OneOwner, EntriesOwn, Remove, Without, Handles
<1>2. /\ thread[t].pc = "idle" /\ thread'[t].pc = "deleting"
      /\ thread'[t].ref = objects[h]
      /\ \A u \in Threads : u # t => thread'[u] = thread[u]
  BY DEF IInv, TypeOK, Remove, Goes
<1>3. /\ ~Owns(t) /\ Owns(t)' /\ ~Storing(t)' /\ ~Copying(t)'
      /\ \A u \in Threads : u # t =>
           /\ Owns(u)' <=> Owns(u)
           /\ Storing(u)' <=> Storing(u)
           /\ Copying(u)' <=> Copying(u)
  BY <1>2 DEF Owns, Storing, Copying
<1>4. TypeOK'
  <2>1. objects' \in [Handles -> 0..made']
    BY <1>1 DEF IInv, TypeOK, Remove, Without
  <2>2. thread' \in [Threads ->
          [pc : {"idle", "numbering", "storing", "holding", "deleting"},
           goal : {"none", "reply", "call", "copy", "context", "loader"},
           ref : 0..made', id : 0..nextID']]
    BY <1>1 DEF IInv, TypeOK, Remove, Goes
  <2>3. guessed' \subseteq [id : Handles, ref : 1..made']
    <3>1. [id |-> h, ref |-> objects[h]] \in [id : Handles, ref : 1..made]
      BY <1>1 DEF IInv, TypeOK
    <3>2. QED
      BY <3>1 DEF IInv, TypeOK, Remove
  <2>4. QED
    BY <2>1, <2>2, <2>3 DEF IInv, TypeOK, Remove
<1>5. NoneLost'
  BY <1>1, <1>2, <1>3 DEF IInv, OneOwner, NoneLost, Remove
<1>6. EntriesOwn'
  BY <1>1, <1>2, <1>3 DEF IInv, OneOwner, EntriesOwn, Remove
<1>7. ThreadsOwn'
  BY <1>1, <1>2, <1>3 DEF IInv, OneOwner, EntriesOwn, ThreadsOwn, Remove
<1>8. NumbersAreFresh'
  BY <1>1, <1>2, <1>3 DEF IInv, NumbersAreFresh, Remove
<1>9. ServiceOwned'
  <2>1. /\ guessed \subseteq guessed'
        /\ h \notin known => [id |-> h, ref |-> objects[h]] \in guessed'
    BY DEF Remove
  <2>2. \A i : IdGuessed(i) => IdGuessed(i)'
    BY <2>1 DEF IdGuessed
  <2>3. \A r : Kept(r) => Kept(r)'
    BY <1>1, <2>1 DEF Kept, Unpublished, RefGuessed, Remove
  <2>4. \A i \in {context, loader} : i # 0 =>
          i \notin known /\ (objects'[i] # 0 \/ IdGuessed(i)')
    <3> SUFFICES ASSUME NEW i \in {context, loader}, i # 0
                 PROVE  i \notin known /\ (objects'[i] # 0 \/ IdGuessed(i)')
      OBVIOUS
    <3>1. i \in Handles /\ i \notin known /\ (objects[i] # 0 \/ IdGuessed(i))
      BY HandleFacts DEF IInv, ServiceOwned
    <3>2. CASE i # h
      BY <1>1, <2>2, <3>1, <3>2
    <3>3. CASE i = h
      BY <2>1, <3>1, <3>3 DEF IdGuessed
    <3>4. QED
      BY <3>2, <3>3
  <2>5. \A u \in Threads : Copying(u)' => (thread[u].ref # 0 /\ Kept(thread[u].ref))'
    BY <1>2, <1>3, <2>3 DEF IInv, ServiceOwned
  <2>6. \A u \in Threads : Storing(u)' => thread'[u].id \notin {context, loader}
    BY <1>2, <1>3 DEF IInv, ServiceOwned
  <2>7. QED
    BY <2>3, <2>4, <2>5, <2>6 DEF IInv, ServiceOwned, Remove
<1>10. QED
  BY <1>4, <1>5, <1>6, <1>7, <1>8, <1>9 DEF IInv, OneOwner

LEMMA DeleteIInv ==
  ASSUME IInv, NEW t \in Threads, Delete(t) PROVE IInv'
<1> USE DEF store, history, owned
<1>1. thread[t].pc = "deleting" /\ live' = live \ {thread[t].ref} /\ Owns(t)
  BY DEF Delete, Owns
<1>2. thread'[t] = Resting /\ \A u \in Threads : u # t => thread'[u] = thread[u]
  BY DEF IInv, TypeOK, Delete
<1>3. /\ ~Owns(t)' /\ ~Storing(t)' /\ ~Copying(t)'
      /\ \A u \in Threads : u # t =>
           /\ Owns(u)' <=> Owns(u)
           /\ Storing(u)' <=> Storing(u)
           /\ Copying(u)' <=> Copying(u)
  BY <1>2, RestingTyped DEF Owns, Storing, Copying
<1>4. TypeOK'
  <2>1. thread' \in [Threads ->
          [pc : {"idle", "numbering", "storing", "holding", "deleting"},
           goal : {"none", "reply", "call", "copy", "context", "loader"},
           ref : 0..made', id : 0..nextID']]
    BY DEF IInv, TypeOK, Delete, Resting
  <2>2. QED
    BY <1>1, <2>1 DEF IInv, TypeOK, Delete
<1>5. OneOwner'
  BY <1>1, <1>2, <1>3 DEF IInv, OneOwner, NoneLost, EntriesOwn, ThreadsOwn, Delete
<1>6. NumbersAreFresh'
  BY <1>2, <1>3 DEF IInv, NumbersAreFresh, Delete
<1>7. ServiceOwned'
  BY <1>2, <1>3 DEF IInv, ServiceOwned, Kept, Unpublished, RefGuessed, IdGuessed, Delete
<1>8. QED
  BY <1>4, <1>5, <1>6, <1>7 DEF IInv

LEMMA RequireIInv ==
  ASSUME IInv, NEW t \in Requests, NEW h \in Handles, Require(t, h) PROVE IInv'
<1>1. t \in Threads /\ ~Owns(t)
  BY DEF Require, Owns, Threads
<1> DEFINE s == [pc |-> "holding", goal |-> "call", ref |-> objects[h], id |-> 0]
<1>2. s \in [pc : {"idle", "holding"},
            goal : {"none", "reply", "call", "copy", "context", "loader"},
            ref : 0..made, id : 0..nextID]
  BY <1>1 DEF IInv, TypeOK
<1>3. thread' = [thread EXCEPT ![t] = s] /\ UNCHANGED <<store, jvm, history, owned>>
  BY DEF Require, Goes
<1>4. s.goal # "copy"
  OBVIOUS
<1>5. QED
  BY <1>1, <1>2, <1>3, <1>4, HoldStep

LEMMA RequireContextIInv ==
  ASSUME IInv, NEW t \in Requests, RequireContext(t) PROVE IInv'
<1>1. /\ t \in Threads /\ ~Owns(t) /\ context \in Handles /\ objects[context] # 0
      /\ context \notin known
  BY HandleFacts DEF IInv, ServiceOwned, RequireContext, Owns, Threads
<1> DEFINE s == [pc |-> "holding", goal |-> "copy", ref |-> objects[context], id |-> 0]
<1>2. s \in [pc : {"idle", "holding"},
            goal : {"none", "reply", "call", "copy", "context", "loader"},
            ref : 0..made, id : 0..nextID]
  BY <1>1 DEF IInv, TypeOK
<1>3. thread' = [thread EXCEPT ![t] = s] /\ UNCHANGED <<store, jvm, history, owned>>
  BY DEF RequireContext, Goes
<1>4. s.ref # 0 /\ Kept(s.ref)
  BY <1>1 DEF Kept, Unpublished
<1>5. QED
  BY <1>1, <1>2, <1>3, <1>4, HoldStep

LEMMA CreateIInv ==
  ASSUME IInv, NEW t \in Requests, Create(t) PROVE IInv'
<1>1. t \in Threads /\ ~Owns(t)
  BY DEF Create, Owns, Threads
<1>2. QED
  BY <1>1, MakeStep DEF Create

LEMMA CallIInv ==
  ASSUME IInv, NEW t \in Requests, Call(t) PROVE IInv'
<1>1. t \in Threads /\ ~Owns(t)
  BY DEF Call, Owns, Threads
<1>2. CASE NewGlobalRef(t, "reply")
  BY <1>1, <1>2, MakeStep DEF Call
<1>3. CASE thread' = [thread EXCEPT ![t] = Resting] /\ UNCHANGED jvm
  <2>1. Resting \in [pc : {"idle", "holding"},
            goal : {"none", "reply", "call", "copy", "context", "loader"},
            ref : 0..made, id : 0..nextID]
    BY DEF IInv, TypeOK, Resting
  <2>2. QED
    BY <1>1, <1>3, <2>1, RestingTyped, HoldStep DEF Call
<1>4. QED
  BY <1>2, <1>3 DEF Call

LEMMA CopyContextIInv ==
  ASSUME IInv, NEW t \in Requests, CopyContext(t) PROVE IInv'
<1>1. t \in Threads /\ ~Owns(t)
  BY DEF CopyContext, Owns, Threads
<1>2. QED
  BY <1>1, MakeStep DEF CopyContext

LEMMA SetAppContextIInv ==
  ASSUME IInv, SetAppContext PROVE IInv'
<1>1. Main \in Threads /\ ~Owns(Main)
  BY DEF SetAppContext, Owns, Threads
<1>2. QED
  BY <1>1, MakeStep DEF SetAppContext

(* A stored number becomes known to a client, so nothing the service keeps *)
(* may be under it.                                                        *)
LEMMA ReplyIInv ==
  ASSUME IInv, NEW t \in Requests, Reply(t) PROVE IInv'
<1> USE DEF history, owned
<1>1. t \in Threads /\ Storing(t)
  BY DEF Reply, Threads, Storing
<1>2. /\ TypeOK' /\ OneOwner' /\ NumbersAreFresh'
      /\ \A r \in 1..made : \A h \in Handles \ (known \cup {thread[t].id}) :
              objects[h] = r => objects'[h] = r
      /\ \A u \in Threads : Copying(u)' => Copying(u) /\ thread'[u] = thread[u]
      /\ \A h \in Handles : objects[h] # 0 => objects'[h] # 0 /\ h # thread[t].id
  BY <1>1, StoreStep DEF Reply, IInv, TypeOK
<1>3. known' = known \cup {thread[t].id}
  BY DEF Reply
<1>4. \A r \in 1..made : Kept(r) => Kept(r)'
  BY <1>2, <1>3 DEF Kept, Unpublished, RefGuessed, Reply
<1>5. \A h \in {context, loader} : h # 0 => h \in Handles
  BY HandleFacts
<1>6. /\ proxyLoader # 0 => proxyLoader \in 1..made
      /\ \A u \in Threads : thread[u].ref # 0 => thread[u].ref \in 1..made
  BY DEF IInv, TypeOK
<1>7. ServiceOwned'
  <2>1. thread[t].id \notin {context, loader}
    BY <1>1 DEF IInv, ServiceOwned
  <2>2. UNCHANGED <<guessed, context, loader, proxyLoader>>
    BY DEF Reply
  <2>3. \A h \in {context, loader} : h # 0 =>
          h \notin known' /\ (objects'[h] # 0 \/ IdGuessed(h)')
    BY <1>2, <1>3, <1>5, <2>1, <2>2 DEF IInv, ServiceOwned, IdGuessed
  <2>4. \A u \in Threads : Storing(u)' => thread'[u].id \notin {context, loader}
    BY DEF IInv, ServiceOwned, Reply, Storing, Resting, TypeOK
  <2>5. proxyLoader # 0 => Kept(proxyLoader)'
    BY <1>4, <1>6, <2>2 DEF IInv, ServiceOwned, Kept, Unpublished, RefGuessed
  <2>6. \A u \in Threads : Copying(u)' => (thread[u].ref # 0 /\ Kept(thread[u].ref))'
    BY <1>2, <1>4, <1>6 DEF IInv, ServiceOwned
  <2>7. QED
    BY <2>2, <2>3, <2>4, <2>5, <2>6 DEF ServiceOwned, Kept, Unpublished, RefGuessed, IdGuessed
<1>8. QED
  BY <1>2, <1>7 DEF IInv

LEMMA StoredIInv ==
  ASSUME IInv, Storing(Main),
         objects' = [objects EXCEPT ![thread[Main].id] = thread[Main].ref],
         UNCHANGED <<nextID, known, guessed>>,
         \/ thread' = [thread EXCEPT ![Main] = Resting] /\ UNCHANGED jvm
         \/ NewGlobalRef(Main, "loader"),
         context' \in {context, thread[Main].id}, loader' \in {loader, thread[Main].id},
         proxyLoader' \in {proxyLoader, thread[Main].ref}, loaded' \in BOOLEAN
  PROVE  IInv'
<1> DEFINE id == thread[Main].id
           ref == thread[Main].ref
<1>1. Main \in Threads /\ id \in Handles /\ id \notin known /\ objects[id] = 0
  BY DEF IInv, NumbersAreFresh, Storing, Threads
<1>2. /\ TypeOK' /\ OneOwner' /\ NumbersAreFresh' /\ id # 0 /\ ref # 0
      /\ \A r \in 1..made : \A h \in Handles \ (known \cup {id}) :
              objects[h] = r => objects'[h] = r
      /\ \A u \in Threads : Copying(u)' => Copying(u) /\ thread'[u] = thread[u]
      /\ \A h \in Handles : objects[h] # 0 => objects'[h] # 0 /\ h # id
  BY <1>1, StoreStep
<1>3. objects'[id] = ref /\ known' = known
  BY <1>1 DEF IInv, TypeOK
<1>4. \A r : r = ref => Kept(r)'
  BY <1>1, <1>3 DEF Kept, Unpublished
<1>5. \A r \in 1..made : Kept(r) => Kept(r)'
  BY <1>1, <1>2, <1>3 DEF Kept, Unpublished, RefGuessed
<1>6. \A h \in {context', loader'} : h # 0 =>
        h \notin known' /\ (objects'[h] # 0 \/ IdGuessed(h)')
  BY <1>1, <1>2, <1>3, HandleFacts DEF IInv, ServiceOwned, IdGuessed
<1>7. /\ proxyLoader # 0 => proxyLoader \in 1..made
      /\ \A u \in Threads : thread[u].ref # 0 => thread[u].ref \in 1..made
  BY DEF IInv, TypeOK
<1>8. (proxyLoader # 0 => Kept(proxyLoader))'
  <2>1. \A r : r = proxyLoader' /\ r # 0 => Kept(r)'
    BY <1>4, <1>5, <1>7 DEF IInv, ServiceOwned
  <2>2. QED
    BY <2>1 DEF Kept, Unpublished, RefGuessed
<1>9. \A u \in Threads : Copying(u)' => (thread[u].ref # 0 /\ Kept(thread[u].ref))'
  BY <1>2, <1>5, <1>7 DEF IInv, ServiceOwned
<1>10. \A u \in Threads : Storing(u)' => thread'[u].id \notin {context', loader'}
  <2>1. \A u \in Threads : Storing(u)' => u # Main /\ Storing(u) /\ thread'[u] = thread[u]
    BY RestingTyped DEF Storing, NewGlobalRef, Goes, IInv, TypeOK
  <2>2. \A u \in Threads : Storing(u) /\ u # Main => thread[u].id # id
    BY <1>1 DEF IInv, NumbersAreFresh
  <2>3. QED
    BY <2>1, <2>2 DEF IInv, ServiceOwned
<1>11. ServiceOwned'
  BY <1>6, <1>8, <1>9, <1>10
    DEF ServiceOwned, Storing, Copying, Kept, Unpublished, RefGuessed, IdGuessed
<1>12. QED
  BY <1>2, <1>11 DEF IInv

LEMMA ContextStoredIInv ==
  ASSUME IInv, ContextStored PROVE IInv'
<1>1. Storing(Main) /\ loaded' \in BOOLEAN
  BY DEF ContextStored, Storing, IInv, TypeOK
<1>2. QED
  BY <1>1, StoredIInv DEF ContextStored, history

LEMMA LoaderStoredIInv ==
  ASSUME IInv, LoaderStored PROVE IInv'
<1>1. Storing(Main)
  BY DEF LoaderStored, Storing
<1>2. QED
  BY <1>1, StoredIInv DEF LoaderStored, jvm, history

LEMMA NextIInv ==
  ASSUME IInv, [Next]_vars PROVE IInv'
<1>1. CASE UNCHANGED vars
  BY <1>1 DEF vars, store, jvm, history, owned, IInv, TypeOK, OneOwner, NoneLost, EntriesOwn,
    ThreadsOwn, Owns, NumbersAreFresh, Storing, ServiceOwned, Kept, Unpublished, RefGuessed, IdGuessed, Copying
<1>2. ASSUME NEW t \in Requests, Request(t) PROVE IInv'
  <2>1. t \in Threads
    BY DEF Threads
  <2>2. QED
    BY <1>2, <2>1, CreateIInv, CallIInv, RequireContextIInv, CopyContextIInv,
      ReplyIInv, RequireIInv, RemoveIInv DEF Request
<1>3. ASSUME NEW t \in Threads, TakeNumber(t) \/ Delete(t) PROVE IInv'
  BY <1>3, TakeNumberIInv, DeleteIInv
<1>4. QED
  BY <1>1, <1>2, <1>3, SetAppContextIInv, ContextStoredIInv, LoaderStoredIInv DEF Next

THEOREM Inductive == Spec => []IInv
<1>1. IInv /\ [Next]_vars => IInv'
  BY NextIInv
<1>2. QED
  BY InitIInv, <1>1, PTL DEF Spec

-----------------------------------------------------------------------------
(* Every variable keeps its type, for any number of requests.              *)
THEOREM TypeCorrect == Spec => []TypeOK
<1>1. IInv => TypeOK
  BY DEF IInv
<1>2. QED
  BY <1>1, Inductive, PTL

(* Every global reference has exactly one owner: no interleaving of        *)
(* NewObject, DeleteGlobalRef and setAppContext loses one, deletes one     *)
(* twice or overwrites an entry.                                           *)
THEOREM OneOwnerHolds == Spec => []OneOwner
<1>1. IInv => OneOwner
  BY DEF IInv
<1>2. QED
  BY <1>1, Inductive, PTL

(* Whatever clients do with the handles they were given, the context and   *)
(* the class loader the service keeps stay, and so does the object a       *)
(* GetAppContext is copying; only a client that releases a number it was   *)
(* never given takes one away, and no other than the one of that number.   *)
THEOREM ServiceKeepsItsOwnHolds == Spec => []ServiceKeepsItsOwn
<1>1. ASSUME IInv PROVE ServiceKeepsItsOwn
  <2>1. \A h \in Handles : objects[h] # 0 => objects[h] \in live
    BY <1>1 DEF IInv, OneOwner, EntriesOwn
  <2>2. \A h \in {context, loader} : h # 0 =>
          (objects[h] # 0 /\ objects[h] \in live) \/ IdGuessed(h)
    BY <1>1, <2>1, HandleFacts DEF IInv, ServiceOwned
  <2>3. \A r : r # 0 /\ Kept(r) => r \in live \/ RefGuessed(r)
    BY <2>1 DEF Kept, Unpublished
  <2>4. \A t \in Requests :
          thread[t].pc = "holding" /\ thread[t].goal = "copy" =>
            thread[t].ref \in live \/ RefGuessed(thread[t].ref)
    BY <1>1, <2>3 DEF IInv, ServiceOwned, Copying, Threads
  <2>5. QED
    BY <1>1, <2>2, <2>3, <2>4 DEF IInv, ServiceOwned, ServiceKeepsItsOwn
<1>2. QED
  BY <1>1, Inductive, PTL

(* What a handle names never changes once a client was given it, except to *)
(* nothing: a stale handle never reaches another client's object.          *)
THEOREM HandlesAreFinalHolds == Spec => HandlesAreFinal
<1>1. ASSUME IInv, [Next]_vars
      PROVE  [\A h \in known : objects'[h] \in {objects[h], 0}]_vars
  <2> SUFFICES ASSUME Next PROVE \A h \in known : objects'[h] \in {objects[h], 0}
    BY <1>1
  <2>1. known \subseteq Handles /\ objects \in [Handles -> 0..made]
    BY <1>1, HandleFacts DEF IInv, TypeOK
  <2>2. \A t \in Threads : Storing(t) => thread[t].id \notin known
    BY <1>1 DEF IInv, NumbersAreFresh
  <2>3. ASSUME NEW t \in Threads, Storing(t),
               objects' = [objects EXCEPT ![thread[t].id] = thread[t].ref]
        PROVE  \A h \in known : objects'[h] = objects[h]
    BY <2>1, <2>2, <2>3
  <2>4. ASSUME NEW t \in Requests, Reply(t)
        PROVE  \A h \in known : objects'[h] = objects[h]
    BY <2>3, <2>4 DEF Reply, Storing, Threads
  <2>5. ASSUME ContextStored \/ LoaderStored
        PROVE  \A h \in known : objects'[h] = objects[h]
    BY <2>3, <2>5 DEF ContextStored, LoaderStored, Storing, Threads
  <2>6. ASSUME NEW t \in Requests, NEW i \in Handles, Remove(t, i)
        PROVE  \A h \in known : objects'[h] \in {objects[h], 0}
    BY <2>1, <2>6 DEF Remove, Without
  <2>7. ASSUME NEW t \in Requests, Request(t)
        PROVE  \A h \in known : objects'[h] \in {objects[h], 0}
    BY <2>4, <2>6, <2>7 DEF Request, Create, Call, RequireContext, CopyContext, Require, store
  <2>8. ASSUME NEW t \in Threads, TakeNumber(t) \/ Delete(t)
        PROVE  \A h \in known : objects'[h] = objects[h]
    BY <2>8 DEF TakeNumber, Delete, store
  <2>9. ASSUME SetAppContext PROVE \A h \in known : objects'[h] = objects[h]
    BY <2>9 DEF SetAppContext, store
  <2>10. QED
    BY <2>5, <2>7, <2>8, <2>9 DEF Next
<1>2. QED
  BY <1>1, Inductive, PTL DEF Spec, HandlesAreFinal
=============================================================================
