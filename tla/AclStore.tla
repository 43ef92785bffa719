------------------------------ MODULE AclStore ------------------------------
(***************************************************************************)
(* The access control database (grpc/server/acl/store.go) and the two      *)
(* processes that keep it open: jniservice, which writes requests and the  *)
(* decisions taken in its dialogs, and jniserviceadmin.  A table is a set  *)
(* of rows.                                                                *)
(*                                                                         *)
(* Store opens one connection per process (SetMaxOpenConns(1)), so a       *)
(* process does one thing at a time.  Operations of one statement, and     *)
(* RevokeClient, whose transaction starts by writing, are one action each. *)
(* ApproveRequest reads before it writes: another process may commit in    *)
(* between.  Any operation may also fail (SQLITE_BUSY above all) and then  *)
(* leaves the tables as they were.                                         *)
(*                                                                         *)
(* External: SQLite's row ids and the snapshots of its write-ahead log.    *)
(***************************************************************************)
EXTENDS Integers

CONSTANTS
  Clients,        (* certificate common names                               *)
  Methods,        (* method patterns                                        *)
  Requested,      (* the sets of them that clients ask for                  *)
  MaxRequests     (* bound: requests ever made                              *)

ASSUME AclAssumption ==
  /\ Requested \subseteq SUBSET Methods
  /\ MaxRequests \in Nat

VARIABLES
  clients,        (* registered clients                                     *)
  grants,         (* rows of grants                                         *)
  requests,       (* rows of pending_requests, with the history field nr    *)
  asked,          (* history: requests made so far, the nr of the last      *)
  tx              (* approvals that have read their request                 *)

tables == <<clients, grants, requests>>
aclVars == <<tables, asked, tx>>

Connections == {"service", "admin"}
By(k) == IF k = "service" THEN "ui" ELSE "cli:admin"

-----------------------------------------------------------------------------
Idle(k) == \A t \in tx : t.connection # k

(* A snapshot ages when another connection commits a change.               *)
Aged == {[t EXCEPT !.current = FALSE] : t \in tx}

Others(k) == {t \in tx : t.connection # k}

(* One operation of connection k that changes the tables.                  *)
Writes(k) == Idle(k) /\ tx' = Aged

(* INTEGER PRIMARY KEY: the id after the largest one in the table.         *)
NewId(id) ==
  /\ \A r \in requests : r.id < id
  /\ id = 1 \/ \E r \in requests : r.id + 1 = id

Pending(id) == {r \in requests : r.id = id /\ r.status = "pending"}

Decided(id, status) ==
  {IF r.id = id THEN [r EXCEPT !.status = status] ELSE r : r \in requests}

(* Fault: adds nothing where the client has one of the methods already.    *)
GrantedUnlessKnown(c, ms, by) ==
  IF \E g \in grants : g.client = c /\ g.method \in ms THEN grants
  ELSE grants \cup {[client |-> c, method |-> m, by |-> by] : m \in ms}

(* INSERT OR IGNORE of one grant for each of the methods.                  *)
Granted(c, ms, by) ==
  grants \cup {[client |-> c, method |-> m, by |-> by] :
                 m \in {n \in ms : \A g \in grants : g.client = c => g.method # n}}

-----------------------------------------------------------------------------
(* RegisterClient.                                                         *)
Register(c) ==
  /\ Writes("service")
  /\ clients' = clients \cup {c}
  /\ UNCHANGED <<grants, requests, asked>>

(* CreateRequest, for anyone who holds a certificate, registered or not.   *)
CreateRequest(c, ms, id) ==
  /\ asked < MaxRequests
  /\ NewId(id)
  /\ Writes("service")
  /\ asked' = asked + 1
  /\ requests' = requests \cup
       {[id |-> id, nr |-> asked + 1, client |-> c, methods |-> ms, status |-> "pending"]}
  /\ UNCHANGED <<clients, grants>>

DenyRequest(k, id) ==
  /\ Pending(id) # {}
  /\ Writes(k)
  /\ requests' = Decided(id, "denied")
  /\ UNCHANGED <<clients, grants, asked>>

(* ApproveRequest up to its query, which found a pending row.              *)
ReadRequest(k, id) ==
  /\ Idle(k)
  /\ \E r \in Pending(id) :
       tx' = tx \cup {[connection |-> k, id |-> id, nr |-> r.nr, client |-> r.client,
                       methods |-> r.methods, current |-> TRUE]}
  /\ UNCHANGED <<tables, asked>>

(* Fault: reads the request before the transaction begins.                 *)
ReadOutside(t) == TRUE

(* A transaction may turn from reading to writing only on the latest       *)
(* snapshot; otherwise its first write fails.                              *)
OnLatest(t) == t.current

(* The rest of ApproveRequest: the update, which does not look at the      *)
(* status again, the grants and the commit.                                *)
CommitApproval(k) ==
  \E t \in tx :
    /\ t.connection = k
    /\ OnLatest(t)
    /\ requests' = Decided(t.id, "approved")
    /\ grants' = Granted(t.client, t.methods, By(k))
    /\ tx' = {[u EXCEPT !.current = FALSE] : u \in Others(k)}
    /\ UNCHANGED <<clients, asked>>

(* Fault: returns without the deferred rollback.                           *)
RollbackForgotten(k) == ~Idle(k) /\ UNCHANGED aclVars

Rollback(k) ==
  /\ ~Idle(k)
  /\ tx' = Others(k)
  /\ UNCHANGED <<tables, asked>>

Grant(c, m) ==
  /\ Writes("admin")
  /\ grants' = Granted(c, {m}, "cli:admin")
  /\ grants' # grants
  /\ UNCHANGED <<clients, requests, asked>>

RevokeGrant(c, m) ==
  /\ \E g \in grants : g.client = c /\ g.method = m
  /\ Writes("admin")
  /\ grants' = {g \in grants : g.client # c \/ g.method # m}
  /\ UNCHANGED <<clients, requests, asked>>

(* Fault: deletes the client and its requests only.                        *)
GrantsKept(c) == grants

GrantsOfOthers(c) == {g \in grants : g.client # c}

RevokeClient(c) ==
  /\ Writes("admin")
  /\ grants' = GrantsOfOthers(c)
  /\ requests' = {r \in requests : r.client # c}
  /\ clients' = clients \ {c}
  /\ UNCHANGED asked
  /\ tables' # tables

-----------------------------------------------------------------------------
Init ==
  /\ clients = {} /\ grants = {} /\ requests = {}
  /\ asked = 0
  /\ tx = {}

Ids == 1..MaxRequests

Decide(k) ==
  \/ \E id \in Ids : DenyRequest(k, id) \/ ReadRequest(k, id)
  \/ CommitApproval(k)
  \/ Rollback(k)

ClientCall ==
  \E c \in Clients :
    \/ Register(c)
    \/ \E ms \in Requested, id \in Ids : CreateRequest(c, ms, id)

Administer ==
  \E c \in Clients :
    \/ RevokeClient(c)
    \/ \E m \in Methods : Grant(c, m) \/ RevokeGrant(c, m)

Next ==
  \/ ClientCall
  \/ Administer
  \/ \E k \in Connections : Decide(k)

Spec == Init /\ [][Next]_aclVars

-----------------------------------------------------------------------------
(***************************************************************************)
(* Properties.                                                             *)
(***************************************************************************)

GrantRow == [client : Clients, method : Methods, by : {"ui", "cli:admin"}]
RequestRow == [id : Ids, nr : Ids, client : Clients, methods : SUBSET Methods,
               status : {"pending", "approved", "denied"}]
Transaction == [connection : Connections, id : Ids, nr : Ids, client : Clients,
                methods : SUBSET Methods, current : BOOLEAN]

(* Rows hold values of their columns, and the declared keys are keys: an   *)
(* id names one request, a client has a method granted once, a connection  *)
(* runs one transaction.                                                   *)
TypeOK ==
  /\ clients \subseteq Clients
  /\ grants \subseteq GrantRow
  /\ requests \subseteq RequestRow
  /\ asked \in 0..MaxRequests
  /\ tx \subseteq Transaction
  /\ \A r, s \in requests : r.id = s.id => r = s
  /\ \A g, h \in grants : g.client = h.client /\ g.method = h.method => g = h
  /\ \A t, u \in tx : t.connection = u.connection => t = u

(* Access granted in the dialog rests on an approved request of that       *)
(* client for that method, whatever the administrator revoked or decided   *)
(* meanwhile: no approval survives the revocation of its client, and none  *)
(* that was overtaken by one adds its grants afterwards.                   *)
GrantsAreBacked ==
  \A g \in grants : g.by = "ui" =>
    \E r \in requests :
      r.client = g.client /\ r.status = "approved" /\ g.method \in r.methods

(* "Decisions are final" (TestStoreDecisionsAreFinal), also between two    *)
(* processes: a request is decided once, and only while it is pending, and *)
(* nothing else about it ever changes.                                     *)
DecisionsAreFinal ==
  [][\A r \in requests, s \in requests' : r.nr = s.nr =>
       \/ s = r
       \/ r.status = "pending" /\ s = [r EXCEPT !.status = s.status]]_aclVars

(* "ApproveRequest marks the request as approved and creates grants for    *)
(* each method in the request" in one transaction: with the step that      *)
(* approves a request its client holds every method of it.                 *)
ApprovalIsWhole ==
  [][\A r \in requests, s \in requests' :
       r.nr = s.nr /\ r.status # "approved" /\ s.status = "approved" =>
         \A m \in s.methods : \E g \in grants' : g.client = s.client /\ g.method = m]_aclVars
=============================================================================
