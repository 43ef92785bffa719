------------------------- MODULE AccessControlProofs -------------------------
(***************************************************************************)
(* The access control database and the dialog that decides about it, for   *)
(* every set of clients and methods and every number of requests.          *)
(*                                                                         *)
(* The database alone (AclStore): an approval updates its request without  *)
(* looking at the status again.  What makes this right is that a           *)
(* transaction on the latest snapshot has read rows that are still there   *)
(* (Snapshots), and that no two requests share an id or a number.          *)
(*                                                                         *)
(* The dialog (PermissionFlow): every step of the flow is a step of        *)
(* AclStore or leaves its variables alone, so what is proved of the        *)
(* database holds with dialogs, failing tasks and dying processes.         *)
(* DialogInv ties the state on the screen and the saved one to what the    *)
(* task has done and may still do, ShownInv what the task approves to what *)
(* the dialog showed.                                                      *)
(***************************************************************************)
EXTENDS PermissionFlow, TLAPS

-----------------------------------------------------------------------------
(* The strengthening.                                                      *)

Snapshots ==
  \A t \in tx : t.current =>
    \E r \in requests :
      /\ r.id = t.id /\ r.nr = t.nr /\ r.client = t.client /\ r.methods = t.methods
      /\ r.status = "pending"

Numbered ==
  /\ \A r \in requests : r.nr <= asked
  /\ \A r, s \in requests : r.nr = s.nr => r = s

IInv == TypeOK /\ Snapshots /\ Numbered /\ GrantsAreBacked

-----------------------------------------------------------------------------
(* Lemmas about the tables' operators.                                     *)

(* An update by id changes the status of the rows with that id only.       *)
LEMMA DecidedFacts ==
  ASSUME TypeOK, NEW id, NEW status \in {"approved", "denied"}
  PROVE  /\ \A s \in Decided(id, status) :
              \E r \in requests :
                \/ r.id = id /\ s = [r EXCEPT !.status = status]
                \/ r.id # id /\ s = r
         /\ \A r \in requests :
              \/ r.id = id /\ [r EXCEPT !.status = status] \in Decided(id, status)
              \/ r.id # id /\ r \in Decided(id, status)
         /\ Decided(id, status) \subseteq RequestRow
         /\ \A s, u \in Decided(id, status) : s.id = u.id => s = u
<1>1. requests \subseteq RequestRow
  BY DEF TypeOK
<1>2. \A s \in Decided(id, status) :
        \E r \in requests :
          \/ r.id = id /\ s = [r EXCEPT !.status = status]
          \/ r.id # id /\ s = r
  BY DEF Decided
<1>3. \A r \in requests :
        \/ r.id = id /\ [r EXCEPT !.status = status] \in Decided(id, status)
        \/ r.id # id /\ r \in Decided(id, status)
  BY DEF Decided
<1>4. Decided(id, status) \subseteq RequestRow
  BY <1>1, <1>2 DEF RequestRow
<1>5. ASSUME NEW s \in Decided(id, status), NEW u \in Decided(id, status), s.id = u.id
      PROVE  s = u
  <2>1. PICK r \in requests : \/ r.id = id /\ s = [r EXCEPT !.status = status]
                              \/ r.id # id /\ s = r
    BY <1>2
  <2>2. PICK q \in requests : \/ q.id = id /\ u = [q EXCEPT !.status = status]
                              \/ q.id # id /\ u = q
    BY <1>2
  <2>3. r.id = s.id /\ q.id = u.id
    BY <1>1, <2>1, <2>2 DEF RequestRow
  <2>4. r = q
    BY <1>5, <2>3 DEF TypeOK
  <2>5. QED
    BY <2>1, <2>2, <2>4
<1>6. QED
  BY <1>2, <1>3, <1>4, <1>5

(* The grants added are the missing ones, so the key stays a key.          *)
LEMMA GrantedFacts ==
  ASSUME TypeOK, NEW c \in Clients, NEW ms \in SUBSET Methods,
         NEW by \in {"ui", "cli:admin"}
  PROVE  /\ grants \subseteq Granted(c, ms, by)
         /\ \A g \in Granted(c, ms, by) :
              \/ g \in grants
              \/ g \in GrantRow /\ g.client = c /\ g.method \in ms /\ g.by = by
         /\ \A m \in ms : \E g \in Granted(c, ms, by) : g.client = c /\ g.method = m
         /\ Granted(c, ms, by) \subseteq GrantRow
         /\ \A g, h \in Granted(c, ms, by) :
              g.client = h.client /\ g.method = h.method => g = h
<1> DEFINE missing == {n \in ms : \A g \in grants : g.client = c => g.method # n}
           row(m) == [client |-> c, method |-> m, by |-> by]
<1>1. Granted(c, ms, by) = grants \cup {row(m) : m \in missing}
  BY DEF Granted
<1>2. grants \subseteq GrantRow
  BY DEF TypeOK
<1>3. \A m \in missing : /\ row(m) \in GrantRow
                         /\ row(m).client = c /\ row(m).method = m /\ row(m).by = by
  BY DEF GrantRow
<1>4. \A m \in missing : m \in ms /\ \A g \in grants : g.client = c => g.method # m
  OBVIOUS
<1>5. \A m \in ms : m \in missing \/ \E g \in grants : g.client = c /\ g.method = m
  OBVIOUS
<1>6. \A g \in Granted(c, ms, by) : g \in grants \/ \E m \in missing : g = row(m)
  BY <1>1
<1>7. \A m \in missing : row(m) \in Granted(c, ms, by)
  BY <1>1
<1>8. grants \subseteq Granted(c, ms, by)
  BY <1>1
<1> HIDE DEF missing, row
<1>9. \A g, h \in Granted(c, ms, by) :
        g.client = h.client /\ g.method = h.method => g = h
  BY <1>3, <1>4, <1>6 DEF TypeOK
<1>10. \A m \in ms : \E g \in Granted(c, ms, by) : g.client = c /\ g.method = m
  BY <1>3, <1>5, <1>7, <1>8
<1>11. \A g \in Granted(c, ms, by) :
         \/ g \in grants
         \/ g \in GrantRow /\ g.client = c /\ g.method \in ms /\ g.by = by
  BY <1>3, <1>4, <1>6
<1>12. QED
  BY <1>2, <1>8, <1>9, <1>10, <1>11

(* Ageing keeps every transaction and leaves none on the latest snapshot.  *)
LEMMA AgedFacts ==
  ASSUME NEW ts \in SUBSET Transaction,
         \A t, u \in ts : t.connection = u.connection => t = u
  PROVE  LET aged == {[t EXCEPT !.current = FALSE] : t \in ts}
         IN /\ aged \subseteq Transaction
            /\ \A t \in aged : t.current = FALSE
            /\ \A t, u \in aged : t.connection = u.connection => t = u
<1> DEFINE aged == {[t EXCEPT !.current = FALSE] : t \in ts}
<1>1. \A a \in aged : \E t \in ts : a = [t EXCEPT !.current = FALSE]
  OBVIOUS
<1>2. \A t \in ts : /\ [t EXCEPT !.current = FALSE] \in Transaction
                    /\ [t EXCEPT !.current = FALSE].current = FALSE
                    /\ [t EXCEPT !.current = FALSE].connection = t.connection
  BY DEF Transaction
<1> HIDE DEF aged
<1>3. ASSUME NEW a \in aged
      PROVE  a \in Transaction /\ a.current = FALSE
  <2>1. PICK t \in ts : a = [t EXCEPT !.current = FALSE]
    BY <1>1
  <2>2. QED
    BY <1>2, <2>1
<1>4. ASSUME NEW a \in aged, NEW b \in aged, a.connection = b.connection
      PROVE  a = b
  <2>1. PICK t \in ts : a = [t EXCEPT !.current = FALSE]
    BY <1>1
  <2>2. PICK u \in ts : b = [u EXCEPT !.current = FALSE]
    BY <1>1
  <2>3. t = u
    BY <1>2, <1>4, <2>1, <2>2
  <2>4. QED
    BY <2>1, <2>2, <2>3
<1>5. QED
  BY <1>3, <1>4 DEF aged

LEMMA WritesFacts ==
  ASSUME TypeOK, NEW k \in Connections, Writes(k)
  PROVE  /\ tx' \subseteq Transaction
         /\ \A t \in tx' : t.current = FALSE
         /\ \A t, u \in tx' : t.connection = u.connection => t = u
BY AgedFacts DEF Writes, Aged, TypeOK

-----------------------------------------------------------------------------
(* The invariant is inductive: one lemma for each operation.               *)

LEMMA InitIInv == Init => IInv
BY AclAssumption DEF Init, IInv, TypeOK, Snapshots, Numbered, GrantsAreBacked

LEMMA RegisterKeeps ==
  ASSUME IInv, NEW c \in Clients, Register(c)
  PROVE  IInv'
<1>1. TypeOK
  BY DEF IInv
<1>2. Writes("service") /\ "service" \in Connections
  BY DEF Register, Connections
<1>3. /\ tx' \subseteq Transaction
      /\ \A t \in tx' : t.current = FALSE
      /\ \A t, u \in tx' : t.connection = u.connection => t = u
  BY <1>1, <1>2, WritesFacts
<1>4. TypeOK'
  BY <1>1, <1>3 DEF Register, TypeOK
<1>5. Snapshots'
  BY <1>3 DEF Snapshots
<1>6. Numbered' /\ GrantsAreBacked'
  BY DEF IInv, Register, Numbered, GrantsAreBacked
<1>7. QED
  BY <1>4, <1>5, <1>6 DEF IInv

LEMMA CreateRequestKeeps ==
  ASSUME IInv, NEW c \in Clients, NEW ms \in SUBSET Methods, NEW id \in Ids,
         CreateRequest(c, ms, id)
  PROVE  IInv'
<1> DEFINE row == [id |-> id, nr |-> asked + 1, client |-> c, methods |-> ms,
                   status |-> "pending"]
<1>1. TypeOK /\ Numbered
  BY DEF IInv
<1>2. Writes("service") /\ "service" \in Connections
  BY DEF CreateRequest, Connections
<1>3. /\ tx' \subseteq Transaction
      /\ \A t \in tx' : t.current = FALSE
      /\ \A t, u \in tx' : t.connection = u.connection => t = u
  BY <1>1, <1>2, WritesFacts
<1>4. requests' = requests \cup {row} /\ asked' = asked + 1
  BY DEF CreateRequest
<1>5. asked \in Int /\ asked' \in 0..MaxRequests /\ asked + 1 \in Ids
  BY <1>1, <1>4, AclAssumption DEF CreateRequest, TypeOK, Ids
<1>6. row \in RequestRow /\ row.id = id /\ row.nr = asked + 1
  BY <1>5 DEF RequestRow
<1>7. \A r \in requests : r.id \in Int /\ r.nr \in Int /\ r.id # id /\ r.nr # asked + 1
  <2>1. ASSUME NEW r \in requests
        PROVE  r.id \in Int /\ r.nr \in Int /\ r.id < id /\ r.nr <= asked
    BY <1>1 DEF TypeOK, RequestRow, Ids, Numbered, CreateRequest, NewId
  <2>2. QED
    BY <1>5, <2>1 DEF Ids
<1> HIDE DEF row
<1>8. TypeOK'
  <2>1. requests' \subseteq RequestRow
    BY <1>1, <1>4, <1>6 DEF TypeOK
  <2>2. \A r, s \in requests' : r.id = s.id => r = s
    BY <1>1, <1>4, <1>6, <1>7 DEF TypeOK
  <2>3. clients' = clients /\ grants' = grants
    BY DEF CreateRequest
  <2>4. QED
    BY <1>1, <1>3, <1>5, <2>1, <2>2, <2>3 DEF TypeOK
<1>9. Snapshots'
  BY <1>3 DEF Snapshots
<1>10. Numbered'
  <2>1. \A r \in requests' : r.nr <= asked'
    BY <1>1, <1>4, <1>5, <1>6, <1>7 DEF Numbered
  <2>2. \A r, s \in requests' : r.nr = s.nr => r = s
    BY <1>1, <1>4, <1>6, <1>7 DEF Numbered
  <2>3. QED
    BY <2>1, <2>2 DEF Numbered
<1>11. GrantsAreBacked'
  BY <1>4 DEF IInv, CreateRequest, GrantsAreBacked
<1>12. QED
  BY <1>8, <1>9, <1>10, <1>11 DEF IInv

(* What an update of the rows with one id keeps.                           *)
LEMMA DecidedKeeps ==
  ASSUME IInv, NEW id, NEW status \in {"approved", "denied"},
         requests' = Decided(id, status), asked' = asked
  PROVE  Numbered'
<1>1. TypeOK /\ Numbered /\ requests \subseteq RequestRow
  BY DEF IInv, TypeOK
<1>2. \A s \in requests' :
        \E r \in requests :
          \/ r.id = id /\ s = [r EXCEPT !.status = status]
          \/ r.id # id /\ s = r
  BY <1>1, DecidedFacts
<1>3. \A s \in requests' : \E r \in requests : r.nr = s.nr /\ r.id = s.id
  BY <1>1, <1>2 DEF RequestRow
<1>4. \A s, u \in requests' : s.id = u.id => s = u
  BY <1>1, DecidedFacts
<1>5. ASSUME NEW s \in requests', NEW u \in requests', s.nr = u.nr
      PROVE  s = u
  <2>1. PICK r \in requests : r.nr = s.nr /\ r.id = s.id
    BY <1>3
  <2>2. PICK q \in requests : q.nr = u.nr /\ q.id = u.id
    BY <1>3
  <2>3. r = q
    BY <1>1, <1>5, <2>1, <2>2 DEF Numbered
  <2>4. QED
    BY <1>4, <2>1, <2>2, <2>3
<1>6. \A s \in requests' : s.nr <= asked'
  BY <1>1, <1>3 DEF Numbered
<1>7. QED
  BY <1>5, <1>6 DEF Numbered

LEMMA DenyRequestKeeps ==
  ASSUME IInv, NEW k \in Connections, NEW id \in Ids, DenyRequest(k, id)
  PROVE  IInv'
<1>1. TypeOK /\ GrantsAreBacked /\ requests' = Decided(id, "denied")
  BY DEF IInv, DenyRequest
<1>2. /\ tx' \subseteq Transaction
      /\ \A t \in tx' : t.current = FALSE
      /\ \A t, u \in tx' : t.connection = u.connection => t = u
  BY <1>1, WritesFacts DEF DenyRequest
<1>3. TypeOK'
  <2>1. requests' \subseteq RequestRow /\ \A s, u \in requests' : s.id = u.id => s = u
    BY <1>1, DecidedFacts
  <2>2. QED
    BY <1>1, <1>2, <2>1 DEF DenyRequest, TypeOK
<1>4. Snapshots'
  BY <1>2 DEF Snapshots
<1>5. Numbered'
  BY <1>1, DecidedKeeps DEF DenyRequest
<1>6. GrantsAreBacked'
  <2>1. PICK p \in requests : p.id = id /\ p.status = "pending"
    BY DEF DenyRequest, Pending
  <2>2. \A r \in requests : r.status = "approved" => r.id # id
    BY <1>1, <2>1 DEF TypeOK
  <2>3. \A r \in requests : r.status = "approved" => r \in requests'
    BY <1>1, <2>2, DecidedFacts
  <2>4. QED
    BY <1>1, <2>3 DEF GrantsAreBacked, DenyRequest
<1>7. QED
  BY <1>3, <1>4, <1>5, <1>6 DEF IInv

LEMMA ReadRequestKeeps ==
  ASSUME IInv, NEW k \in Connections, NEW id \in Ids, ReadRequest(k, id)
  PROVE  IInv'
<1>1. TypeOK /\ Snapshots
  BY DEF IInv
<1>2. PICK r \in Pending(id) :
        tx' = tx \cup {[connection |-> k, id |-> id, nr |-> r.nr, client |-> r.client,
                        methods |-> r.methods, current |-> TRUE]}
  BY DEF ReadRequest
<1> DEFINE t == [connection |-> k, id |-> id, nr |-> r.nr, client |-> r.client,
                 methods |-> r.methods, current |-> TRUE]
<1>3. r \in requests /\ r.id = id /\ r.status = "pending"
  BY <1>2 DEF Pending
<1>4. t \in Transaction
  BY <1>1, <1>3 DEF TypeOK, RequestRow, Transaction
<1>5. /\ t.connection = k /\ t.id = id /\ t.nr = r.nr /\ t.client = r.client
      /\ t.methods = r.methods
  OBVIOUS
<1>6. tx' = tx \cup {t}
  BY <1>2
<1> HIDE DEF t
<1>7. TypeOK'
  <2>1. \A u \in tx : u.connection # k
    BY DEF ReadRequest, Idle
  <2>2. tx' \subseteq Transaction
    BY <1>1, <1>4, <1>6 DEF TypeOK
  <2>3. \A u, v \in tx' : u.connection = v.connection => u = v
    BY <1>1, <1>5, <1>6, <2>1 DEF TypeOK
  <2>4. QED
    BY <1>1, <2>2, <2>3 DEF ReadRequest, tables, TypeOK
<1>8. Snapshots'
  BY <1>1, <1>3, <1>5, <1>6 DEF Snapshots, ReadRequest, tables
<1>9. Numbered' /\ GrantsAreBacked'
  BY DEF IInv, ReadRequest, tables, Numbered, GrantsAreBacked
<1>10. QED
  BY <1>7, <1>8, <1>9 DEF IInv

(* The row an approval on the latest snapshot has read is still pending.   *)
LEMMA CommittedRow ==
  ASSUME IInv, NEW k \in Connections, NEW t \in tx, OnLatest(t)
  PROVE  \E r \in requests :
           /\ r.id = t.id /\ r.nr = t.nr /\ r.client = t.client /\ r.methods = t.methods
           /\ r.status = "pending"
BY DEF IInv, Snapshots, OnLatest

LEMMA CommitApprovalKeeps ==
  ASSUME IInv, NEW k \in Connections, CommitApproval(k)
  PROVE  IInv'
<1>1. PICK t \in tx :
        /\ t.connection = k
        /\ OnLatest(t)
        /\ requests' = Decided(t.id, "approved")
        /\ grants' = Granted(t.client, t.methods, By(k))
        /\ tx' = {[u EXCEPT !.current = FALSE] : u \in Others(k)}
        /\ UNCHANGED <<clients, asked>>
  BY DEF CommitApproval
<1>2. TypeOK /\ GrantsAreBacked
  BY DEF IInv
<1>3. t.client \in Clients /\ t.methods \in SUBSET Methods
  BY <1>2 DEF TypeOK, Transaction
<1>4. By(k) \in {"ui", "cli:admin"}
  BY DEF By
<1>5. /\ tx' \subseteq Transaction
      /\ \A u \in tx' : u.current = FALSE
      /\ \A u, v \in tx' : u.connection = v.connection => u = v
  <2>1. Others(k) \in SUBSET Transaction
    BY <1>2 DEF Others, TypeOK
  <2>2. \A u, v \in Others(k) : u.connection = v.connection => u = v
    BY <1>2 DEF Others, TypeOK
  <2>3. QED
    BY <1>1, <2>1, <2>2, AgedFacts
<1>6. TypeOK'
  <2>1. requests' \subseteq RequestRow /\ \A s, u \in requests' : s.id = u.id => s = u
    BY <1>1, <1>2, DecidedFacts
  <2>2. /\ grants' \subseteq GrantRow
        /\ \A g, h \in grants' : g.client = h.client /\ g.method = h.method => g = h
    BY <1>1, <1>2, <1>3, <1>4, GrantedFacts
  <2>3. QED
    BY <1>1, <1>2, <1>5, <2>1, <2>2 DEF TypeOK
<1>7. Snapshots'
  BY <1>5 DEF Snapshots
<1>8. Numbered'
  BY <1>1, DecidedKeeps
<1>9. GrantsAreBacked'
  <2>1. PICK r \in requests : /\ r.id = t.id /\ r.client = t.client
                              /\ r.methods = t.methods /\ r.status = "pending"
    BY <1>1, CommittedRow
  <2>2. \A q \in requests :
          \/ q.id = t.id /\ [q EXCEPT !.status = "approved"] \in requests'
          \/ q.id # t.id /\ q \in requests'
    BY <1>1, <1>2, DecidedFacts
  <2>3. ASSUME NEW g \in grants', g.by = "ui"
        PROVE  \E s \in requests' :
                 s.client = g.client /\ s.status = "approved" /\ g.method \in s.methods
    <3>1. CASE g \in grants
      <4>1. PICK q \in requests :
              q.client = g.client /\ q.status = "approved" /\ g.method \in q.methods
        BY <1>2, <2>3, <3>1 DEF GrantsAreBacked
      <4>2. q.id # t.id
        BY <1>2, <2>1, <4>1 DEF TypeOK
      <4>3. QED
        BY <2>2, <4>1, <4>2
    <3>2. CASE g.client = t.client /\ g.method \in t.methods
      <4> DEFINE s == [r EXCEPT !.status = "approved"]
      <4>1. s \in requests'
        BY <2>1, <2>2
      <4>2. s.client = r.client /\ s.methods = r.methods /\ s.status = "approved"
        BY <1>2, <2>1 DEF TypeOK, RequestRow
      <4> HIDE DEF s
      <4>3. QED
        BY <2>1, <3>2, <4>1, <4>2
    <3>3. QED
      BY <1>1, <1>2, <1>3, <1>4, <3>1, <3>2, GrantedFacts
  <2>4. QED
    BY <2>3 DEF GrantsAreBacked
<1>10. QED
  BY <1>6, <1>7, <1>8, <1>9 DEF IInv

LEMMA RollbackKeeps ==
  ASSUME IInv, NEW k \in Connections, Rollback(k)
  PROVE  IInv'
<1>1. tx' \subseteq tx
  BY DEF Rollback, Others
<1>2. QED
  BY <1>1 DEF IInv, Rollback, tables, TypeOK, Snapshots, Numbered, GrantsAreBacked

LEMMA GrantKeeps ==
  ASSUME IInv, NEW c \in Clients, NEW m \in Methods, Grant(c, m)
  PROVE  IInv'
<1>1. TypeOK /\ grants' = Granted(c, {m}, "cli:admin") /\ {m} \in SUBSET Methods
  BY DEF IInv, Grant
<1>2. Writes("admin") /\ "admin" \in Connections
  BY DEF Grant, Connections
<1>3. /\ tx' \subseteq Transaction
      /\ \A t \in tx' : t.current = FALSE
      /\ \A t, u \in tx' : t.connection = u.connection => t = u
  BY <1>1, <1>2, WritesFacts
<1>4. /\ grants' \subseteq GrantRow
      /\ \A g, h \in grants' : g.client = h.client /\ g.method = h.method => g = h
      /\ \A g \in grants' : g \in grants \/ g.by = "cli:admin"
  <2> DEFINE after == Granted(c, {m}, "cli:admin")
  <2>1. "cli:admin" \in {"ui", "cli:admin"}
    OBVIOUS
  <2>2. /\ \A g \in after :
             \/ g \in grants
             \/ g \in GrantRow /\ g.client = c /\ g.method \in {m} /\ g.by = "cli:admin"
        /\ after \subseteq GrantRow
        /\ \A g, h \in after : g.client = h.client /\ g.method = h.method => g = h
    BY <1>1, <2>1, GrantedFacts
  <2>3. grants' = after
    BY <1>1
  <2> HIDE DEF after
  <2>4. QED
    BY <2>2, <2>3
<1>5. TypeOK'
  BY <1>1, <1>3, <1>4 DEF Grant, TypeOK
<1>6. Snapshots' /\ Numbered'
  BY <1>3 DEF IInv, Grant, Snapshots, Numbered
<1>7. GrantsAreBacked'
  BY <1>4 DEF IInv, Grant, GrantsAreBacked
<1>8. QED
  BY <1>5, <1>6, <1>7 DEF IInv

LEMMA RevokeGrantKeeps ==
  ASSUME IInv, NEW c \in Clients, NEW m \in Methods, RevokeGrant(c, m)
  PROVE  IInv'
<1>1. TypeOK /\ grants' \subseteq grants
  BY DEF IInv, RevokeGrant
<1>2. Writes("admin") /\ "admin" \in Connections
  BY DEF RevokeGrant, Connections
<1>3. /\ tx' \subseteq Transaction
      /\ \A t \in tx' : t.current = FALSE
      /\ \A t, u \in tx' : t.connection = u.connection => t = u
  BY <1>1, <1>2, WritesFacts
<1>4. TypeOK'
  BY <1>1, <1>3 DEF RevokeGrant, TypeOK
<1>5. Snapshots' /\ Numbered' /\ GrantsAreBacked'
  BY <1>1, <1>3 DEF IInv, RevokeGrant, Snapshots, Numbered, GrantsAreBacked
<1>6. QED
  BY <1>4, <1>5 DEF IInv

LEMMA RevokeClientKeeps ==
  ASSUME IInv, NEW c \in Clients, RevokeClient(c)
  PROVE  IInv'
<1>1. /\ TypeOK
      /\ grants' = {g \in grants : g.client # c}
      /\ requests' = {r \in requests : r.client # c}
      /\ clients' = clients \ {c} /\ asked' = asked
  BY DEF IInv, RevokeClient, GrantsOfOthers
<1>2. Writes("admin") /\ "admin" \in Connections
  BY DEF RevokeClient, Connections
<1>3. /\ tx' \subseteq Transaction
      /\ \A t \in tx' : t.current = FALSE
      /\ \A t, u \in tx' : t.connection = u.connection => t = u
  BY <1>1, <1>2, WritesFacts
<1>4. TypeOK'
  BY <1>1, <1>3 DEF TypeOK
<1>5. Snapshots' /\ Numbered'
  BY <1>1, <1>3 DEF IInv, Snapshots, Numbered
<1>6. GrantsAreBacked'
  BY <1>1 DEF IInv, GrantsAreBacked
<1>7. QED
  BY <1>4, <1>5, <1>6 DEF IInv

LEMMA DecideKeeps ==
  ASSUME IInv, NEW k \in Connections, Decide(k)
  PROVE  IInv'
BY DenyRequestKeeps, ReadRequestKeeps, CommitApprovalKeeps, RollbackKeeps DEF Decide

LEMMA ClientCallKeeps == IInv /\ ClientCall => IInv'
BY AclAssumption, RegisterKeeps, CreateRequestKeeps DEF ClientCall

LEMMA AdministerKeeps == IInv /\ Administer => IInv'
BY GrantKeeps, RevokeGrantKeeps, RevokeClientKeeps DEF Administer

LEMMA NextKeeps == IInv /\ [Next]_aclVars => IInv'
<1> SUFFICES ASSUME IInv, [Next]_aclVars PROVE IInv'
  OBVIOUS
<1>1. CASE UNCHANGED aclVars
  BY <1>1 DEF aclVars, tables, IInv, TypeOK, Snapshots, Numbered, GrantsAreBacked
<1>2. QED
  BY <1>1, ClientCallKeeps, AdministerKeeps, DecideKeeps DEF Next

LEMMA Inductive == Spec => []IInv
BY InitIInv, NextKeeps, PTL DEF Spec

(* The declared keys of the tables are keys, and every row is well formed. *)
THEOREM TypeCorrect == Spec => []TypeOK
<1>1. IInv => TypeOK
  BY DEF IInv
<1>2. QED
  BY <1>1, Inductive, PTL

(* Access granted in the dialog rests on an approved request of its client *)
(* (RevokeClient and ApproveRequest, in any order and from two processes). *)
THEOREM GrantsAreBackedHolds == Spec => []GrantsAreBacked
<1>1. IInv => GrantsAreBacked
  BY DEF IInv
<1>2. QED
  BY <1>1, Inductive, PTL

-----------------------------------------------------------------------------
(* What one step does to the requests.                                     *)

FinalStep ==
  \A r \in requests, s \in requests' : r.nr = s.nr =>
    \/ s = r
    \/ r.status = "pending" /\ s = [r EXCEPT !.status = s.status]

WholeStep ==
  \A r \in requests, s \in requests' :
    r.nr = s.nr /\ r.status # "approved" /\ s.status = "approved" =>
      \A m \in s.methods : \E g \in grants' : g.client = s.client /\ g.method = m

LEMMA KeptRows ==
  ASSUME IInv, requests' \subseteq requests
  PROVE  FinalStep /\ WholeStep
BY DEF IInv, Numbered, FinalStep, WholeStep

LEMMA CreatedRow ==
  ASSUME IInv, NEW c \in Clients, NEW ms \in SUBSET Methods, NEW id \in Ids,
         CreateRequest(c, ms, id)
  PROVE  FinalStep /\ WholeStep
<1> DEFINE row == [id |-> id, nr |-> asked + 1, client |-> c, methods |-> ms,
                   status |-> "pending"]
<1>1. requests' = requests \cup {row} /\ row.nr = asked + 1
  BY DEF CreateRequest
<1> HIDE DEF row
<1>2. \A r \in requests : r.nr # asked + 1
  <2>1. ASSUME NEW r \in requests PROVE r.nr \in Int /\ r.nr <= asked /\ asked \in Int
    BY AclAssumption DEF IInv, TypeOK, RequestRow, Ids, Numbered
  <2>2. QED
    BY <2>1
<1>3. \A r \in requests, s \in requests' : r.nr = s.nr => s = r
  BY <1>1, <1>2 DEF IInv, Numbered
<1>4. QED
  BY <1>3 DEF FinalStep, WholeStep

(* Rows with this id were pending, and no row is decided another way.      *)
LEMMA DecidedRow ==
  ASSUME IInv, NEW id, NEW status \in {"approved", "denied"},
         requests' = Decided(id, status),
         NEW p \in requests, p.id = id, p.status = "pending",
         NEW r \in requests, NEW s \in requests', r.nr = s.nr
  PROVE  \/ s = r
         \/ r = p /\ s = [r EXCEPT !.status = status] /\ s.status = status
<1>1. TypeOK /\ requests \subseteq RequestRow
  BY DEF IInv, TypeOK
<1>2. PICK q \in requests :
        \/ q.id = id /\ s = [q EXCEPT !.status = status]
        \/ q.id # id /\ s = q
  BY <1>1, DecidedFacts
<1>3. q.nr = s.nr
  BY <1>1, <1>2 DEF RequestRow
<1>4. q = r
  BY <1>3 DEF IInv, Numbered
<1>5. CASE r.id = id
  <2>1. r = p
    BY <1>1, <1>5 DEF TypeOK
  <2>2. s = [r EXCEPT !.status = status]
    BY <1>2, <1>4, <1>5
  <2>3. QED
    BY <1>1, <2>1, <2>2 DEF RequestRow
<1>6. CASE r.id # id
  BY <1>2, <1>4, <1>6
<1>7. QED
  BY <1>5, <1>6

LEMMA DeniedRow ==
  ASSUME IInv, NEW k \in Connections, NEW id \in Ids, DenyRequest(k, id)
  PROVE  FinalStep /\ WholeStep
<1>1. PICK p \in requests : p.id = id /\ p.status = "pending"
  BY DEF DenyRequest, Pending
<1>2. requests' = Decided(id, "denied")
  BY DEF DenyRequest
<1>3. ASSUME NEW r \in requests, NEW s \in requests', r.nr = s.nr
      PROVE  s = r \/ (/\ r.status = "pending"
                       /\ s = [r EXCEPT !.status = s.status]
                       /\ s.status = "denied")
  BY <1>1, <1>2, <1>3, DecidedRow
<1>4. QED
  BY <1>3 DEF FinalStep, WholeStep

LEMMA ApprovedRow ==
  ASSUME IInv, NEW k \in Connections, CommitApproval(k)
  PROVE  FinalStep /\ WholeStep
<1>1. PICK t \in tx :
        /\ OnLatest(t)
        /\ requests' = Decided(t.id, "approved")
        /\ grants' = Granted(t.client, t.methods, By(k))
  BY DEF CommitApproval
<1>2. PICK p \in requests : /\ p.id = t.id /\ p.client = t.client
                            /\ p.methods = t.methods /\ p.status = "pending"
  BY <1>1, CommittedRow
<1>3. ASSUME NEW r \in requests, NEW s \in requests', r.nr = s.nr
      PROVE  s = r \/ (/\ r = p
                       /\ s = [r EXCEPT !.status = s.status]
                       /\ s.client = t.client /\ s.methods = t.methods)
  <2>1. s = r \/ (r = p /\ s = [r EXCEPT !.status = "approved"] /\ s.status = "approved")
    BY <1>1, <1>2, <1>3, DecidedRow
  <2>2. requests \subseteq RequestRow
    BY DEF IInv, TypeOK
  <2>3. QED
    BY <1>2, <2>1, <2>2 DEF RequestRow
<1>4. \A m \in t.methods : \E g \in grants' : g.client = t.client /\ g.method = m
  <2>1. TypeOK /\ t.client \in Clients /\ t.methods \in SUBSET Methods
    BY DEF IInv, TypeOK, Transaction
  <2>2. By(k) \in {"ui", "cli:admin"}
    BY DEF By
  <2>3. QED
    BY <1>1, <2>1, <2>2, GrantedFacts
<1>5. QED
  BY <1>2, <1>3, <1>4 DEF FinalStep, WholeStep

LEMMA NextSteps == IInv /\ [Next]_aclVars => FinalStep /\ WholeStep
<1> SUFFICES ASSUME IInv, [Next]_aclVars PROVE FinalStep /\ WholeStep
  OBVIOUS
<1>1. CASE ClientCall
  <2>1. PICK c \in Clients :
          \/ Register(c)
          \/ \E ms \in Requested, id \in Ids : CreateRequest(c, ms, id)
    BY <1>1 DEF ClientCall
  <2>2. CASE Register(c)
    BY <2>2, KeptRows DEF Register
  <2>3. QED
    BY <2>1, <2>2, AclAssumption, CreatedRow
<1>2. CASE Administer
  <2>1. requests' \subseteq requests
    BY <1>2 DEF Administer, RevokeClient, Grant, RevokeGrant
  <2>2. QED
    BY <2>1, KeptRows
<1>3. CASE \E k \in Connections : Decide(k)
  <2>1. PICK k \in Connections : Decide(k)
    BY <1>3
  <2>2. CASE \E id \in Ids : DenyRequest(k, id)
    BY <2>2, DeniedRow
  <2>3. CASE CommitApproval(k)
    BY <2>3, ApprovedRow
  <2>4. CASE Rollback(k) \/ \E id \in Ids : ReadRequest(k, id)
    BY <2>4, KeptRows DEF Rollback, ReadRequest, tables
  <2>5. QED
    BY <2>1, <2>2, <2>3, <2>4 DEF Decide
<1>4. CASE UNCHANGED aclVars
  BY <1>4, KeptRows DEF aclVars, tables
<1>5. QED
  BY <1>1, <1>2, <1>3, <1>4 DEF Next

(* Decisions are final (TestStoreDecisionsAreFinal), whichever of the two  *)
(* processes takes them and however their transactions interleave.         *)
THEOREM DecisionsAreFinalHolds == Spec => DecisionsAreFinal
<1>1. IInv /\ [Next]_aclVars => [FinalStep]_aclVars
  BY NextSteps
<1>2. QED
  BY <1>1, Inductive, PTL DEF Spec, DecisionsAreFinal, FinalStep

(* ApproveRequest: the step that approves a request grants all it asks.    *)
THEOREM ApprovalIsWholeHolds == Spec => ApprovalIsWhole
<1>1. IInv /\ [Next]_aclVars => [WholeStep]_aclVars
  BY NextSteps
<1>2. QED
  BY <1>1, Inductive, PTL DEF Spec, ApprovalIsWhole, WholeStep

-----------------------------------------------------------------------------
(* The dialog's use of the database.                                       *)

(* A pending row exists only under an id of the table.                     *)
LEMMA PendingIds == ASSUME TypeOK, NEW id, Pending(id) # {} PROVE id \in Ids
  BY DEF TypeOK, RequestRow, Pending

LEMMA DecisionStep ==
  ASSUME TypeOK, Decision PROVE Decide("service") \/ UNCHANGED aclVars
<1>1. CASE DecideUnavailable \/ DecideMissing
  BY <1>1 DEF DecideUnavailable, DecideMissing
<1>2. CASE Deny
  <2>1. DenyRequest("service", shown.id) /\ shown.id \in Ids
    BY <1>2, PendingIds DEF Deny, DenyRequest
  <2>2. QED
    BY <2>1 DEF Decide
<1>3. CASE ReadForApproval
  <2>1. ReadRequest("service", shown.id) /\ shown.id \in Ids
    BY <1>3, PendingIds DEF ReadForApproval, ReadRequest
  <2>2. QED
    BY <2>1 DEF Decide
<1>4. CASE Approve
  BY <1>4 DEF Approve, Decide
<1>5. CASE DecideFails
  BY <1>5 DEF DecideFails, Decide
<1>6. QED
  BY <1>1, <1>2, <1>3, <1>4, <1>5 DEF Decision

(* The end of the process rolls back the transaction it had open.          *)
LEMMA DeathStep ==
  ASSUME ProcessDies PROVE Rollback("service") \/ UNCHANGED aclVars
<1>1. CASE Idle("service")
  <2>1. Others("service") = tx
    BY <1>1 DEF Idle, Others
  <2>2. QED
    BY <2>1 DEF ProcessDies, aclVars, tables
<1>2. CASE ~Idle("service")
  BY <1>2 DEF ProcessDies, Rollback
<1>3. QED
  BY <1>1, <1>2

LEMMA LifecycleStep ==
  ASSUME Lifecycle PROVE Decide("service") \/ UNCHANGED aclVars
<1>1. CASE ProcessDies
  BY <1>1, DeathStep DEF Decide
<1>2. CASE Pause \/ Resume \/ Stop \/ Destroy \/ Recreate
  BY <1>2 DEF Pause, Resume, Stop, Destroy, Recreate
<1>3. CASE Close \/ ServiceStarts \/ PromptAnswered
  BY <1>3 DEF Close, ServiceStarts, PromptAnswered
<1>4. QED
  BY <1>1, <1>2, <1>3 DEF Lifecycle

LEMMA StepMaps ==
  ASSUME TypeOK, [FlowNext]_flowVars PROVE [Next]_aclVars
<1>1. CASE \E c \in Clients, ms \in Requested, id \in Ids : Ask(c, ms, id)
  BY <1>1 DEF Ask, Next, ClientCall
<1>2. CASE Launch \/ \E approve \in BOOLEAN : Submit(approve)
  BY <1>2 DEF Launch, Submit
<1>3. CASE Decision
  BY <1>3, DecisionStep DEF Next, Connections
<1>4. CASE Deliver
  BY <1>4 DEF Deliver
<1>5. CASE Lifecycle
  BY <1>5, LifecycleStep DEF Next, Connections
<1>6. CASE Elsewhere
  BY <1>6 DEF Elsewhere, Next, ClientCall, Connections
<1>7. CASE UNCHANGED flowVars
  BY <1>7 DEF flowVars
<1>8. QED
  BY <1>1, <1>2, <1>3, <1>4, <1>5, <1>6, <1>7 DEF FlowNext

(* The flow implements AclStore: a dialog, its task, rotations and the     *)
(* death of the process do nothing to the tables that two processes which  *)
(* call the store's operations could not do.                               *)
THEOREM FlowImplementsStore == FlowSpec => Spec
<1>1. FlowInit => Init
  BY DEF FlowInit
<1>2. Init => IInv
  BY InitIInv
<1>3. IInv /\ [FlowNext]_flowVars => [Next]_aclVars
  BY StepMaps DEF IInv
<1>4. IInv /\ [Next]_aclVars => IInv'
  BY NextKeeps
<1>5. QED
  BY <1>1, <1>2, <1>3, <1>4, PTL DEF FlowSpec, Spec
-----------------------------------------------------------------------------
(* The strengthening for what the dialog promises.                         *)

Alive == view \in {"resumed", "paused", "stopped"}
InBackground == view \in {"stopped", "destroyed"}
Ready(d) == d.outcome \in {"READY", "ERROR", "UNAVAILABLE"}
Untouched == saved = NotSaved /\ task.stage = "idle"
Claims(d) ==
  /\ d.outcome = "APPROVED" => saved.status = "approved"
  /\ d.outcome = "DENIED" => saved.status = "denied"

(* Before the dialog comes up nothing has happened.                        *)
BeforeLaunch ==
  /\ launching # {} \/ shown = Nothing => view = "none"
  /\ view = "none" => /\ decision = Fresh /\ bundle = Fresh
                      /\ Untouched /\ prompts = 0

(* What the task still has to do is not done, and what it has done is what *)
(* it will report, to the dialog that is waiting for it.                   *)
TaskInv ==
  /\ task.stage \in {"queued", "approving"} => saved = NotSaved
  /\ task.stage = "approving" => task.approve
  /\ task.stage = "posted" =>
       /\ task.result # "none"
       /\ task.result = "saved" =>
            saved.status = IF task.approve THEN "approved" ELSE "denied"
       /\ task.result # "saved" => saved = NotSaved
  /\ task.observed => /\ task.stage # "idle" /\ view \notin {"none", "destroyed"}
                      /\ decision.outcome = "SAVING"
                      /\ decision.approve = task.approve

(* The properties, for the state shown and for the state to restore.       *)
ReadyInv ==
  /\ Alive /\ Ready(decision) => Untouched
  /\ InBackground /\ Ready(bundle) => Untouched
ClaimInv == Claims(decision) /\ Claims(bundle)
PromptInv ==
  /\ prompts <= 1 /\ (prompts = 1 => saved.status = "approved")
  /\ Alive /\ prompts = 1 => decision.requested
  /\ InBackground /\ prompts = 1 => bundle.requested

DialogTypeOK ==
  /\ launching \subseteq [id : Ids, nr : Ids]
  /\ shown \in [id : Ids, nr : Ids] \cup {Nothing}
  /\ view \in {"none", "resumed", "paused", "stopped", "destroyed", "closed"}
  /\ decision \in DecisionState /\ bundle \in DecisionState
  /\ task \in Task
  /\ available \in BOOLEAN /\ prompt \in BOOLEAN
  /\ saved \in [status : {"denied", "approved"}, nr : Ids] \cup {NotSaved}
  /\ prompts \in Nat
  /\ ~Idle("service") <=> task.stage = "approving"

DialogInv ==
  DialogTypeOK /\ BeforeLaunch /\ TaskInv /\ ReadyInv /\ ClaimInv /\ PromptInv

-----------------------------------------------------------------------------
(* Lemmas about the dialog's operators.                                    *)

LEMMA CompleteFacts ==
  ASSUME NEW d \in DecisionState,
         NEW result \in {"saved", "unavailable", "missing", "failed"}
  PROVE  /\ Complete(d, result) \in DecisionState
         /\ Complete(d, result).requested = d.requested
         /\ result = "saved" =>
              Complete(d, result).outcome = IF d.approve THEN "APPROVED" ELSE "DENIED"
         /\ result # "saved" =>
              Complete(d, result).outcome \in {"UNAVAILABLE", "ALREADY_DECIDED", "ERROR"}
<1>1. CASE result = "saved"
  BY <1>1 DEF Complete, DecisionState
<1>2. CASE result = "unavailable"
  BY <1>2 DEF Complete, DecisionState
<1>3. CASE result = "missing"
  BY <1>3 DEF Complete, DecisionState
<1>4. CASE result = "failed"
  BY <1>4 DEF Complete, DecisionState
<1>5. QED
  BY <1>1, <1>2, <1>3, <1>4

LEMMA RestoredFacts ==
  ASSUME NEW b \in DecisionState
  PROVE  /\ Restored(b) \in DecisionState
         /\ Restored(b).requested = b.requested
         /\ Restored(b).outcome = IF b.outcome = "SAVING" THEN "UNCERTAIN" ELSE b.outcome
  BY DEF Restored, DecisionState

(* The prompt opens for a saved approval and is remembered.                *)
LEMMA RequestFacts ==
  ASSUME DialogTypeOK, NEW d \in DecisionState, NEW isResumed \in BOOLEAN,
         RequestRuntimePermissions(d, isResumed)
  PROVE  /\ decision' \in DecisionState
         /\ decision'.outcome = d.outcome /\ decision'.approve = d.approve
         /\ d.requested => decision'.requested
         /\ prompt' \in BOOLEAN /\ prompts' \in Nat
         /\ \/ prompts' = prompts
            \/ /\ prompts' = prompts + 1 /\ isResumed
               /\ d.outcome = "APPROVED" /\ ~d.requested /\ decision'.requested
<1>1. CASE isResumed /\ d.outcome = "APPROVED" /\ ~d.requested
  <2>1. PICK granted \in BOOLEAN :
          /\ decision' = [d EXCEPT !.requested = TRUE, !.finished = granted]
          /\ prompt' = ~granted
          /\ prompts' = IF granted THEN prompts ELSE prompts + 1
    BY <1>1 DEF RequestRuntimePermissions
  <2>2. /\ decision' \in DecisionState /\ decision'.outcome = d.outcome
        /\ decision'.approve = d.approve /\ decision'.requested
    BY <2>1 DEF DecisionState
  <2>3. prompt' \in BOOLEAN
    BY <2>1
  <2>4. prompts' \in Nat /\ (prompts' = prompts \/ prompts' = prompts + 1)
    BY <2>1 DEF DialogTypeOK
  <2>5. QED
    BY <1>1, <2>2, <2>3, <2>4
<1>2. CASE ~(isResumed /\ d.outcome = "APPROVED" /\ ~d.requested)
  BY <1>2 DEF RequestRuntimePermissions, DialogTypeOK, platform
<1>3. QED
  BY <1>1, <1>2

LEMMA PostFacts ==
  ASSUME task \in Task, NEW result \in {"saved", "unavailable", "missing", "failed"},
         Post(result)
  PROVE  /\ task' \in Task /\ task'.stage = "posted" /\ task'.result = result
         /\ task'.approve = task.approve /\ task'.observed = task.observed
  BY DEF Post, Task

-----------------------------------------------------------------------------
(* Who holds the service's connection.                                     *)

LEMMA AgedIdle ==
  ASSUME TypeOK, tx' = Aged PROVE Idle("service")' <=> Idle("service")
<1>1. \A t \in tx : [t EXCEPT !.current = FALSE].connection = t.connection
  BY DEF TypeOK, Transaction
<1>2. \A u \in tx' : \E t \in tx : u.connection = t.connection
  BY <1>1 DEF Aged
<1>3. \A t \in tx : \E u \in tx' : u.connection = t.connection
  BY <1>1 DEF Aged
<1>4. QED
  BY <1>2, <1>3 DEF Idle

LEMMA CommitIdle ==
  ASSUME TypeOK, NEW k \in Connections, CommitApproval(k)
  PROVE  /\ k = "service" => Idle("service")'
         /\ k = "admin" => (Idle("service")' <=> Idle("service"))
<1>1. tx' = {[u EXCEPT !.current = FALSE] : u \in Others(k)}
  BY DEF CommitApproval
<1>2. \A t \in tx : [t EXCEPT !.current = FALSE].connection = t.connection
  BY DEF TypeOK, Transaction
<1>3. \A u \in tx' : \E t \in tx : t.connection # k /\ u.connection = t.connection
  BY <1>1, <1>2 DEF Others
<1>4. \A t \in tx : t.connection # k => \E u \in tx' : u.connection = t.connection
  BY <1>1, <1>2 DEF Others
<1>5. CASE k = "service"
  BY <1>3, <1>5 DEF Idle
<1>6. CASE k = "admin"
  BY <1>3, <1>4, <1>6 DEF Idle
<1>7. QED
  BY <1>5, <1>6 DEF Connections

LEMMA RollbackIdle ==
  ASSUME NEW k \in Connections, Rollback(k)
  PROVE  /\ k = "service" => Idle("service")'
         /\ k = "admin" => (Idle("service")' <=> Idle("service"))
  BY DEF Rollback, Others, Idle

LEMMA ReadIdle ==
  ASSUME NEW k \in Connections, NEW id, ReadRequest(k, id)
  PROVE  /\ k = "service" => ~Idle("service")'
         /\ k = "admin" => (Idle("service")' <=> Idle("service"))
<1>1. PICK r \in Pending(id) :
        tx' = tx \cup {[connection |-> k, id |-> id, nr |-> r.nr, client |-> r.client,
                        methods |-> r.methods, current |-> TRUE]}
  BY DEF ReadRequest
<1>2. PICK t : t.connection = k /\ tx' = tx \cup {t}
  BY <1>1
<1>3. QED
  BY <1>2 DEF Idle

LEMMA ElsewhereIdle ==
  ASSUME TypeOK, Elsewhere PROVE Idle("service")' <=> Idle("service")
<1>1. CASE Administer
  BY <1>1, AgedIdle DEF Administer, RevokeClient, Grant, RevokeGrant, Writes
<1>2. CASE Decide("admin")
  <2>1. "admin" \in Connections
    BY DEF Connections
  <2>2. CASE \E id \in Ids : DenyRequest("admin", id)
    BY <2>2, AgedIdle DEF DenyRequest, Writes
  <2>3. CASE \E id \in Ids : ReadRequest("admin", id)
    BY <2>1, <2>3, ReadIdle
  <2>4. CASE CommitApproval("admin")
    BY <2>1, <2>4, CommitIdle
  <2>5. CASE Rollback("admin")
    BY <2>1, <2>5, RollbackIdle
  <2>6. QED
    BY <1>2, <2>2, <2>3, <2>4, <2>5 DEF Decide
<1>3. CASE \E c \in Clients : Register(c)
  BY <1>3, AgedIdle DEF Register, Writes
<1>4. QED
  BY <1>1, <1>2, <1>3 DEF Elsewhere

-----------------------------------------------------------------------------
(* DialogInv is inductive: one lemma for each action.                      *)

LEMMA InitDialog == FlowInit => DialogInv
<1> SUFFICES ASSUME FlowInit PROVE DialogInv
  OBVIOUS
<1>1. /\ Fresh \in DecisionState /\ Fresh.outcome = "READY"
      /\ NoTask \in Task /\ NoTask.stage = "idle" /\ NoTask.observed = FALSE
  BY DEF Fresh, DecisionState, NoTask, Task
<1>2. Idle("service")
  BY DEF FlowInit, Init, Idle
<1>3. DialogTypeOK
  BY <1>1, <1>2 DEF FlowInit, DialogTypeOK
<1>4. BeforeLaunch /\ TaskInv /\ ReadyInv /\ ClaimInv /\ PromptInv
  BY <1>1 DEF FlowInit, BeforeLaunch, TaskInv, ReadyInv, Untouched, ClaimInv, Claims,
              PromptInv
<1>5. QED
  BY <1>3, <1>4 DEF DialogInv

LEMMA AskKeeps ==
  ASSUME IInv, DialogInv, NEW c \in Clients, NEW ms \in SUBSET Methods, NEW id \in Ids,
         Ask(c, ms, id)
  PROVE  DialogInv'
<1>1. /\ UNCHANGED <<activity, decision, task, available, platform, saved>>
      /\ launching' = IF shown = Nothing
                      THEN launching \cup {[id |-> id, nr |-> asked + 1]} ELSE launching
  BY DEF Ask
<1>2. Idle("service")' <=> Idle("service")
  BY AgedIdle DEF Ask, CreateRequest, Writes, IInv
<1>3. asked + 1 \in Ids
  BY AclAssumption DEF Ask, CreateRequest, IInv, TypeOK, Ids
<1>4. launching' \subseteq [id : Ids, nr : Ids]
  BY <1>1, <1>3 DEF DialogInv, DialogTypeOK
<1>5. DialogTypeOK'
  BY <1>1, <1>2, <1>4 DEF DialogInv, DialogTypeOK, activity, platform
<1>6. BeforeLaunch'
  BY <1>1 DEF DialogInv, BeforeLaunch, Untouched, activity, platform
<1>7. TaskInv' /\ ReadyInv'
  BY <1>1 DEF DialogInv, TaskInv, ReadyInv, Alive, InBackground, Ready, Untouched,
              activity
<1>8. ClaimInv' /\ PromptInv'
  BY <1>1 DEF DialogInv, ClaimInv, Claims, PromptInv, Alive, InBackground, activity,
              platform
<1>9. QED
  BY <1>5, <1>6, <1>7, <1>8 DEF DialogInv

LEMMA ElsewhereKeeps == ASSUME IInv, DialogInv, Elsewhere PROVE DialogInv'
<1>1. UNCHANGED <<launching, activity, decision, task, available, platform, saved>>
  BY DEF Elsewhere
<1>2. Idle("service")' <=> Idle("service")
  BY ElsewhereIdle DEF IInv
<1>3. DialogTypeOK'
  BY <1>1, <1>2 DEF DialogInv, DialogTypeOK, activity, platform
<1>4. BeforeLaunch' /\ TaskInv'
  BY <1>1 DEF DialogInv, BeforeLaunch, TaskInv, Untouched, activity, platform
<1>5. ReadyInv' /\ ClaimInv' /\ PromptInv'
  BY <1>1 DEF DialogInv, ReadyInv, ClaimInv, Claims, PromptInv, Alive, InBackground,
              Ready, Untouched, activity, platform
<1>6. QED
  BY <1>3, <1>4, <1>5 DEF DialogInv

LEMMA LaunchKeeps == ASSUME DialogInv, Launch PROVE DialogInv'
<1>1. PICK n \in launching : shown' = n
  BY DEF Launch
<1>2. /\ launching' = {} /\ view' = "resumed" /\ tx' = tx
      /\ UNCHANGED <<bundle, decision, task, available, platform, saved>>
  BY DEF Launch, aclVars
<1>3. /\ view = "none" /\ decision = Fresh /\ bundle = Fresh
      /\ Untouched /\ prompts = 0
  BY <1>1 DEF DialogInv, BeforeLaunch
<1>4. n \in [id : Ids, nr : Ids]
  BY <1>1 DEF DialogInv, DialogTypeOK
<1>5. n # Nothing
  BY <1>4 DEF Nothing, Ids
<1>6. Idle("service")' <=> Idle("service")
  BY <1>2 DEF Idle
<1>7. DialogTypeOK'
  BY <1>1, <1>2, <1>4, <1>6 DEF DialogInv, DialogTypeOK, platform
<1>8. BeforeLaunch'
  BY <1>1, <1>2, <1>5 DEF BeforeLaunch
<1>9. TaskInv' /\ ReadyInv'
  BY <1>2, <1>3 DEF DialogInv, TaskInv, ReadyInv, InBackground, Untouched
<1>10. ClaimInv' /\ PromptInv'
  BY <1>2, <1>3 DEF DialogInv, ClaimInv, Claims, PromptInv, platform
<1>11. QED
  BY <1>7, <1>8, <1>9, <1>10 DEF DialogInv

LEMMA SubmitKeeps ==
  ASSUME DialogInv, NEW approve \in BOOLEAN, Submit(approve) PROVE DialogInv'
<1>1. /\ view = "resumed" /\ Untouched /\ tx' = tx
      /\ UNCHANGED <<launching, activity, available, platform, saved>>
  BY DEF Submit, CanBegin, DialogInv, ReadyInv, Alive, Ready, aclVars
<1>2. /\ decision' \in DecisionState /\ decision'.outcome = "SAVING"
      /\ decision'.approve = approve /\ decision'.requested = decision.requested
  BY DEF Submit, DialogInv, DialogTypeOK, DecisionState
<1>3. /\ task' \in Task /\ task'.stage = "queued" /\ task'.approve = approve
      /\ task'.observed = TRUE
  BY DEF Submit, Task
<1>4. Idle("service")' <=> Idle("service")
  BY <1>1 DEF Idle
<1>5. DialogTypeOK'
  BY <1>1, <1>2, <1>3, <1>4 DEF DialogInv, DialogTypeOK, activity, platform, Untouched
<1>6. BeforeLaunch'
  BY <1>1 DEF DialogInv, BeforeLaunch, activity
<1>7. TaskInv'
  BY <1>1, <1>2, <1>3 DEF TaskInv, Untouched, activity
<1>8. ReadyInv'
  BY <1>1, <1>2 DEF ReadyInv, Ready, InBackground, activity
<1>9. ClaimInv' /\ PromptInv'
  BY <1>1, <1>2 DEF DialogInv, ClaimInv, Claims, PromptInv, Alive, InBackground,
                    activity, platform
<1>10. QED
  BY <1>5, <1>6, <1>7, <1>8, <1>9 DEF DialogInv

(* A step of the task: it goes on to approve, or is done.                  *)
LEMMA TaskStepKeeps ==
  ASSUME DialogInv, UNCHANGED <<launching, activity, decision, available, platform>>,
         task.stage \in {"queued", "approving"},
         task' \in Task, task'.approve = task.approve, task'.observed = task.observed,
         \/ /\ task'.stage = "approving" /\ task.approve
            /\ saved' = saved /\ ~Idle("service")'
         \/ /\ task'.stage = "posted" /\ task'.result # "none" /\ Idle("service")'
            /\ task'.result # "saved" => saved' = saved
            /\ task'.result = "saved" =>
                 /\ saved' \in [status : {"denied", "approved"}, nr : Ids]
                 /\ saved'.status = IF task.approve THEN "approved" ELSE "denied"
  PROVE  DialogInv'
<1>1. saved = NotSaved /\ task.stage # "idle" /\ task'.stage # "idle"
  BY DEF DialogInv, TaskInv
<1>2. NotSaved.status = "none"
  BY DEF NotSaved
<1>3. saved' = saved \/ saved' \in [status : {"denied", "approved"}, nr : Ids]
  OBVIOUS
<1>4. DialogTypeOK'
  BY <1>3 DEF DialogInv, DialogTypeOK, activity, platform
<1>5. BeforeLaunch'
  BY <1>1 DEF DialogInv, BeforeLaunch, Untouched, activity
<1>6. TaskInv'
  BY <1>1 DEF DialogInv, TaskInv, activity
<1>7. ReadyInv'
  BY <1>1 DEF DialogInv, ReadyInv, Untouched, Alive, InBackground, Ready, activity
<1>8. ClaimInv' /\ PromptInv'
  BY <1>1, <1>2 DEF DialogInv, ClaimInv, Claims, PromptInv, Alive, InBackground,
                    activity, platform
<1>9. QED
  BY <1>4, <1>5, <1>6, <1>7, <1>8 DEF DialogInv

LEMMA DecisionKeeps == ASSUME IInv, DialogInv, Decision PROVE DialogInv'
<1>1. UNCHANGED <<launching, activity, decision, available, platform>>
  BY DEF Decision
<1>2. /\ TypeOK /\ requests \subseteq RequestRow /\ tx \subseteq Transaction
      /\ task \in Task /\ (~Idle("service") <=> task.stage = "approving")
      /\ "service" \in Connections
  BY DEF IInv, TypeOK, DialogInv, DialogTypeOK, Connections
<1>3. CASE DecideUnavailable \/ DecideMissing
  <2>1. PICK result \in {"unavailable", "missing"} : Post(result)
    BY <1>3 DEF DecideUnavailable, DecideMissing
  <2>2. task.stage = "queued" /\ saved' = saved /\ tx' = tx
    BY <1>3 DEF DecideUnavailable, DecideMissing, aclVars
  <2>3. /\ task' \in Task /\ task'.stage = "posted" /\ task'.result = result
        /\ task'.approve = task.approve /\ task'.observed = task.observed
    BY <1>2, <2>1, PostFacts
  <2>4. Idle("service")'
    BY <1>2, <2>2 DEF Idle
  <2>5. QED
    BY <1>1, <2>1, <2>2, <2>3, <2>4, TaskStepKeeps
<1>4. CASE Deny
  <2>1. PICK r \in Pending(shown.id) : saved' = [status |-> "denied", nr |-> r.nr]
    BY <1>4 DEF Deny
  <2>2. /\ saved' \in [status : {"denied", "approved"}, nr : Ids]
        /\ saved'.status = "denied"
    BY <1>2, <2>1 DEF Pending, RequestRow
  <2>3. task.stage = "queued" /\ ~task.approve /\ Post("saved")
    BY <1>4 DEF Deny
  <2>4. /\ task' \in Task /\ task'.stage = "posted" /\ task'.result = "saved"
        /\ task'.approve = task.approve /\ task'.observed = task.observed
    BY <1>2, <2>3, PostFacts
  <2>5. Idle("service")'
    BY <1>2, <1>4, <2>3, AgedIdle DEF Deny, DenyRequest, Writes
  <2>6. QED
    BY <1>1, <2>2, <2>3, <2>4, <2>5, TaskStepKeeps
<1>5. CASE ReadForApproval
  <2>1. task.stage = "queued" /\ task.approve /\ saved' = saved
    BY <1>5 DEF ReadForApproval
  <2>2. /\ task' \in Task /\ task'.stage = "approving"
        /\ task'.approve = task.approve /\ task'.observed = task.observed
    BY <1>2, <1>5 DEF ReadForApproval, Task
  <2>3. ~Idle("service")'
    BY <1>2, <1>5, ReadIdle DEF ReadForApproval
  <2>4. QED
    BY <1>1, <2>1, <2>2, <2>3, TaskStepKeeps
<1>6. CASE Approve
  <2>1. PICK t \in tx : saved' = [status |-> "approved", nr |-> t.nr]
    BY <1>6 DEF Approve
  <2>2. /\ saved' \in [status : {"denied", "approved"}, nr : Ids]
        /\ saved'.status = "approved"
    BY <1>2, <2>1 DEF Transaction
  <2>3. task.stage = "approving" /\ Post("saved")
    BY <1>6 DEF Approve
  <2>4. /\ task' \in Task /\ task'.stage = "posted" /\ task'.result = "saved"
        /\ task'.approve = task.approve /\ task'.observed = task.observed
    BY <1>2, <2>3, PostFacts
  <2>5. Idle("service")'
    BY <1>2, <1>6, CommitIdle DEF Approve
  <2>6. task.approve
    BY <2>3 DEF DialogInv, TaskInv
  <2>7. QED
    BY <1>1, <2>2, <2>3, <2>4, <2>5, <2>6, TaskStepKeeps
<1>7. CASE DecideFails
  <2>1. task.stage \in {"queued", "approving"} /\ saved' = saved /\ Post("failed")
    BY <1>7 DEF DecideFails
  <2>2. /\ task' \in Task /\ task'.stage = "posted" /\ task'.result = "failed"
        /\ task'.approve = task.approve /\ task'.observed = task.observed
    BY <1>2, <2>1, PostFacts
  <2>3. Idle("service")'
    <3>1. CASE task.stage = "queued" /\ UNCHANGED aclVars
      BY <1>2, <3>1 DEF aclVars, Idle
    <3>2. CASE task.stage = "approving" /\ Rollback("service")
      BY <1>2, <3>2, RollbackIdle
    <3>3. QED
      BY <1>7, <3>1, <3>2 DEF DecideFails
  <2>4. QED
    BY <1>1, <2>1, <2>2, <2>3, TaskStepKeeps
<1>8. QED
  BY <1>3, <1>4, <1>5, <1>6, <1>7 DEF Decision

LEMMA NoTaskFacts ==
  NoTask \in Task /\ NoTask.stage = "idle" /\ NoTask.observed = FALSE
  BY DEF NoTask, Task

LEMMA DeliverKeeps == ASSUME DialogInv, Deliver PROVE DialogInv'
<1>1. /\ task.stage = "posted" /\ task' = NoTask /\ tx' = tx
      /\ UNCHANGED <<launching, activity, available, saved>>
  BY DEF Deliver, aclVars
<1>2. /\ decision \in DecisionState /\ view # "none" /\ task \in Task /\ prompts \in Nat
  BY <1>1 DEF DialogInv, DialogTypeOK, BeforeLaunch, Untouched
<1>3. /\ Idle("service")' /\ task' \in Task /\ task'.stage = "idle"
      /\ task'.observed = FALSE
  BY <1>1, NoTaskFacts DEF DialogInv, DialogTypeOK, Idle
<1>4. /\ decision' \in DecisionState /\ prompt' \in BOOLEAN /\ prompts' \in Nat
      /\ Alive /\ Ready(decision') => saved = NotSaved
      /\ Claims(decision)'
      /\ prompts' <= 1 /\ (prompts' = 1 => saved.status = "approved")
      /\ Alive /\ prompts' = 1 => decision'.requested
      /\ InBackground => prompts' = prompts
  <2>1. CASE ~task.observed
    BY <1>1, <2>1 DEF Deliver, platform, DialogInv, DialogTypeOK, ReadyInv, Untouched,
                      ClaimInv, Claims, PromptInv
  <2>2. CASE task.observed
    <3> DEFINE d == Complete(decision, task.result)
    <3>1. /\ task.result \in {"saved", "unavailable", "missing", "failed"}
          /\ decision.approve = task.approve /\ task.approve \in BOOLEAN
          /\ task.result = "saved" =>
               saved.status = IF task.approve THEN "approved" ELSE "denied"
          /\ task.result # "saved" => saved = NotSaved
      BY <1>1, <1>2, <2>2 DEF DialogInv, TaskInv, Task
    <3>2. /\ d \in DecisionState /\ d.requested = decision.requested
          /\ task.result = "saved" =>
               d.outcome = IF decision.approve THEN "APPROVED" ELSE "DENIED"
          /\ task.result # "saved" =>
               d.outcome \in {"UNAVAILABLE", "ALREADY_DECIDED", "ERROR"}
      BY <1>2, <3>1, CompleteFacts
    <3>3. RequestRuntimePermissions(d, view = "resumed")
      BY <2>2 DEF Deliver
    <3> HIDE DEF d
    <3>4. /\ decision' \in DecisionState
          /\ decision'.outcome = d.outcome /\ decision'.approve = d.approve
          /\ d.requested => decision'.requested
          /\ prompt' \in BOOLEAN /\ prompts' \in Nat
          /\ \/ prompts' = prompts
             \/ /\ prompts' = prompts + 1 /\ view = "resumed"
                /\ d.outcome = "APPROVED" /\ ~d.requested /\ decision'.requested
      <4>1. (view = "resumed") \in BOOLEAN /\ DialogTypeOK
        BY DEF DialogInv
      <4>2. QED
        BY <3>2, <3>3, <4>1, RequestFacts
    <3>5. Alive /\ Ready(decision') => saved = NotSaved
      BY <3>1, <3>2, <3>4 DEF Ready
    <3>6. Claims(decision)'
      BY <1>1, <3>1, <3>2, <3>4 DEF Claims
    <3>7. CASE prompts' = prompts
      BY <3>2, <3>4, <3>5, <3>6, <3>7 DEF DialogInv, PromptInv
    <3>8. CASE /\ prompts' = prompts + 1 /\ view = "resumed"
               /\ d.outcome = "APPROVED" /\ ~d.requested /\ decision'.requested
      <4>1. prompts = 0
        BY <1>2, <3>2, <3>8 DEF DialogInv, PromptInv, Alive
      <4>2. saved.status = "approved"
        BY <3>1, <3>2, <3>8
      <4>3. QED
        BY <3>4, <3>5, <3>6, <3>8, <4>1, <4>2 DEF InBackground
    <3>9. QED
      BY <3>4, <3>7, <3>8
  <2>3. QED
    BY <2>1, <2>2
<1>5. DialogTypeOK'
  BY <1>1, <1>3, <1>4 DEF DialogInv, DialogTypeOK, activity
<1>6. BeforeLaunch'
  BY <1>1, <1>2 DEF DialogInv, BeforeLaunch, activity
<1>7. TaskInv'
  BY <1>3 DEF TaskInv
<1>8. ReadyInv'
  BY <1>1, <1>3, <1>4 DEF DialogInv, ReadyInv, Alive, InBackground, Ready, Untouched,
                          activity
<1>9. ClaimInv'
  BY <1>1, <1>4 DEF DialogInv, ClaimInv, Claims, activity
<1>10. PromptInv'
  BY <1>1, <1>4 DEF DialogInv, PromptInv, Alive, InBackground, activity
<1>11. QED
  BY <1>5, <1>6, <1>7, <1>8, <1>9, <1>10 DEF DialogInv

(* The activity comes up with a state it kept or restored.                 *)
LEMMA ShowKeeps ==
  ASSUME DialogInv, NEW d \in DecisionState, RequestRuntimePermissions(d, TRUE),
         view \notin {"none", "closed"}, view' = "resumed",
         UNCHANGED <<aclVars, launching, shown, bundle, task, available, saved>>,
         task.observed => d.outcome = "SAVING" /\ d.approve = task.approve,
         Ready(d) => Untouched,
         Claims(d),
         prompts = 1 => d.requested
  PROVE  DialogInv'
<1>1. /\ decision' \in DecisionState
      /\ decision'.outcome = d.outcome /\ decision'.approve = d.approve
      /\ d.requested => decision'.requested
      /\ prompt' \in BOOLEAN /\ prompts' \in Nat
      /\ \/ prompts' = prompts
         \/ /\ prompts' = prompts + 1
            /\ d.outcome = "APPROVED" /\ ~d.requested /\ decision'.requested
  <2>1. TRUE \in BOOLEAN /\ DialogTypeOK
    BY DEF DialogInv
  <2>2. QED
    BY <2>1, RequestFacts
<1>2. UNCHANGED <<tx, launching, shown, bundle, task, available, saved>>
  BY DEF aclVars
<1>3. /\ prompts' <= 1 /\ (prompts' = 1 => saved.status = "approved")
      /\ prompts' = 1 => decision'.requested
  <2>1. CASE prompts' = prompts
    BY <1>1, <2>1 DEF DialogInv, PromptInv
  <2>2. CASE /\ prompts' = prompts + 1
             /\ d.outcome = "APPROVED" /\ ~d.requested /\ decision'.requested
    <3>1. prompts = 0
      BY <2>2 DEF DialogInv, DialogTypeOK, PromptInv
    <3>2. QED
      BY <2>2, <3>1 DEF Claims
  <2>3. QED
    BY <1>1, <2>1, <2>2
<1>4. Idle("service")' <=> Idle("service")
  BY <1>2 DEF Idle
<1>5. DialogTypeOK'
  BY <1>1, <1>2, <1>4 DEF DialogInv, DialogTypeOK
<1>6. BeforeLaunch'
  BY <1>2 DEF DialogInv, BeforeLaunch
<1>7. TaskInv'
  BY <1>1, <1>2 DEF DialogInv, TaskInv
<1>8. ReadyInv'
  BY <1>1, <1>2 DEF ReadyInv, InBackground, Ready, Untouched
<1>9. ClaimInv'
  BY <1>1, <1>2 DEF DialogInv, ClaimInv, Claims
<1>10. PromptInv'
  BY <1>2, <1>3 DEF PromptInv, InBackground
<1>11. QED
  BY <1>5, <1>6, <1>7, <1>8, <1>9, <1>10 DEF DialogInv

LEMMA ResumeKeeps == ASSUME DialogInv, Resume PROVE DialogInv'
<1>1. decision \in DecisionState /\ RequestRuntimePermissions(decision, TRUE)
  BY DEF Resume, DialogInv, DialogTypeOK
<1>2. /\ view \notin {"none", "closed"} /\ view' = "resumed" /\ Alive
      /\ UNCHANGED <<aclVars, launching, shown, bundle, task, available, saved>>
  BY DEF Resume, Alive
<1>3. /\ task.observed => decision.outcome = "SAVING" /\ decision.approve = task.approve
      /\ Ready(decision) => Untouched
      /\ Claims(decision)
      /\ prompts = 1 => decision.requested
  BY <1>2 DEF DialogInv, TaskInv, ReadyInv, ClaimInv, PromptInv
<1>4. QED
  BY <1>1, <1>2, <1>3, ShowKeeps

LEMMA RecreateKeeps == ASSUME DialogInv, Recreate PROVE DialogInv'
<1> DEFINE d == Restored(bundle)
<1>1. /\ d \in DecisionState /\ d.requested = bundle.requested
      /\ d.outcome = IF bundle.outcome = "SAVING" THEN "UNCERTAIN" ELSE bundle.outcome
  BY RestoredFacts DEF DialogInv, DialogTypeOK
<1>2. /\ RequestRuntimePermissions(d, TRUE)
      /\ view \notin {"none", "closed"} /\ view' = "resumed" /\ InBackground
      /\ UNCHANGED <<aclVars, launching, shown, bundle, task, available, saved>>
  BY DEF Recreate, InBackground
<1> HIDE DEF d
<1>3. ~task.observed
  BY DEF Recreate, DialogInv, TaskInv
<1>4. Ready(d) => Untouched
  BY <1>1, <1>2 DEF DialogInv, ReadyInv, Ready
<1>5. Claims(d)
  BY <1>1 DEF DialogInv, ClaimInv, Claims
<1>6. prompts = 1 => d.requested
  BY <1>1, <1>2 DEF DialogInv, PromptInv
<1>7. QED
  BY <1>1, <1>2, <1>3, <1>4, <1>5, <1>6, ShowKeeps

(* The activity leaves the screen.                                         *)
LEMMA HideKeeps ==
  ASSUME DialogInv, view \notin {"none", "destroyed"},
         UNCHANGED <<aclVars, launching, shown, decision, task, available, platform, saved>>,
         \/ view' \in {"paused", "closed"} /\ bundle' = bundle
            /\ (view' = "paused" => Alive)
         \/ view' = "stopped" /\ bundle' = decision /\ Alive
  PROVE  DialogInv'
<1>1. UNCHANGED <<tx, launching, shown, decision, task, available, prompt, prompts, saved>>
  BY DEF aclVars, platform
<1>2. Idle("service")' <=> Idle("service")
  BY <1>1 DEF Idle
<1>3. DialogTypeOK'
  BY <1>1, <1>2 DEF DialogInv, DialogTypeOK
<1>4. BeforeLaunch' /\ TaskInv'
  BY <1>1 DEF DialogInv, BeforeLaunch, TaskInv
<1>5. ReadyInv'
  BY <1>1 DEF DialogInv, ReadyInv, Alive, InBackground, Ready, Untouched
<1>6. ClaimInv' /\ PromptInv'
  BY <1>1 DEF DialogInv, ClaimInv, Claims, PromptInv, Alive, InBackground
<1>7. QED
  BY <1>3, <1>4, <1>5, <1>6 DEF DialogInv

LEMMA PauseStopCloseKeep == ASSUME DialogInv, Pause \/ Stop \/ Close PROVE DialogInv'
<1>1. view \notin {"none", "destroyed"} /\ Alive
  BY DEF Pause, Stop, Close, Alive
<1>2. UNCHANGED <<aclVars, launching, shown, decision, task, available, platform, saved>>
  BY DEF Pause, Stop, Close
<1>3. \/ view' \in {"paused", "closed"} /\ bundle' = bundle
      \/ view' = "stopped" /\ bundle' = decision
  BY DEF Pause, Stop, Close, SavedState
<1>4. QED
  BY <1>1, <1>2, <1>3, HideKeeps

LEMMA DestroyKeeps == ASSUME DialogInv, Destroy PROVE DialogInv'
<1>1. /\ view = "stopped" /\ view' = "destroyed"
      /\ UNCHANGED <<tx, launching, shown, bundle, decision, available, prompt, prompts,
                     saved>>
  BY DEF Destroy, aclVars, platform
<1>2. /\ task' \in Task /\ task'.observed = FALSE /\ task'.stage = task.stage
      /\ task'.approve = task.approve /\ task'.result = task.result
  BY DEF Destroy, DialogInv, DialogTypeOK, Task
<1>3. Idle("service")' <=> Idle("service")
  BY <1>1 DEF Idle
<1>4. DialogTypeOK'
  BY <1>1, <1>2, <1>3 DEF DialogInv, DialogTypeOK
<1>5. BeforeLaunch' /\ TaskInv'
  BY <1>1, <1>2 DEF DialogInv, BeforeLaunch, TaskInv
<1>6. ReadyInv'
  BY <1>1, <1>2 DEF DialogInv, ReadyInv, Alive, InBackground, Ready, Untouched
<1>7. ClaimInv' /\ PromptInv'
  BY <1>1 DEF DialogInv, ClaimInv, Claims, PromptInv, Alive, InBackground
<1>8. QED
  BY <1>4, <1>5, <1>6, <1>7 DEF DialogInv

LEMMA ProcessDiesKeeps == ASSUME DialogInv, ProcessDies PROVE DialogInv'
<1>1. /\ view # "none" /\ view' \in {"destroyed", "closed"}
      /\ view' = "destroyed" => InBackground
      /\ task' = NoTask /\ tx' = Others("service") /\ launching' = {} /\ available' = FALSE
      /\ UNCHANGED <<shown, bundle, decision, prompt, prompts, saved>>
  BY DEF ProcessDies, InBackground, platform
<1>2. /\ task' \in Task /\ task'.stage = "idle" /\ task'.observed = FALSE
  BY <1>1, NoTaskFacts
<1>3. Idle("service")'
  BY <1>1 DEF Idle, Others
<1>4. DialogTypeOK'
  BY <1>1, <1>2, <1>3 DEF DialogInv, DialogTypeOK
<1>5. BeforeLaunch' /\ TaskInv'
  BY <1>1, <1>2 DEF DialogInv, BeforeLaunch, TaskInv
<1>6. ReadyInv'
  BY <1>1, <1>2 DEF DialogInv, ReadyInv, Alive, InBackground, Ready, Untouched
<1>7. ClaimInv' /\ PromptInv'
  BY <1>1 DEF DialogInv, ClaimInv, Claims, PromptInv, Alive, InBackground
<1>8. QED
  BY <1>4, <1>5, <1>6, <1>7 DEF DialogInv

LEMMA ServiceStartsKeeps == ASSUME DialogInv, ServiceStarts PROVE DialogInv'
<1>1. /\ available' = TRUE
      /\ UNCHANGED <<tx, launching, shown, view, bundle, decision, task, prompt, prompts,
                     saved>>
  BY DEF ServiceStarts, aclVars, activity, platform
<1>2. Idle("service")' <=> Idle("service")
  BY <1>1 DEF Idle
<1>3. DialogTypeOK'
  BY <1>1, <1>2 DEF DialogInv, DialogTypeOK
<1>4. BeforeLaunch' /\ TaskInv' /\ ReadyInv'
  BY <1>1 DEF DialogInv, BeforeLaunch, TaskInv, ReadyInv, Alive, InBackground, Ready,
              Untouched
<1>5. ClaimInv' /\ PromptInv'
  BY <1>1 DEF DialogInv, ClaimInv, Claims, PromptInv, Alive, InBackground
<1>6. QED
  BY <1>3, <1>4, <1>5 DEF DialogInv

LEMMA PromptAnsweredKeeps == ASSUME DialogInv, PromptAnswered PROVE DialogInv'
<1>1. /\ prompt' = FALSE /\ view = "resumed"
      /\ UNCHANGED <<tx, launching, shown, view, bundle, task, available, prompts, saved>>
  BY DEF PromptAnswered, aclVars, activity
<1>2. /\ decision' \in DecisionState /\ decision'.outcome = decision.outcome
      /\ decision'.approve = decision.approve
      /\ decision'.requested = decision.requested
  BY DEF PromptAnswered, DialogInv, DialogTypeOK, DecisionState
<1>3. Idle("service")' <=> Idle("service")
  BY <1>1 DEF Idle
<1>4. DialogTypeOK'
  BY <1>1, <1>2, <1>3 DEF DialogInv, DialogTypeOK
<1>5. BeforeLaunch' /\ TaskInv'
  BY <1>1, <1>2 DEF DialogInv, BeforeLaunch, TaskInv
<1>6. ReadyInv'
  BY <1>1, <1>2 DEF DialogInv, ReadyInv, Alive, InBackground, Ready, Untouched
<1>7. ClaimInv' /\ PromptInv'
  BY <1>1, <1>2 DEF DialogInv, ClaimInv, Claims, PromptInv, Alive, InBackground
<1>8. QED
  BY <1>4, <1>5, <1>6, <1>7 DEF DialogInv

LEMMA FlowNextKeeps == IInv /\ DialogInv /\ [FlowNext]_flowVars => DialogInv'
<1> SUFFICES ASSUME IInv, DialogInv, [FlowNext]_flowVars PROVE DialogInv'
  OBVIOUS
<1>1. CASE Launch \/ \E approve \in BOOLEAN : Submit(approve)
  BY <1>1, LaunchKeeps, SubmitKeeps
<1>2. CASE Decision \/ Deliver
  BY <1>2, DecisionKeeps, DeliverKeeps
<1>3. CASE Lifecycle
  BY <1>3, PauseStopCloseKeep, ResumeKeeps, DestroyKeeps, RecreateKeeps,
     ProcessDiesKeeps, ServiceStartsKeeps, PromptAnsweredKeeps DEF Lifecycle
<1>4. CASE \E c \in Clients, ms \in Requested, id \in Ids : Ask(c, ms, id)
  BY <1>4, AclAssumption, AskKeeps
<1>5. CASE Elsewhere
  BY <1>5, ElsewhereKeeps
<1>6. CASE UNCHANGED flowVars
  <2>1. UNCHANGED <<tx, launching, shown, view, bundle, decision, task, available,
                    prompt, prompts, saved>>
    BY <1>6 DEF flowVars, aclVars, activity, platform
  <2>2. DialogTypeOK'
    BY <2>1 DEF DialogInv, DialogTypeOK, Idle
  <2>3. BeforeLaunch' /\ TaskInv' /\ ReadyInv'
    BY <2>1 DEF DialogInv, BeforeLaunch, TaskInv, ReadyInv, Alive, InBackground, Ready,
                Untouched
  <2>4. ClaimInv' /\ PromptInv'
    BY <2>1 DEF DialogInv, ClaimInv, Claims, PromptInv, Alive, InBackground
  <2>5. QED
    BY <2>2, <2>3, <2>4 DEF DialogInv
<1>7. QED
  BY <1>1, <1>2, <1>3, <1>4, <1>5, <1>6 DEF FlowNext

LEMMA FlowInductive == FlowSpec => [](IInv /\ DialogInv)
<1>1. FlowInit => IInv /\ DialogInv
  BY InitIInv, InitDialog DEF FlowInit
<1>2. IInv /\ DialogInv /\ [FlowNext]_flowVars => (IInv /\ DialogInv)'
  BY FlowNextKeeps, StepMaps, NextKeeps DEF IInv
<1>3. QED
  BY <1>1, <1>2, PTL DEF FlowSpec

(* The dialog's state is well formed, and the service's connection is free *)
(* whenever the executor is not approving.                                 *)
THEOREM FlowTypeCorrect == FlowSpec => []FlowTypeOK
<1>1. IInv /\ DialogInv => FlowTypeOK
  BY DEF IInv, DialogInv, DialogTypeOK, FlowTypeOK
<1>2. QED
  BY <1>1, FlowInductive, PTL

(* "Access approved and saved" and "Request denied" (render) are said only *)
(* of a decision that was saved.                                           *)
THEOREM ClaimIsTrueHolds == FlowSpec => []ClaimIsTrue
<1>1. DialogInv => ClaimIsTrue
  BY DEF DialogInv, ClaimInv, Claims, ClaimIsTrue
<1>2. QED
  BY <1>1, FlowInductive, PTL

(* A dialog that offers the choice (begin, restore) has nothing saved and  *)
(* no task that may still save.                                            *)
THEOREM NeverReplaysHolds == FlowSpec => []NeverReplays
<1>1. DialogInv => NeverReplays
  BY DEF DialogInv, ReadyInv, NeverReplays, Alive, Ready, Untouched, CanBegin
<1>2. QED
  BY <1>1, FlowInductive, PTL

(* requestRuntimePermissions opens one prompt, after a saved approval.     *)
THEOREM AskedOnceHolds == FlowSpec => []AskedOnce
<1>1. DialogInv => AskedOnce
  BY DEF DialogInv, PromptInv, AskedOnce
<1>2. QED
  BY <1>1, FlowInductive, PTL
-----------------------------------------------------------------------------
(* Whose request an approval is for.  The dialog knows its request by an   *)
(* id that may be given to another row later: as long as the row it was    *)
(* launched for exists, that row has the id.                               *)

(* The approval of a request that is not shown, once the shown one is gone.*)
MistakenOnlyIfDeleted ==
  saved.status = "approved" /\ saved.nr # shown.nr =>
    \A r \in requests : r.nr # shown.nr

Follows(n) == n.nr <= asked /\ \A r \in requests : r.nr = n.nr => r.id = n.id

ShownInv ==
  /\ \A n \in launching : Follows(n)
  /\ Follows(shown)
  /\ \A t \in tx : t.connection = "service" => t.id = shown.id
  /\ MistakenOnlyIfDeleted

(* Which rows there are after a step that asks nothing new, and what the   *)
(* service's transaction is about.                                         *)
OldRowsOnly ==
  /\ asked' = asked
  /\ \A s \in requests' : \E r \in requests : r.nr = s.nr /\ r.id = s.id

OldService ==
  \A u \in tx' : u.connection = "service" =>
    \E t \in tx : t.connection = "service" /\ t.id = u.id

LEMMA DecidedIds ==
  ASSUME TypeOK, NEW id, NEW status \in {"approved", "denied"}
  PROVE  \A s \in Decided(id, status) : \E r \in requests : r.nr = s.nr /\ r.id = s.id
<1>1. \A s \in Decided(id, status) :
        \E r \in requests :
          \/ r.id = id /\ s = [r EXCEPT !.status = status]
          \/ r.id # id /\ s = r
  BY DecidedFacts
<1>2. requests \subseteq RequestRow
  BY DEF TypeOK
<1>3. QED
  BY <1>1, <1>2 DEF RequestRow

LEMMA AgedIds ==
  ASSUME NEW ts \in SUBSET Transaction, NEW u \in {[t EXCEPT !.current = FALSE] : t \in ts}
  PROVE  \E t \in ts : t.connection = u.connection /\ t.id = u.id
<1>1. PICK t \in ts : u = [t EXCEPT !.current = FALSE]
  OBVIOUS
<1>2. QED
  BY <1>1 DEF Transaction

LEMMA WritesOld ==
  ASSUME TypeOK, NEW k, Writes(k) PROVE OldService
<1>1. tx \in SUBSET Transaction
  BY DEF TypeOK
<1>2. \A u \in tx' : \E t \in tx : t.connection = u.connection /\ t.id = u.id
  BY <1>1, AgedIds DEF Writes, Aged
<1>3. QED
  BY <1>2 DEF OldService

LEMMA DenyOld ==
  ASSUME TypeOK, NEW k, NEW id, DenyRequest(k, id) PROVE OldRowsOnly /\ OldService
BY DecidedIds, WritesOld DEF DenyRequest, OldRowsOnly

LEMMA CommitOld ==
  ASSUME TypeOK, NEW k, CommitApproval(k) PROVE OldRowsOnly /\ OldService
<1>1. PICK t \in tx : /\ requests' = Decided(t.id, "approved")
                      /\ tx' = {[u EXCEPT !.current = FALSE] : u \in Others(k)}
                      /\ asked' = asked
  BY DEF CommitApproval
<1>2. OldRowsOnly
  BY <1>1, DecidedIds DEF OldRowsOnly
<1>3. Others(k) \in SUBSET Transaction /\ Others(k) \subseteq tx
  BY DEF TypeOK, Others
<1>4. \A u \in tx' : \E v \in Others(k) : v.connection = u.connection /\ v.id = u.id
  BY <1>1, <1>3, AgedIds
<1>5. OldService
  BY <1>3, <1>4 DEF OldService
<1>6. QED
  BY <1>2, <1>5

LEMMA RollbackOld ==
  ASSUME NEW k, Rollback(k) PROVE OldRowsOnly /\ OldService
BY DEF Rollback, Others, tables, OldRowsOnly, OldService

(* What the administrator reads is not the service's.                      *)
LEMMA AdminReadOld ==
  ASSUME NEW id, ReadRequest("admin", id) PROVE OldRowsOnly /\ OldService
<1>1. PICK t : t.connection = "admin" /\ tx' = tx \cup {t}
  BY DEF ReadRequest
<1>2. QED
  BY <1>1 DEF ReadRequest, tables, OldRowsOnly, OldService

LEMMA ElsewhereOld ==
  ASSUME TypeOK, Elsewhere PROVE OldRowsOnly /\ OldService
<1>1. CASE \E c \in Clients : Register(c)
  BY <1>1, WritesOld DEF Register, OldRowsOnly
<1>2. CASE Administer
  <2>1. asked' = asked /\ requests' \subseteq requests
    BY <1>2 DEF Administer, RevokeClient, Grant, RevokeGrant
  <2>2. OldService
    BY <1>2, WritesOld DEF Administer, RevokeClient, Grant, RevokeGrant
  <2>3. QED
    BY <2>1, <2>2 DEF OldRowsOnly
<1>3. CASE Decide("admin")
  BY <1>3, DenyOld, CommitOld, RollbackOld, AdminReadOld DEF Decide
<1>4. QED
  BY <1>1, <1>2, <1>3 DEF Elsewhere

(* No row is taken for another one as long as nothing new is asked, shown  *)
(* or approved.                                                            *)
LEMMA OldKeeps ==
  ASSUME ShownInv, OldRowsOnly, OldService, launching' \subseteq launching,
         shown' = shown, saved' = saved \/ saved'.status # "approved"
  PROVE  ShownInv'
<1>1. (\A n \in launching : Follows(n))' /\ Follows(shown)'
  BY DEF ShownInv, OldRowsOnly, Follows
<1>2. (\A t \in tx : t.connection = "service" => t.id = shown.id)'
  BY DEF ShownInv, OldService
<1>3. MistakenOnlyIfDeleted'
  BY DEF ShownInv, OldRowsOnly, MistakenOnlyIfDeleted
<1>4. QED
  BY <1>1, <1>2, <1>3 DEF ShownInv

LEMMA InitShown == FlowInit => ShownInv
<1> SUFFICES ASSUME FlowInit PROVE ShownInv
  OBVIOUS
<1>1. Nothing.nr = 0 /\ NotSaved.status = "none"
  BY DEF Nothing, NotSaved
<1>2. QED
  BY <1>1 DEF FlowInit, Init, ShownInv, Follows, MistakenOnlyIfDeleted

LEMMA AskShown ==
  ASSUME IInv, DialogInv, ShownInv, NEW c \in Clients, NEW ms \in SUBSET Methods,
         NEW id \in Ids, Ask(c, ms, id)
  PROVE  ShownInv'
<1> DEFINE row == [id |-> id, nr |-> asked + 1, client |-> c, methods |-> ms,
                   status |-> "pending"]
           new == [id |-> id, nr |-> asked + 1]
<1>1. /\ requests' = requests \cup {row} /\ asked' = asked + 1
      /\ launching' \subseteq launching \cup {new}
      /\ shown' = shown /\ saved' = saved
  BY DEF Ask, CreateRequest, activity
<1>2. row.nr = asked + 1 /\ row.id = id /\ new.nr = asked + 1 /\ new.id = id
  OBVIOUS
<1> HIDE DEF row, new
<1>3. asked \in Nat /\ \A r \in requests : r.nr \in Int /\ r.nr <= asked
  BY AclAssumption DEF IInv, TypeOK, RequestRow, Ids, Numbered
<1>4. \A n \in launching : n.nr \in Int
  BY DEF DialogInv, DialogTypeOK, Ids
<1>5. shown.nr \in Int
  BY DEF DialogInv, DialogTypeOK, Ids, Nothing
<1>6. \A n \in launching : Follows(n)'
  BY <1>1, <1>2, <1>3, <1>4 DEF ShownInv, Follows
<1>7. asked + 1 <= asked' /\ \A r \in requests' : r.nr = asked + 1 => r.id = id
  BY <1>1, <1>2, <1>3
<1>8. Follows(shown)'
  BY <1>1, <1>2, <1>3, <1>5 DEF ShownInv, Follows
<1>9. (\A n \in launching : Follows(n))'
  BY <1>1, <1>2, <1>6, <1>7 DEF Follows
<1>10. (\A t \in tx : t.connection = "service" => t.id = shown.id)'
  BY <1>1, WritesOld DEF IInv, Ask, CreateRequest, OldService, ShownInv
<1>11. MistakenOnlyIfDeleted'
  BY <1>1, <1>2, <1>3, <1>5 DEF ShownInv, Follows, MistakenOnlyIfDeleted
<1>12. QED
  BY <1>8, <1>9, <1>10, <1>11 DEF ShownInv

LEMMA LaunchShown == ASSUME DialogInv, ShownInv, Launch PROVE ShownInv'
<1>1. PICK n \in launching : shown' = n
  BY DEF Launch
<1>2. launching' = {} /\ UNCHANGED <<requests, asked, tx, saved>>
  BY DEF Launch, aclVars, tables
<1>3. saved = NotSaved /\ Idle("service")
  BY <1>1 DEF DialogInv, DialogTypeOK, BeforeLaunch, Untouched
<1>4. NotSaved.status = "none"
  BY DEF NotSaved
<1>5. QED
  BY <1>1, <1>2, <1>3, <1>4 DEF ShownInv, Follows, Idle, MistakenOnlyIfDeleted

(* The task reads the row with the shown id.                               *)
LEMMA ReadShown ==
  ASSUME IInv, DialogInv, ShownInv, ReadForApproval, UNCHANGED <<launching, activity>>
  PROVE  ShownInv'
<1>1. PICK t : t.id = shown.id /\ tx' = tx \cup {t}
  BY DEF ReadForApproval, ReadRequest
<1>2. UNCHANGED <<launching, shown, requests, asked, saved>>
  BY DEF ReadForApproval, ReadRequest, tables, activity
<1>3. QED
  BY <1>1, <1>2 DEF ShownInv, Follows, MistakenOnlyIfDeleted

(* What it approves on the latest snapshot is the row it has read, which   *)
(* is the one it shows if that one is still there.                         *)
LEMMA ApproveShown ==
  ASSUME IInv, DialogInv, ShownInv, Approve, UNCHANGED <<launching, activity>>
  PROVE  ShownInv'
<1>1. PICK t \in tx : /\ t.connection = "service"
                      /\ saved' = [status |-> "approved", nr |-> t.nr]
  BY DEF Approve
<1>2. PICK u \in tx : u.connection = "service" /\ OnLatest(u)
  BY DEF Approve, CommitApproval
<1>3. t = u /\ saved'.nr = t.nr
  BY <1>1, <1>2 DEF IInv, TypeOK
<1>4. PICK p \in requests : p.id = t.id /\ p.nr = t.nr
  <2>1. "service" \in Connections
    BY DEF Connections
  <2>2. QED
    BY <1>2, <1>3, <2>1, CommittedRow
<1>5. \A r \in requests : r.nr = shown.nr => r.nr = t.nr
  BY <1>1, <1>4 DEF IInv, TypeOK, ShownInv, Follows
<1>6. OldRowsOnly /\ OldService
  BY CommitOld DEF Approve, IInv
<1>7. shown' = shown /\ launching' = launching
  BY DEF activity
<1>8. MistakenOnlyIfDeleted'
  BY <1>3, <1>5, <1>6, <1>7 DEF OldRowsOnly, MistakenOnlyIfDeleted
<1>9. (\A n \in launching : Follows(n))' /\ Follows(shown)'
  BY <1>6, <1>7 DEF ShownInv, OldRowsOnly, Follows
<1>10. (\A v \in tx : v.connection = "service" => v.id = shown.id)'
  BY <1>6, <1>7 DEF ShownInv, OldService
<1>11. QED
  BY <1>8, <1>9, <1>10 DEF ShownInv

LEMMA SameOld == ASSUME UNCHANGED aclVars PROVE OldRowsOnly /\ OldService
BY DEF aclVars, tables, OldRowsOnly, OldService

LEMMA DecisionShown ==
  ASSUME IInv, DialogInv, ShownInv, Decision PROVE ShownInv'
<1>1. UNCHANGED <<launching, activity>> /\ shown' = shown /\ launching' = launching
  BY DEF Decision, activity
<1>2. CASE DecideUnavailable \/ DecideMissing
  BY <1>1, <1>2, SameOld, OldKeeps DEF DecideUnavailable, DecideMissing
<1>3. CASE Deny
  <2>1. \E nr : saved' = [status |-> "denied", nr |-> nr]
    BY <1>3 DEF Deny
  <2>2. saved'.status # "approved"
    BY <2>1
  <2>3. QED
    BY <1>1, <1>3, <2>2, DenyOld, OldKeeps DEF Deny, IInv
<1>4. CASE DecideFails
  BY <1>1, <1>4, SameOld, RollbackOld, OldKeeps DEF DecideFails
<1>5. QED
  BY <1>1, <1>2, <1>3, <1>4, ReadShown, ApproveShown DEF Decision

LEMMA LifecycleShown == ASSUME ShownInv, Lifecycle PROVE ShownInv'
<1>1. CASE ProcessDies
  <2>1. OldRowsOnly /\ OldService
    BY <1>1 DEF ProcessDies, Others, tables, OldRowsOnly, OldService
  <2>2. launching' = {} /\ shown' = shown /\ saved' = saved
    BY <1>1 DEF ProcessDies
  <2>3. QED
    BY <2>1, <2>2, OldKeeps
<1>2. CASE Pause \/ Resume \/ Stop \/ Destroy \/ Recreate
  <2>1. UNCHANGED aclVars /\ launching' = launching /\ shown' = shown /\ saved' = saved
    BY <1>2 DEF Pause, Resume, Stop, Destroy, Recreate
  <2>2. QED
    BY <2>1, SameOld, OldKeeps
<1>3. CASE Close \/ ServiceStarts \/ PromptAnswered
  <2>1. UNCHANGED aclVars /\ launching' = launching /\ shown' = shown /\ saved' = saved
    BY <1>3 DEF Close, ServiceStarts, PromptAnswered, activity
  <2>2. QED
    BY <2>1, SameOld, OldKeeps
<1>4. QED
  BY <1>1, <1>2, <1>3 DEF Lifecycle

LEMMA ShownInductive ==
  IInv /\ DialogInv /\ ShownInv /\ [FlowNext]_flowVars => ShownInv'
<1> SUFFICES ASSUME IInv, DialogInv, ShownInv, [FlowNext]_flowVars PROVE ShownInv'
  OBVIOUS
<1>1. CASE \E c \in Clients, ms \in Requested, id \in Ids : Ask(c, ms, id)
  BY <1>1, AclAssumption, AskShown
<1>2. CASE Launch \/ Decision \/ Lifecycle
  BY <1>2, LaunchShown, DecisionShown, LifecycleShown
<1>3. CASE Deliver \/ (\E approve \in BOOLEAN : Submit(approve)) \/ UNCHANGED flowVars
  <2>1. UNCHANGED aclVars /\ launching' = launching /\ shown' = shown /\ saved' = saved
    BY <1>3 DEF Deliver, Submit, flowVars, activity
  <2>2. QED
    BY <2>1, SameOld, OldKeeps
<1>4. CASE Elsewhere
  <2>1. launching' = launching /\ shown' = shown /\ saved' = saved
    BY <1>4 DEF Elsewhere, activity
  <2>2. QED
    BY <1>4, <2>1, ElsewhereOld, OldKeeps DEF IInv
<1>5. QED
  BY <1>1, <1>2, <1>3, <1>4 DEF FlowNext

(* ApprovalIsShown does not hold, since RevokeClient lets ids be used      *)
(* again; this is how far it fails: an approval of the dialog is for the   *)
(* request it shows unless that one was deleted and will not come back, so *)
(* no other deed of clients, administrator or dialog confuses requests.    *)
THEOREM MistakenOnlyIfDeletedHolds == FlowSpec => []MistakenOnlyIfDeleted
<1>1. FlowInit => ShownInv
  BY InitShown
<1>2. IInv /\ DialogInv /\ ShownInv /\ [FlowNext]_flowVars => ShownInv'
  BY ShownInductive
<1>3. ShownInv => MistakenOnlyIfDeleted
  BY DEF ShownInv
<1>4. QED
  BY <1>1, <1>2, <1>3, FlowInductive, PTL DEF FlowSpec
=============================================================================
