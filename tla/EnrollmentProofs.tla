--------------------------- MODULE EnrollmentProofs ---------------------------
(***************************************************************************)
(* The enrolment's properties for any number of processes, keys and        *)
(* authorities.  OneCA needs the order of createCA's two writes: the       *)
(* service signs only when both are done.  EnrolledConnects needs the      *)
(* order of the client's three, and that a process which registers alone   *)
(* finds the files it has written as it left them.                         *)
(***************************************************************************)
EXTENDS Enrollment, TLAPS

-----------------------------------------------------------------------------
(* The strengthening.                                                      *)

(* What is on disk while a CA is created, and when the service serves.     *)
CAShape ==
  /\ service.pc \in {"key", "keyOpen", "crt", "crtOpen"} =>
       service.key = cas /\ service.crt = cas /\ cas > 0
  /\ service.pc = "key" => caKey = Absent /\ caCrt = Absent
  /\ service.pc = "keyOpen" => caKey = Torn /\ caCrt = Absent
  /\ service.pc = "crt" => caKey = cas /\ caCrt = Absent
  /\ service.pc = "crtOpen" => caKey = cas /\ caCrt = Torn
  /\ service.pc = "serving" =>
       caKey = service.key /\ caCrt = service.crt /\ service.key = service.crt /\ service.key > 0
  /\ caKey > 0 /\ caCrt > 0 => caKey = caCrt

(* A process that writes has a certificate, signed by the CA it was told.  *)
ClientShape ==
  \A p \in Processes :
    /\ Active(p) => client[p].key \in 1..MaxKeys
    /\ client[p].pc = "begun" => client[p].step = 0 /\ ~client[p].open
    /\ client[p].pc = "writing" =>
         /\ client[p].step \in 1..3
         /\ client[p].ca > 0 /\ issued[client[p].key] = client[p].ca

(* Who registers alone, and that nobody else is without a mark of it.      *)
AloneShape ==
  \A p \in Processes :
    /\ client[p].alone => Active(p) /\ \A q \in Processes \ {p} : ~Active(q)
    /\ Active(p) /\ ~client[p].alone => last = "mixed"
    /\ client[p].pc = "writing" /\ client[p].open => last # "whole"

(* AutoEnroll's ca.crt is there only when the other two are.               *)
CALast ==
  tool = "jnimcp" =>
    /\ dir["ca"] # Absent => dir["crt"] # Absent /\ dir["key"] # Absent
    /\ \A p \in Processes : client[p].pc = "writing" =>
         /\ client[p].step >= 2 => dir["crt"] # Absent
         /\ client[p].step = 3 => dir["key"] # Absent
    /\ \A p \in Processes :
         client[p].alone /\ ~(client[p].step = 3 /\ client[p].open) => dir["ca"] = Absent
    /\ last = "cut" => dir["ca"] \in {Absent, Torn}

(* What a process that registers alone has written is as it left it.       *)
Written ==
  \A p \in Processes : client[p].alone /\ client[p].pc = "writing" =>
    /\ client[p].step >= 2 => dir[Order(tool)[1]] = client[p].key
    /\ client[p].step = 3 => dir[Order(tool)[2]] = client[p].key

Empty == \A f \in Files : dir[f] = Absent

Whole ==
  /\ dir["key"] \in 1..MaxKeys /\ dir["crt"] = dir["key"]
  /\ issued[dir["key"]] > 0 /\ dir["ca"] = issued[dir["key"]]

LastWhole == last = "whole" => Empty \/ Whole

CAInv == TypeOK /\ CAShape /\ OneCA

IInv ==
  /\ CAInv
  /\ ClientShape /\ AloneShape /\ CALast /\ Written /\ LastWhole

LEMMA InitIInv == Init => IInv
<1> SUFFICES ASSUME Init PROVE IInv
  OBVIOUS
<1>1. \A p \in Processes : client[p] = Off
  BY DEF Init
<1>2. Off.pc = "off" /\ Off.alone = FALSE /\ Off.step = 0
  BY DEF Off
<1>3. TypeOK
  <2>1. Off \in [pc : {"off", "begun", "writing"}, step : 0..3, open : BOOLEAN,
                  key : 0..0, ca : 0..0, alone : BOOLEAN]
    BY DEF Off
  <2>2. client \in [Processes -> [pc : {"off", "begun", "writing"}, step : 0..3,
                  open : BOOLEAN, key : 0..keys, ca : 0..cas, alone : BOOLEAN]]
    BY <2>1 DEF Init
  <2>3. service \in [pc : {"down", "key", "keyOpen", "crt", "crtOpen", "serving"},
                  key : 0..cas, crt : 0..cas]
    BY DEF Init, Down
  <2>4. /\ caKey \in -1..cas /\ caCrt \in -1..cas /\ cas \in 0..MaxCAs
        /\ issued \in [1..MaxKeys -> 0..cas] /\ keys \in 0..MaxKeys
        /\ dir \in [Files -> Int]
    BY BoundsAssumption DEF Init, Absent
  <2>5. tool \in {"jnimcp", "jnicli"} /\ last \in {"whole", "cut", "mixed"}
    BY DEF Init
  <2>6. QED
    BY <2>2, <2>3, <2>4, <2>5 DEF TypeOK
<1>4. CAShape /\ OneCA
  BY DEF Init, CAShape, OneCA, Down, Absent
<1>5. ClientShape /\ AloneShape /\ Written
  BY <1>1, <1>2 DEF ClientShape, AloneShape, Written, Active
<1>6. CALast
  BY <1>1, <1>2 DEF Init, CALast, Files
<1>7. LastWhole
  BY DEF Init, LastWhole, Empty
<1>8. QED
  BY <1>3, <1>4, <1>5, <1>6, <1>7 DEF IInv, CAInv

-----------------------------------------------------------------------------
(* The service.                                                            *)

LEMMA ServiceStep ==
  ASSUME IInv, CAInv', UNCHANGED <<issued, tool, directory>>
  PROVE  IInv'
BY DEF IInv, ClientShape, AloneShape, CALast, Written, LastWhole, Empty, Whole, Active,
  directory

LEMMA ServiceTyped ==
  ASSUME TypeOK, UNCHANGED <<issued, tool, directory>>,
         cas' \in cas..MaxCAs, caKey' \in -1..cas', caCrt' \in -1..cas',
         service' \in [pc : {"down", "key", "keyOpen", "crt", "crtOpen", "serving"},
                       key : 0..cas', crt : 0..cas']
  PROVE  TypeOK'
<1>1. cas \in Nat /\ cas' \in Nat /\ cas <= cas' /\ cas' \in 0..MaxCAs
  BY BoundsAssumption DEF TypeOK
<1>2. 0..cas \subseteq 0..cas'
  BY <1>1
<1>3. issued' \in [1..MaxKeys -> 0..cas']
  BY <1>2 DEF TypeOK
<1>4. client' \in [Processes -> [pc : {"off", "begun", "writing"}, step : 0..3,
                  open : BOOLEAN, key : 0..keys', ca : 0..cas', alone : BOOLEAN]]
  BY <1>2 DEF TypeOK, directory
<1>5. QED
  BY <1>1, <1>3, <1>4 DEF TypeOK, directory

(* While the CA is being created nothing has been issued.                  *)
LEMMA NoneIssued ==
  ASSUME TypeOK, OneCA, caKey \notin 1..cas \/ caCrt \notin 1..cas
  PROVE  \A k \in 1..MaxKeys : issued[k] = 0
BY DEF TypeOK, OneCA

LEMMA LoadCAIInv ==
  ASSUME IInv, LoadCA PROVE IInv'
<1>1. caKey > 0 /\ caCrt > 0 /\ caKey = caCrt /\ caKey \in 0..cas /\ caCrt \in 0..cas
  BY DEF IInv, CAInv, TypeOK, CAShape, LoadCA, Absent, Torn
<1>2. TypeOK'
  BY <1>1, ServiceTyped DEF IInv, CAInv, TypeOK, LoadCA
<1>3. CAShape' /\ OneCA'
  BY <1>1 DEF IInv, CAInv, CAShape, OneCA, LoadCA
<1>4. QED
  BY <1>2, <1>3, ServiceStep DEF CAInv, LoadCA

LEMMA CreateCAIInv ==
  ASSUME IInv, CreateCA PROVE IInv'
<1>1. /\ cas \in Nat /\ MaxCAs \in Nat /\ cas' = cas + 1 /\ cas' \in cas..MaxCAs
      /\ caKey' = 0 /\ caCrt' = 0 /\ caKey = 0
  BY BoundsAssumption DEF IInv, CAInv, TypeOK, CreateCA, Absent
<1>2. service' = [pc |-> "key", key |-> cas + 1, crt |-> cas + 1]
  BY DEF CreateCA
<1>3. TypeOK'
  BY <1>1, <1>2, ServiceTyped DEF IInv, CAInv, CreateCA
<1>4. \A k \in 1..MaxKeys : issued[k] = 0
  BY <1>1, NoneIssued DEF IInv, CAInv
<1>5. CAShape'
  BY <1>1, <1>2 DEF CAShape, Absent
<1>6. OneCA'
  BY <1>4 DEF OneCA, CreateCA
<1>7. QED
  BY <1>3, <1>5, <1>6, ServiceStep DEF CAInv, CreateCA

LEMMA WriteCAKeyIInv ==
  ASSUME IInv, WriteCAKey PROVE IInv'
<1>1. /\ cas \in Nat /\ cas > 0 /\ service.key = cas /\ service.crt = cas
      /\ caCrt = 0 /\ caCrt' = 0 /\ cas' = cas /\ cas \in cas..MaxCAs
  BY BoundsAssumption DEF IInv, CAInv, TypeOK, CAShape, WriteCAKey, Absent
<1>2. \/ /\ caKey' = -1
         /\ service' = [service EXCEPT !.pc = "keyOpen"]
      \/ /\ caKey' = cas
         /\ service' = [service EXCEPT !.pc = "crt"]
  BY <1>1 DEF WriteCAKey, Torn
<1>3. TypeOK'
  BY <1>1, <1>2, ServiceTyped DEF IInv, CAInv, TypeOK, WriteCAKey
<1>4. \A k \in 1..MaxKeys : issued[k] = 0
  BY <1>1, NoneIssued DEF IInv, CAInv
<1>5. CAShape'
  BY <1>1, <1>2 DEF IInv, CAInv, TypeOK, CAShape, Absent, Torn
<1>6. OneCA'
  BY <1>4 DEF OneCA, WriteCAKey
<1>7. QED
  BY <1>3, <1>5, <1>6, ServiceStep DEF CAInv, WriteCAKey

LEMMA WriteCACertIInv ==
  ASSUME IInv, WriteCACert PROVE IInv'
<1>1. /\ cas \in Nat /\ cas > 0 /\ service.key = cas /\ service.crt = cas
      /\ caKey = cas /\ caKey' = cas /\ caCrt \in {0, -1} /\ cas' = cas
      /\ cas \in cas..MaxCAs
  BY BoundsAssumption DEF IInv, CAInv, TypeOK, CAShape, WriteCACert, Absent, Torn
<1>2. \/ /\ caCrt' = -1
         /\ service' = [service EXCEPT !.pc = "crtOpen"]
      \/ /\ caCrt' = cas
         /\ service' = [service EXCEPT !.pc = "serving"]
  BY <1>1 DEF WriteCACert, Torn
<1>3. TypeOK'
  BY <1>1, <1>2, ServiceTyped DEF IInv, CAInv, TypeOK, WriteCACert
<1>4. \A k \in 1..MaxKeys : issued[k] = 0
  BY <1>1, NoneIssued DEF IInv, CAInv
<1>5. CAShape'
  BY <1>1, <1>2 DEF IInv, CAInv, TypeOK, CAShape, Absent, Torn
<1>6. OneCA'
  BY <1>4 DEF OneCA, WriteCACert
<1>7. QED
  BY <1>3, <1>5, <1>6, ServiceStep DEF CAInv, WriteCACert

LEMMA DownIInv ==
  ASSUME IInv, service' = Down, UNCHANGED <<caKey, caCrt, cas, issued, tool, directory>>
  PROVE  IInv'
<1>1. service'.pc = "down"
  BY DEF Down
<1>2. TypeOK'
  BY ServiceTyped, BoundsAssumption DEF IInv, CAInv, TypeOK, Down
<1>3. CAShape' /\ OneCA'
  BY <1>1 DEF IInv, CAInv, CAShape, OneCA
<1>4. QED
  BY <1>2, <1>3, ServiceStep DEF CAInv

-----------------------------------------------------------------------------
(* The client.                                                             *)

LEMMA OrderFacts ==
  ASSUME TypeOK
  PROVE  /\ Order(tool)[3] = "ca"
         /\ tool = "jnimcp" => Order(tool)[1] = "crt" /\ Order(tool)[2] = "key"
         /\ tool = "jnicli" => Order(tool)[1] = "key" /\ Order(tool)[2] = "crt"
         /\ \A i \in 1..3 : Order(tool)[i] \in Files
BY DEF TypeOK, Order, Files

(* Every step of a client leaves the service and its authority alone.      *)
LEMMA ClientKeepsCA ==
  ASSUME IInv, TypeOK', UNCHANGED authority, UNCHANGED issued PROVE CAInv'
BY DEF IInv, CAInv, CAShape, OneCA, authority

LEMMA BeginIInv ==
  ASSUME IInv, NEW p \in Processes, Begin(p) PROVE IInv'
<1>0. PICK alone \in BOOLEAN : alone <=> \A q \in Processes : ~Active(q)
  OBVIOUS
<1> DEFINE begun == Begun(keys + 1, alone)
<1>1. /\ begun.pc = "begun" /\ begun.key = keys + 1 /\ begun.step = 0
      /\ begun.open = FALSE /\ begun.ca = 0 /\ begun.alone = alone
  BY DEF Begun
<1>2. /\ keys \in Nat /\ keys' = keys + 1 /\ keys' \in 1..MaxKeys /\ keys' \in 0..MaxKeys
      /\ UNCHANGED <<authority, issued, tool, dir>>
      /\ ~Active(p) /\ Enrolls
      /\ last' = IF alone THEN last ELSE "mixed"
  BY <1>0, BoundsAssumption DEF IInv, CAInv, TypeOK, Begin
<1>20. client' = [q \in Processes |-> IF q = p THEN begun
                                     ELSE [client[q] EXCEPT !.alone = FALSE]]
  <2>1. (\A q \in Processes : ~Active(q)) = alone
    BY <1>0
  <2>2. QED
    BY <2>1, Zenon DEF Begin
<1>3. /\ client'[p] = begun
      /\ \A q \in Processes \ {p} :
           /\ client'[q].pc = client[q].pc /\ client'[q].step = client[q].step
           /\ client'[q].open = client[q].open /\ client'[q].key = client[q].key
           /\ client'[q].ca = client[q].ca /\ client'[q].alone = FALSE
           /\ client'[q] \in [pc : {"off", "begun", "writing"}, step : 0..3,
                  open : BOOLEAN, key : 0..keys, ca : 0..cas, alone : BOOLEAN]
  BY <1>20 DEF IInv, CAInv, TypeOK
<1>4. begun \in [pc : {"off", "begun", "writing"}, step : 0..3,
                  open : BOOLEAN, key : 0..keys', ca : 0..cas, alone : BOOLEAN]
  <2>1. keys + 1 \in 0..keys' /\ 0 \in 0..cas
    BY <1>2, BoundsAssumption DEF IInv, CAInv, TypeOK
  <2>2. QED
    BY <1>0, <2>1 DEF Begun
<1>5. TypeOK'
  <2>1. cas' = cas
    BY <1>2 DEF authority
  <2>4. 0..keys \subseteq 0..keys'
    BY <1>2
  <2>2. \A q \in Processes : client'[q] \in [pc : {"off", "begun", "writing"},
          step : 0..3, open : BOOLEAN, key : 0..keys', ca : 0..cas', alone : BOOLEAN]
    BY <1>3, <1>4, <2>1, <2>4
  <2>3. client' \in [Processes -> [pc : {"off", "begun", "writing"}, step : 0..3,
          open : BOOLEAN, key : 0..keys', ca : 0..cas', alone : BOOLEAN]]
    BY <1>20, <2>2
  <2>5. last' \in {"whole", "cut", "mixed"}
    BY <1>2 DEF IInv, CAInv, TypeOK
  <2>6. QED
    BY <1>2, <2>3, <2>5 DEF IInv, CAInv, TypeOK, authority
<1>6. CAInv'
  BY <1>2, <1>5, ClientKeepsCA
<1>7. /\ Active(p)' /\ \A q \in Processes \ {p} : Active(q)' <=> Active(q)
  BY <1>1, <1>3 DEF Active
<1>8. ClientShape'
  BY <1>1, <1>2, <1>3, <1>7 DEF IInv, ClientShape
<1>9. AloneShape'
  <2>0. \A q \in Processes : client'[q].pc = "writing" => Active(q)' /\ q # p
    BY <1>1, <1>3 DEF Active
  <2>1. CASE alone
    BY <1>0, <1>1, <1>3, <1>7, <2>0, <2>1 DEF AloneShape
  <2>2. CASE ~alone
    BY <1>0, <1>1, <1>2, <1>3, <1>7, <2>2 DEF AloneShape
  <2>3. QED
    BY <2>1, <2>2
<1>10. CALast'
  <2> SUFFICES ASSUME tool' = "jnimcp" PROVE CALast'
    BY DEF CALast
  <2>1. tool = "jnimcp" /\ dir["ca"] = Absent
    BY <1>2 DEF IInv, CALast, Enrolls, Complete, Files
  <2>2. \A q \in Processes : client'[q].pc = "writing" =>
          q # p /\ client[q].pc = "writing"
    BY <1>1, <1>3
  <2>3. last' = "cut" => dir'["ca"] \in {Absent, Torn}
    BY <1>2, <2>1
  <2>4. \A q \in Processes : client'[q].pc = "writing" =>
         /\ client'[q].step >= 2 => dir'["crt"] # Absent
         /\ client'[q].step = 3 => dir'["key"] # Absent
    BY <1>2, <1>3, <2>1, <2>2 DEF IInv, CALast
  <2>5. QED
    BY <1>2, <2>1, <2>3, <2>4 DEF CALast
<1>11. Written'
  BY <1>1, <1>3 DEF Written
<1>12. LastWhole'
  BY <1>2 DEF IInv, LastWhole, Empty, Whole
<1>13. QED
  BY <1>6, <1>8, <1>9, <1>10, <1>11, <1>12 DEF IInv

LEMMA RegisterIInv ==
  ASSUME IInv, NEW p \in Processes, Register(p) PROVE IInv'
<1> DEFINE k == client[p].key
<1>1. /\ k \in 1..MaxKeys /\ service.key > 0 /\ service.key \in 0..cas
      /\ caKey = service.key /\ caCrt = service.key /\ service.crt = service.key
      /\ Active(p)
  BY DEF IInv, CAInv, TypeOK, CAShape, ClientShape, Register, Active
<1>2. /\ issued' = [issued EXCEPT ![k] = service.key]
      /\ issued'[k] = service.key
      /\ \A j \in 1..MaxKeys : issued[j] # 0 => issued'[j] = issued[j]
      /\ \A j \in 1..MaxKeys : j # k => issued'[j] = issued[j]
  BY <1>1 DEF IInv, CAInv, TypeOK, OneCA, Register
<1>3. /\ client'[p].pc = "writing" /\ client'[p].step = 1 /\ client'[p].ca = service.key
      /\ client'[p].key = k /\ client'[p].alone = client[p].alone
      /\ client'[p].open = client[p].open
      /\ \A q \in Processes \ {p} : client'[q] = client[q]
  BY <1>1 DEF IInv, CAInv, TypeOK, Register
<1>4. UNCHANGED <<authority, tool, dir, keys, last>> /\ client[p].pc = "begun"
  BY DEF Register
<1>5. TypeOK'
  <2>1. issued' \in [1..MaxKeys -> 0..cas]
    BY <1>1, <1>2 DEF IInv, CAInv, TypeOK
  <2>2. [client[p] EXCEPT !.pc = "writing", !.step = 1, !.ca = service.crt]
              \in [pc : {"off", "begun", "writing"}, step : 0..3,
                  open : BOOLEAN, key : 0..keys, ca : 0..cas, alone : BOOLEAN]
    <3>1. service.crt \in 0..cas /\ 1 \in 0..3 /\ "writing" \in {"off", "begun", "writing"}
      BY <1>1
    <3>2. client[p] \in [pc : {"off", "begun", "writing"}, step : 0..3,
                  open : BOOLEAN, key : 0..keys, ca : 0..cas, alone : BOOLEAN]
      BY DEF IInv, CAInv, TypeOK
    <3>3. QED
      BY <3>1, <3>2
  <2>3. client' = [client EXCEPT ![p] =
                    [client[p] EXCEPT !.pc = "writing", !.step = 1, !.ca = service.crt]]
    BY DEF Register, IInv, CAInv, TypeOK
  <2>4. client' \in [Processes -> [pc : {"off", "begun", "writing"}, step : 0..3,
          open : BOOLEAN, key : 0..keys, ca : 0..cas, alone : BOOLEAN]]
    BY <1>1, <2>2, <2>3 DEF IInv, CAInv, TypeOK
  <2>5. QED
    BY <1>4, <2>1, <2>4 DEF IInv, CAInv, TypeOK, authority
<1>6. CAShape'
  BY <1>4 DEF IInv, CAInv, CAShape, authority
<1>7. OneCA'
  BY <1>1, <1>2, <1>4 DEF IInv, CAInv, OneCA, authority
<1>8. \A q \in Processes : Active(q)' <=> Active(q)
  BY <1>1, <1>3 DEF Active
<1>9. ClientShape'
  <2>1. \A q \in Processes \ {p} : client[q].pc = "writing" =>
          client[q].key \in 1..MaxKeys /\ issued[client[q].key] > 0
    BY DEF IInv, ClientShape, Active
  <2>2. QED
    BY <1>1, <1>2, <1>3, <1>8, <2>1 DEF IInv, ClientShape
<1>10. AloneShape'
  <2>1. client'[p].open = FALSE
    BY <1>3, <1>4 DEF IInv, ClientShape, CAInv, TypeOK
  <2>2. QED
    BY <1>3, <1>4, <1>8, <2>1 DEF IInv, AloneShape
<1>11. CALast'
  <2>1. \A q \in Processes : client'[q].alone /\ ~(client'[q].step = 3 /\ client'[q].open) =>
          client[q].alone /\ (q = p \/ ~(client[q].step = 3 /\ client[q].open))
    BY <1>3
  <2>2. tool = "jnimcp" /\ client[p].alone => dir["ca"] = Absent
    BY <1>4 DEF IInv, CALast, ClientShape
  <2>3. QED
    BY <1>3, <1>4, <2>1, <2>2 DEF IInv, CALast
<1>12. Written'
  BY <1>3, <1>4 DEF IInv, Written
<1>13. LastWhole'
  <2>1. Whole => Whole'
    BY <1>2, <1>4 DEF Whole
  <2>2. QED
    BY <1>4, <2>1 DEF IInv, LastWhole, Empty
<1>14. QED
  BY <1>5, <1>6, <1>7, <1>9, <1>10, <1>11, <1>12, <1>13 DEF IInv, CAInv

LEMMA OpenFileIInv ==
  ASSUME IInv, NEW p \in Processes, OpenFile(p) PROVE IInv'
<1> DEFINE f == Order(tool)[client[p].step]
<1>1. /\ client[p].pc = "writing" /\ ~client[p].open /\ client[p].step \in 1..3
      /\ f \in Files /\ Active(p)
  BY OrderFacts DEF IInv, CAInv, ClientShape, OpenFile, Active
<1>2. /\ dir' = [dir EXCEPT ![f] = Torn] /\ dir'[f] = Torn
      /\ \A g \in Files \ {f} : dir'[g] = dir[g]
      /\ dir' \in [Files -> Int]
  BY <1>1 DEF IInv, CAInv, TypeOK, OpenFile, File, Torn
<1>3. /\ client'[p].pc = "writing" /\ client'[p].step = client[p].step
      /\ client'[p].ca = client[p].ca /\ client'[p].key = client[p].key
      /\ client'[p].alone = client[p].alone /\ client'[p].open = TRUE
      /\ \A q \in Processes \ {p} : client'[q] = client[q]
  BY <1>1 DEF IInv, CAInv, TypeOK, OpenFile
<1>4. /\ UNCHANGED <<authority, issued, tool, keys>>
      /\ last' = IF client[p].alone THEN "cut" ELSE "mixed"
  BY DEF OpenFile
<1>5. TypeOK'
  <2>1. client' \in [Processes -> [pc : {"off", "begun", "writing"}, step : 0..3,
          open : BOOLEAN, key : 0..keys, ca : 0..cas, alone : BOOLEAN]]
    BY DEF IInv, CAInv, TypeOK, OpenFile
  <2>2. QED
    BY <1>2, <1>4, <2>1 DEF IInv, CAInv, TypeOK, authority
<1>6. CAInv'
  BY <1>4, <1>5, ClientKeepsCA
<1>7. \A q \in Processes : Active(q)' <=> Active(q)
  BY <1>1, <1>3 DEF Active
<1>8. ClientShape'
  BY <1>1, <1>3, <1>4, <1>7 DEF IInv, ClientShape
<1>9. AloneShape'
  BY <1>1, <1>3, <1>4, <1>7 DEF IInv, AloneShape
<1>10. CALast'
  <2> SUFFICES ASSUME tool = "jnimcp" PROVE CALast'
    BY <1>4 DEF CALast
  <2>1. client[p].step \in {1, 2, 3} /\ Torn # Absent
    BY <1>1 DEF Torn, Absent
  <2>2. /\ client[p].step = 1 => f = "crt"
        /\ client[p].step = 2 => f = "key"
        /\ client[p].step = 3 => f = "ca"
    BY OrderFacts DEF IInv, CAInv
  <2>3. /\ dir["crt"] # Absent => dir'["crt"] # Absent
        /\ dir["key"] # Absent => dir'["key"] # Absent
        /\ client[p].step # 3 => dir'["ca"] = dir["ca"]
        /\ client[p].step = 3 => dir'["ca"] = Torn
    BY <1>2, <2>1, <2>2 DEF Files
  <2>4. dir'["ca"] # Absent => dir'["crt"] # Absent /\ dir'["key"] # Absent
    BY <1>1, <2>1, <2>3 DEF IInv, CALast
  <2>5. \A q \in Processes : client'[q].pc = "writing" =>
         /\ client'[q].step >= 2 => dir'["crt"] # Absent
         /\ client'[q].step = 3 => dir'["key"] # Absent
    BY <1>1, <1>3, <2>3 DEF IInv, CALast
  <2>6. \A q \in Processes :
         client'[q].alone /\ ~(client'[q].step = 3 /\ client'[q].open) => dir'["ca"] = Absent
    BY <1>1, <1>3, <2>3 DEF IInv, CALast, AloneShape
  <2>7. last' = "cut" => dir'["ca"] \in {Absent, Torn}
    BY <1>1, <1>4, <2>3 DEF IInv, CALast
  <2>8. QED
    BY <1>4, <2>4, <2>5, <2>6, <2>7 DEF CALast
<1>11. Written'
  <2>1. \A q \in Processes : client'[q].alone /\ client'[q].pc = "writing" => q = p
    BY <1>1, <1>3 DEF IInv, AloneShape
  <2>2. /\ client[p].step >= 2 => dir'[Order(tool)[1]] = dir[Order(tool)[1]]
        /\ client[p].step = 3 => dir'[Order(tool)[2]] = dir[Order(tool)[2]]
    BY <1>1, <1>2, OrderFacts DEF IInv, CAInv, TypeOK, Files
  <2>3. Order(tool)' = Order(tool)
    BY <1>4
  <2>4. QED
    BY <1>1, <1>3, <1>4, <2>1, <2>2 DEF IInv, Written
<1>12. LastWhole'
  BY <1>4 DEF LastWhole
<1>13. QED
  BY <1>6, <1>8, <1>9, <1>10, <1>11, <1>12 DEF IInv

(* A write that finishes, and what it leaves when the process is alone.    *)
LEMMA WriteFileIInv ==
  ASSUME IInv, NEW p \in Processes, WriteFile(p) PROVE IInv'
<1> DEFINE f == Order(tool)[client[p].step]
           content == IF f = "ca" THEN client[p].ca ELSE client[p].key
           final == client[p].step = 3
<1>1. /\ client[p].pc = "writing" /\ client[p].open /\ client[p].step \in 1..3
      /\ f \in Files /\ Active(p) /\ client[p].ca > 0 /\ client[p].key \in 1..MaxKeys
      /\ client[p].key \in Int /\ client[p].ca \in Int
      /\ issued[client[p].key] = client[p].ca
  <2>1. client[p].pc = "writing" /\ client[p].open /\ Active(p)
    BY DEF WriteFile, Active
  <2>2. /\ client[p].step \in 1..3 /\ client[p].ca > 0 /\ client[p].key \in 1..MaxKeys
        /\ issued[client[p].key] = client[p].ca
    BY <2>1 DEF IInv, ClientShape
  <2>3. f \in Files
    BY <2>2, OrderFacts DEF IInv, CAInv
  <2>4. client[p].key \in Int /\ client[p].ca \in Int
    BY BoundsAssumption DEF IInv, CAInv, TypeOK
  <2>5. QED
    BY <2>1, <2>2, <2>3, <2>4
<1>2. /\ dir'[f] \in {content, Torn} /\ dir'[f] # Absent
      /\ client[p].alone => dir'[f] = content
      /\ \A g \in Files \ {f} : dir'[g] = dir[g]
      /\ dir' \in [Files -> Int]
  <2>1. \/ dir' = [dir EXCEPT ![f] = content]
        \/ /\ \E q \in Processes \ {p} : Active(q)
           /\ dir' = [dir EXCEPT ![f] = Torn]
    BY DEF WriteFile, File, Content, Active
  <2>2. content \in Int /\ content # Absent /\ Torn # Absent /\ Torn \in Int
    BY <1>1 DEF Absent, Torn
  <2>3. client[p].alone => ~\E q \in Processes \ {p} : Active(q)
    BY DEF IInv, AloneShape
  <2>4. QED
    BY <1>1, <2>1, <2>2, <2>3 DEF IInv, CAInv, TypeOK
<1>3. /\ \A q \in Processes \ {p} : client'[q] = client[q]
      /\ final => client'[p] = Off /\ last' = IF client[p].alone THEN "whole" ELSE "mixed"
      /\ ~final => /\ client'[p].pc = "writing" /\ client'[p].step = client[p].step + 1
                   /\ client'[p].ca = client[p].ca /\ client'[p].key = client[p].key
                   /\ client'[p].alone = client[p].alone /\ client'[p].open = FALSE
                   /\ last' = last
  BY <1>1 DEF IInv, CAInv, TypeOK, WriteFile
<1>4. UNCHANGED <<authority, issued, tool, keys>>
  BY DEF WriteFile
<1>5. Off.pc = "off" /\ Off.alone = FALSE
  BY DEF Off
<1>6. TypeOK'
  <2>1. Off \in [pc : {"off", "begun", "writing"}, step : 0..3,
          open : BOOLEAN, key : 0..keys, ca : 0..cas, alone : BOOLEAN]
    BY BoundsAssumption DEF IInv, CAInv, TypeOK, Off
  <2>2. ~final => client[p].step + 1 \in 0..3
    BY <1>1
  <2>6. ASSUME final
        PROVE  client' \in [Processes -> [pc : {"off", "begun", "writing"}, step : 0..3,
          open : BOOLEAN, key : 0..keys, ca : 0..cas, alone : BOOLEAN]]
    BY <2>1, <2>6 DEF IInv, CAInv, TypeOK, WriteFile
  <2>7. ASSUME ~final
        PROVE  client' \in [Processes -> [pc : {"off", "begun", "writing"}, step : 0..3,
          open : BOOLEAN, key : 0..keys, ca : 0..cas, alone : BOOLEAN]]
    <3>1. client' = [client EXCEPT ![p] =
                      [client[p] EXCEPT !.step = client[p].step + 1, !.open = FALSE]]
      BY <2>7 DEF WriteFile, IInv, CAInv, TypeOK
    <3>2. [client[p] EXCEPT !.step = client[p].step + 1, !.open = FALSE]
            \in [pc : {"off", "begun", "writing"}, step : 0..3,
                open : BOOLEAN, key : 0..keys, ca : 0..cas, alone : BOOLEAN]
      BY <2>2, <2>7 DEF IInv, CAInv, TypeOK
    <3>3. QED
      BY <3>1, <3>2 DEF IInv, CAInv, TypeOK
  <2>3. client' \in [Processes -> [pc : {"off", "begun", "writing"}, step : 0..3,
          open : BOOLEAN, key : 0..keys, ca : 0..cas, alone : BOOLEAN]]
    BY <2>6, <2>7
  <2>4. last' \in {"whole", "cut", "mixed"}
    BY <1>3 DEF IInv, CAInv, TypeOK
  <2>5. QED
    BY <1>2, <1>4, <2>3, <2>4 DEF IInv, CAInv, TypeOK, authority
<1>7. CAInv'
  BY <1>4, <1>6, ClientKeepsCA
<1>8. /\ \A q \in Processes \ {p} : Active(q)' <=> Active(q)
      /\ Active(p)' <=> ~final
  BY <1>3, <1>5 DEF Active
<1>9. ClientShape'
  BY <1>1, <1>3, <1>4, <1>5, <1>8 DEF IInv, ClientShape
<1>10. AloneShape'
  <2>1. CASE final
    <3>1. CASE client[p].alone
      <4>1. \A q \in Processes : ~Active(q)' /\ client'[q].pc # "writing"
        BY <1>3, <1>5, <1>8, <2>1, <3>1 DEF IInv, AloneShape, Active
      <4>2. \A q \in Processes : ~client'[q].alone
        BY <1>3, <1>5, <2>1, <3>1 DEF IInv, AloneShape
      <4>3. QED
        BY <4>1, <4>2 DEF AloneShape
    <3>2. CASE ~client[p].alone
      BY <1>1, <1>3, <1>5, <1>8, <2>1, <3>2 DEF IInv, AloneShape
    <3>3. QED
      BY <3>1, <3>2
  <2>2. CASE ~final
    BY <1>1, <1>3, <1>8, <2>2 DEF IInv, AloneShape
  <2>3. QED
    BY <2>1, <2>2
<1>11. CALast'
  <2> SUFFICES ASSUME tool = "jnimcp" PROVE CALast'
    BY <1>4 DEF CALast
  <2>1. client[p].step \in {1, 2, 3}
    BY <1>1
  <2>2. /\ client[p].step = 1 => f = "crt"
        /\ client[p].step = 2 => f = "key"
        /\ client[p].step = 3 => f = "ca"
    BY OrderFacts DEF IInv, CAInv
  <2>3. /\ dir["crt"] # Absent => dir'["crt"] # Absent
        /\ dir["key"] # Absent => dir'["key"] # Absent
        /\ client[p].step # 3 => dir'["ca"] = dir["ca"]
        /\ client[p].step = 1 => dir'["crt"] # Absent
        /\ client[p].step = 2 => dir'["key"] # Absent
    BY <1>2, <2>1, <2>2 DEF Files
  <2>4. dir'["ca"] # Absent => dir'["crt"] # Absent /\ dir'["key"] # Absent
    BY <1>1, <2>1, <2>3 DEF IInv, CALast
  <2>5. \A q \in Processes : client'[q].pc = "writing" =>
         /\ client'[q].step >= 2 => dir'["crt"] # Absent
         /\ client'[q].step = 3 => dir'["key"] # Absent
    BY <1>1, <1>3, <1>5, <2>1, <2>3 DEF IInv, CALast
  <2>6. \A q \in Processes :
         client'[q].alone /\ ~(client'[q].step = 3 /\ client'[q].open) => dir'["ca"] = Absent
    <3>1. CASE final
      BY <1>1, <1>3, <1>5, <3>1 DEF IInv, AloneShape
    <3>2. CASE ~final
      BY <1>1, <1>3, <2>3, <3>2 DEF IInv, AloneShape, CALast
    <3>3. QED
      BY <3>1, <3>2
  <2>7. last' = "cut" => dir'["ca"] \in {Absent, Torn}
    BY <1>3, <2>3 DEF IInv, CALast
  <2>8. QED
    BY <1>4, <2>4, <2>5, <2>6, <2>7 DEF CALast
<1>12. Written'
  <2>1. \A q \in Processes : client'[q].alone /\ client'[q].pc = "writing" =>
          q = p /\ ~final /\ client[p].alone
    BY <1>1, <1>3, <1>5 DEF IInv, AloneShape, Active
  <2>2. tool \in {"jnimcp", "jnicli"}
    BY DEF IInv, CAInv, TypeOK
  <2>3. ~final /\ client[p].alone =>
          /\ dir'[Order(tool)[1]] = client[p].key
          /\ client[p].step = 2 => dir'[Order(tool)[2]] = client[p].key
    BY <1>1, <1>2, <2>2, OrderFacts DEF IInv, CAInv, Written, Files
  <2>4. Order(tool)' = Order(tool)
    BY <1>4
  <2>5. QED
    BY <1>1, <1>3, <1>4, <2>1, <2>3 DEF Written
<1>13. LastWhole'
  <2>1. CASE final /\ client[p].alone
    <3>1. tool \in {"jnimcp", "jnicli"} /\ f = "ca"
      BY <2>1, OrderFacts DEF IInv, CAInv, TypeOK
    <3>2. dir["crt"] = client[p].key /\ dir["key"] = client[p].key
      BY <1>1, <2>1, <3>1, OrderFacts DEF IInv, CAInv, Written
    <3>3. /\ dir'["crt"] = client[p].key /\ dir'["key"] = client[p].key
          /\ dir'["ca"] = client[p].ca
      BY <1>2, <2>1, <3>1, <3>2 DEF Files
    <3>4. QED
      BY <1>1, <1>4, <3>3 DEF LastWhole, Whole
  <2>2. CASE final /\ ~client[p].alone
    BY <1>3, <2>2 DEF LastWhole
  <2>3. CASE ~final
    <3>1. last' # "whole"
      BY <1>1, <1>3, <2>3 DEF IInv, AloneShape
    <3>2. QED
      BY <3>1 DEF LastWhole
  <2>4. QED
    BY <2>1, <2>2, <2>3
<1>14. QED
  BY <1>7, <1>9, <1>10, <1>11, <1>12, <1>13 DEF IInv

LEMMA StopIInv ==
  ASSUME IInv, NEW p \in Processes, Stop(p) PROVE IInv'
<1>1. /\ client' = [client EXCEPT ![p] = Off] /\ client'[p] = Off
      /\ \A q \in Processes \ {p} : client'[q] = client[q]
      /\ UNCHANGED <<authority, issued, tool, dir, keys, last>>
  BY DEF IInv, CAInv, TypeOK, Stop
<1>2. Off.pc = "off" /\ Off.alone = FALSE
  BY DEF Off
<1>3. TypeOK'
  <2>1. Off \in [pc : {"off", "begun", "writing"}, step : 0..3,
          open : BOOLEAN, key : 0..keys, ca : 0..cas, alone : BOOLEAN]
    BY BoundsAssumption DEF IInv, CAInv, TypeOK, Off
  <2>2. client' \in [Processes -> [pc : {"off", "begun", "writing"}, step : 0..3,
          open : BOOLEAN, key : 0..keys, ca : 0..cas, alone : BOOLEAN]]
    BY <1>1, <2>1 DEF IInv, CAInv, TypeOK
  <2>3. QED
    BY <1>1, <2>2 DEF IInv, CAInv, TypeOK, authority
<1>4. CAInv'
  BY <1>1, <1>3, ClientKeepsCA
<1>5. /\ ~Active(p)' /\ client'[p].pc # "writing" /\ ~client'[p].alone
      /\ \A q \in Processes \ {p} : Active(q)' <=> Active(q)
  BY <1>1, <1>2 DEF Active
<1>6. ClientShape'
  BY <1>1, <1>2, <1>5 DEF IInv, ClientShape
<1>7. AloneShape'
  BY <1>1, <1>5 DEF IInv, AloneShape
<1>8. CALast'
  BY <1>1, <1>5 DEF IInv, CALast
<1>9. Written'
  BY <1>1, <1>5 DEF IInv, Written
<1>10. LastWhole'
  BY <1>1 DEF IInv, LastWhole, Empty, Whole
<1>11. QED
  BY <1>4, <1>6, <1>7, <1>8, <1>9, <1>10 DEF IInv

-----------------------------------------------------------------------------
LEMMA NextIInv ==
  ASSUME IInv, [Next]_vars PROVE IInv'
<1>1. CASE UNCHANGED vars
  <2>1. CAInv'
    BY <1>1 DEF vars, authority, directory, IInv, CAInv, TypeOK, CAShape, OneCA
  <2>2. QED
    BY <1>1, <2>1, ServiceStep DEF vars
<1>2. ASSUME NEW p \in Processes,
             Begin(p) \/ Register(p) \/ OpenFile(p) \/ WriteFile(p) \/ Stop(p)
      PROVE  IInv'
  BY <1>2, BeginIInv, RegisterIInv, OpenFileIInv, WriteFileIInv, StopIInv
<1>3. ASSUME WriteFails \/ ServiceDies PROVE IInv'
  BY <1>3, DownIInv DEF WriteFails, ServiceDies, Exits
<1>4. QED
  BY <1>1, <1>2, <1>3, LoadCAIInv, CreateCAIInv, WriteCAKeyIInv, WriteCACertIInv DEF Next

THEOREM Inductive == Spec => []IInv
<1>1. IInv /\ [Next]_vars => IInv'
  BY NextIInv
<1>2. QED
  BY InitIInv, <1>1, PTL DEF Spec

-----------------------------------------------------------------------------
(* Every variable keeps its type, whatever fails.                          *)
THEOREM TypeCorrect == Spec => []TypeOK
<1>1. IInv => TypeOK
  BY DEF IInv, CAInv
<1>2. QED
  BY <1>1, Inductive, PTL

(* No crash or failed write of the service ever turns an issued            *)
(* certificate into one its CA did not sign.                               *)
THEOREM OneCAHolds == Spec => []OneCA
<1>1. IInv => OneCA
  BY DEF IInv, CAInv
<1>2. QED
  BY <1>1, Inductive, PTL

(* Three files make a working identity, but for the exceptions the         *)
(* property names.                                                         *)
THEOREM EnrolledConnectsHolds == Spec => []EnrolledConnects
<1>1. ASSUME IInv, service.pc = "serving", Complete, last # "mixed"
      PROVE  Connects \/ (last = "cut" /\ (tool = "jnimcp" => dir.ca = Torn))
  <2>1. CASE last = "whole"
    <3>1. Whole
      BY <1>1, <2>1 DEF IInv, LastWhole, Empty, Complete, Files
    <3>2. issued[dir["key"]] = service.crt
      BY <1>1, <3>1 DEF IInv, CAInv, CAShape, OneCA, Whole
    <3>3. dir["key"] > 0
      BY <3>1 DEF Whole
    <3>4. QED
      BY <3>1, <3>2, <3>3 DEF Whole, Connects
  <2>2. CASE last = "cut"
    BY <1>1, <2>2 DEF IInv, CALast, Complete, Files
  <2>3. QED
    BY <1>1, <2>1, <2>2 DEF IInv, CAInv, TypeOK
<1>2. IInv => EnrolledConnects
  BY <1>1 DEF EnrolledConnects
<1>3. QED
  BY <1>2, Inductive, PTL
=============================================================================
