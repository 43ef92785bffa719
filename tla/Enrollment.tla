------------------------------ MODULE Enrollment ------------------------------
(***************************************************************************)
(* How a client comes by its identity: the service loads or creates its    *)
(* certificate authority (certauth/ca.go, runServer), a client process     *)
(* registers a fresh key and keeps what it gets in a directory (AutoEnroll *)
(* in mcp/auth.go, auth register in jnicli), and both sides may die, or    *)
(* fail, in every step and start again.                                    *)
(*                                                                         *)
(* A CA and a client's key pair are numbers.  A certificate is named by    *)
(* the key it is for, and issued gives the CA that signed it.              *)
(* os.WriteFile empties the file and then writes it: a writer that stops   *)
(* in between leaves it torn.                                              *)
(*                                                                         *)
(* External: the file system, which keeps what a dead process wrote; TLS,  *)
(* which accepts exactly the matching certificates.  Certificates do not   *)
(* expire.                                                                 *)
(***************************************************************************)
EXTENDS Integers

CONSTANTS
  Processes,      (* client processes that share one directory              *)
  MaxCAs,         (* bound: authorities ever created                        *)
  MaxKeys         (* bound: client keys ever generated                      *)

ASSUME BoundsAssumption == MaxCAs \in Nat /\ MaxKeys \in Nat

VARIABLES
  caKey, caCrt,   (* the service's ca.key and ca.crt                        *)
  cas,            (* authorities created so far                             *)
  service,        (* where runServer is, and the CA it has in memory        *)
  issued,         (* client key -> the CA that signed its certificate, or 0 *)
  tool,           (* the client program, "jnimcp" or "jnicli"               *)
  dir,            (* the client's files                                     *)
  keys,           (* client keys generated so far                           *)
  client,         (* where each client process is                           *)
  last            (* history: the registration that wrote the files was     *)
                  (* "whole", "cut" short or "mixed" with another           *)

authority == <<caKey, caCrt, cas, service>>
directory == <<dir, keys, client, last>>
vars == <<authority, issued, tool, directory>>

Absent == 0
Torn == -1
Files == {"crt", "key", "ca"}

Down == [pc |-> "down", key |-> 0, crt |-> 0]
Off == [pc |-> "off", step |-> 0, open |-> FALSE, key |-> 0, ca |-> 0, alone |-> FALSE]

-----------------------------------------------------------------------------
(* The service.                                                            *)

(* LoadOrCreateCA, when both files exist; loadCA refuses a torn one.       *)
LoadCA ==
  /\ service.pc = "down"
  /\ caKey # Absent /\ caCrt # Absent
  /\ caKey # Torn /\ caCrt # Torn
  /\ service' = [pc |-> "serving", key |-> caKey, crt |-> caCrt]
  /\ UNCHANGED <<caKey, caCrt, cas, issued, tool, directory>>

(* ... and when neither does; one alone is refused.                        *)
CreateCA ==
  /\ service.pc = "down"
  /\ caKey = Absent /\ caCrt = Absent
  /\ cas < MaxCAs
  /\ cas' = cas + 1
  /\ service' = [pc |-> "key", key |-> cas + 1, crt |-> cas + 1]
  /\ UNCHANGED <<caKey, caCrt, issued, tool, directory>>

(* createCA's two writes, each of which opens the file first.              *)
WriteCAKey ==
  /\ \/ service.pc = "key" /\ caKey' = Torn /\ service' = [service EXCEPT !.pc = "keyOpen"]
     \/ service.pc = "keyOpen" /\ caKey' = service.key /\ service' = [service EXCEPT !.pc = "crt"]
  /\ UNCHANGED <<caCrt, cas, issued, tool, directory>>

WriteCACert ==
  /\ \/ service.pc = "crt" /\ caCrt' = Torn /\ service' = [service EXCEPT !.pc = "crtOpen"]
     \/ service.pc = "crtOpen" /\ caCrt' = service.crt /\ service' = [service EXCEPT !.pc = "serving"]
  /\ UNCHANGED <<caKey, cas, issued, tool, directory>>

(* Fault: serves with the CA in memory.                                    *)
GoesOn == [service EXCEPT !.pc = IF service.pc \in {"key", "keyOpen"} THEN "crt" ELSE "serving"]

(* runServer exits when LoadOrCreateCA fails.                              *)
Exits == Down

WriteFails ==
  /\ service.pc \in {"key", "keyOpen", "crt", "crtOpen"}
  /\ service' = Exits
  /\ UNCHANGED <<caKey, caCrt, cas, issued, tool, directory>>

ServiceDies ==
  /\ service.pc # "down"
  /\ service' = Down
  /\ UNCHANGED <<caKey, caCrt, cas, issued, tool, directory>>

-----------------------------------------------------------------------------
(* The client.                                                             *)

Active(p) == client[p].pc # "off"
Complete == \A f \in Files : dir[f] # Absent

(* AutoEnroll keeps a directory that has all three files; auth register    *)
(* replaces them.                                                          *)
Enrolls == tool = "jnicli" \/ ~Complete

Begun(k, alone) == [pc |-> "begun", step |-> 0, open |-> FALSE, key |-> k,
                    ca |-> 0, alone |-> alone]

Begin(p) ==
  /\ ~Active(p)
  /\ Enrolls
  /\ keys < MaxKeys
  /\ keys' = keys + 1
  /\ LET alone == \A q \in Processes : ~Active(q)
     IN  /\ client' = [q \in Processes |->
              IF q = p THEN Begun(keys + 1, alone)
              ELSE [client[q] EXCEPT !.alone = FALSE]]
         /\ last' = IF alone THEN last ELSE "mixed"
  /\ UNCHANGED <<authority, issued, tool, dir>>

(* The Register call, whose answer may also never be used.                 *)
Register(p) ==
  /\ client[p].pc = "begun"
  /\ service.pc = "serving"
  /\ issued' = [issued EXCEPT ![client[p].key] = service.key]
  /\ client' = [client EXCEPT ![p].pc = "writing", ![p].step = 1, ![p].ca = service.crt]
  /\ UNCHANGED <<authority, tool, dir, keys, last>>

(* Fault: the CA certificate first.                                        *)
OrderCAFirst(t) == <<"ca", "crt", "key">>

Order(t) == IF t = "jnimcp" THEN <<"crt", "key", "ca">> ELSE <<"key", "crt", "ca">>

File(p) == Order(tool)[client[p].step]
Content(p) == IF File(p) = "ca" THEN client[p].ca ELSE client[p].key

OpenFile(p) ==
  /\ client[p].pc = "writing" /\ ~client[p].open
  /\ dir' = [dir EXCEPT ![File(p)] = Torn]
  /\ client' = [client EXCEPT ![p].open = TRUE]
  /\ last' = IF client[p].alone THEN "cut" ELSE "mixed"
  /\ UNCHANGED <<authority, issued, tool, keys>>

(* Two processes that have the same file open may leave a mixture.         *)
WriteFile(p) ==
  /\ client[p].pc = "writing" /\ client[p].open
  /\ \/ dir' = [dir EXCEPT ![File(p)] = Content(p)]
     \/ /\ \E q \in Processes \ {p} :
             client[q].pc = "writing" /\ client[q].open /\ File(q) = File(p)
        /\ dir' = [dir EXCEPT ![File(p)] = Torn]
  /\ IF client[p].step = 3
     THEN /\ client' = [client EXCEPT ![p] = Off]
          /\ last' = IF client[p].alone THEN "whole" ELSE "mixed"
     ELSE /\ client' = [client EXCEPT ![p].step = @ + 1, ![p].open = FALSE]
          /\ UNCHANGED last
  /\ UNCHANGED <<authority, issued, tool, keys>>

(* An error, or the end of the process.                                    *)
Stop(p) ==
  /\ Active(p)
  /\ client' = [client EXCEPT ![p] = Off]
  /\ UNCHANGED <<authority, issued, tool, dir, keys, last>>

-----------------------------------------------------------------------------
Init ==
  /\ caKey = Absent /\ caCrt = Absent /\ cas = 0
  /\ service = Down
  /\ issued = [k \in 1..MaxKeys |-> 0]
  /\ tool \in {"jnimcp", "jnicli"}
  /\ dir = [f \in Files |-> Absent]
  /\ keys = 0
  /\ client = [p \in Processes |-> Off]
  /\ last = "whole"

Next ==
  \/ LoadCA \/ CreateCA \/ WriteCAKey \/ WriteCACert \/ WriteFails \/ ServiceDies
  \/ \E p \in Processes :
       Begin(p) \/ Register(p) \/ OpenFile(p) \/ WriteFile(p) \/ Stop(p)

Spec == Init /\ [][Next]_vars

-----------------------------------------------------------------------------
(***************************************************************************)
(* Properties.                                                             *)
(***************************************************************************)

(* Every variable has its type.                                            *)
TypeOK ==
  /\ caKey \in -1..cas /\ caCrt \in -1..cas
  /\ cas \in 0..MaxCAs
  /\ service \in [pc : {"down", "key", "keyOpen", "crt", "crtOpen", "serving"},
                  key : 0..cas, crt : 0..cas]
  /\ issued \in [1..MaxKeys -> 0..cas]
  /\ tool \in {"jnimcp", "jnicli"}
  /\ dir \in [Files -> Int]
  /\ keys \in 0..MaxKeys
  /\ client \in [Processes -> [pc : {"off", "begun", "writing"}, step : 0..3,
                               open : BOOLEAN, key : 0..keys, ca : 0..cas,
                               alone : BOOLEAN]]
  /\ last \in {"whole", "cut", "mixed"}

(* A certificate that was issued stays good: what the service has on disk, *)
(* and so every service started later, is the CA that signed it, however   *)
(* the creation of that CA, the service and the registrations failed       *)
(* before.                                                                 *)
OneCA ==
  \A k \in 1..MaxKeys : issued[k] # 0 => caKey = issued[k] /\ caCrt = issued[k]

(* buildMTLSCredentials and the two TLS checks succeed.                    *)
Connects ==
  /\ dir.key > 0 /\ dir.crt = dir.key
  /\ issued[dir.crt] = service.crt
  /\ dir.ca = service.crt

(* A client with all three files connects to the service, although nothing *)
(* checks that they belong together: ca.crt is written last and only if    *)
(* some file was missing.  Left are the last write of AutoEnroll cut       *)
(* short, an auth register cut short, and two registrations at once.       *)
EnrolledConnects ==
  service.pc = "serving" /\ Complete =>
    \/ Connects
    \/ last = "cut" /\ (tool = "jnimcp" => dir.ca = Torn)
    \/ last = "mixed"
=============================================================================
