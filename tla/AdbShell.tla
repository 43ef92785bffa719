------------------------------- MODULE AdbShell -------------------------------
(***************************************************************************)
(* One command run through the local adbd (Client.Shell, runShell and      *)
(* shellStream in adb/shell.go): connection, TLS, the shell-v2 stream that *)
(* the peer cuts into packets as it likes, and the deadline that closes    *)
(* the connection under it.                                                *)
(*                                                                         *)
(* A byte is a small number.  The five bytes of a frame's header are two   *)
(* here, the kind and the length.  A packet that is not what the code      *)
(* expects, by its command, stream ids, payload or checksum, is a bad one. *)
(*                                                                         *)
(* External: adbd, which sends anything; the network, which may fail in    *)
(* every read and write; the timer.                                        *)
(***************************************************************************)
EXTENDS Integers, FiniteSets, SequencesExt

CONSTANTS
  MaxOutput,      (* maxOutput                                              *)
  MaxPayload,     (* maxPayload                                             *)
  MaxPackets,     (* maxPackets                                             *)
  MaxByte,        (* bound: the largest byte                                *)
  MaxStream       (* bound: bytes the peer sends                            *)

ASSUME LimitsAssumption ==
  /\ MaxOutput \in Nat \ {0} /\ MaxPayload \in Nat /\ MaxPackets \in Nat
  /\ MaxByte \in Nat /\ MaxStream \in Nat

VARIABLES
  pc,             (* where Shell is                                         *)
  packets,        (* packets read after the opening OKAY                    *)
  received,       (* history: the bytes of all WRTE packets                 *)
  pending,        (* shellStream.pending                                    *)
  stdout, stderr, (* shellStream.result                                     *)
  code,           (* ExitCode                                               *)
  exited,
  total,
  err,            (* the error Shell is about to return: "frame" is feed's, *)
                  (* "incomplete" finish's, "exit" a nonzero ExitCode       *)
  expired         (* the 20 seconds are over                                *)

stream == <<pending, stdout, stderr, code, exited, total>>
vars == <<pc, packets, received, stream, err, expired>>

Bytes == 0..MaxByte
Header == 2
Stdout == 1
Stderr == 2
Exit == 3

-----------------------------------------------------------------------------
(* Shell up to the stream.                                                 *)

Goes(next) == pc' = next /\ UNCHANGED err
Fails(e) == pc' = "return" /\ err' = e

(* Only the peer's certificate and banner count as authentication.         *)
IOError(at) == IF at \in {"tls", "cnxn"} THEN "auth" ELSE "network"
BadPacket(at) == IF at = "tls" THEN "auth" ELSE "protocol"

(* A dial that fails returns before the deferred close exists.             *)
Dial ==
  /\ pc = "dial"
  /\ \/ Goes("stls")
     \/ pc' = "done" /\ err' \in {"network"} \cup (IF expired THEN {"deadline"} ELSE {})
  /\ UNCHANGED <<packets, received, stream, expired>>

Following == [stls |-> "tls", tls |-> "cnxn", cnxn |-> "open", open |-> "reading"]

Connect ==
  /\ pc \in DOMAIN Following
  /\ \/ Goes(Following[pc])
     \/ Fails(IOError(pc))
     \/ Fails(BadPacket(pc))
  /\ UNCHANGED <<packets, received, stream, expired>>

-----------------------------------------------------------------------------
(* runShell's loop.                                                        *)

IOFails ==
  /\ pc \in {"reading", "acking", "closing"}
  /\ Fails(IOError(pc))
  /\ UNCHANGED <<packets, received, stream, expired>>

TooManyPackets ==
  /\ pc = "reading" /\ packets = MaxPackets
  /\ Fails("protocol")
  /\ UNCHANGED <<packets, received, stream, expired>>

ReadBad ==
  /\ pc = "reading" /\ packets < MaxPackets
  /\ packets' = packets + 1
  /\ Fails("protocol")
  /\ UNCHANGED <<received, stream, expired>>

(* Fault: no room for an incomplete frame.                                 *)
OutputOnly == MaxOutput

BufferBound == MaxOutput + MaxPayload + Header

(* A WRTE: feed begins.                                                    *)
ReadWrite(data) ==
  /\ pc = "reading" /\ packets < MaxPackets
  /\ packets' = packets + 1
  /\ received' = received \o data
  /\ IF Len(pending) + Len(data) > BufferBound
     THEN Fails("frame") /\ UNCHANGED pending
     ELSE Goes("feeding") /\ pending' = pending \o data
  /\ UNCHANGED <<stdout, stderr, code, exited, total, expired>>

Refuses(length) == length > MaxOutput \/ exited

(* The body of feed's loop, with a complete frame.                         *)
TakeFrame(kind, payload) ==
  \/ /\ kind \in {Stdout, Stderr}
     /\ total' = total + Len(payload)
     /\ IF total' > MaxOutput
        THEN Fails("frame") /\ UNCHANGED <<pending, stdout, stderr>>
        ELSE /\ stdout' = IF kind = Stdout THEN stdout \o payload ELSE stdout
             /\ stderr' = IF kind = Stderr THEN stderr \o payload ELSE stderr
             /\ pending' = SubSeq(pending, Header + Len(payload) + 1, Len(pending))
             /\ Goes("feeding")
     /\ UNCHANGED <<code, exited>>
  \/ /\ kind = Exit /\ Len(payload) = 1
     /\ code' = payload[1] /\ exited' = TRUE
     /\ pending' = SubSeq(pending, Header + 2, Len(pending))
     /\ Goes("feeding")
     /\ UNCHANGED <<stdout, stderr, total>>
  \/ /\ kind \notin {Stdout, Stderr} /\ ~(kind = Exit /\ Len(payload) = 1)
     /\ Fails("frame")
     /\ UNCHANGED stream

Feed ==
  /\ pc = "feeding"
  /\ IF Len(pending) < Header THEN Goes("acking") /\ UNCHANGED stream
     ELSE IF Refuses(pending[2]) THEN Fails("frame") /\ UNCHANGED stream
     ELSE IF Len(pending) - Header < pending[2] THEN Goes("acking") /\ UNCHANGED stream
     ELSE TakeFrame(pending[1], SubSeq(pending, Header + 1, Header + pending[2]))
  /\ UNCHANGED <<packets, received, expired>>

Acknowledge ==
  /\ pc = "acking"
  /\ Goes("reading")
  /\ UNCHANGED <<packets, received, stream, expired>>

ReadClose ==
  /\ pc = "reading" /\ packets < MaxPackets
  /\ packets' = packets + 1
  /\ Goes("closing")
  /\ UNCHANGED <<received, stream, expired>>

(* finish, after the CLSE was answered.                                    *)
Finish ==
  /\ pc = "closing"
  /\ pc' = "return"
  /\ err' = IF ~exited \/ pending # <<>> THEN "incomplete"
            ELSE IF code # 0 THEN "exit" ELSE "none"
  /\ UNCHANGED <<packets, received, stream, expired>>

-----------------------------------------------------------------------------
(* The timer, and the deferred close, which knows it by ctx.Err() alone.   *)

Expire ==
  /\ pc # "done" /\ ~expired
  /\ expired' = TRUE
  /\ UNCHANGED <<pc, packets, received, stream, err>>

Return ==
  /\ pc = "return"
  /\ pc' = "done"
  /\ err' = IF expired THEN "deadline" ELSE err
  /\ UNCHANGED <<packets, received, stream, expired>>

-----------------------------------------------------------------------------
Init ==
  /\ pc = "dial" /\ packets = 0 /\ received = <<>>
  /\ pending = <<>> /\ stdout = <<>> /\ stderr = <<>>
  /\ code = 0 /\ exited = FALSE /\ total = 0
  /\ err = "none" /\ expired = FALSE

Next ==
  \/ Dial \/ Connect
  \/ IOFails \/ TooManyPackets \/ ReadBad \/ ReadClose
  \/ \E data \in SeqOf(Bytes, MaxPayload) :
        Len(received) + Len(data) <= MaxStream /\ ReadWrite(data)
  \/ Feed \/ Acknowledge \/ Finish
  \/ Expire \/ Return

Spec == Init /\ [][Next]_vars

-----------------------------------------------------------------------------
(* What a shell-v2 stream r says, whatever packets it came in.  A frame    *)
(* starts at the first byte and after every frame.                         *)

NextStart(r, s) == s + Header + r[s + 2]

Starts(r) ==
  LET isStart[p \in 0..Len(r)] ==
        p = 0 \/ \E s \in 0..(p - Header) : isStart[s] /\ NextStart(r, s) = p
  IN  {p \in 0..Len(r) : isStart[p]}

Frames(r) == {s \in Starts(r) : s + Header <= Len(r) /\ NextStart(r, s) <= Len(r)}

Rest(r) == SubSeq(r, Max(Starts(r)) + 1, Len(r))

(* Where the payloads of the frames of one kind are.                       *)
Positions(r, kind) ==
  {i \in 1..Len(r) : \E s \in Frames(r) :
     r[s + 1] = kind /\ i \in (s + Header + 1)..NextStart(r, s)}

(* out is what stands there, in order.                                     *)
IsPayload(out, r, kind) ==
  \E pos \in [DOMAIN out -> Positions(r, kind)] :
    /\ \A m, n \in DOMAIN out : m < n => pos[m] < pos[n]
    /\ \A i \in Positions(r, kind) : \E n \in DOMAIN out : pos[n] = i
    /\ \A n \in DOMAIN out : out[n] = r[pos[n]]

Output(r) == Cardinality(Positions(r, Stdout)) + Cardinality(Positions(r, Stderr))

(* No frame of r can be objected to: an exit has one byte and is the last. *)
IsSound(r) ==
  /\ \A s \in Frames(r) :
       /\ r[s + 1] \in {Stdout, Stderr, Exit}
       /\ r[s + 1] = Exit => r[s + 2] = 1 /\ s + Header + 1 = Len(r)
  /\ Output(r) <= MaxOutput

IsTranscript(r) ==
  IsSound(r) /\ Rest(r) = <<>> /\ \E s \in Frames(r) : r[s + 1] = Exit

(* More bytes may make it one.                                             *)
IsExtendable(r) ==
  LET rest == Rest(r) IN
  /\ IsSound(r)
  /\ rest # <<>> => rest[1] \in {Stdout, Stderr, Exit}
  /\ Len(rest) >= Header =>
       IF rest[1] = Exit THEN rest[2] = 1 ELSE Output(r) + rest[2] <= MaxOutput

(* Up to the limit on packets, the outcome depends on the bytes alone, not *)
(* on the packets they came in: a result is what a complete transcript     *)
(* says, and a stream is refused by finish only when it is none and by     *)
(* feed only when nothing could have made it one, so that the buffer's     *)
(* bound costs no answer (feed and finish, shell.go:350-400).              *)
OutcomeIsRight ==
  pc \in {"return", "done"} =>
    /\ err \in {"none", "exit"} =>
         /\ IsTranscript(received)
         /\ IsPayload(stdout, received, Stdout)
         /\ IsPayload(stderr, received, Stderr)
         /\ IsPayload(<<code>>, received, Exit)
         /\ err = "exit" <=> code # 0
    /\ err = "incomplete" => ~IsTranscript(received)
    /\ err = "frame" => ~IsExtendable(received)
=============================================================================
