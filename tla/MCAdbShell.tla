------------------------------ MODULE MCAdbShell ------------------------------
(***************************************************************************)
(* Streams of up to MaxStream bytes in up to MaxPackets packets.  A length *)
(* of 3 is above MaxOutput, kind 0 is none.                                *)
(***************************************************************************)
EXTENDS AdbShell
=============================================================================
