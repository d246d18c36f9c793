---------------------------- MODULE ByteChannel ----------------------------
(***************************************************************************)
(* What a serial transmitter promises the program: every byte it accepts   *)
(* leaves on the line, once, in the order accepted, and at most Cap bytes  *)
(* are on their way.  Bytes are numbered in the order they are accepted.   *)
(***************************************************************************)
EXTENDS Naturals

CONSTANT Cap

VARIABLES accepted,   (* bytes taken from the program     *)
          delivered,  (* bytes that left on the line      *)
          last        (* the number of the last of them   *)

channel == <<accepted, delivered, last>>

Init == accepted = 0 /\ delivered = 0 /\ last = 0

Accept ==
  /\ accepted < delivered + Cap
  /\ accepted' = accepted + 1
  /\ UNCHANGED <<delivered, last>>

Deliver ==
  /\ delivered < accepted
  /\ delivered' = delivered + 1
  /\ last' = delivered + 1
  /\ UNCHANGED accepted

Next == Accept \/ Deliver

Spec == Init /\ [][Next]_channel

=============================================================================
