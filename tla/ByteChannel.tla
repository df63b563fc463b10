----------------------------- MODULE ByteChannel -----------------------------
(***************************************************************************)
(* What a pipe promises the Noise stream above it: the bytes come out in   *)
(* the order they went in, none missing, none twice; a pipe that fails     *)
(* stops, with the bytes delivered so far a prefix of those written.       *)
(* GattPipe and L2capPipe implement it.                                    *)
(***************************************************************************)
EXTENDS Integers

CONSTANT MaxBytes  \* bound: bytes written in all

VARIABLES
  sent,  \* the bytes written are 1 .. sent
  got,   \* the receiver was handed 1 .. got, in this order
  torn   \* the receiver was handed something else

Init == sent = 0 /\ got = 0 /\ torn = FALSE

Write == sent' \in sent + 1 .. MaxBytes /\ UNCHANGED <<got, torn>>

Deliver == got' \in got + 1 .. sent /\ UNCHANGED <<sent, torn>>

Spec == Init /\ [][Write \/ Deliver]_<<sent, got, torn>>
=============================================================================
