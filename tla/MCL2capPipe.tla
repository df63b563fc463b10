----------------------------- MODULE MCL2capPipe -----------------------------
(* A small instance of L2capPipe for TLC: psms at the edges of a byte. *)
EXTENDS L2capPipe

EdgePsms == {0, 128, 255, 256, 65535, Null}
=============================================================================
