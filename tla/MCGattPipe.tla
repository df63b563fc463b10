----------------------------- MODULE MCGattPipe -----------------------------
(* Small instances of GattPipe for TLC. *)
EXTENDS GattPipe
=============================================================================
