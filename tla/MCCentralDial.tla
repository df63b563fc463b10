---------------------------- MODULE MCCentralDial ----------------------------
(* Small instances of CentralDial for TLC. *)
EXTENDS CentralDial
=============================================================================
