---------------------------- MODULE MCScanCadence ----------------------------
(* Small instances of ScanCadence for TLC. *)
EXTENDS ScanCadence
=============================================================================
