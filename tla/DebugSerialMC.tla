--------------------------- MODULE DebugSerialMC ---------------------------
(* Small instances of DebugSerial.                                         *)
EXTENDS DebugSerial, TLC
=============================================================================
