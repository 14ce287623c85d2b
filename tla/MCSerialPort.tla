----------------------------- MODULE MCSerialPort ---------------------------
(* Small instances of SerialPort for TLC. *)
EXTENDS SerialPort
=============================================================================
