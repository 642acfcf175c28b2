-------------------------- MODULE MCExternalStream --------------------------
(* Instances of ExternalStream for TLC. *)
EXTENDS ExternalStream, TLC

\* Names of producer processes.
CONSTANTS p1, p2
=============================================================================
