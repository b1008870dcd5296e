----------------------------- MODULE MCTransport -----------------------------
(* Small instances of the transport for TLC.                               *)
EXTENDS Transport

CONSTANTS LargeEvent

(* One event exceeds MAX_DATA_SIZE, the others just fit.                   *)
MCLength == [e \in Events |-> IF e = LargeEvent THEN MAX_DATA_SIZE + 1 ELSE MAX_DATA_SIZE]
=============================================================================
