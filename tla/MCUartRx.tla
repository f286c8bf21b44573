------------------------------ MODULE MCUartRx ------------------------------
(* UartRx with small rings. *)
EXTENDS UartRx

CONSTANTS b0, b1, b2

MCByte == {b0, b1, b2}
=============================================================================
