------------------------------- MODULE MCUartRx ------------------------------
(***************************************************************************)
(* TLC instances of UartRx: bursts as long as a packet, a ring shorter     *)
(* than two packets, and an event queue that overflows.                    *)
(***************************************************************************)
EXTENDS UartRx
==============================================================================
