----------------------------- MODULE MCEtSocket ------------------------------
(***************************************************************************)
(* TLC instances of EtSocket: the two tasks of the firmware, two bytes to  *)
(* send, so that a send can be partial, and one to read.                   *)
(***************************************************************************)
EXTENDS EtSocket
==============================================================================
