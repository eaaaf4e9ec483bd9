---------------------------- MODULE MCLifecycle ------------------------------
(***************************************************************************)
(* TLC instances of Lifecycle.  Three waiting Wi-Fi events are enough for  *)
(* a loss that overtakes the address it follows, and a rejoin behind it.   *)
(***************************************************************************)
EXTENDS Lifecycle

AllButIlink == Call \ {"xTaskCreate_ilink"}
IlinkFault == {"xTaskCreate_ilink"}
==============================================================================
