------------------------------- MODULE MCKfifo -------------------------------
(***************************************************************************)
(* TLC instance of Kfifo: a ring of four slots whose counters wrap after   *)
(* two laps, so that the wrap-around of the slots and of the counters is   *)
(* met in every phase of a put and of a get.                               *)
(***************************************************************************)
EXTENDS Kfifo
==============================================================================
