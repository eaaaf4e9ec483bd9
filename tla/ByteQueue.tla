------------------------------ MODULE ByteQueue ------------------------------
(***************************************************************************)
(* What a byte FIFO between an interrupt handler and a task promises: the  *)
(* bytes that were accepted come out once, in the order they went in, and  *)
(* a byte is refused only when the queue is full.  driver/kfifo.c is shown *)
(* to implement this specification (module Kfifo).                         *)
(***************************************************************************)
EXTENDS Integers, Sequences

CONSTANTS Byte,       \* the values a byte can take
          Capacity,   \* how many bytes the queue holds
          MaxPut      \* the longest burst one put offers

VARIABLES q,          \* accepted and not yet delivered, oldest first
          got         \* the bytes the last completed get returned

vars == <<q, got>>

Burst == UNION {[1..n -> Byte] : n \in 1..MaxPut}

Init == q = << >> /\ got = << >>

(* The longest prefix of the burst that fits is accepted. *)
Put(bytes) ==
  LET room == Capacity - Len(q)
      n == IF Len(bytes) < room THEN Len(bytes) ELSE room
  IN  /\ q' = q \o SubSeq(bytes, 1, n)
      /\ UNCHANGED got

(* A get removes some prefix: how much is the reader's business. *)
Get(n) ==
  /\ n <= Len(q)
  /\ got' = SubSeq(q, 1, n)
  /\ q' = SubSeq(q, n + 1, Len(q))

Next == \/ \E bytes \in Burst : Put(bytes)
        \/ \E n \in 0..Capacity : Get(n)

Spec == Init /\ [][Next]_vars
==============================================================================
