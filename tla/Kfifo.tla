-------------------------------- MODULE Kfifo --------------------------------
(***************************************************************************)
(* The ring buffer of driver/kfifo.c as uart.c uses it: one producer, the  *)
(* UART interrupt handler, whose kfifo_put runs to completion as far as    *)
(* the task can see, and one consumer, a task whose kfifo_get may be       *)
(* interrupted by the handler between any two of its memory accesses.      *)
(* There is no lock (et_fifo.h has the spinlock commented out): the        *)
(* correctness of the ring rests on the order of the accesses and on the   *)
(* unsigned counters in and out, which run freely and wrap around.         *)
(* The definitions marked FAULT are not part of the model: each one is the *)
(* definition that follows it with a bug put in, and PROJECT.json says     *)
(* which property notices the bug.                                         *)
(***************************************************************************)
EXTENDS Integers, Sequences

CONSTANTS Size,       \* fifo->size
          Wrap,       \* the counters are unsigned integers modulo Wrap (2^32)
          Byte,       \* the values a byte can take
          MaxPut,     \* bound: the longest burst the handler offers
          MaxGet      \* bound: the longest read a task asks for

(* Wrap is a multiple of Size because both are powers of two: kfifo.c masks *)
(* the counters with size - 1, which is "% Size" exactly for such a size;   *)
(* the only size in use is UART_BUF_SIZE = 512.                             *)
ASSUME SizeAssumption == Size \in Nat \ {0}
ASSUME WrapAssumption == Wrap \in Nat /\ Wrap > Size /\ Wrap % Size = 0
ASSUME BoundAssumption == MaxPut \in Nat /\ MaxGet \in Nat

VARIABLES in,         \* fifo->in: total bytes put, modulo Wrap
          out,        \* fifo->out: total bytes got, modulo Wrap
          buffer,     \* fifo->buffer
          pc,         \* the reader: "idle", or "copy" inside kfifo_get
          len,        \* the reader's local len
          dst,        \* what the reader's memcpy has copied so far
          got         \* what the last finished kfifo_get returned

ring == <<in, out, buffer>>
reader == <<pc, len, dst, got>>
fifoVars == <<ring, reader>>

Counter == 0..(Wrap - 1)
Slot == 0..(Size - 1)
Burst == UNION {[1..n -> Byte] : n \in 1..MaxPut}

Least(a, b) == IF a < b THEN a ELSE b

(* Unsigned addition and subtraction of operands below Wrap. *)
\* FAULT
UAddNoWrap(a, b) == a + b
UAdd(a, b) == IF a + b >= Wrap THEN a + b - Wrap ELSE a + b
USub(a, b) == IF a >= b THEN a - b ELSE a - b + Wrap

Used == USub(in, out)                       \* fifo->in - fifo->out
\* FAULT
RoomOffByOne == UAdd(USub(Size, in), out) + 1
Room == UAdd(USub(Size, in), out)           \* fifo->size - fifo->in + fifo->out
------------------------------------------------------------------------------
(* malloc leaves the memory with whatever it held. *)
Init ==
  /\ in = 0 /\ out = 0
  /\ buffer \in [Slot -> Byte]
  /\ pc = "idle" /\ len = 0 /\ dst = << >> /\ got = << >>

(* What fits is written from in up to the end of the buffer, then the rest *)
(* from the start of the buffer.                                           *)
kfifo_put(bytes) ==
  LET n == Least(Len(bytes), Room)
      off == in % Size
      l == Least(n, Size - off)
  IN  /\ buffer' = [s \in Slot |->
                     CASE s < n - l -> bytes[l + s + 1]
                       [] s \in off..(off + l - 1) -> bytes[s - off + 1]
                       [] OTHER -> buffer[s]]
      /\ in' = UAdd(in, n)
      /\ UNCHANGED <<out, reader>>

(* kfifo_get: in is read once.  The macro min (kfifo.c:17) names in - out  *)
(* twice, for the test and for the value, but in is a plain int, the       *)
(* Makefile asks for -Os, and the object file under driver/.output has one *)
(* load.  Two loads would let a put in between make len exceed want;       *)
\* FAULT
GetBeginFreeingEarly(want) ==
  /\ pc = "idle"
  /\ pc' = "copy"
  /\ len' = Least(want, Used)
  /\ out' = UAdd(out, len')
  /\ dst' = << >>
  /\ UNCHANGED <<in, buffer, got>>

GetBegin(want) ==
  /\ pc = "idle"
  /\ pc' = "copy"
  /\ len' = Least(want, Used)
  /\ dst' = << >>
  /\ UNCHANGED <<ring, got>>

(* then the slot of the k-th byte: the two memcpy calls, *)
\* FAULT
SourceSlotUnwrapped(k) ==
  LET off == out % Size
      l == Least(len, Size - off)
  IN  IF k < l THEN off + k ELSE k

SourceSlot(k) ==
  LET off == out % Size
      l == Least(len, Size - off)
  IN  IF k < l THEN off + k ELSE k - l

GetCopyByte ==
  /\ pc = "copy" /\ Len(dst) < len
  /\ dst' = Append(dst, buffer[SourceSlot(Len(dst))])
  /\ UNCHANGED <<ring, pc, len, got>>

(* and only then does out move and give the room back to the handler. *)
GetCommit ==
  /\ pc = "copy" /\ Len(dst) = len
  /\ out' = UAdd(out, len)
  /\ got' = dst
  /\ pc' = "idle"
  /\ UNCHANGED <<in, buffer, len, dst>>

Next ==
  \/ \E bytes \in Burst : kfifo_put(bytes)
  \/ \E want \in 0..MaxGet : GetBegin(want)
  \/ GetCopyByte
  \/ GetCommit

Spec == Init /\ [][Next]_fifoVars
------------------------------------------------------------------------------
TypeOK ==
  /\ in \in Counter /\ out \in Counter
  /\ buffer \in [Slot -> Byte]
  /\ pc \in {"idle", "copy"}
  /\ len \in 0..MaxGet
  /\ dst \in Seq(Byte) /\ Len(dst) <= MaxGet
  /\ got \in Seq(Byte) /\ Len(got) <= MaxGet

(* The counters never drift apart by more than the buffer holds, whatever  *)
(* the interleaving and wherever they wrap: in - out is the number of      *)
(* unread bytes (kfifo_put's min with size - in + out).                    *)
NeverOverfull == Used <= Size

(* The handler never writes a slot the interrupted kfifo_get still has to  *)
(* copy or has just copied: what was copied is what the ring still holds.  *)
CopyIsIntact ==
  pc = "copy" =>
    /\ Len(dst) <= len /\ len <= Used
    /\ \A k \in 1..Len(dst) : dst[k] = buffer[SourceSlot(k - 1)]

(* The ring implements the byte queue: what was accepted comes out once,   *)
(* in order, and the room is never understated.  The get takes effect when *)
(* kfifo_get advances out.                                                 *)
Contents == [i \in 1..Used |-> buffer[(out + i - 1) % Size]]

Queue == INSTANCE ByteQueue WITH Capacity <- Size, q <- Contents
ImplementsByteQueue == Queue!Spec
==============================================================================
