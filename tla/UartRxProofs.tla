---------------------------- MODULE UartRxProofs -----------------------------
(***************************************************************************)
(* Proofs about UartRx for every size of the ring, the FIFO, the queue and *)
(* the packet: recv_data_uart gives the bytes the ring accepted to its     *)
(* caller once and in order, and no byte is left in the ring without an    *)
(* event.                                                                  *)
(*                                                                         *)
(* The second needs to know what a packet in progress owes: the event it   *)
(* took is gone, but what is still missing from it will be fetched, and a  *)
(* packet that has come back short has left the ring empty (Announced).    *)
(***************************************************************************)
EXTENDS UartRx, TLAPS, SequenceTheorems

Stamp == 1..MaxBytes

Increasing(s) == \A i, j \in 1..Len(s) : i < j => s[i] < s[j]
Arrived(s) == \A i \in 1..Len(s) : s[i] <= arrived

InOrder ==
  /\ Increasing(accepted) /\ Increasing(hw) /\ Arrived(accepted) /\ Arrived(hw)
  /\ \A i \in 1..Len(accepted), j \in 1..Len(hw) : accepted[i] < hw[j]

Whole == accepted = returned \o data \o ring

StartUp ==
  /\ init \in {"buf", "queue", "failed"} => xQueueUart = NULL
  /\ init # "done" => reader = "none"
  /\ xQueueUart = NULL => Len(ring) = 0

Owed == xQueueUart * Want + (IF reader = "read" THEN Want - size ELSE 0)
Announced ==
  Chunk <= Want /\ Capacity <= QueueLen * Want /\ xQueueUart # NULL => Len(ring) <= Owed

Patience ==
  /\ reader = "read" => num <= Rounds
  /\ reader \in {"none", "wait"} => size = 0

IInv == TypeOK /\ InOrder /\ Whole /\ StartUp /\ Announced /\ Patience

USE DEF boot, uart, handler, task

(* A prefix of a sequence and what follows it.                             *)
LEMMA Split ==
  ASSUME NEW S, NEW s \in Seq(S), NEW n \in 0..Len(s)
  PROVE  /\ SubSeq(s, 1, n) \in Seq(S) /\ Len(SubSeq(s, 1, n)) = n
         /\ \A i \in 1..n : SubSeq(s, 1, n)[i] = s[i]
         /\ SubSeq(s, n + 1, Len(s)) \in Seq(S) /\ Len(SubSeq(s, n + 1, Len(s))) = Len(s) - n
         /\ \A i \in 1..(Len(s) - n) : SubSeq(s, n + 1, Len(s))[i] = s[n + i]
         /\ SubSeq(s, 1, n) \o SubSeq(s, n + 1, Len(s)) = s
<1>1. Len(s) \in Nat /\ n \in Nat /\ n <= Len(s) BY LenProperties
<1>2. \A i \in 1..Len(s) : s[i] \in S BY ElementOfSeq
<1>3. /\ SubSeq(s, 1, n) \in Seq(S) /\ Len(SubSeq(s, 1, n)) = n
      /\ \A i \in 1..n : SubSeq(s, 1, n)[i] = s[i]
  <2>1. \A i \in 1..n : s[i] \in S BY <1>1, <1>2
  <2>2. /\ SubSeq(s, 1, n) \in Seq(S)
        /\ Len(SubSeq(s, 1, n)) = IF 1 <= n THEN n - 1 + 1 ELSE 0
        /\ \A i \in 1..(n - 1 + 1) : SubSeq(s, 1, n)[i] = s[1 + i - 1]
    BY <2>1, <1>1, SubSeqProperties
  <2> QED BY <2>2, <1>1
<1>4. /\ SubSeq(s, n + 1, Len(s)) \in Seq(S)
      /\ Len(SubSeq(s, n + 1, Len(s))) = Len(s) - n
      /\ \A i \in 1..(Len(s) - n) : SubSeq(s, n + 1, Len(s))[i] = s[n + i]
  <2>1. \A i \in (n + 1)..Len(s) : s[i] \in S BY <1>1, <1>2
  <2>2. n + 1 \in Int /\ Len(s) \in Int BY <1>1
  <2>3. /\ SubSeq(s, n + 1, Len(s)) \in Seq(S)
        /\ Len(SubSeq(s, n + 1, Len(s))) =
             IF n + 1 <= Len(s) THEN Len(s) - (n + 1) + 1 ELSE 0
        /\ \A i \in 1..(Len(s) - (n + 1) + 1) :
             SubSeq(s, n + 1, Len(s))[i] = s[n + 1 + i - 1]
    BY <2>1, <2>2, SubSeqProperties
  <2> QED BY <2>3, <1>1
<1>5. SubSeq(s, 1, n) \o SubSeq(s, n + 1, Len(s)) = s
  <2>1. 1 \in 1..(Len(s) + 1) /\ n \in (1 - 1)..Len(s) /\ Len(s) \in n..Len(s) BY <1>1
  <2>2. SubSeq(s, 1, n) \o SubSeq(s, n + 1, Len(s)) = SubSeq(s, 1, Len(s))
    BY <2>1, ConcatAdjacentSubSeq
  <2> QED BY <2>2, SubSeqFull
<1> QED BY <1>3, <1>4, <1>5

LEMMA Joined ==
  ASSUME NEW S, NEW a \in Seq(S), NEW b \in Seq(S)
  PROVE  /\ a \o b \in Seq(S) /\ Len(a \o b) = Len(a) + Len(b)
         /\ \A i \in 1..Len(a) : (a \o b)[i] = a[i]
         /\ \A i \in 1..(Len(a) + Len(b)) : i > Len(a) => (a \o b)[i] = b[i - Len(a)]
<1>1. Len(a) \in Nat /\ Len(b) \in Nat BY LenProperties
<1>2. /\ a \o b \in Seq(S) /\ Len(a \o b) = Len(a) + Len(b)
      /\ \A i \in 1..(Len(a) + Len(b)) : (a \o b)[i] = IF i <= Len(a) THEN a[i] ELSE b[i - Len(a)]
  BY ConcatProperties
<1> QED BY <1>1, <1>2

LEMMA InitHolds == Init => IInv
<1> SUFFICES ASSUME Init PROVE IInv OBVIOUS
<1>1. <<>> \in Seq(Stamp) /\ Len(<<>>) = 0 BY EmptySeq
<1>2. TypeOK
  <2>1. /\ QueueLen \in Nat /\ HwDepth \in Nat /\ Capacity \in Nat /\ Want - 1 \in Nat
        /\ Rounds \in Nat /\ MaxBytes \in Nat
    BY SizesAssumption
  <2>2. <<>> \in Seq(1..MaxBytes) /\ Len(<<>>) = 0 BY EmptySeq
  <2>3. /\ xQueueUart \in {NULL} \cup (0..QueueLen) /\ arrived \in 0..MaxBytes
        /\ size \in 0..(Want - 1) /\ num \in 0..(Rounds + 1)
        /\ init \in {"buf", "queue", "task", "done", "failed"}
        /\ reader \in {"none", "wait", "read", "delay"} /\ isr \in {"out", "loop"}
    BY <2>1 DEF Init
  <2>4. /\ hw \in Seq(1..MaxBytes) /\ Len(hw) <= HwDepth
        /\ ring \in Seq(1..MaxBytes) /\ Len(ring) <= Capacity
        /\ got \in Seq(1..MaxBytes) /\ data \in Seq(1..MaxBytes) /\ Len(data) = size
        /\ accepted \in Seq(1..MaxBytes) /\ returned \in Seq(1..MaxBytes)
    BY <2>1, <2>2 DEF Init
  <2>5. fifoBuffer \in BOOLEAN /\ txEmptyEna \in BOOLEAN /\ latched \subseteq {"TOUT", "FRM_ERR"}
    BY DEF Init
  <2> QED BY <2>3, <2>4, <2>5 DEF TypeOK
<1>3. InOrder BY <1>1 DEF Init, InOrder, Increasing, Arrived
<1>4. Whole BY <1>1, ConcatEmptySeq DEF Init, Whole
<1>5. StartUp /\ Announced /\ Patience
  BY <1>1 DEF Init, StartUp, Announced, Patience
<1> QED BY <1>2, <1>3, <1>4, <1>5 DEF IInv

LEMMA Sizes ==
  /\ Capacity \in Nat \ {0} /\ HwDepth \in Nat \ {0} /\ Chunk \in Nat \ {0}
  /\ QueueLen \in Nat \ {0} /\ Want \in Nat \ {0} /\ Rounds \in Nat /\ MaxBytes \in Nat
BY SizesAssumption

LEMMA Lengths ==
  ASSUME TypeOK
  PROVE  /\ Len(ring) \in Nat /\ Len(hw) \in Nat /\ Len(accepted) \in Nat
         /\ Len(data) \in Nat /\ Len(returned) \in Nat
         /\ arrived \in Nat /\ size \in Nat /\ size < Want /\ Len(data) = size
BY Sizes, LenProperties DEF TypeOK

LEMMA Stamps ==
  ASSUME TypeOK
  PROVE  /\ \A i \in 1..Len(hw) : hw[i] \in Int
         /\ \A i \in 1..Len(accepted) : accepted[i] \in Int
<1>1. hw \in Seq(1..MaxBytes) /\ accepted \in Seq(1..MaxBytes) BY DEF TypeOK
<1>2. /\ \A i \in 1..Len(hw) : hw[i] \in 1..MaxBytes
      /\ \A i \in 1..Len(accepted) : accepted[i] \in 1..MaxBytes
  BY <1>1, ElementOfSeq
<1> QED BY <1>2, Sizes

(* The start-up: the queue exists only when the ring is still empty.       *)
LEMMA StartHolds ==
  ASSUME IInv, uart_init_new
  PROVE  IInv'
<1> USE DEF IInv
<1>1. /\ UNCHANGED <<uart, handler, ring, got, data, size, num, returned, accepted>>
      /\ init' \in {"queue", "task", "done", "failed"} /\ fifoBuffer' \in BOOLEAN
      /\ \/ /\ init \in {"buf", "queue"} /\ reader' = reader
            /\ xQueueUart' \in IF init' = "task" THEN {0, NULL} ELSE {xQueueUart}
         \/ /\ init = "task" /\ init' = "done" /\ xQueueUart' = xQueueUart
            /\ reader' \in {"wait", "none"}
  BY DEF uart_init_new, NoHeap, AllocateBuffer, CreateQueue, CreateReader, BootStep, TypeOK
<1>2. xQueueUart' \in {NULL} \cup (0..QueueLen) BY <1>1, Sizes DEF TypeOK
<1>3. reader = "none" /\ reader' \in {"none", "wait"} BY <1>1 DEF StartUp
<1>4. TypeOK' BY <1>1, <1>2, <1>3 DEF TypeOK
<1>5. InOrder' BY <1>1 DEF InOrder, Increasing, Arrived
<1>6. Whole' BY <1>1 DEF Whole
<1>7. StartUp' BY <1>1, <1>3 DEF StartUp, NULL
<1>8. Announced'
  <2>1. CASE xQueueUart' = xQueueUart BY <2>1, <1>1, <1>3 DEF Announced, Owed
  <2>2. CASE xQueueUart' # xQueueUart
    <3>1. xQueueUart' = 0 /\ Len(ring) = 0 BY <2>2, <1>1 DEF StartUp
    <3> QED BY <3>1, <1>1, <1>3, Sizes DEF Announced, Owed
  <2> QED BY <2>1, <2>2
<1>9. Patience' BY <1>1, <1>3 DEF Patience
<1> QED BY <1>4, <1>5, <1>6, <1>7, <1>8, <1>9

(* Steps of the UART and the handler that leave the ring and the task be.  *)
LEMMA ArriveHolds ==
  ASSUME IInv, Arrive
  PROVE  IInv'
<1> USE DEF IInv
<1>1. /\ UNCHANGED <<boot, xQueueUart, handler, ring, got, task, accepted>>
      /\ arrived < MaxBytes /\ arrived' = arrived + 1
      /\ hw' = IF Len(hw) < HwDepth THEN Append(hw, arrived + 1) ELSE hw
      /\ latched' \in {latched, latched \cup {"FRM_ERR"}}
  BY DEF Arrive
<1>2. arrived' \in 0..MaxBytes /\ arrived + 1 \in 1..MaxBytes /\ arrived' > arrived
  BY <1>1, Sizes DEF TypeOK
<1>3. hw \in Seq(1..MaxBytes) BY DEF TypeOK
<1>4. CASE hw' = hw
  <2>1. TypeOK'
    <3>1. latched' \subseteq {"TOUT", "FRM_ERR"} BY <1>1 DEF TypeOK
    <3> QED BY <1>1, <1>2, <1>4, <3>1 DEF TypeOK
  <2>2. \A x \in Int : x <= arrived => x <= arrived'
    <3>1. arrived \in Int /\ arrived' = arrived + 1 BY <1>1, Lengths
    <3> QED BY <3>1
  <2>3. /\ \A i \in 1..Len(hw) : hw[i] \in Int
        /\ \A i \in 1..Len(accepted) : accepted[i] \in Int
    BY Stamps
  <2>4. InOrder' BY <1>1, <1>4, <2>2, <2>3 DEF InOrder, Increasing, Arrived
  <2> QED BY <1>1, <2>1, <2>4 DEF Whole, StartUp, Announced, Owed, Patience
<1>5. CASE hw' = Append(hw, arrived + 1) /\ Len(hw) < HwDepth
  <2>1. /\ hw' \in Seq(1..MaxBytes) /\ Len(hw') = Len(hw) + 1
        /\ \A i \in 1..Len(hw) : hw'[i] = hw[i]
        /\ hw'[Len(hw) + 1] = arrived + 1
    BY <1>2, <1>3, <1>5, AppendProperties
  <2>2. TypeOK' BY <1>1, <1>2, <1>5, <2>1, Lengths, Sizes DEF TypeOK
  <2>3. /\ \A i \in 1..Len(hw) : hw[i] \in Int /\ hw[i] <= arrived
        /\ \A i \in 1..Len(accepted) : accepted[i] \in Int /\ accepted[i] <= arrived
    BY Stamps DEF InOrder, Arrived
  <2>4. \A i \in 1..Len(hw') : i \in 1..Len(hw) \/ i = Len(hw) + 1
    BY <2>1, Lengths
  <2>5. Increasing(hw)'
    <3> SUFFICES ASSUME NEW i \in 1..Len(hw'), NEW j \in 1..Len(hw'), i < j
                 PROVE  hw'[i] < hw'[j]
      BY DEF Increasing
    <3>1. Len(hw) \in Nat /\ arrived \in Int BY Lengths
    <3>2. i \in 1..Len(hw) BY <2>1, <3>1
    <3>3. CASE j \in 1..Len(hw)
      <4>1. hw[i] < hw[j] BY <3>2, <3>3 DEF InOrder, Increasing
      <4> QED BY <2>1, <3>2, <3>3, <4>1
    <3>4. CASE j = Len(hw) + 1
      <4>1. hw'[i] = hw[i] /\ hw'[j] = arrived + 1 BY <2>1, <3>2, <3>4
      <4>2. hw[i] \in Int /\ hw[i] <= arrived BY <2>3, <3>2
      <4> QED BY <3>1, <4>1, <4>2
    <3> QED BY <2>4, <3>3, <3>4
  <2>6. Increasing(accepted)' BY <1>1 DEF InOrder, Increasing
  <2>7. Arrived(hw)' /\ Arrived(accepted)'
    BY <1>1, <2>1, <2>3, <2>4, Lengths DEF Arrived
  <2>8. \A i \in 1..Len(accepted'), j \in 1..Len(hw') : accepted'[i] < hw'[j]
    BY <1>1, <2>1, <2>3, <2>4, Lengths DEF InOrder
  <2>9. InOrder' BY <2>5, <2>6, <2>7, <2>8 DEF InOrder
  <2> QED BY <1>1, <2>2, <2>9 DEF Whole, StartUp, Announced, Owed, Patience
<1> QED BY <1>1, <1>4, <1>5

LEMMA QuietHolds ==
  ASSUME IInv, LineIdle \/ Interrupt \/ ClearFrameError \/ TxEmpty \/ LeaveIsr
  PROVE  IInv'
<1> USE DEF IInv
<1>1. /\ UNCHANGED <<boot, xQueueUart, arrived, hw, ring, got, task, accepted>>
      /\ latched' \subseteq {"TOUT", "FRM_ERR"} /\ txEmptyEna' \in BOOLEAN
      /\ isr' \in {"out", "loop"}
  BY DEF LineIdle, Interrupt, ClearFrameError, TxEmpty, LeaveIsr, Turn, TypeOK
<1>2. TypeOK' BY <1>1 DEF TypeOK
<1>3. InOrder' BY <1>1 DEF InOrder, Increasing, Arrived
<1> QED BY <1>1, <1>2, <1>3 DEF Whole, StartUp, Announced, Owed, Patience

(* What the handler moves: n bytes leave the FIFO, the first k of them fit *)
(* in the ring.                                                            *)
LEMMA Received ==
  ASSUME TypeOK, ReceiveBytes
  PROVE  \E n \in 0..Len(hw) : \E k \in 0..n : \E t \in Seq(1..MaxBytes) :
           /\ n <= Chunk /\ Len(t) = k /\ \A i \in 1..k : t[i] = hw[i]
           /\ ring' = ring \o t /\ accepted' = accepted \o t
           /\ Len(ring) + k <= Capacity
           /\ hw' \in Seq(1..MaxBytes) /\ Len(hw') = Len(hw) - n
           /\ \A i \in 1..(Len(hw) - n) : hw'[i] = hw[n + i]
<1> DEFINE n == IF Len(hw) < Chunk THEN Len(hw) ELSE Chunk
           burst == SubSeq(hw, 1, n)
           room == Capacity - Len(ring)
           k == IF n < room THEN n ELSE room
           t == SubSeq(burst, 1, k)
<1>1. hw \in Seq(1..MaxBytes) /\ ring \in Seq(1..MaxBytes) /\ Len(ring) <= Capacity
  BY DEF TypeOK
<1>2. n \in 0..Len(hw) /\ n <= Chunk BY Lengths, Sizes
<1>3. k \in 0..n /\ Len(ring) + k <= Capacity BY <1>1, <1>2, Lengths, Sizes
<1>4. /\ burst \in Seq(1..MaxBytes) /\ Len(burst) = n
      /\ \A i \in 1..n : burst[i] = hw[i]
      /\ SubSeq(hw, n + 1, Len(hw)) \in Seq(1..MaxBytes)
      /\ Len(SubSeq(hw, n + 1, Len(hw))) = Len(hw) - n
      /\ \A i \in 1..(Len(hw) - n) : SubSeq(hw, n + 1, Len(hw))[i] = hw[n + i]
  BY <1>1, <1>2, Split
<1>5. /\ hw' = SubSeq(hw, n + 1, Len(hw))
      /\ ring' = ring \o SubSeq(burst, 1, IF Len(burst) < room THEN Len(burst) ELSE room)
      /\ accepted' = accepted \o SubSeq(burst, 1, Len(ring') - Len(ring))
  BY DEF ReceiveBytes, Ring!Put
<1>6. t \in Seq(1..MaxBytes) /\ Len(t) = k /\ \A i \in 1..k : t[i] = burst[i]
  <2> HIDE DEF burst, k, n
  <2>1. k \in 0..Len(burst) BY <1>3, <1>4
  <2> QED BY <2>1, <1>4, Split
<1>7. ring' = ring \o t BY <1>4, <1>5
<1>8. Len(ring') = Len(ring) + k
  <2> HIDE DEF t, k
  <2> QED BY <1>1, <1>6, <1>7, Joined
<1>9. accepted' = accepted \o t
  <2>1. Len(ring') - Len(ring) = k
    <3> HIDE DEF k
    <3>1. k \in Int BY <1>2, <1>3
    <3> QED BY <1>8, <3>1, Lengths
  <2> QED BY <2>1, <1>5
<1>10. \A i \in 1..k : t[i] = hw[i]
  <2> HIDE DEF t, k, n, burst
  <2>1. \A i \in 1..k : i \in 1..n BY <1>2, <1>3
  <2> QED BY <2>1, <1>4, <1>6
<1> HIDE DEF n, k, t, burst
<1> QED BY <1>2, <1>3, <1>4, <1>5, <1>6, <1>7, <1>9, <1>10

LEMMA ReceiveHolds ==
  ASSUME IInv, ReceiveBytes
  PROVE  IInv'
<1>0. TypeOK /\ InOrder /\ Whole /\ StartUp /\ Announced /\ Patience BY DEF IInv
<1>moved. PICK n \in 0..Len(hw) : \E k \in 0..n : \E t \in Seq(1..MaxBytes) :
        /\ n <= Chunk /\ Len(t) = k /\ \A i \in 1..k : t[i] = hw[i]
        /\ ring' = ring \o t /\ accepted' = accepted \o t
        /\ Len(ring) + k <= Capacity
        /\ hw' \in Seq(1..MaxBytes) /\ Len(hw') = Len(hw) - n
        /\ \A i \in 1..(Len(hw) - n) : hw'[i] = hw[n + i]
  BY <1>0, Received
<1>1. PICK k \in 0..n, t \in Seq(1..MaxBytes) :
        /\ n <= Chunk /\ Len(t) = k /\ \A i \in 1..k : t[i] = hw[i]
        /\ ring' = ring \o t /\ accepted' = accepted \o t
        /\ Len(ring) + k <= Capacity
        /\ hw' \in Seq(1..MaxBytes) /\ Len(hw') = Len(hw) - n
        /\ \A i \in 1..(Len(hw) - n) : hw'[i] = hw[n + i]
  BY <1>moved
<1>2. /\ UNCHANGED <<boot, got, task, arrived, handler>>
      /\ xQueueUart # NULL /\ latched' \subseteq {"TOUT", "FRM_ERR"}
      /\ xQueueUart' = IF xQueueUart = QueueLen THEN xQueueUart ELSE xQueueUart + 1
  BY <1>0 DEF ReceiveBytes, Turn, Post, read_uart_data_flag, TypeOK
<1>3. n \in Nat /\ k \in Nat /\ k <= n /\ n <= Len(hw) /\ k <= Chunk
  BY <1>0, <1>1, Lengths, Sizes
<1>4. /\ ring \in Seq(1..MaxBytes) /\ accepted \in Seq(1..MaxBytes)
      /\ hw \in Seq(1..MaxBytes) /\ Len(hw) <= HwDepth
  BY <1>0 DEF TypeOK
<1>5. ring' \in Seq(1..MaxBytes) /\ Len(ring') = Len(ring) + k
  BY <1>1, <1>4, Joined
<1>6. /\ accepted' \in Seq(1..MaxBytes) /\ Len(accepted') = Len(accepted) + k
      /\ \A i \in 1..Len(accepted) : accepted'[i] = accepted[i]
      /\ \A i \in 1..(Len(accepted) + k) : i > Len(accepted) => accepted'[i] = t[i - Len(accepted)]
  BY <1>1, <1>4, Joined
<1>7. TypeOK'
  <2>1. xQueueUart' \in {NULL} \cup (0..QueueLen)
    BY <1>0, <1>2, Sizes DEF TypeOK, NULL
  <2>2. Len(hw') <= HwDepth /\ Len(ring') <= Capacity
    <3>1. Len(ring') <= Capacity BY <1>1, <1>5
    <3>2. Len(hw') = Len(hw) - n /\ Len(hw) <= HwDepth BY <1>1, <1>4
    <3>3. Len(hw) \in Nat /\ HwDepth \in Nat BY <1>0, Lengths, Sizes
    <3>4. Len(hw') <= HwDepth BY <3>2, <3>3, <1>3
    <3> QED BY <3>1, <3>4
  <2> QED BY <1>0, <1>1, <1>2, <1>5, <1>6, <2>1, <2>2 DEF TypeOK
<1>8. InOrder'
  <2>1. \A i \in 1..Len(hw') : n + i \in 1..Len(hw) /\ hw'[i] = hw[n + i]
    BY <1>0, <1>1, <1>3, Lengths
  <2>2. \A i \in 1..Len(accepted') :
          \/ i \in 1..Len(accepted) /\ accepted'[i] = accepted[i]
          \/ /\ i > Len(accepted) /\ i - Len(accepted) \in 1..k
             /\ i - Len(accepted) \in 1..Len(hw)
             /\ accepted'[i] = hw[i - Len(accepted)]
    <3> TAKE i \in 1..Len(accepted')
    <3>1. /\ Len(accepted) \in Nat /\ Len(hw) \in Nat /\ k \in Nat /\ k <= Len(hw)
          /\ i \in 1..(Len(accepted) + k)
      BY <1>0, <1>3, <1>6, Lengths
    <3>2. CASE i <= Len(accepted)
      <4>1. i \in 1..Len(accepted) BY <3>1, <3>2
      <4> QED BY <4>1, <1>6
    <3>3. CASE i > Len(accepted)
      <4>1. i - Len(accepted) \in 1..k /\ i - Len(accepted) \in 1..Len(hw) BY <3>1, <3>3
      <4>2. accepted'[i] = t[i - Len(accepted)] BY <1>6, <3>1, <3>3
      <4>3. t[i - Len(accepted)] = hw[i - Len(accepted)] BY <1>1, <4>1
      <4> QED BY <3>3, <4>1, <4>2, <4>3
    <3> QED BY <3>1, <3>2, <3>3
  <2>3. /\ \A i \in 1..Len(hw) : hw[i] \in Int /\ hw[i] <= arrived
        /\ \A i \in 1..Len(accepted) : accepted[i] \in Int /\ accepted[i] <= arrived
        /\ \A i, j \in 1..Len(hw) : i < j => hw[i] < hw[j]
        /\ \A i, j \in 1..Len(accepted) : i < j => accepted[i] < accepted[j]
        /\ \A i \in 1..Len(accepted), j \in 1..Len(hw) : accepted[i] < hw[j]
    BY <1>0, Stamps DEF InOrder, Arrived, Increasing
  <2>4. Increasing(hw)' BY <1>0, <1>3, <2>1, <2>3, Lengths DEF Increasing
  <2>5. Increasing(accepted)'
    <3> SUFFICES ASSUME NEW i \in 1..Len(accepted'), NEW j \in 1..Len(accepted'), i < j
                 PROVE  accepted'[i] < accepted'[j]
      BY DEF Increasing
    <3>1. CASE j \in 1..Len(accepted) /\ accepted'[j] = accepted[j]
      <4>1. i \in 1..Len(accepted) /\ accepted'[i] = accepted[i]
        BY <3>1, <2>2, <1>0, Lengths
      <4> QED BY <3>1, <4>1, <2>3
    <3>2. CASE /\ j > Len(accepted) /\ j - Len(accepted) \in 1..Len(hw)
               /\ accepted'[j] = hw[j - Len(accepted)]
      <4>1. CASE i \in 1..Len(accepted) /\ accepted'[i] = accepted[i]
        BY <3>2, <4>1, <2>3
      <4>2. CASE /\ i - Len(accepted) \in 1..Len(hw)
                 /\ accepted'[i] = hw[i - Len(accepted)]
        <5>1. i - Len(accepted) < j - Len(accepted) BY <1>0, Lengths
        <5> QED BY <3>2, <4>2, <5>1, <2>3
      <4> QED BY <4>1, <4>2, <2>2
    <3> QED BY <3>1, <3>2, <2>2
  <2>6. Arrived(hw)' /\ Arrived(accepted)' BY <1>2, <2>1, <2>2, <2>3 DEF Arrived
  <2>7. ASSUME NEW i \in 1..Len(accepted'), NEW j \in 1..Len(hw')
        PROVE  accepted'[i] < hw'[j]
    <3>1. n + j \in 1..Len(hw) /\ hw'[j] = hw[n + j] BY <2>1
    <3>2. CASE i \in 1..Len(accepted) /\ accepted'[i] = accepted[i]
      BY <3>1, <3>2, <2>3
    <3>3. CASE /\ i - Len(accepted) \in 1..k /\ i - Len(accepted) \in 1..Len(hw)
               /\ accepted'[i] = hw[i - Len(accepted)]
      <4>1. i - Len(accepted) < n + j BY <3>3, <1>3
      <4> QED BY <3>1, <3>3, <4>1, <2>3
    <3> QED BY <2>2, <3>2, <3>3
  <2> QED BY <2>4, <2>5, <2>6, <2>7 DEF InOrder
<1>9. Whole'
  <2>1. /\ returned \in Seq(1..MaxBytes) /\ data \in Seq(1..MaxBytes)
        /\ returned \o data \in Seq(1..MaxBytes)
    BY <1>0, Joined DEF TypeOK
  <2>2. accepted = (returned \o data) \o ring BY <1>0 DEF Whole
  <2>3. ((returned \o data) \o ring) \o t = (returned \o data) \o (ring \o t)
    <3>1. \A a, b, c \in Seq(1..MaxBytes) : (a \o b) \o c = a \o (b \o c)
      BY ConcatAssociative
    <3>2. returned \o data \in Seq(1..MaxBytes) /\ ring \in Seq(1..MaxBytes)
      BY <2>1, <1>4
    <3>3. t \in Seq(1..MaxBytes) OBVIOUS
    <3> QED BY <3>1, <3>2, <3>3, Zenon
  <2> QED BY <1>1, <1>2, <2>2, <2>3 DEF Whole
<1>10. StartUp' BY <1>0, <1>2, Sizes DEF StartUp, TypeOK, NULL
<1>11. Announced'
  <2> SUFFICES ASSUME Chunk <= Want, Capacity <= QueueLen * Want
               PROVE  Len(ring') <= Owed'
    BY DEF Announced
  <2>1. xQueueUart \in 0..QueueLen /\ size' = size /\ reader' = reader
    BY <1>0, <1>2 DEF TypeOK
  <2>2. size < Want /\ size \in Nat BY <1>0, Lengths
  <2>3. CASE xQueueUart = QueueLen
    <3>1. Owed' >= QueueLen * Want
      BY <2>1, <2>2, <2>3, <1>2, Sizes DEF Owed
    <3>2. Len(ring') \in Int /\ Len(ring') <= Capacity
      BY <1>0, <1>1, <1>3, <1>5, Lengths
    <3>3. Owed' \in Int /\ QueueLen * Want \in Int /\ Capacity \in Int
      BY <2>1, <2>2, <2>3, <1>2, Sizes DEF Owed
    <3> QED BY <3>1, <3>2, <3>3
  <2>4. CASE xQueueUart # QueueLen
    <3>1. (xQueueUart + 1) * Want = xQueueUart * Want + Want BY <2>1, Sizes
    <3>2. Owed' = Owed + Want BY <3>1, <2>1, <2>2, <2>4, <1>2, Sizes DEF Owed
    <3>3. Len(ring) <= Owed BY <1>0, <1>2 DEF Announced
    <3>4. Owed \in Int BY <2>1, <2>2, Sizes DEF Owed
    <3> QED BY <3>2, <3>3, <3>4, <1>0, <1>3, <1>5, Lengths, Sizes
  <2> QED BY <2>3, <2>4
<1>12. Patience' BY <1>0, <1>2 DEF Patience
<1> QED BY <1>7, <1>8, <1>9, <1>10, <1>11, <1>12 DEF IInv

(* A start finds nothing accepted and nothing returned.                    *)
LEMMA RestartHolds ==
  ASSUME IInv, FatalException
  PROVE  IInv'
<1>1. <<>> \in Seq(1..MaxBytes) /\ Len(<<>>) = 0 BY EmptySeq
<1>2. TypeOK'
  <2>1. /\ xQueueUart' \in {NULL} \cup (0..QueueLen) /\ arrived' \in 0..MaxBytes
        /\ size' \in 0..(Want - 1) /\ num' \in 0..(Rounds + 1)
        /\ init' \in {"buf", "queue", "task", "done", "failed"}
        /\ reader' \in {"none", "wait", "read", "delay"} /\ isr' \in {"out", "loop"}
    BY Sizes DEF FatalException, IInv, TypeOK
  <2>2. /\ hw' \in Seq(1..MaxBytes) /\ Len(hw') <= HwDepth
        /\ ring' \in Seq(1..MaxBytes) /\ Len(ring') <= Capacity
        /\ got' \in Seq(1..MaxBytes) /\ data' \in Seq(1..MaxBytes) /\ Len(data') = size'
        /\ accepted' \in Seq(1..MaxBytes) /\ returned' \in Seq(1..MaxBytes)
    BY <1>1, Sizes DEF FatalException
  <2>3. /\ fifoBuffer' \in BOOLEAN /\ txEmptyEna' \in BOOLEAN
        /\ latched' \subseteq {"TOUT", "FRM_ERR"}
    BY DEF FatalException
  <2> QED BY <2>1, <2>2, <2>3 DEF TypeOK
<1>3. InOrder' BY <1>1 DEF FatalException, InOrder, Increasing, Arrived
<1>4. Whole' BY <1>1, ConcatEmptySeq DEF FatalException, Whole
<1>5. StartUp' /\ Announced' /\ Patience'
  BY <1>1 DEF FatalException, StartUp, Announced, Patience
<1> QED BY <1>2, <1>3, <1>4, <1>5 DEF IInv

(* An event taken is an event less, and a packet that is owed.             *)
LEMMA TakeEventHolds ==
  ASSUME IInv, TakeEvent
  PROVE  IInv'
<1>0. TypeOK /\ InOrder /\ Whole /\ StartUp /\ Announced /\ Patience BY DEF IInv
<1>1. /\ UNCHANGED <<boot, uart, handler, accepted, ring, got, returned>>
      /\ reader = "wait" /\ reader' = "read" /\ xQueueUart > 0
      /\ xQueueUart' = xQueueUart - 1
      /\ data' = <<>> /\ size' = 0 /\ num' = 0
  BY DEF TakeEvent, Running
<1>2. xQueueUart \in 1..QueueLen /\ xQueueUart' \in 0..QueueLen
  BY <1>0, <1>1, Sizes DEF TypeOK, NULL
<1>3. /\ <<>> \in Seq(1..MaxBytes) /\ Len(<<>>) = 0
      /\ size' \in 0..(Want - 1) /\ num' \in 0..(Rounds + 1)
  BY <1>1, EmptySeq, Sizes
<1>4. TypeOK' BY <1>0, <1>1, <1>2, <1>3 DEF TypeOK
<1>5. InOrder' BY <1>0, <1>1 DEF InOrder, Increasing, Arrived
<1>6. data = <<>>
  <2>1. size = 0 /\ Len(data) = 0 /\ data \in Seq(1..MaxBytes)
    BY <1>0, <1>1 DEF Patience, TypeOK
  <2> QED BY <2>1, EmptySeq
<1>7. Whole' BY <1>0, <1>1, <1>6 DEF Whole
<1>8. StartUp' BY <1>0, <1>1, <1>2 DEF StartUp, NULL
<1>9. Announced'
  <2>1. xQueueUart * Want = (xQueueUart - 1) * Want + Want BY <1>2, Sizes
  <2>2. Owed' = Owed BY <1>1, <1>2, <2>1, Sizes DEF Owed
  <2> QED BY <1>0, <1>1, <1>2, <2>2 DEF Announced, NULL
<1>10. Patience' BY <1>1, Sizes DEF Patience
<1> QED BY <1>4, <1>5, <1>7, <1>8, <1>9, <1>10 DEF IInv

(* What kfifo_get takes for the packet, and the packet with it.            *)
LEMMA Fetched ==
  ASSUME IInv, read_data_from_buf
  PROVE  /\ got' \in Seq(1..MaxBytes) /\ ring' \in Seq(1..MaxBytes)
         /\ Len(got') = Least(Want - size, Len(ring))
         /\ Len(ring') = Len(ring) - Len(got')
         /\ ring = got' \o ring'
         /\ Placed(got') = data \o got'
         /\ data \o got' \in Seq(1..MaxBytes) /\ Len(data \o got') = size + Len(got')
<1> DEFINE n == Least(Want - size, Len(ring))
<1>1. TypeOK /\ ring \in Seq(1..MaxBytes) /\ data \in Seq(1..MaxBytes) /\ Len(data) = size
  BY DEF IInv, TypeOK
<1>2. n \in 0..Len(ring) BY <1>1, Lengths, Sizes DEF Least
<1>3. got' = SubSeq(ring, 1, n) /\ ring' = SubSeq(ring, n + 1, Len(ring))
  BY DEF read_data_from_buf, Ring!Get
<1> HIDE DEF n
<1>4. Len(got') = n /\ got' \in Seq(1..MaxBytes) BY <1>1, <1>2, <1>3, Split
<1>5. /\ ring' \in Seq(1..MaxBytes) /\ Len(ring') = Len(ring) - n
      /\ ring = got' \o ring'
  BY <1>1, <1>2, <1>3, Split
<1>6. Placed(got') = data \o got' BY <1>1, SubSeqFull DEF Placed
<1>7. data \o got' \in Seq(1..MaxBytes) /\ Len(data \o got') = size + Len(got')
  BY <1>1, <1>4, Joined
<1> QED BY <1>4, <1>5, <1>6, <1>7 DEF n

(* A get that does not complete the packet has emptied the ring.           *)
LEMMA ReadHolds ==
  ASSUME IInv, read_data_from_buf
  PROVE  IInv'
<1>0. TypeOK /\ InOrder /\ Whole /\ StartUp /\ Announced /\ Patience BY DEF IInv
<1> DEFINE packet == data \o got'
<1>1. /\ got' \in Seq(1..MaxBytes) /\ ring' \in Seq(1..MaxBytes)
      /\ Len(got') = Least(Want - size, Len(ring))
      /\ Len(ring') = Len(ring) - Len(got')
      /\ ring = got' \o ring' /\ Placed(got') = packet
      /\ packet \in Seq(1..MaxBytes) /\ Len(packet) = size + Len(got')
  BY Fetched
<1>2. /\ UNCHANGED <<boot, uart, handler, accepted, xQueueUart>> /\ reader = "read"
      /\ \/ /\ size + Len(got') = Want /\ reader' = "wait"
            /\ returned' = returned \o packet /\ data' = <<>> /\ size' = 0 /\ num' = 0
         \/ /\ size + Len(got') # Want /\ reader' = "delay"
            /\ data' = packet /\ size' = size + Len(got') /\ num' = num + 1
            /\ returned' = returned
  BY <1>1 DEF read_data_from_buf, Running, Return
<1> HIDE DEF packet
<1>3. /\ returned \in Seq(1..MaxBytes) /\ data \in Seq(1..MaxBytes)
      /\ ring \in Seq(1..MaxBytes)
  BY <1>0 DEF TypeOK
<1>4. <<>> \in Seq(1..MaxBytes) /\ Len(<<>>) = 0 BY EmptySeq
<1>5. /\ Len(got') \in Nat /\ size + Len(got') <= Want
      /\ Len(got') <= Len(ring)
      /\ size + Len(got') # Want => Len(ring') = 0
  <2>1. Len(got') \in Nat /\ Len(ring) \in Nat /\ size \in Nat /\ size < Want
    BY <1>0, <1>1, Lengths, LenProperties
  <2> QED BY <1>1, <2>1, Sizes DEF Least
<1>6. TypeOK'
  <2>1. Len(ring') <= Capacity
    <3>1. Len(ring) \in Nat /\ Len(got') \in Nat /\ Capacity \in Nat BY <1>0, <1>5, Lengths, Sizes
    <3>2. Len(ring) <= Capacity /\ Len(ring') = Len(ring) - Len(got') BY <1>0, <1>1 DEF TypeOK
    <3> QED BY <3>1, <3>2
  <2>2. num \in Nat /\ num <= Rounds BY <1>0, <1>2, Sizes DEF TypeOK, Patience
  <2>3. size' \in 0..(Want - 1) /\ num' \in 0..(Rounds + 1)
    BY <1>0, <1>2, <1>5, <2>2, Lengths, Sizes
  <2>4. returned' \in Seq(1..MaxBytes) /\ data' \in Seq(1..MaxBytes) /\ Len(data') = size'
    BY <1>1, <1>2, <1>3, <1>4, Joined
  <2>5. reader' \in {"none", "wait", "read", "delay"} BY <1>2
  <2> QED BY <1>0, <1>1, <1>2, <2>1, <2>3, <2>4, <2>5 DEF TypeOK
<1>7. InOrder' BY <1>0, <1>2 DEF InOrder, Increasing, Arrived
<1>8. Whole'
  <2>1. \A a, b, c \in Seq(1..MaxBytes) : (a \o b) \o c = a \o (b \o c)
    BY ConcatAssociative
  <2>2. returned \o data \in Seq(1..MaxBytes) BY <1>3, Joined
  <2>3. (returned \o data) \o (got' \o ring') = ((returned \o data) \o got') \o ring'
    BY <2>1, <2>2, <1>1, Zenon
  <2>4. (returned \o data) \o got' = returned \o packet
    <3>1. got' \in Seq(1..MaxBytes) BY <1>1
    <3>2. (returned \o data) \o got' = returned \o (data \o got') BY <2>1, <3>1, <1>3, Zenon
    <3> QED BY <3>2 DEF packet
  <2>5. accepted = (returned \o packet) \o ring' BY <1>0, <1>1, <2>3, <2>4 DEF Whole
  <2>6. returned \o packet \in Seq(1..MaxBytes) BY <1>1, <1>3, Joined
  <2>7. (returned \o packet) \o <<>> = returned \o packet BY <2>6, ConcatEmptySeq
  <2>8. (returned \o data)' = returned \o packet BY <1>2, <2>7
  <2> QED BY <1>2, <2>5, <2>8 DEF Whole
<1>9. StartUp'
  <2>1. init = "done" BY <1>0, <1>2 DEF StartUp
  <2>2. xQueueUart = NULL => Len(ring') = 0
    BY <1>0, <1>1, <1>5, Lengths DEF StartUp
  <2> QED BY <1>2, <2>1, <2>2 DEF StartUp
<1>10. Announced'
  <2> SUFFICES ASSUME Chunk <= Want, Capacity <= QueueLen * Want, xQueueUart # NULL
               PROVE  Len(ring') <= Owed'
    BY <1>2 DEF Announced
  <2>1. xQueueUart \in Nat BY <1>0 DEF TypeOK
  <2>2. xQueueUart * Want \in Nat BY <2>1, Sizes
  <2>3. Owed' = xQueueUart * Want BY <1>2, <2>2 DEF Owed
  <2>4. CASE size + Len(got') # Want BY <2>2, <2>3, <2>4, <1>5
  <2>5. CASE size + Len(got') = Want
    <3>1. Len(ring) <= xQueueUart * Want + (Want - size)
      BY <1>0, <1>2 DEF Announced, Owed
    <3>2. Len(ring) \in Nat /\ size \in Nat BY <1>0, Lengths
    <3> QED BY <2>2, <2>3, <2>5, <3>1, <3>2, <1>1, <1>5, Sizes
  <2> QED BY <2>4, <2>5
<1>11. Patience' BY <1>2 DEF Patience
<1> QED BY <1>6, <1>7, <1>8, <1>9, <1>10, <1>11 DEF IInv

LEMMA WakeUpHolds ==
  ASSUME IInv, WakeUp
  PROVE  IInv'
<1>0. TypeOK /\ InOrder /\ Whole /\ StartUp /\ Announced /\ Patience BY DEF IInv
<1>1. /\ UNCHANGED <<boot, uart, handler, accepted, xQueueUart, ring, got>>
      /\ reader = "delay"
      /\ \/ /\ num < Rounds /\ reader' = "read"
            /\ UNCHANGED <<data, size, num, returned>>
         \/ /\ reader' = "wait" /\ returned' = returned \o data
            /\ data' = <<>> /\ size' = 0 /\ num' = 0
  BY DEF WakeUp, Running, Return
<1>2. /\ returned \in Seq(1..MaxBytes) /\ data \in Seq(1..MaxBytes)
      /\ returned \o data \in Seq(1..MaxBytes)
  BY <1>0, Joined DEF TypeOK
<1>3. <<>> \in Seq(1..MaxBytes) /\ Len(<<>>) = 0 BY EmptySeq
<1>4. TypeOK'
  <2>1. size' \in 0..(Want - 1) /\ num' \in 0..(Rounds + 1)
    BY <1>0, <1>1, Sizes DEF TypeOK
  <2>2. returned' \in Seq(1..MaxBytes) /\ data' \in Seq(1..MaxBytes) /\ Len(data') = size'
    BY <1>0, <1>1, <1>2, <1>3, Lengths
  <2>3. reader' \in {"none", "wait", "read", "delay"} BY <1>1
  <2> QED BY <1>0, <1>1, <2>1, <2>2, <2>3 DEF TypeOK
<1>5. InOrder' BY <1>0, <1>1 DEF InOrder, Increasing, Arrived
<1>6. Whole'
  <2>1. (returned \o data) \o <<>> = returned \o data BY <1>2, ConcatEmptySeq
  <2>2. (returned \o data)' = returned \o data BY <1>1, <2>1
  <2> QED BY <1>0, <1>1, <2>2 DEF Whole
<1>7. StartUp' BY <1>0, <1>1 DEF StartUp
<1>8. Announced'
  <2> SUFFICES ASSUME Chunk <= Want, Capacity <= QueueLen * Want, xQueueUart # NULL
               PROVE  Len(ring) <= Owed'
    BY <1>1 DEF Announced
  <2>1. xQueueUart \in Nat /\ xQueueUart * Want \in Nat BY <1>0, Sizes DEF TypeOK
  <2>2. Len(ring) <= xQueueUart * Want BY <1>0, <1>1, <2>1 DEF Announced, Owed
  <2>3. Len(ring) \in Nat /\ size \in Nat /\ size < Want BY <1>0, Lengths
  <2> QED BY <1>1, <2>1, <2>2, <2>3, Sizes DEF Owed
<1>9. Patience' BY <1>0, <1>1, Sizes DEF Patience, TypeOK
<1> QED BY <1>4, <1>5, <1>6, <1>7, <1>8, <1>9 DEF IInv

LEMMA NextHolds == IInv /\ [Next]_vars => IInv'
<1> SUFFICES ASSUME IInv, [Next]_vars PROVE IInv' OBVIOUS
<1>1. CASE uart_init_new BY <1>1, StartHolds
<1>2. CASE Arrive BY <1>2, ArriveHolds
<1>3. CASE LineIdle BY <1>3, QuietHolds
<1>4. CASE Interrupt BY <1>4, QuietHolds
<1>5. CASE ClearFrameError BY <1>5, QuietHolds
<1>6. CASE ReceiveBytes BY <1>6, ReceiveHolds
<1>7. CASE FatalException BY <1>7, RestartHolds
<1>8. CASE TxEmpty BY <1>8, QuietHolds
<1>9. CASE LeaveIsr BY <1>9, QuietHolds
<1>10. CASE TakeEvent BY <1>10, TakeEventHolds
<1>11. CASE read_data_from_buf BY <1>11, ReadHolds
<1>12. CASE WakeUp BY <1>12, WakeUpHolds
<1>13. CASE UNCHANGED vars
  <2>1. /\ UNCHANGED <<init, fifoBuffer, xQueueUart, arrived, hw, latched, txEmptyEna, isr>>
        /\ UNCHANGED <<ring, got, reader, data, size, num, accepted, returned>>
    BY <1>13 DEF vars
  <2>2. TypeOK' BY <2>1 DEF IInv, TypeOK
  <2>3. InOrder' BY <2>1 DEF IInv, InOrder, Increasing, Arrived
  <2>4. Whole' /\ StartUp' BY <2>1 DEF IInv, Whole, StartUp
  <2>5. Announced' /\ Patience' BY <2>1 DEF IInv, Announced, Owed, Patience
  <2> QED BY <2>2, <2>3, <2>4, <2>5 DEF IInv
<1> QED
  BY <1>1, <1>2, <1>3, <1>4, <1>5, <1>6, <1>7, <1>8, <1>9, <1>10, <1>11, <1>12, <1>13
  DEF Next, uart0_rx_intr_handler, recv_data_uart

LEMMA Invariance == Spec => []IInv
BY InitHolds, NextHolds, PTL DEF Spec

(* Every variable keeps its type, whatever the handler and the task do and *)
(* whenever the device starts again.                                       *)
THEOREM TypesHold == Spec => []TypeOK
<1>1. IInv => TypeOK BY DEF IInv
<1> QED BY <1>1, Invariance, PTL

(* recv_data_uart loses, repeats and moves no byte that kfifo_put          *)
(* accepted, for every length of packet, time-out and ring.                *)
THEOREM EveryByteOnce == Spec => []StreamIsWhole
<1>1. IInv => StreamIsWhole BY DEF IInv, Whole, InOrder, Increasing, StreamIsWhole
<1> QED BY <1>1, Invariance, PTL

(* Dropped and swallowed events strand no byte in the ring, for every      *)
(* length of the queue whose events cover the ring.                        *)
THEOREM NoByteStranded == Spec => []EveryByteAnnounced
<1>1. IInv => EveryByteAnnounced
  <2> SUFFICES ASSUME IInv, reader = "wait", xQueueUart # NULL, Chunk <= Want,
                      Capacity <= QueueLen * Want
               PROVE  Len(ring) <= xQueueUart * Want
    BY DEF EveryByteAnnounced
  <2>1. Len(ring) <= Owed BY DEF IInv, Announced
  <2>2. xQueueUart * Want \in Nat BY Sizes DEF IInv, TypeOK
  <2> QED BY <2>1, <2>2 DEF Owed
<1> QED BY <1>1, Invariance, PTL
==============================================================================
