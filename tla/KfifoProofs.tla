----------------------------- MODULE KfifoProofs -----------------------------
(***************************************************************************)
(* Proofs about Kfifo for every Size, Wrap, Byte, MaxPut and MaxGet: the   *)
(* counters never drift apart by more than Size, the interrupt handler     *)
(* never overwrites what an interrupted kfifo_get is copying, and so the   *)
(* ring implements ByteQueue: from what the counters delimit, read along   *)
(* the slots (Contents), a put appends and a get takes the oldest away.    *)
(***************************************************************************)
EXTENDS Kfifo, SequenceTheorems, TLAPS

(***************************************************************************)
(* Arithmetic.  The provers know that a % s is the remainder of a; that a  *)
(* remainder is unique has to be argued.                                   *)
(***************************************************************************)
LEMMA Quotient ==
  ASSUME NEW a \in Nat, NEW s \in Nat \ {0}
  PROVE  /\ a % s \in 0..(s - 1)
         /\ a \div s \in Nat
         /\ a = s * (a \div s) + (a % s)
OBVIOUS

LEMMA MultipleIsLarge ==
  ASSUME NEW s \in Nat \ {0}, NEW d \in Int, d >= 1
  PROVE  s * d >= s
OBVIOUS

LEMMA RemainderUnique ==
  ASSUME NEW s \in Nat \ {0}, NEW d \in Int, NEW e \in Int,
         NEW r \in 0..(s - 1), NEW t \in 0..(s - 1), s * d + r = s * e + t
  PROVE  r = t
<1>1. s * (d - e) = t - r OBVIOUS
<1>2. ~ (d - e >= 1) BY <1>1, MultipleIsLarge
<1>3. s * (e - d) = r - t BY <1>1
<1>4. ~ (e - d >= 1) BY <1>3, MultipleIsLarge
<1>5. d = e BY <1>2, <1>4
<1> QED BY <1>1, <1>5

LEMMA RemainderIs ==
  ASSUME NEW s \in Nat \ {0}, NEW d \in Int, NEW r \in 0..(s - 1),
         NEW a \in Nat, a = s * d + r
  PROVE  a % s = r
<1>1. /\ a % s \in 0..(s - 1) /\ a \div s \in Int
      /\ a = s * (a \div s) + (a % s)
  BY Quotient
<1>2. s * d + r = s * (a \div s) + (a % s) BY <1>1
<1> QED BY <1>1, <1>2, RemainderUnique

(***************************************************************************)
(* The counters.                                                           *)
(***************************************************************************)
LEMMA UnsignedRange ==
  ASSUME NEW a \in Counter, NEW b \in Counter
  PROVE  UAdd(a, b) \in Counter /\ USub(a, b) \in Counter
BY WrapAssumption DEF UAdd, USub, Counter

(* Room is exactly what Used leaves, also when either counter has wrapped. *)
LEMMA RoomIsTheRest ==
  ASSUME in \in Counter, out \in Counter, Used <= Size
  PROVE  Used \in Nat /\ Room = Size - Used
BY SizeAssumption, WrapAssumption DEF Room, Used, UAdd, USub, Counter

(* Advancing in by n bytes of room adds n to Used, *)
LEMMA PutAdds ==
  ASSUME in \in Counter, out \in Counter, Used <= Size,
         NEW n \in Nat, n <= Size - Used
  PROVE  UAdd(in, n) \in Counter /\ USub(UAdd(in, n), out) = Used + n
BY SizeAssumption, WrapAssumption DEF Used, UAdd, USub, Counter

(* and advancing out by n unread bytes takes n away.                       *)
LEMMA GetTakes ==
  ASSUME in \in Counter, out \in Counter, Used <= Size,
         NEW n \in Nat, n <= Used
  PROVE  UAdd(out, n) \in Counter /\ USub(in, UAdd(out, n)) = Used - n
BY SizeAssumption, WrapAssumption DEF Used, UAdd, USub, Counter

(* The slot k places after counter p.                                      *)
After(p, k) ==
  IF (p % Size) + k < Size THEN (p % Size) + k ELSE (p % Size) + k - Size

LEMMA OffsetRange ==
  ASSUME NEW p \in Counter
  PROVE  p % Size \in 0..(Size - 1)
BY SizeAssumption, Quotient DEF Counter

LEMMA SumSplits ==
  ASSUME NEW p \in Counter, NEW u \in 0..Size
  PROVE  \E e \in Int : p + u = Size * e + After(p, u)
<1> DEFINE r == p % Size
           d == p \div Size
<1>0. r \in 0..(Size - 1) /\ d \in Int /\ p = Size * d + r
  BY SizeAssumption, Quotient DEF Counter
<1>1. CASE r + u < Size
  <2>1. p + u = Size * d + (r + u) BY <1>0, SizeAssumption
  <2>2. After(p, u) = r + u BY <1>1 DEF After
  <2> HIDE DEF r, d
  <2> QED BY <1>0, <2>1, <2>2
<1>2. CASE ~(r + u < Size)
  <2>1. p + u = Size * (d + 1) + (r + u - Size) BY <1>0, SizeAssumption
  <2>2. After(p, u) = r + u - Size BY <1>2 DEF After
  <2> HIDE DEF r, d
  <2> QED BY <1>0, <2>1, <2>2
<1> QED BY <1>1, <1>2

(* Because Wrap is a multiple of Size, the slot does not jump where the    *)
(* counter wraps.                                                          *)
LEMMA OffsetAdvances ==
  ASSUME NEW p \in Counter, NEW u \in 0..Size
  PROVE  UAdd(p, u) % Size = After(p, u)
<1> DEFINE r == p % Size
           d == p \div Size
           m == Wrap \div Size
<1>1. r \in 0..(Size - 1) /\ d \in Int /\ p = Size * d + r
  BY SizeAssumption, Quotient DEF Counter
<1>2. m \in Int /\ Wrap = Size * m
  BY SizeAssumption, WrapAssumption, Quotient
<1>3. UAdd(p, u) \in Nat
  BY SizeAssumption, WrapAssumption DEF UAdd, Counter
<1>4. After(p, u) \in 0..(Size - 1)
  BY <1>1, SizeAssumption DEF After
<1>5. PICK e \in Int : p + u = Size * e + After(p, u) BY SumSplits
<1>6. PICK f \in Int : UAdd(p, u) = Size * f + After(p, u)
  <2> HIDE DEF r, d, m
  <2>1. CASE p + u >= Wrap
    <3>1. Size * (e - m) = Size * e - Size * m BY <1>2, SizeAssumption
    <3>2. UAdd(p, u) = p + u - Wrap BY <2>1 DEF UAdd
    <3>3. UAdd(p, u) = Size * (e - m) + After(p, u)
      <4> DEFINE x == Size * e
                 y == Size * m
                 z == Size * (e - m)
      <4>1. x \in Int /\ y \in Int /\ z = x - y BY <1>2, <3>1, SizeAssumption
      <4>2. p + u = x + After(p, u) /\ Wrap = y BY <1>2, <1>5
      <4>3. After(p, u) \in Int BY <1>4, SizeAssumption
      <4> HIDE DEF x, y, z
      <4>4. p \in Int /\ u \in Int BY SizeAssumption, WrapAssumption DEF Counter
      <4>5. UAdd(p, u) = z + After(p, u) BY <4>1, <4>2, <4>3, <4>4, <3>2
      <4> QED BY <4>5 DEF z
    <3> QED BY <1>2, <3>3
  <2>2. CASE ~ (p + u >= Wrap) BY <1>5, <2>2 DEF UAdd
  <2> QED BY <2>1, <2>2
<1> QED
  <2> DEFINE a == UAdd(p, u)
             b == After(p, u)
  <2>1. a \in Nat /\ b \in 0..(Size - 1) /\ a = Size * f + b BY <1>3, <1>4, <1>6
  <2> HIDE DEF a, b
  <2>2. a % Size = b BY <2>1, SizeAssumption, RemainderIs
  <2> QED BY <2>2 DEF a, b

(* Where the handler starts to write.                                      *)
LEMMA InFollowsOut ==
  ASSUME in \in Counter, out \in Counter, Used <= Size
  PROVE  in % Size = After(out, Used)
<1>1. Used \in 0..Size BY RoomIsTheRest, SizeAssumption
<1>2. UAdd(out, Used) = in BY WrapAssumption DEF UAdd, USub, Used, Counter
<1> QED BY <1>1, <1>2, OffsetAdvances

(* The two memcpy calls of kfifo_get visit the unread slots in order.      *)
LEMMA SourceSlotIs ==
  ASSUME out \in Counter, len \in Nat, len <= Size,
         NEW k \in Nat, k < len
  PROVE  SourceSlot(k) = After(out, k) /\ SourceSlot(k) \in Slot
BY OffsetRange, SizeAssumption DEF SourceSlot, After, Least, Slot

(***************************************************************************)
(* The inductive invariant.                                                *)
(***************************************************************************)
IInv == TypeOK /\ NeverOverfull /\ CopyIsIntact

LEMMA InitHolds == Init => IInv
BY SizeAssumption, WrapAssumption, BoundAssumption
   DEF Init, IInv, TypeOK, NeverOverfull, CopyIsIntact, Counter, Slot, Used, USub

(* Slots that hold unread bytes are not written by kfifo_put.              *)
LEMMA PutSparesUnread ==
  ASSUME in \in Counter, out \in Counter, Used <= Size,
         NEW bytes \in Seq(Byte), kfifo_put(bytes),
         NEW k \in Nat, k < Used
  PROVE  After(out, k) \in Slot /\ buffer'[After(out, k)] = buffer[After(out, k)]
<1> DEFINE n == Least(Len(bytes), Room)
           off == in % Size
           l == Least(n, Size - off)
           s == After(out, k)
<1>1. Used \in Nat /\ Room = Size - Used BY RoomIsTheRest
<1>2. n \in Nat /\ n <= Size - Used
  BY <1>1, SizeAssumption DEF Least
<1>3. out % Size \in 0..(Size - 1) BY OffsetRange
<1>4. off = After(out, Used) BY InFollowsOut
<1>5. s \in Slot BY <1>1, <1>3, SizeAssumption DEF After, Slot
<1>6. ~ (s < n - l)
  BY <1>1, <1>2, <1>3, <1>4, SizeAssumption DEF After, Least
<1>7. s \notin off..(off + l - 1)
  BY <1>1, <1>2, <1>3, <1>4, SizeAssumption DEF After, Least
<1>8. buffer' = [t \in Slot |->
                  CASE t < n - l -> bytes[l + t + 1]
                    [] t \in off..(off + l - 1) -> bytes[t - off + 1]
                    [] OTHER -> buffer[t]]
  BY DEF kfifo_put
<1> HIDE DEF n, off, l, s
<1>9. buffer'[s] = buffer[s] BY <1>5, <1>6, <1>7, <1>8
<1> QED BY <1>5, <1>9 DEF s

LEMMA PutHolds ==
  ASSUME IInv, NEW bytes \in Seq(Byte), kfifo_put(bytes)
  PROVE  IInv'
<1> DEFINE n == Least(Len(bytes), Room)
           off == in % Size
           l == Least(n, Size - off)
<1>1. Used \in Nat /\ Room = Size - Used /\ Used <= Size
  BY RoomIsTheRest DEF IInv, TypeOK, NeverOverfull
<1>2. n \in Nat /\ n <= Size - Used /\ n <= Len(bytes)
  BY <1>1, SizeAssumption DEF Least
<1>3. in' = UAdd(in, n) /\ UNCHANGED <<out, pc, len, dst, got>>
  BY DEF kfifo_put, reader
<1>4. in' \in Counter /\ Used' = Used + n
  BY <1>1, <1>2, <1>3, PutAdds DEF IInv, TypeOK, Used
<1>5. off \in 0..(Size - 1) BY OffsetRange DEF IInv, TypeOK
<1>6. buffer' \in [Slot -> Byte]
  <2>1. buffer' = [t \in Slot |->
                    CASE t < n - l -> bytes[l + t + 1]
                      [] t \in off..(off + l - 1) -> bytes[t - off + 1]
                      [] OTHER -> buffer[t]]
    BY DEF kfifo_put
  <2>2. l \in Nat /\ l <= n BY <1>2, <1>5, SizeAssumption DEF Least
  <2>3. \A i \in 1..n : bytes[i] \in Byte BY <1>2
  <2>4. \A t \in Slot : t < n - l => bytes[l + t + 1] \in Byte
    BY <1>2, <2>2, <2>3, SizeAssumption DEF Slot
  <2>5. \A t \in off..(off + l - 1) : bytes[t - off + 1] \in Byte
    BY <1>2, <1>5, <2>2, <2>3, SizeAssumption
  <2>6. \A t \in Slot : buffer[t] \in Byte BY DEF IInv, TypeOK
  <2> HIDE DEF n, off, l
  <2> QED BY <2>1, <2>4, <2>5, <2>6
<1>7. TypeOK' BY <1>3, <1>4, <1>6 DEF IInv, TypeOK
<1>8. NeverOverfull'
  <2> HIDE DEF n
  <2> QED BY <1>1, <1>2, <1>4, SizeAssumption DEF NeverOverfull
<1>9. CopyIsIntact'
  <2> SUFFICES ASSUME pc = "copy"
               PROVE  /\ Len(dst) <= len /\ len <= Used'
                      /\ \A k \in 1..Len(dst) :
                           dst[k] = buffer'[SourceSlot(k - 1)]
    BY <1>3 DEF CopyIsIntact, SourceSlot
  <2>1. len \in Nat /\ len <= Used /\ out \in Counter /\ in \in Counter
    BY BoundAssumption DEF IInv, CopyIsIntact, TypeOK
  <2>2. len <= Used' BY <1>1, <1>2, <1>4, <2>1
  <2>3. ASSUME NEW k \in 1..Len(dst)
        PROVE  dst[k] = buffer'[SourceSlot(k - 1)]
    <3>1. Len(dst) \in Nat /\ Len(dst) <= len
      BY DEF IInv, CopyIsIntact, TypeOK
    <3>2. k - 1 \in Nat /\ k - 1 < len /\ k - 1 < Used
      BY <1>1, <2>1, <3>1
    <3>3. SourceSlot(k - 1) = After(out, k - 1)
      BY <1>1, <2>1, <3>2, SourceSlotIs, SizeAssumption
    <3>4. buffer'[After(out, k - 1)] = buffer[After(out, k - 1)]
      BY <1>1, <2>1, <3>2, PutSparesUnread
    <3>5. dst[k] = buffer[SourceSlot(k - 1)] BY DEF IInv, CopyIsIntact
    <3> QED BY <3>3, <3>4, <3>5
  <2>4. Len(dst) <= len BY DEF IInv, CopyIsIntact
  <2> QED BY <2>2, <2>3, <2>4
<1> QED BY <1>7, <1>8, <1>9 DEF IInv

LEMMA GetBeginHolds ==
  ASSUME IInv, NEW want \in 0..MaxGet, GetBegin(want)
  PROVE  IInv'
<1>1. Used \in Nat BY RoomIsTheRest DEF IInv, TypeOK, NeverOverfull
<1>2. len' = Least(want, Used) /\ len' \in 0..MaxGet /\ len' <= Used
  BY <1>1, BoundAssumption DEF GetBegin, Least
<1>3. pc' = "copy" /\ dst' = << >> /\ UNCHANGED <<in, out, buffer, got>>
  BY DEF GetBegin, ring
<1>4. TypeOK' BY <1>2, <1>3, BoundAssumption DEF IInv, TypeOK
<1>5. NeverOverfull' BY <1>3 DEF IInv, NeverOverfull, Used
<1>6. CopyIsIntact' BY <1>1, <1>2, <1>3 DEF CopyIsIntact, Used
<1> QED BY <1>4, <1>5, <1>6 DEF IInv

LEMMA GetCopyByteHolds ==
  ASSUME IInv, GetCopyByte
  PROVE  IInv'
<1> DEFINE k == Len(dst)
<1>1. /\ in \in Counter /\ out \in Counter /\ len \in Nat /\ k \in Nat
      /\ len <= MaxGet /\ k < len /\ len <= Used /\ Used <= Size
  BY BoundAssumption
     DEF IInv, TypeOK, NeverOverfull, CopyIsIntact, GetCopyByte
<1>2. /\ dst' = Append(dst, buffer[SourceSlot(k)])
      /\ UNCHANGED <<in, out, buffer, pc, len, got>>
  BY DEF GetCopyByte, ring
<1>3. buffer[SourceSlot(k)] \in Byte
  <2>1. len <= Size
    BY <1>1, RoomIsTheRest, SizeAssumption
  <2> QED BY <1>1, <2>1, SourceSlotIs DEF IInv, TypeOK
<1>4. dst \in Seq(Byte) BY DEF IInv, TypeOK
<1>5. /\ dst' \in Seq(Byte) /\ Len(dst') = k + 1
      /\ \A i \in 1..k : dst'[i] = dst[i]
      /\ dst'[k + 1] = buffer[SourceSlot(k)]
  BY <1>2, <1>3, <1>4
<1>6. TypeOK' BY <1>1, <1>2, <1>5, BoundAssumption DEF IInv, TypeOK
<1>7. NeverOverfull' BY <1>2 DEF IInv, NeverOverfull, Used
<1>8. CopyIsIntact'
  <2>1. ASSUME NEW i \in 1..(k + 1)
        PROVE  dst'[i] = buffer[SourceSlot(i - 1)]
    <3>1. CASE i = k + 1 BY <1>1, <1>5, <3>1
    <3>2. CASE i # k + 1
      <4>1. i \in 1..k BY <1>1, <3>2
      <4> QED BY <1>5, <4>1 DEF IInv, CopyIsIntact, GetCopyByte
    <3> QED BY <3>1, <3>2
  <2>2. \A i : SourceSlot(i)' = SourceSlot(i) BY <1>2 DEF SourceSlot
  <2>3. Used' = Used BY <1>2 DEF Used
  <2> HIDE DEF k
  <2> QED BY <1>1, <1>2, <1>5, <2>1, <2>2, <2>3 DEF CopyIsIntact
<1> QED BY <1>6, <1>7, <1>8 DEF IInv

LEMMA GetCommitHolds ==
  ASSUME IInv, GetCommit
  PROVE  IInv'
<1>1. /\ in \in Counter /\ out \in Counter /\ len \in Nat
      /\ len <= Used /\ Used <= Size
  BY BoundAssumption DEF IInv, TypeOK, NeverOverfull, CopyIsIntact, GetCommit
<1>2. /\ out' = UAdd(out, len) /\ got' = dst /\ pc' = "idle"
      /\ UNCHANGED <<in, buffer, len, dst>>
  BY DEF GetCommit
<1>3. Used \in Nat BY <1>1, RoomIsTheRest
<1>4. out' \in Counter /\ Used' = Used - len
  BY <1>1, <1>2, <1>3, GetTakes DEF Used
<1>5. TypeOK' BY <1>2, <1>4 DEF IInv, TypeOK
<1>6. NeverOverfull' BY <1>1, <1>3, <1>4, SizeAssumption DEF NeverOverfull
<1>7. CopyIsIntact' BY <1>2 DEF CopyIsIntact
<1> QED BY <1>5, <1>6, <1>7 DEF IInv

LEMMA StutterHolds ==
  ASSUME IInv, UNCHANGED fifoVars
  PROVE  IInv'
<1>1. UNCHANGED <<in, out, buffer, pc, len, dst, got>>
  BY DEF fifoVars, ring, reader
<1> QED BY <1>1 DEF IInv, TypeOK, NeverOverfull, CopyIsIntact, Used, SourceSlot

LEMMA BurstIsSequence ==
  ASSUME NEW bytes \in Burst
  PROVE  bytes \in Seq(Byte)
BY BoundAssumption DEF Burst

THEOREM InvariantHolds == Spec => []IInv
<1>1. Init => IInv BY InitHolds
<1>2. IInv /\ [Next]_fifoVars => IInv'
  <2> SUFFICES ASSUME IInv, [Next]_fifoVars PROVE IInv' OBVIOUS
  <2>1. ASSUME NEW bytes \in Burst, kfifo_put(bytes) PROVE IInv'
    BY <2>1, BurstIsSequence, PutHolds
  <2>2. ASSUME NEW want \in 0..MaxGet, GetBegin(want) PROVE IInv'
    BY <2>2, GetBeginHolds
  <2>3. CASE GetCopyByte BY <2>3, GetCopyByteHolds
  <2>4. CASE GetCommit BY <2>4, GetCommitHolds
  <2>5. CASE UNCHANGED fifoVars BY <2>5, StutterHolds
  <2> QED BY <2>1, <2>2, <2>3, <2>4, <2>5 DEF Next
<1> QED BY <1>1, <1>2, PTL DEF Spec

(* Types. *)
THEOREM TypeCorrect == Spec => []TypeOK
<1>1. IInv => TypeOK BY DEF IInv
<1> QED BY <1>1, InvariantHolds, PTL

(* The free-running counters of kfifo.c never drift apart by more than the *)
(* buffer holds, for every buffer size and across every wrap-around.       *)
THEOREM RingNeverOverfull == Spec => []NeverOverfull
<1>1. IInv => NeverOverfull BY DEF IInv
<1> QED BY <1>1, InvariantHolds, PTL

(* The interrupt handler never writes a byte that an interrupted kfifo_get *)
(* has claimed, although the two share no lock.                            *)
THEOREM ReaderNeverTorn == Spec => []CopyIsIntact
<1>1. IInv => CopyIsIntact BY DEF IInv
<1> QED BY <1>1, InvariantHolds, PTL
------------------------------------------------------------------------------
(***************************************************************************)
(* The ring is a queue.  Contents, the queue the ring stands for, is told  *)
(* by its length and by the slot of each of its bytes.                     *)
(***************************************************************************)
LEMMA PlaceOffset ==
  ASSUME NEW p \in Counter, NEW u \in 0..Size
  PROVE  (p + u) % Size = After(p, u)
<1>1. PICK e \in Int : p + u = Size * e + After(p, u) BY SumSplits
<1>2. After(p, u) \in 0..(Size - 1) BY OffsetRange, SizeAssumption DEF After
<1>3. p + u \in Nat BY SizeAssumption, WrapAssumption DEF Counter
<1> DEFINE a == p + u
           b == After(p, u)
<1>4. a \in Nat /\ b \in 0..(Size - 1) /\ a = Size * e + b BY <1>1, <1>2, <1>3
<1> HIDE DEF a, b
<1>5. a % Size = b BY <1>4, SizeAssumption, RemainderIs
<1> QED BY <1>5 DEF a, b

(* Placing is adding: u and then v places on.                              *)
LEMMA AfterAfter ==
  ASSUME NEW p \in Counter, NEW u \in Nat, NEW v \in Nat, u + v < Size
  PROVE  After(UAdd(p, u), v) = After(p, u + v)
<1>1. p % Size \in 0..(Size - 1) BY OffsetRange
<1>2. UAdd(p, u) % Size = After(p, u) BY OffsetAdvances, SizeAssumption
<1> DEFINE r == p % Size
           b == UAdd(p, u) % Size
<1>3. r \in Int /\ 0 <= r /\ r < Size /\ Size \in Int BY <1>1, SizeAssumption
<1>4. b = IF r + u < Size THEN r + u ELSE r + u - Size BY <1>2 DEF After
<1> SUFFICES (IF b + v < Size THEN b + v ELSE b + v - Size) =
             (IF r + (u + v) < Size THEN r + (u + v) ELSE r + (u + v) - Size)
  BY DEF After
<1> HIDE DEF r, b
<1> QED BY <1>3, <1>4

ContentsShape ==
  /\ Used \in 0..Size
  /\ Contents \in Seq(Byte) /\ Len(Contents) = Used
  /\ \A i \in 1..Used : Contents[i] = buffer[After(out, i - 1)]

LEMMA ContentsHaveShape ==
  ASSUME TypeOK, NeverOverfull
  PROVE  ContentsShape
<1>1. in \in Counter /\ out \in Counter /\ Used <= Size /\ buffer \in [Slot -> Byte]
  BY DEF TypeOK, NeverOverfull
<1>2. Used \in Nat BY <1>1, RoomIsTheRest
<1>3. ASSUME NEW i \in 1..Used
      PROVE  /\ (out + i - 1) % Size = After(out, i - 1)
             /\ After(out, i - 1) \in Slot
  <2>1. i - 1 \in 0..Size /\ out \in Int /\ out + (i - 1) = out + i - 1
    BY <1>1, <1>2, SizeAssumption, WrapAssumption DEF Counter
  <2>2. (out + (i - 1)) % Size = After(out, i - 1) BY <1>1, <2>1, PlaceOffset
  <2>3. out % Size \in 0..(Size - 1) BY <1>1, OffsetRange
  <2>4. i - 1 \in Nat /\ i - 1 < Size BY <1>1, <1>2, SizeAssumption
  <2>5. After(out, i - 1) \in Slot BY <2>3, <2>4, SizeAssumption DEF After, Slot
  <2> QED BY <2>1, <2>2, <2>5
<1>4. Contents = [i \in 1..Used |-> buffer[After(out, i - 1)]] BY <1>3 DEF Contents
<1>5. \A i \in 1..Used : buffer[After(out, i - 1)] \in Byte BY <1>1, <1>3
<1>6. Contents \in [1..Used -> Byte] BY <1>4, <1>5
<1>7. Contents \in Seq(Byte) /\ Len(Contents) = Used BY <1>2, <1>6
<1>8. Used \in 0..Size BY <1>1, <1>2, SizeAssumption
<1> QED BY <1>4, <1>7, <1>8 DEF ContentsShape

(* kfifo_put writes the accepted bytes behind the unread ones.             *)
LEMMA PutWrites ==
  ASSUME in \in Counter, out \in Counter, Used <= Size,
         NEW bytes \in Seq(Byte), kfifo_put(bytes),
         NEW k \in Nat, k < Least(Len(bytes), Room)
  PROVE  buffer'[After(out, Used + k)] = bytes[k + 1]
<1> DEFINE n == Least(Len(bytes), Room)
           off == in % Size
           l == Least(n, Size - off)
           s == After(out, Used + k)
<1>1. Used \in Nat /\ Room = Size - Used BY RoomIsTheRest
<1>2. n \in Nat /\ n <= Size - Used /\ k < n BY <1>1, SizeAssumption DEF Least
<1>3. out % Size \in 0..(Size - 1) /\ off \in 0..(Size - 1) BY OffsetRange
<1>4. off = After(out, Used) BY InFollowsOut
<1>5. s \in Slot BY <1>1, <1>2, <1>3, SizeAssumption DEF After, Slot
<1>6. s = IF off + k < Size THEN off + k ELSE off + k - Size
  BY <1>1, <1>2, <1>3, <1>4, SizeAssumption DEF After
<1>7. buffer' = [t \in Slot |->
                  CASE t < n - l -> bytes[l + t + 1]
                    [] t \in off..(off + l - 1) -> bytes[t - off + 1]
                    [] OTHER -> buffer[t]]
  BY DEF kfifo_put
<1>8. l = IF n < Size - off THEN n ELSE Size - off BY DEF Least
<1> HIDE DEF n, off, l, s
<1>9. CASE off + k < Size
  <2>1. s = off + k BY <1>6, <1>9
  <2>2. ~(s < n - l) BY <1>1, <1>2, <1>3, <1>8, <1>9, <2>1, SizeAssumption
  <2>3. s \in off..(off + l - 1) BY <1>2, <1>3, <1>8, <1>9, <2>1, SizeAssumption
  <2>4. buffer'[s] = bytes[s - off + 1] BY <1>5, <1>7, <2>2, <2>3
  <2>5. s - off + 1 = k + 1 BY <1>3, <2>1, SizeAssumption
  <2> QED BY <2>4, <2>5 DEF s
<1>10. CASE ~(off + k < Size)
  <2>1. s = off + k - Size BY <1>6, <1>10
  <2>2. s < n - l /\ l + s + 1 = k + 1
    BY <1>1, <1>2, <1>3, <1>8, <1>10, <2>1, SizeAssumption
  <2>3. s \notin off..(off + l - 1)
    BY <1>1, <1>2, <1>3, <1>10, <2>1, SizeAssumption
  <2>4. buffer'[s] = bytes[l + s + 1] BY <1>5, <1>7, <2>2, <2>3
  <2> QED BY <2>2, <2>4 DEF s
<1> QED BY <1>9, <1>10

LEMMA PutIsPut ==
  ASSUME IInv, ContentsShape, ContentsShape', NEW bytes \in Burst, kfifo_put(bytes)
  PROVE  Queue!Put(bytes)
<1> DEFINE n == Least(Len(bytes), Room)
           head == SubSeq(bytes, 1, n)
<1>1. in \in Counter /\ out \in Counter /\ Used <= Size BY DEF IInv, TypeOK, NeverOverfull
<1>2. bytes \in Seq(Byte) /\ Len(bytes) \in Nat BY BurstIsSequence
<1>3. /\ Used \in 0..Size /\ Contents \in Seq(Byte) /\ Len(Contents) = Used
      /\ \A i \in 1..Used : Contents[i] = buffer[After(out, i - 1)]
  BY DEF ContentsShape
<1>4. Used \in Nat /\ Room = Size - Used BY <1>1, RoomIsTheRest
<1>5. n \in Nat /\ n <= Size - Used /\ n <= Len(bytes)
  BY <1>1, <1>2, <1>4, SizeAssumption DEF Least
<1>6. in' = UAdd(in, n) /\ out' = out /\ got' = got BY DEF kfifo_put, reader
<1>7. Used' = Used + n BY <1>1, <1>4, <1>5, <1>6, PutAdds DEF Used
<1>8. /\ Contents' \in Seq(Byte) /\ Len(Contents') = Used'
      /\ \A i \in 1..Used' : Contents'[i] = buffer'[After(out', i - 1)]
  BY DEF ContentsShape
<1>9. head \in Seq(Byte) /\ Len(head) = n /\ \A i \in 1..n : head[i] = bytes[i]
  <2>1. \A i \in 1..n : bytes[i] \in Byte BY <1>2, <1>5
  <2> QED BY <1>5, <2>1, SubSeqProperties
<1>10. \A i \in 1..Used : buffer'[After(out, i - 1)] = buffer[After(out, i - 1)]
  <2> TAKE i \in 1..Used
  <2>1. i - 1 \in Nat /\ i - 1 < Used BY <1>4
  <2> QED BY <1>1, <1>2, <2>1, PutSparesUnread
<1>11. \A i \in (Used + 1)..(Used + n) : buffer'[After(out, i - 1)] = bytes[i - Used]
  <2> TAKE i \in (Used + 1)..(Used + n)
  <2> DEFINE k == i - Used - 1
  <2>1. k \in Nat /\ k < n /\ Used + k = i - 1 /\ k + 1 = i - Used BY <1>4, <1>5
  <2>2. buffer'[After(out, Used + k)] = bytes[k + 1]
    BY <1>1, <1>2, <2>1, PutWrites
  <2> QED BY <2>1, <2>2
<1> DEFINE old == Contents
           new == Contents'
           all == old \o head
<1>12. /\ all \in Seq(Byte) /\ Len(all) = Used + n
       /\ \A i \in 1..(Used + n) : all[i] = IF i <= Used THEN old[i] ELSE head[i - Used]
  BY <1>3, <1>9, ConcatProperties
<1>13. \A i \in 1..(Used + n) : new[i] = all[i]
  <2> TAKE i \in 1..(Used + n)
  <2>1. i \in 1..Used' /\ out' = out BY <1>6, <1>7
  <2>2. new[i] = buffer'[After(out, i - 1)] BY <1>8, <2>1
  <2>3. CASE i <= Used
    <3>1. i \in 1..Used BY <1>4, <2>3
    <3>2. all[i] = old[i] BY <1>12, <2>3
    <3>3. old[i] = buffer[After(out, i - 1)] BY <1>3, <3>1
    <3>4. buffer'[After(out, i - 1)] = buffer[After(out, i - 1)] BY <1>10, <3>1
    <3> QED BY <2>2, <3>2, <3>3, <3>4
  <2>4. CASE ~(i <= Used)
    <3>1. i \in (Used + 1)..(Used + n) /\ i - Used \in 1..n BY <1>4, <1>5, <2>4
    <3>2. all[i] = head[i - Used] BY <1>12, <2>4
    <3>3. head[i - Used] = bytes[i - Used] BY <1>9, <3>1
    <3>4. buffer'[After(out, i - 1)] = bytes[i - Used] BY <1>11, <3>1
    <3> QED BY <2>2, <3>2, <3>3, <3>4
  <2> QED BY <2>3, <2>4
<1>14. new = all
  <2>1. new \in Seq(Byte) /\ Len(new) = Len(all) BY <1>7, <1>8, <1>12
  <2>2. \A i \in 1..Len(new) : new[i] = all[i] BY <1>7, <1>8, <1>13
  <2> HIDE DEF new, all
  <2> QED BY <1>12, <2>1, <2>2, SeqEqual
<1>15. n = IF Len(bytes) < Size - Len(Contents) THEN Len(bytes) ELSE Size - Len(Contents)
  BY <1>3, <1>4 DEF Least
<1> HIDE DEF n
<1> QED BY <1>6, <1>14, <1>15 DEF Queue!Put

(* The get takes effect when out moves: it delivers the bytes it claimed,  *)
(* which were the oldest.                                                  *)
LEMMA CommitIsGet ==
  ASSUME IInv, ContentsShape, ContentsShape', GetCommit
  PROVE  len \in 0..Size /\ Queue!Get(len)
<1>1. /\ in \in Counter /\ out \in Counter /\ len \in Nat /\ len <= Used /\ Used <= Size
      /\ dst \in Seq(Byte) /\ Len(dst) = len
      /\ \A k \in 1..Len(dst) : dst[k] = buffer[SourceSlot(k - 1)]
  BY BoundAssumption DEF IInv, TypeOK, NeverOverfull, CopyIsIntact, GetCommit
<1>2. /\ Used \in 0..Size /\ Contents \in Seq(Byte) /\ Len(Contents) = Used
      /\ \A i \in 1..Used : Contents[i] = buffer[After(out, i - 1)]
  BY DEF ContentsShape
<1>3. /\ Contents' \in Seq(Byte) /\ Len(Contents') = Used'
      /\ \A i \in 1..Used' : Contents'[i] = buffer'[After(out', i - 1)]
  BY DEF ContentsShape
<1>4. out' = UAdd(out, len) /\ got' = dst /\ in' = in /\ buffer' = buffer BY DEF GetCommit
<1>5. Used \in Nat /\ Used <= Size /\ Used' = Used - len
  BY <1>1, <1>2, <1>4, GetTakes, SizeAssumption DEF Used
<1> DEFINE old == Contents
           new == Contents'
           front == SubSeq(old, 1, len)
           rest == SubSeq(old, len + 1, Used)
<1>6. front \in Seq(Byte) /\ Len(front) = len /\ \A i \in 1..len : front[i] = old[i]
  <2>1. \A i \in 1..len : old[i] \in Byte BY <1>1, <1>2, <1>5
  <2> HIDE DEF old
  <2> QED BY <1>1, <2>1, SubSeqProperties
<1>7. /\ rest \in Seq(Byte) /\ Len(rest) = Used - len
      /\ \A i \in 1..(Used - len) : rest[i] = old[len + i]
  <2>1. \A i \in (len + 1)..Used : old[i] \in Byte BY <1>1, <1>2, <1>5
  <2> DEFINE m == len + 1
             u == Used
  <2>2. m \in Int /\ u \in Int /\ u - m + 1 = u - len /\ (m <= u <=> u - len >= 1)
    BY <1>1, <1>5
  <2>3. \A i \in 1..(u - len) : m + i - 1 = len + i BY <1>1, <1>5
  <2> HIDE DEF old, m, u
  <2>4. /\ SubSeq(old, m, u) \in Seq(Byte)
        /\ Len(SubSeq(old, m, u)) = IF m <= u THEN u - m + 1 ELSE 0
        /\ \A i \in 1..(u - m + 1) : SubSeq(old, m, u)[i] = old[m + i - 1]
    BY <2>1, <2>2, SubSeqProperties DEF m, u
  <2>5. u - len \in Nat BY <1>1, <1>5 DEF u
  <2>6. Len(SubSeq(old, m, u)) = u - len BY <2>2, <2>4, <2>5
  <2> QED BY <2>2, <2>3, <2>4, <2>6 DEF m, u
<1>8. dst = front
  <2>1. \A i \in 1..len : dst[i] = front[i]
    <3> TAKE i \in 1..len
    <3>1. i \in 1..Used /\ i - 1 \in Nat /\ i - 1 < len /\ len <= Size
      BY <1>1, <1>5, SizeAssumption
    <3>2. SourceSlot(i - 1) = After(out, i - 1) BY <1>1, <3>1, SourceSlotIs
    <3>3. dst[i] = buffer[SourceSlot(i - 1)] BY <1>1
    <3>4. old[i] = buffer[After(out, i - 1)] BY <1>2, <3>1
    <3> QED BY <1>6, <3>2, <3>3, <3>4
  <2> HIDE DEF front
  <2> QED BY <1>1, <1>6, <2>1, SeqEqual
<1>9. new = rest
  <2>1. \A i \in 1..(Used - len) : new[i] = rest[i]
    <3> TAKE i \in 1..(Used - len)
    <3>1. i \in 1..Used' /\ len + i \in 1..Used BY <1>1, <1>5
    <3>2. new[i] = buffer[After(UAdd(out, len), i - 1)] BY <1>3, <1>4, <3>1
    <3>3. i - 1 \in Nat /\ len + (i - 1) < Size /\ len + (i - 1) = (len + i) - 1
      BY <1>1, <1>5, SizeAssumption
    <3>4. After(UAdd(out, len), i - 1) = After(out, (len + i) - 1)
      BY <1>1, <3>3, AfterAfter
    <3>5. old[len + i] = buffer[After(out, (len + i) - 1)] BY <1>2, <3>1
    <3>6. rest[i] = old[len + i] BY <1>7
    <3> QED BY <3>2, <3>4, <3>5, <3>6
  <2>2. new \in Seq(Byte) /\ Len(new) = Used - len BY <1>3, <1>5
  <2> HIDE DEF new, rest
  <2> QED BY <1>7, <2>1, <2>2, SeqEqual
<1>10. len \in 0..Size /\ len <= Len(Contents) BY <1>1, <1>2, <1>5, SizeAssumption
<1>11. got' = front /\ Contents' = SubSeq(Contents, len + 1, Len(Contents))
  BY <1>2, <1>4, <1>8, <1>9
<1> QED BY <1>10, <1>11 DEF Queue!Get

LEMMA SameContents ==
  ASSUME UNCHANGED <<in, out, buffer>>
  PROVE  Contents' = Contents
BY DEF Contents, Used

(* kfifo.c is a queue, for every size, whatever the handler does between   *)
(* two accesses of the reader: what was accepted comes out once, in order, *)
(* and bytes are refused only for lack of room.                            *)
THEOREM RingIsAQueue == Spec => ImplementsByteQueue
<1>1. Init => Queue!Init
  <2> SUFFICES ASSUME Init PROVE Contents = << >> /\ got = << >> BY DEF Queue!Init
  <2>1. Used = 0 BY DEF Init, Used, USub
  <2>2. Contents = [i \in 1..0 |-> buffer[(out + i - 1) % Size]] BY <2>1 DEF Contents
  <2>3. 1..0 = {} OBVIOUS
  <2> QED BY <2>2, <2>3 DEF Init
<1>2. IInv => ContentsShape BY ContentsHaveShape DEF IInv
<1>3. IInv /\ ContentsShape /\ ContentsShape' /\ [Next]_fifoVars => [Queue!Next]_(Queue!vars)
  <2> SUFFICES ASSUME IInv, ContentsShape, ContentsShape', [Next]_fifoVars
               PROVE  Queue!Next \/ UNCHANGED <<Contents, got>>
    BY DEF Queue!vars
  <2>1. ASSUME NEW bytes \in Burst, kfifo_put(bytes) PROVE Queue!Next
    BY <2>1, PutIsPut DEF Queue!Next, Queue!Burst, Burst
  <2>2. ASSUME NEW want \in 0..MaxGet, GetBegin(want) PROVE UNCHANGED <<Contents, got>>
    BY <2>2, SameContents DEF GetBegin, ring
  <2>3. CASE GetCopyByte BY <2>3, SameContents DEF GetCopyByte, ring
  <2>4. CASE GetCommit BY <2>4, CommitIsGet DEF Queue!Next
  <2>5. CASE UNCHANGED fifoVars BY <2>5, SameContents DEF fifoVars, ring, reader
  <2> QED BY <2>1, <2>2, <2>3, <2>4, <2>5 DEF Next
<1> QED BY <1>1, <1>2, <1>3, InvariantHolds, PTL DEF Spec, Queue!Spec, ImplementsByteQueue
==============================================================================
