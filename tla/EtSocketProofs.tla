--------------------------- MODULE EtSocketProofs ----------------------------
(***************************************************************************)
(* Two safety results about the socket layer, for any number of tasks and  *)
(* any length of stream: partial sends and misread errors leave the bytes  *)
(* in order, and only another task's call can make a healthy connection    *)
(* look dead to a sender.                                                  *)
(*                                                                         *)
(* Both invariants look at the ends of a call.  They are inductive with    *)
(* what holds inside one: between the send and the SDK's taking note of it *)
(* the stack is ahead of sent by the result, unless the connection is lost *)
(* with a part of a blocked send (InCall), and until another task disturbs *)
(* it errno is what the task's own send wrote (OwnErrno).                  *)
(***************************************************************************)
EXTENDS EtSocket, TLAPS, SequenceTheorems

Reporting == {"testSend", "sendDone"}

Ordered == \A t \in Task : \A i \in 1..Len(stack[t]) : stack[t][i] = i
InCall ==
  \A t \in Task :
    /\ pc[t] \notin Reporting \cup {"blocked", "close"} =>
         link[t] = "reset" \/ Len(stack[t]) = sent[t]
    /\ pc[t] = "blocked" =>
         rc[t] \in 0..Rest(t) /\ Len(stack[t]) = sent[t] + rc[t]
    /\ pc[t] \in Reporting =>
         \/ link[t] = "reset" /\ rc[t] <= 0
         \/ Len(stack[t]) = sent[t] + (IF rc[t] > 0 THEN rc[t] ELSE 0)

OwnErrno ==
  \A t \in Task :
    /\ pc[t] = "testSend" => errno = own[t] \/ t \in disturbed
    /\ pc[t] = "testSend" /\ rc[t] < 0 => own[t] \in Benign \/ Dead(t)
    /\ pc[t] = "testRecv" /\ rc[t] < 0 => own[t] = "ENOMEM" \/ Dead(t)

IInv == TypeOK /\ Ordered /\ InCall /\ OwnErrno /\ HealthyIsKept

USE DEF connection

LEMMA InitHolds == Init => IInv
<1> SUFFICES ASSUME Init PROVE IInv OBVIOUS
<1>1. TypeOK
  BY MaxOutAssumption, MaxInAssumption, EmptySeq
     DEF Init, TypeOK, Live, Label, Errno, Benign
<1>2. Ordered /\ InCall
  BY EmptySeq DEF Init, Ordered, InCall, Reporting, Rest
<1>3. OwnErrno /\ HealthyIsKept
  BY DEF Init, OwnErrno, HealthyIsKept, At
<1> QED BY <1>1, <1>2, <1>3 DEF IInv

(* The first bytes of a stream that has MaxOut bytes are at most MaxOut.   *)
LEMMA OrderedIsShort ==
  ASSUME TypeOK, Ordered, NEW t \in Task
  PROVE  Len(stack[t]) \in 0..MaxOut
<1>1. stack[t] \in Seq(1..MaxOut) BY DEF TypeOK
<1>2. Len(stack[t]) \in Nat BY <1>1, LenProperties
<1>3. CASE Len(stack[t]) = 0 BY <1>3, MaxOutAssumption
<1>4. CASE Len(stack[t]) # 0
  <2>1. Len(stack[t]) \in 1..Len(stack[t]) BY <1>2, <1>4
  <2>2. stack[t][Len(stack[t])] \in 1..MaxOut BY <1>1, <2>1, ElementOfSeq
  <2>3. stack[t][Len(stack[t])] = Len(stack[t]) BY <2>1 DEF Ordered
  <2> QED BY <2>2, <2>3, MaxOutAssumption
<1> QED BY <1>3, <1>4

(* What lwIP holds after it has taken n bytes more than the k it took of   *)
(* this buffer before.                                                     *)
LEMMA Appended ==
  ASSUME TypeOK, Ordered, NEW t \in Task, NEW k \in Nat, NEW n \in Nat,
         Len(stack[t]) = sent[t] + k, k + n <= Rest(t)
  PROVE  LET s == stack[t] \o [i \in 1..n |-> sent[t] + k + i]
         IN  /\ s \in Seq(1..MaxOut) /\ Len(s) = sent[t] + k + n
             /\ \A i \in 1..Len(s) : s[i] = i
<1> DEFINE l == sent[t] + k
           more == [i \in 1..n |-> l + i]
           s == stack[t] \o more
<1>1. /\ stack[t] \in Seq(1..MaxOut) /\ l \in Nat /\ Len(stack[t]) = l
      /\ MaxOut \in Nat /\ l + n <= MaxOut
  BY MaxOutAssumption DEF TypeOK, Rest
<1> HIDE DEF l
<1>2. \A i \in 1..n : l + i \in 1..MaxOut BY <1>1
<1>3. more \in Seq(1..MaxOut) /\ Len(more) = n BY <1>1, <1>2
<1>4. /\ s \in Seq(1..MaxOut) /\ Len(s) = l + n
      /\ \A i \in 1..(l + n) : s[i] = IF i <= l THEN stack[t][i] ELSE more[i - l]
  <2> HIDE DEF more
  <2>1. \A a, b \in Seq(1..MaxOut) :
          /\ a \o b \in Seq(1..MaxOut) /\ Len(a \o b) = Len(a) + Len(b)
          /\ \A i \in 1..(Len(a) + Len(b)) :
               (a \o b)[i] = IF i <= Len(a) THEN a[i] ELSE b[i - Len(a)]
    BY ConcatProperties
  <2>2. /\ s \in Seq(1..MaxOut) /\ Len(s) = Len(stack[t]) + Len(more)
        /\ \A i \in 1..(Len(stack[t]) + Len(more)) :
             s[i] = IF i <= Len(stack[t]) THEN stack[t][i] ELSE more[i - Len(stack[t])]
    BY <1>1, <1>3, <2>1, Zenon
  <2>3. Len(stack[t]) = l /\ Len(more) = n BY <1>1, <1>3
  <2> HIDE DEF s
  <2> QED BY <2>2, <2>3
<1>5. ASSUME NEW i \in 1..Len(s) PROVE s[i] = i
  <2>1. CASE i <= l
    <3>1. i \in 1..Len(stack[t]) BY <2>1, <1>1, <1>4
    <3> QED BY <3>1, <2>1, <1>4 DEF Ordered
  <2>2. CASE ~(i <= l)
    <3>1. i - l \in 1..n
      <4>1. i \in 1..(l + n) BY <1>4
      <4> HIDE DEF more, s
      <4> QED BY <4>1, <1>1, <2>2
    <3>2. s[i] = more[i - l]
      <4> HIDE DEF more, s
      <4> QED BY <2>2, <1>4
    <3>3. more[i - l] = l + (i - l) BY <3>1
    <3>4. i \in Int /\ l \in Int BY <1>1, <1>4
    <3>5. l + (i - l) = i BY <3>4
    <3> QED
      <4> HIDE DEF more, s
      <4> QED BY <3>2, <3>3, <3>5
  <2> QED BY <2>1, <2>2
<1>6. l + n = sent[t] + k + n /\ more = [i \in 1..n |-> sent[t] + k + i] BY DEF l
<1> QED
  <2> HIDE DEF more
  <2> QED BY <1>4, <1>5, <1>6

LEMMA TakesHolds ==
  ASSUME TypeOK, Ordered, UNCHANGED sent,
         NEW t \in Task, NEW k \in Nat, NEW n \in Nat, NEW m \in Nat,
         Len(stack[t]) = sent[t] + k, m = k + n, m <= Rest(t), Takes(t, k, n)
  PROVE  /\ stack' \in [Task -> Seq(1..MaxOut)] /\ Ordered'
         /\ Len(stack'[t]) = sent[t] + m
         /\ \A u \in Task \ {t} : stack'[u] = stack[u]
         /\ rc' = [rc EXCEPT ![t] = m] /\ rc' \in [Task -> Int]
<1>1. PICK s \in Seq(1..MaxOut) :
        /\ Len(s) = sent[t] + k + n /\ \A i \in 1..Len(s) : s[i] = i
        /\ stack' = [stack EXCEPT ![t] = s]
  BY Appended DEF Takes
<1>2. stack \in [Task -> Seq(1..MaxOut)] BY DEF TypeOK
<1>3. Ordered' BY <1>1, <1>2 DEF Ordered
<1>4. rc' = [rc EXCEPT ![t] = m] BY DEF Takes, Result
<1>5. rc' \in [Task -> Int] BY <1>4 DEF TypeOK
<1>6. sent[t] + k + n = sent[t] + m
  <2>1. sent[t] \in Nat BY MaxOutAssumption DEF TypeOK
  <2> QED BY <2>1
<1> QED BY <1>1, <1>2, <1>3, <1>4, <1>5, <1>6

(* The network changes a link, never away from "reset", or adds a byte.    *)
LEMMA NetworkHolds ==
  ASSUME IInv, NEW t \in Task, Network(t)
  PROVE  IInv'
<1> USE DEF IInv
<1>1. /\ UNCHANGED <<eof, stack, sent, errno, pc, rc, own, disturbed>>
      /\ sendevent' = sendevent \/ sendevent' = [sendevent EXCEPT ![t] = TRUE]
      /\ \/ link' = link /\ unread' = unread
         \/ link' = link /\ unread' = [unread EXCEPT ![t] = @ + 1] /\ unread[t] < MaxIn
         \/ /\ unread' = unread /\ link[t] \notin {"none", "reset"}
            /\ \E l \in {"reset"} \cup Live : link' = [link EXCEPT ![t] = l]
  BY DEF Network, Answered, Lost, Refused, PeerCloses, PeerVanishes, PeerResets,
         KeepAlive, PeerSends, SpaceReturns, Writable, LinkBecomes, Live
<1>2. link' \in [Task -> {"none", "dialing", "reset"} \cup Live] BY <1>1 DEF TypeOK, Live
<1>3. unread' \in [Task -> 0..MaxIn]
  <2>1. CASE unread' = unread BY <2>1 DEF TypeOK
  <2>2. CASE unread' = [unread EXCEPT ![t] = @ + 1] /\ unread[t] < MaxIn
    <3>1. unread \in [Task -> 0..MaxIn] BY DEF TypeOK
    <3>2. unread[t] + 1 \in 0..MaxIn BY <2>2, <3>1, MaxInAssumption
    <3> QED BY <2>2, <3>1, <3>2
  <2> QED BY <1>1, <2>1, <2>2
<1>4. sendevent' \in [Task -> BOOLEAN] BY <1>1 DEF TypeOK
<1>5. TypeOK' BY <1>1, <1>2, <1>3, <1>4 DEF TypeOK
<1>6. \A u \in Task : link[u] = "reset" => link'[u] = "reset" BY <1>1 DEF TypeOK
<1>7. Ordered' /\ InCall' BY <1>1, <1>6 DEF Ordered, InCall, Rest
<1>8. \A u \in Task : Dead(u) => Dead(u)' BY <1>1, <1>6 DEF Dead
<1>9. OwnErrno' BY <1>1, <1>8 DEF OwnErrno
<1>10. HealthyIsKept' BY <1>1, <1>8 DEF HealthyIsKept, At
<1> QED BY <1>5, <1>7, <1>9, <1>10

(* A task's own call writes errno, and disturbs those about to read it.    *)
LEMMA ErrnoIsNoted ==
  ASSUME TypeOK, NEW t \in Task, NEW e \in Errno, set_errno(t, e)
  PROVE  /\ errno' \in Errno /\ own' \in [Task -> Errno] /\ disturbed' \subseteq Task
         /\ errno' = e /\ own'[t] = IF pc[t] \in Asking THEN e ELSE "none"
         /\ \A u \in Task \ {t} :
              /\ own'[u] = own[u]
              /\ u \in disturbed => u \in disturbed'
              /\ pc[u] = "testSend" => u \in disturbed'
BY DEF TypeOK, set_errno, Testing, Errno, Benign

(* Calls that neither send nor receive leave the streams alone.            *)
LEMMA ConnectHolds ==
  ASSUME IInv, NEW t \in Task, Connect(t) \/ SelectConnect(t) \/ Accept(t)
  PROVE  IInv'
<1> USE DEF IInv, At, Goto
<1>1. CASE Connect(t)
  <2>1. "EINPROGRESS" \in Errno BY DEF Errno, Benign
  <2>2. set_errno(t, "EINPROGRESS") BY <1>1 DEF Connect
  <2>3. TypeOK'
    <3>1. link' \in [Task -> {"none", "dialing", "reset"} \cup Live] BY <1>1 DEF TypeOK, Connect
    <3>2. pc' \in [Task -> Label] BY <1>1 DEF TypeOK, Connect, Label
    <3>3. UNCHANGED <<eof, unread, stack, sendevent, sent, rc>> BY <1>1 DEF Connect
    <3> QED BY <2>1, <2>2, <3>1, <3>2, <3>3, ErrnoIsNoted DEF TypeOK
  <2>4. Ordered' /\ InCall' BY <1>1 DEF TypeOK, Connect, Ordered, InCall, Reporting, Rest
  <2>5. OwnErrno' BY <1>1, <2>1, <2>2, ErrnoIsNoted DEF TypeOK, Connect, OwnErrno, Dead
  <2>6. HealthyIsKept' BY <1>1, <2>1, <2>2, ErrnoIsNoted DEF TypeOK, Connect, HealthyIsKept, Dead
  <2> QED BY <2>3, <2>4, <2>5, <2>6
<1>2. CASE SelectConnect(t)
  <2>1. PICK e \in Errno : set_errno(t, e) BY <1>2 DEF SelectConnect, Errno, Benign
  <2>2. /\ pc[t] = "selectConnect" /\ UNCHANGED <<connection, sent, rc>>
        /\ \E l \in {"idle", "close"} : pc' = [pc EXCEPT ![t] = l]
    BY <1>2 DEF SelectConnect
  <2>3. TypeOK'
    <3>1. pc' \in [Task -> Label] BY <2>2 DEF TypeOK, Label
    <3> QED BY <2>1, <2>2, <3>1, ErrnoIsNoted DEF TypeOK
  <2>4. Ordered' /\ InCall' BY <2>2 DEF TypeOK, Ordered, InCall, Reporting, Rest
  <2>5. OwnErrno' BY <2>1, <2>2, ErrnoIsNoted DEF TypeOK, OwnErrno, Dead
  <2>6. HealthyIsKept' BY <2>1, <2>2, ErrnoIsNoted DEF TypeOK, HealthyIsKept, Dead
  <2> QED BY <2>3, <2>4, <2>5, <2>6
<1>3. CASE Accept(t)
  <2>1. PICK e \in Errno : set_errno(t, e) BY <1>3 DEF Accept, Errno, Benign
  <2>2. /\ pc[t] = "idle" /\ link[t] = "none"
        /\ UNCHANGED <<eof, unread, stack, sent, pc, rc>>
        /\ link' = [link EXCEPT ![t] = "up"] \/ link' = link
        /\ sendevent' = [sendevent EXCEPT ![t] = TRUE] \/ sendevent' = sendevent
    BY <1>3 DEF Accept, Writable
  <2>3. TypeOK'
    <3>1. link' \in [Task -> {"none", "dialing", "reset"} \cup Live] BY <2>2 DEF TypeOK, Live
    <3>2. sendevent' \in [Task -> BOOLEAN] BY <2>2 DEF TypeOK
    <3> QED BY <2>1, <2>2, <3>1, <3>2, ErrnoIsNoted DEF TypeOK
  <2>4. Ordered' /\ InCall' BY <2>2 DEF TypeOK, Ordered, InCall, Reporting, Rest
  <2>5. OwnErrno' BY <2>1, <2>2, ErrnoIsNoted DEF TypeOK, OwnErrno, Dead
  <2>6. HealthyIsKept' BY <2>1, <2>2, ErrnoIsNoted DEF TypeOK, HealthyIsKept, Dead
  <2> QED BY <2>3, <2>4, <2>5, <2>6
<1> QED BY <1>1, <1>2, <1>3

(* select, and the beginning of a call: the result is 0 or -1, and a send  *)
(* that failed here failed for want of memory.                             *)
LEMMA SelectHolds ==
  ASSUME IInv, NEW t \in Task,
         \/ StartSend(t) \/ StartRecv(t) \/ SelectSend(t) \/ SelectRecv(t)
  PROVE  IInv'
<1> USE DEF IInv, At
<1>1. CASE StartSend(t) \/ StartRecv(t)
  <2>1. /\ pc[t] = "idle" /\ UNCHANGED <<connection, sent, errno, rc, own, disturbed>>
        /\ \E l \in {"selectSend", "selectRecv"} : pc' = [pc EXCEPT ![t] = l]
    BY <1>1 DEF StartSend, StartRecv, Start, Goto
  <2>2. pc' \in [Task -> Label] BY <2>1 DEF TypeOK, Label
  <2>3. TypeOK' BY <2>1, <2>2 DEF TypeOK
  <2>4. Ordered' /\ InCall' BY <2>1 DEF TypeOK, Ordered, InCall, Reporting, Rest
  <2>5. OwnErrno' BY <2>1 DEF TypeOK, OwnErrno, Dead
  <2>6. HealthyIsKept' BY <2>1 DEF TypeOK, HealthyIsKept, Dead
  <2> QED BY <2>3, <2>4, <2>5, <2>6
<1>2. CASE SelectSend(t) \/ SelectRecv(t)
  <2>1. PICK e \in {"none", "ENOMEM"}, n \in Int,
             l \in {"send", "recv", "testSend", "testRecv"} :
          /\ set_errno(t, e) /\ pc[t] \in {"selectSend", "selectRecv"}
          /\ UNCHANGED <<connection, sent>>
          /\ rc' = [rc EXCEPT ![t] = n] /\ pc' = [pc EXCEPT ![t] = l]
          /\ l \in {"testSend", "testRecv"} =>
               n \in {0, -1} /\ (n = -1 => e = "ENOMEM")
    <3>1. rc[t] \in Int /\ rc = [rc EXCEPT ![t] = rc[t]] BY DEF TypeOK
    <3>2. CASE SelectSend(t)
      BY <3>1, <3>2 DEF SelectSend, Select, Goto, Result
    <3>3. CASE SelectRecv(t)
      BY <3>1, <3>3 DEF SelectRecv, Select, Goto, Result
    <3> QED BY <1>2, <3>2, <3>3
  <2>2. e \in Errno /\ e \in Benign BY DEF Errno, Benign
  <2>3. pc' \in [Task -> Label] BY <2>1 DEF TypeOK, Label
  <2>4. rc' \in [Task -> Int] BY <2>1 DEF TypeOK
  <2>5. TypeOK' BY <2>1, <2>2, <2>3, <2>4, ErrnoIsNoted DEF TypeOK
  <2>6. Ordered' /\ InCall'
    <3>1. Ordered' BY <2>1 DEF Ordered
    <3>2. link[t] = "reset" \/ Len(stack[t]) = sent[t] BY <2>1 DEF InCall, Reporting
    <3>3. sent[t] \in Int /\ (l \in Reporting => n <= 0 /\ (IF n > 0 THEN n ELSE 0) = 0)
      BY <2>1 DEF TypeOK, Reporting
    <3>4. InCall' BY <2>1, <3>2, <3>3 DEF TypeOK, InCall, Reporting, Rest
    <3> QED BY <3>1, <3>4
  <2>7. \A u \in Task : Dead(u)' = Dead(u) BY <2>1 DEF Dead
  <2>8. OwnErrno'
    BY <2>1, <2>2, <2>7, ErrnoIsNoted DEF TypeOK, OwnErrno, Asking
  <2>9. HealthyIsKept' BY <2>1, <2>2, <2>7, ErrnoIsNoted DEF TypeOK, HealthyIsKept
  <2> QED BY <2>5, <2>6, <2>8, <2>9
<1> QED BY <1>1, <1>2

(* A call of lwIP that gave a result: what it owes to the invariant if it  *)
(* wrote errno and went on to the look at it.                              *)
LEMMA Reports ==
  ASSUME IInv, NEW t \in Task, NEW e \in Errno, NEW n \in Int,
         UNCHANGED <<link, eof, unread, sent>>, sendevent' \in [Task -> BOOLEAN],
         stack' \in [Task -> Seq(1..MaxOut)], Ordered',
         \A u \in Task \ {t} : stack'[u] = stack[u],
         pc[t] \in {"send", "blocked"}, pc' = [pc EXCEPT ![t] = "testSend"],
         rc' = [rc EXCEPT ![t] = n], set_errno(t, e),
         \/ link[t] = "reset" /\ n < 0
         \/ n < 0 /\ Len(stack'[t]) = sent[t]
         \/ n >= 0 /\ Len(stack'[t]) = sent[t] + n,
         n < 0 => e \in Benign \/ Dead(t)
  PROVE  IInv'
<1> USE DEF IInv, At
<1>1. pc' \in [Task -> Label] BY DEF TypeOK, Label
<1>2. rc' \in [Task -> Int] BY DEF TypeOK
<1>3. TypeOK' BY <1>1, <1>2, ErrnoIsNoted DEF TypeOK
<1>4. \A u \in Task : Dead(u)' = Dead(u) BY DEF Dead
<1>5. InCall'
  <2>1. sent[t] \in Nat /\ rc'[t] = n BY MaxOutAssumption DEF TypeOK
  <2>2. \/ link[t] = "reset" /\ rc'[t] <= 0
        \/ Len(stack'[t]) = sent[t] + (IF rc'[t] > 0 THEN rc'[t] ELSE 0)
    BY <2>1
  <2> QED BY <2>2 DEF TypeOK, InCall, Reporting, Rest
<1>6. OwnErrno' BY <1>4, ErrnoIsNoted DEF TypeOK, OwnErrno, Asking
<1>7. HealthyIsKept' BY <1>4, ErrnoIsNoted DEF TypeOK, HealthyIsKept
<1> QED BY <1>3, <1>5, <1>6, <1>7

LEMMA SendHolds ==
  ASSUME IInv, NEW t \in Task, Send(t)
  PROVE  IInv'
<1> USE DEF IInv, At
<1>1. pc[t] = "send" /\ UNCHANGED <<link, eof, unread, sent>> BY DEF Send
<1>2. link[t] = "reset" \/ Len(stack[t]) = sent[t] BY <1>1 DEF InCall, Reporting
<1>3. sent[t] \in Nat /\ MaxOut \in Nat /\ Rest(t) \in Nat
  BY MaxOutAssumption DEF TypeOK, Rest
<1>4. MayBeFull(t) \/ Full(t) \/ UNCHANGED sendevent => sendevent' \in [Task -> BOOLEAN]
  BY DEF MayBeFull, Full, TypeOK
<1>5. stack \in [Task -> Seq(1..MaxOut)] BY DEF TypeOK
<1>6. {"none", "ECONNRESET", "ENOTCONN", "ENOMEM"} \subseteq Errno /\ "ENOMEM" \in Benign
  BY DEF Errno, Benign
<1>7. CASE SendFails(t)
  <2>1. PICK e \in {"ECONNRESET", "ENOTCONN"} :
          /\ set_errno(t, e) /\ rc' = [rc EXCEPT ![t] = -1] /\ Dead(t)
          /\ UNCHANGED <<stack, sendevent>> /\ pc' = [pc EXCEPT ![t] = "testSend"]
    BY <1>7 DEF SendFails, Fails, Result, Dead, Goto
  <2>2. Ordered' BY <2>1 DEF Ordered
  <2>3. link[t] = "reset" \/ Len(stack'[t]) = sent[t] BY <1>2, <2>1
  <2>4. -1 \in Int /\ -1 < 0 OBVIOUS
  <2> QED BY <1>1, <1>4, <1>5, <1>6, <2>1, <2>2, <2>3, <2>4, Reports
<1>8. CASE link[t] # "reset" /\ SendWithoutBlocking(t)
  <2>1. Len(stack[t]) = sent[t] + 0 BY <1>2, <1>3, <1>8
  <2>2. CASE \E n \in 1..Rest(t) : Takes(t, 0, n) /\ (MayBeFull(t) \/ Full(t)) /\ set_errno(t, "none")
    <3>1. PICK n \in 1..Rest(t) : Takes(t, 0, n) /\ (MayBeFull(t) \/ Full(t)) /\ set_errno(t, "none")
      BY <2>2
    <3>2. n \in Nat /\ 0 \in Nat /\ n = 0 + n /\ n <= Rest(t) BY <1>3
    <3>3. /\ stack' \in [Task -> Seq(1..MaxOut)] /\ Ordered'
          /\ Len(stack'[t]) = sent[t] + n
          /\ \A u \in Task \ {t} : stack'[u] = stack[u]
          /\ rc' = [rc EXCEPT ![t] = n]
      BY <1>1, <2>1, <3>1, <3>2, TakesHolds
    <3>4. pc' = [pc EXCEPT ![t] = "testSend"] BY <1>8 DEF SendWithoutBlocking, Goto
    <3>5. n \in Int /\ n >= 0 /\ ~(n < 0) BY <3>2
    <3> QED BY <1>1, <1>4, <1>6, <3>1, <3>3, <3>4, <3>5, Reports
  <2>3. CASE Fails(t, "ENOMEM") /\ MayBeFull(t) /\ UNCHANGED stack
    <3>1. /\ set_errno(t, "ENOMEM") /\ rc' = [rc EXCEPT ![t] = -1]
          /\ pc' = [pc EXCEPT ![t] = "testSend"]
      BY <1>8, <2>3 DEF Fails, Result, SendWithoutBlocking, Goto
    <3>2. Ordered' BY <2>3 DEF Ordered
    <3>3. Len(stack'[t]) = sent[t] BY <2>1, <2>3, <1>3
    <3>4. -1 \in Int /\ -1 < 0 OBVIOUS
    <3> QED BY <1>1, <1>4, <1>5, <1>6, <2>3, <3>1, <3>2, <3>3, <3>4, Reports
  <2> QED BY <1>8, <2>2, <2>3 DEF SendWithoutBlocking
<1>9. CASE link[t] # "reset" /\ SendBlocking(t)
  <2>1. Len(stack[t]) = sent[t] + 0 BY <1>2, <1>3, <1>9
  <2>2. sendevent' \in [Task -> BOOLEAN] BY <1>4, <1>9 DEF SendBlocking
  <2>3. PICK n \in 0..Rest(t) :
          /\ Takes(t, 0, n)
          /\ \/ set_errno(t, "none") /\ pc' = [pc EXCEPT ![t] = "testSend"]
             \/ SameErrno /\ pc' = [pc EXCEPT ![t] = "blocked"]
    BY <1>3, <1>9 DEF SendBlocking, Goto
  <2>4. n \in Nat /\ 0 \in Nat /\ n = 0 + n /\ n <= Rest(t) BY <1>3
  <2>5. /\ stack' \in [Task -> Seq(1..MaxOut)] /\ Ordered'
        /\ Len(stack'[t]) = sent[t] + n
        /\ \A u \in Task \ {t} : stack'[u] = stack[u]
        /\ rc' = [rc EXCEPT ![t] = n] /\ rc' \in [Task -> Int]
    BY <1>1, <2>1, <2>3, <2>4, TakesHolds
  <2>6. n \in Int /\ n >= 0 /\ ~(n < 0) BY <2>4
  <2>7. CASE set_errno(t, "none") /\ pc' = [pc EXCEPT ![t] = "testSend"]
    BY <1>1, <1>6, <2>2, <2>5, <2>6, <2>7, Reports
  <2>8. CASE SameErrno /\ pc' = [pc EXCEPT ![t] = "blocked"]
    <3>1. pc' \in [Task -> Label] BY <2>8 DEF TypeOK, Label
    <3>2. TypeOK' BY <1>1, <2>2, <2>5, <2>8, <3>1 DEF TypeOK, SameErrno
    <3>3. InCall' BY <1>1, <2>3, <2>5, <2>8 DEF TypeOK, InCall, Reporting, Rest
    <3>4. \A u \in Task : Dead(u)' = Dead(u) BY <1>1 DEF Dead
    <3>5. OwnErrno' BY <1>1, <2>5, <2>8, <3>4 DEF TypeOK, OwnErrno, SameErrno
    <3>6. HealthyIsKept' BY <1>1, <2>5, <2>8, <3>4 DEF TypeOK, HealthyIsKept, SameErrno
    <3> QED BY <2>5, <3>2, <3>3, <3>5, <3>6
  <2> QED BY <2>3, <2>7, <2>8
<1> QED BY <1>7, <1>8, <1>9 DEF Send

(* A blocked send has given lwIP a part of the buffer: the rest follows, or *)
(* the connection is lost.                                                 *)
LEMMA BlockedHolds ==
  ASSUME IInv, NEW t \in Task, Unblocked(t) \/ BlockedFails(t)
  PROVE  IInv'
<1> USE DEF IInv, At
<1>1. /\ pc[t] = "blocked" /\ pc' = [pc EXCEPT ![t] = "testSend"]
      /\ UNCHANGED <<link, eof, unread, sent>>
  BY DEF Unblocked, BlockedFails, Goto
<1>2. rc[t] \in 0..Rest(t) /\ Len(stack[t]) = sent[t] + rc[t] BY <1>1 DEF InCall
<1>3. sent[t] \in Nat /\ MaxOut \in Nat /\ Rest(t) \in Nat
  BY MaxOutAssumption DEF TypeOK, Rest
<1>4. "none" \in Errno /\ "ECONNRESET" \in Errno BY DEF Errno, Benign
<1>5. CASE Unblocked(t)
  <2>1. Takes(t, rc[t], Rest(t) - rc[t]) /\ MayBeFull(t) /\ set_errno(t, "none")
    BY <1>5 DEF Unblocked
  <2>2. sendevent' \in [Task -> BOOLEAN] BY <2>1 DEF MayBeFull, Full, TypeOK
  <2>3. rc[t] \in Nat /\ Rest(t) - rc[t] \in Nat /\ rc[t] + (Rest(t) - rc[t]) = Rest(t)
    BY <1>2, <1>3
  <2>4. /\ stack' \in [Task -> Seq(1..MaxOut)] /\ Ordered'
        /\ Len(stack'[t]) = sent[t] + Rest(t)
        /\ \A u \in Task \ {t} : stack'[u] = stack[u]
        /\ rc' = [rc EXCEPT ![t] = Rest(t)]
    <3>1. Rest(t) <= Rest(t) /\ Rest(t) = rc[t] + (Rest(t) - rc[t]) BY <1>3, <2>3
    <3> QED BY <1>1, <1>2, <1>3, <2>1, <2>3, <3>1, TakesHolds
  <2>5. Rest(t) \in Int /\ Rest(t) >= 0 /\ ~(Rest(t) < 0) BY <1>3
  <2> QED BY <1>1, <1>4, <2>1, <2>2, <2>4, <2>5, Reports
<1>6. CASE BlockedFails(t)
  <2>1. /\ set_errno(t, "ECONNRESET") /\ rc' = [rc EXCEPT ![t] = -1]
        /\ link[t] = "reset" /\ Dead(t) /\ UNCHANGED <<stack, sendevent>>
    BY <1>6 DEF BlockedFails, Fails, Result, Dead
  <2>2. Ordered' /\ sendevent' \in [Task -> BOOLEAN] /\ stack' \in [Task -> Seq(1..MaxOut)]
    BY <2>1 DEF Ordered, TypeOK
  <2>3. -1 \in Int /\ -1 < 0 OBVIOUS
  <2> QED BY <1>1, <1>4, <2>1, <2>2, <2>3, Reports
<1> QED BY <1>5, <1>6

(* A recv that fails finds a connection that is dead; it may discover that *)
(* the stream has ended.                                                   *)
LEMMA RecvHolds ==
  ASSUME IInv, NEW t \in Task, Recv(t)
  PROVE  IInv'
<1> USE DEF IInv, At
<1>1. /\ pc[t] = "recv" /\ pc' = [pc EXCEPT ![t] = "testRecv"]
      /\ UNCHANGED <<link, stack, sendevent, sent>>
  BY DEF Recv, Goto
<1>2. pc' \in [Task -> Label] BY <1>1 DEF TypeOK, Label
<1>3. PICK e \in {"ECONNRESET", "ENOTCONN", "none"}, n \in Int :
        /\ set_errno(t, e) /\ rc' = [rc EXCEPT ![t] = n]
        /\ n < 0 => Dead(t)
        /\ eof' = eof \/ eof' = [eof EXCEPT ![t] = TRUE]
        /\ unread' = unread
           \/ \E k \in 1..unread[t] : unread' = [unread EXCEPT ![t] = @ - k]
  <2>1. unread[t] \in Nat BY MaxInAssumption DEF TypeOK
  <2> QED BY <2>1 DEF Recv, Fails, Result, Dead
<1>4. e \in Errno BY DEF Errno, Benign
<1>5. unread' \in [Task -> 0..MaxIn]
  <2>1. unread \in [Task -> 0..MaxIn] /\ MaxIn \in Nat BY MaxInAssumption DEF TypeOK
  <2>2. \A k \in 1..unread[t] : unread[t] - k \in 0..MaxIn BY <2>1
  <2> QED BY <1>3, <2>1, <2>2
<1>6. eof' \in [Task -> BOOLEAN] BY <1>3 DEF TypeOK
<1>7. rc' \in [Task -> Int] BY <1>3 DEF TypeOK
<1>8. TypeOK' BY <1>1, <1>2, <1>3, <1>4, <1>5, <1>6, <1>7, ErrnoIsNoted DEF TypeOK
<1>9. Ordered' BY <1>1 DEF Ordered
<1>10. InCall' BY <1>1, <1>3 DEF TypeOK, InCall, Reporting, Rest
<1>11. \A u \in Task : Dead(u) => Dead(u)' BY <1>1, <1>3 DEF TypeOK, Dead
<1>12. OwnErrno'
  BY <1>1, <1>3, <1>4, <1>11, ErrnoIsNoted DEF TypeOK, OwnErrno, Asking
<1>13. HealthyIsKept'
  BY <1>1, <1>3, <1>4, <1>11, ErrnoIsNoted DEF TypeOK, HealthyIsKept
<1> QED BY <1>8, <1>9, <1>10, <1>12, <1>13

(* The look at errno, which is the task's own unless it was disturbed.     *)
LEMMA TestHolds ==
  ASSUME IInv, NEW t \in Task, TestSend(t) \/ TestRecv(t)
  PROVE  IInv'
<1> USE DEF IInv, At
<1>1. CASE TestSend(t)
  <2>1. PICK n \in Int :
          /\ pc[t] = "testSend" /\ pc' = [pc EXCEPT ![t] = "sendDone"]
          /\ rc' = [rc EXCEPT ![t] = n]
          /\ UNCHANGED <<connection, sent, errno, own, disturbed>>
          /\ rc[t] >= 0 => n = rc[t]
          /\ rc[t] < 0 => n \in {0, -1} /\ (n = -1 => errno \notin Benign)
    <3> DEFINE m == IF rc[t] >= 0 THEN rc[t] ELSE IF errno \in Benign THEN 0 ELSE -1
    <3>1. /\ pc[t] = "testSend" /\ pc' = [pc EXCEPT ![t] = "sendDone"]
          /\ rc' = [rc EXCEPT ![t] = m]
          /\ UNCHANGED <<connection, sent, errno, own, disturbed>>
      BY <1>1 DEF TestSend, Tell, Goto, Result
    <3>2. /\ m \in Int /\ (rc[t] >= 0 => m = rc[t])
          /\ rc[t] < 0 => m \in {0, -1} /\ (m = -1 => errno \notin Benign)
      BY DEF TypeOK
    <3> HIDE DEF m
    <3> QED BY <3>1, <3>2
  <2>2. pc' \in [Task -> Label] /\ rc' \in [Task -> Int] BY <2>1 DEF TypeOK, Label
  <2>3. TypeOK' BY <2>1, <2>2 DEF TypeOK
  <2>4. Ordered' /\ InCall' BY <2>1 DEF TypeOK, Ordered, InCall, Reporting, Rest
  <2>5. OwnErrno' BY <2>1 DEF TypeOK, OwnErrno, Dead
  <2>6. n = -1 => Dead(t) \/ t \in disturbed BY <2>1 DEF TypeOK, OwnErrno
  <2>7. HealthyIsKept' BY <2>1, <2>6 DEF TypeOK, HealthyIsKept, Dead
  <2> QED BY <2>3, <2>4, <2>5, <2>7
<1>2. CASE TestRecv(t)
  <2>1. /\ pc[t] = "testRecv" /\ pc' = [pc EXCEPT ![t] = "recvDone"]
        /\ rc' = [rc EXCEPT ![t] = rc[t]]
        /\ UNCHANGED <<connection, sent, errno, own, disturbed>>
    BY <1>2 DEF TestRecv, Tell, Goto, Result
  <2>2. pc' \in [Task -> Label] /\ rc' = rc BY <2>1 DEF TypeOK, Label
  <2>3. TypeOK' BY <2>1, <2>2 DEF TypeOK
  <2>4. Ordered' /\ InCall' BY <2>1, <2>2 DEF TypeOK, Ordered, InCall, Reporting, Rest
  <2>5. OwnErrno' BY <2>1, <2>2 DEF TypeOK, OwnErrno, Dead
  <2>6. HealthyIsKept' BY <2>1, <2>2 DEF TypeOK, OwnErrno, HealthyIsKept, Dead
  <2> QED BY <2>3, <2>4, <2>5, <2>6
<1> QED BY <1>1, <1>2

(* The SDK notes what it was told, and closes what has failed.             *)
LEMMA EndHolds ==
  ASSUME IInv, NEW t \in Task, TakeResult(t) \/ et_socket_close(t)
  PROVE  IInv'
<1> USE DEF IInv, At
<1>1. CASE TakeResult(t)
  <2>1. /\ pc[t] \in {"sendDone", "recvDone"}
        /\ pc' = [pc EXCEPT ![t] = IF rc[t] < 0 THEN "close" ELSE "idle"]
        /\ rc' = [rc EXCEPT ![t] = 0]
        /\ sent' = IF pc[t] = "sendDone" /\ rc[t] > 0
                   THEN [sent EXCEPT ![t] = sent[t] + rc[t]] ELSE sent
        /\ own' = [own EXCEPT ![t] = "none"] /\ disturbed' = disturbed \ {t}
        /\ UNCHANGED <<connection, errno>>
    BY <1>1 DEF TakeResult, Goto, Result
  <2>2. pc' \in [Task -> Label] /\ rc' \in [Task -> Int] BY <2>1 DEF TypeOK, Label
  <2>3. pc[t] = "sendDone" /\ rc[t] > 0 => sent[t] + rc[t] \in 0..MaxOut
    BY OrderedIsShort DEF TypeOK, InCall, Reporting
  <2>4. sent' \in [Task -> 0..MaxOut] BY <2>1, <2>3 DEF TypeOK
  <2>5. own' \in [Task -> Errno] BY <2>1 DEF TypeOK, Errno, Benign
  <2>6. TypeOK' BY <2>1, <2>2, <2>4, <2>5 DEF TypeOK
  <2>7. Ordered' BY <2>1 DEF Ordered
  <2>8. InCall'
    <3>1. /\ sent[t] \in Nat /\ rc[t] \in Int /\ sent'[t] \in Int
          /\ \A u \in Task \ {t} : sent'[u] = sent[u] /\ rc'[u] = rc[u] /\ pc'[u] = pc[u]
      BY <2>1, MaxOutAssumption DEF TypeOK
    <3>2. pc'[t] # "close" => link[t] = "reset" \/ Len(stack[t]) = sent'[t]
      <4>1. CASE pc[t] = "recvDone" BY <4>1, <2>1, <3>1 DEF TypeOK, InCall, Reporting
      <4>2. CASE pc[t] = "sendDone" /\ rc[t] > 0
        <5>1. sent'[t] = sent[t] + rc[t] BY <4>2, <2>1 DEF TypeOK
        <5> QED BY <4>2, <3>1, <5>1 DEF InCall, Reporting
      <4>3. CASE pc[t] = "sendDone" /\ ~(rc[t] > 0)
        <5>1. sent'[t] = sent[t] BY <4>3, <2>1 DEF TypeOK
        <5> QED BY <4>3, <3>1, <5>1 DEF InCall, Reporting
      <4> QED BY <2>1, <4>1, <4>2, <4>3
    <3>3. pc'[t] \in {"close", "idle"} BY <2>1 DEF TypeOK
    <3> QED BY <2>1, <3>1, <3>2, <3>3 DEF InCall, Reporting, Rest
  <2>9. OwnErrno' BY <2>1 DEF TypeOK, OwnErrno, Dead
  <2>10. HealthyIsKept' BY <2>1 DEF TypeOK, HealthyIsKept, Dead
  <2> QED BY <2>6, <2>7, <2>8, <2>9, <2>10
<1>2. CASE et_socket_close(t)
  <2>1. /\ pc[t] = "close" /\ pc' = [pc EXCEPT ![t] = "idle"]
        /\ link' = [link EXCEPT ![t] = "none"] /\ eof' = [eof EXCEPT ![t] = FALSE]
        /\ unread' = [unread EXCEPT ![t] = 0] /\ stack' = [stack EXCEPT ![t] = <<>>]
        /\ sent' = [sent EXCEPT ![t] = 0] /\ rc' = rc
        /\ sendevent' = [sendevent EXCEPT ![t] = FALSE]
        /\ set_errno(t, "none") /\ "none" \in Errno
    BY <1>2 DEF et_socket_close, Goto, Errno, Benign
  <2>2. pc' \in [Task -> Label] BY <2>1 DEF TypeOK, Label
  <2>3. link' \in [Task -> {"none", "dialing", "reset"} \cup Live] BY <2>1 DEF TypeOK
  <2>4. eof' \in [Task -> BOOLEAN] /\ sendevent' \in [Task -> BOOLEAN] BY <2>1 DEF TypeOK
  <2>5. unread' \in [Task -> 0..MaxIn] BY <2>1, MaxInAssumption DEF TypeOK
  <2>6. stack' \in [Task -> Seq(1..MaxOut)] BY <2>1, EmptySeq DEF TypeOK
  <2>7. sent' \in [Task -> 0..MaxOut] BY <2>1, MaxOutAssumption DEF TypeOK
  <2>8. TypeOK'
    BY <2>1, <2>2, <2>3, <2>4, <2>5, <2>6, <2>7, ErrnoIsNoted DEF TypeOK
  <2>9. Len(<<>>) = 0 BY EmptySeq
  <2>10. Ordered' BY <2>1, <2>9 DEF TypeOK, Ordered
  <2>11. InCall' BY <2>1, <2>9 DEF TypeOK, InCall, Reporting, Rest
  <2>12. OwnErrno' BY <2>1, ErrnoIsNoted DEF TypeOK, OwnErrno, Dead
  <2>13. HealthyIsKept' BY <2>1, ErrnoIsNoted DEF TypeOK, HealthyIsKept, Dead
  <2> QED BY <2>8, <2>10, <2>11, <2>12, <2>13
<1> QED BY <1>1, <1>2

LEMMA NextHolds == IInv /\ [Next]_vars => IInv'
<1> SUFFICES ASSUME IInv, [Next]_vars PROVE IInv' OBVIOUS
<1>1. CASE UNCHANGED vars
  BY <1>1 DEF vars, IInv, TypeOK, Ordered, InCall, Rest, OwnErrno, HealthyIsKept, Dead, At
<1>2. CASE Next
  <2>1. PICK t \in Task : \/ Network(t) \/ Connect(t) \/ Accept(t)
                          \/ StartSend(t) \/ StartRecv(t) \/ Unblocked(t) \/ Call(t)
    BY <1>2 DEF Next
  <2> QED BY <2>1, NetworkHolds, ConnectHolds, SelectHolds, SendHolds, BlockedHolds,
             RecvHolds, TestHolds, EndHolds DEF Call
<1> QED BY <1>1, <1>2

LEMMA Invariance == Spec => []IInv
BY InitHolds, NextHolds, PTL DEF Spec
------------------------------------------------------------------------------
(* Every variable of the socket layer keeps its type: the SDK is never     *)
(* told that it has sent more than it wanted to.                           *)
THEOREM TypesHold == Spec => []TypeOK
<1>1. IInv => TypeOK BY DEF IInv
<1> QED BY <1>1, Invariance, PTL

(* et_socket_send loses, repeats and moves no byte of the SDK's stream,    *)
(* whatever it makes of errno.                                             *)
THEOREM BytesStayInOrder == Spec => []StreamInOrder
<1>1. IInv => StreamInOrder
  BY DEF IInv, Ordered, InCall, StreamInOrder, At, Reporting
<1> QED BY <1>1, Invariance, PTL

(* A healthy connection is reported as failed only if another task's call  *)
(* came between a send and its look at errno, or recv was out of memory.   *)
THEOREM OnlyARaceKillsHealthy == Spec => []HealthyIsKept
<1>1. IInv => HealthyIsKept BY DEF IInv
<1> QED BY <1>1, Invariance, PTL
==============================================================================
