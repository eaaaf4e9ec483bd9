--------------------------- MODULE WebClientProofs --------------------------
(***************************************************************************)
(* Proofs about WebClient for any number of pages: a page has one          *)
(* connection or one attempt at one, and a page that gave up has a reason. *)
(*                                                                         *)
(* What makes it true is that a close is the last event of its connection: *)
(* a page whose queue holds one has neither a connection nor a timer, and  *)
(* nothing else is behind it (Fits).  A kick is never queued without the   *)
(* close that takes its flag away (Out).                                   *)
(***************************************************************************)
EXTENDS WebClient, TLAPS, SequenceTheorems

Event == {"connect", "kick", "close"}

HasClose(s) == \E i \in 1..Len(s) : s[i] = "close"
HasKick(s) == \E i \in 1..Len(s) : s[i] = "kick"
CloseIsLast(s) == \A i \in 1..Len(s) : s[i] = "close" => i = Len(s)

Fits(p) ==
  /\ Trials(p) <= 1
  /\ CloseIsLast(inbox[p])
  /\ inbox[p] # <<>> \/ isLogin[p] => p \in open \/ Closing(p)

Told(p) ==
  /\ im_obj[p] => "kicked" \in told[p] \/ stale[p]
  /\ Trials(p) = 0 => told[p] \cap {"kicked", "error"} # {} \/ stale[p] \/ cut[p]

Types ==
  /\ net \in BOOLEAN /\ open \subseteq Page
  /\ inbox \in [Page -> Seq(Event)]
  /\ isLogin \in [Page -> BOOLEAN] /\ im_obj \in [Page -> BOOLEAN]
  /\ timers \in [Page -> Nat] /\ lookups \in [Page -> Nat] /\ opening \in [Page -> Nat]
  /\ reloads \in [Page -> 0..MaxReloads]
  /\ reConnectCount \in [Page -> 0..(maxConnectCount + 1)]
  /\ told \in [Page -> SUBSET {"kicked", "offline", "error"}]
  /\ kicked \in [Page -> BOOLEAN] /\ stale \in [Page -> BOOLEAN]
  /\ cut \in [Page -> BOOLEAN]

Out(p) ==
  /\ HasKick(inbox[p]) => Closing(p)
  /\ kicked[p] => Trials(p) = 0 \/ (im_obj[p] /\ Closing(p))

IInv == Types /\ \A p \in Page : Fits(p) /\ Told(p) /\ Out(p)

USE DEF links, memory, history

(* What the events that are queued, handled or lost do to a queue.         *)
LEMMA Handled ==
  ASSUME NEW s \in Seq(Event), s # <<>>, CloseIsLast(s)
  PROVE  /\ Tail(s) \in Seq(Event) /\ CloseIsLast(Tail(s))
         /\ Head(s) # "close" => (HasClose(Tail(s)) <=> HasClose(s))
         /\ Head(s) = "close" => Tail(s) = <<>> /\ HasClose(s)
         /\ HasKick(Tail(s)) \/ Head(s) = "kick" => HasKick(s)
<1>1. Len(s) \in Nat /\ Len(s) # 0 /\ Head(s) = s[1]
  BY LenProperties, EmptySeq, HeadTailProperties
<1>2. /\ Tail(s) \in Seq(Event) /\ Len(Tail(s)) = Len(s) - 1
      /\ \A i \in 1..Len(Tail(s)) : Tail(s)[i] = s[i + 1]
  BY HeadTailProperties
<1>3. CloseIsLast(Tail(s))
  <2> SUFFICES ASSUME NEW i \in 1..Len(Tail(s)), Tail(s)[i] = "close"
               PROVE  i = Len(Tail(s))
    BY DEF CloseIsLast
  <2>1. i + 1 \in 1..Len(s) /\ i \in Int BY <1>1, <1>2
  <2>2. s[i + 1] = "close" BY <1>2
  <2>3. i + 1 = Len(s) BY <2>1, <2>2 DEF CloseIsLast
  <2>4. i = Len(s) - 1 BY <1>1, <2>1, <2>3
  <2> QED BY <1>2, <2>4
<1>4. ASSUME Head(s) # "close" PROVE HasClose(Tail(s)) <=> HasClose(s)
  <2>1. ASSUME NEW i \in 1..Len(s), s[i] = "close" PROVE HasClose(Tail(s))
    <3>1. i - 1 \in 1..Len(Tail(s)) /\ (i - 1) + 1 = i BY <1>1, <1>2, <1>4, <2>1
    <3>2. Tail(s)[i - 1] = "close" BY <1>2, <2>1, <3>1
    <3> QED BY <3>1, <3>2 DEF HasClose
  <2>2. ASSUME NEW i \in 1..Len(Tail(s)), Tail(s)[i] = "close" PROVE HasClose(s)
    <3>1. i + 1 \in 1..Len(s) /\ s[i + 1] = "close" BY <1>1, <1>2, <2>2
    <3> QED BY <3>1 DEF HasClose
  <2> QED BY <2>1, <2>2 DEF HasClose
<1>5. ASSUME Head(s) = "close" PROVE Tail(s) = <<>> /\ HasClose(s)
  <2>1. 1 \in 1..Len(s) /\ s[1] = "close" BY <1>1, <1>5
  <2>2. Len(s) = 1 BY <2>1 DEF CloseIsLast
  <2>3. Len(Tail(s)) = 0 BY <1>2, <2>2
  <2>4. Tail(s) = <<>> BY <1>2, <2>3, EmptySeq
  <2> QED BY <2>1, <2>4 DEF HasClose
<1>6. ASSUME HasKick(Tail(s)) \/ Head(s) = "kick" PROVE HasKick(s)
  <2>1. ASSUME NEW i \in 1..Len(Tail(s)), Tail(s)[i] = "kick" PROVE HasKick(s)
    <3>1. i + 1 \in 1..Len(s) /\ s[i + 1] = "kick" BY <1>1, <1>2, <2>1
    <3> QED BY <3>1 DEF HasKick
  <2>2. ASSUME Head(s) = "kick" PROVE HasKick(s)
    <3>1. 1 \in 1..Len(s) /\ s[1] = "kick" BY <1>1, <2>2
    <3> QED BY <3>1 DEF HasKick
  <2> QED BY <1>6, <2>1, <2>2 DEF HasKick
<1> QED BY <1>2, <1>3, <1>4, <1>5, <1>6

LEMMA Closed ==
  ASSUME NEW s \in Seq(Event), ~HasClose(s)
  PROVE  /\ Append(s, "close") \in Seq(Event)
         /\ HasClose(Append(s, "close")) /\ CloseIsLast(Append(s, "close"))
         /\ s \o <<"kick", "close">> \in Seq(Event)
         /\ HasClose(s \o <<"kick", "close">>) /\ CloseIsLast(s \o <<"kick", "close">>)
<1>1. Len(s) \in Nat BY LenProperties
<1>2. /\ Append(s, "close") \in Seq(Event) /\ Len(Append(s, "close")) = Len(s) + 1
      /\ \A i \in 1..Len(s) : Append(s, "close")[i] = s[i]
      /\ Append(s, "close")[Len(s) + 1] = "close"
  BY AppendProperties DEF Event
<1>3. HasClose(Append(s, "close")) /\ CloseIsLast(Append(s, "close"))
  <2>1. Len(s) + 1 \in 1..Len(Append(s, "close")) BY <1>1, <1>2
  <2> QED BY <1>1, <1>2, <2>1 DEF HasClose, CloseIsLast
<1> DEFINE t == s \o <<"kick", "close">>
<1>4. <<"kick", "close">> \in Seq(Event) /\ Len(<<"kick", "close">>) = 2
  BY DEF Event
<1>5. /\ t \in Seq(Event) /\ Len(t) = Len(s) + 2
      /\ \A i \in 1..(Len(s) + 2) :
           t[i] = IF i <= Len(s) THEN s[i] ELSE <<"kick", "close">>[i - Len(s)]
  <2>1. /\ t \in Seq(Event) /\ Len(t) = Len(s) + Len(<<"kick", "close">>)
        /\ \A i \in 1..(Len(s) + Len(<<"kick", "close">>)) :
             t[i] = IF i <= Len(s) THEN s[i] ELSE <<"kick", "close">>[i - Len(s)]
    BY <1>4, ConcatProperties
  <2> QED BY <2>1, <1>4
<1> HIDE DEF t
<1>6. /\ \A i \in 1..Len(s) : t[i] = s[i]
      /\ t[Len(s) + 1] = "kick" /\ t[Len(s) + 2] = "close"
  <2>1. (Len(s) + 1) - Len(s) = 1 /\ (Len(s) + 2) - Len(s) = 2 BY <1>1
  <2>2. t[Len(s) + 1] = <<"kick", "close">>[1] /\ t[Len(s) + 2] = <<"kick", "close">>[2]
    BY <1>1, <1>5, <2>1
  <2> QED BY <1>1, <1>5, <2>2
<1>7. Len(s) + 2 \in 1..Len(t) BY <1>1, <1>5
<1>8. HasClose(t) BY <1>6, <1>7 DEF HasClose
<1>9. CloseIsLast(t)
  <2> SUFFICES ASSUME NEW i \in 1..Len(t), t[i] = "close" PROVE i = Len(s) + 2
    BY <1>5 DEF CloseIsLast
  <2>1. i \in 1..Len(s) \/ i = Len(s) + 1 \/ i = Len(s) + 2 BY <1>1, <1>5
  <2> QED BY <1>6, <2>1 DEF HasClose
<1> QED BY <1>2, <1>3, <1>5, <1>8, <1>9 DEF t

LEMMA Lost ==
  ASSUME NEW s \in Seq(Event), NEW i \in 1..Len(s), s[i] = "kick", CloseIsLast(s)
  PROVE  LET t == SubSeq(s, 1, i - 1) \o SubSeq(s, i + 1, Len(s))
         IN  t \in Seq(Event) /\ CloseIsLast(t) /\ (HasClose(t) <=> HasClose(s))
<1> DEFINE a == SubSeq(s, 1, i - 1)
           b == SubSeq(s, i + 1, Len(s))
           t == a \o b
<1>1. Len(s) \in Nat /\ i \in Nat /\ 1 <= i /\ i <= Len(s) BY LenProperties
<1>2. \A j \in 1..Len(s) : s[j] \in Event BY ElementOfSeq
<1>3. /\ a \in Seq(Event) /\ Len(a) = i - 1
      /\ \A j \in 1..(i - 1) : a[j] = s[j]
  <2>1. \A j \in 1..(i - 1) : s[j] \in Event BY <1>1, <1>2
  <2>2. 1 \in Int /\ i - 1 \in Int BY <1>1
  <2>3. /\ a \in Seq(Event)
        /\ Len(a) = IF 1 <= i - 1 THEN (i - 1) - 1 + 1 ELSE 0
        /\ \A j \in 1..((i - 1) - 1 + 1) : a[j] = s[1 + j - 1]
    BY <2>1, <2>2, SubSeqProperties
  <2> QED BY <2>3, <1>1
<1>4. /\ b \in Seq(Event) /\ Len(b) = Len(s) - i
      /\ \A j \in 1..(Len(s) - i) : b[j] = s[i + j]
  <2>1. \A j \in (i + 1)..Len(s) : s[j] \in Event BY <1>1, <1>2
  <2>2. i + 1 \in Int /\ Len(s) \in Int BY <1>1
  <2>3. /\ b \in Seq(Event)
        /\ Len(b) = IF i + 1 <= Len(s) THEN Len(s) - (i + 1) + 1 ELSE 0
        /\ \A j \in 1..(Len(s) - (i + 1) + 1) : b[j] = s[i + 1 + j - 1]
    BY <2>1, <2>2, SubSeqProperties
  <2> QED BY <2>3, <1>1
<1>5. /\ t \in Seq(Event) /\ Len(t) = Len(a) + Len(b)
      /\ \A j \in 1..(Len(a) + Len(b)) : t[j] = IF j <= Len(a) THEN a[j] ELSE b[j - Len(a)]
  BY <1>3, <1>4, ConcatProperties
<1> HIDE DEF a, b, t
<1>6. Len(t) = Len(s) - 1 BY <1>1, <1>3, <1>4, <1>5
<1>7. \A j \in 1..Len(t) : t[j] = IF j < i THEN s[j] ELSE s[j + 1]
  <2> SUFFICES ASSUME NEW j \in 1..Len(t) PROVE t[j] = IF j < i THEN s[j] ELSE s[j + 1]
    OBVIOUS
  <2>1. CASE j < i
    <3>1. j \in 1..(i - 1) /\ j <= Len(a) /\ j \in 1..(Len(a) + Len(b))
      BY <1>1, <1>3, <1>5, <1>6, <2>1
    <3> QED BY <1>3, <1>5, <2>1, <3>1
  <2>2. CASE ~(j < i)
    <3>1. /\ j - Len(a) \in 1..(Len(s) - i) /\ i + (j - Len(a)) = j + 1
          /\ ~(j <= Len(a)) /\ j \in 1..(Len(a) + Len(b))
      BY <1>1, <1>3, <1>4, <1>5, <1>6, <2>2
    <3> QED BY <1>4, <1>5, <2>2, <3>1
  <2> QED BY <2>1, <2>2
<1>8. CloseIsLast(t)
  <2> SUFFICES ASSUME NEW j \in 1..Len(t), t[j] = "close" PROVE j = Len(t)
    BY DEF CloseIsLast
  <2>1. j \in 1..Len(s) /\ j + 1 \in 1..Len(s) BY <1>1, <1>6
  <2>2. CASE j < i
    <3>1. s[j] = "close" BY <1>7, <2>2
    <3>2. j = Len(s) BY <2>1, <3>1 DEF CloseIsLast
    <3> QED BY <1>1, <2>1, <3>2
  <2>3. CASE ~(j < i)
    <3>1. s[j + 1] = "close" BY <1>7, <2>3
    <3>2. j + 1 = Len(s) BY <2>1, <3>1 DEF CloseIsLast
    <3> QED BY <1>1, <1>6, <3>2
  <2> QED BY <2>2, <2>3
<1>9. HasClose(t) => HasClose(s)
  <2> SUFFICES ASSUME NEW j \in 1..Len(t), t[j] = "close" PROVE HasClose(s)
    BY DEF HasClose
  <2>1. j \in 1..Len(s) /\ j + 1 \in 1..Len(s) BY <1>1, <1>6
  <2>2. s[j] = "close" \/ s[j + 1] = "close" BY <1>7
  <2> QED BY <2>1, <2>2 DEF HasClose
<1>10. HasClose(s) => HasClose(t)
  <2> SUFFICES ASSUME NEW j \in 1..Len(s), s[j] = "close" PROVE HasClose(t)
    BY DEF HasClose
  <2>1. j # i OBVIOUS
  <2>2. CASE j < i
    <3>1. j \in 1..Len(t) BY <1>1, <1>6, <2>2
    <3>2. t[j] = "close" BY <1>7, <2>2, <3>1
    <3> QED BY <3>1, <3>2 DEF HasClose
  <2>3. CASE j > i
    <3>1. j - 1 \in 1..Len(t) /\ ~(j - 1 < i) /\ (j - 1) + 1 = j BY <1>1, <1>6, <2>3
    <3>2. t[j - 1] = "close" BY <1>7, <3>1
    <3> QED BY <3>1, <3>2 DEF HasClose
  <2> QED BY <1>1, <2>1, <2>2, <2>3
<1> QED BY <1>5, <1>8, <1>9, <1>10 DEF t, a, b

------------------------------------------------------------------------------
(* What Fits and Told say of a page depends on the page's own state alone. *)
Unmoved(p) ==
  /\ p \in open' <=> p \in open
  /\ inbox'[p] = inbox[p] /\ isLogin'[p] = isLogin[p] /\ timers'[p] = timers[p]
  /\ lookups'[p] = lookups[p] /\ opening'[p] = opening[p] /\ im_obj'[p] = im_obj[p]
  /\ told'[p] = told[p] /\ stale'[p] = stale[p] /\ kicked'[p] = kicked[p]
  /\ cut'[p] = cut[p]

LEMMA OthersKeep ==
  ASSUME NEW p \in Page, Fits(p), Told(p), Out(p), Unmoved(p)
  PROVE  Fits(p)' /\ Told(p)' /\ Out(p)'
BY DEF Fits, Told, Out, Unmoved, Trials, Closing, CloseIsLast, HasKick

(* The trial a page has: none, or exactly one of the five.                 *)
LEMMA OneOfFive ==
  ASSUME Types, NEW p \in Page, Fits(p)
  PROVE  /\ timers[p] \in Nat /\ lookups[p] \in Nat /\ opening[p] \in Nat
         /\ timers[p] > 0 => /\ timers[p] = 1 /\ lookups[p] = 0 /\ opening[p] = 0
                             /\ p \notin open /\ ~Closing(p)
         /\ lookups[p] > 0 => /\ lookups[p] = 1 /\ timers[p] = 0 /\ opening[p] = 0
                              /\ p \notin open /\ ~Closing(p)
         /\ opening[p] > 0 => /\ opening[p] = 1 /\ timers[p] = 0 /\ lookups[p] = 0
                              /\ p \notin open /\ ~Closing(p)
         /\ p \in open \/ Closing(p) => /\ timers[p] = 0 /\ lookups[p] = 0
                                       /\ opening[p] = 0
         /\ ~(p \in open /\ Closing(p))
<1>1. timers[p] \in Nat /\ lookups[p] \in Nat /\ opening[p] \in Nat BY DEF Types
<1>2. Trials(p) <= 1 BY DEF Fits
<1> QED BY <1>1, <1>2 DEF Trials

LEMMA InitHolds == Init => IInv
<1> SUFFICES ASSUME Init PROVE IInv OBVIOUS
<1>1. <<>> \in Seq(Event) /\ Len(<<>>) = 0 BY EmptySeq
<1>2. Types BY <1>1, CountAssumption DEF Init, All, Types
<1>3. ASSUME NEW p \in Page PROVE Fits(p) /\ Told(p) /\ Out(p)
  <2>1. /\ p \notin open /\ inbox[p] = <<>> /\ isLogin[p] = FALSE /\ timers[p] = 0
        /\ lookups[p] = 1 /\ opening[p] = 0 /\ im_obj[p] = FALSE
        /\ kicked[p] = FALSE
    BY DEF Init, All
  <2>2. ~Closing(p) BY <1>1, <2>1 DEF Closing
  <2>3. Trials(p) = 1 BY <2>1, <2>2 DEF Trials
  <2> QED BY <1>1, <2>1, <2>2, <2>3 DEF Fits, Told, Out, CloseIsLast, HasKick
<1> QED BY <1>2, <1>3 DEF IInv

LEMMA Added ==
  ASSUME NEW f \in [Page -> Nat], NEW p \in Page, NEW n \in Int, f[p] + n \in Nat
  PROVE  /\ Add(f, p, n) \in [Page -> Nat] /\ Add(f, p, n)[p] = f[p] + n
         /\ \A q \in Page \ {p} : Add(f, p, n)[q] = f[q]
BY DEF Add

LEMMA Alerted ==
  ASSUME Types, NEW p \in Page, NEW alert \in {"kicked", "offline", "error"}, Tell(p, alert)
  PROVE  /\ told' \in [Page -> SUBSET {"kicked", "offline", "error"}]
         /\ told'[p] = told[p] \cup {alert}
         /\ \A q \in Page \ {p} : told'[q] = told[q]
BY DEF Types, Tell

(* The attempt goes on: a lookup becomes a socket being opened, a timer a  *)
(* lookup, and a lookup that fails leaves an alert or its history behind.  *)
LEMMA AttemptHolds ==
  ASSUME IInv, NEW p \in Page, LookupDone(p) \/ LookupFails(p) \/ LookupIsCut(p) \/ TimerFires(p)
  PROVE  IInv'
<1>0. Types /\ Fits(p) /\ Told(p) /\ \A q \in Page : Fits(q) /\ Told(q) /\ Out(q) BY DEF IInv
<1> DEFINE Alerts == SUBSET {"kicked", "offline", "error"}
<1>1. UNCHANGED <<net, open, inbox, isLogin, reConnectCount, im_obj, reloads, kicked, stale>>
  BY DEF LookupDone, LookupFails, LookupIsCut, TimerFires
<1>2. /\ timers' \in [Page -> Nat] /\ lookups' \in [Page -> Nat] /\ opening' \in [Page -> Nat]
      /\ told' \in [Page -> Alerts] /\ told[p] \subseteq told'[p]
      /\ cut' \in [Page -> BOOLEAN] /\ (cut[p] => cut'[p])
      /\ \A q \in Page \ {p} : /\ timers'[q] = timers[q] /\ lookups'[q] = lookups[q]
                              /\ opening'[q] = opening[q] /\ told'[q] = told[q]
                              /\ cut'[q] = cut[q]
      /\ \/ timers'[p] + lookups'[p] + opening'[p] = timers[p] + lookups[p] + opening[p]
         \/ /\ timers'[p] + lookups'[p] + opening'[p] = timers[p] + lookups[p] + opening[p] - 1
            /\ "error" \in told'[p] \/ cut'[p]
  <2>1. /\ timers \in [Page -> Nat] /\ lookups \in [Page -> Nat] /\ opening \in [Page -> Nat]
        /\ told \in [Page -> Alerts] /\ cut \in [Page -> BOOLEAN]
        /\ timers[p] \in Nat /\ lookups[p] \in Nat /\ opening[p] \in Nat
    BY <1>0 DEF Types
  <2>2. CASE LookupDone(p)
    <3>1. /\ lookups[p] > 0 /\ lookups' = Add(lookups, p, -1) /\ opening' = Add(opening, p, 1)
          /\ timers' = timers /\ told' = told /\ cut' = cut
      BY <2>2 DEF LookupDone
    <3>2. lookups[p] + -1 \in Nat /\ opening[p] + 1 \in Nat BY <2>1, <3>1
    <3>3. /\ lookups' \in [Page -> Nat] /\ lookups'[p] = lookups[p] - 1
          /\ opening' \in [Page -> Nat] /\ opening'[p] = opening[p] + 1
          /\ \A q \in Page \ {p} : lookups'[q] = lookups[q] /\ opening'[q] = opening[q]
      BY <2>1, <3>1, <3>2, Added
    <3> QED BY <2>1, <3>1, <3>3
  <2>3. CASE LookupFails(p)
    <3>1. /\ lookups[p] > 0 /\ lookups' = Add(lookups, p, -1) /\ opening' = opening
          /\ timers' = timers /\ Tell(p, "error") /\ cut' = cut
      BY <2>3 DEF LookupFails
    <3>2. lookups[p] + -1 \in Nat BY <2>1, <3>1
    <3>3. /\ lookups' \in [Page -> Nat] /\ lookups'[p] = lookups[p] - 1
          /\ \A q \in Page \ {p} : lookups'[q] = lookups[q]
      BY <2>1, <3>1, <3>2, Added
    <3>4. /\ told' \in [Page -> Alerts] /\ told'[p] = told[p] \cup {"error"}
          /\ \A q \in Page \ {p} : told'[q] = told[q]
      BY <1>0, <3>1, Alerted
    <3>5. told[p] \subseteq told'[p] /\ "error" \in told'[p] BY <3>4
    <3> QED BY <2>1, <3>1, <3>3, <3>4, <3>5
  <2>cut. CASE LookupIsCut(p)
    <3>1. /\ lookups[p] > 0 /\ lookups' = Add(lookups, p, -1) /\ opening' = opening
          /\ timers' = timers /\ told' = told /\ cut' = [cut EXCEPT ![p] = TRUE]
      BY <2>cut DEF LookupIsCut
    <3>2. lookups[p] + -1 \in Nat BY <2>1, <3>1
    <3>3. /\ lookups' \in [Page -> Nat] /\ lookups'[p] = lookups[p] - 1
          /\ \A q \in Page \ {p} : lookups'[q] = lookups[q]
      BY <2>1, <3>1, <3>2, Added
    <3>4. /\ cut' \in [Page -> BOOLEAN] /\ cut'[p] = TRUE
          /\ \A q \in Page \ {p} : cut'[q] = cut[q]
      BY <2>1, <3>1
    <3> QED BY <2>1, <3>1, <3>3, <3>4
  <2>4. CASE TimerFires(p)
    <3>1. /\ timers[p] > 0 /\ timers' = Add(timers, p, -1) /\ opening' = opening
          /\ cut' = cut
          /\ \/ lookups' = Add(lookups, p, 1) /\ told' = told
             \/ lookups' = lookups /\ Tell(p, "error")
      BY <2>4 DEF TimerFires
    <3>2. timers[p] + -1 \in Nat /\ lookups[p] + 1 \in Nat BY <2>1, <3>1
    <3>3. /\ timers' \in [Page -> Nat] /\ timers'[p] = timers[p] - 1
          /\ \A q \in Page \ {p} : timers'[q] = timers[q]
      BY <2>1, <3>1, <3>2, Added
    <3>4. CASE lookups' = Add(lookups, p, 1) /\ told' = told
      <4>1. /\ lookups' \in [Page -> Nat] /\ lookups'[p] = lookups[p] + 1
            /\ \A q \in Page \ {p} : lookups'[q] = lookups[q]
        BY <2>1, <3>2, <3>4, Added
      <4> QED BY <2>1, <3>1, <3>3, <3>4, <4>1
    <3>5. CASE lookups' = lookups /\ Tell(p, "error")
      <4>1. /\ told' \in [Page -> Alerts] /\ told'[p] = told[p] \cup {"error"}
            /\ \A q \in Page \ {p} : told'[q] = told[q]
        BY <1>0, <3>5, Alerted
      <4>2. told[p] \subseteq told'[p] /\ "error" \in told'[p] BY <4>1
      <4> QED BY <2>1, <3>1, <3>3, <3>5, <4>1, <4>2
    <3> QED BY <3>1, <3>4, <3>5
  <2> QED BY <2>2, <2>3, <2>cut, <2>4
<1>3. Types' BY <1>0, <1>1, <1>2 DEF Types
<1>4. Fits(p)' /\ Told(p)'
  <2>1. Closing(p)' <=> Closing(p) BY <1>1 DEF Closing
  <2>2. CloseIsLast(inbox[p])' BY <1>0, <1>1 DEF Fits
  <2>3. timers'[p] \in Nat /\ lookups'[p] \in Nat /\ opening'[p] \in Nat BY <1>2
  <2>4. timers[p] \in Nat /\ lookups[p] \in Nat /\ opening[p] \in Nat BY <1>0 DEF Types
  <2> DEFINE reason == "error" \in told'[p] \/ cut'[p]
  <2>5. /\ Trials(p) \in Nat /\ Trials(p)' \in Nat
        /\ Trials(p)' = Trials(p) \/ (Trials(p)' = Trials(p) - 1 /\ reason)
    <3> DEFINE now == Trials(p)
               next == Trials(p)'
               sum == timers[p] + lookups[p] + opening[p]
               sumNext == timers'[p] + lookups'[p] + opening'[p]
               rest == (IF p \in open THEN 1 ELSE 0) + (IF Closing(p) THEN 1 ELSE 0)
    <3>1. sum \in Nat /\ sumNext \in Nat /\ rest \in Nat BY <2>3, <2>4
    <3>2. sumNext = sum \/ (sumNext = sum - 1 /\ reason) BY <1>2, <2>3, <2>4
    <3>3. now = sum + rest BY <2>4 DEF Trials
    <3>4. next = sumNext + rest BY <1>1, <2>1, <2>3 DEF Trials
    <3>5. next = now \/ (next = now - 1 /\ reason)
      <4> HIDE DEF now, next, sum, sumNext, rest, reason
      <4> QED BY <3>1, <3>2, <3>3, <3>4
    <3>6. now \in Nat /\ next \in Nat
      <4> HIDE DEF now, next, sum, sumNext, rest, reason
      <4> QED BY <3>1, <3>3, <3>4
    <3> QED BY <3>5, <3>6
  <2>6. Trials(p)' <= 1 /\ (Trials(p)' = 0 => Trials(p) = 0 \/ reason)
    BY <1>0, <2>5 DEF Fits
  <2>7. told[p] \subseteq told'[p] /\ (cut[p] => cut'[p]) BY <1>2
  <2>8. Fits(p)' BY <1>0, <1>1, <2>1, <2>2, <2>6 DEF Fits
  <2>9. Told(p)' BY <1>0, <1>1, <2>6, <2>7 DEF Told
  <2> QED BY <2>8, <2>9
<1>out. Out(p)'
  <2>1. timers[p] > 0 \/ lookups[p] > 0 BY DEF LookupDone, LookupFails, LookupIsCut, TimerFires
  <2>2. ~Closing(p) /\ timers[p] + lookups[p] + opening[p] > 0 BY <1>0, <2>1, OneOfFive
  <2>3. Trials(p) # 0 BY <1>0, <2>2, OneOfFive DEF Trials
  <2>4. ~kicked[p] /\ ~HasKick(inbox[p]) BY <1>0, <2>2, <2>3 DEF Out
  <2> QED BY <1>1, <2>4 DEF Out, HasKick
<1>5. ASSUME NEW q \in Page \ {p} PROVE Fits(q)' /\ Told(q)' /\ Out(q)'
  BY <1>0, <1>1, <1>2, OthersKeep DEF Unmoved
<1> QED BY <1>out, <1>3, <1>4, <1>5 DEF IInv

(* A socket opens on a page that has nothing else: its queue is empty, and *)
(* the page that loses the session gets its close.                         *)
LEMMA OpenHolds ==
  ASSUME IInv, NEW p \in Page, SocketOpens(p)
  PROVE  IInv'
<1>0. Types /\ \A q \in Page : Fits(q) /\ Told(q) /\ Out(q) BY DEF IInv
<1>1. /\ UNCHANGED <<net, lookups, isLogin, timers, reConnectCount, told, im_obj, history>>
      /\ opening[p] > 0 /\ open' = {p} /\ opening' = Add(opening, p, -1)
      /\ \A q \in Page :
           inbox'[q] = inbox[q] \o (IF q = p THEN <<"connect">>
                                   ELSE IF q \in open THEN <<"kick", "close">> ELSE <<>>)
      /\ DOMAIN inbox' = Page /\ inbox' = [q \in Page |-> inbox'[q]]
  BY DEF SocketOpens
<1>2. \A q \in Page : inbox[q] \in Seq(Event) BY <1>0 DEF Types
<1>3. /\ opening[p] = 1 /\ timers[p] = 0 /\ lookups[p] = 0 /\ p \notin open /\ ~Closing(p)
  BY <1>0, <1>1, OneOfFive
<1>4. /\ opening' \in [Page -> Nat] /\ opening'[p] = 0
      /\ \A q \in Page \ {p} : opening'[q] = opening[q]
  <2>1. opening \in [Page -> Nat] /\ opening[p] + -1 \in Nat BY <1>0, <1>3 DEF Types
  <2>2. /\ Add(opening, p, -1) \in [Page -> Nat] /\ Add(opening, p, -1)[p] = opening[p] + -1
        /\ \A q \in Page \ {p} : Add(opening, p, -1)[q] = opening[q]
    BY <2>1, Added
  <2> QED BY <1>1, <1>3, <2>2
<1>5. inbox'[p] = <<"connect">>
  <2>1. inbox[p] = <<>> BY <1>0, <1>3 DEF Fits
  <2>2. <<"connect">> \in Seq(Event) BY DEF Event
  <2>3. <<>> \o <<"connect">> = <<"connect">> BY <2>2, ConcatEmptySeq
  <2> QED BY <1>1, <2>1, <2>3
<1>6. ASSUME NEW q \in Page \ {p}, q \in open
      PROVE  /\ inbox'[q] \in Seq(Event) /\ CloseIsLast(inbox'[q]) /\ Closing(q)'
             /\ q \notin open'
             /\ timers[q] = 0 /\ lookups[q] = 0 /\ opening[q] = 0
  <2>1. /\ timers[q] = 0 /\ lookups[q] = 0 /\ opening[q] = 0 /\ ~Closing(q)
    BY <1>0, <1>6, OneOfFive
  <2>2. ~HasClose(inbox[q]) BY <2>1 DEF Closing, HasClose
  <2>3. inbox'[q] = inbox[q] \o <<"kick", "close">> BY <1>1, <1>6
  <2>4. inbox'[q] \in Seq(Event) /\ HasClose(inbox'[q]) /\ CloseIsLast(inbox'[q])
    BY <1>2, <2>2, <2>3, Closed
  <2> QED BY <1>1, <2>1, <2>4 DEF Closing, HasClose
<1>7. ASSUME NEW q \in Page \ {p}, q \notin open
      PROVE  inbox'[q] = inbox[q] /\ q \notin open'
  <2>1. inbox[q] \o <<>> = inbox[q] BY <1>2, ConcatEmptySeq
  <2> QED BY <1>1, <1>7, <2>1
<1>8. Types'
  <2>1. <<"connect">> \in Seq(Event) BY DEF Event
  <2>2. \A q \in Page : inbox'[q] \in Seq(Event) BY <1>2, <1>5, <1>6, <1>7, <2>1
  <2>3. inbox' \in [Page -> Seq(Event)] BY <1>1, <2>2
  <2>4. open' \subseteq Page BY <1>1
  <2> QED BY <1>0, <1>1, <1>4, <2>3, <2>4 DEF Types
<1>9. Fits(p)' /\ Told(p)'
  <2>1. /\ Len(<<"connect">>) = 1 /\ \A i \in 1..1 : <<"connect">>[i] = "connect"
    OBVIOUS
  <2>2. CloseIsLast(inbox'[p]) /\ ~Closing(p)' BY <1>5, <2>1 DEF CloseIsLast, Closing
  <2>3. Trials(p)' = 1 /\ p \in open' BY <1>1, <1>3, <1>4, <2>2 DEF Trials
  <2> QED BY <1>0, <1>1, <2>2, <2>3 DEF Fits, Told
<1>out. Out(p)'
  <2>1. Trials(p) = 1 BY <1>3 DEF Trials
  <2>2. ~kicked[p] BY <1>0, <1>3, <2>1 DEF Out
  <2>3. /\ Len(<<"connect">>) = 1 /\ \A i \in 1..1 : <<"connect">>[i] = "connect"
    OBVIOUS
  <2>4. ~HasKick(inbox'[p]) BY <1>5, <2>3 DEF HasKick
  <2> QED BY <1>1, <2>2, <2>4 DEF Out
<1>10. ASSUME NEW q \in Page \ {p} PROVE Fits(q)' /\ Told(q)' /\ Out(q)'
  <2>1. CASE q \in open
    <3>1. Trials(q)' = 1 BY <1>1, <1>4, <1>6, <2>1 DEF Trials
    <3>2. ~kicked[q]
      <4>1. Trials(q) # 0 /\ ~Closing(q) BY <1>0, <2>1, OneOfFive DEF Trials
      <4> QED BY <1>0, <4>1 DEF Out
    <3> QED BY <1>0, <1>1, <1>6, <2>1, <3>1, <3>2 DEF Fits, Told, Out
  <2>2. CASE q \notin open BY <1>0, <1>1, <1>4, <1>7, <2>2, OthersKeep DEF Unmoved
  <2> QED BY <2>1, <2>2
<1> QED BY <1>out, <1>8, <1>9, <1>10 DEF IInv

LEMMA FailHolds ==
  ASSUME IInv, NEW p \in Page, SocketFails(p)
  PROVE  IInv'
<1>0. Types /\ \A q \in Page : Fits(q) /\ Told(q) /\ Out(q) BY DEF IInv
<1>1. /\ UNCHANGED <<net, lookups, memory, im_obj, history>>
      /\ inbox' = [inbox EXCEPT ![p] = Append(@, "close")]
      /\ \/ p \in open /\ open' = open \ {p} /\ opening' = opening
         \/ opening[p] > 0 /\ opening' = Add(opening, p, -1) /\ open' = open
  BY DEF SocketFails
<1>2. inbox \in [Page -> Seq(Event)] /\ inbox[p] \in Seq(Event) BY <1>0 DEF Types
<1>3. timers[p] = 0 /\ lookups[p] = 0 /\ ~Closing(p) BY <1>0, <1>1, OneOfFive
<1>4. /\ opening' \in [Page -> Nat] /\ opening'[p] = 0 /\ p \notin open'
      /\ \A q \in Page \ {p} : opening'[q] = opening[q] /\ (q \in open' <=> q \in open)
      /\ open' \subseteq Page
  <2>1. opening \in [Page -> Nat] /\ open \subseteq Page BY <1>0 DEF Types
  <2>2. CASE p \in open /\ open' = open \ {p} /\ opening' = opening
    <3>1. opening[p] = 0 BY <1>0, <2>2, OneOfFive
    <3> QED BY <2>1, <2>2, <3>1
  <2>3. CASE opening[p] > 0 /\ opening' = Add(opening, p, -1) /\ open' = open
    <3>1. opening[p] = 1 /\ p \notin open BY <1>0, <2>3, OneOfFive
    <3>2. opening[p] + -1 = 0 BY <3>1
    <3>3. /\ opening' \in [Page -> Nat] /\ opening'[p] = 0
          /\ \A q \in Page \ {p} : opening'[q] = opening[q]
      BY <2>1, <2>3, <3>2, Added
    <3> QED BY <2>1, <2>3, <3>1, <3>3
  <2> QED BY <1>1, <2>2, <2>3
<1>5. /\ inbox' \in [Page -> Seq(Event)] /\ CloseIsLast(inbox'[p]) /\ Closing(p)'
      /\ \A q \in Page \ {p} : inbox'[q] = inbox[q]
  <2>1. ~HasClose(inbox[p]) BY <1>3 DEF Closing, HasClose
  <2>2. /\ Append(inbox[p], "close") \in Seq(Event)
        /\ HasClose(Append(inbox[p], "close")) /\ CloseIsLast(Append(inbox[p], "close"))
    BY <1>2, <2>1, Closed
  <2>3. inbox'[p] = Append(inbox[p], "close") BY <1>1, <1>2
  <2> QED BY <1>1, <1>2, <2>2, <2>3 DEF Closing, HasClose
<1>6. Types' BY <1>0, <1>1, <1>4, <1>5 DEF Types
<1>7. Fits(p)' /\ Told(p)'
  <2>1. Trials(p)' = 1 BY <1>1, <1>3, <1>4, <1>5 DEF Trials
  <2> QED BY <1>0, <1>1, <1>5, <2>1 DEF Fits, Told
<1>out. Out(p)'
  <2>1. opening[p] \in Nat BY <1>0, OneOfFive
  <2>2. Trials(p) # 0 BY <1>1, <1>3, <2>1 DEF Trials
  <2>3. ~kicked[p] BY <1>0, <1>3, <2>2 DEF Out
  <2> QED BY <1>1, <1>5, <2>3 DEF Out
<1>8. ASSUME NEW q \in Page \ {p} PROVE Fits(q)' /\ Told(q)' /\ Out(q)'
  BY <1>0, <1>1, <1>4, <1>5, OthersKeep DEF Unmoved
<1> QED BY <1>out, <1>6, <1>7, <1>8 DEF IInv

(* A lost kick takes no close with it.                                     *)
LEMMA LossHolds ==
  ASSUME IInv, NEW p \in Page, KickIsLost(p)
  PROVE  IInv'
<1>0. Types /\ \A q \in Page : Fits(q) /\ Told(q) /\ Out(q) BY DEF IInv
<1>1. PICK i \in 1..Len(inbox[p]) :
        /\ inbox[p][i] = "kick"
        /\ inbox' = [inbox EXCEPT ![p] = SubSeq(@, 1, i - 1) \o SubSeq(@, i + 1, Len(@))]
  BY DEF KickIsLost
<1>2. UNCHANGED <<links, lookups, memory, im_obj, history>> BY DEF KickIsLost
<1>3. inbox \in [Page -> Seq(Event)] /\ inbox[p] \in Seq(Event) BY <1>0 DEF Types
<1>4. /\ inbox' = [inbox EXCEPT ![p] = inbox'[p]]
      /\ inbox'[p] = SubSeq(inbox[p], 1, i - 1) \o SubSeq(inbox[p], i + 1, Len(inbox[p]))
      /\ \A q \in Page \ {p} : inbox'[q] = inbox[q]
  BY <1>1, <1>3
<1>5. /\ inbox'[p] \in Seq(Event) /\ CloseIsLast(inbox'[p])
      /\ HasClose(inbox'[p]) <=> HasClose(inbox[p])
  <2>1. CloseIsLast(inbox[p]) BY <1>0 DEF Fits
  <2> QED BY <1>1, <1>3, <1>4, <2>1, Lost
<1>6. inbox' \in [Page -> Seq(Event)] BY <1>3, <1>4, <1>5
<1>7. Types' BY <1>0, <1>2, <1>6 DEF Types
<1>8. Fits(p)' /\ Told(p)'
  <2>1. Closing(p)' <=> Closing(p) BY <1>5 DEF Closing, HasClose
  <2>2. Trials(p)' = Trials(p) BY <1>2, <2>1 DEF Trials
  <2>3. inbox[p] # <<>>
    <3>1. Len(<<>>) = 0 BY EmptySeq
    <3> QED BY <1>1, <3>1
  <2> QED BY <1>0, <1>2, <1>5, <2>1, <2>2, <2>3 DEF Fits, Told
<1>out. Out(p)'
  <2>1. Closing(p) BY <1>0, <1>1 DEF Out, HasKick
  <2>2. Closing(p)' BY <1>5, <2>1 DEF Closing, HasClose
  <2>3. Trials(p)' = Trials(p) BY <1>2, <2>1, <2>2 DEF Trials
  <2> QED BY <1>0, <1>2, <2>2, <2>3 DEF Out
<1>9. ASSUME NEW q \in Page \ {p} PROVE Fits(q)' /\ Told(q)' /\ Out(q)'
  BY <1>0, <1>2, <1>4, OthersKeep DEF Unmoved
<1> QED BY <1>out, <1>7, <1>8, <1>9 DEF IInv

(* The head of a page's queue is taken out; the close is the last one.     *)
LEMMA Taken ==
  ASSUME Types, NEW p \in Page, Fits(p), NEW event, Handle(p, event)
  PROVE  /\ UNCHANGED <<net, open, opening, lookups, reloads, stale, cut>>
         /\ inbox' \in [Page -> Seq(Event)] /\ CloseIsLast(inbox'[p])
         /\ \A q \in Page \ {p} : inbox'[q] = inbox[q]
         /\ p \in open \/ Closing(p)
         /\ event # "close" => (Closing(p)' <=> Closing(p))
         /\ event = "close" => Closing(p) /\ inbox'[p] = <<>>
         /\ HasKick(inbox'[p]) \/ event = "kick" => HasKick(inbox[p])
<1>1. /\ inbox \in [Page -> Seq(Event)] /\ inbox[p] \in Seq(Event)
      /\ CloseIsLast(inbox[p])
  BY DEF Types, Fits
<1>2. /\ inbox[p] # <<>> /\ Head(inbox[p]) = event
      /\ inbox' = [inbox EXCEPT ![p] = Tail(@)]
      /\ UNCHANGED <<net, open, opening, lookups, reloads, stale, cut>>
  BY DEF Handle
<1>3. inbox'[p] = Tail(inbox[p]) BY <1>1, <1>2
<1>4. /\ Tail(inbox[p]) \in Seq(Event) /\ CloseIsLast(Tail(inbox[p]))
      /\ Head(inbox[p]) # "close" => (HasClose(Tail(inbox[p])) <=> HasClose(inbox[p]))
      /\ Head(inbox[p]) = "close" => Tail(inbox[p]) = <<>> /\ HasClose(inbox[p])
      /\ HasKick(Tail(inbox[p])) \/ Head(inbox[p]) = "kick" => HasKick(inbox[p])
  BY <1>1, <1>2, Handled
<1>5. inbox' \in [Page -> Seq(Event)] BY <1>1, <1>2, <1>4
<1>6. p \in open \/ Closing(p) BY <1>2 DEF Fits
<1> QED BY <1>1, <1>2, <1>3, <1>4, <1>5, <1>6 DEF Closing, HasClose

LEMMA ConnectHolds ==
  ASSUME IInv, NEW p \in Page, OnConnect(p)
  PROVE  IInv'
<1>0. Types /\ \A q \in Page : Fits(q) /\ Told(q) /\ Out(q) BY DEF IInv
<1>1. /\ Handle(p, "connect") /\ UNCHANGED <<timers, told, im_obj, kicked>>
      /\ isLogin' = [isLogin EXCEPT ![p] = TRUE]
      /\ reConnectCount' = [reConnectCount EXCEPT ![p] = 0]
  BY DEF OnConnect
<1>2. /\ UNCHANGED <<net, open, opening, lookups, reloads, stale, cut>>
      /\ inbox' \in [Page -> Seq(Event)] /\ CloseIsLast(inbox'[p])
      /\ \A q \in Page \ {p} : inbox'[q] = inbox[q]
      /\ p \in open \/ Closing(p)
      /\ Closing(p)' <=> Closing(p)
  BY <1>0, <1>1, Taken
<1>3. Types'
  <2>1. /\ isLogin' \in [Page -> BOOLEAN]
        /\ reConnectCount' \in [Page -> 0..(maxConnectCount + 1)]
    BY <1>0, <1>1, CountAssumption DEF Types
  <2> QED BY <1>0, <1>1, <1>2, <2>1 DEF Types
<1>4. Fits(p)' /\ Told(p)'
  <2>1. Trials(p)' = Trials(p) BY <1>1, <1>2 DEF Trials
  <2> QED BY <1>0, <1>1, <1>2, <2>1 DEF Fits, Told
<1>out. Out(p)'
  <2>1. Trials(p)' = Trials(p) BY <1>1, <1>2 DEF Trials
  <2>2. HasKick(inbox'[p]) => HasKick(inbox[p]) BY <1>0, <1>1, Taken
  <2> QED BY <1>0, <1>1, <1>2, <2>1, <2>2 DEF Out
<1>5. ASSUME NEW q \in Page \ {p} PROVE Fits(q)' /\ Told(q)' /\ Out(q)'
  <2>1. isLogin'[q] = isLogin[q] BY <1>0, <1>1 DEF Types
  <2> QED BY <1>0, <1>1, <1>2, <2>1, OthersKeep DEF Unmoved
<1> QED BY <1>out, <1>3, <1>4, <1>5 DEF IInv

LEMMA KickHolds ==
  ASSUME IInv, NEW p \in Page, OnKick(p)
  PROVE  IInv'
<1>0. Types /\ \A q \in Page : Fits(q) /\ Told(q) /\ Out(q) BY DEF IInv
<1>1. /\ Handle(p, "kick") /\ Tell(p, "kicked")
      /\ UNCHANGED <<isLogin, timers, reConnectCount>>
      /\ kicked' = [kicked EXCEPT ![p] = TRUE] /\ im_obj' = [im_obj EXCEPT ![p] = TRUE]
  BY DEF OnKick
<1>2. /\ UNCHANGED <<net, open, opening, lookups, reloads, stale, cut>>
      /\ inbox' \in [Page -> Seq(Event)] /\ CloseIsLast(inbox'[p])
      /\ \A q \in Page \ {p} : inbox'[q] = inbox[q]
      /\ p \in open \/ Closing(p)
      /\ Closing(p)' <=> Closing(p)
  BY <1>0, <1>1, Taken
<1>3. /\ told' \in [Page -> SUBSET {"kicked", "offline", "error"}]
      /\ told'[p] = told[p] \cup {"kicked"}
      /\ \A q \in Page \ {p} : told'[q] = told[q]
  BY <1>0, <1>1, Alerted
<1>4. Types'
  <2>1. kicked' \in [Page -> BOOLEAN] /\ im_obj' \in [Page -> BOOLEAN]
    BY <1>0, <1>1 DEF Types
  <2> QED BY <1>0, <1>1, <1>2, <1>3, <2>1 DEF Types
<1>5. Fits(p)' /\ Told(p)'
  <2>1. Trials(p)' = Trials(p) BY <1>1, <1>2 DEF Trials
  <2>2. "kicked" \in told'[p] BY <1>3
  <2>3. told'[p] \cap {"kicked", "error"} # {} BY <2>2
  <2>4. Fits(p)' BY <1>0, <1>1, <1>2, <2>1 DEF Fits
  <2> QED BY <2>2, <2>3, <2>4 DEF Told
<1>out. Out(p)'
  <2>1. HasKick(inbox[p]) BY <1>0, <1>1, Taken
  <2>2. Closing(p) BY <1>0, <2>1 DEF Out
  <2>3. im_obj'[p] = TRUE BY <1>0, <1>1 DEF Types
  <2> QED BY <1>2, <2>2, <2>3 DEF Out
<1>6. ASSUME NEW q \in Page \ {p} PROVE Fits(q)' /\ Told(q)' /\ Out(q)'
  <2>1. im_obj'[q] = im_obj[q] /\ kicked'[q] = kicked[q] BY <1>0, <1>1 DEF Types
  <2> QED BY <1>0, <1>1, <1>2, <1>3, <2>1, OthersKeep DEF Unmoved
<1> QED BY <1>out, <1>4, <1>5, <1>6 DEF IInv

(* The close of a kicked session ends the trials of a page that was told;  *)
(* any other close becomes a timer.                                        *)
LEMMA CloseHolds ==
  ASSUME IInv, NEW p \in Page, OnClose(p)
  PROVE  IInv'
<1>0. Types /\ \A q \in Page : Fits(q) /\ Told(q) /\ Out(q) BY DEF IInv
<1>1. /\ Handle(p, "close") /\ UNCHANGED kicked
      /\ isLogin' = [isLogin EXCEPT ![p] = FALSE] /\ im_obj' = [im_obj EXCEPT ![p] = FALSE]
      /\ \/ im_obj[p] /\ UNCHANGED <<timers, reConnectCount, told>>
         \/ /\ ~im_obj[p]
            /\ reConnectCount' = [reConnectCount EXCEPT ![p] = Raised(@)]
            /\ timers' = Add(timers, p, 1)
            /\ Tell(p, "offline") \/ UNCHANGED told
  BY DEF OnClose
<1>2. /\ UNCHANGED <<net, open, opening, lookups, reloads, stale, cut>>
      /\ inbox' \in [Page -> Seq(Event)] /\ CloseIsLast(inbox'[p])
      /\ \A q \in Page \ {p} : inbox'[q] = inbox[q]
      /\ Closing(p) /\ inbox'[p] = <<>>
  BY <1>0, <1>1, Taken
<1>3. /\ timers[p] = 0 /\ lookups'[p] = 0 /\ opening'[p] = 0 /\ p \notin open' /\ ~Closing(p)'
  <2>1. timers[p] = 0 /\ lookups[p] = 0 /\ opening[p] = 0 /\ p \notin open
    BY <1>0, <1>2, OneOfFive
  <2>2. Len(<<>>) = 0 BY EmptySeq
  <2> QED BY <1>2, <2>1, <2>2 DEF Closing
<1>4. /\ told' \in [Page -> SUBSET {"kicked", "offline", "error"}]
      /\ told[p] \subseteq told'[p] /\ \A q \in Page \ {p} : told'[q] = told[q]
  <2>1. CASE told' = told BY <1>0, <2>1 DEF Types
  <2>2. CASE Tell(p, "offline")
    <3>1. /\ told' \in [Page -> SUBSET {"kicked", "offline", "error"}]
          /\ told'[p] = told[p] \cup {"offline"}
          /\ \A q \in Page \ {p} : told'[q] = told[q]
      BY <1>0, <2>2, Alerted
    <3> QED BY <3>1
  <2> QED BY <1>1, <2>1, <2>2
<1>5. /\ timers' \in [Page -> Nat] /\ \A q \in Page \ {p} : timers'[q] = timers[q]
      /\ timers'[p] = IF im_obj[p] THEN 0 ELSE 1
  <2>1. timers \in [Page -> Nat] BY <1>0 DEF Types
  <2>2. CASE im_obj[p] BY <1>1, <1>3, <2>1, <2>2
  <2>3. CASE ~im_obj[p]
    <3>1. timers' = Add(timers, p, 1) /\ timers[p] + 1 = 1 BY <1>1, <1>3, <2>3
    <3>2. /\ timers' \in [Page -> Nat] /\ timers'[p] = timers[p] + 1
          /\ \A q \in Page \ {p} : timers'[q] = timers[q]
      BY <2>1, <3>1, Added
    <3> QED BY <2>3, <3>1, <3>2
  <2> QED BY <2>2, <2>3
<1>6. Types'
  <2>1. reConnectCount' \in [Page -> 0..(maxConnectCount + 1)]
    <3>1. /\ reConnectCount \in [Page -> 0..(maxConnectCount + 1)]
          /\ reConnectCount[p] \in 0..(maxConnectCount + 1)
      BY <1>0 DEF Types
    <3>2. Raised(reConnectCount[p]) \in 0..(maxConnectCount + 1)
      BY <3>1, CountAssumption DEF Raised
    <3> QED BY <1>1, <3>1, <3>2
  <2>2. isLogin' \in [Page -> BOOLEAN] /\ im_obj' \in [Page -> BOOLEAN]
    BY <1>0, <1>1 DEF Types
  <2> QED BY <1>0, <1>1, <1>2, <1>4, <1>5, <2>1, <2>2 DEF Types
<1>7. Fits(p)' /\ Told(p)'
  <2>1. im_obj'[p] = FALSE /\ isLogin'[p] = FALSE BY <1>0, <1>1 DEF Types
  <2>2. Trials(p)' = IF im_obj[p] THEN 0 ELSE 1 BY <1>3, <1>5 DEF Trials
  <2>3. Fits(p)' BY <1>2, <2>1, <2>2 DEF Fits
  <2>4. im_obj[p] => "kicked" \in told'[p] \/ stale'[p] BY <1>0, <1>2, <1>4 DEF Told
  <2>5. im_obj[p] => told'[p] \cap {"kicked", "error"} # {} \/ stale'[p] BY <2>4
  <2>6. Told(p)' BY <2>1, <2>2, <2>5 DEF Told
  <2> QED BY <2>3, <2>6
<1>out. Out(p)'
  <2>1. kicked[p] => im_obj[p]
    <3>1. Trials(p) # 0 BY <1>0, <1>2, OneOfFive DEF Trials
    <3> QED BY <1>0, <3>1 DEF Out
  <2>2. im_obj[p] => Trials(p)' = 0 BY <1>3, <1>5 DEF Trials
  <2>3. ~HasKick(inbox'[p])
    <3>1. Len(<<>>) = 0 BY EmptySeq
    <3> QED BY <1>2, <3>1 DEF HasKick
  <2> QED BY <1>1, <2>1, <2>2, <2>3 DEF Out
<1>8. ASSUME NEW q \in Page \ {p} PROVE Fits(q)' /\ Told(q)' /\ Out(q)'
  <2>1. isLogin'[q] = isLogin[q] /\ im_obj'[q] = im_obj[q] BY <1>0, <1>1 DEF Types
  <2> QED BY <1>0, <1>1, <1>2, <1>4, <1>5, <2>1, OthersKeep DEF Unmoved
<1> QED BY <1>out, <1>6, <1>7, <1>8 DEF IInv

(* A page loaded again looks a server up, and knows nothing but im_obj.    *)
LEMMA ReloadHolds ==
  ASSUME IInv, NEW p \in Page, Reload(p)
  PROVE  IInv'
<1>0. Types /\ \A q \in Page : Fits(q) /\ Told(q) /\ Out(q) BY DEF IInv
<1>1. /\ reloads[p] < MaxReloads /\ reloads' = Add(reloads, p, 1)
      /\ open' = open \ {p} /\ inbox' = [inbox EXCEPT ![p] = <<>>]
      /\ isLogin' = [isLogin EXCEPT ![p] = FALSE]
      /\ timers' = [timers EXCEPT ![p] = 0] /\ lookups' = [lookups EXCEPT ![p] = 1]
      /\ opening' = [opening EXCEPT ![p] = 0]
      /\ reConnectCount' = [reConnectCount EXCEPT ![p] = 0]
      /\ told' = [told EXCEPT ![p] = {}] /\ kicked' = [kicked EXCEPT ![p] = FALSE]
      /\ stale' = [stale EXCEPT ![p] = im_obj[p]] /\ cut' = [cut EXCEPT ![p] = FALSE]
      /\ UNCHANGED <<net, im_obj>>
  BY DEF Reload
<1>2. <<>> \in Seq(Event) /\ Len(<<>>) = 0 BY EmptySeq
<1>3. Types'
  <2>1. reloads' \in [Page -> 0..MaxReloads] BY <1>0, <1>1, CountAssumption DEF Types, Add
  <2>2. inbox' \in [Page -> Seq(Event)] BY <1>0, <1>1, <1>2 DEF Types
  <2>3. /\ timers' \in [Page -> Nat] /\ lookups' \in [Page -> Nat]
        /\ opening' \in [Page -> Nat]
    BY <1>0, <1>1 DEF Types
  <2>4. /\ isLogin' \in [Page -> BOOLEAN] /\ kicked' \in [Page -> BOOLEAN]
        /\ stale' \in [Page -> BOOLEAN] /\ cut' \in [Page -> BOOLEAN]
    BY <1>0, <1>1 DEF Types
  <2>5. /\ reConnectCount' \in [Page -> 0..(maxConnectCount + 1)]
        /\ told' \in [Page -> SUBSET {"kicked", "offline", "error"}]
    BY <1>0, <1>1, CountAssumption DEF Types
  <2>6. open' \subseteq Page /\ net' \in BOOLEAN /\ im_obj' \in [Page -> BOOLEAN]
    BY <1>0, <1>1 DEF Types
  <2> QED BY <2>1, <2>2, <2>3, <2>4, <2>5, <2>6 DEF Types
<1>4. Fits(p)' /\ Told(p)' /\ Out(p)'
  <2>1. /\ p \notin open' /\ inbox'[p] = <<>> /\ isLogin'[p] = FALSE /\ timers'[p] = 0
        /\ lookups'[p] = 1 /\ opening'[p] = 0 /\ kicked'[p] = FALSE
        /\ stale'[p] = im_obj[p] /\ im_obj'[p] = im_obj[p]
    BY <1>0, <1>1 DEF Types
  <2>2. ~Closing(p)' BY <1>2, <2>1 DEF Closing
  <2>3. Trials(p)' = 1 BY <2>1, <2>2 DEF Trials
  <2> QED BY <1>2, <2>1, <2>2, <2>3 DEF Fits, Told, Out, CloseIsLast, HasKick
<1>5. ASSUME NEW q \in Page \ {p} PROVE Fits(q)' /\ Told(q)' /\ Out(q)'
  <2>1. Unmoved(q) BY <1>0, <1>1 DEF Types, Unmoved
  <2> QED BY <1>0, <2>1, OthersKeep
<1> QED BY <1>3, <1>4, <1>5 DEF IInv

LEMMA NextHolds == IInv /\ [Next]_vars => IInv'
<1> SUFFICES ASSUME IInv, [Next]_vars PROVE IInv' OBVIOUS
<1>1. CASE NetworkChanges \/ UNCHANGED vars
  <2>1. UNCHANGED <<open, opening, inbox, lookups, memory, im_obj, history>>
        /\ net' \in BOOLEAN
    BY <1>1 DEF NetworkChanges, vars, IInv, Types
  <2>2. Types' BY <2>1 DEF IInv, Types
  <2>3. \A q \in Page : Unmoved(q) BY <2>1 DEF Unmoved
  <2> QED BY <2>2, <2>3, OthersKeep DEF IInv
<1>2. ASSUME NEW p \in Page, Progress(p) \/ KickIsLost(p) \/ Reload(p) PROVE IInv'
  <2>1. CASE LookupDone(p) \/ LookupFails(p) \/ LookupIsCut(p) \/ TimerFires(p) BY <2>1, AttemptHolds
  <2>2. CASE SocketOpens(p) BY <2>2, OpenHolds
  <2>3. CASE SocketFails(p) BY <2>3, FailHolds
  <2>4. CASE OnConnect(p) BY <2>4, ConnectHolds
  <2>5. CASE OnKick(p) BY <2>5, KickHolds
  <2>6. CASE OnClose(p) BY <2>6, CloseHolds
  <2>7. CASE KickIsLost(p) BY <2>7, LossHolds
  <2>8. CASE Reload(p) BY <2>8, ReloadHolds
  <2> QED
    BY <1>2, <2>1, <2>2, <2>3, <2>4, <2>5, <2>6, <2>7, <2>8 DEF Progress, onClientEvent
<1> QED BY <1>1, <1>2 DEF Next

LEMMA Invariance == Spec => []IInv
BY InitHolds, NextHolds, PTL DEF Spec

(* No page ever runs two connections or attempts, for any number of pages  *)
(* of the account.                                                         *)
THEOREM OneAttemptAlways == Spec => []OneAttempt
<1>1. IInv => OneAttempt
  <2> SUFFICES ASSUME IInv, NEW p \in Page
               PROVE  Trials(p) <= 1 /\ (timers[p] > 0 => ~isLogin[p])
    BY DEF OneAttempt
  <2>1. Types /\ Fits(p) BY DEF IInv
  <2>2. timers[p] > 0 => p \notin open /\ ~Closing(p) BY <2>1, OneOfFive
  <2> QED BY <2>1, <2>2 DEF Fits
<1> QED BY <1>1, Invariance, PTL

(* A page that no longer tries was kicked or refused an address, and has   *)
(* said so; or it was loaded between a kick and its close, or its lookup   *)
(* was closed without an answer: a close alone never ends the attempts.    *)
THEOREM EndsForAReason == Spec => []StopsForAReason
<1>1. IInv => StopsForAReason BY DEF IInv, Told, StopsForAReason
<1> QED BY <1>1, Invariance, PTL

(* A page that handled a kick never looks a server up again by itself.     *)
THEOREM KickIsFinal == Spec => KickedStaysOut
<1>1. IInv /\ IInv' =>
        [\A p \in Page : kicked[p] /\ kicked'[p] => lookups'[p] = 0]_vars
  <2> SUFFICES ASSUME IInv', NEW p \in Page, kicked'[p] PROVE lookups'[p] = 0
    OBVIOUS
  <2>1. Types' /\ Fits(p)' /\ Out(p)' BY DEF IInv
  <2>2. Trials(p)' = 0 \/ Closing(p)' BY <2>1 DEF Out
  <2>3. /\ timers'[p] \in Nat /\ lookups'[p] \in Nat /\ opening'[p] \in Nat
        /\ Trials(p)' <= 1
    BY <2>1 DEF Types, Fits
  <2> QED BY <2>2, <2>3 DEF Trials
<1> QED BY <1>1, Invariance, PTL DEF KickedStaysOut

(* Every variable keeps its type.                                          *)
THEOREM TypesHold == Spec => []TypeOK
<1>1. IInv => TypeOK
  <2> SUFFICES ASSUME IInv PROVE TypeOK OBVIOUS
  <2>1. Types /\ \A p \in Page : Fits(p) BY DEF IInv
  <2>2. ASSUME NEW p \in Page
        PROVE timers[p] \in 0..1 /\ lookups[p] \in 0..1 /\ opening[p] \in 0..1
    BY <2>1, OneOfFive
  <2>3. /\ timers \in [Page -> 0..1] /\ lookups \in [Page -> 0..1]
        /\ opening \in [Page -> 0..1]
    BY <2>1, <2>2 DEF Types
  <2> QED BY <2>1, <2>3 DEF Types, TypeOK, Event
<1> QED BY <1>1, Invariance, PTL
==============================================================================
