--------------------------- MODULE RgbLightProofs ----------------------------
(***************************************************************************)
(* The update_flag protocol of RGB_light.c loses no update, for any number *)
(* of tasks, channels and colours: proved from UpdateIsPending, which is   *)
(* inductive because set_duty raises the flag after it records a duty, and *)
(* RGB_light_start lowers the flag before it starts the PWM.  And while no *)
(* two calls overlap, the lamp has the colour of the last one: proved from *)
(* what a single call has done when it is at a channel (Sole).             *)
(***************************************************************************)
EXTENDS RgbLight, TLAPS

IInv == TypeOK /\ UpdateIsPending

USE DEF history

LEMMA BlackIsDuties == Black \in Duties
BY ZeroAssumption DEF Black, Duties

LEMMA InitHolds == Init => IInv
<1> SUFFICES ASSUME Init PROVE IInv OBVIOUS
<1>1. 1 \in Channel BY NChannelAssumption DEF Channel
<1>2. pc \in [Caller -> Label] BY DEF Init, Label
<1>3. want \in [Caller -> Duties] BY BlackIsDuties DEF Init
<1>4. ch \in [Caller -> Channel] /\ got \in [Caller -> Duty]
  BY <1>1, ZeroAssumption DEF Init
<1>5. TypeOK BY <1>2, <1>3, <1>4, BlackIsDuties DEF Init, TypeOK
<1>6. UpdateIsPending BY DEF Init, UpdateIsPending
<1> QED BY <1>5, <1>6 DEF IInv

LEMMA BeginHolds ==
  ASSUME IInv, NEW c \in Caller, NEW colour \in Duties, Begin(c, colour)
  PROVE  IInv'
<1> USE DEF IInv
<1>1. TypeOK'
  BY NChannelAssumption
     DEF TypeOK, Begin, At, Goto, Label, light, Channel
<1>2. UpdateIsPending'
  BY DEF TypeOK, UpdateIsPending, Begin, At, Goto, light
<1> QED BY <1>1, <1>2

LEMMA NextChannelType ==
  ASSUME TypeOK, NEW c \in Caller, NextChannel(c)
  PROVE  /\ ch' \in [Caller -> Channel]
         /\ pc' = [pc EXCEPT ![c] = "compare"] \/ pc' = [pc EXCEPT ![c] = "test"]
BY NChannelAssumption DEF TypeOK, NextChannel, Goto, Channel

LEMMA StepHolds ==
  ASSUME IInv, NEW c \in Caller, Step(c)
  PROVE  IInv'
<1> USE DEF IInv
<1>1. CASE Compare(c)
  <2>1. \/ /\ pc' = [pc EXCEPT ![c] = "set"] /\ UNCHANGED ch
        \/ NextChannel(c)
    BY <1>1 DEF Compare, Goto
  <2>2. /\ ch' \in [Caller -> Channel]
        /\ \E l \in {"set", "compare", "test"} : pc' = [pc EXCEPT ![c] = l]
    BY <2>1, NextChannelType DEF TypeOK
  <2>3. UNCHANGED <<cache, update_flag, recorded, shown, want, got, history>> /\ pc[c] = "compare"
    BY <1>1 DEF Compare, light, At
  <2>4. TypeOK' BY <2>2, <2>3 DEF TypeOK, Label
  <2>5. UpdateIsPending' BY <2>2, <2>3 DEF TypeOK, UpdateIsPending
  <2> QED BY <2>4, <2>5
<1>2. CASE SetDuty(c)
  <2>1. TypeOK' BY <1>2 DEF TypeOK, SetDuty, At, Goto, Label, Duties
  <2>2. UpdateIsPending' BY <1>2 DEF TypeOK, UpdateIsPending, SetDuty, At, Goto
  <2> QED BY <2>1, <2>2
<1>3. CASE RaiseFlag(c)
  <2>1. TypeOK' BY <1>3 DEF TypeOK, RaiseFlag, At, Goto, Label
  <2>2. UpdateIsPending' BY <1>3 DEF TypeOK, UpdateIsPending, RaiseFlag, At, Goto
  <2> QED BY <2>1, <2>2
<1>4. CASE GetDuty(c)
  <2>1. recorded[ch[c]] \in Duty BY DEF TypeOK, Duties
  <2>2. TypeOK' BY <1>4, <2>1 DEF TypeOK, GetDuty, At, Goto, Label, light
  <2>3. UpdateIsPending' BY <1>4 DEF TypeOK, UpdateIsPending, GetDuty, At, Goto, light
  <2> QED BY <2>2, <2>3
<1>5. CASE Store(c)
  <2>1. NextChannel(c) /\ pc[c] = "store" BY <1>5 DEF Store, At
  <2>2. /\ ch' \in [Caller -> Channel]
        /\ \E l \in {"compare", "test"} : pc' = [pc EXCEPT ![c] = l]
    BY <2>1, NextChannelType
  <2>3. cache' \in Duties BY <1>5 DEF TypeOK, Store, Duties
  <2>4. UNCHANGED <<update_flag, recorded, shown, want, got, history>>
    BY <1>5 DEF Store
  <2>5. TypeOK' BY <2>2, <2>3, <2>4 DEF TypeOK, Label
  <2>6. UpdateIsPending' BY <2>1, <2>2, <2>4 DEF TypeOK, UpdateIsPending
  <2> QED BY <2>5, <2>6
<1>6. CASE TestFlag(c)
  <2>1. TypeOK' BY <1>6 DEF TypeOK, TestFlag, At, Goto, Label, light
  <2>2. UpdateIsPending' BY <1>6 DEF TypeOK, UpdateIsPending, TestFlag, At, Goto, light
  <2> QED BY <2>1, <2>2
<1>7. CASE ClearFlag(c)
  <2>1. TypeOK' BY <1>7 DEF TypeOK, ClearFlag, At, Goto, Label
  <2>2. UpdateIsPending' BY <1>7 DEF TypeOK, UpdateIsPending, ClearFlag, At, Goto
  <2> QED BY <2>1, <2>2
<1>8. CASE StartPwm(c)
  <2>1. TypeOK' BY <1>8 DEF TypeOK, StartPwm, At, Goto, Label
  <2>2. UpdateIsPending' BY <1>8 DEF TypeOK, UpdateIsPending, StartPwm, At, Goto
  <2> QED BY <2>1, <2>2
<1> QED BY <1>1, <1>2, <1>3, <1>4, <1>5, <1>6, <1>7, <1>8 DEF Step

LEMMA SparkHolds ==
  ASSUME IInv, NEW colour \in Duties, Spark(colour)
  PROVE  IInv'
<1> USE DEF IInv
<1>1. colour \in Duties OBVIOUS
<1>2. recorded' \in Duties
  BY <1>1 DEF Spark, TypeOK, Duties
<1>3. /\ cache' = colour /\ update_flag' = FALSE /\ lastSet' = colour /\ alone' \in BOOLEAN
      /\ shown' = IF update_flag \/ colour # cache THEN recorded' ELSE shown
      /\ UNCHANGED <<pc, want, ch, got>>
  BY DEF Spark, callers, TypeOK
<1>4. TypeOK' BY <1>1, <1>2, <1>3 DEF TypeOK
<1>5. CASE colour = cache
  <2>1. recorded' = recorded
    BY <1>5 DEF Spark, TypeOK, Duties
  <2> QED BY <1>3, <1>4, <2>1 DEF UpdateIsPending, TypeOK
<1>6. CASE colour # cache
  BY <1>3, <1>4, <1>6 DEF UpdateIsPending
<1> QED BY <1>5, <1>6

THEOREM InvariantHolds == Spec => []IInv
<1>1. Init => IInv BY InitHolds
<1>2. IInv /\ [Next]_lightVars => IInv'
  <2> SUFFICES ASSUME IInv, [Next]_lightVars PROVE IInv' OBVIOUS
  <2>1. ASSUME NEW c \in Caller, Step(c) PROVE IInv' BY <2>1, StepHolds
  <2>2. ASSUME NEW c \in Caller, NEW colour \in Palette, Begin(c, colour)
        PROVE  IInv'
    BY <2>2, BeginHolds, PaletteAssumption
  <2>3. ASSUME NEW colour \in SparkPalette, Spark(colour) PROVE IInv'
    BY <2>3, SparkHolds, PaletteAssumption
  <2>4. CASE UNCHANGED lightVars
    BY <2>4 DEF lightVars, light, callers, history, IInv, TypeOK, UpdateIsPending
  <2> QED BY <2>1, <2>2, <2>3, <2>4 DEF Next
<1> QED BY <1>1, <1>2, PTL DEF Spec

(* A duty recorded but not on the pins is always announced, by the flag or *)
(* by a task that is about to raise it or to start the PWM.                *)
THEOREM UpdateAlwaysPending == Spec => []UpdateIsPending
<1>1. IInv => UpdateIsPending BY DEF IInv
<1> QED BY <1>1, InvariantHolds, PTL

(* The unlocked update_flag of RGB_light.c loses no update: when every     *)
(* caller has left the driver, the pins carry the recorded duties.         *)
THEOREM UpdateNeverLost == Spec => []NoLostUpdate
<1>1. IInv => NoLostUpdate
  BY DEF IInv, UpdateIsPending, NoLostUpdate, Quiet, At
<1> QED BY <1>1, InvariantHolds, PTL

(* Every variable of the driver keeps its type.                            *)
THEOREM TypesHold == Spec => []TypeOK
<1>1. IInv => TypeOK BY DEF IInv
<1> QED BY <1>1, InvariantHolds, PTL
------------------------------------------------------------------------------
(* The channels a call has passed are recorded and cached as wanted: at the*)
(* others, and while it has not recorded the one it is at, the cache is    *)
(* what is recorded.                                                       *)
Sole(c) ==
  /\ pc[c] # "idle" => want[c] = lastSet
  /\ pc[c] \in {"compare", "set", "flag", "get", "store"} =>
       \A k \in Channel : /\ k # ch[c] => cache[k] = recorded[k]
                          /\ k < ch[c] => recorded[k] = want[c][k]
  /\ pc[c] \in {"compare", "set"} => cache[ch[c]] = recorded[ch[c]]
  /\ pc[c] \in {"flag", "get", "store"} => recorded[ch[c]] = want[c][ch[c]]
  /\ pc[c] = "store" => got[c] = want[c][ch[c]]
  /\ pc[c] \in {"test", "clear", "start"} =>
       \A k \in Channel : cache[k] = want[c][k] /\ recorded[k] = want[c][k]

Settled == \A k \in Channel : cache[k] = lastSet[k] /\ recorded[k] = lastSet[k]

NoOverlap ==
  alone => /\ \A c, d \in Caller : pc[c] # "idle" /\ pc[d] # "idle" => c = d
           /\ \A c \in Caller : Sole(c)
           /\ Quiet => Settled

(* A call that passes a channel it has set, or found as wanted.            *)
LEMMA PassChannel ==
  ASSUME TypeOK, NEW c \in Caller, Sole(c), NextChannel(c),
         pc[c] \in {"compare", "store"}, want' = want, recorded' = recorded,
         lastSet' = lastSet,
         cache'[ch[c]] = want[c][ch[c]] /\ recorded[ch[c]] = want[c][ch[c]],
         \A k \in Channel : k # ch[c] => cache'[k] = cache[k]
  PROVE  Sole(c)' /\ pc'[c] # "idle" /\ \A d \in Caller : d # c => pc'[d] = pc[d]
<1>1. ch[c] \in Channel /\ pc \in [Caller -> Label] /\ ch \in [Caller -> Channel]
  BY DEF TypeOK
<1>2. ch[c] \in Int /\ NChannel \in Int /\ \A k \in Channel : k \in Int /\ k <= NChannel
  BY <1>1, NChannelAssumption DEF Channel
<1>3. \A k \in Channel : k < ch[c] => cache'[k] = recorded[k] /\ recorded[k] = want[c][k]
  <2> TAKE k \in Channel
  <2> HAVE k < ch[c]
  <2>1. k # ch[c] BY <1>2
  <2>2. cache[k] = recorded[k] /\ recorded[k] = want[c][k] BY <2>1 DEF Sole
  <2> QED BY <2>1, <2>2
<1>4. \A k \in Channel : k # ch[c] => cache'[k] = recorded[k] BY DEF Sole
<1>5. want[c] = lastSet BY DEF Sole
<1>6. CASE ch[c] < NChannel
  <2>1. pc' = [pc EXCEPT ![c] = "compare"] /\ ch' = [ch EXCEPT ![c] = ch[c] + 1]
    BY <1>6 DEF NextChannel, Goto
  <2>2. pc'[c] = "compare" /\ ch'[c] = ch[c] + 1 /\ \A d \in Caller : d # c => pc'[d] = pc[d]
    BY <1>1, <2>1
  <2>3. ch[c] + 1 \in Channel BY <1>1, <1>2, <1>6 DEF Channel
  <2>4. \A k \in Channel : k < ch'[c] => k < ch[c] \/ k = ch[c] BY <1>2, <2>2
  <2>5. \A k \in Channel : cache'[k] = recorded'[k] /\ (k < ch'[c] => recorded'[k] = want'[c][k])
    BY <1>3, <1>4, <2>4
  <2> QED BY <1>5, <2>2, <2>3, <2>5 DEF Sole
<1>7. CASE ~(ch[c] < NChannel)
  <2>1. pc' = [pc EXCEPT ![c] = "test"] /\ ch' = ch BY <1>7 DEF NextChannel, Goto
  <2>2. pc'[c] = "test" /\ \A d \in Caller : d # c => pc'[d] = pc[d] BY <1>1, <2>1
  <2>3. \A k \in Channel : k < ch[c] \/ k = ch[c] BY <1>2, <1>7
  <2>4. \A k \in Channel : cache'[k] = want'[c][k] /\ recorded'[k] = want'[c][k]
    BY <1>3, <2>3
  <2> QED BY <1>5, <2>2, <2>4 DEF Sole
<1> QED BY <1>6, <1>7

(* A step of a call that is alone.                                         *)
LEMMA SoleStep ==
  ASSUME TypeOK, NEW c \in Caller, Sole(c), Step(c)
  PROVE  /\ Sole(c)' /\ lastSet' = lastSet /\ alone' = alone
         /\ pc[c] # "idle" /\ \A d \in Caller : d # c => pc'[d] = pc[d]
         /\ pc'[c] = "idle" => Settled'
<1>1. ch[c] \in Channel /\ pc \in [Caller -> Label] /\ recorded \in Duties /\ cache \in Duties
      /\ got \in [Caller -> Duty]
  BY DEF TypeOK
<1>2. lastSet' = lastSet /\ alone' = alone
  BY DEF Step, history, Compare, SetDuty, RaiseFlag, GetDuty, Store, TestFlag, ClearFlag, StartPwm
<1>3. CASE Compare(c)
  <2>1. pc[c] = "compare" /\ UNCHANGED <<cache, recorded, want, got>>
    BY <1>3 DEF Compare, At, light
  <2>2. CASE want[c][ch[c]] # cache[ch[c]]
    <3>1. pc' = [pc EXCEPT ![c] = "set"] /\ ch' = ch BY <1>3, <2>2 DEF Compare, Goto
    <3>2. pc'[c] = "set" /\ \A d \in Caller : d # c => pc'[d] = pc[d] BY <1>1, <3>1
    <3> QED BY <1>2, <2>1, <3>1, <3>2 DEF Sole
  <2>3. CASE want[c][ch[c]] = cache[ch[c]]
    <3>1. NextChannel(c) BY <1>3, <2>3 DEF Compare
    <3>2. cache[ch[c]] = recorded[ch[c]] BY <2>1 DEF Sole
    <3>3. /\ cache'[ch[c]] = want[c][ch[c]] /\ recorded[ch[c]] = want[c][ch[c]]
          /\ \A k \in Channel : k # ch[c] => cache'[k] = cache[k]
      BY <2>1, <2>3, <3>2
    <3>4. Sole(c)' /\ pc'[c] # "idle" /\ \A d \in Caller : d # c => pc'[d] = pc[d]
      BY <1>2, <2>1, <3>1, <3>3, PassChannel
    <3> QED BY <1>2, <2>1, <3>4
  <2> QED BY <2>2, <2>3
<1>4. CASE SetDuty(c)
  <2>1. /\ pc[c] = "set" /\ pc' = [pc EXCEPT ![c] = "flag"] /\ UNCHANGED <<cache, want, ch, got>>
        /\ recorded' = [recorded EXCEPT ![ch[c]] = want[c][ch[c]]]
    BY <1>4 DEF SetDuty, At, Goto
  <2>2. pc'[c] = "flag" /\ \A d \in Caller : d # c => pc'[d] = pc[d] BY <1>1, <2>1
  <2>3. /\ recorded'[ch[c]] = want[c][ch[c]]
        /\ \A k \in Channel : k # ch[c] => recorded'[k] = recorded[k]
    BY <1>1, <2>1 DEF Duties
  <2>4. \A k \in Channel : k < ch[c] => k # ch[c]
    BY <1>1, NChannelAssumption DEF Channel
  <2> QED BY <1>2, <2>1, <2>2, <2>3, <2>4 DEF Sole
<1>5. CASE RaiseFlag(c)
  <2>1. /\ pc[c] = "flag" /\ pc' = [pc EXCEPT ![c] = "get"]
        /\ UNCHANGED <<cache, recorded, want, ch, got>>
    BY <1>5 DEF RaiseFlag, At, Goto
  <2>2. pc'[c] = "get" /\ \A d \in Caller : d # c => pc'[d] = pc[d] BY <1>1, <2>1
  <2> QED BY <1>2, <2>1, <2>2 DEF Sole
<1>6. CASE GetDuty(c)
  <2>1. /\ pc[c] = "get" /\ pc' = [pc EXCEPT ![c] = "store"]
        /\ UNCHANGED <<cache, recorded, want, ch>>
        /\ got' = [got EXCEPT ![c] = recorded[ch[c]]]
    BY <1>6 DEF GetDuty, At, Goto, light
  <2>2. /\ pc'[c] = "store" /\ got'[c] = recorded[ch[c]]
        /\ \A d \in Caller : d # c => pc'[d] = pc[d]
    BY <1>1, <2>1
  <2> QED BY <1>2, <2>1, <2>2 DEF Sole
<1>7. CASE Store(c)
  <2>1. /\ pc[c] = "store" /\ NextChannel(c) /\ UNCHANGED <<recorded, want, got>>
        /\ cache' = [cache EXCEPT ![ch[c]] = got[c]]
    BY <1>7 DEF Store, At
  <2>2. got[c] = want[c][ch[c]] /\ recorded[ch[c]] = want[c][ch[c]] BY <2>1 DEF Sole
  <2>3. /\ cache'[ch[c]] = want[c][ch[c]]
        /\ \A k \in Channel : k # ch[c] => cache'[k] = cache[k]
    BY <1>1, <2>1, <2>2 DEF Duties
  <2>4. Sole(c)' /\ pc'[c] # "idle" /\ \A d \in Caller : d # c => pc'[d] = pc[d]
    BY <1>2, <2>1, <2>2, <2>3, PassChannel
  <2> QED BY <1>2, <2>1, <2>4
<1>8. CASE TestFlag(c) \/ ClearFlag(c) \/ StartPwm(c)
  <2>1. /\ pc[c] \in {"test", "clear", "start"} /\ UNCHANGED <<cache, recorded, want, ch, got>>
        /\ \E l \in {"clear", "start", "idle"} : pc' = [pc EXCEPT ![c] = l]
    BY <1>8 DEF TestFlag, ClearFlag, StartPwm, At, Goto, light
  <2>2. pc'[c] \in {"clear", "start", "idle"} /\ \A d \in Caller : d # c => pc'[d] = pc[d]
    BY <1>1, <2>1
  <2>3. want[c] = lastSet /\ \A k \in Channel : cache[k] = want[c][k] /\ recorded[k] = want[c][k]
    BY <2>1 DEF Sole
  <2> QED BY <1>2, <2>1, <2>2, <2>3 DEF Sole, Settled
<1> QED BY <1>3, <1>4, <1>5, <1>6, <1>7, <1>8 DEF Step

LEMMA OverlapStep ==
  ASSUME TypeOK, NoOverlap, NEW c \in Caller, Step(c)
  PROVE  NoOverlap'
<1> SUFFICES ASSUME alone' PROVE NoOverlap' BY DEF NoOverlap
<1>1. alone BY DEF Step, history, Compare, SetDuty, RaiseFlag, GetDuty, Store, TestFlag,
                   ClearFlag, StartPwm
<1>2. \A d \in Caller : Sole(d) BY <1>1 DEF NoOverlap
<1>3. /\ Sole(c)' /\ lastSet' = lastSet
      /\ pc[c] # "idle" /\ \A d \in Caller : d # c => pc'[d] = pc[d]
      /\ pc'[c] = "idle" => Settled'
  BY <1>2, SoleStep
<1>4. \A d \in Caller : d # c => pc'[d] = "idle"
  BY <1>1, <1>3 DEF NoOverlap
<1>5. \A d \in Caller : d # c => Sole(d)' BY <1>4 DEF Sole
<1>6. Quiet' => Settled' BY <1>3 DEF Quiet, At
<1> QED BY <1>3, <1>4, <1>5, <1>6 DEF NoOverlap

LEMMA OverlapBegin ==
  ASSUME TypeOK, NoOverlap, NEW c \in Caller, NEW colour, Begin(c, colour)
  PROVE  NoOverlap'
<1> SUFFICES ASSUME alone' PROVE NoOverlap' BY DEF NoOverlap
<1>1. /\ alone /\ Quiet /\ lastSet' = colour /\ UNCHANGED <<cache, recorded>>
      /\ pc' = [pc EXCEPT ![c] = "compare"] /\ want' = [want EXCEPT ![c] = colour]
      /\ ch' = [ch EXCEPT ![c] = 1]
  BY DEF Begin, Goto, light
<1>2. /\ pc'[c] = "compare" /\ want'[c] = colour /\ ch'[c] = 1
      /\ \A d \in Caller : d # c => pc'[d] = "idle"
  BY <1>1 DEF TypeOK, Quiet, At
<1>3. \A k \in Channel : cache'[k] = recorded'[k] BY <1>1 DEF NoOverlap, Settled
<1>4. 1 \in Channel /\ \A k \in Channel : ~(k < 1) BY NChannelAssumption DEF Channel
<1>5. Sole(c)' BY <1>1, <1>2, <1>3, <1>4 DEF Sole
<1>6. \A d \in Caller : d # c => Sole(d)' BY <1>2 DEF Sole
<1>7. ~Quiet' BY <1>2 DEF Quiet, At
<1> QED BY <1>2, <1>5, <1>6, <1>7 DEF NoOverlap

LEMMA OverlapSpark ==
  ASSUME TypeOK, NoOverlap, NEW colour, Spark(colour)
  PROVE  NoOverlap'
<1> SUFFICES ASSUME alone' PROVE NoOverlap' BY DEF NoOverlap
<1>1. /\ alone /\ Quiet /\ lastSet' = colour /\ cache' = colour /\ UNCHANGED pc
      /\ recorded' = [k \in Channel |-> IF colour[k] # cache[k] THEN colour[k] ELSE recorded[k]]
  BY DEF Spark, callers
<1>2. \A k \in Channel : cache[k] = recorded[k] BY <1>1 DEF NoOverlap, Settled
<1>3. Settled' BY <1>1, <1>2 DEF Settled
<1>4. \A d \in Caller : pc'[d] = "idle" BY <1>1 DEF Quiet, At
<1>5. \A d \in Caller : Sole(d)' BY <1>4 DEF Sole
<1> QED BY <1>3, <1>4, <1>5 DEF NoOverlap

(* As long as no two calls of the driver have overlapped, the lamp at rest *)
(* has the colour of the last call, for any number of channels: the cached *)
(* duties that let a call skip a channel are the recorded ones.            *)
THEOREM LampAlwaysFollows == Spec => []LampFollows
<1>1. Init => NoOverlap
  <2> SUFFICES ASSUME Init PROVE NoOverlap OBVIOUS
  <2>1. Settled BY DEF Init, Settled
  <2>2. \A c \in Caller : pc[c] = "idle" BY DEF Init
  <2>3. \A c \in Caller : Sole(c) BY <2>2 DEF Sole
  <2> QED BY <2>1, <2>2, <2>3 DEF NoOverlap
<1>2. IInv /\ NoOverlap /\ [Next]_lightVars => NoOverlap'
  <2> SUFFICES ASSUME TypeOK, NoOverlap, [Next]_lightVars PROVE NoOverlap' BY DEF IInv
  <2>1. ASSUME NEW c \in Caller, Step(c) PROVE NoOverlap' BY <2>1, OverlapStep
  <2>2. ASSUME NEW c \in Caller, NEW colour \in Palette, Begin(c, colour)
        PROVE  NoOverlap'
    BY <2>2, OverlapBegin
  <2>3. ASSUME NEW colour \in SparkPalette, Spark(colour) PROVE NoOverlap'
    BY <2>3, OverlapSpark
  <2>4. CASE UNCHANGED lightVars
    BY <2>4 DEF lightVars, light, callers, history, NoOverlap, Sole, Settled, Quiet, At
  <2> QED BY <2>1, <2>2, <2>3, <2>4 DEF Next
<1>3. IInv /\ NoOverlap => LampFollows
  <2> SUFFICES ASSUME IInv, NoOverlap, alone, Quiet PROVE shown = lastSet
    BY DEF LampFollows
  <2>1. shown = recorded BY DEF IInv, UpdateIsPending, Quiet, At
  <2>2. recorded = lastSet
    <3>1. \A k \in Channel : recorded[k] = lastSet[k] BY DEF NoOverlap, Settled
    <3>2. recorded \in [Channel -> Duty] /\ lastSet \in [Channel -> Duty]
      BY DEF IInv, TypeOK, Duties
    <3> QED BY <3>1, <3>2
  <2> QED BY <2>1, <2>2
<1> QED BY <1>1, <1>2, <1>3, InvariantHolds, PTL DEF Spec
==============================================================================
