---------------------------- MODULE SystemProofs -----------------------------
(***************************************************************************)
(* From the slider to the lamp, for any number of pages, positions,        *)
(* channels and frames: the composed system is a CommandPath, so that what *)
(* CommandProofs proves holds of it, and with one SDK task the lamp shows  *)
(* what the page was told was done, and what the page shows.               *)
(***************************************************************************)
EXTENDS System, CommandProofs, SequenceTheorems

Light == INSTANCE RgbLightProofs WITH
  Caller <- Task, Duty <- Byte, Zero <- 0, Palette <- {}, SparkPalette <- {},
  pc <- dpc
------------------------------------------------------------------------------
(* The page and the wire.                                                  *)
PageMade(f) ==
  /\ f.shape = "good" /\ f.cmd = "control"
  /\ \/ f.type = "rgb" /\ f.arg \in Colour
     \/ f.type = "switch" /\ f.arg \in {"on", "off"}
FromPage(m) == m.from \in Page => PageMade(m.frame)

WireInv ==
  /\ wire \in Seq(Message) /\ Len(wire) <= MaxWire
  /\ \A i \in 1..Len(wire) : FromPage(wire[i])
ControlsInv ==
  /\ pwmValue \in [Page -> [Channel -> Position]]
  /\ switch1 \in [Page -> {"none", "on", "off"}]
  /\ alerted \subseteq Page \X {"rgb", "switch"}
PanelInv == WireInv /\ ControlsInv

USE DEF panel, status, budget, witness, driver

LEMMA PwmFrame ==
  ASSUME NEW value \in [Channel -> Position]
  PROVE  /\ pwmControl(value) \in Frames /\ PageMade(pwmControl(value))
         /\ pwmControl(value).type = "rgb"
         /\ Bytes[pwmControl(value).arg] = Scaled(value)
<1> DEFINE payload == CHOOSE x \in Colour : Bytes[x] = Scaled(value)
<1>1. payload \in Colour /\ Bytes[payload] = Scaled(value) BY PanelAssumption
<1>2. pwmControl(value) = [shape |-> "good", cmd |-> "control", type |-> "rgb",
                           seq |-> 1, arg |-> payload]
  BY DEF pwmControl, PageFrame
<1> HIDE DEF payload
<1> QED BY <1>1, <1>2, PanelAssumption DEF PageMade

LEMMA SwitchFrame ==
  ASSUME NEW state \in {"on", "off"}
  PROVE  /\ lightControl(state) \in Frames /\ PageMade(lightControl(state))
         /\ lightControl(state).type = "switch" /\ lightControl(state).arg = state
BY SwitchAssumption DEF lightControl, PageFrame, PageMade

LEMMA AppendKeepsWire ==
  ASSUME WireInv, NEW m \in Message, FromPage(m),
         Len(wire) < MaxWire, wire' = Append(wire, m)
  PROVE  WireInv'
<1>1. wire \in Seq(Message) /\ Len(wire) \in Nat /\ MaxWire \in Nat
  BY BoundsAssumption DEF WireInv
<1>2. /\ wire' \in Seq(Message) /\ Len(wire') = Len(wire) + 1
      /\ wire'[Len(wire) + 1] = m /\ \A i \in 1..Len(wire) : wire'[i] = wire[i]
  BY <1>1
<1>3. \A i \in 1..Len(wire') : i \in 1..Len(wire) \/ i = Len(wire) + 1 BY <1>1, <1>2
<1>4. \A i \in 1..Len(wire') : FromPage(wire'[i]) BY <1>2, <1>3 DEF WireInv
<1>5. Len(wire') <= MaxWire BY <1>1, <1>2
<1> QED BY <1>2, <1>4, <1>5 DEF WireInv, FromPage, PageMade

LEMMA TailKeepsWire ==
  ASSUME WireInv, wire # <<>>, wire' = Tail(wire)
  PROVE  WireInv'
<1>1. wire \in Seq(Message) /\ Len(wire) \in Nat /\ MaxWire \in Nat /\ Len(wire) # 0
  BY BoundsAssumption DEF WireInv
<1>2. /\ wire' \in Seq(Message) /\ Len(wire') = Len(wire) - 1
      /\ \A i \in 1..Len(wire') : wire'[i] = wire[i + 1]
  BY <1>1
<1>3. \A i \in 1..Len(wire') : i + 1 \in 1..Len(wire) BY <1>1, <1>2
<1>4. \A i \in 1..Len(wire') : FromPage(wire'[i]) BY <1>2, <1>3 DEF WireInv
<1>5. Len(wire') <= MaxWire BY <1>1, <1>2 DEF WireInv
<1> QED BY <1>2, <1>4, <1>5 DEF WireInv, FromPage, PageMade

(* What a page does to its controls and to the wire.                       *)
LEMMA SliderMoves ==
  ASSUME PanelInv, NEW p \in Page, NEW k \in Channel, NEW position \in Position,
         ChangeSlider(p, k, position)
  PROVE  /\ pwmValue' \in [Page -> [Channel -> Position]]
         /\ \A q \in Page \ {p} : pwmValue'[q] = pwmValue[q]
         /\ [from |-> p, frame |-> pwmControl(pwmValue'[p])] \in Message
<1>1. /\ pwmValue \in [Page -> [Channel -> Position]]
      /\ pwmValue' = [pwmValue EXCEPT ![p][k] = position]
  BY DEF PanelInv, ControlsInv, ChangeSlider
<1>2. pwmValue' \in [Page -> [Channel -> Position]] BY <1>1
<1>3. pwmControl(pwmValue'[p]) \in Frames BY <1>2, PwmFrame
<1> QED BY <1>1, <1>2, <1>3, PageAssumption DEF Message

LEMMA SwitchMoves ==
  ASSUME PanelInv, NEW p \in Page, Toggle(p)
  PROVE  /\ switch1' \in [Page -> {"none", "on", "off"}] /\ switch1'[p] \in {"on", "off"}
         /\ \A q \in Page \ {p} : switch1'[q] = switch1[q]
         /\ [from |-> p, frame |-> lightControl(switch1'[p])] \in Message
<1>1. /\ switch1 \in [Page -> {"none", "on", "off"}]
      /\ switch1' = [switch1 EXCEPT ![p] = IF switch1[p] = "on" THEN "off" ELSE "on"]
  BY DEF PanelInv, ControlsInv, Toggle
<1>2. /\ switch1' \in [Page -> {"none", "on", "off"}] /\ switch1'[p] \in {"on", "off"}
      /\ \A q \in Page \ {p} : switch1'[q] = switch1[q]
  BY <1>1
<1>3. lightControl(switch1'[p]) \in Frames BY <1>2, SwitchFrame
<1> QED BY <1>2, <1>3, PageAssumption DEF Message

LEMMA ChatKeepsPanel ==
  ASSUME PanelInv, MayMove, NEW p \in Page, NEW f, etChatTo(p, f),
         f.type \in {"rgb", "switch"}, [from |-> p, frame |-> f] \in Message, PageMade(f)
  PROVE  WireInv' /\ alerted' \subseteq Page \X {"rgb", "switch"}
<1>1. WireInv /\ alerted \subseteq Page \X {"rgb", "switch"} BY DEF PanelInv, ControlsInv
<1>2. alerted' \subseteq Page \X {"rgb", "switch"} BY <1>1 DEF etChatTo
<1>3. CASE wire' = wire BY <1>1, <1>2, <1>3 DEF WireInv, FromPage, PageMade
<1>4. CASE wire' = Append(wire, [from |-> p, frame |-> f])
  <2>1. FromPage([from |-> p, frame |-> f]) BY DEF FromPage
  <2> QED BY <1>1, <1>2, <1>4, <2>1, AppendKeepsWire DEF MayMove
<1> QED BY <1>2, <1>3, <1>4 DEF etChatTo

(* What the loop does to them: nothing but to take a message off the wire. *)
LEMMA LoopLeavesPanel ==
  ASSUME NEW t \in Task, Loop(t)
  PROVE  UNCHANGED <<panel, wire>>
BY DEF Loop, DriverStep, DropFrame, Quietly, Paint, Acknowledge, DriveRelay, OnConnect,
       OnDisconnect, Notice

LEMMA StepKeepsPanel ==
  ASSUME PanelInv, SystemNext
  PROVE  PanelInv'
<1>1. ASSUME NEW p \in Page, NEW k \in Channel, NEW position \in Position,
             ChangeSlider(p, k, position)
      PROVE  PanelInv'
  <2>1. /\ MayMove /\ etChatTo(p, pwmControl(pwmValue'[p])) /\ switch1' = switch1
    BY <1>1 DEF ChangeSlider
  <2>2. /\ pwmValue' \in [Page -> [Channel -> Position]]
        /\ [from |-> p, frame |-> pwmControl(pwmValue'[p])] \in Message
    BY <1>1, SliderMoves
  <2>3. PageMade(pwmControl(pwmValue'[p])) /\ pwmControl(pwmValue'[p]).type = "rgb"
    BY <2>2, PwmFrame
  <2>4. WireInv' /\ alerted' \subseteq Page \X {"rgb", "switch"}
    BY <2>1, <2>2, <2>3, ChatKeepsPanel
  <2> QED BY <2>1, <2>2, <2>4 DEF PanelInv, ControlsInv
<1>2. ASSUME NEW p \in Page, Toggle(p) PROVE PanelInv'
  <2>1. MayMove /\ etChatTo(p, lightControl(switch1'[p])) /\ pwmValue' = pwmValue
    BY <1>2 DEF Toggle
  <2>2. /\ switch1' \in [Page -> {"none", "on", "off"}] /\ switch1'[p] \in {"on", "off"}
        /\ [from |-> p, frame |-> lightControl(switch1'[p])] \in Message
    BY <1>2, SwitchMoves
  <2>3. PageMade(lightControl(switch1'[p])) /\ lightControl(switch1'[p]).type = "switch"
    BY <2>2, SwitchFrame
  <2>4. WireInv' /\ alerted' \subseteq Page \X {"rgb", "switch"}
    BY <2>1, <2>2, <2>3, ChatKeepsPanel
  <2> QED BY <2>1, <2>2, <2>4 DEF PanelInv, ControlsInv
<1>3. ASSUME NEW u \in User \ Page, NEW f \in Strays, OtherSends(u, f) PROVE PanelInv'
  <2>1. /\ Len(wire) < MaxWire /\ wire' = Append(wire, [from |-> u, frame |-> f])
        /\ UNCHANGED panel
    BY <1>3 DEF OtherSends, MayMove
  <2>2. [from |-> u, frame |-> f] \in Message BY StraysAssumption DEF Message
  <2>3. FromPage([from |-> u, frame |-> f]) BY DEF FromPage
  <2>4. WireInv' BY <2>1, <2>2, <2>3, AppendKeepsWire DEF PanelInv
  <2> QED BY <2>1, <2>4 DEF PanelInv, ControlsInv
<1>4. ASSUME NEW t \in Task, NEW again \in BOOLEAN, Deliver(t, again) PROVE PanelInv'
  <2>1. wire # <<>> /\ (wire' = wire \/ wire' = Tail(wire)) /\ UNCHANGED panel
    BY <1>4 DEF Deliver
  <2>2. WireInv' BY <2>1, TailKeepsWire DEF PanelInv, WireInv, FromPage, PageMade
  <2> QED BY <2>1, <2>2 DEF PanelInv, ControlsInv
<1>5. CASE UNCHANGED <<panel, wire>>
  BY <1>5 DEF PanelInv, ControlsInv, WireInv, FromPage, PageMade
<1>6. LoseSession \/ RegainSession \/ wifi_led_spark => UNCHANGED <<panel, wire>>
  BY DEF LoseSession, RegainSession, SessionChanges, wifi_led_spark
<1> QED BY <1>1, <1>2, <1>3, <1>4, <1>5, <1>6, LoopLeavesPanel DEF SystemNext

LEMMA PanelInvHolds == SystemSpec => []PanelInv
<1>1. SystemInit => PanelInv
  <2> SUFFICES ASSUME SystemInit PROVE PanelInv OBVIOUS
  <2>1. Black \in [Channel -> Position] BY PositionAssumption DEF Black
  <2>2. ControlsInv BY <2>1 DEF SystemInit, ControlsInv
  <2>3. WireInv BY BoundsAssumption DEF SystemInit, WireInv
  <2> QED BY <2>2, <2>3 DEF PanelInv
<1>2. PanelInv /\ [SystemNext]_systemVars => PanelInv'
  <2> SUFFICES ASSUME PanelInv, [SystemNext]_systemVars PROVE PanelInv' OBVIOUS
  <2>1. CASE UNCHANGED systemVars
    BY <2>1 DEF systemVars, PanelInv, ControlsInv, WireInv, FromPage, PageMade
  <2> QED BY <2>1, StepKeepsPanel
<1> QED BY <1>1, <1>2, PTL DEF SystemSpec
------------------------------------------------------------------------------
(* The composed system takes the steps of CommandPath and no others.       *)
LEMMA PathOfLoop ==
  ASSUME NEW t \in Task, Loop(t)
  PROVE  Process(t) \/ UNCHANGED vars
BY DEF Loop, DriverStep, DropFrame, Quietly, Paint, Acknowledge, DriveRelay, OnConnect,
       OnDisconnect, Notice, Process

LEMMA PathOfDelivery ==
  ASSUME PanelInv, NEW t \in Task, NEW again \in BOOLEAN, Deliver(t, again)
  PROVE  /\ Head(wire) = wire[1] /\ Head(wire) \in Message /\ FromPage(Head(wire))
         /\ \E kind \in Kind : Receive(t, kind, Head(wire))
<1>1. PICK kind \in Kinds(Head(wire).from) : Receive(t, kind, Head(wire)) BY DEF Deliver
<1>2. kind \in Kind BY <1>1 DEF Kinds, Kind, CommandKind
<1>3. wire \in Seq(Message) /\ wire # <<>> BY DEF PanelInv, WireInv, Deliver
<1>4. 1 \in 1..Len(wire) /\ Head(wire) = wire[1] BY <1>3
<1>5. Head(wire) \in Message /\ FromPage(wire[1]) BY <1>3, <1>4 DEF PanelInv, WireInv
<1> QED BY <1>1, <1>2, <1>4, <1>5

LEMMA PathStep ==
  ASSUME PanelInv, [SystemNext]_systemVars
  PROVE  [Next]_vars
<1>1. ASSUME NEW t \in Task, Loop(t) PROVE [Next]_vars BY <1>1, PathOfLoop DEF Next
<1>2. ASSUME NEW t \in Task, NEW again \in BOOLEAN, Deliver(t, again) PROVE [Next]_vars
  BY <1>2, PathOfDelivery DEF Next
<1>3. ASSUME NEW p \in Page, NEW k \in Channel, NEW position \in Position,
             ChangeSlider(p, k, position)
      PROVE  UNCHANGED vars
  BY <1>3 DEF ChangeSlider
<1>4. ASSUME NEW p \in Page, Toggle(p) PROVE UNCHANGED vars BY <1>4 DEF Toggle
<1>5. ASSUME NEW u \in User \ Page, NEW f \in Strays, OtherSends(u, f) PROVE UNCHANGED vars
  BY <1>5 DEF OtherSends
<1>6. LoseSession \/ RegainSession \/ wifi_led_spark => UNCHANGED vars
  BY DEF LoseSession, RegainSession, SessionChanges, wifi_led_spark
<1>7. UNCHANGED systemVars => UNCHANGED vars BY DEF systemVars
<1> QED BY <1>1, <1>2, <1>3, <1>4, <1>5, <1>6, <1>7 DEF SystemNext

(* Composed with the page, the broker and the lamp driver, the device is   *)
(* still a CommandPath: what is proved of that holds of the whole.         *)
THEOREM SystemIsACommandPath == SystemSpec => Spec
<1>1. SystemInit => Init BY DEF SystemInit
<1>2. PanelInv /\ [SystemNext]_systemVars => [Next]_vars BY PathStep
<1> QED BY <1>1, <1>2, PanelInvHolds, PTL DEF SystemSpec, Spec

(* With one SDK task the user who moves a slider gets the answer to it, in *)
(* the composed system too.                                                *)
THEOREM SystemAnswersSender == SystemSpec => [](OneTask => ReplyToSender)
BY SystemIsACommandPath, OneTaskAnswersSender, PTL

(* Any number of tasks in the composed system answer truly and let only    *)
(* intact control frames reach the lamp driver or the relay.               *)
THEOREM SystemActsAndAnswersTruly == SystemSpec => []AckIsTruthful /\ OnlyIntactFramesAct
BY SystemIsACommandPath, AnswersAreTrue, OnlyIntactFramesMove, PTL

(* And the composed system is the request/reply service of CommandService. *)
THEOREM SystemIsAService == OneTask /\ SystemSpec => ImplementsService
BY SystemIsACommandPath, OneTaskIsAService, PTL
------------------------------------------------------------------------------
(* The lamp driver: RgbLightProofs' lemmas, for the colours                *)
(* the commands and the status lamp ask for.                               *)
LEMMA LightAssumptions ==
  NChannel \in Nat \ {0} /\ 0 \in Byte /\ {} \subseteq Light!Duties
BY ChannelAssumption DEF Byte

LEMMA SameInit == Driver!Init => Light!Init
BY DEF Driver!Init, Light!Init, Driver!Black, Light!Black, Driver!Channel, Light!Channel

LEMMA SameBegin ==
  ASSUME NEW t \in Task, NEW colour, Driver!Begin(t, colour)
  PROVE  Light!Begin(t, colour)
BY DEF Driver!Begin, Light!Begin, Driver!At, Light!At, Driver!Goto, Light!Goto,
       Driver!Quiet, Light!Quiet, Driver!light, Light!light

LEMMA SameSpark ==
  ASSUME NEW colour, Driver!Spark(colour)
  PROVE  Light!Spark(colour)
BY DEF Driver!Spark, Light!Spark, Driver!At, Light!At, Driver!Quiet, Light!Quiet,
       Driver!callers, Light!callers, Driver!Channel, Light!Channel

LEMMA SameStep ==
  ASSUME NEW t \in Task, Driver!Step(t)
  PROVE  Light!Step(t)
<1> USE DEF Driver!At, Light!At, Driver!Goto, Light!Goto, Driver!light, Light!light,
            Driver!history, Light!history
<1>1. Driver!NextChannel(t) => Light!NextChannel(t)
  BY DEF Driver!NextChannel, Light!NextChannel
<1>2. Driver!Compare(t) => Light!Compare(t) BY <1>1 DEF Driver!Compare, Light!Compare
<1>3. Driver!SetDuty(t) => Light!SetDuty(t) BY DEF Driver!SetDuty, Light!SetDuty
<1>4. Driver!RaiseFlag(t) => Light!RaiseFlag(t) BY DEF Driver!RaiseFlag, Light!RaiseFlag
<1>5. Driver!GetDuty(t) => Light!GetDuty(t) BY DEF Driver!GetDuty, Light!GetDuty
<1>6. Driver!Store(t) => Light!Store(t) BY <1>1 DEF Driver!Store, Light!Store
<1>7. Driver!TestFlag(t) => Light!TestFlag(t) BY DEF Driver!TestFlag, Light!TestFlag
<1>8. Driver!ClearFlag(t) => Light!ClearFlag(t) BY DEF Driver!ClearFlag, Light!ClearFlag
<1>9. Driver!StartPwm(t) => Light!StartPwm(t) BY DEF Driver!StartPwm, Light!StartPwm
<1> QED BY <1>2, <1>3, <1>4, <1>5, <1>6, <1>7, <1>8, <1>9 DEF Driver!Step, Light!Step

LEMMA SameTypes == Light!TypeOK => Driver!TypeOK
BY DEF Driver!TypeOK, Light!TypeOK, Driver!Duties, Light!Duties, Driver!Channel, Light!Channel,
       Driver!Label, Light!Label

LEMMA LitIsDuties ==
  ASSUME NEW payload \in Colour
  PROVE  Lit(Bytes[payload]) \in Light!Duties
<1>1. Light!Duties = [Channel -> Byte] BY DEF Light!Duties, Light!Channel, Channel
<1>2. Bytes[payload] \in [Channel -> Byte] BY BytesAssumption DEF Channel, Byte
<1>3. 0 \in Byte /\ 127 \in Byte /\ 255 \in Byte BY DEF Byte
<1>4. Black \in [Channel -> Byte] BY <1>3 DEF Black
<1>5. [Black EXCEPT ![1] = 255] \in [Channel -> Byte] BY <1>3, <1>4
<1>6. [Black EXCEPT ![1] = 255, ![2] = 127] \in [Channel -> Byte] BY <1>3, <1>4
<1> QED BY <1>1, <1>2, <1>5, <1>6 DEF Lit

LEMMA GreenIsDuties ==
  ASSUME NEW level \in Byte
  PROVE  Green(level) \in Light!Duties
BY ChannelAssumption DEF Green, Black, Channel, Light!Duties, Light!Channel, Byte

(* Who calls the driver, and with which colour.                            *)
LEMMA DriverMoves ==
  ASSUME SystemNext
  PROVE  \/ UNCHANGED driver
         \/ \E t \in Task : DriverStep(t) \/ Paint(t) \/ OnConnect(t)
         \/ wifi_led_spark
<1>1. ASSUME NEW t \in Task, Loop(t)
      PROVE  UNCHANGED driver \/ DriverStep(t) \/ Paint(t) \/ OnConnect(t)
  BY <1>1 DEF Loop, DropFrame, Quietly, Acknowledge, DriveRelay, OnDisconnect
<1>2. ASSUME NEW t \in Task, NEW again \in BOOLEAN, Deliver(t, again) PROVE UNCHANGED driver
  BY <1>2 DEF Deliver
<1>3. ASSUME NEW p \in Page, NEW k \in Channel, NEW position \in Position,
             ChangeSlider(p, k, position)
      PROVE  UNCHANGED driver
  BY <1>3 DEF ChangeSlider
<1>4. ASSUME NEW p \in Page, Toggle(p) PROVE UNCHANGED driver BY <1>4 DEF Toggle
<1>5. ASSUME NEW u \in User \ Page, NEW f \in Strays, OtherSends(u, f) PROVE UNCHANGED driver
  BY <1>5 DEF OtherSends
<1>6. LoseSession \/ RegainSession => UNCHANGED driver
  BY DEF LoseSession, RegainSession, SessionChanges
<1> QED BY <1>1, <1>2, <1>3, <1>4, <1>5, <1>6 DEF SystemNext

LEMMA StepKeepsLight ==
  ASSUME TypeInv', out_value \in {0, 255}, Light!IInv, SystemNext
  PROVE  Light!IInv'
<1>1. CASE UNCHANGED driver
  BY <1>1 DEF Light!IInv, Light!TypeOK, Light!UpdateIsPending
<1>2. ASSUME NEW t \in Task, DriverStep(t) PROVE Light!IInv'
  <2>1. Light!Step(t) BY <1>2, SameStep DEF DriverStep
  <2> QED BY <2>1, LightAssumptions, Light!StepHolds
<1>3. ASSUME NEW t \in Task, NEW colour \in Light!Duties, Driver!Begin(t, colour)
      PROVE  Light!IInv'
  <2>1. Light!Begin(t, colour) BY <1>3, SameBegin
  <2> QED BY <2>1, LightAssumptions, Light!BeginHolds
<1>4. ASSUME NEW t \in Task, Paint(t) PROVE Light!IInv'
  <2>1. lamp' \in Colour BY DEF TypeInv, Types
  <2>2. Lit(Bytes[lamp']) \in Light!Duties BY <2>1, LitIsDuties
  <2> QED BY <1>3, <1>4, <2>2 DEF Paint
<1>5. ASSUME NEW t \in Task, OnConnect(t) PROVE Light!IInv'
  <2>1. Green(255) \in Light!Duties BY GreenIsDuties DEF Byte
  <2> QED BY <1>3, <1>5, <2>1 DEF OnConnect
<1>6. CASE wifi_led_spark
  <2>1. out_value \in Byte BY DEF Byte
  <2>2. Green(out_value) \in Light!Duties BY <2>1, GreenIsDuties
  <2>3. Light!Spark(Green(out_value)) BY <1>6, SameSpark DEF wifi_led_spark
  <2> QED BY <2>2, <2>3, LightAssumptions, Light!SparkHolds
<1> QED BY <1>1, <1>2, <1>4, <1>5, <1>6, DriverMoves
------------------------------------------------------------------------------
(* The session: two events at most wait, and they say what the spark timer *)
(* does not know yet.                                                      *)
Tidings ==
  \/ session = TRUE /\ spark = FALSE /\ notices = <<>>
  \/ session = TRUE /\ spark = FALSE /\ notices = <<"DISCONNECT", "CONNECT">>
  \/ session = TRUE /\ spark = TRUE /\ notices = <<"CONNECT">>
  \/ session = FALSE /\ spark = FALSE /\ notices = <<"DISCONNECT">>
  \/ session = FALSE /\ spark = TRUE /\ notices = <<>>
  \/ session = FALSE /\ spark = TRUE /\ notices = <<"CONNECT", "DISCONNECT">>

StatusInv ==
  /\ Tidings /\ out_value \in {0, 255}
  /\ painter \in User \cup {"status", "nobody"}
  /\ switcher \in User \cup {"none", "nobody"}

Word == {"CONNECT", "DISCONNECT"}

LEMMA Words ==
  ASSUME NEW S, NEW a \in S, NEW b \in S
  PROVE  /\ <<a, b>> \in Seq(S) /\ Len(<<a, b>>) = 2 /\ Append(<<a>>, b) = <<a, b>>
         /\ <<a>> \in Seq(S) /\ Len(<<a>>) = 1 /\ <<>> \in Seq(S) /\ Len(<<>>) = 0
<1> DEFINE s == Append(<<a>>, b)
           r == <<a, b>>
<1>1. s \in Seq(S) /\ Len(s) = 2 /\ s[1] = a /\ s[2] = b OBVIOUS
<1>2. r \in Seq(S) /\ Len(r) = 2 /\ r[1] = a /\ r[2] = b OBVIOUS
<1> HIDE DEF s, r
<1>3. \A i \in 1..2 : s[i] = r[i] BY <1>1, <1>2
<1>4. s = r BY <1>1, <1>2, <1>3, SeqEqual
<1> QED BY <1>1, <1>4 DEF s, r

LEMMA SessionKeepsTidings ==
  ASSUME Tidings, NEW up \in BOOLEAN, NEW notice, SessionChanges(up, notice),
         notice = IF up THEN "CONNECT" ELSE "DISCONNECT"
  PROVE  Tidings'
<1>1. session # up /\ session' = up /\ spark' = spark /\ Len(notices) < 2
      /\ notices' = Append(notices, notice)
  BY DEF SessionChanges
<1>8. \/ session = FALSE /\ session' = TRUE /\ notice = "CONNECT"
      \/ session = TRUE /\ session' = FALSE /\ notice = "DISCONNECT"
  BY <1>1 DEF Tidings
<1>2. "CONNECT" \in Word /\ "DISCONNECT" \in Word /\ "CONNECT" # "DISCONNECT" BY DEF Word
<1>3. /\ Append(<<>>, "CONNECT") = <<"CONNECT">> /\ Append(<<>>, "DISCONNECT") = <<"DISCONNECT">>
      /\ Append(<<"CONNECT">>, "DISCONNECT") = <<"CONNECT", "DISCONNECT">>
      /\ Append(<<"DISCONNECT">>, "CONNECT") = <<"DISCONNECT", "CONNECT">>
  BY <1>2, Words
<1>4. /\ Len(<<"CONNECT", "DISCONNECT">>) = 2 /\ Len(<<"DISCONNECT", "CONNECT">>) = 2
  BY <1>2, Words
<1>5. CASE notices = <<>>
  <2>1. /\ notices # <<"CONNECT">> /\ notices # <<"DISCONNECT">>
        /\ notices # <<"CONNECT", "DISCONNECT">> /\ notices # <<"DISCONNECT", "CONNECT">>
    BY <1>5
  <2>2. (session = TRUE /\ spark = FALSE) \/ (session = FALSE /\ spark = TRUE)
    BY <2>1 DEF Tidings
  <2> QED BY <1>1, <1>3, <1>5, <1>8, <2>2 DEF Tidings
<1>6. CASE notices = <<"CONNECT">> BY <1>1, <1>3, <1>6 DEF Tidings
<1>7. CASE notices = <<"DISCONNECT">> BY <1>1, <1>3, <1>7 DEF Tidings
<1>9. notices # <<"CONNECT", "DISCONNECT">> /\ notices # <<"DISCONNECT", "CONNECT">>
  BY <1>1, <1>4
<1> QED BY <1>5, <1>6, <1>7, <1>9 DEF Tidings

LEMMA TidingsAreWords ==
  ASSUME Tidings
  PROVE  notices \in Seq(Word) /\ Len(notices) <= 2
<1>1. "CONNECT" \in Word /\ "DISCONNECT" \in Word BY DEF Word
<1>2. CASE notices = <<>> BY <1>2
<1>3. CASE notices = <<"CONNECT">> BY <1>1, <1>3
<1>4. CASE notices = <<"DISCONNECT">> BY <1>1, <1>4
<1>5. CASE notices = <<"CONNECT", "DISCONNECT">> BY <1>1, <1>5
<1>6. CASE notices = <<"DISCONNECT", "CONNECT">> BY <1>1, <1>6
<1> QED BY <1>2, <1>3, <1>4, <1>5, <1>6 DEF Tidings

LEMMA NoticeKeepsTidings ==
  ASSUME Tidings, NEW t \in Task, OnConnect(t) \/ OnDisconnect(t)
  PROVE  Tidings'
<1>1. /\ notices # <<>> /\ notices' = Tail(notices) /\ session' = session
      /\ \/ Head(notices) = "CONNECT" /\ spark' = FALSE
         \/ Head(notices) = "DISCONNECT" /\ spark' = TRUE
  BY DEF OnConnect, OnDisconnect, Notice
<1>2. Tail(<<"CONNECT">>) = <<>> /\ Head(<<"CONNECT">>) = "CONNECT" OBVIOUS
<1>3. Tail(<<"DISCONNECT">>) = <<>> /\ Head(<<"DISCONNECT">>) = "DISCONNECT" OBVIOUS
<1>4. /\ Tail(<<"CONNECT", "DISCONNECT">>) = <<"DISCONNECT">>
      /\ Head(<<"CONNECT", "DISCONNECT">>) = "CONNECT"
  OBVIOUS
<1>5. /\ Tail(<<"DISCONNECT", "CONNECT">>) = <<"CONNECT">>
      /\ Head(<<"DISCONNECT", "CONNECT">>) = "DISCONNECT"
  OBVIOUS
<1> QED BY <1>1, <1>2, <1>3, <1>4, <1>5 DEF Tidings

LEMMA StepKeepsStatus ==
  ASSUME TypeInv, StatusInv, SystemNext
  PROVE  StatusInv'
<1>1. ASSUME NEW t \in Task, OnConnect(t) \/ OnDisconnect(t) PROVE StatusInv'
  <2>1. painter' \in {painter, "status"} /\ UNCHANGED <<out_value, switcher>>
    BY <1>1 DEF OnConnect, OnDisconnect, Notice
  <2> QED BY <1>1, <2>1, NoticeKeepsTidings DEF StatusInv
<1>2. CASE LoseSession \/ RegainSession
  <2>1. UNCHANGED <<out_value, painter, switcher>>
    BY <1>2 DEF LoseSession, RegainSession, SessionChanges
  <2>2. Tidings' BY <1>2, SessionKeepsTidings DEF LoseSession, RegainSession, StatusInv
  <2> QED BY <2>1, <2>2 DEF StatusInv
<1>3. CASE wifi_led_spark
  <2>1. /\ UNCHANGED <<session, notices, spark, switcher>> /\ painter' = "status"
        /\ out_value' = 255 - out_value
    BY <1>3 DEF wifi_led_spark
  <2>2. out_value' \in {0, 255} BY <2>1 DEF StatusInv
  <2> QED BY <2>1, <2>2 DEF StatusInv, Tidings
<1>4. ASSUME UNCHANGED status, painter' \in User \cup {"status", "nobody"},
             switcher' \in User \cup {"none", "nobody"}
      PROVE  StatusInv'
  BY <1>4 DEF StatusInv, Tidings
<1>5. ASSUME NEW t \in Task,
             DriverStep(t) \/ DropFrame(t) \/ Quietly(t) \/ Paint(t) \/ Acknowledge(t)
             \/ DriveRelay(t)
      PROVE  StatusInv'
  <2>1. UNCHANGED status
    BY <1>5 DEF DriverStep, DropFrame, Quietly, Paint, Acknowledge, DriveRelay
  <2>2. /\ painter' \in {painter, "nobody"} \/ (painter' = msg[t].from /\ At(t, "act"))
        /\ switcher' \in {switcher, "nobody"} \/ (switcher' = msg[t].from /\ At(t, "act"))
    BY <1>5 DEF DriverStep, DropFrame, Quietly, Paint, Acknowledge, DriveRelay, SetColour,
                SetSwitch
  <2>3. At(t, "act") => msg[t].from \in User
    BY MessageFields DEF At, TypeInv, Occupied
  <2> QED BY <1>4, <2>1, <2>2, <2>3 DEF StatusInv
<1>6. ASSUME NEW t \in Task, NEW again \in BOOLEAN, Deliver(t, again) PROVE StatusInv'
  BY <1>4, <1>6 DEF Deliver, StatusInv
<1>7. ASSUME NEW p \in Page, NEW k \in Channel, NEW position \in Position,
             ChangeSlider(p, k, position)
      PROVE  StatusInv'
  BY <1>4, <1>7 DEF ChangeSlider, StatusInv
<1>8. ASSUME NEW p \in Page, Toggle(p) PROVE StatusInv'
  BY <1>4, <1>8 DEF Toggle, StatusInv
<1>9. ASSUME NEW u \in User \ Page, NEW f \in Strays, OtherSends(u, f) PROVE StatusInv'
  BY <1>4, <1>9 DEF OtherSends, StatusInv
<1> QED BY <1>1, <1>2, <1>3, <1>5, <1>6, <1>7, <1>8, <1>9 DEF SystemNext, Loop

LEMMA StatusInvHolds == SystemSpec => [](StatusInv /\ Light!IInv)
<1>1. SystemInit => StatusInv /\ Light!IInv
  <2> SUFFICES ASSUME SystemInit PROVE StatusInv /\ Light!IInv OBVIOUS
  <2>1. Light!IInv BY SameInit, LightAssumptions, Light!InitHolds DEF SystemInit
  <2> QED BY <2>1 DEF SystemInit, StatusInv, Tidings
<1>2. TypeInv /\ TypeInv' /\ StatusInv /\ Light!IInv /\ [SystemNext]_systemVars
        => StatusInv' /\ Light!IInv'
  <2> SUFFICES ASSUME TypeInv, TypeInv', StatusInv, Light!IInv, [SystemNext]_systemVars
               PROVE  StatusInv' /\ Light!IInv'
    OBVIOUS
  <2>1. CASE UNCHANGED systemVars
    BY <2>1 DEF systemVars, StatusInv, Tidings, Light!IInv, Light!TypeOK, Light!UpdateIsPending
  <2>2. CASE SystemNext BY <2>2, StepKeepsStatus, StepKeepsLight DEF StatusInv
  <2> QED BY <2>1, <2>2
<1> QED BY <1>1, <1>2, SystemIsACommandPath, TypeInvHolds, PTL DEF SystemSpec

(* Commands, the spark timer and reconnections call the driver from any    *)
(* number of tasks, and its unlocked update_flag still loses no update:    *)
(* with every caller out of RGB_light.c the pins carry what was recorded.  *)
THEOREM SystemLosesNoUpdate == SystemSpec => []Driver!NoLostUpdate
<1>1. Light!IInv => Driver!NoLostUpdate
  BY DEF Light!IInv, Light!UpdateIsPending, Light!At, Driver!NoLostUpdate, Driver!Quiet, Driver!At
<1> QED BY <1>1, StatusInvHolds, PTL

(* Every variable of the composed system keeps its type, for any number of *)
(* tasks: never more than two events of the session wait.                  *)
THEOREM SystemTypesHold == SystemSpec => [](IsFiniteSet(Task) => SystemTypeOK)
<1>1. PanelInv /\ StatusInv /\ Light!IInv /\ (IsFiniteSet(Task) => TypeOK)
        => (IsFiniteSet(Task) => SystemTypeOK)
  <2> SUFFICES ASSUME PanelInv, StatusInv, Light!IInv, TypeOK PROVE SystemTypeOK OBVIOUS
  <2>1. Driver!TypeOK BY SameTypes DEF Light!IInv
  <2>2. session \in BOOLEAN /\ spark \in BOOLEAN BY DEF StatusInv, Tidings
  <2>3. notices \in Seq({"CONNECT", "DISCONNECT"}) /\ Len(notices) <= 2
    BY TidingsAreWords DEF StatusInv, Word
  <2> QED BY <2>1, <2>2, <2>3 DEF PanelInv, WireInv, ControlsInv, StatusInv, SystemTypeOK
<1> QED BY <1>1, PanelInvHolds, StatusInvHolds, SystemIsACommandPath, TypesHold, PTL
------------------------------------------------------------------------------
(* With one task the driver is never entered twice: while the task works,  *)
(* in the driver or in the callback, the spark timer is not armed, since a *)
(* message is delivered only when no event of the session waits.           *)
Calm ==
  /\ \A t \in Task : ~LoopIdle(t) => spark = FALSE
  /\ \A t \in Task : pc[t] \notin {"idle", "ack"} => Free(t)
Alone == alone = TRUE /\ Light!NoOverlap

(* What the lamp was last set to: the colour of the frame that is about to *)
(* be called a success, or the green of the status lamp.                   *)
Succeeds(t) == \/ At(t, "ack")
               \/ At(t, "send") /\ set[t] = TRUE /\ block[t].rc = "ACK_SUCCESS"
Painted ==
  /\ \A t \in Task : Succeeds(t) =>
       lastSet = Lit(Bytes[lamp]) /\ msg[t].frame.arg \in {lamp, Absent}
  /\ painter = "status" /\ spark = FALSE => lastSet = Green(255)

LampInv == Calm /\ Alone /\ Painted

LEMMA QuietWhenFree ==
  ASSUME OneTask, NEW t \in Task, Free(t)
  PROVE  Driver!Quiet /\ Light!Quiet
BY DEF OneTask, Free, Driver!Quiet, Light!Quiet, Driver!At, Light!At

LEMMA StepKeepsAlone ==
  ASSUME OneTask, Light!IInv, Calm, Alone, SystemNext
  PROVE  Alone'
<1> USE LightAssumptions
<1>1. Light!TypeOK BY DEF Light!IInv
<1>2. CASE UNCHANGED driver
  BY <1>2 DEF Alone, Light!NoOverlap, Light!Sole, Light!Settled, Light!Quiet, Light!At
<1>3. ASSUME NEW t \in Task, DriverStep(t) PROVE Alone'
  <2>1. Light!Step(t) BY <1>3, SameStep DEF DriverStep
  <2>2. Light!Sole(t) BY DEF Alone, Light!NoOverlap
  <2>3. alone' = alone BY <1>1, <2>1, <2>2, Light!SoleStep
  <2>4. Light!NoOverlap' BY <1>1, <2>1, Light!OverlapStep DEF Alone
  <2> QED BY <2>3, <2>4 DEF Alone
<1>4. ASSUME NEW t \in Task, NEW colour, Free(t), Driver!Begin(t, colour) PROVE Alone'
  <2>1. alone' = TRUE BY <1>4, QuietWhenFree DEF Alone, Driver!Begin
  <2>2. Light!Begin(t, colour) BY <1>4, SameBegin
  <2>3. Light!NoOverlap' BY <1>1, <2>2, Light!OverlapBegin DEF Alone
  <2> QED BY <2>1, <2>3 DEF Alone
<1>5. ASSUME NEW t \in Task, Paint(t) \/ OnConnect(t) PROVE Alone'
  BY <1>4, <1>5 DEF Paint, OnConnect, Notice, LoopIdle
<1>6. CASE wifi_led_spark
  <2>1. \A t \in Task : Free(t) BY <1>6 DEF wifi_led_spark, Calm, LoopIdle
  <2>2. Driver!Quiet BY <2>1 DEF Driver!Quiet, Free
  <2>3. alone' = TRUE BY <1>6, <2>2 DEF Alone, wifi_led_spark, Driver!Spark
  <2>4. Light!Spark(Green(out_value)) BY <1>6, SameSpark DEF wifi_led_spark
  <2>5. Light!NoOverlap' BY <1>1, <2>4, Light!OverlapSpark DEF Alone
  <2> QED BY <2>3, <2>5 DEF Alone
<1> QED BY <1>2, <1>3, <1>5, <1>6, DriverMoves

(* What a task does to its place, and to the status lamp.                  *)
LEMMA StepKeepsCalm ==
  ASSUME OneTask, Light!IInv, TypeInv, Tidings, Calm, SystemNext
  PROVE  Calm'
<1>1. dpc \in [Task -> Light!Label] /\ pc \in [Task -> Label]
  BY DEF Light!IInv, Light!TypeOK, TypeInv, Types
<1> USE DEF Calm, LoopIdle, Free, Driver!At, At
<1>2. CASE UNCHANGED <<vars, spark, driver>> BY <1>2 DEF vars
<1>3. CASE wifi_led_spark
  BY <1>3 DEF wifi_led_spark, Driver!Spark, Driver!callers, vars
<1>4. ASSUME NEW t \in Task, UNCHANGED spark, spark = FALSE,
             pc'[t] \in {"idle", "ack"} \/ dpc'[t] = "idle"
      PROVE  Calm'
  BY <1>4 DEF OneTask
<1>5. ASSUME NEW t \in Task, DriverStep(t) PROVE Calm'
  <2>1. dpc[t] # "idle"
    BY <1>5 DEF DriverStep, Driver!Step, Driver!Compare, Driver!SetDuty, Driver!RaiseFlag,
                Driver!GetDuty, Driver!Store, Driver!TestFlag, Driver!ClearFlag, Driver!StartPwm
  <2>2. spark = FALSE /\ pc[t] \in {"idle", "ack"} /\ UNCHANGED <<pc, spark>>
    BY <1>5, <2>1 DEF DriverStep, vars
  <2> QED BY <1>4, <2>2
<1>6. ASSUME NEW t \in Task, DropFrame(t) \/ Quietly(t) \/ Acknowledge(t) \/ DriveRelay(t)
      PROVE  Calm'
  <2>1. dpc'[t] = "idle" /\ UNCHANGED spark
    BY <1>6 DEF DropFrame, Quietly, Acknowledge, DriveRelay
  <2>2. pc[t] # "idle"
    BY <1>6 DEF DropFrame, Quietly, Acknowledge, DriveRelay, Reject, NameFirstHalf,
                NameSecondHalf, Allocate, AnswerError, SendReply, Release, AnswerSuccess,
                SetSwitch
  <2> QED BY <1>4, <2>1, <2>2
<1>7. ASSUME NEW t \in Task, Paint(t) PROVE Calm'
  <2>1. pc[t] = "act" /\ pc'[t] = "ack" /\ UNCHANGED spark
    BY <1>1, <1>7 DEF Paint, SetColour, Goto
  <2> QED BY <1>4, <2>1
<1>8. ASSUME NEW t \in Task, OnConnect(t) PROVE Calm'
  <2>1. spark' = FALSE /\ pc[t] = "idle" /\ pc' = pc BY <1>8 DEF OnConnect, Notice, vars
  <2> QED BY <2>1 DEF OneTask
<1>9. ASSUME NEW t \in Task, OnDisconnect(t) PROVE Calm'
  <2>1. pc[t] = "idle" /\ dpc[t] = "idle" /\ pc' = pc /\ dpc' = dpc
    BY <1>9 DEF OnDisconnect, Notice, vars
  <2> QED BY <2>1 DEF OneTask
<1>10. ASSUME NEW t \in Task, NEW again \in BOOLEAN, Deliver(t, again) PROVE Calm'
  <2>1. session /\ notices = <<>> /\ dpc[t] = "idle" /\ UNCHANGED <<spark, dpc>>
    BY <1>10 DEF Deliver
  <2>2. spark = FALSE BY <2>1 DEF Tidings
  <2> QED BY <1>4, <2>1, <2>2
<1>11. ASSUME NEW p \in Page, NEW k \in Channel, NEW position \in Position,
              ChangeSlider(p, k, position)
       PROVE  Calm'
  BY <1>2, <1>11 DEF ChangeSlider
<1>12. ASSUME NEW p \in Page, Toggle(p) PROVE Calm' BY <1>2, <1>12 DEF Toggle
<1>13. ASSUME NEW u \in User \ Page, NEW f \in Strays, OtherSends(u, f) PROVE Calm'
  BY <1>2, <1>13 DEF OtherSends
<1>14. CASE LoseSession \/ RegainSession
  BY <1>2, <1>14 DEF LoseSession, RegainSession, SessionChanges
<1> QED BY <1>3, <1>5, <1>6, <1>7, <1>8, <1>9, <1>10, <1>11, <1>12, <1>13, <1>14
        DEF SystemNext, Loop

LEMMA StepKeepsPainted ==
  ASSUME OneTask, Light!IInv, AnswerInv, Calm, Alone, Painted, SystemNext
  PROVE  Painted'
<1>1. /\ pc \in [Task -> Label] /\ DOMAIN block = Task /\ DOMAIN set = Task /\ TypeInv
  BY DEF AnswerInv, TypeInv, Types
<1> USE DEF Painted, Succeeds, At
<1>2. CASE UNCHANGED <<vars, spark, painter, lastSet>> BY <1>2 DEF vars
<1>3. CASE wifi_led_spark
  <2>1. \A t \in Task : pc[t] = "idle" BY <1>3 DEF wifi_led_spark, Calm, LoopIdle
  <2>2. pc' = pc /\ spark' = TRUE
    BY <1>3 DEF wifi_led_spark, vars, Calm, Tidings
  <2> QED BY <2>1, <2>2
<1>4. ASSUME NEW t \in Task, DriverStep(t) PROVE Painted'
  <2>1. Light!Step(t) BY <1>4, SameStep DEF DriverStep
  <2>2. Light!Sole(t) /\ Light!TypeOK BY DEF Alone, Light!NoOverlap, Light!IInv
  <2>3. lastSet' = lastSet BY <2>1, <2>2, LightAssumptions, Light!SoleStep
  <2> QED BY <1>2, <1>4, <2>3 DEF DriverStep
<1>5. ASSUME NEW t \in Task, UNCHANGED <<spark, lastSet>>, painter' \in {painter, "nobody"},
             pc'[t] \notin {"ack", "send"}
      PROVE  Painted'
  BY <1>5 DEF OneTask
<1>6. ASSUME NEW t \in Task, DropFrame(t) PROVE Painted'
  <2>1. pc'[t] = "idle" BY <1>1, <1>6 DEF DropFrame, Reject, Goto
  <2> QED BY <1>5, <1>6, <2>1 DEF DropFrame
<1>7. ASSUME NEW t \in Task, Quietly(t) PROVE Painted'
  <2>1. UNCHANGED <<spark, lastSet, painter>> BY <1>7 DEF Quietly
  <2>2. CASE ~AnswerError(t)
    <3>1. pc'[t] \notin {"ack", "send"}
      BY <1>1, <1>7, <2>2 DEF Quietly, Goto, NameFirstHalf, NameSecondHalf, Allocate,
                              Dispatch, SendReply, Release
    <3> QED BY <1>5, <2>1, <3>1
  <2>3. CASE AnswerError(t)
    <3>1. pc'[t] = "send" /\ block'[t].rc # "ACK_SUCCESS"
      BY <1>1, <2>3 DEF AnswerError, ack_to_mqtt, Goto
    <3> QED BY <2>1, <3>1 DEF OneTask
  <2> QED BY <2>2, <2>3
<1>8. ASSUME NEW t \in Task, Paint(t) PROVE Painted'
  <2>1. /\ pc[t] = "act" /\ lastSet' = Lit(Bytes[lamp']) /\ msg' = msg
        /\ msg[t].frame.type = "rgb" /\ painter' = msg[t].from
        /\ msg[t].frame.arg \in Colour => lamp' = msg[t].frame.arg
    BY <1>8 DEF Paint, SetColour, Driver!Begin
  <2>2. msg[t].from \in User /\ msg[t].frame \in Frames
    BY <1>1, <2>1, MessageFields DEF TypeInv, Occupied
  <2>3. painter' # "status" BY <2>1, <2>2, NamesAssumption
  <2>4. msg[t].frame.arg \in {lamp', Absent} BY <2>1, <2>2, PayloadAssumption
  <2> QED BY <2>1, <2>3, <2>4 DEF OneTask
<1>9. ASSUME NEW t \in Task, Acknowledge(t) PROVE Painted'
  <2>1. pc[t] = "ack" /\ UNCHANGED <<spark, lastSet, painter, lamp, msg>>
    BY <1>9 DEF Acknowledge, AnswerSuccess
  <2> QED BY <2>1 DEF OneTask
<1>10. ASSUME NEW t \in Task, DriveRelay(t) PROVE Painted'
  <2>1. set[t] = FALSE BY <1>10 DEF DriveRelay, SetSwitch, AnswerInv, AnswerFits
  <2>2. pc'[t] = "send" /\ set' = set /\ UNCHANGED <<spark, lastSet, painter>>
    BY <1>1, <1>10 DEF DriveRelay, SetSwitch, Goto
  <2> QED BY <2>1, <2>2 DEF OneTask
<1>11. ASSUME NEW t \in Task, OnConnect(t) PROVE Painted'
  <2>1. pc[t] = "idle" /\ pc' = pc /\ lastSet' = Green(255)
    BY <1>11 DEF OnConnect, Notice, LoopIdle, vars, Driver!Begin
  <2> QED BY <2>1 DEF OneTask
<1>12. ASSUME NEW t \in Task, OnDisconnect(t) PROVE Painted'
  <2>1. pc[t] = "idle" /\ pc' = pc /\ spark' = TRUE
    BY <1>12 DEF OnDisconnect, Notice, LoopIdle, vars
  <2> QED BY <2>1 DEF OneTask
<1>13. ASSUME NEW t \in Task, NEW again \in BOOLEAN, Deliver(t, again) PROVE Painted'
  <2>1. pc'[t] = "name1" BY <1>1, <1>13 DEF Deliver, Receive, Goto
  <2> QED BY <1>5, <1>13, <2>1 DEF Deliver
<1>14. ASSUME NEW p \in Page, NEW k \in Channel, NEW position \in Position,
              ChangeSlider(p, k, position)
       PROVE  Painted'
  BY <1>2, <1>14 DEF ChangeSlider
<1>15. ASSUME NEW p \in Page, Toggle(p) PROVE Painted' BY <1>2, <1>15 DEF Toggle
<1>16. ASSUME NEW u \in User \ Page, NEW f \in Strays, OtherSends(u, f) PROVE Painted'
  BY <1>2, <1>16 DEF OtherSends
<1>17. CASE LoseSession \/ RegainSession
  BY <1>2, <1>17 DEF LoseSession, RegainSession, SessionChanges
<1> QED BY <1>3, <1>4, <1>6, <1>7, <1>8, <1>9, <1>10, <1>11, <1>12, <1>13, <1>14, <1>15,
           <1>16, <1>17 DEF SystemNext, Loop

LEMMA LampInvHolds == SystemSpec => [](OneTask => LampInv)
<1> DEFINE Inv == OneTask => LampInv
<1>1. SystemInit => Inv
  <2> SUFFICES ASSUME SystemInit PROVE LampInv OBVIOUS
  <2>1. Light!Init BY SameInit DEF SystemInit
  <2>2. \A t \in Task : pc[t] = "idle" /\ dpc[t] = "idle"
    BY <2>1 DEF SystemInit, Init, Light!Init
  <2>3. Calm BY <2>2 DEF Calm, LoopIdle, Free, Driver!At, At
  <2>4. Painted BY <2>2 DEF Painted, Succeeds, At, SystemInit
  <2>5. alone = TRUE /\ Light!Settled BY <2>1 DEF Light!Init, Light!Settled
  <2>6. Light!NoOverlap BY <2>2, <2>5 DEF Light!NoOverlap, Light!Sole
  <2> QED BY <2>3, <2>4, <2>5, <2>6 DEF LampInv, Alone
<1>2. Light!IInv /\ AnswerInv /\ StatusInv /\ Inv /\ [SystemNext]_systemVars => Inv'
  <2> SUFFICES ASSUME Light!IInv, AnswerInv, StatusInv, OneTask, LampInv,
                      [SystemNext]_systemVars
               PROVE  LampInv'
    BY DEF OneTask
  <2>1. CASE SystemNext
    <3>1. Calm /\ Alone /\ Painted /\ TypeInv /\ Tidings
      BY DEF LampInv, AnswerInv, StatusInv
    <3> QED BY <2>1, <3>1, StepKeepsCalm, StepKeepsAlone, StepKeepsPainted DEF LampInv
  <2>2. CASE UNCHANGED systemVars
    <3>1. Calm' BY <2>2 DEF systemVars, vars, LampInv, Calm, LoopIdle, Free, Driver!At, At
    <3>2. Alone'
      BY <2>2 DEF systemVars, LampInv, Alone, Light!NoOverlap, Light!Sole, Light!Settled,
                  Light!Quiet, Light!At
    <3>3. Painted' BY <2>2 DEF systemVars, vars, LampInv, Painted, Succeeds, At
    <3> QED BY <3>1, <3>2, <3>3 DEF LampInv
  <2> QED BY <2>1, <2>2
<1> QED BY <1>1, <1>2, SystemIsACommandPath, AnswerInvHolds, StatusInvHolds, PTL
        DEF SystemSpec

(* When the driver is at rest and alone the lamp has the last colour set.  *)
LEMMA LampIsLastSet ==
  ASSUME Light!IInv, Alone, Light!Quiet
  PROVE  shown = lastSet
<1>1. shown = recorded
  BY DEF Light!IInv, Light!UpdateIsPending, Light!Quiet, Light!At
<1>2. \A k \in Light!Channel : recorded[k] = lastSet[k]
  BY DEF Alone, Light!NoOverlap, Light!Settled
<1>3. recorded \in [Light!Channel -> Byte] /\ lastSet \in [Light!Channel -> Byte]
  BY DEF Light!IInv, Light!TypeOK, Light!Duties
<1> QED BY <1>1, <1>2, <1>3

(* With one SDK task "request succeeded" is never said of a colour that is *)
(* not on the pins (et_user_app.c:147-163 and RGB_light.c).                *)
THEOREM SuccessIsAlwaysVisible == SystemSpec => [](OneTask => SuccessIsVisible)
<1>1. StatusInv /\ Light!IInv /\ (OneTask => LampInv) => (OneTask => SuccessIsVisible)
  <2> SUFFICES ASSUME Light!IInv, OneTask, LampInv,
                      NEW t \in Task, At(t, "send"), set[t], block[t].rc = "ACK_SUCCESS"
               PROVE  shown = Lit(Bytes[lamp]) /\ msg[t].frame.arg \in {lamp, Absent}
    BY DEF SuccessIsVisible
  <2>1. Free(t) BY DEF LampInv, Calm, At
  <2>2. shown = lastSet BY <2>1, QuietWhenFree, LampIsLastSet DEF LampInv
  <2>3. set[t] = TRUE OBVIOUS
  <2>4. Succeeds(t) BY <2>3 DEF Succeeds
  <2> QED BY <2>2, <2>4 DEF LampInv, Painted
<1> QED BY <1>1, StatusInvHolds, LampInvHolds, PTL
------------------------------------------------------------------------------
(* What a page last asked for: the newest of its frames of a type is on    *)
(* the wire, or the task has it in hand, or it has been carried out.       *)
FrameType == {"rgb", "switch"}
Unread == {"name1", "name2", "parse", "act"}

Carries(m, p, type) == m.from = p /\ m.frame.type = type
OnWire(w, p, type) == \E i \in 1..Len(w) : Carries(w[i], p, type)
NewestIs(w, p, type, f) ==
  \A i \in 1..Len(w) :
    /\ Carries(w[i], p, type)
    /\ \A j \in 1..Len(w) : i < j => ~Carries(w[j], p, type)
    => w[i].frame = f
InHand(p, type) == {msg[t].frame : t \in {u \in Task : pc[u] \in Unread /\ Carries(msg[u], p, type)}}

Wanted(p, type) ==
  IF type = "rgb" THEN pwmControl(pwmValue[p]) ELSE lightControl(switch1[p])
Shows(p, type) ==
  IF type = "rgb" THEN painter = p => lastSet = Lit(Scaled(pwmValue[p]))
  ELSE switcher = p => relay = switch1[p]

Fits(p, type) ==
  <<p, type>> \notin alerted =>
    /\ NewestIs(wire, p, type, Wanted(p, type))
    /\ ~OnWire(wire, p, type) =>
         /\ InHand(p, type) \subseteq {Wanted(p, type)}
         /\ InHand(p, type) = {} => Shows(p, type)

PagesInv ==
  /\ \A t \in Task : pc[t] # "idle" => FromPage(msg[t])
  /\ \A p \in Page, type \in FrameType : Fits(p, type)

(* Sequences of messages.                                                  *)
LEMMA AppendOwn ==
  ASSUME NEW w \in Seq(Message), NEW m \in Message, NEW p, NEW type, Carries(m, p, type)
  PROVE  OnWire(Append(w, m), p, type) /\ NewestIs(Append(w, m), p, type, m.frame)
<1> DEFINE x == Append(w, m)
<1>1. Len(w) \in Nat /\ Len(x) = Len(w) + 1 /\ x[Len(w) + 1] = m OBVIOUS
<1> HIDE DEF x
<1>2. OnWire(x, p, type) BY <1>1 DEF OnWire
<1>3. \A i \in 1..Len(x) : i = Len(w) + 1 \/ i < Len(w) + 1 BY <1>1
<1>4. Len(w) + 1 \in 1..Len(x) BY <1>1
<1>5. NewestIs(x, p, type, m.frame) BY <1>1, <1>3, <1>4 DEF NewestIs
<1> QED BY <1>2, <1>5 DEF x

LEMMA AppendOther ==
  ASSUME NEW w \in Seq(Message), NEW m \in Message, NEW p, NEW type, NEW f,
         ~Carries(m, p, type), NewestIs(w, p, type, f)
  PROVE  /\ NewestIs(Append(w, m), p, type, f)
         /\ OnWire(w, p, type) => OnWire(Append(w, m), p, type)
<1> DEFINE x == Append(w, m)
<1>1. /\ Len(w) \in Nat /\ Len(x) = Len(w) + 1 /\ x[Len(w) + 1] = m
      /\ \A i \in 1..Len(w) : x[i] = w[i]
  OBVIOUS
<1> HIDE DEF x
<1>2. /\ \A i \in 1..Len(x) : i \in 1..Len(w) \/ i = Len(w) + 1
      /\ \A i \in 1..Len(w) : i \in 1..Len(x)
  BY <1>1
<1>3. OnWire(w, p, type) => OnWire(x, p, type) BY <1>1, <1>2 DEF OnWire
<1>4. NewestIs(x, p, type, f)
  <2> SUFFICES ASSUME NEW i \in 1..Len(x), Carries(x[i], p, type),
                      \A j \in 1..Len(x) : i < j => ~Carries(x[j], p, type)
               PROVE  x[i].frame = f
    BY DEF NewestIs
  <2>1. i \in 1..Len(w) BY <1>1, <1>2
  <2>2. \A j \in 1..Len(w) : i < j => ~Carries(w[j], p, type) BY <1>1, <1>2
  <2> QED BY <1>1, <2>1, <2>2 DEF NewestIs
<1> QED BY <1>3, <1>4 DEF x

LEMMA TailNewest ==
  ASSUME NEW w \in Seq(Message), w # <<>>, NEW p, NEW type, NEW f, NewestIs(w, p, type, f)
  PROVE  /\ NewestIs(Tail(w), p, type, f)
         /\ OnWire(w, p, type) /\ ~OnWire(Tail(w), p, type) =>
              Carries(Head(w), p, type) /\ Head(w).frame = f
         /\ Carries(Head(w), p, type) => OnWire(w, p, type)
<1> DEFINE x == Tail(w)
<1>1. /\ Len(w) \in Nat /\ Len(w) # 0 /\ Len(x) = Len(w) - 1 /\ Head(w) = w[1]
      /\ \A i \in 1..Len(x) : x[i] = w[i + 1]
  OBVIOUS
<1> HIDE DEF x
<1>2. /\ \A i \in 1..Len(x) : i + 1 \in 1..Len(w)
      /\ \A i \in 1..Len(w) : i = 1 \/ (i - 1 \in 1..Len(x) /\ (i - 1) + 1 = i)
      /\ 1 \in 1..Len(w)
  BY <1>1
<1>3. NewestIs(x, p, type, f)
  <2> SUFFICES ASSUME NEW i \in 1..Len(x), Carries(x[i], p, type),
                      \A j \in 1..Len(x) : i < j => ~Carries(x[j], p, type)
               PROVE  x[i].frame = f
    BY DEF NewestIs
  <2>1. i + 1 \in 1..Len(w) /\ x[i] = w[i + 1] BY <1>1, <1>2
  <2>2. ASSUME NEW j \in 1..Len(w), i + 1 < j PROVE ~Carries(w[j], p, type)
    <3>1. j - 1 \in 1..Len(x) /\ i < j - 1 BY <1>2, <2>2
    <3>2. x[j - 1] = w[j] BY <1>1, <3>1
    <3> QED BY <3>1, <3>2
  <2> QED BY <2>1, <2>2 DEF NewestIs
<1>4. ASSUME OnWire(w, p, type), ~OnWire(x, p, type)
      PROVE  Carries(w[1], p, type) /\ w[1].frame = f
  <2>1. ASSUME NEW j \in 1..Len(w), j # 1 PROVE ~Carries(w[j], p, type)
    <3>1. j - 1 \in 1..Len(x) /\ x[j - 1] = w[j] BY <1>1, <1>2, <2>1
    <3> QED BY <1>4, <3>1 DEF OnWire
  <2>2. Carries(w[1], p, type) BY <1>4, <2>1 DEF OnWire
  <2>3. \A j \in 1..Len(w) : 1 < j => ~Carries(w[j], p, type) BY <2>1
  <2> QED BY <1>2, <2>2, <2>3 DEF NewestIs
<1>5. Carries(w[1], p, type) => OnWire(w, p, type) BY <1>2 DEF OnWire
<1> QED BY <1>1, <1>3, <1>4, <1>5 DEF x

(* What can happen to the newest frame of a page.                          *)
LEMMA FitsKept ==
  ASSUME NEW p, NEW type, Fits(p, type), wire' = wire,
         <<p, type>> \in alerted => <<p, type>> \in alerted',
         Wanted(p, type)' = Wanted(p, type), InHand(p, type)' = InHand(p, type),
         Shows(p, type) => Shows(p, type)'
  PROVE  Fits(p, type)'
BY DEF Fits

LEMMA FitsCarriedOut ==
  ASSUME NEW p, NEW type, Fits(p, type), wire' = wire, alerted' = alerted,
         Wanted(p, type)' = Wanted(p, type), InHand(p, type)' = {},
         /\ InHand(p, type) \subseteq {Wanted(p, type)}
         /\ InHand(p, type) = {} => Shows(p, type)
         => Shows(p, type)'
  PROVE  Fits(p, type)'
BY DEF Fits

LEMMA FitsBehindOthers ==
  ASSUME WireInv, NEW p, NEW type, Fits(p, type), NEW m \in Message, wire' = Append(wire, m),
         ~Carries(m, p, type), <<p, type>> \in alerted => <<p, type>> \in alerted',
         Wanted(p, type)' = Wanted(p, type), InHand(p, type)' = InHand(p, type),
         Shows(p, type) => Shows(p, type)'
  PROVE  Fits(p, type)'
<1> SUFFICES ASSUME <<p, type>> \notin alerted'
             PROVE  /\ NewestIs(wire', p, type, Wanted(p, type))
                    /\ ~OnWire(wire', p, type) =>
                         /\ InHand(p, type) \subseteq {Wanted(p, type)}
                         /\ InHand(p, type) = {} => Shows(p, type)
  BY DEF Fits
<1>1. NewestIs(wire, p, type, Wanted(p, type)) BY DEF Fits
<1>2. wire \in Seq(Message) BY DEF WireInv
<1>3. /\ NewestIs(wire', p, type, Wanted(p, type))
      /\ OnWire(wire, p, type) => OnWire(wire', p, type)
  BY <1>1, <1>2, AppendOther
<1> QED BY <1>3 DEF Fits

LEMMA FitsSent ==
  ASSUME WireInv, NEW p, NEW type, NEW m \in Message, wire' = Append(wire, m),
         Carries(m, p, type), m.frame = Wanted(p, type)'
  PROVE  Fits(p, type)'
<1>1. wire \in Seq(Message) BY DEF WireInv
<1>2. OnWire(wire', p, type) /\ NewestIs(wire', p, type, m.frame) BY <1>1, AppendOwn
<1> QED BY <1>2 DEF Fits

LEMMA FitsDelivered ==
  ASSUME WireInv, NEW p, NEW type, Fits(p, type), wire # <<>>, wire' \in {wire, Tail(wire)},
         alerted' = alerted, Wanted(p, type)' = Wanted(p, type), InHand(p, type) = {},
         InHand(p, type)' = IF Carries(Head(wire), p, type) THEN {Head(wire).frame} ELSE {},
         Shows(p, type) => Shows(p, type)'
  PROVE  Fits(p, type)'
<1> SUFFICES ASSUME <<p, type>> \notin alerted'
             PROVE  /\ NewestIs(wire', p, type, Wanted(p, type))
                    /\ ~OnWire(wire', p, type) =>
                         /\ InHand(p, type)' \subseteq {Wanted(p, type)}
                         /\ InHand(p, type)' = {} => Shows(p, type)'
  BY DEF Fits
<1>1. NewestIs(wire, p, type, Wanted(p, type)) /\ (~OnWire(wire, p, type) => Shows(p, type))
  BY DEF Fits
<1>2. wire \in Seq(Message) BY DEF WireInv
<1>3. /\ NewestIs(Tail(wire), p, type, Wanted(p, type))
      /\ OnWire(wire, p, type) /\ ~OnWire(Tail(wire), p, type) =>
           Carries(Head(wire), p, type) /\ Head(wire).frame = Wanted(p, type)
      /\ Carries(Head(wire), p, type) => OnWire(wire, p, type)
  BY <1>1, <1>2, TailNewest
<1> QED BY <1>1, <1>3

LEMMA SameHand ==
  ASSUME UNCHANGED vars
  PROVE  \A p, type : InHand(p, type)' = InHand(p, type)
BY DEF InHand, vars

LEMMA Hand ==
  ASSUME OneTask, NEW t \in Task, NEW p, NEW type
  PROVE  /\ InHand(p, type) = IF pc[t] \in Unread /\ Carries(msg[t], p, type)
                              THEN {msg[t].frame} ELSE {}
         /\ InHand(p, type)' = IF pc'[t] \in Unread /\ Carries(msg'[t], p, type)
                               THEN {msg'[t].frame} ELSE {}
<1>1. Task = {t} BY DEF OneTask
<1>2. ASSUME pc[t] \in Unread /\ Carries(msg[t], p, type) PROVE InHand(p, type) = {msg[t].frame}
  BY <1>1, <1>2 DEF InHand
<1>3. ASSUME ~(pc[t] \in Unread /\ Carries(msg[t], p, type)) PROVE InHand(p, type) = {}
  BY <1>1, <1>3 DEF InHand
<1>4. ASSUME pc'[t] \in Unread /\ Carries(msg'[t], p, type)
      PROVE  InHand(p, type)' = {msg'[t].frame}
  BY <1>1, <1>4 DEF InHand
<1>5. ASSUME ~(pc'[t] \in Unread /\ Carries(msg'[t], p, type)) PROVE InHand(p, type)' = {}
  BY <1>1, <1>5 DEF InHand
<1> QED BY <1>2, <1>3, <1>4, <1>5

(* A page that uses a control keeps what is said of every control.         *)
LEMMA ChatFits ==
  ASSUME PanelInv, NEW q \in Page, NEW f, f.type \in FrameType, etChatTo(q, f),
         [from |-> q, frame |-> f] \in Message, UNCHANGED vars,
         NEW p \in Page, NEW type \in FrameType, Fits(p, type),
         p = q /\ type = f.type => Wanted(p, type)' = f,
         ~(p = q /\ type = f.type) => /\ Wanted(p, type)' = Wanted(p, type)
                                      /\ Shows(p, type) => Shows(p, type)'
  PROVE  Fits(p, type)'
<1> DEFINE m == [from |-> q, frame |-> f]
<1>1. WireInv /\ InHand(p, type)' = InHand(p, type) BY SameHand DEF PanelInv
<1>2. /\ m \in Message /\ (Carries(m, p, type) <=> p = q /\ type = f.type) /\ m.frame = f
  BY DEF Carries
<1>3. \/ wire' = Append(wire, m) /\ alerted' = alerted \ {<<q, f.type>>}
      \/ wire' = wire /\ alerted' = alerted \cup {<<q, f.type>>}
  BY DEF etChatTo
<1> HIDE DEF m
<1>4. CASE p = q /\ type = f.type
  <2>1. CASE wire' = Append(wire, m) BY <1>1, <1>2, <1>4, <2>1, FitsSent
  <2>2. CASE alerted' = alerted \cup {<<q, f.type>>} BY <1>4, <2>2 DEF Fits
  <2> QED BY <1>3, <2>1, <2>2
<1>5. CASE ~(p = q /\ type = f.type)
  <2>1. <<p, type>> \in alerted => <<p, type>> \in alerted' BY <1>3, <1>5
  <2>2. CASE wire' = Append(wire, m) BY <1>1, <1>2, <1>5, <2>1, <2>2, FitsBehindOthers
  <2>3. CASE wire' = wire BY <1>1, <1>5, <2>1, <2>3, FitsKept
  <2> QED BY <1>3, <2>2, <2>3
<1> QED BY <1>4, <1>5

LEMMA ControlsKeepFits ==
  ASSUME PanelInv, NEW p \in Page, NEW type \in FrameType, Fits(p, type)
  PROVE  /\ \A q \in Page, k \in Channel, position \in Position :
              ChangeSlider(q, k, position) => Fits(p, type)'
         /\ \A q \in Page : Toggle(q) => Fits(p, type)'
         /\ \A u \in User \ Page, f \in Strays : OtherSends(u, f) => Fits(p, type)'
<1>1. ASSUME NEW q \in Page, NEW k \in Channel, NEW position \in Position,
             ChangeSlider(q, k, position)
      PROVE  Fits(p, type)'
  <2> DEFINE f == pwmControl(pwmValue'[q])
  <2>1. /\ etChatTo(q, f) /\ UNCHANGED <<vars, switch1, witness, lastSet>>
    BY <1>1 DEF ChangeSlider
  <2>2. /\ pwmValue' \in [Page -> [Channel -> Position]] /\ [from |-> q, frame |-> f] \in Message
        /\ \A r \in Page \ {q} : pwmValue'[r] = pwmValue[r]
    BY <1>1, SliderMoves
  <2>3. f.type = "rgb" BY <2>2, PwmFrame
  <2>4. type = "rgb" => Wanted(p, type)' = pwmControl(pwmValue'[p]) BY DEF Wanted
  <2>5. /\ type # "rgb" => Wanted(p, type)' = Wanted(p, type)
        /\ p # q => Wanted(p, type)' = Wanted(p, type)
    BY <2>1, <2>2 DEF Wanted
  <2>6. p # q \/ type # "rgb" => (Shows(p, type) => Shows(p, type)')
    BY <2>1, <2>2 DEF Shows, vars
  <2> HIDE DEF f
  <2>7. p = q /\ type = f.type => Wanted(p, type)' = f BY <2>3, <2>4 DEF f
  <2> QED BY <2>1, <2>2, <2>3, <2>5, <2>6, <2>7, ChatFits DEF FrameType
<1>2. ASSUME NEW q \in Page, Toggle(q) PROVE Fits(p, type)'
  <2> DEFINE f == lightControl(switch1'[q])
  <2>1. /\ etChatTo(q, f) /\ UNCHANGED <<vars, pwmValue, witness, lastSet>>
    BY <1>2 DEF Toggle
  <2>2. /\ switch1'[q] \in {"on", "off"} /\ [from |-> q, frame |-> f] \in Message
        /\ \A r \in Page \ {q} : switch1'[r] = switch1[r]
    BY <1>2, SwitchMoves
  <2>3. f.type = "switch" BY <2>2, SwitchFrame
  <2>4. type = "switch" => Wanted(p, type)' = lightControl(switch1'[p]) BY DEF Wanted
  <2>5. /\ type # "switch" => Wanted(p, type)' = Wanted(p, type)
        /\ p # q => Wanted(p, type)' = Wanted(p, type)
    BY <2>1, <2>2 DEF Wanted, FrameType
  <2>6. p # q \/ type # "switch" => (Shows(p, type) => Shows(p, type)')
    BY <2>1, <2>2 DEF Shows, vars, FrameType
  <2> HIDE DEF f
  <2>7. p = q /\ type = f.type => Wanted(p, type)' = f BY <2>3, <2>4 DEF f
  <2> QED BY <2>1, <2>2, <2>3, <2>5, <2>6, <2>7, ChatFits DEF FrameType
<1>3. ASSUME NEW u \in User \ Page, NEW f \in Strays, OtherSends(u, f) PROVE Fits(p, type)'
  <2> DEFINE m == [from |-> u, frame |-> f]
  <2>1. m \in Message /\ ~Carries(m, p, type) BY StraysAssumption DEF Message, Carries
  <2>2. wire' = Append(wire, m) /\ UNCHANGED <<vars, panel, witness, lastSet>>
    BY <1>3 DEF OtherSends
  <2>3. Wanted(p, type)' = Wanted(p, type) /\ (Shows(p, type) => Shows(p, type)')
    BY <2>2 DEF Wanted, Shows, vars
  <2>4. InHand(p, type)' = InHand(p, type) BY <2>2, SameHand
  <2> HIDE DEF m
  <2> QED BY <2>1, <2>2, <2>3, <2>4, FitsBehindOthers DEF PanelInv
<1> QED BY <1>1, <1>2, <1>3

(* So does a task that delivers, drops or carries out a frame.             *)
LEMMA PaintFits ==
  ASSUME OneTask, PanelInv, TypeInv, NEW t \in Task, Paint(t), FromPage(msg[t]),
         NEW p \in Page, NEW type \in FrameType, Fits(p, type)
  PROVE  Fits(p, type)'
<1>1. /\ pc[t] = "act" /\ msg[t].frame.type = "rgb" /\ msg' = msg /\ relay' = relay
      /\ UNCHANGED <<panel, wire, switcher>> /\ painter' = msg[t].from
      /\ msg[t].frame.arg \in Colour => lamp' = msg[t].frame.arg
      /\ lastSet' = Lit(Bytes[lamp'])
  BY DEF Paint, SetColour, At, Driver!Begin
<1>2. pc'[t] \notin Unread
  <2>1. pc' = [pc EXCEPT ![t] = "ack"] BY DEF Paint, SetColour, Goto
  <2> QED BY <2>1, <1>1 DEF TypeInv, Types, Unread
<1>3. InHand(p, type)' = {} BY <1>2, Hand
<1>4. Wanted(p, type)' = Wanted(p, type) BY <1>1 DEF Wanted
<1>5. ASSUME InHand(p, type) \subseteq {Wanted(p, type)},
             InHand(p, type) = {} => Shows(p, type)
      PROVE  Shows(p, type)'
  <2>1. CASE type = "switch"
    <3>1. InHand(p, type) = {} BY <1>1, <2>1, Hand DEF Carries
    <3> QED BY <1>1, <1>5, <2>1, <3>1 DEF Shows
  <2>2. CASE type = "rgb" /\ msg[t].from # p BY <1>1, <2>2 DEF Shows
  <2>3. CASE type = "rgb" /\ msg[t].from = p
    <3>1. InHand(p, type) = {msg[t].frame} BY <1>1, <2>3, Hand DEF Carries, Unread
    <3>2. msg[t].frame = pwmControl(pwmValue[p]) BY <1>5, <2>3, <3>1 DEF Wanted
    <3>3. msg[t].frame.arg \in Colour BY <1>1, <2>3 DEF FromPage, PageMade
    <3>4. pwmValue[p] \in [Channel -> Position] BY DEF PanelInv, ControlsInv
    <3>5. Bytes[lamp'] = Scaled(pwmValue[p]) BY <1>1, <3>2, <3>3, <3>4, PwmFrame
    <3> QED BY <1>1, <2>3, <3>5 DEF Shows
  <2> QED BY <2>1, <2>2, <2>3 DEF FrameType
<1> QED BY <1>1, <1>3, <1>4, <1>5, FitsCarriedOut

LEMMA RelayFits ==
  ASSUME OneTask, PanelInv, TypeInv, NEW t \in Task, DriveRelay(t), FromPage(msg[t]),
         NEW p \in Page, NEW type \in FrameType, Fits(p, type)
  PROVE  Fits(p, type)'
<1>1. /\ pc[t] = "act" /\ msg[t].frame.type # "rgb" /\ msg' = msg
      /\ relay' \in SwitchTo(msg[t].frame)
      /\ UNCHANGED <<panel, wire, painter, lastSet>> /\ switcher' = msg[t].from
  BY DEF DriveRelay, SetSwitch, At
<1>2. pc'[t] \notin Unread
  <2>1. pc' = [pc EXCEPT ![t] = "send"] BY DEF DriveRelay, SetSwitch, Goto
  <2> QED BY <2>1, <1>1 DEF TypeInv, Types, Unread
<1>3. InHand(p, type)' = {} BY <1>2, Hand
<1>4. Wanted(p, type)' = Wanted(p, type) BY <1>1 DEF Wanted
<1>5. ASSUME InHand(p, type) \subseteq {Wanted(p, type)},
             InHand(p, type) = {} => Shows(p, type)
      PROVE  Shows(p, type)'
  <2>1. CASE type = "rgb"
    <3>1. InHand(p, type) = {} BY <1>1, <2>1, Hand DEF Carries
    <3> QED BY <1>1, <1>5, <2>1, <3>1 DEF Shows
  <2>2. CASE type = "switch" /\ msg[t].from # p BY <1>1, <2>2 DEF Shows
  <2>3. CASE type = "switch" /\ msg[t].from = p
    <3>1. msg[t].frame.type = "switch" /\ msg[t].frame.arg \in {"on", "off"}
      BY <1>1, <2>3 DEF FromPage, PageMade
    <3>2. InHand(p, type) = {msg[t].frame} BY <1>1, <2>3, <3>1, Hand DEF Carries, Unread
    <3>3. msg[t].frame = lightControl(switch1[p]) BY <1>5, <2>3, <3>2 DEF Wanted
    <3>4. msg[t].frame.arg = switch1[p] BY <3>3 DEF lightControl, PageFrame
    <3>5. relay' = switch1[p] BY <1>1, <3>1, <3>4 DEF SwitchTo
    <3> QED BY <1>1, <2>3, <3>5 DEF Shows
  <2> QED BY <2>1, <2>2, <2>3 DEF FrameType
<1> QED BY <1>1, <1>3, <1>4, <1>5, FitsCarriedOut

LEMMA DropFits ==
  ASSUME OneTask, PanelInv, TypeInv, NEW t \in Task, DropFrame(t),
         NEW p \in Page, NEW type \in FrameType, Fits(p, type)
  PROVE  Fits(p, type)'
<1>1. /\ pc[t] = "parse" /\ UNCHANGED <<panel, wire, lastSet, relay>>
      /\ painter' = IF msg[t].frame.type = "rgb" THEN "nobody" ELSE painter
      /\ switcher' = IF msg[t].frame.type = "switch" THEN "nobody" ELSE switcher
  BY DEF DropFrame, Reject, At
<1>2. pc'[t] \notin Unread
  <2>1. pc' = [pc EXCEPT ![t] = "idle"] BY DEF DropFrame, Reject, Goto
  <2> QED BY <2>1 DEF TypeInv, Types, Unread
<1>3. InHand(p, type)' = {} BY <1>2, Hand
<1>4. Wanted(p, type)' = Wanted(p, type) BY <1>1 DEF Wanted
<1>5. p # "nobody" BY PageAssumption, NamesAssumption
<1>6. ASSUME InHand(p, type) = {} => Shows(p, type) PROVE Shows(p, type)'
  <2>1. CASE msg[t].frame.type = type BY <1>1, <1>5, <2>1 DEF Shows, FrameType
  <2>2. CASE msg[t].frame.type # type
    <3>1. InHand(p, type) = {} BY <2>2, Hand DEF Carries
    <3>2. /\ type = "rgb" => painter' = painter
          /\ type = "switch" => switcher' = switcher
      BY <1>1, <2>2
    <3> QED BY <1>1, <1>6, <3>1, <3>2 DEF Shows, FrameType
  <2> QED BY <2>1, <2>2
<1> QED BY <1>1, <1>3, <1>4, <1>6, FitsCarriedOut

LEMMA DeliverFits ==
  ASSUME OneTask, PanelInv, TypeInv, NEW t \in Task, NEW again \in BOOLEAN, Deliver(t, again),
         NEW p \in Page, NEW type \in FrameType, Fits(p, type)
  PROVE  Fits(p, type)'
<1>1. /\ pc[t] = "idle" /\ wire # <<>> /\ wire' \in {wire, Tail(wire)}
      /\ UNCHANGED <<panel, painter, switcher, lastSet>>
  BY DEF Deliver, LoopIdle, At
<1>2. PICK kind \in Kind : Receive(t, kind, Head(wire)) BY PathOfDelivery
<1>3. pc'[t] = "name1" /\ msg'[t] = Head(wire) /\ relay' = relay
  BY <1>2 DEF Receive, Goto, TypeInv, Types
<1>4. InHand(p, type) = {} BY <1>1, Hand DEF Unread
<1>5. InHand(p, type)' = IF Carries(Head(wire), p, type) THEN {Head(wire).frame} ELSE {}
  BY <1>3, Hand DEF Unread
<1>6. Wanted(p, type)' = Wanted(p, type) /\ (Shows(p, type) => Shows(p, type)')
  BY <1>1, <1>3 DEF Wanted, Shows
<1> QED BY <1>1, <1>4, <1>5, <1>6, FitsDelivered DEF PanelInv

LEMMA QuietlyFits ==
  ASSUME OneTask, PanelInv, TypeInv, NEW t \in Task, Quietly(t) \/ Acknowledge(t),
         FromPage(msg[t]), NEW p \in Page, NEW type \in FrameType, Fits(p, type)
  PROVE  Fits(p, type)'
<1>1. pc \in [Task -> Label] BY DEF TypeInv, Types
<1>2. UNCHANGED <<panel, wire, painter, switcher, lastSet, relay>>
  BY DEF Quietly, Acknowledge, NameFirstHalf, NameSecondHalf, Allocate, AnswerError,
         SendReply, Release, AnswerSuccess
<1>3. CASE NameFirstHalf(t) \/ NameSecondHalf(t)
  <2>1. pc[t] \in Unread /\ pc'[t] \in Unread /\ msg' = msg
    BY <1>1, <1>3 DEF NameFirstHalf, NameSecondHalf, At, Goto, Unread
  <2>2. InHand(p, type)' = InHand(p, type) BY <2>1, Hand
  <2> QED BY <1>2, <2>2, FitsKept DEF Wanted, Shows
<1>4. CASE Allocate(t)
  <2>1. pc[t] \in Unread /\ msg' = msg /\ pc'[t] = Dispatch(msg[t].frame)
    BY <1>1, <1>4 DEF Allocate, At, Goto, Unread
  <2>2. msg[t].from = p => pc'[t] \in Unread
    BY <2>1 DEF FromPage, PageMade, Dispatch, Unread
  <2>3. InHand(p, type)' = InHand(p, type) BY <2>1, <2>2, Hand DEF Carries
  <2> QED BY <1>2, <2>3, FitsKept DEF Wanted, Shows
<1>5. CASE AnswerError(t) \/ AnswerSuccess(t) \/ SendReply(t) \/ Release(t)
  <2>1. pc[t] \notin Unread /\ pc'[t] \notin Unread
    BY <1>1, <1>5 DEF AnswerError, AnswerSuccess, SendReply, Release, At, Goto, Unread
  <2>2. InHand(p, type)' = InHand(p, type) BY <2>1, Hand
  <2> QED BY <1>2, <2>2, FitsKept DEF Wanted, Shows
<1> QED BY <1>3, <1>4, <1>5 DEF Quietly, Acknowledge

(* The lamp as such: the status lamp and the steps of the driver.          *)
LEMMA LampKeepsFits ==
  ASSUME OneTask, PanelInv, Light!IInv, Alone,
         \/ wifi_led_spark \/ LoseSession \/ RegainSession
         \/ \E t \in Task : DriverStep(t) \/ OnConnect(t) \/ OnDisconnect(t),
         NEW p \in Page, NEW type \in FrameType, Fits(p, type)
  PROVE  Fits(p, type)'
<1>1. UNCHANGED <<vars, panel, wire, switcher>>
  BY DEF wifi_led_spark, LoseSession, RegainSession, SessionChanges, DriverStep, OnConnect,
         OnDisconnect, Notice
<1>2. painter' = "status" \/ (painter' = painter /\ lastSet' = lastSet)
  <2>1. ASSUME NEW t \in Task, DriverStep(t) PROVE painter' = painter /\ lastSet' = lastSet
    <3>1. Light!Step(t) BY <2>1, SameStep DEF DriverStep
    <3>2. Light!Sole(t) /\ Light!TypeOK BY DEF Alone, Light!NoOverlap, Light!IInv
    <3>3. lastSet' = lastSet BY <3>1, <3>2, LightAssumptions, Light!SoleStep
    <3> QED BY <2>1, <3>3 DEF DriverStep
  <2>2. LoseSession \/ RegainSession => painter' = painter /\ lastSet' = lastSet
    BY DEF LoseSession, RegainSession, SessionChanges
  <2>3. wifi_led_spark => painter' = "status" BY DEF wifi_led_spark
  <2>4. ASSUME NEW t \in Task, OnConnect(t) PROVE painter' = "status" BY <2>4 DEF OnConnect
  <2>5. ASSUME NEW t \in Task, OnDisconnect(t) PROVE painter' = painter /\ lastSet' = lastSet
    BY <2>5 DEF OnDisconnect
  <2> QED BY <2>1, <2>2, <2>3, <2>4, <2>5
<1>3. p # "status" BY PageAssumption, NamesAssumption
<1>4. relay' = relay /\ pwmValue' = pwmValue /\ switch1' = switch1 /\ switcher' = switcher
  BY <1>1 DEF vars
<1>5. Shows(p, type) => Shows(p, type)' BY <1>2, <1>3, <1>4 DEF Shows
<1>6. Wanted(p, type)' = Wanted(p, type) BY <1>4 DEF Wanted
<1>7. InHand(p, type)' = InHand(p, type) BY <1>1, SameHand
<1> QED BY <1>1, <1>5, <1>6, <1>7, FitsKept

LEMMA StepKeepsPageMade ==
  ASSUME OneTask, PanelInv, TypeInv, SystemNext,
         \A t \in Task : pc[t] # "idle" => FromPage(msg[t])
  PROVE  \A t \in Task : pc'[t] # "idle" => FromPage(msg'[t])
<1>1. DOMAIN msg = Task /\ pc \in [Task -> Label] BY DEF TypeInv, Types
<1>2. ASSUME NEW t \in Task, NEW again \in BOOLEAN, Deliver(t, again)
      PROVE  \A u \in Task : FromPage(msg'[u])
  <2>1. msg' = [msg EXCEPT ![t] = Head(wire)] /\ FromPage(Head(wire))
    BY <1>2, PathOfDelivery DEF Receive
  <2> QED BY <1>1, <2>1 DEF OneTask
<1>3. ASSUME NEW t \in Task, Process(t)
      PROVE  pc[t] # "idle" /\ (pc'[t] = "idle" \/ msg' = msg)
  BY <1>1, <1>3 DEF Process, NameFirstHalf, NameSecondHalf, Reject, Allocate, AnswerError,
                    SetColour, AnswerSuccess, SetSwitch, SendReply, Release, At, Goto
<1>4. CASE \E t \in Task : Process(t) BY <1>3, <1>4 DEF OneTask
<1>5. CASE UNCHANGED vars BY <1>5 DEF vars
<1>6. ASSUME NEW t \in Task, Loop(t) PROVE Process(t) \/ UNCHANGED vars
  BY <1>6, PathOfLoop
<1>7. ASSUME ~(\E t \in Task : Loop(t) \/ \E again \in BOOLEAN : Deliver(t, again))
      PROVE  UNCHANGED vars
  BY <1>7 DEF SystemNext, ChangeSlider, Toggle, OtherSends, LoseSession, RegainSession,
              SessionChanges, wifi_led_spark
<1> QED BY <1>2, <1>4, <1>5, <1>6, <1>7

LEMMA StepKeepsFits ==
  ASSUME OneTask, PanelInv, TypeInv, Light!IInv, Alone, PagesInv, SystemNext,
         NEW p \in Page, NEW type \in FrameType
  PROVE  Fits(p, type)'
<1>1. Fits(p, type) BY DEF PagesInv
<1>2. ASSUME NEW t \in Task, pc[t] # "idle" PROVE FromPage(msg[t]) BY <1>2 DEF PagesInv
<1>3. ASSUME NEW t \in Task, Loop(t) PROVE Fits(p, type)'
  <2>1. CASE Paint(t)
    <3>1. pc[t] # "idle" BY <2>1 DEF Paint, SetColour, At
    <3> QED BY <1>1, <1>2, <2>1, <3>1, PaintFits
  <2>2. CASE DriveRelay(t)
    <3>1. pc[t] # "idle" BY <2>2 DEF DriveRelay, SetSwitch, At
    <3> QED BY <1>1, <1>2, <2>2, <3>1, RelayFits
  <2>3. CASE DropFrame(t) BY <1>1, <2>3, DropFits
  <2>4. CASE Quietly(t) \/ Acknowledge(t)
    <3>1. pc[t] # "idle"
      BY <2>4 DEF Quietly, Acknowledge, NameFirstHalf, NameSecondHalf, Allocate, AnswerError,
                  SendReply, Release, AnswerSuccess, At
    <3> QED BY <1>1, <1>2, <2>4, <3>1, QuietlyFits
  <2>5. CASE DriverStep(t) \/ OnConnect(t) \/ OnDisconnect(t) BY <1>1, <2>5, LampKeepsFits
  <2> QED BY <1>3, <2>1, <2>2, <2>3, <2>4, <2>5 DEF Loop
<1>4. ASSUME NEW t \in Task, NEW again \in BOOLEAN, Deliver(t, again) PROVE Fits(p, type)'
  BY <1>1, <1>4, DeliverFits
<1>5. CASE LoseSession \/ RegainSession \/ wifi_led_spark BY <1>1, <1>5, LampKeepsFits
<1> QED BY <1>1, <1>3, <1>4, <1>5, ControlsKeepFits DEF SystemNext

LEMMA PagesInvHolds == SystemSpec => [](OneTask => PagesInv)
<1> DEFINE Inv == OneTask => PagesInv
<1>1. SystemInit => Inv
  <2> SUFFICES ASSUME SystemInit, OneTask PROVE PagesInv OBVIOUS
  <2>1. \A t \in Task : pc[t] = "idle" BY DEF SystemInit, Init
  <2>2. \A p, type : InHand(p, type) = {} BY <2>1 DEF InHand, Unread
  <2>3. Len(wire) = 0 /\ 1..0 = {} BY DEF SystemInit
  <2>4. ASSUME NEW p \in Page, NEW type \in FrameType PROVE Shows(p, type)
    <3>1. p # painter /\ p # switcher
      BY PageAssumption, NamesAssumption DEF SystemInit
    <3> QED BY <3>1 DEF Shows
  <2>5. ASSUME NEW p \in Page, NEW type \in FrameType PROVE Fits(p, type)
    BY <2>2, <2>3, <2>4 DEF Fits, NewestIs
  <2> QED BY <2>1, <2>5 DEF PagesInv
<1>2. PanelInv /\ TypeInv /\ Light!IInv /\ (OneTask => LampInv) /\ Inv
        /\ [SystemNext]_systemVars => Inv'
  <2> SUFFICES ASSUME PanelInv, TypeInv, Light!IInv, OneTask, LampInv, PagesInv,
                      [SystemNext]_systemVars
               PROVE  PagesInv'
    BY DEF OneTask
  <2>1. CASE SystemNext
    <3>1. Alone BY DEF LampInv
    <3>2. \A t \in Task : pc'[t] # "idle" => FromPage(msg'[t])
      BY <2>1, StepKeepsPageMade DEF PagesInv
    <3>3. \A p \in Page, type \in FrameType : Fits(p, type)' BY <2>1, <3>1, StepKeepsFits
    <3> QED BY <3>2, <3>3 DEF PagesInv, FromPage, PageMade
  <2>2. CASE UNCHANGED systemVars
    BY <2>2 DEF systemVars, vars, PagesInv, FromPage, PageMade, Fits, InHand, Wanted, Shows
  <2> QED BY <2>1, <2>2
<1>3. AnswerInv => TypeInv BY DEF AnswerInv
<1> QED BY <1>1, <1>2, <1>3, SystemIsACommandPath, AnswerInvHolds, PanelInvHolds,
           StatusInvHolds, LampInvHolds, PTL DEF SystemSpec

(* When nothing is under way the lamp and the relay show the page that set *)
(* them last, all of its sliders and its switch, or the status lamp's      *)
(* green: cmdControl.js and index.html, the broker's order and duplicates, *)
(* et_user_app.c and RGB_light.c taken together, with one SDK task.        *)
THEOREM LampAlwaysShowsPanel == SystemSpec => [](OneTask => LampShowsPanel)
<1>1. StatusInv /\ Light!IInv /\ (OneTask => LampInv) /\ (OneTask => PagesInv)
        => (OneTask => LampShowsPanel)
  <2> SUFFICES ASSUME StatusInv, Light!IInv, OneTask, LampInv, PagesInv, Settled
               PROVE  /\ painter = "status" => shown = Green(255)
                      /\ painter \in Page /\ <<painter, "rgb">> \notin alerted =>
                           shown = Lit(Scaled(pwmValue[painter]))
                      /\ switcher \in Page /\ <<switcher, "switch">> \notin alerted =>
                           relay = switch1[switcher]
    BY DEF LampShowsPanel
  <2>1. /\ wire = <<>> /\ session /\ notices = <<>>
        /\ \A t \in Task : Free(t) /\ pc[t] = "idle"
    BY DEF Settled, LoopIdle, At
  <2>2. spark = FALSE BY <2>1 DEF StatusInv, Tidings
  <2>3. shown = lastSet
    <3>1. Light!Quiet BY <2>1 DEF Light!Quiet, Light!At, Free, Driver!At
    <3> QED BY <3>1, LampIsLastSet DEF LampInv
  <2>4. \A p, type : InHand(p, type) = {} BY <2>1 DEF InHand, Unread
  <2>5. \A p, type : ~OnWire(wire, p, type)
    <3>1. Len(wire) = 0 /\ 1..0 = {} BY <2>1
    <3> QED BY <3>1 DEF OnWire
  <2>6. ASSUME NEW p \in Page, NEW type \in FrameType, <<p, type>> \notin alerted
        PROVE  Shows(p, type)
    BY <2>4, <2>5, <2>6 DEF PagesInv, Fits
  <2>7. "rgb" \in FrameType /\ "switch" \in FrameType BY DEF FrameType
  <2>8. painter \in Page /\ <<painter, "rgb">> \notin alerted =>
          shown = Lit(Scaled(pwmValue[painter]))
    BY <2>3, <2>6, <2>7 DEF Shows
  <2>9. switcher \in Page /\ <<switcher, "switch">> \notin alerted => relay = switch1[switcher]
    BY <2>6, <2>7 DEF Shows
  <2>10. painter = "status" => shown = Green(255) BY <2>2, <2>3 DEF LampInv, Painted
  <2> QED BY <2>8, <2>9, <2>10
<1> QED BY <1>1, StatusInvHolds, LampInvHolds, PagesInvHolds, PTL
=============================================================================
