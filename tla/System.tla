------------------------------- MODULE System --------------------------------
(***************************************************************************)
(* From a slider to the lamp: the controls of the page (index.html and     *)
(* pwmControl, lightControl of cmdControl.js), the broker, the command     *)
(* path (CommandPath) and the lamp driver (RgbLight) composed.  The lamp   *)
(* the sliders set is also the status lamp (wifi_led.c): the spark timer   *)
(* and the cloud events write it with the same driver.                     *)
(*                                                                         *)
(* One SDK task at a time is considered here, the cloud task: it delivers  *)
(* messages and events one by one.  What two tasks do to each other is in  *)
(* CommandPath and RgbLight.                                               *)
(*                                                                         *)
(* External: the broker, which keeps what it has accepted in order and,    *)
(* since the frames are sent with qos 1, may deliver it more than once;    *)
(* the session, which is lost and taken up again (Lifecycle).              *)
(* Definitions marked FAULT are the definition that follows them with a    *)
(* bug put in; they are not part of the model.                             *)
(***************************************************************************)
EXTENDS CommandPath, Sequences

CONSTANTS NChannel,    \* PWM_CHANNEL
          Position,    \* positions of a slider, of 0..100
          Bytes,       \* the bytes an RGB payload stands for
          Page,        \* the users whose page it is
          Strays,      \* the frames other users send
          MaxMoves,    \* bound on what the users do
          MaxLosses,   \* bound on lost sessions
          MaxWire      \* bound on frames under way

ASSUME PositionAssumption == Position \subseteq 0..100 /\ 0 \in Position
ASSUME PageAssumption == Page \subseteq User
ASSUME StraysAssumption == Strays \subseteq Frames
ASSUME BytesAssumption == Bytes \in [Colour -> [1..NChannel -> 0..255]]
ASSUME ChannelAssumption == NChannel \in Nat /\ NChannel >= 2
ASSUME BoundsAssumption == {MaxMoves, MaxLosses, MaxWire} \subseteq Nat
ASSUME NamesAssumption == {"status", "nobody", "none"} \cap User = {}

VARIABLES
  pwmValue,    \* per page: the positions of its sliders
  switch1,     \* per page: the switch, "none" until it is used
  alerted,     \* pages told that their last frame of a type was not sent
  wire,        \* frames on the way to the device
  session,     \* the device's session with the cloud is up
  notices,     \* events of the session not yet delivered
  spark,       \* wifi_led_spark_timer is armed
  out_value,   \* the green byte of the next spark
  moves, losses,          \* spent budgets
  painter,     \* history: who last set the lamp
  switcher,    \* history: whose switch frame was last carried out
  cache, update_flag, recorded, shown,                   \* the driver
  dpc, want, ch, got, lastSet, alone

panel == <<pwmValue, switch1, alerted>>
status == <<session, notices, spark, out_value>>
budget == <<moves, losses>>
witness == <<painter, switcher>>
driver == <<cache, update_flag, recorded, shown, dpc, want, ch, got, lastSet, alone>>
systemVars == <<vars, panel, wire, status, budget, witness, driver>>

Byte == 0..255
Driver == INSTANCE RgbLight WITH
  Caller <- Task, Duty <- Byte, Zero <- 0, Palette <- {}, SparkPalette <- {},
  pc <- dpc

Channel == 1..NChannel
Black == [k \in Channel |-> 0]
Green(level) == [Black EXCEPT ![2] = level]

SystemInit ==
  /\ Init /\ Driver!Init
  /\ pwmValue = [p \in Page |-> Black]
  /\ switch1 = [p \in Page |-> "none"]
  /\ alerted = {} /\ wire = <<>>
  /\ session = FALSE /\ notices = <<>> /\ spark = TRUE /\ out_value = 255
  /\ moves = 0 /\ losses = 0
  /\ painter = "status" /\ switcher = "none"
------------------------------------------------------------------------------
(* The page.  Math.ceil(R * 2.55), in hundredths.                          *)
ToByte(position) == (position * 255 + 99) \div 100

PageFrame(type, arg) ==
  [shape |-> "good", cmd |-> "control", type |-> type, seq |-> 1, arg |-> arg]
Scaled(value) == [k \in Channel |-> ToByte(value[k])]
pwmControl(value) ==
  PageFrame("rgb", CHOOSE payload \in Colour : Bytes[payload] = Scaled(value))
lightControl(state) == PageFrame("switch", state)

(* Every panel has a payload with its bytes, and what the page sends is    *)
(* among the frames considered.                                            *)
ASSUME PanelAssumption ==
  \A value \in [Channel -> Position] :
    /\ \E payload \in Colour : Bytes[payload] = Scaled(value)
    /\ pwmControl(value) \in Frames
ASSUME SwitchAssumption == {lightControl("on"), lightControl("off")} \subseteq Frames

(* etChatTo: sent, or an alert and nothing else.                           *)
etChatTo(p, f) ==
  \/ wire' = Append(wire, [from |-> p, frame |-> f]) /\ alerted' = alerted \ {<<p, f.type>>}
  \/ alerted' = alerted \cup {<<p, f.type>>} /\ UNCHANGED wire

MayMove == moves < MaxMoves /\ Len(wire) < MaxWire /\ moves' = moves + 1

(* A change of one slider sends all three.                                 *)
\* FAULT
ChangeSliderAlone(p, k, position) ==
  /\ MayMove
  /\ pwmValue' = [pwmValue EXCEPT ![p][k] = position]
  /\ etChatTo(p, pwmControl([Black EXCEPT ![k] = position]))
  /\ UNCHANGED <<vars, switch1, status, losses, witness, driver>>
ChangeSlider(p, k, position) ==
  /\ MayMove
  /\ pwmValue' = [pwmValue EXCEPT ![p][k] = position]
  /\ etChatTo(p, pwmControl(pwmValue'[p]))
  /\ UNCHANGED <<vars, switch1, status, losses, witness, driver>>

Toggle(p) ==
  /\ MayMove
  /\ switch1' = [switch1 EXCEPT ![p] = IF @ = "on" THEN "off" ELSE "on"]
  /\ etChatTo(p, lightControl(switch1'[p]))
  /\ UNCHANGED <<vars, pwmValue, status, losses, witness, driver>>

(* Other clients of the device send what they like.                        *)
OtherSends(u, f) ==
  /\ MayMove
  /\ wire' = Append(wire, [from |-> u, frame |-> f])
  /\ UNCHANGED <<vars, panel, status, losses, witness, driver>>
------------------------------------------------------------------------------
(* The device.  A task that is inside the driver does nothing else.        *)
Free(t) == Driver!At(t, "idle")
LoopIdle(t) == Free(t) /\ At(t, "idle")

DriverStep(t) ==
  /\ Driver!Step(t)
  /\ UNCHANGED <<vars, panel, wire, status, budget, witness>>

(* RGB_light_set_color(r, g, b) gives two values of red a meaning of their *)
(* own before it sets the duties.                                          *)
Lit(colour) ==
  IF colour[1] = 253 THEN [Black EXCEPT ![1] = 255]
  ELSE IF colour[1] = 252 THEN [Black EXCEPT ![1] = 255, ![2] = 127]
  ELSE colour

(* The loop hands over the first message; the broker may send it again.    *)
Kinds(u) == IF u \in Page THEN {"MES_CHAT_TO_CHAT"} ELSE CommandKind
Deliver(t, again) ==
  /\ session /\ notices = <<>> /\ wire # <<>> /\ LoopIdle(t)
  /\ \E kind \in Kinds(Head(wire).from) : Receive(t, kind, Head(wire))
  /\ wire' = IF again THEN wire ELSE Tail(wire)
  /\ UNCHANGED <<panel, status, budget, witness, driver>>

(* A broken frame, or one for which there is no memory, is dropped without *)
(* a word.                                                                 *)
DropFrame(t) ==
  /\ Free(t) /\ Reject(t)
  /\ painter' = IF msg[t].frame.type = "rgb" THEN "nobody" ELSE painter
  /\ switcher' = IF msg[t].frame.type = "switch" THEN "nobody" ELSE switcher
  /\ UNCHANGED <<panel, wire, status, budget, driver>>

Quietly(t) ==
  /\ Free(t)
  /\ \/ NameFirstHalf(t) \/ NameSecondHalf(t) \/ Allocate(t)
     \/ AnswerError(t) \/ SendReply(t) \/ Release(t)
  /\ UNCHANGED <<panel, wire, status, budget, witness, driver>>

Paint(t) ==
  /\ Free(t) /\ SetColour(t)
  /\ Driver!Begin(t, Lit(Bytes[lamp']))
  /\ painter' = msg[t].from
  /\ UNCHANGED <<panel, wire, status, budget, switcher>>

(* The answer is built when RGB_light_set_color has returned.              *)
\* FAULT
AcknowledgeEarly(t) ==
  /\ AnswerSuccess(t)
  /\ UNCHANGED <<panel, wire, status, budget, witness, driver>>
Acknowledge(t) ==
  /\ Free(t) /\ AnswerSuccess(t)
  /\ UNCHANGED <<panel, wire, status, budget, witness, driver>>

DriveRelay(t) ==
  /\ Free(t) /\ SetSwitch(t)
  /\ switcher' = msg[t].from
  /\ UNCHANGED <<panel, wire, status, budget, painter, driver>>
------------------------------------------------------------------------------
(* The session, and what et_event_process does about it.                   *)
SessionChanges(up, notice) ==
  /\ session # up /\ session' = up
  /\ Len(notices) < 2 /\ notices' = Append(notices, notice)
  /\ UNCHANGED <<vars, panel, wire, spark, out_value, moves, witness, driver>>
LoseSession == losses < MaxLosses /\ losses' = losses + 1 /\ SessionChanges(FALSE, "DISCONNECT")
RegainSession == SessionChanges(TRUE, "CONNECT") /\ UNCHANGED losses

(* et_event_process, its two branches that touch the lamp; Lifecycle has   *)
(* the one for EVENT_LOGIN_KICK, and the others print.                     *)
Notice(t, event) ==
  /\ LoopIdle(t) /\ notices # <<>> /\ Head(notices) = event
  /\ notices' = Tail(notices)
  /\ UNCHANGED <<vars, panel, wire, session, out_value, budget, switcher>>

\* FAULT
OnConnectStillSparking(t) ==
  /\ Notice(t, "CONNECT")
  /\ Driver!Begin(t, Green(255))
  /\ painter' = "status" /\ UNCHANGED spark
OnConnect(t) ==
  /\ Notice(t, "CONNECT")
  /\ spark' = FALSE
  /\ Driver!Begin(t, Green(255))
  /\ painter' = "status"

OnDisconnect(t) ==
  /\ Notice(t, "DISCONNECT")
  /\ spark' = TRUE
  /\ UNCHANGED <<driver, painter>>

\* FAULT
wifi_led_spark_logicalNot ==
  /\ spark
  /\ Driver!Spark(Green(out_value))
  /\ out_value' = IF out_value = 0 THEN 1 ELSE 0
  /\ painter' = "status"
  /\ UNCHANGED <<vars, panel, wire, session, notices, spark, budget, switcher>>
wifi_led_spark ==
  /\ spark
  /\ Driver!Spark(Green(out_value))
  /\ out_value' = 255 - out_value
  /\ painter' = "status"
  /\ UNCHANGED <<vars, panel, wire, session, notices, spark, budget, switcher>>

Loop(t) == \/ DriverStep(t) \/ DropFrame(t) \/ Quietly(t) \/ Paint(t)
           \/ Acknowledge(t) \/ DriveRelay(t) \/ OnConnect(t) \/ OnDisconnect(t)

SystemNext ==
  \/ \E p \in Page, k \in Channel, position \in Position : ChangeSlider(p, k, position)
  \/ \E p \in Page : Toggle(p)
  \/ \E u \in User \ Page, f \in Strays : OtherSends(u, f)
  \/ LoseSession \/ RegainSession \/ wifi_led_spark
  \/ \E t \in Task : Loop(t) \/ \E again \in BOOLEAN : Deliver(t, again)

SystemSpec == SystemInit /\ [][SystemNext]_systemVars

(* The loop goes on, and the broker does not repeat itself for ever.  The  *)
(* session need not come back, and no user has to do anything.             *)
SystemFairSpec ==
  /\ SystemSpec
  /\ \A t \in Task : /\ WF_systemVars(Loop(t))
                     /\ SF_systemVars(Deliver(t, FALSE))
------------------------------------------------------------------------------
SystemTypeOK ==
  /\ TypeOK /\ Driver!TypeOK
  /\ pwmValue \in [Page -> [Channel -> Position]]
  /\ switch1 \in [Page -> {"none", "on", "off"}]
  /\ alerted \subseteq Page \X {"rgb", "switch"} /\ wire \in Seq(Message) /\ Len(wire) <= MaxWire
  /\ session \in BOOLEAN /\ spark \in BOOLEAN /\ out_value \in {0, 255}
  /\ notices \in Seq({"CONNECT", "DISCONNECT"}) /\ Len(notices) <= 2
  /\ painter \in User \cup {"status", "nobody"}
  /\ switcher \in User \cup {"none", "nobody"}

(* A user who is told "request succeeded" looks at a lamp that shows what  *)
(* was asked for: the colour is on the pins when the answer is sent.       *)
SuccessIsVisible ==
  \A t \in Task :
    At(t, "send") /\ set[t] /\ block[t].rc = "ACK_SUCCESS" =>
      shown = Lit(Bytes[lamp]) /\ msg[t].frame.arg \in {lamp, Absent}

(* When nothing is under way the lamp shows all the sliders of the page    *)
(* that set it last, or the green of the status lamp if the session came   *)
(* up after that: a reconnection replaces the user's colour.  A page whose *)
(* last frame was not sent has been told so.                               *)
Settled == /\ wire = <<>> /\ session /\ notices = <<>>
           /\ \A t \in Task : LoopIdle(t)
LampShowsPanel ==
  Settled =>
    /\ painter = "status" => shown = Green(255)
    /\ painter \in Page /\ <<painter, "rgb">> \notin alerted =>
         shown = Lit(Scaled(pwmValue[painter]))
    /\ switcher \in Page /\ <<switcher, "switch">> \notin alerted =>
         relay = switch1[switcher]

(* Once the session stays up the lamp comes to rest: every frame has been  *)
(* dealt with, and the status lamp no longer blinks over it.               *)
LampSettles == <>[]session => <>[](Settled /\ ~spark)
==============================================================================
