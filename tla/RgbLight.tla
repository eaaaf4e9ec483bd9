------------------------------ MODULE RgbLight -------------------------------
(***************************************************************************)
(* The lamp driver, driver/RGB_light.c, called without a lock by several   *)
(* tasks (colour commands in the cloud and the local task, the status LED  *)
(* in the event callbacks) and by the spark timer's callback, which runs   *)
(* with the scheduler disabled, so that it is atomic for the tasks but may *)
(* come between any two of their steps.  The PWM library (libpwm.a) is     *)
(* modelled by how the driver uses it: pwm_set_duty records a duty,        *)
(* pwm_get_duty returns it, pwm_start puts the recorded duties on the pins.*)
(*                                                                         *)
(* RGB_TO_DUTY grows strictly with the byte it converts, because both full *)
(* duties, 512 and 1024, exceed 255: a colour is the tuple of the duties   *)
(* it is converted to, after red 0xfd and 0xfc have replaced the others.   *)
(*                                                                         *)
(* Definitions marked FAULT are the definition that follows them with a    *)
(* bug put in; they are not part of the model.                             *)
(***************************************************************************)
EXTENDS Integers

CONSTANTS Caller,     \* the tasks that set colours
          NChannel,   \* PWM_CHANNEL
          Duty,       \* duty values
          Zero,       \* duty 0
          Palette,    \* the colours the tasks ask for
          SparkPalette\* the colours the timer callback asks for

Channel == 1..NChannel
Duties == [Channel -> Duty]

ASSUME NChannelAssumption == NChannel \in Nat \ {0}
ASSUME ZeroAssumption == Zero \in Duty
ASSUME PaletteAssumption == Palette \subseteq Duties /\ SparkPalette \subseteq Duties

VARIABLES
  cache,        \* light_param.pwm_duty
  update_flag,
  recorded,     \* the duties libpwm has recorded
  shown,        \* the duties on the pins since the last pwm_start
  pc,           \* per task: where it is in RGB_light_set_color
  want,         \* the colour it sets
  ch,           \* the channel RGB_light_set_duty is called for
  got,          \* what pwm_get_duty returned to it
  lastSet,      \* history: the colour of the last call to begin
  alone         \* history: no two calls have overlapped

light == <<cache, update_flag, recorded, shown>>
callers == <<pc, want, ch, got>>
history == <<lastSet, alone>>
lightVars == <<light, callers, history>>

(* RGB_light_init clears the parameters and starts the PWM at duty zero.   *)
Black == [k \in Channel |-> Zero]
Init ==
  /\ cache = Black /\ recorded = Black /\ shown = Black
  /\ update_flag = FALSE
  /\ pc = [c \in Caller |-> "idle"]
  /\ want = [c \in Caller |-> Black]
  /\ ch = [c \in Caller |-> 1]
  /\ got = [c \in Caller |-> Zero]
  /\ lastSet = Black /\ alone = TRUE

At(c, label) == pc[c] = label
Goto(c, label) == pc' = [pc EXCEPT ![c] = label]
Quiet == \A c \in Caller : At(c, "idle")
------------------------------------------------------------------------------
(* RGB_light_set_color calls RGB_light_set_duty for each channel in turn,  *)
Begin(c, colour) ==
  /\ At(c, "idle") /\ Goto(c, "compare")
  /\ want' = [want EXCEPT ![c] = colour]
  /\ ch' = [ch EXCEPT ![c] = 1]
  /\ lastSet' = colour
  /\ alone' = (alone /\ Quiet)
  /\ UNCHANGED <<light, got>>

(* then RGB_light_start.                                                   *)
\* FAULT
NextChannelTooFar(c) ==
  IF ch[c] <= NChannel
  THEN Goto(c, "compare") /\ ch' = [ch EXCEPT ![c] = @ + 1]
  ELSE Goto(c, "test") /\ UNCHANGED ch
NextChannel(c) ==
  IF ch[c] < NChannel
  THEN Goto(c, "compare") /\ ch' = [ch EXCEPT ![c] = @ + 1]
  ELSE Goto(c, "test") /\ UNCHANGED ch

(* RGB_light_set_duty skips a channel whose cached duty is the wanted one; *)
Compare(c) ==
  /\ At(c, "compare")
  /\ IF want[c][ch[c]] # cache[ch[c]]
     THEN Goto(c, "set") /\ UNCHANGED ch
     ELSE NextChannel(c)
  /\ UNCHANGED <<light, want, got, history>>

(* otherwise pwm_set_duty,                                                 *)
SetDuty(c) ==
  /\ At(c, "set") /\ Goto(c, "flag")
  /\ recorded' = [recorded EXCEPT ![ch[c]] = want[c][ch[c]]]
  /\ UNCHANGED <<cache, update_flag, shown, want, ch, got, history>>

(* update_flag = TRUE,                                                     *)
\* FAULT
RaiseFlagLate(c) ==
  /\ At(c, "flag") /\ Goto(c, "get")
  /\ update_flag' = (ch[c] = NChannel)
  /\ UNCHANGED <<cache, recorded, shown, want, ch, got, history>>
RaiseFlag(c) ==
  /\ At(c, "flag") /\ Goto(c, "get")
  /\ update_flag' = TRUE
  /\ UNCHANGED <<cache, recorded, shown, want, ch, got, history>>

(* pwm_get_duty,                                                           *)
GetDuty(c) ==
  /\ At(c, "get") /\ Goto(c, "store")
  /\ got' = [got EXCEPT ![c] = recorded[ch[c]]]
  /\ UNCHANGED <<light, want, ch, history>>

(* and the store of its result into the cache.                             *)
\* FAULT
StoreNothing(c) ==
  /\ At(c, "store") /\ NextChannel(c)
  /\ UNCHANGED <<light, want, got, history>>
Store(c) ==
  /\ At(c, "store") /\ NextChannel(c)
  /\ cache' = [cache EXCEPT ![ch[c]] = got[c]]
  /\ UNCHANGED <<update_flag, recorded, shown, want, got, history>>

(* RGB_light_start: nothing to do,                                         *)
\* FAULT
TestFlagTakingIt(c) ==
  /\ At(c, "test") /\ Goto(c, "idle")
  /\ update_flag' = FALSE
  /\ UNCHANGED <<cache, recorded, shown, want, ch, got, history>>
TestFlag(c) ==
  /\ At(c, "test") /\ Goto(c, IF update_flag THEN "clear" ELSE "idle")
  /\ UNCHANGED <<light, want, ch, got, history>>

(* or update_flag = FALSE and then pwm_start.                              *)
\* FAULT
ClearFlagAfterStart(c) ==
  /\ \/ /\ At(c, "clear") /\ Goto(c, "start")
        /\ shown' = recorded /\ UNCHANGED <<update_flag, cache, recorded>>
     \/ /\ At(c, "start") /\ Goto(c, "idle")
        /\ update_flag' = FALSE /\ UNCHANGED <<shown, cache, recorded>>
  /\ UNCHANGED <<want, ch, got, history>>
ClearFlag(c) ==
  /\ At(c, "clear") /\ Goto(c, "start")
  /\ update_flag' = FALSE
  /\ UNCHANGED <<cache, recorded, shown, want, ch, got, history>>

StartPwm(c) ==
  /\ At(c, "start") /\ Goto(c, "idle")
  /\ shown' = recorded
  /\ UNCHANGED <<cache, update_flag, recorded, want, ch, got, history>>

(* A whole RGB_light_set_color from the timer callback.                    *)
Spark(colour) ==
  /\ recorded' = [k \in Channel |-> IF colour[k] # cache[k] THEN colour[k] ELSE recorded[k]]
  /\ cache' = colour
  /\ shown' = IF update_flag \/ colour # cache THEN recorded' ELSE shown
  /\ update_flag' = FALSE
  /\ lastSet' = colour
  /\ alone' = (alone /\ Quiet)
  /\ UNCHANGED callers

Step(c) == \/ Compare(c) \/ SetDuty(c) \/ RaiseFlag(c) \/ GetDuty(c) \/ Store(c)
           \/ TestFlag(c) \/ ClearFlag(c) \/ StartPwm(c)

Next == \/ \E c \in Caller : Step(c) \/ \E colour \in Palette : Begin(c, colour)
        \/ \E colour \in SparkPalette : Spark(colour)

Spec == Init /\ [][Next]_lightVars

(* A preempted caller is resumed.                                          *)
FairSpec == Spec /\ \A c \in Caller : WF_lightVars(Step(c))
------------------------------------------------------------------------------
Label == {"idle", "compare", "set", "flag", "get", "store", "test", "clear", "start"}

TypeOK ==
  /\ cache \in Duties /\ recorded \in Duties /\ shown \in Duties
  /\ update_flag \in BOOLEAN
  /\ pc \in [Caller -> Label] /\ want \in [Caller -> Duties]
  /\ ch \in [Caller -> Channel] /\ got \in [Caller -> Duty]
  /\ lastSet \in Duties /\ alone \in BOOLEAN

(* No update is lost between update_flag and pwm_start: once every caller  *)
(* has left the driver the pins carry the recorded duties, whatever the    *)
(* interleaving.                                                           *)
NoLostUpdate == Quiet => shown = recorded /\ ~update_flag

(* What makes it so: recorded duties that are not on the pins are          *)
(* announced by the flag, or by a caller about to raise it or to start the *)
(* PWM; and a raised flag has a caller that will still test it.            *)
UpdateIsPending ==
  /\ shown # recorded => \/ update_flag
                         \/ \E c \in Caller : pc[c] \in {"flag", "start"}
  /\ update_flag => \E c \in Caller : pc[c] \notin {"idle", "start"}

(* As long as no two calls have overlapped the lamp shows the colour of    *)
(* the last one.                                                           *)
LampFollows == alone /\ Quiet => shown = lastSet

(* A colour that was recorded reaches the pins or is replaced: the lamp    *)
(* does not stay behind for ever.                                          *)
LampCatchesUp == shown # recorded ~> shown = recorded
==============================================================================
