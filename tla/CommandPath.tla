----------------------------- MODULE CommandPath -----------------------------
(***************************************************************************)
(* How the device answers a command frame: et_message_process and          *)
(* parse_msg_from_mqtt of et_user_app.c, run by every SDK task (the cloud  *)
(* loop et_ilink_task and the local server loop et_local_task have equal   *)
(* priority and preempt each other on a tick).  The sender's id passes     *)
(* from one function to the other in the global g_user_id, and the reply   *)
(* is built in a block that malloc returns without clearing it.            *)
(*                                                                         *)
(* Definitions marked FAULT are the definition that follows them with a    *)
(* bug put in; they are not part of the model.                             *)
(***************************************************************************)
EXTENDS Integers, FiniteSets

CONSTANTS Task,       \* the tasks that run the SDK loops
          User,       \* user ids a message can come from
          Nobody,     \* the empty user id
          Seq8,       \* values of a frame's sequence byte
          Colour,     \* colours an RGB frame can carry
          Dark,       \* the colour of the lamp at boot
          Absent,     \* the payload of a frame too short to hold one
          Frames,     \* the frames the senders produce
          NoMessage,  \* a task that is not in the callback
          Junk,       \* what malloc'd memory holds before it is written
          NoCall      \* et_chat_to has not been called

(* A frame by what the parser tells apart.  "shape" is the first check the *)
(* frame fails.  arg is the payload: a colour for the RGB type, "on"       *)
(* (0xff), "off" (0x00) or "other" for the switch.                         *)
Shape == {"badHead", "badLength", "badBcc", "good"}
Frame == [shape : Shape, cmd : {"control", "unknown"},
          type : {"rgb", "switch", "unknown"}, seq : Seq8,
          arg : Colour \cup {Absent, "on", "off", "other"}]

ASSUME FramesAssumption == Frames \subseteq Frame
ASSUME PayloadAssumption == \A f \in Frames : f.type = "rgb" => f.arg \in Colour \cup {Absent}
ASSUME UserAssumption == Nobody \notin User
ASSUME ColourAssumption == Dark \in Colour

(* Message kinds whose payload is a command, and one for all the others.   *)
CommandKind == {"MES_CHAT_TO_CHAT", "MES_FROM_GROUP_SUBTOPIC", "MES_FROM_LOCAL"}
Kind == CommandKind \cup {"notice"}
Message == [from : User, frame : Frames]

VARIABLES
  pc,          \* where each task is
  msg,         \* the message it processes
  block,       \* its malloc'd msg_to_net_t: what buf and len hold
  set,         \* whether this call has written block
  live,        \* number of allocated blocks
  g_user_id,   \* the global id buffer, as its two halves
  relay,       \* GPIO5: "on" when the pin is driven low
  lamp,        \* the colour last passed to RGB_light_set_color
  last,        \* the last et_chat_to call
  granted      \* history: users one of whose colour frames was carried out

vars == <<pc, msg, block, set, live, g_user_id, relay, lamp, last, granted>>

Ack == [seq : Seq8, type : {"rgb", "switch", "unknown"},
        rc : {"ACK_SUCCESS", "ACK_BCC_ERROR", "ACK_CMD_ILLIGAL"}]

Init ==
  /\ pc = [t \in Task |-> "idle"]
  /\ msg = [t \in Task |-> NoMessage]
  /\ block = [t \in Task |-> Junk]
  /\ set = [t \in Task |-> FALSE]
  /\ live = 0
  /\ g_user_id = <<Nobody, Nobody>>
  /\ relay = "off" /\ lamp = Dark
  /\ last = NoCall /\ granted = {}

Goto(t, label) == pc' = [pc EXCEPT ![t] = label]
At(t, label) == pc[t] = label
------------------------------------------------------------------------------
(* et_message_process: only three kinds reach the parser; the others are   *)
(* logged.  memset clears the id, then snprintf writes it, character by    *)
(* character: two halves are enough to see a mixture.                      *)
\* FAULT
ReceiveForgettingLocalName(t, kind, m) ==
  /\ At(t, "idle") /\ kind \in CommandKind
  /\ msg' = [msg EXCEPT ![t] = m]
  /\ IF kind = "MES_FROM_LOCAL"
     THEN Goto(t, "parse") /\ UNCHANGED g_user_id
     ELSE Goto(t, "name1") /\ g_user_id' = <<Nobody, Nobody>>
  /\ UNCHANGED <<block, set, live, relay, lamp, last, granted>>
Receive(t, kind, m) ==
  /\ At(t, "idle") /\ kind \in CommandKind
  /\ msg' = [msg EXCEPT ![t] = m]
  /\ g_user_id' = <<Nobody, Nobody>>
  /\ Goto(t, "name1")
  /\ UNCHANGED <<block, set, live, relay, lamp, last, granted>>

NameFirstHalf(t) ==
  /\ At(t, "name1") /\ Goto(t, "name2")
  /\ g_user_id' = [g_user_id EXCEPT ![1] = msg[t].from]
  /\ UNCHANGED <<msg, block, set, live, relay, lamp, last, granted>>

NameSecondHalf(t) ==
  /\ At(t, "name2") /\ Goto(t, "parse")
  /\ g_user_id' = [g_user_id EXCEPT ![2] = msg[t].from]
  /\ UNCHANGED <<msg, block, set, live, relay, lamp, last, granted>>

(* Head and length are checked before anything is allocated, and a frame   *)
(* that fails them, or for which there is no memory, gets no answer.       *)
Reject(t) ==
  /\ At(t, "parse") /\ Goto(t, "idle")
  /\ msg' = [msg EXCEPT ![t] = NoMessage]
  /\ UNCHANGED <<block, set, live, g_user_id, relay, lamp, last, granted>>

\* FAULT
DispatchBadBccToo(f) == IF f.cmd = "control" THEN "act" ELSE "illegal"
Dispatch(f) == IF f.shape = "badBcc" THEN "bccError"
               ELSE IF f.cmd = "control" THEN "act" ELSE "illegal"

Allocate(t) ==
  /\ At(t, "parse")
  /\ msg[t].frame.shape \in {"badBcc", "good"}
  /\ block' = [block EXCEPT ![t] = Junk]
  /\ set' = [set EXCEPT ![t] = FALSE]
  /\ live' = live + 1
  /\ Goto(t, Dispatch(msg[t].frame))
  /\ UNCHANGED <<msg, g_user_id, relay, lamp, last, granted>>

(* ack_to_mqtt echoes the sequence and type bytes.                         *)
\* FAULT
ack_to_mqtt_fixedType(t, rc) ==
  /\ block' = [block EXCEPT ![t] = [seq |-> msg[t].frame.seq, type |-> "rgb", rc |-> rc]]
  /\ set' = [set EXCEPT ![t] = TRUE]
ack_to_mqtt(t, rc) ==
  /\ block' = [block EXCEPT ![t] =
                 [seq |-> msg[t].frame.seq, type |-> msg[t].frame.type, rc |-> rc]]
  /\ set' = [set EXCEPT ![t] = TRUE]

AnswerError(t) ==
  /\ \/ At(t, "bccError") /\ ack_to_mqtt(t, "ACK_BCC_ERROR")
     \/ At(t, "illegal") /\ ack_to_mqtt(t, "ACK_CMD_ILLIGAL")
  /\ Goto(t, "send")
  /\ UNCHANGED <<msg, live, g_user_id, relay, lamp, last, granted>>

(* The RGB payload is read without a check that the frame holds one: past  *)
(* its end the bytes are whatever follows the frame in memory.             *)
SetColour(t) ==
  /\ At(t, "act") /\ msg[t].frame.type = "rgb"
  /\ \/ msg[t].frame.arg \in Colour /\ lamp' = msg[t].frame.arg
     \/ msg[t].frame.arg \notin Colour /\ lamp' \in Colour
  /\ granted' = granted \cup {msg[t].from}
  /\ Goto(t, "ack")
  /\ UNCHANGED <<msg, block, set, live, g_user_id, relay, last>>

AnswerSuccess(t) ==
  /\ At(t, "ack") /\ ack_to_mqtt(t, "ACK_SUCCESS")
  /\ Goto(t, "send")
  /\ UNCHANGED <<msg, live, g_user_id, relay, lamp, last, granted>>

(* The switch branch drives the pin for 0xff and 0x00 only, and like the   *)
(* branch for unknown types it leaves msg->len and msg->buf unset.         *)
SwitchTo(f) == IF f.type = "switch" /\ f.arg \in {"on", "off"} THEN {f.arg}
               ELSE IF f.type = "switch" /\ f.arg = Absent THEN {"on", "off", relay}
               ELSE {relay}

SetSwitch(t) ==
  /\ At(t, "act") /\ msg[t].frame.type # "rgb"
  /\ relay' \in SwitchTo(msg[t].frame)
  /\ Goto(t, "send")
  /\ UNCHANGED <<msg, block, set, live, g_user_id, lamp, last, granted>>

(* et_chat_to reads g_user_id as it is at this moment.                     *)
SendReply(t) ==
  /\ At(t, "send")
  /\ last' = [to |-> g_user_id, body |-> block[t], set |-> set[t],
              from |-> msg[t].from, frame |-> msg[t].frame]
  /\ Goto(t, "free")
  /\ UNCHANGED <<msg, block, set, live, g_user_id, relay, lamp, granted>>

Forget(t) ==
  /\ msg' = [msg EXCEPT ![t] = NoMessage]
  /\ block' = [block EXCEPT ![t] = Junk]
  /\ set' = [set EXCEPT ![t] = FALSE]

\* FAULT
ReleaseGoodOnly(t) ==
  /\ At(t, "free") /\ Goto(t, "idle") /\ Forget(t)
  /\ live' = IF msg[t].frame.shape = "good" THEN live - 1 ELSE live
  /\ UNCHANGED <<g_user_id, relay, lamp, last, granted>>
Release(t) ==
  /\ At(t, "free") /\ Goto(t, "idle") /\ Forget(t)
  /\ live' = live - 1
  /\ UNCHANGED <<g_user_id, relay, lamp, last, granted>>

Process(t) ==
  \/ NameFirstHalf(t) \/ NameSecondHalf(t)
  \/ Reject(t) \/ Allocate(t)
  \/ AnswerError(t) \/ SetColour(t) \/ AnswerSuccess(t) \/ SetSwitch(t)
  \/ SendReply(t) \/ Release(t)

Next == \E t \in Task : Process(t) \/ \E kind \in Kind, m \in Message : Receive(t, kind, m)

Spec == Init /\ [][Next]_vars
------------------------------------------------------------------------------
Label == {"idle", "name1", "name2", "parse", "bccError", "illegal", "act",
          "ack", "send", "free"}
Holding == {"bccError", "illegal", "act", "ack", "send", "free"}
Content == Ack \cup {Junk}
Call == [to : (User \cup {Nobody}) \X (User \cup {Nobody}), body : Content,
         set : BOOLEAN, from : User, frame : Frames]
ASSUME NoCallAssumption == NoCall \notin Call

TypeOK ==
  /\ pc \in [Task -> Label]
  /\ \A t \in Task : msg[t] \in Message \cup {NoMessage}
  /\ block \in [Task -> Content] /\ set \in [Task -> BOOLEAN]
  /\ live \in 0..Cardinality(Task)
  /\ g_user_id \in (User \cup {Nobody}) \X (User \cup {Nobody})
  /\ relay \in {"on", "off"} /\ lamp \in Colour
  /\ last \in Call \cup {NoCall}
  /\ granted \subseteq User

(* Every path through parse_msg_from_mqtt frees the block it allocated:    *)
(* the number of live blocks is the number of tasks holding one.           *)
NoLeak == live = Cardinality({t \in Task : pc[t] \in Holding})

(* A reply the code has written says the truth about the frame it answers: *)
(* it echoes that frame's sequence and type bytes, and its code is the one *)
(* the frame deserves, whatever the other task did meanwhile.              *)
Deserved(f) == IF f.shape = "badBcc" THEN "ACK_BCC_ERROR"
               ELSE IF f.shape = "good" /\ f.cmd = "control" THEN "ACK_SUCCESS"
               ELSE "ACK_CMD_ILLIGAL"
AckIsTruthful ==
  last # NoCall /\ last.set =>
    /\ last.body.seq = last.frame.seq
    /\ last.body.type = last.frame.type
    /\ last.body.rc = Deserved(last.frame)
    /\ last.body.rc = "ACK_SUCCESS" => last.from \in granted

(* Only an intact control frame in progress moves the lamp or the relay: a *)
(* frame with a wrong head, length or checksum never does.                 *)
OnlyIntactFramesAct ==
  [][lamp' # lamp \/ relay' # relay =>
       \E t \in Task : /\ pc[t] = "act" /\ pc'[t] # "act"
                       /\ msg[t].frame.shape = "good"
                       /\ msg[t].frame.cmd = "control"]_vars

(* The answer goes to the user whose frame it answers.  This needs a       *)
(* single task: with two, g_user_id may have been overwritten.             *)
ReplyToSender == last # NoCall => last.to = <<last.from, last.from>>

(* A user who is told "request succeeded" (cmdControl.js:35) had a colour  *)
(* frame carried out.  An emptied or half-written id is nobody's, and a    *)
(* success sent to it is lost, not misdirected: it does not count here.    *)
SuccessReachesRequester ==
  last # NoCall /\ last.set /\ last.body.rc = "ACK_SUCCESS" =>
    \A u \in User : last.to = <<u, u>> => u \in granted

(* The length handed to et_chat_to is the length of the data to send       *)
(* (et_client.h:258), so this call has written it.                         *)
LengthIsSet == last # NoCall => last.set
------------------------------------------------------------------------------
(* With one task the message path is a request/reply service.              *)
Stage == [t \in Task |->
            IF pc[t] = "idle" THEN "closed"
            ELSE IF pc[t] = "free" THEN "answered"
            ELSE IF \/ pc[t] = "ack"
                    \/ pc[t] = "send" /\ set[t] /\ block[t].rc = "ACK_SUCCESS"
            THEN "done" ELSE "open"]
Told == IF last = NoCall THEN NoCall ELSE [to |-> last.to, body |-> last.body]
Service == INSTANCE CommandService WITH
             stage <- Stage, job <- msg, reply <- Told, Anything <- Junk
ImplementsService == Service!Spec
==============================================================================
