--------------------------- MODULE CommandService ----------------------------
(***************************************************************************)
(* What the device promises a phone: a request is answered at most once,   *)
(* to the user who sent it.  A colour request's answer echoes its sequence *)
(* and type bytes and says ACK_SUCCESS only after the colour was set; what *)
(* the answer to another kind of control request says is not promised.     *)
(* CommandPath implements it when a single task runs the callback.         *)
(***************************************************************************)
CONSTANTS Task, Message, Colour, Dark, NoMessage, NoCall, Anything

VARIABLES stage,      \* per task: "closed", "open", "done" or "answered"
          job,        \* the request it works on
          lamp,       \* the lamp's colour
          reply       \* the last reply sent

vars == <<stage, job, lamp, reply>>

Init == /\ stage = [t \in Task |-> "closed"]
        /\ job = [t \in Task |-> NoMessage]
        /\ lamp = Dark
        /\ reply = NoCall

Move(t, from, to) == stage[t] = from /\ stage' = [stage EXCEPT ![t] = to]

Open(t, m) == /\ Move(t, "closed", "open")
              /\ job' = [job EXCEPT ![t] = m]
              /\ UNCHANGED <<lamp, reply>>

Control(t, rgb) == /\ job[t].frame.shape = "good" /\ job[t].frame.cmd = "control"
                   /\ (job[t].frame.type = "rgb") = rgb

(* Only an intact control frame is carried out; one that is too short to   *)
(* hold a colour sets some colour.                                         *)
CarryOut(t) == /\ Move(t, "open", "done")
               /\ Control(t, TRUE)
               /\ lamp' \in Colour
               /\ job[t].frame.arg \in Colour => lamp' = job[t].frame.arg
               /\ UNCHANGED <<job, reply>>

Reply(t, body) == /\ reply' = [to |-> <<job[t].from, job[t].from>>, body |-> body]
                  /\ UNCHANGED <<job, lamp>>
Ack(t, rc) == [seq |-> job[t].frame.seq, type |-> job[t].frame.type, rc |-> rc]

Grant(t) == Move(t, "done", "answered") /\ Reply(t, Ack(t, "ACK_SUCCESS"))

Refuse(t) ==
  /\ Move(t, "open", "answered")
  /\ \/ job[t].frame.shape = "badBcc" /\ Reply(t, Ack(t, "ACK_BCC_ERROR"))
     \/ job[t].frame.shape = "good" /\ job[t].frame.cmd = "unknown"
        /\ Reply(t, Ack(t, "ACK_CMD_ILLIGAL"))

AnswerOther(t) == /\ Move(t, "open", "answered") /\ Control(t, FALSE)
                  /\ Reply(t, Anything)

(* A malformed request, or one the device has no memory for, is dropped.   *)
Close(t) == /\ stage[t] \in {"open", "answered"}
            /\ stage' = [stage EXCEPT ![t] = "closed"]
            /\ job' = [job EXCEPT ![t] = NoMessage]
            /\ UNCHANGED <<lamp, reply>>

Next == \E t \in Task :
          \/ \E m \in Message : Open(t, m)
          \/ CarryOut(t) \/ Grant(t) \/ Refuse(t) \/ AnswerOther(t) \/ Close(t)

Spec == Init /\ [][Next]_vars
==============================================================================
