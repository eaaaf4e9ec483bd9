---------------------------- MODULE CommandProofs ----------------------------
(***************************************************************************)
(* What holds of CommandPath for any number of tasks, users and frames     *)
(* (a written answer is true, no block leaks, only intact frames act), and *)
(* with a single task (the answer goes to the user who asked, and the      *)
(* whole is the request/reply service of CommandService).                  *)
(***************************************************************************)
EXTENDS CommandPath, FiniteSetTheorems, TLAPS

(* Where a task is, said by the frame it works on.                         *)
ProgressFits(t) ==
  /\ pc[t] # "idle" => msg[t] \in Message
  /\ pc[t] = "bccError" => msg[t].frame.shape = "badBcc"
  /\ pc[t] = "illegal" => msg[t].frame.shape = "good" /\ msg[t].frame.cmd # "control"
  /\ pc[t] \in {"act", "ack"} =>
       msg[t].frame.shape = "good" /\ msg[t].frame.cmd = "control"
  /\ pc[t] = "ack" => msg[t].from \in granted

TrueOf(body, m) ==
  /\ body.seq = m.frame.seq /\ body.type = m.frame.type
  /\ body.rc = Deserved(m.frame)
  /\ body.rc = "ACK_SUCCESS" => m.from \in granted

(* A block is written only on the way to et_chat_to, with a true answer.   *)
BlockFits(t) ==
  set[t] = TRUE => pc[t] \in {"send", "free"} /\ TrueOf(block[t], msg[t])

LastFits == AckIsTruthful

Shapes ==
  /\ pc \in [Task -> Label] /\ set \in [Task -> BOOLEAN]
  /\ DOMAIN msg = Task /\ DOMAIN block = Task

AckInv == /\ Shapes /\ LastFits
          /\ \A t \in Task : ProgressFits(t) /\ BlockFits(t)

(* The invariant of a task is not disturbed by a step that leaves its      *)
(* variables alone, since granted only grows.                              *)
LEMMA OthersKeep ==
  ASSUME NEW u \in Task, ProgressFits(u), BlockFits(u), granted \subseteq granted',
         pc'[u] = pc[u], msg'[u] = msg[u], block'[u] = block[u], set'[u] = set[u]
  PROVE  ProgressFits(u)' /\ BlockFits(u)'
BY DEF ProgressFits, BlockFits, TrueOf, Deserved

LEMMA LastKeeps ==
  ASSUME LastFits, last' = last, granted \subseteq granted'
  PROVE  LastFits'
BY DEF LastFits, AckIsTruthful, Deserved

(* What every step of task t leaves alone.                                 *)
LEMMA StepIsLocal ==
  ASSUME Shapes, NEW t \in Task,
         Process(t) \/ \E kind \in Kind, m \in Message : Receive(t, kind, m)
  PROVE  /\ Shapes'
         /\ granted \subseteq granted'
         /\ \A u \in Task \ {t} : /\ pc'[u] = pc[u] /\ msg'[u] = msg[u]
                                  /\ block'[u] = block[u] /\ set'[u] = set[u]
<1> USE DEF Shapes, Label, At, Goto
<1>1. CASE \E kind \in Kind, m \in Message : Receive(t, kind, m) BY <1>1 DEF Receive
<1>2. CASE NameFirstHalf(t) BY <1>2 DEF NameFirstHalf
<1>3. CASE NameSecondHalf(t) BY <1>3 DEF NameSecondHalf
<1>4. CASE Reject(t) BY <1>4 DEF Reject
<1>5. CASE Allocate(t) BY <1>5 DEF Allocate, Dispatch
<1>6. CASE AnswerError(t) BY <1>6 DEF AnswerError, ack_to_mqtt
<1>7. CASE SetColour(t) BY <1>7 DEF SetColour
<1>8. CASE AnswerSuccess(t) BY <1>8 DEF AnswerSuccess, ack_to_mqtt
<1>9. CASE SetSwitch(t) BY <1>9 DEF SetSwitch
<1>10. CASE SendReply(t) BY <1>10 DEF SendReply
<1>11. CASE Release(t) BY <1>11 DEF Release, Forget
<1> QED
  BY <1>1, <1>2, <1>3, <1>4, <1>5, <1>6, <1>7, <1>8, <1>9, <1>10, <1>11 DEF Process

(* Each step keeps what is said of its own task, and of the last answer.   *)
LEMMA StepKeepsTruth ==
  ASSUME AckInv, NEW t \in Task,
         Process(t) \/ \E kind \in Kind, m \in Message : Receive(t, kind, m)
  PROVE  ProgressFits(t)' /\ BlockFits(t)' /\ LastFits'
<1>1. Shapes /\ LastFits /\ ProgressFits(t) /\ BlockFits(t) BY DEF AckInv
<1>2. Shapes' /\ granted \subseteq granted' BY <1>1, StepIsLocal
<1> USE <1>1, <1>2 DEF Shapes, Label, At, Goto, ProgressFits, BlockFits
<1>3. CASE \E kind \in Kind, m \in Message : Receive(t, kind, m)
  BY <1>3, LastKeeps DEF Receive
<1>4. CASE NameFirstHalf(t) BY <1>4, LastKeeps DEF NameFirstHalf
<1>5. CASE NameSecondHalf(t) BY <1>5, LastKeeps DEF NameSecondHalf
<1>6. CASE Reject(t) BY <1>6, LastKeeps DEF Reject
<1>7. CASE Allocate(t) BY <1>7, LastKeeps DEF Allocate, Dispatch
<1>8. CASE AnswerError(t)
  BY <1>8, LastKeeps DEF AnswerError, ack_to_mqtt, TrueOf, Deserved
<1>9. CASE SetColour(t) BY <1>9, LastKeeps DEF SetColour
<1>10. CASE AnswerSuccess(t)
  BY <1>10, LastKeeps DEF AnswerSuccess, ack_to_mqtt, TrueOf, Deserved
<1>11. CASE SetSwitch(t) BY <1>11, LastKeeps DEF SetSwitch
<1>12. CASE SendReply(t)
  <2>1. last' = [to |-> g_user_id, body |-> block[t], set |-> set[t],
                 from |-> msg[t].from, frame |-> msg[t].frame]
        /\ granted' = granted
    BY <1>12 DEF SendReply
  <2>2. LastFits' BY <2>1 DEF LastFits, AckIsTruthful, TrueOf, Deserved
  <2>3. ProgressFits(t)' /\ BlockFits(t)' BY <1>12 DEF SendReply, TrueOf, Deserved
  <2> QED BY <2>2, <2>3
<1>13. CASE Release(t) BY <1>13, LastKeeps DEF Release, Forget
<1> QED
  BY <1>3, <1>4, <1>5, <1>6, <1>7, <1>8, <1>9, <1>10, <1>11, <1>12, <1>13 DEF Process

LEMMA AckInvHolds == Spec => []AckInv
<1>1. Init => AckInv
  BY DEF Init, AckInv, Shapes, Label, LastFits, AckIsTruthful, ProgressFits, BlockFits
<1>2. AckInv /\ [Next]_vars => AckInv'
  <2> SUFFICES ASSUME AckInv, [Next]_vars PROVE AckInv' OBVIOUS
  <2>1. CASE UNCHANGED vars
    BY <2>1 DEF vars, AckInv, Shapes, LastFits, AckIsTruthful, Deserved,
                ProgressFits, BlockFits, TrueOf
  <2>2. ASSUME NEW t \in Task,
               Process(t) \/ \E kind \in Kind, m \in Message : Receive(t, kind, m)
        PROVE  AckInv'
    <3>1. Shapes' /\ LastFits' /\ ProgressFits(t)' /\ BlockFits(t)'
      BY <2>2, StepIsLocal, StepKeepsTruth DEF AckInv
    <3>2. ASSUME NEW u \in Task \ {t} PROVE ProgressFits(u)' /\ BlockFits(u)'
      BY <2>2, StepIsLocal, OthersKeep DEF AckInv
    <3> QED BY <3>1, <3>2 DEF AckInv
  <2> QED BY <2>1, <2>2 DEF Next
<1> QED BY <1>1, <1>2, PTL DEF Spec

(* Whatever the tasks do in between, a reply the code has written says the *)
(* truth about the frame it answers (et_user_app.c:69-194).                *)
THEOREM AnswersAreTrue == Spec => []AckIsTruthful
<1>1. AckInv => AckIsTruthful BY DEF AckInv, LastFits
<1> QED BY <1>1, AckInvHolds, PTL

(* However many tasks run the callback, nothing but an intact control      *)
(* frame moves the lamp or the relay (et_user_app.c:86-182).               *)
THEOREM OnlyIntactFramesMove == Spec => OnlyIntactFramesAct
<1>1. ASSUME AckInv, [Next]_vars, lamp' # lamp \/ relay' # relay
      PROVE  \E t \in Task : /\ pc[t] = "act" /\ pc'[t] # "act"
                             /\ msg[t].frame.shape = "good"
                             /\ msg[t].frame.cmd = "control"
  <2>1. PICK t \in Task : SetColour(t) \/ SetSwitch(t)
    BY <1>1 DEF Next, vars, Process, Receive, NameFirstHalf, NameSecondHalf, Reject,
                Allocate, AnswerError, AnswerSuccess, SendReply, Release
  <2>2. pc[t] = "act" /\ (Goto(t, "ack") \/ Goto(t, "send"))
    BY <2>1 DEF SetColour, SetSwitch, At
  <2>3. pc'[t] # "act" BY <1>1, <2>2 DEF AckInv, Shapes, Goto
  <2>4. msg[t].frame.shape = "good" /\ msg[t].frame.cmd = "control"
    BY <1>1, <2>2 DEF AckInv, ProgressFits
  <2> QED BY <2>2, <2>3, <2>4
<1>2. AckInv /\ [Next]_vars =>
        [lamp' # lamp \/ relay' # relay =>
           \E t \in Task : /\ pc[t] = "act" /\ pc'[t] # "act"
                           /\ msg[t].frame.shape = "good"
                           /\ msg[t].frame.cmd = "control"]_vars
  BY <1>1
<1> QED BY <1>2, AckInvHolds, PTL DEF Spec, OnlyIntactFramesAct
------------------------------------------------------------------------------
(* With a single task nobody else writes the global id between the naming  *)
(* and the answer.                                                         *)
OneTask == \A t, u \in Task : t = u

NameFits(t) ==
  /\ pc[t] = "name2" => g_user_id[1] = msg[t].from
  /\ pc[t] \in {"parse", "bccError", "illegal", "act", "ack", "send"} =>
       g_user_id = <<msg[t].from, msg[t].from>>

NameInv == /\ pc \in [Task -> Label] /\ DOMAIN msg = Task
           /\ \E a, b \in User \cup {Nobody} : g_user_id = <<a, b>>
           /\ \A t \in Task : NameFits(t) /\ (pc[t] # "idle" => msg[t] \in Message)
           /\ ReplyToSender

LEMMA StepKeepsName ==
  ASSUME OneTask, NameInv, NEW t \in Task,
         Process(t) \/ \E kind \in Kind, m \in Message : Receive(t, kind, m)
  PROVE  NameInv'
<1>1. Task = {t} BY DEF OneTask
<1> USE <1>1 DEF NameInv, NameFits, Label, At, Goto, ReplyToSender, Message
<1>2. CASE \E kind \in Kind, m \in Message : Receive(t, kind, m) BY <1>2 DEF Receive
<1>3. CASE NameFirstHalf(t) BY <1>3 DEF NameFirstHalf
<1>4. CASE NameSecondHalf(t) BY <1>4 DEF NameSecondHalf
<1>5. CASE Reject(t) BY <1>5 DEF Reject
<1>6. CASE Allocate(t) BY <1>6 DEF Allocate, Dispatch
<1>7. CASE AnswerError(t) BY <1>7 DEF AnswerError
<1>8. CASE SetColour(t) BY <1>8 DEF SetColour
<1>9. CASE AnswerSuccess(t) BY <1>9 DEF AnswerSuccess
<1>10. CASE SetSwitch(t) BY <1>10 DEF SetSwitch
<1>11. CASE SendReply(t) BY <1>11 DEF SendReply
<1>12. CASE Release(t) BY <1>12 DEF Release, Forget
<1> QED
  BY <1>2, <1>3, <1>4, <1>5, <1>6, <1>7, <1>8, <1>9, <1>10, <1>11, <1>12 DEF Process

LEMMA NameInvHolds == Spec => [](OneTask => NameInv)
<1> DEFINE Inv == OneTask => NameInv
<1>1. Init => Inv
  BY DEF Init, NameInv, NameFits, Label, ReplyToSender
<1>2. Inv /\ [Next]_vars => Inv'
  <2> SUFFICES ASSUME OneTask, NameInv, [Next]_vars PROVE NameInv'
    BY DEF OneTask
  <2>1. CASE UNCHANGED vars BY <2>1 DEF vars, NameInv, NameFits, ReplyToSender
  <2>2. CASE Next BY <2>2, StepKeepsName DEF Next
  <2> QED BY <2>1, <2>2
<1> QED BY <1>1, <1>2, PTL DEF Spec

(* A device with one SDK task answers the user who asked                   *)
(* (et_user_app.c:289-295 and 190); with two it does not.                  *)
THEOREM OneTaskAnswersSender == Spec => [](OneTask => ReplyToSender)
<1>1. (OneTask => NameInv) => (OneTask => ReplyToSender) BY DEF NameInv
<1> QED BY <1>1, NameInvHolds, PTL
------------------------------------------------------------------------------
(* Every block is freed: the count of live blocks follows the tasks that   *)
(* hold one, through all the endings of parse_msg_from_mqtt.               *)
Holders == {t \in Task : pc[t] \in Holding}

CountInv == /\ pc \in [Task -> Label]
            /\ IsFiniteSet(Task) => NoLeak

LEMMA HoldersFinite == IsFiniteSet(Task) => IsFiniteSet(Holders)
BY FS_Subset DEF Holders

LEMMA SameHolders ==
  ASSUME CountInv, pc' \in [Task -> Label], Holders' = Holders, live' = live
  PROVE  CountInv'
BY DEF CountInv, NoLeak, Holders

LEMMA StepKeepsCount ==
  ASSUME CountInv, NEW t \in Task,
         Process(t) \/ \E kind \in Kind, m \in Message : Receive(t, kind, m)
  PROVE  CountInv'
<1>1. pc \in [Task -> Label] BY DEF CountInv
<1>2. ASSUME NEW from \in Label, NEW to \in Label, pc[t] = from, Goto(t, to),
             from \in Holding <=> to \in Holding, live' = live
      PROVE  CountInv'
  <2>1. pc' \in [Task -> Label] /\ Holders' = Holders
    BY <1>1, <1>2 DEF Goto, Holders
  <2> QED BY <2>1, <1>2, SameHolders
<1>3. CASE Allocate(t)
  <2>1. pc[t] = "parse" /\ live' = live + 1
        /\ \E l \in {"bccError", "illegal", "act"} : Goto(t, l)
    BY <1>3 DEF Allocate, Dispatch, At
  <2>2. pc' \in [Task -> Label] /\ t \notin Holders /\ Holders' = Holders \cup {t}
    BY <1>1, <2>1 DEF Goto, Label, Holders, Holding
  <2>3. ASSUME IsFiniteSet(Task) PROVE NoLeak'
    <3>1. Cardinality(Holders \cup {t}) = Cardinality(Holders) + 1
      BY <2>2, <2>3, HoldersFinite, FS_AddElement
    <3> QED BY <3>1, <2>1, <2>2, <2>3 DEF CountInv, NoLeak, Holders
  <2> QED BY <2>2, <2>3 DEF CountInv
<1>4. CASE Release(t)
  <2>1. pc[t] = "free" /\ live' = live - 1 /\ Goto(t, "idle")
    BY <1>4 DEF Release, At
  <2>2. pc' \in [Task -> Label] /\ t \in Holders /\ Holders' = Holders \ {t}
    BY <1>1, <2>1 DEF Goto, Label, Holders, Holding
  <2>3. ASSUME IsFiniteSet(Task) PROVE NoLeak'
    <3>1. Cardinality(Holders \ {t}) = Cardinality(Holders) - 1
      BY <2>2, <2>3, HoldersFinite, FS_RemoveElement
    <3> QED BY <3>1, <2>1, <2>2, <2>3 DEF CountInv, NoLeak, Holders
  <2> QED BY <2>2, <2>3 DEF CountInv
<1> USE DEF At, Label, Holding
<1>5. CASE \E kind \in Kind, m \in Message : Receive(t, kind, m)
  BY <1>2, <1>5 DEF Receive
<1>6. CASE NameFirstHalf(t) BY <1>2, <1>6 DEF NameFirstHalf
<1>7. CASE NameSecondHalf(t) BY <1>2, <1>7 DEF NameSecondHalf
<1>8. CASE Reject(t) BY <1>2, <1>8 DEF Reject
<1>9. CASE AnswerError(t) BY <1>2, <1>9 DEF AnswerError
<1>10. CASE SetColour(t) BY <1>2, <1>10 DEF SetColour
<1>11. CASE AnswerSuccess(t) BY <1>2, <1>11 DEF AnswerSuccess
<1>12. CASE SetSwitch(t) BY <1>2, <1>12 DEF SetSwitch
<1>13. CASE SendReply(t) BY <1>2, <1>13 DEF SendReply
<1> QED
  BY <1>3, <1>4, <1>5, <1>6, <1>7, <1>8, <1>9, <1>10, <1>11, <1>12, <1>13 DEF Process

(* However many tasks run the callback, none of its endings leaks a block  *)
(* or frees one twice (et_user_app.c:113, 191-193).                        *)
THEOREM BlocksAreFreed == Spec => [](IsFiniteSet(Task) => NoLeak)
<1>1. Init => CountInv
  <2> SUFFICES ASSUME Init PROVE CountInv OBVIOUS
  <2>1. pc \in [Task -> Label] /\ Holders = {} /\ live = 0
    BY DEF Init, Label, Holders, Holding
  <2> QED BY <2>1, FS_EmptySet DEF CountInv, NoLeak, Holders
<1>2. CountInv /\ [Next]_vars => CountInv'
  <2> SUFFICES ASSUME CountInv, [Next]_vars PROVE CountInv' OBVIOUS
  <2>1. CASE UNCHANGED vars BY <2>1 DEF vars, CountInv, NoLeak
  <2>2. CASE Next BY <2>2, StepKeepsCount DEF Next
  <2> QED BY <2>1, <2>2
<1>3. CountInv => (IsFiniteSet(Task) => NoLeak) BY DEF CountInv
<1> QED BY <1>1, <1>2, <1>3, PTL DEF Spec
------------------------------------------------------------------------------
(* Every variable keeps its type.                                          *)
Types ==
  /\ pc \in [Task -> Label]
  /\ \A t \in Task : msg[t] \in Message \cup {NoMessage}
  /\ DOMAIN msg = Task
  /\ block \in [Task -> Content] /\ set \in [Task -> BOOLEAN]
  /\ g_user_id \in (User \cup {Nobody}) \X (User \cup {Nobody})
  /\ relay \in {"on", "off"} /\ lamp \in Colour
  /\ last \in Call \cup {NoCall}
  /\ granted \subseteq User
Occupied == \A t \in Task : pc[t] # "idle" => msg[t] \in Message
TypeInv == Types /\ Occupied

LEMMA MessageFields ==
  ASSUME NEW m \in Message
  PROVE  /\ m.from \in User /\ m.frame \in Frames /\ m.frame \in Frame
         /\ m.frame.seq \in Seq8 /\ m.frame.type \in {"rgb", "switch", "unknown"}
         /\ m.frame.cmd \in {"control", "unknown"} /\ m.frame.shape \in Shape
<1>1. m.from \in User /\ m.frame \in Frames BY DEF Message
<1>2. m.frame \in Frame BY <1>1, FramesAssumption
<1> QED BY <1>1, <1>2 DEF Frame

LEMMA WrittenContent ==
  ASSUME NEW m \in Message, NEW rc \in {"ACK_SUCCESS", "ACK_BCC_ERROR", "ACK_CMD_ILLIGAL"}
  PROVE  [seq |-> m.frame.seq, type |-> m.frame.type, rc |-> rc] \in Content
BY MessageFields DEF Content, Ack

LEMMA StepKeepsTypes ==
  ASSUME TypeInv, NEW t \in Task,
         Process(t) \/ \E kind \in Kind, m \in Message : Receive(t, kind, m)
  PROVE  TypeInv'
<1>1. /\ pc \in [Task -> Label] /\ block \in [Task -> Content] /\ set \in [Task -> BOOLEAN]
      /\ g_user_id \in (User \cup {Nobody}) \X (User \cup {Nobody})
      /\ \A u \in Task : /\ msg[u] \in Message \cup {NoMessage}
                        /\ pc[u] # "idle" => msg[u] \in Message
      /\ DOMAIN msg = Task /\ Junk \in Content
  BY DEF TypeInv, Types, Occupied, Content
<1> USE <1>1 DEF TypeInv, Types, Occupied, At, Goto, Label
<1>2. CASE \E kind \in Kind, m \in Message : Receive(t, kind, m) BY <1>2 DEF Receive
<1>3. CASE NameFirstHalf(t)
  BY <1>3, MessageFields DEF NameFirstHalf
<1>4. CASE NameSecondHalf(t)
  BY <1>4, MessageFields DEF NameSecondHalf
<1>5. CASE Reject(t) BY <1>5 DEF Reject
<1>6. CASE Allocate(t) BY <1>6 DEF Allocate, Dispatch
<1>7. CASE AnswerError(t)
  <2>1. PICK rc \in {"ACK_BCC_ERROR", "ACK_CMD_ILLIGAL"} : ack_to_mqtt(t, rc)
    BY <1>7 DEF AnswerError
  <2>2. msg[t] \in Message BY <1>7 DEF AnswerError
  <2>3. block' \in [Task -> Content] /\ set' \in [Task -> BOOLEAN]
    BY <2>1, <2>2, WrittenContent DEF ack_to_mqtt
  <2> QED BY <1>7, <2>3 DEF AnswerError
<1>8. CASE SetColour(t)
  BY <1>8, MessageFields DEF SetColour
<1>9. CASE AnswerSuccess(t)
  <2>1. msg[t] \in Message BY <1>9 DEF AnswerSuccess
  <2>2. block' \in [Task -> Content] /\ set' \in [Task -> BOOLEAN]
    BY <1>9, <2>1, WrittenContent DEF AnswerSuccess, ack_to_mqtt
  <2> QED BY <1>9, <2>2 DEF AnswerSuccess
<1>10. CASE SetSwitch(t)
  BY <1>10 DEF SetSwitch, SwitchTo
<1>11. CASE SendReply(t)
  <2>1. msg[t] \in Message BY <1>11 DEF SendReply
  <2>2. last' \in Call BY <1>11, <2>1, MessageFields DEF SendReply, Call
  <2> QED BY <1>11, <2>2 DEF SendReply
<1>12. CASE Release(t) BY <1>12 DEF Release, Forget
<1> QED
  BY <1>2, <1>3, <1>4, <1>5, <1>6, <1>7, <1>8, <1>9, <1>10, <1>11, <1>12 DEF Process

LEMMA TypeInvHolds == Spec => []TypeInv
<1>1. Init => TypeInv
  BY ColourAssumption DEF Init, TypeInv, Types, Occupied, Label, Content
<1>2. TypeInv /\ [Next]_vars => TypeInv'
  <2> SUFFICES ASSUME TypeInv, [Next]_vars PROVE TypeInv' OBVIOUS
  <2>1. CASE UNCHANGED vars BY <2>1 DEF vars, TypeInv, Types, Occupied
  <2>2. CASE Next BY <2>2, StepKeepsTypes DEF Next
  <2> QED BY <2>1, <2>2
<1> QED BY <1>1, <1>2, PTL DEF Spec

(* Every variable of the callback keeps its type, and there are never more *)
(* live blocks than tasks.                                                 *)
THEOREM TypesHold == Spec => [](IsFiniteSet(Task) => TypeOK)
<1>1. TypeInv /\ (IsFiniteSet(Task) => NoLeak) => (IsFiniteSet(Task) => TypeOK)
  <2> SUFFICES ASSUME TypeInv, IsFiniteSet(Task), NoLeak PROVE TypeOK OBVIOUS
  <2>1. Cardinality(Holders) <= Cardinality(Task) /\ Cardinality(Holders) \in Nat
        /\ Cardinality(Task) \in Nat
    BY HoldersFinite, FS_Subset, FS_CardinalityType DEF Holders
  <2>2. live \in 0..Cardinality(Task) BY <2>1 DEF NoLeak, Holders
  <2> QED BY <2>2 DEF TypeInv, Types, TypeOK
<1> QED BY <1>1, TypeInvHolds, BlocksAreFreed, PTL
------------------------------------------------------------------------------
(* The request/reply service.  What is said of an answer before it is sent *)
(* is said by one task about its own block and frame.                      *)
Answer(t, rc) == [seq |-> msg[t].frame.seq, type |-> msg[t].frame.type, rc |-> rc]
Good(t, rgb) == /\ msg[t].frame.shape = "good" /\ msg[t].frame.cmd = "control"
                /\ (msg[t].frame.type = "rgb") = rgb

Written(t) ==
  \/ /\ set[t] = TRUE /\ block[t] = Answer(t, "ACK_SUCCESS")
     /\ Good(t, TRUE)
  \/ /\ set[t] = TRUE /\ block[t] = Answer(t, "ACK_BCC_ERROR")
     /\ msg[t].frame.shape = "badBcc"
  \/ /\ set[t] = TRUE /\ block[t] = Answer(t, "ACK_CMD_ILLIGAL")
     /\ msg[t].frame.shape = "good" /\ msg[t].frame.cmd = "unknown"
  \/ /\ set[t] = FALSE /\ block[t] = Junk
     /\ Good(t, FALSE)

AnswerFits(t) ==
  /\ pc[t] \in {"bccError", "illegal", "act", "ack"} => set[t] = FALSE /\ block[t] = Junk
  /\ pc[t] = "bccError" => msg[t].frame.shape = "badBcc"
  /\ pc[t] = "illegal" => msg[t].frame.shape = "good" /\ msg[t].frame.cmd = "unknown"
  /\ pc[t] = "act" => msg[t].frame.shape = "good" /\ msg[t].frame.cmd = "control"
  /\ pc[t] = "ack" => Good(t, TRUE)
  /\ pc[t] = "send" => Written(t)

AnswerInv == TypeInv /\ \A t \in Task : AnswerFits(t)

LEMMA StepKeepsAnswer ==
  ASSUME AnswerInv, NEW t \in Task,
         Process(t) \/ \E kind \in Kind, m \in Message : Receive(t, kind, m)
  PROVE  AnswerFits(t)'
<1>1. /\ pc \in [Task -> Label] /\ DOMAIN block = Task /\ DOMAIN set = Task
      /\ DOMAIN msg = Task /\ AnswerFits(t)
      /\ pc[t] # "idle" => msg[t] \in Message
  BY DEF AnswerInv, TypeInv, Types, Occupied
<1> USE <1>1 DEF At, Goto, Label, AnswerFits
<1>2. CASE \E kind \in Kind, m \in Message : Receive(t, kind, m) BY <1>2 DEF Receive
<1>3. CASE NameFirstHalf(t) BY <1>3 DEF NameFirstHalf
<1>4. CASE NameSecondHalf(t) BY <1>4 DEF NameSecondHalf
<1>5. CASE Reject(t) BY <1>5 DEF Reject
<1>6. CASE Allocate(t) BY <1>6, MessageFields DEF Allocate, Dispatch
<1>7. CASE AnswerError(t)
  BY <1>7 DEF AnswerError, ack_to_mqtt, Written, Answer
<1>8. CASE SetColour(t) BY <1>8 DEF SetColour, Good
<1>9. CASE AnswerSuccess(t)
  BY <1>9 DEF AnswerSuccess, ack_to_mqtt, Written, Answer, Good
<1>10. CASE SetSwitch(t) BY <1>10 DEF SetSwitch, Written, Good
<1>11. CASE SendReply(t) BY <1>11 DEF SendReply
<1>12. CASE Release(t) BY <1>12 DEF Release, Forget
<1> QED
  BY <1>2, <1>3, <1>4, <1>5, <1>6, <1>7, <1>8, <1>9, <1>10, <1>11, <1>12 DEF Process

LEMMA AnswerInvHolds == Spec => []AnswerInv
<1>1. Init => \A t \in Task : AnswerFits(t) BY DEF Init, AnswerFits
<1>2. AnswerInv /\ TypeInv' /\ [Next]_vars => AnswerInv'
  <2> SUFFICES ASSUME AnswerInv, [Next]_vars PROVE \A u \in Task : AnswerFits(u)'
    BY DEF AnswerInv
  <2>1. CASE UNCHANGED vars
    BY <2>1 DEF vars, AnswerInv, AnswerFits, Written, Answer, Good
  <2>2. ASSUME NEW t \in Task,
               Process(t) \/ \E kind \in Kind, m \in Message : Receive(t, kind, m),
               NEW u \in Task
        PROVE  AnswerFits(u)'
    <3>1. Shapes BY DEF AnswerInv, TypeInv, Types, Shapes
    <3>2. CASE u = t BY <2>2, <3>2, StepKeepsAnswer
    <3>3. CASE u # t
      <4>1. pc'[u] = pc[u] /\ msg'[u] = msg[u] /\ block'[u] = block[u] /\ set'[u] = set[u]
        BY <2>2, <3>1, <3>3, StepIsLocal
      <4> QED BY <4>1 DEF AnswerInv, AnswerFits, Written, Answer, Good
    <3> QED BY <3>2, <3>3
  <2> QED BY <2>1, <2>2 DEF Next
<1> QED BY <1>1, <1>2, TypeInvHolds, PTL DEF Spec, AnswerInv

(* What the mapping makes of the state of a task.                          *)
StageIs(t) ==
  /\ pc[t] = "idle" => Stage[t] = "closed"
  /\ pc[t] \in {"name1", "name2", "parse", "bccError", "illegal", "act"} => Stage[t] = "open"
  /\ pc[t] = "ack" => Stage[t] = "done"
  /\ pc[t] = "send" =>
       Stage[t] = IF set[t] = TRUE /\ block[t].rc = "ACK_SUCCESS" THEN "done" ELSE "open"
  /\ pc[t] = "free" => Stage[t] = "answered"
StageFits == \A t \in Task : StageIs(t)

LEMMA StageAlwaysFits == AnswerInv => StageFits
BY DEF Stage, StageFits, StageIs, AnswerInv, TypeInv, Types

LEMMA StageMoves ==
  ASSUME OneTask, NEW t \in Task
  PROVE  Stage' = [Stage EXCEPT ![t] = Stage'[t]]
<1>1. /\ Stage = [u \in Task |-> Stage[u]]
      /\ Stage' = [u \in Task |-> Stage'[u]]
  BY DEF Stage
<1> QED BY <1>1 DEF OneTask

LEMMA SendIsCall ==
  ASSUME TypeInv, NEW t \in Task, SendReply(t)
  PROVE  Told' = [to |-> g_user_id, body |-> block[t]]
<1>1. /\ msg[t] \in Message /\ block[t] \in Content /\ set[t] \in BOOLEAN
      /\ g_user_id \in (User \cup {Nobody}) \X (User \cup {Nobody})
  BY DEF TypeInv, Types, Occupied, SendReply, At
<1>2. last' = [to |-> g_user_id, body |-> block[t], set |-> set[t],
               from |-> msg[t].from, frame |-> msg[t].frame]
  BY DEF SendReply
<1>3. last' \in Call BY <1>1, <1>2, MessageFields DEF Call
<1>4. last' # NoCall BY <1>3, NoCallAssumption
<1> QED BY <1>2, <1>4 DEF Told

ServeInv == AnswerInv /\ NameInv /\ StageFits

LEMMA StepServes ==
  ASSUME OneTask, ServeInv, StageFits', NEW t \in Task,
         Process(t) \/ \E kind \in Kind, m \in Message : Receive(t, kind, m)
  PROVE  Service!Next \/ UNCHANGED <<Stage, msg, lamp, Told>>
<1>1. /\ pc \in [Task -> Label] /\ DOMAIN block = Task /\ DOMAIN set = Task
      /\ TypeInv /\ AnswerFits(t) /\ NameFits(t)
      /\ StageIs(t) /\ StageIs(t)'
  BY DEF ServeInv, AnswerInv, TypeInv, Types, NameInv, StageFits
<1>2. ASSUME last' = last PROVE Told' = Told BY <1>2 DEF Told
<1>3. ASSUME NEW from, NEW to, Stage[t] = from, Stage'[t] = to PROVE Service!Move(t, from, to)
  BY <1>3, StageMoves DEF Service!Move
<1>4. ASSUME Stage'[t] = Stage[t] PROVE Stage' = Stage
  <2>1. Stage = [u \in Task |-> Stage[u]] BY DEF Stage
  <2> QED BY <1>4, <2>1, StageMoves
<1> USE DEF At, Goto, Label
<1>5. CASE \E kind \in Kind, m \in Message : Receive(t, kind, m)
  <2>1. PICK kind \in Kind, m \in Message : Receive(t, kind, m) BY <1>5
  <2>2. Stage[t] = "closed" /\ Stage'[t] = "open" BY <1>1, <2>1 DEF Receive, StageIs
  <2>3. msg' = [msg EXCEPT ![t] = m] /\ lamp' = lamp /\ Told' = Told
    BY <1>2, <2>1 DEF Receive
  <2>4. Service!Open(t, m) BY <1>3, <2>2, <2>3 DEF Service!Open
  <2> QED BY <2>4 DEF Service!Next
<1>6. CASE NameFirstHalf(t) \/ NameSecondHalf(t) \/ Allocate(t)
  <2>1. /\ pc[t] \in {"name1", "name2", "parse"} /\ msg' = msg /\ lamp' = lamp /\ last' = last
        /\ pc'[t] \in {"name2", "parse", "bccError", "illegal", "act"}
    BY <1>1, <1>6 DEF NameFirstHalf, NameSecondHalf, Allocate, Dispatch
  <2>2. Stage'[t] = Stage[t] BY <1>1, <2>1 DEF StageIs
  <2> QED BY <1>2, <1>4, <2>1, <2>2
<1>7. CASE Reject(t) \/ Release(t)
  <2>1. /\ pc[t] \in {"parse", "free"} /\ pc'[t] = "idle" /\ lamp' = lamp /\ last' = last
        /\ msg' = [msg EXCEPT ![t] = NoMessage]
    BY <1>1, <1>7 DEF Reject, Release, Forget
  <2>2. Stage[t] \in {"open", "answered"} /\ Stage'[t] = "closed" BY <1>1, <2>1 DEF StageIs
  <2>3. Stage' = [Stage EXCEPT ![t] = "closed"] BY <2>2, StageMoves
  <2>4. Service!Close(t) BY <1>2, <2>1, <2>2, <2>3 DEF Service!Close
  <2> QED BY <2>4 DEF Service!Next
<1>8. CASE AnswerError(t)
  <2>1. /\ pc[t] \in {"bccError", "illegal"} /\ pc'[t] = "send"
        /\ msg' = msg /\ lamp' = lamp /\ last' = last
        /\ block'[t].rc # "ACK_SUCCESS"
    BY <1>1, <1>8 DEF AnswerError, ack_to_mqtt
  <2>2. Stage'[t] = Stage[t] BY <1>1, <2>1 DEF StageIs
  <2> QED BY <1>2, <1>4, <2>1, <2>2
<1>9. CASE SetColour(t)
  <2>1. /\ pc[t] = "act" /\ pc'[t] = "ack" /\ msg' = msg /\ last' = last
        /\ msg[t].frame.type = "rgb" /\ msg[t].frame.shape = "good"
        /\ msg[t].frame.cmd = "control"
    BY <1>1, <1>9 DEF SetColour, AnswerFits
  <2>2. lamp' \in Colour /\ (msg[t].frame.arg \in Colour => lamp' = msg[t].frame.arg)
    BY <1>9 DEF SetColour
  <2>3. Service!Move(t, "open", "done") BY <1>1, <1>3, <2>1 DEF StageIs
  <2>4. Service!Control(t, TRUE) BY <2>1 DEF Service!Control
  <2>5. Service!CarryOut(t) BY <1>2, <2>1, <2>2, <2>3, <2>4 DEF Service!CarryOut
  <2> QED BY <2>5 DEF Service!Next
<1>10. CASE AnswerSuccess(t)
  <2>1. /\ pc[t] = "ack" /\ pc'[t] = "send" /\ msg' = msg /\ lamp' = lamp /\ last' = last
        /\ set'[t] = TRUE /\ block'[t].rc = "ACK_SUCCESS"
    BY <1>1, <1>10 DEF AnswerSuccess, ack_to_mqtt
  <2>2. Stage'[t] = Stage[t] BY <1>1, <2>1 DEF StageIs
  <2> QED BY <1>2, <1>4, <2>1, <2>2
<1>11. CASE SetSwitch(t)
  <2>1. /\ pc[t] = "act" /\ pc'[t] = "send" /\ msg' = msg /\ lamp' = lamp /\ last' = last
        /\ set'[t] = FALSE
    BY <1>1, <1>11 DEF SetSwitch, AnswerFits
  <2>2. Stage'[t] = Stage[t] BY <1>1, <2>1 DEF StageIs
  <2> QED BY <1>2, <1>4, <2>1, <2>2
<1>12. CASE SendReply(t)
  <2>1. pc[t] = "send" /\ pc'[t] = "free" /\ msg' = msg /\ lamp' = lamp
    BY <1>1, <1>12 DEF SendReply
  <2>2. Told' = [to |-> <<msg[t].from, msg[t].from>>, body |-> block[t]]
    BY <1>1, <1>12, <2>1, SendIsCall DEF NameFits
  <2>3. Stage'[t] = "answered" BY <1>1, <2>1 DEF StageIs
  <2>4. ASSUME NEW body, block[t] = body PROVE Service!Reply(t, body)
    BY <2>1, <2>2, <2>4 DEF Service!Reply
  <2>5. Written(t) BY <1>1, <2>1 DEF AnswerFits
  <2>6. CASE set[t] = TRUE /\ block[t] = Answer(t, "ACK_SUCCESS") /\ Good(t, TRUE)
    <3>1. Stage[t] = "done" BY <1>1, <2>1, <2>6 DEF StageIs, Answer
    <3>2. Service!Grant(t)
      BY <1>3, <2>3, <2>4, <2>6, <3>1 DEF Service!Grant, Service!Ack, Answer
    <3> QED BY <3>2 DEF Service!Next
  <2>7. CASE set[t] = TRUE /\ block[t] = Answer(t, "ACK_BCC_ERROR") /\ msg[t].frame.shape = "badBcc"
    <3>1. Stage[t] = "open" BY <1>1, <2>1, <2>7 DEF StageIs, Answer
    <3>2. Service!Refuse(t)
      BY <1>3, <2>3, <2>4, <2>7, <3>1 DEF Service!Refuse, Service!Ack, Answer
    <3> QED BY <3>2 DEF Service!Next
  <2>8. CASE /\ set[t] = TRUE /\ block[t] = Answer(t, "ACK_CMD_ILLIGAL")
             /\ msg[t].frame.shape = "good" /\ msg[t].frame.cmd = "unknown"
    <3>1. Stage[t] = "open" BY <1>1, <2>1, <2>8 DEF StageIs, Answer
    <3>2. Service!Refuse(t)
      BY <1>3, <2>3, <2>4, <2>8, <3>1 DEF Service!Refuse, Service!Ack, Answer
    <3> QED BY <3>2 DEF Service!Next
  <2>9. CASE set[t] = FALSE /\ block[t] = Junk /\ Good(t, FALSE)
    <3>1. Stage[t] = "open" BY <1>1, <2>1, <2>9 DEF StageIs
    <3>2. Service!Control(t, FALSE) BY <2>9 DEF Service!Control, Good
    <3>3. Service!AnswerOther(t) BY <1>3, <2>3, <2>4, <2>9, <3>1, <3>2 DEF Service!AnswerOther
    <3> QED BY <3>3 DEF Service!Next
  <2> QED BY <2>5, <2>6, <2>7, <2>8, <2>9 DEF Written
<1> QED
  BY <1>5, <1>6, <1>7, <1>8, <1>9, <1>10, <1>11, <1>12 DEF Process

(* A device with one SDK task is a request/reply service: a request is     *)
(* answered at most once, to its sender, and a success only after the      *)
(* colour was set (et_user_app.c:87-194 and 280-309).                      *)
THEOREM OneTaskIsAService == OneTask /\ Spec => ImplementsService
<1> SUFFICES ASSUME OneTask PROVE Spec => ImplementsService OBVIOUS
<1>1. Init => Service!Init
  BY DEF Init, Service!Init, Stage, Told
<1>2. AnswerInv /\ (OneTask => NameInv) => ServeInv BY StageAlwaysFits DEF ServeInv
<1>3. ServeInv => StageFits BY DEF ServeInv
<1>4. ServeInv /\ StageFits' /\ [Next]_vars => [Service!Next]_(Service!vars)
  <2> SUFFICES ASSUME ServeInv, StageFits', [Next]_vars
               PROVE  Service!Next \/ UNCHANGED <<Stage, msg, lamp, Told>>
    BY DEF Service!vars
  <2>1. CASE UNCHANGED vars BY <2>1 DEF vars, Stage, Told
  <2>2. CASE Next BY <2>2, StepServes DEF Next
  <2> QED BY <2>1, <2>2
<1> QED
  BY <1>1, <1>2, <1>3, <1>4, AnswerInvHolds, NameInvHolds, PTL
     DEF Spec, Service!Spec, ImplementsService
==============================================================================
