------------------------------ MODULE EtSocket -------------------------------
(***************************************************************************)
(* The socket layer of user/base.c between the iLink SDK and lwIP, called  *)
(* by the two SDK tasks: the cloud task connects to its server, the local  *)
(* task accepts phones.  Each call is a select and then, if it is ready,   *)
(* the operation; what the SDK is told depends on errno, of which there is *)
(* ONE for all tasks (lwip/arch.h declares a global int, and cc.h asks the *)
(* stack to provide it): every socket call writes it, successful or not.   *)
(*                                                                         *)
(* External: the network, and the SDK's loop, which goes on after a        *)
(* positive result, tries again after 0 and closes after -1 (et_base.h:    *)
(* 146).  lwIP is the copy under third_party, by what its calls do to one  *)
(* connection.  A caller reads errno once per test: it is an ordinary int  *)
(* and no call separates the comparisons.                                  *)
(*                                                                         *)
(* Definitions marked FAULT are the definition that follows them with a    *)
(* bug put in; they are not part of the model.                             *)
(***************************************************************************)
EXTENDS Integers, Sequences

CONSTANTS Task,       \* the SDK tasks
          Server,     \* those whose connections et_socket_accept returns
          MaxOut,     \* bytes the SDK wants to send on one connection
          MaxIn       \* bound on bytes received and not yet read

ASSUME ServerAssumption == Server \subseteq Task
ASSUME MaxOutAssumption == MaxOut \in Nat \ {0}
ASSUME MaxInAssumption == MaxIn \in Nat \ {0}

VARIABLES
  link,        \* the task's connection, as lwIP and the network have it
  eof,         \* a recv has reported the end of the stream
  unread,      \* bytes that wait to be read
  stack,       \* the bytes lwIP has accepted, as positions in the stream
  sendevent,   \* lwIP's mark that the socket is writable
  sent,        \* how many bytes the SDK was told it has sent
  errno,       \* the global
  pc, rc,      \* per task: where it is, and the result so far
  own,         \* history: what the task's own call wrote into errno
  disturbed    \* history: tasks whose errno another task overwrote

connection == <<link, eof, unread, stack, sendevent>>
vars == <<connection, sent, errno, pc, rc, own, disturbed>>

Live == {"up", "silent", "finished"}

Init ==
  /\ link = [t \in Task |-> "none"]
  /\ eof = [t \in Task |-> FALSE]
  /\ unread = [t \in Task |-> 0]
  /\ stack = [t \in Task |-> <<>>]
  /\ sendevent = [t \in Task |-> FALSE]
  /\ sent = [t \in Task |-> 0]
  /\ errno = "none"
  /\ pc = [t \in Task |-> "idle"]
  /\ rc = [t \in Task |-> 0]
  /\ own = [t \in Task |-> "none"]
  /\ disturbed = {}

At(t, label) == pc[t] = label
Goto(t, label) == pc' = [pc EXCEPT ![t] = label]
Result(t, value) == rc' = [rc EXCEPT ![t] = value]

(* lwIP's set_errno, in the call of task t; the histories follow sends and *)
(* receives only, and only a send's result depends on errno.               *)
Asking == {"selectSend", "send", "blocked", "selectRecv", "recv"}
Testing == {u \in Task : pc[u] = "testSend"}
set_errno(t, value) ==
  /\ errno' = value
  /\ own' = [own EXCEPT ![t] = IF pc[t] \in Asking THEN value ELSE "none"]
  /\ disturbed' = (disturbed \cup Testing) \ {t}
SameErrno == UNCHANGED <<errno, own, disturbed>>
------------------------------------------------------------------------------
(* The network, and what the TCP/IP task does when it is heard from.       *)
LinkBecomes(t, from, to) ==
  /\ link[t] \in from /\ link' = [link EXCEPT ![t] = to]
  /\ UNCHANGED <<eof, unread, stack, sent, errno, pc, rc, own, disturbed>>
Writable(t) == sendevent' = [sendevent EXCEPT ![t] = TRUE]

(* A connection that is established, refused or lost wakes every select.   *)
Answered(t) == LinkBecomes(t, {"dialing"}, "up") /\ Writable(t)
Lost(t, from) == LinkBecomes(t, from, "reset") /\ Writable(t)
Refused(t) == Lost(t, {"dialing"})
PeerResets(t) == Lost(t, {"up"})
PeerCloses(t) == LinkBecomes(t, {"up"}, "finished") /\ UNCHANGED sendevent
PeerVanishes(t) == LinkBecomes(t, {"up"}, "silent") /\ UNCHANGED sendevent

(* et_socket_create asks for keep-alive probes, which the listening socket *)
(* hands down to what it accepts: a peer that is no longer there is found. *)
KeepAlive(t) == Lost(t, {"silent", "finished"})

PeerSends(t) ==
  /\ link[t] = "up" /\ unread[t] < MaxIn
  /\ unread' = [unread EXCEPT ![t] = @ + 1]
  /\ UNCHANGED <<link, eof, stack, sendevent, sent, errno, pc, rc, own, disturbed>>

(* An acknowledgement, or the poll timer, finds room in the send buffer.   *)
SpaceReturns(t) ==
  /\ link[t] \in Live /\ ~sendevent[t] /\ Writable(t)
  /\ UNCHANGED <<link, eof, unread, stack, sent, errno, pc, rc, own, disturbed>>

Network(t) == \/ Answered(t) \/ Refused(t) \/ PeerCloses(t) \/ PeerVanishes(t)
              \/ PeerResets(t) \/ KeepAlive(t) \/ PeerSends(t) \/ SpaceReturns(t)
------------------------------------------------------------------------------
(* et_socket_connect: connect does not wait, and its result is not looked  *)
(* at; then select waits for the socket to become writable.                *)
Connect(t) ==
  /\ t \notin Server /\ At(t, "idle") /\ link[t] = "none"
  /\ link' = [link EXCEPT ![t] = "dialing"]
  /\ set_errno(t, "EINPROGRESS")
  /\ Goto(t, "selectConnect")
  /\ UNCHANGED <<eof, unread, stack, sendevent, sent, rc>>

(* An established connection is writable, but so is a refused one.  If the *)
(* time is up, or select has no memory, the SDK closes the socket.         *)
SelectConnect(t) ==
  /\ At(t, "selectConnect")
  /\ \/ sendevent[t] /\ set_errno(t, "none") /\ Goto(t, "idle")
     \/ /\ ~sendevent[t] /\ Goto(t, "close")
        /\ \E e \in {"none", "ENOMEM"} : set_errno(t, e)
  /\ UNCHANGED <<connection, sent, rc>>

(* et_socket_accept: without a caller the listening socket would block.    *)
(* An accepted socket is born writable.                                    *)
Accept(t) ==
  /\ t \in Server /\ At(t, "idle") /\ link[t] = "none"
  /\ \/ /\ link' = [link EXCEPT ![t] = "up"] /\ Writable(t)
        /\ set_errno(t, "none")
     \/ UNCHANGED <<link, sendevent>> /\ set_errno(t, "EWOULDBLOCK")
  /\ UNCHANGED <<eof, unread, stack, sent, pc, rc>>
------------------------------------------------------------------------------
Start(t, label) ==
  /\ At(t, "idle") /\ link[t] \notin {"none", "dialing"}
  /\ Goto(t, label)
  /\ UNCHANGED <<connection, sent, errno, rc, own, disturbed>>
StartSend(t) == sent[t] < MaxOut /\ Start(t, "selectSend")
StartRecv(t) == Start(t, "selectRecv")

(* select returns at once if the socket is ready, and needs no memory for  *)
(* that.  Else nothing happens until the time is up, or there is no memory *)
(* for the semaphore it would wait on.                                     *)
Select(t, ready, label, test) ==
  /\ \/ ready /\ set_errno(t, "none") /\ Goto(t, label) /\ UNCHANGED rc
     \/ ~ready /\ set_errno(t, "none") /\ Goto(t, test) /\ Result(t, 0)
     \/ ~ready /\ set_errno(t, "ENOMEM") /\ Goto(t, test) /\ Result(t, -1)
  /\ UNCHANGED <<connection, sent>>

SelectSend(t) == At(t, "selectSend") /\ Select(t, sendevent[t], "send", "testSend")

Readable(t) == link[t] = "reset" \/ unread[t] > 0 \/ (link[t] = "finished" /\ ~eof[t])
SelectRecv(t) ==
  At(t, "selectRecv") /\ Select(t, Readable(t), "recv", "testRecv")

(* lwIP takes n bytes more than the k this call has given it already.      *)
Fails(t, e) == Result(t, -1) /\ set_errno(t, e)
\* FAULT
RestOfWholeBuffer(t) == MaxOut
Rest(t) == MaxOut - sent[t]
Takes(t, k, n) ==
  /\ stack' = [stack EXCEPT ![t] = @ \o [i \in 1..n |-> sent[t] + k + i]]
  /\ Result(t, k + n)
Full(t) == sendevent' = [sendevent EXCEPT ![t] = FALSE]
MayBeFull(t) == Full(t) \/ UNCHANGED sendevent

(* A dead connection has an error, and so has one whose end recv has       *)
(* reported.                                                               *)
SendFails(t) ==
  /\ \/ link[t] = "reset" /\ Fails(t, "ECONNRESET")
     \/ link[t] # "reset" /\ eof[t] /\ Fails(t, "ENOTCONN")
  /\ Goto(t, "testSend") /\ UNCHANGED <<stack, sendevent>>

(* A connected socket does not block: it takes what fits, and is no longer *)
(* writable if something is left over, or finds no memory at all.  (A full *)
(* buffer gives EWOULDBLOCK instead, which is tested alike.)               *)
SendWithoutBlocking(t) ==
  /\ t \notin Server /\ Goto(t, "testSend")
  /\ \/ \E n \in 1..Rest(t) :
          Takes(t, 0, n) /\ (IF n < Rest(t) THEN Full(t) ELSE MayBeFull(t))
        /\ set_errno(t, "none")
     \/ Fails(t, "ENOMEM") /\ MayBeFull(t) /\ UNCHANGED stack

(* An accepted one takes all, or a part and blocks; it waits for memory.   *)
SendBlocking(t) ==
  /\ t \in Server /\ MayBeFull(t)
  /\ \/ Takes(t, 0, Rest(t)) /\ set_errno(t, "none") /\ Goto(t, "testSend")
     \/ /\ \E n \in 0..(Rest(t) - 1) : Takes(t, 0, n)
        /\ Goto(t, "blocked") /\ SameErrno

Send(t) ==
  /\ At(t, "send")
  /\ \/ SendFails(t)
     \/ link[t] # "reset" /\ ~eof[t] /\ (SendWithoutBlocking(t) \/ SendBlocking(t))
  /\ UNCHANGED <<link, eof, unread, sent>>

(* A blocked send ends when the TCP/IP task has found room for the rest,   *)
(* or has lost the connection: then the result is -1, though a part of the *)
(* buffer was taken.                                                       *)
Unblocked(t) ==
  /\ At(t, "blocked") /\ link[t] \in Live
  /\ Takes(t, rc[t], Rest(t) - rc[t]) /\ MayBeFull(t)
  /\ set_errno(t, "none") /\ Goto(t, "testSend")
  /\ UNCHANGED <<link, eof, unread, sent>>
BlockedFails(t) ==
  /\ At(t, "blocked") /\ link[t] = "reset"
  /\ Fails(t, "ECONNRESET") /\ Goto(t, "testSend")
  /\ UNCHANGED <<connection, sent>>

(* recv: data; 0 and ENOTCONN at the end of the stream, once; or the error *)
(* of a reset connection, with which data may be lost.                     *)
Recv(t) ==
  /\ At(t, "recv") /\ Goto(t, "testRecv")
  /\ \/ /\ link[t] = "reset" /\ Fails(t, "ECONNRESET")
        /\ UNCHANGED <<unread, eof>>
     \/ /\ unread[t] > 0 /\ UNCHANGED eof
        /\ \E n \in 1..unread[t] :
             /\ unread' = [unread EXCEPT ![t] = @ - n]
             /\ Result(t, n) /\ set_errno(t, "none")
     \/ /\ link[t] = "finished" /\ unread[t] = 0
        /\ eof' = [eof EXCEPT ![t] = TRUE] /\ UNCHANGED unread
        /\ Result(t, 0) /\ set_errno(t, "ENOTCONN")
  /\ UNCHANGED <<link, stack, sendevent, sent>>
------------------------------------------------------------------------------
(* What the SDK is told.  send: an error is a failure unless errno, as it  *)
(* is by now, is one of these, and 0 otherwise.                            *)
\* FAULT
BenignOfTheExample == {"none", "EINPROGRESS", "EWOULDBLOCK"}
Benign == {"none", "EINPROGRESS", "EWOULDBLOCK", "ENOMEM"}

Tell(t, label, value) ==
  /\ Result(t, value) /\ Goto(t, label)
  /\ UNCHANGED <<connection, sent, errno, own, disturbed>>

\* FAULT
TestSendAllOrNothing(t) ==
  /\ At(t, "testSend")
  /\ Tell(t, "sendDone", IF rc[t] < 0 /\ errno \notin Benign THEN -1
                         ELSE IF rc[t] < Rest(t) THEN 0 ELSE rc[t])
TestSend(t) ==
  /\ At(t, "testSend")
  /\ Tell(t, "sendDone", IF rc[t] >= 0 THEN rc[t]
                         ELSE IF errno \in Benign THEN 0 ELSE -1)

(* recv: the same test, but it only decides about a line of text, since rc *)
(* is -1 already.                                                          *)
\* FAULT
TestRecvLikeSend(t) ==
  /\ At(t, "testRecv")
  /\ Tell(t, "recvDone", IF rc[t] >= 0 THEN rc[t]
                         ELSE IF errno \in Benign THEN 0 ELSE -1)
TestRecv(t) == At(t, "testRecv") /\ Tell(t, "recvDone", rc[t])

(* The SDK goes on, or closes.                                             *)
TakeResult(t) ==
  /\ pc[t] \in {"sendDone", "recvDone"}
  /\ Goto(t, IF rc[t] < 0 THEN "close" ELSE "idle")
  /\ sent' = IF At(t, "sendDone") /\ rc[t] > 0 THEN [sent EXCEPT ![t] = @ + rc[t]] ELSE sent
  /\ Result(t, 0)
  /\ own' = [own EXCEPT ![t] = "none"] /\ disturbed' = disturbed \ {t}
  /\ UNCHANGED <<connection, errno>>

et_socket_close(t) ==
  /\ At(t, "close") /\ Goto(t, "idle")
  /\ link' = [link EXCEPT ![t] = "none"]
  /\ eof' = [eof EXCEPT ![t] = FALSE]
  /\ unread' = [unread EXCEPT ![t] = 0]
  /\ stack' = [stack EXCEPT ![t] = <<>>]
  /\ sendevent' = [sendevent EXCEPT ![t] = FALSE]
  /\ sent' = [sent EXCEPT ![t] = 0]
  /\ set_errno(t, "none")
  /\ UNCHANGED rc

Call(t) == \/ SelectConnect(t) \/ SelectSend(t) \/ SelectRecv(t) \/ Send(t) \/ Recv(t)
           \/ BlockedFails(t) \/ TestSend(t) \/ TestRecv(t)
           \/ TakeResult(t) \/ et_socket_close(t)

Next == \E t \in Task : \/ Network(t) \/ Connect(t) \/ Accept(t)
                        \/ StartSend(t) \/ StartRecv(t) \/ Unblocked(t) \/ Call(t)

Spec == Init /\ [][Next]_vars

(* A call that has begun goes on, the SDK's loop receives again and again, *)
(* and keep-alive probes come.  That anything is sent is not assumed, nor  *)
(* that a blocked send finds room.                                         *)
FairSpec == /\ Spec
            /\ \A t \in Task : /\ WF_vars(Call(t)) /\ SF_vars(StartRecv(t))
                               /\ WF_vars(KeepAlive(t))
------------------------------------------------------------------------------
Label == {"idle", "selectConnect", "selectSend", "send", "blocked", "testSend",
          "sendDone", "selectRecv", "recv", "testRecv", "recvDone", "close"}
Errno == Benign \cup {"ECONNRESET", "ENOTCONN", "ENOMEM"}

TypeOK ==
  /\ link \in [Task -> {"none", "dialing", "reset"} \cup Live]
  /\ eof \in [Task -> BOOLEAN] /\ unread \in [Task -> 0..MaxIn]
  /\ sendevent \in [Task -> BOOLEAN]
  /\ stack \in [Task -> Seq(1..MaxOut)] /\ sent \in [Task -> 0..MaxOut]
  /\ errno \in Errno /\ own \in [Task -> Errno]
  /\ pc \in [Task -> Label] /\ rc \in [Task -> Int]
  /\ disturbed \subseteq Task

(* Partial sends, retries after "nothing sent" and errors read wrongly do  *)
(* not lose, repeat or move a byte: what lwIP accepted is the beginning of *)
(* the stream, and between calls as much of it as the SDK was told, unless *)
(* the connection was lost with a part of a blocked send.                  *)
StreamInOrder ==
  \A t \in Task : /\ \A i \in 1..Len(stack[t]) : stack[t][i] = i
                  /\ At(t, "idle") => link[t] = "reset" \/ Len(stack[t]) = sent[t]

(* A connection is given up for a reason: it is dead or at its end, recv   *)
(* had no memory to wait, or another task's call came between a failed     *)
(* send and its look at errno.                                             *)
Dead(t) == link[t] = "reset" \/ eof[t]
HealthyIsKept ==
  \A t \in Task :
    /\ At(t, "sendDone") /\ rc[t] = -1 => Dead(t) \/ t \in disturbed
    /\ At(t, "recvDone") /\ rc[t] = -1 => Dead(t) \/ own[t] = "ENOMEM"

(* Whatever the errno race hides from a sender, a connection that is dead, *)
(* refused, closed by the peer or left by it is given up in the end.       *)
DeadIsGivenUp ==
  \A t \in Task : link[t] \in {"reset", "finished", "silent"} ~> link[t] = "none"

(* et_base.h:109 asks to tell "0 bytes sent" from a failure: a send that   *)
(* is reported as failed was made on a dead connection.                    *)
FailedSendIsFailure ==
  \A t \in Task : At(t, "sendDone") /\ rc[t] = -1 => Dead(t)
==============================================================================
