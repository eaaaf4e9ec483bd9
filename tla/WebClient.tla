------------------------------ MODULE WebClient ------------------------------
(***************************************************************************)
(* The control page's connection to the cloud: the callback and the        *)
(* reconnect logic of js/cmdControl.js, run by several pages that log in   *)
(* with the same account from different browsers.                          *)
(*                                                                         *)
(* et_cloud (ilink-js-sdk.min.js) looks a server up, opens an MQTT socket  *)
(* and hands events to onClientEvent one at a time.  It clears isLogin     *)
(* before it reports a close, so the etDisconnect of the close branch does *)
(* nothing and is left out.  External: the network, the lookup server, and *)
(* the broker, which keeps one session per account: a page that logs in    *)
(* takes it over, and the page that had it is sent a "kick" and closed.    *)
(*                                                                         *)
(* What a page does when a message arrives beyond this (the device status, *)
(* the texts it shows) is left out.                                        *)
(* Definitions marked FAULT are the definition that follows them with a    *)
(* bug put in; they are not part of the model.                             *)
(***************************************************************************)
EXTENDS Integers, Sequences

CONSTANTS Page,             \* pages of one account, each in its own browser
          maxConnectCount,
          MaxReloads        \* bound on the times a page is loaded again

ASSUME CountAssumption == maxConnectCount \in Nat /\ MaxReloads \in Nat

VARIABLES
  net,             \* the network is up
  open,            \* pages whose socket the broker has accepted
  inbox,           \* per page: SDK events not yet handled
  isLogin,         \* et_cloud.isLogin
  timers,          \* reconnect timers running
  lookups,         \* etConnect calls waiting for a server address
  opening,         \* sockets being opened
  im_obj,          \* localStorage: the kick flag, which outlives the page
  reConnectCount,  \* up to maxConnectCount + 1, beyond which nothing changes
  told,            \* the alerts the page has shown
  reloads,         \* times the page was loaded again
  kicked,          \* history: this page has handled a kick
  stale,           \* history: im_obj was set when this page was loaded
  cut              \* history: a lookup of this page ended without an answer

links == <<net, open, opening>>
memory == <<isLogin, timers, reConnectCount, told>>
history == <<reloads, kicked, stale, cut>>
vars == <<links, inbox, lookups, memory, im_obj, history>>

All(value) == [p \in Page |-> value]

(* A page calls etConnect when it is loaded.                               *)
Init ==
  /\ net = TRUE /\ open = {} /\ inbox = All(<<>>) /\ isLogin = All(FALSE)
  /\ timers = All(0) /\ lookups = All(1) /\ opening = All(0)
  /\ im_obj = All(FALSE) /\ reConnectCount = All(0) /\ told = All({})
  /\ reloads = All(0) /\ kicked = All(FALSE) /\ stale = All(FALSE)
  /\ cut = All(FALSE)

Add(f, p, n) == [f EXCEPT ![p] = @ + n]
Tell(p, alert) == told' = [told EXCEPT ![p] = @ \cup {alert}]
------------------------------------------------------------------------------
(* Network, broker and SDK.                                                *)
NetworkChanges ==
  /\ net' = ~net
  /\ UNCHANGED <<open, opening, inbox, lookups, memory, im_obj, history>>

(* etIMInfo hands the address on, fresh or from its cache, and etConnect   *)
(* opens a socket there.                                                   *)
LookupDone(p) ==
  /\ lookups[p] > 0
  /\ lookups' = Add(lookups, p, -1) /\ opening' = Add(opening, p, 1)
  /\ UNCHANGED <<net, open, inbox, memory, im_obj, history>>

(* No connection to the lookup server, or an answer that refuses the page  *)
(* or holds no address: an error event, for which onClientEvent only shows *)
(* an alert.                                                               *)
LookupFails(p) ==
  /\ lookups[p] > 0
  /\ lookups' = Add(lookups, p, -1) /\ Tell(p, "error")
  /\ UNCHANGED <<links, inbox, isLogin, timers, reConnectCount, im_obj, history>>

(* The lookup's socket is closed before an answer and without an error:    *)
(* sendToLB reports type 3, and etIMInfo passes on types 0 and 2 only.     *)
LookupIsCut(p) ==
  /\ lookups[p] > 0
  /\ lookups' = Add(lookups, p, -1) /\ cut' = [cut EXCEPT ![p] = TRUE]
  /\ UNCHANGED <<links, inbox, memory, im_obj, reloads, kicked, stale>>

SocketOpens(p) ==
  /\ opening[p] > 0 /\ net
  /\ opening' = Add(opening, p, -1)
  /\ open' = {p}
  /\ inbox' = [q \in Page |->
                 inbox[q] \o (IF q = p THEN <<"connect">>
                              ELSE IF q \in open THEN <<"kick", "close">> ELSE <<>>)]
  /\ UNCHANGED <<net, lookups, memory, im_obj, history>>

SocketFails(p) ==
  /\ ~net
  /\ \/ p \in open /\ open' = open \ {p} /\ UNCHANGED opening
     \/ opening[p] > 0 /\ opening' = Add(opening, p, -1) /\ UNCHANGED open
  /\ inbox' = [inbox EXCEPT ![p] = Append(@, "close")]
  /\ UNCHANGED <<net, lookups, memory, im_obj, history>>

(* The broken connection takes a kick on its way with it.                  *)
KickIsLost(p) ==
  /\ ~net
  /\ \E i \in 1..Len(inbox[p]) :
       /\ inbox[p][i] = "kick"
       /\ inbox' = [inbox EXCEPT ![p] = SubSeq(@, 1, i - 1) \o SubSeq(@, i + 1, Len(@))]
  /\ UNCHANGED <<links, lookups, memory, im_obj, history>>
------------------------------------------------------------------------------
(* onClientEvent.                                                          *)
Handle(p, event) ==
  /\ inbox[p] # <<>> /\ Head(inbox[p]) = event
  /\ inbox' = [inbox EXCEPT ![p] = Tail(@)]
  /\ UNCHANGED <<links, lookups, reloads, stale, cut>>

OnConnect(p) ==
  /\ Handle(p, "connect")
  /\ isLogin' = [isLogin EXCEPT ![p] = TRUE]
  /\ reConnectCount' = [reConnectCount EXCEPT ![p] = 0]
  /\ UNCHANGED <<timers, told, im_obj, kicked>>

\* FAULT
OnKickForgetting(p) ==
  /\ Handle(p, "kick")
  /\ Tell(p, "kicked") /\ kicked' = [kicked EXCEPT ![p] = TRUE]
  /\ UNCHANGED <<isLogin, timers, reConnectCount, im_obj>>
OnKick(p) ==
  /\ Handle(p, "kick")
  /\ Tell(p, "kicked") /\ kicked' = [kicked EXCEPT ![p] = TRUE]
  /\ im_obj' = [im_obj EXCEPT ![p] = TRUE]
  /\ UNCHANGED <<isLogin, timers, reConnectCount>>

Raised(n) == IF n > maxConnectCount THEN n ELSE n + 1

(* The close of a kicked session takes the flag away and does no more; any *)
(* other one starts the timer, however often it was started before.        *)
\* FAULT
OnCloseGivingUp(p) ==
  /\ Handle(p, "close")
  /\ isLogin' = [isLogin EXCEPT ![p] = FALSE]
  /\ im_obj' = [im_obj EXCEPT ![p] = FALSE]
  /\ IF im_obj[p] \/ reConnectCount[p] >= maxConnectCount
     THEN UNCHANGED <<timers, reConnectCount, told>>
     ELSE /\ reConnectCount' = [reConnectCount EXCEPT ![p] = Raised(@)]
          /\ timers' = Add(timers, p, 1) /\ UNCHANGED told
  /\ UNCHANGED kicked
\* FAULT
OnCloseTwice(p) ==
  /\ Handle(p, "close")
  /\ isLogin' = [isLogin EXCEPT ![p] = FALSE]
  /\ im_obj' = [im_obj EXCEPT ![p] = FALSE]
  /\ reConnectCount' = [reConnectCount EXCEPT ![p] = Raised(@)]
  /\ timers' = Add(timers, p, IF im_obj[p] THEN 0 ELSE 2)
  /\ UNCHANGED <<told, kicked>>
OnClose(p) ==
  /\ Handle(p, "close")
  /\ isLogin' = [isLogin EXCEPT ![p] = FALSE]
  /\ im_obj' = [im_obj EXCEPT ![p] = FALSE]
  /\ IF im_obj[p]
     THEN UNCHANGED <<timers, reConnectCount, told>>
     ELSE /\ reConnectCount' = [reConnectCount EXCEPT ![p] = Raised(@)]
          /\ timers' = Add(timers, p, 1)
          /\ IF Raised(reConnectCount[p]) > maxConnectCount
             THEN Tell(p, "offline") ELSE UNCHANGED told
  /\ UNCHANGED kicked

onClientEvent(p) == OnConnect(p) \/ OnKick(p) \/ OnClose(p)

(* The timer calls etConnect, which refuses when the page is logged in.    *)
\* FAULT
TimerFiresAgain(p) ==
  /\ timers[p] > 0 /\ UNCHANGED timers
  /\ IF isLogin[p] THEN Tell(p, "error") /\ UNCHANGED lookups
     ELSE lookups' = Add(lookups, p, 1) /\ UNCHANGED told
  /\ UNCHANGED <<links, inbox, isLogin, reConnectCount, im_obj, history>>
TimerFires(p) ==
  /\ timers[p] > 0 /\ timers' = Add(timers, p, -1)
  /\ IF isLogin[p] THEN Tell(p, "error") /\ UNCHANGED lookups
     ELSE lookups' = Add(lookups, p, 1) /\ UNCHANGED told
  /\ UNCHANGED <<links, inbox, isLogin, reConnectCount, im_obj, history>>

(* The user loads the page again: only localStorage survives.              *)
Reload(p) ==
  /\ reloads[p] < MaxReloads /\ reloads' = Add(reloads, p, 1)
  /\ open' = open \ {p} /\ inbox' = [inbox EXCEPT ![p] = <<>>]
  /\ isLogin' = [isLogin EXCEPT ![p] = FALSE]
  /\ timers' = [timers EXCEPT ![p] = 0] /\ lookups' = [lookups EXCEPT ![p] = 1]
  /\ opening' = [opening EXCEPT ![p] = 0]
  /\ reConnectCount' = [reConnectCount EXCEPT ![p] = 0]
  /\ told' = [told EXCEPT ![p] = {}] /\ kicked' = [kicked EXCEPT ![p] = FALSE]
  /\ stale' = [stale EXCEPT ![p] = im_obj[p]] /\ cut' = [cut EXCEPT ![p] = FALSE]
  /\ UNCHANGED <<net, im_obj>>

Progress(p) ==
  \/ LookupDone(p) \/ LookupFails(p) \/ LookupIsCut(p)
  \/ SocketOpens(p) \/ SocketFails(p) \/ onClientEvent(p) \/ TimerFires(p)

Next ==
  \/ NetworkChanges
  \/ \E p \in Page : Progress(p) \/ KickIsLost(p) \/ Reload(p)

Spec == Init /\ [][Next]_vars

(* Timers fire, events are handled, and the SDK and the network finish     *)
(* what was started.                                                       *)
FairSpec == Spec /\ \A p \in Page : WF_vars(Progress(p))
------------------------------------------------------------------------------
TypeOK ==
  /\ net \in BOOLEAN /\ open \subseteq Page
  /\ inbox \in [Page -> Seq({"connect", "kick", "close"})]
  /\ isLogin \in [Page -> BOOLEAN] /\ im_obj \in [Page -> BOOLEAN]
  /\ {timers, lookups, opening} \subseteq [Page -> 0..1]
  /\ reloads \in [Page -> 0..MaxReloads]
  /\ reConnectCount \in [Page -> 0..(maxConnectCount + 1)]
  /\ told \in [Page -> SUBSET {"kicked", "offline", "error"}]
  /\ kicked \in [Page -> BOOLEAN] /\ stale \in [Page -> BOOLEAN]
  /\ cut \in [Page -> BOOLEAN]

Closing(p) == \E i \in 1..Len(inbox[p]) : inbox[p][i] = "close"
Trials(p) == timers[p] + lookups[p] + opening[p] + (IF p \in open THEN 1 ELSE 0)
                       + (IF Closing(p) THEN 1 ELSE 0)

(* A page never has two connections or attempts at one: every close starts *)
(* one timer, and the timer's etConnect never finds the page logged in.    *)
OneAttempt ==
  \A p \in Page : Trials(p) <= 1 /\ (timers[p] > 0 => ~isLogin[p])

(* A page stops trying in four ways only.  Two tell the user: a kick, and  *)
(* a lookup that fails.  Two are silent: the page was loaded between a     *)
(* kick and its close, and took its own first close for the close of the   *)
(* kicked session; or a lookup was closed without an answer.               *)
StopsForAReason ==
  \A p \in Page :
    Trials(p) = 0 => told[p] \cap {"kicked", "error"} # {} \/ stale[p] \/ cut[p]

(* A page that handled a kick does not log in again by itself, whatever    *)
(* the order of lookups, closes and network failures around it.            *)
KickedStaysOut ==
  [][\A p \in Page : kicked[p] /\ kicked'[p] => lookups'[p] = 0]_vars

(* Pages of one account do not take the session from each other for ever:  *)
(* once the network stays up one of them keeps it, or all have stopped.    *)
Holds(p) == open = {p} /\ isLogin[p]
SessionSettles ==
  <>[]net => \/ \E p \in Page : <>[]Holds(p)
             \/ <>[](\A p \in Page : Trials(p) = 0)
==============================================================================
