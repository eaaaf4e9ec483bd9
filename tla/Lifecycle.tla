------------------------------ MODULE Lifecycle ------------------------------
(***************************************************************************)
(* From power-on to a device that answers: user_init and the check_ip      *)
(* timer (user_main.c), the Wi-Fi event callback, et_user_main and the two *)
(* tasks it starts (et_user_app.c), the cloud events, and the status lamp  *)
(* (wifi_led.c) they all drive.                                            *)
(*                                                                         *)
(* External: the Wi-Fi stack, which posts events to its own task, and the  *)
(* iLink SDK, whose handle, local server, session and pending events are   *)
(* modelled by what this code relies on.  The SDK tasks that deliver Wi-Fi *)
(* events have a higher priority than the application's (esp_common.h:     *)
(* 85-89, where tasks here have priority 2), so an application task runs   *)
(* only when no Wi-Fi event waits; timer callbacks may come at any time.   *)
(*                                                                         *)
(* airkiss_key_poll_task is not started (user_main.c:308 is commented      *)
(* out), so air_kiss_start_flag and to_stop_app keep their initial value.  *)
(* Definitions marked FAULT are the definition that follows them with a    *)
(* bug put in; they are not part of the model.                             *)
(***************************************************************************)
EXTENDS Integers, Sequences

CONSTANTS Faults,      \* the calls that may fail
          MaxEvents    \* bound on Wi-Fi events not yet delivered

Call == {"xTaskCreate_main", "flash", "et_create_context", "et_set_callback",
         "et_start_svr", "xTaskCreate_local", "xTaskCreate_ilink"}

ASSUME FaultsAssumption == Faults \subseteq Call
ASSUME MaxEventsAssumption == MaxEvents \in Nat \ {0}

VARIABLES
  ap, internet,              \* environment: access point and cloud reachable
  station,                   \* wifi_station_get_connect_status
  events,                    \* Wi-Fi events posted, not delivered
  test_timer,                \* the check_ip timer is armed
  user_main_start_flag,
  wifi_reconnect_start_flag,
  main,                      \* where et_user_main is
  handle,                    \* what g_cloud_handle refers to
  server,                    \* the local server is started
  local, ilink,              \* the SDK loop tasks exist
  session,                   \* the SDK's session with the cloud
  notices,                   \* SDK events not yet delivered
  kick_out,
  spark,                     \* wifi_led_spark_timer is armed
  out_value, lamp            \* next and present colour of the status lamp

air == <<ap, internet>>
wifi == <<station, events>>
boot == <<test_timer, user_main_start_flag, wifi_reconnect_start_flag>>
task == <<main, local, ilink>>
sdk == <<handle, server, session>>
cloud == <<notices, kick_out>>
led == <<spark, out_value, lamp>>
vars == <<air, wifi, boot, task, sdk, cloud, led>>

(* What a reset leaves: user_init arms check_ip and everything in memory   *)
(* has its initial value; the lamp is dark (RGB_light_init).               *)
Reset ==
  [station |-> "searching", events |-> <<>>, test_timer |-> TRUE,
   flag |-> FALSE, main |-> "none", handle |-> "NULL",
   session |-> "out", notices |-> <<>>, out_value |-> "green", lamp |-> "dark"]

Init ==
  /\ ap \in BOOLEAN /\ internet \in BOOLEAN
  /\ station = Reset.station /\ events = Reset.events
  /\ test_timer = Reset.test_timer
  /\ user_main_start_flag = Reset.flag /\ wifi_reconnect_start_flag = Reset.flag
  /\ main = Reset.main /\ local = Reset.flag /\ ilink = Reset.flag
  /\ handle = Reset.handle /\ server = Reset.flag /\ session = Reset.session
  /\ notices = Reset.notices /\ kick_out = Reset.flag
  /\ spark = Reset.flag /\ out_value = Reset.out_value /\ lamp = Reset.lamp

system_restart ==
  /\ station' = Reset.station /\ events' = Reset.events
  /\ test_timer' = Reset.test_timer
  /\ user_main_start_flag' = Reset.flag /\ wifi_reconnect_start_flag' = Reset.flag
  /\ main' = Reset.main /\ local' = Reset.flag /\ ilink' = Reset.flag
  /\ handle' = Reset.handle /\ server' = Reset.flag /\ session' = Reset.session
  /\ notices' = Reset.notices /\ kick_out' = Reset.flag
  /\ spark' = Reset.flag /\ out_value' = Reset.out_value /\ lamp' = Reset.lamp
  /\ UNCHANGED air
------------------------------------------------------------------------------
(* The status lamp.                                                        *)
set_wifi_spark_timer == spark' = TRUE /\ UNCHANGED <<out_value, lamp>>
DisarmAndShow(colour) == spark' = FALSE /\ lamp' = colour /\ UNCHANGED out_value

wifi_led_spark ==
  /\ spark
  /\ lamp' = out_value
  /\ out_value' = IF out_value = "green" THEN "dark" ELSE "green"
  /\ UNCHANGED <<spark, air, wifi, boot, task, sdk, cloud>>
------------------------------------------------------------------------------
(* Environment and Wi-Fi stack.                                            *)
AirChanges ==
  /\ \/ ap' = ~ap /\ UNCHANGED internet
     \/ internet' = ~internet /\ UNCHANGED ap
  /\ UNCHANGED <<wifi, boot, task, sdk, cloud, led>>

Post(event) == Len(events) < MaxEvents /\ events' = Append(events, event)

Join ==
  /\ ap /\ station # "gotIp"
  /\ station' = "gotIp" /\ Post("GOT_IP")
  /\ UNCHANGED <<air, boot, task, sdk, cloud, led>>

(* A lost access point, or an attempt to join that fails.                  *)
Lose ==
  /\ ~ap
  /\ station' \in IF station = "gotIp" THEN {"searching"}
                  ELSE {"wrongPassword", "noApFound", "connectFail"}
  /\ Post("DISCONNECTED")
  /\ UNCHANGED <<air, boot, task, sdk, cloud, led>>

(* et_wifi_event_cb.                                                       *)
\* FAULT
et_wifi_event_cb_noDisarm ==
  /\ events # <<>>
  /\ \/ /\ Head(events) = "GOT_IP" /\ set_wifi_spark_timer
        /\ events' = Tail(events)
        /\ UNCHANGED <<station, air, boot, task, sdk, cloud>>
     \/ /\ Head(events) = "DISCONNECTED" /\ wifi_reconnect_start_flag
        /\ system_restart
     \/ /\ Head(events) = "DISCONNECTED" /\ ~wifi_reconnect_start_flag
        /\ lamp' = "dark" /\ UNCHANGED <<spark, out_value>>
        /\ events' = Tail(events)
        /\ UNCHANGED <<station, air, boot, task, sdk, cloud>>
\* FAULT
et_wifi_event_cb_noRestart ==
  /\ events # <<>>
  /\ \/ Head(events) = "GOT_IP" /\ set_wifi_spark_timer
     \/ Head(events) = "DISCONNECTED" /\ DisarmAndShow("dark")
  /\ events' = Tail(events)
  /\ UNCHANGED <<station, air, boot, task, sdk, cloud>>
et_wifi_event_cb ==
  /\ events # <<>>
  /\ \/ /\ Head(events) = "GOT_IP" /\ set_wifi_spark_timer
        /\ events' = Tail(events)
        /\ UNCHANGED <<station, air, boot, task, sdk, cloud>>
     \/ /\ Head(events) = "DISCONNECTED" /\ wifi_reconnect_start_flag
        /\ system_restart
     \/ /\ Head(events) = "DISCONNECTED" /\ ~wifi_reconnect_start_flag
        /\ DisarmAndShow("dark")
        /\ events' = Tail(events)
        /\ UNCHANGED <<station, air, boot, task, sdk, cloud>>

(* check_ip re-arms its one-shot timer until it sees an address; then it   *)
(* creates et_user_main, once, and ignores whether that worked.            *)
CreateUserMain ==
  IF user_main_start_flag THEN UNCHANGED <<user_main_start_flag, main>>
  ELSE /\ user_main_start_flag' = TRUE
       /\ \/ main' = "flash"
          \/ "xTaskCreate_main" \in Faults /\ UNCHANGED main

\* FAULT
check_ip_givingUp ==
  /\ test_timer
  /\ test_timer' = FALSE
  /\ IF station = "gotIp"
     THEN CreateUserMain /\ wifi_reconnect_start_flag' = TRUE
     ELSE UNCHANGED <<user_main_start_flag, main, wifi_reconnect_start_flag>>
  /\ UNCHANGED <<air, wifi, local, ilink, sdk, cloud, led>>
check_ip ==
  /\ test_timer
  /\ test_timer' = (station # "gotIp")
  /\ IF station = "gotIp"
     THEN CreateUserMain /\ wifi_reconnect_start_flag' = TRUE
     ELSE UNCHANGED <<user_main_start_flag, main, wifi_reconnect_start_flag>>
  /\ UNCHANGED <<air, wifi, local, ilink, sdk, cloud, led>>
------------------------------------------------------------------------------
(* et_user_main, one call after the other.                                 *)
At(label) == main = label /\ events = <<>>
Goto(label) == main' = label /\ UNCHANGED <<local, ilink>>
Fails(call) == call \in Faults
Untouched == UNCHANGED <<air, wifi, boot, cloud, led>>

(* get_uid and get_server: an error returns from the task's function.      *)
ReadFlash ==
  /\ At("flash") /\ Untouched /\ UNCHANGED sdk
  /\ \/ Goto("create")
     \/ Fails("flash") /\ Goto("returned")

CreateContext ==
  /\ At("create") /\ Untouched /\ UNCHANGED <<server, session>>
  /\ \/ handle' = "live" /\ Goto("callback")
     \/ Fails("et_create_context") /\ handle' = "NULL" /\ Goto("deleted")

SetCallback ==
  /\ At("callback") /\ Untouched /\ UNCHANGED <<server, session>>
  /\ \/ Goto("server") /\ UNCHANGED handle
     \/ Fails("et_set_callback") /\ handle' = "destroyed" /\ Goto("deleted")

StartServer ==
  /\ At("server") /\ Untouched /\ UNCHANGED session
  /\ \/ server' = TRUE /\ Goto("spawnLocal") /\ UNCHANGED handle
     \/ /\ Fails("et_start_svr") /\ Goto("deleted")
        /\ handle' = "destroyed" /\ UNCHANGED server

\* FAULT
SpawnLocalNoGoto ==
  /\ At("spawnLocal") /\ Untouched /\ UNCHANGED session
  /\ \/ /\ main' = "login" /\ local' = TRUE /\ UNCHANGED <<ilink, handle, server>>
     \/ /\ Fails("xTaskCreate_local") /\ Goto("login")
        /\ server' = FALSE /\ handle' = "destroyed"
SpawnLocal ==
  /\ At("spawnLocal") /\ Untouched /\ UNCHANGED session
  /\ \/ /\ main' = "login" /\ local' = TRUE /\ UNCHANGED <<ilink, handle, server>>
     \/ /\ Fails("xTaskCreate_local") /\ Goto("deleted")
        /\ server' = FALSE /\ handle' = "destroyed"

(* et_login_cloud fails when the cloud cannot be reached.  A success is    *)
(* announced to the callback at once or by the first et_ilink_loop.        *)
Reachable == internet /\ station = "gotIp"
Login ==
  /\ At("login") /\ UNCHANGED <<air, wifi, boot, handle, server, kick_out>>
  /\ IF Reachable
     THEN /\ session' = "in" /\ Goto("loggedIn")
          /\ \/ notices' = Append(notices, "CONNECT") /\ UNCHANGED led
             \/ DisarmAndShow("green") /\ UNCHANGED notices
     ELSE Goto("retry") /\ UNCHANGED <<session, notices, led>>

(* The two seconds after a failed login end, and it is tried again.        *)
\* FAULT
RetryLoginAlways == (At("retry") \/ At("loggedIn")) /\ Goto("login") /\ Untouched /\ UNCHANGED sdk
RetryLogin == At("retry") /\ Goto("login") /\ Untouched /\ UNCHANGED sdk

(* The two seconds after a successful one end, and et_ilink_task starts.   *)
SpawnIlink ==
  /\ At("loggedIn") /\ Untouched /\ UNCHANGED server
  /\ \/ /\ main' = "deleted" /\ ilink' = TRUE
        /\ UNCHANGED <<local, handle, session>>
     \/ /\ Fails("xTaskCreate_ilink") /\ Goto("deleted")
        /\ session' = "out" /\ handle' = "destroyed"

et_user_main == \/ ReadFlash \/ CreateContext \/ SetCallback \/ StartServer
                \/ SpawnLocal \/ Login \/ RetryLogin \/ SpawnIlink
------------------------------------------------------------------------------
(* et_ilink_task calls et_ilink_loop unless it was kicked out.  The loop   *)
(* notices a lost session, logs in again by itself (auto_relogin), and     *)
(* hands each event to et_event_process before it goes on.                 *)
LoopRuns == ilink /\ ~kick_out /\ events = <<>>
SessionChanges(s, announced) ==
  /\ notices = <<>> /\ notices' = announced
  /\ session' = s
  /\ UNCHANGED <<air, wifi, boot, task, handle, server, kick_out, led>>

NoticeLoss == LoopRuns /\ session = "in" /\ ~Reachable /\ SessionChanges("lost", <<"DISCONNECT">>)
Relogin == LoopRuns /\ session = "lost" /\ Reachable /\ SessionChanges("in", <<"CONNECT">>)

(* Another client logs in with the same id.                                *)
Kick == /\ LoopRuns /\ session = "in" /\ Reachable
        /\ \E order \in {<<"KICK">>, <<"DISCONNECT", "KICK">>} : SessionChanges("kicked", order)

\* FAULT
et_event_process_noSpark ==
  /\ LoopRuns /\ notices # <<>>
  /\ \/ Head(notices) = "CONNECT" /\ DisarmAndShow("green") /\ UNCHANGED kick_out
     \/ Head(notices) = "DISCONNECT" /\ UNCHANGED <<led, kick_out>>
     \/ Head(notices) = "KICK" /\ kick_out' = TRUE /\ UNCHANGED led
  /\ notices' = Tail(notices)
  /\ UNCHANGED <<air, wifi, boot, task, sdk>>
et_event_process ==
  /\ LoopRuns /\ notices # <<>>
  /\ \/ Head(notices) = "CONNECT" /\ DisarmAndShow("green") /\ UNCHANGED kick_out
     \/ Head(notices) = "DISCONNECT" /\ set_wifi_spark_timer /\ UNCHANGED kick_out
     \/ Head(notices) = "KICK" /\ kick_out' = TRUE /\ UNCHANGED led
  /\ notices' = Tail(notices)
  /\ UNCHANGED <<air, wifi, boot, task, sdk>>

Next ==
  \/ AirChanges \/ Join \/ Lose \/ et_wifi_event_cb \/ wifi_led_spark
  \/ check_ip \/ et_user_main
  \/ NoticeLoss \/ Relogin \/ Kick \/ et_event_process

Spec == Init /\ [][Next]_vars

(* The Wi-Fi stack keeps trying, timers fire, events are delivered, tasks  *)
(* get their turn, and the SDK loop sees what happened to its session.     *)
FairSpec ==
  /\ Spec
  /\ WF_vars(Join) /\ WF_vars(et_wifi_event_cb) /\ WF_vars(check_ip)
  /\ WF_vars(et_user_main) /\ WF_vars(et_event_process)
  /\ WF_vars(NoticeLoss) /\ WF_vars(Relogin)
------------------------------------------------------------------------------
Event == {"GOT_IP", "DISCONNECTED"}
Notice == {"CONNECT", "DISCONNECT", "KICK"}
Step == {"none", "flash", "create", "callback", "server", "spawnLocal", "login",
         "retry", "loggedIn", "returned", "deleted"}

TypeOK ==
  /\ ap \in BOOLEAN /\ internet \in BOOLEAN
  /\ station \in {"searching", "gotIp", "wrongPassword", "noApFound", "connectFail"}
  /\ events \in Seq(Event) /\ Len(events) <= MaxEvents
  /\ test_timer \in BOOLEAN /\ user_main_start_flag \in BOOLEAN
  /\ wifi_reconnect_start_flag \in BOOLEAN
  /\ main \in Step /\ local \in BOOLEAN /\ ilink \in BOOLEAN
  /\ handle \in {"NULL", "live", "destroyed"} /\ server \in BOOLEAN
  /\ session \in {"out", "in", "lost", "kicked"}
  /\ notices \in Seq(Notice) /\ Len(notices) <= 2
  /\ kick_out \in BOOLEAN /\ spark \in BOOLEAN
  /\ out_value \in {"green", "dark"} /\ lamp \in {"green", "dark"}

(* et_local_task and et_ilink_task use g_cloud_handle without looking at   *)
(* it: while one of them exists it is a handle that et_create_context      *)
(* returned (et_client.h:110) and that has not been destroyed.             *)
HandleIsLive == local \/ ilink => handle = "live"

(* A device that has had an address does not live on without one: once the *)
(* Wi-Fi events are delivered it has restarted.  This is what makes a lost *)
(* et_user_main, or a kicked client, come back.                            *)
LossRestarts == events = <<>> /\ wifi_reconnect_start_flag => station = "gotIp"

(* The status lamp, when everything that happened has been delivered:      *)
(* dark without Wi-Fi, blinking with Wi-Fi and without a session, steadily *)
(* green with one.  A kicked client no longer follows.                     *)
LampTellsLink ==
  events = <<>> /\ notices = <<>> /\ ~kick_out =>
    CASE station # "gotIp" /\ ~wifi_reconnect_start_flag -> ~spark /\ lamp = "dark"
      [] station = "gotIp" /\ session = "in" -> ~spark /\ lamp = "green"
      [] OTHER -> spark

(* When access point and cloud stay reachable, no other client takes the   *)
(* session over and et_user_main has not given up for a failed call, the   *)
(* device gets online, stays so, and shows it.                             *)
Stranded == \/ user_main_start_flag /\ main \in {"none", "returned"}
            \/ main = "deleted" /\ ~ilink
Online == ilink /\ session = "in" /\ ~spark /\ lamp = "green"
ComesOnline ==
  <>[](ap /\ internet /\ session # "kicked" /\ ~Stranded) => <>[]Online
==============================================================================
