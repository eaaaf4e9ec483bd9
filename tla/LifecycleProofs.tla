-------------------------- MODULE LifecycleProofs ---------------------------
(***************************************************************************)
(* For every set of failing calls but the last xTaskCreate, and for every  *)
(* number of Wi-Fi events waiting: the SDK loops never hold a destroyed    *)
(* handle, and the status lamp tells the state of the link.  And for every *)
(* set of failing calls: a device that lost its address restarts, and no   *)
(* more than two SDK events ever wait.                                     *)
(***************************************************************************)
EXTENDS Lifecycle, TLAPS

(* Which steps of et_user_main have a live handle, and which tasks can     *)
(* exist at which step.                                                    *)
HasHandle == {"callback", "server", "spawnLocal", "login", "retry", "loggedIn"}
Started ==
  /\ user_main_start_flag \in BOOLEAN /\ local \in BOOLEAN /\ ilink \in BOOLEAN
  /\ ~user_main_start_flag => main = "none"
  /\ local => main \in {"login", "retry", "loggedIn", "deleted"}
  /\ ilink => main = "deleted"
  /\ main \in HasHandle => handle = "live"
  /\ HandleIsLive

USE DEF air, wifi, boot, task, sdk, cloud, led

LEMMA UserMainKeepsHandle ==
  ASSUME Started, "xTaskCreate_ilink" \notin Faults, et_user_main
  PROVE  Started'
<1> USE DEF Started, HandleIsLive, HasHandle, At, Goto, Fails, Untouched
<1>1. CASE ReadFlash BY <1>1 DEF ReadFlash
<1>2. CASE CreateContext BY <1>2 DEF CreateContext
<1>3. CASE SetCallback BY <1>3 DEF SetCallback
<1>4. CASE StartServer BY <1>4 DEF StartServer
<1>5. CASE SpawnLocal
  <2>1. ~local /\ ~ilink /\ handle = "live" /\ user_main_start_flag BY <1>5 DEF SpawnLocal
  <2>2. UNCHANGED <<user_main_start_flag, ilink>> BY <1>5 DEF SpawnLocal
  <2>3. \/ main' = "login" /\ local' = TRUE /\ handle' = "live"
        \/ main' = "deleted" /\ local' = FALSE /\ handle' = "destroyed"
    BY <1>5, <2>1 DEF SpawnLocal
  <2>4. user_main_start_flag' = TRUE /\ ilink' = FALSE BY <2>1, <2>2
  <2> QED BY <2>3, <2>4
<1>6. CASE Login BY <1>6 DEF Login
<1>7. CASE RetryLogin BY <1>7 DEF RetryLogin
<1>8. CASE SpawnIlink BY <1>8 DEF SpawnIlink
<1> QED BY <1>1, <1>2, <1>3, <1>4, <1>5, <1>6, <1>7, <1>8 DEF et_user_main

LEMMA RestKeepsHandle ==
  ASSUME Started, [Next]_vars, ~et_user_main
  PROVE  Started'
<1> USE DEF Started, HandleIsLive, HasHandle
<1>1. CASE et_wifi_event_cb
  <2>1. CASE system_restart BY <2>1 DEF system_restart, Reset
  <2>2. CASE ~system_restart BY <1>1, <2>2 DEF et_wifi_event_cb
  <2> QED BY <2>1, <2>2
<1>2. CASE check_ip BY <1>2 DEF check_ip, CreateUserMain
<1>3. CASE AirChanges \/ Join \/ Lose \/ wifi_led_spark
  BY <1>3 DEF AirChanges, Join, Lose, wifi_led_spark
<1>4. CASE NoticeLoss \/ Relogin \/ Kick
  BY <1>4 DEF NoticeLoss, Relogin, Kick, SessionChanges
<1>5. CASE et_event_process BY <1>5 DEF et_event_process
<1>6. CASE UNCHANGED vars BY <1>6 DEF vars
<1> QED BY <1>1, <1>2, <1>3, <1>4, <1>5, <1>6 DEF Next

(* While one of the SDK loop tasks exists, the handle it uses is live, if  *)
(* the creation of et_ilink_task cannot fail.                              *)
THEOREM LoopsHoldLiveHandle ==
  ASSUME "xTaskCreate_ilink" \notin Faults
  PROVE  Spec => []HandleIsLive
<1>1. Init => Started BY DEF Init, Reset, Started, HandleIsLive, HasHandle
<1>2. Started /\ [Next]_vars => Started' BY UserMainKeepsHandle, RestKeepsHandle
<1>3. Started => HandleIsLive BY DEF Started
<1> QED BY <1>1, <1>2, <1>3, PTL DEF Spec
-----------------------------------------------------------------------------
(* A device that has had an address has one, or the news of the loss is on *)
(* its way.                                                                *)
LossIsKnown ==
  /\ events \in Seq(Event)
  /\ wifi_reconnect_start_flag =>
       station = "gotIp" \/ \E i \in 1..Len(events) : events[i] = "DISCONNECTED"

LEMMA PostKeepsNews ==
  ASSUME events \in Seq(Event), NEW e \in Event, Post(e)
  PROVE  /\ events' \in Seq(Event)
         /\ \A i \in 1..Len(events) : i \in 1..Len(events') /\ events'[i] = events[i]
         /\ Len(events') \in 1..Len(events') /\ events'[Len(events')] = e
BY DEF Post

LEMMA DeliveryKeepsNews ==
  ASSUME LossIsKnown, et_wifi_event_cb
  PROVE  LossIsKnown'
<1> USE DEF LossIsKnown
<1>1. CASE system_restart
  BY <1>1 DEF system_restart, Reset
<1>2. CASE ~system_restart
  <2>1. events' = Tail(events) /\ events # <<>>
    BY <1>2 DEF et_wifi_event_cb
  <2>2. UNCHANGED <<station, wifi_reconnect_start_flag>>
    BY <1>2 DEF et_wifi_event_cb
  <2>3. wifi_reconnect_start_flag => Head(events) = "GOT_IP"
    BY <1>2 DEF et_wifi_event_cb
  <2>4. /\ events' \in Seq(Event) /\ Len(events') = Len(events) - 1
        /\ \A i \in 1..Len(events) : i > 1 => events'[i - 1] = events[i]
        /\ Head(events) = events[1]
    BY <2>1
  <2>5. ASSUME NEW i \in 1..Len(events), events[i] = "DISCONNECTED",
               wifi_reconnect_start_flag
        PROVE  \E j \in 1..Len(events') : events'[j] = "DISCONNECTED"
    <3>1. i > 1 BY <2>3, <2>4, <2>5
    <3>2. i - 1 \in 1..Len(events') /\ events'[i - 1] = "DISCONNECTED"
      BY <2>4, <2>5, <3>1
    <3> QED BY <3>2
  <2> QED BY <2>2, <2>4, <2>5
<1> QED BY <1>1, <1>2

LEMMA StepKeepsNews ==
  ASSUME LossIsKnown, [Next]_vars
  PROVE  LossIsKnown'
<1> USE DEF LossIsKnown
<1>1. CASE Join
  BY <1>1, PostKeepsNews DEF Join, Event
<1>2. CASE Lose
  <2>1. Post("DISCONNECTED") /\ "DISCONNECTED" \in Event BY <1>2 DEF Lose, Event
  <2> QED BY <2>1, PostKeepsNews
<1>3. CASE et_wifi_event_cb BY <1>3, DeliveryKeepsNews
<1>4. CASE check_ip BY <1>4 DEF check_ip
<1>5. CASE UNCHANGED <<station, events, wifi_reconnect_start_flag>> BY <1>5
<1>6. CASE AirChanges \/ wifi_led_spark \/ et_event_process
  BY <1>5, <1>6 DEF AirChanges, wifi_led_spark, et_event_process
<1>7. CASE NoticeLoss \/ Relogin \/ Kick
  BY <1>5, <1>7 DEF NoticeLoss, Relogin, Kick, SessionChanges
<1>8. CASE et_user_main
  BY <1>5, <1>8 DEF et_user_main, ReadFlash, CreateContext, SetCallback, StartServer,
     SpawnLocal, Login, RetryLogin, SpawnIlink, Untouched
<1>9. CASE UNCHANGED vars BY <1>5, <1>9 DEF vars
<1> QED BY <1>1, <1>2, <1>3, <1>4, <1>6, <1>7, <1>8, <1>9 DEF Next

(* Whatever fails: once the Wi-Fi events are delivered, a device that has  *)
(* had an address still has it, because a loss made it restart.            *)
THEOREM LossAlwaysRestarts == Spec => []LossRestarts
<1>1. Init => LossIsKnown BY DEF Init, Reset, LossIsKnown
<1>2. LossIsKnown /\ [Next]_vars => LossIsKnown' BY StepKeepsNews
<1>3. LossIsKnown => LossRestarts BY DEF LossIsKnown, LossRestarts
<1> QED BY <1>1, <1>2, <1>3, PTL DEF Spec
-----------------------------------------------------------------------------
(* What is on its way to the lamp, and what the lamp shows meanwhile.  The *)
(* last Wi-Fi event is the station's state; once et_user_main is past its  *)
(* first step the next one can only be a loss, which restarts the device,  *)
(* so no event comes between the session and the lamp.                     *)
WifiNews ==
  /\ events # <<>> => (events[Len(events)] = "GOT_IP" <=> station = "gotIp")
  /\ main \notin {"none", "flash"} /\ events # <<>> => Head(events) = "DISCONNECTED"
  /\ main # "none" => wifi_reconnect_start_flag

SessionNews ==
  \/ session = "out" /\ notices = <<>>
  \/ session = "in" /\ notices \in {<<>>, <<"CONNECT">>}
  \/ session = "lost" /\ notices \in {<<>>, <<"DISCONNECT">>}
  \/ session = "kicked" /\ notices \in {<<>>, <<"KICK">>, <<"DISCONNECT", "KICK">>}

LampNews ==
  /\ events = <<>> /\ station # "gotIp" => ~spark /\ lamp = "dark"
  /\ events = <<>> /\ station = "gotIp" /\ session = "out" => spark
  /\ session = "in" /\ notices = <<>> => ~spark /\ lamp = "green"
  /\ session = "lost" /\ notices = <<>> => spark
  /\ session = "kicked" /\ notices = <<>> => kick_out

Places ==
  /\ session # "out" => main \in {"loggedIn", "deleted"}
  /\ ilink => main = "deleted"
  /\ kick_out => session = "kicked"

News == LossIsKnown /\ WifiNews /\ SessionNews /\ LampNews /\ Places

(* An application task runs only when no Wi-Fi event waits.                *)
LEMMA RunsWithAddress ==
  ASSUME News, events = <<>>, main # "none"
  PROVE  station = "gotIp" /\ wifi_reconnect_start_flag
<1>1. Len(events) = 0 OBVIOUS
<1> QED BY <1>1 DEF News, LossIsKnown, WifiNews

LEMMA PostKeepsLamp ==
  ASSUME News, Join \/ Lose
  PROVE  WifiNews' /\ SessionNews' /\ LampNews' /\ Places'
<1>1. PICK e \in Event :
        /\ Post(e) /\ (e = "GOT_IP" <=> station' = "gotIp")
        /\ e = "GOT_IP" => station # "gotIp"
        /\ UNCHANGED <<air, boot, task, sdk, cloud, led>>
  BY DEF Join, Lose, Event
<1>2. events \in Seq(Event) BY DEF News, LossIsKnown
<1>3. events' = Append(events, e) BY <1>1 DEF Post
<1>4. /\ events' # <<>> /\ events'[Len(events')] = e
      /\ events # <<>> => Head(events') = Head(events)
      /\ events = <<>> => Head(events') = e
  BY <1>2, <1>3
<1>5. ASSUME main \notin {"none", "flash"} PROVE Head(events') = "DISCONNECTED"
  <2>1. CASE events # <<>> BY <1>4, <1>5, <2>1 DEF News, WifiNews
  <2>2. CASE events = <<>>
    <3>1. station = "gotIp" BY <1>5, <2>2, RunsWithAddress
    <3> QED BY <1>1, <1>4, <2>2, <3>1 DEF Event
  <2> QED BY <2>1, <2>2
<1>6. WifiNews' BY <1>1, <1>4, <1>5 DEF News, WifiNews
<1>7. SessionNews' /\ Places' BY <1>1 DEF News, SessionNews, Places
<1>8. LampNews' BY <1>1, <1>4 DEF News, LampNews
<1> QED BY <1>6, <1>7, <1>8

LEMMA RestartKeepsLamp ==
  ASSUME system_restart
  PROVE  WifiNews' /\ SessionNews' /\ LampNews' /\ Places'
BY DEF system_restart, Reset, WifiNews, SessionNews, LampNews, Places

LEMMA DeliveryKeepsLamp ==
  ASSUME News, et_wifi_event_cb, ~system_restart
  PROVE  WifiNews' /\ SessionNews' /\ LampNews' /\ Places'
<1>1. /\ events # <<>> /\ events' = Tail(events)
      /\ UNCHANGED <<station, air, boot, task, sdk, cloud>>
      /\ \/ Head(events) = "GOT_IP" /\ spark' = TRUE
         \/ /\ Head(events) = "DISCONNECTED" /\ ~wifi_reconnect_start_flag
            /\ spark' = FALSE /\ lamp' = "dark"
  BY DEF et_wifi_event_cb, set_wifi_spark_timer, DisarmAndShow
<1>2. events \in Seq(Event) /\ Len(events) \in Nat /\ Len(events) > 0
      /\ Head(events) = events[1]
  BY <1>1 DEF News, LossIsKnown
<1>3. /\ events' # <<>> => events'[Len(events')] = events[Len(events)]
      /\ events' = <<>> => Head(events) = events[Len(events)]
  <2>1. /\ events' \in Seq(Event) /\ Len(events') = Len(events) - 1
        /\ \A i \in 1..Len(events) : i > 1 => events'[i - 1] = events[i]
    BY <1>1, <1>2
  <2>2. CASE Len(events) = 1 BY <1>2, <2>1, <2>2
  <2>3. CASE Len(events) > 1
    <3>1. events'[Len(events) - 1] = events[Len(events)] BY <1>2, <2>1, <2>3
    <3>2. Len(events') # 0 /\ Len(<<>>) = 0 BY <1>2, <2>1, <2>3
    <3>3. events' # <<>> BY <3>2
    <3>4. Len(events') = Len(events) - 1 BY <2>1
    <3> QED BY <3>1, <3>3, <3>4
  <2>4. Len(events) = 1 \/ Len(events) > 1
    <3> DEFINE n == Len(events)
    <3>1. n \in Nat /\ n > 0 BY <1>2
    <3> HIDE DEF n
    <3>2. n = 1 \/ n > 1 BY <3>1
    <3> QED BY <3>2 DEF n
  <2> QED BY <2>2, <2>3, <2>4
(* Nobody has a session before the events are delivered.                   *)
<1>4. main \in {"none", "flash"}
  BY <1>1 DEF News, WifiNews
<1>5. session = "out" /\ notices = <<>> BY <1>4 DEF News, SessionNews, Places
<1>6. WifiNews' BY <1>1, <1>3, <1>4 DEF News, WifiNews
<1>7. SessionNews' /\ Places' BY <1>1 DEF News, SessionNews, Places
<1>8. LampNews'
  <2>1. events' = <<>> => (Head(events) = "GOT_IP" <=> station = "gotIp")
    BY <1>1, <1>3 DEF News, WifiNews
  <2> QED BY <1>1, <1>5, <2>1 DEF LampNews
<1> QED BY <1>6, <1>7, <1>8

LEMMA UserMainKeepsLamp ==
  ASSUME News, "xTaskCreate_ilink" \notin Faults, et_user_main
  PROVE  WifiNews' /\ SessionNews' /\ LampNews' /\ Places'
<1>1. events = <<>> /\ main \notin {"none", "deleted"} /\ UNCHANGED <<air, wifi, boot, kick_out>>
  BY DEF et_user_main, ReadFlash, CreateContext, SetCallback, StartServer, SpawnLocal,
         Login, RetryLogin, SpawnIlink, Untouched, At
<1>2. station = "gotIp" /\ wifi_reconnect_start_flag BY <1>1, RunsWithAddress
<1>3. main' # "none" /\ WifiNews'
  BY <1>1, <1>2 DEF News, WifiNews, et_user_main, ReadFlash, CreateContext, SetCallback,
     StartServer, SpawnLocal, Login, RetryLogin, SpawnIlink, At, Goto
<1>4. CASE Login
  <2>1. session = "out" /\ notices = <<>> /\ ~ilink /\ main = "login"
    BY <1>4 DEF News, Places, SessionNews, Login, At
  <2>2. UNCHANGED <<ilink, kick_out>> /\ ~kick_out BY <1>4, <2>1 DEF Login, Goto, News, Places
  <2>3. CASE Reachable
    <3>1. /\ session' = "in" /\ main' = "loggedIn"
          /\ \/ notices' = <<"CONNECT">>
             \/ notices' = <<>> /\ spark' = FALSE /\ lamp' = "green"
      BY <1>4, <2>1, <2>3 DEF Login, Goto, DisarmAndShow
    <3> QED BY <1>1, <1>2, <1>3, <2>1, <2>2, <3>1 DEF SessionNews, LampNews, Places
  <2>4. CASE ~Reachable
    <3>1. main' = "retry" /\ UNCHANGED <<session, notices, led>>
      BY <1>4, <2>4 DEF Login, Goto
    <3> QED BY <1>1, <1>3, <2>1, <2>2, <3>1 DEF News, SessionNews, LampNews, Places
  <2> QED BY <2>3, <2>4
<1>5. CASE ~Login
  <2>1. UNCHANGED <<session, cloud, led>>
    BY <1>5 DEF et_user_main, ReadFlash, CreateContext, SetCallback, StartServer,
       SpawnLocal, RetryLogin, SpawnIlink, Untouched, Fails
  <2>2. /\ ilink' => main' = "deleted"
        /\ session = "out" \/ main' = "deleted"
    BY <1>1, <1>5 DEF News, Places, et_user_main, ReadFlash, CreateContext, SetCallback,
       StartServer, SpawnLocal, RetryLogin, SpawnIlink, At, Goto
  <2> QED BY <1>1, <1>3, <2>1, <2>2 DEF News, SessionNews, LampNews, Places
<1> QED BY <1>4, <1>5

LEMMA CloudKeepsLamp ==
  ASSUME News, NoticeLoss \/ Relogin \/ Kick \/ et_event_process
  PROVE  WifiNews' /\ SessionNews' /\ LampNews' /\ Places'
<1>1. events = <<>> /\ ilink /\ ~kick_out /\ UNCHANGED <<air, wifi, boot, task>>
  BY DEF NoticeLoss, Relogin, Kick, et_event_process, SessionChanges, LoopRuns
<1>2. station = "gotIp" /\ main = "deleted" BY <1>1, RunsWithAddress DEF News, Places
<1>3. WifiNews' BY <1>1 DEF News, WifiNews
<1>4. CASE NoticeLoss \/ Relogin \/ Kick
  <2>1. /\ UNCHANGED <<kick_out, led>>
        /\ \/ session' = "lost" /\ notices' = <<"DISCONNECT">>
           \/ session' = "in" /\ notices' = <<"CONNECT">>
           \/ session' = "kicked" /\ notices' \in {<<"KICK">>, <<"DISCONNECT", "KICK">>}
    BY <1>4 DEF NoticeLoss, Relogin, Kick, SessionChanges
  <2> QED BY <1>1, <1>2, <1>3, <2>1 DEF SessionNews, LampNews, Places
<1>5. CASE et_event_process
  <2>1. /\ notices # <<>> /\ notices' = Tail(notices) /\ session' = session
        /\ \/ Head(notices) = "CONNECT" /\ spark' = FALSE /\ lamp' = "green" /\ kick_out' = kick_out
           \/ Head(notices) = "DISCONNECT" /\ spark' = TRUE /\ kick_out' = kick_out
           \/ Head(notices) = "KICK" /\ kick_out' = TRUE
    BY <1>5 DEF et_event_process, DisarmAndShow, set_wifi_spark_timer
  <2>2. CASE session = "in"
    <3>1. notices = <<"CONNECT">> BY <2>1, <2>2 DEF News, SessionNews
    <3>2. Head(notices) = "CONNECT" /\ notices' = <<>> BY <2>1, <3>1
    <3> QED BY <1>1, <1>2, <1>3, <2>1, <2>2, <3>2 DEF News, SessionNews, LampNews, Places
  <2>3. CASE session = "lost"
    <3>1. notices = <<"DISCONNECT">> BY <2>1, <2>3 DEF News, SessionNews
    <3>2. Head(notices) = "DISCONNECT" /\ notices' = <<>> BY <2>1, <3>1
    <3> QED BY <1>1, <1>2, <1>3, <2>1, <2>3, <3>2 DEF News, SessionNews, LampNews, Places
  <2>4. CASE session = "kicked"
    <3>1. notices = <<"KICK">> \/ notices = <<"DISCONNECT", "KICK">>
      BY <2>1, <2>4 DEF News, SessionNews
    <3>2. ASSUME notices = <<"KICK">> PROVE Head(notices) = "KICK" /\ notices' = <<>>
      BY <2>1, <3>2
    <3>3. ASSUME notices = <<"DISCONNECT", "KICK">>
          PROVE  Head(notices) = "DISCONNECT" /\ notices' = <<"KICK">>
      BY <2>1, <3>3
    <3> QED BY <1>1, <1>2, <1>3, <2>1, <2>4, <3>1, <3>2, <3>3 DEF News, SessionNews, LampNews, Places
  <2> QED BY <2>1, <2>2, <2>3, <2>4 DEF News, SessionNews
<1> QED BY <1>4, <1>5

(* The lamp that blinks or is dark stays so, and check_ip starts nothing   *)
(* that has a session.                                                     *)
LEMMA TimersKeepLamp ==
  ASSUME News, Started, check_ip \/ wifi_led_spark \/ AirChanges \/ UNCHANGED vars
  PROVE  WifiNews' /\ SessionNews' /\ LampNews' /\ Places'
<1>1. CASE check_ip
  <2>1. UNCHANGED <<wifi, ilink, sdk, cloud, led>> BY <1>1 DEF check_ip
  <2>2. CASE station = "gotIp"
    <3>1. wifi_reconnect_start_flag' = TRUE /\ (main' = main \/ (main = "none" /\ main' = "flash"))
      BY <1>1, <2>2 DEF check_ip, CreateUserMain, Started
    <3> QED BY <2>1, <3>1 DEF News, WifiNews, SessionNews, LampNews, Places
  <2>3. CASE station # "gotIp"
    <3>1. UNCHANGED <<main, wifi_reconnect_start_flag>> BY <1>1, <2>3 DEF check_ip
    <3> QED BY <2>1, <3>1 DEF News, WifiNews, SessionNews, LampNews, Places
  <2> QED BY <2>2, <2>3
<1>2. CASE wifi_led_spark
  BY <1>2 DEF wifi_led_spark, News, WifiNews, SessionNews, LampNews, Places
<1>3. CASE AirChanges \/ UNCHANGED vars
  BY <1>3 DEF AirChanges, vars, News, WifiNews, SessionNews, LampNews, Places
<1> QED BY <1>1, <1>2, <1>3

(* Unless et_ilink_task cannot be created: when the events of the Wi-Fi    *)
(* stack and of the SDK are delivered, the status lamp is dark, blinks or  *)
(* is green as the link is, whatever the order of losses, logins, relogins *)
(* and restarts before.                                                    *)
THEOREM LampAlwaysTellsLink ==
  ASSUME "xTaskCreate_ilink" \notin Faults
  PROVE  Spec => []LampTellsLink
<1>1. Init => Started /\ News
  <2>1. Init => Started BY DEF Init, Reset, Started, HandleIsLive, HasHandle
  <2>2. Init => News
    BY DEF Init, Reset, News, LossIsKnown, WifiNews, SessionNews, LampNews, Places
  <2> QED BY <2>1, <2>2
<1>2. Started /\ News /\ [Next]_vars => Started' /\ News'
  <2> SUFFICES ASSUME Started, News, [Next]_vars PROVE Started' /\ News' OBVIOUS
  <2>1. Started' BY UserMainKeepsHandle, RestKeepsHandle
  <2>2. LossIsKnown' BY StepKeepsNews DEF News
  <2>3. WifiNews' /\ SessionNews' /\ LampNews' /\ Places'
    <3>1. CASE Join \/ Lose BY <3>1, PostKeepsLamp
    <3>2. CASE et_wifi_event_cb BY <3>2, RestartKeepsLamp, DeliveryKeepsLamp
    <3>3. CASE et_user_main BY <3>3, UserMainKeepsLamp
    <3>4. CASE NoticeLoss \/ Relogin \/ Kick \/ et_event_process BY <3>4, CloudKeepsLamp
    <3>5. CASE check_ip \/ wifi_led_spark \/ AirChanges \/ UNCHANGED vars
      BY <3>5, TimersKeepLamp
    <3> QED BY <3>1, <3>2, <3>3, <3>4, <3>5 DEF Next
  <2> QED BY <2>1, <2>2, <2>3 DEF News
<1>3. News => LampTellsLink
  <2> SUFFICES ASSUME News, events = <<>>, notices = <<>>, ~kick_out
               PROVE  CASE station # "gotIp" /\ ~wifi_reconnect_start_flag ->
                             ~spark /\ lamp = "dark"
                        [] station = "gotIp" /\ session = "in" -> ~spark /\ lamp = "green"
                        [] OTHER -> spark
    BY DEF LampTellsLink
  <2>1. wifi_reconnect_start_flag => station = "gotIp"
    <3>1. Len(events) = 0 OBVIOUS
    <3> QED BY <3>1 DEF News, LossIsKnown
  <2>2. session \in {"out", "in", "lost"} BY DEF News, SessionNews, LampNews
  <2>3. CASE station # "gotIp"
    <3>1. ~spark /\ lamp = "dark" /\ ~wifi_reconnect_start_flag
      BY <2>1, <2>3 DEF News, LampNews
    <3> QED BY <2>3, <3>1
  <2>4. CASE station = "gotIp" /\ session = "in"
    <3>1. ~spark /\ lamp = "green" BY <2>4 DEF News, LampNews
    <3> QED BY <2>4, <3>1
  <2>5. CASE station = "gotIp" /\ session # "in"
    <3>1. spark BY <2>2, <2>5 DEF News, LampNews
    <3> QED BY <2>5, <3>1
  <2> QED BY <2>3, <2>4, <2>5
<1> QED BY <1>1, <1>2, <1>3, PTL DEF Spec
-----------------------------------------------------------------------------
(* Types.  That never more than two notices wait needs the place of the    *)
(* first login: nobody has announced anything before it, and it is made    *)
(* once, since et_user_main is created once.                               *)
ValuesTyped ==
  /\ ap \in BOOLEAN /\ internet \in BOOLEAN
  /\ station \in {"searching", "gotIp", "wrongPassword", "noApFound", "connectFail"}
  /\ test_timer \in BOOLEAN /\ user_main_start_flag \in BOOLEAN
  /\ wifi_reconnect_start_flag \in BOOLEAN
  /\ main \in Step /\ local \in BOOLEAN /\ ilink \in BOOLEAN
  /\ handle \in {"NULL", "live", "destroyed"} /\ server \in BOOLEAN
  /\ session \in {"out", "in", "lost", "kicked"}
  /\ kick_out \in BOOLEAN /\ spark \in BOOLEAN
  /\ out_value \in {"green", "dark"} /\ lamp \in {"green", "dark"}

EventsTyped == events \in Seq(Event) /\ Len(events) <= MaxEvents
NoticesTyped == notices \in Seq(Notice) /\ Len(notices) <= 2

Quiet ==
  /\ ~user_main_start_flag => main = "none"
  /\ ilink => main = "deleted"
  /\ main \notin {"loggedIn", "deleted"} => notices = <<>>

Typed == ValuesTyped /\ EventsTyped /\ NoticesTyped /\ Quiet

LEMMA ResetIsTyped ==
  ASSUME ap \in BOOLEAN, internet \in BOOLEAN, Init
  PROVE  Typed
<1>1. ValuesTyped BY DEF Init, Reset, ValuesTyped, Step
<1>2. EventsTyped BY MaxEventsAssumption DEF Init, Reset, EventsTyped
<1>3. NoticesTyped BY DEF Init, Reset, NoticesTyped
<1>4. Quiet BY DEF Init, Reset, Quiet
<1> QED BY <1>1, <1>2, <1>3, <1>4 DEF Typed

LEMMA RestartKeepsTypes ==
  ASSUME Typed, system_restart
  PROVE  Typed'
<1>1. ap' \in BOOLEAN /\ internet' \in BOOLEAN
  BY DEF Typed, ValuesTyped, system_restart
<1>2. ValuesTyped' BY <1>1 DEF system_restart, Reset, ValuesTyped, Step
<1>3. EventsTyped' BY MaxEventsAssumption DEF system_restart, Reset, EventsTyped
<1>4. NoticesTyped' BY DEF system_restart, Reset, NoticesTyped
<1>5. Quiet' BY DEF system_restart, Reset, Quiet
<1> QED BY <1>2, <1>3, <1>4, <1>5 DEF Typed

LEMMA WifiKeepsTypes ==
  ASSUME Typed, Join \/ Lose \/ et_wifi_event_cb
  PROVE  Typed'
<1>1. CASE Join \/ Lose
  <2>1. PICK e \in Event : Post(e) BY <1>1 DEF Join, Lose, Event
  <2>2. EventsTyped' BY <2>1, MaxEventsAssumption DEF Typed, EventsTyped, Post
  <2>3. station' \in {"searching", "gotIp", "wrongPassword", "noApFound", "connectFail"}
        /\ UNCHANGED <<air, boot, task, sdk, cloud, led>>
    BY <1>1 DEF Join, Lose
  <2>4. ValuesTyped' BY <2>3 DEF Typed, ValuesTyped
  <2>5. NoticesTyped' /\ Quiet' BY <2>3 DEF Typed, NoticesTyped, Quiet
  <2> QED BY <2>2, <2>4, <2>5 DEF Typed
<1>2. CASE system_restart BY <1>2, RestartKeepsTypes
<1>3. CASE et_wifi_event_cb /\ ~system_restart
  <2>1. /\ events # <<>> /\ events' = Tail(events)
        /\ UNCHANGED <<station, air, boot, task, sdk, cloud, out_value>>
        /\ spark' \in BOOLEAN /\ lamp' \in {lamp, "dark"}
    BY <1>3 DEF et_wifi_event_cb, set_wifi_spark_timer, DisarmAndShow
  <2>2. EventsTyped' BY <2>1, MaxEventsAssumption DEF Typed, EventsTyped
  <2>3. ValuesTyped' BY <2>1 DEF Typed, ValuesTyped
  <2>4. NoticesTyped' /\ Quiet' BY <2>1 DEF Typed, NoticesTyped, Quiet
  <2> QED BY <2>2, <2>3, <2>4 DEF Typed
<1> QED BY <1>1, <1>2, <1>3

LEMMA UserMainKeepsTypes ==
  ASSUME Typed, et_user_main
  PROVE  Typed'
<1>1. EventsTyped' /\ main # "none" /\ ~ilink /\ user_main_start_flag
  <2>1. UNCHANGED <<air, wifi, boot>> /\ main \notin {"none", "deleted"}
    BY DEF et_user_main, ReadFlash, CreateContext, SetCallback, StartServer, SpawnLocal,
           Login, RetryLogin, SpawnIlink, Untouched, At
  <2> QED BY <2>1 DEF Typed, EventsTyped, ValuesTyped, Quiet
<1>2. CASE Login
  <2>1. main = "login" /\ notices = <<>> BY <1>2 DEF Login, At, Typed, Quiet
  <2>2. /\ UNCHANGED <<air, wifi, boot, handle, server, kick_out, local, ilink, out_value>>
        /\ main' \in {"loggedIn", "retry"} /\ session' \in {"in", session}
        /\ lamp' \in {lamp, "green"}
    BY <1>2 DEF Login, Goto, DisarmAndShow
  <2>7. spark' \in BOOLEAN BY <1>2 DEF Login, DisarmAndShow, Typed, ValuesTyped
  <2>3. notices' = notices \/ (notices' = Append(notices, "CONNECT") /\ main' = "loggedIn")
    BY <1>2 DEF Login, Goto, DisarmAndShow
  <2>4. ValuesTyped' BY <2>2, <2>7 DEF Typed, ValuesTyped, Step
  <2>5. NoticesTyped'
    <3>1. "CONNECT" \in Notice BY DEF Notice
    <3>2. notices \in Seq(Notice) /\ Len(notices) = 0 BY <2>1 DEF Typed, NoticesTyped
    <3>3. Append(notices, "CONNECT") \in Seq(Notice) /\ Len(Append(notices, "CONNECT")) = 1
      BY <3>1, <3>2
    <3>4. notices' \in Seq(Notice) /\ (Len(notices') = 0 \/ Len(notices') = 1)
      BY <2>3, <3>2, <3>3
    <3> QED BY <3>4 DEF NoticesTyped
  <2>6. Quiet' BY <1>1, <2>1, <2>2, <2>3 DEF Quiet
  <2> QED BY <1>1, <2>4, <2>5, <2>6 DEF Typed
<1>3. CASE SpawnIlink
  <2>1. /\ UNCHANGED <<air, wifi, boot, cloud, led, server, local>>
        /\ main' = "deleted"
        /\ handle' \in {handle, "destroyed"} /\ session' \in {session, "out"}
    BY <1>3 DEF SpawnIlink, Untouched, Goto
  <2>5. ilink' \in BOOLEAN BY <1>3 DEF SpawnIlink, Goto, Typed, ValuesTyped
  <2>2. ValuesTyped' BY <2>1, <2>5 DEF Typed, ValuesTyped, Step
  <2>3. NoticesTyped' BY <2>1 DEF Typed, NoticesTyped
  <2>4. Quiet' BY <1>1, <2>1 DEF Quiet
  <2> QED BY <1>1, <2>2, <2>3, <2>4 DEF Typed
<1>4. CASE ~Login /\ ~SpawnIlink
  <2>1. /\ Untouched /\ main \notin {"loggedIn", "deleted"} /\ ilink' = ilink
        /\ main' \in Step /\ session' = session
        /\ handle' \in {handle, "live", "NULL", "destroyed"}
    BY <1>4 DEF et_user_main, ReadFlash, CreateContext, SetCallback, StartServer, SpawnLocal,
           RetryLogin, Untouched, At, Goto, Step
  <2>5. local' \in BOOLEAN /\ server' \in BOOLEAN
    BY <1>4 DEF et_user_main, ReadFlash, CreateContext, SetCallback, StartServer, SpawnLocal,
           RetryLogin, Goto, Typed, ValuesTyped
  <2>2. ValuesTyped' BY <2>1, <2>5 DEF Typed, ValuesTyped, Untouched
  <2>3. NoticesTyped' BY <2>1 DEF Typed, NoticesTyped, Untouched
  <2>4. Quiet' BY <1>1, <2>1 DEF Typed, Quiet, Untouched
  <2> QED BY <1>1, <2>2, <2>3, <2>4 DEF Typed
<1> QED BY <1>2, <1>3, <1>4

LEMMA TimersKeepTypes ==
  ASSUME Typed, AirChanges \/ wifi_led_spark \/ check_ip
  PROVE  Typed'
<1>1. CASE AirChanges \/ wifi_led_spark
  <2>1. /\ ap' \in BOOLEAN /\ internet' \in BOOLEAN
        /\ lamp' \in {"green", "dark"} /\ out_value' \in {"green", "dark"}
        /\ UNCHANGED <<wifi, boot, task, sdk, cloud, spark>>
    BY <1>1 DEF AirChanges, wifi_led_spark, Typed, ValuesTyped
  <2>2. ValuesTyped' BY <2>1 DEF Typed, ValuesTyped
  <2>3. EventsTyped' BY <2>1 DEF Typed, EventsTyped
  <2>4. NoticesTyped' /\ Quiet' BY <2>1 DEF Typed, NoticesTyped, Quiet
  <2> QED BY <2>2, <2>3, <2>4 DEF Typed
<1>2. CASE check_ip
  <2>1. UNCHANGED <<air, wifi, local, ilink, sdk, cloud, led>> BY <1>2 DEF check_ip
  <2>7. test_timer' \in BOOLEAN /\ wifi_reconnect_start_flag' \in BOOLEAN
    BY <1>2 DEF check_ip, Typed, ValuesTyped
  <2>2. \/ UNCHANGED <<user_main_start_flag, main>>
        \/ ~user_main_start_flag /\ user_main_start_flag' = TRUE /\ main' \in {"flash", main}
    BY <1>2 DEF check_ip, CreateUserMain
  <2>8. user_main_start_flag' \in BOOLEAN BY <1>2 DEF check_ip, CreateUserMain, Typed, ValuesTyped
  <2>9. main' \in Step BY <2>2 DEF Typed, ValuesTyped, Step
  <2>3. ValuesTyped' BY <2>1, <2>7, <2>8, <2>9 DEF Typed, ValuesTyped
  <2>4. EventsTyped' BY <2>1 DEF Typed, EventsTyped
  <2>5. NoticesTyped' BY <2>1 DEF Typed, NoticesTyped
  <2>6. Quiet' BY <2>1, <2>2 DEF Typed, Quiet
  <2> QED BY <2>3, <2>4, <2>5, <2>6 DEF Typed
<1> QED BY <1>1, <1>2

LEMMA CloudKeepsTypes ==
  ASSUME Typed, NoticeLoss \/ Relogin \/ Kick \/ et_event_process
  PROVE  Typed'
<1>1. CASE NoticeLoss \/ Relogin \/ Kick
  <2>1. /\ ilink /\ session' \in {"lost", "in", "kicked"}
        /\ notices' \in {<<"DISCONNECT">>, <<"CONNECT">>, <<"KICK">>, <<"DISCONNECT", "KICK">>}
        /\ UNCHANGED <<air, wifi, boot, task, handle, server, kick_out, led>>
    BY <1>1 DEF NoticeLoss, Relogin, Kick, SessionChanges, LoopRuns
  <2>2. NoticesTyped'
    <3>1. <<"DISCONNECT">> \in Seq(Notice) /\ Len(<<"DISCONNECT">>) = 1 BY DEF Notice
    <3>2. <<"CONNECT">> \in Seq(Notice) /\ Len(<<"CONNECT">>) = 1 BY DEF Notice
    <3>3. <<"KICK">> \in Seq(Notice) /\ Len(<<"KICK">>) = 1 BY DEF Notice
    <3>4. <<"DISCONNECT", "KICK">> \in Seq(Notice) /\ Len(<<"DISCONNECT", "KICK">>) = 2
      BY DEF Notice
    <3>5. CASE notices' \in {<<"DISCONNECT">>, <<"CONNECT">>, <<"KICK">>}
      BY <3>5, <3>1, <3>2, <3>3 DEF NoticesTyped
    <3>6. CASE notices' = <<"DISCONNECT", "KICK">> BY <3>6, <3>4 DEF NoticesTyped
    <3> QED BY <2>1, <3>5, <3>6
  <2>3. ValuesTyped' BY <2>1 DEF Typed, ValuesTyped
  <2>4. EventsTyped' BY <2>1 DEF Typed, EventsTyped
  <2>5. Quiet' BY <2>1 DEF Typed, Quiet
  <2> QED BY <2>2, <2>3, <2>4, <2>5 DEF Typed
<1>2. CASE et_event_process
  <2>1. /\ ilink /\ notices # <<>> /\ notices' = Tail(notices)
        /\ lamp' \in {lamp, "green"}
        /\ UNCHANGED <<air, wifi, boot, task, sdk, out_value>>
    BY <1>2 DEF et_event_process, LoopRuns, DisarmAndShow, set_wifi_spark_timer
  <2>6. spark' \in BOOLEAN /\ kick_out' \in BOOLEAN
    BY <1>2 DEF et_event_process, DisarmAndShow, set_wifi_spark_timer, Typed, ValuesTyped
  <2>2. NoticesTyped' BY <2>1 DEF Typed, NoticesTyped
  <2>3. ValuesTyped' BY <2>1, <2>6 DEF Typed, ValuesTyped
  <2>4. EventsTyped' BY <2>1 DEF Typed, EventsTyped
  <2>5. Quiet' BY <2>1 DEF Typed, Quiet
  <2> QED BY <2>2, <2>3, <2>4, <2>5 DEF Typed
<1> QED BY <1>1, <1>2

(* Whatever fails, every variable keeps its type: never more than two SDK  *)
(* events wait for et_event_process.                                       *)
THEOREM TypesHold == Spec => []TypeOK
<1>1. Init => Typed BY ResetIsTyped DEF Init
<1>2. Typed /\ [Next]_vars => Typed'
  <2> SUFFICES ASSUME Typed, [Next]_vars PROVE Typed' OBVIOUS
  <2>1. CASE UNCHANGED vars
    <3>1. ValuesTyped' BY <2>1 DEF Typed, ValuesTyped, vars
    <3>2. EventsTyped' BY <2>1 DEF Typed, EventsTyped, vars
    <3>3. NoticesTyped' /\ Quiet' BY <2>1 DEF Typed, NoticesTyped, Quiet, vars
    <3> QED BY <3>1, <3>2, <3>3 DEF Typed
  <2> QED BY <2>1, WifiKeepsTypes, UserMainKeepsTypes, TimersKeepTypes, CloudKeepsTypes DEF Next
<1>3. Typed => TypeOK BY DEF Typed, ValuesTyped, EventsTyped, NoticesTyped, TypeOK
<1> QED BY <1>1, <1>2, <1>3, PTL DEF Spec
=============================================================================
