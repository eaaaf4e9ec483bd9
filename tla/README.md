# A TLA+ model of the kfk smart lamp

The repository is a Wi-Fi lamp and the page that controls it. The firmware
(`smart_e_taste_v1.4/et_app`, ESP8266, FreeRTOS, the iLink SDK as a binary
library) joins an access point, logs in to a cloud, and carries out command
frames: a colour for an RGB lamp, or a switch. The page (`index.html`,
`js/cmdControl.js`) logs in to the same cloud with a JavaScript SDK and sends
those frames. Firmware paths below are relative to `src/smart_e_taste_v1.4/et_app`.

The modules here model the control of that code: who may interrupt whom, what
may fail, and what has to hold all the same. `PROJECT.json` maps every
definition to its source lines.

Contents: 1 the system; 2 the modules; 3 the runs; 4 fairness; 5 the proofs;
6 where code and documentation disagree; 7 what is not modelled; 8 plan.

## 1. The system

### Components, their state and operations

| component | source | state | operations | module |
|---|---|---|---|---|
| Command path | `user/et_user_app.c` 58-194, 280-330 | `g_user_id`, the malloc'd reply block, GPIO5 | `et_message_process`, `parse_msg_from_mqtt`, `ack_to_mqtt`, `et_chat_to` (SDK) | `CommandPath` |
| Lamp driver | `driver/RGB_light.c` | `light_param.pwm_duty`, `update_flag`, the duties in libpwm and on the pins | `RGB_light_set_color`, `RGB_light_set_duty`, `RGB_light_start`, `RGB_light_init` | `RgbLight` |
| Boot and connectivity | `user/user_main.c`, `user/et_user_app.c` 198-277, 332-480 | `user_main_start_flag`, `wifi_reconnect_start_flag`, `g_cloud_handle`, `kick_out`, the tasks that exist | `user_init`, `check_ip`, `et_wifi_event_cb`, `et_user_main`, `et_ilink_task`, `et_local_task`, `et_event_process` | `Lifecycle` |
| Status lamp | `user/wifi_led.c` | the spark timer, `out_value` | `set_wifi_spark_timer`, `wifi_led_spark`, on, off | `Lifecycle` |
| UART byte ring | `driver/kfifo.c`, `include/et_fifo.h` | `in`, `out`, `size`, `buffer` | `kfifo_init`, `kfifo_put`, `kfifo_get` | `Kfifo` |
| UART0 receiver | `driver/uart.c` 32-49, 96-127, 306-420 | the ring, `xQueueUart`, interrupt bits | `uart_init_new`, `uart0_rx_intr_handler`, `recv_data_uart` | `UartRx` |
| Page connection | `js/cmdControl.js`, over `js/ilink-js-sdk.min.js` | `reConnectCount`, the kick flag in localStorage, timers | `etConnect`, `onClientEvent` | `WebClient` |
| Socket layer | `user/base.c` 22-213, over `third_party/lwip/api` | none of its own; it reads the global `errno`; lwIP's `sendevent` | `et_socket_connect`, `_accept`, `_send`, `_recv`, `_close` | `EtSocket` |
| Airkiss key task | `user/user_main.c` 180-217 | `air_kiss_start_flag`, `to_stop_app` | never started | - |
| Page controls | `index.html` 214-282, `js/cmdControl.js` 225-280 | `pwmValue`, the switch | `pwmControl`, `lightControl`, `etPackget` | `System` |
| Client table | `user/et_user_app.c` | `clients` | called by nobody | - |
| Platform glue | `user/rtos.c`, `user/std.c`, `driver/delay.c`, `driver/gpio.c` | - | wrappers | - |

### How they interact

    sliders, switch
         |  System: everything from here to the lamp
         v
    page -- WebClient --> broker --> SDK loop tasks --> et_message_process
                                     (et_ilink_task,        |  CommandPath
                          EtSocket    et_local_task)        v
                                                      RGB_light_set_color
    Wi-Fi task --> et_wifi_event_cb --+                     ^  RgbLight
    SDK loop   --> et_event_process --+--> wifi_led ---------+
    timers     --> check_ip, spark ---+    Lifecycle
    UART interrupt --> kfifo_put --> kfifo_get <-- recv_data_uart <-- factory tool
                       Kfifo                       UartRx

Everything above the driver runs in callbacks: the SDK calls the firmware from
two loop tasks of equal priority, the Wi-Fi stack from its own task, timers
from theirs, the UART from an interrupt. There is not one lock in the
application. The shared state is therefore what the models are about: the
global id buffer, the driver's cache and flag, the cloud handle, `errno`, the ring.

### What is hard, and what makes each part correct

* **Command path.** Two tasks run the same callback and pass the sender
  through one global; the answer is built in memory that `malloc` did not clear,
  on four different endings. Right means: an answer is true of the frame it
  answers and goes to the user who sent it; only intact frames act; no ending
  leaks its block.
* **Lamp driver.** `set_duty` and `start` communicate through `update_flag`,
  tested, cleared and acted on in separate steps. Right means: no update is left
  off the pins, and the lamp shows the last colour. The cache may go stale.
* **Boot and connectivity.** Seven calls in a row may fail with a different
  cleanup for each; Wi-Fi events may be delivered before or after the timer
  that looks at the same state; the only way to recover is a restart. Right
  means: no loop uses a dead handle, a device that lost its address restarts,
  it gets online when it can, and the status lamp tells the truth.
* **Ring.** An interrupt writes between any two accesses of the reader, and
  the unsigned counters wrap. Right means: it is a queue.
* **UART receiver.** A time-out assembles a packet over several polls, an event
  queue overflows, the handler loops until the status is zero, and interrupts
  are enabled before the buffers exist. Right means: the byte stream stays
  whole, no byte waits for an event that never comes, nothing loops for ever.
* **Page connection.** Each close starts a timer; a kick must stop that; the
  kick flag survives in localStorage. Right means: one attempt at a time, two
  pages do not fight over the session for ever, and a page stops trying only for a
  reason that can be named (it may be a silent one, see section 6).
* **Socket layer.** What the SDK is told about a send depends on `errno`, one
  global of all tasks; a send may be partial; a closed peer is reported as "no
  data", and a refused connect as established. Right means: no byte is lost,
  repeated or moved, a healthy connection is kept, a dead one is given up.
* **From slider to lamp.** A page sends all three sliders when one moves; there
  may be two pages; messages may be repeated; and the lamp is the status lamp as
  well, which a timer blinks and a reconnection paints green. Right means: the
  lamp at rest shows the panel that set it last, and "request succeeded"
  means that the colour is visible.

`PROJECT.json` lists each hazard at its line with the properties that cover it.

## 2. The modules

| module | role |
|---|---|
| `ByteQueue` | abstract: a bounded FIFO of bytes, a put takes the prefix that fits |
| `Kfifo` | the ring, access by access; implements `ByteQueue` |
| `UartRx` | handler, start-up and packet assembly; INSTANCEs `ByteQueue` for its ring, which `Kfifo` justifies |
| `CommandService` | abstract: a request/reply service, told from the user's side |
| `CommandPath` | the callback, step by step, in any number of tasks; implements `CommandService` for one task |
| `RgbLight` | the driver, step by step, any number of tasks and the timer callback |
| `Lifecycle` | from reset to the loop tasks, with Wi-Fi, cloud and status lamp |
| `WebClient` | several pages of one account, the SDK and the broker around them |
| `EtSocket` | two SDK tasks in the socket calls, on one `errno` |
| `System` | page controls, broker, status lamp; extends `CommandPath` and INSTANCEs `RgbLight` as the driver its colour branch calls |
| `KfifoProofs`, `CommandProofs`, `RgbLightProofs`, `LifecycleProofs`, `EtSocketProofs`, `UartRxProofs`, `WebClientProofs` | the theorems about one component |
| `SystemProofs` | the theorems about the composition; extends `CommandProofs` and INSTANCEs `RgbLightProofs`, so that it uses theirs |
| `MC...` | instances for TLC |

Conventions. An action bears the name of the function it models where it models
a whole function; where a function can be interrupted it is a sequence of
actions and `pc` (or `main`, `init`, `reader`) says where it is. A definition
marked `FAULT` is not part of the model: it is the definition that follows it
with a plausible bug, and `PROJECT.json` names the property that notices it.

### Correspondence and abstractions

**CommandPath.** A frame is a record of what the parser tells apart: the first
check it fails, command, type, sequence byte and payload; bytes, the checksum
arithmetic and the cJSON text are abstracted. `g_user_id` has two halves,
because `snprintf` writes it character by character and two halves are enough
to see a mixture. `block` and `set` are the `malloc`'d reply and whether this
call has written it. A frame whose payload is missing makes the code read what
follows it in memory; the model takes any colour, or any pin state. `granted`
and the `from`, `frame` and `set` fields of `last` are history.
Steps end where another task can see a difference; the colour is set in one
step here because `RgbLight` takes it apart.

**RgbLight.** `pwm_set_duty` records a duty, `pwm_get_duty` returns it and
`pwm_start` puts the recorded duties on the pins: that is how the driver uses
libpwm, whose source is not here. The timer callback is one step
(`esp_timer.h:63`: "Operating system scheduling is disabled in timer callback"),
and may come between any two steps of a task. The special red values 0xfd and
0xfc have been applied to a colour before it enters the model, and
`RGB_TO_DUTY` is strictly increasing, so a colour is a tuple of duties.

**Lifecycle.** `Reset` and `system_restart` reset everything that is not the
environment. The Wi-Fi stack posts events to a queue and its task has a higher
priority than the application (`include/espressif/esp_common.h:85-89` gives the
priorities), so an application step needs `events = <<>>`; timers need not wait.
`main` goes through `et_user_main`, and each failing call is enabled by `Faults`.
The SDK is modelled by what the code relies on: a session that is lost, taken
up again, or kicked, and notices delivered in order inside the loop.

**Kfifo.** `kfifo_put` is one action because it runs in the interrupt handler;
`kfifo_get` reads `in`, copies byte by byte and then moves `out`, and a put may
come in between. Counters wrap at `Wrap`; `x & (size - 1)` is `x % Size`,
which is the same for powers of two, and the size in use is 512.
`min(len, fifo->in - fifo->out)` (`kfifo.c:79`) names `in` twice. It is a plain
`int`, the build is `-Os`, and the object kept in
`driver/.output/eagle/debug/obj/kfifo.o` loads it once, so the model reads it
once. A compiler that loaded it twice would matter: with a put between the test
and the second load, the reader takes more than it asked for.

**UartRx.** Bytes are numbered in order of arrival. A turn of the handler's loop
is one action and the task does not run during it. The status word is computed
from the FIFO and the latched bits; a bit stays set until the branch that
handles it clears it or takes the bytes away. `kfifo_init` has no return
statement on success, so both outcomes of the test of its result are possible.
`read_uart_data_flag`, which the handler tests before it posts, is 0 for good:
nobody assigns it.
Interrupts are enabled first (`uart.c:403`): a byte that arrives before the
queue exists makes the handler post to a NULL queue, a fatal exception after
which the device starts again; the histories speak of the time since then.
`portEND_SWITCHING_ISR`, given a flag nobody initialised, only decides when the
reader runs, which the model leaves open anyhow.

**WebClient.** `reConnectCount` is capped one above `maxConnectCount`, beyond
which the code makes no difference. Each page has a localStorage of its own
(different browsers). Alerts are kept as the set `told`, since a property asks
whether the user was told. The SDK's part is modelled from
`ilink-js-sdk.min.js`. `etIMInfo` asks a lookup server for an address, over a
socket of its own, and three things may become of that: an address, fresh or from
its cache (`LookupDone`); an error event, for which the page shows an alert, when
there is no connection or the server refuses (`LookupFails`); nothing at all, when
the socket closes before an answer, since `sendToLB` reports that as type 3 and
`etIMInfo` passes on 0 and 2 (`LookupIsCut`, remembered in the history `cut`).
None of them needs the network to be down. External are the network, the
lookup server and the broker: an accepted login takes the session over and sends
the other page a kick and a close; a broken network may take the kick with it.

**EtSocket.** Each call is a select, the operation and the test of the result,
three steps between which the other task and the network go on. `errno` is one
variable because `include/lwip/lwip/arch.h` declares one `extern int errno`;
every socket call writes it. What a call does to a connection is that of the
vendored lwIP (`third_party/lwip/api/sockets.c` and `api_msg.c`). `sendevent` is its mark that
a socket is writable: set for an accepted socket, when a connection is
established or lost, and when room returns; taken away when the buffer is full.
`select` returns at once if the socket is ready, and only otherwise waits, or
finds no memory for the semaphore to wait on. The cloud task's socket is
non-blocking, so its send takes what fits; an accepted one is blocking, so its send
takes all, or takes a part, waits (`blocked`), and is -1 if the connection is lost
meanwhile. Where lwIP gives `EWOULDBLOCK` for a full buffer the model has
`ENOMEM`, which `base.c:134` tests alike. The SDK is modelled by what `et_base.h` promises
it: it goes on after a positive result, tries again after 0 and closes after -1.
A stream's bytes are their positions. `own` and `disturbed` are history: what
the task's own call wrote, and whether another came after it. A keep-alive
probe (`base.c:46-72`) resets a connection whose peer has gone.

**System.** `Notice` is the two branches of `et_event_process` that touch the lamp
(`et_user_app.c:330-346`); the kick below them is in `Lifecycle`. One SDK task at
a time (what two do to each other is in `CommandPath` and `RgbLight`); it delivers messages and events one by one, and
while it is inside the driver it does nothing else. `Paint` is `CommandPath`'s
colour step and the beginning of the driver's call, `Acknowledge` waits for its
end. `Payload` values stand for the bytes `ceil(2.55 * position)` makes of the
sliders; a red of 253 or 252 has the meaning `RGB_light.c:112-123` gives it. Frames
of a page always carry sequence byte 1. The broker keeps order and may
deliver twice (qos 1). `painter` and `switcher` are history: who set the lamp and
the relay last. What the model shows of the code besides its properties: the
green of a reconnection replaces the user's colour for good; slider position 99
is byte 253, which blanks the other channels; the first slider a second page
moves darkens what the first one lit, since its own sliders start at 0; the alert
about a switch frame is not repaired by a later slider frame; a frame dropped
for lack of memory gets no answer.

## 3. The runs

State counts are distinct states.

| run | instance | checks | shows |
|---|---|---|---|
| `system` | 1 task, 2 pages and a stranger, 2 channels, positions 0 and 99, 2 moves, 1 lost session, 2 frames under way; 842,416 states | `SystemTypeOK`, `ReplyToSender`, `SuccessIsVisible`, `LampShowsPanel`, `LampSettles`, `ImplementsService` | from slider to lamp: answers go to the sender and are true when sent, the lamp at rest shows the panel; with one task the path is a request/reply service |
| `command_race` | 2 tasks, 2 users, 5 frames; 2.2 million | `NoLeak`, `AckIsTruthful`, `OnlyIntactFramesAct` | preemption does not leak a block, falsify an answer or let a broken frame act |
| `command_mixup` | 2 tasks | `SuccessReachesRequester` (violated) | the success of one user's request goes to another user, whose own was not carried out |
| `command_unset` | 1 task, switch frames only | `LengthIsSet` (violated) | a switch frame is answered with an unwritten length |
| `rgb_race` | 2 tasks, 2 channels, 2 duties, blinking timer; 509,324 | `TypeOK`, `NoLostUpdate`, `UpdateIsPending`, `LampFollows`, `LampCatchesUp` | the unlocked flag loses nothing |
| `lifecycle` | all faults but the last `xTaskCreate`, 3 waiting events; 3,136 | `TypeOK`, `HandleIsLive`, `LossRestarts`, `LampTellsLink`, `ComesOnline` | recovery, lamp and login are right |
| `lifecycle_destroyed` | the last `xTaskCreate` fails | `HandleIsLive` (violated) | the context is destroyed under the local task |
| `kfifo` | 4 slots, counters modulo 8, bursts and reads up to 3; 39,936 | `TypeOK`, `NeverOverfull`, `CopyIsIntact`, `ImplementsByteQueue` | the ring is a queue |
| `uart` | ring 4, FIFO 3, event queue 2, packet 3, 2 rounds, 8 bytes; 80,987 | `TypeOK`, `StreamIsWhole`, `EveryByteAnnounced`, `HandlerEnds`, `RecvEnds` | no byte is lost or forgotten, nothing hangs |
| `web` | 2 pages, `maxConnectCount` 1, 1 reload each; 18,838 | `TypeOK`, `OneAttempt`, `StopsForAReason`, `KickedStaysOut`, `SessionSettles` | the reconnect logic does not fight for ever and stops only for a named reason |
| `socket` | 2 tasks, 2 bytes out, 1 in; 648,725 | `TypeOK`, `StreamInOrder`, `HealthyIsKept`, `DeadIsGivenUp` | partial sends and a shared `errno` do not hurt the stream; a dead connection is given up |
| `socket_errno` | the same | `FailedSendIsFailure` (violated) | a healthy connection is reported as failed |

### Why the bounds are enough

* *Commands.* In `system` four colours, both switch positions and the eight
  frames only a stranger sends take every path of the parser. Two users and two
  sequence values tell one request from another. The firmware has two loop
  tasks, so two is the real number; the race uses one frame per outcome to keep the product small.
* *System.* Two moves are enough for two pages to overwrite each other, for a
  frame that was not sent before one that was, and for a switch beside a slider;
  one lost session gives the blinking and the green of a reconnection. Position
  99 is the one whose byte has a special meaning. Proofs remove these bounds for
  the safety properties.
* *Lamp.* Two channels are enough to tear a colour, two duties to tell a stale
  one; two tasks and the timer are all callers the firmware has at a time.
* *Lifecycle.* Three waiting events hold a loss that overtakes the address it
  follows and a rejoin behind it. Proofs remove the bound for all the safety
  properties.
* *Ring.* Counters that wrap after two laps meet the wrap of slots and of
  counters in every phase of a put and of a get; bursts of 3 in 4 slots are cut
  short, wrap and fill the ring. Proofs remove these bounds for safety.
* *UART.* Bursts as long as a packet, a ring shorter than two packets and an
  event queue of two overflow in every way; 8 bytes are twice the ring.
  The proportions of the code are kept where a property needs them
  (`EveryByteAnnounced`: 64 events of a packet cover 512 bytes).
  `CHECK_DEADLOCK FALSE` in `uart` and `system`: the system stops when the
  bounded number of bytes, or of moves, has been dealt with.
* *Page.* Two pages are the smallest fight; one reload each allows an inherited
  kick flag; `maxConnectCount` 1 is passed by the second close.
* *Sockets.* Two tasks are the firmware's; two bytes are enough for a partial
  send and for a byte out of place. Proofs remove both bounds for safety.

## 4. Fairness

| specification | assumption | why |
|---|---|---|
| `RgbLight` | weak fairness of each task's next step | `configUSE_PREEMPTION` is 1 (`include/freertos/FreeRTOSConfig.h:80`) and tasks of one priority share time slices; nothing in these functions blocks |
| `Lifecycle` | weak fairness of joining, event delivery, `check_ip`, `et_user_main`, the loop's notices and relogin | the Wi-Fi stack retries, timers fire, tasks run; a new loss or kick is never assumed |
| `UartRx` | weak fairness of the handler, strong fairness of `recv_data_uart` | an interrupt runs to its end; the task runs between interrupts, however often they come, so it is enabled again and again but not continuously |
| `WebClient` | weak fairness of each page's progress | timers fire, events are handled, an opened socket is accepted or fails; the network itself is not assumed to come up |
| `EtSocket` | weak fairness of a call that has begun and of keep-alive probes, strong fairness of receiving | select has a time-out and the steps after it do not wait; a blocked send is not assumed to find room, only to end when the connection is lost; the SDK loop receives again and again between other calls; `base.c:50-65` sets probes of 60 s. That anything is sent is not assumed |
| `System` | weak fairness of the loop's steps, strong fairness of a delivery without repetition | the task is not blocked (nothing in the callback waits, and the scheduler is the preemptive one above), and the broker does not repeat one message for ever; no session and no user action is assumed |

Liveness properties carry what they need beyond this in their premise:
`ComesOnline` that access point and cloud stay up, nobody takes the session and
`et_user_main` did not give up; `SessionSettles` that the network stays up;
`LampSettles` that the session stays up.

## 5. The proofs

All proofs are checked by TLAPS for every value of the constants that meets the
`ASSUME`s of the modules. These say what the code fixes: a colour payload names a
colour or is missing, the reset values are of their type, sizes are positive, the
ring divides the counter's range, a page's user is a user, every position of the
sliders has a payload with its bytes.

* **`KfifoProofs`**, for any ring size, any counter width that is a larger
  multiple of it, any burst and read length: `TypeCorrect`, `RingNeverOverfull`,
  `ReaderNeverTorn` and `RingIsAQueue`, the refinement of `ByteQueue`. The inductive invariant is `TypeOK /\ NeverOverfull /\
  CopyIsIntact`. It is needed as a whole: that a put does not overwrite a
  byte the interrupted reader has claimed follows from the room computed from
  counters at most `Size` apart; that they stay so follows from the reader never
  moving `out` past `in`, which holds because what it claimed is still there.
  The arithmetic lemmas relate distances on the counter circle to slots; they
  need `Wrap % Size = 0`, the assumption `WrapAssumption` states.
  For the refinement the content of the ring is a sequence (`Contents`): a put
  changes only slots outside it and adds its bytes behind (`PutIsPut`); the end of
  a get takes from the front the bytes that `CopyIsIntact` says were copied
  (`CommitIsGet`); every other step leaves it as it is.
* **`CommandProofs`**, for any number of tasks, users and frames:
  `AnswersAreTrue`: every answer the code has written is true of its
  frame. The invariant says for each place in the callback what is
  known of the frame there, and that a written block is true of it; a task's part
  is not disturbed by the others since they touch neither its block nor its
  message and `granted` only grows (`OthersKeep`, `StepIsLocal`). This is why two
  tasks may share the callback as far as the content goes, though not the
  address. `OneTaskAnswersSender`: with a single task the answer goes to the
  sender; with two it does not (run `command_mixup`). `BlocksAreFreed`: for a
  finite set of tasks the live blocks are those of the tasks that hold one; each
  step adds one to both sides, takes one from both or leaves both.
  `OnlyIntactFramesMove`: the step that moves the lamp or the relay is taken at a
  place which, by the first invariant, only an intact control frame reaches.
  `TypesHold` says besides that there are never more live blocks than tasks.
  `OneTaskIsAService`: with one task the callback implements `CommandService`.
  The service's stage is read off `pc` (`Stage`); `AnswerInv` says which frame and
  which block a task has at each place, `NameInv` that the global id is the sender's.
  From both, the send is the service's answer, with the content and to the user
  the service requires, and all other steps are a request, a colour, or stutter.
* **`RgbLightProofs`**, for any number of tasks, channels and colours:
  `UpdateAlwaysPending` and `UpdateNeverLost`. `NoLostUpdate` speaks of quiet
  states only and is not inductive; `UpdateIsPending` says what holds in between
  (a duty not on the pins is announced by the flag, or by a task about to raise
  it or to start the PWM) and is inductive because the flag is raised after the
  recording and lowered before the start. `LampAlwaysFollows`: until two calls
  have overlapped a driver at rest shows the last colour. The invariant follows
  the one call in progress from channel to channel (`Sole`): those behind it are
  recorded and cached as wanted, the others are cached as recorded, so that a
  channel it skips already has the wanted duty. `TypesHold`. The lemmas on single
  steps hold for any colour of the right type, which is what lets `SystemProofs`
  use them for colours that come out of a frame.
* **`LifecycleProofs`**, for any number of waiting events: `LossAlwaysRestarts`,
  whatever fails, by an invariant that follows the last waiting event; and
  `LoopsHoldLiveHandle`, for any set of failing calls without the last
  `xTaskCreate`, by an invariant that ties the existence of the tasks and the
  handle to the place in `et_user_main`. With that call failing it is false
  (run `lifecycle_destroyed`). `LampAlwaysTellsLink`, on the same condition: the
  invariant says which news, of Wi-Fi and of the session, may be on its way at each
  place, and that without any the lamp is right; a Wi-Fi event that follows
  a running application can only be a loss, which restarts the device.
  `TypesHold`, whatever fails: that no more than two notices wait needs to know that
  none does before the login and that a loss and its end alternate (`Quiet`).
* **`EtSocketProofs`**, for any number of tasks and any length of stream:
  `TypesHold`, `BytesStayInOrder` and `OnlyARaceKillsHealthy`. The properties look
  at the ends of calls; within one, what lwIP has accepted is ahead of what the SDK
  was told by exactly the result, or by the part a blocked send has given it,
  unless the connection is lost (`InCall`); and `errno` is what the task's own call
  wrote unless another one disturbed it (`OwnErrno`). Without the disturbance
  clause the last theorem is false (run `socket_errno`).
* **`UartRxProofs`**, for all sizes: `TypesHold`, `EveryByteOnce`,
  `NoByteStranded`. The first two need the order of what is still in the FIFO and
  that nothing is in the ring before there is a queue. The third counts what is
  owed: the waiting events, each worth a packet, and what the packet in progress
  still lacks; a packet that came back short has emptied the ring, and an event
  dropped at a full queue is covered by those that fill it.
* **`WebClientProofs`**, for any number of pages: `TypesHold`,
  `OneAttemptAlways`, `EndsForAReason`, `KickIsFinal`. A close is the last event of its
  connection, so a page whose queue holds one has neither a connection nor a
  timer (`Fits`); a kick is never queued without the close that takes its
  flag away (`Out`); a page with no attempt left has met one of four ends (`Told`):
  a kick or a failed lookup, of which the user is told, an inherited kick flag or a
  lookup cut short, of which not.

* **`SystemProofs`**, for any number of pages, channels, slider positions and
  messages under way. First, `SystemIsACommandPath`: every step of the composition is
  a step of `CommandPath` or leaves its variables alone; it needs to know that the
  wire holds messages (`PanelInv`). So the theorems of `CommandProofs` hold of the
  whole: `SystemAnswersSender`, `SystemActsAndAnswersTruly`, `SystemIsAService`.
  Second, the driver's steps are those of `RgbLightProofs` (`SameStep`, `SameBegin`,
  `SameSpark`), with colours that are duties because bytes are; hence
  `SystemLosesNoUpdate`, for any number of tasks, and `SystemTypesHold`, which also needs
  the six forms that session, timer and waiting events take together (`Tidings`).
  Third, with one task, `SuccessIsAlwaysVisible`: the spark timer is not armed while
  a frame is worked on (`Calm`), since a frame is delivered only when no event
  waits, so no two calls of the driver overlap (`Alone`) and the lamp at rest is
  what it was last set to; `Painted` says that this is the colour of the frame about to
  be called a success. Fourth, `LampAlwaysShowsPanel`, by an invariant that follows
  each page through the queue (`PagesInv`): unless the page was alerted, the newest
  of its frames of a type carries its present controls, and is on the wire, or in the
  task's hands, or has been carried out or dropped, or somebody else has set the lamp
  since. `NewestIs` is about the last of equal messages, which is why a repetition
  by the broker does no harm: it repeats the oldest, and what follows it puts
  the lamp right. TLC has checked all these invariants on the instance of run `system`.

What these theorems assume that the code does not grant: a single task
(`OneTask`) for `SystemAnswersSender`, `SystemIsAService`, `SuccessIsAlwaysVisible` and
`LampAlwaysShowsPanel`. The firmware has two, which only matters when somebody uses
the local server while the cloud task is at work; run `command_mixup` shows
what then becomes of the answer.

Only model-checked: the liveness properties (`LampSettles`, `LampCatchesUp`,
 `ComesOnline` and those of the receiver, the page and the sockets),
which are out of the prover's reach. Every invariant and every safety property of
a passing run is proved; what the other runs refute is in section 6.

## 6. Where code and documentation disagree

1. `command_mixup`: `et_user_app.c:290` and the two tasks of equal priority. A
   reply with code 0, which the page reads as "请求成功" (request succeeded,
   `js/cmdControl.js:35`), goes to another user than the one whose request was
   carried out: the local task has just written that user's id, and has still to
   handle the request.
2. `command_unset`: the switch branch (`et_user_app.c:164-177`) hands
   `et_chat_to` a length and a text it never wrote (so does the default branch,
   178-179, for a type it does not know); `et_client.h:258` documents
   the parameter as the length of the data to send.
3. `lifecycle_destroyed`: when `et_ilink_task` cannot be created
   (`et_user_app.c:471`) the context is destroyed while `et_local_task` goes on
   calling `et_server_loop` with it.
4. `socket_errno`: `base.c:134` judges a failed send by the global `errno`, which
   the other SDK task may have overwritten. In the run the cloud task's send finds no
   memory, then the local task's `recv` meets the end of its own stream, which writes
   `ENOTCONN`, and the send is reported as -1 on a healthy connection, where
   `et_base.h:109` asks to tell "0 bytes sent" from a failure.

Observed while modelling, not stated as a run: `RGB_light.c:43` may store in the
cache a duty another caller has changed since (the lamp is affected only by the
next colour); `uart.c:403` enables interrupts before the queue exists;
`base.c:165` returns 0 for a closed peer where `et_base.h:149` asks for -1, and only
keep-alive or a send reveals it; `base.c:109` reports a refused connection as
established; `base.c:237` tests an `rc` nobody assigned. In `js/ilink-js-sdk.min.js` a
lookup whose socket is closed without an answer calls back with type 3, which
`etIMInfo` does not know: the page stays off, shows nothing and starts no timer.

## 7. What is not modelled

* The iLink SDK, FreeRTOS, libpwm, libfac, the lookup server and the broker:
  binary or elsewhere. They appear as external actions.
* The inside of lwIP and of the JavaScript SDK: `EtSocket` has what lwIP's calls do to one
  connection and to `errno`, `WebClient` the SDK's lookup and its socket events.
* Register set-up, baud rates, pin multiplexing, UART transmission: no protocol.
* JSON texts, log output, the look of the page, the device status it shows.
* `RGB_light_set_period` and the client table, which nobody calls.
* The checksum's arithmetic: a frame is intact or it is not.
* The datagram calls, bind, listen and name lookup of `base.c`: single calls
  without state of their own.
* The airkiss task: never created (`user_main.c:308` is commented out). What it
  does to a context in use is what `lifecycle_destroyed` shows.
* A localStorage shared by two tabs: the order in which two tabs see each
  other's writes is up to the browser.

Of the repository's 46,000 lines of code some 43,000 are declarations of the
SDK, FreeRTOS, lwIP and the Xtensa core under `smart_e_taste_v1.4/include` and
`extra_include`: macros, types and prototypes of binaries that are not here. There
is nothing in them to model; the program's own C, JavaScript and HTML is some 2,900
lines, of which the map names nearly half, and most of the rest is register set-up, tables,
log output and markup.

## 8. Plan

Done, in this order: `Kfifo` with `ByteQueue`, `CommandPath` with
`CommandService`, `RgbLight`, `Lifecycle`, `UartRx`, `WebClient`, `EtSocket`,
`System`, and the eight proof modules. What could still be added:

1. `System` with the local server's messages: `SystemTypesHold`, `SystemLosesNoUpdate`
   and `SystemActsAndAnswersTruly` hold for any number of tasks, but all take what they
   deliver from one queue; for TLC, the driver has to be replaced by an abstraction.
2. Such an abstraction (a lamp with a last colour and a pending update) as a
   module of its own, and its refinement by `RgbLight`.
3. A browser's localStorage shared by two tabs in `WebClient`.
