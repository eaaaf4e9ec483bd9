-------------------------------- MODULE UartRx -------------------------------
(***************************************************************************)
(* The receiving side of UART0 in the factory mode (driver/uart.c): the    *)
(* start-up of uart_init_new, the interrupt handler, and recv_data_uart,   *)
(* which collects a packet from the ring with a time-out.  The ring is the *)
(* ByteQueue that Kfifo implements.                                        *)
(*                                                                         *)
(* External: the UART (bytes arrive in its FIFO and raise interrupts at    *)
(* any time) and fac_read_uart_task of libfac, which waits on xQueueUart   *)
(* and calls recv_data_uart.  The handler runs when the interrupted task   *)
(* does not: while it is in its loop only the UART goes on.                *)
(* Bytes are numbered in the order of their arrival.                       *)
(*                                                                         *)
(* Definitions marked FAULT are the definition that follows them with a    *)
(* bug put in; they are not part of the model.                             *)
(***************************************************************************)
EXTENDS Integers, Sequences

CONSTANTS Capacity,   \* UART_BUF_SIZE
          HwDepth,    \* depth of the UART's FIFO
          Chunk,      \* MAX_UART_RECV_SIZE
          Threshold,  \* UART_RX_FifoFullIntrThresh
          QueueLen,   \* length of xQueueUart
          Want,       \* the length recv_data_uart is asked for
          Rounds,     \* time_out_ms / 10
          MaxBytes    \* bound on the bytes that arrive

ASSUME SizesAssumption ==
  /\ {Capacity, HwDepth, Chunk, Threshold, QueueLen, Want} \subseteq Nat \ {0}
  /\ Rounds \in Nat /\ MaxBytes \in Nat

VARIABLES
  init,        \* where uart_init_new is, from the enabling of interrupts on
  fifoBuffer,  \* uart_fifo.buffer is not NULL
  xQueueUart,  \* NULL, or the number of waiting events
  arrived,     \* number of bytes that arrived
  hw,          \* the UART's FIFO
  latched,     \* the interrupt status bits that stay set until cleared
  txEmptyEna,  \* UART_TXFIFO_EMPTY_INT_ENA
  isr,         \* the handler: "out" or "loop"
  ring,        \* what uart_fifo holds
  got,         \* what the last kfifo_get returned
  reader,      \* the task: "none", "wait", "read", "delay"
  data,        \* the packet buffer of recv_data_uart
  size, num,   \* its locals
  accepted,    \* history: the bytes kfifo_put accepted
  returned     \* history: the bytes recv_data_uart returned

boot == <<init, fifoBuffer>>
uart == <<arrived, hw, latched>>
handler == <<txEmptyEna, isr>>
task == <<reader, data, size, num, returned>>
vars == <<boot, xQueueUart, uart, handler, ring, got, task, accepted>>

NULL == -1

Ring == INSTANCE ByteQueue WITH
          Byte <- 1..MaxBytes, MaxPut <- Chunk, q <- ring

Init ==
  /\ init = "buf" /\ fifoBuffer = FALSE /\ xQueueUart = NULL
  /\ arrived = 0 /\ hw = <<>> /\ latched = {}
  /\ txEmptyEna = TRUE /\ isr = "out"
  /\ ring = <<>> /\ got = <<>>
  /\ reader = "none" /\ data = <<>> /\ size = 0 /\ num = 0
  /\ accepted = <<>> /\ returned = <<>>
------------------------------------------------------------------------------
(* uart_init_new after ETS_UART_INTR_ENABLE: uart_buf_init.                *)
BootStep(from, to) ==
  /\ init = from /\ isr = "out" /\ init' = to
  /\ UNCHANGED <<uart, handler, got, task, accepted>>

NoHeap ==
  /\ BootStep("buf", "failed")
  /\ UNCHANGED <<fifoBuffer, ring, xQueueUart>>

(* kfifo_init returns -1 when malloc fails, and has no return statement    *)
(* otherwise: what uart_init_new compares with 0 is left over in a         *)
(* register.                                                               *)
AllocateBuffer ==
  /\ BootStep("buf", "queue") \/ BootStep("buf", "failed")
  /\ fifoBuffer' \in IF init' = "queue" THEN {TRUE} ELSE BOOLEAN
  /\ UNCHANGED <<ring, xQueueUart>>

(* The results of xQueueCreate and xTaskCreate are not looked at.          *)
CreateQueue ==
  /\ BootStep("queue", "task")
  /\ xQueueUart' \in {0, NULL}
  /\ UNCHANGED <<fifoBuffer, ring>>

CreateReader ==
  /\ init = "task" /\ isr = "out" /\ init' = "done"
  /\ reader' \in {"wait", "none"}
  /\ UNCHANGED <<fifoBuffer, xQueueUart, uart, handler, ring, got,
                 data, size, num, returned, accepted>>

uart_init_new == NoHeap \/ AllocateBuffer \/ CreateQueue \/ CreateReader
------------------------------------------------------------------------------
(* The UART, from the enabling of its interrupts on: a byte that finds the *)
(* FIFO full is lost there; its frame may be broken.                       *)
Arrive ==
  /\ arrived < MaxBytes
  /\ arrived' = arrived + 1
  /\ hw' = IF Len(hw) < HwDepth THEN Append(hw, arrived + 1) ELSE hw
  /\ latched' \in {latched, latched \cup {"FRM_ERR"}}
  /\ UNCHANGED <<boot, xQueueUart, handler, ring, got, task, accepted>>

(* The line falls idle with bytes in the FIFO.                             *)
LineIdle ==
  /\ hw # <<>> /\ "TOUT" \notin latched
  /\ latched' = latched \cup {"TOUT"}
  /\ UNCHANGED <<boot, xQueueUart, arrived, hw, handler, ring, got, task, accepted>>

(* UART_INT_ST.                                                            *)
Status == latched \cup (IF Len(hw) >= Threshold THEN {"FULL"} ELSE {})
                  \cup (IF txEmptyEna THEN {"TX_EMPTY"} ELSE {})

Interrupt ==
  /\ isr = "out" /\ Status # {} /\ isr' = "loop"
  /\ UNCHANGED <<boot, xQueueUart, uart, txEmptyEna, ring, got, task, accepted>>
------------------------------------------------------------------------------
(* uart0_rx_intr_handler: one branch of its if per turn of the loop.       *)
Turn == isr = "loop" /\ UNCHANGED <<boot, got, task>>

ClearFrameError ==
  /\ Turn /\ "FRM_ERR" \in Status
  /\ latched' = latched \ {"FRM_ERR"}
  /\ UNCHANGED <<xQueueUart, arrived, hw, handler, ring, accepted>>

\* FAULT
PostWhenQueueIsEmpty == xQueueUart' = IF xQueueUart = 0 THEN 1 ELSE xQueueUart
(* xQueueSendFromISR, which drops the event when the queue is full, behind *)
(* a flag that nothing ever sets (uart.c:24 and 410 write 0 to it).        *)
read_uart_data_flag == 0
Post == xQueueUart' = IF read_uart_data_flag # 0 \/ xQueueUart = QueueLen
                      THEN xQueueUart ELSE xQueueUart + 1

(* uart_rx_buffer_from_fifo, the event, and the clearing of the interrupt. *)
BytesWait == isr = "loop" /\ "FRM_ERR" \notin Status /\ {"FULL", "TOUT"} \cap Status # {}
ReceiveBytes ==
  LET n == IF Len(hw) < Chunk THEN Len(hw) ELSE Chunk
      burst == SubSeq(hw, 1, n)
  IN  /\ Turn /\ BytesWait /\ xQueueUart # NULL /\ fifoBuffer
      /\ hw' = SubSeq(hw, n + 1, Len(hw))
      /\ Ring!Put(burst)
      /\ accepted' = accepted \o SubSeq(burst, 1, Len(ring') - Len(ring))
      /\ Post
      /\ latched' = IF "FULL" \in Status THEN latched ELSE latched \ {"TOUT"}
      /\ UNCHANGED <<arrived, handler>>

(* While there is no buffer or no queue, the same branch goes through NULL: *)
(* a fatal exception, and the device starts again.  The histories are of   *)
(* the time since the last start.                                          *)
FatalException ==
  /\ BytesWait /\ (xQueueUart = NULL \/ ~fifoBuffer)
  /\ init' = "buf" /\ fifoBuffer' = FALSE
  /\ hw' = <<>> /\ latched' = {} /\ txEmptyEna' = TRUE /\ isr' = "out"
  /\ ring' = <<>> /\ got' = <<>> /\ reader' = "none"
  /\ data' = <<>> /\ size' = 0 /\ num' = 0
  /\ accepted' = <<>> /\ returned' = <<>>
  /\ xQueueUart' = NULL /\ UNCHANGED arrived

\* FAULT
TxEmptyStillEnabled ==
  /\ Turn /\ Status = {"TX_EMPTY"}
  /\ UNCHANGED <<xQueueUart, uart, handler, ring, accepted>>
TxEmpty ==
  /\ Turn /\ Status = {"TX_EMPTY"}
  /\ txEmptyEna' = FALSE
  /\ UNCHANGED <<xQueueUart, uart, isr, ring, accepted>>

LeaveIsr ==
  /\ Turn /\ Status = {} /\ isr' = "out"
  /\ UNCHANGED <<xQueueUart, uart, txEmptyEna, ring, accepted>>

uart0_rx_intr_handler ==
  ClearFrameError \/ ReceiveBytes \/ FatalException \/ TxEmpty \/ LeaveIsr
------------------------------------------------------------------------------
(* The task takes an event and asks for a packet.                          *)
Running == isr = "out" /\ UNCHANGED <<boot, uart, handler, accepted>>

TakeEvent ==
  /\ Running /\ reader = "wait" /\ xQueueUart > 0
  /\ xQueueUart' = xQueueUart - 1
  /\ reader' = "read" /\ data' = <<>> /\ size' = 0 /\ num' = 0
  /\ UNCHANGED <<ring, got, returned>>

(* recv_data_uart: kfifo_get of what is still missing, placed behind what  *)
(* is there; then a delay of 10 ms unless the packet is complete.          *)
Placed(bytes) == SubSeq(data, 1, size) \o bytes

Return(packet) == /\ reader' = "wait" /\ returned' = returned \o packet
                  /\ data' = <<>> /\ size' = 0 /\ num' = 0

Least(a, b) == IF a < b THEN a ELSE b

read_data_from_buf ==
  /\ Running /\ reader = "read"
  /\ Ring!Get(Least(Want - size, Len(ring)))
  /\ IF size + Len(got') = Want
     THEN Return(Placed(got'))
     ELSE /\ data' = Placed(got') /\ size' = size + Len(got')
          /\ num' = num + 1 /\ reader' = "delay"
          /\ UNCHANGED returned
  /\ UNCHANGED xQueueUart

\* FAULT
WakeUpForWholePacket ==
  /\ Running /\ reader = "delay"
  /\ reader' = "read" /\ UNCHANGED <<data, size, num, returned>>
  /\ UNCHANGED <<xQueueUart, ring, got>>
\* FAULT
WakeUpCountingAnew ==
  /\ Running /\ reader = "delay"
  /\ reader' = "read" /\ num' = 0 /\ UNCHANGED <<data, size, returned>>
  /\ UNCHANGED <<xQueueUart, ring, got>>
\* FAULT
WakeUpForgetting ==
  /\ Running /\ reader = "delay"
  /\ IF num < Rounds
     THEN reader' = "read" /\ UNCHANGED <<data, size, num, returned>>
     ELSE Return(<<>>)
  /\ UNCHANGED <<xQueueUart, ring, got>>
WakeUp ==
  /\ Running /\ reader = "delay"
  /\ IF num < Rounds
     THEN reader' = "read" /\ UNCHANGED <<data, size, num, returned>>
     ELSE Return(data)
  /\ UNCHANGED <<xQueueUart, ring, got>>

recv_data_uart == read_data_from_buf \/ WakeUp

Next ==
  \/ uart_init_new \/ Arrive \/ LineIdle \/ Interrupt \/ uart0_rx_intr_handler
  \/ TakeEvent \/ recv_data_uart

Spec == Init /\ [][Next]_vars

(* The handler runs on; the task does when no interrupt keeps it away,     *)
(* however often one comes in between.                                     *)
FairSpec == Spec /\ WF_vars(uart0_rx_intr_handler) /\ SF_vars(recv_data_uart)
------------------------------------------------------------------------------
TypeOK ==
  /\ init \in {"buf", "queue", "task", "done", "failed"}
  /\ fifoBuffer \in BOOLEAN
  /\ xQueueUart \in {NULL} \cup (0..QueueLen)
  /\ arrived \in 0..MaxBytes
  /\ hw \in Seq(1..MaxBytes) /\ Len(hw) <= HwDepth
  /\ latched \subseteq {"TOUT", "FRM_ERR"}
  /\ txEmptyEna \in BOOLEAN /\ isr \in {"out", "loop"}
  /\ ring \in Seq(1..MaxBytes) /\ Len(ring) <= Capacity
  /\ got \in Seq(1..MaxBytes)
  /\ reader \in {"none", "wait", "read", "delay"}
  /\ data \in Seq(1..MaxBytes) /\ size \in 0..(Want - 1) /\ Len(data) = size
  /\ num \in 0..(Rounds + 1)
  /\ accepted \in Seq(1..MaxBytes) /\ returned \in Seq(1..MaxBytes)

(* No byte the ring accepted is lost, repeated or moved by recv_data_uart, *)
(* however often it has to come back for the rest of a packet and however  *)
(* a packet ends: what was returned, what the unfinished packet holds and  *)
(* what waits in the ring is what was accepted, in order of arrival.       *)
StreamIsWhole ==
  /\ accepted = returned \o data \o ring
  /\ \A i, j \in 1..Len(accepted) : i < j => accepted[i] < accepted[j]

(* A byte that waits in the ring has an event that will fetch it, although *)
(* events are dropped when xQueueUart is full and one packet may swallow   *)
(* the bytes of several events: a task at rest leaves no more bytes than   *)
(* the waiting events will ask for.  It takes a packet at least as long as *)
(* a burst, and a queue whose events cover the ring (64 events, 512 bytes).*)
EveryByteAnnounced ==
  reader = "wait" /\ xQueueUart # NULL /\ Chunk <= Want /\ Capacity <= QueueLen * Want
    => Len(ring) <= xQueueUart * Want

(* The handler leaves its loop once bytes stop arriving: every status bit  *)
(* it finds set it clears, or takes away the bytes that keep it set.       *)
HandlerEnds == isr = "loop" ~> isr = "out"

(* recv_data_uart returns: a packet that stays incomplete costs at most    *)
(* its time-out.                                                           *)
RecvEnds == reader \in {"read", "delay"} ~> reader = "wait"
==============================================================================
