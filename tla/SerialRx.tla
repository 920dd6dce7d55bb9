------------------------------ MODULE SerialRx ------------------------------
(***************************************************************************)
(* Receiving on a serial device: the UART, the DMA channel that writes the *)
(* receive FIFO of serial.c in a circle, the interrupt handlers of         *)
(* drv_usart.c that tell the FIFO how far it has come, and a thread that   *)
(* reads.  Three drivers are modelled: one byte per interrupt, DMA counted *)
(* when the line becomes idle (ATK-ALL-Proj-ONENET, whose transfer         *)
(* callbacks do not call dma_isr), and DMA counted by these callbacks too  *)
(* (STemwin).  A byte is the number of its arrival.                        *)
(***************************************************************************)
EXTENDS Integers, SequencesExt

CONSTANTS
  Driver,    \* the drivers looked at
  bufsz,     \* serial->config.bufsz
  MaxBytes   \* bound: bytes that arrive

ASSUME SerialAssumption ==
  /\ Driver \subseteq {"interrupt", "idle", "callbacks"}
  /\ bufsz \in Nat /\ bufsz > 1 /\ bufsz < 2 ^ 16   \* it has 16 bits
  /\ MaxBytes \in Nat

VARIABLES
  driver,     \* how the device was opened and is driven
  arrived,    \* bytes that have arrived; the DMA writes to arrived % bufsz
  buffer,     \* rx_fifo->buffer
  put_index,  \* rx_fifo->put_index
  get_index,  \* rx_fifo->get_index
  is_full,    \* rx_fifo->is_full
  last_index, \* uart->dma_rx.last_index
  quiet,      \* the line has become idle after the last byte
  idle_flag,  \* UART_FLAG_IDLE
  dma_flag,   \* a half or a complete transfer is to be reported
  uart_isr,   \* where uart_isr is
  dma_isr,    \* where dma_isr is
  recv_len,   \* the local variables recv_len of uart_isr and dma_isr
  reader,     \* where the reading thread is
  notice,     \* the semaphore that rx_indicate releases has a token
  counted,    \* history: arrived, when the DMA counter was read last
  got,        \* history: the byte handed to the reader last
  handed,     \* history: the bytes that the last call handed to the reader
  unread,     \* history: how many bytes there were to read at most
  raced,      \* history: uart_isr has read the counter behind dma_isr's back
  ahead       \* history: the reader got a byte that was not counted yet

fifo     == <<buffer, put_index, get_index, is_full>>
hardware == <<arrived, quiet, idle_flag, dma_flag>>
isr      == <<uart_isr, dma_isr, recv_len, last_index>>
user     == <<reader, notice>>
rx_history  == <<counted, got, handed, unread, raced, ahead>>
rx_vars     == <<driver, fifo, hardware, isr, user, rx_history>>

RxInit ==
  /\ driver \in Driver
  /\ buffer = [i \in 0 .. bufsz - 1 |-> 0]
  /\ put_index = 0 /\ get_index = 0 /\ is_full = FALSE
  /\ arrived = 0 /\ quiet = TRUE /\ idle_flag = FALSE /\ dma_flag = FALSE
  /\ uart_isr = "none" /\ dma_isr = "none"
  /\ recv_len = [uart |-> 0, dma |-> 0] /\ last_index = 0
  /\ reader = "read" /\ notice = FALSE
  /\ counted = 0 /\ got = 0 /\ handed = <<>> /\ unread = 0
  /\ raced = FALSE /\ ahead = FALSE

(***************************************************************************)
(* The receive FIFO of serial.c                                            *)
(***************************************************************************)
calc_recved_len ==
  CASE put_index = get_index -> IF is_full THEN bufsz ELSE 0
    [] put_index > get_index -> put_index - get_index
    [] OTHER                 -> bufsz - (get_index - put_index)

(* the bytes that can be read, in the order in which they will be *)
Contents == [i \in 1 .. calc_recved_len |-> buffer[(get_index + i - 1) % bufsz]]

(* mutant: a read of nothing empties a full FIFO, and no other read does *)
FullUntilEmptyRead(len) ==
  /\ is_full' = (is_full /\ len # 0)
  /\ get_index' = (get_index + len) % bufsz

rt_dma_recv_update_get_index(len) ==
  /\ is_full' = (is_full /\ len = 0)
  /\ get_index' = (get_index + len) % bufsz

(* len may be negative, as the driver computes it; put_index has 16 bits *)
rt_dma_recv_update_put_index(len) ==
  LET put     == (put_index + len) % 2 ^ 16
      wrapped == put % bufsz
      full    == \/ is_full
                 \/ /\ get_index <= put_index
                    /\ put >= bufsz /\ wrapped >= get_index
                 \/ get_index > put_index /\ put >= get_index
  IN  /\ put_index' = IF put >= bufsz THEN wrapped ELSE put
      /\ is_full' = full
      /\ get_index' = IF full THEN put_index' ELSE get_index

(* rx_indicate releases a semaphore that the reader waits for, if there is *)
(* anything to read                                                        *)
rx_indicate ==
  CASE calc_recved_len' = 0 -> UNCHANGED user
    [] calc_recved_len' > 0 /\ reader = "wait" -> reader' = "read" /\ UNCHANGED notice
    [] OTHER -> notice' = TRUE /\ UNCHANGED reader

(***************************************************************************)
(* A byte by interrupt: RT_SERIAL_EVENT_RX_IND                             *)
(***************************************************************************)
Received ==
  /\ arrived < MaxBytes
  /\ arrived' = arrived + 1
  /\ unread' = IF arrived + 1 - got > unread THEN arrived + 1 - got ELSE unread

(* when the FIFO is full, the oldest byte is given up *)
RxInd ==
  /\ driver = "interrupt"
  /\ Received
  /\ buffer' = [buffer EXCEPT ![put_index] = arrived + 1]
  /\ put_index' = (put_index + 1) % bufsz
  /\ IF put_index' = get_index
     THEN get_index' = (get_index + 1) % bufsz /\ is_full' = TRUE
     ELSE UNCHANGED <<get_index, is_full>>
  /\ rx_indicate
  /\ counted' = arrived + 1
  /\ UNCHANGED <<driver, quiet, idle_flag, dma_flag, isr, got, handed, raced,
                 ahead>>

(***************************************************************************)
(* A byte by DMA, at any moment, between the steps of a handler too.  A    *)
(* handler ends before the line becomes idle again, and the interrupt of   *)
(* the DMA is taken before the next byte has come in.                      *)
(***************************************************************************)
DmaWrites ==
  /\ driver # "interrupt"
  /\ ~dma_flag
  /\ Received
  /\ buffer' = [buffer EXCEPT ![arrived % bufsz] = arrived + 1]
  /\ dma_flag' = /\ driver = "callbacks"
                 /\ (arrived + 1) % bufsz \in {0, bufsz \div 2}
  /\ quiet' = FALSE
  /\ UNCHANGED <<driver, put_index, get_index, is_full, idle_flag, isr, user,
                 counted, got, handed, raced, ahead>>

LineIdle ==
  /\ ~quiet /\ uart_isr = "none"
  /\ quiet' = TRUE /\ idle_flag' = TRUE
  /\ UNCHANGED <<driver, fifo, arrived, dma_flag, isr, user, rx_history>>

(***************************************************************************)
(* uart_isr and dma_isr of drv_usart.c.  The interrupt of the DMA is more  *)
(* urgent: it may come between any two steps of uart_isr.                  *)
(***************************************************************************)
(* bufsz - __HAL_DMA_GET_COUNTER: the counter is reloaded at the end *)
recv_total_index == arrived % bufsz

IdleEnter ==
  /\ uart_isr = "none" /\ dma_isr = "none" /\ idle_flag /\ ~dma_flag
  /\ uart_isr' = "entered"
  /\ UNCHANGED <<driver, fifo, hardware, dma_isr, recv_len, last_index, user,
                 rx_history>>

(* mutant: what has been counted is not remembered *)
IdleCountForgets ==
  /\ uart_isr = "entered" /\ dma_isr = "none"
  /\ uart_isr' = "counted"
  /\ recv_len' = [recv_len EXCEPT !.uart = recv_total_index - last_index]
  /\ counted' = arrived
  /\ raced' = (raced \/ dma_flag)
  /\ UNCHANGED <<driver, fifo, hardware, dma_isr, last_index, user, got, handed,
                 unread, ahead>>

IdleCount ==
  /\ uart_isr = "entered" /\ dma_isr = "none"
  /\ uart_isr' = "counted"
  /\ recv_len' = [recv_len EXCEPT !.uart = recv_total_index - last_index]
  /\ last_index' = recv_total_index
  /\ counted' = arrived
  /\ raced' = (raced \/ dma_flag)
  /\ UNCHANGED <<driver, fifo, hardware, dma_isr, user, got, handed, unread,
                 ahead>>

(* RT_SERIAL_EVENT_RX_DMADONE, and the end of uart_isr *)
IdleReport ==
  /\ uart_isr = "counted" /\ dma_isr = "none"
  /\ IF recv_len.uart # 0
     THEN rt_dma_recv_update_put_index(recv_len.uart) /\ rx_indicate
     ELSE UNCHANGED <<put_index, get_index, is_full, user>>
  /\ uart_isr' = "none" /\ idle_flag' = FALSE
  /\ recv_len' = [recv_len EXCEPT !.uart = 0]
  /\ UNCHANGED <<driver, buffer, arrived, quiet, dma_flag, dma_isr, last_index,
                 rx_history>>

DmaCount ==
  /\ dma_flag /\ dma_isr = "none"
  /\ dma_flag' = FALSE
  /\ dma_isr' = "counted"
  /\ recv_len' = [recv_len EXCEPT !.dma =
       IF recv_total_index = 0 THEN bufsz - last_index
       ELSE recv_total_index - last_index]
  /\ last_index' = recv_total_index
  /\ counted' = arrived
  /\ UNCHANGED <<driver, fifo, arrived, quiet, idle_flag, uart_isr, user, got,
                 handed, unread, raced, ahead>>

DmaReport ==
  /\ dma_isr = "counted"
  /\ IF recv_len.dma # 0
     THEN rt_dma_recv_update_put_index(recv_len.dma) /\ rx_indicate
     ELSE UNCHANGED <<put_index, get_index, is_full, user>>
  /\ dma_isr' = "none"
  /\ recv_len' = [recv_len EXCEPT !.dma = 0]
  /\ UNCHANGED <<driver, buffer, hardware, uart_isr, last_index, rx_history>>

(***************************************************************************)
(* The reader: rt_device_read, and if it returns 0 the wait for a notice.  *)
(* A thread runs when no handler does; one whose read has interrupts       *)
(* disabled runs although an interrupt is pending.                         *)
(***************************************************************************)
Runs == uart_isr = "none" /\ dma_isr = "none"

HandOver(k) ==
  /\ handed' = SubSeq(Contents, 1, k)
  /\ got' = Contents[k]
  /\ ahead' = (ahead \/ \E i \in 1 .. k : Contents[i] > counted)

(* one turn of the loop in _serial_int_rx *)
ReadInt ==
  /\ driver = "interrupt" /\ Runs
  /\ reader = "read" /\ calc_recved_len > 0
  /\ HandOver(1)
  /\ get_index' = (get_index + 1) % bufsz
  /\ is_full' = FALSE
  /\ UNCHANGED <<driver, buffer, put_index, hardware, isr, user, counted,
                 unread, raced>>

ReadDma(length) ==
  /\ driver # "interrupt" /\ Runs
  /\ reader = "read" /\ calc_recved_len > 0
  /\ LET k == IF length < calc_recved_len THEN length ELSE calc_recved_len
     IN  /\ HandOver(k)
         /\ rt_dma_recv_update_get_index(k)
  /\ UNCHANGED <<driver, buffer, put_index, hardware, isr, user, counted,
                 unread, raced>>

ReadNothing ==
  /\ Runs
  /\ reader = "read" /\ calc_recved_len = 0
  /\ reader' = "take"
  /\ UNCHANGED <<driver, fifo, hardware, isr, notice, rx_history>>

(* The largest number of unread bytes that each driver copes with: an idle  *)
(* line after bufsz bytes finds the counter where it was.                   *)
Room == IF driver = "callbacks" THEN bufsz ELSE bufsz - 1

Kept == unread <= Room /\ ~raced

(* rt_sem_take.  When the FIFO is empty and the line quiet, what an overrun *)
(* has cost is settled and the histories begin anew.                        *)
Take ==
  /\ Runs
  /\ reader = "take"
  /\ notice' = FALSE
  /\ IF notice THEN reader' = "read" /\ UNCHANGED <<got, unread, raced, ahead>>
     ELSE /\ reader' = "wait"
          /\ IF quiet /\ ~idle_flag /\ ~dma_flag /\ calc_recved_len = 0 /\ ~Kept
             THEN /\ got' = arrived /\ unread' = 0
                  /\ raced' = FALSE /\ ahead' = FALSE
             ELSE UNCHANGED <<got, unread, raced, ahead>>
  /\ UNCHANGED <<driver, fifo, hardware, isr, counted, handed>>

RxNext ==
  \/ RxInd \/ DmaWrites \/ LineIdle
  \/ IdleEnter \/ IdleCount \/ IdleReport \/ DmaCount \/ DmaReport
  \/ ReadInt \/ (\E length \in {1, bufsz} : ReadDma(length))
  \/ ReadNothing \/ Take

RxSpec == RxInit /\ [][RxNext]_rx_vars

(***************************************************************************)
(* Properties                                                              *)
(***************************************************************************)
RxTypeOK ==
  /\ driver \in Driver
  /\ arrived \in 0 .. MaxBytes
  /\ buffer \in [0 .. bufsz - 1 -> 0 .. MaxBytes]
  /\ put_index \in 0 .. bufsz - 1 /\ get_index \in 0 .. bufsz - 1
  /\ last_index \in 0 .. bufsz - 1
  /\ is_full \in BOOLEAN /\ quiet \in BOOLEAN /\ idle_flag \in BOOLEAN
  /\ dma_flag \in BOOLEAN /\ notice \in BOOLEAN
  /\ raced \in BOOLEAN /\ ahead \in BOOLEAN
  /\ uart_isr \in {"none", "entered", "counted"}
  /\ dma_isr \in {"none", "counted"}
  /\ recv_len \in [{"uart", "dma"} -> -bufsz .. bufsz]
  /\ reader \in {"read", "take", "wait"}
  /\ counted \in 0 .. MaxBytes /\ got \in 0 .. MaxBytes
  /\ handed \in Seq(1 .. MaxBytes)
  /\ unread \in 0 .. MaxBytes

(* The FIFO holds every byte that was counted and not read yet, in order,   *)
(* and a reader that waits on a quiet line has had all of them.             *)
Complete ==
  Runs =>
    /\ Contents = [i \in 1 .. counted - got |-> got + i]
    /\ reader = "wait" /\ quiet /\ ~idle_flag /\ ~dma_flag => got = arrived

(* Nothing is lost, repeated or left lying unnoticed as long as the unread  *)
(* bytes fit into the FIFO - all but one place of it when only an idle line *)
(* is counted - and a byte that goes round to the start of the buffer does  *)
(* not come while uart_isr is about to read the counter.  By interrupt, the *)
(* FIFO always holds the last bytes, as many as fit.                        *)
NothingLost ==
  /\ RxTypeOK
  /\ Kept => Complete
  /\ driver = "interrupt" =>
       LET k == IF arrived - got < bufsz THEN arrived - got ELSE bufsz - 1
       IN  Contents = [i \in 1 .. k |-> arrived - k + i]

(* Whatever was overrun, no byte is handed out twice or after a later one - *)
(* until the reader has got one in the place of a byte that the DMA has     *)
(* written over and not counted yet.                                        *)
ReadInOrder ==
  [][ (ReadInt \/ \E length \in {1, bufsz} : ReadDma(length))
        /\ ~raced /\ ~ahead' =>
          \A i \in 1 .. Len(handed') :
            handed'[i] > (<<got>> \o handed')[i] ]_rx_vars
=============================================================================
