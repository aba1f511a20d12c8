----------------------------------- MODULE Uart -----------------------------------
(***************************************************************************)
(* The commands of the MCU: a parser that takes one byte at a time puts    *)
(* frames together from the chunks of UartRx, a timer throws away a frame  *)
(* that does not come to its end, and a report of data points is answered. *)
(* While firmware is updated all bytes are dropped.                        *)
(*                                                                         *)
(* Not told apart: which code a report is answered with, and what becomes  *)
(* of frames of the factory test and of debugging, which have no answer    *)
(* here. The clock is not modelled: a running timer may expire, except     *)
(* where Prompt says that too little time has passed.                      *)
(***************************************************************************)
EXTENDS UartRx, SequencesExt

CONSTANTS UART_FRAME_MAX,
          Sent,         \* what the MCU sends at a time: [bytes, frames], with
                        \* how many reports it is, 0 for anything else
          Cuts          \* where a chunk may end inside of it

VARIABLES mcu,              \* what the MCU still has to send
          status,           \* of the parser: the part of a frame that comes next
          uart_rx_buffer,   \* the frame so far, of length uart_rx_len
          rx_timer,         \* TIMER_UART_RX_TIMEOUT runs
          updating,         \* tuya_get_ota_status() is not NONE
          settled,          \* history: since it was last silent, the MCU has sent
                            \* only reports, and no update began
          owed, answered    \* history: the reports since then and the answers,
                            \* as long as settled holds

vars == <<rxVars, mcu, status, uart_rx_buffer, rx_timer, updating, settled, owed, answered>>

Init == /\ RxInit
        /\ mcu = <<>>
        /\ status = 0 /\ uart_rx_buffer = <<>> /\ rx_timer = FALSE
        /\ updating = FALSE
        /\ settled = FALSE /\ owed = 0 /\ answered = 0

-----------------------------------------------------------------------------
(***************************************************************************)
(* The parser. A frame is a header of two bytes, version, command, two     *)
(* bytes of length, the data and a checksum. What is left in the buffer    *)
(* when the status is 0 is not read any more, and is left out.             *)
(***************************************************************************)
Header == {85, 102, 119}
Second == 170
TY_SEND_STATUS_TYPE == 7

check_sum(buffer) == FoldLeft(LAMBDA sum, byte : (sum + byte) % 256, 0, buffer)

DataLen(buffer) == 256 * buffer[5] + buffer[6]

Parser(st, buffer, timer) == [status |-> st, buffer |-> buffer, timer |-> timer]

(* Faulty form: the timer is stopped as soon as the length is known.       *)
TimerStopsEarly(s) == s.status # 5
TimerGoesOn(s) == TRUE

(* After the length: the checksum, the data, or nothing as it is too much. *)
AfterLength(n) == IF n = 0 THEN 7 ELSE IF n <= UART_FRAME_MAX - 7 THEN 6 ELSE 0

uart_data_unpack(s, data) ==
    LET b == Append(s.buffer, data)
        goes_on(st) == Parser(st, IF st = 0 THEN <<>> ELSE b, s.timer /\ TimerGoesOn(s))
    IN  CASE s.status = 0 -> IF data \in Header THEN Parser(1, <<data>>, TRUE) ELSE s
          [] s.status = 1 -> IF data = Second THEN goes_on(2)
                             ELSE IF data \in Header THEN Parser(1, <<data>>, s.timer)
                             ELSE goes_on(0)
          [] s.status \in 2 .. 4 -> goes_on(s.status + 1)
          [] s.status = 5 -> goes_on(AfterLength(DataLen(b)))
          [] s.status = 6 -> goes_on(IF Len(b) >= DataLen(b) + 6 THEN 7 ELSE 6)
          [] s.status = 7 -> Parser(0, <<>>, FALSE)

(* The frame is complete with this byte.                                   *)
Intact(s, data) == s.status = 7 /\ check_sum(s.buffer) = data

(* tuya_uart_common_handler answers a report of the version it knows.      *)
Answered(buffer) == buffer[1] = 85 /\ buffer[3] = 0 /\ buffer[4] = TY_SEND_STATUS_TYPE

-----------------------------------------------------------------------------
(* A report as the protocol has it, with no more data than there is room   *)
(* for, and n of them one behind the other, each up to one of the ends.    *)
IsReport(bytes) ==
    /\ Len(bytes) \in 7 .. UART_FRAME_MAX /\ Len(bytes) = DataLen(bytes) + 7
    /\ bytes[2] = Second /\ Answered(bytes)
    /\ check_sum(Front(bytes)) = Last(bytes)

ReportsEnd(bytes, ends, n) ==
    /\ ends[0] = 0 /\ ends[n] = Len(bytes)
    /\ \A i, j \in 0 .. n : i < j => ends[i] < ends[j]
    /\ \A i \in 1 .. n : IsReport(SubSeq(bytes, ends[i - 1] + 1, ends[i]))

IsReports(bytes, n) == \E ends \in [0 .. n -> 0 .. Len(bytes)] : ReportsEnd(bytes, ends, n)

ASSUME UartAssumption ==
    /\ UART_FRAME_MAX \in Nat /\ UART_FRAME_MAX >= 8
    /\ \A m \in Sent : /\ m.bytes \in Seq(0 .. 255) /\ m.frames \in Nat
                       /\ m.frames > 0 => IsReports(m.bytes, m.frames)
    /\ Cuts \subseteq Nat

(* The MCU, its chunks, and the interrupt at the end of one.               *)
McuSends == \E m \in Sent :
    /\ mcu = <<>> /\ arrived < MaxChunks
    /\ mcu' = m.bytes
    /\ settled' = (settled /\ m.frames > 0)
    /\ owed' = IF settled' THEN owed + m.frames ELSE 0
    /\ answered' = IF settled' THEN answered ELSE 0
    /\ UNCHANGED <<rxVars, status, uart_rx_buffer, rx_timer, updating>>

ChunkBegins ==
    /\ mcu # <<>>
    /\ DmaStores
    /\ UNCHANGED <<mcu, status, uart_rx_buffer, rx_timer, updating, settled, owed, answered>>

ChunkEnds == \E k \in 1 .. Len(mcu) :
    /\ k \in Cuts \/ k = Len(mcu)
    /\ irq_handler(SubSeq(mcu, 1, k))
    /\ mcu' = SubSeq(mcu, k + 1, Len(mcu))
    /\ UNCHANGED <<status, uart_rx_buffer, rx_timer, updating, settled, owed, answered>>

(* rx_from_uart_cb.                                                        *)
TakesChunk ==
    /\ my_fifo_get
    /\ UNCHANGED <<mcu, status, uart_rx_buffer, rx_timer, updating, settled, owed, answered>>

tuya_uart_rx_handler ==
    /\ ~updating
    /\ ReadsByte
    /\ LET data == slot[p].bytes[index + 1]
           s == Parser(status, uart_rx_buffer, rx_timer)
           t == uart_data_unpack(s, data)
       IN  /\ status' = t.status /\ uart_rx_buffer' = t.buffer /\ rx_timer' = t.timer
           /\ answered' = IF settled /\ Intact(s, data) /\ Answered(s.buffer)
                          THEN answered + 1 ELSE answered
    /\ UNCHANGED <<mcu, updating, settled, owed>>

FreesChunk ==
    /\ my_fifo_pop
    /\ updating \/ index >= Len(slot[p].bytes)
    /\ UNCHANGED <<mcu, status, uart_rx_buffer, rx_timer, updating, settled, owed, answered>>

MainLoop == TakesChunk \/ tuya_uart_rx_handler \/ FreesChunk

(* The timers, and the update, have their turns between two chunks.        *)
InFlight == mcu # <<>> \/ Behind # 0

(* A report without noise before it takes less than the timeout.           *)
Prompt == settled /\ InFlight

(* Faulty form: the frame is not thrown away.                              *)
TimeoutKeepsFrame ==
    /\ p = NONE /\ rx_timer /\ ~Prompt
    /\ rx_timer' = FALSE
    /\ UNCHANGED <<rxVars, mcu, status, uart_rx_buffer, updating, settled, owed, answered>>

uart_timeout_handler ==
    /\ p = NONE /\ rx_timer /\ ~Prompt
    /\ rx_timer' = FALSE
    /\ status' = 0 /\ uart_rx_buffer' = <<>>
    /\ UNCHANGED <<rxVars, mcu, updating, settled, owed, answered>>

UpdateBeginsOrEnds ==
    /\ p = NONE
    /\ updating' = ~updating
    /\ settled' = FALSE /\ owed' = 0 /\ answered' = 0
    /\ UNCHANGED <<rxVars, mcu, status, uart_rx_buffer, rx_timer>>

(* The MCU has been silent for longer than the timeout.                    *)
Silence ==
    /\ ~InFlight /\ ~rx_timer /\ ~updating
    /\ settled' = TRUE /\ owed' = 0 /\ answered' = 0
    /\ UNCHANGED <<rxVars, mcu, status, uart_rx_buffer, rx_timer, updating>>

Next == McuSends \/ ChunkBegins \/ ChunkEnds \/ MainLoop
        \/ uart_timeout_handler \/ UpdateBeginsOrEnds \/ Silence

Spec == Init /\ [][Next]_vars /\ WF_vars(ChunkEnds) /\ WF_vars(MainLoop)

-----------------------------------------------------------------------------
(* Whenever a frame has begun the timer runs that will throw it away if it *)
(* does not come to its end: bytes lost on the wire, or dropped in an      *)
(* update, do not leave the parser in the middle of a frame for ever.      *)
FrameIsWatched == status # 0 => rx_timer

(* The parser's checks of uart_rx_len before it stores never fail, so no   *)
(* byte of a frame is left out of the buffer or written behind it.         *)
FrameFits == Len(uart_rx_buffer) <= UART_FRAME_MAX - 1

(* Whatever came before, noise, half a frame or an update: once the MCU    *)
(* was silent for the timeout, each of its reports is answered once,       *)
(* however it is cut into chunks and whenever the main loop reads them.    *)
CleanFramesAnswered == settled /\ ~InFlight => answered = owed

===============================================================================
