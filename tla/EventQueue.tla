------------------------------ MODULE EventQueue ------------------------------
(***************************************************************************)
(* The event scheduler of the SDK, tuya_ble_event.c (TUYA_BLE_USE_OS = 0): *)
(* a ring of m_queue_size + 1 slots, one of which stays free, with a       *)
(* producer (tuya_ble_message_send, called by the main loop between two    *)
(* passes or by the handler of an event during one) and one consumer,      *)
(* tuya_sched_execute, that the main loop runs once per turn.              *)
(*                                                                         *)
(* On this port nothing posts from an interrupt: the controller's          *)
(* callbacks, the UART and the software timers all run in the main loop.   *)
(* A post is therefore one step.                                           *)
(***************************************************************************)
EXTENDS Naturals, Sequences

CONSTANTS Event,          \* the events that can be posted
          NoEvent,        \* content of a slot nobody has written yet
          m_queue_size    \* number of usable entries (TUYA_BLE_EVT_MAX_NUM)

(* The indices are uint8_t and run from 0 to m_queue_size inclusive. *)
ASSUME QueueSizeAssumption == m_queue_size \in 1 .. 255
ASSUME EventAssumption == NoEvent \notin Event

VARIABLES m_queue_start_index, m_queue_end_index, m_queue_event_data,
          pc,        \* where tuya_sched_execute stands
          end_ix,    \* its local: the end index when the pass began
          evt,       \* its static buffer: the event last taken
          err_code   \* result of the last tuya_ble_sched_event_put

schedVars == <<m_queue_start_index, m_queue_end_index, m_queue_event_data,
              pc, end_ix, evt, err_code>>

Index == 0 .. m_queue_size

(* A faulty form of each definition that matters stands before it, under   *)
(* the name of the slip it shows; no specification here uses one. The runs *)
(* in PROJECT.json put them in to see the properties fail.                 *)

NextIndexPastTheRing(index) == IF index <= m_queue_size THEN index + 1 ELSE 0

next_index(index) == IF index < m_queue_size THEN index + 1 ELSE 0

QueueNeverFull == FALSE

tuya_sched_queue_full == next_index(m_queue_end_index) = m_queue_start_index

(* Number of slots from index a up to, and without, index b. *)
Distance(a, b) == IF b >= a THEN b - a ELSE m_queue_size + 1 - a + b

tuya_ble_sched_queue_events_get ==
    Distance(m_queue_start_index, m_queue_end_index)

-------------------------------------------------------------------------------

SchedInit == /\ m_queue_start_index = 0
             /\ m_queue_end_index = 0
             /\ m_queue_event_data = [i \in Index |-> NoEvent]
             /\ pc = "idle"
             /\ end_ix = 0
             /\ evt = NoEvent
             /\ err_code = "SUCCESS"

(* tuya_ble_message_send: by the main loop between passes or by a handler. *)
tuya_ble_sched_event_put(e) ==
    /\ pc \in {"idle", "handling"}
    /\ IF tuya_sched_queue_full
       THEN /\ err_code' = "NO_MEM"
            /\ UNCHANGED <<m_queue_end_index, m_queue_event_data>>
       ELSE /\ m_queue_end_index' = next_index(m_queue_end_index)
            /\ m_queue_event_data' =
                  [m_queue_event_data EXCEPT ![m_queue_end_index] = e]
            /\ err_code' = "SUCCESS"
    /\ UNCHANGED <<m_queue_start_index, pc, end_ix, evt>>

SnapshotOneTooFar == /\ pc = "idle"
                     /\ pc' = "loop"
                     /\ end_ix' = next_index(m_queue_end_index)
                     /\ UNCHANGED <<m_queue_start_index, m_queue_end_index,
                                    m_queue_event_data, evt, err_code>>

(* tuya_sched_execute is entered and remembers where the queue ends now. *)
ExecuteBegin == /\ pc = "idle"
                /\ pc' = "loop"
                /\ end_ix' = m_queue_end_index
                /\ UNCHANGED <<m_queue_start_index, m_queue_end_index,
                               m_queue_event_data, evt, err_code>>

PassUntilEmpty == m_queue_start_index = m_queue_end_index

PassOneShort == end_ix \in {m_queue_start_index,
                            next_index(m_queue_start_index)}

(* The loop's condition; the one in the comment beside it, "until the      *)
(* queue is empty", is not the one compiled.                               *)
PassDone == m_queue_start_index = end_ix

SlotFreedBeforeHandling ==
    /\ pc = "loop"
    /\ ~PassDone
    /\ evt' = m_queue_event_data[m_queue_start_index]
    /\ m_queue_start_index' = next_index(m_queue_start_index)
    /\ pc' = "handling"
    /\ UNCHANGED <<m_queue_end_index, m_queue_event_data, end_ix, err_code>>

(* The loop copies the oldest event out and calls tuya_ble_event_process. *)
TakeEvent == /\ pc = "loop"
             /\ ~PassDone
             /\ evt' = m_queue_event_data[m_queue_start_index]
             /\ pc' = "handling"
             /\ UNCHANGED <<m_queue_start_index, m_queue_end_index,
                            m_queue_event_data, end_ix, err_code>>

(* Only then is the slot given back to the producers. *)
HandlerReturns == /\ pc = "handling"
                  /\ m_queue_start_index' = next_index(m_queue_start_index)
                  /\ pc' = "loop"
                  /\ UNCHANGED <<m_queue_end_index, m_queue_event_data,
                                 end_ix, evt, err_code>>

ExecuteEnd == /\ pc = "loop"
              /\ PassDone
              /\ pc' = "idle"
              /\ UNCHANGED <<m_queue_start_index, m_queue_end_index,
                             m_queue_event_data, end_ix, evt, err_code>>

Execute == ExecuteBegin \/ TakeEvent \/ HandlerReturns \/ ExecuteEnd

SchedNext == (\E e \in Event : tuya_ble_sched_event_put(e)) \/ Execute

SchedSafeSpec == SchedInit /\ [][SchedNext]_schedVars

(* main_loop never stops calling tuya_ble_main_tasks_exec, and every       *)
(* handler returns.                                                        *)
SchedSpec == SchedSafeSpec /\ WF_schedVars(Execute)

-------------------------------------------------------------------------------
(***************************************************************************)
(* Correctness.                                                            *)
(***************************************************************************)

(* Every variable has its type. *)
TypeOK == /\ m_queue_start_index \in Index
          /\ m_queue_end_index \in Index
          /\ m_queue_event_data \in [Index -> Event \cup {NoEvent}]
          /\ pc \in {"idle", "loop", "handling"}
          /\ end_ix \in Index
          /\ evt \in Event \cup {NoEvent}
          /\ err_code \in {"SUCCESS", "NO_MEM"}

(* The end index remembered by a pass stays between the start and the end  *)
(* of the queue however many events the handlers post and wherever the     *)
(* indices wrap: a pass can neither run past the events that exist nor     *)
(* miss its own end and go round the ring.                                 *)
SnapshotInQueue ==
    pc # "idle" =>
        /\ Distance(m_queue_start_index, end_ix)
              <= Distance(m_queue_start_index, m_queue_end_index)
        /\ pc = "handling" => m_queue_start_index # end_ix

(* The event being handled still owns its slot: no post made by its own    *)
(* handler, or by anything it calls, overwrites it.                        *)
HandledSlotIntact ==
    pc = "handling" => evt = m_queue_event_data[m_queue_start_index]

(* The k-th oldest event is in this slot, k = 1, 2, ... *)
Slot(k) == IF m_queue_start_index + k - 1 <= m_queue_size
           THEN m_queue_start_index + k - 1
           ELSE m_queue_start_index + k - 1 - (m_queue_size + 1)

queue == [k \in 1 .. tuya_ble_sched_queue_events_get |->
             m_queue_event_data[Slot(k)]]

Fifo == INSTANCE EventFifo WITH Capacity <- m_queue_size,
                                busy <- pc = "handling"

(* The ring implements the bounded first-in first-out queue: events are    *)
(* handled in the order they were posted, each exactly once, and a post    *)
(* fails exactly when m_queue_size events wait, the one being handled      *)
(* included.                                                               *)
FifoSafety == Fifo!SafeSpec

(* No event that was accepted is left in the ring for ever, whatever the   *)
(* handlers post meanwhile.                                                *)
FifoFairness == Fifo!Fairness

(* A pass ends even when every handler posts new events: what is posted    *)
(* during a pass waits for the next one, so the BLE stack, which the main  *)
(* loop serves between passes, is not starved.                             *)
PassEnds == pc # "idle" ~> pc = "idle"

=============================================================================
