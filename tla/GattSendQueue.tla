----------------------------- MODULE GattSendQueue -----------------------------
(***************************************************************************)
(* tuya_ble_gatt_send_queue.c: packets for the phone wait in a circular    *)
(* queue of heap buffers until the controller takes them. When it refuses  *)
(* one, the handler posts an event to itself and tries again on the next   *)
(* pass of the event scheduler.                                            *)
(*                                                                         *)
(* The scheduler is the bounded first-in first-out queue of EventFifo,     *)
(* which EventQueue implements: here `events`. The handler of an event     *)
(* that may send packets, "cmd", is a sequence of steps; the others are    *)
(* one step each. What the module needs to know of the connection status   *)
(* is whether it is one of the two UNCONN states.                          *)
(***************************************************************************)
EXTENDS Queue

CONSTANTS EventCapacity,  \* TUYA_BLE_EVT_MAX_NUM
          MaxPackets      \* bound on the packets accepted in a behaviour

ASSUME CapacityAssumption == EventCapacity \in Nat \ {0}
ASSUME PacketAssumption == MaxPackets \in Nat /\ Elem = 1 .. MaxPackets

VARIABLES
    link,             \* the controller has a connection
    term_pending,     \* its termination has not been reported yet
    unconn,           \* tuya_ble_connect_status is one of the UNCONN states
    events,           \* the event scheduler
    in_cmd,           \* the handler of a "cmd" event is running
    gatt_send_queue,
    gatt_queue_flag,
    heap,             \* the packet buffers that are allocated
    accepted,         \* how many packets have been accepted so far
    sent,             \* the packets the controller took, in that order
    dropped           \* the packets given up

packetVars == <<gatt_send_queue, gatt_queue_flag, heap, accepted, sent, dropped>>
linkVars == <<link, term_pending>>
vars == <<linkVars, unconn, events, in_cmd, packetVars>>

EventKind == {"connected", "disconnected", "gatt_send", "cmd"}

EventsFull == Len(events) = EventCapacity

(* The events after a post: a post that finds the queue full is lost.      *)
WithEvent(e) == IF EventsFull THEN events ELSE Append(events, e)

Running(e) == /\ ~in_cmd
              /\ events # <<>>
              /\ Head(events) = e

Init == /\ link = FALSE
        /\ term_pending = FALSE
        /\ unconn = TRUE
        /\ events = <<>>
        /\ in_cmd = FALSE
        /\ gatt_send_queue = tuya_ble_queue_init
        /\ gatt_queue_flag = 0
        /\ heap = {}
        /\ accepted = 0
        /\ sent = <<>>
        /\ dropped = {}

-------------------------------------------------------------------------------
(***************************************************************************)
(* The connection. The link can be lost at any time; the controller's      *)
(* callbacks run in the main loop and their result is not looked at        *)
(* further than a log line when the event queue is full.                   *)
(***************************************************************************)

tuya_ble_connected_handler == /\ ~link /\ ~term_pending /\ ~in_cmd
                              /\ link' = TRUE
                              /\ events' = WithEvent("connected")
                              /\ UNCHANGED <<term_pending, unconn, in_cmd, packetVars>>

LinkLost == /\ link
            /\ link' = FALSE
            /\ term_pending' = TRUE
            /\ UNCHANGED <<unconn, events, in_cmd, packetVars>>

tuya_ble_disconnected_handler == /\ term_pending /\ ~in_cmd
                                 /\ term_pending' = FALSE
                                 /\ events' = WithEvent("disconnected")
                                 /\ UNCHANGED <<link, unconn, in_cmd, packetVars>>

(* tuya_ble_handle_connect_change_evt, as far as this module is concerned. *)
ConnectChange == \E e \in {"connected", "disconnected"} :
                    /\ Running(e)
                    /\ unconn' = (e = "disconnected")
                    /\ events' = Tail(events)
                    /\ UNCHANGED <<linkVars, in_cmd, packetVars>>

(* Any other event, posted by the main loop or by the handler of one.      *)
PostCmd == /\ events' = WithEvent("cmd")
           /\ UNCHANGED <<linkVars, unconn, in_cmd, packetVars>>

-------------------------------------------------------------------------------

Range1(s, m, n) == {s[i] : i \in m .. n}

(* After n packets the controller refuses the next one. The status decides *)
(* before the controller is asked.                                         *)
Refused(q, n) == ~unconn /\ n < q.used

RetryResultIgnored(q, n) == Refused(q, n)

(* The rest of the queue is kept only if the retry event could be posted.  *)
Kept(q, n) == Refused(q, n) /\ ~EventsFull

(* n packets are sent and their buffers freed; the rest waits.             *)
RestWaits(q, flag, live, n) ==
    /\ gatt_send_queue' = tuya_ble_queue_decrease(q, n)
    /\ gatt_queue_flag' = flag
    /\ heap' = live \ Range1(Elements(q), 1, n)
    /\ dropped' = dropped

FlagLeftSet(q, live, n) ==
    /\ gatt_send_queue' = tuya_ble_queue_flush(q)
    /\ gatt_queue_flag' = 1
    /\ heap' = live \ Range1(Elements(q), 1, q.used)
    /\ dropped' = dropped \cup Range1(Elements(q), n + 1, q.used)

RestNotFreed(q, live, n) ==
    /\ gatt_send_queue' = tuya_ble_queue_flush(q)
    /\ gatt_queue_flag' = 0
    /\ heap' = live \ Range1(Elements(q), 1, n)
    /\ dropped' = dropped \cup Range1(Elements(q), n + 1, q.used)

(* n packets are sent and tuya_ble_gatt_send_queue_free gives up the rest. *)
QueueEmptied(q, live, n) ==
    /\ gatt_send_queue' = tuya_ble_queue_flush(q)
    /\ gatt_queue_flag' = 0
    /\ heap' = live \ Range1(Elements(q), 1, q.used)
    /\ dropped' = dropped \cup Range1(Elements(q), n + 1, q.used)

(***************************************************************************)
(* tuya_ble_gatt_send_data_handle on queue q, with `live` the allocated    *)
(* buffers: n packets go out, then the queue is empty, or the controller   *)
(* refuses one and `retry` tells that a retry is posted; if that fails     *)
(* too, or the status is unconnected, the rest is given up. `flag` is the  *)
(* flag the handler finds, which it only ever clears.                      *)
(***************************************************************************)
tuya_ble_gatt_send_data_handle(q, flag, live, retry) ==
    \E n \in 0 .. q.used :
        /\ n > 0 => link /\ ~unconn
        /\ retry = Refused(q, n)
        /\ sent' = sent \o SubSeq(Elements(q), 1, n)
        /\ \/ Kept(q, n) /\ RestWaits(q, flag, live, n)
           \/ ~Kept(q, n) /\ QueueEmptied(q, live, n)

(* The retry event: while its handler runs it still takes a place among    *)
(* the events, next to the one it posts.                                   *)
GattSendEvent ==
    /\ Running("gatt_send")
    /\ \E retry \in BOOLEAN :
          /\ tuya_ble_gatt_send_data_handle(gatt_send_queue, gatt_queue_flag,
                                            heap, retry)
          /\ events' = Tail(IF retry THEN WithEvent("gatt_send") ELSE events)
    /\ UNCHANGED <<linkVars, unconn, in_cmd, accepted>>

-------------------------------------------------------------------------------
(***************************************************************************)
(* The handler of any other event.                                         *)
(***************************************************************************)

CmdBegin == /\ Running("cmd")
            /\ in_cmd' = TRUE
            /\ UNCHANGED <<linkVars, unconn, events, packetVars>>

CmdEnd == /\ in_cmd
          /\ in_cmd' = FALSE
          /\ events' = Tail(events)
          /\ UNCHANGED <<linkVars, unconn, packetVars>>

(* It may pair (BONDING_CONN) or unbind (UNBONDING_UNCONN). *)
StatusSet == /\ in_cmd
             /\ unconn' \in BOOLEAN
             /\ UNCHANGED <<linkVars, events, in_cmd, packetVars>>

(* It may send packets. tuya_ble_malloc can fail, which changes nothing,   *)
(* and so does a full queue: its buffer is freed again. Otherwise the      *)
(* first packet of an empty queue goes out at once.                        *)
tuya_ble_gatt_send_data_enqueue ==
    /\ in_cmd
    /\ accepted < MaxPackets
    /\ ~tuya_ble_queue_full(gatt_send_queue)
    /\ LET p == accepted + 1
           q == tuya_ble_enqueue(gatt_send_queue, p)
       IN /\ accepted' = p
          /\ IF gatt_queue_flag = 0
             THEN \E retry \in BOOLEAN :
                     /\ tuya_ble_gatt_send_data_handle(q, 1, heap \cup {p}, retry)
                     /\ events' = IF retry THEN WithEvent("gatt_send")
                                           ELSE events
             ELSE /\ gatt_send_queue' = q
                  /\ heap' = heap \cup {p}
                  /\ UNCHANGED <<events, gatt_queue_flag, sent, dropped>>
    /\ UNCHANGED <<linkVars, unconn, in_cmd>>

Schedule == ConnectChange \/ GattSendEvent \/ CmdBegin \/ CmdEnd

Next == \/ tuya_ble_connected_handler
        \/ LinkLost
        \/ tuya_ble_disconnected_handler
        \/ PostCmd
        \/ Schedule
        \/ StatusSet
        \/ tuya_ble_gatt_send_data_enqueue

SafeSpec == Init /\ [][Next]_vars

(* The main loop goes on running the scheduler and handlers return. A      *)
(* controller with a link that is asked again and again takes a packet.    *)
Spec == /\ SafeSpec
        /\ WF_vars(Schedule)
        /\ SF_vars(GattSendEvent /\ sent' # sent)

-------------------------------------------------------------------------------
(***************************************************************************)
(* Correctness.                                                            *)
(***************************************************************************)

Queued == Elements(gatt_send_queue)

(* Every variable has its type, and the positions of the circular queue    *)
(* agree with its count.                                                   *)
TypeOK == /\ link \in BOOLEAN /\ term_pending \in BOOLEAN
          /\ unconn \in BOOLEAN /\ in_cmd \in BOOLEAN
          /\ events \in Seq(EventKind) /\ Len(events) <= EventCapacity
          /\ gatt_send_queue \in QueueType
          /\ PositionsAgree(gatt_send_queue)
          /\ gatt_queue_flag \in {0, 1}
          /\ accepted \in 0 .. MaxPackets
          /\ heap \subseteq Elem /\ dropped \subseteq Elem
          /\ sent \in Seq(Elem)

Retries == {i \in 1 .. Len(events) : events[i] = "gatt_send"}

(* The flag, the queue and the retry event agree: while packets wait,      *)
(* exactly one retry event is among the events to send them, and when none *)
(* waits the flag lets the next packet start. Otherwise packets would wait *)
(* for ever, or two retries would fill the event queue.                    *)
OneRetryWhilePacketsWait ==
    /\ gatt_queue_flag = 1 <=> gatt_send_queue.used > 0
    /\ IF gatt_queue_flag = 1 THEN \E i \in 1 .. Len(events) : Retries = {i}
                              ELSE Retries = {}

(* The allocated buffers are those of the packets that wait: none is lost, *)
(* none is freed while the queue still refers to it.                       *)
BuffersOwnedByQueue == heap = Range1(Queued, 1, Len(Queued))

(* Each accepted packet is sent once, or waits, or was given up; packets   *)
(* are sent in the order they were accepted, and a packet that waits was   *)
(* accepted after all those sent.                                          *)
EachPacketOnceInOrder ==
    LET all == sent \o Queued IN
    /\ \A i, j \in 1 .. Len(all) : i < j => all[i] < all[j]
    /\ dropped = (1 .. accepted) \ Range1(all, 1, Len(all))

Waits(p) == p \in Range1(Queued, 1, Len(Queued))

(* Once the link stays up, every packet that waits is sent or given up.    *)
PacketsLeave == <>[]link => \A p \in Elem : Waits(p) ~> ~Waits(p)

=============================================================================
