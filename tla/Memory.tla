--------------------------------- MODULE Memory ---------------------------------
(***************************************************************************)
(* Who holds which buffer of the heap. Messages of the phone, reports of   *)
(* the application, the events that carry them, the packets that wait and  *)
(* the working buffers of the handlers all come from one heap, and any     *)
(* request of it may fail.                                                 *)
(*                                                                         *)
(* Everything here runs in the main loop, one handler after the other, and *)
(* an action is a whole handler. A handler is an operator from the device  *)
(* before to the device after, a record m with a field for each variable   *)
(* and two for what the world answers in this action: `credit`, how many   *)
(* packets the controller still takes, and `encrypts`, whether the library *)
(* can encrypt. The circular queues are sequences here (Queue, EventQueue  *)
(* show them to be), and a message of the phone is its first packet and    *)
(* its last.                                                               *)
(***************************************************************************)
EXTENDS Heap

CONSTANTS EventCapacity,    \* TUYA_BLE_EVT_MAX_NUM
          QueueSize,        \* TUYA_BLE_GATT_SEND_DATA_QUEUE_SIZE
          NodeSize,         \* sizeof(klv_node_s)
          Report,           \* what the application sends: [ev, data]
          Message,          \* what the phone sends: [cmd, data]
          MaxCredit,        \* bound on the packets taken in an action
          MaxInputs         \* bounds: [connections, messages, reports]

VARIABLES link,             \* the controller has a connection
          term_pending,     \* its end has not been reported yet
          status,           \* tuya_ble_connect_status: unconn, unauth, paired
          bound_flag,
          heap,
          events,
          gatt_send_queue,  \* the buffers of the packets that wait
          gatt_queue_flag,
          air_recv_packet,  \* the message being put together: [buf, msg]
          dp_data_array,    \* the demo's copy of the data written last
          phone,            \* the message whose last packet is still to come
          misuse,           \* history: a pointer was freed that is not allocated,
                            \* or more was written than its block has room for
          inputs            \* how many of each input there were

vars == <<link, term_pending, status, bound_flag, heap, events, gatt_send_queue,
          gatt_queue_flag, air_recv_packet, dp_data_array, phone, misuse, inputs>>

(* Data is a sequence of data points, each with so many bytes of value,    *)
(* and may have been cut short in the last one.                            *)
DataLen(data) ==
    LET upTo[i \in 0 .. Len(data.dps)] ==
            IF i = 0 THEN 0 ELSE upTo[i - 1] + 3 + data.dps[i]
    IN  upTo[Len(data.dps)] - data.cut

Datum == {data \in [dps : Seq(Nat), cut : Nat] : DataLen(data) >= 0}

(* The events of the application's reports, by the call that posts them,   *)
(* and the commands of the phone.                                          *)
DpReport == {"DP_DATA", "DP_DATA_WITH_FLAG", "DP_DATA_WITH_TIME",
             "DP_DATA_WITH_FLAG_AND_TIME", "DP_DATA_WITH_TIME_STRING",
             "DP_DATA_WITH_FLAG_AND_TIME_STRING"}
DataReport == {"DATA_PASSTHROUGH", "OTA_RESPONSE", "PRODUCTION_TEST_RESPONSE"}

Command == {"QRY_DEV_INFO", "PAIR", "UNBONDING", "DP_WRITE", "STATE_QUERY", "NET_CONFIG_INFO",
            "DATA_PASSTHROUGH", "OTA_DATA", "FLAG_REPORT_RESP"}

ASSUME MemoryAssumption ==
    /\ Report \subseteq [ev : DpReport \union DataReport, data : Datum]
    /\ Message \subseteq [cmd : Command, data : Datum]
    /\ NodeSize \in Nat /\ QueueSize \in Nat /\ EventCapacity \in Nat /\ MaxCredit \in Nat

NoData == [dps |-> <<>>, cut |-> 0]
NoPacket == [buf |-> NULL, msg |-> NULL]

Event(ev, buf, len, msg) == [ev |-> ev, buf |-> buf, len |-> len, msg |-> msg]

Init == /\ link = FALSE /\ term_pending = FALSE
        /\ status = "unconn" /\ bound_flag \in BOOLEAN
        /\ heap = prvHeapInit
        /\ events = <<>>
        /\ gatt_send_queue = <<>> /\ gatt_queue_flag = 0
        /\ air_recv_packet = NoPacket
        /\ dp_data_array = NoData
        /\ phone = NULL
        /\ misuse = FALSE
        /\ inputs = [connections |-> 0, messages |-> 0, reports |-> 0]

(* The device as a handler finds it, and what the handler makes of it.     *)
Device(credit, encrypts) ==
    [link |-> link, term_pending |-> term_pending, status |-> status,
     bound_flag |-> bound_flag, heap |-> heap, events |-> events,
     queue |-> gatt_send_queue, flag |-> gatt_queue_flag, recv |-> air_recv_packet,
     dp |-> dp_data_array, misuse |-> misuse, credit |-> credit, encrypts |-> encrypts]

Becomes(m) ==
    /\ link' = m.link /\ term_pending' = m.term_pending /\ status' = m.status
    /\ bound_flag' = m.bound_flag /\ heap' = m.heap /\ events' = m.events
    /\ gatt_send_queue' = m.queue /\ gatt_queue_flag' = m.flag
    /\ air_recv_packet' = m.recv /\ dp_data_array' = m.dp /\ misuse' = m.misuse

Same(m) == m

-----------------------------------------------------------------------------
(***************************************************************************)
(* Buffers and events.                                                     *)
(***************************************************************************)

(* A buffer of `size` bytes, `written` of which will be used: [m, ptr],    *)
(* with NULL, and the device as it was, when the heap has none.            *)
HeapBecomes(m, r, needed) ==
    [ptr |-> r.ptr,
     m |-> IF r.ptr = NULL THEN m
           ELSE [m EXCEPT !.heap = r.heap,
                          !.misuse = @ \/ ~ \E b \in r.heap.used :
                                             b.at = r.ptr /\ b.size >= needed]]
tuya_ble_malloc(m, size, written) ==
    HeapBecomes(m, pvTuyaPortMalloc(m.heap, size), written + xHeapStructSize)

(* Got goes on with the buffer, Failed without.                            *)
Either(r, Got(_, _), Failed(_)) == IF r.ptr = NULL THEN Failed(r.m) ELSE Got(r.m, r.ptr)
WithBuffer(m, size, written, Got(_, _), Failed(_)) ==
    Either(tuya_ble_malloc(m, size, written), Got, Failed)

tuya_ble_free(m, ptr) ==
    IF ptr = NULL THEN m
    ELSE [m EXCEPT !.heap = vTuyaPortFree(m.heap, ptr),
                   !.misuse = @ \/ \A b \in m.heap.used : b.at # ptr]

EventsFull(m) == Len(m.events) = EventCapacity

(* An event without a buffer is lost when the queue is full.               *)
Posted(m, ev, msg) ==
    IF EventsFull(m) THEN m
    ELSE [m EXCEPT !.events = Append(@, Event(ev, NULL, 0, msg))]

(* An event with a buffer, which is freed when the queue is full.          *)
PostedWith(m, ev, buf, len, msg) ==
    IF EventsFull(m) THEN tuya_ble_free(m, buf)
    ELSE [m EXCEPT !.events = Append(@, Event(ev, buf, len, msg))]

-----------------------------------------------------------------------------
(***************************************************************************)
(* Key-length-value lists. The newest node comes first.                    *)
(***************************************************************************)

free_klv_list(m, list) ==
    LET after[i \in 0 .. Len(list)] ==
            IF i = 0 THEN m
            ELSE tuya_ble_free(tuya_ble_free(after[i - 1], list[i].data), list[i].at)
    IN  after[Len(list)]

(* One more node: with the list so far, or all given up.                   *)
WithNode(acc, value, cut) ==
    LET given_up(m) == [acc EXCEPT !.m = free_klv_list(m, acc.list), !.ok = FALSE]
        added(m, node, data) ==
            [acc EXCEPT !.m = m, !.list = <<[at |-> node, data |-> data]>> \o @]
        with_data(m, node) ==
            IF value = 0 THEN added(m, node, NULL)
            ELSE WithBuffer(m, value, value,
                     LAMBDA n, data :
                         IF cut THEN given_up(tuya_ble_free(tuya_ble_free(n, data), node))
                         ELSE added(n, node, data),
                     LAMBDA n : given_up(tuya_ble_free(n, node)))
    IN  IF ~acc.ok THEN acc
        ELSE WithBuffer(acc.m, NodeSize, NodeSize, with_data, given_up)

data_2_klvlist(m, data) ==
    LET last == Len(data.dps)
        after[i \in 0 .. last] ==
            IF i = 0 THEN [m |-> m, list |-> <<>>, ok |-> TRUE]
            ELSE WithNode(after[i - 1], data.dps[i], i = last /\ data.cut > 0)
    IN  after[last]

-----------------------------------------------------------------------------
(***************************************************************************)
(* Sending.                                                                *)
(***************************************************************************)

FreeAll(m, buffers) ==
    LET after[i \in 0 .. Len(buffers)] ==
            IF i = 0 THEN m ELSE tuya_ble_free(after[i - 1], buffers[i])
    IN  after[Len(buffers)]

(* Packets go out while the controller takes them; then a retry is posted, *)
(* or, without a connection or a place for the retry, the rest is freed.   *)
tuya_ble_gatt_send_data_handle(m) ==
    LET n == IF m.status = "unconn" THEN 0 ELSE Min({Len(m.queue), m.credit})
        rest == SubSeq(m.queue, n + 1, Len(m.queue))
        sent == FreeAll([m EXCEPT !.queue = rest, !.credit = @ - n], SubSeq(m.queue, 1, n))
    IN  IF rest # <<>> /\ m.status # "unconn" /\ ~EventsFull(m)
        THEN Posted(sent, "GATT_SEND_DATA", NULL)
        ELSE FreeAll([sent EXCEPT !.queue = <<>>, !.flag = 0], rest)

tuya_ble_gatt_send_data_enqueue(m, size) ==
    WithBuffer(m, size, size,
        LAMBDA n, buf :
            IF Len(n.queue) = QueueSize THEN tuya_ble_free(n, buf)
            ELSE LET q == [n EXCEPT !.queue = Append(@, buf), !.flag = 1]
                 IN  IF n.flag = 0 THEN tuya_ble_gatt_send_data_handle(q) ELSE q,
        Same)

(* The sizes of the packets of a message: 20, but for the last. The first  *)
(* has room for 17 of the message's bytes, or 16, the others for 19.       *)
PacketSizes(total) ==
    LET first == IF total < 128 THEN 17 ELSE 16
        more == IF total <= first THEN 0 ELSE (total - first + 18) \div 19
    IN  [i \in 1 .. more + 1 |->
            IF i <= more THEN 20
            ELSE IF more = 0 THEN 20 - first + total
            ELSE total - first - 19 * (more - 1) + 1]

TUYA_BLE_AIR_FRAME_MAX == 1024
Padded(n) == ((n + 15) \div 16) * 16

(* A message in packets, each queued by itself: one that finds no room is *)
(* dropped and the next is still tried.                                    *)
packets(m, total) ==
    LET sizes == PacketSizes(total)
        after[i \in 0 .. Len(sizes)] ==
            IF i = 0 THEN m ELSE tuya_ble_gatt_send_data_enqueue(after[i - 1], sizes[i])
    IN  after[Len(sizes)]

(* The faulty form forgets the first buffer when there is no second one.   *)
Sends(m, len, en_len, NoSecond(_, _)) ==
    LET temp_len == Padded(14 + len)
        encrypted(n, send_data, buf) ==
            LET sent == tuya_ble_free(n, send_data)
            IN  tuya_ble_free(IF n.encrypts THEN packets(sent, en_len + temp_len) ELSE sent, buf)
    IN  IF \/ m.status = "unconn"
           \/ len > TUYA_BLE_AIR_FRAME_MAX - 29
           \/ temp_len > TUYA_BLE_AIR_FRAME_MAX - en_len
        THEN m
        ELSE WithBuffer(m, temp_len, 14 + len,
                 LAMBDA n, send_data :
                     WithBuffer(n, temp_len + en_len, temp_len + en_len,
                         LAMBDA k, buf : encrypted(k, send_data, buf),
                         LAMBDA k : NoSecond(k, send_data)),
                 Same)
FirstBufferKept(m, len, en_len) == Sends(m, len, en_len, LAMBDA k, send_data : k)
tuya_ble_commData_send(m, len, en_len) == Sends(m, len, en_len, tuya_ble_free)

Encrypted == 17     \* the mode and the vector before what is encrypted
Plain == 1

-----------------------------------------------------------------------------
(***************************************************************************)
(* The application's reports: what each is allowed, how many bytes the     *)
(* interface and later the handler put before the data.                    *)
(***************************************************************************)

TUYA_BLE_REPORT_MAX_DP_DATA_LEN == 258
TUYA_BLE_TRANSMISSION_MAX_DATA_LEN == TUYA_BLE_AIR_FRAME_MAX - 29

IsDp(ev) == ev \in DpReport

Inserted(ev) == IF ev = "DP_DATA_WITH_FLAG" THEN 3 ELSE 0

Prefix(ev) == CASE ev = "DP_DATA_WITH_TIME" -> 5
                [] ev = "DP_DATA_WITH_FLAG_AND_TIME" -> 8
                [] ev = "DP_DATA_WITH_TIME_STRING" -> 14
                [] ev = "DP_DATA_WITH_FLAG_AND_TIME_STRING" -> 17
                [] OTHER -> 0

MaxLen(ev) == TUYA_BLE_REPORT_MAX_DP_DATA_LEN -
              (CASE ev = "DP_DATA_WITH_FLAG" -> 3
                 [] ev = "DP_DATA_WITH_FLAG_AND_TIME" -> 8
                 [] ev = "DP_DATA_WITH_FLAG_AND_TIME_STRING" -> 17
                 [] OTHER -> 0)

(* A copy of the data for an event; faulty form: no room for the flag.     *)
NoRoomForFlag(m, ev, len) ==
    WithBuffer(m, len, len + Inserted(ev),
        LAMBDA n, buf : PostedWith(n, ev, buf, len + Inserted(ev), NULL), Same)
Copied(m, ev, len) ==
    WithBuffer(m, len + Inserted(ev), len + Inserted(ev),
        LAMBDA n, buf : PostedWith(n, ev, buf, len + Inserted(ev), NULL), Same)

dp_data_report(m, ev, data) ==
    LET len == DataLen(data)
        k == data_2_klvlist(m, data)
    IN  IF m.status # "paired" \/ len > MaxLen(ev) \/ len = 0 THEN m
        ELSE IF ~k.ok THEN k.m
        ELSE Copied(free_klv_list(k.m, k.list), ev, len)

(* tuya_ble_data_passthrough, tuya_ble_ota_response; the answer of a       *)
(* production test, which asks for no status.                              *)
data_report(m, ev, len) ==
    IF \/ m.status # "paired" /\ ev # "PRODUCTION_TEST_RESPONSE"
       \/ len > TUYA_BLE_TRANSMISSION_MAX_DATA_LEN
    THEN m ELSE Copied(m, ev, len)

tuya_ble_net_config_response(m) ==
    IF m.status = "paired" THEN Posted(m, "NET_CONFIG_RESPONSE", NULL) ELSE m

(* The handlers of these events.                                           *)
handle_prefixed_evt(m, e) ==
    LET len == Prefix(e.ev) + e.len
    IN  WithBuffer(m, len, len,
            LAMBDA n, data_buffer :
                tuya_ble_free(tuya_ble_free(tuya_ble_commData_send(n, len, Encrypted),
                                            data_buffer), e.buf),
            LAMBDA n : tuya_ble_free(n, e.buf))

handle_plain_evt(m, e, en_len) ==
    tuya_ble_free(tuya_ble_commData_send(m, e.len, en_len), e.buf)

-----------------------------------------------------------------------------
(***************************************************************************)
(* The phone's commands. The callback of the demo runs inside the handler  *)
(* and tuya_ble_inter_event_response frees its buffer after it.            *)
(***************************************************************************)

tuya_ble_adv_change(m) ==
    IF m.bound_flag THEN WithBuffer(m, 200, 200, tuya_ble_free, Same) ELSE m

tuya_ble_gap_disconnect(m) ==
    IF m.link THEN [m EXCEPT !.link = FALSE, !.term_pending = TRUE] ELSE m

(* A buffer for the callback, which is freed when the callback returned.   *)
tuya_ble_inter_event_response(m, p_data) == tuya_ble_free(m, p_data)
Callback(m, len, Call(_), Failed(_)) ==
    WithBuffer(m, len, len,
        LAMBDA n, buf : tuya_ble_inter_event_response(Call(n), buf), Failed)

handle_dp_write_req(m, data) ==
    LET len == DataLen(data)
        k == data_2_klvlist(m, data)
        answered(n) == tuya_ble_commData_send(n, 1, Encrypted)
        written(n) == dp_data_report([n EXCEPT !.dp = data], "DP_DATA", data)
    IN  IF len = 0 \/ len > TUYA_BLE_REPORT_MAX_DP_DATA_LEN THEN answered(m)
        ELSE IF ~k.ok THEN answered(k.m)
        ELSE Callback(answered(free_klv_list(k.m, k.list)), len, written, Same)

handle_dp_query_req(m, len) ==
    Callback(tuya_ble_commData_send(m, 1, Encrypted), len, Same, Same)

handle_net_config_info_req(m, len) ==
    tuya_ble_commData_send(Callback(m, len, tuya_ble_net_config_response, Same), 1, Encrypted)

handle_ble_passthrough_data_req(m, len) ==
    Callback(m, len, LAMBDA n : data_report(n, "DATA_PASSTHROUGH", len), Same)

(* For the firmware of the chip, which is answered with five bytes, or,    *)
(* with the data passed on through a buffer, for that of the MCU.          *)
handle_ota_req(m, len) ==
    Callback(m, len, LAMBDA n : data_report(n, "OTA_RESPONSE", 5), Same)
mcu_ota_data_from_ble_handler(m, len) == Callback(m, len - 1 + 7, Same, Same)

(* The answer to a report with the flag makes the demo report again.       *)
handle_dp_data_with_flag_report_res(m, ev) == dp_data_report(m, ev, m.dp)

(* The pairing binds a device that is not bound.                           *)
handle_pair_req(m) ==
    LET bound == IF m.bound_flag THEN m
                 ELSE tuya_ble_adv_change([m EXCEPT !.bound_flag = TRUE])
        paired == [bound EXCEPT !.status = "paired"]
    IN  tuya_ble_commData_send(tuya_ble_commData_send(paired, 1, Encrypted), 0, Encrypted)

handle_unbond_req(m) ==
    LET gone == tuya_ble_gap_disconnect(tuya_ble_commData_send(m, 1, Encrypted))
    IN  [tuya_ble_adv_change([gone EXCEPT !.bound_flag = FALSE]) EXCEPT !.status = "unconn"]

tuya_ble_evt_process(m, msg) ==
    LET len == DataLen(msg.data)
    IN  CASE msg.cmd = "QRY_DEV_INFO" -> {tuya_ble_commData_send(m, 84, Encrypted)}
          [] msg.cmd = "PAIR" -> {handle_pair_req(m)}
          [] msg.cmd = "UNBONDING" -> {handle_unbond_req(m)}
          [] msg.cmd = "DP_WRITE" -> {handle_dp_write_req(m, msg.data)}
          [] msg.cmd = "STATE_QUERY" -> {handle_dp_query_req(m, len)}
          [] msg.cmd = "NET_CONFIG_INFO" -> {handle_net_config_info_req(m, len)}
          [] msg.cmd = "DATA_PASSTHROUGH" -> {handle_ble_passthrough_data_req(m, len)}
          [] msg.cmd = "OTA_DATA" -> {handle_ota_req(m, len),
                                      mcu_ota_data_from_ble_handler(m, len)}
          [] msg.cmd = "FLAG_REPORT_RESP" ->
                {handle_dp_data_with_flag_report_res(m, ev) :
                    ev \in {"DP_DATA_WITH_FLAG", "DP_DATA_WITH_FLAG_AND_TIME"}}

(* Before the device is paired only some commands are taken.               *)
BeforePairing == {"QRY_DEV_INFO", "PAIR", "NET_CONFIG_INFO"}

-----------------------------------------------------------------------------
(***************************************************************************)
(* The phone's messages. What is before the data in a message: sequence    *)
(* numbers, command, length; and its checksum.                             *)
(***************************************************************************)
PlainLen(msg) == Padded(14 + DataLen(msg.data))
AirLen(msg) == Encrypted + PlainLen(msg)

tuya_ble_air_recv_packet_free(m) ==
    tuya_ble_free([m EXCEPT !.recv = NoPacket], m.recv.buf)

(* The first packet: the old buffer goes, a new one comes.                 *)
ble_data_unpack_first(m, msg) ==
    LET freed == tuya_ble_air_recv_packet_free(m)
    IN  IF AirLen(msg) > TUYA_BLE_AIR_FRAME_MAX THEN freed
        ELSE WithBuffer(freed, AirLen(msg), AirLen(msg),
                 LAMBDA n, buf : [n EXCEPT !.recv = [buf |-> buf, msg |-> msg]], Same)

(* The last packet makes the message complete. It is refused before it is  *)
(* decrypted, or after that, or becomes an event.                          *)
Answer == {"refused", "not_decrypted", "taken"}

tuya_ble_commonData_rx_proc(m, answer) ==
    LET msg == m.recv.msg
        len == PlainLen(msg) + 1
        event(n) == WithBuffer(n, len, len,
                        LAMBDA k, buf : PostedWith(k, "BLE_CMD", buf, len, msg), Same)
        allowed == m.status = "paired" \/ msg.cmd \in BeforePairing
    IN  IF answer = "refused" THEN tuya_ble_air_recv_packet_free(m)
        ELSE WithBuffer(m, AirLen(msg), PlainLen(msg),
                 LAMBDA n, de_encrypt_buf :
                     LET decrypted == tuya_ble_air_recv_packet_free(n)
                     IN  tuya_ble_free(IF answer = "taken" /\ allowed THEN event(decrypted)
                                       ELSE decrypted, de_encrypt_buf),
                 tuya_ble_air_recv_packet_free)

-----------------------------------------------------------------------------
(***************************************************************************)
(* The actions: what the world does,                                       *)
(***************************************************************************)

Input(kind, m) == /\ inputs[kind] < MaxInputs[kind]
                  /\ inputs' = [inputs EXCEPT ![kind] = @ + 1]
                  /\ Becomes(m)

Still == Device(0, TRUE)

tuya_ble_connected_handler ==
    /\ ~link /\ ~term_pending
    /\ Input("connections", Posted([Still EXCEPT !.link = TRUE], "CONNECTED", NULL))
    /\ phone' = NULL

LinkLost == /\ link
            /\ Becomes(tuya_ble_gap_disconnect(Still))
            /\ UNCHANGED <<phone, inputs>>

tuya_ble_disconnected_handler ==
    /\ term_pending
    /\ Becomes(Posted([Still EXCEPT !.term_pending = FALSE], "DISCONNECTED", NULL))
    /\ phone' = NULL
    /\ UNCHANGED inputs

PhoneBegins == \E msg \in Message : /\ link /\ phone = NULL
                                    /\ Input("messages", Posted(Still, "FIRST_RECEIVED", msg))
                                    /\ phone' = msg

PhoneEnds == /\ link /\ phone # NULL
             /\ Becomes(Posted(Still, "LAST_RECEIVED", phone))
             /\ phone' = NULL
             /\ UNCHANGED inputs

ApplicationReports == \E r \in Report :
    /\ Input("reports", IF IsDp(r.ev) THEN dp_data_report(Still, r.ev, r.data)
                        ELSE data_report(Still, r.ev, DataLen(r.data)))
    /\ UNCHANGED phone

(* and what the scheduler makes of the first event, which keeps its place  *)
(* until its handler returned.                                             *)
Handled(Handler(_, _)) ==
    /\ events # <<>>
    /\ \E credit \in 0 .. (IF link THEN MaxCredit ELSE 0), encrypts \in BOOLEAN :
          \E m \in Handler(Device(credit, encrypts), Head(events)) :
             Becomes([m EXCEPT !.events = Tail(@)])
    /\ UNCHANGED <<phone, inputs>>

Is(ev) == events # <<>> /\ Head(events).ev = ev

tuya_ble_handle_connect_change_evt ==
    \/ Is("CONNECTED") /\ Handled(LAMBDA m, e : {[m EXCEPT !.status = "unauth"]})
    \/ /\ Is("DISCONNECTED")
       /\ Handled(LAMBDA m, e :
              {[tuya_ble_air_recv_packet_free(m) EXCEPT !.status = "unconn"]})

GattSend ==
    Is("GATT_SEND_DATA") /\ Handled(LAMBDA m, e : {tuya_ble_gatt_send_data_handle(m)})

FirstReceived ==
    Is("FIRST_RECEIVED") /\ Handled(LAMBDA m, e : {ble_data_unpack_first(m, e.msg)})

LastReceived ==
    /\ Is("LAST_RECEIVED")
    /\ Handled(LAMBDA m, e :
           IF m.recv.buf = NULL THEN {m}
           ELSE {tuya_ble_commonData_rx_proc(m, answer) : answer \in Answer})

tuya_ble_handle_ble_cmd_evt ==
    /\ Is("BLE_CMD")
    /\ Handled(LAMBDA m, e :
           {tuya_ble_free(n, e.buf) : n \in tuya_ble_evt_process(m, e.msg)})

tuya_ble_handle_dp_data_reported_evt ==
    /\ events # <<>> /\ IsDp(Head(events).ev)
    /\ Handled(LAMBDA m, e : {IF Prefix(e.ev) > 0 THEN handle_prefixed_evt(m, e)
                              ELSE handle_plain_evt(m, e, Encrypted)})

tuya_ble_handle_data_evt ==
    /\ Is("DATA_PASSTHROUGH") \/ Is("OTA_RESPONSE")
    /\ Handled(LAMBDA m, e : {handle_plain_evt(m, e, Encrypted)})

(* To the MCU by UART, or to the phone, encrypted if it is paired.         *)
tuya_ble_handle_data_prod_test_response_evt ==
    /\ Is("PRODUCTION_TEST_RESPONSE")
    /\ Handled(LAMBDA m, e :
           {tuya_ble_free(m, e.buf),
            handle_plain_evt(m, e, IF m.status = "paired" THEN Encrypted ELSE Plain)})

tuya_ble_handle_net_config_response_evt ==
    /\ Is("NET_CONFIG_RESPONSE")
    /\ Handled(LAMBDA m, e : {tuya_ble_commData_send(m, 2, Encrypted)})

Next == \/ tuya_ble_connected_handler \/ LinkLost \/ tuya_ble_disconnected_handler
        \/ PhoneBegins \/ PhoneEnds \/ ApplicationReports
        \/ tuya_ble_handle_connect_change_evt \/ GattSend
        \/ FirstReceived \/ LastReceived \/ tuya_ble_handle_ble_cmd_evt
        \/ tuya_ble_handle_dp_data_reported_evt \/ tuya_ble_handle_data_evt
        \/ tuya_ble_handle_data_prod_test_response_evt
        \/ tuya_ble_handle_net_config_response_evt

Spec == Init /\ [][Next]_vars

-----------------------------------------------------------------------------
(* The free list, the allocated blocks and the count of free bytes agree   *)
(* after every handler, whichever of its requests failed; free blocks that *)
(* touch have become one, so the heap does not fall to pieces.             *)
HeapSound == Sound(heap)

(* The pointers that events, packets and the message being put together    *)
(* hold, NULL among them.                                                  *)
Owned == [i \in DOMAIN events |-> events[i].buf] \o gatt_send_queue \o <<air_recv_packet.buf>>

(* Between two handlers every allocated block belongs to exactly one event,*)
(* packet or message that will free it: no path through a handler, with    *)
(* whatever request failing, leaves a block behind or gives one to two.    *)
BuffersOwned ==
    /\ {b.at : b \in heap.used} = ToSet(Owned) \ {NULL}
    /\ \A i, j \in DOMAIN Owned : Owned[i] = Owned[j] /\ Owned[i] # NULL => i = j

(* The assertions of vTuyaPortFree hold, what is freed is allocated, and   *)
(* no buffer is asked for smaller than what its user writes.               *)
NoMisuse == ~misuse

===============================================================================
