-------------------------------- MODULE Session --------------------------------
(***************************************************************************)
(* A phone connects, pairs, sends commands and unbinds: the connection     *)
(* status, the binding, the serial numbers, the pairing random and the     *)
(* connection monitor of tuya_ble_event_handler.c, tuya_ble_data_handler.c *)
(* and tuya_ble_api.c.                                                     *)
(*                                                                         *)
(* Everything runs in the main loop. One turn of it serves the BLE stack   *)
(* (whose callbacks only post events), the software timers and the         *)
(* application, then runs one pass of the event scheduler over the events  *)
(* there are (EventQueue): `pass` counts those still to be handled, and is *)
(* 0 outside a pass. A message of the phone takes two passes: its last     *)
(* packet is decoded in one and the command it holds executed in the next, *)
(* so other events come between.                                           *)
(*                                                                         *)
(* A message is one event here, not the packets it is cut into. What the   *)
(* code does with a message before its serial number is looked at          *)
(* (reassembly, encryption mode, decryption, CRC, allocation) is a choice  *)
(* between going on and dropping it. No firmware update is under way.      *)
(***************************************************************************)
EXTENDS Naturals, Sequences

CONSTANTS Capacity,        \* TUYA_BLE_EVT_MAX_NUM
          MaxConnections,  \* bound on the connections in a behaviour
          MaxSn            \* bound on the messages of one connection

ASSUME SessionAssumption == /\ Capacity \in Nat \ {0}
                            /\ MaxConnections \in Nat
                            /\ MaxSn \in Nat

VARIABLES
    link,          \* the controller: down, up, terminating, or ended and
                   \* not reported yet
    conn,          \* number of the latest connection
    phone_sn,      \* serial number of the phone's last message on it
    events,        \* the event scheduler's queue
    pass,          \* how many of them this pass has still to handle
    status,        \* tuya_ble_connect_status
    bound_flag,
    receive_sn,    \* tuya_ble_receive_sn
    pair_rand,     \* the connection tuya_ble_pair_rand is for, 0 if not valid
    monitor,       \* the connection monitor's timer is running
    known,         \* history: the connection CONNECTED was last handled for
    lost           \* history: which link events were lost

linkVars == <<link, conn, phone_sn>>
queueVars == <<events, pass>>
sessionVars == <<status, bound_flag, receive_sn, pair_rand, monitor, known>>
vars == <<linkVars, queueVars, sessionVars, lost>>

(* This configuration registers through BLE: UNBONDING_CONN is not used.   *)
Unconn == {"UNBONDING_UNCONN", "BONDING_UNCONN"}
Unauth == {"UNBONDING_UNAUTH_CONN", "BONDING_UNAUTH_CONN"}
Bonding == {"BONDING_UNCONN", "BONDING_UNAUTH_CONN", "BONDING_CONN"}
Status == Unconn \cup Unauth \cup {"BONDING_CONN"}

(* What is asked for; the reset command acts as the unbinding one does.    *)
(* "pair_other" is a pairing request for another device's id.              *)
Command == {"dev_info", "pair", "pair_other", "dp_write", "unbond", "anomaly_unbond"}

(* Those that are received whatever the status is.                         *)
Whitelist == {"dev_info", "pair", "pair_other", "anomaly_unbond"}

Message == [conn : 1 .. MaxConnections, sn : 1 .. MaxSn, cmd : Command]

Local == {"factory_reset", "auth_key"}
Event == [kind : {"data", "cmd"}, msg : Message]
            \cup [kind : {"connected", "disconnected"}, conn : 1 .. MaxConnections]
            \cup [kind : Local]

InQueue(kind) == \E i \in 1 .. Len(events) : events[i].kind = kind

Full == Len(events) = Capacity

Init == /\ link = "down"
        /\ conn = 0
        /\ phone_sn = 0
        /\ events = <<>>
        /\ pass = 0
        /\ bound_flag \in {0, 1}
        /\ status = IF bound_flag = 1 THEN "BONDING_UNCONN" ELSE "UNBONDING_UNCONN"
        /\ receive_sn = 0
        /\ pair_rand = 0
        /\ monitor = FALSE
        /\ known = 0
        /\ lost = {}

-------------------------------------------------------------------------------
(***************************************************************************)
(* Between two passes: the controller, the phone, the timers and the       *)
(* application. A post that finds the queue full is lost.                  *)
(*                                                                         *)
(* A faulty form of a definition, for the mutants of PROJECT.json, stands  *)
(* before it; no specification here uses one.                              *)
(***************************************************************************)

LinkReportInFront(kind, c) ==
    /\ events' = IF Full THEN events ELSE <<[kind |-> kind, conn |-> c]>> \o events
    /\ lost' = IF Full THEN lost \cup {kind} ELSE lost

Post(e) == events' = IF Full THEN events ELSE Append(events, e)

LinkReport(kind, c) == /\ Post([kind |-> kind, conn |-> c])
                       /\ lost' = IF Full THEN lost \cup {kind} ELSE lost

(* The controller advertises again only in a turn after the one that       *)
(* reported the end of the connection before.                              *)
tuya_ble_connected_handler ==
    /\ pass = 0 /\ link = "down" /\ ~InQueue("disconnected")
    /\ conn < MaxConnections
    /\ link' = "up"
    /\ conn' = conn + 1
    /\ phone_sn' = 0
    /\ LinkReport("connected", conn + 1)
    /\ UNCHANGED <<pass, sessionVars>>

(* The phone leaves, is out of reach, or the device has asked for it.      *)
LinkEnds == /\ link \in {"up", "terminating"}
            /\ link' = "ended"
            /\ UNCHANGED <<conn, phone_sn, queueVars, sessionVars, lost>>

tuya_ble_disconnected_handler ==
    /\ pass = 0 /\ link = "ended"
    /\ link' = "down"
    /\ LinkReport("disconnected", conn)
    /\ UNCHANGED <<conn, phone_sn, pass, sessionVars>>

(* The last packet of the phone's next message. The phone numbers its      *)
(* messages from 1 and asks for the device's information first, if at all. *)
tuya_ble_gatt_receive_data(cmd) ==
    /\ pass = 0 /\ link \in {"up", "terminating"}
    /\ phone_sn < MaxSn
    /\ cmd = "dev_info" => phone_sn = 0
    /\ phone_sn' = phone_sn + 1
    /\ Post([kind |-> "data",
             msg |-> [conn |-> conn, sn |-> phone_sn + 1, cmd |-> cmd]])
    /\ UNCHANGED <<link, conn, pass, sessionVars, lost>>

(* tuya_ble_device_factory_reset by the application, or a production test  *)
(* that writes a new identity. A full queue refuses these posts.           *)
ApplicationPosts(kind) == /\ pass = 0 /\ ~Full
                          /\ Post([kind |-> kind])
                          /\ UNCHANGED <<linkVars, pass, sessionVars, lost>>

(* tuya_ble_gap_disconnect asks a controller that has a connection to end  *)
(* it.                                                                     *)
tuya_ble_gap_disconnect == IF link = "up" THEN "terminating" ELSE link

tuya_conncet_monitor_callback ==
    /\ pass = 0 /\ monitor
    /\ monitor' = FALSE
    /\ link' = IF status \in Unauth THEN tuya_ble_gap_disconnect ELSE link
    /\ UNCHANGED <<conn, phone_sn, queueVars, status, bound_flag, receive_sn,
                   pair_rand, known, lost>>

-------------------------------------------------------------------------------
(***************************************************************************)
(* The pass. The event being handled keeps its place until its handler     *)
(* returns, so a handler that posts finds the queue one shorter.           *)
(***************************************************************************)

PassBegins == /\ pass = 0 /\ events # <<>>
              /\ pass' = Len(events)
              /\ UNCHANGED <<linkVars, events, sessionVars, lost>>

Handling(kind) == /\ pass > 0
                  /\ Head(events).kind = kind
                  /\ pass' = pass - 1
                  /\ lost' = lost
                  /\ UNCHANGED <<conn, phone_sn>>

HandlerReturns == events' = Tail(events)

ConnectedStatus == IF bound_flag = 1 THEN "BONDING_UNAUTH_CONN"
                                     ELSE "UNBONDING_UNAUTH_CONN"

StatusKept == status

DisconnectedStatus == IF bound_flag = 1 THEN "BONDING_UNCONN"
                                        ELSE "UNBONDING_UNCONN"

ConnectedKeepsSn == /\ Handling("connected")
                    /\ status' = ConnectedStatus
                    /\ monitor' = TRUE
                    /\ known' = Head(events).conn
                    /\ UNCHANGED <<link, bound_flag, receive_sn, pair_rand>>
                    /\ HandlerReturns

ConnectedUnwatched == /\ Handling("connected")
                      /\ receive_sn' = 0
                      /\ status' = ConnectedStatus
                      /\ known' = Head(events).conn
                      /\ UNCHANGED <<link, bound_flag, pair_rand, monitor>>
                      /\ HandlerReturns

(* tuya_ble_handle_connect_change_evt. *)
Connected == /\ Handling("connected")
             /\ receive_sn' = 0
             /\ status' = ConnectedStatus
             /\ monitor' = TRUE
             /\ known' = Head(events).conn
             /\ UNCHANGED <<link, bound_flag, pair_rand>>
             /\ HandlerReturns

(* The monitor is left running; the next connection starts it anew.        *)
Disconnected == /\ Handling("disconnected")
                /\ receive_sn' = 0
                /\ pair_rand' = 0
                /\ status' = DisconnectedStatus
                /\ UNCHANGED <<link, bound_flag, monitor, known>>
                /\ HandlerReturns

(* tuya_ble_commonData_rx_proc with a complete message: the serial number, *)
(* then whether the command may be received in this status, then the post  *)
(* of the command, for which memory or the queue may have no room left.    *)
tuya_ble_commonData_rx_proc ==
    /\ Handling("data")
    /\ UNCHANGED <<status, bound_flag, pair_rand, monitor, known>>
    /\ LET m == Head(events).msg
       IN \/ UNCHANGED <<link, receive_sn>> /\ HandlerReturns
          \/ /\ m.sn <= receive_sn
             /\ link' = tuya_ble_gap_disconnect
             /\ receive_sn' = receive_sn
             /\ HandlerReturns
          \/ /\ m.sn > receive_sn
             /\ receive_sn' = m.sn
             /\ link' = link
             /\ \/ HandlerReturns
                \/ /\ status = "BONDING_CONN" \/ m.cmd \in Whitelist
                   /\ ~Full
                   /\ events' = Append(Tail(events), [kind |-> "cmd", msg |-> m])

(* tuya_ble_evt_process for command c.                                     *)
Executing(c) == /\ Handling("cmd")
                /\ Head(events).msg.cmd = c
                /\ HandlerReturns
                /\ UNCHANGED <<receive_sn, known>>

RandKeptWithoutAnswer == /\ Executing("dev_info")
                         /\ pair_rand' = Head(events).msg.conn
                         /\ UNCHANGED <<link, status, bound_flag, monitor>>

(* A new random, given up again when there is no connection to answer on.  *)
tuya_ble_handle_dev_info_req ==
    /\ Executing("dev_info")
    /\ pair_rand' = IF status \in Unconn THEN 0 ELSE Head(events).msg.conn
    /\ UNCHANGED <<link, status, bound_flag, monitor>>

MonitorStoppedUnpaired ==
    /\ Executing("pair") \/ Executing("pair_other")
    /\ monitor' = FALSE
    /\ IF Head(events).msg.cmd = "pair"
       THEN bound_flag' = 1 /\ status' = "BONDING_CONN"
       ELSE UNCHANGED <<bound_flag, status>>
    /\ UNCHANGED <<link, pair_rand>>

(* With this device's id, the phone is the one it is bound to or becomes   *)
(* it; with another id it is sent away.                                    *)
tuya_ble_handle_pair_req ==
    \/ /\ Executing("pair")
       /\ monitor' = FALSE
       /\ bound_flag' = 1
       /\ status' = "BONDING_CONN"
       /\ UNCHANGED <<link, pair_rand>>
    \/ /\ Executing("pair_other")
       /\ link' = tuya_ble_gap_disconnect
       /\ UNCHANGED <<status, bound_flag, monitor, pair_rand>>

(* The session is left as it is; the data points are the application's.    *)
tuya_ble_handle_dp_write_req ==
    /\ Executing("dp_write")
    /\ UNCHANGED <<link, status, bound_flag, monitor, pair_rand>>

UnbondKeepsStatus == /\ link' = tuya_ble_gap_disconnect
                     /\ bound_flag' = 0
                     /\ status' = status

tuya_ble_device_unbond == /\ link' = tuya_ble_gap_disconnect
                          /\ bound_flag' = 0
                          /\ status' = "UNBONDING_UNCONN"

(* So does tuya_ble_handle_device_reset_req.                               *)
tuya_ble_handle_unbond_req == /\ Executing("unbond")
                              /\ tuya_ble_device_unbond
                              /\ UNCHANGED <<monitor, pair_rand>>

tuya_ble_handle_anomaly_unbond_req == /\ Executing("anomaly_unbond")
                                      /\ tuya_ble_device_unbond
                                      /\ UNCHANGED <<monitor, pair_rand>>

tuya_ble_handle_factory_reset_evt ==
    /\ Handling("factory_reset")
    /\ tuya_ble_device_unbond
    /\ UNCHANGED <<receive_sn, pair_rand, monitor, known>>
    /\ HandlerReturns

(* tuya_ble_storage_write_auth_key_device_id_mac forgets the binding, and  *)
(* with it the connection, which it does not end.                          *)
AuthKey == /\ Handling("auth_key")
           /\ bound_flag' = 0
           /\ status' = IF bound_flag = 1 THEN "UNBONDING_UNCONN" ELSE status
           /\ UNCHANGED <<link, receive_sn, pair_rand, monitor, known>>
           /\ HandlerReturns

Pass == \/ PassBegins
        \/ Connected
        \/ Disconnected
        \/ tuya_ble_commonData_rx_proc
        \/ tuya_ble_handle_dev_info_req
        \/ tuya_ble_handle_pair_req
        \/ tuya_ble_handle_dp_write_req
        \/ tuya_ble_handle_unbond_req
        \/ tuya_ble_handle_anomaly_unbond_req
        \/ tuya_ble_handle_factory_reset_evt
        \/ AuthKey

Next == \/ tuya_ble_connected_handler
        \/ LinkEnds
        \/ tuya_ble_disconnected_handler
        \/ \E cmd \in Command : tuya_ble_gatt_receive_data(cmd)
        \/ \E kind \in Local : ApplicationPosts(kind)
        \/ tuya_conncet_monitor_callback
        \/ Pass

SafeSpec == Init /\ [][Next]_vars

(* The main loop runs a pass in each of its turns, serves the stack and    *)
(* the timers in each (however often a pass interrupts them), and a        *)
(* connection the device has asked to end does end.                        *)
Spec == /\ SafeSpec
        /\ WF_vars(Pass)
        /\ SF_vars(tuya_ble_disconnected_handler)
        /\ SF_vars(tuya_conncet_monitor_callback)
        /\ WF_vars(link = "terminating" /\ LinkEnds)

-------------------------------------------------------------------------------
(***************************************************************************)
(* Correctness.                                                            *)
(***************************************************************************)

(* Every variable has its type. *)
TypeOK == /\ link \in {"down", "up", "terminating", "ended"}
          /\ conn \in 0 .. MaxConnections
          /\ phone_sn \in 0 .. MaxSn
          /\ events \in Seq(Event) /\ Len(events) <= Capacity
          /\ pass \in 0 .. Len(events)
          /\ status \in Status
          /\ bound_flag \in {0, 1}
          /\ receive_sn \in 0 .. MaxSn
          /\ pair_rand \in 0 .. MaxConnections
          /\ monitor \in BOOLEAN
          /\ known \in 0 .. conn
          /\ lost \subseteq {"connected", "disconnected"}

(* The status and the stored binding agree whatever the order in which     *)
(* connections, pairings, unbindings and identity changes are handled.     *)
BoundAgreesWithStatus == bound_flag = 1 <=> status \in Bonding

(* A phone that counts its messages is never sent away for a wrong serial  *)
(* number, even when the end of the connection before was never handled.   *)
HonestPhoneInOrder ==
    pass > 0 /\ Head(events).kind = "data" /\ "connected" \notin lost =>
        Head(events).msg.sn > receive_sn

(* A message is decoded, and its command executed, after its connection    *)
(* was announced and before the next one is: no command acts on the status *)
(* of another connection.                                                  *)
CommandInItsConnection ==
    pass > 0 /\ Head(events).kind \in {"data", "cmd"} /\ "connected" \notin lost =>
        Head(events).msg.conn = known

(* A connection that has not paired is watched: the monitor is running, as *)
(* long as the connection is up and its announcement was handled.          *)
UnauthIsWatched ==
    /\ status \in Unauth
    /\ link = "up"
    /\ ~InQueue("connected")
    /\ "connected" \notin lost
    => monitor

(* The random a session key is made of ends with its connection, even when *)
(* the request for it is executed after the connection has ended.          *)
RandEndsWithConnection == lost = {} => pair_rand \in {0, known}

(* With nothing left to handle, no connection that is gone is taken for    *)
(* one that has still to pair.                                             *)
NoUnauthWithoutLink ==
    status \in Unauth /\ events = <<>> /\ "disconnected" \notin lost =>
        link # "down"

(* A connection pairs, or is ended, unless the report of its end is lost.  *)
UnauthEnds == status \in Unauth ~> status \notin Unauth \/ "disconnected" \in lost

(* What the comment at the reception filter says, and what the filter      *)
(* ensures when a message is received: before binding, commands other than *)
(* those of the filter are not responded to.                               *)
DpWriteOnlyWhenBound ==
    pass > 0 /\ Head(events).kind = "cmd" /\ Head(events).msg.cmd = "dp_write"
        => bound_flag = 1

=============================================================================
