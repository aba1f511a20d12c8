------------------------------ MODULE SessionProofs ------------------------------
(***************************************************************************)
(* Proofs about Session, for any capacity of the event queue, any number   *)
(* of connections and of messages on each. The inductive invariant says    *)
(* where events of one connection can stand in the queue with respect to   *)
(* those of the next.                                                      *)
(***************************************************************************)
EXTENDS Session, TLAPS

Places == 1 .. Len(events)

Kind(i, kind) == events[i].kind = kind

(* A connection that is up or announced is one there was; only the first   *)
(* message of a phone asks for the device's information.                   *)
EventsMakeSense ==
    /\ link # "down" => conn > 0
    /\ \A i \in Places :
          /\ Kind(i, "connected") => events[i].conn <= conn
          /\ events[i].kind \in {"data", "cmd"} /\ events[i].msg.cmd = "dev_info" =>
                events[i].msg.sn = 1

(* As long as the end of a connection is not handled there is no other, so *)
(* its end is behind everything of it; where the report was lost, because  *)
(* the queue was full, the next pass handles all there was.                *)
EndComesLast ==
    /\ \A i \in Places : Kind(i, "disconnected") => link = "down"
    /\ \A i, j \in Places : Kind(i, "connected") /\ Kind(j, "disconnected") => i < j
    /\ link = "down" =>
          \A i \in Places : events[i].kind \in {"connected", "data"} =>
              \/ \E j \in Places : i < j /\ Kind(j, "disconnected")
              \/ "disconnected" \in lost /\ (i <= pass \/ (pass = 0 /\ Full))

(* Messages stand behind the announcement of their connection, commands,   *)
(* which are of the connection that was handled, before that of the next.  *)
MessagesBelong ==
    "connected" \notin lost =>
        /\ InQueue("connected") <=> known # conn
        /\ \A i, j \in Places : Kind(i, "connected") /\ Kind(j, "connected") => i = j
        /\ \A i \in Places :
              /\ Kind(i, "connected") => events[i].conn = conn
              /\ Kind(i, "data") => events[i].msg.conn = conn
              /\ Kind(i, "cmd") => events[i].msg.conn = known
        /\ \A i, j \in Places : Kind(i, "connected") =>
              /\ Kind(j, "data") => i < j
              /\ Kind(j, "cmd") => j < i

(* Serial numbers ascend from what was received through the commands and   *)
(* then the messages that wait to the last one sent.                       *)
SerialsAscend ==
    "connected" \notin lost =>
        /\ \A i \in Places : Kind(i, "data") => events[i].msg.sn <= phone_sn
        /\ \A i, j \in Places : i < j /\ Kind(i, "data") /\ Kind(j, "data") =>
              events[i].msg.sn < events[j].msg.sn
        /\ \A i, j \in Places : i < j /\ Kind(i, "cmd") /\ Kind(j, "cmd") =>
              events[i].msg.sn < events[j].msg.sn
        /\ ~InQueue("connected") =>
              /\ receive_sn <= phone_sn
              /\ \A i \in Places : Kind(i, "data") => events[i].msg.sn > receive_sn
              /\ \A i \in Places : Kind(i, "cmd") => events[i].msg.sn <= phone_sn
              /\ \A i, j \in Places : Kind(i, "cmd") /\ Kind(j, "data") =>
                    events[i].msg.sn < events[j].msg.sn

(* The end of the connection that was handled last has been handled too.   *)
Over == InQueue("connected") \/ (link = "down" /\ ~InQueue("disconnected"))

InfoWaits == \E i \in Places : Kind(i, "cmd") /\ events[i].msg.cmd = "dev_info"

RandForgotten ==
    lost = {} => /\ pair_rand \in {0, known}
                 /\ Over => pair_rand = 0 /\ (status \in Unconn \/ ~InfoWaits)

EndIsReported ==
    status \in Unauth /\ link = "down" /\ "disconnected" \notin lost =>
        InQueue("disconnected")

IInv == /\ TypeOK /\ EventsMakeSense /\ EndComesLast /\ MessagesBelong /\ SerialsAscend
        /\ BoundAgreesWithStatus /\ UnauthIsWatched /\ RandForgotten /\ EndIsReported

-------------------------------------------------------------------------------
(* What the three changes of the queue do to the places in it.             *)

LEMMA Posted ==
    ASSUME events \in Seq(Event), NEW e \in Event, events' = Append(events, e)
    PROVE  /\ events' \in Seq(Event) /\ Len(events') = Len(events) + 1
           /\ \A i \in Places : events'[i] = events[i]
           /\ events'[Len(events) + 1] = e
  BY DEF Places

LEMMA Returned ==
    ASSUME events \in Seq(Event), events # <<>>, events' = Tail(events)
    PROVE  /\ events' \in Seq(Event) /\ Len(events') = Len(events) - 1
           /\ \A i \in 1 .. Len(events) - 1 : events'[i] = events[i + 1]
  OBVIOUS

LEMMA Answered ==
    ASSUME events \in Seq(Event), events # <<>>, NEW e \in Event,
           events' = Append(Tail(events), e)
    PROVE  /\ events' \in Seq(Event) /\ Len(events') = Len(events)
           /\ \A i \in 1 .. Len(events) - 1 : events'[i] = events[i + 1]
           /\ events'[Len(events)] = e
  OBVIOUS

(* The kinds of events and what each carries.                              *)
LEMMA Carries ==
    ASSUME NEW e \in Event
    PROVE  /\ e.kind \in {"data", "cmd", "connected", "disconnected", "factory_reset", "auth_key"}
           /\ e.kind \in {"data", "cmd"} =>
                 /\ e.msg \in Message
                 /\ e.msg.conn \in 1 .. MaxConnections /\ e.msg.sn \in 1 .. MaxSn
                 /\ e.msg.cmd \in Command
           /\ e.kind \in {"connected", "disconnected"} => e.conn \in 1 .. MaxConnections
  BY DEF Event, Message, Local

LEMMA InitIInv == ASSUME Init PROVE IInv
  <1> USE SessionAssumption
  <1>1. events = <<>> /\ Len(events) = 0 /\ Places = {}
    BY DEF Init, Places
  <1>2. TypeOK
    <2>1. status \in Status /\ events \in Seq(Event) /\ Len(events) <= Capacity
      BY <1>1 DEF Init, Status, Unconn, SessionAssumption
    <2>2. monitor \in BOOLEAN /\ lost \subseteq {"connected", "disconnected"}
      BY DEF Init
    <2>3. /\ link \in {"down", "up", "terminating", "ended"} /\ bound_flag \in {0, 1}
          /\ pass \in 0 .. Len(events) /\ known \in 0 .. conn
      BY <1>1 DEF Init
    <2>4. /\ conn \in 0 .. MaxConnections /\ phone_sn \in 0 .. MaxSn
          /\ receive_sn \in 0 .. MaxSn /\ pair_rand \in 0 .. MaxConnections
      BY DEF Init, SessionAssumption
    <2> QED BY <2>1, <2>2, <2>3, <2>4 DEF TypeOK
  <1>3. EventsMakeSense /\ EndComesLast /\ MessagesBelong /\ SerialsAscend
    BY <1>1 DEF Init, EventsMakeSense, EndComesLast, MessagesBelong, SerialsAscend, InQueue
  <1>4. BoundAgreesWithStatus /\ UnauthIsWatched /\ RandForgotten /\ EndIsReported
    BY <1>1 DEF Init, BoundAgreesWithStatus, UnauthIsWatched, RandForgotten,
                EndIsReported, Bonding, Unauth, Unconn
  <1> QED BY <1>2, <1>3, <1>4 DEF IInv

-------------------------------------------------------------------------------
(* A handler that returns takes the event it handled off the queue. What   *)
(* that means for the parts about the queue, for events other than those   *)
(* that begin or end a connection or bring a message.                      *)

LinkStays == link' = "down" <=> link = "down"

LEMMA OneEventLess ==
    ASSUME IInv, pass > 0, pass' = pass - 1, HandlerReturns, LinkStays,
           UNCHANGED <<lost, conn>>
    PROVE  /\ events # <<>> /\ 1 \in Places /\ Head(events) = events[1]
           /\ events' \in Seq(Event) /\ Len(events') <= Capacity
           /\ Len(events') = Len(events) - 1 /\ pass' \in 0 .. Len(events')
           /\ \A i \in 1 .. Len(events) - 1 : events'[i] = events[i + 1]
           /\ Places' = 1 .. Len(events) - 1
           /\ EventsMakeSense' /\ EndComesLast'
  <1>1. /\ events \in Seq(Event) /\ Len(events) \in Nat /\ Len(events) <= Capacity
        /\ pass \in 0 .. Len(events)
    BY DEF IInv, TypeOK
  <1>2. events # <<>> /\ 1 \in Places /\ Head(events) = events[1]
    BY <1>1 DEF Places
  <1>3. /\ events' \in Seq(Event) /\ Len(events') = Len(events) - 1
        /\ \A i \in 1 .. Len(events) - 1 : events'[i] = events[i + 1]
    BY <1>1, <1>2, Returned DEF HandlerReturns
  <1>4. Places' = 1 .. Len(events) - 1
    BY <1>3 DEF Places
  <1>5. \A i \in 1 .. Len(events) - 1 : i + 1 \in Places /\ events'[i] = events[i + 1]
    BY <1>1, <1>3 DEF Places
  <1>6. Len(events') <= Capacity /\ pass' \in 0 .. Len(events')
    BY <1>1, <1>3, SessionAssumption
  <1>7. EventsMakeSense'
    BY <1>4, <1>5 DEF IInv, EventsMakeSense, Kind, LinkStays
  <1>8. EndComesLast'
    <2>1. \A i \in Places' : Kind(i, "disconnected")' => link' = "down"
      BY <1>4, <1>5 DEF IInv, EndComesLast, Kind, LinkStays
    <2>2. ASSUME NEW i \in Places', NEW j \in Places', Kind(i, "connected")',
                 Kind(j, "disconnected")'
          PROVE  i < j
      <3>1. /\ i \in Nat /\ i + 1 \in Places /\ Kind(i + 1, "connected")
            /\ j \in Nat /\ j + 1 \in Places /\ Kind(j + 1, "disconnected")
        BY <1>4, <1>5, <2>2 DEF Kind
      <3>2. i + 1 < j + 1
        BY <3>1 DEF IInv, EndComesLast
      <3> QED BY <3>1, <3>2
    <2>3. ASSUME link' = "down", NEW i \in Places', events'[i].kind \in {"connected", "data"}
          PROVE  \/ \E j \in Places' : i < j /\ Kind(j, "disconnected")'
                 \/ "disconnected" \in lost' /\ (i <= pass' \/ (pass' = 0 /\ Full'))
      <3>1. \/ \E j \in Places : i + 1 < j /\ Kind(j, "disconnected")
            \/ "disconnected" \in lost /\ i + 1 <= pass
        BY <1>4, <1>5, <2>3 DEF IInv, EndComesLast, LinkStays
      <3>2. CASE "disconnected" \in lost /\ i + 1 <= pass
        BY <1>1, <1>4, <3>2
      <3>3. ASSUME NEW j \in Places, i + 1 < j, Kind(j, "disconnected")
            PROVE  \E k \in Places' : i < k /\ Kind(k, "disconnected")'
        <4>1. j - 1 \in 1 .. Len(events) - 1 /\ i < j - 1 /\ events'[j - 1] = events[j]
          BY <1>1, <1>4, <1>5, <3>3 DEF Places
        <4> QED BY <1>4, <3>3, <4>1 DEF Kind
      <3> QED BY <3>1, <3>2, <3>3
    <2> QED BY <2>1, <2>2, <2>3 DEF EndComesLast
  <1> QED BY <1>2, <1>3, <1>4, <1>6, <1>7, <1>8

(* Nor does it change which kinds of the others are in the queue.          *)
LEMMA OthersStay ==
    ASSUME events \in Seq(Event), events # <<>>, Len(events') = Len(events) - 1,
           \A i \in 1 .. Len(events) - 1 : events'[i] = events[i + 1],
           NEW kind, events[1].kind # kind
    PROVE  InQueue(kind)' <=> InQueue(kind)
  <1>1. Len(events) \in Nat
    OBVIOUS
  <1>2. ASSUME NEW i \in 1 .. Len(events'), events'[i].kind = kind PROVE InQueue(kind)
    <2>1. i + 1 \in 1 .. Len(events) /\ events[i + 1].kind = kind
      BY <1>1, <1>2
    <2> QED BY <2>1 DEF InQueue
  <1>3. ASSUME NEW i \in 1 .. Len(events), events[i].kind = kind PROVE InQueue(kind)'
    <2>1. i - 1 \in 1 .. Len(events') /\ events'[i - 1].kind = kind
      BY <1>1, <1>3
    <2> QED BY <2>1 DEF InQueue
  <1> QED BY <1>2, <1>3 DEF InQueue

LEMMA CommandHandled ==
    ASSUME IInv, pass > 0, pass' = pass - 1, HandlerReturns, LinkStays,
           Head(events).kind \in {"cmd", "factory_reset", "auth_key"},
           UNCHANGED <<lost, conn, phone_sn, receive_sn, known>>
    PROVE  /\ EventsMakeSense' /\ EndComesLast' /\ MessagesBelong' /\ SerialsAscend'
           /\ InQueue("connected")' <=> InQueue("connected")
           /\ InQueue("disconnected")' <=> InQueue("disconnected")
           /\ Over' <=> Over
           /\ InfoWaits' => InfoWaits
           /\ events' \in Seq(Event) /\ Len(events') <= Capacity
           /\ pass' \in 0 .. Len(events')
           /\ 1 \in Places /\ Head(events) = events[1]
  <1>1. /\ events # <<>> /\ 1 \in Places /\ Head(events) = events[1]
        /\ events' \in Seq(Event) /\ Len(events') <= Capacity
        /\ Len(events') = Len(events) - 1 /\ pass' \in 0 .. Len(events')
        /\ \A i \in 1 .. Len(events) - 1 : events'[i] = events[i + 1]
        /\ Places' = 1 .. Len(events) - 1
        /\ EventsMakeSense' /\ EndComesLast'
    BY OneEventLess
  <1>2. events \in Seq(Event) /\ Len(events) \in Nat
    BY DEF IInv, TypeOK
  <1>3. /\ InQueue("connected")' <=> InQueue("connected")
        /\ InQueue("disconnected")' <=> InQueue("disconnected")
    BY <1>1, <1>2, OthersStay
  <1>4. \A i \in Places' : i \in Nat /\ i + 1 \in Places /\ events'[i] = events[i + 1]
    BY <1>1, <1>2 DEF Places
  <1>5. MessagesBelong'
    BY <1>3, <1>4 DEF IInv, MessagesBelong, Kind
  <1>6. SerialsAscend'
    BY <1>3, <1>4 DEF IInv, SerialsAscend, Kind
  <1>7. Over' <=> Over
    BY <1>3 DEF Over, LinkStays
  <1>8. InfoWaits' => InfoWaits
    BY <1>4 DEF InfoWaits, Kind
  <1> QED BY <1>1, <1>3, <1>5, <1>6, <1>7, <1>8

(* Commands and the events of the application: none makes an unpaired      *)
(* connection of another status, ends the link itself or leaves the rest   *)
(* of the invariant to any more than the following.                        *)
LEMMA CommandStep ==
    ASSUME IInv, pass > 0, pass' = pass - 1, HandlerReturns,
           Head(events).kind \in {"cmd", "factory_reset", "auth_key"},
           UNCHANGED <<lost, conn, phone_sn, receive_sn, known>>,
           link' \in {link, tuya_ble_gap_disconnect},
           status' \in Status, status' = status \/ status' \notin Unauth,
           bound_flag' \in {0, 1}, BoundAgreesWithStatus',
           monitor' \in BOOLEAN, monitor' = monitor \/ status' \notin Unauth,
           pair_rand' \in 0 .. MaxConnections,
           lost = {} => /\ pair_rand' \in {0, known}
                        /\ Over => /\ pair_rand' = 0
                                   /\ status' \in Unconn \/ status' = status \/ ~InfoWaits'
    PROVE  IInv'
  <1>1. LinkStays /\ (link' = "up" => link = "up") /\ link' \in {"down", "up", "terminating", "ended"}
    BY DEF IInv, TypeOK, LinkStays, tuya_ble_gap_disconnect
  <1>2. /\ EventsMakeSense' /\ EndComesLast' /\ MessagesBelong' /\ SerialsAscend'
        /\ InQueue("connected")' <=> InQueue("connected")
        /\ InQueue("disconnected")' <=> InQueue("disconnected")
        /\ Over' <=> Over
        /\ InfoWaits' => InfoWaits
        /\ events' \in Seq(Event) /\ Len(events') <= Capacity
        /\ pass' \in 0 .. Len(events')
    BY <1>1, CommandHandled
  <1>3. TypeOK'
    BY <1>1, <1>2 DEF IInv, TypeOK
  <1>4. UnauthIsWatched'
    BY <1>1, <1>2 DEF IInv, UnauthIsWatched
  <1>5. RandForgotten'
    BY <1>2 DEF IInv, RandForgotten
  <1>6. EndIsReported'
    BY <1>1, <1>2 DEF IInv, EndIsReported, LinkStays
  <1> QED BY <1>2, <1>3, <1>4, <1>5, <1>6 DEF IInv

LEMMA UnbondKeeps ==
    ASSUME IInv, pass > 0, pass' = pass - 1, HandlerReturns,
           Head(events).kind \in {"cmd", "factory_reset", "auth_key"},
           UNCHANGED <<lost, conn, phone_sn, receive_sn, known, monitor, pair_rand>>,
           tuya_ble_device_unbond
    PROVE  IInv'
  <1>1. /\ status' = "UNBONDING_UNCONN" /\ bound_flag' = 0
        /\ link' = tuya_ble_gap_disconnect
    BY DEF tuya_ble_device_unbond
  <1>2. status' \in Status /\ status' \in Unconn /\ status' \notin Unauth
    BY <1>1 DEF Status, Unconn, Unauth
  <1>3. BoundAgreesWithStatus'
    BY <1>1 DEF BoundAgreesWithStatus, Bonding
  <1>4. monitor' \in BOOLEAN /\ monitor' = monitor
    BY DEF IInv, TypeOK
  <1>5. /\ pair_rand' \in 0 .. MaxConnections
        /\ lost = {} => pair_rand' \in {0, known} /\ (Over => pair_rand' = 0)
    BY DEF IInv, TypeOK, RandForgotten
  <1> QED BY <1>1, <1>2, <1>3, <1>4, <1>5, CommandStep

LEMMA AuthKeyKeeps == ASSUME IInv, AuthKey PROVE IInv'
  <1>1. /\ pass > 0 /\ pass' = pass - 1 /\ HandlerReturns
        /\ Head(events).kind = "auth_key"
        /\ UNCHANGED <<lost, conn, phone_sn, receive_sn, known, link, pair_rand, monitor>>
        /\ bound_flag' = 0
        /\ status' = IF bound_flag = 1 THEN "UNBONDING_UNCONN" ELSE status
    BY DEF AuthKey, Handling
  <1>2. status \in Status /\ bound_flag \in {0, 1} /\ BoundAgreesWithStatus
    BY DEF IInv, TypeOK
  <1>3. /\ status' \in Status /\ (status' = status \/ status' \notin Unauth)
        /\ status' \in Unconn \/ status' = status
        /\ BoundAgreesWithStatus'
    BY <1>1, <1>2 DEF Status, Unconn, Unauth, BoundAgreesWithStatus, Bonding
  <1>4. monitor' \in BOOLEAN /\ monitor' = monitor
    BY <1>1 DEF IInv, TypeOK
  <1>5. /\ pair_rand' \in 0 .. MaxConnections
        /\ lost = {} => pair_rand' \in {0, known} /\ (Over => pair_rand' = 0)
    BY <1>1 DEF IInv, TypeOK, RandForgotten
  <1>6. link' \in {link, tuya_ble_gap_disconnect} /\ bound_flag' \in {0, 1}
    BY <1>1
  <1> QED BY <1>1, <1>3, <1>4, <1>5, <1>6, CommandStep

(* The command a connection begins with: a new random for the connection   *)
(* that was handled last, unless that is over.                             *)
LEMMA DevInfoKeeps == ASSUME IInv, tuya_ble_handle_dev_info_req PROVE IInv'
  <1>1. /\ pass > 0 /\ pass' = pass - 1 /\ HandlerReturns
        /\ Head(events).kind = "cmd" /\ Head(events).msg.cmd = "dev_info"
        /\ UNCHANGED <<lost, conn, phone_sn, receive_sn, known, link, status, bound_flag, monitor>>
        /\ pair_rand' = IF status \in Unconn THEN 0 ELSE Head(events).msg.conn
    BY DEF tuya_ble_handle_dev_info_req, Executing, Handling
  <1>2. 1 \in Places /\ Head(events) = events[1] /\ events[1] \in Event
    BY <1>1 DEF IInv, TypeOK, Places
  <1>3. events[1].msg.conn \in 1 .. MaxConnections
    BY <1>1, <1>2, Carries
  <1>4. /\ pair_rand' \in 0 .. MaxConnections
        /\ status' \in Status /\ bound_flag' \in {0, 1} /\ BoundAgreesWithStatus'
    BY <1>1, <1>2, <1>3, SessionAssumption DEF IInv, TypeOK, BoundAgreesWithStatus
  <1>5. InfoWaits
    BY <1>1, <1>2 DEF InfoWaits, Kind
  <1>6. lost = {} => pair_rand' \in {0, known} /\ (Over => pair_rand' = 0)
    BY <1>1, <1>2, <1>5 DEF IInv, MessagesBelong, Kind, RandForgotten
  <1>7. monitor' \in BOOLEAN /\ monitor' = monitor
    BY <1>1 DEF IInv, TypeOK
  <1>8. link' \in {link, tuya_ble_gap_disconnect}
    BY <1>1
  <1> QED BY <1>1, <1>4, <1>6, <1>7, <1>8, CommandStep

(* After a pairing no request for information is left, as that comes first.*)
LEMMA PairKeeps == ASSUME IInv, tuya_ble_handle_pair_req PROVE IInv'
  <1>1. /\ pass > 0 /\ pass' = pass - 1 /\ HandlerReturns
        /\ Head(events).kind = "cmd"
        /\ UNCHANGED <<lost, conn, phone_sn, receive_sn, known, pair_rand>>
    BY DEF tuya_ble_handle_pair_req, Executing, Handling
  <1>2. /\ pair_rand' \in 0 .. MaxConnections
        /\ lost = {} => pair_rand' \in {0, known} /\ (Over => pair_rand' = 0)
    BY <1>1 DEF IInv, TypeOK, RandForgotten
  <1>3. /\ link \in {"down", "up", "terminating", "ended"} /\ status \in Status
        /\ bound_flag \in {0, 1} /\ monitor \in BOOLEAN /\ BoundAgreesWithStatus
        /\ events \in Seq(Event) /\ Len(events) \in Nat /\ events # <<>>
    BY <1>1 DEF IInv, TypeOK
  <1>4. CASE Executing("pair")
    <2>1. link' = link /\ monitor' = FALSE /\ bound_flag' = 1 /\ status' = "BONDING_CONN"
      BY <1>4, <1>1 DEF tuya_ble_handle_pair_req, Executing
    <2>2. status' \in Status /\ status' \notin Unauth /\ BoundAgreesWithStatus'
      BY <2>1 DEF Status, Unauth, BoundAgreesWithStatus, Bonding
    <2>3. lost = {} => ~InfoWaits'
      <3>1. /\ events' \in Seq(Event) /\ Len(events') = Len(events) - 1
            /\ \A i \in 1 .. Len(events) - 1 : events'[i] = events[i + 1]
        BY <1>1, <1>3, Returned DEF HandlerReturns
      <3>2. 1 \in Places /\ Head(events) = events[1] /\ events[1] \in Event
        BY <1>3 DEF Places
      <3>3. events[1].msg.sn \in 1 .. MaxSn
        BY <1>1, <3>2, Carries
      <3>4. SUFFICES ASSUME lost = {}, NEW i \in Places',
                            events'[i].kind = "cmd", events'[i].msg.cmd = "dev_info"
                     PROVE  FALSE
        BY DEF InfoWaits, Kind
      <3>5. i + 1 \in Places /\ 1 < i + 1 /\ events'[i] = events[i + 1]
        BY <1>3, <3>1 DEF Places
      <3>6. events[1].msg.sn < events[i + 1].msg.sn /\ events[i + 1].msg.sn = 1
        BY <1>1, <3>2, <3>4, <3>5 DEF IInv, SerialsAscend, EventsMakeSense, Kind
      <3> QED BY <3>3, <3>6
    <2>4. monitor' \in BOOLEAN /\ link' \in {link, tuya_ble_gap_disconnect}
          /\ bound_flag' \in {0, 1}
      BY <2>1
    <2> QED BY <1>1, <1>2, <2>2, <2>3, <2>4, CommandStep
  <1>5. CASE Executing("pair_other")
    <2>1. /\ link' = tuya_ble_gap_disconnect
          /\ UNCHANGED <<status, bound_flag, monitor>>
      BY <1>5, <1>1 DEF tuya_ble_handle_pair_req, Executing
    <2>2. BoundAgreesWithStatus' /\ monitor' \in BOOLEAN /\ monitor' = monitor
      BY <1>3, <2>1 DEF BoundAgreesWithStatus
    <2>3. status' \in Status /\ bound_flag' \in {0, 1} /\ status' = status
          /\ link' \in {link, tuya_ble_gap_disconnect}
      BY <1>3, <2>1
    <2> QED BY <1>1, <1>2, <2>2, <2>3, CommandStep
  <1> QED BY <1>4, <1>5 DEF tuya_ble_handle_pair_req

LEMMA DpWriteKeeps == ASSUME IInv, tuya_ble_handle_dp_write_req PROVE IInv'
  <1>1. /\ pass > 0 /\ pass' = pass - 1 /\ HandlerReturns
        /\ Head(events).kind = "cmd"
        /\ UNCHANGED <<lost, conn, phone_sn, receive_sn, known, link, status, bound_flag,
                       monitor, pair_rand>>
    BY DEF tuya_ble_handle_dp_write_req, Executing, Handling
  <1>2. /\ pair_rand' \in 0 .. MaxConnections
        /\ lost = {} => pair_rand' \in {0, known} /\ (Over => pair_rand' = 0)
    BY <1>1 DEF IInv, TypeOK, RandForgotten
  <1>3. /\ status' \in Status /\ status' = status /\ bound_flag' \in {0, 1}
        /\ BoundAgreesWithStatus' /\ link' \in {link, tuya_ble_gap_disconnect}
    BY <1>1 DEF IInv, TypeOK, BoundAgreesWithStatus
  <1>4. monitor' \in BOOLEAN /\ monitor' = monitor
    BY <1>1 DEF IInv, TypeOK
  <1> QED BY <1>1, <1>2, <1>3, <1>4, CommandStep

-------------------------------------------------------------------------------
(* The begin and the end of a connection are handled.                      *)

LEMMA ConnectedKeeps == ASSUME IInv, Connected PROVE IInv'
  <1>1. /\ pass > 0 /\ pass' = pass - 1 /\ HandlerReturns
        /\ Head(events).kind = "connected"
        /\ UNCHANGED <<lost, conn, phone_sn, link, bound_flag, pair_rand>>
        /\ receive_sn' = 0 /\ status' = ConnectedStatus /\ monitor' = TRUE
        /\ known' = Head(events).conn
    BY DEF Connected, Handling
  <1>2. /\ events # <<>> /\ 1 \in Places /\ Head(events) = events[1]
        /\ events' \in Seq(Event) /\ Len(events') <= Capacity
        /\ Len(events') = Len(events) - 1 /\ pass' \in 0 .. Len(events')
        /\ \A i \in 1 .. Len(events) - 1 : events'[i] = events[i + 1]
        /\ Places' = 1 .. Len(events) - 1
        /\ EventsMakeSense' /\ EndComesLast'
    <2>1. LinkStays /\ UNCHANGED <<lost, conn>>
      BY <1>1 DEF LinkStays
    <2> QED BY <1>1, <2>1, OneEventLess
  <1>3. /\ events \in Seq(Event) /\ Len(events) \in Nat /\ events[1] \in Event
        /\ conn \in Nat /\ phone_sn \in Nat
    BY <1>2 DEF IInv, TypeOK, Places
  <1>4. \A i \in Places' : i \in Nat /\ i + 1 \in Places /\ 1 < i + 1 /\ events'[i] = events[i + 1]
    BY <1>2, <1>3 DEF Places
  <1>5. events[1].conn \in 1 .. MaxConnections /\ events[1].conn <= conn
    BY <1>1, <1>2, <1>3, Carries DEF IInv, EventsMakeSense, Kind
  <1>6. status' \in Unauth /\ status' \notin Unconn /\ status' \in Status
    BY <1>1 DEF ConnectedStatus, Unauth, Unconn, Status
  <1>7. TypeOK'
    <2>1. monitor' \in BOOLEAN
      BY <1>1
    <2>2. known' \in 0 .. conn' /\ receive_sn' \in 0 .. MaxSn
      BY <1>1, <1>2, <1>3, <1>5, SessionAssumption
    <2> QED BY <1>1, <1>2, <1>6, <2>1, <2>2 DEF IInv, TypeOK
  <1>8. "connected" \notin lost =>
           /\ ~InQueue("connected")' /\ known' = conn
           /\ \A i \in Places' : ~Kind(i, "connected")' /\ ~Kind(i, "cmd")'
    <2>1. ASSUME "connected" \notin lost, NEW i \in Places'
          PROVE  ~Kind(i, "connected")' /\ ~Kind(i, "cmd")'
      <3>1. /\ \A k, l \in Places : Kind(k, "connected") /\ Kind(l, "connected") => k = l
            /\ \A k, l \in Places : Kind(k, "connected") /\ Kind(l, "cmd") => l < k
        BY <2>1 DEF IInv, MessagesBelong
      <3>2. Kind(1, "connected")
        BY <1>1, <1>2 DEF Kind
      <3>3. /\ 1 \in Places /\ i \in Nat /\ i + 1 \in Places
            /\ 1 < i + 1 /\ events'[i] = events[i + 1]
        BY <1>2, <1>4, <2>1
      <3>4. i + 1 # 1 /\ ~(i + 1 < 1)
        BY <3>3
      <3>5. ~Kind(i + 1, "connected") /\ ~Kind(i + 1, "cmd")
        BY <3>1, <3>2, <3>3, <3>4
      <3> QED BY <3>3, <3>5 DEF Kind
    <2>2. "connected" \notin lost => known' = conn
      BY <1>1, <1>2 DEF IInv, MessagesBelong, Kind
    <2> QED BY <2>1, <2>2 DEF InQueue, Kind, Places
  <1>9. MessagesBelong'
    BY <1>1, <1>4, <1>8 DEF IInv, MessagesBelong, Kind
  <1>10. \A i \in Places' : Kind(i, "data")' => events'[i].msg.sn \in 1 .. MaxSn
    BY <1>2, Carries DEF Kind, Places
  <1>11. SerialsAscend'
    <2>1. "connected" \notin lost =>
            /\ \A i \in Places' : Kind(i, "data")' => events'[i].msg.sn <= phone_sn'
            /\ \A i, j \in Places' : i < j /\ Kind(i, "data")' /\ Kind(j, "data")' =>
                  events'[i].msg.sn < events'[j].msg.sn
      BY <1>1, <1>4 DEF IInv, SerialsAscend, Kind
    <2> QED BY <1>1, <1>3, <1>8, <1>10, <2>1 DEF SerialsAscend
  <1>12. BoundAgreesWithStatus'
    BY <1>1 DEF IInv, TypeOK, BoundAgreesWithStatus, ConnectedStatus, Bonding
  <1>13. UnauthIsWatched'
    BY <1>1 DEF UnauthIsWatched
  <1>14. "disconnected" \notin lost /\ link = "down" => InQueue("disconnected")'
    <2>1. ASSUME "disconnected" \notin lost, link = "down" PROVE InQueue("disconnected")'
      <3>1. PICK j \in Places : 1 < j /\ Kind(j, "disconnected")
        BY <1>1, <1>2, <2>1 DEF IInv, EndComesLast
      <3>2. j - 1 \in Places' /\ events'[j - 1] = events[j]
        BY <1>2, <1>3, <3>1 DEF Places
      <3> QED BY <3>1, <3>2 DEF InQueue, Kind, Places
    <2> QED BY <2>1
  <1>15. EndIsReported'
    BY <1>1, <1>14 DEF EndIsReported
  <1>16. RandForgotten'
    <2>1. InQueue("connected")
      BY <1>1, <1>2 DEF InQueue, Places
    <2>2. lost = {} => pair_rand' = 0 /\ ~Over'
      BY <1>1, <1>8, <1>14, <2>1 DEF IInv, RandForgotten, Over
    <2> QED BY <1>1, <2>2 DEF RandForgotten
  <1> QED BY <1>2, <1>7, <1>9, <1>11, <1>12, <1>13, <1>15, <1>16 DEF IInv

LEMMA DisconnectedKeeps == ASSUME IInv, Disconnected PROVE IInv'
  <1>1. /\ pass > 0 /\ pass' = pass - 1 /\ HandlerReturns
        /\ Head(events).kind = "disconnected"
        /\ UNCHANGED <<lost, conn, phone_sn, link, bound_flag, monitor, known>>
        /\ receive_sn' = 0 /\ pair_rand' = 0 /\ status' = DisconnectedStatus
    BY DEF Disconnected, Handling
  <1>2. /\ events # <<>> /\ 1 \in Places /\ Head(events) = events[1]
        /\ events' \in Seq(Event) /\ Len(events') <= Capacity
        /\ Len(events') = Len(events) - 1 /\ pass' \in 0 .. Len(events')
        /\ \A i \in 1 .. Len(events) - 1 : events'[i] = events[i + 1]
        /\ Places' = 1 .. Len(events) - 1
        /\ EventsMakeSense' /\ EndComesLast'
    <2>1. LinkStays /\ UNCHANGED <<lost, conn>>
      BY <1>1 DEF LinkStays
    <2> QED BY <1>1, <2>1, OneEventLess
  <1>3. /\ events \in Seq(Event) /\ Len(events) \in Nat /\ events[1] \in Event
        /\ phone_sn \in Nat /\ receive_sn \in Nat
    BY <1>2 DEF IInv, TypeOK, Places
  <1>4. \A i \in Places' : i \in Nat /\ i + 1 \in Places /\ events'[i] = events[i + 1]
    BY <1>2, <1>3 DEF Places
  <1>5. InQueue("connected")' <=> InQueue("connected")
    BY <1>1, <1>2, <1>3, OthersStay
  <1>6. status' \notin Unauth /\ status' \in Unconn /\ status' \in Status
    BY <1>1 DEF DisconnectedStatus, Unauth, Unconn, Status
  <1>7. TypeOK'
    <2>1. monitor' \in BOOLEAN
      BY <1>1 DEF IInv, TypeOK
    <2>2. pair_rand' \in 0 .. MaxConnections /\ receive_sn' \in 0 .. MaxSn
      BY <1>1, SessionAssumption
    <2> QED BY <1>1, <1>2, <1>6, <2>1, <2>2 DEF IInv, TypeOK
  <1>8. MessagesBelong'
    BY <1>1, <1>4, <1>5 DEF IInv, MessagesBelong, Kind
  <1>9. \A i \in Places' : Kind(i, "data")' => events'[i].msg.sn \in 1 .. MaxSn
    BY <1>2, Carries DEF Kind, Places
  <1>10. SerialsAscend'
    <2> SUFFICES ASSUME "connected" \notin lost PROVE SerialsAscend'
      BY <1>1 DEF SerialsAscend
    <2>1. /\ \A i \in Places' : Kind(i, "data")' => events'[i].msg.sn <= phone_sn'
          /\ \A i, j \in Places' : i < j /\ Kind(i, "data")' /\ Kind(j, "data")' =>
                events'[i].msg.sn < events'[j].msg.sn
          /\ \A i, j \in Places' : i < j /\ Kind(i, "cmd")' /\ Kind(j, "cmd")' =>
                events'[i].msg.sn < events'[j].msg.sn
      BY <1>1, <1>4 DEF IInv, SerialsAscend, Kind
    <2>2. ~InQueue("connected")' =>
            /\ \A i \in Places' : Kind(i, "cmd")' => events'[i].msg.sn <= phone_sn'
            /\ \A i, j \in Places' : Kind(i, "cmd")' /\ Kind(j, "data")' =>
                  events'[i].msg.sn < events'[j].msg.sn
      BY <1>1, <1>4, <1>5 DEF IInv, SerialsAscend, Kind
    <2>3. /\ receive_sn' <= phone_sn'
          /\ \A i \in Places' : Kind(i, "data")' => events'[i].msg.sn > receive_sn'
      BY <1>1, <1>3, <1>9
    <2> QED BY <2>1, <2>2, <2>3 DEF SerialsAscend
  <1>11. BoundAgreesWithStatus'
    BY <1>1 DEF IInv, TypeOK, BoundAgreesWithStatus, DisconnectedStatus, Bonding
  <1>12. UnauthIsWatched' /\ EndIsReported' /\ RandForgotten'
    BY <1>1, <1>6 DEF UnauthIsWatched, EndIsReported, RandForgotten
  <1> QED BY <1>2, <1>7, <1>8, <1>10, <1>11, <1>12 DEF IInv

-------------------------------------------------------------------------------
(* A message is decoded. Its command, if it may be received, goes to the   *)
(* end of the queue.                                                       *)

LEMMA DecodedKeeps ==
    ASSUME IInv, tuya_ble_commonData_rx_proc, HandlerReturns PROVE IInv'
  <1>1. /\ pass > 0 /\ pass' = pass - 1
        /\ Head(events).kind = "data"
        /\ UNCHANGED <<lost, conn, phone_sn, status, bound_flag, pair_rand, monitor, known>>
        /\ link' \in {link, tuya_ble_gap_disconnect}
        /\ receive_sn' \in {receive_sn, Head(events).msg.sn}
    BY DEF tuya_ble_commonData_rx_proc, Handling
  <1>2. LinkStays /\ (link' = "up" => link = "up") /\ link' \in {"down", "up", "terminating", "ended"}
    BY <1>1 DEF IInv, TypeOK, LinkStays, tuya_ble_gap_disconnect
  <1>3. /\ events # <<>> /\ 1 \in Places /\ Head(events) = events[1]
        /\ events' \in Seq(Event) /\ Len(events') <= Capacity
        /\ Len(events') = Len(events) - 1 /\ pass' \in 0 .. Len(events')
        /\ \A i \in 1 .. Len(events) - 1 : events'[i] = events[i + 1]
        /\ Places' = 1 .. Len(events) - 1
        /\ EventsMakeSense' /\ EndComesLast'
    BY <1>1, <1>2, OneEventLess
  <1>4. /\ events \in Seq(Event) /\ Len(events) \in Nat /\ events[1] \in Event
        /\ phone_sn \in Nat /\ receive_sn \in Nat
    BY <1>3 DEF IInv, TypeOK, Places
  <1>5. events[1].msg.sn \in 1 .. MaxSn
    BY <1>1, <1>3, <1>4, Carries
  <1>6. \A i \in Places' : /\ i \in Nat /\ i + 1 \in Places /\ 1 < i + 1
                           /\ events'[i] = events[i + 1]
    BY <1>3, <1>4 DEF Places
  <1>7. /\ InQueue("connected")' <=> InQueue("connected")
        /\ InQueue("disconnected")' <=> InQueue("disconnected")
    BY <1>1, <1>3, <1>4, OthersStay
  <1>8. TypeOK'
    <2>1. monitor' \in BOOLEAN
      BY <1>1 DEF IInv, TypeOK
    <2>2. receive_sn' \in 0 .. MaxSn
      BY <1>1, <1>3, <1>5 DEF IInv, TypeOK
    <2> QED BY <1>1, <1>2, <1>3, <2>1, <2>2 DEF IInv, TypeOK
  <1>9. MessagesBelong'
    BY <1>1, <1>6, <1>7 DEF IInv, MessagesBelong, Kind
  <1>10. SerialsAscend'
    <2> SUFFICES ASSUME "connected" \notin lost PROVE SerialsAscend'
      BY <1>1 DEF SerialsAscend
    <2>1. /\ \A i \in Places' : Kind(i, "data")' => events'[i].msg.sn <= phone_sn'
          /\ \A i, j \in Places' : i < j /\ Kind(i, "data")' /\ Kind(j, "data")' =>
                events'[i].msg.sn < events'[j].msg.sn
          /\ \A i, j \in Places' : i < j /\ Kind(i, "cmd")' /\ Kind(j, "cmd")' =>
                events'[i].msg.sn < events'[j].msg.sn
      BY <1>1, <1>6 DEF IInv, SerialsAscend, Kind
    <2>2. ~InQueue("connected")' =>
            /\ \A i \in Places' : Kind(i, "cmd")' => events'[i].msg.sn <= phone_sn'
            /\ \A i, j \in Places' : Kind(i, "cmd")' /\ Kind(j, "data")' =>
                  events'[i].msg.sn < events'[j].msg.sn
      BY <1>1, <1>6, <1>7 DEF IInv, SerialsAscend, Kind
    <2>3. ~InQueue("connected")' =>
            /\ receive_sn' <= phone_sn'
            /\ \A i \in Places' : Kind(i, "data")' => events'[i].msg.sn > receive_sn'
      <3> SUFFICES ASSUME ~InQueue("connected")
                   PROVE  /\ receive_sn' <= phone_sn'
                          /\ \A i \in Places' : Kind(i, "data")' =>
                                events'[i].msg.sn > receive_sn'
        BY <1>7
      <3>1. Kind(1, "data")
        BY <1>1, <1>3 DEF Kind
      <3>2. /\ events[1].msg.sn <= phone_sn /\ receive_sn <= phone_sn
            /\ \A i \in Places : Kind(i, "data") => events[i].msg.sn > receive_sn
            /\ \A i, j \in Places : i < j /\ Kind(i, "data") /\ Kind(j, "data") =>
                  events[i].msg.sn < events[j].msg.sn
        BY <1>1, <1>3, <3>1 DEF IInv, SerialsAscend
      <3>3. ASSUME NEW i \in Places', Kind(i, "data")' PROVE events'[i].msg.sn > receive_sn'
        <4>1. Kind(i + 1, "data")
          BY <1>6, <3>3 DEF Kind
        <4>2. events[i + 1].msg.sn > receive_sn /\ events[1].msg.sn < events[i + 1].msg.sn
          BY <1>3, <1>6, <3>1, <3>2, <4>1
        <4>3. events[i + 1] \in Event
          BY <1>4, <1>6 DEF Places
        <4>4. events[i + 1].msg.sn \in Nat
          BY <4>1, <4>3, Carries, SessionAssumption DEF Kind
        <4> QED BY <1>1, <1>3, <1>4, <1>5, <1>6, <4>2, <4>4, SessionAssumption
      <3> QED BY <1>1, <1>3, <3>2, <3>3
    <2> QED BY <2>1, <2>2, <2>3 DEF SerialsAscend
  <1>11. BoundAgreesWithStatus' /\ UnauthIsWatched'
    BY <1>1, <1>2, <1>7 DEF IInv, BoundAgreesWithStatus, UnauthIsWatched
  <1>12. RandForgotten'
    <2>1. InfoWaits' => InfoWaits
      BY <1>6 DEF InfoWaits, Kind
    <2> QED BY <1>1, <1>2, <1>7, <2>1 DEF IInv, RandForgotten, Over, LinkStays
  <1>13. EndIsReported'
    BY <1>1, <1>2, <1>7 DEF IInv, EndIsReported, LinkStays
  <1> QED BY <1>3, <1>8, <1>9, <1>10, <1>11, <1>12, <1>13 DEF IInv

AnswerPosted == events' = Append(Tail(events), [kind |-> "cmd", msg |-> Head(events).msg])

(* No announcement is behind the message, so the one there is was handled. *)
LEMMA AnsweredKeeps ==
    ASSUME IInv, Handling("data"),
           UNCHANGED <<status, bound_flag, pair_rand, monitor, known, link>>,
           Head(events).msg.sn > receive_sn, receive_sn' = Head(events).msg.sn,
           AnswerPosted
    PROVE  IInv'
  <1> DEFINE m == Head(events).msg
             e == [kind |-> "cmd", msg |-> m]
             n == Len(events)
  <1>1. /\ pass > 0 /\ pass' = pass - 1
        /\ Head(events).kind = "data"
        /\ UNCHANGED <<lost, conn, phone_sn, status, bound_flag, pair_rand, monitor, known, link>>
    BY DEF Handling
  <1>2. /\ events \in Seq(Event) /\ n \in Nat /\ events # <<>> /\ n <= Capacity
        /\ 1 \in Places /\ Head(events) = events[1] /\ events[1] \in Event
        /\ phone_sn \in Nat /\ receive_sn \in Nat /\ pass \in 0 .. n /\ conn \in Nat
    BY <1>1 DEF IInv, TypeOK, Places
  <1>3. m \in Message /\ m.sn \in 1 .. MaxSn
    BY <1>1, <1>2, Carries
  <1>4. e \in Event /\ e.kind = "cmd" /\ e.msg = m
    BY <1>3 DEF Event
  <1>5. /\ events' \in Seq(Event) /\ Len(events') = n
        /\ \A i \in 1 .. n - 1 : events'[i] = events[i + 1]
        /\ events'[n] = e
    BY <1>2, <1>4, Answered DEF AnswerPosted
  <1>6. Places' = 1 .. n /\ n \in Places' /\ n >= 1
    BY <1>2, <1>5 DEF Places
  <1> HIDE DEF m, e, n
  <1>7. \A i \in Places' : \/ i = n /\ events'[i] = e
                           \/ /\ i \in 1 .. n - 1 /\ i \in Nat /\ i + 1 \in Places
                              /\ 1 < i + 1 /\ i < n /\ events'[i] = events[i + 1]
    <2> SUFFICES ASSUME NEW i \in 1 .. n, i # n
                 PROVE  /\ i \in 1 .. n - 1 /\ i \in Nat /\ i + 1 \in Places
                        /\ 1 < i + 1 /\ i < n /\ events'[i] = events[i + 1]
      BY <1>5, <1>6
    <2>1. i \in 1 .. n - 1 /\ i \in Nat /\ 1 < i + 1 /\ i < n /\ i + 1 \in 1 .. n
      BY <1>2
    <2> QED BY <1>5, <2>1 DEF Places, n
  <1>8. \A i \in Places : i = 1 \/ (i - 1 \in Places' /\ i - 1 < n /\ events'[i - 1] = events[i])
    <2>1. \A i \in 1 .. n : i = 1 \/ (i - 1 \in 1 .. n - 1 /\ (i - 1) + 1 = i)
      BY <1>2
    <2> QED BY <1>2, <1>5, <1>6, <2>1 DEF Places, n
  <1> DEFINE Old(i) == /\ i \in Nat /\ i + 1 \in Places /\ 1 < i + 1 /\ i < n
                       /\ events'[i] = events[i + 1]
  <1>19. \A i \in Places' : events'[i].kind # "cmd" => Old(i)
    BY <1>4, <1>7
  <1>9. Kind(1, "data") /\ events[1].msg = m /\ receive_sn' = m.sn /\ m.sn > receive_sn
    BY <1>1, <1>2 DEF Kind, m
  <1>10. /\ InQueue("connected")' <=> InQueue("connected")
         /\ InQueue("disconnected")' <=> InQueue("disconnected")
    <2>1. ASSUME NEW k \in {"connected", "disconnected"} PROVE InQueue(k)' <=> InQueue(k)
      <3>1. InQueue(k)' <=> \E i \in Places' : events'[i].kind = k
        BY DEF InQueue, Places
      <3>2. InQueue(k) <=> \E i \in Places : events[i].kind = k
        BY DEF InQueue, Places
      <3> QED BY <1>4, <1>7, <1>8, <1>9, <3>1, <3>2 DEF Kind
    <2> QED BY <2>1
  <1>11. TypeOK'
    <2>1. monitor' \in BOOLEAN
      BY <1>1 DEF IInv, TypeOK
    <2>2. receive_sn' \in 0 .. MaxSn /\ pass' \in 0 .. Len(events') /\ Len(events') <= Capacity
      BY <1>1, <1>2, <1>3, <1>5, <1>9
    <2> QED BY <1>1, <1>5, <2>1, <2>2 DEF IInv, TypeOK
  <1>12. EventsMakeSense'
    BY <1>1, <1>2, <1>4, <1>7, <1>9 DEF IInv, EventsMakeSense, Kind
  <1>13. EndComesLast'
    <2>1. /\ \A i \in Places' : Kind(i, "disconnected")' => link' = "down"
          /\ \A i, j \in Places' : Kind(i, "connected")' /\ Kind(j, "disconnected")' => i < j
      BY <1>1, <1>19 DEF IInv, EndComesLast, Kind
    <2>2. ASSUME link' = "down", NEW i \in Places', events'[i].kind \in {"connected", "data"}
          PROVE  \/ \E j \in Places' : i < j /\ Kind(j, "disconnected")'
                 \/ "disconnected" \in lost' /\ (i <= pass' \/ (pass' = 0 /\ Full'))
      <3>1. i \in Nat /\ i + 1 \in Places /\ events'[i] = events[i + 1]
        BY <1>19, <2>2
      <3>2. \/ \E j \in Places : i + 1 < j /\ Kind(j, "disconnected")
            \/ "disconnected" \in lost /\ i + 1 <= pass
        BY <1>1, <2>2, <3>1 DEF IInv, EndComesLast
      <3>3. CASE "disconnected" \in lost /\ i + 1 <= pass
        BY <1>1, <1>2, <3>1, <3>3
      <3>4. ASSUME NEW j \in Places, i + 1 < j, Kind(j, "disconnected")
            PROVE  \E k \in Places' : i < k /\ Kind(k, "disconnected")'
        <4>1. j - 1 \in Places' /\ i < j - 1 /\ events'[j - 1] = events[j]
          BY <1>2, <1>8, <3>1, <3>4 DEF Places
        <4> QED BY <3>4, <4>1 DEF Kind
      <3> QED BY <3>2, <3>3, <3>4
    <2> QED BY <2>1, <2>2 DEF EndComesLast
  <1>14. "connected" \notin lost => ~InQueue("connected") /\ m.conn = known
    BY <1>2, <1>9 DEF IInv, MessagesBelong, InQueue, Kind, Places
  <1>15. MessagesBelong'
    <2> SUFFICES ASSUME "connected" \notin lost PROVE MessagesBelong'
      BY <1>1 DEF MessagesBelong
    <2>1. \A i \in Places' : ~Kind(i, "connected")'
      BY <1>10, <1>14 DEF InQueue, Kind, Places
    <2>2. \A i \in Places' : /\ Kind(i, "data")' => events'[i].msg.conn = conn
                             /\ Kind(i, "cmd")' => events'[i].msg.conn = known
      BY <1>4, <1>7, <1>14 DEF IInv, MessagesBelong, Kind
    <2> QED BY <1>1, <1>10, <2>1, <2>2 DEF IInv, MessagesBelong
  <1>16. SerialsAscend'
    <2> SUFFICES ASSUME "connected" \notin lost PROVE SerialsAscend'
      BY <1>1 DEF SerialsAscend
    <2>1. /\ m.sn <= phone_sn
          /\ \A j \in Places : 1 < j /\ Kind(j, "data") => m.sn < events[j].msg.sn
          /\ \A j \in Places : Kind(j, "cmd") => events[j].msg.sn < m.sn
      BY <1>2, <1>9, <1>14 DEF IInv, SerialsAscend
    <2>2. \A i \in Places' : Kind(i, "data")' => events'[i].msg.sn <= phone_sn'
      BY <1>1, <1>4, <1>7 DEF IInv, SerialsAscend, Kind
    <2>3. \A i, j \in Places' : i < j /\ Kind(i, "data")' /\ Kind(j, "data")' =>
                events'[i].msg.sn < events'[j].msg.sn
      BY <1>1, <1>19 DEF IInv, SerialsAscend, Kind
    <2>4. ASSUME NEW i \in Places', NEW j \in Places', i < j,
                 Kind(i, "cmd")', Kind(j, "cmd")'
          PROVE  events'[i].msg.sn < events'[j].msg.sn
      <3>1. Old(i)
        <4>1. i # n
          BY <1>2, <1>6, <2>4
        <4> QED BY <1>7, <4>1
      <3>2. CASE j = n
        BY <1>4, <1>5, <2>1, <2>4, <3>1, <3>2 DEF Kind
      <3>3. CASE j # n
        <4>1. Old(j)
          BY <1>7, <3>3
        <4> QED BY <2>4, <3>1, <4>1 DEF IInv, SerialsAscend, Kind
      <3> QED BY <3>2, <3>3
    <2>5. \A i \in Places' : Kind(i, "data")' => events'[i].msg.sn > receive_sn'
      BY <1>3, <1>4, <1>7, <1>9, <2>1 DEF Kind
    <2>6. \A i \in Places' : Kind(i, "cmd")' => events'[i].msg.sn <= phone_sn'
      BY <1>1, <1>4, <1>7, <1>14, <2>1 DEF IInv, SerialsAscend, Kind
    <2>7. \A i, j \in Places' : Kind(i, "cmd")' /\ Kind(j, "data")' =>
                events'[i].msg.sn < events'[j].msg.sn
      BY <1>4, <1>7, <1>14, <2>1 DEF IInv, SerialsAscend, Kind
    <2>8. receive_sn' <= phone_sn'
      BY <1>1, <1>9, <2>1
    <2> QED BY <2>2, <2>3, <2>4, <2>5, <2>6, <2>7, <2>8 DEF SerialsAscend
  <1>17. BoundAgreesWithStatus' /\ UnauthIsWatched' /\ EndIsReported'
    BY <1>1, <1>10 DEF IInv, BoundAgreesWithStatus, UnauthIsWatched, EndIsReported
  <1>18. RandForgotten'
    <2>1. lost = {} => ~Over'
      <3> SUFFICES ASSUME lost = {}, link = "down" PROVE InQueue("disconnected")
        BY <1>1, <1>10, <1>14 DEF Over
      <3>1. \E j \in Places : Kind(j, "disconnected")
        BY <1>2, <1>9 DEF IInv, EndComesLast, Kind
      <3> QED BY <3>1 DEF InQueue, Kind, Places
    <2> QED BY <1>1, <2>1 DEF IInv, RandForgotten
  <1> QED BY <1>11, <1>12, <1>13, <1>15, <1>16, <1>17, <1>18 DEF IInv

LEMMA ReceptionKeeps == ASSUME IInv, tuya_ble_commonData_rx_proc PROVE IInv'
  <1>1. CASE HandlerReturns
    BY <1>1, DecodedKeeps
  <1>2. CASE ~HandlerReturns
    <2>1. /\ Handling("data")
          /\ UNCHANGED <<status, bound_flag, pair_rand, monitor, known, link>>
          /\ Head(events).msg.sn > receive_sn /\ receive_sn' = Head(events).msg.sn
          /\ AnswerPosted
      BY <1>2 DEF AnswerPosted, tuya_ble_commonData_rx_proc
    <2> QED BY <2>1, AnsweredKeeps
  <1> QED BY <1>1, <1>2

-------------------------------------------------------------------------------
(* Between two passes an event is put behind the others, or lost.          *)

Appended(e) == events' = Append(events, e)

LEMMA AtTheEnd ==
    ASSUME IInv, NEW e \in Event, Appended(e), ~Full
    PROVE  /\ events \in Seq(Event) /\ Len(events) \in Nat
           /\ events' \in Seq(Event) /\ Len(events') <= Capacity
           /\ Len(events') = Len(events) + 1
           /\ Places' = 1 .. Len(events) + 1
           /\ \A i \in Places : i \in Places' /\ i < Len(events) + 1 /\ events'[i] = events[i]
           /\ Len(events) + 1 \in Places' /\ events'[Len(events) + 1] = e
           /\ \A i \in Places' : i \in Places \/ i = Len(events) + 1
           /\ \A kind : InQueue(kind)' <=> InQueue(kind) \/ e.kind = kind
  <1>1. events \in Seq(Event) /\ Len(events) \in Nat /\ Len(events) <= Capacity /\ Capacity \in Nat
    BY SessionAssumption DEF IInv, TypeOK
  <1>2. /\ events' \in Seq(Event) /\ Len(events') = Len(events) + 1
        /\ \A i \in Places : events'[i] = events[i]
        /\ events'[Len(events) + 1] = e
    BY <1>1, Posted DEF Appended
  <1>3. Places' = 1 .. Len(events) + 1 /\ Len(events') <= Capacity
    BY <1>1, <1>2 DEF Places, Full
  <1>4. \A i \in Places : i \in Places' /\ i < Len(events) + 1 /\ events'[i] = events[i]
    BY <1>1, <1>2, <1>3 DEF Places
  <1>5. /\ Len(events) + 1 \in Places'
        /\ \A i \in Places' : i \in Places \/ i = Len(events) + 1
    BY <1>1, <1>3 DEF Places
  <1>6. ASSUME NEW kind PROVE InQueue(kind)' <=> InQueue(kind) \/ e.kind = kind
    <2>1. InQueue(kind)' <=> \E i \in Places' : events'[i].kind = kind
      BY DEF InQueue, Places
    <2>2. InQueue(kind) <=> \E i \in Places : events[i].kind = kind
      BY DEF InQueue, Places
    <2> QED BY <1>2, <1>4, <1>5, <2>1, <2>2
  <1> QED BY <1>1, <1>2, <1>3, <1>4, <1>5, <1>6

(* A connection begins when nothing of the one before waits any more, but  *)
(* for its commands; unless the report of this connection is lost.         *)
LEMMA ConnectionBegins == ASSUME IInv, tuya_ble_connected_handler PROVE IInv'
  <1> DEFINE e == [kind |-> "connected", conn |-> conn + 1]
             n == Len(events)
  <1>1. /\ pass = 0 /\ link = "down" /\ ~InQueue("disconnected") /\ conn < MaxConnections
        /\ link' = "up" /\ conn' = conn + 1 /\ phone_sn' = 0
        /\ UNCHANGED <<pass, status, bound_flag, receive_sn, pair_rand, monitor, known>>
    BY DEF tuya_ble_connected_handler, sessionVars
  <1>2. /\ conn \in Nat /\ conn + 1 \in 1 .. MaxConnections /\ known \in 0 .. conn
        /\ n \in Nat /\ events \in Seq(Event) /\ MaxConnections \in Nat
        /\ receive_sn \in Nat /\ MaxSn \in Nat
    BY <1>1, SessionAssumption DEF IInv, TypeOK
  <1>3. e \in Event /\ e.kind = "connected" /\ e.conn = conn + 1
    BY <1>2 DEF Event
  <1>4. CASE Full
    <2>1. events' = events /\ lost' = lost \cup {"connected"}
      BY <1>4 DEF tuya_ble_connected_handler, LinkReport, Post
    <2>2. TypeOK'
      <3>1. monitor' \in BOOLEAN /\ lost' \subseteq {"connected", "disconnected"}
        BY <1>1, <2>1 DEF IInv, TypeOK
      <3>2. conn' \in 0 .. MaxConnections /\ phone_sn' \in 0 .. MaxSn /\ known' \in 0 .. conn'
        BY <1>1, <1>2
      <3> QED BY <1>1, <2>1, <3>1, <3>2 DEF IInv, TypeOK
    <2>3. EventsMakeSense'
      <3>1. \A i \in Places : Kind(i, "connected") => events[i].conn <= conn + 1
        <4>1. \A i \in Places : Kind(i, "connected") => events[i].conn \in 1 .. MaxConnections
          BY <1>2, Carries DEF Kind, Places
        <4> QED BY <1>2, <4>1 DEF IInv, EventsMakeSense
      <3> QED BY <1>1, <1>2, <2>1, <3>1 DEF IInv, EventsMakeSense, Kind, Places
    <2>4. EndComesLast'
      BY <1>1, <2>1 DEF EndComesLast, InQueue, Kind, Places
    <2>5. MessagesBelong' /\ SerialsAscend' /\ UnauthIsWatched' /\ RandForgotten'
      BY <2>1 DEF MessagesBelong, SerialsAscend, UnauthIsWatched, RandForgotten
    <2>6. BoundAgreesWithStatus' /\ EndIsReported'
      BY <1>1 DEF IInv, BoundAgreesWithStatus, EndIsReported
    <2> QED BY <2>2, <2>3, <2>4, <2>5, <2>6 DEF IInv
  <1>5. CASE ~Full
    <2>1. Appended(e) /\ lost' = lost
      BY <1>5 DEF tuya_ble_connected_handler, LinkReport, Post, Appended
    <2> HIDE DEF e
    <2>2. /\ events' \in Seq(Event) /\ Len(events') <= Capacity
          /\ Len(events') = n + 1
          /\ \A i \in Places : i \in Places' /\ i < n + 1 /\ events'[i] = events[i]
          /\ n + 1 \in Places' /\ events'[n + 1] = e
          /\ \A i \in Places' : i \in Places \/ i = n + 1
          /\ \A kind : InQueue(kind)' <=> InQueue(kind) \/ e.kind = kind
      BY <1>3, <1>5, <2>1, AtTheEnd
    <2> HIDE DEF n
    <2>3. TypeOK'
      <3>1. monitor' \in BOOLEAN
        BY <1>1 DEF IInv, TypeOK
      <3>2. /\ conn' \in 0 .. MaxConnections /\ phone_sn' \in 0 .. MaxSn
            /\ known' \in 0 .. conn' /\ pass' \in 0 .. Len(events')
        BY <1>1, <1>2, <2>2
      <3> QED BY <1>1, <2>1, <2>2, <3>1, <3>2 DEF IInv, TypeOK
    <2>4. \A i \in Places : /\ ~Kind(i, "disconnected") /\ ~Kind(i, "connected")
                            /\ ~Kind(i, "data")
      <3>1. \A i \in Places : ~Kind(i, "disconnected")
        BY <1>1 DEF InQueue, Kind, Places
      <3>2. \A i \in Places : ~(i <= pass)
        BY <1>1, <1>2 DEF Places, n
      <3> QED BY <1>1, <1>5, <3>1, <3>2 DEF IInv, EndComesLast, Kind
    <2>5. \A i \in Places' : \/ /\ i \in Places /\ i < n + 1 /\ events'[i] = events[i]
                                /\ events[i].kind \notin {"connected", "disconnected", "data"}
                             \/ i = n + 1 /\ events'[i] = e
      BY <2>2, <2>4 DEF Kind
    <2>6. EventsMakeSense'
      BY <1>1, <1>2, <1>3, <2>5 DEF IInv, EventsMakeSense, Kind
    <2>7. EndComesLast'
      BY <1>1, <1>3, <2>5 DEF EndComesLast, Kind
    <2>8. MessagesBelong'
      <3> SUFFICES ASSUME "connected" \notin lost PROVE MessagesBelong'
        BY <2>1 DEF MessagesBelong
      <3>1. InQueue("connected")' /\ known' # conn'
        BY <1>1, <1>2, <1>3, <2>2
      <3>2. \A i \in Places' : /\ Kind(i, "connected")' => i = n + 1 /\ events'[i].conn = conn'
                               /\ ~Kind(i, "data")'
                               /\ Kind(i, "cmd")' => i \in Places /\ i < n + 1
        BY <1>1, <1>3, <2>5 DEF Kind
      <3>3. \A i \in Places' : Kind(i, "cmd")' => events'[i].msg.conn = known'
        BY <1>1, <1>3, <2>5 DEF IInv, MessagesBelong, Kind
      <3> QED BY <3>1, <3>2, <3>3 DEF MessagesBelong
    <2>9. SerialsAscend'
      <3> SUFFICES ASSUME "connected" \notin lost PROVE SerialsAscend'
        BY <2>1 DEF SerialsAscend
      <3>1. InQueue("connected")' /\ \A i \in Places' : ~Kind(i, "data")'
        BY <1>3, <2>2, <2>5 DEF Kind
      <3>2. \A i, j \in Places' : i < j /\ Kind(i, "cmd")' /\ Kind(j, "cmd")' =>
                events'[i].msg.sn < events'[j].msg.sn
        BY <1>3, <2>5 DEF IInv, SerialsAscend, Kind
      <3> QED BY <3>1, <3>2 DEF SerialsAscend
    <2>10. InQueue("connected")'
      BY <1>3, <2>2
    <2>11. BoundAgreesWithStatus' /\ EndIsReported' /\ UnauthIsWatched'
      BY <1>1, <2>10 DEF IInv, BoundAgreesWithStatus, EndIsReported, UnauthIsWatched
    <2>12. RandForgotten'
      <3>1. Over
        BY <1>1 DEF Over
      <3>2. InfoWaits' => InfoWaits
        BY <1>3, <2>5 DEF InfoWaits, Kind
      <3> QED BY <1>1, <2>1, <3>1, <3>2 DEF IInv, RandForgotten
    <2> QED BY <2>3, <2>6, <2>7, <2>8, <2>9, <2>11, <2>12 DEF IInv
  <1> QED BY <1>4, <1>5

LEMMA EndReported == ASSUME IInv, tuya_ble_disconnected_handler PROVE IInv'
  <1> DEFINE e == [kind |-> "disconnected", conn |-> conn]
             n == Len(events)
  <1>1. /\ pass = 0 /\ link = "ended" /\ link' = "down"
        /\ UNCHANGED <<conn, phone_sn, pass, status, bound_flag, receive_sn, pair_rand,
                       monitor, known>>
    BY DEF tuya_ble_disconnected_handler, sessionVars
  <1>2. /\ conn \in 1 .. MaxConnections /\ n \in Nat /\ events \in Seq(Event)
    BY <1>1, SessionAssumption DEF IInv, TypeOK, EventsMakeSense
  <1>3. e \in Event /\ e.kind = "disconnected"
    BY <1>2 DEF Event
  <1>4. CASE Full
    <2>1. events' = events /\ lost' = lost \cup {"disconnected"}
      BY <1>4 DEF tuya_ble_disconnected_handler, LinkReport, Post
    <2>2. TypeOK'
      <3>1. monitor' \in BOOLEAN /\ lost' \subseteq {"connected", "disconnected"}
        BY <1>1, <2>1 DEF IInv, TypeOK
      <3> QED BY <1>1, <2>1, <3>1 DEF IInv, TypeOK
    <2>3. EventsMakeSense'
      BY <1>1, <2>1 DEF IInv, EventsMakeSense, Kind, Places
    <2>4. EndComesLast'
      <3>1. Full'
        BY <1>4, <2>1 DEF Full
      <3> QED BY <1>1, <2>1, <3>1 DEF IInv, EndComesLast, Kind, Places
    <2>5. "connected" \notin lost' => "connected" \notin lost
      BY <2>1
    <2>6. MessagesBelong' /\ SerialsAscend'
      BY <1>1, <2>1, <2>5 DEF IInv, MessagesBelong, SerialsAscend, InQueue, Kind, Places
    <2>7. BoundAgreesWithStatus' /\ EndIsReported' /\ UnauthIsWatched' /\ RandForgotten'
      BY <1>1, <2>1 DEF IInv, BoundAgreesWithStatus, EndIsReported, UnauthIsWatched, RandForgotten
    <2> QED BY <2>2, <2>3, <2>4, <2>6, <2>7 DEF IInv
  <1>5. CASE ~Full
    <2>1. Appended(e) /\ lost' = lost
      BY <1>5 DEF tuya_ble_disconnected_handler, LinkReport, Post, Appended
    <2> HIDE DEF e
    <2>2. /\ events' \in Seq(Event) /\ Len(events') <= Capacity
          /\ Len(events') = n + 1
          /\ \A i \in Places : i \in Places' /\ i < n + 1 /\ events'[i] = events[i]
          /\ n + 1 \in Places' /\ events'[n + 1] = e
          /\ \A i \in Places' : i \in Places \/ i = n + 1
          /\ \A kind : InQueue(kind)' <=> InQueue(kind) \/ e.kind = kind
      BY <1>3, <1>5, <2>1, AtTheEnd
    <2> HIDE DEF n
    <2>3. TypeOK'
      <3>1. monitor' \in BOOLEAN
        BY <1>1 DEF IInv, TypeOK
      <3>2. pass' \in 0 .. Len(events')
        BY <1>1, <1>2, <2>2
      <3> QED BY <1>1, <2>1, <2>2, <3>1, <3>2 DEF IInv, TypeOK
    <2>4. \A i \in Places' : \/ i \in Places /\ i < n + 1 /\ events'[i] = events[i]
                             \/ i = n + 1 /\ events'[i].kind = "disconnected"
      BY <1>3, <2>2
    <2>5. \A i \in Places' : events'[i].kind # "disconnected" =>
              i \in Places /\ i < n + 1 /\ events'[i] = events[i]
      BY <2>4
    <2>6. \A i \in Places : ~Kind(i, "disconnected")
      BY <1>1 DEF IInv, EndComesLast
    <2>7. EventsMakeSense'
      BY <1>1, <1>2, <2>5 DEF IInv, EventsMakeSense, Kind
    <2>8. EndComesLast'
      <3>1. \A i, j \in Places' : Kind(i, "connected")' /\ Kind(j, "disconnected")' => i < j
        BY <2>4, <2>5, <2>6 DEF Kind
      <3>2. \A i \in Places' : events'[i].kind \in {"connected", "data"} =>
                \E j \in Places' : i < j /\ Kind(j, "disconnected")'
        BY <1>3, <2>2, <2>5 DEF Kind
      <3> QED BY <1>1, <3>1, <3>2 DEF EndComesLast
    <2>9. InQueue("connected")' <=> InQueue("connected")
      BY <1>3, <2>2
    <2>10. MessagesBelong'
      BY <1>1, <2>1, <2>5, <2>9 DEF IInv, MessagesBelong, Kind
    <2>11. SerialsAscend'
      BY <1>1, <2>1, <2>5, <2>9 DEF IInv, SerialsAscend, Kind
    <2>12. InQueue("disconnected")'
      BY <1>3, <2>2
    <2>13. BoundAgreesWithStatus' /\ EndIsReported' /\ UnauthIsWatched'
      BY <1>1, <2>12 DEF IInv, BoundAgreesWithStatus, EndIsReported, UnauthIsWatched
    <2>14. RandForgotten'
      <3>1. Over' => Over
        BY <2>9, <2>12 DEF Over
      <3>2. InfoWaits' => InfoWaits
        BY <2>5 DEF InfoWaits, Kind
      <3> QED BY <1>1, <2>1, <3>1, <3>2 DEF IInv, RandForgotten
    <2> QED BY <2>3, <2>7, <2>8, <2>10, <2>11, <2>13, <2>14 DEF IInv
  <1> QED BY <1>4, <1>5

(* The message sent last is put behind everything of its connection.       *)
LEMMA MessageArrives ==
    ASSUME IInv, NEW cmd \in Command, tuya_ble_gatt_receive_data(cmd) PROVE IInv'
  <1> DEFINE m == [conn |-> conn, sn |-> phone_sn + 1, cmd |-> cmd]
             e == [kind |-> "data", msg |-> m]
             n == Len(events)
  <1>1. /\ pass = 0 /\ link \in {"up", "terminating"} /\ phone_sn < MaxSn
        /\ cmd = "dev_info" => phone_sn = 0
        /\ phone_sn' = phone_sn + 1
        /\ UNCHANGED <<link, conn, pass, lost, status, bound_flag, receive_sn, pair_rand,
                       monitor, known>>
    BY DEF tuya_ble_gatt_receive_data, sessionVars
  <1>2. /\ conn \in 1 .. MaxConnections /\ n \in Nat /\ events \in Seq(Event)
        /\ phone_sn \in Nat /\ phone_sn + 1 \in 1 .. MaxSn /\ receive_sn \in Nat
    BY <1>1, SessionAssumption DEF IInv, TypeOK, EventsMakeSense
  <1>3. /\ e \in Event /\ e.kind = "data" /\ e.msg = m
        /\ m.conn = conn /\ m.sn = phone_sn + 1 /\ m.cmd = cmd
    BY <1>2 DEF Event, Message
  <1>4. CASE Full
    <2>1. events' = events
      BY <1>4 DEF tuya_ble_gatt_receive_data, Post
    <2>2. TypeOK'
      <3>1. monitor' \in BOOLEAN
        BY <1>1 DEF IInv, TypeOK
      <3>2. phone_sn' \in 0 .. MaxSn
        BY <1>1, <1>2
      <3> QED BY <1>1, <2>1, <3>1, <3>2 DEF IInv, TypeOK
    <2>3. EventsMakeSense' /\ EndComesLast' /\ MessagesBelong'
      BY <1>1, <2>1
      DEF IInv, EventsMakeSense, EndComesLast, MessagesBelong, InQueue, Kind, Places, Full
    <2>4. SerialsAscend'
      <3>1. \A i \in Places : events[i].kind \in {"data", "cmd"} => events[i].msg.sn \in Nat
        BY <1>2, Carries, SessionAssumption DEF Places
      <3> QED BY <1>1, <1>2, <2>1, <3>1 DEF IInv, SerialsAscend, InQueue, Kind, Places
    <2>5. BoundAgreesWithStatus' /\ EndIsReported' /\ UnauthIsWatched'
      BY <1>1, <2>1 DEF IInv, BoundAgreesWithStatus, EndIsReported, UnauthIsWatched, InQueue
    <2>6. RandForgotten'
      BY <1>1, <2>1 DEF IInv, RandForgotten, Over, InfoWaits, InQueue, Kind, Places
    <2> QED BY <2>2, <2>3, <2>4, <2>5, <2>6 DEF IInv
  <1>5. CASE ~Full
    <2>1. Appended(e)
      BY <1>5 DEF tuya_ble_gatt_receive_data, Post, Appended
    <2> HIDE DEF e, m
    <2>2. /\ events' \in Seq(Event) /\ Len(events') <= Capacity
          /\ Len(events') = n + 1
          /\ \A i \in Places : i \in Places' /\ i < n + 1 /\ events'[i] = events[i]
          /\ n + 1 \in Places' /\ events'[n + 1] = e
          /\ \A i \in Places' : i \in Places \/ i = n + 1
          /\ \A kind : InQueue(kind)' <=> InQueue(kind) \/ e.kind = kind
      BY <1>3, <1>5, <2>1, AtTheEnd
    <2> HIDE DEF n
    <2>3. TypeOK'
      <3>1. monitor' \in BOOLEAN
        BY <1>1 DEF IInv, TypeOK
      <3>2. pass' \in 0 .. Len(events') /\ phone_sn' \in 0 .. MaxSn
        BY <1>1, <1>2, <2>2
      <3> QED BY <1>1, <2>2, <3>1, <3>2 DEF IInv, TypeOK
    <2>4. \A i \in Places' : \/ i \in Places /\ i < n + 1 /\ events'[i] = events[i]
                             \/ i = n + 1 /\ events'[i] = e
      BY <2>2
    <2>5. \A i \in Places' : events'[i].kind # "data" =>
              i \in Places /\ i < n + 1 /\ events'[i] = events[i]
      BY <1>3, <2>4
    <2>6. EventsMakeSense'
      BY <1>1, <1>2, <1>3, <2>4 DEF IInv, EventsMakeSense, Kind
    <2>7. EndComesLast'
      BY <1>1, <2>5 DEF IInv, EndComesLast, Kind
    <2>8. /\ InQueue("connected")' <=> InQueue("connected")
          /\ InQueue("disconnected")' <=> InQueue("disconnected")
      BY <1>3, <2>2
    <2>9. MessagesBelong'
      <3> SUFFICES ASSUME "connected" \notin lost PROVE MessagesBelong'
        BY <1>1 DEF MessagesBelong
      <3>1. /\ InQueue("connected")' <=> known' # conn'
            /\ \A i, j \in Places' : Kind(i, "connected")' /\ Kind(j, "connected")' => i = j
            /\ \A i \in Places' : /\ Kind(i, "connected")' => events'[i].conn = conn'
                                  /\ Kind(i, "cmd")' => events'[i].msg.conn = known'
        BY <1>1, <2>5, <2>8 DEF IInv, MessagesBelong, Kind
      <3>2. \A i \in Places' : Kind(i, "data")' => events'[i].msg.conn = conn'
        BY <1>1, <1>3, <2>4 DEF IInv, MessagesBelong, Kind
      <3>3. \A i, j \in Places' : Kind(i, "connected")' =>
              /\ Kind(j, "data")' => i < j
              /\ Kind(j, "cmd")' => j < i
        BY <1>3, <2>4 DEF IInv, MessagesBelong, Kind
      <3> QED BY <3>1, <3>2, <3>3 DEF MessagesBelong
    <2>10. SerialsAscend'
      <3> SUFFICES ASSUME "connected" \notin lost PROVE SerialsAscend'
        BY <1>1 DEF SerialsAscend
      <3>1. \A i \in Places : events[i].kind \in {"data", "cmd"} => events[i].msg.sn \in Nat
        BY <1>2, Carries, SessionAssumption DEF Places
      <3>2. \A i \in Places' : Kind(i, "data")' => events'[i].msg.sn <= phone_sn'
        BY <1>1, <1>2, <1>3, <2>4, <3>1 DEF IInv, SerialsAscend, Kind
      <3>3. \A i, j \in Places' : i < j /\ Kind(i, "data")' /\ Kind(j, "data")' =>
                events'[i].msg.sn < events'[j].msg.sn
        <4> SUFFICES ASSUME NEW i \in Places', NEW j \in Places', i < j,
                            Kind(i, "data")', Kind(j, "data")'
                     PROVE  events'[i].msg.sn < events'[j].msg.sn
          OBVIOUS
        <4>1. i \in Places /\ i < n + 1 /\ events'[i] = events[i]
          BY <1>2, <2>4 DEF Places
        <4>2. events[i].msg.sn <= phone_sn /\ events[i].msg.sn \in Nat
          BY <3>1, <4>1 DEF IInv, SerialsAscend, Kind
        <4>3. CASE j \in Places /\ events'[j] = events[j]
          BY <4>1, <4>3 DEF IInv, SerialsAscend, Kind
        <4>4. CASE j = n + 1
          BY <1>2, <1>3, <2>4, <4>1, <4>2, <4>4
        <4> QED BY <2>4, <4>3, <4>4
      <3>4. \A i, j \in Places' : i < j /\ Kind(i, "cmd")' /\ Kind(j, "cmd")' =>
                events'[i].msg.sn < events'[j].msg.sn
        BY <2>5 DEF IInv, SerialsAscend, Kind
      <3>5. ASSUME ~InQueue("connected")'
            PROVE  /\ receive_sn' <= phone_sn'
                   /\ \A i \in Places' : Kind(i, "data")' => events'[i].msg.sn > receive_sn'
                   /\ \A i \in Places' : Kind(i, "cmd")' => events'[i].msg.sn <= phone_sn'
                   /\ \A i, j \in Places' : Kind(i, "cmd")' /\ Kind(j, "data")' =>
                         events'[i].msg.sn < events'[j].msg.sn
        <4>1. /\ receive_sn <= phone_sn
              /\ \A i \in Places : Kind(i, "data") => events[i].msg.sn > receive_sn
              /\ \A i \in Places : Kind(i, "cmd") => events[i].msg.sn <= phone_sn
              /\ \A i, j \in Places : Kind(i, "cmd") /\ Kind(j, "data") =>
                    events[i].msg.sn < events[j].msg.sn
          BY <2>8, <3>5 DEF IInv, SerialsAscend
        <4>2. \A i \in Places' : Kind(i, "data")' => events'[i].msg.sn > receive_sn'
          BY <1>1, <1>2, <1>3, <2>4, <4>1 DEF Kind
        <4>3. \A i \in Places' : Kind(i, "cmd")' => events'[i].msg.sn <= phone_sn'
          BY <1>1, <1>2, <2>5, <3>1, <4>1 DEF Kind
        <4>4. \A i, j \in Places' : Kind(i, "cmd")' /\ Kind(j, "data")' =>
                         events'[i].msg.sn < events'[j].msg.sn
          BY <1>2, <1>3, <2>4, <2>5, <3>1, <4>1 DEF Kind
        <4> QED BY <1>1, <1>2, <4>1, <4>2, <4>3, <4>4
      <3> QED BY <3>2, <3>3, <3>4, <3>5 DEF SerialsAscend
    <2>11. BoundAgreesWithStatus' /\ EndIsReported' /\ UnauthIsWatched'
      BY <1>1, <2>8 DEF IInv, BoundAgreesWithStatus, EndIsReported, UnauthIsWatched
    <2>12. RandForgotten'
      <3>1. Over' <=> Over
        BY <1>1, <2>8 DEF Over
      <3>2. InfoWaits' => InfoWaits
        BY <2>5 DEF InfoWaits, Kind
      <3> QED BY <1>1, <3>1, <3>2 DEF IInv, RandForgotten
    <2> QED BY <2>3, <2>6, <2>7, <2>9, <2>10, <2>11, <2>12 DEF IInv
  <1> QED BY <1>4, <1>5

LEMMA ApplicationPostKeeps ==
    ASSUME IInv, NEW kind \in {"factory_reset", "auth_key"}, ApplicationPosts(kind) PROVE IInv'
  <1> DEFINE e == [kind |-> kind]
             n == Len(events)
  <1>1. /\ pass = 0 /\ ~Full
        /\ UNCHANGED <<link, conn, phone_sn, pass, lost, status, bound_flag, receive_sn,
                       pair_rand, monitor, known>>
    BY DEF ApplicationPosts, linkVars, sessionVars
  <1>2. e \in Event /\ e.kind \notin {"connected", "disconnected", "data", "cmd"}
    BY DEF Event, Local
  <1>3. Appended(e)
    BY <1>1 DEF ApplicationPosts, Post, Appended
  <1> HIDE DEF e
  <1>4. /\ n \in Nat /\ events' \in Seq(Event) /\ Len(events') <= Capacity
        /\ Len(events') = n + 1
        /\ \A i \in Places : i \in Places' /\ i < n + 1 /\ events'[i] = events[i]
        /\ n + 1 \in Places' /\ events'[n + 1] = e
        /\ \A i \in Places' : i \in Places \/ i = n + 1
        /\ \A k : InQueue(k)' <=> InQueue(k) \/ e.kind = k
    BY <1>1, <1>2, <1>3, AtTheEnd
  <1> HIDE DEF n
  <1>5. TypeOK'
    <2>1. monitor' \in BOOLEAN
      BY <1>1 DEF IInv, TypeOK
    <2>2. pass' \in 0 .. Len(events')
      BY <1>1, <1>4
    <2> QED BY <1>1, <1>4, <2>1, <2>2 DEF IInv, TypeOK
  <1>6. \A i \in Places' : events'[i].kind \in {"connected", "disconnected", "data", "cmd"} =>
            i \in Places /\ i < n + 1 /\ events'[i] = events[i]
    BY <1>2, <1>4
  <1>7. EventsMakeSense'
    BY <1>1, <1>6 DEF IInv, EventsMakeSense, Kind
  <1>8. EndComesLast'
    <2>1. /\ \A i \in Places' : Kind(i, "disconnected")' => link' = "down"
          /\ \A i, j \in Places' : Kind(i, "connected")' /\ Kind(j, "disconnected")' => i < j
      BY <1>1, <1>6 DEF IInv, EndComesLast, Kind
    <2>2. ASSUME link' = "down", NEW i \in Places', events'[i].kind \in {"connected", "data"}
          PROVE  \E j \in Places' : i < j /\ Kind(j, "disconnected")'
      <3>1. i \in Places /\ events'[i] = events[i]
        BY <1>6, <2>2
      <3>2. ~(i <= pass) /\ ~Full
        BY <1>1, <3>1 DEF Places
      <3>3. link = "down" /\ events[i].kind \in {"connected", "data"} /\ i \in Places
        BY <1>1, <2>2, <3>1
      <3>4. PICK j \in Places : i < j /\ Kind(j, "disconnected")
        <4>1. \/ \E j \in Places : i < j /\ Kind(j, "disconnected")
              \/ i <= pass \/ (pass = 0 /\ Full)
          BY <3>3, Zenon DEF IInv, EndComesLast
        <4> QED BY <3>2, <4>1
      <3> QED BY <1>4, <3>4 DEF Kind
    <2> QED BY <2>1, <2>2 DEF EndComesLast
  <1>9. /\ InQueue("connected")' <=> InQueue("connected")
        /\ InQueue("disconnected")' <=> InQueue("disconnected")
    BY <1>2, <1>4
  <1>10. MessagesBelong'
    BY <1>1, <1>6, <1>9 DEF IInv, MessagesBelong, Kind
  <1>11. SerialsAscend'
    BY <1>1, <1>6, <1>9 DEF IInv, SerialsAscend, Kind
  <1>12. BoundAgreesWithStatus' /\ EndIsReported' /\ UnauthIsWatched'
    BY <1>1, <1>9 DEF IInv, BoundAgreesWithStatus, EndIsReported, UnauthIsWatched
  <1>13. RandForgotten'
    <2>1. (Over' <=> Over) /\ (InfoWaits' => InfoWaits)
      BY <1>1, <1>6, <1>9 DEF Over, InfoWaits, Kind
    <2> QED BY <1>1, <2>1 DEF IInv, RandForgotten
  <1> QED BY <1>5, <1>7, <1>8, <1>10, <1>11, <1>12, <1>13 DEF IInv

(* The queue is left alone.                                                *)
LEMMA QueueLeftAlone ==
    ASSUME IInv, UNCHANGED <<events, conn, phone_sn, lost, status, bound_flag, receive_sn,
                             pair_rand, known>>,
           link' \in {"down", "up", "terminating", "ended"}, LinkStays,
           monitor' \in BOOLEAN, link' = "up" => link = "up" /\
                                   (monitor' = monitor \/ status \notin Unauth),
           pass' = pass \/ pass' = Len(events)
    PROVE  IInv'
  <1>1. Len(events) \in Nat /\ pass \in 0 .. Len(events) /\ pass' \in 0 .. Len(events')
    BY DEF IInv, TypeOK
  <1>2. TypeOK'
    BY <1>1 DEF IInv, TypeOK
  <1>3. EventsMakeSense' /\ MessagesBelong'
    BY DEF IInv, EventsMakeSense, MessagesBelong, InQueue, Kind, Places, LinkStays
  <1>4. SerialsAscend'
    BY DEF IInv, SerialsAscend, InQueue, Kind, Places
  <1>5. EndComesLast'
    BY <1>1 DEF IInv, EndComesLast, Kind, Places, LinkStays, Full
  <1>6. BoundAgreesWithStatus' /\ EndIsReported' /\ UnauthIsWatched'
    BY DEF IInv, BoundAgreesWithStatus, EndIsReported, UnauthIsWatched, LinkStays, InQueue
  <1>7. RandForgotten'
    BY DEF IInv, RandForgotten, Over, InfoWaits, InQueue, Kind, Places, LinkStays
  <1> QED BY <1>2, <1>3, <1>4, <1>5, <1>6, <1>7 DEF IInv

LEMMA StepIInv == ASSUME IInv, [Next]_vars PROVE IInv'
  <1>1. monitor \in BOOLEAN /\ link \in {"down", "up", "terminating", "ended"}
    BY DEF IInv, TypeOK
  <1>2. CASE tuya_ble_connected_handler \/ tuya_ble_disconnected_handler
    BY <1>2, ConnectionBegins, EndReported
  <1>3. ASSUME NEW cmd \in Command, tuya_ble_gatt_receive_data(cmd) PROVE IInv'
    BY <1>3, MessageArrives
  <1>4. ASSUME NEW kind \in Local, ApplicationPosts(kind) PROVE IInv'
    BY <1>4, ApplicationPostKeeps DEF Local
  <1>5. CASE LinkEnds
    BY <1>1, <1>5, QueueLeftAlone DEF LinkEnds, queueVars, sessionVars, LinkStays
  <1>6. CASE tuya_conncet_monitor_callback
    <2>1. /\ UNCHANGED <<events, conn, phone_sn, lost, status, bound_flag, receive_sn,
                         pair_rand, known, pass>>
          /\ monitor' = FALSE
          /\ link' = IF status \in Unauth THEN tuya_ble_gap_disconnect ELSE link
      BY <1>6 DEF tuya_conncet_monitor_callback, queueVars
    <2>2. /\ link' \in {"down", "up", "terminating", "ended"} /\ LinkStays
          /\ link' = "up" => link = "up" /\ status \notin Unauth
      BY <1>1, <2>1 DEF tuya_ble_gap_disconnect, LinkStays
    <2>3. monitor' \in BOOLEAN
      BY <2>1
    <2> QED BY <2>1, <2>2, <2>3, QueueLeftAlone
  <1>7. CASE PassBegins
    BY <1>1, <1>7, QueueLeftAlone DEF PassBegins, linkVars, sessionVars, LinkStays
  <1>8. CASE Connected \/ Disconnected
    BY <1>8, ConnectedKeeps, DisconnectedKeeps
  <1>9. CASE tuya_ble_commonData_rx_proc
    BY <1>9, ReceptionKeeps
  <1>10. CASE \/ tuya_ble_handle_dev_info_req \/ tuya_ble_handle_pair_req
              \/ tuya_ble_handle_dp_write_req \/ AuthKey
    BY <1>10, DevInfoKeeps, PairKeeps, DpWriteKeeps, AuthKeyKeeps
  <1>11. CASE \/ tuya_ble_handle_unbond_req \/ tuya_ble_handle_anomaly_unbond_req
              \/ tuya_ble_handle_factory_reset_evt
    <2>1. /\ pass > 0 /\ pass' = pass - 1 /\ HandlerReturns
          /\ Head(events).kind \in {"cmd", "factory_reset", "auth_key"}
          /\ UNCHANGED <<lost, conn, phone_sn, receive_sn, known, monitor, pair_rand>>
          /\ tuya_ble_device_unbond
      BY <1>11 DEF tuya_ble_handle_unbond_req, tuya_ble_handle_anomaly_unbond_req,
                   tuya_ble_handle_factory_reset_evt, Executing, Handling
    <2> QED BY <2>1, UnbondKeeps
  <1>12. CASE UNCHANGED vars
    BY <1>1, <1>12, QueueLeftAlone DEF vars, linkVars, queueVars, sessionVars, LinkStays
  <1> QED BY <1>2, <1>3, <1>4, <1>5, <1>6, <1>7, <1>8, <1>9, <1>10, <1>11, <1>12 DEF Next, Pass

LEMMA SafeSpecInv == SafeSpec => []IInv
  <1>1. Init => IInv
    BY InitIInv
  <1>2. IInv /\ [Next]_vars => IInv'
    BY StepIInv
  <1> QED BY <1>1, <1>2, PTL DEF SafeSpec

-------------------------------------------------------------------------------

(* The queue holds only events the program knows, within its capacity, and *)
(* the session's variables keep their types.                               *)
THEOREM SessionTypes == Spec => []TypeOK
  <1>1. IInv => TypeOK
    BY DEF IInv
  <1> QED BY <1>1, SafeSpecInv, PTL DEF Spec

(* tuya_ble_connect_status says that the device is bound exactly when      *)
(* bound_flag does: no order of the handlers changes one of the two only.  *)
THEOREM StatusAgrees == Spec => []BoundAgreesWithStatus
  <1>1. IInv => BoundAgreesWithStatus
    BY DEF IInv
  <1> QED BY <1>1, SafeSpecInv, PTL DEF Spec

(* tuya_ble_commonData_rx_proc never takes a message of a phone that       *)
(* counts for one that is repeated, however many connections came before.  *)
THEOREM HonestPhoneIsHeard == Spec => []HonestPhoneInOrder
  <1>1. IInv => HonestPhoneInOrder
    <2> SUFFICES ASSUME IInv, pass > 0, Head(events).kind = "data", "connected" \notin lost
                 PROVE  Head(events).msg.sn > receive_sn
      BY DEF HonestPhoneInOrder
    <2>1. 1 \in Places /\ Head(events) = events[1] /\ Kind(1, "data")
      BY DEF IInv, TypeOK, Places, Kind
    <2>2. ~InQueue("connected")
      BY <2>1 DEF IInv, MessagesBelong, InQueue, Kind, Places
    <2> QED BY <2>1, <2>2 DEF IInv, SerialsAscend
  <1> QED BY <1>1, SafeSpecInv, PTL DEF Spec

(* Nor does a command wait beyond the announcement of the next connection, *)
(* though it goes through the event queue twice.                           *)
THEOREM NoForeignCommand == Spec => []CommandInItsConnection
  <1>1. IInv => CommandInItsConnection
    <2> SUFFICES ASSUME IInv, pass > 0, Head(events).kind \in {"data", "cmd"},
                        "connected" \notin lost
                 PROVE  Head(events).msg.conn = known
      BY DEF CommandInItsConnection
    <2>1. 1 \in Places /\ Head(events) = events[1]
      BY DEF IInv, TypeOK, Places
    <2>2. CASE Kind(1, "data")
      <3>1. ~InQueue("connected")
        BY <2>1, <2>2 DEF IInv, MessagesBelong, InQueue, Kind, Places
      <3> QED BY <2>1, <2>2, <3>1 DEF IInv, MessagesBelong
    <2>3. CASE Kind(1, "cmd")
      BY <2>1, <2>3 DEF IInv, MessagesBelong
    <2> QED BY <2>1, <2>2, <2>3 DEF Kind
  <1> QED BY <1>1, SafeSpecInv, PTL DEF Spec

(* The connection monitor runs whenever there is a connection for it.      *)
THEOREM UnpairedIsWatched == Spec => []UnauthIsWatched
  <1>1. IInv => UnauthIsWatched
    BY DEF IInv
  <1> QED BY <1>1, SafeSpecInv, PTL DEF Spec

(* No session key is made of the random of a connection before.            *)
THEOREM RandIsFresh == Spec => []RandEndsWithConnection
  <1>1. IInv => RandEndsWithConnection
    BY DEF IInv, RandForgotten, RandEndsWithConnection
  <1> QED BY <1>1, SafeSpecInv, PTL DEF Spec

(* With the queue empty, what the status says of an unpaired connection is *)
(* so: there is one.                                                       *)
THEOREM UnauthHasLink == Spec => []NoUnauthWithoutLink
  <1>1. IInv => NoUnauthWithoutLink
    BY DEF IInv, EndIsReported, NoUnauthWithoutLink, InQueue
  <1> QED BY <1>1, SafeSpecInv, PTL DEF Spec

===============================================================================
