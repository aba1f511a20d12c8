--------------------------- MODULE GattSendQueueProofs ---------------------------
(***************************************************************************)
(* The flag, the packets and the retry event of the GATT send queue, for   *)
(* every size of the packet queue and of the event queue.                  *)
(***************************************************************************)
EXTENDS GattSendQueue, Numbers, SequenceTheorems

NoRetry(s) == \A j \in 1 .. Len(s) : s[j] # "gatt_send"
OneRetry(s) == \E i \in 1 .. Len(s) : \A j \in 1 .. Len(s) : s[j] = "gatt_send" <=> j = i

Events == Seq(EventKind)

(* A handler that is not the retry's keeps a "cmd" in front of the events, *)
(* so that what CmdEnd takes away is never a retry.                        *)
IInv == /\ events \in Events
        /\ gatt_send_queue \in [buf : [Position -> Elem \cup {NoElem}], rd_ptr : Position,
                                wr_ptr : Position, used : 0 .. queue_size]
        /\ gatt_queue_flag \in {0, 1} /\ accepted \in 0 .. MaxPackets
        /\ in_cmd => events # <<>> /\ Head(events) = "cmd"
        /\ gatt_queue_flag = 1 <=> gatt_send_queue.used > 0
        /\ IF gatt_queue_flag = 1 THEN OneRetry(events) ELSE NoRetry(events)

LEMMA AppendOther ==
    ASSUME NEW s \in Events, NEW e \in EventKind, e # "gatt_send"
    PROVE  /\ Append(s, e) \in Events
           /\ NoRetry(s) => NoRetry(Append(s, e))
           /\ OneRetry(s) => OneRetry(Append(s, e))
           /\ s # <<>> => Append(s, e) # <<>> /\ Head(Append(s, e)) = Head(s)
  <1> DEFINE t == Append(s, e)
  <1>1. /\ t \in Events /\ Len(t) = Len(s) + 1 /\ t[Len(s) + 1] = e
        /\ \A j \in 1 .. Len(s) : t[j] = s[j]
        /\ Len(s) \in Nat
    BY DEF Events
  <1>2. s # <<>> => t # <<>> /\ Head(t) = Head(s)
    BY DEF Events
  <1> HIDE DEF t
  <1>3. NoRetry(s) => NoRetry(t)
    BY <1>1 DEF NoRetry
  <1>4. ASSUME OneRetry(s) PROVE OneRetry(t)
    <2>1. PICK i \in 1 .. Len(s) : \A j \in 1 .. Len(s) : s[j] = "gatt_send" <=> j = i
      BY <1>4 DEF OneRetry
    <2>2. i \in 1 .. Len(t) /\ \A j \in 1 .. Len(t) : t[j] = "gatt_send" <=> j = i
      BY <2>1, <1>1
    <2> QED BY <2>2 DEF OneRetry
  <1> QED BY <1>1, <1>2, <1>3, <1>4 DEF t

LEMMA AppendRetry ==
    ASSUME NEW s \in Events, NoRetry(s)
    PROVE  /\ Append(s, "gatt_send") \in Events /\ OneRetry(Append(s, "gatt_send"))
           /\ s # <<>> => Append(s, "gatt_send") # <<>>
                          /\ Head(Append(s, "gatt_send")) = Head(s)
  <1> DEFINE t == Append(s, "gatt_send")
  <1>1. /\ t \in Events /\ Len(t) = Len(s) + 1 /\ t[Len(s) + 1] = "gatt_send"
        /\ \A j \in 1 .. Len(s) : t[j] = s[j]
        /\ Len(s) \in Nat
    BY DEF Events, EventKind
  <1>2. s # <<>> => t # <<>> /\ Head(t) = Head(s)
    BY DEF Events
  <1> HIDE DEF t
  <1>3. /\ Len(s) + 1 \in 1 .. Len(t)
        /\ \A j \in 1 .. Len(t) : t[j] = "gatt_send" <=> j = Len(s) + 1
    BY <1>1 DEF NoRetry
  <1>4. OneRetry(t)
    BY <1>3 DEF OneRetry
  <1> QED BY <1>1, <1>2, <1>4 DEF t

LEMMA TailOther ==
    ASSUME NEW s \in Events, s # <<>>
    PROVE  /\ Tail(s) \in Events
           /\ NoRetry(s) => NoRetry(Tail(s))
           /\ OneRetry(s) /\ Head(s) # "gatt_send" => OneRetry(Tail(s))
           /\ OneRetry(s) /\ Head(s) = "gatt_send" => NoRetry(Tail(s))
  <1> DEFINE t == Tail(s)
  <1>1. /\ t \in Events /\ Len(t) = Len(s) - 1 /\ Len(s) \in Nat /\ Len(s) >= 1
        /\ \A j \in 1 .. Len(t) : t[j] = s[j + 1]
        /\ Head(s) = s[1]
    BY DEF Events
  <1> HIDE DEF t
  <1>2. NoRetry(s) => NoRetry(t)
    BY <1>1 DEF NoRetry
  <1>3. ASSUME OneRetry(s), Head(s) # "gatt_send" PROVE OneRetry(t)
    <2>1. PICK i \in 1 .. Len(s) : \A j \in 1 .. Len(s) : s[j] = "gatt_send" <=> j = i
      BY <1>3 DEF OneRetry
    <2>2. i # 1
      BY <2>1, <1>1, <1>3
    <2>3. i - 1 \in 1 .. Len(t) /\ \A j \in 1 .. Len(t) : t[j] = "gatt_send" <=> j = i - 1
      BY <2>1, <2>2, <1>1
    <2> QED BY <2>3 DEF OneRetry
  <1>4. ASSUME OneRetry(s), Head(s) = "gatt_send" PROVE NoRetry(t)
    <2>1. PICK i \in 1 .. Len(s) : \A j \in 1 .. Len(s) : s[j] = "gatt_send" <=> j = i
      BY <1>4 DEF OneRetry
    <2>2. i = 1
      BY <2>1, <1>1, <1>4
    <2> QED BY <2>1, <2>2, <1>1 DEF NoRetry
  <1> QED BY <1>1, <1>2, <1>3, <1>4 DEF t

(* A post of any other event, lost or not.                                 *)
LEMMA PostOther ==
    ASSUME IInv, NEW e \in EventKind, e # "gatt_send", events' = WithEvent(e),
           UNCHANGED <<gatt_send_queue, gatt_queue_flag, in_cmd, accepted>>
    PROVE  IInv'
  <1>1. CASE EventsFull
    <2>1. events' = events
      BY <1>1 DEF WithEvent
    <2> QED BY <2>1 DEF IInv
  <1>2. CASE ~EventsFull
    <2>1. events' = Append(events, e)
      BY <1>2 DEF WithEvent
    <2>2. events \in Events
      BY DEF IInv
    <2> QED BY <2>1, <2>2, AppendOther DEF IInv
  <1> QED BY <1>1, <1>2

(* An event other than the retry is done with.                             *)
LEMMA DoneOther ==
    ASSUME IInv, events # <<>>, Head(events) # "gatt_send", events' = Tail(events),
           ~in_cmd', UNCHANGED <<gatt_send_queue, gatt_queue_flag, accepted>>
    PROVE  IInv'
  <1>1. events \in Events
    BY DEF IInv
  <1> QED BY <1>1, TailOther DEF IInv

(* What the handler leaves: packets that wait and the flag it found, or    *)
(* none and the flag cleared.                                              *)
LEMMA HandlerLeaves ==
    ASSUME NEW q \in QueueType, NEW flag, NEW live, NEW retry,
           tuya_ble_gatt_send_data_handle(q, flag, live, retry)
    PROVE  /\ gatt_send_queue' \in QueueType
           /\ \/ /\ retry = TRUE /\ ~EventsFull
                 /\ gatt_send_queue'.used > 0 /\ gatt_queue_flag' = flag
              \/ /\ EventsFull \/ retry = FALSE
                 /\ gatt_send_queue'.used = 0 /\ gatt_queue_flag' = 0
  <1>1. PICK n \in 0 .. q.used :
           /\ retry = Refused(q, n)
           /\ \/ Kept(q, n) /\ RestWaits(q, flag, live, n)
              \/ ~Kept(q, n) /\ QueueEmptied(q, live, n)
    BY DEF tuya_ble_gatt_send_data_handle
  <1>2. queue_size \in Nat \ {0} /\ q.used \in 0 .. queue_size /\ q.rd_ptr \in Nat
    BY QueueAssumption DEF QueueType, Position
  <1>3. CASE Kept(q, n) /\ RestWaits(q, flag, live, n)
    <2>1. /\ gatt_send_queue' = [q EXCEPT !.rd_ptr = (q.rd_ptr + n) % queue_size,
                                          !.used = q.used - n]
          /\ gatt_queue_flag' = flag
      BY <1>3 DEF RestWaits, tuya_ble_queue_decrease
    <2>2. n < q.used /\ ~EventsFull /\ retry = TRUE
      BY <1>1, <1>3 DEF Kept, Refused
    <2>3. (q.rd_ptr + n) % queue_size \in Position /\ q.used - n \in 0 .. queue_size
      BY <1>2, <2>2 DEF Position
    <2>4. gatt_send_queue' \in QueueType
      BY <2>1, <2>3 DEF QueueType
    <2>5. gatt_send_queue'.used = q.used - n
      BY <2>1 DEF QueueType
    <2> QED BY <2>1, <2>2, <2>4, <2>5, <1>2
  <1>4. CASE ~Kept(q, n) /\ QueueEmptied(q, live, n)
    <2>1. /\ gatt_send_queue' = [q EXCEPT !.rd_ptr = 0, !.wr_ptr = 0, !.used = 0]
          /\ gatt_queue_flag' = 0
      BY <1>4 DEF QueueEmptied, tuya_ble_queue_flush
    <2>2. 0 \in Position /\ 0 \in 0 .. queue_size
      BY <1>2 DEF Position
    <2>3. gatt_send_queue' \in QueueType /\ gatt_send_queue'.used = 0
      BY <2>1, <2>2 DEF QueueType
    <2>4. EventsFull \/ retry = FALSE
      BY <1>1, <1>4 DEF Kept
    <2> QED BY <2>1, <2>3, <2>4
  <1> QED BY <1>1, <1>3, <1>4

LEMMA RetryKeeps == ASSUME IInv, GattSendEvent PROVE IInv'
  <1>1. PICK retry \in BOOLEAN :
           /\ tuya_ble_gatt_send_data_handle(gatt_send_queue, gatt_queue_flag, heap, retry)
           /\ events' = Tail(IF retry THEN WithEvent("gatt_send") ELSE events)
    BY DEF GattSendEvent
  <1>2. /\ ~in_cmd /\ events # <<>> /\ Head(events) = "gatt_send"
        /\ in_cmd' = in_cmd /\ accepted' = accepted
    BY DEF GattSendEvent, Running
  <1>3. events \in Events /\ gatt_send_queue \in QueueType /\ gatt_queue_flag \in {0, 1}
    BY DEF IInv, QueueType
  <1>4. gatt_queue_flag = 1 /\ OneRetry(events)
    <2>1. ~NoRetry(events)
      BY <1>2, <1>3 DEF NoRetry, Events
    <2> QED BY <2>1, <1>3 DEF IInv
  <1>5. NoRetry(Tail(events)) /\ Tail(events) \in Events
    BY <1>2, <1>3, <1>4, TailOther
  <1>6. CASE /\ retry = TRUE /\ ~EventsFull
             /\ gatt_send_queue'.used > 0 /\ gatt_queue_flag' = gatt_queue_flag
    <2>1. events' = Tail(Append(events, "gatt_send"))
      BY <1>1, <1>6 DEF WithEvent
    <2>2. Tail(Append(events, "gatt_send")) = Append(Tail(events), "gatt_send")
      BY <1>2, <1>3 DEF Events, EventKind
    <2>3. events' \in Events /\ OneRetry(events')
      BY <2>1, <2>2, <1>5, AppendRetry
    <2> QED BY <2>3, <1>1, <1>2, <1>3, <1>4, <1>6, HandlerLeaves DEF IInv, QueueType
  <1>7. CASE /\ EventsFull \/ retry = FALSE
             /\ gatt_send_queue'.used = 0 /\ gatt_queue_flag' = 0
    <2>1. events' = Tail(events)
      <3>1. CASE retry = FALSE
        BY <3>1, <1>1
      <3>2. CASE EventsFull
        BY <3>2, <1>1 DEF WithEvent
      <3> QED BY <3>1, <3>2, <1>7
    <2>2. gatt_send_queue' \in QueueType
      BY <1>1, <1>3, HandlerLeaves
    <2>3. NoRetry(events') /\ events' \in Events
      BY <2>1, <1>5
    <2>4. ~in_cmd' /\ accepted' \in 0 .. MaxPackets
      BY <1>2 DEF IInv
    <2> QED BY <2>2, <2>3, <2>4, <1>7 DEF IInv, QueueType
  <1> QED BY <1>1, <1>3, <1>6, <1>7, HandlerLeaves

LEMMA Enqueued ==
    ASSUME NEW q \in QueueType, ~tuya_ble_queue_full(q), NEW p \in Elem
    PROVE  tuya_ble_enqueue(q, p) \in QueueType /\ tuya_ble_enqueue(q, p).used = q.used + 1
  <1>1. /\ queue_size \in Nat \ {0} /\ q.used \in 0 .. queue_size
        /\ q.wr_ptr \in Position /\ q.used # queue_size
    BY QueueAssumption DEF QueueType, tuya_ble_queue_full
  <1>2. (q.wr_ptr + 1) % queue_size \in Position /\ q.used + 1 \in 0 .. queue_size
    BY <1>1 DEF Position
  <1>3. [q.buf EXCEPT ![q.wr_ptr] = p] \in [Position -> Elem \cup {NoElem}]
    BY <1>1 DEF QueueType
  <1> QED BY <1>2, <1>3 DEF tuya_ble_enqueue, QueueType

LEMMA EnqueueKeeps == ASSUME IInv, tuya_ble_gatt_send_data_enqueue PROVE IInv'
  <1> DEFINE p == accepted + 1
             q == tuya_ble_enqueue(gatt_send_queue, p)
  <1>1. /\ in_cmd /\ in_cmd' = in_cmd /\ accepted' = p /\ accepted < MaxPackets
        /\ ~tuya_ble_queue_full(gatt_send_queue)
    BY DEF tuya_ble_gatt_send_data_enqueue
  <1>2. /\ events \in Events /\ gatt_send_queue \in QueueType /\ gatt_queue_flag \in {0, 1}
        /\ events # <<>> /\ Head(events) = "cmd" /\ gatt_send_queue.used \in Nat
    BY <1>1 DEF IInv, QueueType
  <1>3. p \in Elem /\ p \in 0 .. MaxPackets
    BY <1>1, PacketAssumption DEF IInv
  <1>4. q \in QueueType /\ q.used = gatt_send_queue.used + 1
    BY <1>1, <1>2, <1>3, Enqueued
  <1>5. CASE gatt_queue_flag = 0
    <2>1. PICK retry \in BOOLEAN :
             /\ tuya_ble_gatt_send_data_handle(q, 1, heap \cup {p}, retry)
             /\ events' = IF retry THEN WithEvent("gatt_send") ELSE events
      BY <1>5 DEF tuya_ble_gatt_send_data_enqueue
    <2>2. NoRetry(events)
      BY <1>5 DEF IInv
    <2> HIDE DEF q, p
    <2>3. CASE /\ retry = TRUE /\ ~EventsFull
               /\ gatt_send_queue'.used > 0 /\ gatt_queue_flag' = 1
      <3>1. events' = Append(events, "gatt_send")
        BY <2>1, <2>3 DEF WithEvent
      <3>2. /\ events' \in Events /\ OneRetry(events')
            /\ events' # <<>> /\ Head(events') = "cmd"
        BY <3>1, <2>2, <1>2, AppendRetry
      <3> QED BY <3>2, <2>1, <2>3, <1>1, <1>3, <1>4, HandlerLeaves DEF IInv, QueueType
    <2>4. CASE /\ EventsFull \/ retry = FALSE
               /\ gatt_send_queue'.used = 0 /\ gatt_queue_flag' = 0
      <3>1. events' = events
        <4>1. CASE retry = FALSE
          BY <4>1, <2>1
        <4>2. CASE EventsFull
          BY <4>2, <2>1 DEF WithEvent
        <4> QED BY <4>1, <4>2, <2>4
      <3>2. gatt_send_queue' \in QueueType
        BY <2>1, <1>4, HandlerLeaves
      <3>3. accepted' \in 0 .. MaxPackets
        BY <1>1, <1>3
      <3> QED BY <3>1, <3>2, <3>3, <2>2, <2>4, <1>2 DEF IInv, QueueType
    <2> QED BY <2>1, <2>3, <2>4, <1>4, HandlerLeaves
  <1>6. CASE gatt_queue_flag # 0
    <2>1. gatt_send_queue' = q /\ UNCHANGED <<events, gatt_queue_flag>>
      BY <1>6 DEF tuya_ble_gatt_send_data_enqueue
    <2>2. gatt_queue_flag = 1 /\ OneRetry(events)
      BY <1>2, <1>6 DEF IInv
    <2> HIDE DEF q, p
    <2> QED BY <2>1, <2>2, <1>1, <1>2, <1>3, <1>4 DEF IInv, QueueType
  <1> QED BY <1>5, <1>6

LEMMA InitIInv == ASSUME Init PROVE IInv
  <1>1. tuya_ble_queue_init \in QueueType /\ tuya_ble_queue_init.used = 0
    BY QueueAssumption DEF tuya_ble_queue_init, QueueType, Position
  <1>2. <<>> \in Events /\ NoRetry(<<>>)
    BY DEF Events, NoRetry
  <1> QED BY <1>1, <1>2, PacketAssumption DEF Init, IInv, QueueType

LEMMA StepIInv == ASSUME IInv, [Next]_vars PROVE IInv'
  <1>1. CASE tuya_ble_connected_handler
    BY <1>1, PostOther DEF tuya_ble_connected_handler, EventKind, packetVars
  <1>2. CASE LinkLost
    BY <1>2 DEF LinkLost, packetVars, IInv
  <1>3. CASE tuya_ble_disconnected_handler
    BY <1>3, PostOther DEF tuya_ble_disconnected_handler, EventKind, packetVars
  <1>4. CASE PostCmd
    BY <1>4, PostOther DEF PostCmd, EventKind, packetVars
  <1>5. CASE ConnectChange
    <2>1. PICK e \in {"connected", "disconnected"} :
             /\ ~in_cmd /\ events # <<>> /\ Head(events) = e
             /\ events' = Tail(events)
             /\ UNCHANGED <<in_cmd, gatt_send_queue, gatt_queue_flag, accepted>>
      BY <1>5 DEF ConnectChange, Running, packetVars
    <2>2. ~in_cmd'
      BY <2>1
    <2>3. Head(events) # "gatt_send"
      BY <2>1
    <2> QED BY <2>1, <2>2, <2>3, DoneOther
  <1>6. CASE GattSendEvent
    BY <1>6, RetryKeeps
  <1>7. CASE CmdBegin
    BY <1>7 DEF CmdBegin, Running, packetVars, IInv
  <1>8. CASE CmdEnd
    <2>1. events # <<>> /\ Head(events) = "cmd"
      BY <1>8 DEF CmdEnd, IInv
    <2> QED BY <2>1, <1>8, DoneOther DEF CmdEnd, packetVars
  <1>9. CASE StatusSet
    BY <1>9 DEF StatusSet, packetVars, IInv
  <1>10. CASE tuya_ble_gatt_send_data_enqueue
    BY <1>10, EnqueueKeeps
  <1>11. CASE UNCHANGED vars
    BY <1>11 DEF vars, packetVars, IInv
  <1> QED BY <1>1, <1>2, <1>3, <1>4, <1>5, <1>6, <1>7, <1>8, <1>9, <1>10, <1>11
             DEF Next, Schedule

(* While packets wait exactly one retry is among the events, and none      *)
(* otherwise: tuya_ble_gatt_send_queue.c 59-133.                           *)
THEOREM OneRetryForAnySizes == Spec => []OneRetryWhilePacketsWait
  <1>1. Init => IInv
    BY InitIInv
  <1>2. IInv /\ [Next]_vars => IInv'
    BY StepIInv
  <1>3. IInv => OneRetryWhilePacketsWait
    <2> SUFFICES ASSUME IInv PROVE OneRetryWhilePacketsWait
      OBVIOUS
    <2>1. OneRetry(events) => \E i \in 1 .. Len(events) : Retries = {i}
      BY DEF OneRetry, Retries
    <2>2. NoRetry(events) => Retries = {}
      BY DEF NoRetry, Retries
    <2> QED BY <2>1, <2>2 DEF IInv, OneRetryWhilePacketsWait
  <1> QED BY <1>1, <1>2, <1>3, PTL DEF Spec, SafeSpec

-----------------------------------------------------------------------------
(***************************************************************************)
(* The packets: what the circular queue holds, and what becomes of it.     *)
(***************************************************************************)

(* A position that went round is one of the queue.                         *)
LEMMA InQueue ==
    ASSUME NEW x \in Int
    PROVE  x % queue_size \in 0 .. queue_size - 1
  <1>1. queue_size \in Nat \ {0}
    BY QueueAssumption
  <1> QED BY <1>1, DivMod

LEMMA ElementsEnqueued ==
    ASSUME NEW q \in QueueType, PositionsAgree(q), ~tuya_ble_queue_full(q), NEW p \in Elem
    PROVE  LET t == tuya_ble_enqueue(q, p)
           IN  /\ PositionsAgree(t) /\ t.used = q.used + 1
               /\ \A i \in 1 .. q.used : Elements(t)[i] = Elements(q)[i]
               /\ Elements(t)[q.used + 1] = p
  <1> DEFINE t == tuya_ble_enqueue(q, p)
  <1>1. /\ queue_size \in Nat \ {0} /\ q.used \in Nat /\ q.used < queue_size
        /\ q.rd_ptr \in Nat /\ q.wr_ptr = (q.rd_ptr + q.used) % queue_size
        /\ q.wr_ptr \in Position
    BY QueueAssumption DEF QueueType, Position, PositionsAgree, tuya_ble_queue_full
  <1>2. /\ t.buf = [q.buf EXCEPT ![q.wr_ptr] = p] /\ t.rd_ptr = q.rd_ptr
        /\ t.wr_ptr = (q.wr_ptr + 1) % queue_size /\ t.used = q.used + 1
    BY DEF tuya_ble_enqueue, QueueType
  <1> HIDE DEF t
  <1>3. PositionsAgree(t)
    <2>1. (q.wr_ptr + 1) % queue_size = (q.rd_ptr + q.used + 1) % queue_size
      <3>1. CASE queue_size = 1
        <4>1. \A x \in Nat : x % queue_size = 0
          <5> SUFFICES ASSUME NEW x \in Nat PROVE x % queue_size = 0
            OBVIOUS
          <5>1. x % queue_size \in 0 .. queue_size - 1
            BY InQueue
          <5> QED BY <5>1, <3>1
        <4>2. q.wr_ptr + 1 \in Nat /\ q.rd_ptr + q.used + 1 \in Nat
          BY <1>1 DEF Position
        <4> QED BY <4>1, <4>2
      <3>2. CASE queue_size # 1
        <4>1. 1 \in 0 .. queue_size - 1 /\ q.rd_ptr + q.used \in Nat
          BY <1>1, <3>2
        <4> QED BY <4>1, <1>1, OnTheWay
      <3> QED BY <3>1, <3>2
    <2>2. q.rd_ptr + q.used + 1 = q.rd_ptr + (q.used + 1)
      BY <1>1
    <2> QED BY <2>1, <2>2, <1>2 DEF PositionsAgree
  <1>4. ASSUME NEW i \in 1 .. q.used PROVE Elements(t)[i] = Elements(q)[i]
    <2>1. /\ Elements(q)[i] = q.buf[(q.rd_ptr + i - 1) % queue_size]
          /\ Elements(t)[i] = t.buf[(t.rd_ptr + i - 1) % queue_size]
      BY <1>1, <1>2 DEF Elements
    <2>2. (q.rd_ptr + i - 1) % queue_size # q.wr_ptr
      <3> DEFINE a == q.rd_ptr + i - 1  b == q.rd_ptr + q.used
      <3>1. a \in Nat /\ b \in Nat /\ a < b /\ b - a < queue_size
        BY <1>1
      <3> HIDE DEF a, b
      <3>2. a % queue_size # b % queue_size
        BY <3>1, <1>1, Apart
      <3> QED BY <3>2, <1>1 DEF a, b
    <2>3. (q.rd_ptr + i - 1) % queue_size \in Position
      <3>1. q.rd_ptr + i - 1 \in Int
        BY <1>1
      <3> QED BY <3>1, InQueue DEF Position
    <2> QED BY <2>1, <2>2, <2>3, <1>2 DEF QueueType
  <1>5. Elements(t)[q.used + 1] = p
    <2>1. q.used + 1 \in 1 .. t.used /\ q.rd_ptr + (q.used + 1) - 1 = q.rd_ptr + q.used
      BY <1>1, <1>2
    <2>2. Elements(t)[q.used + 1] = t.buf[(t.rd_ptr + (q.used + 1) - 1) % queue_size]
      BY <2>1 DEF Elements
    <2> QED BY <2>1, <2>2, <1>1, <1>2 DEF QueueType
  <1> QED BY <1>2, <1>3, <1>4, <1>5 DEF t

LEMMA ElementsDecreased ==
    ASSUME NEW q \in QueueType, PositionsAgree(q), NEW n \in 0 .. q.used
    PROVE  LET t == tuya_ble_queue_decrease(q, n)
           IN  /\ PositionsAgree(t) /\ t.used = q.used - n
               /\ \A i \in 1 .. t.used : Elements(t)[i] = Elements(q)[i + n]
  <1> DEFINE t == tuya_ble_queue_decrease(q, n)
  <1>1. /\ queue_size \in Nat \ {0} /\ q.used \in Nat /\ q.used <= queue_size
        /\ q.rd_ptr \in Nat /\ q.wr_ptr = (q.rd_ptr + q.used) % queue_size
    BY QueueAssumption DEF QueueType, Position, PositionsAgree
  <1>2. /\ t.buf = q.buf /\ t.wr_ptr = q.wr_ptr
        /\ t.rd_ptr = (q.rd_ptr + n) % queue_size /\ t.used = q.used - n
    BY DEF tuya_ble_queue_decrease, QueueType
  <1> HIDE DEF t
  <1>3. ASSUME NEW a \in Nat, NEW d \in 0 .. queue_size
        PROVE  ((a % queue_size) + d) % queue_size = (a + d) % queue_size
    <2> DEFINE r == a % queue_size
    <2>1. CASE d < queue_size
      <3>1. d \in 0 .. queue_size - 1
        BY <2>1, <1>1
      <3> QED BY <3>1, <1>1, OnTheWay
    <2>2. CASE d = queue_size
      <3>1. r \in 0 .. queue_size - 1
        BY InQueue
      <3>2. (a + queue_size) % queue_size = r
        BY <1>1, OneRound
      <3> HIDE DEF r
      <3>3. r % queue_size = r
        BY <3>1, <1>1, Small
      <3>4. r \in Nat
        BY <3>1, <1>1
      <3>5. (r + queue_size) % queue_size = r % queue_size
        BY <3>4, <1>1, OneRound
      <3>6. (r + d) % queue_size = (a + d) % queue_size
        BY <2>2, <3>2, <3>3, <3>5, Zenon
      <3> QED BY <3>6 DEF r
    <2> QED BY <2>1, <2>2, <1>1
  <1>4. PositionsAgree(t)
    <2>1. /\ q.used - n \in 0 .. queue_size /\ q.rd_ptr + n \in Nat
          /\ q.rd_ptr + n + (q.used - n) = q.rd_ptr + q.used
      BY <1>1
    <2>2. (((q.rd_ptr + n) % queue_size) + (q.used - n)) % queue_size
              = (q.rd_ptr + q.used) % queue_size
      BY <2>1, <1>3
    <2> QED BY <2>2, <1>1, <1>2 DEF PositionsAgree
  <1>5. ASSUME NEW i \in 1 .. t.used PROVE Elements(t)[i] = Elements(q)[i + n]
    <2>1. /\ i - 1 \in 0 .. queue_size /\ i + n \in 1 .. q.used /\ q.rd_ptr + n \in Nat
          /\ q.rd_ptr + n + (i - 1) = q.rd_ptr + (i + n) - 1
      BY <1>1, <1>2
    <2>2. /\ Elements(t)[i] = t.buf[(t.rd_ptr + i - 1) % queue_size]
          /\ Elements(q)[i + n] = q.buf[(q.rd_ptr + (i + n) - 1) % queue_size]
      BY <2>1 DEF Elements
    <2>3. t.rd_ptr + i - 1 = ((q.rd_ptr + n) % queue_size) + (i - 1)
      <3>1. q.rd_ptr + n \in Int
        BY <1>1
      <3>2. (q.rd_ptr + n) % queue_size \in Int
        BY <3>1, InQueue
      <3> QED BY <3>2, <1>2
    <2> QED BY <2>1, <2>2, <2>3, <1>2, <1>3
  <1> QED BY <1>2, <1>4, <1>5 DEF t

(* The numbers of the packets in s ascend.                                 *)
Ascending(s) == \A i, j \in 1 .. Len(s) : i < j => s[i] < s[j]

(* The packets sen were sent, those of the queue wait; live are the        *)
(* buffers, drop the packets given up, of acc in all.                      *)
Accounted(q, live, sen, drop, acc) ==
    LET all == sen \o Elements(q) IN
    /\ PositionsAgree(q)
    /\ acc \in Nat /\ sen \in Seq(1 .. acc) /\ Elements(q) \in Seq(1 .. acc)
    /\ Ascending(all)
    /\ live = Range1(Elements(q), 1, q.used)
    /\ drop = (1 .. acc) \ Range1(all, 1, Len(all))

(* e is u followed by f.                                                   *)
InParts(e, u, f) == /\ Len(e) = Len(u) + Len(f)
                    /\ \A i \in 1 .. Len(u) : e[i] = u[i]
                    /\ \A i \in 1 .. Len(f) : e[Len(u) + i] = f[i]

LEMMA Concatenated ==
    ASSUME NEW S, NEW u \in Seq(S), NEW f \in Seq(S)
    PROVE  u \o f \in Seq(S) /\ InParts(u \o f, u, f)
  <1>1. u \o f \in Seq(S) /\ Len(u) \in Nat /\ Len(f) \in Nat
    OBVIOUS
  <1>2. Len(u \o f) = Len(u) + Len(f)
    OBVIOUS
  <1>3. \A i \in 1 .. Len(u) : (u \o f)[i] = u[i]
    BY <1>1
  <1>4. \A i \in 1 .. Len(f) : (u \o f)[Len(u) + i] = f[i]
    BY <1>1
  <1> QED BY <1>1, <1>2, <1>3, <1>4 DEF InParts

LEMMA SameParts ==
    ASSUME NEW S, NEW e \in Seq(S), NEW d \in Seq(S), NEW u \in Seq(S), NEW f \in Seq(S),
           InParts(e, u, f), InParts(d, u, f)
    PROVE  e = d
  <1>1. Len(u) \in Nat /\ Len(f) \in Nat
    OBVIOUS
  <1>2. Len(e) = Len(d)
    BY DEF InParts
  <1>3. ASSUME NEW i \in 1 .. Len(e) PROVE e[i] = d[i]
    <2>1. CASE i \in 1 .. Len(u)
      BY <2>1 DEF InParts
    <2>2. CASE i \notin 1 .. Len(u)
      <3>1. i - Len(u) \in 1 .. Len(f) /\ Len(u) + (i - Len(u)) = i
        BY <2>2, <1>1 DEF InParts
      <3> QED BY <3>1 DEF InParts
    <2> QED BY <2>1, <2>2
  <1> QED BY <1>2, <1>3, SeqEqual

(* When the first part of e moves to the end of a, nothing changes places. *)
LEMMA Moved ==
    ASSUME NEW S, NEW a \in Seq(S), NEW e \in Seq(S), NEW u \in Seq(S), NEW f \in Seq(S),
           InParts(e, u, f)
    PROVE  (a \o u) \o f = a \o e
  <1>1. e = u \o f
    <2>1. u \o f \in Seq(S) /\ InParts(u \o f, u, f)
      BY Concatenated
    <2> QED BY <2>1, SameParts
  <1>2. (a \o u) \o f = a \o (u \o f)
    BY SMTT(60)
  <1> QED BY <1>1, <1>2, Zenon

(* Packets that ascend differ.                                             *)
LEMMA Different ==
    ASSUME NEW acc \in Nat, NEW s \in Seq(1 .. acc), Ascending(s)
    PROVE  /\ \A i, j \in 1 .. Len(s) : i # j => s[i] # s[j]
           /\ \A i \in 1 .. Len(s) : s[i] \in 1 .. acc
  <1>1. \A i \in 1 .. Len(s) : s[i] \in 1 .. acc
    OBVIOUS
  <1>2. ASSUME NEW i \in 1 .. Len(s), NEW j \in 1 .. Len(s), i < j PROVE s[i] # s[j]
    <2>1. s[i] \in 1 .. acc /\ s[j] \in 1 .. acc /\ s[i] < s[j]
      BY <1>1, <1>2 DEF Ascending
    <2> QED BY <2>1
  <1>3. Len(s) \in Nat
    OBVIOUS
  <1>4. ASSUME NEW i \in 1 .. Len(s), NEW j \in 1 .. Len(s), i # j PROVE s[i] # s[j]
    <2>1. i < j \/ j < i
      BY <1>3, <1>4
    <2> QED BY <2>1, <1>2
  <1> QED BY <1>1, <1>4

(* The buffers that are left when the first n of the packets e are freed.  *)
LEMMA Freed ==
    ASSUME NEW acc \in Nat, NEW e \in Seq(1 .. acc), NEW n \in 0 .. Len(e),
           \A i, j \in 1 .. Len(e) : i # j => e[i] # e[j],
           NEW f, \A i \in 1 .. Len(e) - n : f[i] = e[i + n]
    PROVE  Range1(e, 1, Len(e)) \ Range1(e, 1, n) = Range1(f, 1, Len(e) - n)
  <1>1. Len(e) \in Nat /\ n \in Nat /\ n <= Len(e)
    OBVIOUS
  <1>2. ASSUME NEW p \in Range1(e, 1, Len(e)), p \notin Range1(e, 1, n)
        PROVE  p \in Range1(f, 1, Len(e) - n)
    <2>1. PICK i \in 1 .. Len(e) : p = e[i]
      BY DEF Range1
    <2>2. i \notin 1 .. n
      BY <1>2, <2>1 DEF Range1
    <2>3. i - n \in 1 .. Len(e) - n /\ (i - n) + n = i
      BY <2>2, <1>1
    <2>4. p = f[i - n]
      BY <2>1, <2>3
    <2> QED BY <2>3, <2>4 DEF Range1
  <1>3. ASSUME NEW p \in Range1(f, 1, Len(e) - n)
        PROVE  p \in Range1(e, 1, Len(e)) /\ p \notin Range1(e, 1, n)
    <2>1. PICK i \in 1 .. Len(e) - n : p = f[i]
      BY DEF Range1
    <2>2. i + n \in 1 .. Len(e) /\ p = e[i + n]
      BY <2>1, <1>1
    <2>3. \A j \in 1 .. n : j \in 1 .. Len(e) /\ j # i + n
      BY <1>1, <2>1
    <2> QED BY <2>2, <2>3 DEF Range1
  <1> QED BY <1>2, <1>3

(* The handler accounts for the packets: the rest waits, or is given up.   *)
LEMMA HandlerAccounts ==
    ASSUME NEW q \in QueueType, NEW flag, NEW live, NEW retry, NEW acc,
           Accounted(q, live, sent, dropped, acc),
           tuya_ble_gatt_send_data_handle(q, flag, live, retry)
    PROVE  Accounted(gatt_send_queue', heap', sent', dropped', acc)
  <1> DEFINE e == Elements(q)  all == sent \o e
  <1>1. PICK n \in 0 .. q.used :
           /\ sent' = sent \o SubSeq(e, 1, n)
           /\ \/ Kept(q, n) /\ RestWaits(q, flag, live, n)
              \/ ~Kept(q, n) /\ QueueEmptied(q, live, n)
    BY DEF tuya_ble_gatt_send_data_handle
  <1>2. /\ PositionsAgree(q) /\ acc \in Nat /\ sent \in Seq(1 .. acc) /\ e \in Seq(1 .. acc)
        /\ Ascending(all) /\ live = Range1(e, 1, q.used)
        /\ dropped = (1 .. acc) \ Range1(all, 1, Len(all))
    BY DEF Accounted
  <1>3. q.used \in Nat /\ Len(e) = q.used
    BY DEF QueueType, Elements
  <1>4. n \in 0 .. Len(e) /\ n \in Nat /\ n <= Len(e) /\ Len(sent) \in Nat
    BY <1>2, <1>3
  <1> DEFINE f == SubSeq(e, n + 1, Len(e))
  <1> HIDE DEF e
  <1>5. /\ sent' \in Seq(1 .. acc) /\ f \in Seq(1 .. acc) /\ Len(f) = Len(e) - n
        /\ Len(all) = Len(sent) + Len(e) /\ Len(sent') = Len(sent) + n
        /\ \A i \in 1 .. Len(sent') : sent'[i] = all[i]
        /\ \A i \in 1 .. Len(e) : all[Len(sent) + i] = e[i]
        /\ \A i \in 1 .. Len(f) : f[i] = e[i + n]
        /\ sent' \o f = all
    <2> DEFINE S == 1 .. acc  u == SubSeq(e, 1, n)
    <2>1. sent \in Seq(S) /\ e \in Seq(S) /\ n \in 0 .. Len(e)
      BY <1>2, <1>4
    <2> HIDE DEF S
    <2>2. /\ u \in Seq(S) /\ Len(u) = n /\ \A i \in 1 .. n : u[i] = e[i]
          /\ f \in Seq(S) /\ Len(f) = Len(e) - n /\ \A i \in 1 .. Len(f) : f[i] = e[i + n]
      BY <2>1, <1>4
    <2>3. sent' = sent \o u
      BY <1>1
    <2> HIDE DEF u, f
    <2>4. InParts(e, u, f)
      <3>1. Len(e) = n + (Len(e) - n) /\ \A i \in 1 .. Len(e) - n : i + n = n + i
        BY <1>4
      <3>2. \A i \in 1 .. Len(f) : e[n + i] = f[i]
        BY <3>1, <2>2
      <3>3. Len(e) = Len(u) + Len(f)
        BY <3>1, <2>2
      <3> QED BY <2>2, <3>2, <3>3 DEF InParts
    <2>5. sent' \o f = all
      <3>1. u \in Seq(S) /\ f \in Seq(S)
        BY <2>2
      <3>2. (sent \o u) \o f = sent \o e
        BY <3>1, <2>1, <2>4, Moved, SMTT(30)
      <3> QED BY <3>2, <2>3
    <2>6. sent \o u \in Seq(S) /\ InParts(sent \o u, sent, u)
      BY <2>1, <2>2, Concatenated
    <2>7. InParts(sent \o e, sent, e)
      BY <2>1, Concatenated
    <2>8. \A i \in 1 .. Len(sent') : sent'[i] = all[i]
      <3> SUFFICES ASSUME NEW i \in 1 .. Len(sent') PROVE sent'[i] = all[i]
        OBVIOUS
      <3>1. CASE i \in 1 .. Len(sent)
        BY <3>1, <2>3, <2>6, <2>7 DEF InParts
      <3>2. CASE i \notin 1 .. Len(sent)
        <4>1. /\ i - Len(sent) \in 1 .. n /\ i - Len(sent) \in 1 .. Len(e)
              /\ Len(sent) + (i - Len(sent)) = i
          BY <3>2, <2>2, <2>3, <2>6, <1>4 DEF InParts
        <4> QED BY <4>1, <2>2, <2>3, <2>6, <2>7 DEF InParts
      <3> QED BY <3>1, <3>2
    <2>9. Len(all) = Len(sent) + Len(e) /\ \A i \in 1 .. Len(e) : all[Len(sent) + i] = e[i]
      BY <2>7 DEF InParts
    <2>10. Len(sent') = Len(sent) + n
      BY <2>2, <2>3, <2>6 DEF InParts
    <2> QED BY <2>2, <2>3, <2>5, <2>6, <2>8, <2>9, <2>10 DEF S
  <1>6. all \in Seq(1 .. acc)
    BY <1>2
  <1> HIDE DEF all, f
  <1>7. /\ \A i, j \in 1 .. Len(all) : i # j => all[i] # all[j]
        /\ \A i \in 1 .. Len(all) : all[i] \in 1 .. acc
    BY <1>2, <1>6, Different
  <1>8. \A i, j \in 1 .. Len(e) : i # j => e[i] # e[j]
    <2> SUFFICES ASSUME NEW i \in 1 .. Len(e), NEW j \in 1 .. Len(e), i # j
                 PROVE  e[i] # e[j]
      OBVIOUS
    <2> DEFINE k == Len(e)  l == Len(sent)  m == Len(all)
    <2>0. k \in Nat /\ l \in Nat /\ m = l + k /\ i \in 1 .. k /\ j \in 1 .. k
      BY <1>3, <1>4, <1>5
    <2> HIDE DEF k, l, m
    <2>1. l + i \in 1 .. m /\ l + j \in 1 .. m /\ l + i # l + j
      BY <2>0
    <2>2. all[l + i] # all[l + j]
      BY <2>1, <1>7 DEF m
    <2>3. all[l + i] = e[i] /\ all[l + j] = e[j]
      BY <1>5 DEF l
    <2> QED BY <2>2, <2>3
  <1>9. CASE Kept(q, n) /\ RestWaits(q, flag, live, n)
    <2> DEFINE t == gatt_send_queue'
    <2>1. /\ t = tuya_ble_queue_decrease(q, n) /\ dropped' = dropped
          /\ heap' = live \ Range1(e, 1, n)
      BY <1>9 DEF RestWaits, e
    <2>2. /\ PositionsAgree(t) /\ t.used = q.used - n
          /\ \A i \in 1 .. t.used : Elements(t)[i] = e[i + n]
      BY <1>2, <2>1, ElementsDecreased DEF e
    <2>3. Elements(t) = f
      <3>1. Elements(t) = [i \in 1 .. t.used |-> Elements(t)[i]]
        BY DEF Elements
      <3>2. f = [i \in 1 .. Len(f) |-> f[i]]
        BY <1>5
      <3>3. t.used = Len(f)
        BY <2>2, <1>3, <1>5
      <3> HIDE DEF t
      <3> QED BY <3>1, <3>2, <3>3, <2>2, <1>5
    <2>4. heap' = Range1(f, 1, t.used)
      <3>1. \A i \in 1 .. Len(e) - n : f[i] = e[i + n]
        BY <1>5
      <3>2. Range1(e, 1, Len(e)) \ Range1(e, 1, n) = Range1(f, 1, Len(e) - n)
        BY <3>1, <1>2, <1>4, <1>8, Freed
      <3> QED BY <3>2, <2>1, <2>2, <1>2, <1>3
    <2> HIDE DEF t
    <2> QED BY <2>1, <2>2, <2>3, <2>4, <1>2, <1>5 DEF Accounted, t
  <1>10. CASE ~Kept(q, n) /\ QueueEmptied(q, live, n)
    <2> DEFINE t == gatt_send_queue'
    <2>1. /\ t = tuya_ble_queue_flush(q) /\ heap' = live \ Range1(e, 1, q.used)
          /\ dropped' = dropped \cup Range1(e, n + 1, q.used)
      BY <1>10 DEF QueueEmptied, e
    <2>2. t.used = 0 /\ t.rd_ptr = 0 /\ t.wr_ptr = 0
      BY <2>1 DEF tuya_ble_queue_flush, QueueType
    <2> HIDE DEF t
    <2>3. PositionsAgree(t)
      <3>1. 0 % queue_size = 0
        <4>1. queue_size \in Nat \ {0} /\ 0 \in 0 .. queue_size - 1
          BY QueueAssumption
        <4> QED BY <4>1, Small
      <3> QED BY <3>1, <2>2 DEF PositionsAgree
    <2>4. Elements(t) = <<>>
      BY <2>2 DEF Elements
    <2>5. heap' = Range1(Elements(t), 1, t.used)
      BY <2>1, <2>2, <1>2 DEF Range1
    <2>6. sent' \o Elements(t) = sent'
      BY <2>4, <1>5
    <2>7. Ascending(sent')
      <3>1. \A i \in 1 .. Len(sent') : i \in 1 .. Len(all) /\ sent'[i] = all[i]
        BY <1>3, <1>4, <1>5
      <3> QED BY <3>1, <1>2 DEF Ascending
    <2>8. dropped' = (1 .. acc) \ Range1(sent', 1, Len(sent'))
      <3>0. /\ Len(sent) \in Nat /\ Len(e) \in Nat /\ n <= Len(e) /\ q.used = Len(e)
            /\ Len(all) = Len(sent) + Len(e) /\ Len(sent') = Len(sent) + n
        BY <1>3, <1>4, <1>5
      <3>1. ASSUME NEW i \in 1 .. Len(all)
            PROVE  \/ i \in 1 .. Len(sent') /\ all[i] = sent'[i]
                   \/ i - Len(sent) \in n + 1 .. q.used /\ all[i] = e[i - Len(sent)]
        <4>1. CASE i \in 1 .. Len(sent')
          BY <4>1, <1>5
        <4>2. CASE i \notin 1 .. Len(sent')
          <5>1. /\ i - Len(sent) \in n + 1 .. q.used /\ i - Len(sent) \in 1 .. Len(e)
                /\ Len(sent) + (i - Len(sent)) = i
            BY <3>0, <4>2
          <5> QED BY <5>1, <1>5
        <4> QED BY <4>1, <4>2
      <3>2. ASSUME NEW i \in n + 1 .. q.used
            PROVE  /\ Len(sent) + i \in 1 .. Len(all) /\ Len(sent) + i \notin 1 .. Len(sent')
                   /\ all[Len(sent) + i] = e[i]
        <4>1. /\ i \in 1 .. Len(e) /\ Len(sent) + i \in 1 .. Len(all)
              /\ Len(sent) + i \notin 1 .. Len(sent')
          BY <3>0
        <4> QED BY <4>1, <1>5
      <3>3. \A i \in 1 .. Len(sent') : i \in 1 .. Len(all) /\ all[i] = sent'[i]
        <4>1. \A i \in 1 .. Len(sent') : i \in 1 .. Len(all)
          BY <3>0
        <4> QED BY <4>1, <1>5
      <3>4. \A i \in 1 .. Len(all) : all[i] \in 1 .. acc
        BY <1>7
      <3>5. \A p : p \in dropped' <=> p \in dropped \/ \E i \in n + 1 .. q.used : p = e[i]
        BY <2>1 DEF Range1
      <3>6. \A p : p \in dropped <=> p \in 1 .. acc /\ \A i \in 1 .. Len(all) : p # all[i]
        BY <1>2 DEF Range1
      <3>7. ASSUME NEW p
            PROVE  p \in dropped' <=> p \in 1 .. acc /\ \A i \in 1 .. Len(sent') : p # sent'[i]
        <4>1. ASSUME p \in dropped'
              PROVE  p \in 1 .. acc /\ \A i \in 1 .. Len(sent') : p # sent'[i]
          <5>1. CASE p \in dropped
            BY <5>1, <3>3, <3>6
          <5>2. CASE p \notin dropped
            <6>1. PICK i \in n + 1 .. q.used : p = e[i]
              BY <4>1, <5>2, <3>5
            <6>2. /\ Len(sent) + i \in 1 .. Len(all) /\ p = all[Len(sent) + i]
                  /\ \A j \in 1 .. Len(sent') : j # Len(sent) + i
              BY <6>1, <3>2
            <6> QED BY <6>2, <3>3, <3>4, <1>7
          <5> QED BY <5>1, <5>2
        <4>2. ASSUME p \in 1 .. acc, \A i \in 1 .. Len(sent') : p # sent'[i]
              PROVE  p \in dropped'
          <5>1. CASE \A i \in 1 .. Len(all) : p # all[i]
            BY <5>1, <4>2, <3>5, <3>6
          <5>2. ASSUME NEW i \in 1 .. Len(all), p = all[i]
                PROVE  p \in dropped'
            <6>1. i - Len(sent) \in n + 1 .. q.used /\ p = e[i - Len(sent)]
              BY <5>2, <4>2, <3>1
            <6> QED BY <6>1, <3>5
          <5> QED BY <5>1, <5>2
        <4> QED BY <4>1, <4>2
      <3> QED BY <3>7 DEF Range1
    <2>9. Elements(t) \in Seq(1 .. acc)
      BY <2>4
    <2> QED BY <2>3, <2>5, <2>6, <2>7, <2>8, <2>9, <1>2, <1>5 DEF Accounted, t
  <1> QED BY <1>1, <1>9, <1>10

(* The packet accepted comes after all others.                             *)
LEMMA EnqueueAccounts ==
    ASSUME NEW q \in QueueType, NEW live, NEW sen, NEW drop, NEW acc,
           Accounted(q, live, sen, drop, acc),
           ~tuya_ble_queue_full(q), acc + 1 \in Elem
    PROVE  Accounted(tuya_ble_enqueue(q, acc + 1), live \cup {acc + 1}, sen, drop, acc + 1)
  <1> DEFINE t == tuya_ble_enqueue(q, acc + 1)  p == acc + 1
             e == Elements(q)  f == Elements(t)  A == 1 .. acc  P == 1 .. p
  <1>1. /\ PositionsAgree(q) /\ acc \in Nat /\ sen \in Seq(A) /\ e \in Seq(A)
        /\ Ascending(sen \o e) /\ live = Range1(e, 1, q.used)
        /\ drop = A \ Range1(sen \o e, 1, Len(sen \o e))
    BY DEF Accounted
  <1>2. q.used \in Nat /\ Len(e) = q.used
    BY DEF QueueType, Elements
  <1>3. /\ PositionsAgree(t) /\ t.used = q.used + 1
        /\ \A i \in 1 .. q.used : f[i] = e[i]
        /\ f[q.used + 1] = p
    BY <1>1, ElementsEnqueued
  <1> HIDE DEF t
  <1>4. Len(f) = t.used /\ f = [i \in 1 .. t.used |-> f[i]]
    <2>1. t.used \in Nat
      BY <1>2, <1>3
    <2>2. f = [i \in 1 .. t.used |-> f[i]]
      BY DEF Elements
    <2> HIDE DEF f
    <2> QED BY <2>1, <2>2
  <1> HIDE DEF e, f
  <1>5. A \subseteq P /\ p \in P /\ p \in Nat /\ p \notin A
    BY <1>1
  <1> HIDE DEF A, P
  <1>6. sen \in Seq(P) /\ e \in Seq(P)
    BY <1>1, <1>5, SeqMonotonic
  <1>7. \A i \in 1 .. t.used : f[i] \in P
    <2>1. \A i \in 1 .. q.used : e[i] \in P
      BY <1>2, <1>6
    <2> QED BY <2>1, <1>2, <1>3, <1>5
  <1>8. f \in Seq(P)
    <2>1. t.used \in Nat
      BY <1>2, <1>3
    <2>2. f \in [1 .. t.used -> P]
      BY <1>4, <1>7
    <2> QED BY <2>1, <2>2
  <1> DEFINE old == sen \o e  new == sen \o f
  <1>9. old \in Seq(A) /\ InParts(old, sen, e) /\ Len(sen) \in Nat
    BY <1>1, Concatenated
  <1>10. new \in Seq(P) /\ InParts(new, sen, f)
    BY <1>6, <1>8, Concatenated
  <1> HIDE DEF old, new
  <1>11. Len(old) = Len(sen) + q.used /\ Len(new) = Len(old) + 1 /\ Len(old) \in Nat
    BY <1>2, <1>3, <1>4, <1>9, <1>10 DEF InParts
  <1>12. ASSUME NEW i \in 1 .. Len(old) PROVE new[i] = old[i]
    <2>1. CASE i \in 1 .. Len(sen)
      BY <2>1, <1>9, <1>10 DEF InParts
    <2>2. CASE i \notin 1 .. Len(sen)
      <3>1. /\ i - Len(sen) \in 1 .. q.used /\ i - Len(sen) \in 1 .. t.used
            /\ Len(sen) + (i - Len(sen)) = i
        BY <2>2, <1>2, <1>3, <1>9, <1>11
      <3>2. old[i] = e[i - Len(sen)] /\ new[i] = f[i - Len(sen)]
        BY <3>1, <1>2, <1>4, <1>9, <1>10 DEF InParts
      <3> QED BY <3>1, <3>2, <1>3
    <2> QED BY <2>1, <2>2
  <1>13. new[Len(old) + 1] = p
    <2>1. q.used + 1 \in 1 .. t.used /\ Len(sen) + (q.used + 1) = Len(old) + 1
      BY <1>2, <1>3, <1>9, <1>11
    <2> QED BY <2>1, <1>3, <1>4, <1>10 DEF InParts
  <1>14. \A i \in 1 .. Len(old) : old[i] \in A
    BY <1>9
  <1>15. \A i \in 1 .. Len(new) : i \in 1 .. Len(old) \/ i = Len(old) + 1
    BY <1>11
  <1>16. Ascending(new)
    <2> SUFFICES ASSUME NEW i \in 1 .. Len(new), NEW j \in 1 .. Len(new), i < j
                 PROVE  new[i] < new[j]
      BY DEF Ascending
    <2>1. i \in 1 .. Len(old) /\ new[i] = old[i]
      BY <1>11, <1>12
    <2>2. CASE j \in 1 .. Len(old)
      <3>1. old[i] < old[j]
        BY <2>1, <2>2, <1>1 DEF Ascending, old
      <3> QED BY <3>1, <2>1, <2>2, <1>12
    <2>3. CASE j = Len(old) + 1
      <3>1. old[i] \in 1 .. acc
        BY <2>1, <1>14 DEF A
      <3>2. old[i] < acc + 1
        BY <3>1, <1>1
      <3> QED BY <3>2, <2>1, <2>3, <1>13
    <2> QED BY <2>2, <2>3, <1>15
  <1>17. live \cup {p} = Range1(f, 1, t.used)
    <2>1. \A i \in 1 .. t.used : i \in 1 .. q.used \/ i = q.used + 1
      BY <1>2, <1>3
    <2>2. /\ \A i \in 1 .. q.used : i \in 1 .. t.used
          /\ q.used + 1 \in 1 .. t.used
      BY <1>2, <1>3
    <2> QED BY <2>1, <2>2, <1>1, <1>3 DEF Range1
  <1>18. drop = P \ Range1(new, 1, Len(new))
    <2>1. P = A \cup {p}
      BY <1>1 DEF A, P
    <2>2. \A i \in 1 .. Len(old) : i \in 1 .. Len(new) /\ new[i] = old[i]
      BY <1>11, <1>12
    <2>3. Len(old) + 1 \in 1 .. Len(new)
      BY <1>11
    <2>4. Range1(new, 1, Len(new)) = Range1(old, 1, Len(old)) \cup {p}
      BY <2>2, <2>3, <1>13, <1>15 DEF Range1
    <2>5. drop = A \ Range1(old, 1, Len(old))
      BY <1>1 DEF old
    <2> QED BY <2>1, <2>4, <2>5, <1>5
  <1> QED BY <1>1, <1>3, <1>5, <1>6, <1>8, <1>16, <1>17, <1>18 DEF Accounted, t, f, P, new

-----------------------------------------------------------------------------

(* The invariant of the flag, and that of the packets.                     *)
PInv == /\ IInv
        /\ Accounted(gatt_send_queue, heap, sent, dropped, accepted)

LEMMA InitPInv == ASSUME Init PROVE PInv
  <1> DEFINE q == tuya_ble_queue_init
  <1>1. q.used = 0 /\ q.rd_ptr = 0 /\ q.wr_ptr = 0
    BY DEF tuya_ble_queue_init
  <1> HIDE DEF q
  <1>2. PositionsAgree(q)
    <2>1. 0 % queue_size = 0
      <3>1. queue_size \in Nat \ {0} /\ 0 \in 0 .. queue_size - 1
        BY QueueAssumption
      <3> QED BY <3>1, Small
    <2> QED BY <2>1, <1>1 DEF PositionsAgree
  <1>3. Elements(q) = <<>>
    BY <1>1 DEF Elements
  <1>4. Accounted(q, {}, <<>>, {}, 0)
    <2>1. <<>> \o Elements(q) = <<>> /\ Len(<<>>) = 0
      BY <1>3
    <2>2. Range1(Elements(q), 1, q.used) = {}
      BY <1>1 DEF Range1
    <2> QED BY <2>1, <2>2, <1>2, <1>3 DEF Accounted, Ascending
  <1> QED BY <1>4, InitIInv DEF PInv, Init, q

LEMMA StepPInv == ASSUME PInv, [Next]_vars PROVE PInv'
  <1> USE DEF PInv
  <1>1. IInv'
    BY StepIInv
  <1>2. CASE UNCHANGED packetVars
    BY <1>1, <1>2 DEF packetVars, Accounted, Elements, PositionsAgree
  <1>3. CASE GattSendEvent
    <2>1. PICK retry \in BOOLEAN :
             tuya_ble_gatt_send_data_handle(gatt_send_queue, gatt_queue_flag, heap, retry)
      BY <1>3 DEF GattSendEvent
    <2>2. accepted' = accepted
      BY <1>3 DEF GattSendEvent
    <2>3. gatt_send_queue \in QueueType
      BY DEF IInv, QueueType
    <2> QED BY <2>1, <2>2, <2>3, <1>1, HandlerAccounts
  <1>4. CASE tuya_ble_gatt_send_data_enqueue
    <2> DEFINE p == accepted + 1
               q == tuya_ble_enqueue(gatt_send_queue, p)
    <2>1. /\ accepted' = p /\ accepted < MaxPackets
          /\ ~tuya_ble_queue_full(gatt_send_queue)
      BY <1>4 DEF tuya_ble_gatt_send_data_enqueue
    <2>2. gatt_send_queue \in QueueType /\ p \in Elem
      BY <2>1, PacketAssumption DEF IInv, QueueType
    <2>3. q \in QueueType
      BY <2>1, <2>2, Enqueued
    <2>4. Accounted(q, heap \cup {p}, sent, dropped, p)
      BY <2>1, <2>2, EnqueueAccounts
    <2>5. CASE gatt_queue_flag = 0
      <3>1. PICK retry \in BOOLEAN :
               tuya_ble_gatt_send_data_handle(q, 1, heap \cup {p}, retry)
        BY <1>4, <2>5 DEF tuya_ble_gatt_send_data_enqueue
      <3> HIDE DEF p, q
      <3> QED BY <3>1, <2>1, <2>3, <2>4, <1>1, HandlerAccounts
    <2>6. CASE gatt_queue_flag # 0
      <3>1. gatt_send_queue' = q /\ heap' = heap \cup {p} /\ UNCHANGED <<sent, dropped>>
        BY <1>4, <2>6 DEF tuya_ble_gatt_send_data_enqueue
      <3> HIDE DEF p, q
      <3> QED BY <3>1, <2>1, <2>4, <1>1
    <2> QED BY <2>5, <2>6
  <1>5. \/ UNCHANGED packetVars \/ GattSendEvent \/ tuya_ble_gatt_send_data_enqueue
    BY DEF Next, Schedule, vars, tuya_ble_connected_handler, LinkLost,
           tuya_ble_disconnected_handler, PostCmd, ConnectChange, CmdBegin, CmdEnd, StatusSet
  <1> QED BY <1>2, <1>3, <1>4, <1>5

(* The allocated buffers are those of the packets that wait.               *)
THEOREM BuffersOwnedForAnySizes == Spec => []BuffersOwnedByQueue
  <1>1. PInv => BuffersOwnedByQueue
    <2> SUFFICES ASSUME PInv PROVE BuffersOwnedByQueue
      OBVIOUS
    <2>1. Len(Elements(gatt_send_queue)) = gatt_send_queue.used
      BY DEF PInv, IInv, Elements
    <2> QED BY <2>1 DEF PInv, Accounted, BuffersOwnedByQueue, Queued
  <1> QED BY <1>1, InitPInv, StepPInv, PTL DEF Spec, SafeSpec

(* Each accepted packet is sent once and in order, waits, or was given up. *)
THEOREM EachPacketOnceForAnySizes == Spec => []EachPacketOnceInOrder
  <1>1. PInv => EachPacketOnceInOrder
    BY DEF PInv, Accounted, Ascending, EachPacketOnceInOrder, Queued
  <1> QED BY <1>1, InitPInv, StepPInv, PTL DEF Spec, SafeSpec

===============================================================================
