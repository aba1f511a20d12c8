----------------------------- MODULE WrappingProofs -----------------------------
(***************************************************************************)
(* What wraps: the indices of the event scheduler's ring, the counters of  *)
(* the UART's chunks, the indices of the ring buffers, which carry mirror  *)
(* bits, and the clock of the chip. Each stands for a number that does not *)
(* wrap, and the invariants say which.                                     *)
(***************************************************************************)
EXTENDS EventQueue, Uart, RingBuffer, SoftTimer, Numbers, FiniteSetTheorems, SequenceTheorems

(***************************************************************************)
(* The event scheduler, for every set of events and every queue size. The  *)
(* inductive invariant is the conjunction of the three invariants the run  *)
(* checks: the snapshot of a pass bounds its loop, which is why the slot   *)
(* under the handler is never the one a post writes, and why a taken event *)
(* is always one that waits in the queue.                                  *)
(***************************************************************************)

SchedInv == TypeOK /\ SnapshotInQueue /\ HandledSlotIntact

(* next_index stays within the ring.                                       *)
LEMMA NextIndexType ==
    ASSUME NEW i \in Index
    PROVE  next_index(i) \in Index
BY QueueSizeAssumption DEF Index, next_index

(* A distance around the ring is at most the number of usable entries.     *)
LEMMA DistanceType ==
    ASSUME NEW a \in Index, NEW b \in Index
    PROVE  /\ Distance(a, b) \in 0 .. m_queue_size
           /\ Distance(a, b) = 0 <=> a = b
BY QueueSizeAssumption DEF Index, Distance

(* Moving the end of the queue one slot on makes it one event longer,      *)
(* unless it would meet the start.                                         *)
LEMMA DistanceAppend ==
    ASSUME NEW a \in Index, NEW b \in Index, next_index(b) # a
    PROVE  Distance(a, next_index(b)) = Distance(a, b) + 1
BY QueueSizeAssumption DEF Index, Distance, next_index

(* Moving the start of the queue one slot on makes it one event shorter.   *)
LEMMA DistanceTail ==
    ASSUME NEW a \in Index, NEW b \in Index, a # b
    PROVE  Distance(next_index(a), b) = Distance(a, b) - 1
BY QueueSizeAssumption DEF Index, Distance, next_index

(* The queue is full exactly when m_queue_size events wait.                *)
LEMMA FullMeansCapacity ==
    ASSUME NEW a \in Index, NEW b \in Index
    PROVE  next_index(b) = a <=> Distance(a, b) = m_queue_size
BY QueueSizeAssumption DEF Index, Distance, next_index

-------------------------------------------------------------------------------

LEMMA SchedInitInv == SchedInit => SchedInv
BY QueueSizeAssumption
   DEF SchedInit, SchedInv, TypeOK, SnapshotInQueue, HandledSlotIntact, Index

LEMMA SchedStepInv == SchedInv /\ [SchedNext]_schedVars => SchedInv'
<1> SUFFICES ASSUME SchedInv, [SchedNext]_schedVars
             PROVE  SchedInv'
  OBVIOUS
<1> USE DEF SchedInv
<1>1. ASSUME NEW e \in Event, tuya_ble_sched_event_put(e)
      PROVE  SchedInv'
  <2>1. CASE tuya_sched_queue_full
    BY <1>1, <2>1 DEF tuya_ble_sched_event_put, TypeOK, SnapshotInQueue,
                      HandledSlotIntact, Distance
  <2>2. CASE ~tuya_sched_queue_full
    <3>1. TypeOK'
      BY <1>1, <2>2, NextIndexType DEF tuya_ble_sched_event_put, TypeOK
    <3>2. Distance(m_queue_start_index, next_index(m_queue_end_index))
             = Distance(m_queue_start_index, m_queue_end_index) + 1
      BY <2>2, DistanceAppend DEF TypeOK, tuya_sched_queue_full
    <3>3. SnapshotInQueue'
      <4>1. Distance(m_queue_start_index, end_ix) \in Nat
        BY DistanceType DEF TypeOK
      <4>2. Distance(m_queue_start_index, m_queue_end_index) \in Nat
        BY DistanceType DEF TypeOK
      <4>3. /\ Distance(m_queue_start_index, end_ix)'
                  = Distance(m_queue_start_index, end_ix)
            /\ Distance(m_queue_start_index, m_queue_end_index)'
                  = Distance(m_queue_start_index, m_queue_end_index) + 1
        BY <1>1, <2>2, <3>2 DEF tuya_ble_sched_event_put, Distance
      <4> QED
        BY <1>1, <4>1, <4>2, <4>3
           DEF tuya_ble_sched_event_put, SnapshotInQueue
    <3>4. HandledSlotIntact'
      <4> SUFFICES ASSUME pc = "handling"
                   PROVE  evt' = m_queue_event_data'[m_queue_start_index']
        BY <1>1 DEF tuya_ble_sched_event_put, HandledSlotIntact
      <4>1. m_queue_end_index # m_queue_start_index
        BY DistanceType DEF TypeOK, SnapshotInQueue
      <4> QED
        BY <1>1, <2>2, <4>1
           DEF tuya_ble_sched_event_put, HandledSlotIntact, TypeOK
    <3> QED
      BY <3>1, <3>3, <3>4
  <2> QED
    BY <2>1, <2>2
<1>2. ASSUME ExecuteBegin
      PROVE  SchedInv'
  <2>1. Distance(m_queue_start_index, m_queue_end_index) \in Nat
    BY DistanceType DEF TypeOK
  <2> QED
    BY <1>2, <2>1 DEF ExecuteBegin, TypeOK, SnapshotInQueue,
                      HandledSlotIntact, Distance
<1>3. ASSUME TakeEvent
      PROVE  SchedInv'
  BY <1>3 DEF TakeEvent, PassDone, TypeOK, SnapshotInQueue,
              HandledSlotIntact, Distance
<1>4. ASSUME HandlerReturns
      PROVE  SchedInv'
  <2>1. TypeOK'
    BY <1>4, NextIndexType DEF HandlerReturns, TypeOK
  <2>2. /\ m_queue_start_index # end_ix
        /\ m_queue_start_index # m_queue_end_index
    BY <1>4, DistanceType DEF HandlerReturns, TypeOK, SnapshotInQueue
  <2>3. /\ Distance(m_queue_start_index, end_ix)'
              = Distance(m_queue_start_index, end_ix) - 1
        /\ Distance(m_queue_start_index, m_queue_end_index)'
              = Distance(m_queue_start_index, m_queue_end_index) - 1
    <3>1. /\ Distance(next_index(m_queue_start_index), end_ix)
                = Distance(m_queue_start_index, end_ix) - 1
          /\ Distance(next_index(m_queue_start_index), m_queue_end_index)
                = Distance(m_queue_start_index, m_queue_end_index) - 1
      BY <2>2, DistanceTail DEF TypeOK
    <3> QED
      BY <1>4, <3>1 DEF HandlerReturns, Distance
  <2>4. /\ Distance(m_queue_start_index, end_ix) \in Nat
        /\ Distance(m_queue_start_index, m_queue_end_index) \in Nat
    BY DistanceType DEF TypeOK
  <2> QED
    BY <1>4, <2>1, <2>3, <2>4
       DEF HandlerReturns, SnapshotInQueue, HandledSlotIntact
<1>5. ASSUME ExecuteEnd
      PROVE  SchedInv'
  BY <1>5 DEF ExecuteEnd, TypeOK, SnapshotInQueue, HandledSlotIntact
<1>6. CASE UNCHANGED schedVars
  BY <1>6 DEF schedVars, TypeOK, SnapshotInQueue, HandledSlotIntact, Distance
<1> QED
  BY <1>1, <1>2, <1>3, <1>4, <1>5, <1>6 DEF SchedNext, Execute

(* SchedInv is an invariant of the scheduler.                                  *)
THEOREM SchedInvHolds == SchedSafeSpec => []SchedInv
BY SchedInitInv, SchedStepInv, PTL DEF SchedSafeSpec

(* Every variable always has its type: in particular both indices stay     *)
(* inside the ring.                                                        *)
THEOREM SchedTypeCorrect == SchedSafeSpec => []TypeOK
BY SchedInvHolds, PTL DEF SchedInv

(* A pass of tuya_sched_execute never runs past the events in the queue.   *)
THEOREM PassStaysInQueue == SchedSafeSpec => []SnapshotInQueue
BY SchedInvHolds, PTL DEF SchedInv

(* The slot of the event being handled is never overwritten by a post.     *)
THEOREM HandledSlotKept == SchedSafeSpec => []HandledSlotIntact
BY SchedInvHolds, PTL DEF SchedInv

-------------------------------------------------------------------------------
(***************************************************************************)
(* The ring implements the bounded first-in first-out queue.               *)
(***************************************************************************)

QueuePlaces == 1 .. tuya_ble_sched_queue_events_get

(* The waiting events occupy distinct slots of the ring, from the start up *)
(* to, and without, the end.                                               *)
LEMMA SlotProperties ==
    ASSUME TypeOK
    PROVE  /\ tuya_ble_sched_queue_events_get \in 0 .. m_queue_size
           /\ \A k \in QueuePlaces : Slot(k) \in Index /\ Slot(k) # m_queue_end_index
           /\ Slot(tuya_ble_sched_queue_events_get + 1) = m_queue_end_index
BY QueueSizeAssumption
   DEF TypeOK, Index, QueuePlaces, Slot, Distance, tuya_ble_sched_queue_events_get

QueueShape == /\ queue \in Seq(Event \cup {NoEvent})
              /\ Len(queue) = tuya_ble_sched_queue_events_get
              /\ \A k \in QueuePlaces : queue[k] = m_queue_event_data[Slot(k)]

(* The queue the ring stands for is a sequence of slot contents.           *)
LEMMA QueueIsSeq == TypeOK => QueueShape
<1> SUFFICES ASSUME TypeOK
             PROVE  QueueShape
  OBVIOUS
<1>1. \A k \in QueuePlaces : m_queue_event_data[Slot(k)] \in Event \cup {NoEvent}
  BY SlotProperties DEF TypeOK
<1>2. tuya_ble_sched_queue_events_get \in Nat
  BY SlotProperties
<1> QED
  BY <1>1, <1>2 DEF QueueShape, queue, QueuePlaces

(* A post that finds room appends its event.                               *)
LEMMA PutAppends ==
    ASSUME SchedInv, NEW e \in Event, tuya_ble_sched_event_put(e),
           ~tuya_sched_queue_full
    PROVE  queue' = Append(queue, e)
<1> DEFINE n == tuya_ble_sched_queue_events_get
<1> USE DEF SchedInv
<1>1. TypeOK'
  BY SchedStepInv DEF SchedNext
<1>2. /\ m_queue_start_index' = m_queue_start_index
      /\ m_queue_event_data' =
            [m_queue_event_data EXCEPT ![m_queue_end_index] = e]
      /\ m_queue_end_index' = next_index(m_queue_end_index)
  BY DEF tuya_ble_sched_event_put
<1>3. n' = n + 1
  <2>1. Distance(m_queue_start_index, next_index(m_queue_end_index)) = n + 1
    BY DistanceAppend
       DEF TypeOK, tuya_sched_queue_full, tuya_ble_sched_queue_events_get
  <2> QED
    BY <1>2, <2>1 DEF tuya_ble_sched_queue_events_get, Distance
<1>4. \A k : Slot(k)' = Slot(k)
  BY <1>2 DEF Slot
<1>5. n \in Nat
  BY SlotProperties
<1>6. /\ Append(queue, e) \in Seq(Event \cup {NoEvent})
      /\ Len(Append(queue, e)) = n + 1
      /\ \A k \in 1 .. n : Append(queue, e)[k] = queue[k]
      /\ Append(queue, e)[n + 1] = e
  BY QueueIsSeq, AppendProperties DEF QueueShape
<1>7. /\ queue' \in Seq(Event \cup {NoEvent})
      /\ Len(queue') = n + 1
      /\ \A k \in 1 .. (n + 1) :
            queue'[k] = m_queue_event_data'[Slot(k)]
  <2>1. QueueShape'
    BY <1>1, QueueIsSeq, PTL
  <2> QED
    BY <1>3, <1>4, <2>1 DEF QueueShape, QueuePlaces
<1>8. \A k \in 1 .. n : queue'[k] = queue[k]
  BY <1>2, <1>5, <1>7, SlotProperties, QueueIsSeq DEF QueueShape, TypeOK, QueuePlaces
<1>9. queue'[n + 1] = e
  BY <1>2, <1>5, <1>7, SlotProperties DEF TypeOK
<1>10. \A k \in 1 .. (n + 1) : queue'[k] = Append(queue, e)[k]
  BY <1>5, <1>6, <1>8, <1>9
<1> QED
  BY <1>6, <1>7, <1>10, SeqEqual

(* A handler that returns takes its event off the front of the queue.      *)
LEMMA ReturnTakesHead ==
    ASSUME SchedInv, HandlerReturns
    PROVE  queue # <<>> /\ queue' = Tail(queue)
<1> DEFINE n == tuya_ble_sched_queue_events_get
<1> USE DEF SchedInv
<1>1. TypeOK'
  BY SchedStepInv DEF SchedNext, Execute
<1>2. /\ m_queue_start_index' = next_index(m_queue_start_index)
      /\ m_queue_event_data' = m_queue_event_data
      /\ m_queue_end_index' = m_queue_end_index
  BY DEF HandlerReturns
<1>3. m_queue_start_index # m_queue_end_index
  BY DistanceType DEF HandlerReturns, TypeOK, SnapshotInQueue
<1>4. n \in Nat \ {0}
  BY <1>3, DistanceType, SlotProperties
     DEF TypeOK, tuya_ble_sched_queue_events_get
<1>5. n' = n - 1
  BY <1>2, <1>3, DistanceTail
     DEF TypeOK, tuya_ble_sched_queue_events_get, Distance
<1>6. \A k \in 1 .. (n - 1) : Slot(k)' = Slot(k + 1)
  BY <1>2, <1>4, SlotProperties, QueueSizeAssumption
     DEF Slot, TypeOK, Index, next_index
<1>7. queue # <<>>
  BY <1>4, QueueIsSeq, EmptySeq DEF QueueShape
<1>8. /\ Tail(queue) \in Seq(Event \cup {NoEvent})
      /\ Len(Tail(queue)) = n - 1
      /\ \A k \in 1 .. (n - 1) : Tail(queue)[k] = queue[k + 1]
  BY <1>7, QueueIsSeq, HeadTailProperties DEF QueueShape
<1>9. /\ queue' \in Seq(Event \cup {NoEvent})
      /\ Len(queue') = n - 1
      /\ \A k \in 1 .. (n - 1) : queue'[k] = m_queue_event_data'[Slot(k)']
  <2>1. QueueShape'
    BY <1>1, QueueIsSeq, PTL
  <2> QED
    BY <1>5, <2>1 DEF QueueShape, QueuePlaces
<1>10. \A k \in 1 .. (n - 1) : queue'[k] = queue[k + 1]
  BY <1>2, <1>4, <1>6, <1>9, QueueIsSeq DEF QueueShape, QueuePlaces
<1> QED
  BY <1>7, <1>8, <1>9, <1>10, SeqEqual

LEMMA SchedInitImplementsFifo == SchedInit => Fifo!Init
<1> SUFFICES ASSUME SchedInit
             PROVE  Fifo!Init
  OBVIOUS
<1>1. TypeOK
  BY SchedInitInv DEF SchedInv
<1>2. tuya_ble_sched_queue_events_get = 0
  BY DEF SchedInit, tuya_ble_sched_queue_events_get, Distance
<1>3. queue = <<>>
  BY <1>1, <1>2, QueueIsSeq, EmptySeq DEF QueueShape
<1> QED
  BY <1>3 DEF SchedInit, Fifo!Init

(* Every step of the ring is a step of the queue or leaves it unchanged.   *)
LEMMA SchedStepImplementsFifo == SchedInv /\ [SchedNext]_schedVars => [Fifo!Next]_(Fifo!vars)
<1> SUFFICES ASSUME SchedInv, [SchedNext]_schedVars
             PROVE  [Fifo!Next]_(Fifo!vars)
  OBVIOUS
<1> USE DEF SchedInv, Fifo!vars
<1>1. ASSUME UNCHANGED <<m_queue_start_index, m_queue_end_index,
                         m_queue_event_data>>
      PROVE  queue' = queue
  BY <1>1 DEF queue, Slot, Distance, tuya_ble_sched_queue_events_get
<1>2. ASSUME NEW e \in Event, tuya_ble_sched_event_put(e)
      PROVE  Fifo!Post(e)
  <2>1. tuya_sched_queue_full <=> ~(Len(queue) < m_queue_size)
    <3>1. tuya_sched_queue_full
             <=> tuya_ble_sched_queue_events_get = m_queue_size
      BY FullMeansCapacity
         DEF TypeOK, tuya_sched_queue_full, tuya_ble_sched_queue_events_get
    <3>2. Len(queue) = tuya_ble_sched_queue_events_get
      BY QueueIsSeq DEF QueueShape
    <3>3. tuya_ble_sched_queue_events_get \in 0 .. m_queue_size
      BY SlotProperties
    <3> QED
      BY <3>1, <3>2, <3>3, QueueSizeAssumption
  <2>2. CASE tuya_sched_queue_full
    BY <1>1, <1>2, <2>1, <2>2 DEF tuya_ble_sched_event_put, Fifo!Post
  <2>3. CASE ~tuya_sched_queue_full
    BY <1>2, <2>1, <2>3, PutAppends DEF tuya_ble_sched_event_put, Fifo!Post
  <2> QED
    BY <2>2, <2>3
<1>3. ASSUME TakeEvent
      PROVE  Fifo!Start
  <2>1. m_queue_start_index # m_queue_end_index
    <3>1. Distance(m_queue_start_index, end_ix) # 0
      BY <1>3, DistanceType DEF TakeEvent, PassDone, TypeOK
    <3> QED
      BY <1>3, <3>1, DistanceType DEF TakeEvent, TypeOK, SnapshotInQueue
  <2>2. queue # <<>>
    BY <2>1, DistanceType, QueueIsSeq, EmptySeq
       DEF QueueShape, TypeOK, tuya_ble_sched_queue_events_get
  <2> QED
    BY <1>1, <1>3, <2>2 DEF TakeEvent, Fifo!Start
<1>4. ASSUME HandlerReturns
      PROVE  Fifo!Finish
  BY <1>4, ReturnTakesHead DEF HandlerReturns, Fifo!Finish
<1>5. ASSUME ExecuteBegin \/ ExecuteEnd \/ UNCHANGED schedVars
      PROVE  UNCHANGED Fifo!vars
  BY <1>1, <1>5 DEF ExecuteBegin, ExecuteEnd, schedVars
<1> QED
  BY <1>2, <1>3, <1>4, <1>5 DEF SchedNext, Execute, Fifo!Next

(* The event scheduler is a bounded first-in first-out queue: no event is  *)
(* lost, duplicated, reordered or invented, for every size of the ring.    *)
THEOREM RingImplementsFifo == SchedSafeSpec => FifoSafety
<1>1. SchedInit => Fifo!Init
  BY SchedInitImplementsFifo
<1>2. SchedInv /\ [SchedNext]_schedVars => [Fifo!Next]_(Fifo!vars)
  BY SchedStepImplementsFifo
<1> QED
  BY <1>1, <1>2, SchedInvHolds, PTL DEF SchedSafeSpec, FifoSafety, Fifo!SafeSpec


-------------------------------------------------------------------------------
(***************************************************************************)
(* UART reception: the chunks and the frames, for every number of slots    *)
(* and pointers, every length of frames, and whatever the MCU sends.       *)
(***************************************************************************)

Octet == 0 .. 255
Slots == 0 .. num - 1

(***************************************************************************)
(* The chunks. `ended` of them are whole; the pointers are its remainder   *)
(* and that of `handed`, and each chunk in between is in the slot that its *)
(* number says. The pointers alone would not do: that they mean the same   *)
(* chunks after they wrapped rests on Pointers being a multiple of num.    *)
(***************************************************************************)
ended == IF storing THEN arrived - 1 ELSE arrived

RxType == /\ slot \in [Slots -> [chunk : Nat, bytes : Seq(Octet), whole : BOOLEAN]]
          /\ storing \in BOOLEAN /\ index \in Nat
          /\ arrived \in Nat /\ handed \in Nat /\ ended \in Nat

Pending == /\ handed <= ended /\ ended - handed <= num
           /\ storing => ended - handed < num
           /\ wptr = ended % Pointers /\ rptr = handed % Pointers

Stored == /\ \A c \in handed + 1 .. ended :
                slot[(c - 1) % num].chunk = c /\ slot[(c - 1) % num].whole
          /\ storing => slot[ended % num].chunk = arrived

Read == p # NONE => p = handed % num /\ handed < ended

RxInv == RxType /\ Pending /\ Stored /\ Read

LEMMA Sizes == /\ num \in Nat \ {0} /\ Pointers \in Nat \ {0} /\ Pointers >= 2
               /\ num <= Pointers - 1 /\ 1 \in 0 .. Pointers - 1
  BY RxAssumption

LEMMA PlaceOf == ASSUME NEW n \in Nat PROVE SlotOf(n % Pointers) = n % num /\ n % num \in Slots
  <1>1. (n % Pointers) % num = n % num
    BY Sizes, RxAssumption, TwoRemainders
  <1>2. n % num \in Slots
    BY Sizes, DivMod DEF Slots
  <1> QED BY <1>1, <1>2 DEF SlotOf

LEMMA NextPointer == ASSUME NEW n \in Nat PROVE Advanced(n % Pointers) = (n + 1) % Pointers
  BY Sizes, OnTheWay DEF Advanced

LEMMA RxInitInv == ASSUME RxInit PROVE RxInv
  <1>1. /\ slot = [s \in Slots |-> [chunk |-> 0, bytes |-> <<>>, whole |-> FALSE]]
        /\ wptr = 0 /\ rptr = 0 /\ storing = FALSE /\ p = NONE /\ index = 0
        /\ arrived = 0 /\ handed = 0
    BY DEF RxInit, Slots
  <1>2. ended = 0
    BY <1>1 DEF ended
  <1>3. 0 % Pointers = 0
    BY Sizes, Small
  <1>4. RxType
    <2>1. [chunk |-> 0, bytes |-> <<>>, whole |-> FALSE]
              \in [chunk : Nat, bytes : Seq(Octet), whole : BOOLEAN]
      OBVIOUS
    <2> QED BY <2>1, <1>1, <1>2 DEF RxType
  <1>5. Pending
    BY <1>1, <1>2, <1>3, Sizes DEF Pending
  <1>6. Stored
    BY <1>1, <1>2 DEF Stored
  <1> QED BY <1>1, <1>4, <1>5, <1>6 DEF RxInv, Read

LEMMA BehindIs == ASSUME RxInv PROVE Behind = ended - handed
  <1>1. ended - handed \in 0 .. Pointers - 1 /\ handed \in Nat /\ ended = handed + (ended - handed)
    BY Sizes DEF RxInv, RxType, Pending
  <1>2. ((ended % Pointers) - (handed % Pointers)) % Pointers = ended - handed
    <2> DEFINE d == ended - handed
    <2>1. (((handed + d) % Pointers) - (handed % Pointers)) % Pointers = d
      BY <1>1, Sizes, Later
    <2> QED BY <2>1, <1>1
  <1> QED BY <1>2 DEF Behind, RxInv, Pending

LEMMA DmaKeeps == ASSUME RxInv, DmaStores PROVE RxInv'
  <1> DEFINE place == ended % num
  <1>1. /\ ~storing /\ storing' = TRUE /\ arrived' = arrived + 1
        /\ UNCHANGED <<wptr, rptr, p, index, handed>>
        /\ slot' = [slot EXCEPT ![SlotOf(wptr)] =
                       [chunk |-> arrived + 1, bytes |-> <<>>, whole |-> FALSE]]
    BY DEF DmaStores
  <1>2. ended = arrived /\ ended' = ended /\ ended \in Nat /\ handed \in Nat
    BY <1>1 DEF ended, RxInv, RxType
  <1>3. ended - handed < num
    BY BehindIs DEF DmaStores
  <1>4. SlotOf(wptr) = place /\ place \in Slots
    BY <1>2, PlaceOf DEF RxInv, Pending
  <1> HIDE DEF place
  <1>5. RxType'
    BY <1>1, <1>2, <1>4 DEF RxInv, RxType
  <1>6. Pending'
    BY <1>1, <1>2, <1>3 DEF RxInv, Pending
  <1>7. Stored'
    <2>1. ASSUME NEW c \in handed + 1 .. ended
          PROVE  slot'[(c - 1) % num].chunk = c /\ slot'[(c - 1) % num].whole
      <3>1. c \in Nat /\ c - 1 \in Nat /\ c - 1 < ended /\ ended - (c - 1) < num
        BY <1>2, <1>3, Sizes
      <3>2. (c - 1) % num # place
        BY <3>1, <1>2, Sizes, Apart DEF place
      <3>3. (c - 1) % num \in Slots
        BY <3>1, PlaceOf
      <3>4. slot[(c - 1) % num].chunk = c /\ slot[(c - 1) % num].whole
        BY DEF RxInv, Stored
      <3> QED BY <3>2, <3>3, <3>4, <1>1, <1>4 DEF RxInv, RxType
    <2>2. slot'[ended % num].chunk = arrived'
      BY <1>1, <1>4 DEF RxInv, RxType, place
    <2> QED BY <2>1, <2>2, <1>1, <1>2 DEF Stored
  <1>8. Read'
    BY <1>1, <1>2 DEF RxInv, Read
  <1> QED BY <1>5, <1>6, <1>7, <1>8 DEF RxInv

LEMMA IrqKeeps == ASSUME RxInv, NEW bytes \in Seq(Octet), irq_handler(bytes) PROVE RxInv'
  <1> DEFINE place == ended % num
  <1>1. /\ storing /\ storing' = FALSE
        /\ slot' = [slot EXCEPT ![SlotOf(wptr)].bytes = bytes, ![SlotOf(wptr)].whole = TRUE]
        /\ wptr' = Advanced(wptr)
        /\ UNCHANGED <<rptr, p, index, arrived, handed>>
    BY DEF irq_handler
  <1>2. ended' = arrived /\ arrived = ended + 1 /\ ended \in Nat /\ handed \in Nat
    BY <1>1 DEF ended, RxInv, RxType
  <1>3. SlotOf(wptr) = place /\ place \in Slots
    BY <1>2, PlaceOf DEF RxInv, Pending
  <1>4. wptr' = ended' % Pointers
    BY <1>1, <1>2, NextPointer DEF RxInv, Pending
  <1> HIDE DEF place
  <1>5. RxType'
    BY <1>1, <1>2, <1>3 DEF RxInv, RxType
  <1>6. Pending'
    BY <1>1, <1>2, <1>4, Sizes DEF RxInv, Pending
  <1>7. Stored'
    <2>1. ASSUME NEW c \in handed + 1 .. ended + 1
          PROVE  slot'[(c - 1) % num].chunk = c /\ slot'[(c - 1) % num].whole
      <3>1. CASE c = ended + 1
        <4>1. slot[place].chunk = c
          BY <3>1, <1>1, <1>2 DEF RxInv, Stored, place
        <4>2. (c - 1) % num = place
          BY <3>1, <1>2 DEF place
        <4> QED BY <4>1, <4>2, <1>1, <1>3 DEF RxInv, RxType
      <3>2. CASE c # ended + 1
        <4>1. c \in handed + 1 .. ended /\ c - 1 \in Nat
          BY <3>2, <1>2
        <4>2. (c - 1) % num \in Slots
          BY <4>1, PlaceOf
        <4>3. slot[(c - 1) % num].chunk = c /\ slot[(c - 1) % num].whole
          BY <4>1 DEF RxInv, Stored
        <4> QED BY <4>2, <4>3, <1>1, <1>3 DEF RxInv, RxType
      <3> QED BY <3>1, <3>2
    <2> QED BY <2>1, <1>1, <1>2 DEF Stored
  <1>8. Read'
    BY <1>1, <1>2 DEF RxInv, Read
  <1> QED BY <1>5, <1>6, <1>7, <1>8 DEF RxInv

LEMMA ChunkGetKeeps == ASSUME RxInv, my_fifo_get PROVE RxInv'
  <1>1. /\ rptr # wptr /\ p' = SlotOf(rptr)
        /\ UNCHANGED <<slot, wptr, rptr, storing, index, arrived, handed>>
    BY DEF my_fifo_get
  <1>2. ended' = ended
    BY <1>1 DEF ended
  <1>3. handed < ended
    BY <1>1 DEF RxInv, RxType, Pending
  <1>4. p' = handed % num
    BY <1>1, PlaceOf DEF RxInv, RxType, Pending
  <1> QED BY <1>1, <1>2, <1>3, <1>4 DEF RxInv, RxType, Pending, Stored, Read

LEMMA ChunkReadKeeps == ASSUME RxInv, ReadsByte PROVE RxInv'
  <1>1. index' = index + 1 /\ UNCHANGED <<slot, wptr, rptr, storing, p, arrived, handed>>
    BY DEF ReadsByte
  <1>2. ended' = ended
    BY <1>1 DEF ended
  <1>3. RxType'
    BY <1>1, <1>2 DEF RxInv, RxType
  <1>4. Pending' /\ Read'
    BY <1>1, <1>2 DEF RxInv, Pending, Read
  <1>5. Stored'
    BY <1>1, <1>2 DEF RxInv, Stored
  <1> QED BY <1>3, <1>4, <1>5 DEF RxInv

LEMMA PopKeeps == ASSUME RxInv, my_fifo_pop PROVE RxInv'
  <1>1. /\ p # NONE /\ rptr' = Advanced(rptr) /\ p' = NONE /\ index' = 0
        /\ handed' = handed + 1
        /\ UNCHANGED <<slot, wptr, storing, arrived>>
    BY DEF my_fifo_pop
  <1>2. ended' = ended
    BY <1>1 DEF ended
  <1>3. handed < ended
    BY <1>1 DEF RxInv, Read
  <1>4. rptr' = handed' % Pointers
    BY <1>1, NextPointer DEF RxInv, RxType, Pending
  <1>5. RxType'
    BY <1>1, <1>2 DEF RxInv, RxType
  <1>6. Pending'
    BY <1>1, <1>2, <1>3, <1>4, Sizes DEF RxInv, RxType, Pending
  <1>7. Stored'
    BY <1>1, <1>2, <1>5 DEF RxInv, RxType, Stored
  <1> QED BY <1>1, <1>5, <1>6, <1>7 DEF RxInv, Read

LEMMA RxStutters == ASSUME RxInv, UNCHANGED rxVars PROVE RxInv'
  <1>1. UNCHANGED <<slot, wptr, rptr, storing, p, index, arrived, handed>>
    BY DEF rxVars
  <1>2. ended' = ended
    BY <1>1 DEF ended
  <1> QED BY <1>1, <1>2 DEF RxInv, RxType, Pending, Stored, Read

-----------------------------------------------------------------------------
(***************************************************************************)
(* The frames: how much of one is there at each status of the parser, up   *)
(* to the length the frame gives itself.                                   *)
(***************************************************************************)
ParserOK(st, frame, timing) ==
    /\ st \in 0 .. 7 /\ frame \in Seq(Octet) /\ timing \in BOOLEAN
    /\ st # 0 => timing
    /\ st <= 5 => Len(frame) = st
    /\ st \in {6, 7} => /\ Len(frame) >= 6
                        /\ DataLen(frame) <= UART_FRAME_MAX - 7
                        /\ IF st = 6 THEN Len(frame) <= DataLen(frame) + 5
                                     ELSE Len(frame) = DataLen(frame) + 6

LEMMA ByteKeepsParser ==
    ASSUME NEW st, NEW frame, NEW timing, NEW data \in Octet, ParserOK(st, frame, timing)
    PROVE  LET t == uart_data_unpack(Parser(st, frame, timing), data)
           IN  ParserOK(t.status, t.buffer, t.timer)
  <1> DEFINE b == Append(frame, data)
             t == uart_data_unpack(Parser(st, frame, timing), data)
  <1> SUFFICES ParserOK(t.status, t.buffer, t.timer)
    OBVIOUS
  <1>1. /\ st \in 0 .. 7 /\ frame \in Seq(Octet) /\ timing \in BOOLEAN
        /\ b \in Seq(Octet) /\ Len(b) = Len(frame) + 1
        /\ \A i \in 1 .. Len(frame) : b[i] = frame[i]
    BY DEF ParserOK
  <1>2. (st # 0 => timing) /\ (st <= 5 => Len(frame) = st)
    BY DEF ParserOK
  <1>3. /\ <<data>> \in Seq(Octet) /\ Len(<<data>>) = 1
        /\ ParserOK(0, <<>>, timing) /\ ParserOK(0, <<>>, FALSE)
    BY <1>1 DEF ParserOK
  <1>4. ParserOK(1, <<data>>, TRUE)
    BY <1>3 DEF ParserOK
  <1>5. Len(b) >= 6 => DataLen(b) \in Nat
    <2> SUFFICES ASSUME Len(b) >= 6 PROVE DataLen(b) \in Nat
      OBVIOUS
    <2> HIDE DEF b
    <2>0. b[5] \in Octet /\ b[6] \in Octet
      BY <1>1
    <2>1. b[5] \in Nat /\ b[6] \in Nat
      <3>1. \A x \in Octet : x \in Nat
        BY DEF Octet
      <3> QED BY <2>0, <3>1, Zenon
    <2> QED BY <2>1 DEF DataLen
  <1>6. ASSUME t \in {Parser(0, <<>>, timing), Parser(0, <<>>, FALSE), Parser(1, <<data>>, TRUE)}
        PROVE  ParserOK(t.status, t.buffer, t.timer)
    <2>1. CASE t = Parser(0, <<>>, timing)
      <3> HIDE DEF t
      <3> QED BY <1>3, <2>1 DEF Parser
    <2>2. CASE t = Parser(0, <<>>, FALSE)
      <3> HIDE DEF t
      <3> QED BY <1>3, <2>2 DEF Parser
    <2>3. CASE t = Parser(1, <<data>>, TRUE)
      <3> HIDE DEF t
      <3> QED BY <1>4, <2>3 DEF Parser
    <2> QED BY <1>6, <2>1, <2>2, <2>3
  <1>7. ASSUME NEW next, ParserOK(next, b, timing), t = Parser(next, b, timing)
        PROVE  ParserOK(t.status, t.buffer, t.timer)
    <2> HIDE DEF t, b
    <2> QED BY <1>7 DEF Parser
  <1>8. CASE st = 0
    <2>1. t = IF data \in Header THEN Parser(1, <<data>>, TRUE) ELSE Parser(st, frame, timing)
      BY <1>8 DEF uart_data_unpack, Parser
    <2>2. CASE data \in Header
      BY <2>1, <2>2, <1>6
    <2>3. CASE data \notin Header
      BY <2>1, <2>3 DEF Parser
    <2> QED BY <2>2, <2>3
  <1>9. CASE st = 1
    <2>1. timing = TRUE /\ Len(b) = 2
      BY <1>1, <1>2, <1>9
    <2>2. t \in {Parser(2, b, timing), Parser(1, <<data>>, timing), Parser(0, <<>>, timing)}
      BY <1>9, <1>1 DEF uart_data_unpack, Parser, TimerGoesOn
    <2>3. ParserOK(2, b, timing)
      <3> HIDE DEF b
      <3> QED BY <2>1, <1>1 DEF ParserOK
    <2>4. t = Parser(2, b, timing) \/ t = Parser(1, <<data>>, TRUE) \/ t = Parser(0, <<>>, timing)
      BY <2>1, <2>2
    <2>5. CASE t = Parser(2, b, timing)
      BY <2>3, <2>5, <1>7
    <2>6. CASE t = Parser(1, <<data>>, TRUE) \/ t = Parser(0, <<>>, timing)
      BY <2>6, <1>6
    <2> HIDE DEF t
    <2> QED BY <2>4, <2>5, <2>6
  <1>10. CASE st \in 2 .. 4
    <2>1. timing = TRUE /\ Len(b) = st + 1
      BY <1>1, <1>2, <1>10
    <2>2. t = Parser(st + 1, b, timing)
      <3>1. CASE st = 2
        BY <3>1, <1>1, SMTT(30) DEF uart_data_unpack, Parser, TimerGoesOn
      <3>2. CASE st = 3
        BY <3>2, <1>1, SMTT(30) DEF uart_data_unpack, Parser, TimerGoesOn
      <3>3. CASE st = 4
        BY <3>3, <1>1, SMTT(30) DEF uart_data_unpack, Parser, TimerGoesOn
      <3>4. st = 2 \/ st = 3 \/ st = 4
        BY <1>10
      <3> QED BY <3>1, <3>2, <3>3, <3>4
    <2>3. ParserOK(st + 1, b, timing)
      <3> HIDE DEF b
      <3> QED BY <2>1, <1>1, <1>10 DEF ParserOK
    <2> QED BY <2>2, <2>3, <1>7
  <1>11. CASE st = 5
    <2> DEFINE n == DataLen(b)
    <2>0. timing = TRUE /\ Len(b) = 6
      <3>1. timing /\ Len(frame) = 5
        BY <1>2, <1>11
      <3> HIDE DEF b
      <3> QED BY <3>1, <1>1
    <2>1. timing = TRUE /\ Len(b) = 6 /\ n \in Nat
      BY <2>0, <1>5
    <2>2. t = Parser(AfterLength(n), IF AfterLength(n) = 0 THEN <<>> ELSE b, timing)
      BY <1>11, <1>1, SMTT(30) DEF uart_data_unpack, Parser, TimerGoesOn
    <2>3. ASSUME n <= UART_FRAME_MAX - 7, NEW next \in {6, 7}, next = IF n = 0 THEN 7 ELSE 6
          PROVE  ParserOK(next, b, timing)
      <3> HIDE DEF b
      <3> QED BY <2>1, <2>3, <1>1, UartAssumption DEF ParserOK
    <2> HIDE DEF n, t
    <2>4. CASE n = 0
      <3>1. t = Parser(7, b, timing) /\ n <= UART_FRAME_MAX - 7
        BY <2>2, <2>4, UartAssumption DEF AfterLength
      <3> QED BY <3>1, <2>3, <2>4, <1>7
    <2>5. CASE n # 0 /\ n <= UART_FRAME_MAX - 7
      <3>1. t = Parser(6, b, timing)
        BY <2>2, <2>5 DEF AfterLength
      <3> QED BY <3>1, <2>3, <2>5, <1>7
    <2>6. CASE n # 0 /\ ~(n <= UART_FRAME_MAX - 7)
      <3>1. t = Parser(0, <<>>, timing)
        BY <2>2, <2>6 DEF AfterLength
      <3> QED BY <3>1, <1>6
    <2> QED BY <2>4, <2>5, <2>6
  <1>12. CASE st = 6
    <2>1. /\ Len(frame) >= 6 /\ timing = TRUE /\ Len(frame) <= DataLen(frame) + 5
          /\ DataLen(frame) <= UART_FRAME_MAX - 7
      BY <1>12, <1>1 DEF ParserOK
    <2>2. t = Parser(IF Len(b) >= DataLen(b) + 6 THEN 7 ELSE 6, b, timing)
      BY <1>12, <1>1, SMTT(30) DEF uart_data_unpack, Parser, TimerGoesOn
    <2>3. DataLen(b) = DataLen(frame) /\ DataLen(b) \in Nat
      <3>1. b[5] = frame[5] /\ b[6] = frame[6] /\ Len(b) >= 6
        BY <1>1, <2>1
      <3>2. DataLen(b) \in Nat
        BY <3>1, <1>5
      <3> HIDE DEF b
      <3> QED BY <3>1, <3>2 DEF DataLen
    <2>4. ParserOK(IF Len(b) >= DataLen(b) + 6 THEN 7 ELSE 6, b, timing)
      <3> HIDE DEF b
      <3> QED BY <2>1, <2>3, <1>1 DEF ParserOK
    <2> QED BY <2>2, <2>4, <1>7
  <1>13. CASE st = 7
    <2>1. t = Parser(0, <<>>, FALSE)
      BY <1>13 DEF uart_data_unpack, Parser
    <2> QED BY <2>1, <1>6
  <1> QED BY <1>1, <1>8, <1>9, <1>10, <1>11, <1>12, <1>13

-----------------------------------------------------------------------------
UartInv == /\ RxInv
        /\ mcu \in Seq(Octet)
        /\ ParserOK(status, uart_rx_buffer, rx_timer)

LEMMA UartInitInv == ASSUME Init PROVE UartInv
  <1>1. ParserOK(0, <<>>, FALSE)
    BY DEF ParserOK
  <1>2. RxInit /\ mcu = <<>> /\ status = 0 /\ uart_rx_buffer = <<>> /\ rx_timer = FALSE
    BY DEF Init
  <1>3. <<>> \in Seq(Octet)
    OBVIOUS
  <1> QED BY <1>1, <1>2, <1>3, RxInitInv DEF UartInv

LEMMA UartStepInv == ASSUME UartInv, [Next]_vars PROVE UartInv'
  <1> DEFINE parser == <<status, uart_rx_buffer, rx_timer>>
  <1>0. RxInv /\ mcu \in Seq(Octet) /\ ParserOK(status, uart_rx_buffer, rx_timer)
    BY DEF UartInv
  <1>1. CASE McuSends
    <2>1. mcu' \in Seq(Octet) /\ UNCHANGED <<rxVars, status, uart_rx_buffer, rx_timer>>
      BY <1>1, UartAssumption DEF McuSends, Octet
    <2> QED BY <2>1, <1>0, RxStutters DEF UartInv
  <1>2. CASE ChunkBegins
    <2>1. DmaStores /\ UNCHANGED <<mcu, status, uart_rx_buffer, rx_timer>>
      BY <1>2 DEF ChunkBegins
    <2> QED BY <2>1, <1>0, DmaKeeps DEF UartInv
  <1>3. CASE ChunkEnds
    <2>1. PICK k \in 1 .. Len(mcu) :
             /\ irq_handler(SubSeq(mcu, 1, k))
             /\ mcu' = SubSeq(mcu, k + 1, Len(mcu))
             /\ UNCHANGED <<status, uart_rx_buffer, rx_timer>>
      BY <1>3 DEF ChunkEnds
    <2>2. SubSeq(mcu, 1, k) \in Seq(Octet) /\ SubSeq(mcu, k + 1, Len(mcu)) \in Seq(Octet)
      BY <1>0
    <2>3. RxInv'
      BY <2>1, <2>2, <1>0, IrqKeeps
    <2> QED BY <2>1, <2>2, <2>3, <1>0 DEF UartInv
  <1>4. CASE TakesChunk
    <2>1. my_fifo_get /\ UNCHANGED <<mcu, status, uart_rx_buffer, rx_timer>>
      BY <1>4 DEF TakesChunk
    <2> QED BY <2>1, <1>0, ChunkGetKeeps DEF UartInv
  <1>5. CASE tuya_uart_rx_handler
    <2> DEFINE data == slot[p].bytes[index + 1]
               t == uart_data_unpack(Parser(status, uart_rx_buffer, rx_timer), data)
    <2>1. /\ ReadsByte /\ UNCHANGED mcu
          /\ status' = t.status /\ uart_rx_buffer' = t.buffer /\ rx_timer' = t.timer
      BY <1>5 DEF tuya_uart_rx_handler
    <2>2. data \in Octet
      <3>1. p # NONE /\ index < Len(slot[p].bytes)
        BY <2>1 DEF ReadsByte
      <3>2. p \in Slots /\ index \in Nat
        BY <3>1, <1>0, PlaceOf DEF RxInv, RxType, Read
      <3>3. slot[p].bytes \in Seq(Octet)
        BY <3>2, <1>0 DEF RxInv, RxType
      <3> QED BY <3>1, <3>2, <3>3
    <2>3. ParserOK(t.status, t.buffer, t.timer)
      BY <2>2, <1>0, ByteKeepsParser
    <2> HIDE DEF t
    <2> QED BY <2>1, <2>3, <1>0, ChunkReadKeeps DEF UartInv
  <1>6. CASE FreesChunk
    <2>1. my_fifo_pop /\ UNCHANGED <<mcu, status, uart_rx_buffer, rx_timer>>
      BY <1>6 DEF FreesChunk
    <2> QED BY <2>1, <1>0, PopKeeps DEF UartInv
  <1>7. CASE uart_timeout_handler
    <2>1. /\ rx_timer' = FALSE /\ status' = 0 /\ uart_rx_buffer' = <<>>
          /\ UNCHANGED <<rxVars, mcu>>
      BY <1>7 DEF uart_timeout_handler
    <2>2. ParserOK(0, <<>>, FALSE)
      BY DEF ParserOK
    <2> QED BY <2>1, <2>2, <1>0, RxStutters DEF UartInv
  <1>8. CASE UpdateBeginsOrEnds \/ Silence \/ UNCHANGED vars
    <2>1. UNCHANGED <<rxVars, mcu, status, uart_rx_buffer, rx_timer>>
      BY <1>8 DEF UpdateBeginsOrEnds, Silence, vars
    <2> QED BY <2>1, <1>0, RxStutters DEF UartInv
  <1> QED
    BY <1>1, <1>2, <1>3, <1>4, <1>5, <1>6, <1>7, <1>8 DEF Next, MainLoop

(* The chunks are read whole and in their order, wherever interrupts come  *)
(* and the pointers wrap: main.c 37-56 and rx_from_uart_cb.                *)
THEOREM ChunksReadInOrder == Spec => []ChunksInOrder
  <1>1. Init => UartInv
    BY UartInitInv
  <1>2. UartInv /\ [Next]_vars => UartInv'
    BY UartStepInv
  <1>3. UartInv => ChunksInOrder
    <2> SUFFICES ASSUME RxInv, p # NONE PROVE slot[p].chunk = handed + 1 /\ slot[p].whole
      BY DEF UartInv, ChunksInOrder
    <2>1. p = handed % num /\ handed < ended /\ handed \in Nat /\ ended \in Nat
      BY DEF RxInv, RxType, Read
    <2>2. handed + 1 \in handed + 1 .. ended /\ (handed + 1) - 1 = handed
      BY <2>1
    <2> QED BY <2>1, <2>2 DEF RxInv, Stored
  <1> QED BY <1>1, <1>2, <1>3, PTL DEF Spec

(* A frame that has begun is never without the timer that ends it, for     *)
(* every sequence of bytes, losses and updates: uart_data_unpack.          *)
THEOREM FramesAreWatched == Spec => []FrameIsWatched
  <1>1. Init => UartInv
    BY UartInitInv
  <1>2. UartInv /\ [Next]_vars => UartInv'
    BY UartStepInv
  <1>3. UartInv => FrameIsWatched
    BY DEF UartInv, ParserOK, FrameIsWatched
  <1> QED BY <1>1, <1>2, <1>3, PTL DEF Spec

(* No frame outgrows uart_rx_buffer, whatever length it gives itself.      *)
THEOREM FramesFit == Spec => []FrameFits
  <1>1. Init => UartInv
    BY UartInitInv
  <1>2. UartInv /\ [Next]_vars => UartInv'
    BY UartStepInv
  <1>3. UartInv => FrameFits
    <2> SUFFICES ASSUME ParserOK(status, uart_rx_buffer, rx_timer)
                 PROVE  Len(uart_rx_buffer) <= UART_FRAME_MAX - 1
      BY DEF UartInv, FrameFits
    <2>1. status <= 5 \/ status \in {6, 7}
      BY DEF ParserOK
    <2>2. CASE status <= 5
      BY <2>2, UartAssumption DEF ParserOK
    <2>3. CASE status \in {6, 7}
      <3>1. /\ Len(uart_rx_buffer) >= 6 /\ uart_rx_buffer \in Seq(Octet)
            /\ DataLen(uart_rx_buffer) <= UART_FRAME_MAX - 7
            /\ \/ Len(uart_rx_buffer) <= DataLen(uart_rx_buffer) + 5
               \/ Len(uart_rx_buffer) = DataLen(uart_rx_buffer) + 6
        BY <2>3 DEF ParserOK
      <3>0. uart_rx_buffer[5] \in Octet /\ uart_rx_buffer[6] \in Octet
        BY <3>1
      <3>2. uart_rx_buffer[5] \in Nat /\ uart_rx_buffer[6] \in Nat
        BY <3>0 DEF Octet
      <3>3. DataLen(uart_rx_buffer) \in Int
        BY <3>2 DEF DataLen
      <3> QED BY <3>1, <3>3, UartAssumption
    <2> QED BY <2>1, <2>2, <2>3
  <1> QED BY <1>1, <1>2, <1>3, PTL DEF Spec

-----------------------------------------------------------------------------
(* The length that a report gives itself.                                  *)
LEMMA ReportLength ==
    ASSUME NEW r \in Seq(Octet), IsReport(r)
    PROVE  Len(r) \in 7 .. UART_FRAME_MAX /\ DataLen(r) = Len(r) - 7
  <1>1. Len(r) \in 7 .. UART_FRAME_MAX /\ Len(r) = DataLen(r) + 7
    BY DEF IsReport
  <1>2. r[5] \in Octet /\ r[6] \in Octet
    BY <1>1, UartAssumption
  <1>3. \A x \in Octet : x \in Nat
    BY DEF Octet
  <1>4. r[5] \in Nat /\ r[6] \in Nat
    BY <1>2, <1>3, Zenon
  <1>5. DataLen(r) \in Nat
    BY <1>4 DEF DataLen
  <1> QED BY <1>1, <1>5

(* The parser in a report of which it has taken n bytes.                   *)
LEMMA InReport ==
    ASSUME NEW r \in Seq(Octet), IsReport(r), NEW n \in 0 .. Len(r) - 1,
           NEW st, NEW timing, ParserOK(st, SubSeq(r, 1, n), timing)
    PROVE  /\ n <= 5 => st = n
           /\ n > 5 => st = IF n = Len(r) - 1 THEN 7 ELSE 6
           /\ n > 5 => DataLen(SubSeq(r, 1, n)) = Len(r) - 7
  <1> DEFINE f == SubSeq(r, 1, n)
  <1>1. Len(f) = n /\ n \in Nat /\ Len(r) \in Nat /\ \A i \in 1 .. n : f[i] = r[i]
    OBVIOUS
  <1>2. DataLen(r) = Len(r) - 7
    BY ReportLength
  <1>3. /\ st \in 0 .. 7 /\ (st <= 5 => Len(f) = st)
        /\ st \in {6, 7} => /\ Len(f) >= 6
                            /\ IF st = 6 THEN Len(f) <= DataLen(f) + 5 ELSE Len(f) = DataLen(f) + 6
    BY DEF ParserOK
  <1> HIDE DEF f
  <1>4. n > 5 => DataLen(f) = Len(r) - 7
    BY <1>1, <1>2 DEF DataLen
  <1>5. n <= 5 => st = n
    BY <1>1, <1>3
  <1>6. n > 5 => st = IF n = Len(r) - 1 THEN 7 ELSE 6
    BY <1>1, <1>3, <1>4
  <1> QED BY <1>4, <1>5, <1>6 DEF f

(* A byte more of a report.                                                *)
LEMMA ReportGoesOn ==
    ASSUME NEW r \in Seq(Octet), IsReport(r), NEW n \in 0 .. Len(r) - 2,
           NEW st, NEW timing, ParserOK(st, SubSeq(r, 1, n), timing)
    PROVE  LET s == Parser(st, SubSeq(r, 1, n), timing)
           IN  /\ uart_data_unpack(s, r[n + 1]).buffer = SubSeq(r, 1, n + 1)
               /\ ~Intact(s, r[n + 1])
  <1> DEFINE f == SubSeq(r, 1, n)  g == SubSeq(r, 1, n + 1)  data == r[n + 1]
             s == Parser(st, f, timing)  t == uart_data_unpack(s, data)
  <1> SUFFICES t.buffer = g /\ ~Intact(s, data)
    OBVIOUS
  <1>1. /\ n <= 5 => st = n
        /\ n > 5 => st = 6
        /\ n > 5 => DataLen(f) = Len(r) - 7
    BY InReport
  <1>2. /\ n \in Nat /\ n + 1 <= Len(r) - 1 /\ Len(r) \in 7 .. UART_FRAME_MAX
        /\ Append(f, data) = g /\ g \in Seq(Octet) /\ Len(g) = n + 1 /\ Len(f) = n
        /\ \A i \in 1 .. n + 1 : g[i] = r[i]
    BY UartAssumption DEF IsReport
  <1>3. r[1] = 85 /\ r[2] = Second
    BY DEF IsReport, Answered
  <1>4. st # 7
    BY <1>1, <1>2
  <1>5. ~Intact(s, data)
    BY <1>4 DEF Intact, Parser
  <1>6. DataLen(r) = Len(r) - 7
    BY ReportLength
  <1>7. n >= 5 => DataLen(g) = Len(r) - 7
    BY <1>2, <1>6 DEF DataLen
  <1> HIDE DEF f, g
  <1>8. t.buffer = g
    <2>1. CASE n = 0
      <3>1. data = 85 /\ st = 0
        BY <2>1, <1>1, <1>3
      <3>2. t = Parser(1, <<data>>, TRUE)
        BY <3>1 DEF uart_data_unpack, Parser, Header
      <3>3. g = <<data>>
        <4>1. g \in Seq(Octet) /\ Len(g) = 1 /\ g[1] = data
          BY <2>1, <1>2
        <4> QED BY <4>1
      <3> QED BY <3>2, <3>3 DEF Parser
    <2>2. CASE n = 1
      <3>1. data = Second /\ st = 1
        BY <2>2, <1>1, <1>3
      <3>2. t = Parser(2, g, timing /\ TRUE)
        BY <3>1, <1>2, SMTT(30) DEF uart_data_unpack, Parser, TimerGoesOn
      <3> HIDE DEF t
      <3> QED BY <3>2 DEF Parser
    <2>3. CASE n \in 2 .. 4
      <3>1. st \in 2 .. 4 /\ st \notin {0, 1}
        BY <2>3, <1>1
      <3>2. st + 1 # 0
        BY <3>1
      <3> QED BY <3>1, <3>2, <1>2, SMTT(30) DEF uart_data_unpack, Parser, TimerGoesOn
    <2>4. CASE n = 5
      <3>1. st = 5
        BY <2>4, <1>1
      <3>2. AfterLength(DataLen(g)) \in {6, 7}
        BY <2>4, <1>2, <1>7, UartAssumption DEF AfterLength
      <3>3. \A b : b = Append(f, data) =>
               t = Parser(AfterLength(DataLen(b)), IF AfterLength(DataLen(b)) = 0 THEN <<>> ELSE b, timing)
        <4>1. timing \in BOOLEAN
          BY DEF ParserOK
        <4> QED BY <3>1, <4>1, SMTT(30) DEF uart_data_unpack, Parser, TimerGoesOn
      <3>4. t = Parser(AfterLength(DataLen(g)), g, timing)
        <4> HIDE DEF t
        <4> QED BY <3>2, <3>3, <1>2
      <3> HIDE DEF t
      <3> QED BY <3>4 DEF Parser
    <2>5. CASE n > 5
      <3>1. st = 6
        BY <2>5, <1>1
      <3> QED BY <3>1, <1>2, SMTT(30) DEF uart_data_unpack, Parser, TimerGoesOn
    <2> QED BY <2>1, <2>2, <2>3, <2>4, <2>5, <1>2
  <1> QED BY <1>5, <1>8

(* The last byte of a report.                                              *)
LEMMA ReportEnds ==
    ASSUME NEW r \in Seq(Octet), IsReport(r), NEW st, NEW timing,
           ParserOK(st, SubSeq(r, 1, Len(r) - 1), timing)
    PROVE  LET s == Parser(st, SubSeq(r, 1, Len(r) - 1), timing)
           IN  /\ uart_data_unpack(s, r[Len(r)]).buffer = <<>>
               /\ Intact(s, r[Len(r)]) /\ Answered(s.buffer)
  <1> DEFINE f == SubSeq(r, 1, Len(r) - 1)  data == r[Len(r)]
             s == Parser(st, f, timing)  t == uart_data_unpack(s, data)
  <1> SUFFICES t.buffer = <<>> /\ Intact(s, data) /\ Answered(s.buffer)
    OBVIOUS
  <1>1. Len(r) \in Nat /\ Len(r) >= 7 /\ Len(r) - 1 \in 0 .. Len(r) - 1
    BY DEF IsReport
  <1>2. st = 7
    BY <1>1, InReport
  <1>3. t.buffer = <<>>
    BY <1>2 DEF uart_data_unpack, Parser
  <1>4. Intact(s, data)
    <2>1. check_sum(f) = data
      BY DEF IsReport, Front, Last
    <2> QED BY <2>1, <1>2 DEF Intact, Parser
  <1>5. Answered(f)
    <2>1. f[1] = r[1] /\ f[3] = r[3] /\ f[4] = r[4]
      BY <1>1
    <2> QED BY <2>1 DEF IsReport, Answered
  <1> QED BY <1>3, <1>4, <1>5 DEF Parser

-----------------------------------------------------------------------------
(***************************************************************************)
(* The bytes. All that the MCU has sent since it was last silent is one    *)
(* sequence of reports, and what is on its way are slices of it, one       *)
(* behind the other: the frame in the parser, what is not read of the      *)
(* chunks that wait, and what the MCU has not yet sent.                    *)
(***************************************************************************)
Slice(S, a, b) == SubSeq(S, a + 1, b)

(* What a slice is.                                                        *)
LEMMA SliceIs ==
    ASSUME NEW S \in Seq(Octet), NEW a \in Nat, NEW b \in Nat, a <= b, b <= Len(S)
    PROVE  /\ Slice(S, a, b) \in Seq(Octet) /\ Len(Slice(S, a, b)) = b - a
           /\ \A i \in 1 .. b - a : Slice(S, a, b)[i] = S[a + i]
  BY DEF Slice

(* Two sequences of the same bytes are the same.                           *)
LEMMA SameSlice ==
    ASSUME NEW r, NEW s, r \in Seq(Octet), s \in Seq(Octet), Len(r) = Len(s),
           \A i \in 1 .. Len(r) : r[i] = s[i]
    PROVE  r = s
  OBVIOUS

(* A slice of a slice.                                                     *)
LEMMA SliceOfSlice ==
    ASSUME NEW S \in Seq(Octet), NEW a \in Nat, NEW b \in Nat, a <= b, b <= Len(S),
           NEW c \in Nat, NEW d \in Nat, c <= d, d <= b - a
    PROVE  Slice(Slice(S, a, b), c, d) = Slice(S, a + c, a + d)
  <1> DEFINE r == Slice(S, a, b)  s == Slice(r, c, d)  t == Slice(S, a + c, a + d)
  <1>1. r \in Seq(Octet) /\ Len(r) = b - a /\ \A i \in 1 .. b - a : r[i] = S[a + i]
    BY SliceIs
  <1> HIDE DEF r
  <1>2. s \in Seq(Octet) /\ Len(s) = d - c /\ \A i \in 1 .. d - c : s[i] = r[c + i]
    BY <1>1, SliceIs
  <1>3. /\ t \in Seq(Octet) /\ Len(t) = (a + d) - (a + c)
        /\ \A i \in 1 .. (a + d) - (a + c) : t[i] = S[(a + c) + i]
    <2>1. a + c \in Nat /\ a + d \in Nat /\ a + c <= a + d /\ a + d <= Len(S)
      OBVIOUS
    <2> QED BY <2>1, SliceIs
  <1> HIDE DEF s, t
  <1>4. (a + d) - (a + c) = d - c
    OBVIOUS
  <1>5. ASSUME NEW i \in 1 .. d - c PROVE s[i] = t[i]
    <2>1. c + i \in 1 .. b - a /\ a + (c + i) = (a + c) + i /\ i \in 1 .. (a + d) - (a + c)
      OBVIOUS
    <2>2. s[i] = r[c + i] /\ t[i] = S[(a + c) + i]
      BY <2>1, <1>2, <1>3
    <2>3. r[c + i] = S[a + (c + i)]
      BY <2>1, <1>1
    <2> QED BY <2>1, <2>2, <2>3
  <1>6. s = t
    BY <1>2, <1>3, <1>4, <1>5, SameSlice
  <1> QED BY <1>6 DEF s, t, r

(* The slices of two sequences, one behind the other.                      *)
LEMMA SlicesOfBoth ==
    ASSUME NEW S \in Seq(Octet), NEW B \in Seq(Octet)
    PROVE  /\ S \o B \in Seq(Octet) /\ Len(S \o B) = Len(S) + Len(B)
           /\ \A a, b \in Nat : a <= b /\ b <= Len(S) => Slice(S \o B, a, b) = Slice(S, a, b)
           /\ \A a, b \in Nat : a <= b /\ b <= Len(B) =>
                 Slice(S \o B, Len(S) + a, Len(S) + b) = Slice(B, a, b)
  <1> DEFINE T == S \o B  n == Len(S)
  <1>1. /\ T \in Seq(Octet) /\ Len(T) = n + Len(B) /\ n \in Nat /\ Len(B) \in Nat
        /\ \A i \in 1 .. n : T[i] = S[i]
        /\ \A i \in 1 .. Len(B) : T[n + i] = B[i]
    OBVIOUS
  <1> HIDE DEF T, n
  <1>2. ASSUME NEW a \in Nat, NEW b \in Nat, a <= b, b <= n PROVE Slice(T, a, b) = Slice(S, a, b)
    <2> DEFINE s == Slice(T, a, b)  t == Slice(S, a, b)
    <2>0. b <= Len(T)
      BY <1>1, <1>2
    <2>1. s \in Seq(Octet) /\ Len(s) = b - a /\ \A i \in 1 .. b - a : s[i] = T[a + i]
      BY <1>1, <1>2, <2>0, SliceIs
    <2>2. t \in Seq(Octet) /\ Len(t) = b - a /\ \A i \in 1 .. b - a : t[i] = S[a + i]
      BY <1>1, <1>2, SliceIs DEF n
    <2> HIDE DEF s, t
    <2>3. ASSUME NEW i \in 1 .. b - a PROVE s[i] = t[i]
      <3>1. a + i \in 1 .. n
        BY <1>1, <1>2
      <3> QED BY <3>1, <2>1, <2>2, <1>1
    <2>4. s = t
      BY <2>1, <2>2, <2>3, SameSlice
    <2> QED BY <2>4 DEF s, t
  <1>3. ASSUME NEW a \in Nat, NEW b \in Nat, a <= b, b <= Len(B)
        PROVE  Slice(T, n + a, n + b) = Slice(B, a, b)
    <2> DEFINE s == Slice(T, n + a, n + b)  t == Slice(B, a, b)
    <2>0. n + a \in Nat /\ n + b \in Nat /\ n + a <= n + b /\ n + b <= Len(T) /\ (n + b) - (n + a) = b - a
      BY <1>1, <1>3
    <2>1. s \in Seq(Octet) /\ Len(s) = b - a /\ \A i \in 1 .. b - a : s[i] = T[(n + a) + i]
      <3> DEFINE x == n + a  y == n + b
      <3>1. x \in Nat /\ y \in Nat /\ x <= y /\ y <= Len(T) /\ y - x = b - a
        BY <2>0
      <3> HIDE DEF x, y
      <3>2. /\ Slice(T, x, y) \in Seq(Octet) /\ Len(Slice(T, x, y)) = y - x
            /\ \A i \in 1 .. y - x : Slice(T, x, y)[i] = T[x + i]
        BY <1>1, <3>1, SliceIs
      <3> QED BY <3>1, <3>2 DEF x, y
    <2>2. t \in Seq(Octet) /\ Len(t) = b - a /\ \A i \in 1 .. b - a : t[i] = B[a + i]
      BY <1>1, <1>3, SliceIs
    <2> HIDE DEF s, t
    <2>3. ASSUME NEW i \in 1 .. b - a PROVE s[i] = t[i]
      <3>1. a + i \in 1 .. Len(B) /\ (n + a) + i = n + (a + i)
        BY <1>1, <1>3
      <3> QED BY <3>1, <2>1, <2>2, <1>1
    <2>4. s = t
      BY <2>1, <2>2, <2>3, SameSlice
    <2> QED BY <2>4 DEF s, t
  <1> QED BY <1>1, <1>2, <1>3 DEF T, n

-----------------------------------------------------------------------------
(* The chunks h + 1 to d, in the slots sl, and what is still to be sent:   *)
(* chunk k ends at o[k].                                                   *)
Sliced(S, o, h, d, sl, rest) ==
    /\ S \in Seq(Octet) /\ o \in [h .. d -> 0 .. Len(S)]
    /\ \A k \in h .. d - 1 : o[k] <= o[k + 1] /\ sl[k % num].bytes = Slice(S, o[k], o[k + 1])
    /\ rest = Slice(S, o[d], Len(S))

(* Of w reports a are answered and the parser has read to q.               *)
Framed(S, e, w, a, q, frame) ==
    /\ S \in Seq(Octet) /\ w \in Nat /\ e \in [0 .. w -> 0 .. Len(S)] /\ ReportsEnd(S, e, w)
    /\ a \in 0 .. w /\ q \in 0 .. Len(S)
    /\ e[a] <= q /\ (a < w => q < e[a + 1])
    /\ frame = Slice(S, e[a], q)

(* The MCU sends more when all it had to send was sent.                    *)
LEMMA SlicedSent ==
    ASSUME NEW S \in Seq(Octet), NEW o, NEW h \in Nat, NEW d \in Nat, h <= d, NEW sl,
           Sliced(S, o, h, d, sl, <<>>), NEW B \in Seq(Octet)
    PROVE  Sliced(S \o B, o, h, d, sl, B)
  <1> DEFINE T == S \o B
  <1>1. /\ o \in [h .. d -> 0 .. Len(S)] /\ Slice(S, o[d], Len(S)) = <<>>
        /\ \A k \in h .. d - 1 : o[k] <= o[k + 1] /\ sl[k % num].bytes = Slice(S, o[k], o[k + 1])
    BY DEF Sliced
  <1>2. /\ T \in Seq(Octet) /\ Len(T) = Len(S) + Len(B)
        /\ \A a, b \in Nat : a <= b /\ b <= Len(S) => Slice(T, a, b) = Slice(S, a, b)
        /\ \A a, b \in Nat : a <= b /\ b <= Len(B) => Slice(T, Len(S) + a, Len(S) + b) = Slice(B, a, b)
    BY SlicesOfBoth
  <1> HIDE DEF T
  <1>0. Len(S) \in Nat /\ Len(B) \in Nat
    OBVIOUS
  <1>3. ASSUME NEW k \in h .. d PROVE o[k] \in Nat /\ o[k] <= Len(S)
    BY <1>0, <1>1
  <1>4. o[d] = Len(S)
    <2>1. o[d] \in Nat /\ o[d] <= Len(S)
      BY <1>3
    <2>2. ASSUME NEW x \in Nat, x <= Len(S), Slice(S, x, Len(S)) = <<>> PROVE x = Len(S)
      <3>1. Len(Slice(S, x, Len(S))) = Len(S) - x
        BY <2>2 DEF Slice
      <3> QED BY <1>0, <2>2, <3>1
    <2> QED BY <1>1, <2>1, <2>2
  <1>5. o \in [h .. d -> 0 .. Len(T)]
    BY <1>0, <1>1, <1>2
  <1>6. ASSUME NEW k \in h .. d - 1
        PROVE  o[k] <= o[k + 1] /\ sl[k % num].bytes = Slice(T, o[k], o[k + 1])
    <2>1. k \in h .. d /\ k + 1 \in h .. d
      OBVIOUS
    <2>2. o[k] \in Nat /\ o[k + 1] \in Nat /\ o[k] <= o[k + 1] /\ o[k + 1] <= Len(S)
      BY <2>1, <1>1, <1>3
    <2> QED BY <2>2, <1>1, <1>2
  <1>7. B = Slice(T, o[d], Len(T))
    <2>1. Slice(T, Len(S) + 0, Len(S) + Len(B)) = Slice(B, 0, Len(B))
      BY <1>0, <1>2
    <2>2. Slice(B, 0, Len(B)) = B
      BY DEF Slice
    <2> QED BY <2>1, <2>2, <1>0, <1>2, <1>4
  <1>8. Sliced(T, o, h, d, sl, B)
    BY <1>2, <1>5, <1>6, <1>7 DEF Sliced
  <1> QED BY <1>8 DEF T

(* A chunk more in the slots.                                              *)
Filled(sl, sent, h, d, bytes) ==
    /\ \A c \in h .. d - 1 : sent[c % num].bytes = sl[c % num].bytes
    /\ sent[d % num].bytes = bytes

(* A chunk ends with the first k bytes of what is to be sent.              *)
LEMMA SlicedChunk ==
    ASSUME NEW S \in Seq(Octet), NEW o, NEW h \in Nat, NEW d \in Nat, h <= d,
           NEW sl, NEW sent, NEW rest \in Seq(Octet),
           Sliced(S, o, h, d, sl, rest), NEW k \in 1 .. Len(rest),
           Filled(sl, sent, h, d, Slice(rest, 0, k))
    PROVE  \E u : Sliced(S, u, h, d + 1, sent, Slice(rest, k, Len(rest))) /\ u[h] = o[h]
  <1>1. /\ o \in [h .. d -> 0 .. Len(S)] /\ rest = Slice(S, o[d], Len(S))
        /\ \A c \in h .. d - 1 : o[c] <= o[c + 1] /\ sl[c % num].bytes = Slice(S, o[c], o[c + 1])
    BY DEF Sliced
  <1>0. /\ \A c \in h .. d - 1 : sent[c % num].bytes = sl[c % num].bytes
        /\ sent[d % num].bytes = Slice(rest, 0, k)
    BY DEF Filled
  <1> DEFINE x == o[d]  u == [c \in h .. d + 1 |-> IF c = d + 1 THEN x + k ELSE o[c]]
  <1>2. x \in Nat /\ x <= Len(S)
    BY <1>1
  <1>3. Len(rest) = Len(S) - x
    BY <1>1, <1>2 DEF Slice
  <1>4. /\ x + k \in Nat /\ x <= x + k /\ x + k <= Len(S)
        /\ Slice(rest, 0, k) = Slice(S, x, x + k)
        /\ Slice(rest, k, Len(rest)) = Slice(S, x + k, Len(S))
    <2> HIDE DEF x
    <2>1. x + k \in Nat /\ x <= x + k /\ x + k <= Len(S) /\ k \in Nat /\ k <= Len(S) - x
      BY <1>2, <1>3
    <2>2. rest = Slice(S, x, Len(S))
      BY <1>1 DEF x
    <2> DEFINE y == Len(S)
    <2>y. y \in Nat /\ y <= Len(S) /\ x <= y
      BY <1>2
    <2> HIDE DEF y
    <2>6. ASSUME NEW a \in Nat, NEW b \in Nat, a <= b, b <= y - x
          PROVE  Slice(Slice(S, x, y), a, b) = Slice(S, x + a, x + b)
      BY <1>2, <2>y, <2>6, SliceOfSlice
    <2>7. y - x \in Nat /\ 0 <= k /\ k <= y - x
      BY <1>2, <2>1, <2>y DEF y
    <2>3. Slice(Slice(S, x, Len(S)), 0, k) = Slice(S, x + 0, x + k)
      BY <2>1, <2>6, <2>7 DEF y
    <2>4. Slice(Slice(S, x, Len(S)), k, Len(S) - x) = Slice(S, x + k, x + (Len(S) - x))
      BY <2>1, <2>6, <2>7 DEF y
    <2>5. x + 0 = x /\ x + (Len(S) - x) = Len(S)
      BY <1>2
    <2> QED BY <1>3, <2>1, <2>2, <2>3, <2>4, <2>5
  <1>5. u \in [h .. d + 1 -> 0 .. Len(S)]
    <2> HIDE DEF x
    <2> QED BY <1>1, <1>4
  <1>6. /\ u[d + 1] = x + k /\ u[h] = o[h] /\ u[d] = x
        /\ \A c \in h .. d : u[c] = o[c]
    <2>1. d + 1 \in h .. d + 1 /\ h # d + 1 /\ d # d + 1 /\ h \in h .. d + 1 /\ d \in h .. d + 1
      OBVIOUS
    <2>2. ASSUME NEW c \in h .. d PROVE c # d + 1 /\ c \in h .. d + 1
      OBVIOUS
    <2> QED BY <2>1, <2>2
  <1> HIDE DEF u, x
  <1>7. ASSUME NEW c \in h .. (d + 1) - 1
        PROVE  u[c] <= u[c + 1] /\ sent[c % num].bytes = Slice(S, u[c], u[c + 1])
    <2>1. CASE c = d
      BY <2>1, <1>0, <1>4, <1>6
    <2>2. CASE c # d
      <3>1. c \in h .. d - 1 /\ c \in h .. d /\ c + 1 \in h .. d
        BY <2>2
      <3> QED BY <3>1, <1>0, <1>1, <1>6
    <2> QED BY <2>1, <2>2
  <1>8. Sliced(S, u, h, d + 1, sent, Slice(rest, k, Len(rest)))
    BY <1>4, <1>5, <1>6, <1>7 DEF Sliced
  <1> QED BY <1>6, <1>8

(* The main loop is done with a chunk.                                     *)
LEMMA SlicedPop ==
    ASSUME NEW S \in Seq(Octet), NEW o, NEW h \in Nat, NEW d \in Nat, h < d, NEW sl, NEW rest,
           Sliced(S, o, h, d, sl, rest)
    PROVE  /\ Sliced(S, [c \in h + 1 .. d |-> o[c]], h + 1, d, sl, rest)
           /\ o[h] \in Nat /\ o[h + 1] \in Nat /\ Len(sl[h % num].bytes) = o[h + 1] - o[h]
  <1>1. /\ o \in [h .. d -> 0 .. Len(S)] /\ rest = Slice(S, o[d], Len(S))
        /\ \A c \in h .. d - 1 : o[c] <= o[c + 1] /\ sl[c % num].bytes = Slice(S, o[c], o[c + 1])
    BY DEF Sliced
  <1> DEFINE u == [c \in h + 1 .. d |-> o[c]]
  <1>2. u \in [h + 1 .. d -> 0 .. Len(S)]
    BY <1>1
  <1>3. \A c \in h + 1 .. d : u[c] = o[c]
    OBVIOUS
  <1> HIDE DEF u
  <1>4. ASSUME NEW c \in h + 1 .. d - 1
        PROVE  u[c] <= u[c + 1] /\ sl[c % num].bytes = Slice(S, u[c], u[c + 1])
    <2>1. c \in h .. d - 1 /\ c \in h + 1 .. d /\ c + 1 \in h + 1 .. d
      OBVIOUS
    <2> QED BY <2>1, <1>1, <1>3
  <1>5. d \in h + 1 .. d
    OBVIOUS
  <1>6. Sliced(S, u, h + 1, d, sl, rest)
    BY <1>1, <1>2, <1>3, <1>4, <1>5 DEF Sliced
  <1>7. o[h] \in Nat /\ o[h + 1] \in Nat /\ o[h + 1] <= Len(S) /\ o[h] <= o[h + 1]
        /\ sl[h % num].bytes = Slice(S, o[h], o[h + 1])
    <2>1. h \in h .. d - 1 /\ h \in h .. d /\ h + 1 \in h .. d
      OBVIOUS
    <2> QED BY <2>1, <1>1
  <1>8. \A a, b \in Nat : a <= b /\ b <= Len(S) => Len(Slice(S, a, b)) = b - a
    BY DEF Slice
  <1> QED BY <1>6, <1>7, <1>8 DEF u

(* The main loop reads a byte of the chunk it took.                        *)
LEMMA SlicedByte ==
    ASSUME NEW S \in Seq(Octet), NEW o, NEW h \in Nat, NEW d \in Nat, h < d, NEW sl, NEW rest,
           Sliced(S, o, h, d, sl, rest), NEW i \in Nat, i < Len(sl[h % num].bytes)
    PROVE  /\ o[h] + i \in Nat /\ o[h] + i < Len(S)
           /\ sl[h % num].bytes[i + 1] = S[(o[h] + i) + 1]
  <1> DEFINE a == o[h]  b == o[h + 1]
  <1>1. a \in Nat /\ b \in Nat /\ a <= b /\ b <= Len(S) /\ sl[h % num].bytes = Slice(S, a, b)
    <2>1. h \in h .. d - 1 /\ h \in h .. d /\ h + 1 \in h .. d
      OBVIOUS
    <2> QED BY <2>1 DEF Sliced
  <1> HIDE DEF a, b
  <1>2. Len(Slice(S, a, b)) = b - a /\ \A j \in 1 .. b - a : Slice(S, a, b)[j] = S[a + j]
    BY <1>1, SliceIs
  <1>3. i + 1 \in 1 .. b - a /\ a + (i + 1) = (a + i) + 1
    BY <1>1, <1>2
  <1>4. a + i \in Nat /\ a + i < Len(S) /\ sl[h % num].bytes[i + 1] = S[(a + i) + 1]
    BY <1>1, <1>2, <1>3
  <1> QED BY <1>4 DEF a

(* More reports behind those there are.                                    *)
LEMMA FramedSent ==
    ASSUME NEW S \in Seq(Octet), NEW e, NEW w, NEW a, NEW q, NEW frame, Framed(S, e, w, a, q, frame),
           NEW B \in Seq(Octet), NEW n \in Nat \ {0}, IsReports(B, n)
    PROVE  \E v : Framed(S \o B, v, w + n, a, q, frame)
  <1>1. PICK f \in [0 .. n -> 0 .. Len(B)] : ReportsEnd(B, f, n)
    BY DEF IsReports
  <1> DEFINE T == S \o B  m == Len(S)
             v == [i \in 0 .. w + n |-> IF i <= w THEN e[i] ELSE m + f[i - w]]
  <1>0. T \in Seq(Octet) /\ Len(T) = m + Len(B) /\ m \in Nat /\ Len(B) \in Nat
    <2>1. S \in Seq(Octet)
      BY DEF Framed
    <2> QED BY <2>1, SlicesOfBoth
  <1>2. /\ \A x, y \in Nat : x <= y /\ y <= m => Slice(T, x, y) = Slice(S, x, y)
        /\ \A x, y \in Nat : x <= y /\ y <= Len(B) => Slice(T, m + x, m + y) = Slice(B, x, y)
    BY SlicesOfBoth
  <1>3. /\ w \in Nat /\ e \in [0 .. w -> 0 .. m] /\ a \in 0 .. w /\ q \in 0 .. m
        /\ e[0] = 0 /\ e[w] = m /\ e[a] <= q /\ (a < w => q < e[a + 1])
        /\ frame = Slice(S, e[a], q)
    BY DEF Framed, ReportsEnd
  <1>4. /\ \A i, j \in 0 .. w : i < j => e[i] < e[j]
        /\ \A i \in 1 .. w : IsReport(Slice(S, e[i - 1], e[i]))
    BY DEF Framed, ReportsEnd, Slice
  <1>5. /\ f[0] = 0 /\ f[n] = Len(B)
        /\ \A i, j \in 0 .. n : i < j => f[i] < f[j]
        /\ \A i \in 1 .. n : IsReport(Slice(B, f[i - 1], f[i]))
    BY <1>1 DEF ReportsEnd, Slice
  <1>6. /\ \A i \in 0 .. w : e[i] \in Nat /\ e[i] <= m
        /\ \A i \in 0 .. n : f[i] \in Nat /\ f[i] <= Len(B)
    BY <1>0, <1>1, <1>3
  <1>7. /\ \A i \in 0 .. w : v[i] = e[i]
        /\ \A i \in 0 .. n : v[w + i] = m + f[i]
    <2>1. ASSUME NEW i \in 0 .. w PROVE v[i] = e[i]
      BY <1>3
    <2>2. ASSUME NEW i \in 0 .. n PROVE v[w + i] = m + f[i]
      <3>1. w + i \in 0 .. w + n /\ (w + i) - w = i /\ (w + i <= w => i = 0)
        BY <1>3
      <3>2. v[w + i] = IF w + i <= w THEN e[w + i] ELSE m + f[i]
        BY <3>1
      <3>3. CASE i = 0
        <4>1. v[w + i] = e[w]
          BY <3>1, <3>2, <3>3, <1>3
        <4> QED BY <4>1, <3>3, <1>0, <1>3, <1>5
      <3>4. CASE i # 0
        BY <3>1, <3>2, <3>4
      <3> QED BY <3>3, <3>4
    <2> QED BY <2>1, <2>2
  <1>8. \A i \in 0 .. w + n : i \in 0 .. w \/ (\E j \in 1 .. n : i = w + j)
    <2> SUFFICES ASSUME NEW i \in 0 .. w + n, ~(i \in 0 .. w) PROVE \E j \in 1 .. n : i = w + j
      OBVIOUS
    <2>1. i - w \in 1 .. n /\ i = w + (i - w)
      BY <1>3
    <2> QED BY <2>1
  <1>9. v \in [0 .. w + n -> 0 .. Len(T)]
    <2>1. ASSUME NEW i \in 0 .. w + n PROVE v[i] \in 0 .. Len(T)
      <3> HIDE DEF v, T, m
      <3>1. CASE i \in 0 .. w
        <4>1. v[i] = e[i] /\ e[i] \in Nat /\ e[i] <= m
          BY <3>1, <1>6, <1>7
        <4> QED BY <4>1, <1>0
      <3>2. CASE \E j \in 1 .. n : i = w + j
        <4>1. PICK j \in 1 .. n : i = w + j
          BY <3>2
        <4>2. j \in 0 .. n
          OBVIOUS
        <4> QED BY <4>1, <4>2, <1>0, <1>6, <1>7
      <3> QED BY <3>1, <3>2, <1>8
    <2>2. v = [i \in 0 .. w + n |-> v[i]]
      OBVIOUS
    <2> HIDE DEF v, T
    <2> QED BY <2>1, <2>2
  <1> HIDE DEF v, T, m
  <1>10. v[0] = 0 /\ v[w + n] = Len(T)
    <2>1. 0 \in 0 .. w /\ n \in 0 .. n
      BY <1>3
    <2> QED BY <2>1, <1>0, <1>3, <1>5, <1>7
  <1>11. ASSUME NEW i \in 0 .. w + n, NEW j \in 0 .. w + n, i < j PROVE v[i] < v[j]
    <2>1. CASE j \in 0 .. w
      <3>1. i \in 0 .. w
        BY <2>1, <1>3, <1>11
      <3> QED BY <2>1, <3>1, <1>4, <1>7, <1>11
    <2>2. CASE \E y \in 1 .. n : j = w + y
      <3>1. PICK y \in 1 .. n : j = w + y
        BY <2>2
      <3>2. 0 \in 0 .. n /\ y \in 0 .. n /\ 0 < y
        OBVIOUS
      <3>3. v[j] = m + f[y] /\ f[0] < f[y] /\ f[y] \in Nat
        BY <3>1, <3>2, <1>5, <1>6, <1>7
      <3>4. CASE i \in 0 .. w
        <4>1. v[i] \in Nat /\ v[i] <= m
          BY <3>4, <1>6, <1>7
        <4>2. f[0] = 0
          BY <1>5
        <4>3. 0 < f[y]
          BY <3>3, <4>2
        <4>4. v[j] = m + f[y] /\ f[y] \in Nat
          BY <3>3
        <4>5. m \in Nat
          BY <1>0
        <4> QED BY <4>1, <4>3, <4>4, <4>5
      <3>5. CASE \E x \in 1 .. n : i = w + x
        <4>1. PICK x \in 1 .. n : i = w + x
          BY <3>5
        <4>2. x \in 0 .. n /\ x < y
          BY <4>1, <3>1, <1>3, <1>11
        <4>3. v[i] = m + f[x] /\ f[x] < f[y] /\ f[x] \in Nat
          BY <4>1, <4>2, <3>2, <1>5, <1>6, <1>7
        <4> QED BY <4>3, <3>3, <1>0
      <3> QED BY <3>4, <3>5, <1>8
    <2> QED BY <2>1, <2>2, <1>8
  <1>12. ASSUME NEW i \in 1 .. w + n PROVE IsReport(SubSeq(T, v[i - 1] + 1, v[i]))
    <2>0. i \in 0 .. w + n
      OBVIOUS
    <2>1. CASE i \in 0 .. w
      <3>1. i \in 1 .. w /\ i - 1 \in 0 .. w /\ i - 1 < i
        BY <2>1, <1>3
      <3>2. /\ v[i] = e[i] /\ v[i - 1] = e[i - 1] /\ e[i - 1] < e[i] /\ e[i] <= m
            /\ e[i - 1] \in Nat /\ e[i] \in Nat
        BY <2>1, <3>1, <1>4, <1>6, <1>7
      <3>3. Slice(T, e[i - 1], e[i]) = Slice(S, e[i - 1], e[i])
        BY <3>2, <1>2
      <3>4. IsReport(Slice(T, e[i - 1], e[i]))
        BY <3>1, <3>3, <1>4
      <3> QED BY <3>2, <3>4 DEF Slice
    <2>2. CASE \E y \in 1 .. n : i = w + y
      <3>1. PICK y \in 1 .. n : i = w + y
        BY <2>2
      <3>2. y \in 0 .. n /\ y - 1 \in 0 .. n /\ y - 1 < y /\ i - 1 = w + (y - 1)
        BY <3>1, <1>3
      <3>3. /\ v[i] = m + f[y] /\ v[i - 1] = m + f[y - 1] /\ f[y - 1] < f[y] /\ f[y] <= Len(B)
            /\ f[y - 1] \in Nat /\ f[y] \in Nat
        BY <3>1, <3>2, <1>5, <1>6, <1>7
      <3>4. Slice(T, m + f[y - 1], m + f[y]) = Slice(B, f[y - 1], f[y])
        BY <3>3, <1>2
      <3>5. IsReport(Slice(T, m + f[y - 1], m + f[y]))
        BY <3>4, <1>5
      <3> QED BY <3>3, <3>5 DEF Slice
    <2> QED BY <2>0, <2>1, <2>2, <1>8
  <1>13. ReportsEnd(T, v, w + n)
    BY <1>10, <1>11, <1>12 DEF ReportsEnd
  <1>14. a < w + n => q < v[a + 1]
    <2>1. CASE a < w
      <3>1. a + 1 \in 0 .. w
        BY <2>1, <1>3
      <3> QED BY <2>1, <3>1, <1>3, <1>7
    <2>2. CASE a = w
      <3>1. 1 \in 0 .. n /\ 0 \in 0 .. n /\ 0 < 1
        OBVIOUS
      <3>2. f[1] \in Nat /\ f[1] > 0 /\ v[w + 1] = m + f[1]
        BY <3>1, <1>5, <1>6, <1>7
      <3> QED BY <2>2, <3>2, <1>0, <1>3
    <2> QED BY <2>1, <2>2, <1>3
  <1>15. v[a] = e[a] /\ e[a] \in Nat /\ Slice(T, e[a], q) = Slice(S, e[a], q)
    <2>1. v[a] = e[a] /\ e[a] \in Nat /\ q \in Nat /\ q <= m
      BY <1>0, <1>3, <1>6, <1>7
    <2> QED BY <2>1, <1>2, <1>3
  <1>16. w + n \in Nat /\ a \in 0 .. w + n /\ q \in 0 .. Len(T)
    BY <1>0, <1>3
  <1>17. Framed(T, v, w + n, a, q, frame)
    BY <1>0, <1>3, <1>9, <1>13, <1>14, <1>15, <1>16 DEF Framed
  <1> QED BY <1>17 DEF T

(* The parser takes the next byte of the reports.                          *)
LEMMA FramedByte ==
    ASSUME NEW S, NEW e, NEW w, NEW a, NEW q, NEW frame, Framed(S, e, w, a, q, frame), q < Len(S),
           NEW st, NEW timing, ParserOK(st, frame, timing)
    PROVE  LET s == Parser(st, frame, timing)
               b == IF Intact(s, S[q + 1]) /\ Answered(frame) THEN a + 1 ELSE a
           IN  Framed(S, e, w, b, q + 1, uart_data_unpack(s, S[q + 1]).buffer)
  <1> DEFINE s == Parser(st, frame, timing)  data == S[q + 1]  next == uart_data_unpack(s, data).buffer
             b == IF Intact(s, data) /\ Answered(frame) THEN a + 1 ELSE a
  <1> SUFFICES Framed(S, e, w, b, q + 1, next)
    OBVIOUS
  <1>1. /\ S \in Seq(Octet) /\ Len(S) \in Nat /\ w \in Nat /\ e \in [0 .. w -> 0 .. Len(S)]
        /\ a \in 0 .. w /\ q \in 0 .. Len(S) /\ e[a] <= q /\ (a < w => q < e[a + 1])
        /\ frame = Slice(S, e[a], q)
    BY DEF Framed
  <1>2. /\ ReportsEnd(S, e, w) /\ e[w] = Len(S)
        /\ \A i, j \in 0 .. w : i < j => e[i] < e[j]
        /\ \A i \in 1 .. w : IsReport(Slice(S, e[i - 1], e[i]))
    BY DEF Framed, ReportsEnd, Slice
  <1>3. a < w
    BY <1>1, <1>2
  <1> DEFINE x == e[a]  y == e[a + 1]  r == Slice(S, x, y)
  <1>4. /\ a \in Nat /\ a + 1 \in 0 .. w /\ a + 1 \in 1 .. w /\ (a + 1) - 1 = a /\ q \in Nat
        /\ q + 1 \in 0 .. Len(S)
    BY <1>1, <1>3
  <1>5. x \in Nat /\ y \in Nat /\ y <= Len(S) /\ x <= q /\ q < y
    BY <1>1, <1>3, <1>4
  <1>6. IsReport(r)
    BY <1>2, <1>4
  <1> HIDE DEF x, y
  <1>7. r \in Seq(Octet) /\ Len(r) = y - x /\ \A i \in 1 .. y - x : r[i] = S[x + i]
    <2>1. x <= y
      BY <1>4, <1>5
    <2> QED BY <2>1, <1>1, <1>5, SliceIs
  <1>8. \A n \in Nat : n <= y - x => SubSeq(r, 1, n) = Slice(S, x, x + n)
    <2> SUFFICES ASSUME NEW n \in Nat, n <= y - x PROVE SubSeq(r, 1, n) = Slice(S, x, x + n)
      OBVIOUS
    <2>1. 0 \in Nat /\ 0 <= n /\ x <= y /\ x + 0 = x
      BY <1>5
    <2>2. Slice(Slice(S, x, y), 0, n) = Slice(S, x + 0, x + n)
      BY <1>1, <1>5, <2>1, SliceOfSlice
    <2>3. Slice(r, 0, n) = SubSeq(r, 1, n)
      BY DEF Slice
    <2> QED BY <2>1, <2>2, <2>3
  <1>9. frame = SubSeq(r, 1, q - x) /\ q - x \in 0 .. Len(r) - 1 /\ r[(q - x) + 1] = data
    <2>1. q - x \in Nat /\ q - x <= y - x /\ x + (q - x) = q /\ (q - x) + 1 \in 1 .. y - x
          /\ x + ((q - x) + 1) = q + 1
      BY <1>4, <1>5
    <2>2. SubSeq(r, 1, q - x) = Slice(S, x, q)
      BY <2>1, <1>8
    <2>3. frame = Slice(S, x, q)
      BY <1>1 DEF x
    <2> HIDE DEF r, data
    <2>4. frame = SubSeq(r, 1, q - x)
      BY <2>2, <2>3
    <2>5. q - x \in 0 .. Len(r) - 1
      BY <1>4, <1>5, <1>7
    <2>6. r[(q - x) + 1] = S[q + 1]
      BY <2>1, <1>7
    <2> QED BY <2>4, <2>5, <2>6 DEF data
  <1> HIDE DEF r, data
  <1>10. ParserOK(st, SubSeq(r, 1, q - x), timing)
    BY <1>9
  <1>11. CASE q + 1 < y
    <2>1. q - x \in 0 .. Len(r) - 2
      BY <1>4, <1>5, <1>7, <1>11
    <2>2. next = SubSeq(r, 1, (q - x) + 1) /\ ~Intact(s, data)
      BY <2>1, <1>6, <1>7, <1>9, <1>10, ReportGoesOn
    <2>3. (q - x) + 1 \in Nat /\ (q - x) + 1 <= y - x /\ x + ((q - x) + 1) = q + 1
      BY <1>4, <1>5
    <2>4. next = Slice(S, x, q + 1)
      BY <2>2, <2>3, <1>8
    <2>5. b = a
      BY <2>2
    <2> HIDE DEF next, b, s
    <2>6. e[a] <= q + 1 /\ (a < w => q + 1 < e[a + 1]) /\ next = Slice(S, e[a], q + 1)
      BY <2>4, <1>4, <1>5, <1>11 DEF x, y
    <2> QED BY <2>5, <2>6, <1>1, <1>2, <1>4 DEF Framed
  <1>12. CASE ~(q + 1 < y)
    <2>1. q + 1 = y /\ q - x = Len(r) - 1 /\ (q - x) + 1 = Len(r)
      BY <1>4, <1>5, <1>7, <1>12
    <2>2. next = <<>> /\ Intact(s, data) /\ Answered(s.buffer)
      <3>1. ParserOK(st, SubSeq(r, 1, Len(r) - 1), timing) /\ s = Parser(st, SubSeq(r, 1, Len(r) - 1), timing)
        BY <1>9, <1>10, <2>1
      <3>2. data = r[Len(r)]
        BY <1>9, <2>1
      <3> QED BY <3>1, <3>2, <1>6, <1>7, ReportEnds
    <2>3. b = a + 1
      BY <2>2 DEF Parser
    <2> HIDE DEF next, b, s
    <2>4. e[a + 1] = q + 1
      BY <2>1 DEF y
    <2>5. a + 1 < w => q + 1 < e[(a + 1) + 1]
      <3> SUFFICES ASSUME a + 1 < w PROVE q + 1 < e[(a + 1) + 1]
        OBVIOUS
      <3>1. (a + 1) + 1 \in 0 .. w /\ a + 1 < (a + 1) + 1
        BY <1>1, <1>4
      <3> QED BY <3>1, <2>4, <1>2, <1>4
    <2>6. Slice(S, e[a + 1], q + 1) = <<>>
      BY <2>4, <1>1, <1>4 DEF Slice
    <2>7. e[a + 1] <= q + 1
      BY <2>4, <1>4
    <2> QED BY <2>2, <2>3, <2>5, <2>6, <2>7, <1>1, <1>2, <1>4 DEF Framed
  <1> QED BY <1>11, <1>12

(* The parser and what it still gets are the reports that are owed.        *)
Follows(S, e, o) ==
    /\ Sliced(S, o, handed, ended, slot, mcu)
    /\ Framed(S, e, owed, answered, o[handed] + index, uart_rx_buffer)

CleanInv ==
    /\ UartInv
    /\ settled => ~updating /\ \E S, e, o : Follows(S, e, o)
    /\ IF p = NONE THEN index = 0 ELSE index <= Len(slot[p].bytes)

(* At the start the MCU was not yet silent.                                *)
LEMMA CleanInitInv == ASSUME Init PROVE CleanInv
  <1>1. settled = FALSE /\ p = NONE /\ index = 0
    BY DEF Init, RxInit
  <1> QED BY <1>1, UartInitInv DEF CleanInv

(* A chunk that waits stands in the slot of its number.                    *)
LEMMA NotInFlight ==
    ASSUME CleanInv, ~InFlight
    PROVE  mcu = <<>> /\ handed = ended /\ p = NONE /\ index = 0 /\ handed \in Nat
  <1>1. mcu = <<>> /\ Behind = 0
    BY DEF InFlight
  <1>2. RxInv /\ handed \in Nat /\ ended \in Nat
    BY DEF CleanInv, UartInv, RxInv, RxType
  <1>3. handed = ended
    BY <1>1, <1>2, BehindIs
  <1>4. p = NONE
    BY <1>2, <1>3 DEF RxInv, Read
  <1> QED BY <1>1, <1>2, <1>3, <1>4 DEF CleanInv

(* All reports have come and each of them is answered.                     *)
LEMMA AllAnswered ==
    ASSUME CleanInv, settled, ~InFlight
    PROVE  answered = owed /\ uart_rx_buffer = <<>>
  <1>1. PICK S, e, o : Follows(S, e, o)
    BY DEF CleanInv
  <1>2. mcu = <<>> /\ handed = ended /\ index = 0 /\ handed \in Nat
    BY NotInFlight
  <1> DEFINE x == o[handed]
  <1>3. S \in Seq(Octet) /\ x \in Nat /\ x <= Len(S) /\ <<>> = Slice(S, x, Len(S))
    <2>1. /\ S \in Seq(Octet) /\ o \in [handed .. handed -> 0 .. Len(S)]
          /\ <<>> = Slice(S, o[handed], Len(S))
      BY <1>1, <1>2 DEF Follows, Sliced
    <2>2. handed \in handed .. handed
      BY <1>2
    <2>3. o[handed] \in 0 .. Len(S)
      BY <2>1, <2>2
    <2> QED BY <2>1, <2>3
  <1>4. Framed(S, e, owed, answered, x, uart_rx_buffer)
    <2>1. x + index = x
      BY <1>2, <1>3
    <2> QED BY <2>1, <1>1 DEF Follows
  <1> HIDE DEF x
  <1>5. x = Len(S)
    <2>1. Len(Slice(S, x, Len(S))) = Len(S) - x
      BY <1>3 DEF Slice
    <2> QED BY <2>1, <1>3
  <1>6. /\ owed \in Nat /\ answered \in 0 .. owed /\ e \in [0 .. owed -> 0 .. Len(S)]
        /\ e[owed] = Len(S) /\ e[answered] <= x /\ (answered < owed => x < e[answered + 1])
        /\ uart_rx_buffer = Slice(S, e[answered], x)
    BY <1>4 DEF Framed, ReportsEnd
  <1>7. answered = owed
    <2> SUFFICES ASSUME answered < owed PROVE FALSE
      BY <1>6
    <2>1. answered + 1 \in 0 .. owed
      BY <1>6
    <2>2. e[answered + 1] <= Len(S)
      BY <2>1, <1>3, <1>6
    <2>3. e[answered + 1] \in Nat
      BY <2>1, <1>3, <1>6
    <2> QED BY <2>2, <2>3, <1>3, <1>5, <1>6
  <1>8. uart_rx_buffer = <<>>
    BY <1>3, <1>5, <1>6, <1>7 DEF Slice
  <1> QED BY <1>7, <1>8

(* At first nothing is owed.                                               *)
LEMMA NothingOwed ==
    ASSUME NEW h \in Nat, NEW sl
    PROVE  \E S, e, o : /\ Sliced(S, o, h, h, sl, <<>>) /\ Framed(S, e, 0, 0, o[h] + 0, <<>>)
  <1> DEFINE S == <<>>  e == [i \in 0 .. 0 |-> 0]  o == [i \in h .. h |-> 0]
  <1>1. S \in Seq(Octet) /\ Len(S) = 0 /\ Slice(S, 0, 0) = <<>>
    BY DEF Slice
  <1>2. o \in [h .. h -> 0 .. Len(S)] /\ o[h] = 0
    OBVIOUS
  <1>3. e \in [0 .. 0 -> 0 .. Len(S)] /\ e[0] = 0
    OBVIOUS
  <1> HIDE DEF S, e, o
  <1>4. Sliced(S, o, h, h, sl, <<>>)
    BY <1>1, <1>2 DEF Sliced
  <1>5. ReportsEnd(S, e, 0)
    <2>1. \A i, j \in 0 .. 0 : ~(i < j)
      OBVIOUS
    <2>2. 1 .. 0 = {}
      OBVIOUS
    <2> QED BY <2>1, <2>2, <1>1, <1>3 DEF ReportsEnd
  <1>6. Framed(S, e, 0, 0, o[h] + 0, <<>>)
    <2>1. o[h] + 0 = 0 /\ 0 \in 0 .. 0 /\ 0 \in Nat
      BY <1>2
    <2> QED BY <2>1, <1>1, <1>3, <1>5 DEF Framed
  <1> QED BY <1>4, <1>6

(* Slots that hold the same chunks.                                        *)
LEMMA SlicedSame ==
    ASSUME NEW S, NEW o, NEW h, NEW d, NEW sl, NEW sent, NEW rest, Sliced(S, o, h, d, sl, rest),
           \A c \in h .. d - 1 : sent[c % num].bytes = sl[c % num].bytes
    PROVE  Sliced(S, o, h, d, sent, rest)
  BY DEF Sliced

(* What happens to the slot of the write pointer leaves those alone that   *)
(* are not read.                                                           *)
LEMMA OthersStay ==
    ASSUME RxInv, ended - handed < num,
           \A s \in Slots : s # SlotOf(wptr) => slot'[s] = slot[s]
    PROVE  \A c \in handed .. ended - 1 : slot'[c % num] = slot[c % num]
  <1>1. /\ ended \in Nat /\ handed \in Nat /\ wptr = ended % Pointers
    BY DEF RxInv, RxType, Pending
  <1>2. SlotOf(wptr) = ended % num
    BY <1>1, PlaceOf
  <1>3. ASSUME NEW c \in handed .. ended - 1 PROVE slot'[c % num] = slot[c % num]
    <2>1. c \in Nat /\ c < ended /\ ended - c < num
      BY <1>1, Sizes
    <2>2. c % num # ended % num
      BY <2>1, <1>1, Sizes, Apart
    <2>3. c % num \in Slots
      BY <2>1, PlaceOf
    <2> QED BY <2>2, <2>3, <1>2
  <1> QED BY <1>3

Reading == IF p = NONE THEN index = 0 ELSE index <= Len(slot[p].bytes)

(* The invariant, with how far the slot is read by name.                   *)
LEMMA ReadingIs == CleanInv <=> /\ UartInv /\ Reading
                                /\ settled => ~updating /\ \E S, e, o : Follows(S, e, o)
  BY DEF CleanInv, Reading

(* As long as what is being read stays.                                    *)
LEMMA ReadingStays ==
    ASSUME RxInv, Reading, p' = p, index' = index,
           \A c \in handed .. ended - 1 : slot'[c % num] = slot[c % num]
    PROVE  Reading'
  <1>1. CASE p = NONE
    BY <1>1 DEF Reading
  <1>2. CASE p # NONE
    <2>1. p = handed % num /\ handed \in handed .. ended - 1
      BY <1>2 DEF RxInv, RxType, Read
    <2> QED BY <2>1, <1>2 DEF Reading
  <1> QED BY <1>1, <1>2

(* What changes neither what is sent, nor what was read, nor what is owed. *)
LEMMA FollowsStays ==
    ASSUME NEW S, NEW e, NEW o, Follows(S, e, o),
           UNCHANGED <<handed, ended, mcu, owed, answered, index, uart_rx_buffer>>,
           \A c \in handed .. ended - 1 : slot'[c % num] = slot[c % num]
    PROVE  Follows(S, e, o)'
  <1>1. Sliced(S, o, handed, ended, slot', mcu)
    BY SlicedSame DEF Follows
  <1>2. Framed(S, e, owed, answered, o[handed] + index, uart_rx_buffer)
    BY DEF Follows
  <1> QED BY <1>1, <1>2 DEF Follows

(* Of a silent MCU only reports keep the promise, and more are owed.       *)
LEMMA SentClean == ASSUME CleanInv, McuSends, UartInv' PROVE CleanInv'
  <1>1. PICK m \in Sent :
           /\ mcu = <<>> /\ mcu' = m.bytes
           /\ settled' = (settled /\ m.frames > 0)
           /\ owed' = IF settled' THEN owed + m.frames ELSE 0
           /\ answered' = IF settled' THEN answered ELSE 0
           /\ UNCHANGED <<rxVars, status, uart_rx_buffer, rx_timer, updating>>
    BY DEF McuSends
  <1>2. UNCHANGED <<slot, wptr, rptr, storing, p, index, arrived, handed>>
    BY <1>1 DEF rxVars
  <1>3. ended' = ended
    BY <1>2 DEF ended
  <1>4. Reading'
    BY <1>2, ReadingIs DEF Reading
  <1>5. ASSUME settled' PROVE ~updating' /\ \E S, e, o : Follows(S, e, o)'
    <2>1. settled /\ m.frames > 0 /\ owed' = owed + m.frames /\ answered' = answered /\ ~updating'
      BY <1>1, <1>5 DEF CleanInv
    <2>2. PICK S, e, o : Follows(S, e, o)
      BY <2>1 DEF CleanInv
    <2>3. m.bytes \in Seq(Octet) /\ m.frames \in Nat \ {0} /\ IsReports(m.bytes, m.frames)
      BY <2>1, UartAssumption DEF Octet
    <2>4. handed \in Nat /\ ended \in Nat /\ handed <= ended
      BY DEF CleanInv, UartInv, RxInv, RxType, Pending
    <2>5. S \in Seq(Octet) /\ Sliced(S, o, handed, ended, slot, <<>>)
      BY <2>2, <1>1 DEF Follows, Sliced
    <2>6. Framed(S, e, owed, answered, o[handed] + index, uart_rx_buffer)
      BY <2>2 DEF Follows
    <2>7. Sliced(S \o m.bytes, o, handed, ended, slot, m.bytes)
      BY <2>3, <2>4, <2>5, SlicedSent
    <2>8. PICK v : Framed(S \o m.bytes, v, owed + m.frames, answered, o[handed] + index, uart_rx_buffer)
      BY <2>3, <2>5, <2>6, FramedSent
    <2>9. Follows(S \o m.bytes, v, o)'
      BY <2>1, <2>7, <2>8, <1>1, <1>2, <1>3 DEF Follows
    <2> QED BY <2>1, <2>9
  <1> QED BY <1>4, <1>5 DEF CleanInv, Reading

(* A chunk begins in a slot that nothing waits in.                         *)
LEMMA BeginClean == ASSUME CleanInv, ChunkBegins, UartInv' PROVE CleanInv'
  <1>1. /\ DmaStores
        /\ UNCHANGED <<mcu, status, uart_rx_buffer, rx_timer, updating, settled, owed, answered>>
    BY DEF ChunkBegins
  <1>2. /\ ~storing /\ storing' = TRUE /\ arrived' = arrived + 1 /\ Behind < num
        /\ UNCHANGED <<wptr, rptr, p, index, handed>>
        /\ slot' = [slot EXCEPT ![SlotOf(wptr)] =
                       [chunk |-> arrived + 1, bytes |-> <<>>, whole |-> FALSE]]
    BY <1>1 DEF DmaStores
  <1>3. RxInv /\ Reading
    BY ReadingIs DEF UartInv
  <1>4. ended' = ended
    BY <1>2, <1>3 DEF ended, RxInv, RxType
  <1>5. ended - handed < num
    BY <1>2, <1>3, BehindIs
  <1>6. \A s \in Slots : s # SlotOf(wptr) => slot'[s] = slot[s]
    BY <1>2, <1>3 DEF RxInv, RxType
  <1>7. \A c \in handed .. ended - 1 : slot'[c % num] = slot[c % num]
    BY <1>3, <1>5, <1>6, OthersStay
  <1>8. Reading'
    BY <1>2, <1>3, <1>7, ReadingStays
  <1>9. ASSUME settled' PROVE ~updating' /\ \E S, e, o : Follows(S, e, o)'
    <2>1. settled /\ ~updating'
      BY <1>1, <1>9 DEF CleanInv
    <2>2. PICK S, e, o : Follows(S, e, o)
      BY <2>1 DEF CleanInv
    <2>3. Follows(S, e, o)'
      BY <2>2, <1>1, <1>2, <1>4, <1>7, FollowsStays
    <2> QED BY <2>1, <2>3
  <1> QED BY <1>8, <1>9 DEF CleanInv, Reading

(* A chunk ends: one slice more.                                           *)
LEMMA EndClean == ASSUME CleanInv, ChunkEnds, UartInv' PROVE CleanInv'
  <1>1. PICK k \in 1 .. Len(mcu) :
           /\ irq_handler(SubSeq(mcu, 1, k))
           /\ mcu' = SubSeq(mcu, k + 1, Len(mcu))
           /\ UNCHANGED <<status, uart_rx_buffer, rx_timer, updating, settled, owed, answered>>
    BY DEF ChunkEnds
  <1>2. /\ storing /\ storing' = FALSE
        /\ slot' = [slot EXCEPT ![SlotOf(wptr)].bytes = SubSeq(mcu, 1, k), ![SlotOf(wptr)].whole = TRUE]
        /\ UNCHANGED <<rptr, p, index, arrived, handed>>
    BY <1>1 DEF irq_handler
  <1>3. RxInv /\ Reading /\ mcu \in Seq(Octet)
    BY ReadingIs DEF UartInv
  <1>4. ended' = ended + 1 /\ ended \in Nat /\ handed \in Nat /\ handed <= ended
    BY <1>2, <1>3 DEF ended, RxInv, RxType, Pending
  <1>5. ended - handed < num
    BY <1>2, <1>3 DEF RxInv, Pending
  <1>6. \A s \in Slots : s # SlotOf(wptr) => slot'[s] = slot[s]
    BY <1>2, <1>3 DEF RxInv, RxType
  <1>7. \A c \in handed .. ended - 1 : slot'[c % num] = slot[c % num]
    BY <1>3, <1>5, <1>6, OthersStay
  <1>8. Reading'
    BY <1>2, <1>3, <1>7, ReadingStays
  <1>9. slot'[ended % num].bytes = Slice(mcu, 0, k) /\ mcu' = Slice(mcu, k, Len(mcu))
    <2>1. SlotOf(wptr) = ended % num /\ ended % num \in Slots
      BY <1>3, <1>4, PlaceOf DEF RxInv, Pending
    <2> QED BY <2>1, <1>1, <1>2, <1>3 DEF RxInv, RxType, Slice
  <1>10. ASSUME settled' PROVE ~updating' /\ \E S, e, o : Follows(S, e, o)'
    <2>1. settled /\ ~updating'
      BY <1>1, <1>10 DEF CleanInv
    <2>2. PICK S, e, o : Follows(S, e, o)
      BY <2>1 DEF CleanInv
    <2>3. S \in Seq(Octet) /\ Sliced(S, o, handed, ended, slot, mcu)
      BY <2>2 DEF Follows, Sliced
    <2>4. \A c \in handed .. ended - 1 : slot'[c % num].bytes = slot[c % num].bytes
      BY <1>7
    <2>5. PICK u : Sliced(S, u, handed, ended + 1, slot', Slice(mcu, k, Len(mcu))) /\ u[handed] = o[handed]
      <3> DEFINE h == handed  d == ended  sl == slot  sent == slot'  rest == mcu
      <3>1. /\ S \in Seq(Octet) /\ h \in Nat /\ d \in Nat /\ h <= d /\ rest \in Seq(Octet)
            /\ k \in 1 .. Len(rest)
        BY <2>3, <1>3, <1>4
      <3>2. Sliced(S, o, h, d, sl, rest)
        BY <2>3
      <3>3. Filled(sl, sent, h, d, Slice(rest, 0, k))
        BY <2>4, <1>9 DEF Filled
      <3> HIDE DEF h, d, sl, sent, rest
      <3>4. \E u : Sliced(S, u, h, d + 1, sent, Slice(rest, k, Len(rest))) /\ u[h] = o[h]
        BY <3>1, <3>2, <3>3, SlicedChunk
      <3> QED BY <3>4 DEF h, d, sl, sent, rest
    <2>6. Framed(S, e, owed, answered, u[handed] + index, uart_rx_buffer)
      BY <2>2, <2>5 DEF Follows
    <2>7. Follows(S, e, u)'
      BY <2>5, <2>6, <1>1, <1>2, <1>4, <1>9 DEF Follows
    <2> QED BY <2>1, <2>7
  <1> QED BY <1>8, <1>10 DEF CleanInv, Reading

(* The main loop takes the first chunk that waits,                         *)
LEMMA TakeClean == ASSUME CleanInv, TakesChunk, UartInv' PROVE CleanInv'
  <1>1. /\ p = NONE /\ p' = SlotOf(rptr)
        /\ UNCHANGED <<slot, wptr, rptr, storing, index, arrived, handed>>
        /\ UNCHANGED <<mcu, status, uart_rx_buffer, rx_timer, updating, settled, owed, answered>>
    BY DEF TakesChunk, my_fifo_get
  <1>2. ended' = ended
    BY <1>1 DEF ended
  <1>3. index = 0
    BY <1>1 DEF CleanInv
  <1>4. Reading'
    <2>1. CASE p' = NONE
      BY <2>1, <1>1, <1>3 DEF Reading
    <2>2. CASE p' # NONE
      <3>1. p' \in Slots /\ slot' \in [Slots -> [chunk : Nat, bytes : Seq(Octet), whole : BOOLEAN]]
        <4>1. RxInv' /\ p' = (handed % num)' /\ handed' \in Nat
          BY <2>2 DEF UartInv, RxInv, RxType, Read
        <4> QED BY <4>1, <1>1, PlaceOf DEF RxInv, RxType
      <3>2. Len(slot'[p'].bytes) \in Nat
        BY <3>1
      <3> QED BY <3>2, <2>2, <1>1, <1>3 DEF Reading
    <2> QED BY <2>1, <2>2
  <1>5. ASSUME settled' PROVE ~updating' /\ \E S, e, o : Follows(S, e, o)'
    <2>1. settled /\ ~updating'
      BY <1>1, <1>5 DEF CleanInv
    <2>2. PICK S, e, o : Follows(S, e, o)
      BY <2>1 DEF CleanInv
    <2>3. Follows(S, e, o)'
      BY <2>2, <1>1, <1>2, FollowsStays
    <2> QED BY <2>1, <2>3
  <1> QED BY <1>4, <1>5 DEF CleanInv, Reading

(* reads its bytes one by one,                                             *)
LEMMA ByteClean == ASSUME CleanInv, tuya_uart_rx_handler, UartInv' PROVE CleanInv'
  <1> DEFINE data == slot[p].bytes[index + 1]
             s == Parser(status, uart_rx_buffer, rx_timer)
             next == uart_data_unpack(s, data).buffer
  <1>1. /\ ~updating /\ p # NONE /\ index < Len(slot[p].bytes) /\ index' = index + 1
        /\ UNCHANGED <<slot, wptr, rptr, storing, p, arrived, handed>>
        /\ UNCHANGED <<mcu, updating, settled, owed>>
        /\ uart_rx_buffer' = next
        /\ answered' = IF settled /\ Intact(s, data) /\ Answered(s.buffer)
                       THEN answered + 1 ELSE answered
    BY DEF tuya_uart_rx_handler, ReadsByte
  <1>2. ended' = ended
    BY <1>1 DEF ended
  <1>3. RxInv /\ ParserOK(status, uart_rx_buffer, rx_timer)
    BY DEF CleanInv, UartInv
  <1>4. /\ p = handed % num /\ handed < ended /\ handed \in Nat /\ ended \in Nat /\ index \in Nat
        /\ slot[p].bytes \in Seq(Octet)
    <2>1. p = handed % num /\ handed < ended /\ handed \in Nat /\ ended \in Nat /\ index \in Nat
      BY <1>1, <1>3 DEF RxInv, RxType, Read
    <2>2. p \in Slots
      BY <2>1, PlaceOf
    <2> QED BY <2>1, <2>2, <1>3 DEF RxInv, RxType
  <1> HIDE DEF next
  <1>5. Reading'
    BY <1>1, <1>4 DEF Reading
  <1>6. ASSUME settled' PROVE ~updating' /\ \E S, e, o : Follows(S, e, o)'
    <2>1. settled /\ ~updating'
      BY <1>1, <1>6
    <2>2. PICK S, e, o : Follows(S, e, o)
      BY <2>1 DEF CleanInv
    <2> DEFINE h == handed  d == ended  sl == slot  rest == mcu  i == index  w == owed  a == answered
               frame == uart_rx_buffer  st == status  timing == rx_timer  q == o[handed] + index
    <2>3. /\ S \in Seq(Octet) /\ Sliced(S, o, h, d, sl, rest) /\ Framed(S, e, w, a, q, frame)
      BY <2>2 DEF Follows, Sliced
    <2>4. /\ h \in Nat /\ d \in Nat /\ h < d /\ i \in Nat /\ i < Len(sl[h % num].bytes)
          /\ ParserOK(st, frame, timing)
      BY <1>1, <1>3, <1>4
    <2>5. o[h] + i \in Nat /\ o[h] + i < Len(S) /\ sl[h % num].bytes[i + 1] = S[(o[h] + i) + 1]
      <3> HIDE DEF h, d, sl, rest, i
      <3> QED BY <2>3, <2>4, SlicedByte
    <2>6. q < Len(S) /\ q \in Nat /\ data = S[q + 1]
      BY <2>5, <1>4
    <2>7. /\ a' = IF Intact(Parser(st, frame, timing), S[q + 1]) /\ Answered(frame) THEN a + 1 ELSE a
          /\ frame' = uart_data_unpack(Parser(st, frame, timing), S[q + 1]).buffer
      <3>1. s.buffer = frame
        BY DEF Parser
      <3> QED BY <3>1, <2>1, <2>6, <1>1 DEF next
    <2>8. Framed(S, e, w, IF Intact(Parser(st, frame, timing), S[q + 1]) /\ Answered(frame) THEN a + 1 ELSE a,
                 q + 1, uart_data_unpack(Parser(st, frame, timing), S[q + 1]).buffer)
      <3> HIDE DEF w, a, q, frame, st, timing
      <3> QED BY <2>3, <2>4, <2>6, FramedByte
    <2>9. o[handed'] + index' = q + 1
      <3>1. o[handed] \in Nat
        <4>1. o \in [handed .. ended -> 0 .. Len(S)] /\ handed \in handed .. ended
          BY <2>3, <1>4 DEF Sliced
        <4> QED BY <4>1
      <3> QED BY <3>1, <1>1, <1>4
    <2>10. Sliced(S, o, handed', ended', slot', mcu')
      BY <2>3, <1>1, <1>2
    <2>11. Framed(S, e, owed', answered', o[handed'] + index', uart_rx_buffer')
      BY <2>7, <2>8, <2>9, <1>1
    <2>12. Follows(S, e, o)'
      BY <2>10, <2>11 DEF Follows
    <2> QED BY <2>1, <2>12
  <1> QED BY <1>5, <1>6 DEF CleanInv, Reading

(* and frees it when all are read.                                         *)
LEMMA FreeClean == ASSUME CleanInv, FreesChunk, UartInv' PROVE CleanInv'
  <1>1. /\ p # NONE /\ p' = NONE /\ index' = 0 /\ handed' = handed + 1
        /\ updating \/ index >= Len(slot[p].bytes)
        /\ UNCHANGED <<slot, wptr, storing, arrived>>
        /\ UNCHANGED <<mcu, status, uart_rx_buffer, rx_timer, updating, settled, owed, answered>>
    BY DEF FreesChunk, my_fifo_pop
  <1>2. ended' = ended
    BY <1>1 DEF ended
  <1>3. RxInv /\ index <= Len(slot[p].bytes)
    BY <1>1 DEF CleanInv, UartInv
  <1>4. p = handed % num /\ handed < ended /\ handed \in Nat /\ ended \in Nat /\ index \in Nat
    BY <1>1, <1>3 DEF RxInv, RxType, Read
  <1>5. Reading'
    BY <1>1 DEF Reading
  <1>6. ASSUME settled' PROVE ~updating' /\ \E S, e, o : Follows(S, e, o)'
    <2>1. settled /\ ~updating /\ ~updating'
      BY <1>1, <1>6 DEF CleanInv
    <2>2. PICK S, e, o : Follows(S, e, o)
      BY <2>1 DEF CleanInv
    <2>3. S \in Seq(Octet) /\ Sliced(S, o, handed, ended, slot, mcu)
      BY <2>2 DEF Follows, Sliced
    <2>4. /\ Sliced(S, [c \in handed + 1 .. ended |-> o[c]], handed + 1, ended, slot, mcu)
          /\ o[handed] \in Nat /\ o[handed + 1] \in Nat
          /\ Len(slot[handed % num].bytes) = o[handed + 1] - o[handed]
      <3> DEFINE h == handed  d == ended  sl == slot  rest == mcu
      <3>1. h \in Nat /\ d \in Nat /\ h < d /\ Sliced(S, o, h, d, sl, rest)
        BY <2>3, <1>4
      <3> HIDE DEF h, d, sl, rest
      <3>2. /\ Sliced(S, [c \in h + 1 .. d |-> o[c]], h + 1, d, sl, rest)
            /\ o[h] \in Nat /\ o[h + 1] \in Nat /\ Len(sl[h % num].bytes) = o[h + 1] - o[h]
        BY <2>3, <3>1, SlicedPop
      <3> QED BY <3>2 DEF h, d, sl, rest
    <2>5. PICK u : Sliced(S, u, handed + 1, ended, slot, mcu) /\ u[handed + 1] = o[handed + 1]
      <3>1. handed + 1 \in handed + 1 .. ended
        BY <1>4
      <3> DEFINE v == [c \in handed + 1 .. ended |-> o[c]]
      <3>2. v[handed + 1] = o[handed + 1]
        BY <3>1
      <3>3. Sliced(S, v, handed + 1, ended, slot, mcu)
        BY <2>4
      <3> HIDE DEF v
      <3> QED BY <3>2, <3>3
    <2>6. index = o[handed + 1] - o[handed]
      BY <2>1, <2>4, <1>1, <1>3, <1>4
    <2>7. o[handed] + index = u[handed + 1] + 0
      BY <2>4, <2>5, <2>6
    <2>8. Framed(S, e, owed, answered, o[handed] + index, uart_rx_buffer)
      BY <2>2 DEF Follows
    <2>9. Framed(S, e, owed', answered', u[handed'] + index', uart_rx_buffer')
      BY <2>7, <2>8, <1>1
    <2>10. Sliced(S, u, handed', ended', slot', mcu')
      BY <2>5, <1>1, <1>2
    <2>11. Follows(S, e, u)'
      BY <2>9, <2>10 DEF Follows
    <2> QED BY <2>1, <2>11
  <1> QED BY <1>5, <1>6 DEF CleanInv, Reading

(* The timer that runs out finds no frame begun.                           *)
LEMMA TimeoutClean == ASSUME CleanInv, uart_timeout_handler, UartInv' PROVE CleanInv'
  <1>1. /\ ~Prompt /\ uart_rx_buffer' = <<>>
        /\ UNCHANGED <<rxVars, mcu, updating, settled, owed, answered>>
    BY DEF uart_timeout_handler
  <1>2. UNCHANGED <<slot, wptr, rptr, storing, p, index, arrived, handed>>
    BY <1>1 DEF rxVars
  <1>3. ended' = ended
    BY <1>2 DEF ended
  <1>4. Reading'
    BY <1>2, ReadingIs DEF Reading
  <1>5. ASSUME settled' PROVE ~updating' /\ \E S, e, o : Follows(S, e, o)'
    <2>1. settled /\ ~updating' /\ ~InFlight
      BY <1>1, <1>5 DEF CleanInv, Prompt
    <2>2. PICK S, e, o : Follows(S, e, o)
      BY <2>1 DEF CleanInv
    <2>3. uart_rx_buffer' = uart_rx_buffer
      BY <2>1, <1>1, AllAnswered
    <2>4. Follows(S, e, o)'
      BY <2>2, <2>3, <1>1, <1>2, <1>3, FollowsStays
    <2> QED BY <2>1, <2>4
  <1> QED BY <1>4, <1>5 DEF CleanInv, Reading

(* A silence: nothing waits, and no frame is begun.                        *)
LEMMA SilenceClean == ASSUME CleanInv, Silence, UartInv' PROVE CleanInv'
  <1>1. /\ ~InFlight /\ ~rx_timer /\ ~updating /\ owed' = 0 /\ answered' = 0
        /\ UNCHANGED <<rxVars, mcu, status, uart_rx_buffer, rx_timer, updating>>
    BY DEF Silence
  <1>2. UNCHANGED <<slot, wptr, rptr, storing, p, index, arrived, handed>>
    BY <1>1 DEF rxVars
  <1>3. ended' = ended
    BY <1>2 DEF ended
  <1>4. Reading'
    BY <1>2, ReadingIs DEF Reading
  <1>5. mcu = <<>> /\ handed = ended /\ index = 0 /\ handed \in Nat
    BY <1>1, NotInFlight
  <1>6. uart_rx_buffer = <<>>
    <2>1. ParserOK(status, uart_rx_buffer, rx_timer)
      BY DEF CleanInv, UartInv
    <2>2. status = 0 /\ uart_rx_buffer \in Seq(Octet) /\ Len(uart_rx_buffer) = 0
      BY <2>1, <1>1 DEF ParserOK
    <2> QED BY <2>2
  <1>7. \E S, e, o : Follows(S, e, o)'
    <2>1. PICK S, e, o : Sliced(S, o, handed, handed, slot, <<>>) /\ Framed(S, e, 0, 0, o[handed] + 0, <<>>)
      BY <1>5, NothingOwed
    <2>2. Follows(S, e, o)'
      BY <2>1, <1>1, <1>2, <1>3, <1>5, <1>6 DEF Follows
    <2> QED BY <2>2
  <1> QED BY <1>1, <1>4, <1>7 DEF CleanInv, Reading

(* Every step keeps the invariant.                                         *)
LEMMA CleanStepInv == ASSUME CleanInv, [Next]_vars PROVE CleanInv'
  <1>1. UartInv'
    BY UartStepInv DEF CleanInv
  <1>2. CASE UpdateBeginsOrEnds
    <2>1. settled' = FALSE /\ UNCHANGED rxVars
      BY <1>2 DEF UpdateBeginsOrEnds
    <2>2. Reading'
      BY <2>1, ReadingIs DEF Reading, rxVars
    <2> QED BY <2>1, <2>2, <1>1 DEF CleanInv, Reading
  <1>3. CASE UNCHANGED vars
    <2>1. /\ UNCHANGED <<slot, wptr, rptr, storing, p, index, arrived, handed>>
          /\ UNCHANGED <<mcu, status, uart_rx_buffer, rx_timer, updating, settled, owed, answered>>
      BY <1>3 DEF vars, rxVars
    <2>2. ended' = ended
      BY <2>1 DEF ended
    <2>3. Reading'
      BY <2>1, ReadingIs DEF Reading
    <2>4. ASSUME settled' PROVE ~updating' /\ \E S, e, o : Follows(S, e, o)'
      <3>1. settled /\ ~updating'
        BY <2>1, <2>4 DEF CleanInv
      <3>2. PICK S, e, o : Follows(S, e, o)
        BY <3>1 DEF CleanInv
      <3>3. Follows(S, e, o)'
        BY <3>2, <2>1, <2>2, FollowsStays
      <3> QED BY <3>1, <3>3
    <2> QED BY <2>3, <2>4, <1>1 DEF CleanInv, Reading
  <1> QED
    BY <1>1, <1>2, <1>3, SentClean, BeginClean, EndClean, TakeClean, ByteClean, FreeClean,
       TimeoutClean, SilenceClean DEF Next, MainLoop

(* Whatever came before, each of the reports that the MCU sends after a    *)
(* silence is answered once, however it is cut into chunks and wherever    *)
(* the interrupts come: uart_data_unpack and rx_from_uart_cb.              *)
THEOREM ReportsAreAnswered == Spec => []CleanFramesAnswered
  <1>1. Init => CleanInv
    BY CleanInitInv
  <1>2. CleanInv /\ [Next]_vars => CleanInv'
    BY CleanStepInv
  <1>3. CleanInv => CleanFramesAnswered
    BY AllAnswered DEF CleanFramesAnswered
  <1> QED BY <1>1, <1>2, <1>3, PTL DEF Spec



-------------------------------------------------------------------------------
(***************************************************************************)
(* The ring buffers: their indices and mirror bits, for every pool size.   *)
(***************************************************************************)
Size == buffer_size
Indices == 0 .. Size - 1

IndicesOK == /\ read_index \in Indices /\ read_mirror \in {0, 1}
             /\ write_index \in Indices /\ write_mirror \in {0, 1}

RingInv == IndicesOK /\ MirrorsAgree

LEMMA SizeIs == Size \in Nat /\ Size >= 4
  <1>1. PoolSize \in Nat /\ PoolSize >= 4
    BY RingAssumption
  <1> DEFINE k == PoolSize \div 4  r == PoolSize % 4
  <1>2. k \in Int /\ r \in 0 .. 3 /\ PoolSize = 4 * k + r
    BY <1>1, DivMod
  <1> HIDE DEF k, r
  <1>3. k \in Nat /\ 4 * k >= 4
    BY <1>1, <1>2
  <1> QED BY <1>3 DEF Size, buffer_size, k

(* How much data there is, from the mirror bits.                           *)
Held == IF read_mirror = write_mirror THEN write_index - read_index
                                      ELSE Size - (read_index - write_index)

LEMMA HeldIs == ASSUME RingInv PROVE ringbuffer_data_len = Held /\ Held \in 0 .. Size
  <1>1. CASE read_index = write_index
    BY <1>1, SizeIs
    DEF RingInv, IndicesOK, Indices, Held, ringbuffer_data_len, ringbuffer_status, Size
  <1>2. CASE read_index # write_index
    BY <1>2, SizeIs
    DEF RingInv, IndicesOK, Indices, MirrorsAgree, Held, ringbuffer_data_len,
        ringbuffer_status, Size
  <1> QED BY <1>1, <1>2

(* The write index moves over no more than there is space for.             *)
LEMMA WriteIndexMoves ==
    ASSUME RingInv, NEW n \in Nat, n <= Size - Held,
           write_index' = Moved(write_index, n),
           write_mirror' = Flipped(write_mirror, write_index, n),
           UNCHANGED <<read_index, read_mirror>>
    PROVE  RingInv'
  <1>1. /\ read_index \in 0 .. Size - 1 /\ read_mirror \in {0, 1}
        /\ write_index \in 0 .. Size - 1 /\ write_mirror \in {0, 1}
        /\ Size \in Nat
    BY SizeIs DEF RingInv, IndicesOK, Indices
  <1>2. CASE Size - write_index <= n
    <2>1. write_index' = n - (Size - write_index) /\ write_mirror' = 1 - write_mirror
      BY <1>2 DEF Moved, Flipped, Wraps, Size
    <2>2. read_mirror = write_mirror /\ write_index' <= read_index
      BY <1>1, <1>2, <2>1 DEF RingInv, MirrorsAgree, Held
    <2> QED BY <1>1, <1>2, <2>1, <2>2 DEF RingInv, IndicesOK, Indices, MirrorsAgree, Size
  <1>3. CASE ~(Size - write_index <= n)
    <2>1. write_index' = write_index + n /\ write_mirror' = write_mirror
      BY <1>3 DEF Moved, Flipped, Wraps, Size
    <2> QED BY <1>1, <1>3, <2>1 DEF RingInv, IndicesOK, Indices, MirrorsAgree, Held, Size
  <1> QED BY <1>2, <1>3

(* The read index moves over no more than there is data.                   *)
LEMMA ReadIndexMoves ==
    ASSUME RingInv, NEW n \in Nat, n <= Held,
           read_index' = Moved(read_index, n),
           read_mirror' = Flipped(read_mirror, read_index, n),
           UNCHANGED <<write_index, write_mirror>>
    PROVE  RingInv'
  <1>1. /\ read_index \in 0 .. Size - 1 /\ read_mirror \in {0, 1}
        /\ write_index \in 0 .. Size - 1 /\ write_mirror \in {0, 1}
        /\ Size \in Nat
    BY SizeIs DEF RingInv, IndicesOK, Indices
  <1>2. CASE Size - read_index <= n
    <2>1. read_index' = n - (Size - read_index) /\ read_mirror' = 1 - read_mirror
      BY <1>2 DEF Moved, Flipped, Wraps, Size
    <2>2. read_mirror # write_mirror /\ read_index' <= write_index
      BY <1>1, <1>2, <2>1 DEF RingInv, MirrorsAgree, Held
    <2> QED BY <1>1, <1>2, <2>1, <2>2 DEF RingInv, IndicesOK, Indices, MirrorsAgree, Size
  <1>3. CASE ~(Size - read_index <= n)
    <2>1. read_index' = read_index + n /\ read_mirror' = read_mirror
      BY <1>3 DEF Moved, Flipped, Wraps, Size
    <2> QED BY <1>1, <1>3, <2>1 DEF RingInv, IndicesOK, Indices, MirrorsAgree, Held, Size
  <1> QED BY <1>2, <1>3

(* A forced block that pushes data out leaves both indices at its end.     *)
LEMMA BothIndicesMove ==
    ASSUME RingInv, NEW n \in 0 .. Size,
           write_index' = Moved(write_index, n),
           write_mirror' = Flipped(write_mirror, write_index, n),
           read_index' = write_index',
           read_mirror' \in {read_mirror, 1 - read_mirror}
    PROVE  RingInv'
  <1>1. /\ read_mirror \in {0, 1} /\ write_index \in 0 .. Size - 1
        /\ write_mirror \in {0, 1} /\ Size \in Nat
    BY SizeIs DEF RingInv, IndicesOK, Indices
  <1>2. read_mirror' \in {0, 1}
    BY <1>1
  <1>3. write_index' \in 0 .. Size - 1 /\ write_mirror' \in {0, 1}
    BY <1>1 DEF Moved, Flipped, Wraps, Size
  <1> QED BY <1>2, <1>3 DEF RingInv, IndicesOK, Indices, MirrorsAgree, Size

LEMMA RoomIs == ASSUME RingInv PROVE ringbuffer_space_len = Size - Held
  BY HeldIs DEF ringbuffer_space_len, Size

LEMMA BlockLength ==
    ASSUME NEW block \in Blocks PROVE block \in Seq(Byte) /\ Len(block) \in Nat
  <1>1. PICK n \in 0 .. buffer_size + 1 : block \in [1 .. n -> Byte]
    BY DEF Blocks, BoundedSeq, SeqOf
  <1> QED BY <1>1

LEMMA PutKeeps ==
    ASSUME RingInv, NEW block \in Blocks, ringbuffer_put(block) PROVE RingInv'
  <1>1. Len(block) \in Nat
    BY BlockLength
  <1>2. Len(block) <= Size - Held
    BY RoomIs DEF ringbuffer_put, Fits
  <1> QED BY <1>1, <1>2, WriteIndexMoves DEF ringbuffer_put, Written

LEMMA PutForceKeeps ==
    ASSUME RingInv, NEW block \in Blocks, ringbuffer_put_force(block) PROVE RingInv'
  <1> DEFINE kept == IF Len(block) > buffer_size
                     THEN SubSeq(block, Len(block) - buffer_size + 1, Len(block)) ELSE block
             n == Len(kept)
             overruns == n > ringbuffer_space_len
  <1>1. /\ write_index' = Moved(write_index, n)
        /\ write_mirror' = Flipped(write_mirror, write_index, n)
        /\ read_index' = IF overruns THEN write_index' ELSE read_index
        /\ read_mirror' = IF overruns /\ Wraps(write_index, n)
                          THEN 1 - read_mirror ELSE read_mirror
    BY DEF ringbuffer_put_force, Written
  <1>2. n \in 0 .. Size
    <2>1. block \in Seq(Byte) /\ Len(block) \in Nat /\ buffer_size \in Nat
      BY BlockLength, SizeIs DEF Size
    <2>2. CASE Len(block) > buffer_size
      <3>1. kept = SubSeq(block, Len(block) - buffer_size + 1, Len(block))
        BY <2>2
      <3>2. Len(SubSeq(block, Len(block) - buffer_size + 1, Len(block))) = buffer_size
        BY <2>1, <2>2
      <3> QED BY <3>1, <3>2, <2>1 DEF Size
    <2>3. CASE ~(Len(block) > buffer_size)
      BY <2>1, <2>3 DEF Size
    <2> QED BY <2>2, <2>3
  <1> HIDE DEF kept, n
  <1>3. CASE overruns
    BY <1>1, <1>2, <1>3, BothIndicesMove
  <1>4. CASE ~overruns
    <2>1. n <= Size - Held
      BY <1>2, <1>4, RoomIs, HeldIs, SizeIs
    <2>2. UNCHANGED <<read_index, read_mirror>>
      BY <1>1, <1>4
    <2> QED BY <1>1, <1>2, <2>1, <2>2, WriteIndexMoves
  <1> QED BY <1>3, <1>4

LEMMA RingGetKeeps ==
    ASSUME RingInv, NEW length \in Nat, ringbuffer_get(length) PROVE RingInv'
  <1> DEFINE n == IF ringbuffer_data_len < length THEN ringbuffer_data_len ELSE length
  <1>1. /\ read_index' = Moved(read_index, n)
        /\ read_mirror' = Flipped(read_mirror, read_index, n)
        /\ UNCHANGED <<write_index, write_mirror>>
    BY DEF ringbuffer_get
  <1>2. n \in Nat /\ n <= Held
    BY HeldIs, SizeIs
  <1> HIDE DEF n
  <1> QED BY <1>1, <1>2, ReadIndexMoves

LEMMA PutcharKeeps == ASSUME RingInv, NEW ch \in Byte, ringbuffer_putchar(ch) PROVE RingInv'
  <1>1. /\ write_index' = Moved(write_index, 1)
        /\ write_mirror' = Flipped(write_mirror, write_index, 1)
        /\ UNCHANGED <<read_index, read_mirror>> /\ ringbuffer_space_len # 0
    BY DEF ringbuffer_putchar, Written
  <1>2. 1 <= Size - Held
    BY <1>1, RoomIs, HeldIs, SizeIs
  <1> QED BY <1>1, <1>2, WriteIndexMoves

LEMMA PutcharForceKeeps ==
    ASSUME RingInv, NEW ch \in Byte, ringbuffer_putchar_force(ch) PROVE RingInv'
  <1>1. /\ write_index' = Moved(write_index, 1)
        /\ write_mirror' = Flipped(write_mirror, write_index, 1)
    BY DEF ringbuffer_putchar_force, Written
  <1>2. CASE ringbuffer_status = "FULL"
    <2>1. /\ read_index' = write_index'
          /\ read_mirror' \in {read_mirror, 1 - read_mirror}
      BY <1>2 DEF ringbuffer_putchar_force, Flipped
    <2>2. 1 \in 0 .. Size
      BY SizeIs
    <2> QED BY <1>1, <2>1, <2>2, BothIndicesMove
  <1>3. CASE ringbuffer_status # "FULL"
    <2>1. UNCHANGED <<read_index, read_mirror>>
      BY <1>3 DEF ringbuffer_putchar_force
    <2>2. 1 <= Size - Held
      BY <1>3, SizeIs
      DEF ringbuffer_status, RingInv, IndicesOK, Indices, MirrorsAgree, Held
    <2> QED BY <1>1, <2>1, <2>2, WriteIndexMoves
  <1> QED BY <1>2, <1>3

LEMMA GetcharKeeps == ASSUME RingInv, ringbuffer_getchar PROVE RingInv'
  <1>1. /\ read_index' = Moved(read_index, 1)
        /\ read_mirror' = Flipped(read_mirror, read_index, 1)
        /\ UNCHANGED <<write_index, write_mirror>> /\ ringbuffer_data_len # 0
    BY DEF ringbuffer_getchar
  <1>2. 1 <= Held
    BY <1>1, HeldIs, SizeIs
  <1> QED BY <1>1, <1>2, ReadIndexMoves

LEMMA RingZero ==
    ASSUME read_index = 0, read_mirror = 0, write_index = 0, write_mirror = 0
    PROVE  RingInv
  BY SizeIs DEF RingInv, IndicesOK, Indices, MirrorsAgree

LEMMA RingStepInv == ASSUME RingInv, [RingNext]_ringVars PROVE RingInv'
  <1>1. ASSUME NEW block \in Blocks,
               ringbuffer_put(block) \/ ringbuffer_put_force(block)
        PROVE  RingInv'
    BY <1>1, PutKeeps, PutForceKeeps
  <1>2. ASSUME NEW length \in 1 .. buffer_size + 1, ringbuffer_get(length) PROVE RingInv'
    <2>1. length \in Nat
      BY SizeIs DEF Size
    <2> QED BY <1>2, <2>1, RingGetKeeps
  <1>3. ASSUME NEW ch \in Byte, ringbuffer_putchar(ch) \/ ringbuffer_putchar_force(ch)
        PROVE  RingInv'
    BY <1>3, PutcharKeeps, PutcharForceKeeps
  <1>4. CASE ringbuffer_getchar
    BY <1>4, GetcharKeeps
  <1>5. CASE ringbuffer_reset
    BY <1>5, SizeIs DEF ringbuffer_reset, RingInv, IndicesOK, Indices, MirrorsAgree, Size
  <1>6. CASE UNCHANGED ringVars
    BY <1>6 DEF ringVars, rb, RingInv, IndicesOK, Indices, MirrorsAgree, Size
  <1> QED BY <1>1, <1>2, <1>3, <1>4, <1>5, <1>6 DEF RingNext

(* The mirror bits of ringBuffer.c tell which index is ahead, after every  *)
(* sequence of calls, the forced ones too, and for every size of the pool. *)
THEOREM MirrorsTellWhoIsAhead == RingSpec => []MirrorsAgree
  <1>1. RingInit => RingInv
    BY RingZero DEF RingInit
  <1>2. RingInv /\ [RingNext]_ringVars => RingInv'
    BY RingStepInv
  <1>3. RingInv => MirrorsAgree
    BY DEF RingInv
  <1> QED BY <1>1, <1>2, <1>3, PTL DEF RingSpec

(* So what the ring says it holds never exceeds it, and the space left is  *)
(* never negative, whatever the status made of the indices.                *)
LengthInBounds == ringbuffer_data_len \in 0 .. buffer_size

THEOREM LengthBounded == RingSpec => []LengthInBounds
  <1>1. RingInit => RingInv
    BY RingZero DEF RingInit
  <1>2. RingInv /\ [RingNext]_ringVars => RingInv'
    BY RingStepInv
  <1>3. RingInv => LengthInBounds
    BY HeldIs DEF LengthInBounds, Size
  <1> QED BY <1>1, <1>2, <1>3, PTL DEF RingSpec


-------------------------------------------------------------------------------
(***************************************************************************)
(* The ring is the queue of bytes of ByteFifo, for every pool and every    *)
(* set of bytes. The invariant places the bytes: the k-th to be read is    *)
(* k - 1 behind the read index, so that a write puts its block behind what *)
(* is held and a read takes the oldest.                                    *)
(***************************************************************************)
PoolInv == RingInv /\ buffer \in [Indices -> Byte]

Place(i, k) == IF i + k - 1 < Size THEN i + k - 1 ELSE i + k - 1 - Size

LEMMA PlaceIs ==
    ASSUME NEW i \in 0 .. Size - 1, NEW k \in 1 .. Size
    PROVE  /\ Place(i, k) \in 0 .. Size - 1
           /\ \A n \in 0 .. Size - k :
                 /\ Size - i <= n => Place(n - (Size - i), k) = Place(i, n + k)
                 /\ ~(Size - i <= n) => Place(i + n, k) = Place(i, n + k)
  BY SizeIs DEF Place

LEMMA HeldIsNext == ASSUME RingInv' PROVE ringbuffer_data_len' = Held' /\ Held' \in 0 .. Size
  <1>1. CASE read_index' = write_index'
    BY <1>1, SizeIs
    DEF RingInv, IndicesOK, Indices, Held, ringbuffer_data_len, ringbuffer_status, Size
  <1>2. CASE read_index' # write_index'
    BY <1>2, SizeIs
    DEF RingInv, IndicesOK, Indices, MirrorsAgree, Held, ringbuffer_data_len,
        ringbuffer_status, Size
  <1> QED BY <1>1, <1>2

LEMMA ContentIs ==
    ASSUME PoolInv
    PROVE  /\ Content \in Seq(Byte) /\ Len(Content) = Held /\ Held \in 0 .. Size
           /\ \A k \in 1 .. Held : Content[k] = buffer[Place(read_index, k)]
           /\ \A k \in 1 .. Size : Place(read_index, k) \in Indices
  <1>1. ringbuffer_data_len = Held /\ Held \in 0 .. Size
    BY HeldIs DEF PoolInv
  <1>2. \A k \in 1 .. Size : Place(read_index, k) \in Indices
    BY SizeIs DEF PoolInv, RingInv, IndicesOK, Indices, Place
  <1>3. Content = [k \in 1 .. Held |-> buffer[Place(read_index, k)]]
    BY <1>1 DEF Content, ReadAt, Place, Size
  <1>4. Held \in Nat /\ \A k \in 1 .. Held : buffer[Place(read_index, k)] \in Byte
    BY <1>1, <1>2, SizeIs DEF PoolInv
  <1> QED BY <1>1, <1>2, <1>3, <1>4

LEMMA ContentIsNext ==
    ASSUME PoolInv'
    PROVE  /\ Content' \in Seq(Byte) /\ Len(Content') = Held' /\ Held' \in 0 .. Size
           /\ \A k \in 1 .. Held' : Content'[k] = buffer'[Place(read_index', k)]
  <1>1. ringbuffer_data_len' = Held' /\ Held' \in 0 .. Size
    BY HeldIsNext DEF PoolInv
  <1>0. read_index' \in 0 .. Size - 1 /\ buffer' \in [0 .. Size - 1 -> Byte]
    BY DEF PoolInv, RingInv, IndicesOK, Indices, Size
  <1>2. \A k \in 1 .. Size : Place(read_index', k) \in 0 .. Size - 1
    BY <1>0, PlaceIs
  <1>3. Content' = [k \in 1 .. Held' |-> buffer'[Place(read_index', k)]]
    BY <1>1 DEF Content, ReadAt, Place, Size
  <1>4. Held' \in Nat /\ \A k \in 1 .. Held' : buffer'[Place(read_index', k)] \in Byte
    BY <1>0, <1>1, <1>2, SizeIs
  <1> QED BY <1>1, <1>3, <1>4

(* What a write leaves in the pool.                                        *)
LEMMA PlacesWritten ==
    ASSUME PoolInv, NEW block \in Seq(Byte), Len(block) <= Size, buffer' = Copied(block)
    PROVE  /\ buffer' \in [Indices -> Byte]
           /\ \A k \in 1 .. Size :
                 /\ k <= Held /\ Len(block) <= Size - Held =>
                       buffer'[Place(read_index, k)] = buffer[Place(read_index, k)]
                 /\ k > Held /\ k - Held <= Len(block) => buffer'[Place(read_index, k)] = block[k - Held]
                 /\ Held = Size /\ k <= Len(block) => buffer'[Place(read_index, k)] = block[k]
                 /\ Held = Size /\ k > Len(block) => buffer'[Place(read_index, k)] = buffer[Place(read_index, k)]
  <1> DEFINE n == Len(block)
             at(i) == IF i >= write_index THEN i - write_index + 1
                                          ELSE Size - write_index + i + 1
  <1>1. /\ DOMAIN buffer = Indices /\ n \in 0 .. Size /\ Size \in Nat /\ Held \in 0 .. Size
        /\ read_index \in 0 .. Size - 1 /\ write_index \in 0 .. Size - 1
    BY SizeIs, ContentIs DEF PoolInv, RingInv, IndicesOK, Indices
  <1>2. buffer' = [i \in Indices |-> IF at(i) <= n THEN block[at(i)] ELSE buffer[i]]
    BY <1>1 DEF Copied, Size
  <1>3. \A i \in Indices : at(i) \in 1 .. Size
    BY <1>1 DEF Indices
  <1>4. buffer' \in [Indices -> Byte]
    <2>1. ASSUME NEW i \in Indices
          PROVE  (IF at(i) <= n THEN block[at(i)] ELSE buffer[i]) \in Byte
      <3>1. buffer[i] \in Byte
        BY DEF PoolInv
      <3>2. at(i) <= n => at(i) \in 1 .. Len(block)
        BY <1>3
      <3> QED BY <3>1, <3>2
    <2> QED BY <1>2, <2>1
  <1>5. ASSUME NEW k \in 1 .. Size
        PROVE  Place(read_index, k) \in Indices /\ at(Place(read_index, k)) = IF k <= Held THEN k - Held + Size ELSE k - Held
    <2>1. write_index = read_index + Held \/ write_index = read_index + Held - Size
      BY <1>1 DEF Held, PoolInv, RingInv, IndicesOK, MirrorsAgree
    <2>2. Place(read_index, k) = IF read_index + k - 1 < Size THEN read_index + k - 1
                      ELSE read_index + k - 1 - Size
      BY DEF Place
    <2> QED BY <1>1, <2>1, <2>2 DEF Indices
  <1> HIDE DEF n, at
  <1>6. ASSUME NEW k \in 1 .. Size
        PROVE  /\ k <= Held /\ n <= Size - Held => buffer'[Place(read_index, k)] = buffer[Place(read_index, k)]
               /\ k > Held /\ k - Held <= n => buffer'[Place(read_index, k)] = block[k - Held]
               /\ Held = Size /\ k <= n => buffer'[Place(read_index, k)] = block[k]
               /\ Held = Size /\ k > n => buffer'[Place(read_index, k)] = buffer[Place(read_index, k)]
    <2>1. buffer'[Place(read_index, k)] = IF at(Place(read_index, k)) <= n THEN block[at(Place(read_index, k))] ELSE buffer[Place(read_index, k)]
      BY <1>2, <1>5
    <2>2. /\ k <= Held /\ n <= Size - Held => ~(at(Place(read_index, k)) <= n)
          /\ k > Held => at(Place(read_index, k)) = k - Held
          /\ Held = Size => at(Place(read_index, k)) = k
      <3>1. at(Place(read_index, k)) = IF k <= Held THEN k - Held + Size ELSE k - Held
        BY <1>5
      <3> QED BY <1>1, <3>1
    <2> QED BY <1>1, <2>1, <2>2
  <1> QED BY <1>4, <1>6 DEF n

(* A write that fits.                                                      *)
LEMMA WrittenAppends ==
    ASSUME PoolInv, NEW block \in Seq(Byte), Len(block) <= Size - Held, Written(block),
           UNCHANGED <<read_index, read_mirror>>
    PROVE  PoolInv' /\ Content' = Content \o block
  <1> DEFINE n == Len(block)
  <1>1. /\ n \in Nat /\ Held \in 0 .. Size /\ Size \in Nat /\ n <= Size - Held
        /\ Content \in Seq(Byte) /\ Len(Content) = Held
        /\ \A k \in 1 .. Held : Content[k] = buffer[Place(read_index, k)]
    BY SizeIs, ContentIs
  <1>2. RingInv'
    BY <1>1, WriteIndexMoves DEF Written, PoolInv
  <1>3. /\ buffer' \in [Indices -> Byte]
        /\ \A k \in 1 .. Size :
              /\ k <= Held => buffer'[Place(read_index, k)] = buffer[Place(read_index, k)]
              /\ k > Held /\ k - Held <= n => buffer'[Place(read_index, k)] = block[k - Held]
    BY <1>1, PlacesWritten DEF Written
  <1>4. PoolInv'
    BY <1>2, <1>3 DEF PoolInv, Indices
  <1>5. Held' = Held + n
    <2>1. /\ read_index \in 0 .. Size - 1 /\ read_mirror \in {0, 1}
          /\ write_index \in 0 .. Size - 1 /\ write_mirror \in {0, 1}
      BY DEF PoolInv, RingInv, IndicesOK, Indices
    <2>2. \/ /\ Size - write_index <= n /\ write_index' = n - (Size - write_index)
             /\ write_mirror' = 1 - write_mirror
          \/ /\ ~(Size - write_index <= n) /\ write_index' = write_index + n
             /\ write_mirror' = write_mirror
      BY DEF Written, Moved, Flipped, Wraps, Size
    <2> HIDE DEF n
    <2>0. /\ Held = IF read_mirror = write_mirror THEN write_index - read_index
                    ELSE Size - (read_index - write_index)
          /\ Held' = IF read_mirror = write_mirror' THEN write_index' - read_index
                     ELSE Size - (read_index - write_index')
      BY DEF Held, Size
    <2> HIDE DEF Held
    <2>3. CASE read_mirror = write_mirror
      BY <1>1, <2>0, <2>1, <2>2, <2>3
    <2>4. CASE read_mirror # write_mirror
      <3>1. Held = Size - (read_index - write_index) /\ write_index <= read_index
        BY <2>0, <2>4 DEF PoolInv, RingInv, MirrorsAgree
      <3>2. write_mirror' = write_mirror /\ write_index' = write_index + n
        BY <1>1, <2>1, <2>2, <3>1
      <3> QED BY <1>1, <2>0, <2>1, <2>4, <3>1, <3>2
    <2> QED BY <2>3, <2>4
  <1>6. /\ Content' \in Seq(Byte) /\ Len(Content') = Held'
        /\ \A k \in 1 .. Held' : Content'[k] = buffer'[Place(read_index, k)]
    BY <1>4, ContentIsNext
  <1>7. /\ Content \o block \in Seq(Byte) /\ Len(Content \o block) = Held + n
        /\ \A k \in 1 .. Held + n : (Content \o block)[k] = IF k <= Held THEN Content[k]
                                                             ELSE block[k - Held]
    BY <1>1, ConcatProperties
  <1>8. ASSUME NEW k \in 1 .. Held + n PROVE Content'[k] = (Content \o block)[k]
    <2>1. k \in 1 .. Size
      BY <1>1
    <2>2. /\ Content'[k] = buffer'[Place(read_index, k)]
          /\ (Content \o block)[k] = IF k <= Held THEN Content[k] ELSE block[k - Held]
      BY <1>5, <1>6, <1>7
    <2>3. CASE k <= Held
      <3>1. k \in 1 .. Held
        BY <2>1, <2>3, <1>1
      <3> QED BY <1>1, <1>3, <2>1, <2>2, <2>3, <3>1
    <2>4. CASE ~(k <= Held)
      <3>1. k > Held /\ k - Held <= n
        BY <2>1, <2>4, <1>1
      <3> QED BY <1>3, <2>1, <2>2, <2>4, <3>1
    <2> QED BY <2>3, <2>4
  <1>9. Content' = Content \o block
    BY <1>1, <1>5, <1>6, <1>7, <1>8, SeqEqual
  <1> QED BY <1>4, <1>9

(* A read takes the oldest bytes, a part of what is held.                  *)
LEMMA ReadTakesOldest ==
    ASSUME PoolInv, NEW n \in Nat, n <= Held,
           read_index' = Moved(read_index, n),
           read_mirror' = Flipped(read_mirror, read_index, n),
           UNCHANGED <<buffer, write_index, write_mirror>>
    PROVE  PoolInv' /\ Content' = SubSeq(Content, n + 1, Len(Content))
  <1>1. /\ Held \in 0 .. Size /\ Size \in Nat
        /\ Content \in Seq(Byte) /\ Len(Content) = Held
        /\ \A k \in 1 .. Held : Content[k] = buffer[Place(read_index, k)]
        /\ read_index \in 0 .. Size - 1 /\ read_mirror \in {0, 1}
        /\ write_index \in 0 .. Size - 1 /\ write_mirror \in {0, 1}
    BY SizeIs, ContentIs DEF PoolInv, RingInv, IndicesOK, Indices
  <1>2. RingInv'
    BY ReadIndexMoves DEF PoolInv
  <1>3. PoolInv'
    BY <1>2 DEF PoolInv, Indices, Size
  <1>4. \/ /\ Size - read_index <= n /\ read_index' = n - (Size - read_index)
           /\ read_mirror' = 1 - read_mirror
        \/ /\ ~(Size - read_index <= n) /\ read_index' = read_index + n
           /\ read_mirror' = read_mirror
    BY DEF Moved, Flipped, Wraps, Size
  <1>5. Held' = Held - n
    <2>1. CASE read_mirror = write_mirror
      BY <1>1, <1>4, <2>1 DEF Held, PoolInv, RingInv, MirrorsAgree, Size
    <2>2. CASE read_mirror # write_mirror
      BY <1>1, <1>4, <2>2 DEF Held, PoolInv, RingInv, MirrorsAgree, Size
    <2> QED BY <2>1, <2>2
  <1>6. /\ Content' \in Seq(Byte) /\ Len(Content') = Held - n
        /\ \A k \in 1 .. Held - n : Content'[k] = buffer[Place(read_index', k)]
    BY <1>3, <1>5, ContentIsNext
  <1> DEFINE rest == SubSeq(Content, n + 1, Len(Content))
  <1>7. /\ rest \in Seq(Byte) /\ Len(rest) = Held - n
        /\ \A k \in 1 .. Held - n : rest[k] = Content[n + k]
    BY <1>1
  <1> HIDE DEF rest
  <1>8. ASSUME NEW k \in 1 .. Held - n PROVE Content'[k] = rest[k]
    <2>1. n + k \in 1 .. Held /\ k \in 1 .. Size /\ n \in 0 .. Size - k
      BY <1>1
    <2>2. Place(read_index', k) = Place(read_index, n + k)
      <3>1. /\ Size - read_index <= n =>
                  Place(n - (Size - read_index), k) = Place(read_index, n + k)
            /\ ~(Size - read_index <= n) =>
                  Place(read_index + n, k) = Place(read_index, n + k)
        BY <1>1, <2>1, PlaceIs
      <3>2. \/ Size - read_index <= n /\ read_index' = n - (Size - read_index)
            \/ ~(Size - read_index <= n) /\ read_index' = read_index + n
        BY <1>4
      <3> QED BY <3>1, <3>2
    <2> QED BY <1>1, <1>6, <1>7, <2>1, <2>2
  <1>9. Content' = rest
    BY <1>1, <1>6, <1>7, <1>8, SeqEqual
  <1> QED BY <1>3, <1>9 DEF rest

(* A forced byte on a full ring takes the place of the oldest one.         *)
LEMMA FullTurnsRound ==
    ASSUME PoolInv, NEW ch \in Byte, Held = Size, Written(<<ch>>),
           read_index' = write_index',
           read_mirror' = Flipped(read_mirror, write_index, 1)
    PROVE  PoolInv' /\ Content' = Bytes!Newest(Content \o <<ch>>)
  <1> DEFINE block == <<ch>>
             all == Content \o block
  <1>1. block \in Seq(Byte) /\ Len(block) = 1 /\ block[1] = ch
    OBVIOUS
  <1> HIDE DEF block
  <1>2. /\ Size \in Nat /\ Size >= 4
        /\ Content \in Seq(Byte) /\ Len(Content) = Size
        /\ \A k \in 1 .. Size : Content[k] = buffer[Place(read_index, k)]
        /\ read_index \in 0 .. Size - 1 /\ read_mirror \in {0, 1}
        /\ write_index \in 0 .. Size - 1 /\ write_mirror \in {0, 1}
    BY SizeIs, ContentIs DEF PoolInv, RingInv, IndicesOK, Indices
  <1>3. read_index = write_index /\ read_mirror # write_mirror
    BY <1>2 DEF Held, PoolInv, RingInv, MirrorsAgree
  <1>4. /\ write_index' = Moved(read_index, 1)
        /\ write_mirror' = Flipped(write_mirror, read_index, 1)
        /\ buffer' = Copied(block)
    BY <1>1, <1>3 DEF Written, block
  <1>5. RingInv'
    <2>1. read_mirror' \in {read_mirror, 1 - read_mirror}
      BY DEF Flipped
    <2>2. 1 \in 0 .. Size
      BY <1>2
    <2> QED BY <1>3, <1>4, <2>1, <2>2, BothIndicesMove DEF PoolInv
  <1>6. /\ buffer' \in [Indices -> Byte]
        /\ \A k \in 1 .. Size :
              /\ k <= 1 => buffer'[Place(read_index, k)] = block[k]
              /\ k > 1 => buffer'[Place(read_index, k)] = buffer[Place(read_index, k)]
    <2>1. Len(block) <= Size
      BY <1>1, <1>2
    <2>2. /\ buffer' \in [Indices -> Byte]
          /\ \A k \in 1 .. Size :
                /\ Held = Size /\ k <= Len(block) => buffer'[Place(read_index, k)] = block[k]
                /\ Held = Size /\ k > Len(block) =>
                      buffer'[Place(read_index, k)] = buffer[Place(read_index, k)]
      BY <1>1, <1>4, <2>1, PlacesWritten
    <2> QED BY <1>1, <2>2
  <1>7. PoolInv'
    BY <1>5, <1>6 DEF PoolInv, Indices, Size
  <1>8. read_index' = IF Size - read_index <= 1 THEN 0 ELSE read_index + 1
    BY <1>2, <1>4 DEF Moved, Wraps, Size
  <1>9. Held' = Size
    <2>1. read_mirror' # write_mirror' /\ read_index' = write_index'
      BY <1>2, <1>3, <1>4 DEF Flipped
    <2>2. read_index' \in 0 .. Size - 1
      BY <1>2, <1>8
    <2>3. write_index' \in 0 .. Size - 1
      BY <2>1, <2>2
    <2>4. Held' = Size - (read_index' - write_index')
      BY <2>1 DEF Held, Size
    <2>5. read_index' - write_index' = 0
      <3>1. Size \in Nat /\ read_index' \in Int
        BY <1>2, <2>2
      <3>2. write_index' = read_index'
        BY <2>1
      <3> QED BY <3>1, <3>2
    <2> QED BY <1>2, <2>4, <2>5
  <1>10. /\ Content' \in Seq(Byte) /\ Len(Content') = Size
         /\ \A k \in 1 .. Size : Content'[k] = buffer'[Place(read_index', k)]
    BY <1>7, <1>9, ContentIsNext
  <1>11. /\ all \in Seq(Byte) /\ Len(all) = Size + 1
         /\ \A k \in 1 .. Size + 1 : all[k] = IF k <= Size THEN Content[k] ELSE block[k - Size]
    <2>1. /\ Content \in Seq(Byte) /\ block \in Seq(Byte)
          /\ Len(Content) = Size /\ Len(block) = 1
      BY <1>1, <1>2
    <2>2. /\ Content \o block \in Seq(Byte) /\ Len(Content \o block) = Size + 1
          /\ \A k \in 1 .. Size + 1 :
                (Content \o block)[k] = IF k <= Size THEN Content[k] ELSE block[k - Size]
      <3>1. /\ Content \o block \in Seq(Byte) /\ Len(Content \o block) = Len(Content) + Len(block)
            /\ \A k \in 1 .. Len(Content) + Len(block) :
                  (Content \o block)[k] = IF k <= Len(Content) THEN Content[k]
                                                                ELSE block[k - Len(Content)]
        BY <2>1, ConcatProperties
      <3> QED BY <2>1, <3>1
    <2> QED BY <2>2
  <1> HIDE DEF all
  <1> DEFINE newest == SubSeq(all, 2, Size + 1)
  <1>12. /\ newest \in Seq(Byte) /\ Len(newest) = Size
         /\ \A k \in 1 .. Size : newest[k] = all[k + 1]
    BY <1>2, <1>11
  <1> HIDE DEF newest
  <1>13. ASSUME NEW k \in 1 .. Size PROVE Content'[k] = newest[k]
    <2>1. newest[k] = IF k < Size THEN Content[k + 1] ELSE ch
      <3>1. newest[k] = all[k + 1] /\ k + 1 \in 1 .. Size + 1
        BY <1>2, <1>12
      <3>2. CASE k < Size
        BY <1>2, <1>11, <3>1, <3>2
      <3>3. CASE ~(k < Size)
        <4>1. k + 1 > Size /\ k + 1 - Size = 1
          BY <1>2, <3>3
        <4> QED BY <1>1, <1>2, <1>11, <3>1, <3>3, <4>1
      <3> QED BY <3>2, <3>3
    <2>2. CASE k < Size
      <3>1. 1 \in 0 .. Size - k /\ k + 1 \in 1 .. Size /\ k + 1 > 1 /\ 1 + k = k + 1
        BY <1>2, <2>2
      <3>2. /\ Size - read_index <= 1 =>
                  Place(1 - (Size - read_index), k) = Place(read_index, 1 + k)
            /\ ~(Size - read_index <= 1) => Place(read_index + 1, k) = Place(read_index, 1 + k)
        BY <1>2, <3>1, PlaceIs
      <3>3. Size - read_index <= 1 => 1 - (Size - read_index) = 0
        BY <1>2
      <3>4. Place(read_index', k) = Place(read_index, k + 1)
        BY <1>8, <3>1, <3>2, <3>3
      <3> QED BY <1>2, <1>6, <1>10, <2>1, <2>2, <3>1, <3>4
    <2>3. CASE ~(k < Size)
      <3>1. k = Size /\ 1 \in 1 .. Size /\ 1 <= 1
        BY <1>2, <2>3
      <3>2. Place(read_index, 1) = read_index
        BY <1>2 DEF Place
      <3>3. CASE Size - read_index <= 1
        <4>1. read_index' = 0 /\ read_index = Size - 1
          BY <1>2, <1>8, <3>3
        <4>2. Place(0, Size) = Size - 1
          BY <1>2 DEF Place
        <4> QED BY <1>1, <1>6, <1>10, <2>1, <2>3, <3>1, <3>2, <4>1, <4>2
      <3>4. CASE ~(Size - read_index <= 1)
        <4>1. read_index' = read_index + 1
          BY <1>8, <3>4
        <4>2. Place(read_index + 1, Size) = read_index
          BY <1>2, <3>4 DEF Place
        <4> QED BY <1>1, <1>6, <1>10, <2>1, <2>3, <3>1, <3>2, <4>1, <4>2
      <3> QED BY <3>3, <3>4
    <2> QED BY <2>2, <2>3
  <1>14. Content' = newest
    BY <1>10, <1>12, <1>13, SeqEqual
  <1>15. Bytes!Newest(all) = newest
    <2>1. Len(all) > buffer_size /\ Len(all) - buffer_size + 1 = 2 /\ Len(all) = Size + 1
      BY <1>2, <1>11 DEF Size
    <2> QED BY <2>1 DEF Bytes!Newest, newest
  <1> QED BY <1>7, <1>14, <1>15 DEF all, block

LEMMA BlockIsAbstract ==
    /\ \A block \in Blocks : block \in Bytes!Blocks
    /\ \A ch \in Byte : <<ch>> \in Bytes!Blocks /\ <<ch>> \in Seq(Byte) /\ Len(<<ch>>) = 1
  <1>1. \A block \in Blocks : block \in Bytes!Blocks
    BY DEF Blocks, BoundedSeq, SeqOf, Bytes!Blocks, Bytes!BoundedSeq, Bytes!SeqOf
  <1>2. ASSUME NEW ch \in Byte
        PROVE  <<ch>> \in Bytes!Blocks /\ <<ch>> \in Seq(Byte) /\ Len(<<ch>>) = 1
    <2>1. <<ch>> \in [1 .. 1 -> Byte] /\ 1 \in 0 .. buffer_size + 1
      BY SizeIs DEF Size
    <2> QED BY <2>1 DEF Bytes!Blocks, Bytes!BoundedSeq, Bytes!SeqOf
  <1> QED BY <1>1, <1>2

LEMMA PutIsAbstract ==
    ASSUME PoolInv, NEW block \in Blocks, ringbuffer_put(block)
    PROVE  PoolInv' /\ Bytes!Put(block)
  <1>1. block \in Seq(Byte) /\ Len(block) \in Nat /\ Held \in 0 .. Size /\ Size \in Nat
    BY BlockLength, ContentIs, SizeIs
  <1>2. Len(block) <= Size - Held
    BY RoomIs DEF ringbuffer_put, Fits, PoolInv
  <1>3. PoolInv' /\ Content' = Content \o block
    BY <1>1, <1>2, WrittenAppends DEF ringbuffer_put
  <1>4. Len(Content) + Len(block) <= buffer_size
    BY <1>1, <1>2, ContentIs DEF Size
  <1> QED BY <1>3, <1>4 DEF ringbuffer_put, Bytes!Put, Did, Bytes!Did

LEMMA PutcharIsAbstract ==
    ASSUME PoolInv, NEW ch \in Byte, ringbuffer_putchar(ch)
    PROVE  PoolInv' /\ Bytes!Put(<<ch>>)
  <1>1. <<ch>> \in Seq(Byte) /\ Len(<<ch>>) = 1 /\ Held \in 0 .. Size /\ Size \in Nat
    BY BlockIsAbstract, ContentIs, SizeIs
  <1>2. Len(<<ch>>) <= Size - Held
    BY <1>1, RoomIs DEF ringbuffer_putchar, PoolInv
  <1>3. PoolInv' /\ Content' = Content \o <<ch>>
    BY <1>1, <1>2, WrittenAppends DEF ringbuffer_putchar
  <1>4. Len(Content) + Len(<<ch>>) <= buffer_size
    BY <1>1, <1>2, ContentIs DEF Size
  <1> QED BY <1>3, <1>4 DEF ringbuffer_putchar, Bytes!Put, Did, Bytes!Did

(* A block longer than the ring fits only an empty one.                    *)
LEMMA PutForceIsAbstract ==
    ASSUME ~Forcing, PoolInv, NEW block \in Blocks, ringbuffer_put_force(block)
    PROVE  PoolInv' /\ Bytes!PutForce(block)
  <1> DEFINE kept == IF Len(block) > buffer_size
                     THEN SubSeq(block, Len(block) - buffer_size + 1, Len(block)) ELSE block
  <1>1. /\ block \in Seq(Byte) /\ Len(block) \in Nat /\ Held \in 0 .. Size /\ Size \in Nat
        /\ buffer_size = Size /\ Content \in Seq(Byte) /\ Len(Content) = Held
    BY BlockLength, ContentIs, SizeIs DEF Size
  <1>2. kept \in Seq(Byte) /\ Len(kept) \in Nat
    <2>1. CASE Len(block) > buffer_size
      <3>1. kept = SubSeq(block, Len(block) - buffer_size + 1, Len(block))
        BY <2>1
      <3> HIDE DEF kept
      <3> QED BY <1>1, <2>1, <3>1
    <2>2. CASE ~(Len(block) > buffer_size)
      BY <1>1, <2>2
    <2> QED BY <2>1, <2>2
  <1>3. /\ ~(Len(kept) > ringbuffer_space_len) /\ Written(kept)
        /\ UNCHANGED <<read_index, read_mirror>> /\ last' = [op |-> "force", data |-> <<>>]
    BY DEF ringbuffer_put_force, Did
  <1>4. Len(kept) <= Size - Held
    <2> HIDE DEF kept
    <2> QED BY <1>1, <1>2, <1>3, RoomIs DEF PoolInv
  <1>5. PoolInv' /\ Content' = Content \o kept
    <2> HIDE DEF kept
    <2> QED BY <1>2, <1>3, <1>4, WrittenAppends
  <1>6. Content \o kept = Bytes!Newest(Content \o block)
    <2>1. CASE Len(block) > buffer_size
      <3>1. kept = SubSeq(block, Len(block) - Size + 1, Len(block)) /\ Len(block) > Size
        BY <1>1, <2>1
      <3> HIDE DEF kept
      <3>2. Len(kept) = Size
        BY <1>1, <3>1
      <3>3. Content = <<>>
        <4>1. Len(Content) = 0
          BY <1>1, <1>4, <3>2
        <4> QED BY <1>1, <4>1
      <3>4. Content \o kept = kept /\ Content \o block = block
        BY <1>1, <1>2, <3>3
      <3> QED BY <1>1, <3>1, <3>4 DEF Bytes!Newest
    <2>2. CASE ~(Len(block) > buffer_size)
      <3>1. kept = block
        BY <2>2
      <3> HIDE DEF kept
      <3>2. Len(Content \o block) = Held + Len(block)
        BY <1>1
      <3>3. ~(Len(Content \o block) > buffer_size)
        BY <1>1, <1>4, <3>1, <3>2
      <3> QED BY <3>1, <3>3 DEF Bytes!Newest
    <2> QED BY <2>1, <2>2
  <1> QED BY <1>3, <1>5, <1>6 DEF Bytes!PutForce, Bytes!Did

LEMMA PutcharForceIsAbstract ==
    ASSUME PoolInv, NEW ch \in Byte, ringbuffer_putchar_force(ch)
    PROVE  PoolInv' /\ Bytes!PutForce(<<ch>>)
  <1>1. /\ <<ch>> \in Seq(Byte) /\ Len(<<ch>>) = 1 /\ Held \in 0 .. Size /\ Size \in Nat
        /\ buffer_size = Size /\ Content \in Seq(Byte) /\ Len(Content) = Held
    BY BlockIsAbstract, ContentIs, SizeIs DEF Size
  <1>2. Written(<<ch>>) /\ last' = [op |-> "force", data |-> <<>>]
    BY DEF ringbuffer_putchar_force, Did
  <1>3. ringbuffer_status = "FULL" <=> Held = Size
    BY SizeIs DEF ringbuffer_status, Held, PoolInv, RingInv, IndicesOK, Indices, MirrorsAgree
  <1>4. CASE ringbuffer_status = "FULL"
    <2>1. /\ read_index' = write_index'
          /\ read_mirror' = Flipped(read_mirror, write_index, 1)
      BY <1>4 DEF ringbuffer_putchar_force
    <2> QED BY <1>2, <1>3, <1>4, <2>1, FullTurnsRound DEF Bytes!PutForce, Bytes!Did
  <1>5. CASE ringbuffer_status # "FULL"
    <2>1. UNCHANGED <<read_index, read_mirror>>
      BY <1>5 DEF ringbuffer_putchar_force
    <2>2. Len(<<ch>>) <= Size - Held
      BY <1>1, <1>3, <1>5
    <2>3. PoolInv' /\ Content' = Content \o <<ch>>
      BY <1>1, <1>2, <2>1, <2>2, WrittenAppends
    <2>4. ~(Len(Content \o <<ch>>) > buffer_size)
      BY <1>1, <2>2
    <2> QED BY <1>2, <2>3, <2>4 DEF Bytes!PutForce, Bytes!Did, Bytes!Newest
  <1> QED BY <1>4, <1>5

LEMMA RingGetIsAbstract ==
    ASSUME PoolInv, NEW length \in 1 .. buffer_size + 1, ringbuffer_get(length)
    PROVE  PoolInv' /\ Bytes!Get(length)
  <1> DEFINE n == IF ringbuffer_data_len < length THEN ringbuffer_data_len ELSE length
             m == IF length < Len(Content) THEN length ELSE Len(Content)
             data == [k \in 1 .. n |-> buffer[ReadAt(k)]]
  <1>1. /\ Held \in 0 .. Size /\ Size \in Nat /\ ringbuffer_data_len = Held
        /\ Content \in Seq(Byte) /\ Len(Content) = Held
        /\ \A k \in 1 .. Held : Content[k] = buffer[Place(read_index, k)]
        /\ length \in Nat
    BY HeldIs, ContentIs, SizeIs DEF PoolInv, Size
  <1>2. n \in Nat /\ n <= Held /\ m = n
    BY <1>1
  <1>3. /\ read_index' = Moved(read_index, n)
        /\ read_mirror' = Flipped(read_mirror, read_index, n)
        /\ UNCHANGED <<buffer, write_index, write_mirror>>
        /\ last' = [op |-> "get", data |-> data]
    BY DEF ringbuffer_get, Did
  <1>4. data = SubSeq(Content, 1, n)
    <2> HIDE DEF n
    <2>1. data = [k \in 1 .. n |-> buffer[Place(read_index, k)]]
      BY DEF ReadAt, Place, Size
    <2>2. \A k \in 1 .. n : k \in 1 .. Held
      BY <1>1, <1>2
    <2>3. data = [k \in 1 .. n |-> Content[k]]
      BY <1>1, <2>1, <2>2
    <2>4. SubSeq(Content, 1, n) = [k \in 1 .. n |-> Content[k]]
      BY <1>1, <1>2
    <2> QED BY <2>3, <2>4
  <1> HIDE DEF n, data
  <1>5. PoolInv' /\ Content' = SubSeq(Content, n + 1, Len(Content))
    BY <1>2, <1>3, ReadTakesOldest
  <1>6. /\ last' = [op |-> "get", data |-> SubSeq(Content, 1, m)]
        /\ Content' = SubSeq(Content, m + 1, Len(Content))
    BY <1>2, <1>3, <1>4, <1>5
  <1> QED BY <1>5, <1>6 DEF Bytes!Get, Bytes!Did

LEMMA GetcharIsAbstract ==
    ASSUME PoolInv, ringbuffer_getchar PROVE PoolInv' /\ Bytes!Get(1)
  <1> DEFINE m == IF 1 < Len(Content) THEN 1 ELSE Len(Content)
  <1>1. /\ Held \in 0 .. Size /\ Size \in Nat /\ ringbuffer_data_len = Held
        /\ Content \in Seq(Byte) /\ Len(Content) = Held
        /\ \A k \in 1 .. Held : Content[k] = buffer[Place(read_index, k)]
        /\ read_index \in 0 .. Size - 1
    BY HeldIs, ContentIs, SizeIs DEF PoolInv, RingInv, IndicesOK, Indices
  <1>2. /\ read_index' = Moved(read_index, 1)
        /\ read_mirror' = Flipped(read_mirror, read_index, 1)
        /\ UNCHANGED <<buffer, write_index, write_mirror>>
        /\ last' = [op |-> "get", data |-> <<buffer[read_index]>>]
        /\ Held # 0
    BY <1>1 DEF ringbuffer_getchar, Did
  <1>3. 1 <= Held /\ m = 1 /\ 1 \in 1 .. Held
    BY <1>1, <1>2
  <1>4. <<buffer[read_index]>> = SubSeq(Content, 1, 1)
    <2>1. Place(read_index, 1) = read_index
      BY <1>1 DEF Place
    <2>2. Content[1] = buffer[read_index]
      BY <1>1, <1>3, <2>1
    <2> DEFINE one == SubSeq(Content, 1, 1)  it == <<Content[1]>>
    <2>3. one \in Seq(Byte) /\ Len(one) = 1 /\ one[1] = Content[1]
      BY <1>1, <1>3
    <2>4. it \in Seq(Byte) /\ Len(it) = 1 /\ it[1] = Content[1]
      BY <1>1, <1>3
    <2> HIDE DEF one, it
    <2>5. \A k \in 1 .. 1 : one[k] = it[k]
      BY <2>3, <2>4
    <2>6. one = it
      BY <2>3, <2>4, <2>5, SeqEqual
    <2> QED BY <2>2, <2>6 DEF one, it
  <1>5. PoolInv' /\ Content' = SubSeq(Content, 1 + 1, Len(Content))
    BY <1>2, <1>3, ReadTakesOldest
  <1>6. /\ last' = [op |-> "get", data |-> SubSeq(Content, 1, m)]
        /\ Content' = SubSeq(Content, m + 1, Len(Content))
    BY <1>2, <1>3, <1>4, <1>5
  <1> QED BY <1>5, <1>6 DEF Bytes!Get, Bytes!Did

LEMMA ResetIsAbstract == ASSUME PoolInv, ringbuffer_reset PROVE PoolInv' /\ Bytes!Reset
  <1>1. RingInv' /\ Held' = 0
    BY SizeIs DEF ringbuffer_reset, RingInv, IndicesOK, Indices, MirrorsAgree, Held, Size
  <1>2. PoolInv'
    BY <1>1 DEF ringbuffer_reset, PoolInv, Indices, Size
  <1>3. Content' = <<>>
    BY <1>1, <1>2, ContentIsNext
  <1> QED BY <1>2, <1>3 DEF ringbuffer_reset, Did, Bytes!Reset, Bytes!Did

(* For every size of the pool and every sequence of calls, the forced ones *)
(* of ringBuffer.c too as long as a block does not push data out, the ring *)
(* is a queue of bytes: a read hands out the oldest of what was put, in    *)
(* order, wherever the pool wraps.                                         *)
THEOREM PoolImplementsFifo == ASSUME ~Forcing PROVE RingSpec => BytesInOrder
  <1>1. RingInit => PoolInv /\ Bytes!Init
    <2> SUFFICES ASSUME RingInit PROVE PoolInv /\ Bytes!Init
      OBVIOUS
    <2>1. PoolInv
      BY RingZero DEF RingInit, PoolInv, Indices, Size
    <2>2. Len(Content) = 0 /\ Content \in Seq(Byte)
      BY <2>1, ContentIs DEF RingInit, Held
    <2>3. Content = <<>>
      BY <2>2
    <2> QED BY <2>1, <2>3 DEF RingInit, Bytes!Init
  <1>2. PoolInv /\ [RingNext]_ringVars => PoolInv' /\ [Bytes!Next]_(<<Content, last>>)
    <2> SUFFICES ASSUME PoolInv, [RingNext]_ringVars
                 PROVE  PoolInv' /\ [Bytes!Next]_(<<Content, last>>)
      OBVIOUS
    <2>1. ASSUME NEW block \in Blocks, ringbuffer_put(block) \/ ringbuffer_put_force(block)
          PROVE  PoolInv' /\ Bytes!Next
      <3>1. PoolInv' /\ (Bytes!Put(block) \/ Bytes!PutForce(block))
        BY <2>1, PutIsAbstract, PutForceIsAbstract
      <3> QED BY <3>1, BlockIsAbstract DEF Bytes!Next
    <2>2. ASSUME NEW length \in 1 .. buffer_size + 1, ringbuffer_get(length)
          PROVE  PoolInv' /\ Bytes!Next
      BY <2>2, RingGetIsAbstract DEF Bytes!Next
    <2>3. ASSUME NEW ch \in Byte, ringbuffer_putchar(ch) \/ ringbuffer_putchar_force(ch)
          PROVE  PoolInv' /\ Bytes!Next
      <3>1. PoolInv' /\ (Bytes!Put(<<ch>>) \/ Bytes!PutForce(<<ch>>))
        BY <2>3, PutcharIsAbstract, PutcharForceIsAbstract
      <3> QED BY <3>1, BlockIsAbstract DEF Bytes!Next
    <2>4. CASE ringbuffer_getchar
      <3>1. 1 \in 1 .. buffer_size + 1
        BY SizeIs DEF Size
      <3> QED BY <2>4, <3>1, GetcharIsAbstract DEF Bytes!Next
    <2>5. CASE ringbuffer_reset
      BY <2>5, ResetIsAbstract DEF Bytes!Next
    <2>6. CASE UNCHANGED ringVars
      <3>1. PoolInv'
        BY <2>6 DEF ringVars, rb, PoolInv, RingInv, IndicesOK, Indices, MirrorsAgree, Size
      <3>2. UNCHANGED <<Content, last>>
        BY <2>6 DEF ringVars, rb, Content, ringbuffer_data_len, ringbuffer_status, ReadAt
      <3> QED BY <3>1, <3>2
    <2> QED BY <2>1, <2>2, <2>3, <2>4, <2>5, <2>6 DEF RingNext
  <1> QED BY <1>1, <1>2, PTL DEF RingSpec, BytesInOrder, Bytes!Safety

-------------------------------------------------------------------------------
(***************************************************************************)
(* TimeKept for every clock, length of a second and lateness of the main   *)
(* loop. The invariant names the tick, on a clock that does not wrap, at   *)
(* which the handler was called last.                                      *)
(***************************************************************************)
CONSTANTS ClockWrap, TickRate, Lateness, SavePeriod
VARIABLES elapsed, rtc_timer_last_tick, tick_last, sysrun_seconds, rtc_save_flag,
          connected, saved

Time == INSTANCE Rtc WITH Second <- TickRate, Wrap <- ClockWrap, Period <- SavePeriod

(* The seconds are those up to a tick no more than a second before the     *)
(* last call, and tick_last is that tick as the clock showed it.           *)
Called(tick) ==
    /\ rtc_timer_last_tick = tick % ClockWrap
    /\ tick <= elapsed /\ elapsed - tick <= TickRate + Lateness + 1
    /\ sysrun_seconds * TickRate <= tick /\ tick - sysrun_seconds * TickRate <= TickRate
    /\ tick_last = (sysrun_seconds * TickRate) % ClockWrap

TimeInv == /\ elapsed \in Nat /\ sysrun_seconds \in Nat
           /\ \E tick \in Nat : Called(tick)

LEMMA TimeInitInv == ASSUME Time!RtcAssumption, Time!Init PROVE TimeInv
  <1>1. 0 % ClockWrap = 0
    BY Small DEF Time!RtcAssumption
  <1>2. Called(0)
    BY <1>1 DEF Called, Time!Init, Time!RtcAssumption
  <1> QED BY <1>2 DEF TimeInv, Time!Init

(* A turn of the main loop that is not late.                               *)
LEMMA TickKeepsTime == ASSUME Time!RtcAssumption, TimeInv, Time!Tick PROVE TimeInv'
  <1> USE DEF Time!RtcAssumption
  <1>1. PICK tick \in Nat : Called(tick)
    BY DEF TimeInv
  <1>2. elapsed \in Nat /\ sysrun_seconds \in Nat /\ sysrun_seconds * TickRate \in Nat
    BY DEF TimeInv
  <1> DEFINE d == elapsed - tick
  <1>3. d \in 0 .. ClockWrap - 1 /\ tick + d = elapsed
    BY <1>1, <1>2 DEF Called
  <1>4. (((tick + d) % ClockWrap) - (tick % ClockWrap)) % ClockWrap = d
    <2> HIDE DEF d
    <2>1. ClockWrap \in Nat \ {0}
      OBVIOUS
    <2> QED BY <1>3, <2>1, Later
  <1>5. d <= TickRate + Lateness
    BY <1>1, <1>3, <1>4 DEF Called, Time!Tick, Time!clock_time_exceed, Time!clock_time
  <1>6. Called(tick)'
    BY <1>1, <1>2, <1>5 DEF Called, Time!Tick
  <1> QED BY <1>2, <1>6 DEF TimeInv, Time!Tick

(* The whole seconds since tick_last are added, however the clock wrapped. *)
LEMMA HandlerKeepsTime ==
    ASSUME Time!RtcAssumption, TimeInv, Time!tuya_rtc_timer_update_handler PROVE TimeInv'
  <1> USE DEF Time!RtcAssumption
  <1>1. PICK tick \in Nat : Called(tick)
    BY DEF TimeInv
  <1> DEFINE S == sysrun_seconds * TickRate
             d == elapsed - tick
             e == elapsed - S
             n == Time!tick_pass \div TickRate
  <1>2. elapsed \in Nat /\ sysrun_seconds \in Nat /\ S \in Nat
    BY DEF TimeInv
  <1>3. d \in 0 .. ClockWrap - 1 /\ tick + d = elapsed
    BY <1>1, <1>2 DEF Called
  <1>4. d > TickRate
    <2>1. (((tick + d) % ClockWrap) - (tick % ClockWrap)) % ClockWrap = d
      <3> HIDE DEF d
      <3>1. ClockWrap \in Nat \ {0}
        OBVIOUS
      <3> QED BY <1>3, <3>1, Later
    <2> QED BY <1>1, <1>3, <2>1
            DEF Called, Time!tuya_rtc_timer_update_handler, Time!clock_time_exceed, Time!clock_time
  <1>5. e \in 0 .. ClockWrap - 1 /\ e > TickRate /\ S + e = elapsed
    BY <1>1, <1>2, <1>3, <1>4 DEF Called
  <1>6. Time!tick_pass \in Int /\ (Time!tick_pass = e \/ Time!tick_pass = e - 1)
    <2>1. S % ClockWrap \in 0 .. ClockWrap - 1
      BY <1>2, DivMod
    <2>2. \/ (S + e) % ClockWrap = (S % ClockWrap) + e /\ (S % ClockWrap) + e < ClockWrap
          \/ (S + e) % ClockWrap = (S % ClockWrap) + e - ClockWrap /\ (S % ClockWrap) + e >= ClockWrap
      <3> HIDE DEF S, e
      <3>1. ClockWrap \in Nat \ {0}
        OBVIOUS
      <3> QED BY <1>2, <1>5, <3>1, Later
    <2>3. Time!clock_time = (S + e) % ClockWrap /\ tick_last = S % ClockWrap
      BY <1>1, <1>5 DEF Called, Time!clock_time
    <2> HIDE DEF S, e
    <2> QED BY <1>5, <2>1, <2>2, <2>3 DEF Time!tick_pass
  <1>7. n \in Int /\ Time!tick_pass - n * TickRate \in 0 .. TickRate - 1
    <2>1. /\ n \in Int /\ Time!tick_pass % TickRate \in 0 .. TickRate - 1
          /\ Time!tick_pass = TickRate * n + (Time!tick_pass % TickRate)
      BY <1>6, DivMod
    <2> HIDE DEF n
    <2> QED BY <2>1, <1>6
  <1>8. n >= 1 /\ n * TickRate \in 0 .. ClockWrap - 1
    <2> HIDE DEF n, e
    <2>1. n * TickRate > 0
      BY <1>5, <1>6, <1>7
    <2>2. n >= 1
      <3>1. CASE n <= 0
        <4>1. n * TickRate <= 0
          BY <3>1, <1>7
        <4> QED BY <4>1, <2>1, <1>7
      <3> QED BY <3>1, <1>7
    <2> QED BY <1>5, <1>6, <1>7, <2>1, <2>2
  <1>9. /\ sysrun_seconds' = sysrun_seconds + n /\ elapsed' = elapsed
        /\ rtc_timer_last_tick' = elapsed % ClockWrap
        /\ tick_last' = (tick_last + n * TickRate) % ClockWrap
    BY <1>8 DEF Time!tuya_rtc_timer_update_handler, Time!tick_last_after, Time!clock_time
  <1>10. sysrun_seconds' * TickRate = S + n * TickRate
    BY <1>2, <1>7, <1>9
  <1>11. tick_last' = (sysrun_seconds' * TickRate) % ClockWrap
    <2>1. ((S % ClockWrap) + n * TickRate) % ClockWrap = (S + n * TickRate) % ClockWrap
      <3> DEFINE k == n * TickRate
      <3> HIDE DEF S, k
      <3>1. ClockWrap \in Nat \ {0} /\ k \in 0 .. ClockWrap - 1
        BY <1>8 DEF k
      <3>2. ((S % ClockWrap) + k) % ClockWrap = (S + k) % ClockWrap
        BY <1>2, <3>1, OnTheWay
      <3> QED BY <3>2 DEF k
    <2> QED BY <1>1, <1>9, <1>10, <2>1 DEF Called
  <1>12. S + n * TickRate <= elapsed /\ elapsed - (S + n * TickRate) <= TickRate
    <2> HIDE DEF n
    <2> QED BY <1>2, <1>5, <1>6, <1>7, <1>8
  <1>13. Called(elapsed)'
    BY <1>2, <1>9, <1>10, <1>11, <1>12 DEF Called
  <1>14. sysrun_seconds' \in Nat
    BY <1>2, <1>7, <1>8, <1>9
  <1> QED BY <1>2, <1>9, <1>13, <1>14 DEF TimeInv

LEMMA TimeStepInv == ASSUME Time!RtcAssumption, TimeInv, [Time!Next]_(Time!vars) PROVE TimeInv'
  <1>1. CASE Time!Tick
    BY <1>1, TickKeepsTime
  <1>2. CASE Time!LinkChanges
    BY <1>2 DEF Time!LinkChanges, TimeInv, Called
  <1>3. CASE Time!tuya_rtc_timer_update_handler
    BY <1>3, HandlerKeepsTime
  <1>4. CASE UNCHANGED Time!vars
    BY <1>4 DEF Time!vars, TimeInv, Called
  <1> QED BY <1>1, <1>2, <1>3, <1>4 DEF Time!Next

(* The device's time does not drift: it is never ahead of the clock, nor   *)
(* behind by more than a turn of the main loop and two seconds.            *)
THEOREM NoDrift == ASSUME Time!RtcAssumption PROVE Time!Spec => []Time!TimeKept
  <1>1. Time!Init => TimeInv
    BY TimeInitInv
  <1>2. TimeInv /\ [Time!Next]_(Time!vars) => TimeInv'
    BY TimeStepInv
  <1>3. TimeInv => Time!TimeKept
    <2> SUFFICES ASSUME TimeInv PROVE Time!TimeKept
      OBVIOUS
    <2>1. PICK tick \in Nat : Called(tick)
      BY DEF TimeInv
    <2>2. sysrun_seconds * TickRate \in Nat
      BY DEF TimeInv, Time!RtcAssumption
    <2> QED BY <2>1, <2>2 DEF TimeInv, Called, Time!TimeKept, Time!RtcAssumption
  <1> QED BY <1>1, <1>2, <1>3, PTL DEF Time!Spec

-----------------------------------------------------------------------------
(***************************************************************************)
(* The table of the software timers, for every set of callbacks and every  *)
(* width of the clock. How far a time is from now is measured on the clock *)
(* that wraps; as long as all entries are near, the comparison of the code *)
(* and the sort follow that measure. The inductive invariant says that     *)
(* they are: an entry that is due has not waited longer than its place in  *)
(* the table allows, since each turn serves at least the first.            *)
(***************************************************************************)

(* The numbers of the clock and the bounds of the margins.                 *)
LEMMA WindowIs == /\ Window \in Nat \ {0} /\ Wrap \in Nat /\ Wrap = 4 * Window
                  /\ Wrap \div 2 = 2 * Window
                  /\ Pre \in Nat /\ Post \in Nat /\ Late \in Nat /\ MAX_TIMER_NUM \in Nat \ {0}
                  /\ MAX_TIMER_NUM < Pre + Late /\ Pre + Late <= Post /\ Post < 3 * Window
  BY TimerAssumption DEF Window

(* An interval and what it may be late stay within the window.             *)
LEMMA IntervalIs ==
    ASSUME NEW i, IntervalOK(i)
    PROVE  i \in Pre + 1 .. Window /\ Late < Window
  <1>1. Window \in Nat /\ Pre \in Nat /\ Late \in Nat
    BY WindowIs
  <1> QED BY <1>1 DEF IntervalOK

(* The remainder of a number that is less than one wrap out of the range.  *)
LEMMA WrapsOnce ==
    ASSUME NEW a \in Int, -Wrap <= a, a < 2 * Wrap
    PROVE  a % Wrap = IF a < 0 THEN a + Wrap ELSE IF a < Wrap THEN a ELSE a - Wrap
  <1> DEFINE q == a \div Wrap  r == a % Wrap
  <1>0. Wrap \in Nat \ {0}
    BY WindowIs
  <1>1. q \in Int /\ r \in 0 .. Wrap - 1 /\ a = Wrap * q + r
    BY <1>0, DivMod
  <1> HIDE DEF q, r
  <1>2. CASE q >= 2
    <2>1. Wrap * q >= Wrap * 2
      BY <1>0, <1>1, <1>2
    <2> QED BY <1>0, <1>1, <2>1
  <1>3. CASE q <= -2
    <2>1. Wrap * q <= Wrap * (-2)
      BY <1>0, <1>1, <1>3
    <2> QED BY <1>0, <1>1, <2>1
  <1>4. CASE q \in {-1, 0, 1}
    <2>1. r = a + Wrap \/ r = a \/ r = a - Wrap
      BY <1>0, <1>1, <1>4
    <2> QED BY <1>0, <1>1, <2>1 DEF r
  <1> QED BY <1>1, <1>2, <1>3, <1>4

(* What the two operations on the clock give, by cases.                    *)
LEMMA ClockIs ==
    ASSUME NEW a \in Ticks, NEW b \in Ticks, NEW d \in 0 .. Wrap
    PROVE  /\ Minus(a, b) = (IF a < b THEN a - b + Wrap ELSE a - b) /\ Minus(a, b) \in Ticks
           /\ Plus(a, d) = (IF a + d < Wrap THEN a + d ELSE a + d - Wrap) /\ Plus(a, d) \in Ticks
  <1> DEFINE x == a - b  y == a + d
  <1>1. /\ x \in Int /\ -Wrap <= x /\ x < 2 * Wrap /\ x < Wrap
        /\ y \in Int /\ -Wrap <= y /\ y < 2 * Wrap /\ y >= 0
    BY WindowIs DEF Ticks
  <1>2. x % Wrap = (IF x < 0 THEN x + Wrap ELSE IF x < Wrap THEN x ELSE x - Wrap)
    <2> HIDE DEF x
    <2> QED BY <1>1, WrapsOnce
  <1>3. y % Wrap = (IF y < 0 THEN y + Wrap ELSE IF y < Wrap THEN y ELSE y - Wrap)
    <2> HIDE DEF y
    <2> QED BY <1>1, WrapsOnce
  <1>4. Minus(a, b) = x % Wrap /\ Plus(a, d) = y % Wrap
    BY DEF Minus, Plus
  <1>5. Minus(a, b) = (IF a < b THEN a - b + Wrap ELSE a - b)
    <2>1. Minus(a, b) = (IF x < 0 THEN x + Wrap ELSE x)
      BY <1>1, <1>2, <1>4
    <2> QED BY <2>1, WindowIs DEF Ticks
  <1>6. Plus(a, d) = (IF a + d < Wrap THEN a + d ELSE a + d - Wrap)
    <2>1. Plus(a, d) = (IF y < Wrap THEN y ELSE y - Wrap)
      BY <1>1, <1>3, <1>4
    <2> QED BY <2>1, <1>1, WindowIs DEF Ticks
  <1> QED BY <1>5, <1>6, WindowIs DEF Ticks

(* How far an entry is from its time, on a clock that shows n.             *)
LEMMA SignedIs ==
    ASSUME NEW t \in Ticks, NEW n \in Ticks
    PROVE  /\ Signed(t, n) \in -(2 * Window) .. 2 * Window - 1
           /\ Signed(t, n) \in {t - n, t - n + Wrap, t - n - Wrap}
  <1>1. 0 \in 0 .. Wrap
    BY WindowIs
  <1>2. Minus(t, n) = (IF t < n THEN t - n + Wrap ELSE t - n) /\ Minus(t, n) \in Ticks
    BY <1>1, ClockIs
  <1> QED BY <1>2, WindowIs DEF Signed, Ticks

(* What is near enough for the comparisons.                                *)
Near(d) == 1 - Late < d /\ d <= Window - Late

(* Of two times that are near, the comparison finds the later one, across  *)
(* the wrap of the clock.                                                  *)
LEMMA ComparesNear ==
    ASSUME NEW t1 \in Ticks, NEW t2 \in Ticks, NEW n \in Ticks,
           Near(Signed(t1, n)), Near(Signed(t2, n))
    PROVE  TIME_COMPARE_BIG(t1, t2) <=> Signed(t1, n) >= Signed(t2, n)
  <1>1. /\ Minus(t1, t2) = (IF t1 < t2 THEN t1 - t2 + Wrap ELSE t1 - t2)
        /\ Signed(t1, n) \in {t1 - n, t1 - n + Wrap, t1 - n - Wrap}
        /\ Signed(t2, n) \in {t2 - n, t2 - n + Wrap, t2 - n - Wrap}
        /\ 0 \in 0 .. Wrap
    BY ClockIs, SignedIs, WindowIs
  <1> QED BY <1>1, WindowIs DEF TIME_COMPARE_BIG, Near, Ticks

(* A time that is near has expired if it is at most the margin ahead.      *)
LEMMA ExpiresNear ==
    ASSUME NEW t \in Ticks, NEW n \in Ticks, Near(Signed(t, n))
    PROVE  blt_is_timer_expired(t, n) <=> Signed(t, n) <= Pre
  <1>1. Pre \in 0 .. Wrap
    BY WindowIs
  <1>2. /\ Plus(n, Pre) \in Ticks /\ Plus(n, Pre) \in {n + Pre, n + Pre - Wrap}
    BY <1>1, ClockIs
  <1>3. Minus(Plus(n, Pre), t) = (IF Plus(n, Pre) < t THEN Plus(n, Pre) - t + Wrap ELSE Plus(n, Pre) - t)
    BY <1>1, <1>2, ClockIs
  <1>4. Signed(t, n) \in {t - n, t - n + Wrap, t - n - Wrap}
    BY SignedIs
  <1> QED BY <1>2, <1>3, <1>4, WindowIs DEF blt_is_timer_expired, Near, Ticks

(* A time that is d ahead, within the window, is measured as d ahead.      *)
LEMMA SignedPlus ==
    ASSUME NEW n \in Ticks, NEW d \in 0 .. Window
    PROVE  Plus(n, d) \in Ticks /\ Signed(Plus(n, d), n) = d
  <1>1. d \in 0 .. Wrap
    BY WindowIs
  <1>2. Plus(n, d) \in Ticks /\ Plus(n, d) = (IF n + d < Wrap THEN n + d ELSE n + d - Wrap)
    BY <1>1, ClockIs
  <1>3. Minus(Plus(n, d), n) = (IF Plus(n, d) < n THEN Plus(n, d) - n + Wrap ELSE Plus(n, d) - n)
    BY <1>1, <1>2, ClockIs
  <1> QED BY <1>2, <1>3, WindowIs DEF Signed, Ticks

(* What is measured as the clock advances by one.                          *)
LEMMA TickLater ==
    ASSUME NEW t \in Ticks, NEW n \in Ticks, -Window < Signed(t, n)
    PROVE  Plus(n, 1) \in Ticks /\ Signed(t, Plus(n, 1)) = Signed(t, n) - 1
  <1>1. 1 \in 0 .. Wrap
    BY WindowIs
  <1>2. Plus(n, 1) \in Ticks /\ Plus(n, 1) = (IF n + 1 < Wrap THEN n + 1 ELSE n + 1 - Wrap)
    BY <1>1, ClockIs
  <1>3. /\ Minus(t, n) = (IF t < n THEN t - n + Wrap ELSE t - n)
        /\ Minus(t, Plus(n, 1)) = (IF t < Plus(n, 1) THEN t - Plus(n, 1) + Wrap ELSE t - Plus(n, 1))
    BY <1>1, <1>2, ClockIs
  <1> QED BY <1>2, <1>3, WindowIs DEF Signed, Ticks

-----------------------------------------------------------------------------
Entries == [cb : Callback, t : Ticks, interval : {i \in Nat : IntervalOK(i)}]

OneEach(table, m) == \A i, j \in 1 .. m : table[i].cb = table[j].cb => i = j
AllNear(table, m, n) == \A i \in 1 .. m : Near(Signed(table[i].t, n))

(* The tables with the entries of one, in any order.                       *)
Arrangements(table, m) ==
    {s \in [1 .. m -> Entries] : /\ \A i \in 1 .. m : \E j \in 1 .. m : s[i] = table[j]
                                 /\ \A j \in 1 .. m : \E i \in 1 .. m : s[i] = table[j]
                                 /\ OneEach(s, m)}

(* What an arrangement has of the table.                                   *)
LEMMA ArrangementIs ==
    ASSUME NEW m \in Nat, NEW table, NEW n, AllNear(table, m, n), NEW s \in Arrangements(table, m)
    PROVE  /\ s \in [1 .. m -> Entries] /\ OneEach(s, m) /\ AllNear(s, m, n)
           /\ \A i \in 1 .. m : \E j \in 1 .. m : s[i] = table[j]
           /\ \A j \in 1 .. m : \E i \in 1 .. m : s[i] = table[j]
  BY DEF Arrangements, AllNear

(* What is measured is a number.                                           *)
LEMMA NearIs == ASSUME NEW t \in Ticks, NEW n \in Ticks
                PROVE  Signed(t, n) \in Int
  BY SignedIs, WindowIs

(* Two neighbours, in order.                                               *)
LEMMA ExchangedIs ==
    ASSUME NEW m \in Nat, NEW n \in Ticks, NEW table, AllNear(table, m, n),
           NEW s \in Arrangements(table, m), NEW j \in 1 .. m - 1
    PROVE  LET r == Exchanged(s, j)
           IN  /\ r \in Arrangements(table, m)
               /\ \A a \in 1 .. m : a # j /\ a # j + 1 => r[a] = s[a]
               /\ \/ r[j] = s[j] /\ r[j + 1] = s[j + 1]
                  \/ /\ r[j] = s[j + 1] /\ r[j + 1] = s[j]
                     /\ Signed(s[j].t, n) >= Signed(s[j + 1].t, n)
               /\ Signed(r[j].t, n) <= Signed(r[j + 1].t, n)
  <1> DEFINE r == Exchanged(s, j)
  <1>1. /\ s \in [1 .. m -> Entries] /\ OneEach(s, m) /\ AllNear(s, m, n)
        /\ \A i \in 1 .. m : \E h \in 1 .. m : s[i] = table[h]
        /\ \A h \in 1 .. m : \E i \in 1 .. m : s[i] = table[h]
    BY ArrangementIs
  <1>2. j \in 1 .. m /\ j + 1 \in 1 .. m /\ j # j + 1
    OBVIOUS
  <1>3. s[j] \in Entries /\ s[j + 1] \in Entries
    BY <1>1, <1>2
  <1>4. s[j].t \in Ticks /\ s[j + 1].t \in Ticks
    BY <1>3 DEF Entries
  <1>5. /\ Near(Signed(s[j].t, n)) /\ Near(Signed(s[j + 1].t, n))
        /\ Signed(s[j].t, n) \in Int /\ Signed(s[j + 1].t, n) \in Int
    BY <1>1, <1>2, <1>4, NearIs DEF AllNear
  <1>6. TIME_COMPARE_BIG(s[j].t, s[j + 1].t) <=> Signed(s[j].t, n) >= Signed(s[j + 1].t, n)
    BY <1>4, <1>5, ComparesNear
  <1>7. CASE ~TIME_COMPARE_BIG(s[j].t, s[j + 1].t)
    <2>1. Exchanged(s, j) = s
      BY <1>7 DEF Exchanged
    <2> QED BY <1>5, <1>6, <1>7, <2>1
  <1>8. CASE TIME_COMPARE_BIG(s[j].t, s[j + 1].t)
    <2>1. r = [s EXCEPT ![j] = s[j + 1], ![j + 1] = s[j]]
      BY <1>8 DEF Exchanged
    <2> HIDE DEF r
    <2>2. /\ r \in [1 .. m -> Entries] /\ r[j] = s[j + 1] /\ r[j + 1] = s[j]
          /\ \A a \in 1 .. m : a # j /\ a # j + 1 => r[a] = s[a]
      BY <1>1, <1>2, <1>3, <2>1
    <2>3. \A a \in 1 .. m : \E x \in 1 .. m : /\ r[a] = s[x] /\ s[a] = r[x]
                                              /\ x = IF a = j THEN j + 1 ELSE IF a = j + 1 THEN j ELSE a
      BY <1>2, <2>2
    <2>4. \A a, b \in 1 .. m : r[a].cb = r[b].cb => a = b
      <3> SUFFICES ASSUME NEW a \in 1 .. m, NEW b \in 1 .. m, r[a].cb = r[b].cb PROVE a = b
        OBVIOUS
      <3>1. PICK x \in 1 .. m : r[a] = s[x] /\ x = IF a = j THEN j + 1 ELSE IF a = j + 1 THEN j ELSE a
        BY <2>3
      <3>2. PICK y \in 1 .. m : r[b] = s[y] /\ y = IF b = j THEN j + 1 ELSE IF b = j + 1 THEN j ELSE b
        BY <2>3
      <3>3. x = y
        <4>1. s[x].cb = s[y].cb
          BY <3>1, <3>2
        <4>2. \A c, d \in 1 .. m : s[c].cb = s[d].cb => c = d
          BY <1>1 DEF OneEach
        <4> QED BY <4>1, <4>2
      <3> QED BY <1>2, <3>1, <3>2, <3>3
    <2>5. \A a \in 1 .. m : \E h \in 1 .. m : r[a] = table[h]
      <3> SUFFICES ASSUME NEW a \in 1 .. m PROVE \E h \in 1 .. m : r[a] = table[h]
        OBVIOUS
      <3>1. PICK x \in 1 .. m : r[a] = s[x]
        BY <2>3
      <3> QED BY <1>1, <3>1
    <2>6. \A h \in 1 .. m : \E a \in 1 .. m : r[a] = table[h]
      <3> SUFFICES ASSUME NEW h \in 1 .. m PROVE \E a \in 1 .. m : r[a] = table[h]
        OBVIOUS
      <3>1. PICK i \in 1 .. m : s[i] = table[h]
        BY <1>1
      <3>2. PICK x \in 1 .. m : s[i] = r[x]
        BY <2>3
      <3> QED BY <3>1, <3>2
    <2>7. r \in Arrangements(table, m)
      BY <2>2, <2>4, <2>5, <2>6 DEF Arrangements, OneEach
    <2> QED BY <1>5, <1>6, <1>8, <2>2, <2>7 DEF r
  <1> QED BY <1>7, <1>8

Keys(s, m, n) == [a \in 1 .. m |-> Signed(s[a].t, n)]

(* The entries behind the first q are in order, and behind all others.     *)
TopInOrder(key, m, q) == \A b \in 1 .. m : b > q => \A a \in 1 .. b : key[a] <= key[b]
(* The entry at x is later than all before it and earlier than all behind. *)
Alone(key, m, x) == \A a \in 1 .. m : (a < x => key[a] < key[x]) /\ (a > x => key[x] < key[a])
(* Such an entry stays where it is.                                        *)
Stays(base, s, m, n) == \A x \in 1 .. m : Alone(Keys(base, m, n), m, x) =>
                            s[x] = base[x] /\ Alone(Keys(s, m, n), m, x)

(* The keys are numbers.                                                   *)
LEMMA KeysAre ==
    ASSUME NEW m \in Nat, NEW n \in Ticks, NEW s \in [1 .. m -> Entries]
    PROVE  /\ Keys(s, m, n) \in [1 .. m -> Int]
           /\ \A a \in 1 .. m : Keys(s, m, n)[a] = Signed(s[a].t, n) /\ s[a].t \in Ticks
  <1>1. \A a \in 1 .. m : s[a].t \in Ticks
    BY DEF Entries
  <1>2. \A a \in 1 .. m : Signed(s[a].t, n) \in Int
    BY <1>1, NearIs
  <1> QED BY <1>1, <1>2 DEF Keys

(* Two neighbours in a pass over the first k.                              *)
LEMMA PassGoesOn ==
    ASSUME NEW m \in Nat, NEW k \in 1 .. m, NEW j \in 1 .. k - 1,
           NEW f \in [1 .. m -> Int], NEW g \in [1 .. m -> Int],
           \A a \in 1 .. m : a # j /\ a # j + 1 => g[a] = f[a],
           \/ g[j] = f[j] /\ g[j + 1] = f[j + 1]
           \/ g[j] = f[j + 1] /\ g[j + 1] = f[j] /\ f[j] >= f[j + 1],
           g[j] <= g[j + 1], TopInOrder(f, m, k), \A a \in 1 .. j : f[a] <= f[j]
    PROVE  /\ TopInOrder(g, m, k) /\ \A a \in 1 .. j + 1 : g[a] <= g[j + 1]
           /\ \A x \in 1 .. m : Alone(f, m, x) => Alone(g, m, x)
  <1>1. j \in 1 .. m /\ j + 1 \in 1 .. m /\ j < k /\ j + 1 <= k
    OBVIOUS
  <1>2. ASSUME NEW b \in 1 .. m, b > k, NEW a \in 1 .. b PROVE g[a] <= g[b]
    <2>1. a \in 1 .. m /\ j \in 1 .. b /\ j + 1 \in 1 .. b /\ b # j /\ b # j + 1
      BY <1>1, <1>2
    <2>2. f[a] <= f[b] /\ f[j] <= f[b] /\ f[j + 1] <= f[b] /\ g[b] = f[b]
      BY <1>2, <2>1 DEF TopInOrder
    <2>3. g[a] \in {f[a], f[j], f[j + 1]}
      BY <1>1, <2>1
    <2> QED BY <2>2, <2>3
  <1>3. ASSUME NEW a \in 1 .. j + 1 PROVE g[a] <= g[j + 1]
    <2>1. CASE a = j \/ a = j + 1
      BY <1>1, <2>1
    <2>2. CASE a \in 1 .. j - 1
      <3>1. a \in 1 .. m /\ a \in 1 .. j /\ g[a] = f[a] /\ f[a] <= f[j]
        BY <1>1, <2>2
      <3> QED BY <1>1, <3>1
    <2> QED BY <1>3, <2>1, <2>2
  <1>4. ASSUME NEW x \in 1 .. m, Alone(f, m, x)
        PROVE  Alone(g, m, x)
    <2>1. CASE x = j \/ x = j + 1
      <3>1. f[j] < f[j + 1]
        BY <1>1, <1>4, <2>1 DEF Alone
      <3>2. g[j] = f[j] /\ g[j + 1] = f[j + 1]
        BY <1>1, <3>1
      <3>3. \A a \in 1 .. m : g[a] = f[a]
        BY <1>1, <3>2
      <3> QED BY <1>1, <1>4, <3>1, <3>2, <3>3 DEF Alone
    <2>2. CASE x # j /\ x # j + 1
      <3>1. g[x] = f[x]
        BY <2>2
      <3>2. \A a \in 1 .. m : (a < x => f[a] < f[x]) /\ (a > x => f[x] < f[a])
        BY <1>4 DEF Alone
      <3>3. ASSUME NEW a \in 1 .. m
            PROVE  (a < x => g[a] < g[x]) /\ (a > x => g[x] < g[a])
        <4>1. CASE a # j /\ a # j + 1
          BY <3>1, <3>2, <4>1
        <4>2. CASE a = j \/ a = j + 1
          <5>1. g[a] = f[j] \/ g[a] = f[j + 1]
            BY <4>2
          <5>2. /\ j < x <=> j + 1 < x
                /\ j > x <=> j + 1 > x
            BY <2>2
          <5>3. (a < x <=> j < x) /\ (a > x <=> j > x)
            BY <4>2, <5>2
          <5>4. /\ (j < x => f[j] < f[x]) /\ (j > x => f[x] < f[j])
                /\ (j + 1 < x => f[j + 1] < f[x]) /\ (j + 1 > x => f[x] < f[j + 1])
            BY <1>1, <3>2
          <5> QED BY <3>1, <5>1, <5>2, <5>3, <5>4
        <4> QED BY <4>1, <4>2
      <3> QED BY <2>2, <3>3 DEF Alone
    <2> QED BY <2>1, <2>2
  <1> QED BY <1>2, <1>3, <1>4 DEF TopInOrder

(* The tables a pass over the first k goes through.                        *)
Passing(table, base, m, n, k, j) ==
    {s \in Arrangements(table, m) :
        /\ TopInOrder(Keys(s, m, n), m, k)
        /\ \A a \in 1 .. j + 1 : Keys(s, m, n)[a] <= Keys(s, m, n)[j + 1]
        /\ Stays(base, s, m, n)}

(* One exchange takes a pass to its next state.                            *)
LEMMA ExchangedPasses ==
    ASSUME NEW m \in Nat, NEW n \in Ticks, NEW table, AllNear(table, m, n), NEW base,
           NEW k \in 1 .. m, NEW j \in 1 .. k - 1, NEW s \in Passing(table, base, m, n, k, j - 1)
    PROVE  Exchanged(s, j) \in Passing(table, base, m, n, k, j)
  <1> DEFINE r == Exchanged(s, j)  f == Keys(s, m, n)  g == Keys(r, m, n)
  <1>1. /\ s \in Arrangements(table, m) /\ TopInOrder(f, m, k) /\ Stays(base, s, m, n)
        /\ \A a \in 1 .. j : f[a] <= f[j]
    <2>1. (j - 1) + 1 = j
      OBVIOUS
    <2> QED BY <2>1 DEF Passing
  <1>2. j \in 1 .. m - 1 /\ j \in 1 .. m /\ j + 1 \in 1 .. m
    OBVIOUS
  <1>3. /\ r \in Arrangements(table, m)
        /\ \A a \in 1 .. m : a # j /\ a # j + 1 => r[a] = s[a]
        /\ \/ r[j] = s[j] /\ r[j + 1] = s[j + 1]
           \/ /\ r[j] = s[j + 1] /\ r[j + 1] = s[j]
              /\ Signed(s[j].t, n) >= Signed(s[j + 1].t, n)
        /\ Signed(r[j].t, n) <= Signed(r[j + 1].t, n)
    BY <1>1, <1>2, ExchangedIs
  <1> HIDE DEF r
  <1>4. s \in [1 .. m -> Entries] /\ r \in [1 .. m -> Entries]
    BY <1>1, <1>3, ArrangementIs
  <1>5. /\ f \in [1 .. m -> Int] /\ g \in [1 .. m -> Int]
        /\ \A a \in 1 .. m : f[a] = Signed(s[a].t, n) /\ g[a] = Signed(r[a].t, n)
    BY <1>4, KeysAre
  <1>6. /\ \A a \in 1 .. m : a # j /\ a # j + 1 => g[a] = f[a]
        /\ \/ r[j] = s[j] /\ r[j + 1] = s[j + 1] /\ g[j] = f[j] /\ g[j + 1] = f[j + 1]
           \/ r[j] = s[j + 1] /\ r[j + 1] = s[j] /\ g[j] = f[j + 1] /\ g[j + 1] = f[j] /\ f[j] >= f[j + 1]
        /\ g[j] <= g[j + 1]
    BY <1>2, <1>3, <1>5
  <1> HIDE DEF f, g
  <1>7. /\ TopInOrder(g, m, k) /\ \A a \in 1 .. j + 1 : g[a] <= g[j + 1]
        /\ \A x \in 1 .. m : Alone(f, m, x) => Alone(g, m, x)
    <2>1. \/ g[j] = f[j] /\ g[j + 1] = f[j + 1]
          \/ g[j] = f[j + 1] /\ g[j + 1] = f[j] /\ f[j] >= f[j + 1]
      BY <1>6
    <2>2. /\ f \in [1 .. m -> Int] /\ g \in [1 .. m -> Int] /\ g[j] <= g[j + 1]
          /\ \A a \in 1 .. m : a # j /\ a # j + 1 => g[a] = f[a]
      BY <1>5, <1>6
    <2>3. TopInOrder(f, m, k) /\ \A a \in 1 .. j : f[a] <= f[j]
      BY <1>1
    <2>4. j \in 1 .. k - 1 /\ k \in 1 .. m /\ m \in Nat
      OBVIOUS
    <2>5. TopInOrder(g, m, k)
      BY <2>1, <2>2, <2>3, <2>4, PassGoesOn
    <2>6. \A a \in 1 .. j + 1 : g[a] <= g[j + 1]
      BY <2>1, <2>2, <2>3, <2>4, PassGoesOn
    <2>7. \A x \in 1 .. m : Alone(f, m, x) => Alone(g, m, x)
      BY <2>1, <2>2, <2>3, <2>4, PassGoesOn
    <2> QED BY <2>5, <2>6, <2>7
  <1>8. Stays(base, r, m, n)
    <2> SUFFICES ASSUME NEW x \in 1 .. m, Alone(Keys(base, m, n), m, x)
                 PROVE  r[x] = base[x] /\ Alone(g, m, x)
      BY DEF Stays, g
    <2>1. s[x] = base[x] /\ Alone(f, m, x)
      BY <1>1 DEF Stays, f
    <2>2. Alone(g, m, x)
      BY <1>7, <2>1
    <2>3. r[x] = s[x]
      <3>1. CASE x # j /\ x # j + 1
        BY <1>3, <3>1
      <3>2. CASE x = j \/ x = j + 1
        <4>1. g[j] = f[j] /\ f[j] < f[j + 1] /\ f[j] \in Int /\ f[j + 1] \in Int
          <5>1. f[j] < f[j + 1]
            BY <1>2, <2>1, <3>2 DEF Alone
          <5>2. f[j] \in Int /\ f[j + 1] \in Int
            BY <1>2, <1>5
          <5> QED BY <1>6, <5>1, <5>2
        <4>2. r[j] = s[j] /\ r[j + 1] = s[j + 1]
          BY <1>6, <4>1
        <4> QED BY <3>2, <4>2
      <3> QED BY <3>1, <3>2
    <2> QED BY <2>1, <2>2, <2>3
  <1> QED BY <1>3, <1>7, <1>8 DEF Passing, r, g

(* One pass puts the latest of the first k behind the others.              *)
LEMMA BubbledIs ==
    ASSUME NEW m \in Nat, NEW n \in Ticks, NEW table, AllNear(table, m, n),
           NEW k \in 1 .. m, NEW base \in Arrangements(table, m), TopInOrder(Keys(base, m, n), m, k)
    PROVE  LET r == Bubbled(base, k)
           IN  /\ r \in Arrangements(table, m) /\ TopInOrder(Keys(r, m, n), m, k - 1)
               /\ Stays(base, r, m, n)
  <1> DEFINE q == k - 1
             S == [j \in 0 .. q |-> Passing(table, base, m, n, k, j)]
             step == [xi \in Arrangements(table, m) \X (1 .. q) |-> Exchanged(xi[1], xi[2])]
             Rec(h) == h = [j \in 0 .. q |-> IF j = 0 THEN base ELSE Exchanged(h[j - 1], j)]
  <1>1. q \in Nat /\ q + 1 = k /\ \A j \in 1 .. q : j \in 0 .. q /\ j - 1 \in 0 .. q /\ j \in 1 .. k - 1
    OBVIOUS
  <1>2. Bubbled(base, k) = (CHOOSE h : Rec(h))[q]
    BY Zenon DEF Bubbled
  <1>3. ASSUME NEW j \in 1 .. q, NEW x \in S[j - 1]
        PROVE  Exchanged(x, j) \in S[j] /\ step[<<x, j>>] = Exchanged(x, j)
    <2>1. x \in Passing(table, base, m, n, k, j - 1) /\ S[j] = Passing(table, base, m, n, k, j)
      BY <1>1
    <2>2. Exchanged(x, j) \in Passing(table, base, m, n, k, j)
      BY <1>1, <2>1, ExchangedPasses
    <2>3. x \in Arrangements(table, m)
      BY <2>1 DEF Passing
    <2> QED BY <2>1, <2>2, <2>3
  <1>4. base \in S[0]
    <2>1. base \in [1 .. m -> Entries]
      BY ArrangementIs
    <2>2. Keys(base, m, n) \in [1 .. m -> Int] /\ 1 \in 1 .. m
      BY <2>1, KeysAre
    <2>3. \A a \in 1 .. 0 + 1 : Keys(base, m, n)[a] <= Keys(base, m, n)[0 + 1]
      BY <2>2
    <2>4. base \in Passing(table, base, m, n, k, 0)
      BY <2>3 DEF Passing, Stays
    <2> QED BY <2>4
  <1> HIDE DEF q, S, step
  <1>5. PICK h : Iteration(q, base, step, h) /\ StaysIn(q, S, h)
    <2>1. Leads(q, step, S)
      BY <1>3 DEF Leads
    <2> QED BY <1>1, <1>4, <2>1, Iterated
  <1>6. Rec(h)
    <2> DEFINE g == [j \in 0 .. q |-> IF j = 0 THEN base ELSE Exchanged(h[j - 1], j)]
    <2>1. \A j \in 1 .. q : step[<<h[j - 1], j>>] = Exchanged(h[j - 1], j)
      BY <1>1, <1>3, <1>5 DEF StaysIn
    <2>2. \A j \in 0 .. q : j = 0 \/ j \in 1 .. q
      BY <1>1
    <2>3. \A j \in 0 .. q : h[j] = g[j]
      BY <1>5, <2>1, <2>2 DEF Iteration
    <2> QED BY <1>5, <2>3 DEF Iteration
  <1> DEFINE f == CHOOSE h2 : Rec(h2)
  <1>7. Rec(f)
    <2> HIDE DEF Rec
    <2> QED BY <1>6
  <1> HIDE DEF f
  <1>8. f[0] = base /\ \A j \in 1 .. q : f[j] = Exchanged(f[j - 1], j)
    BY <1>1, <1>7
  <1> HIDE DEF Rec
  <1> DEFINE T == {j \in 0 .. q : f[j] \in S[j]}
  <1>9. q \in T
    <2>1. 0 \in T
      BY <1>1, <1>4, <1>8
    <2>2. \A j \in 1 .. q : j - 1 \in T => j \in T
      BY <1>1, <1>3, <1>8
    <2> HIDE DEF T
    <2>3. \A j \in 0 .. q : j \in T
      BY <1>1, <2>1, <2>2, Induction
    <2> QED BY <1>1, <2>3
  <1>10. f[q] \in Passing(table, base, m, n, k, q)
    BY <1>1, <1>9 DEF S
  <1> DEFINE r == f[q]
  <1>11. /\ r \in Arrangements(table, m) /\ TopInOrder(Keys(r, m, n), m, k) /\ Stays(base, r, m, n)
         /\ \A a \in 1 .. k : Keys(r, m, n)[a] <= Keys(r, m, n)[k]
    BY <1>1, <1>10 DEF Passing
  <1> HIDE DEF r
  <1>12. TopInOrder(Keys(r, m, n), m, k - 1)
    <2> SUFFICES ASSUME NEW b \in 1 .. m, b > k - 1
                 PROVE  \A a \in 1 .. b : Keys(r, m, n)[a] <= Keys(r, m, n)[b]
      BY DEF TopInOrder
    <2>1. CASE b = k
      BY <1>11, <2>1
    <2>2. CASE b > k
      BY <1>11, <2>2 DEF TopInOrder
    <2> QED BY <2>1, <2>2
  <1>13. Bubbled(base, k) = r
    BY <1>2 DEF r, f
  <1> QED BY <1>11, <1>12, <1>13

Sorting(table, m, n, i) ==
    {s \in Arrangements(table, m) : TopInOrder(Keys(s, m, n), m, m - i) /\ Stays(table, s, m, n)}

(* The sort returns the entries of the table, in the order of their times; *)
(* an entry later than all before it and earlier than all behind stays in  *)
(* its place.                                                              *)
LEMMA SortIs ==
    ASSUME NEW m \in Nat \ {0}, NEW n \in Ticks, NEW table \in [1 .. m -> Entries],
           OneEach(table, m), AllNear(table, m, n)
    PROVE  LET r == blt_soft_timer_sort(table)
           IN  /\ r \in Arrangements(table, m) /\ Stays(table, r, m, n)
               /\ \A b \in 1 .. m : \A a \in 1 .. b : Keys(r, m, n)[a] <= Keys(r, m, n)[b]
  <1> DEFINE q == m - 1
             S == [i \in 0 .. q |-> Sorting(table, m, n, i)]
             step == [xi \in Arrangements(table, m) \X (1 .. q) |-> Bubbled(xi[1], m - xi[2] + 1)]
             Rec(h) == h = [i \in 0 .. q |-> IF i = 0 THEN table ELSE Bubbled(h[i - 1], m - i + 1)]
  <1>1. q \in Nat /\ \A i \in 1 .. q : i \in 0 .. q /\ i - 1 \in 0 .. q /\ m - i + 1 \in 1 .. m
    OBVIOUS
  <1>2. blt_soft_timer_sort(table) = (CHOOSE h : Rec(h))[q]
    <2>1. Len(table) = m
      OBVIOUS
    <2>2. blt_soft_timer_sort(table) =
             (CHOOSE h : h = [i \in 0 .. Len(table) - 1 |->
                              IF i = 0 THEN table ELSE Bubbled(h[i - 1], Len(table) - i + 1)])[Len(table) - 1]
      BY Zenon DEF blt_soft_timer_sort
    <2> QED BY <2>1, <2>2, Zenon
  <1>3. ASSUME NEW i \in 1 .. q, NEW x \in S[i - 1]
        PROVE  Bubbled(x, m - i + 1) \in S[i] /\ step[<<x, i>>] = Bubbled(x, m - i + 1)
    <2> DEFINE k == m - i + 1  r == Bubbled(x, k)
    <2>1. x \in Sorting(table, m, n, i - 1) /\ S[i] = Sorting(table, m, n, i)
      BY <1>1
    <2>2. k \in 1 .. m /\ k - 1 = m - i /\ m - (i - 1) = k
      BY <1>1
    <2>3. x \in Arrangements(table, m) /\ TopInOrder(Keys(x, m, n), m, k) /\ Stays(table, x, m, n)
      BY <2>1, <2>2 DEF Sorting
    <2>4. step[<<x, i>>] = r
      BY <2>3
    <2> HIDE DEF S, step, k
    <2>5. r \in Arrangements(table, m) /\ TopInOrder(Keys(r, m, n), m, k - 1) /\ Stays(x, r, m, n)
      BY <2>2, <2>3, BubbledIs
    <2> HIDE DEF r
    <2>6. Stays(table, r, m, n)
      BY <2>3, <2>5 DEF Stays
    <2>7. r \in Sorting(table, m, n, i)
      BY <2>2, <2>5, <2>6 DEF Sorting
    <2> QED BY <2>1, <2>4, <2>7 DEF r, k
  <1>4. table \in S[0]
    <2>1. table \in Arrangements(table, m)
      BY DEF Arrangements
    <2>2. TopInOrder(Keys(table, m, n), m, m - 0) /\ Stays(table, table, m, n)
      BY DEF TopInOrder, Stays
    <2> QED BY <1>1, <2>1, <2>2 DEF Sorting
  <1> HIDE DEF q, S, step
  <1>5. PICK h : Iteration(q, table, step, h) /\ StaysIn(q, S, h)
    <2>1. Leads(q, step, S)
      BY <1>3 DEF Leads
    <2> QED BY <1>1, <1>4, <2>1, Iterated
  <1>6. Rec(h)
    <2> DEFINE g == [i \in 0 .. q |-> IF i = 0 THEN table ELSE Bubbled(h[i - 1], m - i + 1)]
    <2>1. \A i \in 1 .. q : step[<<h[i - 1], i>>] = Bubbled(h[i - 1], m - i + 1)
      BY <1>1, <1>3, <1>5 DEF StaysIn
    <2>2. \A i \in 0 .. q : i = 0 \/ i \in 1 .. q
      BY <1>1
    <2>3. \A i \in 0 .. q : h[i] = g[i]
      BY <1>5, <2>1, <2>2 DEF Iteration
    <2> QED BY <1>5, <2>3 DEF Iteration
  <1> DEFINE f == CHOOSE h2 : Rec(h2)
  <1>7. Rec(f)
    <2> HIDE DEF Rec
    <2> QED BY <1>6
  <1> HIDE DEF f
  <1>8. f[0] = table /\ \A i \in 1 .. q : f[i] = Bubbled(f[i - 1], m - i + 1)
    BY <1>1, <1>7
  <1> HIDE DEF Rec
  <1> DEFINE T == {i \in 0 .. q : f[i] \in S[i]}
  <1>9. q \in T
    <2>1. 0 \in T
      BY <1>1, <1>4, <1>8
    <2>2. \A i \in 1 .. q : i - 1 \in T => i \in T
      BY <1>1, <1>3, <1>8
    <2> HIDE DEF T
    <2>3. \A i \in 0 .. q : i \in T
      BY <1>1, <2>1, <2>2, Induction
    <2> QED BY <1>1, <2>3
  <1>10. f[q] \in Sorting(table, m, n, q)
    BY <1>1, <1>9 DEF S
  <1> DEFINE r == f[q]
  <1>11. r \in Arrangements(table, m) /\ TopInOrder(Keys(r, m, n), m, 1) /\ Stays(table, r, m, n)
    <2>1. m - q = 1
      BY DEF q
    <2> QED BY <1>10, <2>1 DEF Sorting
  <1> HIDE DEF r
  <1>12. \A b \in 1 .. m : \A a \in 1 .. b : Keys(r, m, n)[a] <= Keys(r, m, n)[b]
    <2> SUFFICES ASSUME NEW b \in 1 .. m, NEW a \in 1 .. b
                 PROVE  Keys(r, m, n)[a] <= Keys(r, m, n)[b]
      OBVIOUS
    <2>1. CASE b > 1
      BY <1>11, <2>1 DEF TopInOrder
    <2>2. CASE b = 1
      <3>1. a = b /\ b \in 1 .. m
        BY <2>2
      <3>2. r \in [1 .. m -> Entries]
        BY <1>11, ArrangementIs
      <3>3. Keys(r, m, n) \in [1 .. m -> Int]
        BY <3>2, KeysAre
      <3>4. Keys(r, m, n)[a] = Keys(r, m, n)[b] /\ Keys(r, m, n)[b] \in Int
        BY <3>1, <3>3
      <3> QED BY <3>4
    <2> QED BY <2>1, <2>2
  <1>13. blt_soft_timer_sort(table) = r
    BY <1>2 DEF r, f
  <1> QED BY <1>11, <1>12, <1>13

Distinct(table) == \A i, j \in 1 .. Len(table) : table[i].cb = table[j].cb => i = j
IsTable(table) == table \in Seq(Entries) /\ Len(table) <= MAX_TIMER_NUM /\ Distinct(table)

(* In the order of the times, as they are on a clock that shows n.         *)
InOrder(table, n) == \A j \in 1 .. Len(table) : \A i \in 1 .. j :
                        Signed(table[i].t, n) <= Signed(table[j].t, n)

(* The further to the front an entry is, the longer it may be due: k more  *)
(* turns than there are entries before it are left for it.                 *)
InTime(e, i, n, k) ==
    /\ Signed(e.t, n) <= Window - Late
    /\ Signed(e.t, n) > Pre \/ Signed(e.t, n) >= Pre - MAX_TIMER_NUM + i + k
Timely(table, n, k) == \A i \in 1 .. Len(table) : InTime(table[i], i, n, k)

FirstDue(table, n) == table # <<>> /\ Signed(table[1].t, n) <= Pre
FirstLater(table, n) == table # <<>> /\ Signed(table[1].t, n) > Pre

(* The fields of an entry.                                                 *)
LEMMA EntryIs ==
    ASSUME NEW e \in Entries, NEW n \in Ticks
    PROVE  /\ e.cb \in Callback /\ e.t \in Ticks /\ e.interval \in Nat /\ IntervalOK(e.interval)
           /\ Signed(e.t, n) \in Int
  <1>1. e.cb \in Callback /\ e.t \in Ticks /\ e.interval \in Nat /\ IntervalOK(e.interval)
    BY DEF Entries
  <1> QED BY <1>1, NearIs

(* A table as a function, and its entries.                                 *)
LEMMA TableIs ==
    ASSUME NEW table, IsTable(table), NEW n \in Ticks
    PROVE  /\ Len(table) \in Nat /\ Len(table) <= MAX_TIMER_NUM /\ table \in [1 .. Len(table) -> Entries]
           /\ \A i \in 1 .. Len(table) : /\ i \in Nat /\ i >= 1 /\ i <= MAX_TIMER_NUM /\ table[i] \in Entries
                                         /\ Signed(table[i].t, n) \in Int
  <1>1. table \in Seq(Entries) /\ Len(table) <= MAX_TIMER_NUM
    BY DEF IsTable
  <1>2. Len(table) \in Nat /\ table \in [1 .. Len(table) -> Entries]
    BY <1>1
  <1>3. \A i \in 1 .. Len(table) : table[i] \in Entries
    BY <1>2
  <1>4. \A i \in 1 .. Len(table) : Signed(table[i].t, n) \in Int
    BY <1>3, EntryIs
  <1> QED BY <1>1, <1>2, <1>3, <1>4, WindowIs

(* What is in time is near enough for the comparisons.                     *)
LEMMA TimelyIsNear ==
    ASSUME NEW table, IsTable(table), NEW n \in Ticks, NEW k \in {0, 1}, Timely(table, n, k)
    PROVE  /\ AllNear(table, Len(table), n) /\ Timely(table, n, 0)
           /\ \A i \in 1 .. Len(table) : Near(Signed(table[i].t, n))
  <1>1. ASSUME NEW i \in 1 .. Len(table)
        PROVE  Near(Signed(table[i].t, n)) /\ InTime(table[i], i, n, 0)
    <2>1. i \in Nat /\ i >= 1 /\ i <= MAX_TIMER_NUM /\ Signed(table[i].t, n) \in Int
      BY TableIs
    <2>2. InTime(table[i], i, n, k)
      BY DEF Timely
    <2> QED BY <2>1, <2>2, WindowIs DEF InTime, Near
  <1> QED BY <1>1 DEF AllNear, Timely

(* The sort, for a table with one entry of each callback.                  *)
LEMMA TableSorted ==
    ASSUME NEW table, IsTable(table), table # <<>>, NEW n \in Ticks, AllNear(table, Len(table), n)
    PROVE  LET r == blt_soft_timer_sort(table)  m == Len(table)
           IN  /\ IsTable(r) /\ Len(r) = m /\ InOrder(r, n)
               /\ \A i \in 1 .. m : \E j \in 1 .. m : r[i] = table[j]
               /\ \A j \in 1 .. m : \E i \in 1 .. m : r[i] = table[j]
               /\ Stays(table, r, m, n)
  <1> DEFINE r == blt_soft_timer_sort(table)  m == Len(table)
  <1>1. m \in Nat /\ m <= MAX_TIMER_NUM /\ table \in [1 .. m -> Entries] /\ table \in Seq(Entries)
    BY TableIs DEF IsTable
  <1>2. m \in Nat \ {0}
    BY <1>1
  <1>3. OneEach(table, m)
    BY DEF IsTable, Distinct, OneEach
  <1>4. AllNear(table, m, n)
    OBVIOUS
  <1>5. r \in Arrangements(table, m) /\ Stays(table, r, m, n)
    <2> HIDE DEF m
    <2> QED BY <1>1, <1>2, <1>3, <1>4, SortIs
  <1>6. \A b \in 1 .. m : \A a \in 1 .. b : Keys(r, m, n)[a] <= Keys(r, m, n)[b]
    <2> HIDE DEF m
    <2> QED BY <1>1, <1>2, <1>3, <1>4, SortIs
  <1> HIDE DEF m, r
  <1>7. /\ r \in [1 .. m -> Entries] /\ OneEach(r, m)
        /\ \A i \in 1 .. m : \E j \in 1 .. m : r[i] = table[j]
        /\ \A j \in 1 .. m : \E i \in 1 .. m : r[i] = table[j]
    <2>1. m \in Nat /\ AllNear(table, m, n) /\ r \in Arrangements(table, m)
      BY <1>1, <1>4, <1>5
    <2>2. r \in [1 .. m -> Entries] /\ OneEach(r, m)
      BY <2>1, ArrangementIs
    <2>3. /\ \A i \in 1 .. m : \E j \in 1 .. m : r[i] = table[j]
          /\ \A j \in 1 .. m : \E i \in 1 .. m : r[i] = table[j]
      BY <2>1, ArrangementIs
    <2> QED BY <2>2, <2>3
  <1>8. r \in Seq(Entries) /\ Len(r) = m
    BY <1>1, <1>7
  <1>9. IsTable(r)
    BY <1>1, <1>7, <1>8 DEF IsTable, OneEach, Distinct
  <1>10. \A a \in 1 .. m : Keys(r, m, n)[a] = Signed(r[a].t, n)
    BY <1>1, <1>7, KeysAre
  <1>11. ASSUME NEW j \in 1 .. Len(r), NEW i \in 1 .. j
         PROVE  Signed(r[i].t, n) <= Signed(r[j].t, n)
    <2>1. j \in 1 .. m /\ i \in 1 .. m
      BY <1>1, <1>8
    <2> QED BY <1>6, <1>10, <2>1
  <1> QED BY <1>5, <1>7, <1>8, <1>9, <1>11 DEF InOrder, m, r

(* Of top different numbers from b + 1 on, one is at least top + b.            *)
LEMMA OneIsHigh ==
    ASSUME NEW top \in Nat \ {0}, NEW b \in Nat, NEW f \in [1 .. top -> Nat],
           \A i \in 1 .. top : f[i] >= b + 1,
           \A i, j \in 1 .. top : f[i] = f[j] => i = j
    PROVE  \E i \in 1 .. top : f[i] >= top + b
  <1> SUFFICES ASSUME \A i \in 1 .. top : ~(f[i] >= top + b) PROVE FALSE
    OBVIOUS
  <1> DEFINE S == 1 .. top  T == b + 1 .. top + b - 1
  <1>1. f \in [S -> T]
    OBVIOUS
  <1>2. IsFiniteSet(S) /\ Cardinality(S) = top
    <2>1. 1 \in Int /\ top \in Int /\ ~(1 > top) /\ top - 1 + 1 = top
      OBVIOUS
    <2> QED BY <2>1, FS_Interval
  <1>3. IsFiniteSet(T) /\ Cardinality(T) = top - 1
    <2> DEFINE lo == b + 1  hi == top + b - 1
    <2>1. lo \in Int /\ hi \in Int /\ (lo > hi => top - 1 = 0) /\ hi - lo + 1 = top - 1
      OBVIOUS
    <2>2. IsFiniteSet(lo .. hi) /\ Cardinality(lo .. hi) = IF lo > hi THEN 0 ELSE hi - lo + 1
      <3> HIDE DEF lo, hi
      <3> QED BY <2>1, FS_Interval
    <2> QED BY <2>1, <2>2
  <1>4. Cardinality(T) < Cardinality(S)
    BY <1>2, <1>3
  <1> HIDE DEF S, T
  <1>5. \E x, y \in S : x # y /\ f[x] = f[y]
    BY <1>1, <1>2, <1>3, <1>4, FS_PigeonHole
  <1> QED BY <1>5 DEF S

(* The sort loses no time: an entry that is due has not more entries       *)
(* before it than there were, and fewer if the first was not due.          *)
LEMMA SortTimely ==
    ASSUME NEW table, IsTable(table), table # <<>>, NEW n \in Ticks, NEW k \in {0, 1}, NEW b \in {0, 1},
           Timely(table, n, k), b = 1 => FirstLater(table, n)
    PROVE  Timely(blt_soft_timer_sort(table), n, k + b)
  <1> DEFINE r == blt_soft_timer_sort(table)  m == Len(table)
  <1>1. /\ IsTable(r) /\ Len(r) = m /\ InOrder(r, n)
        /\ \A i \in 1 .. m : \E j \in 1 .. m : r[i] = table[j]
    BY TimelyIsNear, TableSorted
  <1>2. /\ \A i \in 1 .. m : Signed(table[i].t, n) \in Int /\ Signed(r[i].t, n) \in Int
        /\ m \in Nat
    BY <1>1, TableIs
  <1>t. Distinct(r)
    BY <1>1 DEF IsTable
  <1> HIDE DEF r, m
  <1>3. ASSUME NEW x \in 1 .. m PROVE InTime(r[x], x, n, k + b)
    <2> DEFINE key(i) == Signed(r[i].t, n)
    <2>1. PICK j \in 1 .. m : r[x] = table[j]
      BY <1>1
    <2>2. InTime(table[j], j, n, k)
      BY DEF Timely, m
    <2>3. CASE key(x) > Pre
      BY <2>1, <2>2, <2>3 DEF InTime
    <2>4. CASE key(x) <= Pre
      <3> DEFINE f == [i \in 1 .. x |-> CHOOSE h \in 1 .. m : r[i] = table[h]]
      <3>0. \A i \in 1 .. x : i \in 1 .. m
        BY <1>2
      <3>1. \A i \in 1 .. x : f[i] \in 1 .. m /\ r[i] = table[f[i]]
        <4>1. \A i \in 1 .. x : \E h \in 1 .. m : r[i] = table[h]
          BY <1>1, <3>0
        <4> QED BY <4>1
      <3> HIDE DEF f
      <3>2. \A i \in 1 .. x : key(i) <= key(x) /\ key(i) \in Int
        <4>1. x \in 1 .. Len(r)
          BY <1>1
        <4>2. \A i \in 1 .. x : Signed(r[i].t, n) <= Signed(r[x].t, n)
          BY <1>1, <4>1 DEF InOrder
        <4> QED BY <1>2, <3>0, <4>2
      <3>3. \A i \in 1 .. x : f[i] \in Nat /\ f[i] >= b + 1
        <4> SUFFICES ASSUME NEW i \in 1 .. x PROVE f[i] \in Nat /\ f[i] >= b + 1
          OBVIOUS
        <4>1. f[i] \in Nat /\ f[i] >= 1
          BY <1>2, <3>1
        <4>2. CASE b = 0
          BY <4>1, <4>2
        <4>3. CASE b = 1
          <5>1. Signed(table[1].t, n) > Pre /\ Signed(table[f[i]].t, n) <= Pre
            <6>1. Signed(table[1].t, n) > Pre
              BY <4>3 DEF FirstLater
            <6>2. Signed(table[f[i]].t, n) = key(i) /\ key(i) <= key(x) /\ key(i) \in Int /\ key(x) \in Int
              BY <1>2, <3>1, <3>2
            <6> HIDE DEF key
            <6>3. key(i) <= Pre
              BY <2>4, <6>2, WindowIs
            <6> QED BY <6>1, <6>2, <6>3
          <5>2. 1 \in 1 .. m /\ Signed(table[1].t, n) \in Int /\ Pre \in Nat
            BY <1>2, WindowIs
          <5>3. f[i] # 1
            BY <5>1, <5>2
          <5> QED BY <4>1, <4>3, <5>3
        <4> QED BY <4>2, <4>3
      <3>4. \A i, h \in 1 .. x : f[i] = f[h] => i = h
        <4> SUFFICES ASSUME NEW i \in 1 .. x, NEW h \in 1 .. x, f[i] = f[h] PROVE i = h
          OBVIOUS
        <4>1. r[i] = r[h]
          BY <3>1
        <4>2. i \in 1 .. Len(r) /\ h \in 1 .. Len(r)
          BY <1>1, <3>0
        <4> QED BY <1>t, <4>1, <4>2 DEF Distinct
      <3>5. PICK i \in 1 .. x : f[i] >= x + b
        <4>1. x \in Nat \ {0} /\ b \in Nat
          BY <1>2
        <4>2. f \in [1 .. x -> Nat]
          BY <3>3 DEF f
        <4> HIDE DEF key
        <4> QED BY <3>3, <3>4, <4>1, <4>2, OneIsHigh
      <3>6. InTime(table[f[i]], f[i], n, k)
        BY <3>1 DEF Timely, m
      <3>7. key(i) <= Pre /\ key(i) = Signed(table[f[i]].t, n) /\ key(i) \in Int /\ key(x) \in Int
        BY <2>4, <1>2, <3>1, <3>2, WindowIs
      <3>8. key(i) >= Pre - MAX_TIMER_NUM + f[i] + k
        BY <3>6, <3>7, <3>1, <1>2, WindowIs DEF InTime
      <3>9. key(x) >= Pre - MAX_TIMER_NUM + x + (k + b)
        BY <3>2, <3>3, <3>5, <3>7, <3>8, WindowIs
      <3>10. key(x) <= Window - Late
        BY <2>1, <2>2 DEF InTime
      <3> QED BY <3>9, <3>10 DEF InTime
    <2> QED BY <1>2, <2>3, <2>4, WindowIs
  <1> QED BY <1>1, <1>3 DEF Timely, r

(* The entry of a callback: a set of one, or of none.                      *)
View(table, c) == {table[i] : i \in PlacesOf(table, c)}

(* The entry of a callback is where the callback stands.                   *)
LEMMA ViewIs ==
    ASSUME NEW table, IsTable(table)
    PROVE  /\ \A i \in 1 .. Len(table) : View(table, table[i].cb) = {table[i]}
           /\ \A c : View(table, c) = {} <=> PlacesOf(table, c) = {}
           /\ \A c, e : e \in View(table, c) <=> \E i \in 1 .. Len(table) : e = table[i] /\ table[i].cb = c
  BY DEF View, PlacesOf, IsTable, Distinct

(* What the tables differ in, besides the order.                           *)
LEMMA SameView ==
    ASSUME NEW r, IsTable(r), NEW table, IsTable(table), NEW c,
           \A i \in 1 .. Len(r) : r[i].cb = c => \E j \in 1 .. Len(table) : r[i] = table[j],
           \A j \in 1 .. Len(table) : table[j].cb = c => \E i \in 1 .. Len(r) : r[i] = table[j]
    PROVE  View(r, c) = View(table, c)
  BY DEF View, PlacesOf

(* The deletion by index moves the entries behind it one place up.         *)
LEMMA IndexDeleted ==
    ASSUME NEW table, IsTable(table), NEW x \in 1 .. Len(table)
    PROVE  LET r == blt_soft_timer_delete_by_index(table, x)
           IN  /\ IsTable(r) /\ Len(r) = Len(table) - 1
               /\ \A j \in 1 .. Len(r) : j < x => j \in 1 .. Len(table) /\ r[j] = table[j]
               /\ \A j \in 1 .. Len(r) : j >= x => j + 1 \in 1 .. Len(table) /\ r[j] = table[j + 1]
               /\ View(r, table[x].cb) = {}
               /\ \A c : c # table[x].cb => View(r, c) = View(table, c)
  <1> DEFINE r == blt_soft_timer_delete_by_index(table, x)  m == Len(table)
  <1>1. /\ m \in Nat /\ m <= MAX_TIMER_NUM /\ table \in [1 .. m -> Entries]
        /\ \A i, j \in 1 .. m : table[i].cb = table[j].cb => i = j
    BY DEF IsTable, Distinct
  <1>2. m - 1 \in Nat /\ \A j \in 1 .. m - 1 : j \in 1 .. m /\ j + 1 \in 1 .. m
    BY <1>1
  <1>3. /\ r \in [1 .. m - 1 -> Entries]
        /\ \A j \in 1 .. m - 1 : r[j] = IF j < x THEN table[j] ELSE table[j + 1]
    BY <1>1, <1>2 DEF blt_soft_timer_delete_by_index
  <1> HIDE DEF r
  <1>4. r \in Seq(Entries) /\ Len(r) = m - 1
    <2>1. r \in Seq(Entries)
      <3> DEFINE k == m - 1
      <3>1. k \in Nat /\ r \in [1 .. k -> Entries]
        BY <1>2, <1>3
      <3> HIDE DEF k, m
      <3> QED BY <3>1
    <2>2. DOMAIN r = 1 .. m - 1
      BY <1>3
    <2>3. DOMAIN r = 1 .. Len(r) /\ Len(r) \in Nat
      BY <2>1
    <2> HIDE DEF m
    <2> QED BY <1>2, <2>1, <2>2, <2>3
  <1>5. \A j \in 1 .. m - 1 : \E h \in 1 .. m : h = (IF j < x THEN j ELSE j + 1) /\ r[j] = table[h] /\ h # x
    <2> SUFFICES ASSUME NEW j \in 1 .. m - 1
                 PROVE  \E h \in 1 .. m : h = (IF j < x THEN j ELSE j + 1) /\ r[j] = table[h] /\ h # x
      OBVIOUS
    <2>1. CASE j < x
      BY <1>1, <1>2, <1>3, <2>1
    <2>2. CASE ~(j < x)
      BY <1>1, <1>2, <1>3, <2>2
    <2> QED BY <2>1, <2>2
  <1>6. Distinct(r)
    <2> SUFFICES ASSUME NEW a \in 1 .. m - 1, NEW b \in 1 .. m - 1, r[a].cb = r[b].cb PROVE a = b
      BY <1>4 DEF Distinct
    <2>1. PICK h \in 1 .. m : h = (IF a < x THEN a ELSE a + 1) /\ r[a] = table[h]
      BY <1>5
    <2>2. PICK i \in 1 .. m : i = (IF b < x THEN b ELSE b + 1) /\ r[b] = table[i]
      BY <1>5
    <2>3. h = i
      BY <1>1, <2>1, <2>2
    <2> QED BY <2>1, <2>2, <2>3
  <1>7. IsTable(r)
    BY <1>1, <1>4, <1>6, WindowIs DEF IsTable
  <1>8. View(r, table[x].cb) = {}
    <2> SUFFICES ASSUME NEW e \in View(r, table[x].cb) PROVE FALSE
      OBVIOUS
    <2>1. PICK j \in 1 .. Len(r) : r[j].cb = table[x].cb
      BY <1>7, ViewIs
    <2>2. PICK h \in 1 .. m : r[j] = table[h] /\ h # x
      BY <1>4, <1>5
    <2> QED BY <1>1, <2>1, <2>2
  <1>9. ASSUME NEW c, c # table[x].cb PROVE View(r, c) = View(table, c)
    <2>1. \A i \in 1 .. Len(r) : r[i].cb = c => \E j \in 1 .. Len(table) : r[i] = table[j]
      BY <1>4, <1>5
    <2>2. ASSUME NEW j \in 1 .. m, table[j].cb = c PROVE \E i \in 1 .. Len(r) : r[i] = table[j]
      <3>1. j # x
        BY <1>9, <2>2
      <3>2. CASE j < x
        <4>1. j \in 1 .. m - 1
          BY <1>1, <3>2
        <4> QED BY <1>3, <1>4, <3>2, <4>1
      <3>3. CASE j > x
        <4>1. PICK i \in 1 .. m - 1 : i + 1 = j /\ ~(i < x)
          <5>1. j - 1 \in 1 .. m - 1 /\ (j - 1) + 1 = j /\ ~(j - 1 < x)
            BY <1>1, <3>3
          <5> QED BY <5>1
        <4> QED BY <1>3, <1>4, <4>1
      <3> QED BY <1>1, <3>1, <3>2, <3>3
    <2> QED BY <1>7, <2>1, <2>2, SameView
  <1>10. ASSUME NEW j \in 1 .. Len(r)
         PROVE  /\ j < x => j \in 1 .. Len(table) /\ r[j] = table[j]
                /\ j >= x => j + 1 \in 1 .. Len(table) /\ r[j] = table[j + 1]
    <2>1. j \in 1 .. m - 1
      BY <1>4
    <2>2. (j >= x) <=> ~(j < x)
      BY <1>1
    <2> QED BY <1>2, <1>3, <2>1, <2>2
  <1> QED BY <1>4, <1>7, <1>8, <1>9, <1>10 DEF r

(* It keeps the order and leaves every entry its time; if the first is     *)
(* deleted, each of the others has a turn more.                            *)
LEMMA IndexDeletedKeeps ==
    ASSUME NEW table, IsTable(table), NEW x \in 1 .. Len(table), NEW n \in Ticks
    PROVE  LET r == blt_soft_timer_delete_by_index(table, x)
           IN  /\ InOrder(table, n) => InOrder(r, n)
               /\ \A k \in {0, 1} : Timely(table, n, k) => Timely(r, n, k)
               /\ x = 1 /\ Timely(table, n, 0) => Timely(r, n, 1)
  <1> DEFINE r == blt_soft_timer_delete_by_index(table, x)  m == Len(table)
  <1>1. /\ Len(r) = m - 1
        /\ \A j \in 1 .. Len(r) : j < x => j \in 1 .. m /\ r[j] = table[j]
        /\ \A j \in 1 .. Len(r) : j >= x => j + 1 \in 1 .. m /\ r[j] = table[j + 1]
    BY IndexDeleted
  <1>2. m \in Nat /\ \A i \in 1 .. m : Signed(table[i].t, n) \in Int
    BY TableIs
  <1> HIDE DEF r
  <1>3. ASSUME NEW j \in 1 .. Len(r)
        PROVE  \E h \in 1 .. m : r[j] = table[h] /\ ((h = j /\ j < x) \/ (h = j + 1 /\ j >= x))
    <2>1. j < x \/ j >= x
      BY <1>1, <1>2
    <2> QED BY <1>1, <2>1
  <1>4. ASSUME InOrder(table, n) PROVE InOrder(r, n)
    <2> SUFFICES ASSUME NEW j \in 1 .. Len(r), NEW i \in 1 .. j
                 PROVE  Signed(r[i].t, n) <= Signed(r[j].t, n)
      BY DEF InOrder
    <2>1. i \in 1 .. Len(r) /\ i <= j
      BY <1>1, <1>2
    <2>2. PICK h \in 1 .. m : r[j] = table[h] /\ ((h = j /\ j < x) \/ (h = j + 1 /\ j >= x))
      BY <1>3
    <2>3. PICK g \in 1 .. m : r[i] = table[g] /\ ((g = i /\ i < x) \/ (g = i + 1 /\ i >= x))
      BY <1>3, <2>1
    <2>4. g \in 1 .. h
      BY <2>1, <2>2, <2>3
    <2> QED BY <1>4, <2>2, <2>3, <2>4 DEF InOrder
  <1>5. ASSUME NEW k \in {0, 1}, NEW d \in {0, 1}, d = 1 => x = 1 /\ k = 0, Timely(table, n, k)
        PROVE  Timely(r, n, k + d)
    <2> SUFFICES ASSUME NEW j \in 1 .. Len(r) PROVE InTime(r[j], j, n, k + d)
      BY DEF Timely
    <2>1. PICK h \in 1 .. m : r[j] = table[h] /\ ((h = j /\ j < x) \/ (h = j + 1 /\ j >= x))
      BY <1>3
    <2>2. h >= j + d
      BY <1>5, <1>1, <2>1
    <2>3. InTime(table[h], h, n, k) /\ Signed(table[h].t, n) \in Int
      BY <1>2, <1>5 DEF Timely
    <2> QED BY <1>1, <2>1, <2>2, <2>3, WindowIs DEF InTime
  <1>6. ASSUME NEW k \in {0, 1}, Timely(table, n, k) PROVE Timely(r, n, k)
    <2>1. 0 \in {0, 1} /\ k + 0 = k
      OBVIOUS
    <2>2. Timely(r, n, k + 0)
      BY <1>5, <1>6
    <2> QED BY <2>1, <2>2
  <1>7. ASSUME x = 1, Timely(table, n, 0) PROVE Timely(r, n, 1)
    <2>1. Timely(r, n, 0 + 1)
      BY <1>5, <1>7
    <2> QED BY <2>1
  <1> QED BY <1>4, <1>6, <1>7 DEF r

(* A callback is deleted where it stands.                                  *)
LEMMA DeletedAt ==
    ASSUME NEW table, IsTable(table), NEW c
    PROVE  \/ PlacesOf(table, c) = {} /\ blt_soft_timer_delete(table, c) = table
           \/ \E x \in 1 .. Len(table) : /\ table[x].cb = c
                                         /\ blt_soft_timer_delete(table, c) = blt_soft_timer_delete_by_index(table, x)
  <1>1. CASE PlacesOf(table, c) = {}
    BY <1>1 DEF blt_soft_timer_delete
  <1>2. CASE PlacesOf(table, c) # {}
    <2> DEFINE x == CHOOSE i \in PlacesOf(table, c) : \A j \in PlacesOf(table, c) : i <= j
    <2>1. PICK i \in PlacesOf(table, c) : TRUE
      BY <1>2
    <2>2. i \in 1 .. Len(table) /\ \A j \in PlacesOf(table, c) : i = j
      BY <2>1 DEF PlacesOf, IsTable, Distinct
    <2>3. i \in Int /\ i <= i
      BY <2>2
    <2>4. \A j \in PlacesOf(table, c) : i <= j
      BY <2>2, <2>3
    <2>5. x \in PlacesOf(table, c)
      BY <2>1, <2>4
    <2>6. blt_soft_timer_delete(table, c) = blt_soft_timer_delete_by_index(table, x)
      BY <1>2 DEF blt_soft_timer_delete
    <2> QED BY <2>5, <2>6 DEF PlacesOf
  <1> QED BY <1>1, <1>2

(* A table without c has room for it.                                      *)
LEMMA RoomFor ==
    ASSUME NEW table, IsTable(table), NEW c \in Callback, View(table, c) = {}
    PROVE  Len(table) < MAX_TIMER_NUM
  <1> SUFFICES ASSUME ~(Len(table) < MAX_TIMER_NUM) PROVE FALSE
    OBVIOUS
  <1> DEFINE m == Len(table)  S == 1 .. m  T == Callback \ {c}  f == [i \in S |-> table[i].cb]
  <1>1. m \in Nat /\ m >= MAX_TIMER_NUM /\ table \in [1 .. m -> Entries]
    BY WindowIs DEF IsTable
  <1>2. PlacesOf(table, c) = {}
    BY ViewIs
  <1>3. f \in [S -> T]
    BY <1>1, <1>2 DEF PlacesOf, Entries
  <1>4. IsFiniteSet(S) /\ Cardinality(S) = m
    <2>1. 1 \in Int /\ m \in Int /\ (1 > m => m = 0) /\ m - 1 + 1 = m
      BY <1>1
    <2> HIDE DEF m
    <2> QED BY <2>1, FS_Interval
  <1>5. IsFiniteSet(Callback) /\ Cardinality(Callback) <= MAX_TIMER_NUM
    BY TimerAssumption
  <1>6. IsFiniteSet(T) /\ Cardinality(T) = Cardinality(Callback) - 1
    BY <1>5, FS_RemoveElement
  <1>7. Cardinality(Callback) \in Nat
    BY <1>5, FS_CardinalityType
  <1>8. Cardinality(T) < Cardinality(S)
    BY <1>1, <1>4, <1>5, <1>6, <1>7, WindowIs
  <1> HIDE DEF T, f
  <1>9. \E a, b \in S : a # b /\ f[a] = f[b]
    <2> HIDE DEF S
    <2> QED BY <1>3, <1>4, <1>6, <1>8, FS_PigeonHole
  <1>10. PICK a \in S, b \in S : a # b /\ f[a] = f[b]
    BY <1>9
  <1>11. table[a].cb = table[b].cb
    BY <1>10 DEF f
  <1>12. a \in 1 .. Len(table) /\ b \in 1 .. Len(table)
    BY <1>10 DEF S
  <1>13. \A i, j \in 1 .. Len(table) : table[i].cb = table[j].cb => i = j
    BY DEF IsTable, Distinct
  <1> HIDE DEF S, m
  <1>14. a # b
    BY <1>10
  <1> QED BY <1>11, <1>12, <1>13, <1>14

(* The deletion of a callback, whether it stands in the table or not.      *)
LEMMA Deleted ==
    ASSUME NEW table, IsTable(table), NEW c \in Callback
    PROVE  LET r == blt_soft_timer_delete(table, c)
           IN  /\ IsTable(r) /\ Len(r) < MAX_TIMER_NUM
               /\ View(r, c) = {} /\ \A d : d # c => View(r, d) = View(table, d)
               /\ \A n \in Ticks : InOrder(table, n) => InOrder(r, n)
               /\ \A n \in Ticks, k \in {0, 1} : Timely(table, n, k) => Timely(r, n, k)
  <1>1. CASE PlacesOf(table, c) = {} /\ blt_soft_timer_delete(table, c) = table
    <2>1. View(table, c) = {}
      BY <1>1, ViewIs
    <2> QED BY <1>1, <2>1, RoomFor
  <1>2. CASE ~(PlacesOf(table, c) = {} /\ blt_soft_timer_delete(table, c) = table)
    <2>1. PICK x \in 1 .. Len(table) : /\ table[x].cb = c
                                       /\ blt_soft_timer_delete(table, c) = blt_soft_timer_delete_by_index(table, x)
      BY <1>2, DeletedAt
    <2> DEFINE r == blt_soft_timer_delete_by_index(table, x)
    <2>2. IsTable(r) /\ View(r, c) = {} /\ \A d : d # c => View(r, d) = View(table, d)
      <3>1. IsTable(r) /\ View(r, table[x].cb) = {}
        BY IndexDeleted
      <3>2. \A d : d # table[x].cb => View(r, d) = View(table, d)
        BY IndexDeleted
      <3> HIDE DEF r
      <3> QED BY <2>1, <3>1, <3>2
    <2>3. /\ \A n \in Ticks : InOrder(table, n) => InOrder(r, n)
          /\ \A n \in Ticks, k \in {0, 1} : Timely(table, n, k) => Timely(r, n, k)
      BY IndexDeletedKeeps
    <2> HIDE DEF r
    <2>4. Len(r) < MAX_TIMER_NUM
      BY <2>2, RoomFor
    <2> QED BY <2>1, <2>2, <2>3, <2>4 DEF r
  <1> QED BY <1>1, <1>2

(* An entry at the end of a table that has room.                           *)
LEMMA Appended ==
    ASSUME NEW table, IsTable(table), Len(table) < MAX_TIMER_NUM,
           NEW e \in Entries, View(table, e.cb) = {}
    PROVE  LET r == Append(table, e)
           IN  /\ IsTable(r) /\ r # <<>> /\ Len(r) = Len(table) + 1 /\ r[Len(table) + 1] = e
               /\ \A i \in 1 .. Len(table) : i \in 1 .. Len(r) /\ r[i] = table[i]
               /\ View(r, e.cb) = {e} /\ \A d : d # e.cb => View(r, d) = View(table, d)
  <1> DEFINE r == Append(table, e)  m == Len(table)
  <1>1. m \in Nat /\ table \in Seq(Entries) /\ table \in [1 .. m -> Entries] /\ Distinct(table)
    BY DEF IsTable
  <1>2. /\ r \in Seq(Entries) /\ Len(r) = m + 1 /\ r[m + 1] = e /\ r # <<>>
        /\ \A i \in 1 .. m : r[i] = table[i]
    BY <1>1
  <1> HIDE DEF r, m
  <1>3. \A i \in 1 .. m : table[i].cb # e.cb
    BY ViewIs DEF PlacesOf, m
  <1>4. Distinct(r)
    <2> SUFFICES ASSUME NEW i \in 1 .. m + 1, NEW j \in 1 .. m + 1, r[i].cb = r[j].cb PROVE i = j
      BY <1>2 DEF Distinct
    <2>1. (i \in 1 .. m \/ i = m + 1) /\ (j \in 1 .. m \/ j = m + 1)
      BY <1>1
    <2>2. \A a, b \in 1 .. m : table[a].cb = table[b].cb => a = b
      BY <1>1 DEF Distinct, m
    <2> QED BY <1>2, <1>3, <2>1, <2>2
  <1>5. IsTable(r)
    BY <1>1, <1>2, <1>4, WindowIs DEF IsTable, m
  <1>6. View(r, e.cb) = {e}
    <2>1. m + 1 \in 1 .. Len(r)
      BY <1>1, <1>2
    <2>2. View(r, r[m + 1].cb) = {r[m + 1]}
      BY <1>5, <2>1, ViewIs
    <2> QED BY <1>2, <2>2
  <1>7. ASSUME NEW d, d # e.cb PROVE View(r, d) = View(table, d)
    <2>1. ASSUME NEW i \in 1 .. Len(r), r[i].cb = d PROVE \E j \in 1 .. Len(table) : r[i] = table[j]
      <3>1. i \in 1 .. m
        BY <1>1, <1>2, <1>7, <2>1
      <3>2. r[i] = table[i]
        BY <1>2, <3>1
      <3> QED BY <3>1, <3>2 DEF m
    <2>2. ASSUME NEW j \in 1 .. Len(table) PROVE \E i \in 1 .. Len(r) : r[i] = table[j]
      BY <1>1, <1>2 DEF m
    <2>3. \A i \in 1 .. Len(r) : r[i].cb = d => \E j \in 1 .. Len(table) : r[i] = table[j]
      BY <2>1
    <2>4. \A j \in 1 .. Len(table) : table[j].cb = d => \E i \in 1 .. Len(r) : r[i] = table[j]
      BY <2>2
    <2> QED BY <1>5, <2>3, <2>4, SameView
  <1>8. \A i \in 1 .. m : i \in 1 .. Len(r)
    BY <1>1, <1>2
  <1> QED BY <1>2, <1>5, <1>6, <1>7, <1>8 DEF r, m

(* A new entry is not due and takes no time from the others.               *)
LEMMA AppendedTimely ==
    ASSUME NEW table, IsTable(table), NEW e \in Entries, NEW n \in Ticks, NEW k \in {0, 1},
           Timely(table, n, k), Signed(e.t, n) > Pre, Signed(e.t, n) <= Window - Late
    PROVE  Timely(Append(table, e), n, k)
  <1> DEFINE r == Append(table, e)  m == Len(table)
  <1>1. m \in Nat /\ table \in Seq(Entries)
    BY DEF IsTable
  <1>2. Len(r) = m + 1 /\ r[m + 1] = e /\ \A i \in 1 .. m : r[i] = table[i]
    BY <1>1
  <1> HIDE DEF r, m
  <1>3. \A i \in 1 .. m : InTime(r[i], i, n, k)
    BY <1>2 DEF Timely, m
  <1>4. InTime(r[m + 1], m + 1, n, k)
    BY <1>2 DEF InTime
  <1>5. \A i \in 1 .. Len(r) : i \in 1 .. m \/ i = m + 1
    BY <1>1, <1>2
  <1> QED BY <1>3, <1>4, <1>5 DEF Timely, r

(* The sort, with what it keeps.                                           *)
LEMMA Sorted ==
    ASSUME NEW table, IsTable(table), table # <<>>, NEW n \in Ticks, NEW k \in {0, 1}, Timely(table, n, k)
    PROVE  LET r == blt_soft_timer_sort(table)
           IN  /\ IsTable(r) /\ r # <<>> /\ Len(r) = Len(table) /\ InOrder(r, n)
               /\ Timely(r, n, k) /\ (FirstLater(table, n) => Timely(r, n, 1))
               /\ \A d : View(r, d) = View(table, d)
               /\ Stays(table, r, Len(table), n)
  <1> DEFINE r == blt_soft_timer_sort(table)
  <1>1. AllNear(table, Len(table), n) /\ Timely(table, n, 0)
    BY TimelyIsNear
  <1>2. /\ IsTable(r) /\ Len(r) = Len(table) /\ InOrder(r, n)
        /\ Stays(table, r, Len(table), n)
    BY <1>1, TableSorted
  <1>3. /\ \A i \in 1 .. Len(table) : \E j \in 1 .. Len(table) : r[i] = table[j]
        /\ \A j \in 1 .. Len(table) : \E i \in 1 .. Len(table) : r[i] = table[j]
    <2>1. \A i \in 1 .. Len(table) : \E j \in 1 .. Len(table) : r[i] = table[j]
      BY <1>1, TableSorted
    <2>2. \A j \in 1 .. Len(table) : \E i \in 1 .. Len(table) : r[i] = table[j]
      BY <1>1, TableSorted
    <2> QED BY <2>1, <2>2
  <1>4. Timely(r, n, k)
    <2>1. 0 \in {0, 1} /\ ~(0 = 1) /\ k + 0 = k
      OBVIOUS
    <2>2. Timely(r, n, k + 0)
      BY <2>1, SortTimely
    <2> QED BY <2>1, <2>2
  <1>5. ASSUME FirstLater(table, n) PROVE Timely(r, n, 1)
    <2>1. 0 \in {0, 1} /\ 1 \in {0, 1} /\ 0 + 1 = 1
      OBVIOUS
    <2>2. Timely(r, n, 0 + 1)
      BY <1>1, <1>5, <2>1, SortTimely
    <2> QED BY <2>1, <2>2
  <1> HIDE DEF r
  <1>6. ASSUME NEW d PROVE View(r, d) = View(table, d)
    <2>1. \A i \in 1 .. Len(r) : r[i].cb = d => \E j \in 1 .. Len(table) : r[i] = table[j]
      BY <1>2, <1>3
    <2>2. \A j \in 1 .. Len(table) : table[j].cb = d => \E i \in 1 .. Len(r) : r[i] = table[j]
      BY <1>2, <1>3
    <2> QED BY <1>2, <2>1, <2>2, SameView
  <1>7. r # <<>>
    <2>1. table \in Seq(Entries) /\ r \in Seq(Entries)
      BY <1>2 DEF IsTable
    <2> QED BY <1>2, <2>1
  <1> QED BY <1>2, <1>4, <1>5, <1>6, <1>7 DEF r

(* A timer that starts, at clk, in a walk that began at n or between walks. *)
LEMMA Started ==
    ASSUME NEW table, IsTable(table), NEW c \in Callback, NEW clk \in Ticks, NEW n \in Ticks,
           NEW k \in {0, 1}, Timely(table, n, k),
           NEW e \in Entries, e = Entry(c, clk, Interval[c]),
           Signed(e.t, n) > Pre, Signed(e.t, n) <= Window - Late
    PROVE  LET r == bsp_timer_start(table, c, clk)
           IN  /\ IsTable(r) /\ r # <<>> /\ InOrder(r, n) /\ Timely(r, n, k)
               /\ View(r, c) = {e} /\ \A d : d # c => View(r, d) = View(table, d)
  <1> DEFINE d0 == blt_soft_timer_delete(table, c)  a == Append(d0, e)  r == blt_soft_timer_sort(a)
  <1>1. /\ IsTable(d0) /\ Len(d0) < MAX_TIMER_NUM
        /\ View(d0, c) = {} /\ \A d : d # c => View(d0, d) = View(table, d)
    BY Deleted
  <1>2. Timely(d0, n, k)
    BY Deleted
  <1> HIDE DEF d0
  <1>3. e.cb = c
    BY DEF Entry
  <1>4. /\ IsTable(a) /\ a # <<>> /\ View(a, c) = {e}
        /\ \A d : d # c => View(a, d) = View(d0, d)
    <2>1. View(d0, e.cb) = {} /\ IsTable(d0) /\ Len(d0) < MAX_TIMER_NUM
      BY <1>1, <1>3
    <2>2. IsTable(a) /\ a # <<>> /\ View(a, e.cb) = {e}
      BY <2>1, Appended
    <2>3. \A d : d # e.cb => View(a, d) = View(d0, d)
      BY <2>1, Appended
    <2> HIDE DEF a
    <2> QED BY <1>3, <2>2, <2>3
  <1>5. Timely(a, n, k)
    BY <1>1, <1>2, AppendedTimely
  <1>6. ~(Len(d0) >= MAX_TIMER_NUM)
    BY <1>1, WindowIs, TableIs
  <1>7. bsp_timer_start(table, c, clk) = r
    BY <1>6 DEF bsp_timer_start, blt_soft_timer_add, d0
  <1> HIDE DEF a
  <1>8. /\ IsTable(r) /\ r # <<>> /\ InOrder(r, n) /\ Timely(r, n, k) /\ \A d : View(r, d) = View(a, d)
    BY <1>4, <1>5, Sorted
  <1> QED BY <1>1, <1>4, <1>7, <1>8

(* A deletion takes one place; if the first entry was later than all that  *)
(* is due, then so is the first that is left, or each has a turn more.     *)
LEMMA DeletedFirst ==
    ASSUME NEW table, IsTable(table), NEW c, NEW n \in Ticks, Timely(table, n, 0), FirstLater(table, n)
    PROVE  LET r == blt_soft_timer_delete(table, c)
           IN  Timely(r, n, 1) \/ FirstLater(r, n)
  <1> DEFINE r == blt_soft_timer_delete(table, c)
  <1>1. CASE r = table
    BY <1>1
  <1>2. CASE r # table
    <2>1. PICK x \in 1 .. Len(table) : r = blt_soft_timer_delete_by_index(table, x)
      BY <1>2, DeletedAt
    <2> DEFINE w == blt_soft_timer_delete_by_index(table, x)
    <2>2. CASE x = 1
      <3>1. Timely(w, n, 1)
        BY <2>2, IndexDeletedKeeps
      <3> QED BY <2>1, <3>1
    <2>3. CASE x # 1
      <3>1. IsTable(w) /\ Len(w) = Len(table) - 1
        BY IndexDeleted
      <3>2. \A j \in 1 .. Len(w) : j < x => w[j] = table[j]
        BY IndexDeleted
      <3> HIDE DEF w
      <3>3. x > 1 /\ 1 \in 1 .. Len(w)
        BY <2>3, <3>1, TableIs
      <3>4. w # <<>> /\ w[1] = table[1]
        BY <3>2, <3>3
      <3>5. FirstLater(w, n)
        BY <3>4 DEF FirstLater
      <3> QED BY <2>1, <3>5 DEF w
    <2> QED BY <2>2, <2>3
  <1> QED BY <1>1, <1>2

(* A start takes no place away. If the first entry was later than all that *)
(* is due, then the sort gives each of them a turn more.                   *)
LEMMA StartedAnew ==
    ASSUME NEW table, IsTable(table), NEW c \in Callback, NEW clk \in Ticks, NEW n \in Ticks,
           Timely(table, n, 0), NEW e \in Entries, e = Entry(c, clk, Interval[c]),
           Signed(e.t, n) > Pre, Signed(e.t, n) <= Window - Late
    PROVE  LET r == bsp_timer_start(table, c, clk)
           IN  Len(r) >= Len(table) /\ (FirstLater(table, n) => Timely(r, n, 1))
  <1> DEFINE d0 == blt_soft_timer_delete(table, c)  a == Append(d0, e)  r == blt_soft_timer_sort(a)
  <1>1. IsTable(d0) /\ Len(d0) < MAX_TIMER_NUM /\ View(d0, c) = {}
    BY Deleted
  <1>2. 0 \in {0, 1} /\ 1 \in {0, 1}
    OBVIOUS
  <1>3. Timely(d0, n, 0)
    BY <1>2, Deleted
  <1>4. Len(d0) + 1 >= Len(table)
    <2>1. CASE d0 = table
      BY <2>1, TableIs
    <2>2. CASE d0 # table
      <3>1. PICK x \in 1 .. Len(table) : d0 = blt_soft_timer_delete_by_index(table, x)
        BY <2>2, DeletedAt
      <3> DEFINE w == blt_soft_timer_delete_by_index(table, x)
      <3>2. Len(w) = Len(table) - 1
        BY IndexDeleted
      <3> HIDE DEF w
      <3> QED BY <3>1, <3>2, TableIs DEF w
    <2> QED BY <2>1, <2>2
  <1>5. FirstLater(table, n) => Timely(d0, n, 1) \/ FirstLater(d0, n)
    BY DeletedFirst
  <1>6. ~(Len(d0) >= MAX_TIMER_NUM)
    BY <1>1, WindowIs, TableIs
  <1>7. bsp_timer_start(table, c, clk) = r
    BY <1>6 DEF bsp_timer_start, blt_soft_timer_add
  <1> HIDE DEF d0
  <1>8. View(d0, e.cb) = {}
    BY <1>1 DEF Entry
  <1>9. IsTable(a) /\ a # <<>> /\ Len(a) = Len(d0) + 1 /\ a[Len(d0) + 1] = e
    BY <1>1, <1>8, Appended
  <1>10. \A i \in 1 .. Len(d0) : a[i] = d0[i]
    BY <1>1, <1>8, Appended
  <1>11. /\ Timely(a, n, 0)
         /\ Timely(d0, n, 1) => Timely(a, n, 1)
    BY <1>1, <1>2, <1>3, AppendedTimely
  <1> HIDE DEF a
  <1>12. FirstLater(d0, n) => FirstLater(a, n)
    <2> SUFFICES ASSUME FirstLater(d0, n) PROVE FirstLater(a, n)
      OBVIOUS
    <2>1. 1 \in 1 .. Len(d0)
      BY <1>1 DEF FirstLater, IsTable
    <2> QED BY <1>9, <1>10, <2>1 DEF FirstLater
  <1>13. /\ Len(r) = Len(a)
         /\ FirstLater(a, n) => Timely(r, n, 1)
         /\ Timely(a, n, 1) => Timely(r, n, 1)
    BY <1>2, <1>9, <1>11, Sorted
  <1> HIDE DEF r
  <1>14. Len(r) >= Len(table)
    BY <1>4, <1>9, <1>13
  <1> QED BY <1>5, <1>7, <1>11, <1>12, <1>13, <1>14

(* Two times that are as far from now are the same.                        *)
LEMMA SignedOne ==
    ASSUME NEW t1 \in Ticks, NEW t2 \in Ticks, NEW n \in Ticks, Signed(t1, n) = Signed(t2, n)
    PROVE  t1 = t2
  <1>1. /\ Signed(t1, n) \in {t1 - n, t1 - n + Wrap, t1 - n - Wrap}
        /\ Signed(t2, n) \in {t2 - n, t2 - n + Wrap, t2 - n - Wrap}
    BY SignedIs
  <1> QED BY <1>1, WindowIs DEF Ticks

(* The entry that is called stays in its place when another timer starts,  *)
(* if no other entry has its time and the other timer is not before it.    *)
LEMMA StartedBehind ==
    ASSUME NEW table, IsTable(table), NEW c \in Callback, NEW clk \in Ticks, NEW n \in Ticks,
           NEW k \in {0, 1}, Timely(table, n, k), InOrder(table, n),
           NEW e \in Entries, e = Entry(c, clk, Interval[c]),
           Signed(e.t, n) > Pre, Signed(e.t, n) <= Window - Late,
           NEW x \in 1 .. Len(table), table[x].cb # c, Signed(table[x].t, n) <= Pre,
           \A i \in 1 .. Len(table) : table[i].t = table[x].t => i = x,
           \A i \in 1 .. x - 1 : table[i].cb # c
    PROVE  LET r == bsp_timer_start(table, c, clk)
           IN  x \in 1 .. Len(r) /\ r[x] = table[x]
  <1> DEFINE d0 == blt_soft_timer_delete(table, c)  a == Append(d0, e)  r == blt_soft_timer_sort(a)
             m == Len(table)  key(i) == Signed(table[i].t, n)
  <1>1. m \in Nat /\ \A i \in 1 .. m : table[i] \in Entries /\ table[i].t \in Ticks /\ key(i) \in Int
    BY TableIs DEF Entries
  <1>2. ASSUME NEW i \in 1 .. m PROVE (i < x => key(i) < key(x)) /\ (i > x => key(x) < key(i))
    <2>1. i # x => key(i) # key(x)
      BY <1>1, SignedOne
    <2>2. (i < x => key(i) <= key(x)) /\ (i > x => key(x) <= key(i))
      <3>1. (i < x => i \in 1 .. x) /\ (i > x => x \in 1 .. i)
        BY <1>1
      <3> QED BY <3>1 DEF InOrder
    <2> QED BY <1>1, <2>1, <2>2
  <1>3. /\ IsTable(d0) /\ x \in 1 .. Len(d0) /\ d0[x] = table[x]
        /\ \A j \in 1 .. Len(d0) : \E h \in 1 .. m : d0[j] = table[h] /\ (j < x => h < x) /\ (j > x => h > x)
    <2>1. CASE d0 = table
      BY <2>1
    <2>2. CASE d0 # table
      <3>1. PICK y \in 1 .. m : table[y].cb = c /\ d0 = blt_soft_timer_delete_by_index(table, y)
        BY <2>2, DeletedAt
      <3>2. y > x
        BY <1>1, <3>1
      <3> DEFINE w == blt_soft_timer_delete_by_index(table, y)
      <3>w. d0 = w
        BY <3>1
      <3>3. IsTable(w) /\ Len(w) = m - 1
        BY IndexDeleted
      <3>4. /\ \A j \in 1 .. Len(w) : j < y => j \in 1 .. m /\ w[j] = table[j]
            /\ \A j \in 1 .. Len(w) : j >= y => j + 1 \in 1 .. m /\ w[j] = table[j + 1]
        BY IndexDeleted
      <3> HIDE DEF d0, m, w
      <3>5. x \in 1 .. Len(w)
        BY <1>1, <3>2, <3>3
      <3>6. ASSUME NEW j \in 1 .. Len(w)
            PROVE  \E h \in 1 .. m : w[j] = table[h] /\ (j < x => h < x) /\ (j > x => h > x)
        <4>1. CASE j < y
          BY <3>4, <4>1
        <4>2. CASE j >= y
          <5>1. j + 1 \in 1 .. m /\ w[j] = table[j + 1] /\ ~(j < x) /\ j + 1 > x
            <6>1. j + 1 \in 1 .. m /\ w[j] = table[j + 1]
              BY <3>4, <4>2
            <6>2. j \in Int /\ y \in Int /\ x \in Int
              BY <1>1
            <6> QED BY <3>2, <4>2, <6>1, <6>2
          <5> QED BY <5>1
        <4> QED BY <1>1, <3>3, <4>1, <4>2
      <3> QED BY <3>w, <3>2, <3>3, <3>4, <3>5, <3>6
    <2> QED BY <2>1, <2>2
  <1>4. Len(d0) < MAX_TIMER_NUM /\ View(d0, c) = {} /\ Timely(d0, n, k)
    BY Deleted
  <1>5. ~(Len(d0) >= MAX_TIMER_NUM)
    BY <1>3, <1>4, WindowIs, TableIs
  <1>6. bsp_timer_start(table, c, clk) = r
    BY <1>5 DEF bsp_timer_start, blt_soft_timer_add, d0
  <1> HIDE DEF d0
  <1>7. e.cb = c
    BY DEF Entry
  <1>8. Len(a) = Len(d0) + 1 /\ a[Len(d0) + 1] = e /\ IsTable(a) /\ a # <<>>
    BY <1>3, <1>4, <1>7, Appended
  <1>9. \A i \in 1 .. Len(d0) : i \in 1 .. Len(a) /\ a[i] = d0[i]
    BY <1>3, <1>4, <1>7, Appended
  <1>10. Timely(a, n, k)
    BY <1>3, <1>4, AppendedTimely
  <1> HIDE DEF a, r, m
  <1>11. Stays(a, r, Len(a), n) /\ Len(r) = Len(a)
    BY <1>8, <1>10, Sorted DEF r
  <1> DEFINE q == Len(a)
  <1>12. q \in Nat /\ a \in [1 .. q -> Entries] /\ Len(d0) \in Nat
    BY <1>3, <1>8, TableIs
  <1>13. \A i \in 1 .. q : Keys(a, q, n)[i] = Signed(a[i].t, n)
    BY <1>12, KeysAre
  <1>14. x \in 1 .. q /\ a[x] = table[x]
    BY <1>3, <1>9
  <1>15. ASSUME NEW i \in 1 .. q
         PROVE  /\ i < x => Signed(a[i].t, n) < Signed(a[x].t, n)
                /\ i > x => Signed(a[x].t, n) < Signed(a[i].t, n)
    <2>1. CASE i \in 1 .. Len(d0)
      <3>1. PICK h \in 1 .. m : d0[i] = table[h] /\ (i < x => h < x) /\ (i > x => h > x)
        BY <1>3, <2>1
      <3>2. Signed(a[i].t, n) = key(h) /\ Signed(a[x].t, n) = key(x)
        BY <1>9, <1>14, <2>1, <3>1
      <3> HIDE DEF key
      <3> QED BY <1>2, <3>1, <3>2
    <2>2. CASE i = Len(d0) + 1
      <3>1. Signed(a[x].t, n) <= Pre /\ Signed(a[i].t, n) > Pre
        BY <1>8, <1>14, <2>2
      <3>2. Signed(a[x].t, n) \in Int /\ Signed(a[i].t, n) \in Int /\ ~(i < x)
        <4>1. Signed(a[x].t, n) \in Int /\ Signed(a[i].t, n) \in Int
          BY <1>8, <1>14, TableIs
        <4>2. ~(i < x)
          BY <1>3, <1>12, <2>2
        <4> QED BY <4>1, <4>2
      <3> QED BY <3>1, <3>2, WindowIs
    <2> QED BY <1>8, <1>12, <2>1, <2>2
  <1>16. Alone(Keys(a, q, n), q, x)
    BY <1>13, <1>14, <1>15 DEF Alone
  <1>17. r[x] = a[x]
    BY <1>11, <1>14, <1>16 DEF Stays
  <1> QED BY <1>6, <1>11, <1>14, <1>17

(* What is made of the entry for the result of its callback.               *)
LEMMA NewEntryIs ==
    ASSUME NEW c \in Callback, NEW n \in Ticks, NEW d, IntervalOK(d)
    PROVE  LET e == [cb |-> c, t |-> Plus(n, d), interval |-> d]
           IN  e \in Entries /\ Signed(e.t, n) = d /\ d > Pre /\ d <= Window - Late /\ d \in 0 .. Window - 1
  <1>1. d \in 0 .. Window /\ d > Pre /\ d <= Window - Late /\ d \in Nat /\ d \in 0 .. Window - 1
    BY WindowIs DEF IntervalOK
  <1>2. Plus(n, d) \in Ticks /\ Signed(Plus(n, d), n) = d
    BY <1>1, SignedPlus
  <1> QED BY <1>1, <1>2 DEF Entries

(* A result of 0 or more gives the entry a new time and no other.          *)
LEMMA Result ==
    ASSUME NEW table, IsTable(table), NEW x \in 1 .. Len(table), NEW n \in Ticks,
           NEW result \in Int, result >= 0, result > 0 => IntervalOK(result),
           NEW d, d = IF result = 0 THEN table[x].interval ELSE result,
           NEW e, e = [cb |-> table[x].cb, t |-> Plus(n, d), interval |-> d]
    PROVE  LET r == AfterResult(table, x, result, n)
           IN  /\ IntervalOK(d) /\ e \in Entries /\ Signed(e.t, n) = d
               /\ IsTable(r) /\ r # <<>> /\ Len(r) = Len(table) /\ r[x] = e
               /\ \A i \in 1 .. Len(table) : i # x => r[i] = table[i]
               /\ \A k \in {0, 1} : Timely(table, n, k) => Timely(r, n, k)
               /\ x = 1 \/ FirstLater(table, n) => FirstLater(r, n)
               /\ View(r, e.cb) = {e}
               /\ \A c : c # e.cb => View(r, c) = View(table, c)
  <1> DEFINE r == AfterResult(table, x, result, n)  m == Len(table)
  <1>1. /\ m \in Nat /\ m <= MAX_TIMER_NUM /\ table \in [1 .. m -> Entries] /\ table \in Seq(Entries)
        /\ \A i, j \in 1 .. m : table[i].cb = table[j].cb => i = j
    BY DEF IsTable, Distinct
  <1>2. table[x] \in Entries /\ table[x].cb \in Callback /\ IntervalOK(table[x].interval)
    BY <1>1 DEF Entries
  <1>3. IntervalOK(d)
    BY <1>2
  <1>4. e \in Entries /\ Signed(e.t, n) = d /\ d > Pre /\ d <= Window - Late /\ e.cb = table[x].cb
    BY <1>2, <1>3, NewEntryIs
  <1>5. r = [table EXCEPT ![x] = e]
    <2>1. ~(result < 0)
      OBVIOUS
    <2>2. r = [table EXCEPT ![x].interval = d, ![x].t = Plus(n, d)]
      BY <2>1 DEF AfterResult
    <2>3. table[x] = [cb |-> table[x].cb, t |-> table[x].t, interval |-> table[x].interval]
      BY <1>2 DEF Entries
    <2> HIDE DEF r
    <2>4. r \in [1 .. m -> Entries] /\ r[x] = e /\ \A i \in 1 .. m : i # x => r[i] = table[i]
      BY <1>1, <1>4, <2>2, <2>3 DEF Entries
    <2> QED BY <1>1, <1>4, <2>4
  <1> HIDE DEF r
  <1>6. r \in Seq(Entries) /\ Len(r) = m /\ r[x] = e /\ \A i \in 1 .. m : i # x => r[i] = table[i]
    BY <1>1, <1>4, <1>5
  <1> HIDE DEF m
  <1>7. Distinct(r)
    <2> SUFFICES ASSUME NEW i \in 1 .. m, NEW j \in 1 .. m, r[i].cb = r[j].cb PROVE i = j
      BY <1>6 DEF Distinct
    <2>1. \A h \in 1 .. m : r[h].cb = table[h].cb
      BY <1>4, <1>6
    <2> QED BY <1>1, <2>1
  <1>8. IsTable(r)
    BY <1>1, <1>6, <1>7 DEF IsTable
  <1>9. x \in 1 .. m /\ r # <<>>
    BY <1>1, <1>6 DEF m
  <1>10. ASSUME NEW k \in {0, 1}, Timely(table, n, k) PROVE Timely(r, n, k)
    BY <1>4, <1>6, <1>10 DEF Timely, InTime, m
  <1>11. ASSUME x = 1 \/ FirstLater(table, n) PROVE FirstLater(r, n)
    <2>1. CASE x = 1
      BY <1>4, <1>6, <1>9, <2>1 DEF FirstLater
    <2>2. CASE x # 1
      <3>1. 1 \in 1 .. m /\ r[1] = table[1]
        BY <1>1, <1>6, <1>9, <2>2
      <3> QED BY <1>9, <1>11, <2>2, <3>1 DEF FirstLater
    <2> QED BY <2>1, <2>2
  <1>12. View(r, e.cb) = {e}
    <2>1. View(r, r[x].cb) = {r[x]}
      BY <1>6, <1>8, <1>9, ViewIs
    <2> QED BY <1>6, <2>1
  <1>13. ASSUME NEW c, c # e.cb PROVE View(r, c) = View(table, c)
    <2>1. \A i \in 1 .. Len(r) : r[i].cb = c => \E j \in 1 .. Len(table) : r[i] = table[j]
      BY <1>6, <1>13 DEF m
    <2>2. \A j \in 1 .. Len(table) : table[j].cb = c => \E i \in 1 .. Len(r) : r[i] = table[j]
      BY <1>4, <1>6, <1>13 DEF m
    <2> QED BY <1>8, <2>1, <2>2, SameView
  <1> QED BY <1>3, <1>4, <1>6, <1>8, <1>9, <1>10, <1>11, <1>12, <1>13 DEF r, m

-----------------------------------------------------------------------------
(* The inductive invariant. Between walks the table is in order on the     *)
(* clock as it is; the walk found an entry that is due or every entry is   *)
(* later. In a walk it is in order until an entry gets a new time, and the *)
(* first has been served when the walk is past it.                         *)
Between == InOrder(timer, clock) /\ Timely(timer, clock, IF served THEN 1 ELSE 0)
Unchanged == /\ InOrder(timer, walk.now)
             /\ IF walk.i = 1 THEN Timely(timer, walk.now, 0) /\ FirstDue(timer, walk.now)
                              ELSE Timely(timer, walk.now, 1)
Changed == /\ walk.i > 1 /\ timer # <<>>
           /\ \/ Timely(timer, walk.now, 1)
              \/ Timely(timer, walk.now, 0) /\ FirstLater(timer, walk.now)
InWalk == /\ walk \in [i : 1 .. MAX_TIMER_NUM + 1, now : Ticks, change_flg : BOOLEAN]
          /\ clock = IF served THEN walk.now ELSE Plus(walk.now, 1)
          /\ IF walk.change_flg THEN Changed ELSE Unchanged
TimerInv == /\ IsTable(timer) /\ clock \in Ticks /\ served \in BOOLEAN
            /\ walk = NoTimer => Between
            /\ walk # NoTimer => InWalk

(* A walk is told from its absence.                                        *)
LEMMA NoWalk ==
    \A w : w \in [i : 1 .. MAX_TIMER_NUM + 1, now : Ticks, change_flg : BOOLEAN] => w # NoTimer
  <1> SUFFICES ASSUME NEW w \in [i : 1 .. MAX_TIMER_NUM + 1, now : Ticks, change_flg : BOOLEAN]
               PROVE  w \in [i : Nat, now : Nat, change_flg : BOOLEAN]
    BY TimerAssumption
  <1> QED BY WindowIs DEF Ticks

(* The table after the start-up.                                           *)
LEMMA EmptyTable ==
    /\ IsTable(<<>>) /\ \A n, k : InOrder(<<>>, n) /\ Timely(<<>>, n, k)
    /\ \A c : View(<<>>, c) = {}
  <1>1. Len(<<>>) = 0 /\ <<>> \in Seq(Entries)
    OBVIOUS
  <1>2. \A i : i \notin 1 .. 0
    OBVIOUS
  <1> QED BY <1>1, <1>2, WindowIs DEF IsTable, Distinct, InOrder, Timely, View, PlacesOf

(* A tick later.                                                           *)
LEMMA TableTick ==
    ASSUME NEW table, IsTable(table), NEW n \in Ticks, Timely(table, n, 1)
    PROVE  LET later == Plus(n, 1)
           IN  /\ later \in Ticks /\ Timely(table, later, 0)
               /\ InOrder(table, n) => InOrder(table, later)
               /\ \A i \in 1 .. Len(table) : Signed(table[i].t, later) = Signed(table[i].t, n) - 1
  <1> DEFINE later == Plus(n, 1)
  <1>1. 1 \in {0, 1} /\ 1 \in 0 .. Window
    BY WindowIs
  <1>2. later \in Ticks
    BY <1>1, SignedPlus
  <1>3. \A i \in 1 .. Len(table) : table[i] \in Entries /\ table[i].t \in Ticks
    BY TableIs DEF Entries
  <1>4. \A i \in 1 .. Len(table) : /\ Near(Signed(table[i].t, n)) /\ Signed(table[i].t, n) \in Int
                                   /\ i <= MAX_TIMER_NUM /\ i \in Nat
    BY <1>1, TimelyIsNear, TableIs
  <1>5. \A i \in 1 .. Len(table) : -Window < Signed(table[i].t, n)
    <2> SUFFICES ASSUME NEW i \in 1 .. Len(table) PROVE -Window < Signed(table[i].t, n)
      OBVIOUS
    <2>1. IntervalOK(table[i].interval)
      BY <1>3, <1>2, EntryIs
    <2>2. Late < Window
      BY <2>1, IntervalIs
    <2>3. Near(Signed(table[i].t, n)) /\ Signed(table[i].t, n) \in Int
      BY <1>4
    <2> QED BY <2>2, <2>3, WindowIs DEF Near
  <1>6. \A i \in 1 .. Len(table) : Signed(table[i].t, later) = Signed(table[i].t, n) - 1
    BY <1>3, <1>5, TickLater
  <1> HIDE DEF later
  <1>7. Timely(table, later, 0)
    <2> SUFFICES ASSUME NEW i \in 1 .. Len(table) PROVE InTime(table[i], i, later, 0)
      BY DEF Timely
    <2>1. InTime(table[i], i, n, 1)
      BY DEF Timely
    <2> QED BY <1>4, <1>6, <2>1, WindowIs DEF InTime
  <1>8. ASSUME InOrder(table, n) PROVE InOrder(table, later)
    <2> SUFFICES ASSUME NEW j \in 1 .. Len(table), NEW i \in 1 .. j
                 PROVE  Signed(table[i].t, later) <= Signed(table[j].t, later)
      BY DEF InOrder
    <2>1. i \in 1 .. Len(table)
      BY TableIs
    <2>2. Signed(table[i].t, n) <= Signed(table[j].t, n)
      BY <1>8 DEF InOrder
    <2> QED BY <1>4, <1>6, <2>1, <2>2
  <1> QED BY <1>2, <1>6, <1>7, <1>8 DEF later

(* When the clock advances in a walk that began at n.                      *)
LEMMA StartsLater ==
    ASSUME NEW c \in Callback, NEW n \in Ticks, NEW clk \in {n, Plus(n, 1)}, NEW d, IntervalOK(d),
           NEW e, e = [cb |-> c, t |-> Plus(clk, d), interval |-> d]
    PROVE  /\ e \in Entries /\ Signed(e.t, n) > Pre /\ Signed(e.t, n) <= Window - Late
           /\ Signed(e.t, clk) = d /\ clk \in Ticks
  <1>1. 1 \in 0 .. Window /\ 1 \in 0 .. Wrap /\ d \in 0 .. Wrap /\ d + 1 \in 0 .. Wrap /\ d + 1 \in 0 .. Window
        /\ d \in Nat /\ d > Pre /\ d + 1 > Pre /\ d + 1 <= Window - Late /\ d <= Window - Late
    BY WindowIs DEF IntervalOK
  <1>2. clk \in Ticks
    BY <1>1, SignedPlus
  <1>3. e \in Entries /\ Signed(e.t, clk) = d
    BY <1>2, NewEntryIs
  <1>4. CASE clk = n
    BY <1>1, <1>2, <1>3, <1>4
  <1>5. CASE clk = Plus(n, 1)
    <2>1. Plus(n, 1) = (IF n + 1 < Wrap THEN n + 1 ELSE n + 1 - Wrap)
      BY <1>1, ClockIs
    <2>2. Plus(clk, d) = (IF clk + d < Wrap THEN clk + d ELSE clk + d - Wrap)
      BY <1>1, <1>2, ClockIs
    <2>3. Plus(n, d + 1) = (IF n + (d + 1) < Wrap THEN n + (d + 1) ELSE n + (d + 1) - Wrap)
      BY <1>1, ClockIs
    <2>4. Plus(clk, d) = Plus(n, d + 1)
      <3>1. n \in 0 .. Wrap - 1 /\ Wrap \in Nat /\ d + 1 <= Wrap
        BY <1>1, WindowIs DEF Ticks
      <3> QED BY <1>1, <1>5, <2>1, <2>2, <2>3, <3>1
    <2>5. Signed(Plus(n, d + 1), n) = d + 1
      BY <1>1, SignedPlus
    <2> QED BY <1>1, <1>2, <1>3, <2>4, <2>5
  <1> QED BY <1>4, <1>5

(* What is assumed of callbacks, in the form the proofs use.               *)
LEMMA TimerAssumptions ==
    /\ \A c \in Callback : IntervalOK(Interval[c])
    /\ \A c \in Callback : \A o \in Outcome[c] :
          /\ o.result \in Int /\ (o.result > 0 => IntervalOK(o.result))
          /\ o.starts = NoTimer \/ (o.starts \in Callback /\ o.starts # c /\ o.starts # NoTimer)
    /\ NoTimer \notin Callback /\ NoTimer \notin Int
  <1>1. /\ \A c \in Callback : IntervalOK(Interval[c])
        /\ NoTimer \notin Callback /\ NoTimer \notin Int
    BY TimerAssumption
  <1>2. ASSUME NEW c \in Callback, NEW o \in Outcome[c]
        PROVE  /\ o.result \in Int /\ (o.result > 0 => IntervalOK(o.result))
               /\ o.starts = NoTimer \/ (o.starts \in Callback /\ o.starts # c /\ o.starts # NoTimer)
    <2>1. /\ o.result \in Int /\ (o.result > 0 => IntervalOK(o.result))
          /\ o.starts \in (Callback \ {c}) \union {NoTimer}
      BY TimerAssumption
    <2> QED BY <1>1, <2>1
  <1> QED BY <1>1, <1>2

(* The entry of a timer that starts in a walk.                             *)
LEMMA StartsInWalk ==
    ASSUME NEW c \in Callback, NEW n \in Ticks, NEW clk \in {n, Plus(n, 1)}
    PROVE  LET e == Entry(c, clk, Interval[c])
           IN  /\ e \in Entries /\ Signed(e.t, n) > Pre /\ Signed(e.t, n) <= Window - Late
               /\ Signed(e.t, clk) = Interval[c] /\ e.interval = Interval[c]
  <1> DEFINE d == Interval[c]  e == Entry(c, clk, d)
  <1>1. IntervalOK(d) /\ e = [cb |-> c, t |-> Plus(clk, d), interval |-> d]
    BY TimerAssumptions DEF Entry
  <1> HIDE DEF d, e
  <1>2. /\ e \in Entries /\ Signed(e.t, n) > Pre /\ Signed(e.t, n) <= Window - Late
        /\ Signed(e.t, clk) = d
    BY <1>1, StartsLater
  <1>3. e.interval = d
    BY <1>1
  <1> QED BY <1>2, <1>3 DEF d, e

-----------------------------------------------------------------------------
(* The first state.                                                        *)
LEMMA TimerInitInv == TimerInit => TimerInv
  BY EmptyTable DEF TimerInit, TimerInv, Between, Ticks

(* A timer that starts from outside keeps the invariant.                   *)
LEMMA StartInv == ASSUME TimerInv, NEW c \in Callback, tuya_timer_start(c) PROVE TimerInv'
  <1> DEFINE k == IF served THEN 1 ELSE 0  e == Entry(c, clock, Interval[c])
             r == bsp_timer_start(timer, c, clock)
  <1>1. /\ IsTable(timer) /\ clock \in Ticks /\ served \in BOOLEAN /\ walk = NoTimer
        /\ InOrder(timer, clock) /\ Timely(timer, clock, k) /\ k \in {0, 1}
    BY DEF TimerInv, Between, tuya_timer_start
  <1>2. e \in Entries /\ Signed(e.t, clock) > Pre /\ Signed(e.t, clock) <= Window - Late
    <2>1. IntervalOK(Interval[c])
      BY TimerAssumptions
    <2> QED BY <1>1, <2>1, StartsLater DEF Entry
  <1> HIDE DEF k, e
  <1>3. IsTable(r) /\ InOrder(r, clock) /\ Timely(r, clock, k)
    BY <1>1, <1>2, Started DEF e
  <1>4. timer' = r /\ clock' = clock /\ walk' = walk /\ served' = served
    BY DEF tuya_timer_start
  <1> QED BY <1>1, <1>3, <1>4 DEF TimerInv, Between, k

(* So does one that is deleted from outside.                               *)
LEMMA DeleteInv == ASSUME TimerInv, NEW c \in Callback, tuya_timer_delete(c) PROVE TimerInv'
  <1> DEFINE k == IF served THEN 1 ELSE 0  r == blt_soft_timer_delete(timer, c)
  <1>1. /\ IsTable(timer) /\ clock \in Ticks /\ served \in BOOLEAN /\ walk = NoTimer
        /\ InOrder(timer, clock) /\ Timely(timer, clock, k) /\ k \in {0, 1}
    BY DEF TimerInv, Between, tuya_timer_delete
  <1> HIDE DEF k
  <1>2. IsTable(r) /\ InOrder(r, clock) /\ Timely(r, clock, k)
    BY <1>1, Deleted
  <1>3. timer' = r /\ clock' = clock /\ walk' = walk /\ served' = served
    BY DEF tuya_timer_delete
  <1> QED BY <1>1, <1>2, <1>3 DEF TimerInv, Between, k

(* The turn that finds the first entry not due has served them all.        *)
LEMMA WalkBeginsInv == ASSUME TimerInv, WalkBegins PROVE TimerInv'
  <1> DEFINE k == IF served THEN 1 ELSE 0
  <1>1. /\ IsTable(timer) /\ clock \in Ticks /\ served \in BOOLEAN /\ walk = NoTimer
        /\ InOrder(timer, clock) /\ Timely(timer, clock, k) /\ k \in {0, 1}
    BY DEF TimerInv, Between, WalkBegins
  <1>2. timer' = timer /\ clock' = clock /\ served' = TRUE
    BY DEF WalkBegins
  <1> HIDE DEF k
  <1>3. Timely(timer, clock, 0) /\ \A i \in 1 .. Len(timer) : Near(Signed(timer[i].t, clock))
    BY <1>1, TimelyIsNear
  <1>4. \A i \in 1 .. Len(timer) : timer[i].t \in Ticks /\ Signed(timer[i].t, clock) \in Int /\ i \in Nat /\ i >= 1
    BY <1>1, TableIs DEF Entries
  <1>5. CASE timer # <<>> /\ blt_is_timer_expired(timer[1].t, clock)
    <2>1. walk' = [i |-> 1, now |-> clock, change_flg |-> FALSE]
      BY <1>5 DEF WalkBegins
    <2>2. 1 \in 1 .. Len(timer)
      BY <1>1, <1>5 DEF IsTable
    <2>3. FirstDue(timer, clock)
      BY <1>1, <1>3, <1>4, <1>5, <2>2, ExpiresNear DEF FirstDue
    <2>4. walk' \in [i : 1 .. MAX_TIMER_NUM + 1, now : Ticks, change_flg : BOOLEAN]
      BY <1>1, <2>1, WindowIs
    <2>5. InWalk'
      BY <1>1, <1>2, <1>3, <2>1, <2>3, <2>4 DEF InWalk, Unchanged
    <2> QED BY <1>1, <1>2, <2>4, <2>5, NoWalk DEF TimerInv
  <1>6. CASE ~(timer # <<>> /\ blt_is_timer_expired(timer[1].t, clock))
    <2>1. walk' = NoTimer
      BY <1>6 DEF WalkBegins
    <2>2. Timely(timer, clock, 1)
      <3> SUFFICES ASSUME NEW i \in 1 .. Len(timer) PROVE InTime(timer[i], i, clock, 1)
        BY DEF Timely
      <3>1. timer # <<>> /\ 1 \in 1 .. Len(timer) /\ 1 \in 1 .. i
        BY <1>1, <1>4 DEF IsTable
      <3>2. ~(Signed(timer[1].t, clock) <= Pre)
        BY <1>1, <1>3, <1>4, <1>6, <3>1, ExpiresNear
      <3>3. Signed(timer[1].t, clock) <= Signed(timer[i].t, clock)
        BY <1>1, <3>1 DEF InOrder
      <3>4. Signed(timer[i].t, clock) > Pre
        BY <1>4, <3>1, <3>2, <3>3, WindowIs
      <3> QED BY <1>3, <3>4 DEF Timely, InTime
    <2> QED BY <1>1, <1>2, <2>1, <2>2 DEF TimerInv, Between
  <1> QED BY <1>5, <1>6

(* In a walk every entry is near.                                          *)
LEMMA Walking ==
    ASSUME TimerInv, walk # NoTimer
    PROVE  /\ IsTable(timer) /\ clock \in Ticks /\ served \in BOOLEAN
           /\ walk \in [i : 1 .. MAX_TIMER_NUM + 1, now : Ticks, change_flg : BOOLEAN]
           /\ walk.now \in Ticks /\ walk.i \in Nat /\ walk.i >= 1 /\ walk.change_flg \in BOOLEAN
           /\ clock = IF served THEN walk.now ELSE Plus(walk.now, 1)
           /\ IF walk.change_flg THEN Changed ELSE Unchanged
           /\ Timely(timer, walk.now, 0)
           /\ \A i \in 1 .. Len(timer) : /\ Near(Signed(timer[i].t, walk.now)) /\ timer[i] \in Entries
                                         /\ Signed(timer[i].t, walk.now) \in Int /\ timer[i].t \in Ticks
                                         /\ i <= MAX_TIMER_NUM /\ i \in Nat
  <1>1. /\ IsTable(timer) /\ clock \in Ticks /\ served \in BOOLEAN
        /\ walk \in [i : 1 .. MAX_TIMER_NUM + 1, now : Ticks, change_flg : BOOLEAN]
        /\ clock = IF served THEN walk.now ELSE Plus(walk.now, 1)
        /\ IF walk.change_flg THEN Changed ELSE Unchanged
    BY DEF TimerInv, InWalk
  <1>2. walk.now \in Ticks /\ walk.i \in Nat /\ walk.i >= 1 /\ walk.change_flg \in BOOLEAN
    BY <1>1, WindowIs
  <1>3. PICK k \in {0, 1} : Timely(timer, walk.now, k)
    BY <1>1 DEF Changed, Unchanged
  <1>4. Timely(timer, walk.now, 0) /\ \A i \in 1 .. Len(timer) : Near(Signed(timer[i].t, walk.now))
    BY <1>1, <1>2, <1>3, TimelyIsNear
  <1>5. \A i \in 1 .. Len(timer) : /\ timer[i] \in Entries /\ timer[i].t \in Ticks
                                   /\ Signed(timer[i].t, walk.now) \in Int /\ i <= MAX_TIMER_NUM /\ i \in Nat
    BY <1>1, <1>2, TableIs DEF Entries
  <1> QED BY <1>1, <1>2, <1>4, <1>5

(* A walk only passes over entries that are not due, so not over the       *)
(* first.                                                                  *)
LEMMA NotExpiredInv == ASSUME TimerInv, NotExpired PROVE TimerInv'
  <1>1. /\ walk # NoTimer /\ walk.i <= Len(timer) /\ ~blt_is_timer_expired(timer[walk.i].t, walk.now)
        /\ walk' = [walk EXCEPT !.i = @ + 1] /\ timer' = timer /\ clock' = clock /\ served' = served
    BY DEF NotExpired, VisitsExpired, Visits
  <1>2. /\ IsTable(timer) /\ clock \in Ticks /\ served \in BOOLEAN /\ Len(timer) \in Nat
        /\ walk \in [i : 1 .. MAX_TIMER_NUM + 1, now : Ticks, change_flg : BOOLEAN]
        /\ walk.now \in Ticks /\ walk.i \in Nat /\ walk.i >= 1
        /\ clock = (IF served THEN walk.now ELSE Plus(walk.now, 1))
        /\ IF walk.change_flg THEN Changed ELSE Unchanged
    BY <1>1, Walking, TableIs
  <1>3. walk.i \in 1 .. Len(timer)
    BY <1>1, <1>2
  <1>4. walk.i <= MAX_TIMER_NUM /\ Near(Signed(timer[walk.i].t, walk.now)) /\ timer[walk.i].t \in Ticks
    BY <1>1, <1>3, Walking
  <1>5. ~(Signed(timer[walk.i].t, walk.now) <= Pre)
    BY <1>1, <1>2, <1>4, ExpiresNear
  <1>6. /\ walk' \in [i : 1 .. MAX_TIMER_NUM + 1, now : Ticks, change_flg : BOOLEAN]
        /\ walk'.now = walk.now /\ walk'.i = walk.i + 1 /\ walk'.change_flg = walk.change_flg
    <2> DEFINE w == walk
    <2>1. w \in [i : 1 .. MAX_TIMER_NUM + 1, now : Ticks, change_flg : BOOLEAN] /\ walk' = [w EXCEPT !.i = @ + 1]
      BY <1>1, <1>2
    <2>2. w.i + 1 \in 1 .. MAX_TIMER_NUM + 1
      BY <1>2, <1>4, WindowIs
    <2> HIDE DEF w
    <2>3. walk' = [i |-> w.i + 1, now |-> w.now, change_flg |-> w.change_flg]
      BY <2>1
    <2>4. w.now \in Ticks /\ w.change_flg \in BOOLEAN
      BY <2>1
    <2> QED BY <2>2, <2>3, <2>4 DEF w
  <1>7. walk'.i # 1 /\ walk'.i > 1
    BY <1>2, <1>6
  <1>8. CASE walk.change_flg
    BY <1>1, <1>2, <1>6, <1>7, <1>8, NoWalk DEF TimerInv, InWalk, Changed
  <1>9. CASE ~walk.change_flg
    <2>1. walk.i # 1
      BY <1>2, <1>5, <1>9 DEF Unchanged, FirstDue
    <2> QED BY <1>1, <1>2, <1>6, <1>7, <1>9, <2>1, NoWalk DEF TimerInv, InWalk, Unchanged
  <1> QED BY <1>8, <1>9

(* The restart leaves an empty table.                                      *)
LEMMA RebootInv == ASSUME TimerInv, chip_reboot PROVE TimerInv'
  BY EmptyTable DEF TimerInv, chip_reboot, Between

(* The sort at the end of a walk restores the order.                       *)
LEMMA WalkEndsInv == ASSUME TimerInv, WalkEnds PROVE TimerInv'
  <1>1. /\ walk # NoTimer /\ walk.i > Len(timer) /\ walk' = NoTimer /\ clock' = clock /\ served' = served
        /\ timer' = IF walk.change_flg /\ timer # <<>> THEN blt_soft_timer_sort(timer) ELSE timer
    BY DEF WalkEnds
  <1>2. /\ IsTable(timer) /\ clock \in Ticks /\ served \in BOOLEAN /\ Len(timer) \in Nat
        /\ walk.now \in Ticks /\ walk.i \in Nat /\ walk.change_flg \in BOOLEAN
        /\ clock = (IF served THEN walk.now ELSE Plus(walk.now, 1))
        /\ IF walk.change_flg THEN Changed ELSE Unchanged
    BY <1>1, Walking, TableIs
  <1>3. IsTable(timer') /\ InOrder(timer', walk.now) /\ Timely(timer', walk.now, 1)
    <2>1. CASE walk.change_flg
      <3>1. PICK k \in {0, 1} : Timely(timer, walk.now, k) /\ (k = 1 \/ FirstLater(timer, walk.now))
        BY <1>2, <2>1 DEF Changed
      <3>2. timer # <<>> /\ timer' = blt_soft_timer_sort(timer)
        BY <1>1, <1>2, <2>1 DEF Changed
      <3>3. LET r == blt_soft_timer_sort(timer)
            IN  IsTable(r) /\ InOrder(r, walk.now) /\ Timely(r, walk.now, k)
                /\ (FirstLater(timer, walk.now) => Timely(r, walk.now, 1))
        BY <1>2, <3>1, <3>2, Sorted
      <3> QED BY <3>1, <3>2, <3>3
    <2>2. CASE ~walk.change_flg
      <3>1. walk.i # 1
        <4>1. FirstDue(timer, walk.now) => Len(timer) >= 1
          BY <1>2 DEF FirstDue, IsTable
        <4> QED BY <1>1, <1>2, <2>2, <4>1 DEF Unchanged
      <3> QED BY <1>1, <1>2, <2>2, <3>1 DEF Unchanged
    <2> QED BY <2>1, <2>2
  <1>4. InOrder(timer', clock) /\ Timely(timer', clock, IF served THEN 1 ELSE 0)
    <2>1. CASE served
      BY <1>2, <1>3, <2>1
    <2>2. CASE ~served
      BY <1>2, <1>3, <2>2, TableTick
    <2> QED BY <1>2, <2>1, <2>2
  <1> QED BY <1>1, <1>2, <1>3, <1>4 DEF TimerInv, Between

(* A tick takes the turn that the last one gave.                           *)
LEMMA TickInv == ASSUME TimerInv, Tick PROVE TimerInv'
  <1>1. /\ served = TRUE /\ clock' = Plus(clock, 1) /\ served' = FALSE /\ timer' = timer /\ walk' = walk
        /\ IsTable(timer) /\ clock \in Ticks
    BY DEF Tick, TimerInv
  <1>2. clock' \in Ticks
    <2>1. 1 \in 0 .. Window
      BY WindowIs
    <2> QED BY <1>1, <2>1, SignedPlus
  <1>3. CASE walk = NoTimer
    <2>1. InOrder(timer, clock) /\ Timely(timer, clock, 1)
      BY <1>1, <1>3 DEF TimerInv, Between
    <2>2. InOrder(timer, Plus(clock, 1)) /\ Timely(timer, Plus(clock, 1), 0)
      BY <1>1, <2>1, TableTick
    <2> QED BY <1>1, <1>2, <1>3, <2>2 DEF TimerInv, Between
  <1>4. CASE walk # NoTimer
    BY <1>1, <1>2, <1>4 DEF TimerInv, InWalk, Changed, Unchanged
  <1> QED BY <1>3, <1>4

(* The entry whose callback is called, and what is left of it to wait.     *)
LEMMA Visiting ==
    ASSUME TimerInv, VisitsExpired
    PROVE  /\ walk # NoTimer /\ walk.i \in 1 .. Len(timer) /\ timer[walk.i] \in Entries
           /\ timer[walk.i].cb \in Callback /\ IntervalOK(timer[walk.i].interval)
           /\ Signed(timer[walk.i].t, walk.now) <= Pre
  <1>1. /\ walk # NoTimer /\ walk.i <= Len(timer) /\ blt_is_timer_expired(timer[walk.i].t, walk.now)
    BY DEF VisitsExpired, Visits
  <1>2. walk.i \in Nat /\ walk.i >= 1 /\ walk.now \in Ticks /\ IsTable(timer) /\ Len(timer) \in Nat
    BY <1>1, Walking, TableIs
  <1>3. walk.i \in 1 .. Len(timer)
    BY <1>1, <1>2
  <1>4. Near(Signed(timer[walk.i].t, walk.now)) /\ timer[walk.i].t \in Ticks /\ timer[walk.i] \in Entries
    BY <1>1, <1>3, Walking
  <1>5. Signed(timer[walk.i].t, walk.now) <= Pre
    BY <1>1, <1>2, <1>4, ExpiresNear
  <1>6. timer[walk.i].cb \in Callback /\ IntervalOK(timer[walk.i].interval)
    BY <1>2, <1>4, EntryIs
  <1> QED BY <1>1, <1>3, <1>4, <1>5, <1>6

(* What the start of another timer leaves as it was.                       *)
LEMMA CallBackStarts ==
    ASSUME TimerInv, VisitsExpired, NEW o \in Outcome[timer[walk.i].cb]
    PROVE  LET s == StartedBy(o)
           IN  /\ IsTable(s) /\ walk.i \in 1 .. Len(s)
               /\ o.starts = NoTimer => s = timer
               /\ InOrder(timer, walk.now) => InOrder(s, walk.now)
               /\ \A k \in {0, 1} : Timely(timer, walk.now, k) => Timely(s, walk.now, k)
               /\ o.starts # NoTimer /\ FirstLater(timer, walk.now) => Timely(s, walk.now, 1)
               /\ \A d : d # o.starts => View(s, d) = View(timer, d)
               /\ o.starts # NoTimer =>
                     \E e \in Entries : /\ View(s, o.starts) = {e} /\ e.interval = Interval[o.starts]
                                        /\ Signed(e.t, clock) = Interval[o.starts]
  <1> DEFINE s == StartedBy(o)  x == walk.i  n == walk.now  c == o.starts
  <1>1. /\ walk # NoTimer /\ x \in 1 .. Len(timer) /\ timer[x].cb \in Callback
    BY Visiting
  <1>2. /\ IsTable(timer) /\ n \in Ticks /\ clock \in Ticks /\ clock \in {n, Plus(n, 1)}
        /\ Timely(timer, n, 0)
    BY <1>1, Walking
  <1>3. CASE c = NoTimer
    <2>1. s = timer
      BY <1>3 DEF StartedBy
    <2> HIDE DEF s
    <2> QED BY <1>1, <1>2, <1>3, <2>1 DEF s
  <1>4. CASE c # NoTimer
    <2> DEFINE e == Entry(c, clock, Interval[c])
    <2>1. s = bsp_timer_start(timer, c, clock)
      BY <1>4 DEF StartedBy
    <2>2. c \in Callback
      BY <1>1, <1>4, TimerAssumptions
    <2>3. /\ e \in Entries /\ Signed(e.t, n) > Pre /\ Signed(e.t, n) <= Window - Late
          /\ Signed(e.t, clock) = Interval[c] /\ e.interval = Interval[c]
      BY <1>2, <2>2, StartsInWalk
    <2> HIDE DEF s, c, x, n
    <2>6. e = Entry(c, clock, Interval[c])
      OBVIOUS
    <2> HIDE DEF e
    <2>7. 0 \in {0, 1} /\ Timely(timer, n, 0)
      BY <1>2
    <2>8. IsTable(s)
      BY <1>2, <2>1, <2>2, <2>3, <2>6, <2>7, Started
    <2>9. Len(s) >= Len(timer) /\ (FirstLater(timer, n) => Timely(s, n, 1))
      BY <1>2, <2>1, <2>2, <2>3, <2>6, <2>7, StartedAnew
    <2>10. View(s, c) = {e}
      BY <1>2, <2>1, <2>2, <2>3, <2>6, <2>7, Started
    <2>11. \A d : d # c => View(s, d) = View(timer, d)
      BY <1>2, <2>1, <2>2, <2>3, <2>6, <2>7, Started
    <2>12. ASSUME NEW j \in {0, 1}, Timely(timer, n, j) PROVE Timely(s, n, j)
      BY <1>2, <2>1, <2>2, <2>3, <2>6, <2>12, Started
    <2>13. InOrder(s, n)
      BY <1>2, <2>1, <2>2, <2>3, <2>6, <2>7, Started
    <2>14. x \in 1 .. Len(s)
      <3>1. Len(s) \in Nat /\ Len(timer) \in Nat
        BY <1>2, <2>8, TableIs
      <3> QED BY <1>1, <2>9, <3>1
    <2> QED BY <1>4, <2>3, <2>8, <2>9, <2>10, <2>11, <2>12, <2>13, <2>14 DEF s, c, x, n
  <1> QED BY <1>3, <1>4

(* The entry visited is the one at the index after the start, if it keeps  *)
(* its place or no other has come there.                                   *)
LEMMA CallBackStays ==
    ASSUME TimerInv, VisitsExpired, NEW o \in Outcome[timer[walk.i].cb],
           \/ o.starts = NoTimer
           \/ KeepsItsPlace(o.starts)
           \/ StartedBy(o)[walk.i].cb = timer[walk.i].cb
    PROVE  StartedBy(o)[walk.i] = timer[walk.i]
  <1> DEFINE s == StartedBy(o)  x == walk.i  n == walk.now  c == o.starts
  <1>1. /\ walk # NoTimer /\ x \in 1 .. Len(timer) /\ timer[x].cb \in Callback
        /\ Signed(timer[x].t, n) <= Pre
    BY Visiting
  <1>2. /\ IsTable(timer) /\ n \in Ticks /\ clock \in Ticks /\ clock \in {n, Plus(n, 1)}
        /\ IF walk.change_flg THEN Changed ELSE Unchanged
    BY <1>1, Walking
  <1>3. c = NoTimer \/ (c \in Callback /\ c # timer[x].cb /\ c # NoTimer)
    BY <1>1, TimerAssumptions
  <1>4. CASE c = NoTimer
    BY <1>4 DEF StartedBy
  <1>5. CASE c # NoTimer /\ s[x].cb = timer[x].cb
    <2>1. IsTable(s) /\ x \in 1 .. Len(s) /\ View(s, timer[x].cb) = View(timer, timer[x].cb)
      BY <1>3, <1>5, CallBackStarts
    <2> HIDE DEF s, x
    <2>2. View(timer, timer[x].cb) = {timer[x]} /\ View(s, s[x].cb) = {s[x]}
      BY <1>1, <1>2, <2>1, ViewIs
    <2> QED BY <1>5, <2>1, <2>2 DEF s, x
  <1>6. CASE c # NoTimer /\ KeepsItsPlace(c)
    <2> DEFINE e == Entry(c, clock, Interval[c])
    <2>1. s = bsp_timer_start(timer, c, clock)
      BY <1>6 DEF StartedBy
    <2>2. c \in Callback /\ c # timer[x].cb
      BY <1>3, <1>6
    <2>3. /\ e \in Entries /\ Signed(e.t, n) > Pre /\ Signed(e.t, n) <= Window - Late
      BY <1>2, <2>2, StartsInWalk
    <2>4. /\ ~walk.change_flg
          /\ \A i \in 1 .. Len(timer) : timer[i].t = timer[x].t => i = x
          /\ \A i \in 1 .. x - 1 : timer[i].cb # c
      BY <1>6 DEF KeepsItsPlace
    <2>5. InOrder(timer, n) /\ \E k \in {0, 1} : Timely(timer, n, k)
      BY <1>2, <2>4 DEF Unchanged
    <2> HIDE DEF s, c, x, n
    <2>6. e = Entry(c, clock, Interval[c])
      OBVIOUS
    <2> HIDE DEF e
    <2>7. PICK k \in {0, 1} : Timely(timer, n, k)
      BY <2>5
    <2>8. s[x] = timer[x]
      BY <1>1, <1>2, <2>1, <2>2, <2>3, <2>4, <2>5, <2>6, <2>7, StartedBehind
    <2> QED BY <2>8 DEF s, x
  <1> QED BY <1>3, <1>4, <1>5, <1>6

(* The parts of CallBack.                                                  *)
LEMMA CallBackIs ==
    ASSUME CallBack
    PROVE  /\ VisitsExpired /\ timer[walk.i].cb \notin Resets /\ clock' = clock /\ served' = served
           /\ \E o \in Outcome[timer[walk.i].cb] :
                 /\ Answers(o)
                 /\ timer' = AfterResult(StartedBy(o), walk.i, o.result, walk.now)
                 /\ walk' = [walk EXCEPT !.i = @ + 1, !.change_flg = @ \/ o.result >= 0]
  BY DEF CallBack, Answers

(* The entry visited leaves the table, or goes behind what is due.         *)
LEMMA CallBackInv == ASSUME TimerInv, CallBack PROVE TimerInv'
  <1> DEFINE n == walk.now  x == walk.i
  <1>1. /\ VisitsExpired /\ clock' = clock /\ served' = served
    BY CallBackIs
  <1>2. PICK o \in Outcome[timer[x].cb] :
                 /\ timer' = AfterResult(StartedBy(o), x, o.result, n)
                 /\ walk' = [walk EXCEPT !.i = @ + 1, !.change_flg = @ \/ o.result >= 0]
    BY CallBackIs
  <1>3. walk # NoTimer /\ x \in 1 .. Len(timer) /\ timer[x].cb \in Callback
    BY <1>1, Visiting
  <1>4. /\ clock \in Ticks /\ served \in BOOLEAN /\ n \in Ticks /\ x <= MAX_TIMER_NUM
        /\ x \in Nat /\ x >= 1 /\ walk.change_flg \in BOOLEAN
        /\ walk \in [i : 1 .. MAX_TIMER_NUM + 1, now : Ticks, change_flg : BOOLEAN]
        /\ clock = (IF served THEN n ELSE Plus(n, 1))
    BY <1>3, Walking
  <1>5. IF walk.change_flg THEN Changed ELSE Unchanged
    BY <1>3, Walking
  <1>6. o.result \in Int /\ (o.result > 0 => IntervalOK(o.result))
    BY <1>3, TimerAssumptions
  <1> DEFINE s == StartedBy(o)
  <1>7. /\ IsTable(s) /\ x \in 1 .. Len(s)
        /\ InOrder(timer, n) => InOrder(s, n)
        /\ \A k \in {0, 1} : Timely(timer, n, k) => Timely(s, n, k)
        /\ o.starts # NoTimer /\ FirstLater(timer, n) => Timely(s, n, 1)
    BY <1>1, <1>2, CallBackStarts
  <1>8. o.starts = NoTimer => s = timer
    BY <1>1, <1>2, CallBackStarts
  <1> HIDE DEF s, n, x
  <1>9. /\ walk' \in [i : 1 .. MAX_TIMER_NUM + 1, now : Ticks, change_flg : BOOLEAN]
        /\ walk'.now = n /\ walk'.i = x + 1 /\ walk'.change_flg = (walk.change_flg \/ o.result >= 0)
        /\ walk'.i # 1 /\ walk'.i > 1
    <2> DEFINE w == walk
    <2>1. /\ w \in [i : 1 .. MAX_TIMER_NUM + 1, now : Ticks, change_flg : BOOLEAN]
          /\ walk' = [w EXCEPT !.i = @ + 1, !.change_flg = @ \/ o.result >= 0]
          /\ w.i = x /\ w.now = n
      BY <1>2, <1>4 DEF x, n
    <2>2. x + 1 \in 1 .. MAX_TIMER_NUM + 1 /\ x + 1 > 1
      BY <1>4, WindowIs
    <2>3. w.change_flg = walk.change_flg
      OBVIOUS
    <2> HIDE DEF w
    <2>4. walk' = [i |-> x + 1, now |-> n, change_flg |-> w.change_flg \/ o.result >= 0]
      BY <2>1
    <2>5. n \in Ticks /\ (w.change_flg \/ o.result >= 0) \in BOOLEAN
      BY <1>4
    <2>6. walk'.now = n /\ walk'.i = x + 1 /\ walk'.change_flg = (w.change_flg \/ o.result >= 0)
      BY <2>4
    <2> QED BY <2>2, <2>3, <2>4, <2>5, <2>6
  <1>10. CASE o.result < 0
    <2> DEFINE r == blt_soft_timer_delete_by_index(s, x)
    <2>1. timer' = r
      BY <1>2, <1>10 DEF AfterResult, s, x, n
    <2>2. IsTable(r) /\ Len(r) = Len(s) - 1 /\ \A j \in 1 .. Len(r) : j < x => r[j] = s[j]
      <3>1. IsTable(r) /\ Len(r) = Len(s) - 1
        BY <1>7, IndexDeleted
      <3>2. \A j \in 1 .. Len(r) : j < x => r[j] = s[j]
        BY <1>7, IndexDeleted
      <3> QED BY <3>1, <3>2
    <2>3. /\ InOrder(s, n) => InOrder(r, n)
          /\ \A k \in {0, 1} : Timely(s, n, k) => Timely(r, n, k)
          /\ x = 1 /\ Timely(s, n, 0) => Timely(r, n, 1)
      BY <1>4, <1>7, IndexDeletedKeeps
    <2> HIDE DEF r
    <2>4. walk'.change_flg = walk.change_flg
      BY <1>4, <1>6, <1>9, <1>10
    <2>5. CASE walk.change_flg
      <3>1. /\ x > 1
            /\ Timely(s, n, 1) \/ (Timely(s, n, 0) /\ FirstLater(s, n))
        <4>1. /\ x > 1
              /\ Timely(timer, n, 1) \/ (Timely(timer, n, 0) /\ FirstLater(timer, n))
          BY <1>5, <2>5 DEF Changed, x, n
        <4> QED BY <1>7, <1>8, <4>1
      <3>2. 1 \in 1 .. Len(r) /\ r # <<>>
        <4>1. Len(s) \in Nat /\ Len(s) >= 2 /\ Len(r) >= 1 /\ Len(r) \in Nat
          BY <1>7, <2>2, <3>1, TableIs, <1>4
        <4> QED BY <4>1
      <3>3. FirstLater(s, n) => FirstLater(r, n)
        BY <2>2, <3>1, <3>2 DEF FirstLater
      <3>4. Timely(r, n, 1) \/ (Timely(r, n, 0) /\ FirstLater(r, n))
        BY <2>3, <3>1, <3>3
      <3> QED BY <1>1, <1>4, <1>9, <2>1, <2>2, <2>4, <2>5, <3>2, <3>4, NoWalk DEF TimerInv, InWalk, Changed
    <2>6. CASE ~walk.change_flg
      <3>1. InOrder(s, n) /\ IF x = 1 THEN Timely(s, n, 0) ELSE Timely(s, n, 1)
        BY <1>5, <1>7, <2>6 DEF Unchanged, x, n
      <3>2. InOrder(r, n) /\ Timely(r, n, 1)
        BY <2>3, <3>1
      <3> QED BY <1>1, <1>4, <1>9, <2>1, <2>2, <2>4, <2>6, <3>2, NoWalk DEF TimerInv, InWalk, Unchanged
    <2> QED BY <2>5, <2>6
  <1>11. CASE o.result >= 0
    <2> DEFINE r == AfterResult(s, x, o.result, n)
               d == IF o.result = 0 THEN s[x].interval ELSE o.result
    <2>1. timer' = r
      BY <1>2 DEF s, x, n
    <2>2. /\ IsTable(r) /\ r # <<>>
          /\ \A k \in {0, 1} : Timely(s, n, k) => Timely(r, n, k)
          /\ x = 1 \/ FirstLater(s, n) => FirstLater(r, n)
      <3> DEFINE e == [cb |-> s[x].cb, t |-> Plus(n, d), interval |-> d]
      <3>1. d = (IF o.result = 0 THEN s[x].interval ELSE o.result) /\ e = [cb |-> s[x].cb, t |-> Plus(n, d), interval |-> d]
        OBVIOUS
      <3> HIDE DEF d, e
      <3> QED BY <1>4, <1>6, <1>7, <1>11, <3>1, Result
    <2> HIDE DEF r
    <2>3. walk'.change_flg = TRUE
      BY <1>9, <1>11
    <2>4. Timely(r, n, 1) \/ (Timely(r, n, 0) /\ FirstLater(r, n))
      <3>1. CASE walk.change_flg
        <4>1. Timely(timer, n, 1) \/ (Timely(timer, n, 0) /\ FirstLater(timer, n))
          BY <1>5, <3>1 DEF Changed, n
        <4>2. Timely(s, n, 1) \/ (Timely(s, n, 0) /\ FirstLater(s, n))
          BY <1>7, <1>8, <4>1
        <4> QED BY <2>2, <4>2
      <3>2. CASE ~walk.change_flg
        <4>1. IF x = 1 THEN Timely(s, n, 0) ELSE Timely(s, n, 1)
          BY <1>5, <1>7, <3>2 DEF Unchanged, x, n
        <4> QED BY <2>2, <4>1
      <3> QED BY <1>4, <3>1, <3>2
    <2> QED BY <1>1, <1>4, <1>9, <2>1, <2>2, <2>3, <2>4, NoWalk DEF TimerInv, InWalk, Changed
  <1> QED BY <1>6, <1>10, <1>11

(* Every step keeps the invariant.                                         *)
LEMMA TimerStepInv == TimerInv /\ [TimerNext]_timerVars => TimerInv'
  <1> SUFFICES ASSUME TimerInv, [TimerNext]_timerVars PROVE TimerInv'
    OBVIOUS
  <1>1. CASE UNCHANGED timerVars
    BY <1>1 DEF timerVars, TimerInv, Between, InWalk, Changed, Unchanged
  <1>2. ASSUME NEW c \in Callback, tuya_timer_start(c) \/ tuya_timer_delete(c) PROVE TimerInv'
    BY <1>2, StartInv, DeleteInv
  <1>3. ASSUME Walks PROVE TimerInv'
    BY <1>3, WalkBeginsInv, NotExpiredInv, CallBackInv, RebootInv, WalkEndsInv DEF Walks
  <1>4. ASSUME Tick PROVE TimerInv'
    BY <1>4, TickInv
  <1> QED BY <1>1, <1>2, <1>3, <1>4 DEF TimerNext

(* The invariant holds in every state.                                     *)
LEMMA TimerSafe == TimerSpec => []TimerInv
  BY TimerInitInv, TimerStepInv, PTL DEF TimerSpec

(* The invariant says what the run checks.                                 *)
LEMMA TimerInvInOrder == TimerInv => TableInOrder
  <1> SUFFICES ASSUME TimerInv PROVE TableInOrder
    OBVIOUS
  <1>1. \A i, j \in 1 .. Len(timer) : timer[i].cb = timer[j].cb => i = j
    BY DEF TimerInv, IsTable, Distinct
  <1>2. ASSUME walk = NoTimer, NEW i \in 1 .. Len(timer), NEW j \in 1 .. Len(timer), i < j
        PROVE  Signed(timer[i].t, clock) <= Signed(timer[j].t, clock)
    <2>1. i \in 1 .. j
      BY <1>2
    <2> QED BY <1>2, <2>1 DEF TimerInv, Between, InOrder
  <1> QED BY <1>1, <1>2 DEF TableInOrder

(* No callback stands twice in the table and, between walks, the entries   *)
(* stand in the order of their times across the wrap of the clock, so that *)
(* the look at the first entry misses no timer: blt_soft_timer.c, for      *)
(* every set of callbacks.                                                 *)
THEOREM TimersInOrder == TimerSpec => []TableInOrder
  BY TimerSafe, TimerInvInOrder, PTL

(* The timers of TimerService that a table stands for.                     *)
LeftIn(table, clk, c) == IF PlacesOf(table, c) = {} THEN NoTimer
                         ELSE Signed(table[CHOOSE i \in PlacesOf(table, c) : TRUE].t, clk)
PeriodIn(table, c) == IF PlacesOf(table, c) = {} THEN NoTimer
                      ELSE table[CHOOSE i \in PlacesOf(table, c) : TRUE].interval

(* The mapping of SoftTimer in terms of tables, before a step and after    *)
(* it.                                                                     *)
LEMMA MapIs ==
    /\ \A c : Left(c) = LeftIn(timer, clock, c) /\ PeriodOf(c) = PeriodIn(timer, c)
    /\ \A c : Left(c)' = LeftIn(timer', clock', c) /\ PeriodOf(c)' = PeriodIn(timer', c)
  BY DEF Left, PeriodOf, EntryOf, LeftIn, PeriodIn

(* A timer without an entry is not armed.                                  *)
LEMMA NotArmed ==
    ASSUME NEW table, IsTable(table), NEW c, View(table, c) = {}
    PROVE  \A clk : LeftIn(table, clk, c) = NoTimer /\ PeriodIn(table, c) = NoTimer
  BY ViewIs DEF LeftIn, PeriodIn

(* A timer with an entry has what the entry says.                          *)
LEMMA ArmedIs ==
    ASSUME NEW table, IsTable(table), NEW c, NEW e, View(table, c) = {e}
    PROVE  \A clk : LeftIn(table, clk, c) = Signed(e.t, clk) /\ PeriodIn(table, c) = e.interval
  <1> DEFINE i == CHOOSE i \in PlacesOf(table, c) : TRUE
  <1>1. PlacesOf(table, c) # {}
    BY DEF View
  <1>2. i \in PlacesOf(table, c)
    BY <1>1
  <1>3. table[i] \in View(table, c)
    BY <1>2 DEF View
  <1>4. table[i] = e
    BY <1>3
  <1> QED BY <1>1, <1>4 DEF LeftIn, PeriodIn

(* A callback has one entry or none.                                       *)
LEMMA ViewCases ==
    ASSUME NEW table, IsTable(table), NEW c
    PROVE  \/ View(table, c) = {}
           \/ \E i \in 1 .. Len(table) : table[i] \in Entries /\ table[i].cb = c /\ View(table, c) = {table[i]}
  <1> SUFFICES ASSUME View(table, c) # {}
               PROVE  \E i \in 1 .. Len(table) : table[i] \in Entries /\ table[i].cb = c /\ View(table, c) = {table[i]}
    OBVIOUS
  <1>1. PICK i \in 1 .. Len(table) : table[i].cb = c
    BY ViewIs DEF PlacesOf
  <1>2. View(table, c) = {table[i]}
    BY <1>1, ViewIs
  <1>3. table[i] \in Entries
    BY DEF IsTable
  <1> QED BY <1>1, <1>2, <1>3

(* Tables with the same entry of a callback stand for the same timer.      *)
LEMMA SameTimers ==
    ASSUME NEW t1, IsTable(t1), NEW t2, IsTable(t2), NEW c, View(t1, c) = View(t2, c)
    PROVE  \A clk : LeftIn(t1, clk, c) = LeftIn(t2, clk, c) /\ PeriodIn(t1, c) = PeriodIn(t2, c)
  <1>1. CASE View(t1, c) = {}
    BY <1>1, NotArmed
  <1>2. CASE View(t1, c) # {}
    <2>1. PICK e : View(t1, c) = {e}
      BY <1>2, ViewCases
    <2>2. \A clk : LeftIn(t1, clk, c) = Signed(e.t, clk) /\ PeriodIn(t1, c) = e.interval
      BY <2>1, ArmedIs
    <2>3. \A clk : LeftIn(t2, clk, c) = Signed(e.t, clk) /\ PeriodIn(t2, c) = e.interval
      BY <2>1, ArmedIs
    <2> QED BY <2>2, <2>3
  <1> QED BY <1>1, <1>2

-----------------------------------------------------------------------------
MapLeft == [c \in Callback |-> Left(c)]
MapPeriod == [c \in Callback |-> PeriodOf(c)]

(* At the start no timer is armed.                                         *)
LEMMA ServiceInit == TimerInit => Service!Init
  <1> SUFFICES ASSUME TimerInit PROVE Service!Init
    OBVIOUS
  <1>1. timer = <<>>
    BY DEF TimerInit
  <1>2. ASSUME NEW c \in Callback PROVE Left(c) = NoTimer /\ PeriodOf(c) = NoTimer
    BY <1>1, MapIs, NotArmed, EmptyTable
  <1> QED BY <1>2 DEF Service!Init

(* A start from outside is a Start of the service.                         *)
LEMMA ServiceStart ==
    ASSUME TimerInv, TimerInv', NEW c \in Callback, tuya_timer_start(c)
    PROVE  Service!Start(c)
  <1> DEFINE k == IF served THEN 1 ELSE 0  e == Entry(c, clock, Interval[c])
             r == bsp_timer_start(timer, c, clock)
  <1>1. /\ IsTable(timer) /\ clock \in Ticks /\ k \in {0, 1} /\ Timely(timer, clock, k)
        /\ timer' = r /\ clock' = clock
    BY DEF TimerInv, Between, tuya_timer_start
  <1>2. /\ e \in Entries /\ Signed(e.t, clock) > Pre /\ Signed(e.t, clock) <= Window - Late
        /\ Signed(e.t, clock) = Interval[c] /\ e.interval = Interval[c]
    <2> DEFINE d == Interval[c]
    <2>1. e = [cb |-> c, t |-> Plus(clock, d), interval |-> d]
      BY DEF Entry
    <2>2. IntervalOK(d)
      BY TimerAssumptions
    <2> HIDE DEF d, e
    <2>3. e \in Entries /\ Signed(e.t, clock) > Pre /\ Signed(e.t, clock) <= Window - Late /\ Signed(e.t, clock) = d
      BY <1>1, <2>1, <2>2, StartsLater
    <2> QED BY <2>1, <2>3 DEF d
  <1> HIDE DEF k
  <1>3. e = Entry(c, clock, Interval[c])
    OBVIOUS
  <1> HIDE DEF e
  <1>4. IsTable(r) /\ View(r, c) = {e}
    BY <1>1, <1>2, <1>3, Started
  <1>5. \A d : d # c => View(r, d) = View(timer, d)
    BY <1>1, <1>2, <1>3, Started
  <1> HIDE DEF r
  <1>6. Left(c)' = Interval[c] /\ PeriodOf(c)' = Interval[c]
    BY <1>1, <1>2, <1>4, ArmedIs, MapIs
  <1>7. ASSUME NEW d \in Callback, d # c PROVE Left(d)' = Left(d) /\ PeriodOf(d)' = PeriodOf(d)
    BY <1>1, <1>4, <1>5, <1>7, SameTimers, MapIs
  <1> QED BY <1>6, <1>7 DEF Service!Start

(* A deletion from outside is a Delete of the service.                     *)
LEMMA ServiceDelete ==
    ASSUME TimerInv, TimerInv', NEW c \in Callback, tuya_timer_delete(c)
    PROVE  Service!Delete(c)
  <1> DEFINE r == blt_soft_timer_delete(timer, c)
  <1>1. IsTable(timer) /\ timer' = r /\ clock' = clock
    BY DEF TimerInv, tuya_timer_delete
  <1>2. IsTable(r) /\ View(r, c) = {}
    BY <1>1, Deleted
  <1>3. \A d : d # c => View(r, d) = View(timer, d)
    BY <1>1, Deleted
  <1> HIDE DEF r
  <1>4. Left(c)' = NoTimer /\ PeriodOf(c)' = NoTimer
    BY <1>1, <1>2, NotArmed, MapIs
  <1>5. ASSUME NEW d \in Callback, d # c PROVE Left(d)' = Left(d) /\ PeriodOf(d)' = PeriodOf(d)
    BY <1>1, <1>2, <1>3, <1>5, SameTimers, MapIs
  <1> QED BY <1>4, <1>5 DEF Service!Delete

(* The walk itself, and the sort at its end, are not seen by the service.  *)
LEMMA ServiceStutters ==
    ASSUME TimerInv, TimerInv', WalkBegins \/ NotExpired \/ WalkEnds \/ UNCHANGED timerVars
    PROVE  UNCHANGED <<MapLeft, MapPeriod>>
  <1>1. IsTable(timer) /\ IsTable(timer') /\ clock' = clock
    BY DEF TimerInv, WalkBegins, NotExpired, WalkEnds, timerVars
  <1>2. \A d : View(timer', d) = View(timer, d)
    <2>1. CASE timer' = timer
      BY <2>1
    <2>2. CASE timer' # timer
      <3>1. /\ walk # NoTimer /\ walk.change_flg /\ timer # <<>> /\ timer' = blt_soft_timer_sort(timer)
        BY <2>2 DEF WalkBegins, NotExpired, WalkEnds, timerVars
      <3>2. Timely(timer, walk.now, 0) /\ walk.now \in Ticks /\ 0 \in {0, 1}
        BY <3>1, Walking
      <3> QED BY <1>1, <3>1, <3>2, Sorted
    <2> QED BY <2>1, <2>2
  <1>3. ASSUME NEW d \in Callback PROVE Left(d)' = Left(d) /\ PeriodOf(d)' = PeriodOf(d)
    BY <1>1, <1>2, SameTimers, MapIs
  <1> QED BY <1>3 DEF MapLeft, MapPeriod

(* No timer is late when the clock advances.                               *)
LEMMA ServiceTick ==
    ASSUME TimerInv, TimerInv', Tick
    PROVE  Service!Tick
  <1>1. /\ served = TRUE /\ clock' = Plus(clock, 1) /\ timer' = timer /\ IsTable(timer) /\ clock \in Ticks
    BY DEF Tick, TimerInv
  <1>2. Timely(timer, clock, 0)
    <2>1. CASE walk = NoTimer
      <3>1. Timely(timer, clock, 1) /\ 1 \in {0, 1}
        BY <1>1, <2>1 DEF TimerInv, Between
      <3> QED BY <1>1, <3>1, TimelyIsNear
    <2>2. CASE walk # NoTimer
      BY <1>1, <2>2, Walking
    <2> QED BY <2>1, <2>2
  <1>3. ASSUME NEW c \in Callback
        PROVE  \/ Left(c) = NoTimer /\ Left(c)' = NoTimer /\ PeriodOf(c)' = PeriodOf(c)
               \/ /\ Left(c) \in Int /\ Left(c) # NoTimer /\ Left(c) > 1 - Late
                  /\ Left(c)' = Left(c) - 1 /\ PeriodOf(c)' = PeriodOf(c)
    <2>1. CASE View(timer, c) = {}
      BY <1>1, <2>1, NotArmed, MapIs
    <2>2. CASE View(timer, c) # {}
      <3>1. PICK i \in 1 .. Len(timer) : timer[i] \in Entries /\ View(timer, c) = {timer[i]}
        BY <1>1, <2>2, ViewCases
      <3>2. /\ timer[i].t \in Ticks /\ IntervalOK(timer[i].interval) /\ Signed(timer[i].t, clock) \in Int
            /\ Near(Signed(timer[i].t, clock))
        <4>1. 0 \in {0, 1}
          OBVIOUS
        <4> QED BY <1>1, <1>2, <3>1, <4>1, EntryIs, TimelyIsNear
      <3>3. Late < Window
        BY <3>2, IntervalIs
      <3>4. 1 - Late < Signed(timer[i].t, clock) /\ -Window < Signed(timer[i].t, clock)
        BY <3>2, <3>3, WindowIs DEF Near
      <3>5. Signed(timer[i].t, Plus(clock, 1)) = Signed(timer[i].t, clock) - 1
        BY <1>1, <3>2, <3>4, TickLater
      <3>6. Left(c) = Signed(timer[i].t, clock) /\ Left(c)' = Signed(timer[i].t, Plus(clock, 1)) /\ PeriodOf(c)' = PeriodOf(c)
        BY <1>1, <3>1, ArmedIs, MapIs
      <3>7. Left(c) # NoTimer
        BY <3>2, <3>6, TimerAssumptions
      <3> QED BY <3>2, <3>4, <3>5, <3>6, <3>7, WindowIs
    <2> QED BY <2>1, <2>2
  <1> QED BY <1>3 DEF Service!Tick, Service!Armed

(* The timer whose entry is visited is due, as TimerService has it.        *)
LEMMA DueIs ==
    ASSUME TimerInv, VisitsExpired
    PROVE  LET c == timer[walk.i].cb
           IN  /\ c \in Callback /\ View(timer, c) = {timer[walk.i]}
               /\ Left(c) \in Int /\ Left(c) # NoTimer /\ Left(c) <= Pre /\ Left(c) > -Late
               /\ PeriodOf(c) = timer[walk.i].interval
  <1> DEFINE x == walk.i  n == walk.now  e == timer[x]  c == e.cb
  <1>1. /\ walk # NoTimer /\ x \in 1 .. Len(timer) /\ e \in Entries /\ c \in Callback
        /\ IntervalOK(e.interval) /\ Signed(e.t, n) <= Pre
    BY Visiting
  <1>2. IsTable(timer) /\ clock = (IF served THEN n ELSE Plus(n, 1)) /\ n \in Ticks
    BY <1>1, Walking
  <1>3. Near(Signed(e.t, n)) /\ Signed(e.t, n) \in Int /\ e.t \in Ticks
    BY <1>1, Walking
  <1>4. View(timer, c) = {e}
    BY <1>1, <1>2, ViewIs
  <1>5. Left(c) = Signed(e.t, clock) /\ PeriodOf(c) = e.interval
    <2> HIDE DEF c, e
    <2> QED BY <1>2, <1>4, ArmedIs, MapIs
  <1>6. Late < Window
    BY <1>1, IntervalIs
  <1> HIDE DEF e, c, n
  <1>7. Signed(e.t, n) > 1 - Late /\ -Window < Signed(e.t, n)
    BY <1>3, <1>6, WindowIs DEF Near
  <1>8. Signed(e.t, clock) \in {Signed(e.t, n), Signed(e.t, n) - 1}
    BY <1>2, <1>3, <1>7, TickLater
  <1>9. Left(c) \in Int /\ Left(c) <= Pre /\ Left(c) > -Late
    BY <1>1, <1>3, <1>5, <1>7, <1>8, WindowIs
  <1> QED BY <1>1, <1>4, <1>5, <1>9, TimerAssumptions DEF c, e

(* The restart is a Call of a callback that resets.                        *)
LEMMA ServiceReboot ==
    ASSUME TimerInv, TimerInv', chip_reboot
    PROVE  \E c \in Callback : Service!Call(c)
  <1> DEFINE c == timer[walk.i].cb
  <1>1. VisitsExpired /\ c \in Resets /\ timer' = <<>> /\ IsTable(timer')
    BY DEF chip_reboot, TimerInv
  <1>2. c \in Callback /\ Left(c) # NoTimer /\ Left(c) <= Pre /\ Left(c) > -Late
    BY <1>1, DueIs
  <1> HIDE DEF c
  <1>3. \A d : Left(d)' = NoTimer /\ PeriodOf(d)' = NoTimer
    BY <1>1, EmptyTable, NotArmed, MapIs
  <1>4. PICK o \in Outcome[c] : TRUE
    <2>1. Outcome[c] # {}
      BY <1>2, TimerAssumption
    <2> QED BY <2>1
  <1>5. 0 \in {0, 1}
    OBVIOUS
  <1>6. Service!Call(c)
    BY <1>1, <1>2, <1>3, <1>4, <1>5 DEF Service!Call, Service!Armed
  <1> QED BY <1>2, <1>6

Only(table, c, e) == View(table, c) = {e}

(* What the table is afterwards, when the callback goes on.                *)
LEMMA ResultView ==
    ASSUME NEW table, IsTable(table), NEW x \in 1 .. Len(table), NEW n \in Ticks,
           NEW result \in Int, result >= 0, result > 0 => IntervalOK(result),
           NEW c, c = table[x].cb, NEW again, again = IF result = 0 THEN table[x].interval ELSE result,
           NEW r, r = AfterResult(table, x, result, n)
    PROVE  /\ IntervalOK(again)
           /\ \E e \in Entries : Only(r, c, e) /\ e.interval = again /\ Signed(e.t, n) = again
           /\ \A d : d # c => View(r, d) = View(table, d)
  <1> DEFINE e == [cb |-> c, t |-> Plus(n, again), interval |-> again]
  <1>1. e = [cb |-> table[x].cb, t |-> Plus(n, again), interval |-> again] /\ e.cb = c /\ e.interval = again
    OBVIOUS
  <1> HIDE DEF e
  <1>2. IntervalOK(again) /\ e \in Entries /\ Signed(e.t, n) = again /\ \A d : d # e.cb => View(r, d) = View(table, d)
    BY <1>1, Result
  <1>3. IsTable(r) /\ Len(r) = Len(table)
    BY <1>1, Result
  <1>4. r[x] = e
    BY <1>1, Result
  <1>5. View(r, e.cb) = {e}
    BY <1>3, <1>4, ViewIs
  <1> QED BY <1>1, <1>2, <1>5 DEF Only

(* A callback that does not answer for another is a Call of the service:   *)
(* the timer is due, the result is applied to its entry, and the timer it  *)
(* starts is the only other one that changes.                              *)
LEMMA ServiceCall ==
    ASSUME TimerInv, TimerInv', CallBack, ~AnswersForAnother
    PROVE  \E c \in Callback : Service!Call(c)
  <1> DEFINE n == walk.now  x == walk.i  ago == IF served THEN 0 ELSE 1
  <1>c. PICK c \in Callback : c = timer[x].cb
    BY CallBackIs, Visiting
  <1>1. VisitsExpired /\ c \notin Resets /\ clock' = clock
    BY <1>c, CallBackIs
  <1>2. PICK o \in Outcome[c] : /\ Answers(o)
                                /\ timer' = AfterResult(StartedBy(o), x, o.result, n)
    BY <1>c, CallBackIs
  <1>3. /\ c \in Callback /\ View(timer, c) = {timer[x]}
        /\ Left(c) \in Int /\ Left(c) # NoTimer /\ Left(c) <= Pre /\ Left(c) > -Late
        /\ PeriodOf(c) = timer[x].interval
    BY <1>c, <1>1, DueIs
  <1>4. /\ IsTable(timer) /\ IsTable(timer') /\ n \in Ticks /\ served \in BOOLEAN
        /\ clock = (IF served THEN n ELSE Plus(n, 1)) /\ clock \in Ticks
    <2>1. walk # NoTimer
      BY <1>1, Visiting
    <2> QED BY <2>1, Walking DEF TimerInv
  <1>5. /\ o.result \in Int /\ (o.result > 0 => IntervalOK(o.result))
        /\ o.starts = NoTimer \/ (o.starts \in Callback /\ o.starts # c /\ o.starts # NoTimer)
    BY <1>3, TimerAssumptions
  <1> DEFINE s == StartedBy(o)
  <1>6. /\ IsTable(s) /\ x \in 1 .. Len(s) /\ s[x] = timer[x]
        /\ \A d : d # o.starts => View(s, d) = View(timer, d)
    <2>1. /\ IsTable(s) /\ x \in 1 .. Len(s)
          /\ \A d : d # o.starts => View(s, d) = View(timer, d)
      BY <1>c, <1>1, CallBackStarts
    <2>2. o.starts = NoTimer \/ KeepsItsPlace(o.starts) \/ StartedBy(o)[walk.i].cb = timer[walk.i].cb
      BY <1>c, <1>1, <1>2 DEF AnswersForAnother
    <2>3. StartedBy(o)[walk.i] = timer[walk.i]
      BY <1>c, <1>1, <2>2, CallBackStays
    <2> QED BY <2>1, <2>3
  <1>7. o.starts # NoTimer =>
                     \E e \in Entries : /\ View(s, o.starts) = {e} /\ e.interval = Interval[o.starts]
                                        /\ Signed(e.t, clock) = Interval[o.starts]
    BY <1>c, <1>1, CallBackStarts
  <1> DEFINE again == IF o.result = 0 THEN timer[x].interval ELSE o.result
  <1> HIDE DEF s
  (* What the result does to the entry of c, and to no other.              *)
  <1>8. /\ o.result < 0 => View(timer', c) = {}
        /\ o.result >= 0 => \E e \in Entries : /\ View(timer', c) = {e} /\ e.interval = again
                                               /\ Signed(e.t, clock) = again - ago
        /\ \A d : d # c => View(timer', d) = View(s, d)
    <2>1. CASE o.result < 0
      <3> DEFINE r == blt_soft_timer_delete_by_index(s, x)
      <3>1. timer' = r
        BY <1>2, <2>1 DEF AfterResult, s
      <3>2. View(r, s[x].cb) = {}
        BY <1>6, IndexDeleted
      <3>3. \A d : d # s[x].cb => View(r, d) = View(s, d)
        BY <1>6, IndexDeleted
      <3> HIDE DEF r, n, x
      <3>4. ~(o.result >= 0) /\ s[x].cb = c
        BY <1>c, <1>5, <1>6, <2>1
      <3> QED BY <2>1, <3>1, <3>2, <3>3, <3>4
    <2>2. CASE o.result >= 0
      <3> DEFINE r == AfterResult(s, x, o.result, n)
      <3>1. timer' = r
        BY <1>2 DEF s
      <3>2. s[x].cb = c /\ again = (IF o.result = 0 THEN s[x].interval ELSE o.result)
        BY <1>c, <1>6
      <3> HIDE DEF n, x, again
      <3>3. IsTable(s) /\ x \in 1 .. Len(s) /\ n \in Ticks /\ o.result \in Int /\ o.result >= 0
            /\ (o.result > 0 => IntervalOK(o.result))
        BY <1>4, <1>5, <1>6, <2>2
      <3>9. r = AfterResult(s, x, o.result, n)
        OBVIOUS
      <3> HIDE DEF r
      <3>4. IntervalOK(again) /\ \A d : d # c => View(r, d) = View(s, d)
        BY <3>2, <3>3, <3>9, ResultView
      <3>5. PICK e \in Entries : Only(r, c, e) /\ e.interval = again /\ Signed(e.t, n) = again
        BY <3>2, <3>3, <3>9, ResultView
      <3>6. again \in Nat /\ Window \in Nat /\ e.t \in Ticks
        BY <3>4, WindowIs DEF IntervalOK, Entries
      <3>7. Signed(e.t, clock) = again - ago
        <4>1. CASE served
          BY <1>4, <3>5, <3>6, <4>1
        <4>2. CASE ~served
          <5>1. -Window < Signed(e.t, n)
            BY <3>5, <3>6, WindowIs
          <5>2. Signed(e.t, Plus(n, 1)) = Signed(e.t, n) - 1
            BY <1>4, <3>6, <5>1, TickLater
          <5> QED BY <1>4, <3>5, <4>2, <5>2
        <4> QED BY <4>1, <4>2
      <3>8. ~(o.result < 0)
        BY <1>5, <2>2
      <3> QED BY <3>1, <3>4, <3>5, <3>7, <3>8 DEF Only
    <2> QED BY <1>5, <2>1, <2>2
  <1> HIDE DEF n, x, again
  <1>10. o.result < 0 => Left(c)' = NoTimer /\ PeriodOf(c)' = NoTimer
    BY <1>4, <1>8, NotArmed, MapIs
  <1>11. ~(o.result < 0) => Left(c)' = again - ago /\ PeriodOf(c)' = again
    <2> SUFFICES ASSUME ~(o.result < 0) PROVE Left(c)' = again - ago /\ PeriodOf(c)' = again
      OBVIOUS
    <2>1. o.result >= 0
      BY <1>5
    <2>2. PICK e \in Entries : View(timer', c) = {e} /\ e.interval = again /\ Signed(e.t, clock) = again - ago
      BY <1>8, <2>1
    <2> HIDE DEF ago
    <2> QED BY <1>1, <1>4, <2>2, ArmedIs, MapIs
  <1>12. ASSUME NEW d \in Callback, d = o.starts PROVE Left(d)' = Interval[d] /\ PeriodOf(d)' = Interval[d]
    <2>1. d # NoTimer /\ d # c
      BY <1>5, <1>12, TimerAssumptions
    <2>2. PICK e \in Entries : View(s, d) = {e} /\ e.interval = Interval[d] /\ Signed(e.t, clock) = Interval[d]
      BY <1>7, <1>12, <2>1
    <2>3. View(timer', d) = {e}
      BY <1>8, <2>1, <2>2
    <2> QED BY <1>1, <1>4, <2>2, <2>3, ArmedIs, MapIs
  <1>13. ASSUME NEW d \in Callback, d # o.starts, d # c PROVE Left(d)' = Left(d) /\ PeriodOf(d)' = PeriodOf(d)
    <2>1. View(timer', d) = View(timer, d)
      BY <1>6, <1>8, <1>13
    <2> QED BY <1>1, <1>4, <2>1, SameTimers, MapIs
  <1>14. ago \in {0, 1} /\ again = IF o.result = 0 THEN PeriodOf(c) ELSE o.result
    BY <1>3 DEF again
  <1>15. c # o.starts
    BY <1>3, <1>5, TimerAssumptions
  <1> HIDE DEF ago
  <1>16. Service!Call(c)
    BY <1>1, <1>2, <1>3, <1>10, <1>11, <1>12, <1>13, <1>14, <1>15 DEF Service!Call, Service!Armed
  <1> QED BY <1>3, <1>16

(* Every other step is a step of the service or a stutter.                 *)
LEMMA ServiceStep ==
    TimerInv /\ TimerInv' /\ [TimerNext]_timerVars =>
        [Service!Next \/ AnswersForAnother]_<<MapLeft, MapPeriod>>
  <1> SUFFICES ASSUME TimerInv, TimerInv', [TimerNext]_timerVars, ~AnswersForAnother
               PROVE  Service!Next \/ UNCHANGED <<MapLeft, MapPeriod>>
    OBVIOUS
  <1>1. CASE UNCHANGED timerVars
    BY <1>1, ServiceStutters
  <1>2. ASSUME NEW c \in Callback, tuya_timer_start(c) \/ tuya_timer_delete(c) PROVE Service!Next
    BY <1>2, ServiceStart, ServiceDelete DEF Service!Next
  <1>3. ASSUME CallBack \/ chip_reboot PROVE Service!Next
    BY <1>3, ServiceCall, ServiceReboot DEF Service!Next
  <1>4. ASSUME WalkBegins \/ NotExpired \/ WalkEnds PROVE UNCHANGED <<MapLeft, MapPeriod>>
    BY <1>4, ServiceStutters
  <1>5. ASSUME Tick PROVE Service!Next
    BY <1>5, ServiceTick DEF Service!Next
  <1> QED BY <1>1, <1>2, <1>3, <1>4, <1>5 DEF TimerNext, Walks

(* The table of blt_soft_timer.c implements the timers of TimerService,    *)
(* but for the callbacks that answer for another: a callback gives another *)
(* timer its result only if it started a timer and its own entry did not   *)
(* keep its place, and in every other step, also after one of these, none  *)
(* is lost, called twice, early or late.                                   *)
THEOREM TableImplementsTimers == TimerSpec => ServiceUnlessMoved
  <1>1. TimerInv /\ TimerInv' /\ [TimerNext]_timerVars =>
           [Service!Next \/ AnswersForAnother]_<<[c \in Callback |-> Left(c)],
                                                [c \in Callback |-> PeriodOf(c)]>>
    BY ServiceStep DEF MapLeft, MapPeriod
  <1> QED BY <1>1, TimerSafe, ServiceInit, PTL DEF TimerSpec, ServiceUnlessMoved

(* The types of the clock, the walk and the entries.                       *)
THEOREM TimerTypes == TimerSpec => []TimerTypeOK
  <1>1. TimerInit => starts \in 0 .. MaxStarts
    BY TimerAssumption DEF TimerInit
  <1>2. starts \in 0 .. MaxStarts /\ [TimerNext]_timerVars => (starts \in 0 .. MaxStarts)'
    <2> SUFFICES ASSUME starts \in 0 .. MaxStarts, [TimerNext]_timerVars PROVE starts' \in 0 .. MaxStarts
      OBVIOUS
    <2>1. CASE \E c \in Callback : tuya_timer_start(c)
      BY <2>1, TimerAssumption DEF tuya_timer_start
    <2>2. CASE starts' = starts
      BY <2>2
    <2> QED BY <2>1, <2>2 DEF TimerNext, timerVars, tuya_timer_start, tuya_timer_delete, Walks, WalkBegins,
               NotExpired, CallBack, Answers, chip_reboot, WalkEnds, Tick
  <1>3. TimerInv /\ starts \in 0 .. MaxStarts => TimerTypeOK
    <2> SUFFICES ASSUME TimerInv, starts \in 0 .. MaxStarts PROVE TimerTypeOK
      OBVIOUS
    <2>1. IsTable(timer) /\ clock \in Ticks /\ served \in BOOLEAN /\ Len(timer) <= MAX_TIMER_NUM
      BY DEF TimerInv, IsTable
    <2>2. walk # NoTimer => walk.i \in 1 .. MAX_TIMER_NUM + 1 /\ walk.now \in Ticks
      BY DEF TimerInv, InWalk
    <2>3. ASSUME NEW i \in 1 .. Len(timer)
          PROVE  timer[i].cb \in Callback /\ timer[i].t \in Ticks /\ timer[i].interval \in Pre + 1 .. Window
      <3>1. timer[i] \in Entries
        BY <2>1 DEF IsTable
      <3>2. timer[i].cb \in Callback /\ timer[i].t \in Ticks /\ IntervalOK(timer[i].interval)
        BY <2>1, <3>1, EntryIs
      <3> QED BY <3>2, IntervalIs
    <2> QED BY <2>1, <2>2, <2>3 DEF TimerTypeOK
  <1> QED BY <1>1, <1>2, <1>3, TimerSafe, PTL DEF TimerSpec

===============================================================================
