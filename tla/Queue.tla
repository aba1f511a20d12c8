--------------------------------- MODULE Queue ---------------------------------
(***************************************************************************)
(* The circular queue of tuya_ble_queue.c, as values: a queue is a record  *)
(* of its buffer, its read and write positions and the number of elements  *)
(* in use. An operation is an operator from the queue before to the queue  *)
(* after; the caller tests tuya_ble_queue_full where the code returns      *)
(* TUYA_BLE_ERR_NO_MEM.                                                    *)
(***************************************************************************)
EXTENDS Integers, Sequences

CONSTANTS queue_size,   \* number of elements
          Elem,         \* what the queue holds
          NoElem        \* content of an element nobody has written yet

ASSUME QueueAssumption == /\ queue_size \in 1 .. 255
                          /\ NoElem \notin Elem

Position == 0 .. (queue_size - 1)

QueueType == [buf : [Position -> Elem \cup {NoElem}],
              rd_ptr : Position,
              wr_ptr : Position,
              used : 0 .. queue_size]

tuya_ble_queue_init == [buf |-> [i \in Position |-> NoElem],
                        rd_ptr |-> 0, wr_ptr |-> 0, used |-> 0]

tuya_ble_queue_full(q) == q.used = queue_size

tuya_ble_enqueue(q, in) ==
    [q EXCEPT !.buf[q.wr_ptr] = in,
              !.wr_ptr = (q.wr_ptr + 1) % queue_size,
              !.used = q.used + 1]

DecreaseKeepsReadPosition(q, n) == [q EXCEPT !.used = q.used - n]

(* n calls of tuya_ble_queue_decrease, or of tuya_ble_dequeue, n <= used.  *)
tuya_ble_queue_decrease(q, n) ==
    [q EXCEPT !.rd_ptr = (q.rd_ptr + n) % queue_size,
              !.used = q.used - n]

tuya_ble_queue_flush(q) == [q EXCEPT !.rd_ptr = 0, !.wr_ptr = 0, !.used = 0]

(* The elements in use, the oldest first; tuya_ble_queue_get copies the    *)
(* first and leaves it there.                                              *)
Elements(q) ==
    [i \in 1 .. q.used |-> q.buf[(q.rd_ptr + i - 1) % queue_size]]

(* The positions agree with the number of elements in use.                 *)
PositionsAgree(q) == q.wr_ptr = (q.rd_ptr + q.used) % queue_size
=============================================================================
