---------------------------------- MODULE UartRx ----------------------------------
(***************************************************************************)
(* Chunks of bytes from the MCU: DMA stores a chunk into a slot of         *)
(* spp_rx_fifo, the interrupt at its end (main.c) moves the write pointer  *)
(* and gives DMA the next slot, and the main loop (rx_from_uart_cb) reads  *)
(* it byte by byte. Interrupts come between any two bytes, and a slot is   *)
(* not copied: it is read while DMA goes on. What the MCU sends and what   *)
(* becomes of the bytes is in Uart.                                        *)
(*                                                                         *)
(* The interrupt does not look whether the next slot is free. That fewer   *)
(* than num chunks wait when another begins is an assumption about the     *)
(* MCU, which sends a command and waits for its answer: the guard of       *)
(* DmaStores.                                                              *)
(***************************************************************************)
EXTENDS Integers, Sequences

CONSTANTS num,          \* SPP_RXFIFO_NUM
          Pointers,     \* the pointers count modulo Pointers, 256
          MaxChunks,    \* bound on the chunks of a behaviour
          NONE

ASSUME RxAssumption ==
    /\ num \in Nat \ {0} /\ MaxChunks \in Nat
    /\ Pointers \in Nat \ {0} /\ Pointers % num = 0 /\ Pointers > num
    /\ NONE \notin Nat

VARIABLES slot,         \* which chunk each slot holds, its bytes, whether all of it
          wptr, rptr,
          storing,      \* DMA is in the middle of a chunk
          p,            \* the slot the main loop reads, NONE between two calls
          index,        \* how much it has read of the slot
          arrived,      \* history: chunks that DMA has begun,
          handed        \*          and that the main loop is done with

rxVars == <<slot, wptr, rptr, storing, p, index, arrived, handed>>

Behind == (wptr - rptr) % Pointers

RxInit == /\ slot = [s \in 0 .. num - 1 |-> [chunk |-> 0, bytes |-> <<>>, whole |-> FALSE]]
          /\ wptr = 0 /\ rptr = 0
          /\ storing = FALSE
          /\ p = NONE
          /\ index = 0
          /\ arrived = 0
          /\ handed = 0

(* Faulty form: a mask that is one too wide.                               *)
SlotOfWideMask(pointer) == pointer % (num - 1)
SlotOf(pointer) == pointer % num

Advanced(pointer) == (pointer + 1) % Pointers

(* DMA writes the first bytes of the next chunk over what was in the slot. *)
DmaStores == /\ ~storing
             /\ arrived < MaxChunks
             /\ Behind < num
             /\ storing' = TRUE
             /\ arrived' = arrived + 1
             /\ slot' = [slot EXCEPT ![SlotOf(wptr)] =
                            [chunk |-> arrived + 1, bytes |-> <<>>, whole |-> FALSE]]
             /\ UNCHANGED <<wptr, rptr, p, index, handed>>

(* The chunk is complete: its length, not 0, is in the slot.               *)
irq_handler(bytes) ==
    /\ storing
    /\ storing' = FALSE
    /\ slot' = [slot EXCEPT ![SlotOf(wptr)].bytes = bytes, ![SlotOf(wptr)].whole = TRUE]
    /\ wptr' = Advanced(wptr)
    /\ UNCHANGED <<rptr, p, index, arrived, handed>>

(* rx_from_uart_cb, which looks at the slot, reads it and then frees it.   *)
(* Faulty form: pointers that wrap are compared by size.                   *)
GetWhileLess == /\ p = NONE /\ rptr < wptr
                /\ p' = SlotOf(rptr)
                /\ UNCHANGED <<slot, wptr, rptr, storing, index, arrived, handed>>

my_fifo_get == /\ p = NONE /\ rptr # wptr
               /\ p' = SlotOf(rptr)
               /\ UNCHANGED <<slot, wptr, rptr, storing, index, arrived, handed>>

ReadsByte == /\ p # NONE /\ index < Len(slot[p].bytes)
             /\ index' = index + 1
             /\ UNCHANGED <<slot, wptr, rptr, storing, p, arrived, handed>>

my_fifo_pop == /\ p # NONE
               /\ rptr' = Advanced(rptr)
               /\ p' = NONE
               /\ index' = 0
               /\ handed' = handed + 1
               /\ UNCHANGED <<slot, wptr, storing, arrived>>

-----------------------------------------------------------------------------
(* What the main loop reads is the next chunk, whole, from its first byte  *)
(* to its last: no interrupt makes it read a slot that is being written,   *)
(* and the pointers mean the same chunk to both after they wrap.           *)
ChunksInOrder == p # NONE => slot[p].chunk = handed + 1 /\ slot[p].whole

(* Every chunk that began is read.                                         *)
ChunksArrive == \A n \in 1 .. MaxChunks : arrived >= n ~> handed >= n

===============================================================================
