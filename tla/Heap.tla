---------------------------------- MODULE Heap ----------------------------------
(***************************************************************************)
(* tuya_ble_heap.c, as values: a heap is a record of its free blocks in    *)
(* the order of their addresses, of the blocks that are allocated, and of  *)
(* the count of free bytes the code keeps beside the list. An operation is *)
(* an operator from the heap before to the heap after. A pointer is the    *)
(* address of its block, which begins with the link structure; addresses   *)
(* count from the first block. No request of the program has the top bit   *)
(* of its size set. The least count of free bytes, which only its getter   *)
(* reads, is left out.                                                     *)
(***************************************************************************)
EXTENDS Integers, Sequences, SequencesExt, FiniteSetsExt

CONSTANTS Total,            \* address of pxEnd: all but the end mark
          Align,            \* portBYTE_ALIGNMENT
          xHeapStructSize,
          NULL

ASSUME HeapAssumption ==
    /\ Align \in Nat \ {0} /\ xHeapStructSize \in Nat \ {0} /\ Total \in Nat \ {0}
    /\ xHeapStructSize % Align = 0 /\ Total % Align = 0
    /\ NULL \notin Nat

heapMINIMUM_BLOCK_SIZE == 2 * xHeapStructSize

Block(at, size) == [at |-> at, size |-> size]
EndOf(b) == b.at + b.size

prvHeapInit == [free |-> <<Block(0, Total)>>, used |-> {}, xFreeBytesRemaining |-> Total]

(* The block takes its place in the list and becomes one with the block    *)
(* behind it, the block before it, or both, when they touch.               *)
WithNext(before, b, behind) ==
    IF behind # <<>> /\ EndOf(b) = Head(behind).at
    THEN before \o <<Block(b.at, b.size + Head(behind).size)>> \o Tail(behind)
    ELSE before \o <<b>> \o behind

AppendedTo(last, b) == Block(last.at, last.size + b.size)

(* Faulty form: with one of them only.                                     *)
WithOne(before, b, behind) ==
    IF before # <<>> /\ EndOf(Last(before)) = b.at
    THEN Front(before) \o <<AppendedTo(Last(before), b)>> \o behind
    ELSE WithNext(before, b, behind)
WithBoth(before, b, behind) ==
    IF before # <<>> /\ EndOf(Last(before)) = b.at
    THEN WithNext(Front(before), AppendedTo(Last(before), b), behind)
    ELSE WithNext(before, b, behind)

(* The iterator stops before the first free block that is not below b.     *)
prvInsertBlockIntoFreeList(free, b) ==
    LET above == {i \in DOMAIN free : free[i].at >= b.at}
        k == IF above = {} THEN Len(free) ELSE Min(above) - 1
    IN  WithBoth(SubSeq(free, 1, k), b, SubSeq(free, k + 1, Len(free)))

(* What is taken for a request: the structure too, in whole units.         *)
Wanted(size) == IF size = 0 THEN 0
                ELSE ((size + xHeapStructSize + Align - 1) \div Align) * Align

(* A rest too small to be of use stays with the block.                     *)
Split(b, wanted) ==
    IF b.size - wanted > heapMINIMUM_BLOCK_SIZE
    THEN [taken |-> Block(b.at, wanted), rest |-> <<Block(b.at + wanted, b.size - wanted)>>]
    ELSE [taken |-> b, rest |-> <<>>]

(* Of a free block, what was taken is handed out and the rest goes back.   *)
Allocated(h, without, s) ==
    [heap |-> [free |-> IF s.rest = <<>> THEN without
                        ELSE prvInsertBlockIntoFreeList(without, Head(s.rest)),
               used |-> h.used \union {s.taken},
               xFreeBytesRemaining |-> h.xFreeBytesRemaining - s.taken.size],
     ptr |-> s.taken.at]

(* The first free block that is large enough: [heap, ptr].                 *)
pvTuyaPortMalloc(h, size) ==
    LET wanted == Wanted(size)
        fitting == {i \in DOMAIN h.free : h.free[i].size >= wanted}
        i == Min(fitting)
    IN  IF wanted = 0 \/ wanted > h.xFreeBytesRemaining \/ fitting = {}
        THEN [heap |-> h, ptr |-> NULL]
        ELSE Allocated(h, RemoveAt(h.free, i), Split(h.free[i], wanted))

(* A pointer whose block is not marked as allocated is left alone.         *)
vTuyaPortFree(h, ptr) ==
    LET mine == {b \in h.used : b.at = ptr}
        b == CHOOSE x \in mine : TRUE
    IN  IF mine = {} THEN h
        ELSE [free |-> prvInsertBlockIntoFreeList(h.free, b),
              used |-> h.used \ {b},
              xFreeBytesRemaining |-> h.xFreeBytesRemaining + b.size]

-----------------------------------------------------------------------------
(* The blocks tile the memory: they do not overlap and each begins where   *)
(* another ends.                                                           *)
Tiled(blocks) ==
    LET starts == {b.at : b \in blocks}
    IN  /\ 0 \in starts
        /\ \A b \in blocks : /\ b.size > 0 /\ b.at % Align = 0
                             /\ b.at >= 0 /\ EndOf(b) <= Total
                             /\ EndOf(b) \in starts \union {Total}
        /\ \A b, c \in blocks : b = c \/ EndOf(b) <= c.at \/ EndOf(c) <= b.at

SizeOf(list) ==
    LET upTo[i \in 0 .. Len(list)] == IF i = 0 THEN 0 ELSE upTo[i - 1] + list[i].size
    IN  upTo[Len(list)]

(* No block is free and allocated, no two free ones touch, the list is in  *)
(* order, and the count is the sum of what is free.                        *)
Sound(h) ==
    /\ \A i, j \in DOMAIN h.free : i < j => EndOf(h.free[i]) < h.free[j].at
    /\ h.used \cap ToSet(h.free) = {}
    /\ Tiled(h.used \union ToSet(h.free))
    /\ h.xFreeBytesRemaining = SizeOf(h.free)

===============================================================================
