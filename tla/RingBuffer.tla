-------------------------------- MODULE RingBuffer --------------------------------
(***************************************************************************)
(* ringBuffer.c: bytes in a pool, between a read and a write index that    *)
(* carry a mirror bit each. The bits are what tells a full buffer from an  *)
(* empty one. The UART's output and the log go through two such buffers,   *)
(* written and read in the main loop.                                      *)
(***************************************************************************)
EXTENDS Integers, Sequences, SequencesExt

CONSTANTS Byte,
          PoolSize,     \* the size of the pool given to ringbuffer_init
          Forcing       \* ringbuffer_put_force is called when there is no room

ASSUME RingAssumption ==
    /\ PoolSize \in Nat /\ PoolSize >= 4 /\ PoolSize < 2 ^ 15
    /\ Byte # {} /\ Forcing \in BOOLEAN

buffer_size == (PoolSize \div 4) * 4

VARIABLES buffer, read_index, read_mirror, write_index, write_mirror,
          last      \* history: the last operation and the bytes it handed out

rb == <<buffer, read_index, read_mirror, write_index, write_mirror>>
ringVars == <<rb, last>>

Did(op, data) == last' = [op |-> op, data |-> data]

Blocks == BoundedSeq(Byte, buffer_size + 1) \ {<<>>}

(* Faulty forms of some operators stand before them.                       *)
FullAsEmpty == IF read_index = write_index THEN "EMPTY" ELSE "HALFFULL"
ringbuffer_status == IF read_index # write_index THEN "HALFFULL"
                     ELSE IF read_mirror = write_mirror THEN "EMPTY" ELSE "FULL"

ringbuffer_data_len ==
    CASE ringbuffer_status = "EMPTY" -> 0
      [] ringbuffer_status = "FULL" -> buffer_size
      [] OTHER -> IF write_index > read_index THEN write_index - read_index
                  ELSE buffer_size - (read_index - write_index)

ringbuffer_space_len == buffer_size - ringbuffer_data_len

RingInit == /\ buffer \in [0 .. buffer_size - 1 -> Byte]
            /\ read_index = 0 /\ read_mirror = 0
            /\ write_index = 0 /\ write_mirror = 0
            /\ last = [op |-> "reset", data |-> <<>>]

(* An index moved on by length; a mirror bit flips when its index reaches  *)
(* the end of the pool.                                                    *)
Wraps(index, length) == buffer_size - index <= length
Moved(index, length) == IF Wraps(index, length) THEN length - (buffer_size - index)
                                                ELSE index + length
FlippedAlways(mirror, index, length) == 1 - mirror
Flipped(mirror, index, length) == IF Wraps(index, length) THEN 1 - mirror ELSE mirror

(* The two memcpy: to the end of the pool, and from its start.             *)
Copied(block) ==
    [i \in DOMAIN buffer |->
        LET k == IF i >= write_index THEN i - write_index + 1
                                     ELSE buffer_size - write_index + i + 1
        IN  IF k <= Len(block) THEN block[k] ELSE buffer[i]]

Written(block) ==
    /\ buffer' = Copied(block)
    /\ write_index' = Moved(write_index, Len(block))
    /\ write_mirror' = Flipped(write_mirror, write_index, Len(block))

Fits(length) == ringbuffer_space_len # 0 /\ ringbuffer_space_len >= length

ringbuffer_put(block) ==
    /\ Fits(Len(block))
    /\ Written(block)
    /\ Did("put", <<>>)
    /\ UNCHANGED <<read_index, read_mirror>>

(* A block longer than the buffer is cut to its end. What was not read yet *)
(* and is overwritten is given up, by moving the read index along.         *)
ringbuffer_put_force(block) ==
    LET kept == IF Len(block) > buffer_size
                THEN SubSeq(block, Len(block) - buffer_size + 1, Len(block)) ELSE block
        overruns == Len(kept) > ringbuffer_space_len
    IN  /\ overruns => Forcing
        /\ Written(kept)
        /\ read_index' = IF overruns THEN write_index' ELSE read_index
        /\ read_mirror' = IF overruns /\ Wraps(write_index, Len(kept))
                          THEN 1 - read_mirror ELSE read_mirror
        /\ Did("force", <<>>)

(* Where the k-th byte to be read is.                                      *)
ReadAt(k) == IF read_index + k - 1 < buffer_size THEN read_index + k - 1
                                                 ELSE read_index + k - 1 - buffer_size

ringbuffer_get(length) ==
    LET n == IF ringbuffer_data_len < length THEN ringbuffer_data_len ELSE length
    IN  /\ ringbuffer_data_len # 0
        /\ Did("get", [k \in 1 .. n |-> buffer[ReadAt(k)]])
        /\ read_index' = Moved(read_index, n)
        /\ read_mirror' = Flipped(read_mirror, read_index, n)
        /\ UNCHANGED <<buffer, write_index, write_mirror>>

ringbuffer_putchar(ch) ==
    /\ ringbuffer_space_len # 0
    /\ Written(<<ch>>)
    /\ Did("put", <<>>)
    /\ UNCHANGED <<read_index, read_mirror>>

ringbuffer_putchar_force(ch) ==
    /\ Written(<<ch>>)
    /\ IF ringbuffer_status = "FULL"
         THEN /\ read_index' = write_index'
              /\ read_mirror' = Flipped(read_mirror, write_index, 1)
         ELSE UNCHANGED <<read_index, read_mirror>>
    /\ Did("force", <<>>)

ringbuffer_getchar ==
    /\ ringbuffer_data_len # 0
    /\ Did("get", <<buffer[read_index]>>)
    /\ read_index' = Moved(read_index, 1)
    /\ read_mirror' = Flipped(read_mirror, read_index, 1)
    /\ UNCHANGED <<buffer, write_index, write_mirror>>

ringbuffer_reset ==
    /\ read_index' = 0 /\ read_mirror' = 0
    /\ write_index' = 0 /\ write_mirror' = 0
    /\ Did("reset", <<>>)
    /\ UNCHANGED buffer

RingNext == \/ \E block \in Blocks : ringbuffer_put(block) \/ ringbuffer_put_force(block)
            \/ \E length \in 1 .. buffer_size + 1 : ringbuffer_get(length)
            \/ \E ch \in Byte : ringbuffer_putchar(ch) \/ ringbuffer_putchar_force(ch)
            \/ ringbuffer_getchar
            \/ ringbuffer_reset

RingSpec == RingInit /\ [][RingNext]_ringVars

-----------------------------------------------------------------------------
(* Every variable has its type. *)
RingTypeOK ==
    /\ buffer \in [0 .. buffer_size - 1 -> Byte]
    /\ read_index \in 0 .. buffer_size - 1 /\ read_mirror \in 0 .. 1
    /\ write_index \in 0 .. buffer_size - 1 /\ write_mirror \in 0 .. 1
    /\ Len(last.data) <= buffer_size /\ ToSet(last.data) \subseteq Byte

Content == [k \in 1 .. ringbuffer_data_len |-> buffer[ReadAt(k)]]

(* Equal mirrors mean that the write index is not behind, different ones   *)
(* that it is not ahead: otherwise the amount of data, which the status    *)
(* only tells from the indices, is not what was written.                   *)
MirrorsAgree == IF read_mirror = write_mirror THEN read_index <= write_index
                                              ELSE write_index <= read_index

(* The ring implements ByteFifo: full and empty are told apart and no byte *)
(* is lost, doubled or torn from its block, wherever the pool wraps.       *)
Bytes == INSTANCE ByteFifo WITH Size <- buffer_size, bytes <- Content
BytesInOrder == Bytes!Safety

===============================================================================
