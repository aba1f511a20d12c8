--------------------------------- MODULE ByteFifo ---------------------------------
(***************************************************************************)
(* What a ring buffer of bytes promises: first in, first out. A block that *)
(* does not fit is refused as a whole; a forced one pushes out the oldest  *)
(* bytes, its own first ones too when it is longer than the buffer.        *)
(***************************************************************************)
EXTENDS Integers, Sequences, SequencesExt

CONSTANTS Byte, Size

VARIABLES bytes,    \* what is kept, oldest first
          last      \* the last operation and the bytes it handed out

Blocks == BoundedSeq(Byte, Size + 1)

Newest(s) == IF Len(s) > Size THEN SubSeq(s, Len(s) - Size + 1, Len(s)) ELSE s

Did(op, data) == last' = [op |-> op, data |-> data]

Init == bytes = <<>> /\ last = [op |-> "reset", data |-> <<>>]

Put(block) == /\ Len(bytes) + Len(block) <= Size
              /\ bytes' = bytes \o block
              /\ Did("put", <<>>)

PutForce(block) == bytes' = Newest(bytes \o block) /\ Did("force", <<>>)

(* As many as asked for, or all there are.                                 *)
Get(n) == LET k == IF n < Len(bytes) THEN n ELSE Len(bytes)
          IN  /\ Did("get", SubSeq(bytes, 1, k))
              /\ bytes' = SubSeq(bytes, k + 1, Len(bytes))

Reset == bytes' = <<>> /\ Did("reset", <<>>)

Next == \/ \E block \in Blocks : Put(block) \/ PutForce(block)
        \/ \E n \in 1 .. Size + 1 : Get(n)
        \/ Reset

Safety == Init /\ [][Next]_<<bytes, last>>

===============================================================================
