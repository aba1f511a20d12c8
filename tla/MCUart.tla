---------------------------------- MODULE MCUart ----------------------------------
(* An instance of Uart: two slots with pointers that wrap after four, room *)
(* for five bytes of data; a report of one data point, with chunks that    *)
(* end in the header, in the length and in the data, two reports at once,  *)
(* and noise: a header, half a frame and a length that is too large.       *)
EXTENDS Uart
Report == <<85, 170, 0, 7, 0, 5, 1, 1, 0, 1, 85, 99>>
MCSent == {[bytes |-> Report, frames |-> 1],
           [bytes |-> <<85, 170, 0, 7, 0, 0, 6>> \o Report, frames |-> 2],
           [bytes |-> <<85>>, frames |-> 0],
           [bytes |-> <<102, 85, 170, 0, 7, 0, 2, 1>>, frames |-> 0],
           [bytes |-> <<85, 170, 0, 7, 0, 6>>, frames |-> 0]}
===============================================================================
