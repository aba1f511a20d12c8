------------------------------- MODULE Reassembly -------------------------------
(***************************************************************************)
(* Messages of the phone arrive in packets of at most Limit bytes, which   *)
(* trsmitr_recv_pkg_decode and ble_data_unpack put together again. A       *)
(* packet is lost when the event queue is full as it arrives, a packet the *)
(* phone repeats arrives twice, memory for the message may be short, and a *)
(* connection may end in the middle of a message, with or without the      *)
(* device being told. What one message leaves behind in the decoder, the   *)
(* buffer and the static offset is there when the next one begins.         *)
(*                                                                         *)
(* The phone cuts messages as the device's own encoder does, for which     *)
(* trsmitr_send_pkg_encode stands here; packets are in order. A byte is    *)
(* the message it belongs to and its place in it, the frame's version and  *)
(* sequence number are left out. Every way tuya_ble_commonData_rx_proc     *)
(* goes on with a complete message frees the buffer; the rest is Session's.*)
(***************************************************************************)
EXTENDS Integers, Sequences

CONSTANTS Limit,        \* SNGL_PKG_TRSFR_LMT
          FrameMax,     \* TUYA_BLE_AIR_FRAME_MAX
          Total,        \* the lengths of the phone's messages
          MaxMessages,  \* bound on the messages in a behaviour
          NULL

(* A byte is its message and its place in it; a fresh buffer holds none.   *)
Byte == (1 .. MaxMessages) \X (Nat \ {0})

Content == Byte \cup {<<0, 0>>}

PacketType == [num : Nat, total : Nat, payload : Seq(Byte)]

(* The longest header is a number, a length, and a byte for the version.   *)
ASSUME ReassemblyAssumption == /\ Limit \in 10 .. 255
                               /\ FrameMax \in Nat
                               /\ Total \subseteq Nat \ {0}
                               /\ \A n \in Total : n < 2^28
                               /\ MaxMessages \in Nat
                               /\ NULL \notin Seq(Content) \cup PacketType

VARIABLES
    phone,        \* the message being sent: [msg, total, num, cnt]
    last,         \* the packet sent last, or NULL
    trsmitr,      \* ty_trsmitr_proc
    air,          \* air_recv_packet
    offset,       \* the static offset of ble_data_unpack
    handed,       \* the message handed over since the phone's began
    first_in,     \* history: the first packet of this message arrived
    clean         \* history: so far it arrived whole, with nothing amiss

phoneVars == <<phone, last>>
deviceVars == <<trsmitr, air, offset>>
vars == <<phoneVars, deviceVars, handed, first_in, clean>>

Lesser(a, b) == IF a <= b THEN a ELSE b

(* The bytes of message m from place a + 1 to place b.                     *)
Bytes(m, a, b) == [i \in 1 .. (b - a) |-> <<m, a + i>>]

(* No message is being sent. *)
Idle(m) == [msg |-> m, total |-> 0, num |-> 0, cnt |-> 0]

(* Nothing is being put together. *)
NoPacket == [recv_data |-> NULL, recv_len_max |-> 0, recv_len |-> 0]

Init == /\ phone = Idle(0)
        /\ last = NULL
        /\ trsmitr = [total |-> 0, pkg_desc |-> "INIT", subpkg_num |-> 0,
                      cnt |-> 0, subpkg |-> <<>>]
        /\ air = NoPacket
        /\ offset = 0
        /\ handed = <<>>
        /\ first_in = FALSE
        /\ clean = FALSE

-------------------------------------------------------------------------------
(***************************************************************************)
(* The phone.                                                              *)
(***************************************************************************)

(* The bytes the 7-bit encoding of n takes. *)
Digits(n) == CASE n < 128 -> 1
               [] n \in 128 .. (128^2 - 1) -> 2
               [] n \in 128^2 .. (128^3 - 1) -> 3
               [] n >= 128^3 -> 4

HeaderLen(p) == Digits(p.num) + (IF p.num = 0 THEN Digits(p.total) + 1 ELSE 0)

PayloadLen(p) == Lesser(Limit - HeaderLen(p), p.total - p.cnt)

trsmitr_send_pkg_encode(p) ==
    [num |-> p.num, total |-> p.total,
     payload |-> Bytes(p.msg, p.cnt, p.cnt + PayloadLen(p))]

Encoded(p) == [msg |-> p.msg, total |-> p.total,
               num |-> p.num + 1, cnt |-> p.cnt + PayloadLen(p)]

-------------------------------------------------------------------------------
(***************************************************************************)
(* trsmitr_recv_pkg_decode of packet p in state t: it takes p as the next  *)
(* one, or as one it has already, whose subpackage it still holds, or      *)
(* refuses it.                                                             *)
(*                                                                         *)
(* A faulty form of a definition, for the mutants of PROJECT.json, stands  *)
(* before it; no specification here uses one.                              *)
(***************************************************************************)

IsRepeat(t, p) == p.num # 0 /\ p.num = t.subpkg_num

RepeatIsNext(t, p) == p.num \in {0, t.subpkg_num, t.subpkg_num + 1}

IsNext(t, p) == p.num = 0 \/ p.num = t.subpkg_num + 1

Desc(p) == IF p.num = 0 THEN "FIRST" ELSE "MIDDLE"

Described(t, p) == [t EXCEPT !.pkg_desc = Desc(p)]

(* The state after p was taken: what exceeds the total is cut off.         *)
Taken(t, p) ==
    LET total == IF p.num = 0 THEN p.total ELSE t.total
        before == IF p.num = 0 THEN 0 ELSE t.cnt
        len == Lesser(Len(p.payload), total - before)
    IN [total |-> total, pkg_desc |-> Desc(p), subpkg_num |-> p.num,
        cnt |-> before + len, subpkg |-> SubSeq(p.payload, 1, len)]

-------------------------------------------------------------------------------
(***************************************************************************)
(* ble_data_unpack.                                                        *)
(***************************************************************************)

tuya_ble_air_recv_packet_free(a) == IF a.recv_data = NULL THEN a ELSE NoPacket

(* A buffer for a message of n bytes, none of which has arrived.           *)
Buffer(n) == [recv_data |-> [i \in 1 .. n |-> <<0, 0>>],
              recv_len_max |-> n, recv_len |-> 0]

FitsWithOneMore(a, from, sub) == from + Len(sub) <= a.recv_len_max + 1

Fits(a, from, sub) == from + Len(sub) <= a.recv_len_max

(* The subpackage copied into the buffer after its first `from` bytes.     *)
Copied(a, from, sub) ==
    LET end == from + Len(sub)
    IN [recv_data |-> [i \in DOMAIN a.recv_data \cup (from + 1) .. end |->
                          IF i \in from + 1 .. end THEN sub[i - from]
                                                   ELSE a.recv_data[i]],
        recv_len_max |-> a.recv_len_max,
        recv_len |-> end]

(* The message is handed over, and its buffer freed.                       *)
HandOver(a, end) == /\ handed' = SubSeq(a.recv_data, 1, end)
                    /\ air' = NoPacket
                    /\ offset' = 0

(* The second half: the decoder's subpackage, held by state t, goes after  *)
(* the first `from` bytes of a; `complete` says that the decoder returned  *)
(* MTP_OK.                                                                 *)
CopySubpackage(t, a, from, complete) ==
    LET end == from + Len(t.subpkg) IN
    \/ /\ Fits(a, from, t.subpkg) /\ a.recv_data # NULL
       /\ IF complete
          THEN HandOver(Copied(a, from, t.subpkg), end)
          ELSE /\ air' = Copied(a, from, t.subpkg)
               /\ offset' = end
               /\ UNCHANGED handed
    \/ /\ Fits(a, from, t.subpkg) /\ a.recv_data = NULL
       /\ air' = NoPacket
       /\ offset' = from
       /\ UNCHANGED handed
    \/ /\ ~Fits(a, from, t.subpkg)
       /\ air' = tuya_ble_air_recv_packet_free(a)
       /\ offset' = from
       /\ UNCHANGED handed

OffsetKept == offset

FirstOffset == 0

(* A first packet starts a buffer of its own; `mem` says that there is     *)
(* memory for it.                                                          *)
UnpackFirst(t, mem) ==
    \/ /\ t.total <= FrameMax /\ mem
       /\ CopySubpackage(t, Buffer(t.total), FirstOffset, t.cnt = t.total)
    \/ /\ t.total <= FrameMax /\ ~mem
       /\ air' = [NoPacket EXCEPT !.recv_len_max = t.total]
       /\ UNCHANGED <<offset, handed>>
    \/ /\ t.total > FrameMax
       /\ air' = NoPacket
       /\ UNCHANGED <<offset, handed>>

ble_data_unpack(p, mem) ==
    \/ /\ IsNext(trsmitr, p)
       /\ trsmitr' = Taken(trsmitr, p)
       /\ IF trsmitr'.pkg_desc = "FIRST"
          THEN UnpackFirst(trsmitr', mem)
          ELSE CopySubpackage(trsmitr', air, offset, trsmitr'.cnt = trsmitr'.total)
    \/ /\ ~IsNext(trsmitr, p) /\ IsRepeat(trsmitr, p)
       /\ trsmitr' = Described(trsmitr, p)
       /\ CopySubpackage(trsmitr', air, offset, FALSE)
    \/ /\ ~IsNext(trsmitr, p) /\ ~IsRepeat(trsmitr, p)
       /\ trsmitr' = Described(trsmitr, p)
       /\ air' = NoPacket
       /\ UNCHANGED <<offset, handed>>

-------------------------------------------------------------------------------

(* The phone begins its next message. *)
NewMessage(total) ==
    /\ phone.cnt = phone.total
    /\ phone.msg < MaxMessages
    /\ phone' = [msg |-> phone.msg + 1, total |-> total, num |-> 0, cnt |-> 0]
    /\ last' = NULL
    /\ handed' = <<>>
    /\ first_in' = FALSE
    /\ clean' = (total <= FrameMax)
    /\ UNCHANGED deviceVars

(* It sends a packet, which arrives. *)
Arrives(mem) ==
    /\ phone.cnt < phone.total
    /\ LET p == trsmitr_send_pkg_encode(phone)
       IN /\ last' = p
          /\ ble_data_unpack(p, mem)
          /\ first_in' = (first_in \/ p.num = 0)
          /\ clean' = (clean /\ (p.num = 0 => mem))
    /\ phone' = Encoded(phone)

(* It sends one for which the event queue has no room left. *)
Lost == /\ phone.cnt < phone.total
        /\ last' = trsmitr_send_pkg_encode(phone)
        /\ phone' = Encoded(phone)
        /\ clean' = FALSE
        /\ UNCHANGED <<deviceVars, handed, first_in>>

(* It sends its last packet once more. *)
Repeated(mem) == /\ last # NULL
                 /\ ble_data_unpack(last, mem)
                 /\ first_in' = (first_in \/ last.num = 0)
                 /\ clean' = FALSE
                 /\ UNCHANGED phoneVars

(* The connection ends; `told` says that the device handles the event. *)
Disconnected(told) ==
    /\ phone' = Idle(phone.msg)
    /\ last' = NULL
    /\ handed' = <<>>
    /\ first_in' = FALSE
    /\ clean' = FALSE
    /\ air' = IF told THEN tuya_ble_air_recv_packet_free(air) ELSE air
    /\ UNCHANGED <<trsmitr, offset>>

Next == \/ \E total \in Total : NewMessage(total)
        \/ \E mem \in BOOLEAN : Arrives(mem)
        \/ Lost
        \/ \E mem \in BOOLEAN : Repeated(mem)
        \/ \E told \in BOOLEAN : Disconnected(told)

Spec == Init /\ [][Next]_vars

-------------------------------------------------------------------------------
(***************************************************************************)
(* Correctness.                                                            *)
(***************************************************************************)

PhoneType == [msg : 0 .. MaxMessages, total : Nat, num : Nat, cnt : Nat]

DecoderType == [total : Nat, pkg_desc : {"INIT", "FIRST", "MIDDLE"},
                subpkg_num : Nat, cnt : Nat, subpkg : Seq(Byte)]

AirType == [recv_data : Seq(Content) \cup {NULL},
            recv_len_max : Nat, recv_len : Nat]

(* Every variable has its type, and no count exceeds its total: the        *)
(* decoder's difference of the two would wrap.                             *)
TypeOK == /\ phone \in PhoneType /\ phone.cnt <= phone.total
          /\ last \in PacketType \cup {NULL}
          /\ trsmitr \in DecoderType /\ trsmitr.cnt <= trsmitr.total
          /\ air \in AirType
          /\ offset \in Nat
          /\ handed \in Seq(Content)
          /\ first_in \in BOOLEAN
          /\ clean \in BOOLEAN

(* The buffer is as long as the bound that copies into it are tested       *)
(* against, is within the limit, and is filled up to the static offset, so *)
(* no copy ends outside of it, whatever the messages before left behind.   *)
CopiesStayInBuffer ==
    air.recv_data # NULL => /\ Len(air.recv_data) = air.recv_len_max
                            /\ air.recv_len_max <= FrameMax
                            /\ air.recv_len = offset
                            /\ offset <= air.recv_len_max

(* What is handed over while a message is sent whose first packet arrived  *)
(* is that message, exactly: lost and repeated packets, and what is left   *)
(* of other messages, can only make it disappear.                          *)
HandedIsTheMessage ==
    first_in /\ handed # <<>> => handed = Bytes(phone.msg, 0, phone.total)

(* A message that arrives whole is handed over, whatever state the ones    *)
(* before left the decoder, the buffer and the offset in.                  *)
WholeMessageIsHanded ==
    clean /\ phone.cnt = phone.total => handed = Bytes(phone.msg, 0, phone.total)

=============================================================================
