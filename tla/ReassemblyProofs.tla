---------------------------- MODULE ReassemblyProofs ----------------------------
(***************************************************************************)
(* Proofs about Reassembly, for packets of any size, messages of any       *)
(* length and any number of them. The inductive invariant relates the      *)
(* decoder, the buffer and the offset to the message being sent, from the  *)
(* arrival of its first packet on: the decoder has counted no more than    *)
(* the buffer is filled to, and as long as the two agree the buffer holds  *)
(* the beginning of the message. A repeated packet moves the offset ahead  *)
(* of the count for good, which is why such a message is never handed over.*)
(***************************************************************************)
EXTENDS Reassembly, SequenceTheorems, TLAPS

(* A message under way has a number. *)
Numbered(ph) == ph.total > 0 => ph.msg > 0

(* Packet p, the one sent last, ends where the next one of ph begins.      *)
SentLast(ph, p) ==
    /\ ph.num = p.num + 1
    /\ p.total = ph.total
    /\ Len(p.payload) \in 1 .. ph.cnt
    /\ p.payload = Bytes(ph.msg, ph.cnt - Len(p.payload), ph.cnt)
    /\ p.num = 0 => Len(p.payload) = ph.cnt

LastPacket == IF last = NULL THEN phone.num = 0 /\ phone.cnt = 0
                             ELSE SentLast(phone, last)

(* The state t of the decoder, once the first packet of ph's message has   *)
(* arrived and p was sent last.                                            *)
DecoderFollows(t, ph, p) ==
    /\ t.total = ph.total
    /\ t.subpkg_num <= p.num
    /\ t.cnt <= ph.cnt
    /\ t.subpkg # <<>>
    /\ t.subpkg_num = p.num => t.cnt = ph.cnt
    /\ t.subpkg_num + 1 = p.num => t.cnt = ph.cnt - Len(p.payload)

(* What the buffer a, filled up to `end`, holds of the message of ph, of   *)
(* which the decoder has counted cnt bytes.                                *)
BufferFollows(a, end, ph, cnt) ==
    a.recv_data # NULL =>
        /\ a.recv_len_max = ph.total
        /\ cnt <= end
        /\ cnt = end => \A i \in 1 .. end : a.recv_data[i] = <<ph.msg, i>>

Follows ==
    /\ first_in => /\ last # NULL
                   /\ DecoderFollows(trsmitr, phone, last)
                   /\ BufferFollows(air, offset, phone, trsmitr.cnt)
    /\ ~first_in /\ phone.num <= 1 => handed = <<>>

(* Nothing amiss so far: the decoder and the buffer are where the phone is.*)
CleanSoFar ==
    clean =>
        /\ phone.total \in 1 .. FrameMax
        /\ phone.num > 0 => first_in /\ trsmitr.subpkg_num = last.num
        /\ phone.num > 0 /\ phone.cnt < phone.total =>
              air.recv_data # NULL /\ offset = phone.cnt

IInv == /\ TypeOK /\ CopiesStayInBuffer /\ Numbered(phone) /\ LastPacket
        /\ Follows /\ CleanSoFar /\ HandedIsTheMessage /\ WholeMessageIsHanded

-------------------------------------------------------------------------------

LEMMA FrameMaxIsNat == FrameMax \in Nat
BY ReassemblyAssumption

LEMMA FunctionIsSequence ==
    ASSUME NEW S, NEW n \in Nat, NEW f \in [1 .. n -> S]
    PROVE  f \in Seq(S) /\ Len(f) = n
<1>1. f \in Seq(S)
  BY SeqDef
<1> QED BY <1>1, LenProperties

(* Bytes lists the bytes from place a + 1 to place b.                      *)
LEMMA BytesAreBytes ==
    ASSUME NEW m \in 1 .. MaxMessages, NEW a \in Nat, NEW b \in Nat, a <= b
    PROVE  /\ Bytes(m, a, b) \in Seq(Byte)
           /\ Len(Bytes(m, a, b)) = b - a
           /\ \A i \in 1 .. (b - a) : Bytes(m, a, b)[i] = <<m, a + i>>
<1>1. Bytes(m, a, b) \in [1 .. (b - a) -> Byte]
  BY DEF Bytes, Byte
<1>2. b - a \in Nat
  OBVIOUS
<1>3. \A i \in 1 .. (b - a) : Bytes(m, a, b)[i] = <<m, a + i>>
  BY DEF Bytes
<1> QED BY <1>1, <1>2, <1>3, FunctionIsSequence

(* Every packet of a message takes one of its bytes at least.              *)
LEMMA PayloadIsNotEmpty ==
    ASSUME NEW ph \in PhoneType, ph.cnt < ph.total
    PROVE  PayloadLen(ph) \in 1 .. (ph.total - ph.cnt)
<1>1. \A n \in Nat : Digits(n) \in 1 .. 4
  <2> TAKE n \in Nat
  <2>1. n < 128 \/ n \in 128 .. (128^2 - 1) \/ n \in 128^2 .. (128^3 - 1) \/ n >= 128^3
    OBVIOUS
  <2> QED BY <2>1 DEF Digits
<1>2. HeaderLen(ph) \in 1 .. 9
  BY <1>1 DEF HeaderLen, PhoneType
<1>3. Limit \in 10 .. 255
  BY ReassemblyAssumption
<1>4. Limit - HeaderLen(ph) \in Nat \ {0} /\ ph.total - ph.cnt \in Nat \ {0}
  BY <1>2, <1>3 DEF PhoneType
<1> QED BY <1>4 DEF PayloadLen, Lesser

(* c is the buffer a with sub copied to where it is for, and nothing else
   changed. *)
HoldsCopy(c, a, from, sub) ==
    /\ c \in AirType
    /\ c.recv_data \in Seq(Content)
    /\ Len(c.recv_data) = a.recv_len_max
    /\ c.recv_len_max = a.recv_len_max
    /\ c.recv_len = from + Len(sub)
    /\ \A i \in 1 .. a.recv_len_max :
          c.recv_data[i] = IF i \in from + 1 .. from + Len(sub)
                           THEN sub[i - from] ELSE a.recv_data[i]

(* A copy that fits changes the bytes it is for, and nothing else.         *)
LEMMA CopyInPlace ==
    ASSUME NEW a \in AirType, a.recv_data # NULL, Len(a.recv_data) = a.recv_len_max,
           NEW from \in Nat, NEW sub \in Seq(Byte), Fits(a, from, sub),
           NEW c, c = Copied(a, from, sub)
    PROVE  HoldsCopy(c, a, from, sub)
<1> DEFINE n == a.recv_len_max
           end == from + Len(sub)
<1>1. /\ a.recv_data \in Seq(Content) /\ n \in Nat /\ Len(sub) \in Nat
      /\ a.recv_data \in [1 .. n -> Content] /\ DOMAIN a.recv_data = 1 .. n
      /\ sub \in [1 .. Len(sub) -> Byte]
  <2>1. a.recv_data \in Seq(Content) /\ n \in Nat
    BY DEF AirType, Content
  <2> QED BY <2>1, LenProperties
<1>2. end <= n
  BY DEF Fits
<1>3. DOMAIN a.recv_data \cup (from + 1) .. end = 1 .. n
  BY <1>1, <1>2
<1>4. /\ c.recv_data = [i \in 1 .. n |-> IF i \in from + 1 .. end THEN sub[i - from]
                                         ELSE a.recv_data[i]]
      /\ c.recv_len_max = n /\ c.recv_len = end
  BY <1>3 DEF Copied, AirType
<1>5. c.recv_data \in [1 .. n -> Content]
  <2> SUFFICES ASSUME NEW i \in 1 .. n
               PROVE  (IF i \in from + 1 .. end THEN sub[i - from]
                       ELSE a.recv_data[i]) \in Content
    BY <1>4
  <2>1. CASE i \in from + 1 .. end
    <3>1. i - from \in 1 .. Len(sub)
      BY <2>1, <1>1
    <3>2. sub[i - from] \in Byte
      BY <3>1, <1>1
    <3> QED BY <2>1, <3>2 DEF Content
  <2>2. CASE i \notin from + 1 .. end
    BY <2>2, <1>1
  <2> QED BY <2>1, <2>2
<1>6. c.recv_data \in Seq(Content) /\ Len(c.recv_data) = n
  BY <1>1, <1>5, FunctionIsSequence
<1>7. c \in AirType
  <2>1. c = [recv_data |-> c.recv_data, recv_len_max |-> n, recv_len |-> end]
    BY DEF Copied
  <2>2. end \in Nat
    BY <1>1
  <2> QED BY <2>1, <2>2, <1>1, <1>6 DEF AirType, Content
<1> QED BY <1>4, <1>6, <1>7 DEF HoldsCopy

(* NULL is not the content of a buffer. *)
LEMMA NullIsNoContent == NULL \notin Seq(Content) /\ NULL \notin PacketType
BY ReassemblyAssumption

(* What CopiesStayInBuffer says of the length of a buffer. *)
BufferFits(a) == a.recv_data # NULL => /\ Len(a.recv_data) = a.recv_len_max
                                       /\ a.recv_len_max <= FrameMax

LEMMA NoPacketFits == NoPacket \in AirType /\ NoPacket.recv_data = NULL
BY DEF NoPacket, AirType

LEMMA FreedFits ==
    ASSUME NEW a \in AirType
    PROVE  /\ tuya_ble_air_recv_packet_free(a) \in AirType
           /\ tuya_ble_air_recv_packet_free(a).recv_data = NULL
BY NoPacketFits DEF tuya_ble_air_recv_packet_free

(* Whatever is copied, in whatever state: the copy stays in the buffer.    *)
LEMMA CopyIsSafe ==
    ASSUME NEW t \in DecoderType, NEW a \in AirType, NEW from \in Nat,
           NEW complete \in BOOLEAN, BufferFits(a), handed \in Seq(Content),
           CopySubpackage(t, a, from, complete)
    PROVE  /\ air' \in AirType /\ offset' \in Nat /\ handed' \in Seq(Content)
           /\ CopiesStayInBuffer'
<1> DEFINE sub == t.subpkg
           c == Copied(a, from, sub)
           end == from + Len(sub)
<1>0. sub \in Seq(Byte) /\ Len(sub) \in Nat
  BY LenProperties DEF DecoderType
<1>1. CASE Fits(a, from, sub) /\ a.recv_data # NULL
  <2>1. /\ c \in AirType /\ c.recv_data \in Seq(Content)
        /\ Len(c.recv_data) = a.recv_len_max /\ c.recv_len_max = a.recv_len_max
        /\ c.recv_len = end
    <3>1. c = Copied(a, from, sub) /\ Len(a.recv_data) = a.recv_len_max
      BY <1>1 DEF BufferFits
    <3>2. Fits(a, from, sub) /\ a.recv_data # NULL /\ sub \in Seq(Byte)
      BY <1>0, <1>1
    <3>3. HoldsCopy(c, a, from, sub)
      <4> HIDE DEF c, sub
      <4> QED BY <3>1, <3>2, CopyInPlace
    <3> HIDE DEF c, sub
    <3> QED BY <3>3 DEF HoldsCopy
  <2>2. end <= a.recv_len_max /\ a.recv_len_max <= FrameMax /\ a.recv_len_max \in Nat
    BY <1>1 DEF Fits, BufferFits, AirType
  <2>3. CASE complete
    <3>1. air' = NoPacket /\ offset' = 0 /\ handed' = SubSeq(c.recv_data, 1, end)
      BY <1>1, <2>3 DEF CopySubpackage, HandOver
    <3>2. \A i \in 1 .. end : c.recv_data[i] \in Content
      <4> HIDE DEF c
      <4> SUFFICES ASSUME NEW i \in 1 .. end PROVE c.recv_data[i] \in Content
        OBVIOUS
      <4>1. i \in 1 .. Len(c.recv_data)
        BY <2>1, <2>2, <1>0
      <4> QED BY <4>1, <2>1, ElementOfSeq
    <3>3. SubSeq(c.recv_data, 1, end) \in Seq(Content)
      <4> HIDE DEF c
      <4> QED BY <3>2, <1>0, SubSeqProperties
    <3> QED BY <3>1, <3>3, NoPacketFits DEF CopiesStayInBuffer
  <2>4. CASE ~complete
    <3>1. air' = c /\ offset' = end /\ handed' = handed
      BY <1>1, <2>4 DEF CopySubpackage
    <3> HIDE DEF c
    <3> QED BY <3>1, <2>1, <2>2, <1>0 DEF CopiesStayInBuffer
  <2> QED BY <2>3, <2>4
<1>2. CASE Fits(a, from, sub) /\ a.recv_data = NULL
  <2>1. air' = NoPacket /\ offset' = from /\ handed' = handed
    BY <1>2 DEF CopySubpackage
  <2> QED BY <2>1, NoPacketFits DEF CopiesStayInBuffer
<1>3. CASE ~Fits(a, from, sub)
  <2>1. air' = tuya_ble_air_recv_packet_free(a) /\ offset' = from /\ handed' = handed
    BY <1>3 DEF CopySubpackage
  <2> QED BY <2>1, FreedFits DEF CopiesStayInBuffer
<1> QED BY <1>1, <1>2, <1>3

(* A subpackage copied once more moves the offset ahead of the count.      *)
LEMMA CopyOfRepeated ==
    ASSUME NEW t \in DecoderType, NEW a \in AirType, NEW from \in Nat,
           NEW ph, NEW cnt \in Nat, BufferFits(a), t.subpkg # <<>>,
           BufferFollows(a, from, ph, cnt), CopySubpackage(t, a, from, FALSE)
    PROVE  /\ air'.recv_data # NULL => /\ air'.recv_len_max = ph.total
                                       /\ cnt < offset'
           /\ handed' = handed
<1> DEFINE c == Copied(a, from, t.subpkg)
<1>0. t.subpkg \in Seq(Byte) /\ Len(t.subpkg) \in Nat \ {0}
  BY EmptySeq DEF DecoderType
<1>1. CASE Fits(a, from, t.subpkg) /\ a.recv_data # NULL
  <2>1. c.recv_len_max = a.recv_len_max
    BY DEF Copied
  <2>2. air' = c /\ offset' = from + Len(t.subpkg) /\ handed' = handed
    BY <1>1 DEF CopySubpackage
  <2>3. a.recv_len_max = ph.total /\ cnt <= from
    BY <1>1 DEF BufferFollows
  <2> QED BY <2>1, <2>2, <2>3, <1>0
<1>2. CASE ~(Fits(a, from, t.subpkg) /\ a.recv_data # NULL)
  BY <1>2, NoPacketFits, FreedFits DEF CopySubpackage
<1> QED BY <1>1, <1>2

(* A buffer that begins with the bytes of a message, in order.             *)
LEMMA PrefixIsMessage ==
    ASSUME NEW d \in Seq(Content), NEW n \in Nat, n <= Len(d),
           NEW m \in 1 .. MaxMessages, \A i \in 1 .. n : d[i] = <<m, i>>
    PROVE  SubSeq(d, 1, n) = Bytes(m, 0, n)
<1> DEFINE s == SubSeq(d, 1, n)
           b == Bytes(m, 0, n)
<1>1. \A i \in 1 .. n : d[i] \in Content
  BY DEF Content, Byte
<1>2. s \in Seq(Content) /\ Len(s) = n /\ \A i \in 1 .. n : s[i] = d[i]
  <2>1. \A i \in 1 .. n - 1 + 1 : s[i] = d[1 + i - 1]
    BY <1>1, SubSeqProperties
  <2>2. s \in Seq(Content) /\ Len(s) = IF 1 <= n THEN n - 1 + 1 ELSE 0
    BY <1>1, SubSeqProperties
  <2> HIDE DEF s
  <2> QED BY <2>1, <2>2
<1>3. b \in Seq(Content) /\ Len(b) = n /\ \A i \in 1 .. n : b[i] = <<m, i>>
  <2>1. \A i \in 1 .. n : <<m, i>> \in Content
    BY DEF Content, Byte
  <2>2. b = [i \in 1 .. n |-> <<m, i>>]
    BY DEF Bytes
  <2> HIDE DEF b
  <2>3. b \in [1 .. n -> Content]
    BY <2>1, <2>2
  <2> QED BY <2>2, <2>3, FunctionIsSequence
<1>4. \A i \in 1 .. Len(s) : s[i] = b[i]
  BY <1>2, <1>3
<1> HIDE DEF s, b
<1>5. s = b
  BY <1>2, <1>3, <1>4, SeqEqual
<1> QED BY <1>5 DEF s, b

(* The next bytes of the message, copied to where the decoder has counted  *)
(* to, carry on its beginning; the copy that completes it hands it over.   *)
LEMMA CopyOfNext ==
    ASSUME NEW t \in DecoderType, NEW a \in AirType, NEW from \in Nat,
           NEW ph \in PhoneType, ph.msg # 0, NEW cnt \in Nat, BufferFits(a),
           BufferFollows(a, from, ph, cnt),
           t.cnt = cnt + Len(t.subpkg), t.total = ph.total, t.cnt <= ph.total,
           t.subpkg = Bytes(ph.msg, cnt, t.cnt),
           CopySubpackage(t, a, from, t.cnt = t.total)
    PROVE  /\ BufferFollows(air', offset', ph, t.cnt)
           /\ handed' \in {handed, Bytes(ph.msg, 0, ph.total)}
           /\ a.recv_data # NULL /\ from = cnt =>
                 IF t.cnt = ph.total
                 THEN handed' = Bytes(ph.msg, 0, ph.total)
                 ELSE air'.recv_data # NULL /\ offset' = t.cnt
<1> DEFINE sub == t.subpkg
           c == Copied(a, from, sub)
           end == from + Len(sub)
<1>0. /\ sub \in Seq(Byte) /\ Len(sub) \in Nat /\ t.cnt \in Nat /\ ph.total \in Nat
      /\ ph.msg \in 1 .. MaxMessages
  <2>1. t.subpkg \in Seq(Byte) /\ t.cnt \in Nat
    BY DEF DecoderType
  <2>2. ph.total \in Nat /\ ph.msg \in 1 .. MaxMessages
    BY DEF PhoneType
  <2> QED BY <2>1, <2>2, LenProperties
<1>1. CASE Fits(a, from, sub) /\ a.recv_data # NULL
  <2>1. /\ c \in AirType /\ c.recv_data \in Seq(Content)
        /\ Len(c.recv_data) = a.recv_len_max /\ c.recv_len_max = a.recv_len_max
        /\ \A i \in 1 .. a.recv_len_max :
              c.recv_data[i] = IF i \in from + 1 .. from + Len(sub)
                               THEN sub[i - from] ELSE a.recv_data[i]
    <3>1. c = Copied(a, from, sub) /\ Len(a.recv_data) = a.recv_len_max
      BY <1>1 DEF BufferFits
    <3>2. Fits(a, from, sub) /\ a.recv_data # NULL /\ sub \in Seq(Byte)
      BY <1>0, <1>1
    <3>3. HoldsCopy(c, a, from, sub)
      <4> HIDE DEF c, sub
      <4> QED BY <3>1, <3>2, CopyInPlace
    <3> HIDE DEF c, sub
    <3> QED BY <3>3 DEF HoldsCopy
  <2>2. /\ end <= ph.total /\ a.recv_len_max = ph.total /\ cnt <= from
        /\ cnt = from => \A i \in 1 .. from : a.recv_data[i] = <<ph.msg, i>>
    BY <1>1 DEF Fits, BufferFollows
  <2>3. \A i \in 1 .. Len(sub) : sub[i] = <<ph.msg, cnt + i>>
    <3>1. t.cnt - cnt = Len(sub)
      BY <1>0
    <3>2. \A i \in 1 .. (t.cnt - cnt) : sub[i] = <<ph.msg, cnt + i>>
      BY DEF Bytes
    <3> QED BY <3>1, <3>2
  <2>4. ASSUME cnt = from
        PROVE  \A i \in 1 .. end : c.recv_data[i] = <<ph.msg, i>>
    <3> HIDE DEF c, sub
    <3> SUFFICES ASSUME NEW i \in 1 .. end PROVE c.recv_data[i] = <<ph.msg, i>>
      OBVIOUS
    <3>1. i \in 1 .. a.recv_len_max
      BY <2>2, <1>0
    <3>2. CASE i \in from + 1 .. end
      <4>1. i - from \in 1 .. Len(sub) /\ cnt + (i - from) = i
        BY <3>2, <2>4, <1>0
      <4>2. sub[i - from] = <<ph.msg, i>>
        BY <2>3, <4>1
      <4> QED BY <3>1, <3>2, <4>2, <2>1
    <3>3. CASE i \in 1 .. from
      <4>1. i \notin from + 1 .. end
        BY <3>3
      <4> QED BY <3>1, <3>3, <4>1, <2>1, <2>2, <2>4
    <3> QED BY <3>2, <3>3, <1>0
  <2>5. CASE t.cnt = ph.total
    <3>1. cnt = from /\ end = ph.total
      BY <2>2, <2>5, <1>0
    <3>2. air' = NoPacket /\ handed' = SubSeq(c.recv_data, 1, end)
      BY <1>1, <2>5 DEF CopySubpackage, HandOver
    <3>3. \A i \in 1 .. end : c.recv_data[i] = <<ph.msg, i>>
      BY <2>4, <3>1
    <3>4. SubSeq(c.recv_data, 1, end) = Bytes(ph.msg, 0, end)
      <4>1. end \in Nat /\ end <= Len(c.recv_data)
        BY <2>1, <2>2, <1>0
      <4> HIDE DEF c, end
      <4> QED BY <4>1, <3>3, <2>1, <1>0, PrefixIsMessage
    <3> QED BY <3>1, <3>2, <3>4, <2>5, NoPacketFits DEF BufferFollows
  <2>6. CASE t.cnt # ph.total
    <3>1. air' = c /\ offset' = end /\ handed' = handed
      BY <1>1, <2>6 DEF CopySubpackage
    <3>2. c.recv_data # NULL
      BY <2>1, NullIsNoContent
    <3>3. t.cnt <= end /\ (t.cnt = end => cnt = from)
      BY <2>2, <1>0
    <3> HIDE DEF c, sub
    <3>4. BufferFollows(air', offset', ph, t.cnt)
      BY <3>1, <3>3, <2>1, <2>2, <2>4 DEF BufferFollows
    <3>5. from = cnt => offset' = t.cnt
      BY <3>1 DEF sub
    <3> QED BY <3>1, <3>2, <3>4, <3>5, <2>6
  <2> QED BY <2>5, <2>6
<1>2. CASE a.recv_data = NULL
  <2>1. air'.recv_data = NULL /\ handed' = handed
    BY <1>2, NoPacketFits, FreedFits DEF CopySubpackage
  <2> QED BY <1>2, <2>1 DEF BufferFollows
<1>3. CASE ~Fits(a, from, sub) /\ a.recv_data # NULL
  <2>1. air'.recv_data = NULL /\ handed' = handed
    BY <1>3, FreedFits DEF CopySubpackage
  <2>2. a.recv_data # NULL => a.recv_len_max = ph.total
    BY DEF BufferFollows
  <2>3. from # cnt
    BY <1>3, <2>2, <1>0 DEF Fits
  <2> QED BY <2>1, <2>3 DEF BufferFollows
<1> QED BY <1>1, <1>2, <1>3

-------------------------------------------------------------------------------

LEMMA DescribedFacts ==
    ASSUME NEW t \in DecoderType, NEW p
    PROVE  /\ Described(t, p) \in DecoderType
           /\ Described(t, p).total = t.total
           /\ Described(t, p).subpkg_num = t.subpkg_num
           /\ Described(t, p).cnt = t.cnt
           /\ Described(t, p).subpkg = t.subpkg
BY DEF Described, Desc, DecoderType

LEMMA TakenIsSafe ==
    ASSUME NEW t \in DecoderType, t.cnt <= t.total, NEW p \in PacketType
    PROVE  /\ Taken(t, p) \in DecoderType
           /\ Taken(t, p).cnt <= Taken(t, p).total
<1> DEFINE total == IF p.num = 0 THEN p.total ELSE t.total
           before == IF p.num = 0 THEN 0 ELSE t.cnt
           len == Lesser(Len(p.payload), total - before)
<1>1. /\ total \in Nat /\ before \in Nat /\ before <= total
      /\ p.payload \in Seq(Byte) /\ p.num \in Nat
  BY DEF DecoderType, PacketType
<1>2. Len(p.payload) \in Nat
  BY <1>1, LenProperties
<1>3. len \in Nat /\ len <= Len(p.payload) /\ before + len <= total
  BY <1>1, <1>2 DEF Lesser
<1>4. SubSeq(p.payload, 1, len) \in Seq(Byte)
  <2> HIDE DEF len
  <2>1. \A i \in 1 .. len : p.payload[i] \in Byte
    <3> SUFFICES ASSUME NEW i \in 1 .. len PROVE p.payload[i] \in Byte
      OBVIOUS
    <3>1. i \in 1 .. Len(p.payload)
      BY <1>2, <1>3
    <3> QED BY <3>1, <1>1, ElementOfSeq
  <2> QED BY <2>1, <1>3, SubSeqProperties
<1>5. Taken(t, p) = [total |-> total, pkg_desc |-> Desc(p), subpkg_num |-> p.num,
                     cnt |-> before + len, subpkg |-> SubSeq(p.payload, 1, len)]
  BY DEF Taken
<1>6. Desc(p) \in {"INIT", "FIRST", "MIDDLE"} /\ before + len \in Nat
  BY <1>1, <1>3 DEF Desc
<1> HIDE DEF total, before, len
<1> QED BY <1>1, <1>3, <1>4, <1>5, <1>6 DEF DecoderType

(* A payload that does not exceed the total is taken whole.                *)
LEMMA TakenWhole ==
    ASSUME NEW t \in DecoderType, NEW p \in PacketType,
           NEW total, total = (IF p.num = 0 THEN p.total ELSE t.total),
           NEW before, before = (IF p.num = 0 THEN 0 ELSE t.cnt),
           before + Len(p.payload) <= total
    PROVE  /\ Taken(t, p).total = total
           /\ Taken(t, p).subpkg_num = p.num
           /\ Taken(t, p).cnt = before + Len(p.payload)
           /\ Taken(t, p).subpkg = p.payload
<1> DEFINE n == Len(p.payload)
<1>1. p.payload \in Seq(Byte) /\ total \in Nat /\ before \in Nat
  BY DEF DecoderType, PacketType
<1>2. n \in Nat
  BY <1>1, LenProperties
<1>3. Lesser(n, total - before) = n
  BY <1>1, <1>2 DEF Lesser
<1>4. SubSeq(p.payload, 1, n) = p.payload
  <2> DEFINE s == SubSeq(p.payload, 1, n)
  <2>1. \A i \in 1 .. n : p.payload[i] \in Byte
    BY <1>1, ElementOfSeq
  <2> HIDE DEF n
  <2>2. \A i \in 1 .. n - 1 + 1 : s[i] = p.payload[1 + i - 1]
    BY <1>2, <2>1, SubSeqProperties
  <2>3. s \in Seq(Byte) /\ Len(s) = IF 1 <= n THEN n - 1 + 1 ELSE 0
    BY <1>2, <2>1, SubSeqProperties
  <2> HIDE DEF s
  <2>4. Len(s) = n /\ \A i \in 1 .. Len(s) : s[i] = p.payload[i]
    BY <1>2, <2>2, <2>3
  <2>5. s = p.payload
    BY <1>1, <2>3, <2>4, SeqEqual DEF n
  <2> QED BY <2>5 DEF s
<1>5. Taken(t, p) = [total |-> total, pkg_desc |-> Desc(p), subpkg_num |-> p.num,
                     cnt |-> before + n, subpkg |-> p.payload]
  BY <1>3, <1>4 DEF Taken
<1> QED BY <1>5

LEMMA BufferIsEmpty ==
    ASSUME NEW n \in Nat
    PROVE  /\ Buffer(n) \in AirType /\ Buffer(n).recv_data # NULL
           /\ Len(Buffer(n).recv_data) = n
           /\ Buffer(n).recv_len_max = n
<1> DEFINE d == [i \in 1 .. n |-> <<0, 0>>]
<1>1. d \in [1 .. n -> Content]
  BY DEF Content
<1>2. Buffer(n) = [recv_data |-> d, recv_len_max |-> n, recv_len |-> 0]
  BY DEF Buffer
<1> HIDE DEF d
<1>3. d \in Seq(Content) /\ Len(d) = n
  BY <1>1, FunctionIsSequence
<1>4. d # NULL
  BY <1>3, NullIsNoContent
<1> QED BY <1>2, <1>3, <1>4 DEF AirType, Content

LEMMA DescOfTaken ==
    ASSUME NEW t, NEW p
    PROVE  Taken(t, p).pkg_desc = "FIRST" <=> p.num = 0
BY DEF Taken, Desc

(* Whatever packet arrives in whatever state: types are kept, and the copy *)
(* stays in the buffer.                                                    *)
LEMMA UnpackIsSafe ==
    ASSUME NEW p \in PacketType, NEW mem \in BOOLEAN,
           TypeOK, CopiesStayInBuffer, ble_data_unpack(p, mem)
    PROVE  /\ trsmitr' \in DecoderType /\ trsmitr'.cnt <= trsmitr'.total
           /\ air' \in AirType /\ offset' \in Nat /\ handed' \in Seq(Content)
           /\ CopiesStayInBuffer'
<1>0. /\ trsmitr \in DecoderType /\ trsmitr.cnt <= trsmitr.total
      /\ air \in AirType /\ offset \in Nat /\ handed \in Seq(Content)
      /\ BufferFits(air)
  BY DEF TypeOK, CopiesStayInBuffer, BufferFits, Content
<1>1. CASE IsNext(trsmitr, p)
  <2>1. trsmitr' = Taken(trsmitr, p)
    BY <1>1 DEF ble_data_unpack
  <2>2. trsmitr' \in DecoderType /\ trsmitr'.cnt <= trsmitr'.total
    BY <1>0, <2>1, TakenIsSafe
  <2>3. CASE p.num = 0
    <3>1. UnpackFirst(trsmitr', mem)
      BY <1>1, <2>1, <2>3, DescOfTaken DEF ble_data_unpack
    <3>2. CASE trsmitr'.total <= FrameMax /\ mem
      <4>1. trsmitr'.total \in Nat
        BY <2>2 DEF DecoderType
      <4>2. BufferFits(Buffer(trsmitr'.total)) /\ Buffer(trsmitr'.total) \in AirType
        BY <4>1, <3>2, BufferIsEmpty DEF BufferFits
      <4>3. CopySubpackage(trsmitr', Buffer(trsmitr'.total), 0,
                           trsmitr'.cnt = trsmitr'.total)
        BY <3>1, <3>2, <4>1, FrameMaxIsNat DEF UnpackFirst, FirstOffset
      <4> QED BY <1>0, <2>2, <4>2, <4>3, CopyIsSafe
    <3>3. CASE ~(trsmitr'.total <= FrameMax /\ mem)
      <4>1. /\ air' \in {NoPacket, [NoPacket EXCEPT !.recv_len_max = trsmitr'.total]}
            /\ UNCHANGED <<offset, handed>>
        BY <3>1, <3>3 DEF UnpackFirst
      <4>2. trsmitr'.total \in Nat
        BY <2>2 DEF DecoderType
      <4>3. air' \in AirType /\ air'.recv_data = NULL
        BY <4>1, <4>2 DEF NoPacket, AirType
      <4> QED BY <1>0, <2>2, <4>1, <4>3 DEF CopiesStayInBuffer
    <3> QED BY <3>2, <3>3
  <2>4. CASE p.num # 0
    <3>1. CopySubpackage(trsmitr', air, offset, trsmitr'.cnt = trsmitr'.total)
      BY <1>1, <2>1, <2>4, DescOfTaken DEF ble_data_unpack
    <3> QED BY <1>0, <2>2, <3>1, CopyIsSafe
  <2> QED BY <2>3, <2>4
<1>2. CASE ~IsNext(trsmitr, p)
  <2>1. trsmitr' = Described(trsmitr, p)
    BY <1>2 DEF ble_data_unpack
  <2>2. trsmitr' \in DecoderType /\ trsmitr'.cnt <= trsmitr'.total
    BY <1>0, <2>1, DescribedFacts
  <2>3. CASE IsRepeat(trsmitr, p)
    <3>1. CopySubpackage(trsmitr', air, offset, FALSE)
      BY <1>2, <2>3 DEF ble_data_unpack
    <3> QED BY <1>0, <2>2, <3>1, CopyIsSafe
  <2>4. CASE ~IsRepeat(trsmitr, p)
    <3>1. air' = NoPacket /\ UNCHANGED <<offset, handed>>
      BY <1>2, <2>4 DEF ble_data_unpack
    <3> QED BY <1>0, <2>2, <3>1, NoPacketFits DEF CopiesStayInBuffer
  <2> QED BY <2>3, <2>4
<1> QED BY <1>1, <1>2

(* What makes packet p carry a message on that arrived whole so far.       *)
NothingAmiss(ph, p, mem) ==
    \/ p.num = 0 /\ mem /\ ph.total <= FrameMax
    \/ /\ p.num # 0 /\ trsmitr.subpkg_num + 1 = p.num
       /\ air.recv_data # NULL /\ offset = ph.cnt - Len(p.payload)

(* A packet p of the message ph, whose first packet it is or has arrived.  *)
LEMMA UnpackFollows ==
    ASSUME NEW ph \in PhoneType, ph.cnt <= ph.total, ph.msg # 0,
           NEW p \in PacketType, SentLast(ph, p), NEW mem \in BOOLEAN,
           TypeOK, CopiesStayInBuffer, ble_data_unpack(p, mem),
           p.num # 0 => /\ DecoderFollows(trsmitr, ph, p)
                        /\ BufferFollows(air, offset, ph, trsmitr.cnt)
    PROVE  /\ DecoderFollows(trsmitr', ph, p)
           /\ BufferFollows(air', offset', ph, trsmitr'.cnt)
           /\ handed' \in {handed, Bytes(ph.msg, 0, ph.total)}
           /\ NothingAmiss(ph, p, mem) =>
                 /\ trsmitr'.subpkg_num = p.num
                 /\ IF ph.cnt = ph.total
                    THEN handed' = Bytes(ph.msg, 0, ph.total)
                    ELSE air'.recv_data # NULL /\ offset' = ph.cnt
<1>0. /\ trsmitr \in DecoderType /\ trsmitr.cnt <= trsmitr.total
      /\ air \in AirType /\ offset \in Nat /\ BufferFits(air)
      /\ ph.cnt \in Nat /\ ph.total \in Nat /\ ph.msg \in 1 .. MaxMessages
      /\ p.num \in Nat /\ trsmitr.subpkg_num \in Nat /\ trsmitr.cnt \in Nat
  BY SMTT(30) DEF TypeOK, CopiesStayInBuffer, BufferFits, PhoneType, PacketType, DecoderType
<1>a. /\ Len(p.payload) \in 1 .. ph.cnt
      /\ p.payload = Bytes(ph.msg, ph.cnt - Len(p.payload), ph.cnt)
      /\ p.total = ph.total /\ p.num = 0 => Len(p.payload) = ph.cnt
  BY DEF SentLast
<1>b. p.payload \in Seq(Byte) /\ p.payload # <<>>
  BY <1>a, EmptySeq DEF PacketType
<1> DEFINE before == ph.cnt - Len(p.payload)
<1>c. before \in Nat /\ before + Len(p.payload) = ph.cnt
  BY <1>0, <1>a
<1>d. trsmitr' \in DecoderType
  BY UnpackIsSafe
<1>1. CASE IsNext(trsmitr, p)
  <2>1. trsmitr' = Taken(trsmitr, p)
    BY <1>1 DEF ble_data_unpack
  <2>2. /\ before = (IF p.num = 0 THEN 0 ELSE trsmitr.cnt)
        /\ ph.total = (IF p.num = 0 THEN p.total ELSE trsmitr.total)
    <3>1. CASE p.num = 0
      BY <3>1, <1>0, <1>a DEF SentLast
    <3>2. CASE p.num # 0
      BY <3>2, <1>1, <1>0, <1>a DEF DecoderFollows, IsNext
    <3> QED BY <3>1, <3>2
  <2>3. /\ trsmitr'.total = ph.total /\ trsmitr'.subpkg_num = p.num
        /\ trsmitr'.cnt = ph.cnt /\ trsmitr'.subpkg = p.payload
    <3> HIDE DEF before
    <3> QED BY <2>1, <2>2, <1>0, <1>c, TakenWhole
  <2>4. DecoderFollows(trsmitr', ph, p)
    BY <2>3, <1>0, <1>b DEF DecoderFollows
  <2>5. /\ trsmitr'.cnt = before + Len(trsmitr'.subpkg) /\ trsmitr'.cnt <= ph.total
        /\ trsmitr'.subpkg = Bytes(ph.msg, before, trsmitr'.cnt)
    BY <2>3, <1>a, <1>c
  <2>6. ASSUME NEW a \in AirType, NEW from \in Nat, BufferFits(a),
               BufferFollows(a, from, ph, before),
               CopySubpackage(trsmitr', a, from, trsmitr'.cnt = trsmitr'.total)
        PROVE  /\ BufferFollows(air', offset', ph, trsmitr'.cnt)
               /\ handed' \in {handed, Bytes(ph.msg, 0, ph.total)}
               /\ a.recv_data # NULL /\ from = before =>
                     IF trsmitr'.cnt = ph.total
                     THEN handed' = Bytes(ph.msg, 0, ph.total)
                     ELSE air'.recv_data # NULL /\ offset' = trsmitr'.cnt
    <3> HIDE DEF before
    <3> QED BY <1>c, <1>d, <2>3, <2>5, <2>6, CopyOfNext
  <2>7. CASE p.num = 0
    <3>1. UnpackFirst(trsmitr', mem)
      BY <1>1, <2>1, <2>7, DescOfTaken DEF ble_data_unpack
    <3>2. CASE ph.total <= FrameMax /\ mem
      <4> DEFINE a == Buffer(ph.total)
      <4>1. a \in AirType /\ a.recv_data # NULL /\ BufferFits(a) /\ a.recv_len_max = ph.total
        BY <1>0, <3>2, BufferIsEmpty DEF BufferFits
      <4>2. before = 0
        BY <2>2, <2>7
      <4>3. CopySubpackage(trsmitr', a, 0, trsmitr'.cnt = trsmitr'.total)
        BY <1>0, <2>3, <3>1, <3>2, FrameMaxIsNat DEF UnpackFirst, FirstOffset
      <4> HIDE DEF a, before
      <4>4. BufferFollows(a, 0, ph, before)
        BY <4>1, <4>2 DEF BufferFollows
      <4> QED BY <2>3, <2>4, <2>6, <4>1, <4>2, <4>3, <4>4
    <3>3. CASE ~(ph.total <= FrameMax /\ mem)
      <4>1. air'.recv_data = NULL /\ handed' = handed
        BY <2>3, <3>1, <3>3, NoPacketFits DEF UnpackFirst, NoPacket
      <4> QED BY <2>4, <2>7, <3>3, <4>1 DEF BufferFollows, NothingAmiss
    <3> QED BY <3>2, <3>3
  <2>8. CASE p.num # 0
    <3>1. CopySubpackage(trsmitr', air, offset, trsmitr'.cnt = trsmitr'.total)
      BY <1>1, <2>1, <2>8, DescOfTaken DEF ble_data_unpack
    <3>2. BufferFollows(air, offset, ph, before)
      BY <2>2, <2>8
    <3> HIDE DEF before
    <3>3. NothingAmiss(ph, p, mem) => air.recv_data # NULL /\ offset = before
      BY <2>8 DEF NothingAmiss, before
    <3> QED BY <1>0, <2>3, <2>4, <2>6, <3>1, <3>2, <3>3
  <2> QED BY <2>7, <2>8
<1>2. CASE ~IsNext(trsmitr, p)
  <2>1. trsmitr' = Described(trsmitr, p) /\ p.num # 0
    BY <1>2 DEF ble_data_unpack, IsNext
  <2>2. DecoderFollows(trsmitr', ph, p) /\ trsmitr'.cnt = trsmitr.cnt
    BY <2>1, <1>0, DescribedFacts DEF DecoderFollows
  <2>3. ~NothingAmiss(ph, p, mem)
    BY <1>2, <2>1 DEF NothingAmiss, IsNext
  <2>4. CASE IsRepeat(trsmitr, p)
    <3>1. CopySubpackage(trsmitr', air, offset, FALSE)
      BY <1>2, <2>4 DEF ble_data_unpack
    <3>2. BufferFollows(air, offset, ph, trsmitr'.cnt) /\ trsmitr'.subpkg # <<>>
      BY <2>1, <2>2 DEF DecoderFollows
    <3>3. trsmitr'.cnt \in Nat /\ offset' \in Nat
      BY <1>0, <2>2, UnpackIsSafe
    <3>4. /\ air'.recv_data # NULL => /\ air'.recv_len_max = ph.total
                                      /\ trsmitr'.cnt < offset'
          /\ handed' = handed
      BY <1>0, <1>d, <3>1, <3>2, <3>3, CopyOfRepeated
    <3> QED BY <2>2, <2>3, <3>3, <3>4 DEF BufferFollows
  <2>5. CASE ~IsRepeat(trsmitr, p)
    <3>1. air' = NoPacket /\ handed' = handed
      BY <1>2, <2>5 DEF ble_data_unpack
    <3> QED BY <2>2, <2>3, <3>1, NoPacketFits DEF BufferFollows
  <2> QED BY <2>4, <2>5
<1> QED BY <1>1, <1>2

-------------------------------------------------------------------------------

(* The encoder's next packet. *)
LEMMA EncodedFacts ==
    ASSUME NEW ph \in PhoneType, ph.cnt < ph.total, ph.msg # 0,
           ph.num = 0 => ph.cnt = 0
    PROVE  LET p == trsmitr_send_pkg_encode(ph) IN
           /\ p \in PacketType /\ p.num = ph.num
           /\ Encoded(ph) \in PhoneType
           /\ Encoded(ph).msg = ph.msg /\ Encoded(ph).total = ph.total
           /\ Encoded(ph).num = ph.num + 1
           /\ Encoded(ph).cnt - Len(p.payload) = ph.cnt
           /\ Encoded(ph).cnt <= ph.total
           /\ SentLast(Encoded(ph), p)
<1> DEFINE n == PayloadLen(ph)
           b == Bytes(ph.msg, ph.cnt, ph.cnt + n)
           p == trsmitr_send_pkg_encode(ph)
<1>1. /\ n \in 1 .. (ph.total - ph.cnt) /\ ph.cnt \in Nat /\ ph.total \in Nat
      /\ ph.num \in Nat /\ ph.msg \in 1 .. MaxMessages
  BY PayloadIsNotEmpty DEF PhoneType
<1>2. b \in Seq(Byte) /\ Len(b) = n
  <2> HIDE DEF n
  <2>1. b = [i \in 1 .. n |-> <<ph.msg, ph.cnt + i>>]
    BY <1>1 DEF Bytes
  <2>2. b \in [1 .. n -> Byte]
    BY <1>1, <2>1 DEF Byte
  <2> HIDE DEF b
  <2> QED BY <1>1, <2>2, FunctionIsSequence
<1>3. p = [num |-> ph.num, total |-> ph.total, payload |-> b]
  BY DEF trsmitr_send_pkg_encode
<1>4. Encoded(ph) = [msg |-> ph.msg, total |-> ph.total,
                     num |-> ph.num + 1, cnt |-> ph.cnt + n]
  BY DEF Encoded
<1> HIDE DEF n
<1>5. /\ Encoded(ph) \in PhoneType /\ Encoded(ph).msg = ph.msg
      /\ Encoded(ph).total = ph.total /\ Encoded(ph).num = ph.num + 1
      /\ Encoded(ph).cnt = ph.cnt + n
  BY <1>1, <1>4 DEF PhoneType
<1>6. p.payload = Bytes(ph.msg, ph.cnt, Encoded(ph).cnt) /\ Len(p.payload) = n
  BY <1>2, <1>3, <1>5
<1> HIDE DEF b, p
<1>7. p \in PacketType /\ p.num = ph.num /\ p.total = ph.total
  BY <1>1, <1>2, <1>3 DEF PacketType
<1>8. Encoded(ph).cnt - Len(p.payload) = ph.cnt /\ Encoded(ph).cnt <= ph.total
  BY <1>1, <1>5, <1>6
<1>9. SentLast(Encoded(ph), p)
  <2>1. Len(p.payload) \in 1 .. Encoded(ph).cnt
    BY <1>1, <1>5, <1>6
  <2>2. p.payload = Bytes(Encoded(ph).msg, Encoded(ph).cnt - Len(p.payload), Encoded(ph).cnt)
    BY <1>5, <1>6, <1>8
  <2>3. p.num = 0 => Len(p.payload) = Encoded(ph).cnt
    BY <1>1, <1>5, <1>6, <1>7
  <2> QED BY <1>5, <1>7, <2>1, <2>2, <2>3 DEF SentLast
<1> QED BY <1>5, <1>7, <1>8, <1>9 DEF p

LEMMA TypesAreTyped ==
    TypeOK <=> /\ phone \in PhoneType /\ phone.cnt <= phone.total
               /\ last \in PacketType \cup {NULL}
               /\ trsmitr \in DecoderType /\ trsmitr.cnt <= trsmitr.total
               /\ air \in AirType /\ offset \in Nat /\ handed \in Seq(Content)
               /\ first_in \in BOOLEAN /\ clean \in BOOLEAN
BY DEF TypeOK, Content

(* Facts about a packet of the message being sent that arrives.            *)
LEMMA Arrived ==
    ASSUME IInv, NEW ph \in PhoneType, NEW p \in PacketType, NEW mem \in BOOLEAN,
           ph.cnt <= ph.total, ph.msg # 0, SentLast(ph, p),
           ph.msg = phone.msg, ph.total = phone.total,
           phone' = ph, last' = p, ble_data_unpack(p, mem),
           first_in' = (first_in \/ p.num = 0), clean' \in BOOLEAN,
           p.num # 0 /\ first_in => /\ DecoderFollows(trsmitr, ph, p)
                                   /\ BufferFollows(air, offset, ph, trsmitr.cnt),
           p.num = 0 /\ ~first_in => handed = <<>>,
           clean' => /\ clean /\ (p.num # 0 => first_in)
                     /\ NothingAmiss(ph, p, mem)
    PROVE  IInv'
<1>0. /\ TypeOK /\ CopiesStayInBuffer /\ Numbered(phone) /\ LastPacket
      /\ Follows /\ CleanSoFar /\ HandedIsTheMessage
  BY DEF IInv
<1>1. /\ trsmitr' \in DecoderType /\ trsmitr'.cnt <= trsmitr'.total
      /\ air' \in AirType /\ offset' \in Nat /\ handed' \in Seq(Content)
      /\ CopiesStayInBuffer'
  BY <1>0, UnpackIsSafe
<1>2. TypeOK'
  BY <1>0, <1>1, TypesAreTyped DEF TypeOK, Content
<1>3. Numbered(phone)'
  BY DEF Numbered, PhoneType
<1>4. p # NULL /\ LastPacket'
  BY NullIsNoContent DEF LastPacket
<1>5. ph.num = p.num + 1 /\ p.num \in Nat
  BY DEF SentLast, PacketType
<1>6. CASE ~first_in'
  <2>1. ~first_in /\ p.num # 0
    BY <1>6
  <2>2. ph.num > 1
    BY <1>5, <2>1
  <2>3. Follows'
    BY <1>5, <1>6, <2>2 DEF Follows
  <2>4. ~clean'
    BY <2>1
  <2>5. CleanSoFar' /\ HandedIsTheMessage' /\ WholeMessageIsHanded'
    BY <1>6, <2>4 DEF CleanSoFar, HandedIsTheMessage, WholeMessageIsHanded
  <2> QED BY <1>1, <1>2, <1>3, <1>4, <2>3, <2>5 DEF IInv
<1>7. CASE first_in'
  <2>1. p.num # 0 => /\ DecoderFollows(trsmitr, ph, p)
                     /\ BufferFollows(air, offset, ph, trsmitr.cnt)
    BY <1>7
  <2>2. /\ DecoderFollows(trsmitr', ph, p)
        /\ BufferFollows(air', offset', ph, trsmitr'.cnt)
        /\ handed' \in {handed, Bytes(ph.msg, 0, ph.total)}
        /\ NothingAmiss(ph, p, mem) =>
              /\ trsmitr'.subpkg_num = p.num
              /\ IF ph.cnt = ph.total
                 THEN handed' = Bytes(ph.msg, 0, ph.total)
                 ELSE air'.recv_data # NULL /\ offset' = ph.cnt
    BY <1>0, <2>1, UnpackFollows
  <2>3. Follows'
    BY <1>4, <1>7, <2>2 DEF Follows
  <2>4. handed # <<>> => handed = Bytes(ph.msg, 0, ph.total)
    <3>1. CASE first_in
      BY <1>0, <3>1 DEF HandedIsTheMessage
    <3>2. CASE ~first_in
      BY <1>7, <3>2
    <3> QED BY <3>1, <3>2
  <2>5. HandedIsTheMessage'
    BY <2>2, <2>4 DEF HandedIsTheMessage
  <2>6. clean' => ph.total \in 1 .. FrameMax
    BY <1>0 DEF CleanSoFar
  <2>7. CleanSoFar'
    BY <1>7, <2>2, <2>6 DEF CleanSoFar
  <2>8. WholeMessageIsHanded'
    BY <2>2 DEF WholeMessageIsHanded
  <2> QED BY <1>1, <1>2, <1>3, <1>4, <2>3, <2>5, <2>7, <2>8 DEF IInv
<1> QED BY <1>6, <1>7

-------------------------------------------------------------------------------

LEMMA NewMessageStep ==
    ASSUME IInv, NEW total \in Total, NewMessage(total) PROVE IInv'
<1>0. /\ TypeOK /\ CopiesStayInBuffer
  BY DEF IInv
<1>1. total \in Nat \ {0}
  BY ReassemblyAssumption
<1>2. /\ phone' = [msg |-> phone.msg + 1, total |-> total, num |-> 0, cnt |-> 0]
      /\ phone.msg < MaxMessages
      /\ last' = NULL /\ handed' = <<>> /\ first_in' = FALSE
      /\ clean' => total <= FrameMax
      /\ UNCHANGED deviceVars
  BY DEF NewMessage
<1>a. clean' \in BOOLEAN
  <2>1. clean' = (total <= FrameMax)
    BY DEF NewMessage
  <2> QED BY <2>1
<1>3. MaxMessages \in Nat
  BY ReassemblyAssumption
<1>4. phone' \in PhoneType /\ phone'.msg # 0
  BY <1>0, <1>1, <1>2, <1>3, TypesAreTyped DEF PhoneType
<1>5. handed' \in Seq(Content)
  BY <1>2
<1>6. TypeOK'
  <2>1. phone'.cnt <= phone'.total
    BY <1>1, <1>2
  <2>2. /\ trsmitr' \in DecoderType /\ trsmitr'.cnt <= trsmitr'.total
        /\ air' \in AirType /\ offset' \in Nat
    BY <1>0, <1>2 DEF TypeOK, deviceVars
  <2>3. last' \in PacketType \cup {NULL} /\ first_in' \in BOOLEAN
    BY <1>2
  <2> QED BY <1>4, <1>5, <1>a, <2>1, <2>2, <2>3 DEF TypeOK
<1>7. CopiesStayInBuffer'
  BY <1>0, <1>2 DEF CopiesStayInBuffer, deviceVars
<1>8. Numbered(phone)' /\ LastPacket' /\ Follows'
  BY <1>2, <1>4 DEF Numbered, LastPacket, Follows, PhoneType
<1>9. CleanSoFar' /\ HandedIsTheMessage' /\ WholeMessageIsHanded'
  BY <1>1, <1>2, FrameMaxIsNat DEF CleanSoFar, HandedIsTheMessage, WholeMessageIsHanded
<1> QED BY <1>6, <1>7, <1>8, <1>9 DEF IInv

LEMMA ArrivesStep ==
    ASSUME IInv, NEW mem \in BOOLEAN, Arrives(mem) PROVE IInv'
<1> DEFINE p == trsmitr_send_pkg_encode(phone)
           ph == Encoded(phone)
<1>0. /\ TypeOK /\ Numbered(phone) /\ LastPacket /\ Follows /\ CleanSoFar
  BY DEF IInv
<1>1. /\ phone.cnt < phone.total /\ phone \in PhoneType /\ clean \in BOOLEAN
  BY <1>0 DEF Arrives, TypeOK
<1>2. phone.msg # 0 /\ (phone.num = 0 => phone.cnt = 0 /\ last = NULL)
  BY <1>0, <1>1 DEF Numbered, LastPacket, SentLast, PhoneType, TypeOK, PacketType
<1>3. /\ p \in PacketType /\ p.num = phone.num
      /\ ph \in PhoneType /\ ph.msg = phone.msg /\ ph.total = phone.total
      /\ ph.num = phone.num + 1
      /\ ph.cnt - Len(p.payload) = phone.cnt
      /\ ph.cnt <= ph.total
      /\ SentLast(ph, p)
  BY <1>1, <1>2, EncodedFacts
<1>4. /\ phone' = ph /\ last' = p /\ ble_data_unpack(p, mem)
      /\ first_in' = (first_in \/ p.num = 0)
      /\ clean' = (clean /\ (p.num = 0 => mem))
  BY DEF Arrives
<1> HIDE DEF p, ph
<1>5. p.num # 0 => last # NULL /\ SentLast(phone, last)
  BY <1>0, <1>3 DEF LastPacket
<1>6. ASSUME p.num # 0, first_in
      PROVE  /\ DecoderFollows(trsmitr, ph, p)
             /\ BufferFollows(air, offset, ph, trsmitr.cnt)
             /\ trsmitr.subpkg_num = last.num => trsmitr.subpkg_num + 1 = p.num
  <2>1. /\ DecoderFollows(trsmitr, phone, last)
        /\ BufferFollows(air, offset, phone, trsmitr.cnt)
    BY <1>0, <1>6 DEF Follows
  <2>2. /\ p.num = last.num + 1 /\ last.num \in Nat /\ trsmitr.subpkg_num \in Nat
        /\ trsmitr.cnt \in Nat /\ ph.cnt \in Nat /\ phone.cnt \in Nat
    BY <1>0, <1>1, <1>3, <1>5, <1>6
       DEF SentLast, TypeOK, PacketType, DecoderType, PhoneType
  <2>3. Len(p.payload) \in Nat /\ phone.cnt <= ph.cnt
    BY <1>3, <2>2 DEF SentLast
  <2>4. DecoderFollows(trsmitr, ph, p)
    <3>1. /\ trsmitr.total = phone.total /\ trsmitr.subpkg # <<>>
          /\ trsmitr.subpkg_num <= last.num /\ trsmitr.cnt <= phone.cnt
          /\ trsmitr.subpkg_num = last.num => trsmitr.cnt = phone.cnt
      BY <2>1, Zenon DEF DecoderFollows
    <3>2. /\ trsmitr.subpkg_num <= p.num /\ trsmitr.subpkg_num # p.num
          /\ trsmitr.subpkg_num + 1 = p.num => trsmitr.subpkg_num = last.num
      BY <3>1, <2>2
    <3>3. trsmitr.cnt <= ph.cnt
      BY <3>1, <2>2, <2>3
    <3>4. ph.total = phone.total /\ ph.cnt - Len(p.payload) = phone.cnt
      BY <1>3
    <3> QED BY <3>1, <3>2, <3>3, <3>4, Zenon DEF DecoderFollows
  <2>5. BufferFollows(air, offset, ph, trsmitr.cnt)
    <3>1. ph.msg = phone.msg /\ ph.total = phone.total
      BY <1>3
    <3> QED BY <3>1, <2>1, Zenon DEF BufferFollows
  <2> QED BY <2>2, <2>4, <2>5
<1>7. p.num = 0 /\ ~first_in => handed = <<>>
  BY <1>0, <1>3 DEF Follows
<1>8. ASSUME clean'
      PROVE  clean /\ (p.num # 0 => first_in) /\ NothingAmiss(ph, p, mem)
  <2>1. /\ clean /\ (p.num = 0 => mem) /\ phone.total \in 1 .. FrameMax
        /\ p.num # 0 => /\ first_in /\ trsmitr.subpkg_num = last.num
                        /\ air.recv_data # NULL /\ offset = phone.cnt
    BY <1>0, <1>1, <1>3, <1>4, <1>8 DEF CleanSoFar, PhoneType
  <2>2. CASE p.num = 0
    BY <1>3, <2>1, <2>2 DEF NothingAmiss
  <2>3. CASE p.num # 0
    BY <1>3, <1>6, <2>1, <2>3 DEF NothingAmiss
  <2> QED BY <2>2, <2>3
<1>9. clean' \in BOOLEAN
  BY <1>1, <1>4
<1> QED BY <1>1, <1>2, <1>3, <1>4, <1>6, <1>7, <1>8, <1>9, Arrived

LEMMA LostStep == IInv /\ Lost => IInv'
<1> SUFFICES ASSUME IInv, Lost PROVE IInv'
  OBVIOUS
<1> DEFINE p == trsmitr_send_pkg_encode(phone)
           ph == Encoded(phone)
<1>0. /\ TypeOK /\ CopiesStayInBuffer /\ Numbered(phone) /\ LastPacket /\ Follows
      /\ HandedIsTheMessage
  BY DEF IInv
<1>1. phone.cnt < phone.total /\ phone \in PhoneType
  BY <1>0 DEF Lost, TypeOK
<1>2. phone.msg # 0 /\ (phone.num = 0 => phone.cnt = 0 /\ last = NULL)
  BY <1>0, <1>1 DEF Numbered, LastPacket, SentLast, PhoneType, TypeOK, PacketType
<1>3. /\ p \in PacketType /\ p.num = phone.num
      /\ ph \in PhoneType /\ ph.msg = phone.msg /\ ph.total = phone.total
      /\ ph.num = phone.num + 1
      /\ ph.cnt - Len(p.payload) = phone.cnt
      /\ ph.cnt <= ph.total
      /\ SentLast(ph, p)
  BY <1>1, <1>2, EncodedFacts
<1>4. /\ phone' = ph /\ last' = p /\ clean' = FALSE
      /\ UNCHANGED <<trsmitr, air, offset, handed, first_in>>
  BY DEF Lost, deviceVars
<1> HIDE DEF p, ph
<1>5. TypeOK' /\ CopiesStayInBuffer'
  BY <1>0, <1>3, <1>4 DEF TypeOK, CopiesStayInBuffer
<1>6. p # NULL /\ LastPacket' /\ Numbered(phone)'
  BY <1>0, <1>3, <1>4, NullIsNoContent DEF LastPacket, Numbered
<1>7. ASSUME first_in
      PROVE  /\ DecoderFollows(trsmitr, ph, p)
             /\ BufferFollows(air, offset, ph, trsmitr.cnt)
  <2>1. /\ DecoderFollows(trsmitr, phone, last) /\ last # NULL
        /\ BufferFollows(air, offset, phone, trsmitr.cnt)
    BY <1>0, <1>7 DEF Follows
  <2>2. last \in PacketType /\ SentLast(phone, last)
    BY <1>0, <2>1 DEF LastPacket, TypeOK
  <2>3. /\ p.num = last.num + 1 /\ last.num \in Nat /\ trsmitr.subpkg_num \in Nat
        /\ trsmitr.cnt \in Nat /\ ph.cnt \in Nat /\ phone.cnt \in Nat
    BY <1>0, <1>1, <1>3, <2>2 DEF SentLast, TypeOK, PacketType, DecoderType, PhoneType
  <2>4. Len(p.payload) \in Nat /\ phone.cnt <= ph.cnt
    BY <1>3, <2>3 DEF SentLast
  <2>5. DecoderFollows(trsmitr, ph, p)
    <3>1. /\ trsmitr.total = phone.total /\ trsmitr.subpkg # <<>>
          /\ trsmitr.subpkg_num <= last.num /\ trsmitr.cnt <= phone.cnt
          /\ trsmitr.subpkg_num = last.num => trsmitr.cnt = phone.cnt
      BY <2>1, Zenon DEF DecoderFollows
    <3>2. /\ trsmitr.subpkg_num <= p.num /\ trsmitr.subpkg_num # p.num
          /\ trsmitr.subpkg_num + 1 = p.num => trsmitr.subpkg_num = last.num
      BY <3>1, <2>3
    <3>3. trsmitr.cnt <= ph.cnt
      BY <3>1, <2>3, <2>4
    <3>4. ph.total = phone.total /\ ph.cnt - Len(p.payload) = phone.cnt
      BY <1>3
    <3> QED BY <3>1, <3>2, <3>3, <3>4, Zenon DEF DecoderFollows
  <2>6. BufferFollows(air, offset, ph, trsmitr.cnt)
    <3>1. ph.msg = phone.msg /\ ph.total = phone.total
      BY <1>3
    <3> QED BY <3>1, <2>1, Zenon DEF BufferFollows
  <2> QED BY <2>5, <2>6
<1>8. ASSUME ~first_in, ph.num <= 1 PROVE handed = <<>>
  BY <1>0, <1>1, <1>3, <1>8 DEF Follows, PhoneType
<1>9. Follows'
  BY <1>4, <1>6, <1>7, <1>8 DEF Follows
<1>10. CleanSoFar' /\ HandedIsTheMessage' /\ WholeMessageIsHanded'
  BY <1>0, <1>3, <1>4 DEF CleanSoFar, HandedIsTheMessage, WholeMessageIsHanded
<1> QED BY <1>5, <1>6, <1>9, <1>10 DEF IInv

LEMMA RepeatedStep ==
    ASSUME IInv, NEW mem \in BOOLEAN, Repeated(mem) PROVE IInv'
<1>0. /\ TypeOK /\ Numbered(phone) /\ LastPacket /\ Follows
  BY DEF IInv
<1>1. /\ last # NULL /\ ble_data_unpack(last, mem)
      /\ first_in' = (first_in \/ last.num = 0)
      /\ clean' = FALSE /\ phone' = phone /\ last' = last
  BY DEF Repeated, phoneVars
<1>2. /\ last \in PacketType /\ phone \in PhoneType /\ phone.cnt <= phone.total
      /\ SentLast(phone, last)
  BY <1>0, <1>1 DEF TypeOK, LastPacket
<1>3. phone.msg # 0
  BY <1>0, <1>2 DEF Numbered, SentLast, PhoneType
<1>4. first_in => /\ DecoderFollows(trsmitr, phone, last)
                  /\ BufferFollows(air, offset, phone, trsmitr.cnt)
  BY <1>0 DEF Follows
<1>5. last.num = 0 /\ ~first_in => handed = <<>>
  BY <1>0, <1>2 DEF Follows, SentLast
<1> QED BY <1>1, <1>2, <1>3, <1>4, <1>5, Arrived

LEMMA DisconnectedStep ==
    ASSUME IInv, NEW told \in BOOLEAN, Disconnected(told) PROVE IInv'
<1>0. TypeOK /\ CopiesStayInBuffer
  BY DEF IInv
<1>1. /\ phone' = [msg |-> phone.msg, total |-> 0, num |-> 0, cnt |-> 0]
      /\ last' = NULL /\ handed' = <<>> /\ first_in' = FALSE /\ clean' = FALSE
      /\ air' = air \/ air' = tuya_ble_air_recv_packet_free(air)
      /\ UNCHANGED <<trsmitr, offset>>
  BY DEF Disconnected, Idle
<1>2. phone' \in PhoneType /\ phone'.cnt <= phone'.total
  BY <1>0, <1>1 DEF TypeOK, PhoneType
<1>3. air' \in AirType /\ CopiesStayInBuffer'
  BY <1>0, <1>1, FreedFits DEF TypeOK, CopiesStayInBuffer
<1>4. handed' \in Seq(Content)
  BY <1>1
<1>5. TypeOK'
  BY <1>0, <1>1, <1>2, <1>3, <1>4 DEF TypeOK
<1>6. Numbered(phone)' /\ LastPacket' /\ Follows'
  BY <1>1 DEF Numbered, LastPacket, Follows
<1>7. CleanSoFar' /\ HandedIsTheMessage' /\ WholeMessageIsHanded'
  BY <1>1 DEF CleanSoFar, HandedIsTheMessage, WholeMessageIsHanded
<1> QED BY <1>3, <1>5, <1>6, <1>7 DEF IInv

LEMMA InitHolds == Init => IInv
<1> SUFFICES ASSUME Init PROVE IInv
  OBVIOUS
<1>1. /\ phone = [msg |-> 0, total |-> 0, num |-> 0, cnt |-> 0] /\ last = NULL
      /\ trsmitr = [total |-> 0, pkg_desc |-> "INIT", subpkg_num |-> 0,
                    cnt |-> 0, subpkg |-> <<>>]
      /\ air = NoPacket /\ offset = 0 /\ handed = <<>>
      /\ first_in = FALSE /\ clean = FALSE
  BY DEF Init, Idle
<1>2. MaxMessages \in Nat
  BY ReassemblyAssumption
<1>3. phone \in PhoneType /\ phone.cnt <= phone.total
  BY <1>1, <1>2 DEF PhoneType
<1>4. trsmitr \in DecoderType /\ trsmitr.cnt <= trsmitr.total
  BY <1>1 DEF DecoderType
<1>5. handed \in Seq(Content)
  BY <1>1
<1>6. TypeOK /\ CopiesStayInBuffer
  BY <1>1, <1>3, <1>4, <1>5, NoPacketFits DEF TypeOK, CopiesStayInBuffer
<1>7. Numbered(phone) /\ LastPacket /\ Follows
  BY <1>1 DEF Numbered, LastPacket, Follows
<1>8. CleanSoFar /\ HandedIsTheMessage /\ WholeMessageIsHanded
  BY <1>1 DEF CleanSoFar, HandedIsTheMessage, WholeMessageIsHanded
<1> QED BY <1>6, <1>7, <1>8 DEF IInv

LEMMA StepHolds == IInv /\ [Next]_vars => IInv'
<1> SUFFICES ASSUME IInv, [Next]_vars PROVE IInv'
  OBVIOUS
<1>1. CASE \E total \in Total : NewMessage(total)
  BY <1>1, NewMessageStep
<1>2. CASE \E mem \in BOOLEAN : Arrives(mem)
  BY <1>2, ArrivesStep
<1>3. CASE Lost
  BY <1>3, LostStep
<1>4. CASE \E mem \in BOOLEAN : Repeated(mem)
  BY <1>4, RepeatedStep
<1>5. CASE \E told \in BOOLEAN : Disconnected(told)
  BY <1>5, DisconnectedStep
<1>6. CASE UNCHANGED vars
  BY <1>6 DEF vars, phoneVars, deviceVars, IInv, TypeOK, CopiesStayInBuffer, LastPacket,
              Follows, CleanSoFar, HandedIsTheMessage, WholeMessageIsHanded
<1> QED BY <1>1, <1>2, <1>3, <1>4, <1>5, <1>6 DEF Next

-------------------------------------------------------------------------------

(* The inductive invariant holds in every state of every behaviour.        *)
THEOREM InvariantHolds == Spec => []IInv
BY InitHolds, StepHolds, PTL DEF Spec

(* Every variable keeps its type, and the decoder never counts more than   *)
(* the total.                                                              *)
THEOREM TypeCorrect == Spec => []TypeOK
<1>1. IInv => TypeOK
  BY DEF IInv
<1> QED BY <1>1, InvariantHolds, PTL

(* No copy of ble_data_unpack ends outside of its buffer.                  *)
THEOREM NoCopyOverruns == Spec => []CopiesStayInBuffer
<1>1. IInv => CopiesStayInBuffer
  BY DEF IInv
<1> QED BY <1>1, InvariantHolds, PTL

(* A message whose first packet arrived is handed over as it was sent, or  *)
(* not at all.                                                             *)
THEOREM HandedAsSent == Spec => []HandedIsTheMessage
<1>1. IInv => HandedIsTheMessage
  BY DEF IInv
<1> QED BY <1>1, InvariantHolds, PTL

(* A message that arrives whole is handed over, whatever came before.      *)
THEOREM WholeMessageHanded == Spec => []WholeMessageIsHanded
<1>1. IInv => WholeMessageIsHanded
  BY DEF IInv
<1> QED BY <1>1, InvariantHolds, PTL

=============================================================================
