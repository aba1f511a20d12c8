-------------------------------- MODULE OtaProofs --------------------------------
(***************************************************************************)
(* AlwaysBootable and ResumePointHolds for any images, sizes of packets,   *)
(* sectors and banks, any number of power failures and lost answers, and a *)
(* phone that waits for the restart after a transfer.                      *)
(*                                                                         *)
(* The bank that the device runs from holds a whole image and is the one   *)
(* to boot from, until the update is decided; from then on both banks hold *)
(* one, and it is the order of the operations on the boot flags that       *)
(* leaves one of them valid. The settings that are saved speak of data     *)
(* that are in the flash by then and that no later operation touches.      *)
(***************************************************************************)
EXTENDS Ota, Numbers, SequenceTheorems

Cell == Byte \union {Erased, Junk}

(* Settings as they come from the handlers.                                *)
Good == {s \in Settings : /\ s.offset_last <= s.write_offset
                          /\ s.ota_status = "WAIT_FOR_EREASE" => s.offset_last = 0}

(* A phone that sends data has some left to send.                          *)
Phone == {ph \in [next : {"start", "info", "offset", "data", "end", "wait"},
                  file : Offered, from : Nat, num : Nat] :
             ph.next = "data" => ph.from + ph.num * PacketLen < Length[ph.file]}

FlagOp(bank, value) == [op |-> "flag", bank |-> bank, to |-> value]

SaveOp == [op : {"clear"}] \union [op : {"settings"}, value : Good]
QuietOp == SaveOp \union [op : {"erase"}, at : Nat]
                  \union [op : {"write"}, at : Nat, bytes : Seq(Byte)]

TypeInv == /\ cells \in [Bank -> [Place -> Cell]]
           /\ flag \in [Bank -> {"unset", "valid", "invalid"}]
           /\ stored \in Good \union {Torn}
           /\ running \in Bank \union {NONE}
           /\ ota_settings \in Good
           /\ tuya_ota_status \in {"NONE", "START", "FILE_INFO", "FILE_OFFSET", "FILE_DATA"}
           /\ last_package \in Nat /\ m_firmware_size_req \in 0 .. FwMax
           /\ timers \subseteq {"timeout", "end", "reboot"}
           /\ ota_end_crc_cnt \in Nat
           /\ phone \in Phone
           /\ troubles \in 0 .. MaxTroubles

(* What is in RAM is gone while the device is off.                         *)
OffInv == running = NONE => todo = <<>> /\ timers = {} /\ tuya_ota_status = "NONE"

(* How far the transfer is, for the device and for the phone.              *)
StatusInv ==
    /\ tuya_ota_status \in {"FILE_INFO", "FILE_OFFSET", "FILE_DATA"} =>
          ota_settings.file # NONE
    /\ tuya_ota_status \in {"FILE_OFFSET", "FILE_DATA"} =>
          ota_settings.ota_status = "APP_DOWNLOADING"
    /\ phone.next \in {"data", "end"} => tuya_ota_status # "START"

(* While the image is read back nothing else happens, and crc_temp is what *)
(* was read.                                                               *)
ReadSoFar(n) == [i \in 1 .. n |-> cells[Target][i - 1]]

EndInv ==
    "end" \in timers =>
        /\ running # NONE /\ todo = <<>> /\ phone.next = "wait"
        /\ ota_settings.file # NONE /\ ota_settings.offset_last <= FwMax
        /\ ota_end_crc_cnt <= Pieces
        /\ ota_end_crc_cnt > 0 => crc_temp = ReadSoFar(ota_end_crc_cnt * PacketLen)

(* The device will start again from the bank it runs from.                 *)
Undecided == /\ flag[running] = "valid"
             /\ running = 1 => flag[0] # "valid"
             /\ todo \in Seq(QuietOp)

(* The new image is whole too. The flags are in one of four states: of the *)
(* old and the new bank, at least one is valid, or one that was erased is  *)
(* about to be.                                                            *)
Deciding ==
    \/ /\ todo \in Seq(SaveOp)
       /\ flag[running] = "valid" \/ flag[Target] = "valid"
    \/ /\ todo # <<>> /\ Head(todo) = FlagOp(Target, "valid")
       /\ Tail(todo) \in Seq(SaveOp)
       /\ flag[Target] = "invalid" /\ flag[running] = "valid"
    \/ /\ todo # <<>> /\ Head(todo) = FlagOp(Target, "valid")
       /\ Tail(todo) # <<>> /\ Head(Tail(todo)) = FlagOp(running, "invalid")
       /\ Tail(Tail(todo)) \in Seq(SaveOp)
       /\ flag[Target] # "invalid" /\ flag[running] = "valid"
    \/ /\ todo # <<>> /\ Head(todo) = FlagOp(running, "invalid")
       /\ Tail(todo) \in Seq(SaveOp)
       /\ flag[Target] = "valid"

Installing == /\ phone.next = "wait" /\ "reboot" \in timers /\ "end" \notin timers
              /\ \E f \in File : Holds(Target, f)
              /\ Deciding

BootInv == IF running = NONE THEN AlwaysBootable
           ELSE (\E f \in File : Holds(running, f)) /\ (Undecided \/ Installing)

IInv == TypeInv /\ OffInv /\ StatusInv /\ EndInv /\ BootInv

-------------------------------------------------------------------------------
(* Banks and constants.                                                    *)

LEMMA Banks ==
    ASSUME running \in Bank
    PROVE  /\ Target \in Bank /\ Target # running /\ running # NONE
           /\ \A b \in Bank : b = running \/ b = Target
  BY OtaAssumption DEF Bank, Target

LEMMA Sizes == /\ PacketLen \in Nat \ {0} /\ Sector \in Nat \ {0} /\ FwMax \in Nat
               /\ \A f \in File : Length[f] \in Nat
               /\ NONE \notin File /\ 0 # NONE /\ 1 # NONE
               /\ Offered \subseteq File /\ 0 \in Bank /\ 1 \in Bank
               /\ FwMax + PacketLen - 1 \in Nat
  BY OtaAssumption DEF Bank

(* A valid flag makes its bank, or the first one, the bank to boot from.   *)
LEMMA BootFrom ==
    ASSUME NEW b \in Bank, flag[b] = "valid"
    PROVE  /\ BootBank \in Bank /\ BootBank # NONE /\ flag[BootBank] = "valid"
           /\ b = 0 \/ flag[0] # "valid" => BootBank = b
  BY Sizes DEF BootBank, Bank

-------------------------------------------------------------------------------
(* Pieces that are read back.                                              *)
LEMMA DivNat ==
    ASSUME NEW a \in Nat, NEW w \in Nat \ {0}
    PROVE  /\ a \div w \in Nat /\ a % w \in 0 .. w - 1
           /\ a = (a \div w) * w + (a % w) /\ (a \div w) * w <= a
  <1>1. a \div w \in Int /\ a % w \in 0 .. w - 1 /\ a = w * (a \div w) + (a % w)
    BY DivMod
  <1> DEFINE q == a \div w
  <1>2. q \in Int /\ (a % w) \in 0 .. w - 1 /\ a = w * q + (a % w)
    BY <1>1
  <1> HIDE DEF q
  <1>3. CASE q >= 0
    BY <1>2, <1>3 DEF q
  <1>4. CASE q <= -1
    <2>1. w * q <= -w
      BY <1>2, <1>4
    <2> QED BY <1>2, <2>1
  <1> QED BY <1>2, <1>3, <1>4

-------------------------------------------------------------------------------
(* Settings and flash operations.                                          *)

Status == {"WAIT_FOR_START", "WAIT_FOR_EREASE", "APP_DOWNLOADING"}

(* Settings are good field by field.                                       *)
LEMMA GoodFields ==
    ASSUME NEW s \in Good
    PROVE  /\ s.md5 \in File \union {NONE} /\ s.file \in File \union {NONE} /\ s.length \in Nat
           /\ s.crc_last \in Seq(Byte) /\ s.offset_last \in Offset /\ s.write_offset \in Offset
           /\ s.ota_status \in Status /\ s.offset_last <= s.write_offset
           /\ s.ota_status = "WAIT_FOR_EREASE" => s.offset_last = 0
           /\ s = [md5 |-> s.md5, file |-> s.file, length |-> s.length, crc_last |-> s.crc_last,
                   offset_last |-> s.offset_last, write_offset |-> s.write_offset,
                   ota_status |-> s.ota_status]
  BY DEF Good, Settings, Status

LEMMA ZeroGood == Zero \in Good /\ \A status \in Status : ZeroAt(status) \in Good
  <1>1. <<>> \in Seq(Byte) /\ 0 \in Offset /\ NONE \in File \union {NONE} /\ 0 \in Nat
    BY Sizes DEF Offset
  <1>2. ASSUME NEW status \in Status
        PROVE  [md5 |-> NONE, file |-> NONE, length |-> 0, crc_last |-> <<>>,
                offset_last |-> 0, write_offset |-> 0, ota_status |-> status] \in Good
    BY <1>1 DEF Good, Settings, Status
  <1>3. "WAIT_FOR_START" \in Status
    BY DEF Status
  <1>4. ASSUME NEW status \in Status PROVE ZeroAt(status) \in Good
    BY <1>2 DEF ZeroAt, Zero
  <1> QED BY <1>2, <1>3, <1>4 DEF Zero

LEMMA RestoredGood == ASSUME NEW s \in Good PROVE Restored(s) \in Good
  <1>1. 0 \in Offset /\ 0 \in Nat /\ s.ota_status \in Status
    BY Sizes, GoodFields DEF Offset
  <1>2. CASE s.ota_status = "WAIT_FOR_EREASE"
    <2>1. [s EXCEPT !.ota_status = "WAIT_FOR_START", !.write_offset = 0, !.length = 0] \in Good
      <3> DEFINE t == [s EXCEPT !.ota_status = "WAIT_FOR_START", !.write_offset = 0, !.length = 0]
      <3>1. s \in Settings
        BY DEF Good
      <3>2. t \in Settings
        BY <1>1, <3>1 DEF Settings
      <3>3. t.offset_last = s.offset_last /\ t.write_offset = 0 /\ t.ota_status = "WAIT_FOR_START"
        BY <3>1 DEF Settings
      <3>4. s.offset_last = 0
        BY <1>2 DEF Good
      <3> HIDE DEF t
      <3>5. t \in Good
        BY <3>2, <3>3, <3>4 DEF Good
      <3> QED BY <3>5 DEF t
    <2> QED BY <1>2, <2>1 DEF Restored
  <1>3. CASE s.ota_status = "APP_DOWNLOADING"
    <2>1. [s EXCEPT !.ota_status = "WAIT_FOR_START"] \in Good
      BY DEF Good, Settings
    <2>2. [s EXCEPT !.ota_status = "WAIT_FOR_START", !.offset_last = 0, !.write_offset = 0] \in Good
      <3> DEFINE t == [s EXCEPT !.ota_status = "WAIT_FOR_START", !.offset_last = 0, !.write_offset = 0]
      <3>1. s \in Settings
        BY DEF Good
      <3>2. t \in Settings
        BY <1>1, <3>1 DEF Settings
      <3>3. t.offset_last = 0 /\ t.write_offset = 0
        BY <3>1 DEF Settings
      <3> HIDE DEF t
      <3>4. t \in Good
        BY <3>2, <3>3 DEF Good
      <3> QED BY <3>4 DEF t
    <2> QED BY <1>3, <2>1, <2>2 DEF Restored
  <1>4. CASE s.ota_status = "WAIT_FOR_START"
    BY <1>4 DEF Restored
  <1> QED BY <1>1, <1>2, <1>3, <1>4 DEF Status

(* The settings that the handlers make.                                    *)
LEMMA InfoGood ==
    ASSUME NEW s \in Good, NEW f \in File
    PROVE  /\ [s EXCEPT !.md5 = f] \in Good
           /\ [s EXCEPT !.md5 = f].file = s.file
           /\ [s EXCEPT !.md5 = f].ota_status = s.ota_status
           /\ [ZeroAt(s.ota_status) EXCEPT !.md5 = f, !.file = f, !.length = Length[f]] \in Good
           /\ [ZeroAt(s.ota_status) EXCEPT !.md5 = f, !.file = f, !.length = Length[f]].file = f
  <1>1. /\ [s EXCEPT !.md5 = f] \in Good
        /\ [s EXCEPT !.md5 = f].file = s.file
        /\ [s EXCEPT !.md5 = f].ota_status = s.ota_status
    BY DEF Good, Settings
  <1> DEFINE z == ZeroAt(s.ota_status)
             t == [z EXCEPT !.md5 = f, !.file = f, !.length = Length[f]]
  <1>2. z \in Settings /\ z.offset_last = 0 /\ z.write_offset = 0
    <2>1. z \in Good
      BY ZeroGood, GoodFields
    <2>2. z.offset_last = 0 /\ z.write_offset = 0
      BY DEF ZeroAt, Zero
    <2> QED BY <2>1, <2>2 DEF Good
  <1> HIDE DEF z
  <1>3. t \in Settings
    BY <1>2, Sizes DEF Settings
  <1>4. t.offset_last = 0 /\ t.write_offset = 0 /\ t.file = f
    BY <1>2 DEF Settings
  <1> HIDE DEF t
  <1>5. t \in Good
    BY <1>3, <1>4 DEF Good
  <1> QED BY <1>1, <1>4, <1>5 DEF t, z

LEMMA OffsetGood ==
    ASSUME NEW s \in Good
    PROVE  /\ [s EXCEPT !.ota_status = "APP_DOWNLOADING"] \in Good
           /\ [s EXCEPT !.ota_status = "APP_DOWNLOADING"].file = s.file
           /\ [s EXCEPT !.ota_status = "APP_DOWNLOADING"].ota_status = "APP_DOWNLOADING"
           /\ [s EXCEPT !.crc_last = <<>>, !.offset_last = 0, !.write_offset = 0,
                        !.ota_status = "APP_DOWNLOADING"] \in Good
           /\ [s EXCEPT !.crc_last = <<>>, !.offset_last = 0, !.write_offset = 0,
                        !.ota_status = "APP_DOWNLOADING"].file = s.file
           /\ [s EXCEPT !.crc_last = <<>>, !.offset_last = 0, !.write_offset = 0,
                        !.ota_status = "APP_DOWNLOADING"].ota_status = "APP_DOWNLOADING"
  <1>1. /\ [s EXCEPT !.ota_status = "APP_DOWNLOADING"] \in Good
        /\ [s EXCEPT !.ota_status = "APP_DOWNLOADING"].file = s.file
        /\ [s EXCEPT !.ota_status = "APP_DOWNLOADING"].ota_status = "APP_DOWNLOADING"
    BY DEF Good, Settings
  <1> DEFINE t == [s EXCEPT !.crc_last = <<>>, !.offset_last = 0, !.write_offset = 0,
                            !.ota_status = "APP_DOWNLOADING"]
  <1>2. s \in Settings /\ 0 \in Offset /\ <<>> \in Seq(Byte)
    BY Sizes DEF Good, Offset
  <1>3. t \in Settings
    BY <1>2 DEF Settings
  <1>4. /\ t.offset_last = 0 /\ t.write_offset = 0 /\ t.file = s.file
        /\ t.ota_status = "APP_DOWNLOADING"
    BY <1>2 DEF Settings
  <1> HIDE DEF t
  <1>5. t \in Good
    BY <1>3, <1>4 DEF Good
  <1> QED BY <1>1, <1>4, <1>5 DEF t

LEMMA DataGood ==
    ASSUME NEW s \in Good, s.ota_status = "APP_DOWNLOADING", s.write_offset < FwMax,
           NEW bytes \in Seq(Byte), Len(bytes) \in 1 .. PacketLen,
           NEW t, t = [s EXCEPT !.crc_last = @ \o bytes, !.write_offset = @ + Len(bytes),
                                !.offset_last = @ + Len(bytes)]
    PROVE  t \in Good /\ t.file = s.file /\ t.ota_status = "APP_DOWNLOADING"
  <1>1. s \in Settings /\ s.offset_last <= s.write_offset
    BY DEF Good
  <1>2. /\ s.crc_last \o bytes \in Seq(Byte)
        /\ s.write_offset + Len(bytes) \in Offset /\ s.offset_last + Len(bytes) \in Offset
    <2>1. s.crc_last \in Seq(Byte) /\ s.write_offset \in Offset /\ s.offset_last \in Offset
      BY <1>1 DEF Settings
    <2>2. s.crc_last \o bytes \in Seq(Byte)
      BY <2>1
    <2>3. s.write_offset + Len(bytes) \in Offset /\ s.offset_last + Len(bytes) \in Offset
      <3> DEFINE k == Len(bytes)  w == s.write_offset  o == s.offset_last
      <3>1. k \in 1 .. PacketLen /\ w \in Offset /\ o \in Offset /\ o <= w /\ w < FwMax
        BY <1>1, <2>1
      <3> HIDE DEF k, w, o
      <3>2. w + k \in Offset /\ o + k \in Offset
        BY <3>1, Sizes DEF Offset
      <3> QED BY <3>2 DEF k, w, o
    <2> QED BY <2>2, <2>3
  <1> DEFINE crc == s.crc_last \o bytes  w == s.write_offset + Len(bytes)
             o == s.offset_last + Len(bytes)
  <1>3. t = [s EXCEPT !.crc_last = crc, !.write_offset = w, !.offset_last = o]
    OBVIOUS
  <1>4. o <= w
    BY <1>1, Sizes DEF Settings, Offset
  <1>5. crc \in Seq(Byte) /\ w \in Offset /\ o \in Offset
    BY <1>2
  <1> HIDE DEF crc, w, o
  <1>6. t \in Settings
    BY <1>1, <1>3, <1>5 DEF Settings
  <1>7. /\ t.offset_last = o /\ t.write_offset = w /\ t.file = s.file
        /\ t.ota_status = "APP_DOWNLOADING"
    BY <1>1, <1>3 DEF Settings
  <1>8. t \in Good
    BY <1>4, <1>6, <1>7 DEF Good
  <1> QED BY <1>7, <1>8

LEMMA EndGood ==
    ASSUME NEW w \in Offset
    PROVE  [ZeroAt("WAIT_FOR_EREASE") EXCEPT !.write_offset = w] \in Good
  <1> DEFINE z == ZeroAt("WAIT_FOR_EREASE")  t == [z EXCEPT !.write_offset = w]
  <1>1. z \in Settings /\ z.offset_last = 0
    <2>1. z \in Good
      BY ZeroGood DEF Status
    <2>2. z.offset_last = 0
      BY DEF ZeroAt, Zero
    <2> QED BY <2>1, <2>2 DEF Good
  <1> HIDE DEF z
  <1>2. t \in Settings /\ t.offset_last = 0 /\ t.write_offset = w
    BY <1>1 DEF Settings
  <1>3. 0 <= w
    BY Sizes DEF Offset
  <1> HIDE DEF t
  <1>4. t \in Good
    BY <1>2, <1>3 DEF Good
  <1> QED BY <1>4 DEF t, z

LEMMA SaveIs == ASSUME NEW s \in Good PROVE tuya_OTASaveSettings(s) \in Seq(SaveOp)
  <1>1. [op |-> "clear"] \in SaveOp /\ [op |-> "settings", value |-> s] \in SaveOp
    BY DEF SaveOp
  <1> QED BY <1>1 DEF tuya_OTASaveSettings

LEMMA Quiet == SaveOp \subseteq QuietOp /\ \A t \in Seq(SaveOp) : t \in Seq(QuietOp)
  BY DEF QuietOp

LEMMA Kinds ==
    ASSUME NEW o \in QuietOp
    PROVE  \/ o.op = "clear"
           \/ o.op = "settings" /\ o.value \in Good
           \/ o.op = "erase" /\ o.at \in Nat
           \/ o.op = "write" /\ o.at \in Nat /\ o.bytes \in Seq(Byte)
  BY DEF QuietOp, SaveOp

(* The queue of operations with one in front.                              *)
LEMMA InFront ==
    ASSUME NEW S, NEW o, NEW t \in Seq(S)
    PROVE  /\ <<o>> \o t # <<>> /\ Head(<<o>> \o t) = o /\ Tail(<<o>> \o t) = t
  OBVIOUS

LEMMA FirstOf ==
    ASSUME NEW S, NEW t \in Seq(S), t # <<>>
    PROVE  Head(t) \in S /\ Tail(t) \in Seq(S)
  OBVIOUS

-------------------------------------------------------------------------------
(* What the phone does next.                                               *)

LEMMA PhoneMoves ==
    ASSUME phone \in Phone
    PROVE  /\ Anew \in Phone /\ Anew.next = "start"
           /\ \A n \in {"info", "end", "wait"} :
                 [phone EXCEPT !.next = n] \in Phone /\ [phone EXCEPT !.next = n].next = n
           /\ \A k \in Nat : /\ [phone EXCEPT !.next = "offset", !.from = k] \in Phone
                             /\ [phone EXCEPT !.next = "offset", !.from = k].next = "offset"
           /\ \A f \in Offered : phone.next = "start" =>
                 [phone EXCEPT !.file = f] \in Phone /\ [phone EXCEPT !.file = f].next = "start"
  BY DEF Phone, Anew

LEMMA PhoneAt ==
    ASSUME phone \in Phone, NEW k \in Nat, NEW n \in {"data", "end"},
           n = "data" => k < Length[phone.file],
           NEW a, a = [phone EXCEPT !.next = n, !.from = k, !.num = 0]
    PROVE  a \in Phone /\ a.next = n
  <1> DEFINE R == [next : {"start", "info", "offset", "data", "end", "wait"},
                   file : Offered, from : Nat, num : Nat]
  <1>1. phone \in R
    BY DEF Phone
  <1>2. a \in R
    <2>1. 0 \in Nat /\ n \in {"start", "info", "offset", "data", "end", "wait"}
      OBVIOUS
    <2> QED BY <1>1, <2>1
  <1>3. a.next = n /\ a.from = k /\ a.num = 0 /\ a.file = phone.file
    BY <1>1
  <1>4. a.next = "data" => a.from + a.num * PacketLen < Length[a.file]
    <2>1. k + 0 * PacketLen = k
      BY Sizes
    <2> QED BY <1>3, <2>1
  <1> QED BY <1>2, <1>3, <1>4 DEF Phone

LEMMA PhoneBegins ==
    ASSUME phone \in Phone, NEW k \in Nat,
           NEW a, a = [phone EXCEPT !.next = IF k < Length[phone.file] THEN "data" ELSE "end",
                                    !.from = k, !.num = 0]
    PROVE  a \in Phone /\ a.next \in {"data", "end"}
  BY PhoneAt

LEMMA PacketIs ==
    ASSUME phone \in Phone, phone.next = "data"
    PROVE  /\ Packet \in Seq(Byte) /\ Len(Packet) \in 1 .. PacketLen
           /\ AfterPacket \in Phone /\ AfterPacket.next \in {"data", "end"}
  <1>1. /\ phone.file \in File /\ phone.from \in Nat /\ phone.num \in Nat
        /\ Length[phone.file] \in Nat
        /\ PacketFrom \in Nat /\ PacketFrom < Length[phone.file]
    <2>1. /\ phone.file \in Offered /\ phone.from \in Nat /\ phone.num \in Nat
          /\ phone.from + phone.num * PacketLen < Length[phone.file]
      BY DEF Phone
    <2>2. phone.file \in File /\ Length[phone.file] \in Nat
      BY <2>1, Sizes
    <2>3. phone.num * PacketLen \in Nat
      BY <2>1, Sizes
    <2> QED BY <2>1, <2>2, <2>3 DEF PacketFrom
  <1>2. PacketTo \in Nat /\ PacketTo - PacketFrom \in 1 .. PacketLen
    BY <1>1, Sizes DEF PacketTo
  <1>3. Packet \in Seq(Byte) /\ Len(Packet) = PacketTo - PacketFrom
    <2> DEFINE n == PacketTo - PacketFrom
    <2>1. n \in Nat /\ \A i \in 1 .. n : PacketFrom + i - 1 \in Nat
      BY <1>1, <1>2, Sizes
    <2>2. \A i \in 1 .. n : <<phone.file, PacketFrom + i - 1>> \in Byte
      BY <1>1, <2>1 DEF Byte
    <2> HIDE DEF n
    <2>3. [i \in 1 .. n |-> <<phone.file, PacketFrom + i - 1>>] \in Seq(Byte)
      BY <2>1, <2>2
    <2>4. Len([i \in 1 .. n |-> <<phone.file, PacketFrom + i - 1>>]) = n
      BY <2>1
    <2> QED BY <2>3, <2>4 DEF n, Packet
  <1>4. AfterPacket \in Phone /\ AfterPacket.next \in {"data", "end"}
    <2>1. CASE PacketTo < Length[phone.file]
      <3>1. AfterPacket = [phone EXCEPT !.next = "data", !.num = @ + 1]
        BY <2>1 DEF AfterPacket
      <3>2. phone.from + (phone.num + 1) * PacketLen < Length[phone.file]
        <4>1. PacketFrom + PacketLen < Length[phone.file]
          BY <1>1, <2>1, Sizes DEF PacketTo
        <4>2. (phone.num + 1) * PacketLen = phone.num * PacketLen + PacketLen
          BY <1>1, Sizes
        <4>3. phone.num * PacketLen \in Nat
          BY <1>1, Sizes
        <4> QED BY <1>1, <4>1, <4>2, <4>3, Sizes DEF PacketFrom
      <3>3. AfterPacket = [phone EXCEPT !.next = "data", !.num = phone.num + 1]
        BY <3>1
      <3>4. phone.num + 1 \in Nat
        BY <1>1
      <3> QED BY <3>2, <3>3, <3>4 DEF Phone
    <2>2. CASE ~(PacketTo < Length[phone.file])
      <3>1. AfterPacket = [phone EXCEPT !.next = "end", !.num = phone.num + 1]
        BY <2>2 DEF AfterPacket
      <3>2. phone.num + 1 \in Nat
        BY <1>1
      <3> QED BY <3>1, <3>2 DEF Phone
    <2> QED BY <2>1, <2>2
  <1> QED BY <1>2, <1>3, <1>4

LEMMA Answered ==
    ASSUME TypeInv, NEW a \in Phone, NEW lost, Replied(a, lost)
    PROVE  /\ phone' \in Phone /\ troubles' \in 0 .. MaxTroubles
           /\ phone'.next \in {a.next, phone.next, "start"}
  <1>1. phone \in Phone /\ troubles \in 0 .. MaxTroubles /\ MaxTroubles \in Nat
    BY OtaAssumption DEF TypeInv
  <1>2. Anew \in Phone /\ Anew.next = "start"
    BY <1>1, PhoneMoves
  <1>3. phone' \in {a, phone, Anew}
    BY DEF Replied
  <1>4. troubles' \in 0 .. MaxTroubles
    BY <1>1 DEF Replied, Trouble
  <1> QED BY <1>1, <1>2, <1>3, <1>4

-------------------------------------------------------------------------------
(* The requests of the phone: while it has some to make nothing is decided *)
(* or read back, and the operations a handler leaves touch no flag.        *)

LEMMA WhenRequested ==
    ASSUME IInv, NEW request, Requested(request), request # "wait"
    PROVE  /\ running \in Bank /\ running # NONE /\ todo = <<>> /\ phone.next = request
           /\ UNCHANGED <<cells, flag, stored, running>>
           /\ Undecided /\ "end" \notin timers
           /\ \E f \in File : Holds(running, f)
  <1>1. /\ running \in Bank /\ running # NONE /\ todo = <<>> /\ phone.next = request
        /\ UNCHANGED <<cells, flag, stored, running>>
    BY DEF IInv, TypeInv, Requested, Ready, flash
  <1>2. "end" \notin timers
    BY <1>1 DEF IInv, EndInv
  <1>3. (\E f \in File : Holds(running, f)) /\ (Undecided \/ Installing)
    BY <1>1 DEF IInv, BootInv
  <1>4. ~Installing
    BY <1>1 DEF Installing
  <1> QED BY <1>1, <1>2, <1>3, <1>4

(* What holds after a handler that leaves quiet operations.                *)
LEMMA StillUndecided ==
    ASSUME running # NONE, Undecided, NEW f \in File, Holds(running, f),
           UNCHANGED <<cells, flag, running>>, todo' \in Seq(QuietOp)
    PROVE  BootInv'
  <1>1. Undecided'
    BY DEF Undecided
  <1>2. Holds(running, f)'
    BY DEF Holds
  <1> QED BY <1>1, <1>2 DEF BootInv

LEMMA AfterRequest ==
    ASSUME IInv, NEW request, Requested(request), request # "wait",
           todo' \in Seq(QuietOp), "end" \notin timers',
           timers' \subseteq {"timeout", "end", "reboot"},
           ota_settings' \in Good, phone' \in Phone, troubles' \in 0 .. MaxTroubles,
           last_package' \in Nat, m_firmware_size_req' \in 0 .. FwMax,
           ota_end_crc_cnt' \in Nat,
           tuya_ota_status' \in {"NONE", "START", "FILE_INFO", "FILE_OFFSET", "FILE_DATA"},
           StatusInv'
    PROVE  IInv'
  <1>1. /\ running \in Bank /\ running # NONE
        /\ UNCHANGED <<cells, flag, stored, running>> /\ Undecided
    BY WhenRequested
  <1>2. BootInv'
    <2>1. PICK f \in File : Holds(running, f)
      BY WhenRequested
    <2> QED BY <1>1, <2>1, StillUndecided
  <1>3. OffInv' /\ EndInv'
    BY <1>1 DEF OffInv, EndInv
  <1>4. TypeInv'
    BY <1>1 DEF IInv, TypeInv
  <1> QED BY <1>2, <1>3, <1>4 DEF IInv

LEMMA NothingQuiet == <<>> \in Seq(QuietOp)
  OBVIOUS

(* A request that the status does not allow for.                           *)
LEMMA RequestIgnored ==
    ASSUME IInv, NEW request, Requested(request), request # "wait", Ignored,
           timers' \subseteq timers \union {"timeout"}
    PROVE  IInv'
  <1>1. todo = <<>> /\ "end" \notin timers
    BY WhenRequested
  <1>2. phone' \in Phone /\ phone'.next = "start"
    BY PhoneMoves DEF Ignored, IInv, TypeInv
  <1>3. /\ UNCHANGED <<ota_settings, tuya_ota_status, last_package, m_firmware_size_req,
                       ota_end_crc_cnt, troubles>>
        /\ todo' = <<>>
    BY <1>1 DEF Ignored, transfer, readback
  <1>4. timers' \subseteq {"timeout", "end", "reboot"} /\ "end" \notin timers'
    BY <1>1 DEF IInv, TypeInv
  <1>5. StatusInv'
    BY <1>2, <1>3 DEF IInv, StatusInv
  <1>6. /\ ota_settings' \in Good /\ troubles' \in 0 .. MaxTroubles
        /\ last_package' \in Nat /\ m_firmware_size_req' \in 0 .. FwMax
        /\ ota_end_crc_cnt' \in Nat
        /\ tuya_ota_status' \in {"NONE", "START", "FILE_INFO", "FILE_OFFSET", "FILE_DATA"}
    BY <1>3 DEF IInv, TypeInv
  <1> QED BY <1>2, <1>3, <1>4, <1>5, <1>6, AfterRequest, NothingQuiet

LEMMA StartKeeps ==
    ASSUME IInv, NEW lost, tuya_ota_start_req(lost) PROVE IInv'
  <1>1. Requested("start") /\ todo = <<>> /\ "end" \notin timers /\ phone.next = "start"
    BY WhenRequested DEF tuya_ota_start_req
  <1>2. /\ phone' \in Phone /\ troubles' \in 0 .. MaxTroubles
        /\ phone'.next \in {"info", "start"}
    <2> DEFINE a == [phone EXCEPT !.next = "info"]
    <2>1. a \in Phone /\ a.next = "info"
      BY PhoneMoves DEF IInv, TypeInv
    <2>2. Replied(a, lost)
      BY DEF tuya_ota_start_req
    <2> HIDE DEF a
    <2> QED BY <1>1, <2>1, <2>2, Answered DEF IInv
  <1>3. /\ UNCHANGED <<ota_settings, last_package, m_firmware_size_req, ota_end_crc_cnt>>
        /\ todo' = <<>> /\ tuya_ota_status' = "START"
        /\ timers' = timers \union {"timeout"}
    BY <1>1 DEF tuya_ota_start_req, TimerStarted, readback
  <1>4. timers' \subseteq {"timeout", "end", "reboot"} /\ "end" \notin timers'
    BY <1>1, <1>3 DEF IInv, TypeInv
  <1>5. StatusInv'
    BY <1>2, <1>3 DEF StatusInv
  <1>6. /\ ota_settings' \in Good
        /\ last_package' \in Nat /\ m_firmware_size_req' \in 0 .. FwMax
        /\ ota_end_crc_cnt' \in Nat
        /\ tuya_ota_status' \in {"NONE", "START", "FILE_INFO", "FILE_OFFSET", "FILE_DATA"}
    BY <1>3 DEF IInv, TypeInv
  <1> QED BY <1>1, <1>2, <1>3, <1>4, <1>5, <1>6, AfterRequest, NothingQuiet

(* The timers after a request other than the last.                         *)
LEMMA TimersNow ==
    ASSUME TypeInv, "end" \notin timers, NEW S \in SUBSET {"timeout", "reboot"},
           timers' = timers \union S
    PROVE  timers' \subseteq {"timeout", "end", "reboot"} /\ "end" \notin timers'
  BY DEF TypeInv

LEMMA SavedQuiet ==
    ASSUME NEW s \in Good
    PROVE  tuya_OTASaveSettings(s) \in Seq(QuietOp)
  BY SaveIs, Quiet

LEMMA InfoKeeps ==
    ASSUME IInv, NEW lost, tuya_ota_file_info_req(lost) PROVE IInv'
  <1>1. Requested("info") /\ todo = <<>> /\ "end" \notin timers /\ phone.next = "info"
    BY WhenRequested DEF tuya_ota_file_info_req
  <1>2. /\ timers' = timers \union {"timeout"}
        /\ timers' \subseteq {"timeout", "end", "reboot"} /\ "end" \notin timers'
    BY <1>1, TimersNow DEF tuya_ota_file_info_req, TimerStarted, IInv
  <1>3. /\ ota_settings \in Good /\ phone \in Phone /\ phone.file \in File
        /\ last_package \in Nat /\ m_firmware_size_req \in 0 .. FwMax
        /\ ota_end_crc_cnt \in Nat /\ TypeInv
    BY Sizes DEF IInv, TypeInv, Phone
  <1>4. CASE Ignored
    BY <1>1, <1>2, <1>4, RequestIgnored
  <1>5. CASE /\ tuya_ota_status = "START"
             /\ ota_settings' = [ota_settings EXCEPT !.md5 = phone.file]
             /\ Replied(Anew, lost)
             /\ UNCHANGED <<todo, tuya_ota_status, last_package, m_firmware_size_req, readback>>
    <2>1. ota_settings' \in Good
      BY <1>3, <1>5, InfoGood
    <2>2. /\ phone' \in Phone /\ troubles' \in 0 .. MaxTroubles
          /\ phone'.next \in {"info", "start"}
      BY <1>1, <1>3, <1>5, PhoneMoves, Answered
    <2>3. /\ UNCHANGED <<last_package, m_firmware_size_req, ota_end_crc_cnt>>
          /\ todo' = <<>> /\ tuya_ota_status' = "START"
      BY <1>1, <1>5 DEF readback
    <2>4. StatusInv'
      BY <2>2, <2>3 DEF StatusInv
    <2> QED BY <1>1, <1>2, <1>3, <2>1, <2>2, <2>3, <2>4, AfterRequest, NothingQuiet
  <1>6. CASE /\ Length[phone.file] <= FwMax
             /\ LET f == phone.file
                    same == /\ ota_settings.md5 = f /\ ota_settings.file = f
                            /\ ota_settings.length = Length[f]
                    info == [ZeroAt(ota_settings.ota_status)
                                EXCEPT !.md5 = f, !.file = f, !.length = Length[f]]
                IN  /\ ota_settings' = IF same THEN ota_settings ELSE info
                    /\ todo' = IF same THEN <<>> ELSE tuya_OTASaveSettings(info)
                    /\ m_firmware_size_req' = Length[f]
             /\ tuya_ota_status' = "FILE_INFO" /\ last_package' = 0
             /\ Replied([phone EXCEPT !.next = "offset",
                                      !.from = ota_settings'.offset_last], lost)
             /\ UNCHANGED readback
    <2> DEFINE info == [ZeroAt(ota_settings.ota_status)
                           EXCEPT !.md5 = phone.file, !.file = phone.file,
                                  !.length = Length[phone.file]]
    <2>1. info \in Good /\ info.file = phone.file
      BY <1>3, InfoGood
    <2>2. /\ \/ ota_settings.file = phone.file /\ ota_settings' = ota_settings /\ todo' = <<>>
             \/ ota_settings' = info /\ todo' = tuya_OTASaveSettings(info)
          /\ m_firmware_size_req' = Length[phone.file]
      BY <1>6
    <2> HIDE DEF info
    <2>3. /\ ota_settings' \in Good /\ ota_settings'.file = phone.file
          /\ todo' \in Seq(QuietOp)
      BY <1>3, <2>1, <2>2, SavedQuiet, NothingQuiet
    <2>4. /\ phone' \in Phone /\ troubles' \in 0 .. MaxTroubles
          /\ phone'.next \in {"offset", "info", "start"}
      <3> DEFINE k == ota_settings'.offset_last  b == [phone EXCEPT !.next = "offset", !.from = k]
      <3>1. k \in Nat
        BY <2>3, GoodFields, Sizes DEF Offset
      <3> HIDE DEF k
      <3>2. b \in Phone /\ b.next = "offset"
        BY <1>3, <3>1, PhoneMoves
      <3>3. Replied(b, lost)
        BY <1>6 DEF k
      <3> HIDE DEF b
      <3> QED BY <1>1, <1>3, <3>2, <3>3, Answered
    <2>5. m_firmware_size_req' \in 0 .. FwMax /\ last_package' = 0 /\ ota_end_crc_cnt' = ota_end_crc_cnt
      BY <1>3, <1>6, <2>2, Sizes DEF readback
    <2>6. tuya_ota_status' = "FILE_INFO"
      BY <1>6
    <2>7. StatusInv'
      <3>1. phone.file # NONE
        BY <1>3, Sizes
      <3> QED BY <2>3, <2>6, <3>1 DEF StatusInv
    <2> QED BY <1>1, <1>2, <1>3, <2>3, <2>4, <2>5, <2>6, <2>7, AfterRequest
  <1> QED BY <1>4, <1>5, <1>6 DEF tuya_ota_file_info_req

LEMMA OffsetKeeps ==
    ASSUME IInv, NEW offset, NEW lost, tuya_ota_offset_req(offset, lost) PROVE IInv'
  <1>1. Requested("offset") /\ todo = <<>> /\ "end" \notin timers /\ phone.next = "offset"
    BY WhenRequested DEF tuya_ota_offset_req
  <1>2. /\ timers' = timers \union {"timeout"}
        /\ timers' \subseteq {"timeout", "end", "reboot"} /\ "end" \notin timers'
    BY <1>1, TimersNow DEF tuya_ota_offset_req, TimerStarted, IInv
  <1>3. /\ ota_settings \in Good /\ phone \in Phone
        /\ last_package \in Nat /\ m_firmware_size_req \in 0 .. FwMax
        /\ ota_end_crc_cnt \in Nat /\ TypeInv
    BY DEF IInv, TypeInv
  <1>4. CASE Ignored
    BY <1>1, <1>2, <1>4, RequestIgnored
  <1>5. CASE ~Ignored
    <2>1. /\ tuya_ota_status = "FILE_INFO" /\ tuya_ota_status' = "FILE_OFFSET"
          /\ todo' = tuya_OTASaveSettings(ota_settings')
          /\ ota_settings' =
                IF offset = 0 /\ ota_settings.offset_last # 0
                THEN [ota_settings EXCEPT !.crc_last = <<>>, !.offset_last = 0,
                          !.write_offset = 0, !.ota_status = "APP_DOWNLOADING"]
                ELSE [ota_settings EXCEPT !.ota_status = "APP_DOWNLOADING"]
          /\ Replied([phone EXCEPT
                         !.next = IF ota_settings'.offset_last < Length[phone.file]
                                  THEN "data" ELSE "end",
                         !.from = ota_settings'.offset_last,
                         !.num = 0], lost)
          /\ UNCHANGED <<last_package, m_firmware_size_req, readback>>
      BY <1>5 DEF tuya_ota_offset_req
    <2>2. /\ ota_settings' \in Good /\ ota_settings'.file = ota_settings.file
          /\ ota_settings'.ota_status = "APP_DOWNLOADING"
      BY <1>3, <2>1, OffsetGood
    <2>3. /\ phone' \in Phone /\ troubles' \in 0 .. MaxTroubles
          /\ phone'.next \in {"data", "end", "offset", "start"}
      <3> DEFINE k == ota_settings'.offset_last
                 b == [phone EXCEPT !.next = IF k < Length[phone.file] THEN "data" ELSE "end",
                                    !.from = k, !.num = 0]
      <3>1. k \in Nat
        BY <2>2, GoodFields, Sizes DEF Offset
      <3>2. Replied(b, lost)
        BY <2>1
      <3> HIDE DEF k
      <3>3. b \in Phone /\ b.next \in {"data", "end"}
        BY <1>3, <3>1, PhoneBegins
      <3> HIDE DEF b
      <3> QED BY <1>1, <1>3, <3>2, <3>3, Answered
    <2>4. StatusInv'
      BY <2>1, <2>2 DEF IInv, StatusInv
    <2>5. UNCHANGED <<last_package, m_firmware_size_req, ota_end_crc_cnt>>
      BY <2>1 DEF readback
    <2>6. todo' \in Seq(QuietOp) /\ tuya_ota_status' = "FILE_OFFSET"
      BY <2>1, <2>2, SavedQuiet
    <2> QED BY <1>1, <1>2, <1>3, <2>2, <2>3, <2>4, <2>5, <2>6, AfterRequest
  <1> QED BY <1>4, <1>5

LEMMA StoresQuiet ==
    ASSUME ota_settings \in Good
    PROVE  /\ SectorErased \in Seq(QuietOp)
           /\ \A s \in Good : Packet \in Seq(Byte) => Stores(s) \in Seq(QuietOp)
  <1>1. ota_settings.write_offset \in Nat
    BY GoodFields, Sizes DEF Offset
  <1>2. SectorErased \in Seq(QuietOp)
    <2>1. [op |-> "erase", at |-> ota_settings.write_offset] \in QuietOp
      BY <1>1 DEF QuietOp
    <2> QED BY <2>1 DEF SectorErased, Erase
  <1>3. ASSUME NEW s \in Good, Packet \in Seq(Byte)
        PROVE  Stores(s) \in Seq(QuietOp)
    <2>1. Write(ota_settings.write_offset, Packet) \in Seq(QuietOp)
      <3> DEFINE o == [op |-> "write", at |-> ota_settings.write_offset, bytes |-> Packet]
      <3>1. o \in QuietOp
        BY <1>1, <1>3 DEF QuietOp
      <3> HIDE DEF o
      <3>2. <<o>> \in Seq(QuietOp)
        BY <3>1
      <3> QED BY <3>2 DEF o, Write
    <2>2. ProgressSaved(s) \in Seq(QuietOp)
      BY SavedQuiet, NothingQuiet DEF ProgressSaved
    <2> QED BY <1>2, <2>1, <2>2 DEF Stores
  <1> QED BY <1>2, <1>3

LEMMA DataKeeps ==
    ASSUME IInv, NEW lost, tuya_ota_data_req(lost) PROVE IInv'
  <1>1. Requested("data") /\ todo = <<>> /\ "end" \notin timers /\ phone.next = "data"
    BY WhenRequested DEF tuya_ota_data_req
  <1>2. /\ timers' = timers \union {"timeout"}
        /\ timers' \subseteq {"timeout", "end", "reboot"} /\ "end" \notin timers'
    BY <1>1, TimersNow DEF tuya_ota_data_req, TimerStarted, IInv
  <1>3. /\ ota_settings \in Good /\ phone \in Phone /\ phone.num \in Nat
        /\ last_package \in Nat /\ m_firmware_size_req \in 0 .. FwMax
        /\ ota_end_crc_cnt \in Nat /\ TypeInv
    BY DEF IInv, TypeInv, Phone
  <1>4. CASE Ignored
    BY <1>1, <1>2, <1>4, RequestIgnored
  <1>5. CASE ~Ignored
    <2>1. /\ tuya_ota_status \in {"FILE_OFFSET", "FILE_DATA"} /\ InBank
          /\ ota_settings' = [ota_settings EXCEPT !.crc_last = @ \o Packet,
                                                  !.write_offset = @ + Len(Packet),
                                                  !.offset_last = @ + Len(Packet)]
          /\ todo' = Stores(ota_settings') /\ tuya_ota_status' = "FILE_DATA"
          /\ last_package' = phone.num
          /\ Replied(AfterPacket, lost)
          /\ UNCHANGED <<m_firmware_size_req, readback>>
      BY <1>5 DEF tuya_ota_data_req
    <2>2. ota_settings.ota_status = "APP_DOWNLOADING" /\ ota_settings.write_offset < FwMax
      BY <2>1 DEF IInv, StatusInv, InBank
    <2>3. /\ Packet \in Seq(Byte) /\ Len(Packet) \in 1 .. PacketLen
          /\ AfterPacket \in Phone /\ AfterPacket.next \in {"data", "end"}
      BY <1>1, <1>3, PacketIs
    <2>4. /\ ota_settings' \in Good /\ ota_settings'.file = ota_settings.file
          /\ ota_settings'.ota_status = "APP_DOWNLOADING"
      <3> DEFINE bytes == Packet
      <3>1. ota_settings' = [ota_settings EXCEPT !.crc_last = @ \o bytes,
                                !.write_offset = @ + Len(bytes), !.offset_last = @ + Len(bytes)]
        BY <2>1
      <3>2. bytes \in Seq(Byte) /\ Len(bytes) \in 1 .. PacketLen
        BY <2>3
      <3> HIDE DEF bytes
      <3> QED BY <1>3, <2>2, <3>1, <3>2, DataGood
    <2>5. /\ phone' \in Phone /\ troubles' \in 0 .. MaxTroubles
          /\ phone'.next \in {"data", "end", "start"}
      BY <1>1, <1>3, <2>1, <2>3, Answered
    <2>6. StatusInv'
      BY <2>1, <2>4 DEF IInv, StatusInv
    <2>7. UNCHANGED <<m_firmware_size_req, ota_end_crc_cnt>>
      BY <2>1 DEF readback
    <2>8. /\ todo' \in Seq(QuietOp) /\ tuya_ota_status' = "FILE_DATA" /\ last_package' \in Nat
      BY <1>3, <2>1, <2>3, <2>4, StoresQuiet
    <2> QED BY <1>1, <1>2, <1>3, <2>4, <2>5, <2>6, <2>7, <2>8, AfterRequest
  <1> QED BY <1>4, <1>5

LEMMA RefusedKeeps ==
    ASSUME IInv, NEW lost, DataRefused(lost) PROVE IInv'
  <1>1. Requested("data") /\ todo = <<>> /\ "end" \notin timers /\ phone.next = "data"
    BY WhenRequested DEF DataRefused
  <1>2. timers' \subseteq {"timeout", "end", "reboot"} /\ "end" \notin timers'
    BY <1>1 DEF DataRefused, IInv, TypeInv
  <1>3. /\ ota_settings \in Good /\ phone \in Phone
        /\ last_package \in Nat /\ m_firmware_size_req \in 0 .. FwMax
        /\ ota_end_crc_cnt \in Nat /\ TypeInv
    BY DEF IInv, TypeInv
  <1>4. /\ UNCHANGED <<last_package, m_firmware_size_req, ota_end_crc_cnt>>
        /\ ota_settings' \in Good /\ tuya_ota_status' = "NONE"
    BY ZeroGood DEF DataRefused, readback, Status
  <1>5. todo' \in Seq(QuietOp)
    <2>1. SectorErased \in Seq(QuietOp)
      BY <1>3, StoresQuiet
    <2>2. tuya_OTASaveSettings(ota_settings') \in Seq(QuietOp)
      BY <1>4, SavedQuiet
    <2>3. todo' = SectorErased \o tuya_OTASaveSettings(ota_settings')
      BY DEF DataRefused
    <2> QED BY <2>1, <2>2, <2>3
  <1>6. /\ phone' \in Phone /\ troubles' \in 0 .. MaxTroubles
        /\ phone'.next \in {"data", "start"}
    BY <1>1, <1>3, PhoneMoves, Answered DEF DataRefused
  <1>7. StatusInv'
    BY <1>4 DEF StatusInv
  <1> QED BY <1>1, <1>2, <1>3, <1>4, <1>5, <1>6, <1>7, AfterRequest

(* The last request: what was announced and stored has its length, and the *)
(* reading back begins.                                                    *)
LEMMA EndKeeps ==
    ASSUME IInv, NEW lost, tuya_ota_end_req(lost) PROVE IInv'
  <1>1. Requested("end") /\ todo = <<>> /\ "end" \notin timers /\ phone.next = "end"
    BY WhenRequested DEF tuya_ota_end_req
  <1>2. /\ ota_settings \in Good /\ phone \in Phone
        /\ last_package \in Nat /\ m_firmware_size_req \in 0 .. FwMax
        /\ ota_end_crc_cnt \in Nat /\ TypeInv /\ troubles \in 0 .. MaxTroubles
    BY DEF IInv, TypeInv
  <1>3. CASE timers' = timers \ {"timeout"} /\ Ignored
    BY <1>1, <1>3, RequestIgnored
  <1>4. CASE /\ tuya_ota_status # "NONE" /\ Whole
             /\ timers' = (timers \ {"timeout"}) \union {"end"}
             /\ ota_end_crc_cnt' = 0
             /\ phone' = [phone EXCEPT !.next = "wait"]
             /\ UNCHANGED <<todo, transfer, crc_temp, troubles>>
    <2>1. phone' \in Phone /\ phone'.next = "wait"
      BY <1>2, <1>4, PhoneMoves
    <2>2. /\ running \in Bank /\ running # NONE
          /\ UNCHANGED <<cells, flag, stored, running, todo, ota_settings, tuya_ota_status,
                         last_package, m_firmware_size_req, troubles>>
          /\ ota_end_crc_cnt' = 0 /\ todo' = <<>>
      BY <1>1, <1>4, WhenRequested DEF transfer
    <2>3. TypeInv'
      BY <1>2, <1>4, <2>1, <2>2 DEF TypeInv
    <2>4. OffInv' /\ StatusInv'
      BY <2>1, <2>2 DEF IInv, OffInv, StatusInv
    <2>5. BootInv'
      <3>1. PICK f \in File : Holds(running, f)
        BY <1>1, WhenRequested
      <3>2. Undecided /\ todo' \in Seq(QuietOp)
        BY <1>1, <2>2, WhenRequested
      <3> QED BY <2>2, <3>1, <3>2, StillUndecided
    <2>6. EndInv'
      <3>1. ota_settings.file # NONE
        BY <1>1, <1>2, <1>4 DEF IInv, StatusInv, TypeInv
      <3>2. ota_settings.offset_last \in Nat /\ ota_settings.offset_last <= FwMax
        BY <1>2, <1>4, GoodFields, Sizes DEF Whole, Offset
      <3>3. 0 <= Pieces
        BY <3>2, Sizes, DivNat DEF Pieces
      <3>4. 0 <= Pieces'
        BY <2>2, <3>3 DEF Pieces
      <3> QED BY <2>1, <2>2, <3>1, <3>2, <3>4 DEF EndInv
    <2> QED BY <2>3, <2>4, <2>5, <2>6 DEF IInv
  <1>5. CASE /\ timers' = (timers \ {"timeout"}) \union {"reboot"}
             /\ ota_settings' = Zero /\ todo' = tuya_OTASaveSettings(Zero)
             /\ tuya_ota_status' = "NONE" /\ Replied(Anew, lost)
             /\ UNCHANGED <<last_package, m_firmware_size_req, readback>>
    <2>1. timers' \subseteq {"timeout", "end", "reboot"} /\ "end" \notin timers'
      BY <1>1, <1>5 DEF IInv, TypeInv
    <2>2. ota_settings' \in Good /\ todo' \in Seq(QuietOp)
      BY <1>5, ZeroGood, SavedQuiet
    <2>3. /\ phone' \in Phone /\ troubles' \in 0 .. MaxTroubles
          /\ phone'.next \in {"end", "start"}
      BY <1>1, <1>2, <1>5, PhoneMoves, Answered
    <2>4. /\ UNCHANGED <<last_package, m_firmware_size_req, ota_end_crc_cnt>>
          /\ tuya_ota_status' = "NONE"
      BY <1>5 DEF readback
    <2>5. StatusInv'
      BY <2>4 DEF StatusInv
    <2> QED BY <1>1, <1>2, <2>1, <2>2, <2>3, <2>4, <2>5, AfterRequest
  <1> QED BY <1>3, <1>4, <1>5 DEF tuya_ota_end_req

-------------------------------------------------------------------------------
(* The flash operations: the quiet ones leave the bank that runs, and its  *)
(* flag, as they are, whether they are done or interrupted.                *)

CellType == [Bank -> [Place -> Cell]]
FlagType == [Bank -> {"unset", "valid", "invalid"}]

LEMMA TargetChanges ==
    ASSUME running \in Bank, cells \in CellType, NEW g \in [Place -> Cell],
           cells' = [cells EXCEPT ![Target] = g]
    PROVE  cells' \in CellType /\ cells'[running] = cells[running]
  BY Banks DEF CellType

LEMMA FlagErasedIs ==
    ASSUME running \in Bank, flag \in FlagType, NEW place
    PROVE  /\ FlagErased(place) \in FlagType
           /\ FlagErased(place)[running] = flag[running]
           /\ FlagErased(place)[0] = "valid" => flag[0] = "valid"
  BY Banks, Sizes DEF FlagErased, FlagType

LEMMA WrittenIs ==
    ASSUME NEW old \in Cell, NEW new \in Byte
    PROVE  Written(old, new) \in Cell
  BY DEF Written, Cell

(* What is left of the flash by an operation of this kind.                 *)
Quietly == /\ cells' \in CellType /\ cells'[running] = cells[running]
           /\ flag' \in FlagType /\ flag'[running] = flag[running]
           /\ flag'[0] = "valid" => flag[0] = "valid"
           /\ stored' \in Good \union {Torn}

LEMMA DoneQuietly ==
    ASSUME TypeInv, running \in Bank, NEW o \in QuietOp, Done(o)
    PROVE  Quietly
  <1>1. /\ cells \in CellType /\ flag \in FlagType /\ stored \in Good \union {Torn}
        /\ Target \in Bank /\ cells[Target] \in [Place -> Cell]
    BY Banks DEF TypeInv, CellType, FlagType
  <1>2. CASE o.op \in {"clear", "settings"}
    <2>1. UNCHANGED <<cells, flag>> /\ stored' \in Good \union {Torn}
      BY <1>2, Kinds DEF Done
    <2> QED BY <1>1, <2>1 DEF Quietly
  <1>3. CASE o.op = "erase"
    <2> DEFINE g == [i \in Place |-> IF i \in SectorAt(o.at) THEN Erased ELSE cells[Target][i]]
    <2>1. cells' = [cells EXCEPT ![Target] = g] /\ flag' = FlagErased(o.at) /\ stored' = stored
      BY <1>1, <1>3 DEF Done, CellType
    <2>2. g \in [Place -> Cell]
      BY <1>1 DEF Cell
    <2> HIDE DEF g
    <2>3. cells' \in CellType /\ cells'[running] = cells[running]
      BY <1>1, <2>1, <2>2, TargetChanges
    <2> QED BY <1>1, <2>1, <2>3, FlagErasedIs DEF Quietly
  <1>4. CASE o.op = "write"
    <2> DEFINE g == [i \in Place |-> IF i \in o.at .. o.at + Len(o.bytes) - 1
                                     THEN Written(cells[Target][i], o.bytes[i - o.at + 1])
                                     ELSE cells[Target][i]]
    <2>1. cells' = [cells EXCEPT ![Target] = g] /\ flag' = flag /\ stored' = stored
      BY <1>1, <1>4 DEF Done, CellType
    <2>2. g \in [Place -> Cell]
      <3>1. o.at \in Nat /\ o.bytes \in Seq(Byte)
        BY <1>4, Kinds
      <3>2. ASSUME NEW i \in Place, i \in o.at .. o.at + Len(o.bytes) - 1
            PROVE  Written(cells[Target][i], o.bytes[i - o.at + 1]) \in Cell
        <4>1. i - o.at + 1 \in 1 .. Len(o.bytes)
          BY <3>1, <3>2
        <4>2. o.bytes[i - o.at + 1] \in Byte
          BY <3>1, <4>1
        <4>3. cells[Target][i] \in Cell
          BY <1>1
        <4> QED BY <4>2, <4>3, WrittenIs
      <3> QED BY <1>1, <3>2
    <2> HIDE DEF g
    <2>3. cells' \in CellType /\ cells'[running] = cells[running]
      BY <1>1, <2>1, <2>2, TargetChanges
    <2> QED BY <1>1, <2>1, <2>3 DEF Quietly
  <1> QED BY <1>2, <1>3, <1>4, Kinds

LEMMA InterruptedQuietly ==
    ASSUME TypeInv, running \in Bank, NEW o \in QuietOp, Interrupted(o)
    PROVE  Quietly
  <1>1. /\ cells \in CellType /\ flag \in FlagType /\ stored \in Good \union {Torn}
        /\ Target \in Bank /\ cells[Target] \in [Place -> Cell]
    BY Banks DEF TypeInv, CellType, FlagType
  <1>2. CASE o.op \in {"clear", "settings"}
    <2>1. UNCHANGED <<cells, flag>> /\ stored' = Torn
      BY <1>2 DEF Interrupted
    <2> QED BY <1>1, <2>1 DEF Quietly
  <1>3. CASE o.op \in {"erase", "write"}
    <2> DEFINE touched == IF o.op = "erase" THEN SectorAt(o.at)
                          ELSE o.at .. o.at + Len(o.bytes) - 1
               g == [i \in Place |-> IF i \in touched THEN Junk ELSE cells[Target][i]]
    <2>1. /\ cells' = [cells EXCEPT ![Target] = g]
          /\ flag' \in {flag, FlagErased(o.at)} /\ stored' = stored
      BY <1>1, <1>3 DEF Interrupted, CellType
    <2> HIDE DEF touched
    <2>2. g \in [Place -> Cell]
      BY <1>1 DEF Cell
    <2> HIDE DEF g
    <2>3. cells' \in CellType /\ cells'[running] = cells[running]
      BY <1>1, <2>1, <2>2, TargetChanges
    <2> QED BY <1>1, <2>1, <2>3, FlagErasedIs DEF Quietly
  <1> QED BY <1>2, <1>3 DEF Interrupted

LEMMA SavesOnly ==
    ASSUME NEW o \in SaveOp
    PROVE  /\ Done(o) => UNCHANGED <<cells, flag>> /\ stored' \in Good \union {Torn}
           /\ Interrupted(o) => UNCHANGED <<cells, flag>> /\ stored' \in Good \union {Torn}
  <1>1. o.op = "clear" \/ (o.op = "settings" /\ o.value \in Good)
    BY DEF SaveOp
  <1> QED BY <1>1 DEF Done, Interrupted

LEMMA FlagsOnly ==
    ASSUME NEW b, NEW v
    PROVE  /\ Done(FlagOp(b, v)) =>
                 /\ flag' = [flag EXCEPT ![b] = FlagWritten(flag[b], v)]
                 /\ UNCHANGED <<cells, stored>>
           /\ ~Interrupted(FlagOp(b, v))
  <1>1. FlagOp(b, v).op = "flag" /\ FlagOp(b, v).bank = b /\ FlagOp(b, v).to = v
    BY DEF FlagOp
  <1>2. ASSUME Done(FlagOp(b, v))
        PROVE  flag' = [flag EXCEPT ![b] = FlagWritten(@, v)] /\ UNCHANGED <<cells, stored>>
    BY <1>1, <1>2 DEF Done
  <1>3. [flag EXCEPT ![b] = FlagWritten(@, v)] = [flag EXCEPT ![b] = FlagWritten(flag[b], v)]
    OBVIOUS
  <1> QED BY <1>1, <1>2, <1>3 DEF Interrupted

LEMMA FlashStepKeeps ==
    ASSUME IInv, FlashStep PROVE IInv'
  <1> DEFINE o == Head(todo)
  <1>1. /\ running \in Bank /\ running # NONE /\ todo # <<>> /\ TypeInv
        /\ Done(o) /\ todo' = Tail(todo) /\ "end" \notin timers
        /\ UNCHANGED <<running, ota_settings, tuya_ota_status, last_package,
                       m_firmware_size_req, timers, ota_end_crc_cnt, phone, troubles>>
    BY DEF IInv, TypeInv, EndInv, FlashStep, transfer, readback
  <1>2. cells \in CellType /\ flag \in FlagType /\ stored \in Good \union {Torn}
    BY <1>1 DEF TypeInv, CellType, FlagType
  <1> HIDE DEF o
  <1>3. ASSUME cells' \in CellType, flag' \in FlagType, stored' \in Good \union {Torn}
        PROVE  TypeInv' /\ OffInv' /\ StatusInv' /\ EndInv'
    <2>1. TypeInv'
      BY <1>1, <1>3 DEF TypeInv, CellType, FlagType
    <2>2. OffInv' /\ StatusInv' /\ EndInv'
      BY <1>1 DEF IInv, OffInv, StatusInv, EndInv
    <2> QED BY <2>1, <2>2
  <1>4. PICK f \in File : Holds(running, f)
    BY <1>1 DEF IInv, BootInv
  <1>5. CASE Undecided
    <2>1. o \in QuietOp /\ todo' \in Seq(QuietOp)
      BY <1>1, <1>5, FirstOf DEF Undecided, o
    <2>2. Quietly
      BY <1>1, <2>1, DoneQuietly
    <2>3. Undecided'
      BY <1>1, <1>5, <2>1, <2>2 DEF Undecided, Quietly
    <2>4. Holds(running, f)'
      BY <1>1, <1>4, <2>2 DEF Holds, Quietly
    <2>5. BootInv'
      BY <1>1, <2>3, <2>4 DEF BootInv
    <2> QED BY <1>3, <2>2, <2>5 DEF IInv, Quietly
  <1>6. CASE Installing
    <2>1. PICK g \in File : Holds(Target, g)
      BY <1>6 DEF Installing
    <2>2. Target \in Bank /\ Target # running /\ Target' = Target
      BY <1>1, Banks DEF Target
    <2>3. ASSUME UNCHANGED cells, Deciding'
          PROVE  BootInv'
      <3>1. Holds(running, f)' /\ Holds(Target, g)'
        BY <1>1, <1>4, <2>1, <2>2, <2>3 DEF Holds
      <3>2. Installing'
        BY <1>1, <1>6, <2>3, <3>1 DEF Installing
      <3> QED BY <1>1, <3>1, <3>2 DEF BootInv
    <2>4. CASE todo \in Seq(SaveOp) /\ (flag[running] = "valid" \/ flag[Target] = "valid")
      <3>1. o \in SaveOp /\ todo' \in Seq(SaveOp)
        BY <1>1, <2>4, FirstOf DEF o
      <3>2. UNCHANGED <<cells, flag>> /\ stored' \in Good \union {Torn}
        BY <1>1, <3>1, SavesOnly
      <3>3. Deciding'
        BY <1>1, <2>2, <2>4, <3>1, <3>2 DEF Deciding
      <3> QED BY <1>2, <1>3, <2>3, <3>2, <3>3 DEF IInv
    <2>5. CASE /\ o = FlagOp(Target, "valid") /\ Tail(todo) \in Seq(SaveOp)
               /\ flag[Target] = "invalid" /\ flag[running] = "valid"
      <3>1. UNCHANGED <<cells, flag, stored>>
        <4>1. /\ flag' = [flag EXCEPT ![Target] = FlagWritten(flag[Target], "valid")]
              /\ UNCHANGED <<cells, stored>>
          BY <1>1, <2>5, FlagsOnly
        <4> QED BY <1>2, <2>2, <2>5, <4>1 DEF FlagWritten, FlagType
      <3>2. Deciding'
        BY <1>1, <2>5, <3>1 DEF Deciding
      <3> QED BY <1>2, <1>3, <2>3, <3>1, <3>2 DEF IInv
    <2>6. CASE /\ o = FlagOp(Target, "valid")
               /\ Tail(todo) # <<>> /\ Head(Tail(todo)) = FlagOp(running, "invalid")
               /\ Tail(Tail(todo)) \in Seq(SaveOp)
               /\ flag[Target] # "invalid" /\ flag[running] = "valid"
      <3>1. /\ UNCHANGED <<cells, stored>>
            /\ flag' = [flag EXCEPT ![Target] = FlagWritten(flag[Target], "valid")]
        BY <1>1, <2>6, FlagsOnly
      <3>2. flag' \in FlagType /\ flag'[Target] = "valid"
        BY <1>2, <2>2, <2>6, <3>1 DEF FlagWritten, FlagType
      <3>3. Deciding'
        <4>1. /\ todo' # <<>> /\ Head(todo') = FlagOp(running', "invalid")
              /\ Tail(todo') \in Seq(SaveOp) /\ flag'[Target'] = "valid"
          BY <1>1, <2>2, <2>6, <3>2
        <4>2. Head(todo') = FlagOp(running, "invalid")'
          BY <4>1 DEF FlagOp
        <4> QED BY <4>1, <4>2 DEF Deciding
      <3> QED BY <1>2, <1>3, <2>3, <3>1, <3>2, <3>3 DEF IInv
    <2>7. CASE /\ o = FlagOp(running, "invalid") /\ Tail(todo) \in Seq(SaveOp)
               /\ flag[Target] = "valid"
      <3>1. /\ UNCHANGED <<cells, stored>>
            /\ flag' = [flag EXCEPT ![running] = FlagWritten(flag[running], "invalid")]
        BY <1>1, <2>7, FlagsOnly
      <3>2. flag' \in FlagType /\ flag'[Target] = "valid"
        BY <1>1, <1>2, <2>2, <2>7, <3>1 DEF FlagWritten, FlagType
      <3>3. Deciding'
        BY <1>1, <2>2, <2>7, <3>2 DEF Deciding
      <3> QED BY <1>2, <1>3, <2>3, <3>1, <3>2, <3>3 DEF IInv
    <2> QED BY <1>6, <2>4, <2>5, <2>6, <2>7 DEF Installing, Deciding, o
  <1> QED BY <1>1, <1>5, <1>6 DEF IInv, BootInv

-------------------------------------------------------------------------------
(* The device starts, and it goes off.                                     *)

LEMMA Bootable == ASSUME IInv PROVE AlwaysBootable
  <1>1. CASE running = NONE
    BY <1>1 DEF IInv, BootInv
  <1>2. CASE running # NONE
    <2>1. running \in Bank /\ Target \in Bank /\ \A b \in Bank : b = running \/ b = Target
      BY <1>2, Banks DEF IInv, TypeInv
    <2>2. PICK f \in File : Holds(running, f)
      BY <1>2 DEF IInv, BootInv
    <2>3. CASE Undecided
      <3>1. running = 0 \/ running = 1
        BY <2>1 DEF Bank
      <3>2. BootBank = running
        BY <2>1, <2>3, <3>1, BootFrom DEF Undecided
      <3> QED BY <1>2, <2>2, <3>2 DEF AlwaysBootable
    <2>4. CASE Installing
      <3>1. flag[running] = "valid" \/ flag[Target] = "valid"
        BY <2>4 DEF Installing, Deciding
      <3>2. BootBank # NONE /\ (BootBank = running \/ BootBank = Target)
        BY <2>1, <3>1, BootFrom
      <3> QED BY <2>2, <2>4, <3>2 DEF AlwaysBootable, Installing
    <2> QED BY <1>2, <2>3, <2>4 DEF IInv, BootInv
  <1> QED BY <1>1, <1>2

LEMMA OffKeeps ==
    ASSUME IInv, running # NONE, Off, troubles' \in 0 .. MaxTroubles,
           cells' \in CellType, flag' \in FlagType, stored' \in Good \union {Torn},
           AlwaysBootable'
    PROVE  IInv'
  <1>1. /\ running' = NONE /\ todo' = <<>> /\ phone' = Anew /\ ota_settings' = Zero
        /\ tuya_ota_status' = "NONE" /\ last_package' = 0 /\ m_firmware_size_req' = 0
        /\ timers' = {} /\ ota_end_crc_cnt' = 0
    BY DEF Off, RamZero
  <1>2. phone' \in Phone /\ ota_settings' \in Good /\ 0 \in 0 .. FwMax
    <2>1. phone \in Phone
      BY DEF IInv, TypeInv
    <2>2. phone' \in Phone
      BY <1>1, <2>1, PhoneMoves
    <2> QED BY <1>1, <2>2, ZeroGood, Sizes
  <1>3. TypeInv'
    BY <1>1, <1>2 DEF TypeInv, CellType, FlagType
  <1>4. OffInv' /\ StatusInv' /\ EndInv' /\ BootInv'
    BY <1>1 DEF OffInv, StatusInv, EndInv, BootInv
  <1> QED BY <1>3, <1>4 DEF IInv

LEMMA FlashLeft ==
    ASSUME IInv, UNCHANGED <<cells, flag, stored>>
    PROVE  /\ cells' \in CellType /\ flag' \in FlagType /\ stored' \in Good \union {Torn}
           /\ AlwaysBootable'
  <1>1. /\ cells' \in CellType /\ flag' \in FlagType /\ stored' \in Good \union {Torn}
    BY DEF IInv, TypeInv, CellType, FlagType
  <1>2. AlwaysBootable'
    <2>1. BootBank' = BootBank
      BY DEF BootBank
    <2>2. PICK f \in File : BootBank # NONE /\ Holds(BootBank, f)
      BY Bootable DEF AlwaysBootable
    <2>3. Holds(BootBank, f)'
      BY <2>1, <2>2 DEF Holds
    <2> QED BY <2>1, <2>2, <2>3 DEF AlwaysBootable
  <1> QED BY <1>1, <1>2

LEMMA RebootKeeps == ASSUME IInv, Reboot PROVE IInv'
  <1>1. running # NONE /\ Off /\ UNCHANGED <<cells, flag, stored, troubles>>
    BY DEF Reboot, Ready, flash
  <1>2. troubles' \in 0 .. MaxTroubles
    BY <1>1 DEF IInv, TypeInv
  <1> QED BY <1>1, <1>2, FlashLeft, OffKeeps

LEMMA PowerFailsKeeps == ASSUME IInv, PowerFails PROVE IInv'
  <1>1. running # NONE /\ running \in Bank /\ Off /\ TypeInv
    BY DEF PowerFails, IInv, TypeInv
  <1>2. troubles' \in 0 .. MaxTroubles
    BY OtaAssumption DEF PowerFails, Trouble, IInv, TypeInv
  <1>3. CASE UNCHANGED flash
    BY <1>1, <1>2, <1>3, FlashLeft, OffKeeps DEF flash
  <1>4. CASE todo # <<>> /\ Interrupted(Head(todo))
    <2>1. CASE Undecided
      <3>1. Head(todo) \in QuietOp
        BY <1>4, <2>1, FirstOf DEF Undecided
      <3>2. Quietly
        BY <1>1, <1>4, <3>1, InterruptedQuietly
      <3>3. BootBank' = running
        BY <1>1, <2>1, <3>2 DEF BootBank, Undecided, Quietly, Bank
      <3>4. PICK f \in File : Holds(running, f)
        BY <1>1 DEF IInv, BootInv
      <3>5. Length[f] <= FwMax /\ \A i \in 0 .. (Length[f] - 1) : cells'[running][i] = <<f, i>>
        BY <3>2, <3>4 DEF Quietly, Holds
      <3>6. AlwaysBootable'
        BY <1>1, <3>3, <3>5 DEF AlwaysBootable, Holds
      <3> QED BY <1>1, <1>2, <3>2, <3>6, OffKeeps DEF Quietly
    <2>2. CASE Installing
      <3>1. todo \in Seq(SaveOp) \/ \E b, v : Head(todo) = FlagOp(b, v)
        BY <2>2 DEF Installing, Deciding
      <3>2. todo \in Seq(SaveOp)
        BY <1>4, <3>1, FlagsOnly
      <3>3. Head(todo) \in SaveOp
        BY <1>4, <3>2, FirstOf
      <3>4. UNCHANGED <<cells, flag>> /\ stored' \in Good \union {Torn}
        BY <1>4, <3>3, SavesOnly
      <3>5. /\ cells' \in CellType /\ flag' \in FlagType /\ AlwaysBootable'
        <4>1. cells' \in CellType /\ flag' \in FlagType /\ BootBank' = BootBank
          BY <1>1, <3>4 DEF TypeInv, CellType, FlagType, BootBank
        <4>2. PICK f \in File : BootBank # NONE /\ Holds(BootBank, f)
          BY Bootable DEF AlwaysBootable
        <4>3. Holds(BootBank, f)'
          BY <3>4, <4>1, <4>2 DEF Holds
        <4> QED BY <4>1, <4>2, <4>3 DEF AlwaysBootable
      <3> QED BY <1>1, <1>2, <3>4, <3>5, OffKeeps
    <2> QED BY <1>1, <2>1, <2>2 DEF IInv, BootInv
  <1> QED BY <1>3, <1>4 DEF PowerFails

(* The bank that is booted from is the one to boot from.                   *)
LEMMA BootKeeps == ASSUME IInv, Boot PROVE IInv'
  <1> DEFINE loaded == IF stored = Torn THEN Zero ELSE stored
  <1>1. /\ running = NONE /\ BootBank # NONE /\ running' = BootBank /\ TypeInv
        /\ ota_settings' = Restored(loaded)
        /\ todo' = (IF stored = Torn THEN tuya_OTASaveSettings(Zero) ELSE <<>>)
                   \o (IF Restored(loaded) = loaded THEN <<>>
                       ELSE tuya_OTASaveSettings(Restored(loaded)))
        /\ UNCHANGED <<cells, flag, stored, tuya_ota_status, last_package,
                       m_firmware_size_req, timers, ota_end_crc_cnt, phone, troubles>>
    BY DEF Boot, IInv, flash, readback
  <1>2. todo = <<>> /\ timers = {} /\ tuya_ota_status = "NONE"
    BY <1>1 DEF IInv, OffInv
  <1>3. loaded \in Good /\ Restored(loaded) \in Good
    <2>1. loaded \in Good
      BY <1>1, ZeroGood DEF TypeInv
    <2> QED BY <2>1, RestoredGood
  <1>4. todo' \in Seq(QuietOp)
    <2> DEFINE a == IF stored = Torn THEN tuya_OTASaveSettings(Zero) ELSE <<>>
               r == Restored(loaded)
               b == IF r = loaded THEN <<>> ELSE tuya_OTASaveSettings(r)
    <2>1. a \in Seq(QuietOp)
      BY ZeroGood, SavedQuiet, NothingQuiet
    <2>2. r \in Good
      BY <1>3
    <2>3. todo' = a \o b
      BY <1>1
    <2> HIDE DEF a, r
    <2>4. b \in Seq(QuietOp)
      BY <2>2, SavedQuiet, NothingQuiet
    <2> HIDE DEF b
    <2> QED BY <2>1, <2>3, <2>4
  <1> HIDE DEF loaded
  <1>5. BootBank \in Bank /\ flag[BootBank] = "valid" /\ (BootBank = 1 => flag[0] # "valid")
    BY <1>1, Sizes DEF BootBank, Bank
  <1>6. BootInv'
    <2>1. PICK f \in File : Holds(BootBank, f)
      BY <1>1 DEF IInv, BootInv, AlwaysBootable
    <2>2. Length[f] <= FwMax /\ \A i \in 0 .. (Length[f] - 1) : cells'[running'][i] = <<f, i>>
      BY <1>1, <2>1 DEF Holds
    <2>3. Undecided'
      BY <1>1, <1>4, <1>5 DEF Undecided
    <2> QED BY <1>1, <2>2, <2>3 DEF BootInv, Holds
  <1>7. OffInv' /\ EndInv' /\ StatusInv'
    BY <1>1, <1>2 DEF OffInv, EndInv, StatusInv
  <1>8. TypeInv'
    BY <1>1, <1>3, <1>5 DEF TypeInv
  <1> QED BY <1>6, <1>7, <1>8 DEF IInv

-------------------------------------------------------------------------------
(* The phone by itself, and the time-out of a transfer.                    *)

(* What neither stores nor decides anything.                               *)
LEMMA TimeoutKeeps == ASSUME IInv, ota_timeout_handler PROVE IInv'
  <1>1. /\ UNCHANGED <<cells, flag, stored, running, todo, ota_settings, last_package,
                       m_firmware_size_req, ota_end_crc_cnt, crc_temp, phone>>
        /\ timers' = timers \ {"timeout"} /\ tuya_ota_status' = "NONE"
        /\ running # NONE
    BY DEF ota_timeout_handler, Ready, flash, readback
  <1>2. troubles' \in 0 .. MaxTroubles
    BY OtaAssumption DEF ota_timeout_handler, Trouble, IInv, TypeInv
  <1>3. TypeInv'
    BY <1>1, <1>2 DEF IInv, TypeInv
  <1>4. OffInv' /\ StatusInv'
    BY <1>1 DEF OffInv, StatusInv
  <1>5. EndInv'
    BY <1>1 DEF IInv, EndInv, Pieces, ReadSoFar, Target
  <1>6. BootInv'
    BY <1>1 DEF IInv, BootInv, Undecided, Installing, Deciding, Holds, Target, FlagOp
  <1> QED BY <1>3, <1>4, <1>5, <1>6 DEF IInv

(* The phone begins with something while nothing is decided.               *)
LEMMA PhoneKeeps ==
    ASSUME IInv, UNCHANGED <<flash, running, todo, transfer, timers, readback>>,
           phone' \in Phone, phone'.next = "start", troubles' \in 0 .. MaxTroubles,
           phone.next = "wait" => "end" \notin timers /\ "reboot" \notin timers
    PROVE  IInv'
  <1>1. UNCHANGED <<cells, flag, stored, running, todo, ota_settings, tuya_ota_status,
                    last_package, m_firmware_size_req, timers, ota_end_crc_cnt, crc_temp>>
    BY DEF flash, transfer, readback
  <1>2. TypeInv' /\ OffInv' /\ StatusInv'
    BY <1>1 DEF IInv, TypeInv, OffInv, StatusInv
  <1>3. "end" \notin timers /\ ~Installing
    BY DEF IInv, EndInv, Installing
  <1>4. EndInv'
    BY <1>1, <1>3 DEF EndInv
  <1>5. BootInv'
    <2>1. CASE running = NONE
      BY <1>1, <2>1, FlashLeft DEF BootInv
    <2>2. CASE running # NONE
      <3>1. PICK f \in File : Holds(running, f) /\ Undecided
        BY <1>3, <2>2 DEF IInv, BootInv
      <3> QED BY <1>1, <2>2, <3>1, StillUndecided DEF Undecided
    <2> QED BY <2>1, <2>2
  <1> QED BY <1>2, <1>4, <1>5 DEF IInv

LEMMA ChoosesKeeps == ASSUME IInv, NEW f \in Offered, PhoneChooses(f) PROVE IInv'
  <1>1. phone' \in Phone /\ phone'.next = "start" /\ phone.next # "wait"
    BY PhoneMoves DEF PhoneChooses, IInv, TypeInv
  <1>2. troubles' \in 0 .. MaxTroubles
    BY DEF PhoneChooses, IInv, TypeInv
  <1> QED BY <1>1, <1>2, PhoneKeeps DEF PhoneChooses

LEMMA RestartsKeeps == ASSUME Patient, IInv, PhoneRestarts PROVE IInv'
  <1>1. phone' \in Phone /\ phone'.next = "start"
    BY PhoneMoves DEF PhoneRestarts, IInv, TypeInv
  <1>2. troubles' \in 0 .. MaxTroubles
    BY OtaAssumption DEF PhoneRestarts, Trouble, IInv, TypeInv
  <1>3. phone.next = "wait" => "end" \notin timers /\ "reboot" \notin timers
    BY DEF PhoneRestarts
  <1> QED BY <1>1, <1>2, <1>3, PhoneKeeps DEF PhoneRestarts

-------------------------------------------------------------------------------
(* The image is read back.                                                 *)

LEMMA Appended ==
    ASSUME NEW S, NEW c, NEW a \in Nat, NEW n \in Nat, \A i \in 0 .. a + n - 1 : c[i] \in S
    PROVE  [i \in 1 .. a |-> c[i - 1]] \o [i \in 1 .. n |-> c[a + i - 1]]
              = [i \in 1 .. a + n |-> c[i - 1]]
  <1> DEFINE s == [i \in 1 .. a |-> c[i - 1]]  t == [i \in 1 .. n |-> c[a + i - 1]]
             u == [i \in 1 .. a + n |-> c[i - 1]]
  <1>1. s \in Seq(S) /\ Len(s) = a /\ \A i \in 1 .. a : s[i] = c[i - 1]
    <2>1. \A i \in 1 .. a : i - 1 \in 0 .. a + n - 1
      OBVIOUS
    <2>2. \A i \in 1 .. a : c[i - 1] \in S
      BY <2>1
    <2> QED BY <2>2
  <1>2. t \in Seq(S) /\ Len(t) = n /\ \A i \in 1 .. n : t[i] = c[a + i - 1]
    <2>1. \A i \in 1 .. n : a + i - 1 \in 0 .. a + n - 1
      OBVIOUS
    <2>2. \A i \in 1 .. n : c[a + i - 1] \in S
      BY <2>1
    <2> QED BY <2>2
  <1>3. u \in Seq(S) /\ Len(u) = a + n /\ \A i \in 1 .. a + n : u[i] = c[i - 1]
    <2>1. \A i \in 1 .. a + n : i - 1 \in 0 .. a + n - 1
      OBVIOUS
    <2>2. \A i \in 1 .. a + n : c[i - 1] \in S
      BY <2>1
    <2> QED BY <2>2
  <1> HIDE DEF s, t, u
  <1> DEFINE v == s \o t
  <1>4. /\ v \in Seq(S) /\ Len(v) = Len(s) + Len(t)
        /\ \A i \in 1 .. Len(s) + Len(t) : v[i] = IF i <= Len(s) THEN s[i] ELSE t[i - Len(s)]
    BY <1>1, <1>2, ConcatProperties
  <1> HIDE DEF v
  <1>5. ASSUME NEW i \in 1 .. a + n PROVE v[i] = u[i]
    <2>1. v[i] = IF i <= a THEN s[i] ELSE t[i - a]
      BY <1>1, <1>2, <1>4
    <2>2. CASE i <= a
      <3>1. i \in 1 .. a
        BY <2>2
      <3>2. s[i] = c[i - 1]
        BY <1>1, <3>1
      <3> QED BY <1>3, <2>1, <2>2, <3>2
    <2>3. CASE ~(i <= a)
      <3>1. i - a \in 1 .. n /\ a + (i - a) - 1 = i - 1
        BY <2>3
      <3>2. t[i - a] = c[a + (i - a) - 1]
        BY <1>2, <3>1
      <3> QED BY <1>3, <2>1, <2>3, <3>1, <3>2
    <2> QED BY <2>2, <2>3
  <1>6. v = u
    BY <1>1, <1>2, <1>3, <1>4, <1>5
  <1> QED BY <1>6 DEF v, s, t, u

(* What has been read so far, and the piece after it.                      *)
LEMMA CrcGrows ==
    ASSUME IInv, "end" \in timers, NEW n \in Nat,
           ota_end_crc_cnt * PacketLen + n <= ota_settings.offset_last
    PROVE  CrcSoFar \o ReadBack(n) = ReadSoFar(ota_end_crc_cnt * PacketLen + n)
  <1> DEFINE a == ota_end_crc_cnt * PacketLen  c == cells[Target]
  <1>1. a \in Nat
    BY Sizes DEF IInv, TypeInv
  <1>2. c \in [Place -> Cell]
    <2>1. Target \in Bank
      BY Banks DEF IInv, TypeInv, EndInv
    <2> QED BY <2>1 DEF IInv, TypeInv
  <1>3. \A i \in 0 .. a + n - 1 : c[i] \in Cell
    <2>1. ota_settings.offset_last \in Nat /\ ota_settings.offset_last <= FwMax
      BY GoodFields, Sizes DEF IInv, TypeInv, EndInv, Offset
    <2>2. a + n <= ota_settings.offset_last
      OBVIOUS
    <2> HIDE DEF a, c
    <2>3. ASSUME NEW i \in 0 .. a + n - 1 PROVE i \in Place
      BY <1>1, <2>1, <2>2, Sizes DEF Place
    <2> QED BY <1>2, <2>3
  <1>4. CrcSoFar = [i \in 1 .. a |-> c[i - 1]]
    <2>1. CASE ota_end_crc_cnt = 0
      <3>1. a = 0
        BY <2>1, Sizes
      <3> HIDE DEF a, c
      <3>2. [i \in 1 .. a |-> c[i - 1]] = <<>>
        BY <3>1
      <3> QED BY <2>1, <3>2 DEF CrcSoFar
    <2>2. CASE ota_end_crc_cnt # 0
      <3>1. ota_end_crc_cnt > 0
        BY <2>2 DEF IInv, TypeInv
      <3> QED BY <2>2, <3>1 DEF CrcSoFar, IInv, EndInv, ReadSoFar
    <2> QED BY <2>1, <2>2
  <1>5. ReadBack(n) = [i \in 1 .. n |-> c[a + i - 1]]
    BY DEF ReadBack
  <1>6. ReadSoFar(a + n) = [i \in 1 .. a + n |-> c[i - 1]]
    BY DEF ReadSoFar
  <1> HIDE DEF a, c
  <1>7. [i \in 1 .. a |-> c[i - 1]] \o [i \in 1 .. n |-> c[a + i - 1]]
           = [i \in 1 .. a + n |-> c[i - 1]]
    BY <1>1, <1>3, Appended
  <1>8. CrcSoFar \o ReadBack(n) = ReadSoFar(a + n)
    BY <1>4, <1>5, <1>6, <1>7
  <1> QED BY <1>8 DEF a

(* Nothing is decided while the image is read.                             *)
LEMMA WhileReading ==
    ASSUME IInv, "end" \in timers
    PROVE  /\ running \in Bank /\ running # NONE /\ todo = <<>> /\ phone.next = "wait"
           /\ Undecided /\ \E f \in File : Holds(running, f)
           /\ ota_settings.file \in File
           /\ ota_settings.offset_last \in Nat /\ ota_settings.offset_last <= FwMax
           /\ ota_end_crc_cnt \in Nat /\ ota_end_crc_cnt <= Pieces
  <1>1. running # NONE /\ running \in Bank /\ todo = <<>> /\ phone.next = "wait"
    BY DEF IInv, TypeInv, EndInv
  <1>2. Undecided /\ \E f \in File : Holds(running, f)
    BY <1>1 DEF IInv, BootInv, Installing
  <1>3. ota_settings.file \in File /\ ota_settings.offset_last \in Nat
    BY GoodFields, Sizes DEF IInv, TypeInv, EndInv, Offset
  <1> QED BY <1>1, <1>2, <1>3 DEF IInv, TypeInv, EndInv

LEMMA ReadPieceKeeps == ASSUME IInv, ReadPiece PROVE IInv'
  <1>1. /\ UNCHANGED <<cells, flag, stored, running, todo, ota_settings, tuya_ota_status,
                       last_package, m_firmware_size_req, timers, phone, troubles>>
        /\ "end" \in timers /\ ota_end_crc_cnt < Pieces
        /\ crc_temp' = CrcSoFar \o ReadBack(PacketLen)
        /\ ota_end_crc_cnt' = ota_end_crc_cnt + 1
    BY DEF ReadPiece, flash, transfer
  <1>2. /\ running # NONE /\ Undecided /\ ota_end_crc_cnt \in Nat
        /\ ota_settings.offset_last \in Nat
    BY <1>1, WhileReading
  <1>3. /\ Pieces \in Nat /\ Pieces * PacketLen <= ota_settings.offset_last
        /\ (ota_end_crc_cnt + 1) * PacketLen = ota_end_crc_cnt * PacketLen + PacketLen
        /\ (ota_end_crc_cnt + 1) * PacketLen <= Pieces * PacketLen
    <2>1. Pieces \in Nat /\ Pieces * PacketLen <= ota_settings.offset_last
      BY <1>2, Sizes, DivNat DEF Pieces
    <2>2. (ota_end_crc_cnt + 1) * PacketLen = ota_end_crc_cnt * PacketLen + PacketLen
      BY <1>2, Sizes
    <2>3. (ota_end_crc_cnt + 1) * PacketLen <= Pieces * PacketLen
      <3> DEFINE p == Pieces
      <3>1. p \in Nat /\ ota_end_crc_cnt + 1 <= p
        BY <1>1, <1>2, <2>1
      <3> HIDE DEF p
      <3>2. (ota_end_crc_cnt + 1) * PacketLen <= p * PacketLen
        BY <1>2, <3>1, Sizes
      <3> QED BY <3>2 DEF p
    <2> QED BY <2>1, <2>2, <2>3
  <1>4. crc_temp' = ReadSoFar((ota_end_crc_cnt + 1) * PacketLen)
    <2>1. ota_end_crc_cnt * PacketLen \in Nat /\ Pieces * PacketLen \in Nat
      BY <1>2, <1>3, Sizes
    <2>2. ota_end_crc_cnt * PacketLen + PacketLen <= ota_settings.offset_last
      BY <1>2, <1>3, <2>1, Sizes
    <2>3. PacketLen \in Nat
      BY Sizes
    <2>4. CrcSoFar \o ReadBack(PacketLen) = ReadSoFar(ota_end_crc_cnt * PacketLen + PacketLen)
      BY <1>1, <2>2, <2>3, CrcGrows
    <2> QED BY <1>1, <1>3, <2>4
  <1>5. EndInv'
    <2>1. crc_temp' = ReadSoFar(ota_end_crc_cnt * PacketLen)'
      BY <1>1, <1>4 DEF ReadSoFar, Target
    <2>2. ota_end_crc_cnt' <= Pieces' /\ Pieces' = Pieces
      BY <1>1, <1>2, <1>3 DEF Pieces
    <2> QED BY <1>1, <2>1, <2>2 DEF IInv, EndInv
  <1>6. TypeInv'
    BY <1>1, <1>2 DEF IInv, TypeInv
  <1>7. OffInv' /\ StatusInv'
    BY <1>1 DEF IInv, OffInv, StatusInv
  <1>8. BootInv'
    <2>1. PICK f \in File : Holds(running, f)
      BY <1>1, WhileReading
    <2>2. todo' \in Seq(QuietOp)
      BY <1>1, <1>2 DEF Undecided
    <2> QED BY <1>1, <1>2, <2>1, <2>2, StillUndecided
  <1> QED BY <1>5, <1>6, <1>7, <1>8 DEF IInv

(* What was read is the announced file: then the target bank holds it.     *)
LEMMA ReadIsFile ==
    ASSUME NEW f \in File, NEW n \in Nat, n <= FwMax, ReadSoFar(n) = FileCrc(f)
    PROVE  Holds(Target, f)
  <1>1. f # NONE /\ Length[f] \in Nat
    BY Sizes
  <1>2. [i \in 1 .. n |-> cells[Target][i - 1]] = [i \in 1 .. Length[f] |-> <<f, i - 1>>]
    BY <1>1 DEF ReadSoFar, FileCrc
  <1>3. 1 .. n = 1 .. Length[f]
    <2>1. DOMAIN [i \in 1 .. n |-> cells[Target][i - 1]]
             = DOMAIN [i \in 1 .. Length[f] |-> <<f, i - 1>>]
      BY <1>2
    <2> QED BY <2>1
  <1>4. Length[f] = n
    BY <1>1, <1>3
  <1>5. ASSUME NEW i \in 0 .. (Length[f] - 1) PROVE cells[Target][i] = <<f, i>>
    <2>1. i + 1 \in 1 .. n /\ (i + 1) - 1 = i
      BY <1>1, <1>4
    <2>2. [j \in 1 .. n |-> cells[Target][j - 1]][i + 1] = cells[Target][i]
      BY <2>1
    <2>3. [j \in 1 .. Length[f] |-> <<f, j - 1>>][i + 1] = <<f, i>>
      BY <1>4, <2>1
    <2> QED BY <1>2, <2>2, <2>3
  <1> QED BY <1>4, <1>5 DEF Holds

(* The decision: only a bank that was found to hold the file gets the flag *)
(* of the one that runs.                                                   *)
LEMMA EndHandlerKeeps == ASSUME IInv, ota_end_handler PROVE IInv'
  <1> DEFINE f == ota_settings.file  n == ota_settings.offset_last
             crc == CrcSoFar \o ReadBack(n % PacketLen)
             good == crc = FileCrc(f)
             w == IF good THEN ota_settings.write_offset ELSE 0
             settings == [ZeroAt("WAIT_FOR_EREASE") EXCEPT !.write_offset = w]
  <1>1. /\ "end" \in timers /\ ota_end_crc_cnt >= Pieces
        /\ ota_settings' = settings
        /\ todo' = (IF good THEN tuya_OTASetBootFlag ELSE <<>>) \o tuya_OTASaveSettings(settings)
        /\ tuya_ota_status' = "NONE" /\ timers' = (timers \ {"end"}) \union {"reboot"}
        /\ UNCHANGED <<cells, flag, stored, running, last_package, m_firmware_size_req,
                       ota_end_crc_cnt, phone, troubles>>
    BY DEF ota_end_handler, flash
  <1>2. /\ running \in Bank /\ running # NONE /\ todo = <<>> /\ phone.next = "wait"
        /\ Undecided /\ f \in File /\ n \in Nat /\ n <= FwMax
        /\ ota_end_crc_cnt \in Nat /\ ota_end_crc_cnt <= Pieces
    BY <1>1, WhileReading
  <1>3. crc = ReadSoFar(n)
    <2>1. /\ Pieces \in Nat /\ n % PacketLen \in Nat
          /\ n = Pieces * PacketLen + (n % PacketLen)
      <3> HIDE DEF n
      <3>1. /\ n \div PacketLen \in Nat /\ n % PacketLen \in 0 .. PacketLen - 1
            /\ n = (n \div PacketLen) * PacketLen + (n % PacketLen)
        BY <1>2, Sizes, DivNat
      <3>2. Pieces = n \div PacketLen
        BY DEF Pieces, n
      <3> QED BY <3>1, <3>2, Sizes
    <2>2. ota_end_crc_cnt = Pieces
      <3> DEFINE k == Pieces
      <3>1. k \in Nat /\ ota_end_crc_cnt >= k /\ ota_end_crc_cnt <= k
        BY <1>1, <1>2, <2>1
      <3> HIDE DEF k
      <3>2. ota_end_crc_cnt = k
        BY <1>2, <3>1
      <3> QED BY <3>2 DEF k
    <2>3. ota_end_crc_cnt * PacketLen + (n % PacketLen) = n
      BY <2>1, <2>2
    <2>4. CrcSoFar \o ReadBack(n % PacketLen)
             = ReadSoFar(ota_end_crc_cnt * PacketLen + (n % PacketLen))
      <3> DEFINE r == n % PacketLen
      <3>1. r \in Nat
        BY <2>1
      <3>2. ota_end_crc_cnt * PacketLen + r <= ota_settings.offset_last
        <4>1. ota_end_crc_cnt * PacketLen + r = ota_settings.offset_last
          BY <2>3
        <4>2. ota_settings.offset_last \in Nat
          BY <1>2
        <4> QED BY <4>1, <4>2
      <3> HIDE DEF r
      <3>3. CrcSoFar \o ReadBack(r) = ReadSoFar(ota_end_crc_cnt * PacketLen + r)
        BY <1>1, <3>1, <3>2, CrcGrows
      <3> QED BY <3>3 DEF r
    <2> QED BY <2>3, <2>4
  <1> HIDE DEF crc
  <1>4. good => Holds(Target, f)
    BY <1>2, <1>3, ReadIsFile
  <1> HIDE DEF good
  <1>5. settings \in Good
    <2>1. w \in Offset
      <3>1. ota_settings \in Good
        BY DEF IInv, TypeInv
      <3>2. ota_settings.write_offset \in Offset
        BY <3>1, GoodFields
      <3>3. 0 \in Offset
        BY Sizes DEF Offset
      <3> QED BY <3>2, <3>3
    <2> HIDE DEF w
    <2> QED BY <2>1, EndGood
  <1> HIDE DEF settings, w, n, f
  <1>6. tuya_OTASaveSettings(settings) \in Seq(SaveOp)
    BY <1>5, SaveIs
  <1>7. TypeInv'
    <2>1. ota_settings' \in Good
      BY <1>1, <1>5
    <2>2. /\ UNCHANGED <<cells, flag, stored, running, last_package, m_firmware_size_req,
                          ota_end_crc_cnt, phone, troubles>>
          /\ timers' \subseteq {"timeout", "end", "reboot"} /\ tuya_ota_status' = "NONE"
      BY <1>1 DEF IInv, TypeInv
    <2> QED BY <2>1, <2>2 DEF IInv, TypeInv
  <1>8. OffInv' /\ StatusInv' /\ EndInv'
    BY <1>1, <1>2 DEF OffInv, StatusInv, EndInv
  <1>9. BootInv'
    <2> DEFINE saves == tuya_OTASaveSettings(settings)
    <2> HIDE DEF saves
    <2>1. saves \in Seq(SaveOp) /\ saves \in Seq(QuietOp)
      BY <1>6, Quiet DEF saves
    <2>2. PICK g \in File : Holds(running, g)
      BY <1>1, WhileReading
    <2>3. CASE ~good
      <3>1. todo' = <<>> \o saves
        BY <1>1, <2>3 DEF saves
      <3>2. todo' \in Seq(QuietOp)
        BY <2>1, <3>1
      <3> QED BY <1>1, <1>2, <2>2, <3>2, StillUndecided
    <2>4. CASE good
      <3>1. Target \in Bank /\ Target' = Target
        BY <1>1, <1>2, Banks DEF Target
      <3>2. PICK h \in File : Holds(running, g)' /\ Holds(Target, h)'
        <4>1. PICK h \in File : Holds(Target, h)
          BY <1>2, <1>4, <2>4
        <4>2. Holds(running, g)' /\ Holds(Target, h)'
          BY <1>1, <2>2, <3>1, <4>1 DEF Holds
        <4> QED BY <4>2
      <3>3. todo' = tuya_OTASetBootFlag \o saves
        BY <1>1, <2>4 DEF saves
      <3>4. ASSUME flag[Target] = "invalid" PROVE Deciding'
        <4> DEFINE o == FlagOp(Target, "valid")
        <4>1. todo' = (<<o>> \o <<>>) \o saves
          BY <3>3, <3>4 DEF tuya_OTASetBootFlag, SetFlag, FlagOp
        <4> HIDE DEF o
        <4>2. todo' # <<>> /\ Head(todo') = o /\ Tail(todo') = saves
          BY <2>1, <4>1
        <4>3. Head(todo') = FlagOp(Target, "valid")'
          BY <3>1, <4>2 DEF o, FlagOp
        <4> QED BY <1>1, <1>2, <2>1, <3>1, <3>4, <4>2, <4>3 DEF Deciding, Undecided
      <3>5. ASSUME flag[Target] # "invalid" PROVE Deciding'
        <4> DEFINE o == FlagOp(Target, "valid")  p == FlagOp(running, "invalid")
        <4>1. todo' = (<<o>> \o <<p>>) \o saves
          BY <3>3, <3>5 DEF tuya_OTASetBootFlag, SetFlag, FlagOp
        <4> HIDE DEF o, p
        <4>2. todo' # <<>> /\ Head(todo') = o /\ Tail(todo') = <<p>> \o saves
          BY <2>1, <4>1
        <4>3. /\ Tail(todo') # <<>> /\ Head(Tail(todo')) = p
              /\ Tail(Tail(todo')) = saves
          BY <2>1, <4>2, InFront
        <4>4. /\ Head(todo') = FlagOp(Target, "valid")'
              /\ Head(Tail(todo')) = FlagOp(running, "invalid")'
          BY <1>1, <3>1, <4>2, <4>3 DEF o, p, FlagOp
        <4> QED BY <1>1, <1>2, <2>1, <3>1, <3>5, <4>2, <4>3, <4>4 DEF Deciding, Undecided
      <3>6. Deciding'
        BY <3>4, <3>5
      <3>7. Installing'
        BY <1>1, <1>2, <3>2, <3>6 DEF Installing
      <3> QED BY <1>1, <1>2, <3>2, <3>7 DEF BootInv
    <2> QED BY <2>3, <2>4
  <1> QED BY <1>7, <1>8, <1>9 DEF IInv

-------------------------------------------------------------------------------
(* A new device boots from its first bank.                                 *)
LEMMA Begins == Init => IInv
  <1> SUFFICES ASSUME Init PROVE IInv
    OBVIOUS
  <1>1. /\ running = NONE /\ todo = <<>> /\ timers = {} /\ tuya_ota_status = "NONE"
        /\ phone.next = "start"
    BY DEF Init
  <1>2. Place \subseteq Int /\ Factory \in File /\ Length[Factory] \in Nat
        /\ Length[Factory] <= FwMax
    BY OtaAssumption, Sizes DEF Place
  <1>3. cells \in CellType
    <2>1. ASSUME NEW b \in Bank, NEW i \in Place
          PROVE  (IF b = 0 /\ i < Length[Factory] THEN <<Factory, i>> ELSE Erased) \in Cell
      <3>1. i \in Nat
        BY OtaAssumption, <2>1 DEF Place
      <3> QED BY <1>2, <3>1 DEF Cell, Byte
    <2>2. cells = [b \in Bank |-> [i \in Place |->
                      IF b = 0 /\ i < Length[Factory] THEN <<Factory, i>> ELSE Erased]]
      BY DEF Init
    <2> QED BY <2>1, <2>2 DEF CellType
  <1>4. flag \in FlagType /\ flag[0] = "valid"
    BY Sizes DEF Init, FlagType
  <1>5. Holds(0, Factory)
    <2>1. ASSUME NEW i \in 0 .. (Length[Factory] - 1)
          PROVE  cells[0][i] = <<Factory, i>>
      <3>1. i \in Place /\ i < Length[Factory] /\ 0 \in Bank
        BY <1>2, <2>1, Sizes DEF Place
      <3> QED BY <3>1 DEF Init
    <2> QED BY <1>2, <2>1 DEF Holds
  <1>6. AlwaysBootable
    <2>1. BootBank = 0 /\ 0 # NONE
      BY <1>4, Sizes, BootFrom
    <2> QED BY <1>2, <1>5, <2>1 DEF AlwaysBootable
  <1>7. phone \in Phone
    <2>1. PICK f \in Offered : phone = [next |-> "start", file |-> f, from |-> 0, num |-> 0]
      BY DEF Init
    <2> QED BY <2>1 DEF Phone
  <1>8. TypeInv
    <2>1. ota_settings \in Good /\ stored \in Good \union {Torn} /\ running \in Bank \union {NONE}
      BY ZeroGood DEF Init
    <2>2. /\ last_package = 0 /\ m_firmware_size_req = 0 /\ ota_end_crc_cnt = 0 /\ troubles = 0
          /\ 0 \in 0 .. FwMax /\ 0 \in 0 .. MaxTroubles
      BY OtaAssumption DEF Init
    <2> QED BY <1>1, <1>3, <1>4, <1>7, <2>1, <2>2 DEF TypeInv, CellType, FlagType
  <1> QED BY <1>1, <1>6, <1>8 DEF IInv, OffInv, StatusInv, EndInv, BootInv

LEMMA StepKeeps == ASSUME Patient, IInv, [Next]_vars PROVE IInv'
  <1>1. CASE UNCHANGED vars
    <2>1. UNCHANGED <<cells, flag, stored, running, todo, ota_settings, tuya_ota_status,
                      last_package, m_firmware_size_req, timers, ota_end_crc_cnt, crc_temp,
                      phone, troubles>>
      BY <1>1 DEF vars, flash, transfer, readback
    <2>2. TypeInv' /\ OffInv' /\ StatusInv'
      BY <2>1 DEF IInv, TypeInv, OffInv, StatusInv
    <2>3. EndInv'
      BY <2>1 DEF IInv, EndInv, Pieces, ReadSoFar, Target
    <2>4. BootInv'
      <3>1. CASE running = NONE
        BY <2>1, <3>1, FlashLeft DEF BootInv
      <3>2. CASE running # NONE
        BY <2>1, <3>2 DEF IInv, BootInv, Undecided, Installing, Deciding, Holds, Target, FlagOp
      <3> QED BY <3>1, <3>2
    <2> QED BY <2>2, <2>3, <2>4 DEF IInv
  <1>2. CASE \E lost \in BOOLEAN : Request(lost)
    <2>1. PICK lost \in BOOLEAN : Request(lost)
      BY <1>2
    <2> QED BY <2>1, StartKeeps, InfoKeeps, OffsetKeeps, DataKeeps, RefusedKeeps, EndKeeps
        DEF Request
  <1>3. CASE FlashStep \/ Boot \/ Reboot \/ PowerFails
    BY <1>3, FlashStepKeeps, BootKeeps, RebootKeeps, PowerFailsKeeps
  <1>4. CASE ota_timeout_handler \/ ReadPiece \/ ota_end_handler
    BY <1>4, TimeoutKeeps, ReadPieceKeeps, EndHandlerKeeps
  <1>5. CASE (\E f \in Offered : PhoneChooses(f)) \/ PhoneRestarts
    BY <1>5, ChoosesKeeps, RestartsKeeps
  <1> QED BY <1>1, <1>2, <1>3, <1>4, <1>5 DEF Next

(* Whatever operation power fails in, and however often, there is a bank   *)
(* with a valid boot flag and the whole of an image, when the phone waits  *)
(* for the restart: tuya_OTASetBootFlag after the check in ota_end_handler.*)
THEOREM UpdateNeverBricks == ASSUME Patient PROVE Spec => []AlwaysBootable
  <1>1. Init => IInv
    BY Begins
  <1>2. IInv /\ [Next]_vars => IInv'
    BY StepKeeps
  <1>3. IInv => AlwaysBootable
    BY Bootable
  <1> QED BY <1>1, <1>2, <1>3, PTL DEF Spec

-------------------------------------------------------------------------------
(* ResumePointHolds. Of the settings in RAM and those in flash each has a  *)
(* claim on the target bank, as long as its first sector, which has the    *)
(* flag, is erased. A handler that stores a packet breaks none on the way: *)
(* it erases and writes behind the offset that is saved, and what it saves *)
(* holds by then. A packet stays in its sector, which was erased, unless   *)
(* the transfer is already longer than its file.                           *)

Sound(s) == /\ s.file # NONE => s.write_offset = s.offset_last /\ s.length <= Length[s.file]
            /\ s.ota_status = "WAIT_FOR_START" => s.offset_last % Sector = 0

StoredHolds(bank) ==
    stored # Torn /\ Fits(stored) /\ flag[bank] = "unset" =>
        \A i \in 1 .. stored.offset_last : cells[bank][i - 1] = stored.crc_last[i]

(* The target bank has what the CRC says, and is erased to the end of the  *)
(* sector.                                                                 *)
Match(n) == \A i \in 1 .. n : cells[Target][i - 1] = ota_settings.crc_last[i]
Blank(n) == \A i \in Place : n <= i /\ i < SectorEnd(n) => cells[Target][i] = Erased

Moving == tuya_ota_status \in {"FILE_OFFSET", "FILE_DATA"}
Behind(n) == stored # Torn /\ Fits(stored) => stored.offset_last <= n

(* What waits in a handler that moves no data.                             *)
SavesRam == tuya_OTASaveSettings(ota_settings)
ClearOp == [op |-> "clear"]
RamOp == [op |-> "settings", value |-> ota_settings]
LightOp == {ClearOp, RamOp, FlagOp(Target, "valid"), FlagOp(running, "invalid")}

RamHolds ==
    Fits(ota_settings) /\ flag[Target] = "unset" =>
        /\ Match(ota_settings.offset_last)
        /\ ota_settings.offset_last % Sector # 0 => Blank(ota_settings.offset_last)

Resting == /\ todo \in Seq(LightOp)
           /\ RamHolds
           /\ Moving => \/ todo = <<>> /\ Behind(ota_settings.offset_last)
                        \/ todo = <<ClearOp, RamOp>>
                        \/ todo = <<RamOp>> /\ stored = Torn

(* Bytes b go to place w; the rest of the handler is t.                    *)
Carries(w, b, t) ==
    /\ w \in Nat /\ b \in Seq(Byte) /\ w + Len(b) = ota_settings.offset_last
    /\ t = <<>> \/ t = <<ClearOp, RamOp>>
    /\ Behind(w)
    /\ Fits(ota_settings) => /\ w + Len(b) <= SectorEnd(w)
                             /\ \A i \in 1 .. Len(b) : b[i] = ota_settings.crc_last[w + i]

WriteOp(w, b) == [op |-> "write", at |-> w, bytes |-> b]
EraseOp(w) == [op |-> "erase", at |-> w]

Writing == \E w, b, t :
    /\ todo = <<WriteOp(w, b)>> \o t /\ Carries(w, b, t)
    /\ Fits(ota_settings) /\ flag[Target] = "unset" => Match(w) /\ Blank(w)

Erasing == \E w, b, t :
    /\ todo = <<EraseOp(w)>> \o (<<WriteOp(w, b)>> \o t) /\ Carries(w, b, t)
    /\ w % Sector = 0
    /\ Fits(ota_settings) /\ (w = 0 \/ flag[Target] = "unset") => Match(w)

Refusing == \E w :
    /\ todo = <<EraseOp(w)>> \o <<ClearOp, RamOp>>
    /\ w \in Nat /\ Behind(w) /\ ota_settings.file = NONE /\ ~Moving

(* Before the end of the file the packets are full.                        *)
Aligned == ota_settings.file # NONE /\ ota_settings.offset_last < Length[ota_settings.file] =>
               ota_settings.offset_last % PacketLen = 0

(* The phone is not ahead of the device.                                   *)
PhoneInv ==
    /\ phone.next = "offset" /\ tuya_ota_status = "FILE_INFO" => phone.file = ota_settings.file
    /\ phone.next = "data" /\ Moving =>
           phone.file = ota_settings.file /\ PacketFrom <= ota_settings.offset_last

OnInv == /\ StoredHolds(Target) /\ flag[running] # "unset"
         /\ Sound(ota_settings) /\ Aligned /\ PhoneInv
         /\ Resting \/ Writing \/ Erasing \/ Refusing

ResInv == /\ stored # Torn => Sound(stored)
          /\ IF running = NONE THEN StoredHolds(1 - BootBank) ELSE OnInv

-------------------------------------------------------------------------------
(* Sectors.                                                                *)

LEMMA SectorsAre ==
    /\ Sector % PacketLen = 0 /\ PacketLen <= Sector
    /\ \A n \in Nat : n % Sector \in 0 .. Sector - 1 /\ n < SectorEnd(n) /\ SectorEnd(n) \in Nat
    /\ \A n \in Nat : n % Sector = 0 => SectorEnd(n) = n + Sector
  <1>1. Sector % PacketLen = 0 /\ Sector \in Nat \ {0} /\ PacketLen \in Nat \ {0}
    BY OtaAssumption
  <1>2. 0 % PacketLen = 0
    BY <1>1, Small
  <1>3. 0 + PacketLen <= Sector
    BY <1>1, <1>2, RoomForOne
  <1>4. \A n \in Nat : n % Sector \in 0 .. Sector - 1 /\ n - (n % Sector) \in Nat
    <2>1. ASSUME NEW n \in Nat PROVE n % Sector \in 0 .. Sector - 1 /\ n - (n % Sector) \in Nat
      <3> DEFINE q == n \div Sector  r == n % Sector
      <3>1. q \in Nat /\ r \in 0 .. Sector - 1 /\ n = q * Sector + r
        BY <1>1, DivNat
      <3> HIDE DEF q, r
      <3>2. q * Sector \in Nat
        BY <1>1, <3>1
      <3>3. n - r \in Nat
        BY <1>1, <3>1, <3>2
      <3> QED BY <3>1, <3>3 DEF r
    <2> QED BY <2>1
  <1>5. ASSUME NEW n \in Nat
        PROVE  /\ n < SectorEnd(n) /\ SectorEnd(n) \in Nat
               /\ n % Sector = 0 => SectorEnd(n) = n + Sector
    <2> DEFINE r == n % Sector
    <2>1. r \in 0 .. Sector - 1 /\ n - r \in Nat /\ SectorEnd(n) = n - r + Sector
      BY <1>4 DEF SectorEnd
    <2> HIDE DEF r
    <2>2. n < SectorEnd(n) /\ SectorEnd(n) \in Nat /\ (r = 0 => SectorEnd(n) = n + Sector)
      BY <1>1, <2>1
    <2> QED BY <2>2 DEF r
  <1>6. \A n \in Nat : n < SectorEnd(n) /\ SectorEnd(n) \in Nat
                       /\ (n % Sector = 0 => SectorEnd(n) = n + Sector)
    BY <1>5
  <1>7. PacketLen <= Sector
    BY <1>1, <1>3
  <1>8. \A n \in Nat : n % Sector \in 0 .. Sector - 1
    BY <1>4
  <1> QED BY <1>1, <1>6, <1>7, <1>8, Zenon

(* A packet that begins at a multiple of the packets' length stays in its  *)
(* sector.                                                                 *)
LEMMA StaysInSector ==
    ASSUME NEW n \in Nat, n % PacketLen = 0
    PROVE  n + PacketLen <= SectorEnd(n)
  <1> DEFINE r == n % Sector
  <1>1. PacketLen \in Nat \ {0} /\ Sector \in Nat \ {0} /\ Sector % PacketLen = 0
    BY Sizes, SectorsAre
  <1>2. r \in Nat /\ r < Sector
    BY <1>1, SectorsAre
  <1>3. r % PacketLen = 0
    BY <1>1, TwoRemainders
  <1>4. r + PacketLen <= Sector
    BY <1>1, <1>2, <1>3, RoomForOne
  <1>5. SectorEnd(n) = n - r + Sector
    BY DEF SectorEnd
  <1> HIDE DEF r
  <1> QED BY <1>1, <1>2, <1>4, <1>5

(* Behind it the sector is the same one, unless it is at its end.          *)
LEMMA SameSector ==
    ASSUME NEW n \in Nat, NEW k \in Nat, n + k <= SectorEnd(n), (n + k) % Sector # 0
    PROVE  SectorEnd(n + k) = SectorEnd(n)
  <1> DEFINE r == n % Sector  s == (n + k) % Sector
  <1>1. Sector \in Nat \ {0} /\ r \in 0 .. Sector - 1 /\ SectorEnd(n) = n - r + Sector
    BY Sizes, SectorsAre DEF SectorEnd
  <1>2. SectorEnd(n + k) = (n + k) - s + Sector
    BY DEF SectorEnd
  <1>3. s # 0 /\ n + k <= SectorEnd(n)
    OBVIOUS
  <1>4. CASE k \in 0 .. Sector - 1
    <2>1. \/ s = r + k /\ r + k < Sector
          \/ s = r + k - Sector /\ r + k >= Sector
      BY <1>1, <1>4, Later
    <2> HIDE DEF r, s
    <2>2. s = r + k
      BY <1>1, <1>3, <2>1
    <2> QED BY <1>1, <1>2, <2>2
  <1>5. CASE k >= Sector
    <2>1. r = 0 /\ k = Sector
      <3> HIDE DEF r, s
      <3> QED BY <1>1, <1>3, <1>5
    <2>2. s = r
      BY <1>1, <2>1, OneRound
    <2> HIDE DEF r, s
    <2> QED BY <1>3, <2>1, <2>2
  <1> QED BY <1>1, <1>4, <1>5

-------------------------------------------------------------------------------
(* Parts of the invariant.                                                 *)

(* With nothing waiting the handlers are at rest.                          *)
LEMMA AtRest ==
    ASSUME IInv, ResInv, running # NONE, todo = <<>>
    PROVE  /\ RamHolds /\ (Moving => Behind(ota_settings.offset_last))
           /\ Sound(ota_settings) /\ Aligned /\ PhoneInv
           /\ stored # Torn => Sound(stored)
  <1>1. OnInv
    BY DEF ResInv
  <1>2. ~Writing /\ ~Erasing /\ ~Refusing
    <2>1. ASSUME NEW w, NEW b, NEW t
          PROVE  <<WriteOp(w, b)>> \o t # <<>> \/ t \notin {<<>>, <<ClearOp, RamOp>>}
      BY DEF ClearOp, RamOp
    <2>2. ~Writing
      BY <2>1 DEF Writing, Carries
    <2>3. ~Erasing
      <3>1. ASSUME NEW w, NEW b, NEW t, t = <<>> \/ t = <<ClearOp, RamOp>>
            PROVE  <<EraseOp(w)>> \o (<<WriteOp(w, b)>> \o t) # <<>>
        BY <3>1
      <3> QED BY <3>1 DEF Erasing, Carries
    <2>4. ~Refusing
      <3>1. ASSUME NEW w PROVE <<EraseOp(w)>> \o <<ClearOp, RamOp>> # <<>>
        OBVIOUS
      <3> QED BY <3>1 DEF Refusing
    <2> QED BY <2>2, <2>3, <2>4
  <1> QED BY <1>1, <1>2 DEF OnInv, Resting, ResInv

LEMMA SavesLight ==
    /\ <<>> \in Seq(LightOp) /\ SavesRam = <<ClearOp, RamOp>> /\ SavesRam \in Seq(LightOp)
    /\ <<>> \in Seq(LightOp') /\ SavesRam' = <<ClearOp, RamOp'>> /\ SavesRam' \in Seq(LightOp')
  BY DEF SavesRam, LightOp, ClearOp, RamOp, tuya_OTASaveSettings

(* What a handler that moves no data has to show.                          *)
LEMMA Rests ==
    ASSUME ResInv, running # NONE, UNCHANGED <<cells, flag, stored, running>>,
           Sound(ota_settings'), Aligned', PhoneInv', RamHolds',
           todo' \in Seq(LightOp'),
           Moving' => \/ todo' = <<>> /\ Behind(ota_settings.offset_last)'
                      \/ todo' = SavesRam'
    PROVE  ResInv'
  <1>1. Resting'
    BY SavesLight DEF Resting
  <1>2. StoredHolds(Target)'
    BY DEF ResInv, OnInv, StoredHolds, Target, Fits
  <1>3. flag'[running'] # "unset" /\ (stored' # Torn => Sound(stored)')
    BY DEF ResInv, OnInv, Sound
  <1> QED BY <1>1, <1>2, <1>3 DEF ResInv, OnInv

(* RAM still matches the target bank if what it claims is the same.        *)
LEMMA RamKept ==
    ASSUME RamHolds, UNCHANGED <<cells, flag, running>>,
           ota_settings'.file = ota_settings.file, ota_settings'.length = ota_settings.length,
           ota_settings'.offset_last = ota_settings.offset_last,
           ota_settings'.crc_last = ota_settings.crc_last
    PROVE  RamHolds'
  BY DEF RamHolds, Fits, Match, Blank, Target

LEMMA RamNew ==
    ASSUME ota_settings'.file = NONE \/ ota_settings'.offset_last = 0
    PROVE  RamHolds'
  <1>1. 0 % Sector = 0
    BY Sizes, Small
  <1> QED BY <1>1 DEF RamHolds, Fits, Match

-------------------------------------------------------------------------------
(* The requests of the phone that move no data.                            *)

LEMMA IgnoredResumes ==
    ASSUME IInv, ResInv, NEW request, Requested(request), Ignored
    PROVE  ResInv'
  <1>1. /\ running # NONE /\ todo = <<>> /\ todo' = <<>>
        /\ UNCHANGED <<cells, flag, stored, running, ota_settings, tuya_ota_status>>
        /\ phone'.next = "start"
    BY PhoneMoves DEF Requested, Ready, flash, Ignored, transfer, IInv, TypeInv
  <1>2. /\ RamHolds /\ (Moving => Behind(ota_settings.offset_last))
        /\ Sound(ota_settings) /\ Aligned /\ stored' = stored
    BY <1>1, AtRest
  <1>3. Sound(ota_settings') /\ Aligned' /\ RamHolds'
    BY <1>1, <1>2, RamKept DEF Sound, Aligned
  <1>4. PhoneInv'
    BY <1>1 DEF PhoneInv
  <1>5. todo' \in Seq(LightOp')
    BY <1>1
  <1>6. Moving' => todo' = <<>> /\ Behind(ota_settings.offset_last)'
    BY <1>1, <1>2 DEF Moving, Behind, Fits
  <1> QED BY <1>1, <1>3, <1>4, <1>5, <1>6, Rests

LEMMA StartResumes ==
    ASSUME IInv, ResInv, NEW lost, tuya_ota_start_req(lost) PROVE ResInv'
  <1>1. /\ running # NONE /\ todo = <<>> /\ todo' = <<>>
        /\ UNCHANGED <<cells, flag, stored, running, ota_settings>>
        /\ tuya_ota_status' = "START"
    BY DEF tuya_ota_start_req, Requested, Ready, flash
  <1>2. RamHolds /\ Sound(ota_settings) /\ Aligned
    BY <1>1, AtRest
  <1>3. Sound(ota_settings') /\ Aligned' /\ RamHolds'
    BY <1>1, <1>2, RamKept DEF Sound, Aligned
  <1>4. PhoneInv' /\ ~Moving'
    BY <1>1 DEF PhoneInv, Moving
  <1> QED BY <1>1, <1>3, <1>4, Rests, SavesLight

(* What a reply may leave the phone with.                                  *)
LEMMA Replies ==
    ASSUME NEW a, NEW lost, Replied(a, lost)
    PROVE  phone' = a \/ phone' = phone \/ phone' = Anew
  BY DEF Replied

LEMMA SoundIs ==
    ASSUME NEW s, s.file = NONE \/ (s.write_offset = s.offset_last /\ s.length <= Length[s.file]),
           s.ota_status = "WAIT_FOR_START" => s.offset_last = 0
    PROVE  Sound(s)
  <1>1. 0 % Sector = 0
    BY Sizes, Small
  <1> QED BY <1>1 DEF Sound

LEMMA InfoResumes ==
    ASSUME IInv, ResInv, NEW lost, tuya_ota_file_info_req(lost) PROVE ResInv'
  <1>1. /\ Requested("info") /\ running # NONE /\ todo = <<>> /\ phone.next = "info"
        /\ UNCHANGED <<cells, flag, stored, running>>
        /\ phone \in Phone /\ phone.file \in File /\ ota_settings \in Good
    BY Sizes DEF tuya_ota_file_info_req, Requested, Ready, flash, IInv, TypeInv, Phone
  <1>2. RamHolds /\ Sound(ota_settings) /\ Aligned
    BY <1>1, AtRest
  <1>3. Anew.next = "start" /\ ota_settings \in Settings
    BY <1>1, PhoneMoves DEF Good
  <1>4. CASE Ignored
    BY <1>1, <1>4, IgnoredResumes
  <1>5. CASE /\ tuya_ota_status = "START"
             /\ ota_settings' = [ota_settings EXCEPT !.md5 = phone.file]
             /\ UNCHANGED <<todo, tuya_ota_status>>
    <2>1. /\ ota_settings'.file = ota_settings.file
          /\ ota_settings'.length = ota_settings.length
          /\ ota_settings'.offset_last = ota_settings.offset_last
          /\ ota_settings'.write_offset = ota_settings.write_offset
          /\ ota_settings'.crc_last = ota_settings.crc_last
          /\ ota_settings'.ota_status = ota_settings.ota_status
      BY <1>3, <1>5 DEF Settings
    <2>2. Sound(ota_settings') /\ Aligned' /\ RamHolds'
      BY <1>1, <1>2, <2>1, RamKept DEF Sound, Aligned
    <2>3. PhoneInv' /\ ~Moving'
      BY <1>5 DEF PhoneInv, Moving
    <2> QED BY <1>1, <1>5, <2>2, <2>3, Rests, SavesLight
  <1>6. CASE /\ Length[phone.file] <= FwMax
             /\ LET f == phone.file
                    same == /\ ota_settings.md5 = f /\ ota_settings.file = f
                            /\ ota_settings.length = Length[f]
                    info == [ZeroAt(ota_settings.ota_status)
                                EXCEPT !.md5 = f, !.file = f, !.length = Length[f]]
                IN  /\ ota_settings' = IF same THEN ota_settings ELSE info
                    /\ todo' = IF same THEN <<>> ELSE tuya_OTASaveSettings(info)
             /\ tuya_ota_status' = "FILE_INFO"
             /\ Replied([phone EXCEPT !.next = "offset",
                                      !.from = ota_settings'.offset_last], lost)
    <2> DEFINE f == phone.file
               info == [ZeroAt(ota_settings.ota_status)
                           EXCEPT !.md5 = f, !.file = f, !.length = Length[f]]
    <2>1. /\ info.file = f /\ info.length = Length[f] /\ info.crc_last = <<>>
          /\ info.offset_last = 0 /\ info.write_offset = 0
      BY DEF ZeroAt, Zero
    <2>2. \/ ota_settings.file = f /\ ota_settings' = ota_settings /\ todo' = <<>>
          \/ ota_settings' = info /\ todo' = tuya_OTASaveSettings(ota_settings')
      BY <1>6
    <2> HIDE DEF info
    <2>3. Sound(ota_settings') /\ Aligned' /\ RamHolds'
      <3>1. CASE ota_settings' = ota_settings
        BY <1>1, <1>2, <3>1, RamKept DEF Sound, Aligned
      <3>2. CASE ota_settings' = info
        <4>1. Sound(ota_settings')
          BY <1>1, <2>1, <3>2, SoundIs, Sizes
        <4>2. 0 % PacketLen = 0
          BY Sizes, Small
        <4>3. Aligned' /\ RamHolds'
          BY <2>1, <3>2, <4>2, RamNew DEF Aligned
        <4> QED BY <4>1, <4>3
      <3> QED BY <2>2, <3>1, <3>2
    <2>4. PhoneInv' /\ ~Moving'
      <3> DEFINE a == [phone EXCEPT !.next = "offset", !.from = ota_settings'.offset_last]
      <3>1. a.file = f /\ a.next = "offset"
        BY <1>1 DEF Phone
      <3>2. Replied(a, lost)
        BY <1>6
      <3> HIDE DEF a
      <3>3. phone' = a \/ phone' = phone \/ phone' = Anew
        BY <3>2, Replies
      <3>4. phone'.next = "offset" => phone'.file = f
        BY <1>1, <1>3, <3>1, <3>3
      <3>5. ota_settings'.file = f
        BY <2>1, <2>2
      <3>6. tuya_ota_status' = "FILE_INFO"
        BY <1>6
      <3>7. ~Moving'
        BY <3>6 DEF Moving
      <3> QED BY <3>4, <3>5, <3>6, <3>7 DEF PhoneInv
    <2>5. todo' \in Seq(LightOp')
      <3>1. todo' = <<>> \/ todo' = SavesRam'
        BY <2>2 DEF SavesRam
      <3> QED BY <3>1, SavesLight
    <2> QED BY <1>1, <2>3, <2>4, <2>5, Rests
  <1> QED BY <1>4, <1>5, <1>6 DEF tuya_ota_file_info_req

(* Whatever offset the phone takes, what the settings claim is there: the  *)
(* one that was saved, or nothing.                                         *)
LEMMA OffsetResumes ==
    ASSUME IInv, ResInv, NEW offset, NEW lost, tuya_ota_offset_req(offset, lost) PROVE ResInv'
  <1>1. /\ Requested("offset") /\ running # NONE /\ todo = <<>> /\ phone.next = "offset"
        /\ UNCHANGED <<cells, flag, stored, running>>
        /\ phone \in Phone /\ ota_settings \in Settings
    BY DEF tuya_ota_offset_req, Requested, Ready, flash, IInv, TypeInv, Good
  <1>2. RamHolds /\ Sound(ota_settings) /\ Aligned /\ PhoneInv
    BY <1>1, AtRest
  <1>3. CASE Ignored
    BY <1>1, <1>3, IgnoredResumes
  <1>4. CASE ~Ignored
    <2>1. /\ tuya_ota_status = "FILE_INFO" /\ tuya_ota_status' = "FILE_OFFSET"
          /\ todo' = SavesRam'
          /\ ota_settings' =
                IF offset = 0 /\ ota_settings.offset_last # 0
                THEN [ota_settings EXCEPT !.crc_last = <<>>, !.offset_last = 0,
                          !.write_offset = 0, !.ota_status = "APP_DOWNLOADING"]
                ELSE [ota_settings EXCEPT !.ota_status = "APP_DOWNLOADING"]
          /\ Replied([phone EXCEPT
                         !.next = IF ota_settings'.offset_last < Length[phone.file]
                                  THEN "data" ELSE "end",
                         !.from = ota_settings'.offset_last,
                         !.num = 0], lost)
      BY <1>4 DEF tuya_ota_offset_req, SavesRam
    <2>2. /\ ota_settings'.file = ota_settings.file
          /\ ota_settings'.length = ota_settings.length
          /\ ota_settings'.ota_status = "APP_DOWNLOADING"
          /\ \/ ota_settings'.offset_last = 0 /\ ota_settings'.write_offset = 0
             \/ /\ ota_settings'.offset_last = ota_settings.offset_last
                /\ ota_settings'.write_offset = ota_settings.write_offset
                /\ ota_settings'.crc_last = ota_settings.crc_last
      BY <1>1, <2>1 DEF Settings
    <2>3. Sound(ota_settings')
      BY <1>2, <2>2 DEF Sound
    <2>4. Aligned'
      <3>1. 0 % PacketLen = 0
        BY Sizes, Small
      <3> QED BY <1>2, <2>2, <3>1 DEF Aligned
    <2>5. RamHolds'
      BY <1>1, <1>2, <2>2, RamKept, RamNew
    <2>6. PhoneInv'
      <3> DEFINE k == ota_settings'.offset_last
                 n == IF k < Length[phone.file] THEN "data" ELSE "end"
                 a == [phone EXCEPT !.next = n, !.from = k, !.num = 0]
      <3>1. a.file = phone.file /\ a.from = k /\ a.num = 0 /\ n # "offset"
        BY <1>1 DEF Phone
      <3>2. Replied(a, lost)
        BY <2>1
      <3>3. k \in Nat
        BY <1>1, <2>2, Sizes DEF Settings, Offset
      <3>4. a.from + a.num * PacketLen = k
        BY <3>1, <3>3, Sizes
      <3>5. Anew.next = "start"
        BY <1>1, PhoneMoves
      <3> HIDE DEF a, n
      <3>6. phone' = a \/ phone' = phone \/ phone' = Anew
        BY <3>2, Replies
      <3>7. phone'.next = "data" => phone' = a
        BY <1>1, <3>5, <3>6
      <3>8. phone'.next = "data" => PacketFrom' = k
        BY <3>4, <3>7 DEF PacketFrom
      <3>9. phone'.next = "data" => phone'.file = ota_settings'.file
        BY <1>1, <1>2, <2>1, <2>2, <3>1, <3>7 DEF PhoneInv
      <3> QED BY <2>1, <3>3, <3>8, <3>9 DEF PhoneInv
    <2> QED BY <1>1, <2>1, <2>3, <2>4, <2>5, <2>6, Rests, SavesLight
  <1> QED BY <1>3, <1>4

(* The last request reads back or forgets.                                 *)
LEMMA EndResumes ==
    ASSUME IInv, ResInv, NEW lost, tuya_ota_end_req(lost) PROVE ResInv'
  <1>1. /\ Requested("end") /\ running # NONE /\ todo = <<>> /\ phone.next = "end"
        /\ UNCHANGED <<cells, flag, stored, running>> /\ phone \in Phone
    BY DEF tuya_ota_end_req, Requested, Ready, flash, IInv, TypeInv
  <1>2. /\ RamHolds /\ Sound(ota_settings) /\ Aligned
        /\ Moving => Behind(ota_settings.offset_last)
    BY <1>1, AtRest
  <1>3. CASE Ignored
    BY <1>1, <1>3, IgnoredResumes
  <1>4. CASE phone' = [phone EXCEPT !.next = "wait"] /\ UNCHANGED <<todo, transfer>>
    <2>1. /\ UNCHANGED <<todo, ota_settings, tuya_ota_status>> /\ phone'.next = "wait"
      BY <1>1, <1>4, PhoneMoves DEF transfer
    <2>2. Sound(ota_settings') /\ Aligned' /\ RamHolds'
      BY <1>1, <1>2, <2>1, RamKept DEF Sound, Aligned
    <2>3. PhoneInv'
      BY <2>1 DEF PhoneInv
    <2>4. Moving' => todo' = <<>> /\ Behind(ota_settings.offset_last)'
      BY <1>1, <1>2, <2>1 DEF Moving, Behind, Fits
    <2> QED BY <1>1, <2>1, <2>2, <2>3, <2>4, Rests, SavesLight
  <1>5. CASE /\ ota_settings' = Zero /\ todo' = tuya_OTASaveSettings(Zero)
             /\ tuya_ota_status' = "NONE"
    <2>1. todo' = SavesRam' /\ ota_settings'.file = NONE /\ ota_settings'.offset_last = 0
      BY <1>5 DEF SavesRam, Zero
    <2>2. Sound(ota_settings') /\ Aligned' /\ RamHolds'
      BY <2>1, SoundIs, RamNew DEF Aligned
    <2>3. PhoneInv' /\ ~Moving'
      BY <1>5 DEF PhoneInv, Moving
    <2> QED BY <1>1, <2>1, <2>2, <2>3, Rests, SavesLight
  <1> QED BY <1>3, <1>4, <1>5 DEF tuya_ota_end_req

(* A refused packet: the sector may go, and the settings do.               *)
LEMMA RefusedResumes ==
    ASSUME IInv, ResInv, NEW lost, DataRefused(lost) PROVE ResInv'
  <1>0. PICK w : w = ota_settings.write_offset
    OBVIOUS
  <1>1. /\ running # NONE /\ todo = <<>>
        /\ UNCHANGED <<cells, flag, stored, running>> /\ ota_settings \in Good
    BY DEF DataRefused, Requested, Ready, flash, IInv, TypeInv
  <1>2. /\ Moving /\ ota_settings.file # NONE /\ w = ota_settings.offset_last
        /\ Behind(w) /\ w \in Nat
    <2>1. Moving /\ ota_settings.file # NONE
      BY DEF DataRefused, Moving, IInv, StatusInv
    <2>2. w = ota_settings.offset_last /\ Behind(w)
      BY <1>0, <1>1, <2>1, AtRest DEF Sound
    <2> QED BY <1>0, <1>1, <2>1, <2>2, GoodFields, Sizes DEF Offset
  <1>3. /\ ota_settings' = ZeroAt("WAIT_FOR_EREASE") /\ tuya_ota_status' = "NONE"
        /\ todo' = SectorErased \o SavesRam'
    BY DEF DataRefused, SavesRam
  <1>4. ota_settings'.file = NONE /\ ota_settings'.ota_status = "WAIT_FOR_EREASE"
    BY <1>3 DEF ZeroAt, Zero
  <1>5. Sound(ota_settings') /\ Aligned' /\ RamHolds' /\ PhoneInv' /\ ~Moving'
    BY <1>3, <1>4, RamNew DEF Sound, Aligned, PhoneInv, Moving
  <1>6. CASE SectorErased = <<>>
    <2>1. todo' = SavesRam'
      BY <1>3, <1>6, SavesLight
    <2> QED BY <1>1, <1>5, <2>1, Rests, SavesLight
  <1>7. CASE SectorErased = <<EraseOp(w)>>
    <2>1. Refusing'
      <3>1. todo' = <<EraseOp(w)>> \o <<ClearOp, RamOp'>>
        BY <1>3, <1>7, SavesLight
      <3>2. Behind(w)'
        BY <1>1, <1>2 DEF Behind, Fits
      <3> QED BY <1>2, <1>4, <1>5, <3>1, <3>2 DEF Refusing, Moving, ClearOp, EraseOp
    <2>2. StoredHolds(Target)'
      BY <1>1 DEF ResInv, OnInv, StoredHolds, Target, Fits
    <2>3. flag'[running'] # "unset" /\ (stored' # Torn => Sound(stored)')
      BY <1>1 DEF ResInv, OnInv, Sound
    <2> QED BY <1>1, <1>5, <2>1, <2>2, <2>3 DEF ResInv, OnInv
  <1>8. SectorErased = <<>> \/ SectorErased = <<EraseOp(w)>>
    BY <1>0 DEF SectorErased, Erase, EraseOp
  <1> QED BY <1>6, <1>7, <1>8

-------------------------------------------------------------------------------
(* A packet.                                                               *)

(* The packet that is sent: full, or the end of its file.                  *)
LEMMA PacketEnds ==
    ASSUME phone \in Phone, phone.next = "data"
    PROVE  /\ PacketFrom \in Nat /\ Length[phone.file] \in Nat
           /\ Len(Packet) = PacketLen \/ PacketFrom + Len(Packet) = Length[phone.file]
           /\ AfterPacket.file = phone.file /\ AfterPacket.from = phone.from
           /\ AfterPacket.num = phone.num + 1 /\ AfterPacket.next # "offset"
           /\ AfterPacket.next = "data" => Len(Packet) = PacketLen
           /\ phone.from + (phone.num + 1) * PacketLen = PacketFrom + PacketLen
  <1>1. /\ phone.file \in Offered /\ phone.from \in Nat /\ phone.num \in Nat
        /\ phone.from + phone.num * PacketLen < Length[phone.file]
    BY DEF Phone
  <1>2. Length[phone.file] \in Nat
    BY <1>1, Sizes
  <1>3. /\ phone.num * PacketLen \in Nat
        /\ (phone.num + 1) * PacketLen = phone.num * PacketLen + PacketLen
    BY <1>1, Sizes
  <1>4. PacketFrom \in Nat /\ PacketFrom < Length[phone.file]
    BY <1>1, <1>3 DEF PacketFrom
  <1>5. Len(Packet) = PacketTo - PacketFrom /\ PacketTo \in Nat
    <2>1. PacketTo \in Nat /\ PacketTo - PacketFrom \in Nat
      BY <1>2, <1>4, Sizes DEF PacketTo
    <2> QED BY <2>1 DEF Packet
  <1>6. Len(Packet) = PacketLen \/ PacketFrom + Len(Packet) = Length[phone.file]
    BY <1>2, <1>4, <1>5, Sizes DEF PacketTo
  <1>7. /\ AfterPacket.file = phone.file /\ AfterPacket.from = phone.from
        /\ AfterPacket.num = phone.num + 1 /\ AfterPacket.next # "offset"
        /\ AfterPacket.next = "data" => PacketTo < Length[phone.file]
    BY DEF AfterPacket, Phone
  <1>8. PacketTo < Length[phone.file] => Len(Packet) = PacketLen
    BY <1>2, <1>4, <1>5, Sizes DEF PacketTo
  <1>9. phone.from + (phone.num + 1) * PacketLen = PacketFrom + PacketLen
    <2> DEFINE x == phone.num * PacketLen  y == (phone.num + 1) * PacketLen
    <2>1. x \in Nat /\ y = x + PacketLen /\ PacketFrom = phone.from + x
      BY <1>3 DEF PacketFrom
    <2> HIDE DEF x, y
    <2>2. phone.from + y = PacketFrom + PacketLen
      BY <1>1, <2>1, Sizes
    <2> QED BY <2>2 DEF y
  <1> QED BY <1>2, <1>4, <1>6, <1>7, <1>8, <1>9

(* What the handler of a packet does, in terms of the bytes b that go to   *)
(* the place n.                                                            *)
LEMMA DataIs ==
    ASSUME IInv, ResInv, NEW lost, tuya_ota_data_req(lost), ~Ignored
    PROVE  \E n \in Nat, b \in Seq(Byte) :
              /\ n = ota_settings.offset_last /\ n \in Offset /\ b = Packet
              /\ n % PacketLen \in Nat
              /\ Len(b) \in 1 .. PacketLen
              /\ ota_settings.file \in File /\ ota_settings.length \in Nat
              /\ ota_settings.length <= Length[ota_settings.file]
              /\ ota_settings.crc_last \in Seq(Byte)
              /\ ota_settings'.file = ota_settings.file
              /\ ota_settings'.length = ota_settings.length
              /\ ota_settings'.offset_last = n + Len(b)
              /\ ota_settings'.write_offset = n + Len(b)
              /\ ota_settings'.crc_last = ota_settings.crc_last \o b
              /\ ota_settings'.ota_status = "APP_DOWNLOADING"
              /\ \E t : /\ t = <<>> \/ t = <<ClearOp, RamOp'>>
                        /\ todo' = IF n % Sector = 0
                                   THEN <<EraseOp(n)>> \o (<<WriteOp(n, b)>> \o t)
                                   ELSE <<WriteOp(n, b)>> \o t
  <1>1. /\ ota_settings \in Settings /\ phone \in Phone /\ phone.next = "data"
        /\ running # NONE /\ todo = <<>>
    BY DEF tuya_ota_data_req, Requested, Ready, IInv, TypeInv, Good
  <1>2. /\ Moving /\ NumberOk
        /\ ota_settings' = [ota_settings EXCEPT !.crc_last = @ \o Packet,
                                                !.write_offset = @ + Len(Packet),
                                                !.offset_last = @ + Len(Packet)]
        /\ todo' = Stores(ota_settings')
    BY DEF tuya_ota_data_req, Moving
  <1>3. Packet \in Seq(Byte) /\ Len(Packet) \in 1 .. PacketLen
    BY <1>1, PacketIs
  <1>4. ota_settings.file # NONE /\ ota_settings.ota_status = "APP_DOWNLOADING"
    BY <1>2 DEF IInv, StatusInv, Moving
  <1>5. /\ ota_settings.write_offset = ota_settings.offset_last
        /\ ota_settings.length <= Length[ota_settings.file]
    BY <1>1, <1>4, AtRest DEF Sound
  <1>6. PICK n \in Nat, b \in Seq(Byte) : n = ota_settings.offset_last /\ b = Packet
    BY <1>1, <1>3, Sizes DEF Settings, Offset
  <1>7. /\ ota_settings'.file = ota_settings.file
        /\ ota_settings'.length = ota_settings.length
        /\ ota_settings'.offset_last = n + Len(b)
        /\ ota_settings'.write_offset = n + Len(b)
        /\ ota_settings'.crc_last = ota_settings.crc_last \o b
        /\ ota_settings'.ota_status = "APP_DOWNLOADING"
    BY <1>1, <1>2, <1>4, <1>5, <1>6 DEF Settings
  <1>8. \E t : /\ t = <<>> \/ t = <<ClearOp, RamOp'>>
               /\ todo' = IF n % Sector = 0
                          THEN <<EraseOp(n)>> \o (<<WriteOp(n, b)>> \o t)
                          ELSE <<WriteOp(n, b)>> \o t
    <2> DEFINE t == ProgressSaved(ota_settings')
    <2>1. t = <<>> \/ t = <<ClearOp, RamOp'>>
      BY DEF ProgressSaved, tuya_OTASaveSettings, ClearOp, RamOp
    <2>2. todo' = SectorErased \o Write(n, b) \o t
      BY <1>2, <1>5, <1>6 DEF Stores
    <2>3. Write(n, b) = <<WriteOp(n, b)>>
      BY DEF Write, WriteOp
    <2>4. SectorErased = IF n % Sector = 0 THEN <<EraseOp(n)>> ELSE <<>>
      BY <1>2, <1>5, <1>6 DEF SectorErased, Erase, EraseOp
    <2> HIDE DEF t
    <2> DEFINE o == WriteOp(n, b)  e == EraseOp(n)
    <2>5. todo' = (IF n % Sector = 0 THEN <<e>> ELSE <<>>) \o <<o>> \o t
      BY <2>2, <2>3, <2>4
    <2>6. PICK c, r : t = <<>> \/ t = <<c, r>>
      BY <2>1
    <2>7. t \in Seq({c, r})
      <3>1. <<>> \in Seq({c, r}) /\ <<c, r>> \in Seq({c, r})
        OBVIOUS
      <3> QED BY <2>6, <3>1, Zenon
    <2> HIDE DEF o, e
    <2>8. (<<e>> \o <<o>>) \o t = <<e>> \o (<<o>> \o t) /\ (<<>> \o <<o>>) \o t = <<o>> \o t
      BY <2>7
    <2>9. todo' = IF n % Sector = 0 THEN <<e>> \o (<<o>> \o t) ELSE <<o>> \o t
      BY <2>5, <2>8
    <2> QED BY <2>1, <2>9 DEF o, e
  <1>9. n \in Offset /\ n % PacketLen \in Nat
    BY <1>1, <1>6, Sizes, DivNat DEF Settings
  <1>10. /\ ota_settings.file \in File /\ ota_settings.length \in Nat
         /\ ota_settings.crc_last \in Seq(Byte)
    BY <1>1, <1>4 DEF Settings
  <1> QED BY <1>3, <1>5, <1>6, <1>7, <1>8, <1>9, <1>10

(* The sequence a packet is appended to stays as it was.                   *)
LEMMA Extended ==
    ASSUME NEW c \in Seq(Byte), NEW b \in Seq(Byte)
    PROVE  /\ Len(c \o b) = Len(c) + Len(b)
           /\ \A i \in 1 .. Len(c) : (c \o b)[i] = c[i]
           /\ \A i \in 1 .. Len(b) : (c \o b)[Len(c) + i] = b[i]
  BY ConcatProperties

(* A packet leaves its erase and its write to be done. The places before   *)
(* it are as they were, and those it goes to are erased by then.           *)
LEMMA DataResumes ==
    ASSUME IInv, ResInv, NEW lost, tuya_ota_data_req(lost) PROVE ResInv'
  <1>1. /\ Requested("data") /\ running # NONE /\ todo = <<>> /\ phone.next = "data"
        /\ UNCHANGED <<cells, flag, stored, running>> /\ phone \in Phone
    BY DEF tuya_ota_data_req, Requested, Ready, flash, IInv, TypeInv
  <1>2. CASE Ignored
    BY <1>1, <1>2, IgnoredResumes
  <1>3. CASE ~Ignored
    <2>1. PICK n \in Nat, b \in Seq(Byte) :
              /\ n = ota_settings.offset_last /\ n \in Offset /\ b = Packet
              /\ n % PacketLen \in Nat
              /\ Len(b) \in 1 .. PacketLen
              /\ ota_settings.file \in File /\ ota_settings.length \in Nat
              /\ ota_settings.length <= Length[ota_settings.file]
              /\ ota_settings.crc_last \in Seq(Byte)
              /\ ota_settings'.file = ota_settings.file
              /\ ota_settings'.length = ota_settings.length
              /\ ota_settings'.offset_last = n + Len(b)
              /\ ota_settings'.write_offset = n + Len(b)
              /\ ota_settings'.crc_last = ota_settings.crc_last \o b
              /\ ota_settings'.ota_status = "APP_DOWNLOADING"
              /\ \E t : /\ t = <<>> \/ t = <<ClearOp, RamOp'>>
                        /\ todo' = IF n % Sector = 0
                                   THEN <<EraseOp(n)>> \o (<<WriteOp(n, b)>> \o t)
                                   ELSE <<WriteOp(n, b)>> \o t
      BY <1>3, DataIs
    <2>2. PICK t : /\ t = <<>> \/ t = <<ClearOp, RamOp'>>
                   /\ todo' = IF n % Sector = 0
                              THEN <<EraseOp(n)>> \o (<<WriteOp(n, b)>> \o t)
                              ELSE <<WriteOp(n, b)>> \o t
      BY <2>1
    <2>3. /\ RamHolds /\ Sound(ota_settings) /\ Aligned /\ PhoneInv
          /\ stored # Torn => Sound(stored)
      BY <1>1, AtRest
    <2>4. Moving /\ tuya_ota_status' = "FILE_DATA" /\ Replied(AfterPacket, lost)
      BY <1>3 DEF tuya_ota_data_req, Moving
    <2>5. Behind(n)'
      BY <1>1, <2>1, <2>4, AtRest DEF Behind, Fits
    <2>6. Length[ota_settings.file] \in Nat /\ ota_settings.file # NONE
      BY <2>1, Sizes
    <2>7. Sound(ota_settings')
      BY <2>1 DEF Sound
    <2>8. phone.file = ota_settings.file /\ PacketFrom <= n
      BY <1>1, <2>1, <2>3, <2>4 DEF PhoneInv
    <2>9. Aligned'
      <3>1. ASSUME n + Len(b) < Length[ota_settings.file]
            PROVE  (n + Len(b)) % PacketLen = 0
        <4>1. PacketFrom \in Nat /\ (Len(b) = PacketLen \/ PacketFrom + Len(b) = Length[phone.file])
          BY <1>1, <2>1, PacketEnds
        <4>2. Len(b) = PacketLen
          BY <2>1, <2>6, <2>8, <3>1, <4>1
        <4>3. n % PacketLen = 0
          <5>1. Len(b) \in Nat \ {0} /\ Length[ota_settings.file] \in Nat
            BY <2>1, <2>6, Sizes
          <5>2. n < Length[ota_settings.file]
            BY <3>1, <5>1
          <5> QED BY <2>1, <2>3, <2>6, <5>2 DEF Aligned
        <4>4. (n + PacketLen) % PacketLen = n % PacketLen
          BY OneRound, Sizes
        <4> QED BY <4>2, <4>3, <4>4
      <3> QED BY <2>1, <3>1 DEF Aligned
    <2>10. PhoneInv'
      <3>1. phone' = AfterPacket \/ phone' = phone \/ phone' = Anew
        BY <2>4, Replies
      <3>2. Anew.next = "start"
        BY <1>1, PhoneMoves
      <3>3. ASSUME phone' = phone, phone.next = "data"
            PROVE  phone'.file = ota_settings'.file /\ PacketFrom' <= n + Len(b)
        <4>1. PacketFrom' = PacketFrom /\ PacketFrom \in Nat
          BY <1>1, <3>3, PacketEnds DEF PacketFrom
        <4> QED BY <2>1, <2>8, <3>3, <4>1
      <3>4. ASSUME phone' = AfterPacket, AfterPacket.next = "data"
            PROVE  phone'.file = ota_settings'.file /\ PacketFrom' <= n + Len(b)
        <4>1. /\ AfterPacket.file = phone.file /\ AfterPacket.from = phone.from
              /\ AfterPacket.num = phone.num + 1 /\ Len(b) = PacketLen
              /\ phone.from + (phone.num + 1) * PacketLen = PacketFrom + PacketLen
              /\ PacketFrom \in Nat
          BY <1>1, <2>1, <3>4, PacketEnds
        <4>2. PacketFrom' = PacketFrom + PacketLen
          BY <3>4, <4>1 DEF PacketFrom
        <4> QED BY <2>1, <2>8, <3>4, <4>1, <4>2, Sizes
      <3>5. phone'.next = "data" =>
               phone'.file = ota_settings'.file /\ PacketFrom' <= ota_settings'.offset_last
        BY <1>1, <2>1, <3>1, <3>2, <3>3, <3>4
      <3> QED BY <2>4, <3>5 DEF PhoneInv
    <2>11. ASSUME Fits(ota_settings')
           PROVE  /\ Fits(ota_settings) /\ n + Len(b) <= SectorEnd(n)
                  /\ \A i \in 1 .. Len(b) : b[i] = ota_settings'.crc_last[n + i]
                  /\ \A i \in 1 .. n : ota_settings'.crc_last[i] = ota_settings.crc_last[i]
      <3> DEFINE c == ota_settings.crc_last
      <3>1. /\ Len(c \o b) = Len(c) + Len(b) /\ Len(c) \in Nat
            /\ \A i \in 1 .. Len(c) : (c \o b)[i] = c[i]
            /\ \A i \in 1 .. Len(b) : (c \o b)[Len(c) + i] = b[i]
        BY <2>1, Extended
      <3>2. n + Len(b) <= ota_settings.length /\ Len(c \o b) = n + Len(b)
        BY <2>1, <2>11 DEF Fits
      <3>3. Len(c) = n /\ n <= ota_settings.length /\ n < Length[ota_settings.file]
        <4> DEFINE k == Len(b)  m == Len(c)  l == ota_settings.length
                   f == Length[ota_settings.file]
        <4>1. /\ k \in Nat \ {0} /\ m \in Nat /\ l \in Nat /\ f \in Nat
              /\ m + k = n + k /\ n + k <= l /\ l <= f
          BY <2>1, <2>6, <3>1, <3>2, Sizes
        <4> HIDE DEF k, m, l, f
        <4>2. m = n /\ n <= l /\ n < f
          BY <4>1
        <4> QED BY <4>2 DEF m, l, f
      <3>4. Fits(ota_settings)
        BY <2>1, <2>6, <3>3 DEF Fits
      <3>5. n + PacketLen <= SectorEnd(n)
        <4>1. n % PacketLen = 0
          BY <2>1, <2>3, <2>6, <3>3 DEF Aligned
        <4> QED BY <4>1, StaysInSector
      <3>6. n + Len(b) <= SectorEnd(n)
        <4>1. SectorEnd(n) \in Nat /\ Len(b) \in 1 .. PacketLen /\ PacketLen \in Nat
          BY <2>1, SectorsAre, Sizes
        <4> QED BY <3>5, <4>1
      <3> QED BY <2>1, <3>1, <3>3, <3>4, <3>6
    <2>12. Carries(n, b, t)'
      BY <2>1, <2>2, <2>5, <2>11 DEF Carries, ClearOp
    <2>13. ASSUME Fits(ota_settings'), n = 0 \/ flag[Target] = "unset"
           PROVE  Match(n)' /\ (n % Sector # 0 => Blank(n)')
      <3>1. Fits(ota_settings)
        BY <2>11, <2>13
      <3>2. CASE n = 0
        <4>1. 0 % Sector = 0
          BY Sizes, Small
        <4> QED BY <3>2, <4>1 DEF Match
      <3>3. CASE flag[Target] = "unset"
        <4>1. Match(n) /\ (n % Sector # 0 => Blank(n))
          BY <2>1, <2>3, <3>1, <3>3 DEF RamHolds
        <4> QED BY <1>1, <2>11, <2>13, <4>1 DEF Match, Blank, Target
      <3> QED BY <2>13, <3>2, <3>3
    <2>14. CASE n % Sector = 0
      <3>1. Erasing'
        BY <1>1, <2>2, <2>12, <2>13, <2>14 DEF Erasing, EraseOp, WriteOp, Target
      <3> QED BY <1>1, <2>3, <2>7, <2>9, <2>10, <3>1
          DEF ResInv, OnInv, StoredHolds, Target, Fits, Sound
    <2>15. CASE n % Sector # 0
      <3>1. Writing'
        BY <1>1, <2>2, <2>12, <2>13, <2>15 DEF Writing, WriteOp, Target
      <3> QED BY <1>1, <2>3, <2>7, <2>9, <2>10, <3>1
          DEF ResInv, OnInv, StoredHolds, Target, Fits, Sound
    <2> QED BY <2>14, <2>15
  <1> QED BY <1>2, <1>3

-------------------------------------------------------------------------------
(* The other steps that move no data.                                      *)

LEMMA SameResumes ==
    ASSUME ResInv, phone'.next \notin {"offset", "data"} \/ phone' = phone,
           UNCHANGED <<cells, flag, stored, running, todo, ota_settings, tuya_ota_status>>
    PROVE  ResInv'
  <1>1. StoredHolds(1 - BootBank) => StoredHolds(1 - BootBank)'
    BY DEF StoredHolds, Fits, BootBank
  <1>2. StoredHolds(Target) => StoredHolds(Target)'
    BY DEF StoredHolds, Fits, Target
  <1>3. Sound(ota_settings)' <=> Sound(ota_settings)
    BY DEF Sound
  <1>4. (stored # Torn => Sound(stored)) => (stored' # Torn => Sound(stored)')
    BY DEF Sound
  <1>5. PhoneInv => PhoneInv'
    BY DEF PhoneInv, PacketFrom, Moving
  <1>6. Aligned => Aligned'
    BY DEF Aligned
  <1>7. Resting => Resting'
    BY DEF Resting, LightOp, ClearOp, RamOp, FlagOp, Target, RamHolds, Fits, Match, Blank,
           Moving, Behind
  <1>8. \A w, b, t : Carries(w, b, t) => Carries(w, b, t)'
    BY DEF Carries, Behind, Fits, ClearOp, RamOp
  <1>9. \A w : (Match(w) => Match(w)') /\ (Blank(w) => Blank(w)')
    BY DEF Match, Blank, Target
  <1>10. Writing => Writing'
    BY <1>8, <1>9 DEF Writing, WriteOp, Fits, Target
  <1>11. Erasing => Erasing'
    BY <1>8, <1>9 DEF Erasing, WriteOp, EraseOp, Fits, Target
  <1>12. Refusing => Refusing'
    BY DEF Refusing, EraseOp, ClearOp, RamOp, Behind, Fits, Moving
  <1> QED BY <1>1, <1>2, <1>3, <1>4, <1>5, <1>6, <1>7, <1>10, <1>11, <1>12
      DEF ResInv, OnInv

LEMMA ReadPieceResumes == ASSUME ResInv, ReadPiece PROVE ResInv'
  BY SameResumes DEF ReadPiece, flash, transfer

LEMMA ChoosesResumes == ASSUME IInv, ResInv, NEW f \in Offered, PhoneChooses(f) PROVE ResInv'
  <1>1. phone'.next = "start"
    BY PhoneMoves DEF PhoneChooses, IInv, TypeInv
  <1> QED BY <1>1, SameResumes DEF PhoneChooses, flash, transfer

LEMMA RestartsResumes == ASSUME IInv, ResInv, PhoneRestarts PROVE ResInv'
  <1>1. phone'.next = "start"
    BY PhoneMoves DEF PhoneRestarts, IInv, TypeInv
  <1> QED BY <1>1, SameResumes DEF PhoneRestarts, flash, transfer

LEMMA TimeoutResumes == ASSUME IInv, ResInv, ota_timeout_handler PROVE ResInv'
  <1>1. /\ running # NONE /\ todo = <<>> /\ todo' = <<>> /\ tuya_ota_status' = "NONE"
        /\ UNCHANGED <<cells, flag, stored, running, ota_settings, phone>>
    BY DEF ota_timeout_handler, Ready, flash
  <1>2. RamHolds /\ Sound(ota_settings) /\ Aligned
    BY <1>1, AtRest
  <1>3. Sound(ota_settings') /\ Aligned' /\ RamHolds'
    BY <1>1, <1>2, RamKept DEF Sound, Aligned
  <1>4. PhoneInv' /\ ~Moving'
    BY <1>1 DEF PhoneInv, Moving
  <1> QED BY <1>1, <1>3, <1>4, Rests, SavesLight

(* The settings are forgotten, whatever was read back.                     *)
LEMMA EndHandlerResumes == ASSUME IInv, ResInv, ota_end_handler PROVE ResInv'
  <1>1. /\ running # NONE /\ todo = <<>> /\ tuya_ota_status' = "NONE"
        /\ UNCHANGED <<cells, flag, stored, running, phone>>
    BY DEF ota_end_handler, Ready, flash
  <1>2. \E w, ops :
           /\ ota_settings' = [ZeroAt("WAIT_FOR_EREASE") EXCEPT !.write_offset = w]
           /\ ops = <<>> \/ ops = tuya_OTASetBootFlag
           /\ todo' = ops \o SavesRam'
    <2> DEFINE n == ota_settings.offset_last % PacketLen
               good == CrcSoFar \o ReadBack(n) = FileCrc(ota_settings.file)
               w == IF good THEN ota_settings.write_offset ELSE 0
               ops == IF good THEN tuya_OTASetBootFlag ELSE <<>>
    <2>1. /\ ota_settings' = [ZeroAt("WAIT_FOR_EREASE") EXCEPT !.write_offset = w]
          /\ todo' = ops \o SavesRam'
      BY DEF ota_end_handler, SavesRam
    <2>2. ops = <<>> \/ ops = tuya_OTASetBootFlag
      OBVIOUS
    <2> HIDE DEF w, ops
    <2> QED BY <2>1, <2>2
  <1>3. ota_settings'.file = NONE /\ ota_settings'.ota_status = "WAIT_FOR_EREASE"
    BY <1>2 DEF ZeroAt, Zero
  <1>4. todo' \in Seq(LightOp')
    <2>1. PICK ops : ops \in {<<>>, tuya_OTASetBootFlag} /\ todo' = ops \o SavesRam'
      BY <1>2
    <2> DEFINE o == FlagOp(Target, "valid")  p == FlagOp(running, "invalid")  L == LightOp'
               saves == SavesRam'
    <2>2. o \in L /\ p \in L /\ saves \in Seq(L)
      BY <1>1, SavesLight DEF LightOp, Target
    <2>3. ops = <<>> \/ ops = <<o>> \o <<>> \/ ops = <<o>> \o <<p>>
      <3>1. SetFlag(Target, "valid") = <<o>> /\ SetFlag(running, "invalid") = <<p>>
        BY DEF SetFlag, FlagOp
      <3> HIDE DEF o, p
      <3>2. tuya_OTASetBootFlag = <<o>> \o IF flag[Target] = "invalid" THEN <<>> ELSE <<p>>
        BY <3>1 DEF tuya_OTASetBootFlag
      <3>3. tuya_OTASetBootFlag = <<o>> \o <<>> \/ tuya_OTASetBootFlag = <<o>> \o <<p>>
        BY <3>2, Zenon
      <3> QED BY <2>1, <3>3, Zenon
    <2>4. todo' = ops \o saves
      BY <2>1
    <2> HIDE DEF o, p, L, saves
    <2>5. ops \in Seq(L)
      <3>1. <<>> \in Seq(L) /\ <<o>> \in Seq(L) /\ <<p>> \in Seq(L)
        BY <2>2
      <3>2. <<o>> \o <<>> \in Seq(L) /\ <<o>> \o <<p>> \in Seq(L)
        BY <3>1
      <3> QED BY <2>3, <3>1, <3>2, Zenon
    <2>6. todo' \in Seq(L)
      BY <2>2, <2>4, <2>5
    <2> QED BY <2>6 DEF L
  <1>5. Sound(ota_settings') /\ Aligned' /\ RamHolds'
    BY <1>3, RamNew DEF Sound, Aligned
  <1>6. PhoneInv' /\ ~Moving'
    BY <1>1 DEF PhoneInv, Moving
  <1> QED BY <1>1, <1>4, <1>5, <1>6, Rests

-------------------------------------------------------------------------------
(* What the operations of a packet leave of the target bank.               *)

KeptBefore(w) == \A i \in Place : i < w => cells'[Target][i] = cells[Target][i]

LEMMA EraseLeaves ==
    ASSUME TypeInv, running \in Bank, NEW w \in Nat
    PROVE  /\ Done(EraseOp(w)) =>
                 /\ KeptBefore(w) /\ stored' = stored /\ flag' = FlagErased(w)
                 /\ \A i \in Place : i \in SectorAt(w) => cells'[Target][i] = Erased
           /\ Interrupted(EraseOp(w)) =>
                 KeptBefore(w) /\ stored' = stored /\ flag' \in {flag, FlagErased(w)}
  <1> DEFINE o == EraseOp(w)
             g == [i \in Place |-> IF i \in SectorAt(w) THEN Erased ELSE cells[Target][i]]
             h == [i \in Place |-> IF i \in SectorAt(w) THEN Junk ELSE cells[Target][i]]
  <1>1. /\ cells \in CellType /\ Target \in Bank
        /\ o.op = "erase" /\ o.at = w /\ Place \subseteq Int
    BY Banks DEF TypeInv, CellType, EraseOp, Place
  <1>2. \A i \in Place : i < w => i \notin SectorAt(w)
    BY <1>1 DEF SectorAt
  <1>3. ASSUME Done(o)
        PROVE  /\ KeptBefore(w) /\ stored' = stored /\ flag' = FlagErased(w)
               /\ \A i \in Place : i \in SectorAt(w) => cells'[Target][i] = Erased
    <2>1. cells' = [cells EXCEPT ![Target] = g] /\ flag' = FlagErased(w) /\ stored' = stored
      BY <1>1, <1>3 DEF Done, CellType
    <2>2. cells'[Target] = g
      BY <1>1, <2>1 DEF CellType
    <2> QED BY <1>2, <2>1, <2>2 DEF KeptBefore
  <1>4. ASSUME Interrupted(o)
        PROVE  KeptBefore(w) /\ stored' = stored /\ flag' \in {flag, FlagErased(w)}
    <2>1. /\ cells' = [cells EXCEPT ![Target] = h] /\ flag' \in {flag, FlagErased(w)}
          /\ stored' = stored
      BY <1>1, <1>4 DEF Interrupted, CellType
    <2>2. cells'[Target] = h
      BY <1>1, <2>1 DEF CellType
    <2> QED BY <1>2, <2>1, <2>2 DEF KeptBefore
  <1> QED BY <1>3, <1>4

LEMMA WriteLeaves ==
    ASSUME TypeInv, running \in Bank, NEW w \in Nat, NEW b \in Seq(Byte)
    PROVE  /\ Done(WriteOp(w, b)) =>
                 /\ KeptBefore(w) /\ UNCHANGED <<flag, stored>>
                 /\ \A i \in Place : i >= w + Len(b) => cells'[Target][i] = cells[Target][i]
                 /\ \A i \in Place : i \in w .. w + Len(b) - 1 /\ cells[Target][i] = Erased
                                     => cells'[Target][i] = b[i - w + 1]
           /\ Interrupted(WriteOp(w, b)) => KeptBefore(w) /\ UNCHANGED <<flag, stored>>
  <1> DEFINE o == WriteOp(w, b)
             g == [i \in Place |-> IF i \in w .. w + Len(b) - 1
                                   THEN Written(cells[Target][i], b[i - w + 1])
                                   ELSE cells[Target][i]]
             h == [i \in Place |-> IF i \in w .. w + Len(b) - 1 THEN Junk ELSE cells[Target][i]]
  <1>1. /\ cells \in CellType /\ Target \in Bank
        /\ o.op = "write" /\ o.at = w /\ o.bytes = b /\ Place \subseteq Int /\ Len(b) \in Nat
    BY Banks DEF TypeInv, CellType, WriteOp, Place
  <1>2. \A i \in Place : i < w \/ i >= w + Len(b) => i \notin w .. w + Len(b) - 1
    BY <1>1
  <1>3. ASSUME Done(o)
        PROVE  /\ KeptBefore(w) /\ UNCHANGED <<flag, stored>>
               /\ \A i \in Place : i >= w + Len(b) => cells'[Target][i] = cells[Target][i]
               /\ \A i \in Place : i \in w .. w + Len(b) - 1 /\ cells[Target][i] = Erased
                                   => cells'[Target][i] = b[i - w + 1]
    <2>1. cells' = [cells EXCEPT ![Target] = g] /\ UNCHANGED <<flag, stored>>
      BY <1>1, <1>3 DEF Done, CellType
    <2>2. cells'[Target] = g
      BY <1>1, <2>1 DEF CellType
    <2>3. \A i \in Place : i \in w .. w + Len(b) - 1 /\ cells[Target][i] = Erased
                           => g[i] = b[i - w + 1]
      BY DEF Written
    <2>4. \A i \in Place : i \notin w .. w + Len(b) - 1 => g[i] = cells[Target][i]
      OBVIOUS
    <2> HIDE DEF g
    <2> QED BY <1>2, <2>1, <2>2, <2>3, <2>4 DEF KeptBefore
  <1>4. ASSUME Interrupted(o) PROVE KeptBefore(w) /\ UNCHANGED <<flag, stored>>
    <2>1. cells' = [cells EXCEPT ![Target] = h] /\ UNCHANGED <<flag, stored>>
      BY <1>1, <1>4 DEF Interrupted, CellType
    <2>2. cells'[Target] = h
      BY <1>1, <2>1 DEF CellType
    <2> QED BY <1>2, <2>1, <2>2 DEF KeptBefore
  <1> QED BY <1>3, <1>4

(* What is behind the saved offset may change.                             *)
LEMMA StoredKept ==
    ASSUME TypeInv, running \in Bank, running' = running \/ running' = NONE, stored' = stored,
           NEW w \in Nat, KeptBefore(w), Behind(w), StoredHolds(Target),
           NEW u, u = Target,
           flag'[u] = "unset" => flag[u] = "unset" \/ w = 0
    PROVE  StoredHolds(u)'
  <1>1. ASSUME stored # Torn, Fits(stored), flag'[u] = "unset", NEW i \in 1 .. stored.offset_last
        PROVE  cells'[u][i - 1] = stored.crc_last[i]
    <2>0. stored \in Good
      BY <1>1 DEF TypeInv
    <2>1. stored.offset_last \in Offset /\ stored.offset_last <= w
      BY <1>1, <2>0, GoodFields DEF Behind
    <2>2. i - 1 \in Place /\ i - 1 < w
      <3>1. PacketLen <= Sector
        BY SectorsAre
      <3> QED BY <2>1, <3>1, Sizes DEF Offset, Place
    <2>3. w # 0
      BY <2>2, Sizes DEF Place
    <2>4. cells[Target][i - 1] = stored.crc_last[i]
      BY <1>1, <2>3 DEF StoredHolds
    <2> QED BY <2>2, <2>4 DEF KeptBefore
  <1> QED BY <1>1 DEF StoredHolds, Fits

(* The flag of the target bank, when a sector of it is erased.             *)
LEMMA FlagLeft ==
    ASSUME TypeInv, running \in Bank, NEW w \in Nat, flag' \in {flag, FlagErased(w)}
    PROVE  /\ flag'[running] = flag[running]
           /\ w # 0 => flag' = flag
           /\ flag'[Target] = "unset" => flag[Target] = "unset" \/ w = 0
  BY Banks DEF TypeInv, FlagErased

-------------------------------------------------------------------------------
(* An operation is done.                                                   *)

LEMMA OpFirst ==
    ASSUME NEW o, NEW t, NEW c, NEW r, t = <<>> \/ t = <<c, r>>
    PROVE  Head(<<o>> \o t) = o /\ Tail(<<o>> \o t) = t
  <1>1. <<>> \in Seq({c, r}) /\ <<c, r>> \in Seq({c, r})
    OBVIOUS
  <1>2. t \in Seq({c, r})
    BY <1>1, Zenon
  <1> QED BY <1>2, InFront, Zenon

LEMMA StepLeaves ==
    ASSUME IInv, ResInv, FlashStep
    PROVE  /\ TypeInv /\ running \in Bank /\ running # NONE /\ running' = running
           /\ Target' = Target /\ Target \in Bank /\ Target # running
           /\ UNCHANGED <<ota_settings, tuya_ota_status, phone>>
           /\ todo # <<>> /\ Done(Head(todo)) /\ todo' = Tail(todo)
           /\ OnInv /\ ota_settings \in Good
           /\ RamOp' = RamOp /\ ClearOp' = ClearOp /\ LightOp' = LightOp
  <1>1. running \in Bank /\ running # NONE /\ running' = running
    BY DEF FlashStep, IInv, TypeInv
  <1>2. Target' = Target /\ Target \in Bank /\ Target # running
    BY <1>1, Banks DEF Target
  <1>3. UNCHANGED <<ota_settings, tuya_ota_status, phone>>
    BY DEF FlashStep, transfer
  <1>4. RamOp' = RamOp /\ ClearOp' = ClearOp
    BY <1>3 DEF RamOp, ClearOp
  <1>5. LightOp' = LightOp
    BY <1>1, <1>2, <1>4 DEF LightOp
  <1> QED BY <1>1, <1>2, <1>3, <1>4, <1>5 DEF FlashStep, IInv, TypeInv, ResInv

LEMMA StepResumes ==
    ASSUME IInv, ResInv, FlashStep, StoredHolds(Target)', flag'[running] # "unset",
           stored' # Torn => Sound(stored'), Resting' \/ Writing'
    PROVE  ResInv'
  <1>1. Sound(ota_settings)' /\ Aligned' /\ PhoneInv'
    BY StepLeaves DEF OnInv, Sound, Aligned, PhoneInv, PacketFrom, Moving
  <1>2. running' # NONE
    BY StepLeaves
  <1> QED BY <1>1, <1>2, StepLeaves DEF ResInv, OnInv, Sound

LEMMA RefusingStep ==
    ASSUME IInv, ResInv, FlashStep, Refusing PROVE ResInv'
  <1>1. PICK w : /\ todo = <<EraseOp(w)>> \o <<ClearOp, RamOp>>
                 /\ w \in Nat /\ Behind(w) /\ ota_settings.file = NONE /\ ~Moving
    BY DEF Refusing
  <1>2. Head(todo) = EraseOp(w) /\ Tail(todo) = <<ClearOp, RamOp>>
    BY <1>1, OpFirst, Zenon
  <1>3. /\ KeptBefore(w) /\ stored' = stored /\ flag' = FlagErased(w)
    BY <1>1, <1>2, StepLeaves, EraseLeaves
  <1>4. flag'[running] # "unset" /\ (flag'[Target] = "unset" => flag[Target] = "unset" \/ w = 0)
    BY <1>1, <1>3, StepLeaves, FlagLeft DEF OnInv
  <1>5. PICK u : u = Target
    OBVIOUS
  <1>6. StoredHolds(u)'
    BY <1>1, <1>3, <1>4, <1>5, StepLeaves, StoredKept DEF OnInv
  <1>7. StoredHolds(Target)'
    BY <1>5, <1>6, StepLeaves DEF StoredHolds
  <1>8. Resting'
    <2>1. todo' = SavesRam'
      BY <1>2, StepLeaves, SavesLight
    <2>2. RamHolds' /\ ~Moving'
      BY <1>1, StepLeaves, RamNew DEF Moving
    <2> QED BY <2>1, <2>2, SavesLight DEF Resting
  <1>9. stored' # Torn => Sound(stored')
    BY <1>3 DEF ResInv
  <1> QED BY <1>4, <1>7, <1>8, <1>9, StepResumes

LEMMA RestingStep ==
    ASSUME IInv, ResInv, FlashStep, Resting PROVE ResInv'
  <1> DEFINE o == Head(todo)
  <1>1. /\ o \in LightOp /\ todo' \in Seq(LightOp') /\ Done(o)
        /\ running \in Bank /\ Target \in Bank /\ Target # running
        /\ Target' = Target /\ running' = running
        /\ UNCHANGED <<ota_settings, tuya_ota_status>> /\ ota_settings \in Good
        /\ todo # <<>> /\ todo' = Tail(todo) /\ flag \in FlagType
    BY StepLeaves, FirstOf DEF Resting, TypeInv, FlagType
  <1>2. /\ RamHolds /\ StoredHolds(Target) /\ flag[running] # "unset"
        /\ Sound(ota_settings) /\ (stored # Torn => Sound(stored))
    BY StepLeaves DEF Resting, OnInv, ResInv
  <1>3. \/ ~Moving
        \/ Head(todo) = ClearOp /\ todo' = <<RamOp'>>
        \/ Head(todo) = RamOp /\ todo' = <<>>
    <2>1. ASSUME todo = <<ClearOp, RamOp>>
          PROVE  Head(todo) = ClearOp /\ Tail(todo) = <<RamOp>>
      BY <2>1
    <2>2. ASSUME todo = <<RamOp>>
          PROVE  Head(todo) = RamOp /\ Tail(todo) = <<>>
      BY <2>2
    <2> QED BY <1>1, <2>1, <2>2, StepLeaves DEF Resting
  <1>4. Moving' <=> Moving
    BY <1>1 DEF Moving
  <1> HIDE DEF o
  <1>5. CASE o = ClearOp
    <2>1. stored' = Torn /\ UNCHANGED <<cells, flag>>
      BY <1>1, <1>5 DEF Done, ClearOp
    <2>2. RamHolds'
      BY <1>1, <1>2, <2>1, RamKept
    <2>3. ClearOp # RamOp
      BY DEF ClearOp, RamOp
    <2>4. Resting'
      BY <1>1, <1>3, <1>4, <1>5, <2>1, <2>2, <2>3 DEF Resting, o
    <2>5. StoredHolds(Target)'
      BY <2>1 DEF StoredHolds
    <2> QED BY <1>2, <2>1, <2>4, <2>5, StepResumes
  <1>6. CASE o = RamOp
    <2>1. stored' = ota_settings /\ UNCHANGED <<cells, flag>>
      BY <1>1, <1>6 DEF Done, RamOp
    <2>2. RamHolds'
      BY <1>1, <1>2, <2>1, RamKept
    <2>3. ClearOp # RamOp
      BY DEF ClearOp, RamOp
    <2>4. Behind(ota_settings.offset_last)'
      <3>1. ota_settings.offset_last <= ota_settings.offset_last
        BY <1>1, GoodFields, Sizes DEF Offset
      <3> QED BY <1>1, <2>1, <3>1 DEF Behind
    <2>5. Resting'
      BY <1>1, <1>3, <1>4, <1>6, <2>2, <2>3, <2>4 DEF Resting, o
    <2>6. StoredHolds(Target)'
      BY <1>1, <1>2, <2>1 DEF StoredHolds, RamHolds, Match, Fits
    <2> QED BY <1>2, <2>1, <2>5, <2>6, StepResumes
  <1>7. CASE o = FlagOp(Target, "valid") \/ o = FlagOp(running, "invalid")
    <2>1. PICK c, v : /\ o = FlagOp(c, v) /\ c \in {running, Target} /\ v \in {"valid", "invalid"}
      BY <1>7
    <2>2. flag' = [flag EXCEPT ![c] = FlagWritten(flag[c], v)] /\ UNCHANGED <<cells, stored>>
      BY <1>1, <2>1, FlagsOnly
    <2>3. flag'[running] # "unset" /\ (flag'[Target] = "unset" => flag[Target] = "unset")
      BY <1>1, <1>2, <2>1, <2>2 DEF FlagType, FlagWritten
    <2>4. RamHolds'
      BY <1>1, <1>2, <2>2, <2>3 DEF RamHolds, Match, Blank, Fits
    <2>5. o # ClearOp /\ o # RamOp
      BY <2>1 DEF FlagOp, ClearOp, RamOp
    <2>6. Resting'
      BY <1>1, <1>3, <1>4, <2>4, <2>5 DEF Resting, o
    <2>7. StoredHolds(Target)'
      BY <1>1, <1>2, <2>2, <2>3 DEF StoredHolds, Fits
    <2>8. stored' # Torn => Sound(stored')
      BY <1>2, <2>2
    <2> QED BY <2>3, <2>6, <2>7, <2>8, StepResumes
  <1> QED BY <1>1, <1>5, <1>6, <1>7 DEF LightOp

LEMMA ErasingStep ==
    ASSUME IInv, ResInv, FlashStep, Erasing PROVE ResInv'
  <1>1. PICK w, b, t :
            /\ todo = <<EraseOp(w)>> \o (<<WriteOp(w, b)>> \o t) /\ Carries(w, b, t)
            /\ w % Sector = 0
            /\ Fits(ota_settings) /\ (w = 0 \/ flag[Target] = "unset") => Match(w)
    BY DEF Erasing
  <1>2. w \in Nat /\ Behind(w)
    BY <1>1 DEF Carries
  <1>3. Head(todo) = EraseOp(w) /\ Tail(todo) = <<WriteOp(w, b)>> \o t
    <2>1. t = <<>> \/ t = <<ClearOp, RamOp>>
      BY <1>1 DEF Carries
    <2> QED BY <1>1, <2>1
  <1>4. /\ KeptBefore(w) /\ stored' = stored /\ flag' = FlagErased(w)
        /\ \A i \in Place : i \in SectorAt(w) => cells'[Target][i] = Erased
    BY <1>2, <1>3, StepLeaves, EraseLeaves
  <1>5. flag'[running] # "unset" /\ (flag'[Target] = "unset" => flag[Target] = "unset" \/ w = 0)
    BY <1>2, <1>4, StepLeaves, FlagLeft DEF OnInv
  <1>6. PICK u : u = Target
    OBVIOUS
  <1>7. StoredHolds(u)'
    BY <1>2, <1>4, <1>5, <1>6, StepLeaves, StoredKept DEF OnInv
  <1>8. StoredHolds(Target)'
    BY <1>6, <1>7, StepLeaves DEF StoredHolds
  <1>9. Carries(w, b, t)'
    BY <1>1, <1>4, StepLeaves DEF Carries, Behind, Fits
  <1>10. ASSUME Fits(ota_settings), flag'[Target] = "unset" PROVE Match(w)' /\ Blank(w)'
    <2>1. Match(w)
      BY <1>1, <1>5, <1>10
    <2>2. w + Len(b) \in Offset /\ Len(b) \in Nat
      BY <1>1, StepLeaves, GoodFields DEF Carries
    <2>3. ASSUME NEW i \in 1 .. w PROVE cells'[Target][i - 1] = ota_settings.crc_last[i]
      <3>1. PacketLen <= Sector
        BY SectorsAre
      <3>2. i - 1 \in Place /\ i - 1 < w
        BY <1>2, <2>2, <2>3, <3>1, Sizes DEF Offset, Place
      <3> QED BY <1>4, <2>1, <2>3, <3>2 DEF Match, KeptBefore
    <2>4. ASSUME NEW i \in Place, w <= i, i < SectorEnd(w) PROVE cells'[Target][i] = Erased
      <3>1. SectorEnd(w) = w + Sector
        BY <1>1, <1>2, SectorsAre
      <3>2. i \in SectorAt(w)
        BY <1>2, <2>4, <3>1, Sizes DEF SectorAt, Place
      <3> QED BY <1>4, <3>2
    <2> QED BY <2>3, <2>4, StepLeaves DEF Match, Blank
  <1>11. Writing'
    <2>1. todo' = <<WriteOp(w, b)>> \o t
      BY <1>3, StepLeaves
    <2>2. Fits(ota_settings') /\ flag'[Target'] = "unset" => Match(w)' /\ Blank(w)'
      BY <1>10, StepLeaves
    <2> QED BY <1>9, <2>1, <2>2 DEF Writing, WriteOp
  <1>12. stored' # Torn => Sound(stored')
    BY <1>4 DEF ResInv
  <1> QED BY <1>5, <1>8, <1>11, <1>12, StepResumes

LEMMA WritingStep ==
    ASSUME IInv, ResInv, FlashStep, Writing PROVE ResInv'
  <1>1. PICK w, b, t :
            /\ todo = <<WriteOp(w, b)>> \o t /\ Carries(w, b, t)
            /\ Fits(ota_settings) /\ flag[Target] = "unset" => Match(w) /\ Blank(w)
    BY DEF Writing
  <1>2. /\ w \in Nat /\ Behind(w) /\ b \in Seq(Byte) /\ Len(b) \in Nat
        /\ w + Len(b) = ota_settings.offset_last /\ w + Len(b) \in Offset
        /\ t = <<>> \/ t = <<ClearOp, RamOp>>
    BY <1>1, StepLeaves, GoodFields DEF Carries
  <1>3. Head(todo) = WriteOp(w, b) /\ Tail(todo) = t
    BY <1>1, <1>2, OpFirst, Zenon
  <1>4. /\ KeptBefore(w) /\ UNCHANGED <<flag, stored>>
        /\ \A i \in Place : i >= w + Len(b) => cells'[Target][i] = cells[Target][i]
        /\ \A i \in Place : i \in w .. w + Len(b) - 1 /\ cells[Target][i] = Erased
                            => cells'[Target][i] = b[i - w + 1]
    BY <1>2, <1>3, StepLeaves, WriteLeaves
  <1>5. PICK u : u = Target
    OBVIOUS
  <1>6. StoredHolds(u)'
    BY <1>2, <1>4, <1>5, StepLeaves, StoredKept DEF OnInv
  <1>7. StoredHolds(Target)' /\ flag'[running] # "unset"
    BY <1>4, <1>5, <1>6, StepLeaves DEF StoredHolds, OnInv
  <1>8. ASSUME Fits(ota_settings), flag[Target] = "unset"
        PROVE  /\ \A i \in 1 .. w + Len(b) : cells'[Target][i - 1] = ota_settings.crc_last[i]
               /\ (w + Len(b)) % Sector # 0 =>
                     \A i \in Place : w + Len(b) <= i /\ i < SectorEnd(w + Len(b))
                                      => cells'[Target][i] = Erased
    <2>1. Match(w) /\ Blank(w)
      BY <1>1, <1>8
    <2>2. /\ w + Len(b) <= SectorEnd(w) /\ SectorEnd(w) \in Nat
          /\ \A i \in 1 .. Len(b) : b[i] = ota_settings.crc_last[w + i]
      BY <1>1, <1>2, <1>8, SectorsAre DEF Carries
    <2>3. ASSUME NEW i \in 1 .. w + Len(b) PROVE cells'[Target][i - 1] = ota_settings.crc_last[i]
      <3>1. PacketLen <= Sector
        BY SectorsAre
      <3>2. i - 1 \in Place /\ i - 1 < w + Len(b)
        BY <1>2, <2>3, <3>1, Sizes DEF Offset, Place
      <3>3. CASE i <= w
        BY <1>2, <1>4, <2>1, <2>3, <3>2, <3>3 DEF Match, KeptBefore
      <3>4. CASE i > w
        <4>1. /\ w <= i - 1 /\ i - 1 < SectorEnd(w) /\ i - 1 \in w .. w + Len(b) - 1
              /\ i - w \in 1 .. Len(b) /\ (i - 1) - w + 1 = i - w /\ w + (i - w) = i
          BY <1>2, <2>2, <2>3, <3>4
        <4>2. cells[Target][i - 1] = Erased
          BY <2>1, <3>2, <4>1 DEF Blank
        <4>3. cells'[Target][i - 1] = b[i - w]
          BY <1>4, <3>2, <4>1, <4>2
        <4> QED BY <2>2, <4>1, <4>3
      <3> QED BY <1>2, <2>3, <3>3, <3>4
    <2>4. ASSUME (w + Len(b)) % Sector # 0, NEW i \in Place, w + Len(b) <= i,
                 i < SectorEnd(w + Len(b))
          PROVE  cells'[Target][i] = Erased
      <3>1. SectorEnd(w + Len(b)) = SectorEnd(w)
        BY <1>2, <2>2, <2>4, SameSector
      <3>2. w <= i
        BY <1>2, <2>4, Sizes DEF Place
      <3>3. cells[Target][i] = Erased
        BY <2>1, <2>4, <3>1, <3>2 DEF Blank
      <3> QED BY <1>4, <2>4, <3>3
    <2> QED BY <2>3, <2>4
  <1>9. RamHolds'
    BY <1>2, <1>4, <1>8, StepLeaves DEF RamHolds, Fits, Match, Blank
  <1>10. Resting'
    <2>1. todo' = t
      BY <1>3, StepLeaves
    <2>2. Behind(ota_settings.offset_last)'
      <3>1. stored # Torn /\ Fits(stored) => stored.offset_last <= w /\ stored.offset_last \in Offset
        <4>1. stored # Torn => stored \in Good
          BY StepLeaves DEF TypeInv
        <4> QED BY <1>2, <4>1, GoodFields DEF Behind
      <3>2. stored # Torn /\ Fits(stored) => stored.offset_last <= w + Len(b)
        BY <1>2, <3>1, Sizes DEF Offset
      <3> QED BY <1>2, <1>4, <3>2, StepLeaves DEF Behind, Fits
    <2>3. todo' = <<>> \/ todo' = <<ClearOp', RamOp'>>
      BY <1>2, <2>1, StepLeaves
    <2>4. todo' \in Seq(LightOp')
      BY <1>2, <2>1, StepLeaves, SavesLight
    <2> QED BY <1>9, <2>2, <2>3, <2>4 DEF Resting
  <1>11. stored' # Torn => Sound(stored')
    BY <1>4 DEF ResInv
  <1> QED BY <1>7, <1>10, <1>11, StepResumes

LEMMA FlashStepResumes == ASSUME IInv, ResInv, FlashStep PROVE ResInv'
  BY RestingStep, WritingStep, ErasingStep, RefusingStep, StepLeaves DEF OnInv

-------------------------------------------------------------------------------
(* The device goes off, and starts.                                        *)

(* The bank to boot from keeps its flag, so the other one that is meant is *)
(* the target bank, or there is nothing to show.                           *)
LEMMA OffResumes ==
    ASSUME IInv, ResInv, IInv', running # NONE, running' = NONE,
           NEW u, u = Target, StoredHolds(u)', flag'[running] # "unset",
           stored' # Torn => Sound(stored')
    PROVE  ResInv'
  <1>1. running \in Bank /\ u \in Bank /\ \A b \in Bank : b = running \/ b = u
    BY Banks DEF IInv, TypeInv
  <1>2. AlwaysBootable'
    BY DEF IInv, BootInv
  <1>3. 1 - BootBank' \in Bank
    BY <1>2 DEF AlwaysBootable, BootBank, Bank
  <1>4. StoredHolds(1 - BootBank)'
    <2>1. CASE 1 - BootBank' = u
      BY <2>1 DEF StoredHolds
    <2>2. CASE 1 - BootBank' = running
      BY <2>2 DEF StoredHolds
    <2> QED BY <1>1, <1>3, <2>1, <2>2
  <1> QED BY <1>4 DEF ResInv, Sound

(* What the device was at when power failed.                               *)
LEMMA InterruptedAt ==
    ASSUME IInv, ResInv, running # NONE, todo # <<>>, Interrupted(Head(todo))
    PROVE  \/ stored' = Torn /\ UNCHANGED <<cells, flag>>
           \/ /\ stored' = stored
              /\ \E w \in Nat : /\ Behind(w) /\ KeptBefore(w)
                                /\ flag' \in {flag, FlagErased(w)}
  <1>1. TypeInv /\ running \in Bank /\ OnInv
    BY DEF IInv, TypeInv, ResInv
  <1>2. CASE Resting
    <2>1. Head(todo) \in LightOp
      BY <1>2, FirstOf DEF Resting
    <2>2. Head(todo) \in {ClearOp, RamOp}
      BY <2>1, FlagsOnly DEF LightOp
    <2>3. Head(todo).op \in {"clear", "settings"}
      BY <2>2 DEF ClearOp, RamOp
    <2> QED BY <2>3 DEF Interrupted
  <1>3. CASE Writing
    <2>1. PICK w, b, t : todo = <<WriteOp(w, b)>> \o t /\ Carries(w, b, t)
      BY <1>3 DEF Writing
    <2>2. /\ w \in Nat /\ Behind(w) /\ b \in Seq(Byte)
          /\ t = <<>> \/ t = <<ClearOp, RamOp>>
      BY <2>1 DEF Carries
    <2>3. Head(todo) = WriteOp(w, b)
      BY <2>1, <2>2, OpFirst, Zenon
    <2> QED BY <1>1, <2>2, <2>3, WriteLeaves
  <1>4. CASE Erasing
    <2>1. PICK w, b, t : /\ todo = <<EraseOp(w)>> \o (<<WriteOp(w, b)>> \o t)
                         /\ Carries(w, b, t)
      BY <1>4 DEF Erasing
    <2>2. w \in Nat /\ Behind(w) /\ (t = <<>> \/ t = <<ClearOp, RamOp>>)
      BY <2>1 DEF Carries
    <2>3. Head(todo) = EraseOp(w)
      BY <2>1, <2>2
    <2> QED BY <1>1, <2>2, <2>3, EraseLeaves
  <1>5. CASE Refusing
    <2>1. PICK w : /\ todo = <<EraseOp(w)>> \o <<ClearOp, RamOp>>
                   /\ w \in Nat /\ Behind(w)
      BY <1>5 DEF Refusing
    <2>2. Head(todo) = EraseOp(w)
      BY <2>1, OpFirst, Zenon
    <2> QED BY <1>1, <2>1, <2>2, EraseLeaves
  <1> QED BY <1>1, <1>2, <1>3, <1>4, <1>5 DEF OnInv

LEMMA RebootResumes == ASSUME IInv, ResInv, Reboot PROVE ResInv'
  <1>1. /\ running # NONE /\ running' = NONE /\ UNCHANGED <<cells, flag, stored>> /\ OnInv
    BY DEF Reboot, Ready, Off, flash, ResInv
  <1>2. PICK u : u = Target
    OBVIOUS
  <1>3. StoredHolds(u)'
    BY <1>1, <1>2 DEF OnInv, StoredHolds
  <1>4. flag'[running] # "unset" /\ (stored' # Torn => Sound(stored'))
    BY <1>1 DEF OnInv, ResInv
  <1> QED BY <1>1, <1>2, <1>3, <1>4, RebootKeeps, OffResumes

LEMMA PowerFailsResumes == ASSUME IInv, ResInv, PowerFails PROVE ResInv'
  <1>1. /\ running # NONE /\ running' = NONE /\ OnInv /\ TypeInv /\ running \in Bank
    BY DEF PowerFails, Off, ResInv, IInv, TypeInv
  <1>2. PICK u : u = Target
    OBVIOUS
  <1>3. CASE UNCHANGED flash
    <2>1. StoredHolds(u)'
      BY <1>1, <1>2, <1>3 DEF flash, OnInv, StoredHolds
    <2>2. flag'[running] # "unset" /\ (stored' # Torn => Sound(stored'))
      BY <1>1, <1>3 DEF flash, OnInv, ResInv
    <2> QED BY <1>1, <1>2, <2>1, <2>2, PowerFailsKeeps, OffResumes
  <1>4. CASE todo # <<>> /\ Interrupted(Head(todo))
    <2>1. CASE stored' = Torn /\ UNCHANGED <<cells, flag>>
      <3>1. StoredHolds(u)' /\ flag'[running] # "unset"
        BY <1>1, <2>1 DEF OnInv, StoredHolds
      <3> QED BY <1>1, <1>2, <2>1, <3>1, PowerFailsKeeps, OffResumes
    <2>2. CASE /\ stored' = stored
               /\ \E w \in Nat : /\ Behind(w) /\ KeptBefore(w)
                                 /\ flag' \in {flag, FlagErased(w)}
      <3>1. PICK w \in Nat : Behind(w) /\ KeptBefore(w) /\ flag' \in {flag, FlagErased(w)}
        BY <2>2
      <3>2. /\ flag'[running] # "unset"
            /\ flag'[u] = "unset" => flag[u] = "unset" \/ w = 0
        BY <1>1, <1>2, <3>1, FlagLeft DEF OnInv
      <3>3. StoredHolds(u)'
        BY <1>1, <1>2, <2>2, <3>1, <3>2, StoredKept DEF OnInv
      <3>4. stored' # Torn => Sound(stored')
        BY <2>2 DEF ResInv
      <3> QED BY <1>1, <1>2, <3>2, <3>3, <3>4, PowerFailsKeeps, OffResumes
    <2> QED BY <1>1, <1>4, <2>1, <2>2, InterruptedAt
  <1> QED BY <1>3, <1>4 DEF PowerFails

(* What tuya_ota_init makes of the settings: the transfer is at the start  *)
(* of a sector, and where it was or at its beginning.                      *)
LEMMA RestoredIs ==
    ASSUME NEW s \in Good, Sound(s), NEW r, r = Restored(s)
    PROVE  /\ Sound(r) /\ r.ota_status = "WAIT_FOR_START"
           /\ r.file = s.file /\ r.offset_last % Sector = 0
           /\ \/ r.offset_last = 0
              \/ /\ r.offset_last = s.offset_last /\ r.crc_last = s.crc_last
                 /\ r.length = s.length
  <1>1. s \in Settings /\ s.ota_status \in Status
    BY GoodFields DEF Good
  <1>2. 0 % Sector = 0
    BY Sizes, Small
  <1>3. CASE s.ota_status = "WAIT_FOR_EREASE"
    <2>1. /\ r.ota_status = "WAIT_FOR_START" /\ r.file = s.file /\ r.length = 0
          /\ r.write_offset = 0 /\ r.offset_last = 0
      <3>1. s.offset_last = 0
        BY <1>3, GoodFields
      <3>2. r = [s EXCEPT !.ota_status = "WAIT_FOR_START", !.write_offset = 0, !.length = 0]
        BY <1>3 DEF Restored
      <3> QED BY <1>1, <3>1, <3>2 DEF Settings
    <2>2. s.file # NONE => 0 <= Length[s.file]
      BY <1>1, Sizes DEF Settings
    <2> QED BY <1>2, <2>1, <2>2 DEF Sound
  <1>4. CASE s.ota_status = "APP_DOWNLOADING"
    <2>1. CASE s.offset_last % Sector # 0 \/ s.offset_last > FwMax
      <3>1. r = [s EXCEPT !.ota_status = "WAIT_FOR_START", !.offset_last = 0, !.write_offset = 0]
        BY <1>4, <2>1 DEF Restored
      <3>2. /\ r.ota_status = "WAIT_FOR_START" /\ r.file = s.file /\ r.length = s.length
            /\ r.write_offset = 0 /\ r.offset_last = 0
        BY <1>1, <3>1 DEF Settings
      <3> QED BY <1>2, <3>2 DEF Sound
    <2>2. CASE ~(s.offset_last % Sector # 0 \/ s.offset_last > FwMax)
      <3>1. r = [s EXCEPT !.ota_status = "WAIT_FOR_START"]
        BY <1>4, <2>2 DEF Restored
      <3>2. /\ r.ota_status = "WAIT_FOR_START" /\ r.file = s.file /\ r.length = s.length
            /\ r.write_offset = s.write_offset /\ r.offset_last = s.offset_last
            /\ r.crc_last = s.crc_last
        BY <1>1, <3>1 DEF Settings
      <3> QED BY <2>2, <3>2 DEF Sound
    <2> QED BY <2>1, <2>2
  <1>5. CASE s.ota_status = "WAIT_FOR_START"
    BY <1>5 DEF Restored, Sound
  <1> QED BY <1>1, <1>3, <1>4, <1>5 DEF Status

LEMMA BootResumes == ASSUME IInv, ResInv, Boot PROVE ResInv'
  <1> DEFINE loaded == IF stored = Torn THEN Zero ELSE stored
             r == Restored(loaded)
  <1>1. /\ running = NONE /\ running' = BootBank /\ BootBank # NONE
        /\ ota_settings' = r
        /\ todo' = (IF stored = Torn THEN tuya_OTASaveSettings(Zero) ELSE <<>>)
                   \o (IF r = loaded THEN <<>> ELSE tuya_OTASaveSettings(r))
        /\ UNCHANGED <<cells, flag, stored, tuya_ota_status, phone>>
        /\ tuya_ota_status = "NONE"
        /\ stored # Torn => stored \in Good /\ Sound(stored)
        /\ StoredHolds(1 - BootBank)
    BY DEF Boot, flash, IInv, OffInv, TypeInv, ResInv
  <1>2. /\ Zero.ota_status = "WAIT_FOR_START" /\ Zero.offset_last = 0 /\ Zero.file = NONE
        /\ Restored(Zero) = Zero /\ Zero \in Good /\ Sound(Zero)
    <2>1. Zero.ota_status = "WAIT_FOR_START" /\ Zero.offset_last = 0 /\ Zero.file = NONE
      BY DEF Zero
    <2>2. Restored(Zero) = Zero
      BY <2>1 DEF Restored
    <2>3. Sound(Zero)
      BY <2>1, SoundIs
    <2> QED BY <2>1, <2>2, <2>3, ZeroGood
  <1>3. loaded \in Good /\ Sound(loaded)
    BY <1>1, <1>2
  <1>4. /\ Sound(r) /\ r.ota_status = "WAIT_FOR_START" /\ r.file = loaded.file
        /\ r.offset_last % Sector = 0
        /\ \/ r.offset_last = 0
           \/ /\ r.offset_last = loaded.offset_last /\ r.crc_last = loaded.crc_last
              /\ r.length = loaded.length
    BY <1>3, RestoredIs
  <1>5. todo' \in Seq(LightOp')
    <2>1. SavesRam' = tuya_OTASaveSettings(r)
      BY <1>1 DEF SavesRam
    <2>2. CASE stored = Torn
      <3>1. loaded = Zero /\ r = Zero
        BY <1>2, <2>2
      <3>2. todo' = SavesRam' \o <<>>
        BY <1>1, <2>1, <2>2, <3>1
      <3> QED BY <3>2, SavesLight
    <2>3. CASE stored # Torn
      <3> HIDE DEF loaded, r
      <3>1. todo' = <<>> \o <<>> \/ todo' = <<>> \o SavesRam'
        BY <1>1, <2>1, <2>3
      <3>2. <<>> \o SavesRam' = SavesRam' /\ <<>> \o <<>> = <<>>
        BY SavesLight
      <3> QED BY <3>1, <3>2, SavesLight
    <2> QED BY <2>2, <2>3
  <1>6. BootBank \in Bank /\ flag[BootBank] = "valid"
    BY <1>1 DEF BootBank, Bank
  <1>7. Target' = 1 - BootBank
    BY <1>1 DEF Target
  <1>8. ASSUME Fits(r), flag[1 - BootBank] = "unset", r.offset_last # 0
        PROVE  \A i \in 1 .. r.offset_last : cells[1 - BootBank][i - 1] = r.crc_last[i]
    <2>1. stored # Torn
      BY <1>2, <1>4, <1>8
    <2>2. /\ r.offset_last = stored.offset_last /\ r.crc_last = stored.crc_last
          /\ r.length = stored.length /\ r.file = stored.file
      BY <1>4, <1>8, <2>1
    <2> QED BY <1>1, <1>8, <2>1, <2>2 DEF StoredHolds, Fits
  <1> HIDE DEF loaded, r
  <1>9. RamHolds'
    <2>1. CASE r.offset_last = 0
      BY <1>1, <2>1, RamNew
    <2>2. CASE r.offset_last # 0
      BY <1>1, <1>4, <1>7, <1>8, <2>2 DEF RamHolds, Match, Fits
    <2> QED BY <2>1, <2>2
  <1>10. Aligned'
    <2>1. ASSUME r.offset_last < Length[r.file], r.file # NONE
          PROVE  r.offset_last % PacketLen = 0
      <3>1. r.offset_last \in Nat
        BY <1>3, RestoredGood, GoodFields, Sizes DEF Offset, r
      <3>2. (r.offset_last % Sector) % PacketLen = r.offset_last % PacketLen
        BY <3>1, TwoRemainders, SectorsAre, Sizes
      <3>3. 0 % PacketLen = 0
        BY Small, Sizes
      <3> QED BY <1>4, <3>2, <3>3
    <2> QED BY <1>1, <2>1 DEF Aligned
  <1>11. PhoneInv' /\ ~Moving'
    BY <1>1 DEF PhoneInv, Moving
  <1>12. Resting'
    BY <1>5, <1>9, <1>11 DEF Resting
  <1>13. StoredHolds(Target)' /\ flag'[running'] # "unset"
    BY <1>1, <1>6, <1>7 DEF StoredHolds
  <1>14. running' # NONE /\ Sound(ota_settings)' /\ (stored' # Torn => Sound(stored)')
    BY <1>1, <1>4 DEF Sound
  <1> QED BY <1>10, <1>11, <1>12, <1>13, <1>14 DEF ResInv, OnInv

-------------------------------------------------------------------------------
LEMMA ResumeBegins == Init => ResInv
  BY DEF Init, ResInv, StoredHolds

LEMMA StepKeepsResume == ASSUME IInv, ResInv, [Next]_vars PROVE ResInv'
  <1>1. CASE UNCHANGED vars
    BY <1>1, SameResumes DEF vars, flash, transfer
  <1>2. CASE \E lost \in BOOLEAN : Request(lost)
    <2>1. PICK lost \in BOOLEAN : Request(lost)
      BY <1>2
    <2> QED BY <2>1, StartResumes, InfoResumes, OffsetResumes, DataResumes, RefusedResumes,
               EndResumes DEF Request
  <1>3. CASE FlashStep \/ Boot \/ Reboot \/ PowerFails
    BY <1>3, FlashStepResumes, BootResumes, RebootResumes, PowerFailsResumes
  <1>4. CASE ota_timeout_handler \/ ReadPiece \/ ota_end_handler
    BY <1>4, TimeoutResumes, ReadPieceResumes, EndHandlerResumes
  <1>5. CASE (\E f \in Offered : PhoneChooses(f)) \/ PhoneRestarts
    BY <1>5, ChoosesResumes, RestartsResumes
  <1> QED BY <1>1, <1>2, <1>3, <1>4, <1>5 DEF Next

LEMMA ResumeHolds == ASSUME IInv, ResInv PROVE ResumePointHolds
  <1>1. AlwaysBootable
    BY Bootable
  <1>2. 1 - BootBank \in Bank
    BY <1>1 DEF AlwaysBootable, BootBank, Bank
  <1>3. StoredHolds(1 - BootBank)
    <2>1. CASE running = NONE
      BY <2>1 DEF ResInv
    <2>2. CASE running # NONE
      <3>1. 1 - BootBank = running \/ 1 - BootBank = Target
        BY <1>2, <2>2, Banks DEF IInv, TypeInv
      <3> QED BY <2>2, <3>1 DEF ResInv, OnInv, StoredHolds
    <2> QED BY <2>1, <2>2
  <1>4. running # NONE /\ todo = <<>> => RamHolds
    <2> SUFFICES ASSUME running # NONE, todo = <<>> PROVE RamHolds
      OBVIOUS
    <2>1. ~Writing /\ ~Erasing /\ ~Refusing
      <3>1. \A op : todo # <<op>> \o <<>> /\ todo # <<op>> \o <<ClearOp, RamOp>>
        OBVIOUS
      <3>2. \A op1, op2 : todo # <<op1>> \o (<<op2>> \o <<>>)
                          /\ todo # <<op1>> \o (<<op2>> \o <<ClearOp, RamOp>>)
        OBVIOUS
      <3> QED BY <3>1, <3>2 DEF Writing, Erasing, Refusing, Carries
    <2> QED BY <2>1 DEF ResInv, OnInv, Resting
  <1> QED BY <1>3, <1>4 DEF StoredHolds, RamHolds, Match, Blank, ResumePointHolds

(* For a phone that waits for the restart: settings, in flash or in RAM,   *)
(* of a transfer no longer than its file, whose CRC is over as many bytes  *)
(* as the offset says, find these bytes in the second bank as long as it   *)
(* has no boot flag, wherever power failed (tuya_ota_data_req writes the   *)
(* data before the settings that speak of them); and a transfer that goes  *)
(* on in the middle of a sector finds the rest of it erased.               *)
THEOREM ResumePointIsInFlash == ASSUME Patient PROVE Spec => []ResumePointHolds
  <1>1. Init => IInv /\ ResInv
    BY Begins, ResumeBegins
  <1>2. (IInv /\ ResInv) /\ [Next]_vars => (IInv /\ ResInv)'
    BY StepKeeps, StepKeepsResume
  <1>3. IInv /\ ResInv => ResumePointHolds
    BY ResumeHolds
  <1> QED BY <1>1, <1>2, <1>3, PTL DEF Spec

===============================================================================
