----------------------------------- MODULE Ota -----------------------------------
(***************************************************************************)
(* tuya_ota.c: the phone sends a new firmware, which the device writes to  *)
(* the bank of the flash it does not run from. Progress is saved, so that  *)
(* a transfer that was interrupted goes on where it was; a transfer that   *)
(* is complete is read back from the flash, and if its CRC is that of the  *)
(* announced file, the boot flag moves from one bank to the other and the  *)
(* device restarts. Power may fail at any flash operation.                 *)
(*                                                                         *)
(* A handler runs to its end without interruption, and what it changes in  *)
(* RAM is lost when power fails: its changes to RAM are one step, and the  *)
(* flash operations it makes wait in `todo`, in order; nothing else runs   *)
(* until they are done. A byte is the file it belongs to and its place. A  *)
(* CRC is the bytes it was computed from. The boot flag, byte 8 of an      *)
(* image, is kept apart from the content. The phone's packets are full     *)
(* but for the last of a file, so the length check of a packet is left     *)
(* out; the erase and the write of this port report success always.        *)
(***************************************************************************)
EXTENDS Integers, Sequences

CONSTANTS File,         \* firmware images
          Length,       \* and their lengths
          Factory,      \* the image of a new device
          Offered,      \* the images the phone may send
          PacketLen,    \* MAX_DFU_DATA_LEN, also the piece that is read back
          Sector,       \* what an erase erases; progress is saved as often
          FwMax,        \* APP_NEW_FW_MAX_SIZE
          Patient,      \* the phone waits for the restart after a transfer
          MaxTroubles,  \* bound on what goes wrong in a behaviour
          NONE

ASSUME OtaAssumption ==
    /\ Length \in [File -> Nat]
    /\ Factory \in File /\ Length[Factory] <= FwMax
    /\ Offered \subseteq File /\ Offered # {}
    /\ PacketLen \in Nat \ {0} /\ Sector \in Nat \ {0} /\ FwMax \in Nat
    /\ Sector % PacketLen = 0 /\ FwMax % Sector = 0
    /\ \A f \in File : Length[f] >= PacketLen
    /\ Patient \in BOOLEAN /\ MaxTroubles \in Nat /\ NONE \notin File \union (0 .. 1)

Bank == 0 .. 1
Place == 0 .. (FwMax + Sector - 1)    \* a bank, and the sector after it

Erased == <<NONE, 0>>
Junk == <<NONE, 1>>       \* what an interrupted or overlaid write leaves
Byte == File \X Nat

Torn == [file |-> NONE, ota_status |-> "TORN"]    \* settings whose CRC is wrong

VARIABLES
    cells,                \* the two banks
    flag,                 \* their boot flags: "unset", "valid" or "invalid"
    stored,               \* the settings in flash
    running,              \* the bank the device runs from, NONE while it is off
    todo,                 \* flash operations of the handler that runs
    ota_settings,
    tuya_ota_status,
    last_package,
    m_firmware_size_req,
    timers,               \* which run, of "timeout", "end", "reboot"
    ota_end_crc_cnt,      \* of ota_end_handler, as is the next
    crc_temp,
    phone,                \* the phone: next request, file, where it began, packets
    troubles

flash == <<cells, flag, stored>>
transfer == <<ota_settings, tuya_ota_status, last_package, m_firmware_size_req>>
readback == <<ota_end_crc_cnt, crc_temp>>
vars == <<flash, running, todo, transfer, timers, readback, phone, troubles>>

(* ota_settings after memset. *)
Zero == [md5 |-> NONE, file |-> NONE, length |-> 0, crc_last |-> <<>>,
         offset_last |-> 0, write_offset |-> 0, ota_status |-> "WAIT_FOR_START"]

ZeroAt(status) == [Zero EXCEPT !.ota_status = status]

FileCrc(f) == IF f = NONE THEN <<>> ELSE [i \in 1 .. Length[f] |-> <<f, i - 1>>]

(* Bank b holds all of file f. *)
Holds(b, f) == Length[f] <= FwMax /\ \A i \in 0 .. (Length[f] - 1) : cells[b][i] = <<f, i>>

(* The other bank, which tuya_ota_get_start_addr is the address of. *)
Target == 1 - running

(* The boot code takes the first bank whose flag is valid. *)
BootBank == CASE flag[0] = "valid" -> 0
              [] flag[0] # "valid" /\ flag[1] = "valid" -> 1
              [] OTHER -> NONE

(* The phone begins anew. *)
Anew == [phone EXCEPT !.next = "start", !.from = 0, !.num = 0]

(* Flash operations, and the handlers' sequences of them.                  *)
Erase(place) == <<[op |-> "erase", at |-> place]>>
Write(place, bytes) == <<[op |-> "write", at |-> place, bytes |-> bytes]>>
SetFlag(bank, value) == <<[op |-> "flag", bank |-> bank, to |-> value]>>
tuya_OTASaveSettings(settings) ==
    <<[op |-> "clear"], [op |-> "settings", value |-> settings]>>

(* Faulty forms: the old image loses its flag too early, or keeps it. *)
OldFlagClearedFirst == SetFlag(running, "invalid") \o SetFlag(Target, "valid")
OldFlagKept == SetFlag(Target, "valid")

(* The old image loses its flag only when the new one has got its own.     *)
tuya_OTASetBootFlag ==
    SetFlag(Target, "valid")
        \o IF flag[Target] = "invalid" THEN <<>> ELSE SetFlag(running, "invalid")

RamZero == /\ ota_settings' = Zero
           /\ tuya_ota_status' = "NONE"
           /\ last_package' = 0
           /\ m_firmware_size_req' = 0
           /\ timers' = {}
           /\ ota_end_crc_cnt' = 0
           /\ crc_temp' = <<>>

Init == /\ cells = [b \in Bank |-> [i \in Place |->
                       IF b = 0 /\ i < Length[Factory] THEN <<Factory, i>> ELSE Erased]]
        /\ flag = [b \in Bank |-> IF b = 0 THEN "valid" ELSE "unset"]
        /\ stored = Torn
        /\ running = NONE
        /\ todo = <<>>
        /\ ota_settings = Zero
        /\ tuya_ota_status = "NONE"
        /\ last_package = 0
        /\ m_firmware_size_req = 0
        /\ timers = {}
        /\ ota_end_crc_cnt = 0
        /\ crc_temp = <<>>
        /\ \E f \in Offered : phone = [next |-> "start", file |-> f, from |-> 0, num |-> 0]
        /\ troubles = 0

Trouble == troubles < MaxTroubles /\ troubles' = troubles + 1

(* No handler runs, nothing is left of the last one.                       *)
Ready == running # NONE /\ todo = <<>>

-----------------------------------------------------------------------------
(* Flash memory: a write clears bits, only an erase sets them.             *)

SectorAt(place) == place .. place + Sector - 1

Written(old, new) == IF old \in {Erased, new} THEN new ELSE Junk

(* An erased flag can be set and a set one cleared, not the reverse.       *)
FlagWritten(old, new) == IF old = "invalid" THEN old ELSE new

(* The first sector of an image holds its flag.                            *)
FlagErased(place) == IF place = 0 THEN [flag EXCEPT ![Target] = "unset"] ELSE flag

Done(o) ==
    \/ /\ o.op = "erase"
       /\ cells' = [cells EXCEPT ![Target] =
                       [i \in Place |-> IF i \in SectorAt(o.at) THEN Erased ELSE @[i]]]
       /\ flag' = FlagErased(o.at)
       /\ UNCHANGED stored
    \/ /\ o.op = "write"
       /\ cells' = [cells EXCEPT ![Target] =
                       [i \in Place |-> IF i \in o.at .. o.at + Len(o.bytes) - 1
                                        THEN Written(@[i], o.bytes[i - o.at + 1])
                                        ELSE @[i]]]
       /\ UNCHANGED <<flag, stored>>
    \/ /\ o.op = "flag"
       /\ flag' = [flag EXCEPT ![o.bank] = FlagWritten(@, o.to)]
       /\ UNCHANGED <<cells, stored>>
    \/ /\ o.op = "clear"
       /\ stored' = Torn
       /\ UNCHANGED <<cells, flag>>
    \/ /\ o.op = "settings"
       /\ stored' = o.value
       /\ UNCHANGED <<cells, flag>>

(* What an operation that power failed in leaves. A flag is one byte:      *)
(* writing it is not interrupted.                                          *)
Interrupted(o) ==
    \/ /\ o.op \in {"erase", "write"}
       /\ LET touched == IF o.op = "erase" THEN SectorAt(o.at)
                         ELSE o.at .. o.at + Len(o.bytes) - 1
          IN  cells' = [cells EXCEPT ![Target] =
                           [i \in Place |-> IF i \in touched THEN Junk ELSE @[i]]]
       /\ flag' \in IF o.op = "erase" THEN {flag, FlagErased(o.at)} ELSE {flag}
       /\ UNCHANGED stored
    \/ /\ o.op \in {"clear", "settings"}
       /\ stored' = Torn
       /\ UNCHANGED <<cells, flag>>

FlashStep == /\ running # NONE /\ todo # <<>>
             /\ Done(Head(todo))
             /\ todo' = Tail(todo)
             /\ UNCHANGED <<running, transfer, timers, readback, phone, troubles>>

-----------------------------------------------------------------------------
(* The device starts, restarts, and loses power.                           *)

(* tuya_ota_init makes this of the settings it loads. A transfer goes on   *)
(* where it was saved, or from the start if that was not between sectors.  *)
Restored(settings) ==
    CASE settings.ota_status = "WAIT_FOR_EREASE" ->
           [settings EXCEPT !.ota_status = "WAIT_FOR_START", !.write_offset = 0, !.length = 0]
      [] settings.ota_status = "APP_DOWNLOADING" ->
           IF settings.offset_last % Sector # 0 \/ settings.offset_last > FwMax
           THEN [settings EXCEPT !.ota_status = "WAIT_FOR_START",
                                 !.offset_last = 0, !.write_offset = 0]
           ELSE [settings EXCEPT !.ota_status = "WAIT_FOR_START"]
      [] OTHER -> settings

(* tuya_OTACheckSettings replaces settings it cannot trust.                *)
Boot == /\ running = NONE /\ BootBank # NONE
        /\ running' = BootBank
        /\ LET loaded == IF stored = Torn THEN Zero ELSE stored
           IN  /\ ota_settings' = Restored(loaded)
               /\ todo' = (IF stored = Torn THEN tuya_OTASaveSettings(Zero) ELSE <<>>)
                          \o (IF Restored(loaded) = loaded THEN <<>>
                              ELSE tuya_OTASaveSettings(Restored(loaded)))
        /\ UNCHANGED <<flash, tuya_ota_status, last_package, m_firmware_size_req,
                       timers, readback, phone, troubles>>

Off == running' = NONE /\ todo' = <<>> /\ RamZero /\ phone' = Anew

Reboot == /\ Ready /\ "reboot" \in timers
          /\ Off
          /\ UNCHANGED <<flash, troubles>>

PowerFails == /\ running # NONE
              /\ Trouble
              /\ Off
              /\ UNCHANGED flash \/ (todo # <<>> /\ Interrupted(Head(todo)))

ota_timeout_handler ==
    /\ Ready /\ "timeout" \in timers
    /\ Trouble
    /\ timers' = timers \ {"timeout"}
    /\ tuya_ota_status' = "NONE"
    /\ UNCHANGED <<flash, running, todo, ota_settings, last_package,
                   m_firmware_size_req, readback, phone>>

-----------------------------------------------------------------------------
(* The requests of the phone, one handler each. The answer may be lost: the *)
(* phone then asks once more, or begins anew.                               *)

Replied(asNext, lost) ==
    \/ ~lost /\ phone' = asNext /\ UNCHANGED troubles
    \/ lost /\ Trouble /\ phone' \in {phone, Anew}

Ignored == phone' = Anew /\ UNCHANGED <<todo, transfer, readback, troubles>>

(* What every request does and leaves alone. *)
Requested(request) == /\ Ready /\ phone.next = request
                      /\ UNCHANGED <<flash, running>>

TimerStarted == timers' = timers \union {"timeout"}

(* The status is not looked at.                                            *)
tuya_ota_start_req(lost) ==
    /\ Requested("start")
    /\ ~Holds(running, phone.file)
    /\ TimerStarted
    /\ tuya_ota_status' = "START"
    /\ Replied([phone EXCEPT !.next = "info"], lost)
    /\ UNCHANGED <<todo, ota_settings, last_package, m_firmware_size_req, readback>>

(* The transfer goes on if the file is the one of the settings.            *)
tuya_ota_file_info_req(lost) ==
    /\ Requested("info")
    /\ TimerStarted
    /\ \/ tuya_ota_status # "START" /\ Ignored
       \/ /\ tuya_ota_status = "START" /\ Length[phone.file] > FwMax
          /\ ota_settings' = [ota_settings EXCEPT !.md5 = phone.file]
          /\ Replied(Anew, lost)
          /\ UNCHANGED <<todo, tuya_ota_status, last_package, m_firmware_size_req, readback>>
       \/ /\ tuya_ota_status = "START" /\ Length[phone.file] <= FwMax
          /\ LET f == phone.file
                 same == /\ ota_settings.md5 = f /\ ota_settings.file = f
                         /\ ota_settings.length = Length[f]
                 info == [ZeroAt(ota_settings.ota_status)
                             EXCEPT !.md5 = f, !.file = f, !.length = Length[f]]
             IN  /\ ota_settings' = IF same THEN ota_settings ELSE info
                 /\ todo' = IF same THEN <<>> ELSE tuya_OTASaveSettings(info)
                 /\ m_firmware_size_req' = Length[f]
          /\ tuya_ota_status' = "FILE_INFO"
          /\ last_package' = 0
          /\ Replied([phone EXCEPT !.next = "offset",
                                   !.from = ota_settings'.offset_last], lost)
          /\ UNCHANGED readback

(* The phone takes the offset it was told, or starts from the beginning.   *)
tuya_ota_offset_req(offset, lost) ==
    /\ Requested("offset")
    /\ offset \in {0, phone.from}
    /\ TimerStarted
    /\ \/ tuya_ota_status # "FILE_INFO" /\ Ignored
       \/ /\ tuya_ota_status = "FILE_INFO"
          /\ ota_settings' =
                IF offset = 0 /\ ota_settings.offset_last # 0
                THEN [ota_settings EXCEPT !.crc_last = <<>>, !.offset_last = 0,
                          !.write_offset = 0, !.ota_status = "APP_DOWNLOADING"]
                ELSE [ota_settings EXCEPT !.ota_status = "APP_DOWNLOADING"]
          /\ todo' = tuya_OTASaveSettings(ota_settings')
          /\ tuya_ota_status' = "FILE_OFFSET"
          /\ Replied([phone EXCEPT
                         !.next = IF ota_settings'.offset_last < Length[phone.file]
                                  THEN "data" ELSE "end",
                         !.from = ota_settings'.offset_last,
                         !.num = 0], lost)
          /\ UNCHANGED <<last_package, m_firmware_size_req, readback>>

(* The bytes of the packet the phone sends, and what it does next.         *)
PacketFrom == phone.from + phone.num * PacketLen
PacketTo == IF PacketFrom + PacketLen < Length[phone.file]
            THEN PacketFrom + PacketLen ELSE Length[phone.file]
Packet == [i \in 1 .. PacketTo - PacketFrom |-> <<phone.file, PacketFrom + i - 1>>]
AfterPacket == [phone EXCEPT !.next = IF PacketTo < Length[phone.file] THEN "data" ELSE "end",
                             !.num = @ + 1]

(* Number 0 is accepted wherever the transfer is.                          *)
NumberOk == phone.num \in {last_package + 1, 0}

InBank == ota_settings.write_offset < FwMax

SectorErased == IF NumberOk /\ ota_settings.write_offset % Sector = 0
                THEN Erase(ota_settings.write_offset) ELSE <<>>

(* The settings are saved after the data they speak of.                    *)
ProgressSaved(settings) == IF settings.offset_last % Sector = 0
                           THEN tuya_OTASaveSettings(settings) ELSE <<>>

(* Faulty form: the settings are saved first. *)
StoresAfterSaving(settings) ==
    SectorErased \o ProgressSaved(settings) \o Write(ota_settings.write_offset, Packet)

Stores(settings) == SectorErased \o Write(ota_settings.write_offset, Packet)
                        \o ProgressSaved(settings)

tuya_ota_data_req(lost) ==
    /\ Requested("data")
    /\ TimerStarted
    /\ \/ tuya_ota_status \notin {"FILE_OFFSET", "FILE_DATA"} /\ Ignored
       \/ /\ tuya_ota_status \in {"FILE_OFFSET", "FILE_DATA"}
          /\ NumberOk /\ InBank
          /\ ota_settings' = [ota_settings EXCEPT !.crc_last = @ \o Packet,
                                                  !.write_offset = @ + Len(Packet),
                                                  !.offset_last = @ + Len(Packet)]
          /\ todo' = Stores(ota_settings')
          /\ tuya_ota_status' = "FILE_DATA"
          /\ last_package' = phone.num
          /\ Replied(AfterPacket, lost)
          /\ UNCHANGED <<m_firmware_size_req, readback>>

(* A packet that cannot be taken ends the transfer.                        *)
DataRefused(lost) ==
    /\ Requested("data")
    /\ tuya_ota_status \in {"FILE_OFFSET", "FILE_DATA"}
    /\ ~(NumberOk /\ InBank)
    /\ ota_settings' = ZeroAt("WAIT_FOR_EREASE")
    /\ todo' = SectorErased \o tuya_OTASaveSettings(ota_settings')
    /\ tuya_ota_status' = "NONE"
    /\ timers' = timers \union {"timeout", "reboot"}
    /\ Replied(Anew, lost)
    /\ UNCHANGED <<last_package, m_firmware_size_req, readback>>

Whole == /\ ota_settings.offset_last = m_firmware_size_req
         /\ ota_settings.crc_last = FileCrc(ota_settings.file)

(* The end of the transfer is answered when the image has been read back,  *)
(* unless something is missing.                                            *)
tuya_ota_end_req(lost) ==
    /\ Requested("end")
    /\ \/ /\ tuya_ota_status = "NONE"
          /\ timers' = timers \ {"timeout"}
          /\ Ignored
       \/ /\ tuya_ota_status # "NONE" /\ Whole
          /\ timers' = (timers \ {"timeout"}) \union {"end"}
          /\ ota_end_crc_cnt' = 0
          /\ phone' = [phone EXCEPT !.next = "wait"]
          /\ UNCHANGED <<todo, transfer, crc_temp, troubles>>
       \/ /\ tuya_ota_status # "NONE" /\ ~Whole
          /\ timers' = (timers \ {"timeout"}) \union {"reboot"}
          /\ ota_settings' = Zero
          /\ todo' = tuya_OTASaveSettings(Zero)
          /\ tuya_ota_status' = "NONE"
          /\ Replied(Anew, lost)
          /\ UNCHANGED <<last_package, m_firmware_size_req, readback>>

-----------------------------------------------------------------------------
(* The image is read back, one piece at a time.                            *)

Pieces == ota_settings.offset_last \div PacketLen

ReadBack(n) == [i \in 1 .. n |-> cells[Target][ota_end_crc_cnt * PacketLen + i - 1]]

CrcSoFar == IF ota_end_crc_cnt = 0 THEN <<>> ELSE crc_temp

ReadPiece == /\ Ready /\ "end" \in timers
             /\ ota_end_crc_cnt < Pieces
             /\ crc_temp' = CrcSoFar \o ReadBack(PacketLen)
             /\ ota_end_crc_cnt' = ota_end_crc_cnt + 1
             /\ UNCHANGED <<flash, running, todo, transfer, timers, phone, troubles>>

(* The last piece is shorter; then the boot flag moves or the transfer     *)
(* is forgotten, and in both cases the device restarts.                    *)
ota_end_handler ==
    /\ Ready /\ "end" \in timers
    /\ ota_end_crc_cnt >= Pieces
    /\ LET crc == CrcSoFar \o ReadBack(ota_settings.offset_last % PacketLen)
           good == crc = FileCrc(ota_settings.file)
           settings == [ZeroAt("WAIT_FOR_EREASE") EXCEPT
                           !.write_offset = IF good THEN ota_settings.write_offset ELSE 0]
       IN  /\ crc_temp' = crc
           /\ ota_settings' = settings
           /\ todo' = (IF good THEN tuya_OTASetBootFlag ELSE <<>>)
                         \o tuya_OTASaveSettings(settings)
    /\ tuya_ota_status' = "NONE"
    /\ timers' = (timers \ {"end"}) \union {"reboot"}
    /\ UNCHANGED <<flash, running, last_package, m_firmware_size_req,
                   ota_end_crc_cnt, phone, troubles>>

-----------------------------------------------------------------------------
(* The phone turns to another file, or gives up what it was doing.         *)

PhoneChooses(f) == /\ phone.next = "start" /\ f # phone.file
                   /\ phone' = [phone EXCEPT !.file = f]
                   /\ UNCHANGED <<flash, running, todo, transfer, timers, readback, troubles>>

PhoneRestarts ==
    /\ running # NONE /\ phone.next # "start"
    /\ Patient /\ phone.next = "wait" => timers \intersect {"end", "reboot"} = {}
    /\ Trouble
    /\ phone' = Anew
    /\ UNCHANGED <<flash, running, todo, transfer, timers, readback>>

Request(lost) == \/ tuya_ota_start_req(lost)
                 \/ tuya_ota_file_info_req(lost)
                 \/ \E offset \in 0 .. FwMax : tuya_ota_offset_req(offset, lost)
                 \/ tuya_ota_data_req(lost)
                 \/ DataRefused(lost)
                 \/ tuya_ota_end_req(lost)

Next == \/ FlashStep \/ Boot \/ Reboot \/ PowerFails
        \/ ota_timeout_handler
        \/ \E lost \in BOOLEAN : Request(lost)
        \/ ReadPiece \/ ota_end_handler
        \/ \E f \in Offered : PhoneChooses(f)
        \/ PhoneRestarts

Spec == Init /\ [][Next]_vars

(* The device runs its main loop, and the phone carries its update on.     *)
Fairness == /\ WF_vars(FlashStep) /\ WF_vars(Boot) /\ WF_vars(Reboot)
            /\ WF_vars(ReadPiece) /\ WF_vars(ota_end_handler)
            /\ WF_vars(Request(FALSE))

FairSpec == Spec /\ Fairness

-----------------------------------------------------------------------------
(* Where an offset can be: a repeated packet may make the transfer longer  *)
(* than its file, and the packet that leaves the bank is the last one.     *)
Offset == 0 .. (FwMax + PacketLen - 1)

Settings == [md5 : File \union {NONE}, file : File \union {NONE}, length : Nat,
             crc_last : Seq(Byte), offset_last : Offset, write_offset : Offset,
             ota_status : {"WAIT_FOR_START", "WAIT_FOR_EREASE", "APP_DOWNLOADING"}]

(* Types.                                                                  *)
TypeOK == /\ cells \in [Bank -> [Place -> Byte \union {Erased, Junk}]]
          /\ flag \in [Bank -> {"unset", "valid", "invalid"}]
          /\ stored = Torn \/ stored \in Settings
          /\ running \in Bank \union {NONE}
          /\ ota_settings \in Settings
          /\ tuya_ota_status \in {"NONE", "START", "FILE_INFO", "FILE_OFFSET", "FILE_DATA"}
          /\ last_package \in Nat /\ m_firmware_size_req \in 0 .. FwMax
          /\ timers \subseteq {"timeout", "end", "reboot"}
          /\ ota_end_crc_cnt \in Nat
          /\ phone.next \in {"start", "info", "offset", "data", "end", "wait"}
          /\ troubles \in 0 .. MaxTroubles

(* Whatever operation power fails in, and however often, there is an image *)
(* to boot from and it is whole.                                           *)
AlwaysBootable == BootBank # NONE /\ \E f \in File : Holds(BootBank, f)

(* Settings of a transfer that is no longer than its file, with a CRC over *)
(* as many bytes as the offset says.                                       *)
Fits(s) == s.file # NONE /\ s.offset_last <= s.length /\ Len(s.crc_last) = s.offset_last

SectorEnd(n) == n - (n % Sector) + Sector

(* Such settings, in flash or, between two handlers, in RAM, never speak   *)
(* of more than the second bank holds while that bank has no boot flag: up *)
(* to their offset it has the bytes the CRC was computed from. And where   *)
(* the transfer goes on in the middle of a sector, the rest of the sector  *)
(* is erased.                                                              *)
ResumePointHolds ==
    /\ stored # Torn /\ Fits(stored) /\ flag[1 - BootBank] = "unset" =>
          \A i \in 1 .. stored.offset_last :
              cells[1 - BootBank][i - 1] = stored.crc_last[i]
    /\ running # NONE /\ todo = <<>> /\ Fits(ota_settings) /\ flag[Target] = "unset" =>
          /\ \A i \in 1 .. ota_settings.offset_last :
                cells[Target][i - 1] = ota_settings.crc_last[i]
          /\ ota_settings.offset_last % Sector # 0 =>
                \A i \in Place : ota_settings.offset_last <= i
                                    /\ i < SectorEnd(ota_settings.offset_last)
                                  => cells[Target][i] = Erased

(* An update that is interrupted now and then is installed in the end:     *)
(* when the phone stays with a file that fits into a bank, the device      *)
(* comes to run it, whatever was tried before.                             *)
UpdateSucceeds ==
    \A f \in {g \in Offered : Length[g] <= FwMax} :
        <>[](phone.file = f) => <>[](running # NONE /\ Holds(running, f))

(* What the comment at the call of tuya_OTASetBootFlag says: the new       *)
(* program takes effect. Once the old image has lost its flag, the other   *)
(* one keeps its own.                                                      *)
VerifiedTakesEffect ==
    running # NONE /\ flag[running] = "invalid" => flag[Target] = "valid"

=============================================================================
