-------------------------------- MODULE Storage --------------------------------
(***************************************************************************)
(* tuya_ble_storage.c: the settings of the device in flash. There are two  *)
(* areas, "auth" (the identity: device id, key, address) and "sys" (the    *)
(* binding). Each has a primary and a backup sector, and each copy carries *)
(* a CRC. A save erases and writes the primary, then the backup; power may *)
(* fail between and during the four flash operations.                      *)
(*                                                                         *)
(* Of the settings the module keeps what its properties tell apart: the    *)
(* identity, and whether the device is bound and under which identity the  *)
(* phone bound it. The CRC is taken to recognise every incomplete copy. On *)
(* this port the flash functions report success whatever happens, so the   *)
(* error branches of a save cannot be taken; nor can the allocation during *)
(* the load fail, which comes first after the heap is set up.              *)
(***************************************************************************)
EXTENDS Naturals

CONSTANTS Identity,     \* what the factory can write into "auth"
          Blank,        \* an "auth" of zeros
          Unbound,      \* a "sys" whose bound_flag is 0
          MaxFailures   \* bound on the power failures in a behaviour

ASSUME StorageAssumption == /\ Blank \notin Identity
                            /\ Unbound \notin Identity \cup {Blank}
                            /\ MaxFailures \in Nat

Area == {"auth", "sys"}
Copy == {"primary", "backup"}

AuthValue == Identity \cup {Blank}
SysValue == AuthValue \cup {Unbound}    \* bound under that identity, or not

ZeroIsUnbound == [a \in Area |-> Unbound]

(* What memset leaves in tuya_ble_current_para. *)
Zero == [a \in Area |-> IF a = "auth" THEN Blank ELSE Unbound]

Erased == [state |-> "erased"]
Torn == [state |-> "torn"]
Stored(format, v) == [state |-> format, value |-> v]   \* "old" or "new" layout

Content == {Erased, Torn} \cup {Stored(f, v) : f \in {"old", "new"}, v \in SysValue}

VARIABLES
    flash,        \* [Area -> [Copy -> Content]]
    current,      \* tuya_ble_current_para, in RAM
    mode,         \* "off", loading an area, or running
    saving,       \* the area of the save under way
    stage,        \* its next flash operation, "none" when there is no save
    auth_written, \* write_auth_key... has saved "auth" and not yet seen to "sys"
    committed,    \* the value of the last save that was completed, per area
    attempted,    \* the value of the last save that was begun
    failed_saves, \* power failures that hit a save since the last complete one
    failures,     \* power failures so far
    former        \* identities it had before, while the binding in flash may
                  \* still be under one of them

history == <<committed, attempted, failed_saves, failures, former>>
vars == <<flash, current, mode, saving, stage, auth_written, history>>

-------------------------------------------------------------------------------
(***************************************************************************)
(* Reading an area.                                                        *)
(***************************************************************************)

(* auth_settings_crc_ok, sys_settings_crc_ok: the CRC fits the layout of   *)
(* this release or the one before.                                         *)
crc_ok(c) == c.state \in {"old", "new"}

(* The primary copy, else the backup, else zeros.                          *)
Loaded(f, zero) ==
    IF crc_ok(f["primary"]) THEN f["primary"].value
    ELSE IF crc_ok(f["backup"]) THEN f["backup"].value
    ELSE zero

UpdateFromPrimaryOnly(f) == f["primary"].state = "old"

(* Either copy in the old layout asks for a save in the new one.           *)
flash_update(f) == \E c \in Copy : f[c].state = "old"

-------------------------------------------------------------------------------
(***************************************************************************)
(* Init: a new device, one provisioned by this release, or one whose       *)
(* settings were written by the release before.                            *)
(***************************************************************************)

Both(c) == [copy \in Copy |-> c]

Init == /\ \/ /\ flash = [a \in Area |-> Both(Erased)]
              /\ committed = Zero
           \/ \E id \in Identity, f \in {"old", "new"} :
                \E s \in {Unbound, id} :
                   /\ committed = [a \in Area |-> IF a = "auth" THEN id ELSE s]
                   /\ flash = [a \in Area |-> Both(Stored(f, committed[a]))]
        /\ attempted = committed
        /\ current = Zero
        /\ mode = "off"
        /\ saving = "auth"
        /\ stage = "none"
        /\ auth_written = FALSE
        /\ failed_saves = [a \in Area |-> 0]
        /\ failures = 0
        /\ former = {}

-------------------------------------------------------------------------------
(***************************************************************************)
(* A save: tuya_ble_storage_save_auth_settings and ..._save_sys_settings.  *)
(***************************************************************************)

BeginSave(a, v) == /\ stage' = "erase_primary"
                   /\ saving' = a
                   /\ attempted' = [attempted EXCEPT ![a] = v]

Operate(now, next, copy, c) ==
    /\ stage = now
    /\ stage' = next
    /\ flash' = [flash EXCEPT ![saving][copy] = c]
    /\ UNCHANGED <<current, mode, saving, auth_written, attempted, failures>>

EraseBackupTogether == /\ stage = "erase_primary"
                       /\ stage' = "write_primary"
                       /\ flash' = [flash EXCEPT ![saving] = Both(Erased)]
                       /\ UNCHANGED <<current, mode, saving, auth_written, history>>

ErasePrimary == /\ Operate("erase_primary", "write_primary", "primary", Erased)
                /\ UNCHANGED <<committed, failed_saves, former>>

WritePrimary == /\ Operate("write_primary", "erase_backup", "primary",
                           Stored("new", current[saving]))
                /\ UNCHANGED <<committed, failed_saves, former>>

EraseBackup == /\ Operate("erase_backup", "write_backup", "backup", Erased)
               /\ UNCHANGED <<committed, failed_saves, former>>

SaveCompletes ==
    /\ committed' = [committed EXCEPT ![saving] = current[saving]]
    /\ failed_saves' = [failed_saves EXCEPT ![saving] = 0]
    /\ former' = IF saving = "sys" /\ current["sys"] \in {Unbound, current["auth"]}
                 THEN {} ELSE former

BackupNotWritten == /\ Operate("write_backup", "none", "backup", Erased)
                    /\ SaveCompletes

WriteBackup == /\ Operate("write_backup", "none", "backup", Stored("new", current[saving]))
               /\ SaveCompletes

Save == ErasePrimary \/ WritePrimary \/ EraseBackup \/ WriteBackup

-------------------------------------------------------------------------------
(***************************************************************************)
(* Start-up: tuya_ble_storage_load_settings, "auth" first.                 *)
(***************************************************************************)

PowerOn == /\ mode = "off"
           /\ mode' = "auth"
           /\ UNCHANGED <<flash, current, saving, stage, auth_written, history>>

Load(a, next) ==
    /\ mode = a /\ stage = "none"
    /\ mode' = next
    /\ LET v == Loaded(flash[a], Zero[a])
       IN /\ current' = [current EXCEPT ![a] = v]
          /\ IF flash_update(flash[a])
             THEN BeginSave(a, v)
             ELSE UNCHANGED <<stage, saving, attempted>>
    /\ UNCHANGED <<flash, auth_written, committed, failed_saves, failures, former>>

LoadAuth == Load("auth", "sys")
LoadSys == Load("sys", "run")

-------------------------------------------------------------------------------
(***************************************************************************)
(* The operations that change settings. Each saves before it returns, so   *)
(* the next begins when no save is under way.                              *)
(***************************************************************************)

Ready == mode = "run" /\ stage = "none" /\ ~auth_written

SetAndSave(a, v) == /\ current' = [current EXCEPT ![a] = v]
                    /\ BeginSave(a, v)
                    /\ UNCHANGED <<flash, mode, committed, failed_saves, failures>>

(* tuya_ble_handle_pair_req of a device that is not bound.                 *)
Bind == /\ Ready
        /\ current["sys"] = Unbound
        /\ SetAndSave("sys", current["auth"])
        /\ UNCHANGED <<auth_written, former>>

(* tuya_ble_device_unbond saves whether the device was bound or not.       *)
tuya_ble_device_unbond == /\ Ready
                          /\ SetAndSave("sys", Unbound)
                          /\ UNCHANGED <<auth_written, former>>

(* tuya_ble_storage_write_pid and ..._write_hid save the area again, with  *)
(* another product or hardware id beside the same identity or binding.     *)
Rewrite(a) == /\ Ready
              /\ SetAndSave(a, current[a])
              /\ UNCHANGED <<auth_written, former>>

tuya_ble_storage_write_pid == Rewrite("sys")
tuya_ble_storage_write_hid == Rewrite("auth")

(* tuya_ble_storage_write_auth_key_device_id_mac: a new identity is saved, *)
(* then a device that was bound forgets its binding.                       *)
WriteAuthKey(id) == /\ Ready
                    /\ id # current["auth"]
                    /\ SetAndSave("auth", id)
                    /\ auth_written' = TRUE
                    /\ former' = former \cup {current["auth"]}

BindingKept ==
    /\ stage = "none" /\ auth_written
    /\ auth_written' = FALSE
    /\ former' = {}
    /\ UNCHANGED <<flash, current, mode, saving, stage, committed, attempted, failed_saves, failures>>

AuthWritten ==
    /\ stage = "none" /\ auth_written
    /\ auth_written' = FALSE
    /\ IF current["sys"] # Unbound
       THEN SetAndSave("sys", Unbound) /\ UNCHANGED former
       ELSE /\ former' = {}
            /\ UNCHANGED <<flash, current, mode, saving, stage, committed, attempted,
                           failed_saves, failures>>

-------------------------------------------------------------------------------

(* What power failing during a flash operation leaves of the copy it works *)
(* on. A copy that is being erased may still be whole.                     *)
Remains(c) ==
    CASE stage = "write_primary" -> {Erased, Torn, Stored("new", current[saving])}
      [] stage = "write_backup" -> {Erased, Torn, Stored("new", current[saving])}
      [] OTHER -> {c, Erased, Torn}

WorkedOn == IF stage \in {"erase_primary", "write_primary"}
            THEN "primary" ELSE "backup"

PowerFails ==
    /\ mode # "off"
    /\ failures < MaxFailures
    /\ failures' = failures + 1
    /\ mode' = "off"
    /\ current' = Zero
    /\ stage' = "none"
    /\ auth_written' = FALSE
    /\ IF stage = "none"
       THEN UNCHANGED <<flash, failed_saves>>
       ELSE /\ \E c \in Remains(flash[saving][WorkedOn]) :
                  flash' = [flash EXCEPT ![saving][WorkedOn] = c]
            /\ failed_saves' = [failed_saves EXCEPT ![saving] = @ + 1]
    /\ former' = IF stage # "none" /\ failed_saves[saving] > 0 THEN AuthValue ELSE former
    /\ UNCHANGED <<saving, committed, attempted>>

Next == \/ PowerOn \/ LoadAuth \/ LoadSys
        \/ Save
        \/ Bind \/ tuya_ble_device_unbond
        \/ tuya_ble_storage_write_pid \/ tuya_ble_storage_write_hid
        \/ \E id \in Identity : WriteAuthKey(id)
        \/ AuthWritten
        \/ PowerFails

SafeSpec == Init /\ [][Next]_vars

(* With power on the program proceeds.                                     *)
Spec == SafeSpec /\ WF_vars(PowerOn \/ LoadAuth \/ LoadSys \/ Save \/ AuthWritten)

-------------------------------------------------------------------------------
(***************************************************************************)
(* Correctness.                                                            *)
(***************************************************************************)

ValueOf(a) == IF a = "auth" THEN AuthValue ELSE SysValue

Value == {v \in [Area -> SysValue] : \A a \in Area : v[a] \in ValueOf(a)}

(* Every variable has its type. *)
TypeOK == /\ flash \in [Area -> [Copy -> Content]]
          /\ \A a \in Area, c \in Copy :
                crc_ok(flash[a][c]) => flash[a][c].value \in ValueOf(a)
          /\ current \in Value /\ committed \in Value /\ attempted \in Value
          /\ mode \in {"off", "auth", "sys", "run"}
          /\ saving \in Area
          /\ stage \in {"none", "erase_primary", "write_primary",
                        "erase_backup", "write_backup"}
          /\ auth_written \in BOOLEAN
          /\ failed_saves \in [Area -> Nat]
          /\ failures \in 0 .. MaxFailures
          /\ former \subseteq AuthValue

Saving(a) == stage # "none" /\ saving = a

(* A save that has been completed is what the next start-up loads, and     *)
(* both copies hold it, whatever happened before: a completed save repairs *)
(* what power failures did to either copy.                                 *)
CompletedSaveIsDurable ==
    \A a \in Area :
        failed_saves[a] = 0 /\ ~Saving(a) =>
            \/ \A c \in Copy : crc_ok(flash[a][c]) /\ flash[a][c].value = committed[a]
            \/ flash[a] = Both(Erased) /\ committed[a] = Zero[a]

(* One power failure at any point of a save loses nothing: what would be   *)
(* loaded, at every moment of the save and after the failure, is the value *)
(* before the save or the value it was writing. (Until a save completes    *)
(* again the area is exposed: the load does not bring the backup up to     *)
(* date, and a second failure during the next save can lose both copies.)  *)
OneFailureLosesNothing ==
    \A a \in Area :
        failed_saves[a] = 0 \/ (failed_saves[a] = 1 /\ ~Saving(a)) =>
            Loaded(flash[a], Zero[a]) \in {committed[a], attempted[a]}

(* A device that is bound is bound under its identity, however often power *)
(* failed. Where it failed after a new identity began to be written and    *)
(* before the old binding was cleared, the binding may be under one that   *)
(* the device had before, until it is cleared or made anew. Where it       *)
(* failed in two saves of an area in a row, which can bring back a value   *)
(* from before, nothing is said until then.                                *)
BoundUnderOwnIdentity ==
    Ready => current["sys"] \in {Unbound, current["auth"]} \cup former

(* Settings in the layout of the release before are all rewritten, by one  *)
(* start-up or by as many as power failures allow.                         *)
MigrationCompletes ==
    <>[](\A a \in Area, c \in Copy : flash[a][c].state # "old")

=============================================================================
