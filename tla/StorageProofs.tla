----------------------------- MODULE StorageProofs -----------------------------
(***************************************************************************)
(* Proofs about Storage, for every set of identities and any number of     *)
(* power failures. The inductive invariant adds to the two properties what *)
(* the flash holds between the operations of a save: until the primary is  *)
(* written the backup still holds what was committed, and from then on the *)
(* primary holds what the save is writing.                                 *)
(***************************************************************************)
EXTENDS Storage, TLAPS

Holds(c, v) == crc_ok(c) /\ c.value = v

(* Both copies hold the committed value, or nothing was ever saved.        *)
Settled(a) == \/ \A c \in Copy : Holds(flash[a][c], committed[a])
              \/ flash[a] = Both(Erased) /\ committed[a] = Zero[a]

BackupCommitted(a) ==
    \/ Holds(flash[a]["backup"], committed[a])
    \/ flash[a]["backup"] = Erased /\ committed[a] = Zero[a]

(* What the area holds while it is being saved.                            *)
DuringSave(a) ==
    /\ current[a] = attempted[a]
    /\ mode # "off"
    /\ stage = "erase_primary" /\ failed_saves[a] = 0 => Settled(a)
    /\ stage = "write_primary" =>
          /\ flash[a]["primary"] = Erased
          /\ failed_saves[a] = 0 => BackupCommitted(a)
    /\ stage \in {"erase_backup", "write_backup"} =>
          Holds(flash[a]["primary"], attempted[a])

(* What it holds otherwise.                                                *)
AtRest(a) ==
    /\ failed_saves[a] = 0 => Settled(a)
    /\ failed_saves[a] = 1 =>
          Loaded(flash[a], Zero[a]) \in {committed[a], attempted[a]}

AreaInv(a) == IF Saving(a) THEN DuringSave(a) ELSE AtRest(a)

(* An identity is written by the running device only.                      *)
WritingAuth == auth_written => mode = "run"

IInv == TypeOK /\ WritingAuth /\ \A a \in Area : AreaInv(a)

-------------------------------------------------------------------------------

LEMMA ContentFacts ==
    /\ ~crc_ok(Erased) /\ ~crc_ok(Torn)
    /\ \A v : Holds(Stored("new", v), v) /\ Holds(Stored("old", v), v)
    /\ Erased \in Content /\ Torn \in Content
    /\ \A v \in SysValue : Stored("new", v) \in Content /\ Stored("old", v) \in Content
<1>1. ~crc_ok(Erased) /\ ~crc_ok(Torn)
  BY DEF Erased, Torn, crc_ok
<1>2. \A v : Holds(Stored("new", v), v) /\ Holds(Stored("old", v), v)
  BY DEF Stored, crc_ok, Holds
<1>3. Erased \in Content /\ Torn \in Content
  BY DEF Content
<1>4. \A v \in SysValue : Stored("new", v) \in Content /\ Stored("old", v) \in Content
  BY DEF Content
<1> QED
  BY <1>1, <1>2, <1>3, <1>4

LEMMA ZeroIsValue == Zero \in Value
BY DEF Zero, Value, ValueOf, Area, SysValue, AuthValue

(* The area that is being saved, or rests, is safe in the sense of the     *)
(* properties.                                                             *)
LEMMA IInvImpliesProperties ==
    IInv => CompletedSaveIsDurable /\ OneFailureLosesNothing
<1> SUFFICES ASSUME IInv, NEW a \in Area
             PROVE  /\ failed_saves[a] = 0 /\ ~Saving(a) => Settled(a)
                    /\ failed_saves[a] = 0 \/ (failed_saves[a] = 1 /\ ~Saving(a))
                          => Loaded(flash[a], Zero[a])
                                \in {committed[a], attempted[a]}
  BY DEF CompletedSaveIsDurable, OneFailureLosesNothing, Settled, Holds
<1>1. AreaInv(a)
  BY DEF IInv
<1>2. Settled(a) => Loaded(flash[a], Zero[a]) = committed[a]
  BY ContentFacts DEF Settled, Holds, Loaded, Both, Copy
<1>3. CASE ~Saving(a)
  BY <1>1, <1>2, <1>3 DEF AreaInv, AtRest
<1>4. CASE Saving(a) /\ failed_saves[a] = 0
  <2>1. DuringSave(a)
    BY <1>1, <1>4 DEF AreaInv
  <2>2. stage \in {"erase_primary", "write_primary", "erase_backup", "write_backup"}
    BY <1>4 DEF Saving, IInv, TypeOK
  <2>3. CASE stage = "erase_primary"
    BY <1>2, <1>4, <2>1, <2>3 DEF DuringSave
  <2>4. CASE stage = "write_primary"
    BY <1>4, <2>1, <2>4, ContentFacts
       DEF DuringSave, BackupCommitted, Holds, Loaded
  <2>5. CASE stage \in {"erase_backup", "write_backup"}
    BY <1>4, <2>1, <2>5 DEF DuringSave, Holds, Loaded
  <2> QED
    BY <1>4, <2>2, <2>3, <2>4, <2>5
<1> QED
  BY <1>3, <1>4

-------------------------------------------------------------------------------

LEMMA InitEstablishesIInv == Init => IInv
<1> SUFFICES ASSUME Init
             PROVE  IInv
  OBVIOUS
<1>1. /\ committed \in Value /\ flash \in [Area -> [Copy -> Content]]
      /\ \A a \in Area : Settled(a)
      /\ \A a \in Area, c \in Copy :
            crc_ok(flash[a][c]) => flash[a][c].value \in ValueOf(a)
  <2>1. CASE /\ flash = [a \in Area |-> Both(Erased)]
             /\ committed = Zero
    BY <2>1, ContentFacts, ZeroIsValue DEF Settled, Both
  <2>2. ASSUME NEW id \in Identity, NEW f \in {"old", "new"},
               NEW s \in {Unbound, id},
               committed = [a \in Area |-> IF a = "auth" THEN id ELSE s],
               flash = [a \in Area |-> Both(Stored(f, committed[a]))]
        PROVE  <1>1!:
    <3>1. committed \in Value
      BY <2>2 DEF Value, ValueOf, Area, SysValue, AuthValue
    <3>2. \A a \in Area, c \in Copy : flash[a][c] = Stored(f, committed[a])
      BY <2>2 DEF Both
    <3>3. \A a \in Area : committed[a] \in SysValue /\ committed[a] \in ValueOf(a)
      BY <3>1 DEF Value
    <3>4. \A a \in Area, c \in Copy :
             Holds(flash[a][c], committed[a]) /\ flash[a][c] \in Content
      BY <3>2, <3>3, ContentFacts
    <3>5. flash \in [Area -> [Copy -> Content]]
      BY <2>2, <3>3, ContentFacts DEF Both
    <3> QED
      BY <3>1, <3>3, <3>4, <3>5 DEF Settled, Holds
  <2> QED
    BY <2>1, <2>2 DEF Init
<1>2. TypeOK
  <2>1. failed_saves \in [Area -> Nat] /\ failures \in 0 .. MaxFailures
    BY StorageAssumption DEF Init
  <2>2. mode \in {"off", "auth", "sys", "run"} /\ saving \in Area /\ auth_written \in BOOLEAN
    BY DEF Init, Area
  <2>3. current \in Value /\ attempted \in Value
    BY <1>1, ZeroIsValue DEF Init
  <2>4. stage = "none" /\ former = {}
    BY DEF Init
  <2> QED
    BY <1>1, <2>1, <2>2, <2>3, <2>4 DEF TypeOK
<1>3. \A a \in Area : AreaInv(a)
  BY <1>1 DEF Init, AreaInv, Saving, AtRest
<1> QED
  BY <1>2, <1>3 DEF Init, IInv, WritingAuth

-------------------------------------------------------------------------------

(* What a load finds is a value the area can have. *)
LEMMA LoadedType ==
    ASSUME TypeOK, NEW a \in Area
    PROVE  Loaded(flash[a], Zero[a]) \in ValueOf(a)
BY ZeroIsValue DEF TypeOK, Loaded, Copy, Value

(* An area that is not being saved stays as it is while none of its own    *)
(* state changes.                                                          *)
LEMMA AtRestUndisturbed ==
    ASSUME NEW a \in Area, AreaInv(a), ~Saving(a), ~Saving(a)',
           flash'[a] = flash[a], committed'[a] = committed[a],
           attempted'[a] = attempted[a], failed_saves'[a] = failed_saves[a]
    PROVE  AreaInv(a)'
BY DEF AreaInv, AtRest, Settled, Holds, Loaded

(* A step that begins a save keeps the invariant.                          *)
LEMMA SaveBegins ==
    ASSUME IInv, stage = "none", NEW a \in Area, NEW v \in ValueOf(a),
           BeginSave(a, v), current' = [current EXCEPT ![a] = v],
           mode' \in {"sys", "run"}, auth_written' \in BOOLEAN, WritingAuth',
           former' \subseteq AuthValue,
           UNCHANGED <<flash, committed, failed_saves, failures>>
    PROVE  IInv'
<1>1. TypeOK'
  <2>1. current' \in Value /\ attempted' \in Value
    BY DEF IInv, TypeOK, BeginSave, Value, ValueOf, SysValue
  <2>2. stage' = "erase_primary" /\ saving' \in Area
    BY DEF BeginSave
  <2> QED
    BY <2>1, <2>2 DEF IInv, TypeOK
<1>2. AreaInv(a)'
  <2>1. failed_saves[a] = 0 => Settled(a)
    BY DEF IInv, AreaInv, Saving, AtRest
  <2>2. current'[a] = v /\ attempted'[a] = v
    BY DEF IInv, TypeOK, BeginSave, Value
  <2> QED
    BY <2>1, <2>2 DEF BeginSave, AreaInv, Saving, DuringSave, Settled
<1>3. ASSUME NEW b \in Area, b # a
      PROVE  AreaInv(b)'
  <2>1. AreaInv(b) /\ ~Saving(b) /\ ~Saving(b)'
    BY <1>3 DEF IInv, Saving, BeginSave
  <2>2. attempted'[b] = attempted[b]
    BY <1>3 DEF IInv, TypeOK, BeginSave, Value
  <2> QED
    BY <2>1, <2>2, AtRestUndisturbed
<1> QED
  BY <1>1, <1>2, <1>3 DEF IInv

(* So does a step that leaves flash and history alone.                     *)
LEMMA NothingSaved ==
    ASSUME IInv, stage = "none", current' \in Value,
           mode' \in {"off", "auth", "sys", "run"}, auth_written' \in BOOLEAN,
           WritingAuth', former' \subseteq AuthValue,
           UNCHANGED <<flash, saving, stage, committed, attempted, failed_saves>>,
           failures' \in 0 .. MaxFailures
    PROVE  IInv'
<1>1. TypeOK'
  BY DEF IInv, TypeOK
<1>2. ASSUME NEW a \in Area
      PROVE  AreaInv(a)'
  BY AtRestUndisturbed DEF IInv, Saving
<1> QED
  BY <1>1, <1>2 DEF IInv

(* The area a flash operation does not concern.                            *)
LEMMA OperateOther ==
    ASSUME IInv, NEW now, NEW next, NEW copy \in Copy, NEW c,
           Operate(now, next, copy, c), now # "none",
           NEW b \in Area, b # saving,
           committed'[b] = committed[b], failed_saves'[b] = failed_saves[b]
    PROVE  AreaInv(b)'
<1>1. AreaInv(b) /\ ~Saving(b) /\ ~Saving(b)'
  BY DEF IInv, Saving, Operate
<1>2. flash'[b] = flash[b]
  BY DEF IInv, TypeOK, Operate
<1> QED
  BY <1>1, <1>2, AtRestUndisturbed DEF Operate

(* The types after a flash operation.                                      *)
LEMMA OperateType ==
    ASSUME IInv, NEW now, NEW copy \in Copy, NEW c \in Content,
           NEW next \in {"none", "write_primary", "erase_backup", "write_backup"},
           Operate(now, next, copy, c),
           crc_ok(c) => c.value \in ValueOf(saving),
           committed' \in Value, failed_saves' \in [Area -> Nat],
           former' \subseteq AuthValue
    PROVE  /\ TypeOK'
           /\ flash'[saving][copy] = c
           /\ \A d \in Copy \ {copy} : flash'[saving][d] = flash[saving][d]
<1>1. /\ flash' \in [Area -> [Copy -> Content]]
      /\ flash'[saving][copy] = c
      /\ \A a \in Area, d \in Copy :
            a # saving \/ d # copy => flash'[a][d] = flash[a][d]
  BY DEF IInv, TypeOK, Operate
<1>2. \A a \in Area, d \in Copy :
         crc_ok(flash'[a][d]) => flash'[a][d].value \in ValueOf(a)
  BY <1>1 DEF IInv, TypeOK
<1>3. saving \in Area
  BY DEF IInv, TypeOK
<1> QED
  BY <1>1, <1>2, <1>3 DEF IInv, TypeOK, Operate

(* What a save writes is a value of its area.                              *)
LEMMA WrittenType ==
    ASSUME IInv
    PROVE  /\ saving \in Area
           /\ Stored("new", current[saving]) \in Content
           /\ crc_ok(Stored("new", current[saving]))
           /\ Stored("new", current[saving]).value = current[saving]
           /\ current[saving] \in ValueOf(saving)
<1>1. saving \in Area
  BY DEF IInv, TypeOK
<1>2. current[saving] \in SysValue /\ current[saving] \in ValueOf(saving)
  BY <1>1 DEF IInv, TypeOK, Value
<1> QED
  BY <1>1, <1>2, ContentFacts DEF Holds

-------------------------------------------------------------------------------
(* Only identities become former ones. *)
LEMMA FormerType == ASSUME IInv, [Next]_vars PROVE former' \subseteq AuthValue
<1>1. former \subseteq AuthValue /\ current["auth"] \in AuthValue
  BY DEF IInv, TypeOK, Value, ValueOf, Area
<1>2. former' \in {former, {}, AuthValue, former \cup {current["auth"]}}
  BY DEF Next, PowerOn, LoadAuth, LoadSys, Load, Save, ErasePrimary, WritePrimary,
         EraseBackup, WriteBackup, SaveCompletes, Bind, tuya_ble_device_unbond,
         tuya_ble_storage_write_pid, tuya_ble_storage_write_hid, Rewrite,
         WriteAuthKey, AuthWritten, PowerFails, vars, history
<1> QED BY <1>1, <1>2

(* The four operations of a save. *)

LEMMA ErasePrimaryOK == IInv /\ ErasePrimary => IInv'
<1> SUFFICES ASSUME IInv, ErasePrimary
             PROVE  IInv'
  OBVIOUS
<1>0. Operate("erase_primary", "write_primary", "primary", Erased)
      /\ UNCHANGED <<committed, failed_saves, former>>
  BY DEF ErasePrimary
<1>1. TypeOK' /\ flash'[saving]["primary"] = Erased
      /\ flash'[saving]["backup"] = flash[saving]["backup"]
  <2>1. /\ committed' \in Value /\ failed_saves' \in [Area -> Nat]
        /\ former' \subseteq AuthValue
    BY <1>0 DEF IInv, TypeOK
  <2> QED
    BY <1>0, <2>1, OperateType, ContentFacts DEF Copy
<1>2. AreaInv(saving)'
  <2>1. DuringSave(saving) /\ saving \in Area
    BY <1>0 DEF IInv, TypeOK, AreaInv, Saving, Operate
  <2>2. failed_saves[saving] = 0 => BackupCommitted(saving)
    BY <1>0, <2>1 DEF DuringSave, Settled, BackupCommitted, Operate, Both, Copy
  <2> QED
    BY <1>0, <1>1, <2>1, <2>2
       DEF AreaInv, Saving, DuringSave, BackupCommitted, Operate
<1>3. ASSUME NEW b \in Area, b # saving
      PROVE  AreaInv(b)'
  BY <1>0, <1>3, OperateOther DEF Copy
<1> QED
  BY <1>0, <1>1, <1>2, <1>3 DEF IInv, WritingAuth, Operate

LEMMA WritePrimaryOK == IInv /\ WritePrimary => IInv'
<1> SUFFICES ASSUME IInv, WritePrimary
             PROVE  IInv'
  OBVIOUS
<1>0. Operate("write_primary", "erase_backup", "primary",
              Stored("new", current[saving]))
      /\ UNCHANGED <<committed, failed_saves, former>>
  BY DEF WritePrimary
<1>1. TypeOK' /\ flash'[saving]["primary"] = Stored("new", current[saving])
  <2>1. /\ committed' \in Value /\ failed_saves' \in [Area -> Nat]
        /\ former' \subseteq AuthValue
    BY <1>0 DEF IInv, TypeOK
  <2> QED
    BY <1>0, <2>1, OperateType, WrittenType DEF Copy
<1>2. AreaInv(saving)'
  <2>1. DuringSave(saving) /\ saving \in Area
    BY <1>0 DEF IInv, TypeOK, AreaInv, Saving, Operate
  <2>2. Holds(Stored("new", current[saving]), attempted[saving])
    BY <2>1, ContentFacts DEF DuringSave
  <2> QED
    BY <1>0, <1>1, <2>1, <2>2 DEF AreaInv, Saving, DuringSave, Holds, Operate
<1>3. ASSUME NEW b \in Area, b # saving
      PROVE  AreaInv(b)'
  BY <1>0, <1>3, OperateOther DEF Copy
<1> QED
  BY <1>0, <1>1, <1>2, <1>3 DEF IInv, WritingAuth, Operate

LEMMA EraseBackupOK == IInv /\ EraseBackup => IInv'
<1> SUFFICES ASSUME IInv, EraseBackup
             PROVE  IInv'
  OBVIOUS
<1>0. Operate("erase_backup", "write_backup", "backup", Erased)
      /\ UNCHANGED <<committed, failed_saves, former>>
  BY DEF EraseBackup
<1>1. TypeOK' /\ flash'[saving]["primary"] = flash[saving]["primary"]
  <2>1. /\ committed' \in Value /\ failed_saves' \in [Area -> Nat]
        /\ former' \subseteq AuthValue
    BY <1>0 DEF IInv, TypeOK
  <2> QED
    BY <1>0, <2>1, OperateType, ContentFacts DEF Copy
<1>2. AreaInv(saving)'
  <2>1. DuringSave(saving) /\ saving \in Area
    BY <1>0 DEF IInv, TypeOK, AreaInv, Saving, Operate
  <2> QED
    BY <1>0, <1>1, <2>1 DEF AreaInv, Saving, DuringSave, Holds, Operate
<1>3. ASSUME NEW b \in Area, b # saving
      PROVE  AreaInv(b)'
  BY <1>0, <1>3, OperateOther DEF Copy
<1> QED
  BY <1>0, <1>1, <1>2, <1>3 DEF IInv, WritingAuth, Operate

LEMMA WriteBackupOK == IInv /\ WriteBackup => IInv'
<1> SUFFICES ASSUME IInv, WriteBackup
             PROVE  IInv'
  OBVIOUS
<1>0. /\ Operate("write_backup", "none", "backup", Stored("new", current[saving]))
      /\ committed' = [committed EXCEPT ![saving] = current[saving]]
      /\ failed_saves' = [failed_saves EXCEPT ![saving] = 0]
  BY DEF WriteBackup, SaveCompletes
<1>1. TypeOK' /\ flash'[saving]["backup"] = Stored("new", current[saving])
      /\ flash'[saving]["primary"] = flash[saving]["primary"]
  <2>1. committed' \in Value
    BY <1>0, WrittenType DEF IInv, TypeOK, Value, ValueOf, SysValue
  <2>2. failed_saves' \in [Area -> Nat]
    BY <1>0, StorageAssumption DEF IInv, TypeOK
  <2>3. former' \subseteq AuthValue
    BY FormerType DEF Next, Save
  <2> QED
    BY <1>0, <2>1, <2>2, <2>3, OperateType, WrittenType DEF Copy
<1>2. AreaInv(saving)'
  <2>1. DuringSave(saving) /\ saving \in Area
    BY <1>0 DEF IInv, TypeOK, AreaInv, Saving, Operate
  <2>2. committed'[saving] = current[saving] /\ failed_saves'[saving] = 0
    BY <1>0, <2>1 DEF IInv, TypeOK, Value
  <2>3. \A c \in Copy : Holds(flash'[saving][c], current[saving])
    BY <1>0, <1>1, <2>1, ContentFacts DEF DuringSave, Holds, Operate, Copy
  <2> QED
    BY <1>0, <2>2, <2>3 DEF AreaInv, Saving, AtRest, Settled, Holds, Operate
<1>3. ASSUME NEW b \in Area, b # saving
      PROVE  AreaInv(b)'
  <2>1. committed'[b] = committed[b] /\ failed_saves'[b] = failed_saves[b]
    BY <1>0, <1>3 DEF IInv, TypeOK, Value
  <2> QED
    BY <1>0, <1>3, <2>1, OperateOther DEF Copy
<1> QED
  BY <1>0, <1>1, <1>2, <1>3 DEF IInv, WritingAuth, Operate

-------------------------------------------------------------------------------

(* A power failure during a save leaves one copy that can be loaded, if    *)
(* the save before it was completed.                                       *)
LEMMA PowerFailsOK == IInv /\ PowerFails => IInv'
<1> SUFFICES ASSUME IInv, PowerFails
             PROVE  IInv'
  OBVIOUS
<1>0. former' \subseteq AuthValue
  BY FormerType DEF Next
<1>1. CASE stage = "none"
  <2>1. failures' \in 0 .. MaxFailures
    BY StorageAssumption DEF PowerFails, IInv, TypeOK
  <2> QED
    BY <1>0, <1>1, <2>1, NothingSaved, ZeroIsValue DEF PowerFails, WritingAuth
<1>2. CASE stage # "none"
  <2> DEFINE a == saving
             w == WorkedOn
  <2>1. PICK c \in Remains(flash[a][w]) :
           flash' = [flash EXCEPT ![saving][WorkedOn] = c]
    BY <1>2 DEF PowerFails
  <2>2. a \in Area /\ w \in Copy
    BY DEF IInv, TypeOK, WorkedOn, Copy
  <2>3. \/ c = Erased \/ c = Torn
        \/ stage \in {"write_primary", "write_backup"}
              /\ c = Stored("new", current[a])
        \/ stage \in {"erase_primary", "erase_backup"} /\ c = flash[a][w]
    <3>1. stage \in {"erase_primary", "write_primary", "erase_backup", "write_backup"}
      BY <1>2 DEF IInv, TypeOK
    <3> QED
      BY <2>1, <3>1 DEF Remains
  <2>4. c \in Content /\ (crc_ok(c) => c.value \in ValueOf(a))
    BY <2>2, <2>3, ContentFacts, WrittenType DEF IInv, TypeOK
  <2>5. /\ flash' \in [Area -> [Copy -> Content]]
        /\ flash'[a][w] = c
        /\ \A b \in Area, d \in Copy :
              b # a \/ d # w => flash'[b][d] = flash[b][d]
        /\ \A b \in Area : b # a => flash'[b] = flash[b]
    BY <2>1, <2>2, <2>4 DEF IInv, TypeOK
  <2>6. /\ failed_saves' \in [Area -> Nat]
        /\ failed_saves'[a] = failed_saves[a] + 1
        /\ \A b \in Area : b # a => failed_saves'[b] = failed_saves[b]
    <3>1. failed_saves' = [failed_saves EXCEPT ![a] = @ + 1]
      BY <1>2 DEF PowerFails
    <3> QED
      BY <2>2, <3>1 DEF IInv, TypeOK
  <2>7. TypeOK'
    <3>1. \A b \in Area, d \in Copy :
             crc_ok(flash'[b][d]) => flash'[b][d].value \in ValueOf(b)
      BY <2>4, <2>5 DEF IInv, TypeOK
    <3>2. failures' \in 0 .. MaxFailures
      BY StorageAssumption DEF PowerFails, IInv, TypeOK
    <3> QED
      BY <1>0, <2>5, <2>6, <3>1, <3>2, ZeroIsValue DEF PowerFails, IInv, TypeOK
  <2>8. AreaInv(a)'
    <3>1. DuringSave(a) /\ failed_saves[a] \in Nat
      BY <1>2, <2>2 DEF IInv, TypeOK, AreaInv, Saving
    <3>2. SUFFICES ASSUME failed_saves[a] = 0
                   PROVE  Loaded(flash'[a], Zero[a]) \in {committed[a], attempted[a]}
      BY <2>6, <3>1 DEF PowerFails, AreaInv, Saving, AtRest
    <3>3. CASE stage = "erase_primary"
      <4>1. w = "primary" /\ Settled(a)
        BY <3>1, <3>2, <3>3 DEF WorkedOn, DuringSave
      <4>2. c = Erased \/ c = Torn \/ c = flash[a]["primary"]
        BY <2>3, <3>3, <4>1
      <4>3. flash'[a]["primary"] = c /\ flash'[a]["backup"] = flash[a]["backup"]
        BY <2>2, <2>5, <4>1 DEF Copy
      <4> QED
        BY <4>1, <4>2, <4>3, ContentFacts DEF Settled, Holds, Loaded, Both, Copy
    <3>4. CASE stage = "write_primary"
      <4>1. w = "primary" /\ BackupCommitted(a) /\ current[a] = attempted[a]
        BY <3>1, <3>2, <3>4 DEF WorkedOn, DuringSave
      <4>2. c = Erased \/ c = Torn \/ c = Stored("new", attempted[a])
        BY <2>3, <3>4, <4>1
      <4>3. flash'[a]["primary"] = c /\ flash'[a]["backup"] = flash[a]["backup"]
        BY <2>2, <2>5, <4>1 DEF Copy
      <4> QED
        BY <4>1, <4>2, <4>3, ContentFacts DEF BackupCommitted, Holds, Loaded
    <3>5. CASE stage \in {"erase_backup", "write_backup"}
      <4>1. w = "backup" /\ Holds(flash[a]["primary"], attempted[a])
        BY <3>1, <3>5 DEF WorkedOn, DuringSave
      <4>2. flash'[a]["primary"] = flash[a]["primary"]
        BY <2>2, <2>5, <4>1 DEF Copy
      <4> QED
        BY <4>1, <4>2 DEF Holds, Loaded
    <3> QED
      BY <1>2, <3>3, <3>4, <3>5 DEF IInv, TypeOK
  <2>9. ASSUME NEW b \in Area, b # a
        PROVE  AreaInv(b)'
    <3>1. AreaInv(b) /\ ~Saving(b) /\ ~Saving(b)'
      BY <2>9 DEF IInv, Saving, PowerFails
    <3> QED
      BY <2>5, <2>6, <2>9, <3>1, AtRestUndisturbed DEF PowerFails
  <2> QED
    BY <2>2, <2>7, <2>8, <2>9 DEF IInv, WritingAuth, PowerFails
<1> QED
  BY <1>1, <1>2

LEMMA LoadOK ==
    ASSUME IInv, NEW a \in Area, NEW next \in {"sys", "run"}, Load(a, next)
    PROVE  IInv'
<1> DEFINE v == Loaded(flash[a], Zero[a])
<1>1. v \in ValueOf(a)
  BY LoadedType DEF IInv
<1>2. current' = [current EXCEPT ![a] = v]
  BY DEF Load
<1>0. auth_written = FALSE /\ former' \subseteq AuthValue
  BY DEF Load, IInv, TypeOK, WritingAuth, Area
<1>3. CASE flash_update(flash[a])
  BY <1>0, <1>1, <1>2, <1>3, SaveBegins DEF Load, WritingAuth
<1>4. CASE ~flash_update(flash[a])
  <2>1. current' \in Value
    BY <1>1, <1>2 DEF IInv, TypeOK, Value, ValueOf, SysValue
  <2>2. failures' \in 0 .. MaxFailures
    BY DEF Load, IInv, TypeOK
  <2> QED
    BY <1>0, <1>4, <2>1, <2>2, NothingSaved DEF Load, WritingAuth
<1> QED
  BY <1>3, <1>4

(* An operation that sets a value and saves it.                            *)
LEMMA SetAndSaveOK ==
    ASSUME IInv, stage = "none", mode = "run", auth_written' \in BOOLEAN,
           former' \subseteq AuthValue,
           NEW a \in Area, NEW v \in ValueOf(a), SetAndSave(a, v)
    PROVE  IInv'
BY SaveBegins DEF SetAndSave, WritingAuth

LEMMA NextPreservesIInv == IInv /\ [Next]_vars => IInv'
<1> SUFFICES ASSUME IInv, [Next]_vars
             PROVE  IInv'
  OBVIOUS
<1>0. former' \subseteq AuthValue
  BY FormerType
<1>1. CASE PowerOn
  <2>1. stage = "none"
    <3>1. saving \in Area /\ mode = "off"
      BY <1>1 DEF PowerOn, IInv, TypeOK
    <3> QED
      BY <3>1 DEF IInv, AreaInv, Saving, DuringSave
  <2> QED
    BY <1>0, <1>1, <2>1, NothingSaved DEF PowerOn, history, IInv, TypeOK, WritingAuth
<1>2. CASE LoadAuth
  BY <1>2, LoadOK DEF LoadAuth, Area
<1>3. CASE LoadSys
  BY <1>3, LoadOK DEF LoadSys, Area
<1>4. CASE Save
  BY <1>4, ErasePrimaryOK, WritePrimaryOK, EraseBackupOK, WriteBackupOK DEF Save
<1>5. CASE Bind
  <2>1. current["auth"] \in ValueOf("sys")
    BY DEF IInv, TypeOK, Value, ValueOf, SysValue, Area
  <2> QED
    BY <1>0, <1>5, <2>1, SetAndSaveOK DEF Bind, Ready, Area, IInv, TypeOK
<1>6. CASE tuya_ble_device_unbond
  BY <1>0, <1>6, SetAndSaveOK
     DEF tuya_ble_device_unbond, Ready, Area, IInv, TypeOK, ValueOf, SysValue
<1>7. ASSUME NEW id \in Identity, WriteAuthKey(id)
      PROVE  IInv'
  BY <1>0, <1>7, SetAndSaveOK DEF WriteAuthKey, Ready, Area, ValueOf, AuthValue
<1>8. CASE AuthWritten
  <2>1. stage = "none" /\ auth_written' = FALSE
    BY <1>8 DEF AuthWritten
  <2>2. CASE SetAndSave("sys", Unbound)
    <3>1. mode = "run"
      BY <1>8 DEF AuthWritten, IInv, WritingAuth
    <3> QED
      BY <1>0, <2>1, <2>2, <3>1, SetAndSaveOK DEF Area, ValueOf, SysValue
  <2>3. CASE UNCHANGED <<flash, current, mode, saving, stage, committed, attempted,
                         failed_saves, failures>>
    BY <1>0, <2>1, <2>3, NothingSaved DEF IInv, TypeOK, WritingAuth
  <2> QED
    BY <1>8, <2>2, <2>3 DEF AuthWritten
<1>9. CASE PowerFails
  BY <1>9, PowerFailsOK
<1>11. CASE tuya_ble_storage_write_pid \/ tuya_ble_storage_write_hid
  <2>1. PICK a \in Area : Rewrite(a)
    BY <1>11 DEF tuya_ble_storage_write_pid, tuya_ble_storage_write_hid, Area
  <2>2. current[a] \in ValueOf(a)
    BY DEF IInv, TypeOK, Value
  <2> QED
    BY <1>0, <2>1, <2>2, SetAndSaveOK DEF Rewrite, Ready, IInv, TypeOK
<1>10. CASE UNCHANGED vars
  <2>1. TypeOK'
    BY <1>10 DEF vars, history, IInv, TypeOK
  <2>2. ASSUME NEW a \in Area
        PROVE  AreaInv(a)'
    BY <1>10 DEF vars, history, IInv, AreaInv, Saving, DuringSave, AtRest,
                 Settled, BackupCommitted, Holds, Loaded
  <2> QED
    BY <1>10, <2>1, <2>2 DEF vars, IInv, WritingAuth
<1> QED
  BY <1>1, <1>2, <1>3, <1>4, <1>5, <1>6, <1>7, <1>8, <1>9, <1>10, <1>11 DEF Next

(* IInv is an invariant of the storage component.                          *)
THEOREM InvariantHolds == SafeSpec => []IInv
BY InitEstablishesIInv, NextPreservesIInv, PTL DEF SafeSpec

(* Every variable always has its type.                                     *)
THEOREM TypeCorrect == SafeSpec => []TypeOK
BY InvariantHolds, PTL DEF IInv

(* A completed save is what every later start-up loads, from either copy,  *)
(* whatever power failures went before it.                                 *)
THEOREM CompletedSavesAreDurable == SafeSpec => []CompletedSaveIsDurable
BY InvariantHolds, IInvImpliesProperties, PTL

(* One power failure, at any point of a save, leaves the value before the  *)
(* save or the one it was writing.                                         *)
THEOREM SavesSurviveOneFailure == SafeSpec => []OneFailureLosesNothing
BY InvariantHolds, IInvImpliesProperties, PTL

-------------------------------------------------------------------------------
(***************************************************************************)
(* The binding is under the device's own identity, or one of "former". An  *)
(* area counts with its value in RAM once it is loaded, and with what      *)
(* would be loaded from flash before. While it is being saved, and the     *)
(* save before was completed, a power failure can only bring back what is  *)
(* committed, so that too must fit the other area.                         *)
(***************************************************************************)

InFlash(a) == Loaded(flash[a], Zero[a])
HasLoaded(a) == mode = "run" \/ (mode = "sys" /\ a = "auth")
InUse(a) == IF HasLoaded(a) THEN current[a] ELSE InFlash(a)

Fits(s, id, old) == s \in {Unbound, id} \cup old

OneSaveAtATime == /\ mode \in {"off", "auth"} => stage = "none"
                  /\ mode = "sys" /\ stage # "none" => saving = "auth"

LoadedIsStored == \A a \in Area : HasLoaded(a) /\ ~Saving(a) => current[a] = InFlash(a)

SavingSysFits == Saving("sys") /\ failed_saves["sys"] = 0 =>
                    Fits(committed["sys"], InUse("auth"), former)

SavingAuthFits == Saving("auth") /\ failed_saves["auth"] = 0 =>
                     Fits(InUse("sys"), committed["auth"], former)

BindingInv == /\ OneSaveAtATime
              /\ LoadedIsStored
              /\ Fits(InUse("sys"), InUse("auth"), former)
              /\ SavingSysFits
              /\ SavingAuthFits

LEMMA Areas == "auth" \in Area /\ "sys" \in Area /\ \A a \in Area : a = "auth" \/ a = "sys"
BY DEF Area

(* What an area holds, in the terms of this part. *)
StoredWell ==
    \A a \in Area :
        /\ InFlash(a) \in ValueOf(a)
        /\ ~Saving(a) /\ failed_saves[a] = 0 => InFlash(a) = committed[a]
        /\ ~Saving(a) /\ failed_saves[a] = 1 => InFlash(a) \in {committed[a], attempted[a]}

LEMMA IInvStoredWell == IInv => StoredWell
<1> SUFFICES ASSUME IInv, NEW a \in Area
             PROVE  StoredWell!(a)
  BY DEF StoredWell
<1>1. InFlash(a) \in ValueOf(a)
  BY LoadedType DEF IInv, InFlash
<1>2. ~Saving(a) /\ failed_saves[a] = 0 => InFlash(a) = committed[a]
  <2> SUFFICES ASSUME ~Saving(a), failed_saves[a] = 0
               PROVE  InFlash(a) = committed[a]
    OBVIOUS
  <2>1. Settled(a)
    BY DEF IInv, AreaInv, AtRest
  <2> QED
    BY <2>1, ContentFacts DEF Settled, Holds, Loaded, Both, Copy, InFlash
<1>3. ~Saving(a) /\ failed_saves[a] = 1 => InFlash(a) \in {committed[a], attempted[a]}
  BY DEF IInv, AreaInv, AtRest, InFlash
<1> QED
  BY <1>1, <1>2, <1>3

LEMMA IInvStoredWellNext == IInv' => StoredWell'
BY IInvStoredWell, PTL

(* An area at rest that no failure hit holds what is committed.            *)
LEMMA SettledIsStored ==
    ASSUME IInv, NEW a \in Area, ~Saving(a), failed_saves[a] = 0
    PROVE  InFlash(a) = committed[a]
BY IInvStoredWell DEF StoredWell

(* More former identities allow more bindings. *)
LEMMA FitsMore ==
    ASSUME NEW s, NEW id, NEW old, NEW more, Fits(s, id, old), old \subseteq more
    PROVE  Fits(s, id, more)
BY DEF Fits

LEMMA InitBinding == Init => BindingInv
<1> SUFFICES ASSUME Init PROVE BindingInv
  OBVIOUS
<1>1. IInv
  BY InitEstablishesIInv
<1>2. \A a \in Area : InUse(a) = committed[a]
  BY <1>1, SettledIsStored DEF Init, InUse, HasLoaded, Saving
<1>3. committed["sys"] \in {Unbound, committed["auth"]}
  BY Areas DEF Init, Zero
<1> QED
  BY <1>2, <1>3, Areas
     DEF Init, BindingInv, OneSaveAtATime, LoadedIsStored, HasLoaded, Fits,
         SavingSysFits, SavingAuthFits, Saving

(* A save of the running device begins with what is in flash equal to what *)
(* is in RAM. It may be that of another value, if that fits.               *)
LEMMA SaveBeginsBinding ==
    ASSUME IInv, BindingInv, mode = "run", stage = "none",
           NEW a \in Area, NEW v \in ValueOf(a), SetAndSave(a, v),
           former \subseteq former',
           Fits(current'["sys"], current'["auth"], former'),
           a = "auth" => Fits(current["sys"], current["auth"], former')
    PROVE  BindingInv'
<1>1. /\ current'[a] = v /\ \A b \in Area : b # a => current'[b] = current[b]
      /\ UNCHANGED <<flash, mode, committed, failed_saves>>
      /\ stage' = "erase_primary" /\ saving' = a
  BY DEF SetAndSave, BeginSave, IInv, TypeOK, Value
<1>2. \A b \in Area : current[b] = InFlash(b) /\ (failed_saves[b] = 0 => current[b] = committed[b])
  BY SettledIsStored DEF BindingInv, LoadedIsStored, HasLoaded, Saving
<1>3. \A b \in Area : InUse(b)' = current'[b] /\ InFlash(b)' = InFlash(b)
  BY <1>1 DEF InUse, HasLoaded, InFlash
<1>4. Fits(current["sys"], current["auth"], former')
  <2>1. InUse("sys") = current["sys"] /\ InUse("auth") = current["auth"]
    BY DEF InUse, HasLoaded
  <2> QED
    BY <2>1, FitsMore DEF BindingInv
<1>5. (OneSaveAtATime /\ LoadedIsStored)'
  BY <1>1, <1>2, <1>3 DEF OneSaveAtATime, LoadedIsStored, Saving
<1>6. Fits(InUse("sys"), InUse("auth"), former)'
  BY <1>3, Areas
<1>7. SavingSysFits'
  <2> SUFFICES ASSUME a = "sys", failed_saves["sys"] = 0
               PROVE  Fits(committed["sys"], current["auth"], former')
    BY <1>1, <1>3, Areas DEF SavingSysFits, Saving
  <2> QED
    BY <1>2, <1>4, Areas
<1>8. SavingAuthFits'
  <2> SUFFICES ASSUME a = "auth", failed_saves["auth"] = 0
               PROVE  Fits(current["sys"], committed["auth"], former')
    BY <1>1, <1>3, Areas DEF SavingAuthFits, Saving
  <2> QED
    BY <1>2, <1>4, Areas
<1> QED
  BY <1>5, <1>6, <1>7, <1>8 DEF BindingInv

(* The operations of a save before the last change the flash of the area   *)
(* only, which counts with its value in RAM.                               *)
LEMMA SaveContinuesBinding ==
    ASSUME IInv, BindingInv, ErasePrimary \/ WritePrimary \/ EraseBackup
    PROVE  BindingInv'
<1>1. /\ stage # "none" /\ stage' # "none"
      /\ UNCHANGED <<current, mode, saving, committed, failed_saves, former>>
      /\ \A a \in Area : a # saving => flash'[a] = flash[a]
      /\ saving \in Area
  BY DEF ErasePrimary, WritePrimary, EraseBackup, Operate, IInv, TypeOK
<1>2. HasLoaded(saving) /\ (mode = "run" \/ (mode = "sys" /\ saving = "auth"))
  BY <1>1 DEF BindingInv, OneSaveAtATime, HasLoaded, IInv, TypeOK
<1>3. \A a \in Area : /\ InUse(a)' = InUse(a)
                      /\ HasLoaded(a)' <=> HasLoaded(a)
                      /\ Saving(a)' <=> Saving(a)
                      /\ ~Saving(a) => InFlash(a)' = InFlash(a)
  BY <1>1, <1>2 DEF InUse, HasLoaded, InFlash, Saving
<1>4. (OneSaveAtATime /\ LoadedIsStored)'
  BY <1>1, <1>3 DEF BindingInv, OneSaveAtATime, LoadedIsStored
<1>5. Fits(InUse("sys"), InUse("auth"), former)'
  BY <1>1, <1>3, Areas DEF BindingInv
<1>6. (SavingSysFits /\ SavingAuthFits)'
  BY <1>1, <1>3, Areas DEF BindingInv, SavingSysFits, SavingAuthFits
<1> QED
  BY <1>4, <1>5, <1>6 DEF BindingInv

(* The last makes what is in flash what is in RAM. *)
LEMMA SaveEndsBinding == ASSUME IInv, BindingInv, WriteBackup PROVE BindingInv'
<1>1. /\ stage # "none" /\ stage' = "none"
      /\ UNCHANGED <<current, mode, saving>>
      /\ \A a \in Area : a # saving => flash'[a] = flash[a]
      /\ saving \in Area
  BY DEF WriteBackup, Operate, IInv, TypeOK
<1>2. mode = "run" \/ (mode = "sys" /\ saving = "auth")
  BY <1>1 DEF BindingInv, OneSaveAtATime, IInv, TypeOK
<1>3. InFlash(saving)' = current[saving]
  <2>1. failed_saves'[saving] = 0 /\ committed'[saving] = current[saving]
    BY <1>1 DEF WriteBackup, SaveCompletes, IInv, TypeOK, Value
  <2>2. IInv' /\ ~Saving(saving)'
    BY <1>1, WriteBackupOK DEF Saving
  <2> QED
    BY <1>1, <2>1, <2>2, IInvStoredWellNext DEF StoredWell
<1>4. \A a \in Area : /\ InUse(a)' = InUse(a)
                      /\ HasLoaded(a)' <=> HasLoaded(a)
                      /\ a # saving => ~Saving(a) /\ InFlash(a)' = InFlash(a)
  BY <1>1, <1>2 DEF InUse, HasLoaded, InFlash, Saving
<1>5. (OneSaveAtATime /\ SavingSysFits /\ SavingAuthFits)'
  BY <1>1 DEF OneSaveAtATime, SavingSysFits, SavingAuthFits, Saving
<1>6. LoadedIsStored'
  BY <1>1, <1>3, <1>4 DEF BindingInv, LoadedIsStored
<1>7. Fits(InUse("sys"), InUse("auth"), former)'
  <2>1. CASE saving = "sys" /\ current["sys"] \in {Unbound, current["auth"]}
    <3>1. InUse("sys")' = current["sys"] /\ InUse("auth")' = current["auth"]
      BY <1>1, <1>2, <2>1 DEF InUse, HasLoaded
    <3> QED
      BY <2>1, <3>1 DEF Fits
  <2>2. CASE ~(saving = "sys" /\ current["sys"] \in {Unbound, current["auth"]})
    <3>1. former' = former
      BY <2>2 DEF WriteBackup, SaveCompletes
    <3> QED
      BY <1>4, <3>1, Areas DEF BindingInv
  <2> QED
    BY <2>1, <2>2
<1> QED
  BY <1>5, <1>6, <1>7 DEF BindingInv

(* A load brings into use what was in use. *)
LEMMA LoadKeepsBinding ==
    ASSUME IInv, BindingInv, LoadAuth \/ LoadSys PROVE BindingInv'
<1>1. PICK a \in Area, next \in {"sys", "run"} :
         /\ Load(a, next) /\ mode = a
         /\ (a = "auth" /\ next = "sys") \/ (a = "sys" /\ next = "run")
  BY Areas DEF LoadAuth, LoadSys, Load
<1>2. /\ mode' = next /\ stage = "none" /\ (stage' = "none" \/ saving' = a)
      /\ UNCHANGED <<flash, committed, failed_saves, former>>
      /\ current' = [current EXCEPT ![a] = InFlash(a)]
  BY <1>1 DEF Load, BeginSave, InFlash
<1>3. current'[a] = InFlash(a) /\ \A b \in Area : b # a => current'[b] = current[b]
  BY <1>2 DEF IInv, TypeOK, Value
<1>4. \A b \in Area : InFlash(b)' = InFlash(b)
  BY <1>2 DEF InFlash
<1>5. \A b \in Area : InUse(b)' = InUse(b)
  BY <1>1, <1>2, <1>3, <1>4, Areas DEF InUse, HasLoaded
<1>6. \A b \in Area : HasLoaded(b)' => current'[b] = InFlash(b)'
  <2>1. \A b \in Area : HasLoaded(b)' => b = a \/ HasLoaded(b)
    BY <1>1, <1>2, Areas DEF HasLoaded
  <2> QED
    BY <1>2, <1>3, <1>4, <2>1 DEF BindingInv, LoadedIsStored, Saving
<1>7. (OneSaveAtATime /\ LoadedIsStored)'
  BY <1>1, <1>2, <1>6 DEF OneSaveAtATime, LoadedIsStored
<1>8. Fits(InUse("sys"), InUse("auth"), former)'
  BY <1>2, <1>5, Areas DEF BindingInv
<1>9. ASSUME NEW b \in Area, Saving(b)', failed_saves'[b] = 0
      PROVE  committed'[b] = InUse(b)'
  <2>1. b = a
    BY <1>2, <1>9 DEF Saving
  <2>2. InFlash(a) = committed[a]
    BY <1>2, <1>9, <2>1, SettledIsStored DEF Saving
  <2>3. InUse(a) = InFlash(a)
    BY <1>1 DEF InUse, HasLoaded
  <2> QED
    BY <1>2, <1>5, <2>1, <2>2, <2>3
<1>10. (SavingSysFits /\ SavingAuthFits)'
  BY <1>8, <1>9, Areas DEF SavingSysFits, SavingAuthFits
<1> QED
  BY <1>7, <1>8, <1>10 DEF BindingInv

(* Power failing in a save leaves the value in RAM or what is committed;   *)
(* in the second save of an area in a row, anything.                       *)
LEMMA PowerFailureKeepsBinding ==
    ASSUME IInv, BindingInv, PowerFails PROVE BindingInv'
<1>1. /\ mode' = "off" /\ stage' = "none" /\ UNCHANGED <<committed, attempted>>
      /\ mode # "off"
  BY DEF PowerFails
<1>2. IInv'
  BY PowerFailsOK
<1>3. \A a \in Area : InUse(a)' = InFlash(a)' /\ ~HasLoaded(a)' /\ ~Saving(a)'
  BY <1>1 DEF InUse, HasLoaded, Saving
<1>4. (OneSaveAtATime /\ LoadedIsStored /\ SavingSysFits /\ SavingAuthFits)'
  BY <1>1, <1>3, Areas
     DEF OneSaveAtATime, LoadedIsStored, SavingSysFits, SavingAuthFits
<1>5. ASSUME NEW a \in Area, ~Saving(a)
      PROVE  InFlash(a)' = InUse(a)
  <2>1. InFlash(a) = InUse(a)
    BY <1>5 DEF BindingInv, LoadedIsStored, InUse
  <2>2. flash'[a] = flash[a]
    BY <1>5 DEF PowerFails, Saving, IInv, TypeOK
  <2> QED
    BY <2>1, <2>2 DEF InFlash
<1>6. SUFFICES Fits(InFlash("sys")', InFlash("auth")', former')
  BY <1>3, <1>4, Areas DEF BindingInv
<1>7. CASE stage = "none"
  <2>1. former' = former /\ ~Saving("auth") /\ ~Saving("sys")
    BY <1>7 DEF PowerFails, Saving
  <2> QED
    BY <1>5, <2>1, Areas DEF BindingInv
<1>8. CASE stage # "none" /\ failed_saves[saving] > 0
  <2>1. former' = AuthValue
    BY <1>8 DEF PowerFails
  <2>2. InFlash("sys")' \in ValueOf("sys")
    BY <1>2, IInvStoredWellNext, Areas DEF StoredWell
  <2> QED
    BY <2>1, <2>2 DEF Fits, ValueOf, SysValue
<1>9. CASE stage # "none" /\ failed_saves[saving] = 0
  <2>1. PICK a \in Area : a = saving /\ former' = former /\ Saving(a)
    BY <1>9 DEF PowerFails, IInv, TypeOK, Saving
  <2>2. InFlash(a)' \in {committed[a], attempted[a]}
    <3>1. failed_saves'[a] = 1
      BY <1>9, <2>1 DEF PowerFails, IInv, TypeOK
    <3>2. StoredWell' /\ ~Saving(a)'
      BY <1>1, <1>2, IInvStoredWellNext DEF Saving
    <3> QED
      BY <1>1, <2>1, <3>1, <3>2 DEF StoredWell
  <2>3. attempted[a] = InUse(a)
    <3>1. HasLoaded(a)
      BY <1>1, <1>9, <2>1 DEF BindingInv, OneSaveAtATime, HasLoaded, IInv, TypeOK
    <3>2. current[a] = attempted[a]
      BY <2>1 DEF IInv, AreaInv, DuringSave
    <3> QED
      BY <3>1, <3>2 DEF InUse
  <2>4. CASE a = "sys"
    <3>1. InFlash("auth")' = InUse("auth")
      BY <1>5, <1>9, <2>1, <2>4, Areas DEF Saving
    <3>2. /\ Fits(InUse("sys"), InUse("auth"), former')
          /\ Fits(committed["sys"], InUse("auth"), former')
      BY <1>9, <2>1, <2>4 DEF BindingInv, SavingSysFits
    <3> QED
      BY <2>1, <2>2, <2>3, <2>4, <3>1, <3>2
  <2>5. CASE a = "auth"
    <3>1. InFlash("sys")' = InUse("sys")
      BY <1>5, <1>9, <2>1, <2>5, Areas DEF Saving
    <3>2. /\ Fits(InUse("sys"), InUse("auth"), former')
          /\ Fits(InUse("sys"), committed["auth"], former')
      BY <1>9, <2>1, <2>5 DEF BindingInv, SavingAuthFits
    <3> QED
      BY <2>1, <2>2, <2>3, <2>5, <3>1, <3>2
  <2> QED
    BY <2>1, <2>4, <2>5, Areas
<1> QED
  BY <1>7, <1>8, <1>9 DEF IInv, TypeOK

(* A step that changes nothing of it but forgets the former identities of  *)
(* a device that is not bound.                                             *)
LEMMA NothingInUseChanges ==
    ASSUME BindingInv,
           UNCHANGED <<flash, current, saving, stage, committed, failed_saves>>,
           \/ mode' = mode
           \/ mode = "off" /\ mode' = "auth",
           former' = former \/ (mode = "run" /\ stage = "none" /\ current["sys"] = Unbound)
    PROVE  BindingInv'
<1>1. \A a \in Area : /\ InFlash(a)' = InFlash(a) /\ InUse(a)' = InUse(a)
                      /\ HasLoaded(a)' <=> HasLoaded(a)
                      /\ Saving(a)' <=> Saving(a)
  BY DEF InFlash, InUse, HasLoaded, Saving
<1>2. (OneSaveAtATime /\ LoadedIsStored)'
  BY <1>1 DEF BindingInv, OneSaveAtATime, LoadedIsStored
<1>3. CASE former' = former
  BY <1>1, <1>2, <1>3, Areas DEF BindingInv, SavingSysFits, SavingAuthFits
<1>4. CASE mode = "run" /\ stage = "none" /\ current["sys"] = Unbound
  <2>1. InUse("sys")' = Unbound
    BY <1>1, <1>4, Areas DEF InUse, HasLoaded
  <2> QED
    BY <1>2, <1>4, <2>1 DEF BindingInv, Fits, SavingSysFits, SavingAuthFits, Saving
<1> QED
  BY <1>3, <1>4

LEMMA NextKeepsBinding == ASSUME IInv, BindingInv, [Next]_vars PROVE BindingInv'
<1>1. current["auth"] \in ValueOf("auth") /\ current["auth"] \in ValueOf("sys")
  BY Areas DEF IInv, TypeOK, Value, ValueOf, SysValue
<1>2. ASSUME NEW a \in Area, NEW v, SetAndSave(a, v)
      PROVE  current'[a] = v /\ \A b \in Area : b # a => current'[b] = current[b]
  BY <1>2 DEF SetAndSave, IInv, TypeOK, Value
<1>3. mode = "run" => Fits(current["sys"], current["auth"], former)
  BY DEF BindingInv, InUse, HasLoaded
<1>4. CASE PowerOn
  BY <1>4, NothingInUseChanges DEF PowerOn, history
<1>5. CASE LoadAuth \/ LoadSys
  BY <1>5, LoadKeepsBinding
<1>6. CASE Save
  BY <1>6, SaveContinuesBinding, SaveEndsBinding DEF Save
<1>7. CASE Bind
  <2>1. SetAndSave("sys", current["auth"]) /\ mode = "run" /\ stage = "none" /\ former' = former
    BY <1>7 DEF Bind, Ready
  <2>2. Fits(current'["sys"], current'["auth"], former')
    BY <1>2, <2>1, Areas DEF Fits
  <2> QED
    BY <1>1, <2>1, <2>2, Areas, SaveBeginsBinding
<1>8. CASE tuya_ble_device_unbond
  <2>1. SetAndSave("sys", Unbound) /\ mode = "run" /\ stage = "none" /\ former' = former
    BY <1>8 DEF tuya_ble_device_unbond, Ready
  <2>2. Fits(current'["sys"], current'["auth"], former') /\ Unbound \in ValueOf("sys")
    BY <1>2, <2>1, Areas DEF Fits, ValueOf, SysValue
  <2> QED
    BY <2>1, <2>2, Areas, SaveBeginsBinding
<1>9. CASE tuya_ble_storage_write_pid \/ tuya_ble_storage_write_hid
  <2>1. PICK a \in Area : Rewrite(a)
    BY <1>9, Areas DEF tuya_ble_storage_write_pid, tuya_ble_storage_write_hid
  <2>2. SetAndSave(a, current[a]) /\ mode = "run" /\ stage = "none" /\ former' = former
    BY <2>1 DEF Rewrite, Ready
  <2>3. current'["sys"] = current["sys"] /\ current'["auth"] = current["auth"]
    BY <1>2, <2>2, Areas
  <2>4. current[a] \in ValueOf(a)
    BY DEF IInv, TypeOK, Value
  <2> QED
    BY <1>3, <2>2, <2>3, <2>4, SaveBeginsBinding
<1>10. ASSUME NEW id \in Identity, WriteAuthKey(id)
       PROVE  BindingInv'
  <2>1. /\ SetAndSave("auth", id) /\ mode = "run" /\ stage = "none"
        /\ former' = former \cup {current["auth"]} /\ id \in ValueOf("auth")
    BY <1>10 DEF WriteAuthKey, Ready, ValueOf, AuthValue
  <2>2. current["sys"] \in {Unbound} \cup former'
    BY <1>3, <2>1 DEF Fits
  <2>3. /\ Fits(current'["sys"], current'["auth"], former')
        /\ Fits(current["sys"], current["auth"], former')
    BY <1>2, <2>1, <2>2, Areas DEF Fits
  <2> QED
    BY <2>1, <2>3, Areas, SaveBeginsBinding
<1>11. CASE AuthWritten
  <2>1. mode = "run" /\ stage = "none"
    BY <1>11 DEF AuthWritten, IInv, WritingAuth
  <2>2. CASE current["sys"] # Unbound
    <3>1. SetAndSave("sys", Unbound) /\ former' = former
      BY <1>11, <2>2 DEF AuthWritten
    <3>2. Fits(current'["sys"], current'["auth"], former') /\ Unbound \in ValueOf("sys")
      BY <1>2, <3>1, Areas DEF Fits, ValueOf, SysValue
    <3> QED
      BY <2>1, <3>1, <3>2, Areas, SaveBeginsBinding
  <2>3. CASE current["sys"] = Unbound
    BY <1>11, <2>1, <2>3, NothingInUseChanges DEF AuthWritten
  <2> QED
    BY <2>2, <2>3
<1>12. CASE PowerFails
  BY <1>12, PowerFailureKeepsBinding
<1>13. CASE UNCHANGED vars
  BY <1>13, NothingInUseChanges DEF vars, history
<1> QED
  BY <1>4, <1>5, <1>6, <1>7, <1>8, <1>9, <1>10, <1>11, <1>12, <1>13 DEF Next

(* A device that is bound is bound under the identity it has, however      *)
(* bindings, unbindings, changes of the identity, start-ups and power      *)
(* failures follow each other; under a former identity only from a failure *)
(* that came between the write of a new identity and the clearing of the   *)
(* binding, or in two saves of an area in a row, until the binding is      *)
(* cleared or made anew.                                                   *)
THEOREM BindingIsOwn == SafeSpec => []BoundUnderOwnIdentity
<1>1. BindingInv => BoundUnderOwnIdentity
  BY DEF BindingInv, BoundUnderOwnIdentity, Ready, InUse, HasLoaded, Fits
<1>2. Init => BindingInv
  BY InitBinding
<1>3. IInv /\ BindingInv /\ [Next]_vars => BindingInv'
  BY NextKeepsBinding
<1> QED BY <1>1, <1>2, <1>3, InvariantHolds, PTL DEF SafeSpec

===============================================================================
