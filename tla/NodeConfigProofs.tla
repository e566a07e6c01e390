-------------------------- MODULE NodeConfigProofs --------------------------
(***************************************************************************)
(* Proofs about NodeConfig, for any settings the clients send, any set of  *)
(* requests and any combination of faults.                                 *)
(***************************************************************************)
EXTENDS NodeConfig, TLAPS

-----------------------------------------------------------------------------
(* Part 1: the inductive invariant.                                        *)

AfterServer == << "rest", "provisioned" >>
AfterRest == << "provisioned" >>

(* A save writes the keys in their order, and none is left over by it.     *)
SaveInOrder ==
  /\ todo \in {SaveOrder, AfterServer, AfterRest, << >>}
  /\ pc # "save" => todo = << >>
  /\ pc = "save" => caller # "boot"

(* While no write has failed, the keys a save is past are in NVS.          *)
KeysWritten ==
  pc = "save" /\ ~failed =>
    /\ todo # SaveOrder => nvs["server"] = cfg["server"]
    /\ todo \in {AfterRest, << >>} => nvs["rest"] = cfg["rest"]
    /\ todo = << >> => provisioned

(* Where the running configuration is the one that NVS holds.              *)
Settled == {"open", "write", "ready", "app", "spiffs", "switch"}

SettledIsStored ==
  ~failed =>
    /\ pc \in Settled \cup {"reload"} => provisioned
    /\ pc \in Settled => ram = Loaded(nvs)

(* There is an image to boot from, and a running node runs a valid one.    *)
BootableImage ==
  /\ \E s \in Slot : image[s] = "valid"
  /\ RunningImageIntact

(* From the end of the boot to the commit of the next save, the backup is  *)
(* the running configuration.                                              *)
Serving == pc \in {"ready", "app", "spiffs", "switch"} \/ (pc = "save" /\ caller = "httpd")

BackupIsRam ==
  /\ Serving /\ mounted /\ ~touched => file = ram
  /\ stale => touched
  /\ pc = "write" => mounted /\ ~stale

(* What the clients have saved is in NVS, or in the backup of a node that  *)
(* is about to restore it, or under way from there to NVS.                 *)
SavedSomewhere ==
  /\ pc = "save" /\ caller = "httpd" => expected = NoConfig
  /\ protected => ~failed
  /\ protected /\ expected # NoConfig =>
       /\ provisioned => Loaded(nvs) = expected
       /\ pc = "load" => provisioned \/ (erased /\ mounted /\ file = expected)
       /\ pc = "restore" => ~provisioned /\ file = expected
       /\ pc # "defaults"
       /\ pc = "save" => caller = "restore" /\ cfg = expected /\ (todo # << >> => ~provisioned)
       /\ pc \in Settled => ram = expected

IInv ==
  /\ TypeOK /\ SaveInOrder /\ KeysWritten /\ ProvisionedComplete
  /\ SettledIsStored /\ BootableImage /\ BackupIsRam /\ SavedSomewhere

-----------------------------------------------------------------------------
(* Part 2: facts about the operators.                                      *)

(* With two slots, the other one is the one that is left.                  *)
LEMMA OtherSlotIs ==
  /\ OtherSlot("ota_0") = "ota_1" /\ OtherSlot("ota_1") = "ota_0"
  /\ \A s \in Slot : OtherSlot(s) \in Slot /\ OtherSlot(s) # s
<1>1. \A s \in Slot : \E t \in Slot : t # s
  BY DEF Slot
<1>2. \A s \in Slot : OtherSlot(s) \in Slot /\ OtherSlot(s) # s
  BY <1>1 DEF OtherSlot
<1>3. QED
  BY <1>2 DEF Slot

(* The order of the keys, one key after the other.                         *)
LEMMA KeysInOrder ==
  /\ Head(SaveOrder) = "server" /\ Tail(SaveOrder) = AfterServer
  /\ Head(AfterServer) = "rest" /\ Tail(AfterServer) = AfterRest
  /\ Head(AfterRest) = "provisioned" /\ Tail(AfterRest) = << >>
  /\ SaveOrder # << >> /\ AfterServer # << >> /\ AfterRest # << >>
  /\ SaveOrder # AfterServer /\ SaveOrder # AfterRest /\ AfterServer # AfterRest
  /\ SaveOrder \in Seq(Part \cup {"provisioned"})
  /\ AfterServer \in Seq(Part \cup {"provisioned"})
  /\ AfterRest \in Seq(Part \cup {"provisioned"})
  /\ << >> \in Seq(Part \cup {"provisioned"})
BY DEF SaveOrder, AfterServer, AfterRest, Part

(* Every built-in configuration is one, and none of the marks that stand   *)
(* for a configuration that is not there is one.                           *)
LEMMA ConfigsAre ==
  /\ Defaults \in Config /\ Minimal \in Config /\ Zero \in Config
  /\ \A v \in Version : All(v) \in Config
  /\ NoConfig \notin Config /\ Missing \notin Config /\ Partial \notin Config
  /\ "absent" \notin Value
<1>1. /\ Defaults \in Config /\ Minimal \in Config /\ Zero \in Config
      /\ \A v \in Version : All(v) \in Config
  BY DEF Defaults, Minimal, Zero, All, Config, Value
<1>2. \A v \in {"none", "missing", "partial", "absent"} : v \notin Value
  BY ConstantsAssumption DEF Value
<1>3. \A v : All(v) \in Config => v \in Value
  <2>1. \A v : All(v)["server"] = v
    BY DEF All, Part
  <2>2. \A c \in Config : c["server"] \in Value
    BY DEF Config, Part
  <2>3. QED
    BY <2>1, <2>2
<1>4. QED
  BY <1>1, <1>2, <1>3 DEF NoConfig, Missing, Partial

LEMMA LoadedType ==
  ASSUME NEW keys \in [Part -> Value \cup {"absent"}]
  PROVE  Loaded(keys) \in Config
BY DEF Loaded, Config, Value

(* What was written as it stands is loaded as it stands.                   *)
LEMMA LoadedIs ==
  ASSUME NEW keys \in [Part -> Value \cup {"absent"}], NEW c \in Config,
         keys["server"] = c["server"], keys["rest"] = c["rest"]
  PROVE  Loaded(keys) = c /\ \A p \in Part : keys[p] # "absent"
<1>1. \A p \in Part : keys[p] = c[p] /\ c[p] \in Value
  BY DEF Part, Config
<1>2. \A p \in Part : keys[p] # "absent"
  BY <1>1, ConfigsAre
<1>3. c = [p \in Part |-> c[p]]
  BY DEF Config
<1>4. QED
  BY <1>1, <1>2, <1>3 DEF Loaded

(* Where a save's callers go on.                                           *)
LEMMA ReturnIs ==
  ASSUME NEW ok \in BOOLEAN, Return(ok)
  PROVE  \/ caller = "restore" /\ caller' = caller /\ pc' = (IF ok THEN "reload" ELSE "defaults")
         \/ caller = "defaults" /\ caller' = "boot" /\ pc' = (IF mounted THEN "open" ELSE "ready")
         \/ caller \in {"boot", "httpd"} /\ caller' = caller /\ pc' = "ready"
BY DEF Return, BackupAtBoot

-----------------------------------------------------------------------------
(* Part 3: the steps, each with what it says of its inputs.                *)

LEMMA NextIs ==
  ASSUME [Next]_vars
  PROVE  \/ PowerUp(FALSE) \/ PowerUp(TRUE)
         \/ Load \/ Reload \/ Restore \/ ApplyDefaults \/ Halt
         \/ NvsSet \/ NvsSetFails \/ NvsCommit \/ NvsCommitFails
         \/ BackupOpen \/ BackupImpossible \/ BackupWrite \/ BackupFails
         \/ \E parts \in SUBSET Part, v \in Version : Save(parts, v)
         \/ \E content \in Config \cup BadFile : ChangeBackup(content)
         \/ OtaBegin \/ OtaFails \/ OtaSwitch
         \/ \E b \in BOOLEAN : OtaAppEnds(b) \/ OtaSpiffsEnds(b)
         \/ Restart \/ UNCHANGED vars
<1>1. CASE BootStep
  BY <1>1 DEF BootStep
<1>2. CASE SaveStep
  BY <1>2 DEF SaveStep
<1>3. CASE Serve
  <2>1. {"server"} \in SUBSET Part /\ {"rest"} \in SUBSET Part
    BY DEF Part
  <2>2. Missing \in BadFile
    BY DEF BadFile
  <2>3. QED
    BY <1>3, <2>1, <2>2, ConfigsAre
       DEF Serve, PutConfig, SetName, WifiConnect, UploadBackup, DeleteBackup
<1>4. CASE OtaStep
  BY <1>4 DEF OtaStep
<1>5. CASE Restart \/ UNCHANGED vars
  BY <1>5
<1>6. QED
  BY <1>1, <1>2, <1>3, <1>4, <1>5 DEF Next

-----------------------------------------------------------------------------
(* Part 4: every step keeps each part of the invariant.                    *)

USE DEF vars, flashVars, bootVars, saveVars, historyVars

(* The types in four parts, most of which most steps leave as they are.    *)
FlashType ==
  /\ nvs \in [Part -> Value \cup {"absent"}] /\ provisioned \in BOOLEAN
  /\ fs \in {"ok", "broken"} /\ file \in Config \cup BadFile
  /\ image \in [Slot -> {"valid", "partial"}] /\ boot \in Slot

NodeType ==
  /\ running \in Slot /\ pc \in Place /\ ram \in Config
  /\ erased \in BOOLEAN /\ mounted \in BOOLEAN /\ stale \in BOOLEAN
  /\ restartDue \in BOOLEAN

SaveType ==
  /\ cfg \in Config /\ todo \in Seq(Part \cup {"provisioned"})
  /\ caller \in {"boot", "restore", "defaults", "httpd"}

HistoryType ==
  /\ expected \in Config \cup {NoConfig} /\ protected \in BOOLEAN
  /\ failed \in BOOLEAN /\ touched \in BOOLEAN

LEMMA TypeParts == TypeOK => FlashType /\ NodeType /\ SaveType /\ HistoryType
BY DEF TypeOK, FlashType, NodeType, SaveType, HistoryType

LEMMA TypePartsNext == FlashType' /\ NodeType' /\ SaveType' /\ HistoryType' => TypeOK'
BY Zenon DEF TypeOK, FlashType, NodeType, SaveType, HistoryType

LEMMA FlashTypeKept == FlashType /\ UNCHANGED flashVars => FlashType'
BY DEF FlashType

LEMMA TypeStep ==
  ASSUME TypeOK, SaveInOrder, [Next]_vars
  PROVE  TypeOK'
<1>0. FlashType /\ NodeType /\ SaveType /\ HistoryType
  BY TypeParts
<1> USE DEF TypeOK
<1>1. CASE PowerUp(FALSE) \/ PowerUp(TRUE)
  <2>1. Started \in Slot
    BY OtherSlotIs DEF Started
  <2>2. Erased \in [Part -> Value \cup {"absent"}]
    BY DEF Erased
  <2>3. QED
    BY <1>1, <2>1, <2>2 DEF PowerUp, Place, Booting
<1>2. CASE Load \/ Reload
  BY <1>2, LoadedType, ConfigsAre DEF Load, Reload, BackupAtBoot, Place, Booting
<1>3. CASE Restore \/ ApplyDefaults \/ Halt
  BY <1>3, ConfigsAre, KeysInOrder DEF Restore, ApplyDefaults, Halt, StartSave, Place, Booting
<1>4. CASE NvsSet
  <2>1. Tail(todo) \in Seq(Part \cup {"provisioned"}) /\ Head(todo) \in Part \cup {"provisioned"}
    BY <1>4, KeysInOrder DEF NvsSet, SaveInOrder, Part
  <2>2. \A p \in Part : cfg[p] \in Value
    BY DEF Config
  <2>3. CASE Head(todo) = "provisioned"
    BY <1>4, <2>1, <2>3 DEF NvsSet
  <2>4. CASE Head(todo) # "provisioned"
    <3>1. nvs' = [nvs EXCEPT ![Head(todo)] = cfg[Head(todo)]] /\ Head(todo) \in Part
      BY <1>4, <2>1, <2>4 DEF NvsSet
    <3>2. nvs' \in [Part -> Value \cup {"absent"}]
      BY <2>2, <3>1
    <3>3. QED
      BY <1>4, <2>1, <2>4, <3>2 DEF NvsSet
  <2>5. QED
    BY <2>3, <2>4
<1>5. CASE NvsSetFails \/ NvsCommit \/ NvsCommitFails
  <2>1. todo # << >> => Tail(todo) \in Seq(Part \cup {"provisioned"})
    BY KeysInOrder DEF SaveInOrder
  <2>2. CASE NvsSetFails
    <3> HIDE DEF TypeOK
    <3>1. pc' \in Place /\ caller' \in {"boot", "restore", "defaults", "httpd"}
      BY <1>0, <2>2, ReturnIs DEF NvsSetFails, NodeType, SaveType, Place, Booting
    <3>2. cfg' \in Config /\ todo' \in Seq(Part \cup {"provisioned"})
      BY <1>0, <2>1, <2>2, ConfigsAre, KeysInOrder DEF NvsSetFails, SaveType
    <3>3. /\ failed' = TRUE /\ protected' = FALSE
          /\ UNCHANGED << flashVars, ram, bootVars, expected, touched >>
      BY <2>2 DEF NvsSetFails
    <3>4. FlashType'
      BY <1>0, <3>3, FlashTypeKept
    <3>5. NodeType'
      BY <1>0, <3>1, <3>3 DEF NodeType
    <3>6. SaveType'
      BY <1>0, <3>1, <3>2, <3>3 DEF SaveType
    <3>7. HistoryType'
      BY <1>0, <3>2, <3>3 DEF HistoryType
    <3>8. QED
      BY <3>4, <3>5, <3>6, <3>7, TypePartsNext
  <2>3. CASE NvsCommit
    <3>1. expected' \in Config \cup {NoConfig} /\ protected' \in BOOLEAN
      BY <2>3 DEF NvsCommit
    <3>2. ram' \in Config /\ pc' \in Place /\ cfg' \in Config
      BY <2>3, ConfigsAre DEF NvsCommit, Place
    <3>3. UNCHANGED << flashVars, bootVars, todo, caller, failed, touched >>
      BY <2>3 DEF NvsCommit
    <3>4. QED
      BY <3>1, <3>2, <3>3
  <2>4. CASE NvsCommitFails
    <3>1. pc' \in Place /\ caller' \in {"boot", "restore", "defaults", "httpd"}
      BY <2>4, ReturnIs DEF NvsCommitFails, Place, Booting
    <3>2. cfg' \in Config
      BY <2>4, ConfigsAre DEF NvsCommitFails
    <3>3. /\ failed' = TRUE /\ protected' = FALSE
          /\ UNCHANGED << flashVars, ram, bootVars, todo, expected, touched >>
      BY <2>4 DEF NvsCommitFails
    <3> HIDE DEF TypeOK
    <3>4. FlashType'
      BY <1>0, <3>3, FlashTypeKept
    <3>5. NodeType'
      BY <1>0, <3>1, <3>3 DEF NodeType
    <3>6. SaveType'
      BY <1>0, <3>1, <3>2, <3>3 DEF SaveType
    <3>7. HistoryType'
      BY <1>0, <3>2, <3>3 DEF HistoryType
    <3>8. QED
      BY <3>4, <3>5, <3>6, <3>7, TypePartsNext
  <2>5. QED
    BY <1>5, <2>2, <2>3, <2>4
<1>6. CASE BackupOpen \/ BackupImpossible \/ BackupWrite \/ BackupFails
  <2>1. CASE BackupOpen
    BY <2>1 DEF BackupOpen, BadFile, Place
  <2>2. CASE BackupImpossible
    <3>1. pc' \in Place /\ caller' \in {"boot", "restore", "defaults", "httpd"}
      BY <2>2, ReturnIs DEF BackupImpossible, Place, Booting
    <3>2. fs' \in {"ok", "broken"}
      BY <2>2 DEF BackupImpossible
    <3>3. QED
      BY <2>2, <3>1, <3>2 DEF BackupImpossible
  <2>3. CASE BackupWrite
    <3>1. pc' \in Place /\ caller' \in {"boot", "restore", "defaults", "httpd"}
      BY <2>3, ReturnIs DEF BackupWrite, Place, Booting
    <3>2. file' \in Config /\ touched' = FALSE
      BY <2>3 DEF BackupWrite
    <3>3. UNCHANGED << nvs, provisioned, fs, image, boot, ram, bootVars, cfg, todo,
                       expected, protected, failed >>
      BY <2>3 DEF BackupWrite
    <3> HIDE DEF TypeOK
    <3>4. FlashType'
      BY <1>0, <3>2, <3>3 DEF FlashType
    <3>5. NodeType'
      BY <1>0, <3>1, <3>3 DEF NodeType
    <3>6. SaveType'
      BY <1>0, <3>1, <3>2, <3>3 DEF SaveType
    <3>7. HistoryType'
      BY <1>0, <3>2, <3>3 DEF HistoryType
    <3>8. QED
      BY <3>4, <3>5, <3>6, <3>7, TypePartsNext
  <2>4. CASE BackupFails
    <3>1. pc' \in Place /\ caller' \in {"boot", "restore", "defaults", "httpd"}
      BY <2>4, ReturnIs DEF BackupFails, Place, Booting
    <3>2. /\ touched' = TRUE
          /\ UNCHANGED << flashVars, ram, bootVars, cfg, todo, expected, protected, failed >>
      BY <2>4 DEF BackupFails
    <3>3. QED
      BY <3>1, <3>2
  <2>5. QED
    BY <1>6, <2>1, <2>2, <2>3, <2>4
<1>7. ASSUME NEW parts \in SUBSET Part, NEW v \in Version, Save(parts, v)
      PROVE  TypeOK'
  <2>1. [p \in Part |-> IF p \in parts THEN v ELSE ram[p]] \in Config
    BY DEF Config, Value
  <2>2. QED
    BY <1>7, <2>1, KeysInOrder DEF Save, StartSave, Place
<1>8. ASSUME NEW content \in Config \cup BadFile, ChangeBackup(content)
      PROVE  TypeOK'
  <2> HIDE DEF TypeOK
  <2>1. FlashType'
    BY <1>0, <1>8 DEF ChangeBackup, FlashType
  <2>2. NodeType' /\ SaveType'
    BY <1>0, <1>8 DEF ChangeBackup, NodeType, SaveType
  <2>3. HistoryType'
    BY <1>0, <1>8 DEF ChangeBackup, HistoryType
  <2>4. QED
    BY <2>1, <2>2, <2>3, TypePartsNext
<1>9. CASE OtaBegin \/ OtaFails \/ OtaSwitch
  <2>1. CASE OtaBegin
    <3>1. image' \in [Slot -> {"valid", "partial"}]
      BY <2>1 DEF OtaBegin
    <3>2. QED
      BY <2>1, <3>1 DEF OtaBegin, Place
  <2>2. CASE OtaFails
    BY <2>2 DEF OtaFails, Place
  <2>3. CASE OtaSwitch
    <3>1. boot' \in Slot
      BY <2>3, OtherSlotIs DEF OtaSwitch, UpdateSlot
    <3>2. QED
      BY <2>3, <3>1 DEF OtaSwitch, Place
  <2>4. QED
    BY <1>9, <2>1, <2>2, <2>3
<1>10. ASSUME NEW b \in BOOLEAN, OtaAppEnds(b) \/ OtaSpiffsEnds(b)
       PROVE  TypeOK'
  <2>1. CASE OtaAppEnds(b)
    <3>1. image' \in [Slot -> {"valid", "partial"}]
      BY <2>1 DEF OtaAppEnds
    <3>2. QED
      <4>1. CASE b
        BY <2>1, <3>1, <4>1 DEF OtaAppEnds, Place, BadFile
      <4>2. CASE ~b
        BY <2>1, <3>1, <4>2 DEF OtaAppEnds, Place
      <4>3. QED
        BY <4>1, <4>2
  <2>2. CASE OtaSpiffsEnds(b)
    BY <2>2 DEF OtaSpiffsEnds, Place
  <2>3. QED
    BY <1>10, <2>1, <2>2
<1>11. CASE Restart \/ UNCHANGED vars
  <2>1. CASE Restart
    BY <2>1, ConfigsAre, KeysInOrder DEF Restart, Place, Booting
  <2>2. CASE UNCHANGED vars
    BY <2>2
  <2>3. QED
    BY <1>11, <2>1, <2>2
<1>12. QED
  BY <1>1, <1>2, <1>3, <1>4, <1>5, <1>6, <1>7, <1>8, <1>9, <1>10, <1>11, NextIs

LEMMA SaveInOrderStep ==
  ASSUME TypeOK, SaveInOrder, [Next]_vars
  PROVE  SaveInOrder'
<1> USE DEF SaveInOrder
<1>1. CASE PowerUp(FALSE) \/ PowerUp(TRUE) \/ Load \/ Reload \/ Restore \/ ApplyDefaults \/ Halt
  BY <1>1, KeysInOrder DEF PowerUp, Load, Reload, BackupAtBoot, Restore, ApplyDefaults, Halt, StartSave
<1>2. CASE NvsSet \/ NvsSetFails \/ NvsCommit \/ NvsCommitFails
  BY <1>2, KeysInOrder, ReturnIs DEF NvsSet, NvsSetFails, NvsCommit, NvsCommitFails
<1>3. CASE BackupOpen \/ BackupImpossible \/ BackupWrite \/ BackupFails
  BY <1>3, ReturnIs DEF BackupOpen, BackupImpossible, BackupWrite, BackupFails
<1>4. CASE \/ \E parts \in SUBSET Part, v \in Version : Save(parts, v)
           \/ \E content \in Config \cup BadFile : ChangeBackup(content)
  BY <1>4 DEF Save, StartSave, ChangeBackup
<1>5. CASE OtaBegin \/ OtaFails \/ OtaSwitch \/ \E b \in BOOLEAN : OtaAppEnds(b) \/ OtaSpiffsEnds(b)
  BY <1>5 DEF OtaBegin, OtaFails, OtaSwitch, OtaAppEnds, OtaSpiffsEnds
<1>6. CASE Restart \/ UNCHANGED vars
  BY <1>6 DEF Restart
<1>7. QED
  BY <1>1, <1>2, <1>3, <1>4, <1>5, <1>6, NextIs

LEMMA KeysWrittenStep ==
  ASSUME TypeOK, SaveInOrder, KeysWritten, [Next]_vars
  PROVE  KeysWritten'
<1> USE DEF KeysWritten
<1>1. CASE PowerUp(FALSE) \/ PowerUp(TRUE) \/ Load \/ Reload \/ Restore \/ ApplyDefaults \/ Halt
  BY <1>1, KeysInOrder DEF PowerUp, Load, Reload, BackupAtBoot, Restore, ApplyDefaults, Halt, StartSave
<1>2. CASE NvsSet
  <2>1. nvs = [p \in Part |-> nvs[p]] /\ Part = {"server", "rest"}
    BY DEF TypeOK, Part
  <2>2. CASE todo = SaveOrder
    <3>1. nvs'["server"] = cfg["server"] /\ todo' = AfterServer /\ cfg' = cfg
      BY <1>2, <2>1, <2>2, KeysInOrder DEF NvsSet
    <3>2. QED
      BY <3>1, KeysInOrder
  <2>3. CASE todo = AfterServer
    <3>1. /\ nvs'["server"] = nvs["server"] /\ nvs'["rest"] = cfg["rest"]
          /\ todo' = AfterRest /\ cfg' = cfg /\ pc = "save" /\ failed' = failed
      BY <1>2, <2>1, <2>3, KeysInOrder DEF NvsSet
    <3>2. QED
      BY <2>3, <3>1, KeysInOrder
  <2>4. CASE todo = AfterRest
    BY <1>2, <2>4, KeysInOrder DEF NvsSet
  <2>5. QED
    BY <1>2, <2>2, <2>3, <2>4 DEF NvsSet, SaveInOrder
<1>3. CASE NvsSetFails \/ NvsCommit \/ NvsCommitFails
  BY <1>3 DEF NvsSetFails, NvsCommit, NvsCommitFails
<1>4. CASE BackupOpen \/ BackupImpossible \/ BackupWrite \/ BackupFails
  BY <1>4, ReturnIs DEF BackupOpen, BackupImpossible, BackupWrite, BackupFails
<1>5. CASE \/ \E parts \in SUBSET Part, v \in Version : Save(parts, v)
           \/ \E content \in Config \cup BadFile : ChangeBackup(content)
  BY <1>5, KeysInOrder DEF Save, StartSave, ChangeBackup
<1>6. CASE OtaBegin \/ OtaFails \/ OtaSwitch \/ \E b \in BOOLEAN : OtaAppEnds(b) \/ OtaSpiffsEnds(b)
  BY <1>6 DEF OtaBegin, OtaFails, OtaSwitch, OtaAppEnds, OtaSpiffsEnds
<1>7. CASE Restart \/ UNCHANGED vars
  BY <1>7 DEF Restart
<1>8. QED
  BY <1>1, <1>2, <1>3, <1>4, <1>5, <1>6, <1>7, NextIs

LEMMA ProvisionedCompleteStep ==
  ASSUME TypeOK, SaveInOrder, KeysWritten, ProvisionedComplete, [Next]_vars
  PROVE  ProvisionedComplete'
<1> USE DEF ProvisionedComplete
<1>1. CASE PowerUp(FALSE) \/ PowerUp(TRUE)
  BY <1>1 DEF PowerUp
<1>2. CASE NvsSet
  <2>1. nvs = [p \in Part |-> nvs[p]] /\ Part = {"server", "rest"}
    BY DEF TypeOK, Part
  <2>2. cfg["server"] # "absent" /\ cfg["rest"] # "absent"
    BY ConfigsAre DEF TypeOK, Config, Part
  <2>3. CASE todo = AfterRest
    <3>1. ~failed => nvs["server"] = cfg["server"] /\ nvs["rest"] = cfg["rest"]
      BY <1>2, <2>3, KeysInOrder DEF KeysWritten, NvsSet
    <3>2. nvs' = nvs /\ failed' = failed
      BY <1>2, <2>3, KeysInOrder DEF NvsSet
    <3>3. QED
      BY <2>1, <2>2, <3>1, <3>2
  <2>4. CASE todo \in {SaveOrder, AfterServer}
    <3>1. nvs' = [nvs EXCEPT ![Head(todo)] = cfg[Head(todo)]] /\ Head(todo) \in Part
      BY <1>2, <2>4, KeysInOrder DEF NvsSet, Part
    <3>2. provisioned' = provisioned /\ failed' = failed
      BY <1>2, <2>4, KeysInOrder DEF NvsSet
    <3>3. QED
      BY <2>1, <2>2, <3>1, <3>2
  <2>5. QED
    BY <1>2, <2>3, <2>4 DEF NvsSet, SaveInOrder
<1>3. CASE NvsSetFails \/ NvsCommit \/ NvsCommitFails
  BY <1>3 DEF NvsSetFails, NvsCommit, NvsCommitFails
<1>4. CASE UNCHANGED << nvs, provisioned, failed >>
  BY <1>4
<1>5. QED
  BY <1>1, <1>2, <1>3, <1>4, NextIs
     DEF Load, Reload, Restore, ApplyDefaults, Halt, BackupOpen, BackupImpossible, BackupWrite,
         BackupFails, Save, ChangeBackup, OtaBegin, OtaFails, OtaSwitch, OtaAppEnds,
         OtaSpiffsEnds, Restart

LEMMA SettledStep ==
  ASSUME TypeOK, SaveInOrder, KeysWritten, SettledIsStored, [Next]_vars
  PROVE  SettledIsStored'
<1> USE DEF SettledIsStored, Settled
<1>1. CASE PowerUp(FALSE) \/ PowerUp(TRUE) \/ Load \/ Reload
  BY <1>1 DEF PowerUp, Load, Reload, BackupAtBoot
<1>2. CASE Restore \/ ApplyDefaults \/ Halt
  BY <1>2 DEF Restore, ApplyDefaults, Halt, StartSave
<1>3. CASE NvsSet
  BY <1>3 DEF NvsSet
<1>4. CASE NvsSetFails \/ NvsCommitFails
  BY <1>4 DEF NvsSetFails, NvsCommitFails
<1>5. CASE NvsCommit
  <2>1. ~failed => provisioned /\ Loaded(nvs) = cfg
    BY <1>5, LoadedIs, KeysInOrder DEF NvsCommit, KeysWritten, TypeOK
  <2>2. ram' = cfg /\ nvs' = nvs /\ provisioned' = provisioned /\ failed' = failed
    BY <1>5 DEF NvsCommit
  <2>3. QED
    BY <2>1, <2>2
<1>6. CASE BackupOpen \/ BackupImpossible \/ BackupWrite \/ BackupFails
  <2>1. pc \in Settled /\ UNCHANGED << nvs, provisioned, ram, failed >>
    BY <1>6 DEF BackupOpen, BackupImpossible, BackupWrite, BackupFails
  <2>2. QED
    BY <2>1
<1>7. CASE \/ \E parts \in SUBSET Part, v \in Version : Save(parts, v)
           \/ \E content \in Config \cup BadFile : ChangeBackup(content)
  BY <1>7 DEF Save, StartSave, ChangeBackup
<1>8. CASE OtaBegin \/ OtaFails \/ OtaSwitch \/ \E b \in BOOLEAN : OtaAppEnds(b) \/ OtaSpiffsEnds(b)
  BY <1>8 DEF OtaBegin, OtaFails, OtaSwitch, OtaAppEnds, OtaSpiffsEnds
<1>9. CASE Restart \/ UNCHANGED vars
  BY <1>9 DEF Restart
<1>10. QED
  BY <1>1, <1>2, <1>3, <1>4, <1>5, <1>6, <1>7, <1>8, <1>9, NextIs

LEMMA ImageStep ==
  ASSUME TypeOK, BootableImage, [Next]_vars
  PROVE  BootableImage'
<1> USE DEF BootableImage, RunningImageIntact
<1>1. CASE PowerUp(FALSE) \/ PowerUp(TRUE)
  <2>1. image[Started] = "valid"
    BY OtherSlotIs DEF Started, Slot, TypeOK
  <2>2. QED
    BY <1>1, <2>1 DEF PowerUp
<1>2. CASE OtaBegin \/ \E b \in BOOLEAN : OtaAppEnds(b)
  <2>1. PICK v \in {"valid", "partial"} : image' = [image EXCEPT ![UpdateSlot] = v]
    BY <1>2 DEF OtaBegin, OtaAppEnds
  <2>2. UpdateSlot # running /\ pc # "off" /\ running' = running
    BY <1>2, OtherSlotIs DEF OtaBegin, OtaAppEnds, UpdateSlot, TypeOK
  <2>3. image'[running] = "valid"
    BY <2>1, <2>2 DEF TypeOK
  <2>4. QED
    BY <2>2, <2>3 DEF TypeOK
<1>3. CASE Load \/ Reload \/ Restore \/ ApplyDefaults \/ Halt
  BY <1>3 DEF Load, Reload, Restore, ApplyDefaults, Halt
<1>4. CASE NvsSet \/ NvsSetFails \/ NvsCommit \/ NvsCommitFails
  BY <1>4 DEF NvsSet, NvsSetFails, NvsCommit, NvsCommitFails
<1>5. CASE BackupOpen \/ BackupImpossible \/ BackupWrite \/ BackupFails
  BY <1>5 DEF BackupOpen, BackupImpossible, BackupWrite, BackupFails
<1>6. CASE \/ \E parts \in SUBSET Part, v \in Version : Save(parts, v)
           \/ \E content \in Config \cup BadFile : ChangeBackup(content)
  BY <1>6 DEF Save, ChangeBackup
<1>7. CASE OtaFails \/ OtaSwitch \/ \E b \in BOOLEAN : OtaSpiffsEnds(b)
  BY <1>7 DEF OtaFails, OtaSwitch, OtaSpiffsEnds
<1>8. CASE Restart \/ UNCHANGED vars
  BY <1>8 DEF Restart
<1>9. QED
  BY <1>1, <1>2, <1>3, <1>4, <1>5, <1>6, <1>7, <1>8, NextIs

LEMMA BackupStep ==
  ASSUME TypeOK, SaveInOrder, BackupIsRam, [Next]_vars
  PROVE  BackupIsRam'
<1> USE DEF BackupIsRam, Serving
<1>1. CASE PowerUp(FALSE) \/ PowerUp(TRUE)
  BY <1>1 DEF PowerUp
<1>2. CASE Load \/ Reload \/ Restore \/ ApplyDefaults \/ Halt
  BY <1>2 DEF Load, Reload, BackupAtBoot, Restore, ApplyDefaults, Halt, StartSave
<1>3. CASE NvsSet \/ NvsCommit
  BY <1>3 DEF NvsSet, NvsCommit
<1>4. CASE NvsSetFails \/ NvsCommitFails
  <2>1. UNCHANGED << file, ram, mounted, stale, touched >>
    BY <1>4 DEF NvsSetFails, NvsCommitFails
  <2>2. pc = "save" /\ caller # "boot"
    BY <1>4 DEF NvsSetFails, NvsCommitFails, SaveInOrder
  <2>3. pc' # "write" /\ (Serving' /\ mounted => caller = "httpd")
    BY <1>4, <2>2, ReturnIs DEF NvsSetFails, NvsCommitFails
  <2>4. QED
    BY <2>1, <2>2, <2>3
<1>5. CASE BackupOpen
  BY <1>5 DEF BackupOpen
<1>6. CASE BackupImpossible \/ BackupWrite \/ BackupFails
  <2>1. pc' \in {"open", "ready", "reload", "defaults"}
    BY <1>6, ReturnIs DEF BackupImpossible, BackupWrite, BackupFails
  <2>2. CASE BackupImpossible
    BY <2>1, <2>2 DEF BackupImpossible
  <2>3. CASE BackupWrite
    BY <2>1, <2>3 DEF BackupWrite
  <2>4. CASE BackupFails
    BY <2>1, <2>4 DEF BackupFails
  <2>5. QED
    BY <1>6, <2>2, <2>3, <2>4
<1>7. CASE \/ \E parts \in SUBSET Part, v \in Version : Save(parts, v)
           \/ \E content \in Config \cup BadFile : ChangeBackup(content)
  BY <1>7 DEF Save, StartSave, ChangeBackup
<1>8. CASE OtaBegin \/ OtaFails \/ OtaSwitch \/ \E b \in BOOLEAN : OtaAppEnds(b) \/ OtaSpiffsEnds(b)
  BY <1>8 DEF OtaBegin, OtaFails, OtaSwitch, OtaAppEnds, OtaSpiffsEnds
<1>9. CASE Restart \/ UNCHANGED vars
  BY <1>9 DEF Restart
<1>10. QED
  BY <1>1, <1>2, <1>3, <1>4, <1>5, <1>6, <1>7, <1>8, <1>9, NextIs

(* The one place where what the clients have saved can be lost is a boot   *)
(* that erases NVS, or finds it erased; "protected" says which ones do.    *)
LEMMA SavedStep ==
  ASSUME TypeOK, SaveInOrder, KeysWritten, SettledIsStored, SavedSomewhere, [Next]_vars
  PROVE  SavedSomewhere'
<1> USE DEF SavedSomewhere, Settled
<1>1. CASE PowerUp(FALSE)
  <2>1. pc' = "load" /\ UNCHANGED << nvs, provisioned, expected, failed >>
    BY <1>1 DEF PowerUp
  <2>2. protected' => protected /\ (provisioned \/ expected = NoConfig)
    BY <1>1 DEF PowerUp
  <2>3. QED
    BY <2>1, <2>2
<1>2. CASE PowerUp(TRUE)
  <2>1. pc' = "load" /\ file' = file /\ expected' = expected /\ ~failed' /\ ~provisioned'
    BY <1>2 DEF PowerUp
  <2>2. protected' => mounted' /\ erased' /\ file = expected
    BY <1>2 DEF PowerUp
  <2>3. QED
    BY <2>1, <2>2
<1>3. CASE Load \/ Reload
  BY <1>3 DEF Load, Reload, BackupAtBoot, SettledIsStored
<1>4. CASE Restore
  <2>1. expected # NoConfig => expected \notin BadFile
    BY ConfigsAre DEF TypeOK, BadFile
  <2>2. QED
    BY <1>4, <2>1, KeysInOrder DEF Restore, StartSave
<1>5. CASE ApplyDefaults \/ Halt
  BY <1>5 DEF ApplyDefaults, Halt, StartSave
<1>6. CASE NvsSet
  <2>1. UNCHANGED << file, pc, ram, mounted, erased, cfg, caller, expected, protected, failed >>
    BY <1>6 DEF NvsSet
  <2>2. CASE todo = AfterRest
    <3>1. ~failed => nvs["server"] = cfg["server"] /\ nvs["rest"] = cfg["rest"]
      BY <1>6, <2>2, KeysInOrder DEF KeysWritten, NvsSet
    <3>2. nvs' = nvs /\ pc = "save" /\ todo' = << >>
      BY <1>6, <2>2, KeysInOrder DEF NvsSet
    <3>3. ~failed => Loaded(nvs) = cfg
      BY <3>1, LoadedIs DEF TypeOK
    <3>4. QED
      BY <2>1, <3>2, <3>3
  <2>3. CASE todo \in {SaveOrder, AfterServer}
    <3>1. provisioned' = provisioned /\ pc = "save"
      BY <1>6, <2>3, KeysInOrder DEF NvsSet
    <3>2. protected /\ expected # NoConfig => ~provisioned
      BY <2>3, <3>1, KeysInOrder
    <3>3. QED
      BY <2>1, <3>1, <3>2
  <2>4. QED
    BY <1>6, <2>2, <2>3 DEF NvsSet, SaveInOrder
<1>7. CASE NvsSetFails \/ NvsCommitFails
  <2>1. protected' = FALSE /\ expected' = expected
    BY <1>7 DEF NvsSetFails, NvsCommitFails
  <2>2. pc' = "save" => pc = "save" /\ caller' = caller
    BY <1>7, ReturnIs DEF NvsSetFails, NvsCommitFails
  <2>3. QED
    BY <2>1, <2>2
<1>8. CASE NvsCommit
  <2>1. ~failed => provisioned /\ Loaded(nvs) = cfg
    BY <1>8, LoadedIs, KeysInOrder DEF NvsCommit, KeysWritten, TypeOK
  <2>2. pc = "save" /\ pc' = "open" /\ ram' = cfg
    BY <1>8 DEF NvsCommit
  <2>3. UNCHANGED << nvs, provisioned, failed >>
    BY <1>8 DEF NvsCommit
  <2>4. CASE caller = "httpd" /\ ~failed
    <3>1. expected' = cfg
      BY <1>8, <2>4 DEF NvsCommit
    <3>2. QED
      BY <2>1, <2>2, <2>3, <2>4, <3>1
  <2>5. CASE ~(caller = "httpd" /\ ~failed)
    <3>1. expected' = expected /\ protected' = protected
      BY <1>8, <2>5 DEF NvsCommit
    <3>2. QED
      BY <2>1, <2>2, <2>3, <2>5, <3>1
  <2>6. QED
    BY <2>4, <2>5
<1>9. CASE BackupOpen \/ BackupImpossible \/ BackupWrite \/ BackupFails
  <2>1. UNCHANGED << nvs, provisioned, ram, expected, protected, failed >>
    BY <1>9 DEF BackupOpen, BackupImpossible, BackupWrite, BackupFails
  <2>2. pc \in {"open", "write"} /\ pc' \in {"open", "write", "ready", "reload"}
    BY <1>9, ReturnIs DEF BackupOpen, BackupImpossible, BackupWrite, BackupFails
  <2>3. QED
    BY <2>1, <2>2
<1>10. CASE \E parts \in SUBSET Part, v \in Version : Save(parts, v)
  <2>1. expected' = NoConfig /\ pc = "ready" /\ UNCHANGED << protected, failed >>
    BY <1>10 DEF Save
  <2>2. QED
    BY <2>1
<1>11. CASE \E content \in Config \cup BadFile : ChangeBackup(content)
  BY <1>11 DEF ChangeBackup
<1>12. CASE OtaBegin \/ OtaFails \/ OtaSwitch \/ \E b \in BOOLEAN : OtaAppEnds(b) \/ OtaSpiffsEnds(b)
  BY <1>12 DEF OtaBegin, OtaFails, OtaSwitch, OtaAppEnds, OtaSpiffsEnds
<1>13. CASE Restart \/ UNCHANGED vars
  BY <1>13 DEF Restart
<1>14. QED
  BY <1>1, <1>2, <1>3, <1>4, <1>5, <1>6, <1>7, <1>8, <1>9, <1>10, <1>11, <1>12, <1>13, NextIs

-----------------------------------------------------------------------------
(* Part 5: the theorems.                                                   *)

LEMMA InitInvariant == Init => IInv
<1> SUFFICES ASSUME Init PROVE IInv
  OBVIOUS
<1>1. TypeOK
  BY ConfigsAre, KeysInOrder DEF Init, TypeOK, Erased, Place, Booting, BadFile, Slot
<1>2. SaveInOrder /\ KeysWritten /\ ProvisionedComplete /\ SettledIsStored
  BY DEF Init, SaveInOrder, KeysWritten, ProvisionedComplete, SettledIsStored, Settled
<1>3. BootableImage /\ BackupIsRam /\ SavedSomewhere
  BY DEF Init, BootableImage, RunningImageIntact, BackupIsRam, Serving, SavedSomewhere, Settled, Slot
<1>4. QED
  BY <1>1, <1>2, <1>3 DEF IInv

LEMMA StepInvariant == IInv /\ [Next]_vars => IInv'
BY TypeStep, SaveInOrderStep, KeysWrittenStep, ProvisionedCompleteStep, SettledStep, ImageStep,
   BackupStep, SavedStep DEF IInv

(* Every boot, save, request, upload, failure and loss of power keeps the  *)
(* invariant: the order in which a save writes its keys, the place where a *)
(* saved configuration is, and the slots.                                  *)
THEOREM Invariant == Spec => []IInv
<1>1. Init => IInv
  BY InitInvariant
<1>2. IInv /\ [Next]_vars => IInv'
  BY StepInvariant
<1>3. QED
  BY <1>1, <1>2, PTL DEF Spec

(* Every variable keeps its type: what is saved, and what a restore takes  *)
(* from the backup, is a whole configuration.                              *)
THEOREM TypeCorrect == Spec => []TypeOK
<1>1. IInv => TypeOK
  BY DEF IInv
<1>2. QED
  BY <1>1, Invariant, PTL

(* A node that is ready runs what it would load if it restarted now.       *)
THEOREM RunsWhatIsStored == Spec => []RunningIsStored
<1>1. IInv => RunningIsStored
  BY DEF IInv, SettledIsStored, Settled, RunningIsStored
<1>2. QED
  BY <1>1, Invariant, PTL

(* "provisioned" is never seen without the configuration it stands for.    *)
THEOREM ProvisionedLast == Spec => []ProvisionedComplete
<1>1. IInv => ProvisionedComplete
  BY DEF IInv
<1>2. QED
  BY <1>1, Invariant, PTL

(* The backup of a ready node with SPIFFS is the running configuration.    *)
THEOREM BackupFollows == Spec => []BackupCurrent
<1>1. IInv => BackupCurrent
  BY DEF IInv, BackupIsRam, Serving, BackupCurrent
<1>2. QED
  BY <1>1, Invariant, PTL

(* What a client has saved survives every crash, restart, update and       *)
(* repaired erase.                                                         *)
THEOREM SavedIsDurable == Spec => []Durable
<1>1. IInv => Durable
  BY DEF IInv, SavedSomewhere, Settled, Durable
<1>2. QED
  BY <1>1, Invariant, PTL

(* No upload writes to the slot the node runs from.                        *)
THEOREM NeverOverwritesItself == Spec => []RunningImageIntact
<1>1. IInv => RunningImageIntact
  BY DEF IInv, BootableImage
<1>2. QED
  BY <1>1, Invariant, PTL

=============================================================================
