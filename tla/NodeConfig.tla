----------------------------- MODULE NodeConfig -----------------------------
(***************************************************************************)
(* The configuration and the firmware images of a node, through boots,     *)
(* saves, uploads and restarts (firmware/main: main.c, app_config.c,       *)
(* api_system.c, api_ota.c, wifi_manager.c).                               *)
(*                                                                         *)
(* The configuration lives in RAM (s_config), in NVS key by key, and in a  *)
(* backup file on SPIFFS.  One task at a time works on it: app_main until  *)
(* the node is ready, then httpd.  Between any two steps the power may go, *)
(* or the timer a firmware upload has armed may restart the node.          *)
(***************************************************************************)
EXTENDS Naturals, Sequences, FiniteSets

CONSTANTS
  Version,   (* the settings the clients send                             *)
  Request,   (* the requests they make, a subset of RequestKind           *)
  Faults     (* what may go wrong, a subset of FaultKind                  *)

RequestKind == {"put", "name", "wifi", "upload", "delete", "restart", "ota"}

FaultKind ==
  { "crash",   (* the power goes                                           *)
    "erase",   (* nvs_flash_init finds a truncated or outdated partition   *)
    "flash",   (* an nvs_set or nvs_commit fails                           *)
    "spiffs",  (* the backup cannot be opened or is cut short              *)
    "net" }    (* a firmware upload breaks off                             *)

-----------------------------------------------------------------------------
(* "server" stands for the server, security and logging keys, whose write  *)
(* errors end a save; "rest" for the pins, WiFi and servo bus keys, whose  *)
(* write errors are ignored.                                               *)
Part == {"server", "rest"}
Value == Version \cup {"defaults", "minimal", "zero"}
Config == [Part -> Value]

All(v) == [p \in Part |-> v]
Defaults == All("defaults")     (* apply_defaults                           *)
Minimal == All("minimal")       (* what sb_config_load fills in unprovisioned *)
Zero == All("zero")

(* Instead of a configuration: none, no backup file, and one that is cut   *)
(* short or no configuration at all.                                       *)
NoConfig == All("none")
Missing == All("missing")
Partial == All("partial")
BadFile == {Missing, Partial}

Slot == {"ota_0", "ota_1"}
OtherSlot(s) == CHOOSE t \in Slot : t # s

ASSUME ConstantsAssumption ==
  /\ Request \subseteq RequestKind
  /\ Faults \subseteq FaultKind
  /\ Version \cap {"defaults", "minimal", "zero", "absent",
                  "none", "missing", "partial"} = {}

VARIABLES
  nvs, provisioned,   (* NVS: the keys, and the key "provisioned"          *)
  fs, file,           (* SPIFFS: its state, and config_backup.json         *)
  image, boot,        (* the firmware slots, and the one otadata names     *)
  pc,                 (* where app_main or httpd is                        *)
  ram,                (* s_config                                          *)
  erased,             (* nvs_was_erased                                    *)
  mounted, stale,     (* s_spiffs_mounted; SPIFFS rewritten beneath it     *)
  running,            (* the slot this boot runs from                      *)
  restartDue,         (* the restart timer is armed                        *)
  cfg, todo, caller,  (* sb_config_save: its argument, the keys still to   *)
                      (* be written, and who called it                     *)
  expected,           (* history: what the clients have last saved         *)
  protected,          (* history: no erase, or a failed one, has lost it   *)
  failed,             (* history: a write failed since NVS was erased      *)
  touched             (* history: the backup was failed or meddled with    *)

flashVars == << nvs, provisioned, fs, file, image, boot >>
bootVars == << erased, mounted, stale, running, restartDue >>
saveVars == << cfg, todo, caller >>
historyVars == << expected, protected, failed, touched >>
vars == << flashVars, pc, ram, bootVars, saveVars, historyVars >>

(* Keys that were never written read as zero.                              *)
Loaded(keys) == [p \in Part |-> IF keys[p] = "absent" THEN "zero" ELSE keys[p]]
Erased == [p \in Part |-> "absent"]

Booting == {"off", "load", "restore", "reload", "defaults", "halted"}

(* A node as it comes from the factory.                                    *)
Init ==
  /\ nvs = Erased /\ provisioned = FALSE
  /\ fs = "ok" /\ file = Missing
  /\ image = [s \in Slot |-> IF s = "ota_0" THEN "valid" ELSE "partial"]
  /\ boot = "ota_0" /\ running = "ota_0"
  /\ pc = "off" /\ ram = Zero
  /\ erased = FALSE /\ mounted = FALSE /\ stale = FALSE /\ restartDue = FALSE
  /\ cfg = Zero /\ todo = << >> /\ caller = "boot"
  /\ expected = NoConfig /\ protected = TRUE /\ failed = FALSE /\ touched = FALSE

-----------------------------------------------------------------------------
(* The boot                                                                *)

(* The bootloader starts the slot otadata names, or the other one when the *)
(* image in it is not valid.                                               *)
Started == IF image[boot] = "valid" THEN boot ELSE OtherSlot(boot)

(* SPIFFS is mounted before NVS is opened.  Whether the partition had to   *)
(* be erased is known to this boot alone.                                  *)
PowerUp(erase) ==
  /\ pc = "off" /\ pc' = "load"
  /\ running' = Started
  /\ mounted' = (fs = "ok") /\ stale' = FALSE
  /\ erased' = erase
  /\ IF erase
     THEN /\ nvs' = Erased /\ provisioned' = FALSE /\ failed' = FALSE
          /\ protected' = (protected /\ fs = "ok" /\ file = expected)
     ELSE /\ protected' = (protected /\ (provisioned \/ expected = NoConfig))
          /\ UNCHANGED << nvs, provisioned, failed >>
  /\ UNCHANGED << fs, file, image, boot, ram, restartDue, saveVars, expected, touched >>

(* sb_config_init cannot open the namespace: app_main returns.             *)
Halt ==
  /\ "flash" \in Faults
  /\ pc = "load" /\ pc' = "halted"
  /\ UNCHANGED << flashVars, ram, bootVars, saveVars, historyVars >>

BackupAtBoot == pc' = IF mounted THEN "open" ELSE "ready"

LoadUnguarded ==
  /\ pc = "load"
  /\ ram' = Loaded(nvs)
  /\ caller' = "boot" /\ BackupAtBoot
  /\ UNCHANGED << flashVars, bootVars, cfg, todo, historyVars >>

LoadNoBackup ==
  /\ pc = "load"
  /\ IF provisioned
     THEN ram' = Loaded(nvs) /\ caller' = "boot" /\ pc' = "ready"
     ELSE /\ ram' = Minimal /\ UNCHANGED caller
          /\ pc' = IF erased /\ mounted THEN "restore" ELSE "defaults"
  /\ UNCHANGED << flashVars, bootVars, cfg, todo, historyVars >>

(* sb_config_load, and what app_main makes of its result.                  *)
Load ==
  /\ pc = "load"
  /\ IF provisioned
     THEN ram' = Loaded(nvs) /\ caller' = "boot" /\ BackupAtBoot
     ELSE /\ ram' = Minimal /\ UNCHANGED caller
          /\ pc' = IF erased /\ mounted THEN "restore" ELSE "defaults"
  /\ UNCHANGED << flashVars, bootVars, cfg, todo, historyVars >>

(* After a restore the configuration is loaded once more, whatever comes   *)
(* of it.                                                                  *)
Reload ==
  /\ pc = "reload"
  /\ ram' = IF provisioned THEN Loaded(nvs) ELSE Minimal
  /\ caller' = "boot" /\ BackupAtBoot
  /\ UNCHANGED << flashVars, bootVars, cfg, todo, historyVars >>

SaveOrderEager == << "provisioned", "server", "rest" >>

SaveOrder == << "server", "rest", "provisioned" >>

StartSave(c, who) ==
  pc' = "save" /\ cfg' = c /\ todo' = SaveOrder /\ caller' = who

RestoreUnparsed ==
  /\ pc = "restore"
  /\ StartSave(file, "restore")
  /\ UNCHANGED << flashVars, ram, bootVars, historyVars >>

(* A backup that is there and parses is saved as it stands; any other      *)
(* makes way for the defaults.                                             *)
Restore ==
  /\ pc = "restore"
  /\ IF file \in BadFile
     THEN pc' = "defaults" /\ UNCHANGED saveVars
     ELSE StartSave(file, "restore")
  /\ UNCHANGED << flashVars, ram, bootVars, historyVars >>

ApplyDefaults ==
  /\ pc = "defaults"
  /\ StartSave(Defaults, "defaults")
  /\ UNCHANGED << flashVars, ram, bootVars, historyVars >>

-----------------------------------------------------------------------------
(* sb_config_save                                                          *)

(* A key goes to flash as it is set.                                       *)
NvsSet ==
  /\ pc = "save" /\ todo # << >>
  /\ IF Head(todo) = "provisioned"
     THEN provisioned' = TRUE /\ UNCHANGED nvs
     ELSE nvs' = [nvs EXCEPT ![Head(todo)] = cfg[Head(todo)]] /\ UNCHANGED provisioned
  /\ todo' = Tail(todo)
  /\ UNCHANGED << fs, file, image, boot, pc, ram, bootVars, cfg, caller, historyVars >>

(* Where the callers go on once a save has ended: app_main ignores an      *)
(* error but for that of a restore, and httpd answers.                     *)
Return(ok) ==
  \/ caller = "restore" /\ pc' = (IF ok THEN "reload" ELSE "defaults") /\ UNCHANGED caller
  \/ caller = "defaults" /\ caller' = "boot" /\ BackupAtBoot
  \/ caller \in {"boot", "httpd"} /\ pc' = "ready" /\ UNCHANGED caller

NvsSetFails ==
  /\ "flash" \in Faults
  /\ pc = "save" /\ todo # << >>
  /\ IF Head(todo) = "server"
     THEN Return(FALSE) /\ todo' = << >> /\ cfg' = Zero
     ELSE todo' = Tail(todo) /\ UNCHANGED << pc, caller, cfg >>
  /\ failed' = TRUE
  /\ protected' = FALSE
  /\ UNCHANGED << flashVars, ram, bootVars, expected, touched >>

NvsCommitKeepsRam ==
  /\ pc = "save" /\ todo = << >>
  /\ pc' = "open"
  /\ IF caller = "httpd" /\ ~failed
     THEN expected' = cfg /\ protected' = TRUE
     ELSE UNCHANGED << expected, protected >>
  /\ cfg' = Zero
  /\ UNCHANGED << flashVars, ram, bootVars, todo, caller, failed, touched >>

(* Only now the new configuration is the running one.  The backup follows. *)
NvsCommit ==
  /\ pc = "save" /\ todo = << >>
  /\ ram' = cfg
  /\ pc' = "open"
  /\ IF caller = "httpd" /\ ~failed
     THEN expected' = cfg /\ protected' = TRUE
     ELSE UNCHANGED << expected, protected >>
  /\ cfg' = Zero
  /\ UNCHANGED << flashVars, bootVars, todo, caller, failed, touched >>

NvsCommitFails ==
  /\ "flash" \in Faults
  /\ pc = "save" /\ todo = << >>
  /\ Return(FALSE) /\ cfg' = Zero
  /\ failed' = TRUE
  /\ protected' = FALSE
  /\ UNCHANGED << flashVars, ram, bootVars, todo, expected, touched >>

(* sb_config_backup_to_file: fopen truncates the old backup, fwrite writes *)
(* the new one.  It fails without consequence when SPIFFS is not mounted;  *)
(* through a mount whose partition an upload has replaced it writes blocks *)
(* of a file system that is no longer there.                               *)
BackupOpen ==
  /\ pc = "open" /\ mounted /\ ~stale
  /\ file' = Partial /\ pc' = "write"
  /\ UNCHANGED << nvs, provisioned, fs, image, boot, ram, bootVars, saveVars, historyVars >>

BackupImpossible ==
  /\ pc = "open" /\ (~mounted \/ stale)
  /\ fs' \in IF stale THEN {fs, "broken"} ELSE {fs}
  /\ Return(TRUE)
  /\ UNCHANGED << nvs, provisioned, file, image, boot, ram, bootVars, cfg, todo, historyVars >>

BackupWrite ==
  /\ pc = "write"
  /\ file' = ram /\ touched' = FALSE
  /\ Return(TRUE)
  /\ UNCHANGED << nvs, provisioned, fs, image, boot, ram, bootVars, cfg, todo,
                  expected, protected, failed >>

BackupFails ==
  /\ "spiffs" \in Faults
  /\ pc \in {"open", "write"} /\ mounted /\ ~stale
  /\ touched' = TRUE
  /\ Return(TRUE)
  /\ UNCHANGED << flashVars, ram, bootVars, cfg, todo, expected, protected, failed >>

-----------------------------------------------------------------------------
(* The requests httpd serves                                               *)

(* PUT /config and POST /restore set the parts the body has, /name and     *)
(* /wifi/connect one each; all save a copy of the running configuration.   *)
Save(parts, v) ==
  /\ pc = "ready"
  /\ StartSave([p \in Part |-> IF p \in parts THEN v ELSE ram[p]], "httpd")
  /\ expected' = NoConfig
  /\ UNCHANGED << flashVars, ram, bootVars, protected, failed, touched >>

PutConfig(parts, v) == "put" \in Request /\ Save(parts, v)
SetName(v) == "name" \in Request /\ Save({"server"}, v)
WifiConnect(v) == "wifi" \in Request /\ Save({"rest"}, v)

(* POST /files accepts the name of the backup, and whatever content; an    *)
(* upload that breaks off unlinks it.  Through a stale mount either request *)
(* writes to a file system that is no longer there.                        *)
ChangeBackup(content) ==
  /\ pc = "ready" /\ mounted
  /\ IF stale
     THEN fs' \in {fs, "broken"} /\ UNCHANGED << file, touched >>
     ELSE file' = content /\ touched' = TRUE /\ UNCHANGED fs
  /\ UNCHANGED << nvs, provisioned, image, boot, pc, ram, bootVars, saveVars,
                  expected, protected, failed >>

UploadBackup(content) == "upload" \in Request /\ ChangeBackup(content)
DeleteBackup == "delete" \in Request /\ ChangeBackup(Missing)

-----------------------------------------------------------------------------
(* A firmware upload: the application, perhaps a SPIFFS image, then the    *)
(* switch of the boot slot and the timer.                                  *)
UpdateSlotOfBoot == OtherSlot(boot)

UpdateSlot == OtherSlot(running)

OtaBegin ==
  /\ "ota" \in Request
  /\ pc = "ready" /\ pc' = "app"
  /\ image' = [image EXCEPT ![UpdateSlot] = "partial"]
  /\ UNCHANGED << nvs, provisioned, fs, file, boot, ram, bootVars, saveVars, historyVars >>

(* The image ends, passes validation, and the SPIFFS image begins with an  *)
(* erase of the partition; or there is none.                               *)
OtaAppEnds(combined) ==
  /\ pc = "app"
  /\ image' = [image EXCEPT ![UpdateSlot] = "valid"]
  /\ IF combined
     THEN /\ fs' = "broken" /\ file' = Missing /\ stale' = mounted
          /\ touched' = TRUE /\ pc' = "spiffs"
     ELSE pc' = "switch" /\ UNCHANGED << fs, file, stale, touched >>
  /\ UNCHANGED << nvs, provisioned, boot, ram, erased, mounted, running, restartDue,
                  saveVars, expected, protected, failed >>

(* A broken upload, an image that fails validation, or an otadata that     *)
(* cannot be written: httpd answers an error and goes on.                  *)
OtaFails ==
  /\ \/ pc = "app" /\ "net" \in Faults
     \/ pc = "switch" /\ "flash" \in Faults
  /\ pc' = "ready"
  /\ UNCHANGED << flashVars, ram, bootVars, saveVars, historyVars >>

(* The upload goes on to the switch although the SPIFFS image failed.      *)
OtaSpiffsEnds(ok) ==
  /\ ok \/ "net" \in Faults
  /\ pc = "spiffs" /\ pc' = "switch"
  /\ fs' = IF ok THEN "ok" ELSE fs
  /\ UNCHANGED << nvs, provisioned, file, image, boot, ram, bootVars, saveVars, historyVars >>

OtaSwitch ==
  /\ pc = "switch" /\ pc' = "ready"
  /\ boot' = UpdateSlot
  /\ restartDue' = TRUE
  /\ UNCHANGED << nvs, provisioned, fs, file, image, ram, erased, mounted, stale, running,
                  saveVars, historyVars >>

-----------------------------------------------------------------------------
(* POST /restart, the timer of an upload, or the loss of power: the RAM is *)
(* gone.                                                                   *)
GoesDown ==
  \/ "crash" \in Faults
  \/ restartDue
  \/ "restart" \in Request /\ pc = "ready"

Restart ==
  /\ pc # "off" /\ GoesDown
  /\ pc' = "off" /\ ram' = Zero
  /\ erased' = FALSE /\ mounted' = FALSE /\ stale' = FALSE /\ restartDue' = FALSE
  /\ cfg' = Zero /\ todo' = << >> /\ caller' = "boot"
  /\ UNCHANGED << flashVars, running, historyVars >>

BootStep ==
  \/ PowerUp(FALSE) \/ ("erase" \in Faults /\ PowerUp(TRUE))
  \/ Load \/ Reload \/ Restore \/ ApplyDefaults \/ Halt

SaveStep ==
  \/ NvsSet \/ NvsSetFails \/ NvsCommit \/ NvsCommitFails
  \/ BackupOpen \/ BackupImpossible \/ BackupWrite \/ BackupFails

Serve ==
  \/ \E v \in Version :
       \/ \E parts \in SUBSET Part : PutConfig(parts, v)
       \/ SetName(v) \/ WifiConnect(v) \/ UploadBackup(All(v))
  \/ \E content \in BadFile \cup {Minimal} : UploadBackup(content)
  \/ DeleteBackup

OtaStep ==
  \/ OtaBegin \/ OtaFails \/ OtaSwitch
  \/ \E b \in BOOLEAN : OtaAppEnds(b) \/ OtaSpiffsEnds(b)

Next == BootStep \/ SaveStep \/ Serve \/ OtaStep \/ Restart

Spec == Init /\ [][Next]_vars

-----------------------------------------------------------------------------
Place == Booting \cup {"save", "open", "write", "ready", "app", "spiffs", "switch"}

(* The type of every variable: what is saved, and what a restore takes     *)
(* from the backup, is a whole configuration.                              *)
TypeOK ==
  /\ nvs \in [Part -> Value \cup {"absent"}] /\ provisioned \in BOOLEAN
  /\ fs \in {"ok", "broken"} /\ file \in Config \cup BadFile
  /\ image \in [Slot -> {"valid", "partial"}] /\ boot \in Slot /\ running \in Slot
  /\ pc \in Place /\ ram \in Config
  /\ erased \in BOOLEAN /\ mounted \in BOOLEAN /\ stale \in BOOLEAN
  /\ restartDue \in BOOLEAN
  /\ cfg \in Config /\ todo \in Seq(Part \cup {"provisioned"})
  /\ caller \in {"boot", "restore", "defaults", "httpd"}
  /\ expected \in Config \cup {NoConfig} /\ protected \in BOOLEAN
  /\ failed \in BOOLEAN /\ touched \in BOOLEAN

(* A node that is ready runs what it would load if it restarted now, even  *)
(* after a crash in the middle of a save, unless a flash write failed.     *)
RunningIsStored ==
  pc = "ready" /\ ~failed => provisioned /\ ram = Loaded(nvs)

(* "provisioned" is never seen without the configuration it stands for:    *)
(* it is the last key written, and the first to be gone.                   *)
ProvisionedComplete ==
  provisioned /\ ~failed => \A p \in Part : nvs[p] # "absent"

(* When the node is ready and has SPIFFS, the backup is the running        *)
(* configuration: a save rewrites it after the commit, a boot repairs what *)
(* a crash in between has left.                                            *)
BackupCurrent ==
  pc = "ready" /\ mounted /\ ~touched => file = ram

(* What a client has saved is what the node runs after any crash, restart  *)
(* or update, as long as every erase of NVS found it in the backup and the *)
(* boot that erased it came to write it back.                              *)
Durable ==
  pc = "ready" /\ expected # NoConfig /\ protected => ram = expected

(* No upload, not even a second one while the first still waits for its    *)
(* restart, writes to the slot the node runs from: there is always a valid *)
(* image for the bootloader to start.                                      *)
RunningImageIntact ==
  pc # "off" => image[running] = "valid"

=============================================================================
