------------------------------ MODULE ServoBus ------------------------------
(***************************************************************************)
(* The Feetech servo bus of a firmware node                                *)
(* (firmware/components/servo_bus/servo_bus.c).                            *)
(*                                                                         *)
(* Two FreeRTOS tasks share one half-duplex UART under bus_mutex: httpd,   *)
(* which runs every command to its end before it takes the next request,   *)
(* and the scan task, which takes the mutex for one ping at a time.  The   *)
(* emergency stop talks to the scan through abort_scan and                 *)
(* scan_in_progress, outside the mutex.                                    *)
(*                                                                         *)
(* A command is the sequence of packets it sends (Program); one step of    *)
(* httpd is one packet.  Servos are their register file, in which the      *)
(* bytes of the EEPROM image are two stamped areas.  Packets are not       *)
(* acknowledged: what a packet reaches is decided by the bus (Reached).    *)
(***************************************************************************)
EXTENDS Naturals, Sequences, FiniteSets

CONSTANTS
  Servo,        (* the physical servos on the bus                          *)
  MaxId,        (* the highest servo address a scan pings (253)            *)
  ScanTask,     (* the tasks xTaskCreate can hand out                      *)
  Request,      (* the commands the clients send                           *)
  ConfigIds,    (* the servo lists the NVS configuration may hold at boot  *)
  Faults        (* what may go wrong, a subset of FaultKind                *)

FactoryId == 1
Broadcast == MaxId + 1
Id == 0..MaxId
Addr == 0..Broadcast

FaultKind ==
  { "loss",     (* a packet or its answer is lost or garbled on the wire   *)
    "send",     (* uart_write_bytes or uart_wait_tx_done fails             *)
    "timeout",  (* bus_lock gives up waiting                               *)
    "notask",   (* xTaskCreate fails                                       *)
    "reboot" }  (* esp_restart, while the servos keep their power          *)

-----------------------------------------------------------------------------
(* The register file of a servo.  HEAD stands for the EEPROM bytes 6..14,  *)
(* TAIL for the bytes 15..39; their value says where the bytes come from.  *)
Reg == { "ID", "HEAD", "TAIL", "TORQUE", "LOCK" }
Eeprom == { "ID", "HEAD", "TAIL" }

Bit == 0..1
Own == 0        (* the bytes the servo was delivered with                  *)
Image == 1      (* the bytes of the image a restore writes                 *)
Factory == 2    (* the defaults the RESET instruction brings back          *)
Stamp == { Own, Image, Factory }

Values == [r \in Reg |-> CASE r = "ID" -> Addr
                           [] r \in {"HEAD", "TAIL"} -> Stamp
                           [] OTHER -> Bit]
RegFile == { f \in [Reg -> Addr] : \A r \in Reg : f[r] \in Values[r] }

(* A write sets some registers at once.                                    *)
Set(r, v) == [x \in {r} |-> v]
Nothing == [x \in {} |-> 0]
Writes == { w \in UNION { [R -> Addr] : R \in SUBSET Reg } :
              \A r \in DOMAIN w : w[r] \in Values[r] }

(* The servo ignores EEPROM bytes while its LOCK register is set: this is  *)
(* why every writer in the code unlocks first.                             *)
Written(file, w) ==
  [r \in Reg |-> IF r \in DOMAIN w /\ (r \in Eeprom => file["LOCK"] = 0)
                 THEN w[r] ELSE file[r]]

ResetFile(file) ==
  [file EXCEPT !["ID"] = FactoryId, !["HEAD"] = Factory, !["TAIL"] = Factory,
               !["TORQUE"] = 0, !["LOCK"] = 1]

-----------------------------------------------------------------------------
(* Packets.  "want" is the answer a ping must get for the command to go    *)
(* on; "onfail" is what the command makes of a packet that was not sent.   *)
Ping(id, want) ==
  [kind |-> "ping", to |-> id, write |-> Nothing, want |-> want, onfail |-> "stop"]
Read(id) ==
  [kind |-> "read", to |-> id, write |-> Nothing, want |-> TRUE, onfail |-> "note"]
Write(id, w, onfail) ==
  [kind |-> "write", to |-> id, write |-> w, want |-> TRUE, onfail |-> onfail]
Reset(id) ==
  [kind |-> "reset", to |-> id, write |-> Nothing, want |-> TRUE, onfail |-> "stop"]
Unlock(id) == Write(id, Set("LOCK", 0), "ignore")
Lock(id) == Write(id, Set("LOCK", 1), "ignore")

Packet ==
  [ kind : {"ping", "read", "write", "reset"}, to : Addr, write : Writes,
    want : BOOLEAN, onfail : {"ignore", "note", "stop"} ]

(* Commands.  "move" is set_position and set_speed, which write goal       *)
(* registers only; "malformed" is any command whose parameters are missing *)
(* or out of range: it takes the bus, answers an error and leaves.         *)
Command ==
  [op : {"malformed", "scan", "emergency_stop", "get_state", "health", "sync_move"}]
  \cup [op : {"move", "read_reg", "backup", "factory_reset"}, id : Addr]
  \cup [op : {"set_torque"}, id : Addr, on : Bit]
  \cup [op : {"write_reg"}, id : Addr, write : Writes, unlock : BOOLEAN]
  \cup [op : {"set_id"}, id : Addr, new : Addr]
  \cup [op : {"restore"}, id : Addr, include_id : BOOLEAN, new : Addr, torque : Bit]

Malformed(c) == c.op = "malformed" \/ (c.op = "set_id" /\ c.new > MaxId)

(* Broken variants of the definitions that follow, each with one mistake a *)
(* change to the code could make, stand before them; the runs show that    *)
(* the properties notice.                                                  *)
SetIdUnchecked(c) ==
  << Ping(c.id, TRUE), Unlock(c.id), Write(c.id, Set("ID", c.new), "note"),
     Lock(c.new), Ping(c.new, TRUE) >>

SetIdLocksOldId(c) ==
  << Ping(c.id, TRUE), Ping(c.new, c.id = c.new), Unlock(c.id), Write(c.id, Set("ID", c.new), "note"),
     Lock(c.id), Ping(c.new, TRUE) >>

SetIdUnverified(c) ==
  << Ping(c.id, TRUE), Ping(c.new, c.id = c.new), Unlock(c.id),
     Write(c.id, Set("ID", c.new), "note"), Lock(c.new) >>

SetIdProgram(c) ==
  LET change == << Unlock(c.id), Write(c.id, Set("ID", c.new), "note"),
                   Lock(c.new), Ping(c.new, TRUE) >>
  IN IF c.id = c.new
     THEN << Ping(c.id, TRUE) >> \o change
     ELSE << Ping(c.id, TRUE), Ping(c.new, FALSE) >> \o change

RestoreUnlocked(c) ==
  << Ping(c.id, TRUE), Unlock(c.id), Write(c.id, Set("HEAD", Image), "ignore"),
     Write(c.id, Set("TAIL", Image), "ignore") >>

(* Registers 5..47 go out in chunks of ten bytes; the chunks are merged    *)
(* into the three that differ here: the one with the ID byte, the rest of  *)
(* the EEPROM, and the one with register 40, TORQUE_ENABLE.                *)
RestoreHead(c) ==
  IF c.include_id
  THEN [r \in {"ID", "HEAD"} |-> IF r = "ID" THEN c.new ELSE Image]
  ELSE Set("HEAD", Image)

RestoreProgram(c) ==
  << Ping(c.id, TRUE), Unlock(c.id),
     Write(c.id, RestoreHead(c), "ignore"),
     Write(c.id, Set("TAIL", Image), "ignore"),
     Write(c.id, Set("TORQUE", c.torque), "ignore"),
     Lock(c.id) >>

FactoryResetProgram(c) ==
  << Ping(c.id, TRUE), Reset(c.id) >>
  \o (IF c.id = FactoryId THEN << >>
      ELSE << Unlock(FactoryId),
              Write(FactoryId, Set("ID", c.id), "ignore"),
              Lock(c.id) >>)

WriteRegProgram(c) ==
  LET body == Write(c.id, c.write, "note")
  IN IF c.unlock THEN << Unlock(c.id), body, Lock(c.id) >> ELSE << body >>

EstopGivesUp(known) ==
  [i \in 1..Len(known) |-> Write(known[i], Set("TORQUE", 0), "stop")]

(* Torque off on every known servo, past the packets that fail.            *)
EstopProgram(known) ==
  [i \in 1..Len(known) |-> Write(known[i], Set("TORQUE", 0), "note")]

GetStateProgram(known) == [i \in 1..Len(known) |-> Read(known[i])]

HealthProgram(known) ==
  IF known = << >> THEN << >> ELSE << Ping(known[1], TRUE) >>

MoveProgram(c) == << Write(c.id, Nothing, "note") >>
SyncMoveProgram == << Write(Broadcast, Nothing, "note") >>
SetTorqueProgram(c) == << Write(c.id, Set("TORQUE", c.on), "note") >>
ReadRegProgram(c) == << Read(c.id) >>
BackupProgram(c) == << Ping(c.id, TRUE), Read(c.id), Read(c.id) >>

(* The packets of command c when the plugin knows the servos in known.  A  *)
(* malformed command sends none, and a scan leaves its pings to the task.  *)
ProgramOf(c, known) ==
  IF c.op = "emergency_stop" THEN EstopProgram(known)
  ELSE IF c.op = "get_state" THEN GetStateProgram(known)
  ELSE IF c.op = "health" THEN HealthProgram(known)
  ELSE IF c.op = "move" THEN MoveProgram(c)
  ELSE IF c.op = "sync_move" THEN SyncMoveProgram
  ELSE IF c.op = "set_torque" THEN SetTorqueProgram(c)
  ELSE IF c.op = "read_reg" THEN ReadRegProgram(c)
  ELSE IF c.op = "write_reg" THEN WriteRegProgram(c)
  ELSE IF c.op = "set_id" /\ ~Malformed(c) THEN SetIdProgram(c)
  ELSE IF c.op = "backup" THEN BackupProgram(c)
  ELSE IF c.op = "restore" THEN RestoreProgram(c)
  ELSE IF c.op = "factory_reset" THEN FactoryResetProgram(c)
  ELSE << >>

ASSUME ConstantsAssumption ==
  /\ MaxId \in Nat /\ MaxId >= FactoryId
  /\ "httpd" \notin ScanTask /\ "free" \notin ScanTask
  /\ Request \subseteq Command
  /\ ConfigIds \subseteq Seq(Id)
  /\ Faults \subseteq FaultKind

-----------------------------------------------------------------------------
VARIABLES
  reg,               (* the register file of each servo                     *)
  bus_mutex,         (* who holds the mutex: "free", "httpd" or a scan task *)
  servo_ids,         (* s_ctx.servo_ids, loaded once at boot                *)
  abort_scan,        (* s_ctx.abort_scan                                    *)
  scan_in_progress,  (* s_ctx.scan_in_progress                              *)
  hpc, cmd, step, ok,          (* httpd: where it is, in which command, its *)
                               (* next packet, and what it will answer      *)
  tpc, tid, found, aborted,    (* scan tasks: where, next id, result        *)
  estopSeen,         (* history: an e-stop signalled the latest scan        *)
  latePings,         (* history: pings sent since that signal               *)
  missed,            (* history: ids it skipped or pinged in a collision    *)
  idsBefore,         (* history: the addresses when the command began       *)
  lost, unsent,      (* history: the packets of the e-stop that the wire    *)
                     (* lost, and those that were not sent                  *)
  clashed,           (* history: an address in use was given once more      *)
  astray             (* history: servos that were left with the lock open   *)

httpdVars == << hpc, cmd, step, ok >>
scanVars == << tpc, tid, found, aborted >>
flagVars == << abort_scan, scan_in_progress >>
historyVars == << estopSeen, latePings, missed, idsBefore, lost, unsent, clashed, astray >>
vars == << reg, bus_mutex, servo_ids, flagVars, httpdVars, scanVars, historyVars >>

NoCommand == [op |-> "malformed"]

Addresses == [s \in Servo |-> reg[s]["ID"]]

(* The bus as it is set up: every servo on an address of its own, locked.  *)
Commissioned(id, on) ==
  [r \in Reg |-> CASE r = "ID" -> id
                  [] r \in {"HEAD", "TAIL"} -> Own
                  [] r = "TORQUE" -> on
                  [] OTHER -> 1]

Init ==
  /\ \E id \in [Servo -> Id], on \in [Servo -> Bit] :
       /\ \A s, u \in Servo : id[s] = id[u] => s = u
       /\ reg = [s \in Servo |-> Commissioned(id[s], on[s])]
  /\ bus_mutex = "free"
  /\ servo_ids \in ConfigIds
  /\ abort_scan = FALSE /\ scan_in_progress = FALSE
  /\ hpc = "idle" /\ cmd = NoCommand /\ step = 1 /\ ok = TRUE
  /\ tpc = [t \in ScanTask |-> "none"] /\ tid = [t \in ScanTask |-> 0]
  /\ found = [t \in ScanTask |-> {}] /\ aborted = [t \in ScanTask |-> FALSE]
  /\ estopSeen = FALSE /\ latePings = 0 /\ missed = {}
  /\ idsBefore = Addresses /\ lost = {} /\ unsent = {} /\ clashed = FALSE /\ astray = {}

-----------------------------------------------------------------------------
(* The wire.  "who" is the task that sends; its packet may be garbled when *)
(* another task uses the UART as well, which takes a forced e-stop.        *)
Noisy(who) ==
  \/ "loss" \in Faults
  \/ bus_mutex \notin {who, "free"}
  \/ hpc = "forced" /\ who # "httpd"

Heard(to) == {s \in Servo : to = Broadcast \/ reg[s]["ID"] = to}

Reached(to, who) == IF Noisy(who) THEN SUBSET Heard(to) ELSE {Heard(to)}

Alone(id) ==
  \E s \in Servo : /\ reg[s]["ID"] = id
                  /\ \A u \in Servo : reg[u]["ID"] = id => u = s

(* An answer needs a servo that owns the address; silence, or an answer    *)
(* bus_recv rejects, needs an empty address, two owners, or noise.         *)
MayAnswer(id) == id # Broadcast /\ \E s \in Servo : reg[s]["ID"] = id
MaySilence(id, who) == id = Broadcast \/ ~Alone(id) \/ Noisy(who)

Answers(id, who) ==
  {a \in BOOLEAN : IF a THEN MayAnswer(id) ELSE MaySilence(id, who)}

Effect(p, reached) ==
  [s \in Servo |->
     IF s \notin reached \/ p.kind \notin {"write", "reset"} THEN reg[s]
     ELSE IF p.kind = "write" THEN Written(reg[s], p.write)
     ELSE ResetFile(reg[s])]

(* What the histories clashed and astray record of a command.  Only set_id *)
(* looks whether an address is taken, and only it locks a servo where it   *)
(* has gone: the others write an address as they write any register.       *)
Unasked(c) ==
  {a \in Addr : \/ c.op = "restore" /\ c.include_id /\ a = c.new
                \/ c.op = "factory_reset" /\ a = FactoryId
                \/ c.op = "write_reg" /\ "ID" \in DOMAIN c.write /\ a = c.write["ID"]}

Clashes(c) ==
  \E a \in Unasked(c) : \E s \in Heard(c.id) : \E u \in Servo \ {s} :
    u \in Heard(c.id) \/ reg[u]["ID"] = a

LosesTrack(c) ==
  \/ c.op = "restore" /\ c.include_id /\ c.new # c.id
  \/ c.op = "write_reg" /\ IF c.unlock THEN "ID" \in DOMAIN c.write /\ c.write["ID"] # c.id
                           ELSE "LOCK" \in DOMAIN c.write

-----------------------------------------------------------------------------
(* httpd                                                                   *)
Program == ProgramOf(cmd, servo_ids)
Ended == step = Len(Program) + 1

(* The command is answered and httpd takes the next request.               *)
Respond == hpc' = "idle" /\ cmd' = NoCommand /\ step' = 1 /\ ok' = TRUE

(* A request reaches plugin_handle_command.                                *)
Receive(c) ==
  /\ hpc = "idle"
  /\ cmd' = c /\ step' = 1 /\ ok' = ~Malformed(c)
  /\ hpc' = IF c.op = "emergency_stop" THEN "check" ELSE "lock"
  /\ UNCHANGED << reg, bus_mutex, servo_ids, flagVars, scanVars, historyVars >>

(* The e-stop reads scan_in_progress and sets abort_scan, without the      *)
(* mutex: two steps.                                                       *)
EstopCheck ==
  /\ hpc = "check"
  /\ hpc' = IF scan_in_progress THEN "abort" ELSE "lock"
  /\ UNCHANGED << reg, bus_mutex, servo_ids, flagVars, cmd, step, ok, scanVars, historyVars >>

EstopAbort ==
  /\ hpc = "abort"
  /\ abort_scan' = TRUE
  /\ estopSeen' = TRUE
  /\ hpc' = "lock"
  /\ UNCHANGED << reg, bus_mutex, servo_ids, scan_in_progress, cmd, step, ok, scanVars,
                  latePings, missed, idsBefore, lost, unsent, clashed, astray >>

BusLock ==
  /\ hpc = "lock" /\ bus_mutex = "free"
  /\ bus_mutex' = "httpd"
  /\ hpc' = IF cmd.op = "scan" THEN "scan" ELSE "run"
  /\ idsBefore' = Addresses
  /\ clashed' = (clashed \/ Clashes(cmd))
  /\ astray' = IF LosesTrack(cmd) THEN astray \cup Heard(cmd.id) ELSE astray
  /\ UNCHANGED << reg, servo_ids, flagVars, cmd, step, ok, scanVars, estopSeen, latePings,
                  missed, lost, unsent >>

(* bus_lock times out: an e-stop goes on without the mutex and will answer *)
(* ok:false, any other command answers that the bus is busy.               *)
BusLockTimeout ==
  /\ "timeout" \in Faults
  /\ hpc = "lock" /\ bus_mutex # "free"
  /\ IF cmd.op = "emergency_stop"
     THEN hpc' = "forced" /\ ok' = FALSE /\ UNCHANGED << cmd, step >>
     ELSE Respond
  /\ UNCHANGED << reg, bus_mutex, servo_ids, flagVars, scanVars, historyVars >>

GoOn == step' = step + 1 /\ UNCHANGED ok
GiveUp == step' = Len(Program) + 1 /\ ok' = FALSE

(* get_state reports an error per servo and stays ok.                      *)
Note == step' = step + 1 /\ ok' = (ok /\ cmd.op = "get_state")

Fails(p) ==
  \/ p.onfail = "ignore" /\ GoOn
  \/ p.onfail = "note" /\ Note
  \/ p.onfail = "stop" /\ GiveUp

(* One packet of the program goes out, and a ping or a read waits for its  *)
(* answer.                                                                 *)
Transmit ==
  /\ hpc \in {"run", "forced"} /\ ~Ended
  /\ LET p == Program[step] IN
     /\ \E reached \in Reached(p.to, "httpd") :
          /\ reg' = Effect(p, reached)
          /\ lost' = IF cmd.op = "emergency_stop" /\ reached # Heard(p.to)
                     THEN lost \cup {step} ELSE lost
     /\ IF p.kind \in {"ping", "read"}
        THEN \E a \in Answers(p.to, "httpd") : IF a = p.want THEN GoOn ELSE Fails(p)
        ELSE GoOn
  /\ UNCHANGED << bus_mutex, servo_ids, flagVars, hpc, cmd, scanVars, estopSeen, latePings,
                  missed, idsBefore, unsent, clashed, astray >>

(* The packet is not sent.  ping_servo takes that for silence.             *)
SendFails ==
  /\ "send" \in Faults
  /\ hpc \in {"run", "forced"} /\ ~Ended
  /\ LET p == Program[step] IN IF p.want THEN Fails(p) ELSE GoOn
  /\ unsent' = IF cmd.op = "emergency_stop" THEN unsent \cup {step} ELSE unsent
  /\ UNCHANGED << reg, bus_mutex, servo_ids, flagVars, hpc, cmd, scanVars, estopSeen, latePings,
                  missed, idsBefore, lost, clashed, astray >>

(* The command gives the mutex back and answers.                           *)
Answer ==
  /\ hpc \in {"run", "forced"} /\ Ended
  /\ Respond
  /\ bus_mutex' = IF hpc = "run" THEN "free" ELSE bus_mutex
  /\ idsBefore' = Addresses /\ lost' = {} /\ unsent' = {}
  /\ UNCHANGED << reg, servo_ids, flagVars, scanVars, estopSeen, latePings, missed, clashed,
                  astray >>

ScanCommandUnchecked ==
  /\ hpc = "scan" /\ hpc' = "spawn"
  /\ bus_mutex' = "free"
  /\ abort_scan' = FALSE /\ scan_in_progress' = TRUE
  /\ estopSeen' = FALSE /\ latePings' = 0 /\ missed' = {}
  /\ UNCHANGED << cmd, step, ok, reg, servo_ids, scanVars, idsBefore, lost, unsent, clashed, astray >>

ScanCommandKeepsAbort ==
  /\ hpc = "scan" /\ ~scan_in_progress /\ hpc' = "spawn"
  /\ bus_mutex' = "free"
  /\ scan_in_progress' = TRUE
  /\ estopSeen' = FALSE /\ latePings' = 0 /\ missed' = {}
  /\ UNCHANGED << cmd, step, ok, reg, servo_ids, abort_scan, scanVars, idsBefore, lost, unsent, clashed, astray >>

(* The scan command refuses while a scan is in progress; otherwise it sets *)
(* the flags under the mutex, releases it and creates the task.            *)
ScanCommand ==
  /\ hpc = "scan"
  /\ bus_mutex' = "free"
  /\ IF scan_in_progress
     THEN Respond /\ UNCHANGED << flagVars, estopSeen, latePings, missed >>
     ELSE /\ hpc' = "spawn"
          /\ abort_scan' = FALSE /\ scan_in_progress' = TRUE
          /\ estopSeen' = FALSE /\ latePings' = 0 /\ missed' = {}
          /\ UNCHANGED << cmd, step, ok >>
  /\ UNCHANGED << reg, servo_ids, scanVars, idsBefore, lost, unsent, clashed, astray >>

Spawn(t) ==
  /\ hpc = "spawn" /\ tpc[t] = "none"
  /\ tpc' = [tpc EXCEPT ![t] = "check"]
  /\ Respond
  /\ UNCHANGED << reg, bus_mutex, servo_ids, flagVars, tid, found, aborted, historyVars >>

SpawnFails ==
  /\ "notask" \in Faults
  /\ hpc = "spawn"
  /\ scan_in_progress' = FALSE
  /\ Respond
  /\ UNCHANGED << reg, bus_mutex, servo_ids, abort_scan, scanVars, historyVars >>

-----------------------------------------------------------------------------
(* The scan task                                                           *)
At(t, from, to) == tpc[t] = from /\ tpc' = [tpc EXCEPT ![t] = to]

ScanCheckOverrun(t) ==
  /\ At(t, "check", IF tid[t] > MaxId + 1 \/ abort_scan THEN "record" ELSE "lock")
  /\ UNCHANGED << reg, bus_mutex, servo_ids, flagVars, httpdVars, tid, found, aborted,
                  historyVars >>

ScanCheckShort(t) ==
  /\ At(t, "check", IF tid[t] >= MaxId \/ abort_scan THEN "record" ELSE "lock")
  /\ UNCHANGED << reg, bus_mutex, servo_ids, flagVars, httpdVars, tid, found, aborted,
                  historyVars >>

ScanCheckNoAbort(t) ==
  /\ At(t, "check", IF tid[t] > MaxId THEN "record" ELSE "lock")
  /\ UNCHANGED << reg, bus_mutex, servo_ids, flagVars, httpdVars, tid, found, aborted,
                  historyVars >>

ScanCheck(t) ==
  /\ At(t, "check", IF tid[t] > MaxId \/ abort_scan THEN "record" ELSE "lock")
  /\ UNCHANGED << reg, bus_mutex, servo_ids, flagVars, httpdVars, tid, found, aborted,
                  historyVars >>

ScanLock(t) ==
  /\ At(t, "lock", "ping")
  /\ bus_mutex = "free" /\ bus_mutex' = t
  /\ UNCHANGED << reg, servo_ids, flagVars, httpdVars, tid, found, aborted, historyVars >>

ScanLockTimeoutIgnored(t) ==
  /\ "timeout" \in Faults
  /\ At(t, "lock", "ping")
  /\ bus_mutex # "free"
  /\ UNCHANGED << reg, bus_mutex, servo_ids, flagVars, httpdVars, tid, found, aborted,
                  historyVars >>

ScanLockTimeoutRetries(t) ==
  /\ "timeout" \in Faults
  /\ At(t, "lock", "check")
  /\ bus_mutex # "free"
  /\ UNCHANGED << reg, bus_mutex, servo_ids, flagVars, httpdVars, tid, found, aborted,
                  historyVars >>

(* The id is skipped, and is missing from the result.                      *)
ScanLockTimeout(t) ==
  /\ "timeout" \in Faults
  /\ At(t, "lock", "check")
  /\ bus_mutex # "free"
  /\ tid' = [tid EXCEPT ![t] = @ + 1]
  /\ missed' = missed \cup {tid[t]}
  /\ UNCHANGED << reg, bus_mutex, servo_ids, flagVars, httpdVars, found, aborted, estopSeen,
                  latePings, idsBefore, lost, unsent, clashed, astray >>

ScanPing(t) ==
  /\ At(t, "ping", "unlock")
  /\ \E a \in Answers(tid[t], t) \cup (IF "send" \in Faults THEN {FALSE} ELSE {}) :
       found' = IF a THEN [found EXCEPT ![t] = @ \cup {tid[t]}] ELSE found
  /\ latePings' = IF abort_scan THEN latePings + 1 ELSE latePings
  /\ missed' = IF Noisy(t) THEN missed \cup {tid[t]} ELSE missed
  /\ UNCHANGED << reg, bus_mutex, servo_ids, flagVars, httpdVars, tid, aborted,
                  estopSeen, idsBefore, lost, unsent, clashed, astray >>

ScanUnlock(t) ==
  /\ At(t, "unlock", "check")
  /\ bus_mutex' = "free"
  /\ tid' = [tid EXCEPT ![t] = @ + 1]
  /\ UNCHANGED << reg, servo_ids, flagVars, httpdVars, found, aborted, historyVars >>

(* was_aborted is read and servo.scan_complete is published.               *)
ScanReport(t) ==
  /\ At(t, "record", "clear")
  /\ aborted' = [aborted EXCEPT ![t] = abort_scan]
  /\ UNCHANGED << reg, bus_mutex, servo_ids, flagVars, httpdVars, tid, found, historyVars >>

ScanClearAbort(t) ==
  /\ At(t, "clear", "finish")
  /\ abort_scan' = FALSE
  /\ UNCHANGED << reg, bus_mutex, servo_ids, scan_in_progress, httpdVars, tid, found, aborted,
                  historyVars >>

(* The flag goes down and vTaskDelete(NULL) ends the task.                 *)
ScanFinish(t) ==
  /\ At(t, "finish", "none")
  /\ scan_in_progress' = FALSE
  /\ tid' = [tid EXCEPT ![t] = 0]
  /\ found' = [found EXCEPT ![t] = {}]
  /\ aborted' = [aborted EXCEPT ![t] = FALSE]
  /\ UNCHANGED << reg, bus_mutex, servo_ids, abort_scan, httpdVars, historyVars >>

-----------------------------------------------------------------------------
(* The node restarts (an OTA update or /system/restart ends in esp_restart *)
(* from a timer) and plugin_init runs again; the servos keep their state.  *)
Reboot ==
  /\ "reboot" \in Faults
  /\ bus_mutex' = "free"
  /\ servo_ids' \in ConfigIds
  /\ abort_scan' = FALSE /\ scan_in_progress' = FALSE
  /\ Respond
  /\ tpc' = [t \in ScanTask |-> "none"] /\ tid' = [t \in ScanTask |-> 0]
  /\ found' = [t \in ScanTask |-> {}] /\ aborted' = [t \in ScanTask |-> FALSE]
  /\ estopSeen' = FALSE /\ latePings' = 0 /\ missed' = {}
  /\ idsBefore' = Addresses /\ lost' = {} /\ unsent' = {}
  /\ UNCHANGED << reg, clashed, astray >>

HttpdStep ==
  \/ EstopCheck \/ EstopAbort \/ BusLock \/ BusLockTimeout
  \/ Transmit \/ SendFails \/ Answer
  \/ ScanCommand \/ SpawnFails \/ \E t \in ScanTask : Spawn(t)

ScanStep(t) ==
  \/ ScanCheck(t) \/ ScanLock(t) \/ ScanLockTimeout(t) \/ ScanPing(t)
  \/ ScanUnlock(t) \/ ScanReport(t) \/ ScanClearAbort(t) \/ ScanFinish(t)

Next ==
  \/ \E c \in Request : Receive(c)
  \/ HttpdStep
  \/ \E t \in ScanTask : ScanStep(t)
  \/ Reboot

Spec == Init /\ [][Next]_vars

(* Both tasks are scheduled by FreeRTOS whenever they can run; nobody has  *)
(* to send a request and no node has to restart.                           *)
FairSpec ==
  /\ Spec
  /\ WF_vars(HttpdStep)
  /\ \A t \in ScanTask : WF_vars(ScanStep(t))

-----------------------------------------------------------------------------
HttpdPlace == {"idle", "check", "abort", "lock", "run", "forced", "scan", "spawn"}
ScanPlace == {"none", "check", "lock", "ping", "unlock", "record", "clear", "finish"}

(* The type of every variable; the step counter stays within the program   *)
(* of the command and the scan within the addresses.                       *)
TypeOK ==
  /\ reg \in [Servo -> RegFile]
  /\ bus_mutex \in {"free", "httpd"} \cup ScanTask
  /\ servo_ids \in Seq(Id)
  /\ abort_scan \in BOOLEAN /\ scan_in_progress \in BOOLEAN
  /\ hpc \in HttpdPlace /\ cmd \in Command /\ ok \in BOOLEAN
  /\ step \in 1..(Len(Program) + 1)
  /\ tpc \in [ScanTask -> ScanPlace]
  /\ tid \in [ScanTask -> 0..(MaxId + 1)]
  /\ found \in [ScanTask -> SUBSET Id]
  /\ aborted \in [ScanTask -> BOOLEAN]
  /\ estopSeen \in BOOLEAN /\ latePings \in Nat /\ missed \subseteq Id
  /\ idsBefore \in [Servo -> Addr] /\ lost \subseteq Nat /\ unsent \subseteq Nat
  /\ clashed \in BOOLEAN /\ astray \subseteq Servo

OnUart(t) == tpc[t] \in {"ping", "unlock"}

(* No two tasks are between taking and giving the bus at the same time:    *)
(* not httpd in a command and a scan in a ping, not two scans.  Only the   *)
(* forced e-stop sends without the mutex (the early releases of the scan   *)
(* command and of every error return included).                            *)
UartExclusive ==
  \A t \in ScanTask : OnUart(t) =>
    /\ hpc \notin {"run", "scan"}
    /\ \A u \in ScanTask : OnUart(u) => u = t

(* There is at most one live scan, and scan_in_progress is set all the     *)
(* while: between the flag and xTaskCreate nobody can start another, and   *)
(* the task clears the flag with its last step.                            *)
OneScan ==
  \A t \in ScanTask : tpc[t] # "none" =>
    /\ scan_in_progress
    /\ hpc # "spawn"
    /\ \A u \in ScanTask : tpc[u] # "none" => u = t

(* servo.scan_complete says "aborted" only of a scan that an e-stop cut    *)
(* short: a flag left over from an earlier e-stop, set after that scan had *)
(* cleared it, never reaches the next scan.                                *)
AbortedByEstop ==
  \A t \in ScanTask :
    tpc[t] \in {"clear", "finish"} /\ aborted[t] => estopSeen

(* Once an e-stop has signalled the scan, the scan sends at most the one   *)
(* ping it had already checked the flag for, however long the e-stop waits *)
(* for the bus.                                                            *)
EstopPreemptsScan == latePings <= 1

Finished(op) == hpc \in {"run", "forced"} /\ Ended /\ cmd.op = op

(* A scan that reports itself complete lists exactly the addresses in use, *)
(* but for those it had no turn on the bus for: a lock timeout drops an id *)
(* without a word, and a forced e-stop may drown its ping.                 *)
ScanExact ==
  \A t \in ScanTask :
    tpc[t] \in {"clear", "finish"} /\ ~aborted[t]
      => LET used == {reg[s]["ID"] : s \in Servo}
         IN found[t] \subseteq used /\ used \subseteq found[t] \cup missed

(* No two servos share an address, through any number of renames, resets  *)
(* and restores, beside scans and timeouts: set_id looks whether new_id is *)
(* free and writes it under one hold of the mutex.  Only a command that    *)
(* does not look (a restore with the ID byte, a factory reset, a raw       *)
(* write) can end this, by writing an address that is taken.               *)
DistinctIds ==
  ~clashed => \A s, u \in Servo : reg[s]["ID"] = reg[u]["ID"] => s = u

(* Between commands no EEPROM is left unlocked, whatever address the servo *)
(* answers to by then, not even where two servos share one; but for the    *)
(* servos of a command that loses track of them: a restore that gives them *)
(* another ID (it locks the old one) and a raw write of ID or LOCK.        *)
EepromRelocked ==
  hpc = "idle" => \A s \in Servo \ astray : reg[s]["LOCK"] = 1

(* When set_id answers ok, a servo has new_id, whatever the bus lost.      *)
SetIdAnswered ==
  Finished("set_id") /\ ok => \E s \in Servo : reg[s]["ID"] = cmd.new

(* An e-stop takes the torque from every servo the node knows but those    *)
(* whose own packet was not sent, or was lost or drowned on the wire: it   *)
(* goes on past each of these, with the mutex or without, whatever it will *)
(* answer.  And it answers ok only if all were sent.                       *)
EstopTruthful ==
  Finished("emergency_stop") =>
    /\ ok => unsent = {}
    /\ \A i \in 1..Len(servo_ids) \ (lost \cup unsent) : \A s \in Servo :
         reg[s]["ID"] = servo_ids[i] => reg[s]["TORQUE"] = 0

(* An e-stop that answers ok has taken the torque from every servo there   *)
(* is on the bus.                                                          *)
EstopStopsEveryServo ==
  Finished("emergency_stop") /\ ok => \A s \in Servo : reg[s]["TORQUE"] = 0

(* A restore that answers ok and leaves the servo its ID, whether or not   *)
(* it writes the ID byte, has written the whole image to the servo it was  *)
(* sent to and locked its EEPROM again.  One that gives the servo another  *)
(* ID answers ok as well, but sends the rest of the image, and the lock,   *)
(* to the ID the servo no longer has.                                      *)
RestoreComplete ==
  Finished("restore") /\ ok /\ ~LosesTrack(cmd) =>
    \A s \in Servo : idsBefore[s] = cmd.id =>
      /\ reg[s]["HEAD"] = Image /\ reg[s]["TAIL"] = Image
      /\ reg[s]["LOCK"] = 1

(* A factory reset leaves every servo at the address it had.               *)
ResetKeepsIds ==
  Finished("factory_reset") /\ ok => Addresses = idsBefore

(* A scan comes to its end and clears its flag even if httpd takes the bus *)
(* again and again: the lock timeout makes it skip an id.                  *)
ScanEnds == scan_in_progress ~> ~scan_in_progress

=============================================================================
