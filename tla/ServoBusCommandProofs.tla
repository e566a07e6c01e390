------------------------ MODULE ServoBusCommandProofs ------------------------
(***************************************************************************)
(* Proofs about what the commands and the scans of ServoBus promise.  Like *)
(* those of ServoBusProofs, on which they rest, they are for any number of *)
(* servos, addresses and scan tasks.  Where a promise depends on what the  *)
(* wire does and on which requests are made, the theorem says so in its    *)
(* assumptions.                                                            *)
(***************************************************************************)
EXTENDS ServoBusProofs

-----------------------------------------------------------------------------
(* Part 4: what one packet does to a servo.                                *)

LEMMA SetIs ==
  ASSUME NEW r, NEW v
  PROVE  DOMAIN Set(r, v) = {r} /\ Set(r, v)[r] = v
BY DEF Set

LEMMA NothingIs == DOMAIN Nothing = {}
BY DEF Nothing

LEMMA RestoreHeadIs ==
  ASSUME NEW c
  PROVE  /\ c.include_id => /\ DOMAIN RestoreHead(c) = {"ID", "HEAD"}
                            /\ RestoreHead(c)["ID"] = c.new /\ RestoreHead(c)["HEAD"] = Image
         /\ ~c.include_id => DOMAIN RestoreHead(c) = {"HEAD"} /\ RestoreHead(c)["HEAD"] = Image
BY DEF RestoreHead, Set

(* The fields of each packet.                                              *)
LEMMA WriteIs ==
  ASSUME NEW id, NEW w, NEW f, NEW p, p = Write(id, w, f)
  PROVE  p.kind = "write" /\ p.to = id /\ p.write = w /\ p.want /\ p.onfail = f
BY DEF Write

LEMMA PingIs ==
  ASSUME NEW id, NEW p, p = Ping(id, TRUE) \/ p = Ping(id, FALSE)
  PROVE  /\ p.kind = "ping" /\ p.to = id /\ p.onfail = "stop"
         /\ p = Ping(id, TRUE) => p.want = TRUE
         /\ p = Ping(id, FALSE) => p.want = FALSE
BY DEF Ping

LEMMA ResetIs ==
  ASSUME NEW id, NEW p, p = Reset(id)
  PROVE  p.kind = "reset" /\ p.to = id /\ p.want /\ p.onfail = "stop"
BY DEF Reset

LEMMA LocksAre ==
  ASSUME NEW id, NEW p, p = Unlock(id) \/ p = Lock(id)
  PROVE  /\ p.kind = "write" /\ p.to = id /\ p.want /\ p.onfail = "ignore"
         /\ DOMAIN p.write = {"LOCK"}
         /\ p = Unlock(id) => p.write["LOCK"] = 0
         /\ p = Lock(id) => p.write["LOCK"] = 1
BY DEF Unlock, Lock, Write, Set

(* A packet that is not a write or a reset, and a servo it does not reach. *)
LEMMA EffectNone ==
  ASSUME NEW p, NEW reached, NEW s \in Servo,
         s \notin reached \/ p.kind \notin {"write", "reset"}
  PROVE  Effect(p, reached)[s] = reg[s]
BY DEF Effect

LEMMA EffectWrite ==
  ASSUME NEW p, NEW reached, NEW s \in Servo, s \in reached, p.kind = "write"
  PROVE  /\ Effect(p, reached)[s]["LOCK"] =
              IF "LOCK" \in DOMAIN p.write THEN p.write["LOCK"] ELSE reg[s]["LOCK"]
         /\ Effect(p, reached)[s]["TORQUE"] =
              IF "TORQUE" \in DOMAIN p.write THEN p.write["TORQUE"] ELSE reg[s]["TORQUE"]
         /\ \A r \in Eeprom :
              Effect(p, reached)[s][r] =
                IF r \in DOMAIN p.write /\ reg[s]["LOCK"] = 0 THEN p.write[r] ELSE reg[s][r]
<1>1. Effect(p, reached)[s] = Written(reg[s], p.write)
  BY DEF Effect
<1>2. Eeprom \subseteq Reg /\ "LOCK" \in Reg \ Eeprom /\ "TORQUE" \in Reg \ Eeprom
  BY DEF Eeprom, Reg
<1>3. QED
  BY <1>1, <1>2 DEF Written

LEMMA EffectReset ==
  ASSUME reg \in [Servo -> RegFile],
         NEW p, NEW reached, NEW s \in Servo, s \in reached, p.kind = "reset"
  PROVE  Effect(p, reached)[s]["ID"] = FactoryId /\ Effect(p, reached)[s]["LOCK"] = 1
<1>1. Effect(p, reached)[s] = ResetFile(reg[s])
  BY DEF Effect
<1>2. reg[s] \in [Reg -> Addr]
  BY DEF RegFile
<1>3. QED
  BY <1>1, <1>2 DEF ResetFile, Reg

(* A step of httpd that sends a packet, or fails to.                       *)
LEMMA TransmitIs ==
  ASSUME Transmit
  PROVE  /\ hpc \in {"run", "forced"} /\ step # Len(Program) + 1
         /\ UNCHANGED << bus_mutex, servo_ids, flagVars, hpc, cmd, scanVars, estopSeen,
                         latePings, missed, idsBefore, unsent, clashed, astray >>
         /\ \E reached \in Reached(Program[step].to, "httpd") :
              /\ reg' = Effect(Program[step], reached)
              /\ lost' = IF cmd.op = "emergency_stop" /\ reached # Heard(Program[step].to)
                         THEN lost \cup {step} ELSE lost
         /\ \/ GoOn
            \/ Program[step].kind \in {"ping", "read"} /\ Fails(Program[step])
         /\ Program[step].kind = "ping" /\ ~Fails(Program[step]) =>
              GoOn /\ Program[step].want \in Answers(Program[step].to, "httpd")
BY Zenon DEF Transmit, Ended

LEMMA SendFailsIs ==
  ASSUME SendFails
  PROVE  /\ "send" \in Faults /\ hpc \in {"run", "forced"} /\ step # Len(Program) + 1
         /\ UNCHANGED << reg, lost, bus_mutex, servo_ids, flagVars, hpc, cmd, scanVars, estopSeen,
                         latePings, missed, idsBefore, clashed, astray >>
         /\ unsent' = IF cmd.op = "emergency_stop" THEN unsent \cup {step} ELSE unsent
         /\ IF Program[step].want THEN Fails(Program[step]) ELSE GoOn
BY Zenon DEF SendFails, Ended

-----------------------------------------------------------------------------
(* Part 5: the command httpd is in.                                        *)

(* A command that waits for the bus has sent nothing; the one that runs    *)
(* without the mutex is an e-stop and answers an error, and so does a      *)
(* malformed one.                                                          *)
CommandInv ==
  /\ hpc = "idle" => cmd = NoCommand
  /\ hpc # "idle" => cmd \in Request /\ (Malformed(cmd) => ~ok)
  /\ hpc \in {"check", "abort"} => cmd.op = "emergency_stop"
  /\ hpc \in {"check", "abort", "lock"} => step = 1
  /\ hpc \in {"scan", "spawn"} => cmd.op = "scan"
  /\ hpc = "forced" => cmd.op = "emergency_stop" /\ ~ok

LEMMA FailsIs ==
  ASSUME NEW p, Fails(p)
  PROVE  \/ p.onfail = "ignore" /\ GoOn
         \/ p.onfail = "note" /\ Note
         \/ p.onfail = "stop" /\ GiveUp
BY DEF Fails

LEMMA OkOnlyFalls ==
  ASSUME Transmit \/ SendFails, ok'
  PROVE  ok
BY TransmitIs, SendFailsIs, FailsIs, Zenon DEF GoOn, Note, GiveUp

LEMMA CommandStep == TypeOK /\ CommandInv /\ [Next]_vars => CommandInv'
<1> SUFFICES ASSUME TypeOK, CommandInv, [Next]_vars PROVE CommandInv'
  OBVIOUS
<1> USE DEF CommandInv
<1>1. ASSUME NEW c \in Request, Receive(c) PROVE CommandInv'
  BY <1>1 DEF Receive
<1>2. CASE EstopCheck \/ EstopAbort
  BY <1>2 DEF EstopCheck, EstopAbort
<1>3. CASE BusLock
  BY <1>3 DEF BusLock
<1>4. CASE BusLockTimeout
  BY <1>4 DEF BusLockTimeout, Respond
<1>5. CASE Transmit \/ SendFails
  <2>1. /\ hpc \in {"run", "forced"} /\ hpc' = hpc /\ cmd' = cmd
    BY <1>5, TransmitIs, SendFailsIs
  <2>2. ok' => ok
    BY <1>5, OkOnlyFalls
  <2>3. Malformed(cmd') => Malformed(cmd)
    BY <2>1
  <2>4. QED
    BY <2>1, <2>2, <2>3
<1>6. CASE Answer \/ Reboot
  BY <1>6 DEF Answer, Reboot, Respond
<1>7. CASE ScanCommand \/ SpawnFails \/ \E t \in ScanTask : Spawn(t)
  BY <1>7 DEF ScanCommand, SpawnFails, Spawn, Respond
<1>8. CASE UNCHANGED httpdVars
  BY <1>8 DEF httpdVars
<1>9. CASE UNCHANGED vars
  BY <1>9, <1>8 DEF vars
<1>10. ASSUME NEW t \in ScanTask, ScanStep(t) PROVE UNCHANGED httpdVars
  BY <1>10, Zenon DEF ScanStep, ScanCheck, ScanLock, ScanLockTimeout, ScanPing, ScanUnlock,
       ScanReport, ScanClearAbort, ScanFinish
<1>11. QED
  BY <1>1, <1>2, <1>3, <1>4, <1>5, <1>6, <1>7, <1>8, <1>9, <1>10 DEF Next, HttpdStep

LEMMA CommandInit == Init => CommandInv
BY DEF Init, CommandInv

(* Nobody but httpd in a command of its own changes a register.            *)
LEMMA OthersKeepServos ==
  ASSUME [Next]_vars, ~Transmit
  PROVE  reg' = reg
BY Zenon DEF Next, HttpdStep, Receive, EstopCheck, EstopAbort, BusLock, BusLockTimeout, SendFails,
       Answer, ScanCommand, SpawnFails, Spawn, ScanStep, ScanCheck, ScanLock, ScanLockTimeout,
       ScanPing, ScanUnlock, ScanReport, ScanClearAbort, ScanFinish, Reboot, vars

(* How a command gets to run, goes on, and ends: whatever else happens is  *)
(* no step of it.                                                          *)
Sending == {"run", "forced"}

LEMMA SendSteps ==
  ASSUME CommandInv, [Next]_vars, hpc' \in Sending
  PROVE  \/ /\ hpc = "lock" /\ hpc' = "run" /\ step = 1 /\ idsBefore' = Addresses
            /\ UNCHANGED << reg, servo_ids, cmd, step, ok, lost, unsent >>
            /\ clashed' = (clashed \/ Clashes(cmd))
            /\ astray' = IF LosesTrack(cmd) THEN astray \cup Heard(cmd.id) ELSE astray
         \/ /\ hpc = "lock" /\ hpc' = "forced" /\ step = 1 /\ ok' = FALSE
            /\ UNCHANGED << reg, servo_ids, cmd, step, lost, unsent, clashed, astray >>
         \/ hpc \in Sending /\ hpc' = hpc /\ (Transmit \/ SendFails)
         \/ /\ hpc \in Sending
            /\ UNCHANGED << reg, servo_ids, hpc, cmd, step, ok, idsBefore, lost, unsent, clashed,
                            astray >>
<1> USE DEF Sending
<1>1. CASE BusLock
  BY <1>1 DEF BusLock, CommandInv
<1>2. CASE Transmit \/ SendFails
  BY <1>2, TransmitIs, SendFailsIs
<1>3. CASE UNCHANGED vars
  BY <1>3 DEF vars, httpdVars, historyVars
<1>4. CASE \E t \in ScanTask : ScanStep(t)
  <2>1. UNCHANGED << reg, servo_ids, hpc, cmd, step, ok, idsBefore, lost, unsent, clashed, astray >>
    BY <1>4, Zenon DEF ScanStep, ScanCheck, ScanLock, ScanLockTimeout, ScanPing, ScanUnlock,
       ScanReport, ScanClearAbort, ScanFinish, httpdVars, historyVars
  <2>2. QED
    BY <2>1
<1>5. CASE BusLockTimeout
  BY <1>5 DEF BusLockTimeout, Respond, CommandInv, historyVars
<1>6. CASE \/ \E c \in Request : Receive(c)
           \/ EstopCheck \/ EstopAbort \/ Answer
           \/ ScanCommand \/ SpawnFails \/ Reboot \/ \E t \in ScanTask : Spawn(t)
  <2>1. hpc' \notin Sending
    BY <1>6 DEF Receive, EstopCheck, EstopAbort, Answer, ScanCommand, SpawnFails,
       Reboot, Spawn, Respond
  <2>2. QED
    BY <2>1
<1>7. QED
  BY <1>1, <1>2, <1>3, <1>4, <1>5, <1>6 DEF Next, HttpdStep

LEMMA RunSteps ==
  ASSUME CommandInv, [Next]_vars, hpc' = "run"
  PROVE  \/ /\ hpc = "lock" /\ step = 1 /\ idsBefore' = Addresses
            /\ UNCHANGED << reg, servo_ids, cmd, step, ok >>
            /\ clashed' = (clashed \/ Clashes(cmd))
            /\ astray' = IF LosesTrack(cmd) THEN astray \cup Heard(cmd.id) ELSE astray
         \/ hpc = "run" /\ (Transmit \/ SendFails)
         \/ /\ hpc = "run"
            /\ UNCHANGED << reg, servo_ids, cmd, step, ok, idsBefore, clashed, astray >>
<1>1. hpc' \in Sending
  BY DEF Sending
<1>2. QED
  BY <1>1, SendSteps, Zenon

(* What a command leaves the next one of its histories.                    *)
LEMMA HistorySteps ==
  ASSUME [Next]_vars
  PROVE  /\ clashed => clashed'
         /\ astray \subseteq astray'
<1>1. CASE BusLock
  BY <1>1 DEF BusLock
<1>2. CASE ~BusLock
  <2>1. UNCHANGED << clashed, astray >>
    BY <1>2, Zenon DEF Next, HttpdStep, Receive, EstopCheck, EstopAbort, BusLockTimeout, Transmit,
       SendFails, Answer, ScanCommand, SpawnFails, Spawn, ScanStep, ScanCheck, ScanLock,
       ScanLockTimeout, ScanPing, ScanUnlock, ScanReport, ScanClearAbort, ScanFinish, Reboot,
       vars, historyVars
  <2>2. QED
    BY <2>1
<1>3. QED
  BY <1>1, <1>2

LEMMA SilentSteps ==
  ASSUME [Next]_vars, hpc' \notin Sending
  PROVE  UNCHANGED << hpc, lost, unsent >> \/ (lost' = {} /\ unsent' = {})
         \/ (hpc \notin Sending /\ UNCHANGED << lost, unsent >>)
<1> USE DEF Sending
<1>1. CASE Transmit \/ SendFails
  BY <1>1, TransmitIs, SendFailsIs
<1>2. CASE Answer \/ Reboot
  BY <1>2 DEF Answer, Reboot
<1>3. CASE UNCHANGED vars \/ \E t \in ScanTask : ScanStep(t)
  <2>1. UNCHANGED << hpc, lost, unsent >>
    BY <1>3, Zenon DEF ScanStep, ScanCheck, ScanLock, ScanLockTimeout, ScanPing,
       ScanUnlock, ScanReport, ScanClearAbort, ScanFinish, vars, httpdVars, historyVars
  <2>2. QED
    BY <2>1
<1>4. CASE \/ \E c \in Request : Receive(c)
           \/ EstopCheck \/ EstopAbort \/ BusLock \/ BusLockTimeout
           \/ ScanCommand \/ SpawnFails \/ \E t \in ScanTask : Spawn(t)
  <2>1. hpc \notin Sending /\ UNCHANGED << lost, unsent >>
    BY <1>4 DEF Receive, EstopCheck, EstopAbort, BusLock, BusLockTimeout, ScanCommand, SpawnFails,
       Spawn, historyVars
  <2>2. QED
    BY <2>1
<1>5. QED
  BY <1>1, <1>2, <1>3, <1>4 DEF Next, HttpdStep

(* What each program is made of.                                           *)
LEMMA EstopProgramIs ==
  ASSUME NEW known \in Seq(Id)
  PROVE  /\ Len(EstopProgram(known)) = Len(known)
         /\ \A i \in 1..Len(known) :
              EstopProgram(known)[i] = Write(known[i], Set("TORQUE", 0), "note")
<1>1. Len(known) \in Nat
  OBVIOUS
<1>2. EstopProgram(known) = [i \in 1..Len(known) |-> Write(known[i], Set("TORQUE", 0), "note")]
  BY DEF EstopProgram
<1>3. DOMAIN EstopProgram(known) = 1..Len(known)
  BY <1>2
<1>4. QED
  BY <1>1, <1>2, <1>3

(* The index of the last check of a set_id, before it writes.              *)
Checked(c) == IF c.id = c.new THEN 1 ELSE 2

LEMMA SetIdProgramIs ==
  ASSUME NEW c
  PROVE  /\ Checked(c) \in {1, 2} /\ Len(SetIdProgram(c)) = Checked(c) + 4
         /\ SetIdProgram(c)[1] = Ping(c.id, TRUE)
         /\ c.id # c.new => SetIdProgram(c)[2] = Ping(c.new, FALSE)
         /\ SetIdProgram(c)[Checked(c) + 1] = Unlock(c.id)
         /\ SetIdProgram(c)[Checked(c) + 2] = Write(c.id, Set("ID", c.new), "note")
         /\ SetIdProgram(c)[Checked(c) + 3] = Lock(c.new)
         /\ SetIdProgram(c)[Checked(c) + 4] = Ping(c.new, TRUE)
<1> DEFINE program == SetIdProgram(c)
<1>1. PICK p, r, u, w, l, q :
        /\ p = Ping(c.id, TRUE) /\ r = Ping(c.new, FALSE) /\ u = Unlock(c.id)
        /\ w = Write(c.id, Set("ID", c.new), "note") /\ l = Lock(c.new) /\ q = Ping(c.new, TRUE)
  BY Zenon
<1>2. CASE c.id = c.new
  <2>1. program = << p >> \o << u, w, l, q >>
    BY <1>1, <1>2, Zenon DEF SetIdProgram
  <2>2. /\ Len(program) = 5 /\ program[1] = p /\ program[2] = u /\ program[3] = w
        /\ program[4] = l /\ program[5] = q
    <3> HIDE DEF program
    <3>1. QED
      BY <2>1
  <2>3. /\ Checked(c) = 1 /\ Checked(c) + 1 = 2 /\ Checked(c) + 2 = 3
        /\ Checked(c) + 3 = 4 /\ Checked(c) + 4 = 5
    BY <1>2 DEF Checked
  <2>4. Checked(c) \in {1, 2}
    BY <2>3
  <2>5. QED
    BY <1>1, <1>2, <2>2, <2>3, <2>4, Zenon
<1>3. CASE c.id # c.new
  <2>1. program = << p, r >> \o << u, w, l, q >>
    BY <1>1, <1>3, Zenon DEF SetIdProgram
  <2>2. /\ Len(program) = 6 /\ program[1] = p /\ program[2] = r /\ program[3] = u
        /\ program[4] = w /\ program[5] = l /\ program[6] = q
    <3> HIDE DEF program
    <3>1. QED
      BY <2>1
  <2>3. /\ Checked(c) = 2 /\ Checked(c) + 1 = 3 /\ Checked(c) + 2 = 4
        /\ Checked(c) + 3 = 5 /\ Checked(c) + 4 = 6
    BY <1>3 DEF Checked
  <2>4. Checked(c) \in {1, 2}
    BY <2>3
  <2>5. QED
    BY <1>1, <1>3, <2>2, <2>3, <2>4, Zenon
<1>4. QED
  BY <1>2, <1>3

LEMMA RestoreProgramIs ==
  ASSUME NEW c
  PROVE  /\ Len(RestoreProgram(c)) = 6
         /\ RestoreProgram(c)[1] = Ping(c.id, TRUE)
         /\ RestoreProgram(c)[2] = Unlock(c.id)
         /\ RestoreProgram(c)[3] = Write(c.id, RestoreHead(c), "ignore")
         /\ RestoreProgram(c)[4] = Write(c.id, Set("TAIL", Image), "ignore")
         /\ RestoreProgram(c)[5] = Write(c.id, Set("TORQUE", c.torque), "ignore")
         /\ RestoreProgram(c)[6] = Lock(c.id)
BY DEF RestoreProgram

LEMMA FactoryResetProgramIs ==
  ASSUME NEW c
  PROVE  /\ Len(FactoryResetProgram(c)) = (IF c.id = FactoryId THEN 2 ELSE 5)
         /\ FactoryResetProgram(c)[1] = Ping(c.id, TRUE)
         /\ FactoryResetProgram(c)[2] = Reset(c.id)
         /\ c.id # FactoryId =>
              /\ FactoryResetProgram(c)[3] = Unlock(FactoryId)
              /\ FactoryResetProgram(c)[4] = Write(FactoryId, Set("ID", c.id), "ignore")
              /\ FactoryResetProgram(c)[5] = Lock(c.id)
<1>1. \A a, b, d, e, f :
        /\ Len(<< a, b >> \o << >>) = 2 /\ (<< a, b >> \o << >>)[1] = a /\ (<< a, b >> \o << >>)[2] = b
        /\ Len(<< a, b >> \o << d, e, f >>) = 5
        /\ (<< a, b >> \o << d, e, f >>)[1] = a /\ (<< a, b >> \o << d, e, f >>)[2] = b
        /\ (<< a, b >> \o << d, e, f >>)[3] = d /\ (<< a, b >> \o << d, e, f >>)[4] = e
        /\ (<< a, b >> \o << d, e, f >>)[5] = f
  OBVIOUS
<1>2. CASE c.id = FactoryId
  <2>1. FactoryResetProgram(c) = << Ping(c.id, TRUE), Reset(c.id) >> \o << >>
    BY <1>2 DEF FactoryResetProgram
  <2>2. QED
    BY <1>1, <1>2, <2>1
<1>3. CASE c.id # FactoryId
  <2>1. FactoryResetProgram(c) = << Ping(c.id, TRUE), Reset(c.id) >>
          \o << Unlock(FactoryId), Write(FactoryId, Set("ID", c.id), "ignore"), Lock(c.id) >>
    BY <1>3 DEF FactoryResetProgram
  <2>2. QED
    BY <1>1, <1>3, <2>1
<1>4. QED
  BY <1>2, <1>3

-----------------------------------------------------------------------------
(* Part 6: what an e-stop and a set_id answer, whatever the faults.        *)

(* Behind the next packet of an e-stop, torque is off wherever the packet  *)
(* was sent and arrived; an e-stop that is still to answer ok has sent all *)
(* of them.                                                                *)
EstopInv ==
  /\ hpc \notin Sending => lost = {} /\ unsent = {}
  /\ hpc \in Sending /\ cmd.op = "emergency_stop" =>
       /\ ok => unsent = {}
       /\ \A i \in 1..(step - 1) \ (lost \cup unsent) : \A s \in Servo :
            reg[s]["ID"] = servo_ids[i] => reg[s]["TORQUE"] = 0

LEMMA EstopPacket ==
  ASSUME TypeOK, cmd.op = "emergency_stop", step # Len(Program) + 1
  PROVE  /\ step \in 1..Len(servo_ids)
         /\ Program[step] = Write(servo_ids[step], Set("TORQUE", 0), "note")
<1>1. servo_ids \in Seq(Id)
  BY DEF TypeOK
<1>2. Program = EstopProgram(servo_ids)
  BY ProgramIs DEF Program
<1>3. step \in 1..Len(servo_ids)
  BY <1>1, <1>2, EstopProgramIs DEF TypeOK
<1>4. QED
  BY <1>1, <1>2, <1>3, EstopProgramIs

LEMMA EstopSends ==
  ASSUME TypeOK, EstopInv, hpc \in Sending, cmd.op = "emergency_stop", Transmit
  PROVE  EstopInv'
<1>1. UNCHANGED << servo_ids, cmd, hpc, unsent >> /\ step # Len(Program) + 1
  BY TransmitIs
<1>2. step \in 1..Len(servo_ids) /\ Program[step] = Write(servo_ids[step], Set("TORQUE", 0), "note")
  BY <1>1, EstopPacket
<1>3. /\ Program[step].kind = "write" /\ Program[step].to = servo_ids[step]
      /\ DOMAIN Program[step].write = {"TORQUE"} /\ Program[step].write["TORQUE"] = 0
  BY <1>2, WriteIs DEF Set
<1>4. PICK reached : /\ reg' = Effect(Program[step], reached)
                     /\ lost' = IF reached # Heard(Program[step].to)
                                THEN lost \cup {step} ELSE lost
  BY TransmitIs
<1>5. step' = step + 1 /\ ok' = ok /\ step \in Nat
  BY <1>2, <1>3, TransmitIs DEF GoOn
<1>6. \A s \in Servo : /\ reg'[s]["ID"] = reg[s]["ID"]
                       /\ step \notin lost' /\ reg[s]["ID"] = servo_ids[step] => reg'[s]["TORQUE"] = 0
                       /\ reg[s]["TORQUE"] = 0 => reg'[s]["TORQUE"] = 0
  <2> TAKE s \in Servo
  <2>1. CASE s \in reached
    BY <1>3, <1>4, <2>1, EffectWrite DEF Eeprom
  <2>2. CASE s \notin reached
    <3>1. reg'[s] = reg[s]
      BY <1>4, <2>2, EffectNone
    <3>2. step \notin lost' => reached = Heard(servo_ids[step])
      BY <1>3, <1>4
    <3>3. step \notin lost' => reg[s]["ID"] # servo_ids[step]
      BY <2>2, <3>2 DEF Heard
    <3>4. QED
      BY <3>1, <3>3
  <2>3. QED
    BY <2>1, <2>2
<1>7. ASSUME NEW i \in 1..(step' - 1) \ (lost' \cup unsent'), NEW s \in Servo,
             reg'[s]["ID"] = servo_ids'[i]
      PROVE  reg'[s]["TORQUE"] = 0
  <2>1. CASE i = step
    BY <1>1, <1>6, <1>7, <2>1
  <2>2. CASE i # step
    <3>1. i \in 1..(step - 1) \ (lost \cup unsent)
      BY <1>1, <1>4, <1>5, <1>7, <2>2
    <3>2. QED
      BY <1>1, <1>6, <1>7, <3>1 DEF EstopInv
  <2>3. QED
    BY <2>1, <2>2
<1>8. ok' => unsent' = {}
  BY <1>1, <1>5 DEF EstopInv
<1>9. QED
  BY <1>1, <1>7, <1>8 DEF EstopInv

LEMMA EstopMisses ==
  ASSUME TypeOK, EstopInv, hpc \in Sending, cmd.op = "emergency_stop", SendFails
  PROVE  EstopInv'
<1>1. UNCHANGED << reg, servo_ids, cmd, hpc, lost >> /\ step # Len(Program) + 1
  BY SendFailsIs
<1>2. step \in 1..Len(servo_ids) /\ Program[step] = Write(servo_ids[step], Set("TORQUE", 0), "note")
  BY <1>1, EstopPacket
<1>3. Program[step].want /\ Program[step].onfail = "note"
  BY <1>2, WriteIs
<1>4. Note
  BY <1>3, SendFailsIs, FailsIs
<1>5. ok' = FALSE /\ step' = step + 1 /\ step \in Nat /\ unsent' = unsent \cup {step}
  <2>1. ok' = FALSE
    BY <1>4, Zenon DEF Note
  <2>2. QED
    BY <1>2, <1>4, <2>1, SendFailsIs DEF Note
<1>6. 1..(step' - 1) \ (lost' \cup unsent') \subseteq 1..(step - 1) \ (lost \cup unsent)
  BY <1>1, <1>5
<1>7. QED
  BY <1>1, <1>5, <1>6 DEF EstopInv

LEMMA EstopStep ==
  ASSUME TypeOK, CommandInv, EstopInv, [Next]_vars
  PROVE  EstopInv'
<1>1. CASE hpc' \notin Sending
  BY <1>1, SilentSteps DEF EstopInv
<1>2. CASE hpc' \in Sending /\ cmd'.op # "emergency_stop"
  BY <1>2 DEF EstopInv
<1>3. CASE hpc' \in Sending /\ cmd'.op = "emergency_stop"
  <2>1. CASE hpc = "lock" /\ step = 1 /\ UNCHANGED << step, lost, unsent >>
    BY <1>3, <2>1 DEF EstopInv, Sending
  <2>2. CASE hpc \in Sending /\ (Transmit \/ SendFails)
    <3>1. cmd' = cmd
      BY <2>2, TransmitIs, SendFailsIs
    <3>2. QED
      BY <1>3, <2>2, <3>1, EstopSends, EstopMisses
  <2>3. CASE hpc \in Sending /\ UNCHANGED << reg, servo_ids, hpc, cmd, step, ok, lost, unsent >>
    BY <1>3, <2>3 DEF EstopInv
  <2>4. QED
    BY <1>3, <2>1, <2>2, <2>3, SendSteps
<1>4. QED
  BY <1>1, <1>2, <1>3

(* An e-stop takes the torque from every servo the node knows but those    *)
(* whose own packet was not sent or did not arrive, with the mutex or      *)
(* without, and answers ok only if every packet was sent.                  *)
THEOREM EstopIsTruthful == Spec => []EstopTruthful
<1>1. Init => EstopInv
  BY DEF Init, EstopInv, Sending
<1>2. TypeOK /\ CommandInv /\ EstopInv => EstopTruthful
  <2> SUFFICES ASSUME TypeOK, EstopInv, Finished("emergency_stop")
               PROVE  /\ ok => unsent = {}
                      /\ \A i \in 1..Len(servo_ids) \ (lost \cup unsent) : \A s \in Servo :
                           reg[s]["ID"] = servo_ids[i] => reg[s]["TORQUE"] = 0
    BY DEF EstopTruthful
  <2>1. hpc \in Sending /\ cmd.op = "emergency_stop" /\ step = Len(Program) + 1
    BY DEF Finished, Ended, Sending
  <2>2. Len(Program) = Len(servo_ids) /\ Len(servo_ids) \in Nat
    BY <2>1, ProgramIs, EstopProgramIs DEF Program, TypeOK
  <2>3. QED
    BY <2>1, <2>2 DEF EstopInv
<1>3. QED
  BY <1>1, <1>2, EstopStep, CommandInit, CommandStep, TypeCorrect, PTL DEF Spec

(* The last packet of a set_id asks the new address, and only an answer    *)
(* lets it end well.                                                       *)
SetIdInv ==
  hpc = "run" /\ cmd.op = "set_id" /\ ok /\ Ended =>
    \E s \in Servo : reg[s]["ID"] = cmd.new

LEMMA SetIdStep ==
  ASSUME TypeOK, CommandInv, SetIdInv, [Next]_vars
  PROVE  SetIdInv'
<1> SUFFICES ASSUME hpc' = "run", cmd'.op = "set_id", ok', Ended'
             PROVE  \E s \in Servo : reg'[s]["ID"] = cmd'.new
  BY DEF SetIdInv
<1>1. cmd' = cmd /\ servo_ids' = servo_ids /\ hpc \in {"lock", "run"}
  BY RunSteps, TransmitIs, SendFailsIs
<1>2. ok
  BY RunSteps, OkOnlyFalls
<1>3. ~Malformed(cmd)
  BY <1>1, <1>2 DEF CommandInv
<1>4. Program = SetIdProgram(cmd) /\ Program' = Program
  BY <1>1, <1>3, ProgramIs DEF Program
<1>5. Len(Program) = Checked(cmd) + 4 /\ Program[Checked(cmd) + 4] = Ping(cmd.new, TRUE)
      /\ Checked(cmd) \in {1, 2}
  BY <1>4, SetIdProgramIs
<1>6. step' = Len(Program) + 1
  BY <1>4 DEF Ended
<1>7. CASE hpc = "lock" /\ step = 1 /\ step' = step
  BY <1>5, <1>6, <1>7
<1>8. CASE hpc = "run" /\ UNCHANGED << reg, servo_ids, cmd, step, ok >>
  BY <1>1, <1>2, <1>4, <1>6, <1>8 DEF SetIdInv, Ended
<1>9. CASE hpc = "run" /\ (Transmit \/ SendFails)
  <2>1. ~GiveUp /\ ~Note
    BY <1>1 DEF GiveUp, Note
  <2>2. GoOn
    BY <1>9, <2>1, TransmitIs, SendFailsIs, FailsIs
  <2>3. step = Checked(cmd) + 4
    BY <1>5, <1>6, <2>2 DEF GoOn, TypeOK
  <2>4. /\ Program[step].kind = "ping" /\ Program[step].to = cmd.new
        /\ Program[step].want = TRUE /\ Program[step].onfail = "stop"
    <3>1. Program[step] = Ping(cmd.new, TRUE)
      BY <1>5, <2>3
    <3>2. QED
      BY <3>1 DEF Ping
  <2>5. ~Fails(Program[step])
    BY <2>1, <2>4, FailsIs
  <2>6. Transmit /\ TRUE \in Answers(cmd.new, "httpd")
    BY <1>9, <2>4, <2>5, TransmitIs, SendFailsIs
  <2>7. \E s \in Servo : reg[s]["ID"] = cmd.new
    BY <2>6 DEF Answers, MayAnswer
  <2>8. \A s \in Servo : reg'[s] = reg[s]
    BY <2>4, <2>6, TransmitIs, EffectNone
  <2>9. QED
    BY <1>1, <2>7, <2>8
<1>10. QED
  BY <1>7, <1>8, <1>9, RunSteps

(* When set_id answers ok, a servo has the new address.                    *)
THEOREM SetIdIsAnswered == Spec => []SetIdAnswered
<1>1. Init => SetIdInv
  BY DEF Init, SetIdInv
<1>2. CommandInv /\ SetIdInv => SetIdAnswered
  BY DEF CommandInv, SetIdInv, SetIdAnswered, Finished
<1>3. QED
  BY <1>1, <1>2, SetIdStep, CommandInit, CommandStep, TypeCorrect, PTL DEF Spec

-----------------------------------------------------------------------------
(* Part 7: a quiet bus.  What follows is true of a bus that loses nothing  *)
(* and of a node that is not restarted in the middle of a command, of all  *)
(* the commands there are.                                                 *)

QuietBus == Faults \subseteq {"timeout", "notask"}

(* No command that changes addresses.                                      *)
KeepsAddresses(c) ==
  /\ c.op \notin {"set_id", "factory_reset"}
  /\ c.op = "write_reg" => "ID" \notin DOMAIN c.write
  /\ c.op = "restore" => ~c.include_id

Eeproms == {"set_id", "restore", "write_reg", "factory_reset"}

Hears(s, id) == id = Broadcast \/ reg[s]["ID"] = id

Plain(p) == p.kind \in {"ping", "read"} \/ (p.kind = "write" /\ DOMAIN p.write \subseteq {"TORQUE"})

LEMMA PacketsPlain ==
  ASSUME NEW id, NEW v, NEW p
  PROVE  /\ p = Ping(id, TRUE) => Plain(p)
         /\ p = Ping(id, FALSE) => Plain(p)
         /\ p = Read(id) => Plain(p)
         /\ p = Write(id, Nothing, "note") => Plain(p)
         /\ p = Write(id, Set("TORQUE", v), "note") => Plain(p)
         /\ p = Write(id, Set("TORQUE", v), "ignore") => Plain(p)
BY DEF Ping, Read, Write, Nothing, Set, Plain

(* Every command but four leaves the EEPROM and its lock alone.            *)
LEMMA ProgramPlain ==
  ASSUME NEW c \in Command, NEW known \in Seq(Id), c.op \notin Eeproms,
         NEW i \in 1..Len(ProgramOf(c, known))
  PROVE  Plain(ProgramOf(c, known)[i])
<1> USE PacketsPlain
<1> DEFINE p == ProgramOf(c, known)[i]
<1>1. CASE c.op \in {"malformed", "scan"}
  <2>1. ProgramOf(c, known) = << >>
    BY <1>1, ProgramIs
  <2>2. QED
    BY <2>1
<1>2. CASE c.op = "emergency_stop"
  <2>1. ProgramOf(c, known) = EstopProgram(known)
    BY <1>2, ProgramIs
  <2>2. p = Write(known[i], Set("TORQUE", 0), "note")
    BY <2>1, EstopProgramIs
  <2>3. QED
    BY <2>2
<1>3. CASE c.op = "get_state"
  <2>1. ProgramOf(c, known) = GetStateProgram(known)
    BY <1>3, ProgramIs
  <2>2. p = Read(known[i])
    BY <2>1 DEF GetStateProgram
  <2>3. QED
    BY <2>2
<1>4. CASE c.op = "health"
  <2>1. ProgramOf(c, known) = HealthProgram(known)
    BY <1>4, ProgramIs
  <2>2. p = Ping(known[1], TRUE)
    <3>1. CASE known = << >>
      BY <2>1, <3>1 DEF HealthProgram
    <3>2. CASE known # << >>
      <4>1. HealthProgram(known) = << Ping(known[1], TRUE) >>
        BY <3>2 DEF HealthProgram
      <4>2. i = 1
        BY <2>1, <4>1
      <4>3. QED
        BY <2>1, <4>1, <4>2
    <3>3. QED
      BY <3>1, <3>2
  <2>3. QED
    BY <2>2
<1>5. CASE c.op = "move"
  <2>1. ProgramOf(c, known) = MoveProgram(c)
    BY <1>5, ProgramIs
  <2>2. p = Write(c.id, Nothing, "note")
    BY <2>1 DEF MoveProgram
  <2>3. QED
    BY <2>2
<1>6. CASE c.op = "sync_move"
  <2>1. ProgramOf(c, known) = SyncMoveProgram
    BY <1>6, ProgramIs
  <2>2. p = Write(Broadcast, Nothing, "note")
    BY <2>1 DEF SyncMoveProgram
  <2>3. QED
    BY <2>2
<1>7. CASE c.op = "set_torque"
  <2>1. ProgramOf(c, known) = SetTorqueProgram(c)
    BY <1>7, ProgramIs
  <2>2. p = Write(c.id, Set("TORQUE", c.on), "note")
    BY <2>1 DEF SetTorqueProgram
  <2>3. QED
    BY <2>2
<1>8. CASE c.op = "read_reg"
  <2>1. ProgramOf(c, known) = ReadRegProgram(c)
    BY <1>8, ProgramIs
  <2>2. p = Read(c.id)
    BY <2>1 DEF ReadRegProgram
  <2>3. QED
    BY <2>2
<1>9. CASE c.op = "backup"
  <2>1. ProgramOf(c, known) = BackupProgram(c)
    BY <1>9, ProgramIs
  <2>2. p = Ping(c.id, TRUE) \/ p = Read(c.id)
    <3>1. i \in {1, 2, 3}
      BY <2>1 DEF BackupProgram
    <3>2. /\ BackupProgram(c)[1] = Ping(c.id, TRUE)
          /\ BackupProgram(c)[2] = Read(c.id) /\ BackupProgram(c)[3] = Read(c.id)
      BY DEF BackupProgram
    <3>3. QED
      BY <2>1, <3>1, <3>2
  <2>3. QED
    BY <2>2
<1>10. QED
  BY <1>1, <1>2, <1>3, <1>4, <1>5, <1>6, <1>7, <1>8, <1>9 DEF Command, Eeproms

(* Such a packet changes the torque at most, whomever it reaches.          *)
LEMMA EffectPlain ==
  ASSUME NEW p, Plain(p), NEW reached, NEW s \in Servo
  PROVE  /\ Effect(p, reached)[s]["LOCK"] = reg[s]["LOCK"]
         /\ \A r \in Eeprom : Effect(p, reached)[s][r] = reg[s][r]
<1>1. CASE s \in reached /\ p.kind = "write"
  BY <1>1, EffectWrite DEF Plain, Eeprom
<1>2. CASE ~(s \in reached /\ p.kind = "write")
  BY <1>2, EffectNone DEF Plain
<1>3. QED
  BY <1>1, <1>2

LEMMA PlainStep ==
  ASSUME TypeOK, CommandInv, Transmit, cmd.op \notin Eeproms, NEW s \in Servo
  PROVE  reg'[s]["LOCK"] = reg[s]["LOCK"] /\ \A r \in Eeprom : reg'[s][r] = reg[s][r]
<1>1. step \in 1..Len(Program)
  BY TransmitIs, ProgramType DEF TypeOK, Program
<1>2. Plain(Program[step])
  BY <1>1, ProgramPlain DEF Program, TypeOK
<1>3. QED
  BY <1>2, EffectPlain, TransmitIs

(* With the mutex, on a quiet bus, a packet reaches whom it is sent to.    *)
LEMMA QuietReached ==
  ASSUME QuietBus, MutexInv, hpc = "run", NEW to, NEW reached \in Reached(to, "httpd")
  PROVE  reached = Heard(to)
<1>1. ~Noisy("httpd")
  BY DEF QuietBus, MutexInv, Noisy
<1>2. QED
  BY <1>1 DEF Reached

LEMMA SentWrite ==
  ASSUME QuietBus, MutexInv, hpc = "run", Transmit, Program[step].kind = "write"
  PROVE  /\ GoOn
         /\ \A s \in Servo :
              IF Hears(s, Program[step].to)
              THEN /\ reg'[s]["LOCK"] = IF "LOCK" \in DOMAIN Program[step].write
                                        THEN Program[step].write["LOCK"] ELSE reg[s]["LOCK"]
                   /\ \A r \in Eeprom : reg'[s][r] =
                        IF r \in DOMAIN Program[step].write /\ reg[s]["LOCK"] = 0
                        THEN Program[step].write[r] ELSE reg[s][r]
              ELSE reg'[s] = reg[s]
<1>1. reg' = Effect(Program[step], Heard(Program[step].to))
  BY TransmitIs, QuietReached
<1>2. GoOn
  BY TransmitIs
<1>3. \A s \in Servo : s \in Heard(Program[step].to) <=> Hears(s, Program[step].to)
  BY DEF Heard, Hears
<1>4. ASSUME NEW s \in Servo, Hears(s, Program[step].to)
      PROVE  /\ reg'[s]["LOCK"] = IF "LOCK" \in DOMAIN Program[step].write
                                  THEN Program[step].write["LOCK"] ELSE reg[s]["LOCK"]
             /\ \A r \in Eeprom : reg'[s][r] =
                  IF r \in DOMAIN Program[step].write /\ reg[s]["LOCK"] = 0
                  THEN Program[step].write[r] ELSE reg[s][r]
  <2>1. s \in Heard(Program[step].to)
    BY <1>3, <1>4
  <2>2. QED
    BY <1>1, <2>1, EffectWrite
<1>5. ASSUME NEW s \in Servo, ~Hears(s, Program[step].to)
      PROVE  reg'[s] = reg[s]
  BY <1>1, <1>3, <1>5, EffectNone
<1>6. QED
  BY <1>2, <1>4, <1>5

LEMMA SentPing ==
  ASSUME Transmit, Program[step].kind = "ping", Program[step].onfail = "stop"
  PROVE  /\ \A s \in Servo : reg'[s] = reg[s]
         /\ GiveUp \/ (GoOn /\ Program[step].want \in Answers(Program[step].to, "httpd"))
<1>1. \A s \in Servo : reg'[s] = reg[s]
  BY TransmitIs, EffectNone
<1>2. GiveUp \/ ~Fails(Program[step])
  BY FailsIs
<1>3. QED
  BY <1>1, <1>2, TransmitIs

(* Only the servos that listen to id have their EEPROM unlocked; none has. *)
(* This is of the servos that no command has lost track of.                *)
Tracked == Servo \ astray
Open(id) == \A s \in Tracked : reg[s]["LOCK"] = 0 => Hears(s, id)
LockedUp == \A s \in Tracked : reg[s]["LOCK"] = 1

(* A packet of a command that has the bus.                                 *)
QuietSend == QuietBus /\ TypeOK /\ MutexInv /\ CommandInv /\ hpc = "run" /\ Transmit

LEMMA QuietSendIs ==
  ASSUME QuietSend
  PROVE  /\ QuietBus /\ TypeOK /\ MutexInv /\ CommandInv /\ hpc = "run" /\ Transmit
         /\ UNCHANGED << servo_ids, hpc, cmd, idsBefore, clashed, astray >> /\ Program' = Program
         /\ Tracked' = Tracked /\ Tracked \subseteq Servo
         /\ step \in 1..Len(Program) /\ Program[step] \in Packet /\ Len(Program) \in Nat
         /\ \A s \in Servo : reg[s]["LOCK"] \in {0, 1} /\ reg'[s]["LOCK"] \in {0, 1}
         /\ cmd \in Command
<1>1. QuietBus /\ TypeOK /\ MutexInv /\ CommandInv /\ hpc = "run" /\ Transmit
  BY DEF QuietSend
<1>2. UNCHANGED << servo_ids, hpc, cmd, idsBefore, clashed, astray >>
  BY <1>1, TransmitIs
<1>3. Program' = Program /\ Tracked' = Tracked /\ Tracked \subseteq Servo
  BY <1>2 DEF Program, Tracked
<1>4. Program \in Seq(Packet)
  BY <1>1, ProgramType DEF TypeOK, Program
<1>5. step \in 1..Len(Program) /\ Program[step] \in Packet /\ Len(Program) \in Nat
  BY <1>1, <1>4, TransmitIs DEF TypeOK
<1>6. reg \in [Servo -> RegFile] /\ reg' \in [Servo -> RegFile]
  BY <1>1, <1>5, EffectType, TransmitIs DEF TypeOK
<1>7. \A f \in RegFile : f["LOCK"] \in {0, 1}
  BY ValuesAre DEF RegFile, Reg, Bit
<1>8. QED
  BY <1>1, <1>2, <1>3, <1>5, <1>6, <1>7 DEF TypeOK

LEMMA UnlockOpens ==
  ASSUME QuietSend, NEW id, Program[step] = Unlock(id), LockedUp
  PROVE  GoOn /\ Open(id)'
<1>1. /\ Program[step].kind = "write" /\ Program[step].to = id
      /\ DOMAIN Program[step].write = {"LOCK"}
  BY DEF Unlock, Write, Set
<1>2. QED
  BY <1>1, QuietSendIs, SentWrite DEF Open, LockedUp, Hears, Eeprom

LEMMA LockCloses ==
  ASSUME QuietSend, NEW id, Program[step] = Lock(id), Open(id)
  PROVE  GoOn /\ LockedUp'
<1>1. /\ Program[step].kind = "write" /\ Program[step].to = id
      /\ DOMAIN Program[step].write = {"LOCK"} /\ Program[step].write["LOCK"] = 1
  BY LocksAre
<1>2. QED
  BY <1>1, QuietSendIs, SentWrite DEF Open, LockedUp

LEMMA ReaddressMoves ==
  ASSUME QuietSend, NEW id, NEW new, NEW f, Program[step] = Write(id, Set("ID", new), f), Open(id)
  PROVE  GoOn /\ Open(new)'
<1>1. /\ Program[step].kind = "write" /\ Program[step].to = id
      /\ DOMAIN Program[step].write = {"ID"} /\ Program[step].write["ID"] = new
  BY WriteIs DEF Set
<1>2. QED
  BY <1>1, QuietSendIs, SentWrite DEF Open, Hears, Eeprom

LEMMA WriteKeepsOpen ==
  ASSUME QuietSend, NEW id, Program[step].kind = "write", Program[step].to = id, Open(id),
         "ID" \in DOMAIN Program[step].write => Program[step].write["ID"] = id
  PROVE  GoOn /\ Open(id)'
BY QuietSendIs, SentWrite DEF Open, Hears, Eeprom

LEMMA PlainWriteKeepsLocks ==
  ASSUME QuietSend, Program[step].kind = "write", "LOCK" \notin DOMAIN Program[step].write, LockedUp
  PROVE  GoOn /\ LockedUp'
BY QuietSendIs, SentWrite DEF LockedUp

LEMMA PingKeepsLocks ==
  ASSUME QuietSend, NEW id, Program[step] = Ping(id, TRUE) \/ Program[step] = Ping(id, FALSE)
  PROVE  (GoOn \/ GiveUp) /\ (LockedUp => LockedUp') /\ \A s \in Servo : reg'[s] = reg[s]
<1>1. Program[step].kind = "ping" /\ Program[step].onfail = "stop"
  BY DEF Ping
<1>2. QED
  BY <1>1, QuietSendIs, SentPing DEF LockedUp

LEMMA ResetLocks ==
  ASSUME QuietSend, NEW id, Program[step] = Reset(id), LockedUp
  PROVE  GoOn /\ LockedUp'
<1>1. Program[step].kind = "reset"
  BY ResetIs
<1>2. reg \in [Servo -> RegFile]
  BY QuietSendIs DEF TypeOK
<1>3. PICK reached : reg' = Effect(Program[step], reached)
  BY QuietSendIs, TransmitIs
<1>4. \A s \in Tracked : reg'[s]["LOCK"] = 1
  BY <1>1, <1>2, <1>3, QuietSendIs, EffectReset, EffectNone DEF LockedUp
<1>5. QED
  BY <1>1, <1>4, QuietSendIs, TransmitIs DEF LockedUp

(* How far the lock of a command's servos is open at each of its steps.    *)
SetIdLocks ==
  /\ step \notin {Checked(cmd) + 2, Checked(cmd) + 3} => LockedUp
  /\ step = Checked(cmd) + 2 => Open(cmd.id)
  /\ step = Checked(cmd) + 3 => Open(cmd.new)

RestoreLocks ==
  /\ step \notin 3..6 => LockedUp
  /\ step \in 3..6 => Open(cmd.id)

FactoryResetLocks ==
  /\ step \notin {4, 5} => LockedUp
  /\ step = 4 => Open(FactoryId)
  /\ step = 5 => Open(cmd.id)

WriteRegLocks ==
  IF cmd.unlock /\ step \in {2, 3} THEN Open(cmd.id) ELSE LockedUp

(* A command that loses track of servos opens the lock of those only: up   *)
(* to its own change of ID or LOCK they are the ones it talks to, and      *)
(* behind it, it leaves the locks alone or closes them.                    *)
Strays(c) == IF c.op = "write_reg" /\ ~c.unlock THEN 1..1 ELSE 1..2

StrayLocks ==
  /\ LockedUp
  /\ step \in Strays(cmd) => Heard(cmd.id) \subseteq astray

LockInv ==
  IF hpc # "run" \/ cmd.op \notin Eeproms THEN LockedUp
  ELSE IF LosesTrack(cmd) THEN StrayLocks
  ELSE /\ cmd.op = "set_id" => SetIdLocks
       /\ cmd.op = "restore" => RestoreLocks
       /\ cmd.op = "factory_reset" => FactoryResetLocks
       /\ cmd.op = "write_reg" => WriteRegLocks

LEMMA SetIdKeepsLocks ==
  ASSUME QuietSend, cmd.op = "set_id", SetIdLocks
  PROVE  SetIdLocks'
<1>1. ~Malformed(cmd) /\ Program = SetIdProgram(cmd)
  <2>1. Malformed(cmd) => Program = << >>
    BY ProgramIs DEF Program
  <2>2. step \in 1..Len(Program)
    BY QuietSendIs
  <2>3. ~Malformed(cmd)
    BY <2>1, <2>2
  <2>4. QED
    BY <2>3, ProgramIs DEF Program
<1>2. PICK k, id, new : k = Checked(cmd) /\ id = cmd.id /\ new = cmd.new
  OBVIOUS
<1>3. /\ k \in {1, 2} /\ Len(Program) = k + 4 /\ Program[1] = Ping(id, TRUE)
      /\ k = 2 => Program[2] = Ping(new, FALSE)
      /\ Program[k + 1] = Unlock(id) /\ Program[k + 2] = Write(id, Set("ID", new), "note")
      /\ Program[k + 3] = Lock(new) /\ Program[k + 4] = Ping(new, TRUE)
  <2>1. k = 2 => id # new
    BY <1>2 DEF Checked
  <2>2. QED
    BY <1>1, <1>2, <2>1, SetIdProgramIs
<1>4. Checked(cmd)' = k /\ cmd'.id = id /\ cmd'.new = new /\ step \in 1..(k + 4)
  BY <1>2, <1>3, QuietSendIs
<1>5. CASE step \in 1..k \/ step = k + 4
  <2>1. PICK a : Program[step] = Ping(a, TRUE) \/ Program[step] = Ping(a, FALSE)
    <3>1. step = 1 \/ (step = 2 /\ k = 2) \/ step = k + 4
      BY <1>3, <1>5
    <3>2. QED
      BY <1>3, <3>1, Zenon
  <2>2. LockedUp
    BY <1>2, <1>3, <1>5 DEF SetIdLocks
  <2>3. LockedUp' /\ (GoOn \/ GiveUp)
    BY <2>1, <2>2, PingKeepsLocks
  <2>4. step' \in {step + 1, k + 5}
    BY <1>3, <2>3 DEF GoOn, GiveUp
  <2>5. step' \notin {k + 2, k + 3}
    BY <1>3, <1>5, <2>4
  <2>6. QED
    BY <1>4, <2>3, <2>5 DEF SetIdLocks
<1>6. CASE step = k + 1
  <2>1. LockedUp
    BY <1>2, <1>3, <1>6 DEF SetIdLocks
  <2>2. GoOn /\ Open(id)'
    BY <1>3, <1>6, <2>1, UnlockOpens
  <2>3. step' = k + 2
    BY <1>3, <1>6, <2>2 DEF GoOn
  <2>4. QED
    BY <1>3, <1>4, <2>2, <2>3 DEF SetIdLocks, Open, Hears
<1>7. CASE step = k + 2
  <2>1. Open(id)
    BY <1>2, <1>7 DEF SetIdLocks
  <2>2. GoOn /\ Open(new)'
    BY <1>3, <1>7, <2>1, ReaddressMoves
  <2>3. step' = k + 3
    BY <1>3, <1>7, <2>2 DEF GoOn
  <2>4. QED
    BY <1>3, <1>4, <2>2, <2>3 DEF SetIdLocks, Open, Hears
<1>8. CASE step = k + 3
  <2>1. Open(new)
    BY <1>2, <1>8 DEF SetIdLocks
  <2>2. GoOn /\ LockedUp'
    BY <1>3, <1>8, <2>1, LockCloses
  <2>3. step' = k + 4
    BY <1>3, <1>8, <2>2 DEF GoOn
  <2>4. QED
    BY <1>3, <1>4, <2>2, <2>3 DEF SetIdLocks
<1>9. QED
  BY <1>3, <1>4, <1>5, <1>6, <1>7, <1>8

LEMMA RestoreKeepsLocks ==
  ASSUME QuietSend, ~LosesTrack(cmd), cmd.op = "restore", RestoreLocks
  PROVE  RestoreLocks'
<1>1. PICK id : id = cmd.id
  OBVIOUS
<1>2. Program = RestoreProgram(cmd)
  BY ProgramIs DEF Program
<1>3. /\ Len(Program) = 6 /\ Program[1] = Ping(id, TRUE) /\ Program[2] = Unlock(id)
      /\ Program[3] = Write(id, RestoreHead(cmd), "ignore")
      /\ Program[4] = Write(id, Set("TAIL", Image), "ignore")
      /\ Program[5] = Write(id, Set("TORQUE", cmd.torque), "ignore")
      /\ Program[6] = Lock(id)
  BY <1>1, <1>2, RestoreProgramIs
<1>4. cmd'.id = id /\ step \in 1..6
  BY <1>1, <1>3, QuietSendIs
<1>5. CASE step = 1
  <2>1. LockedUp
    BY <1>5 DEF RestoreLocks
  <2>2. LockedUp' /\ (GoOn \/ GiveUp)
    BY <1>3, <1>5, <2>1, PingKeepsLocks
  <2>3. step' \in {2, 7}
    BY <1>3, <1>5, <2>2 DEF GoOn, GiveUp
  <2>4. QED
    BY <2>2, <2>3 DEF RestoreLocks
<1>6. CASE step = 2
  <2>1. LockedUp
    BY <1>6 DEF RestoreLocks
  <2>2. GoOn /\ Open(id)'
    BY <1>3, <1>6, <2>1, UnlockOpens
  <2>3. step' = 3
    BY <1>6, <2>2 DEF GoOn
  <2>4. QED
    BY <1>4, <2>2, <2>3 DEF RestoreLocks, Open, Hears
<1>7. CASE step \in {3, 4, 5}
  <2>1. Open(id)
    BY <1>1, <1>7 DEF RestoreLocks
  <2>2. /\ Program[step].kind = "write" /\ Program[step].to = id
        /\ "ID" \in DOMAIN Program[step].write => Program[step].write["ID"] = id
    <3>1. CASE step = 3
      BY <1>1, <1>3, <3>1, RestoreHeadIs DEF Write, LosesTrack
    <3>2. CASE step = 4
      BY <1>3, <3>2 DEF Write, Set
    <3>3. CASE step = 5
      BY <1>3, <3>3 DEF Write, Set
    <3>4. QED
      BY <1>7, <3>1, <3>2, <3>3
  <2>3. GoOn /\ Open(id)'
    BY <2>1, <2>2, WriteKeepsOpen
  <2>4. step' \in {4, 5, 6}
    BY <1>7, <2>3 DEF GoOn
  <2>5. QED
    BY <1>4, <2>3, <2>4 DEF RestoreLocks, Open, Hears
<1>8. CASE step = 6
  <2>1. Open(id)
    BY <1>1, <1>8 DEF RestoreLocks
  <2>2. GoOn /\ LockedUp'
    BY <1>3, <1>8, <2>1, LockCloses
  <2>3. step' = 7
    BY <1>8, <2>2 DEF GoOn
  <2>4. QED
    BY <2>2, <2>3 DEF RestoreLocks
<1>9. QED
  BY <1>4, <1>5, <1>6, <1>7, <1>8

LEMMA FactoryResetKeepsLocks ==
  ASSUME QuietSend, cmd.op = "factory_reset", FactoryResetLocks
  PROVE  FactoryResetLocks'
<1>1. PICK id : id = cmd.id
  OBVIOUS
<1>2. Program = FactoryResetProgram(cmd)
  BY ProgramIs DEF Program
<1>3. /\ Len(Program) = (IF id = FactoryId THEN 2 ELSE 5)
      /\ Program[1] = Ping(id, TRUE) /\ Program[2] = Reset(id)
      /\ id # FactoryId =>
           /\ Program[3] = Unlock(FactoryId)
           /\ Program[4] = Write(FactoryId, Set("ID", id), "ignore")
           /\ Program[5] = Lock(id)
  BY <1>1, <1>2, FactoryResetProgramIs
<1>4. cmd'.id = id /\ step \in 1..5 /\ (step > 2 => id # FactoryId)
  BY <1>1, <1>3, QuietSendIs
<1>5. CASE step = 1
  <2>1. LockedUp
    BY <1>5 DEF FactoryResetLocks
  <2>2. LockedUp' /\ (GoOn \/ GiveUp)
    BY <1>3, <1>5, <2>1, PingKeepsLocks
  <2>3. step' \in {2, 3, 6}
    BY <1>3, <1>5, <2>2 DEF GoOn, GiveUp
  <2>4. QED
    BY <2>2, <2>3 DEF FactoryResetLocks
<1>6. CASE step = 2
  <2>1. LockedUp
    BY <1>6 DEF FactoryResetLocks
  <2>2. GoOn /\ LockedUp'
    BY <1>3, <1>6, <2>1, ResetLocks
  <2>3. step' = 3
    BY <1>6, <2>2 DEF GoOn
  <2>4. QED
    BY <2>2, <2>3 DEF FactoryResetLocks
<1>7. CASE step = 3
  <2>1. LockedUp
    BY <1>7 DEF FactoryResetLocks
  <2>2. GoOn /\ Open(FactoryId)'
    BY <1>3, <1>4, <1>7, <2>1, UnlockOpens
  <2>3. step' = 4
    BY <1>7, <2>2 DEF GoOn
  <2>4. QED
    BY <2>2, <2>3 DEF FactoryResetLocks
<1>8. CASE step = 4
  <2>1. Open(FactoryId)
    BY <1>8 DEF FactoryResetLocks
  <2>2. GoOn /\ Open(id)'
    BY <1>3, <1>4, <1>8, <2>1, ReaddressMoves
  <2>3. step' = 5
    BY <1>8, <2>2 DEF GoOn
  <2>4. QED
    BY <1>4, <2>2, <2>3 DEF FactoryResetLocks, Open, Hears
<1>9. CASE step = 5
  <2>1. Open(id)
    BY <1>1, <1>9 DEF FactoryResetLocks
  <2>2. GoOn /\ LockedUp'
    BY <1>3, <1>4, <1>9, <2>1, LockCloses
  <2>3. step' = 6
    BY <1>9, <2>2 DEF GoOn
  <2>4. QED
    BY <2>2, <2>3 DEF FactoryResetLocks
<1>10. QED
  BY <1>4, <1>5, <1>6, <1>7, <1>8, <1>9

LEMMA WriteRegKeepsLocks ==
  ASSUME QuietSend, ~LosesTrack(cmd), cmd.op = "write_reg", WriteRegLocks
  PROVE  WriteRegLocks'
<1>1. PICK id : id = cmd.id
  OBVIOUS
<1>2. Program = WriteRegProgram(cmd)
  BY ProgramIs DEF Program
<1>3. cmd' = cmd /\ step \in 1..Len(Program)
  BY QuietSendIs
<1>4. CASE ~cmd.unlock
  <2>1. /\ step = 1 /\ Program[step].kind = "write" /\ Program[step].write = cmd.write
    <3>1. Program = << Write(cmd.id, cmd.write, "note") >>
      BY <1>2, <1>4 DEF WriteRegProgram
    <3>2. step = 1
      BY <1>3, <3>1
    <3>3. QED
      BY <3>1, <3>2 DEF Write
  <2>2. LockedUp'
    BY <1>4, <2>1, PlainWriteKeepsLocks DEF WriteRegLocks, LosesTrack
  <2>3. QED
    BY <1>3, <1>4, <2>2 DEF WriteRegLocks
<1>5. CASE cmd.unlock
  <2>1. /\ step \in {1, 2, 3} /\ Program[1] = Unlock(id)
        /\ Program[2] = Write(id, cmd.write, "note") /\ Program[3] = Lock(id)
    <3>1. Program = << Unlock(id), Write(id, cmd.write, "note"), Lock(id) >>
      BY <1>1, <1>2, <1>5 DEF WriteRegProgram
    <3>2. QED
      BY <1>3, <3>1
  <2>2. CASE step = 1
    <3>1. LockedUp
      BY <2>2 DEF WriteRegLocks
    <3>2. GoOn /\ Open(id)'
      BY <2>1, <2>2, <3>1, UnlockOpens
    <3>3. step' = 2
      BY <2>2, <3>2 DEF GoOn
    <3>4. QED
      BY <1>1, <1>3, <1>5, <3>2, <3>3 DEF WriteRegLocks, Open, Hears
  <2>3. CASE step = 2
    <3>1. Open(id)
      BY <1>1, <1>5, <2>3 DEF WriteRegLocks
    <3>2. /\ Program[step].kind = "write" /\ Program[step].to = id
          /\ "ID" \in DOMAIN Program[step].write => Program[step].write["ID"] = id
      BY <1>1, <1>5, <2>1, <2>3 DEF Write, LosesTrack
    <3>3. GoOn /\ Open(id)'
      BY <3>1, <3>2, WriteKeepsOpen
    <3>4. step' = 3
      BY <2>3, <3>3 DEF GoOn
    <3>5. QED
      BY <1>1, <1>3, <1>5, <3>3, <3>4 DEF WriteRegLocks, Open, Hears
  <2>4. CASE step = 3
    <3>1. Open(id)
      BY <1>1, <1>5, <2>4 DEF WriteRegLocks
    <3>2. GoOn /\ LockedUp'
      BY <2>1, <2>4, <3>1, LockCloses
    <3>3. step' = 4
      BY <2>4, <3>2 DEF GoOn
    <3>4. QED
      BY <3>2, <3>3 DEF WriteRegLocks
  <2>5. QED
    BY <2>1, <2>2, <2>3, <2>4
<1>6. QED
  BY <1>4, <1>5

LEMMA StrayWrite ==
  ASSUME QuietSend, LockedUp, Heard(cmd.id) \subseteq astray,
         Program[step].kind = "write", Program[step].to = cmd.id
  PROVE  /\ GoOn /\ LockedUp'
         /\ "ID" \notin DOMAIN Program[step].write => Heard(cmd.id)' \subseteq astray'
<1>1. \A s \in Servo : Hears(s, cmd.id) => s \notin Tracked
  BY DEF Heard, Hears, Tracked
<1>2. GoOn /\ LockedUp'
  BY <1>1, QuietSendIs, SentWrite DEF LockedUp
<1>3. ASSUME "ID" \notin DOMAIN Program[step].write
      PROVE  Heard(cmd.id)' \subseteq astray'
  <2>1. \A s \in Servo : reg'[s]["ID"] = reg[s]["ID"]
    BY <1>3, QuietSendIs, SentWrite DEF Eeprom
  <2>2. QED
    BY <2>1, QuietSendIs DEF Heard
<1>4. QED
  BY <1>2, <1>3

LEMMA StrayRestore ==
  ASSUME QuietSend, cmd.op = "restore", StrayLocks
  PROVE  StrayLocks'
<1>1. PICK id : id = cmd.id
  OBVIOUS
<1>2. Program = RestoreProgram(cmd)
  BY ProgramIs DEF Program
<1>3. /\ Len(Program) = 6 /\ Program[1] = Ping(id, TRUE) /\ Program[2] = Unlock(id)
      /\ Program[3] = Write(id, RestoreHead(cmd), "ignore")
      /\ Program[4] = Write(id, Set("TAIL", Image), "ignore")
      /\ Program[5] = Write(id, Set("TORQUE", cmd.torque), "ignore")
      /\ Program[6] = Lock(id)
  BY <1>1, <1>2, RestoreProgramIs
<1>4. /\ cmd' = cmd /\ step \in 1..6 /\ astray' = astray /\ Strays(cmd) = 1..2
      /\ LockedUp /\ (step \in 1..2 => Heard(cmd.id) \subseteq astray)
  BY <1>3, QuietSendIs DEF StrayLocks, Strays
<1>5. CASE step = 1
  <2>1. LockedUp' /\ \A s \in Servo : reg'[s] = reg[s]
    BY <1>3, <1>4, <1>5, PingKeepsLocks
  <2>2. Heard(cmd.id)' \subseteq astray'
    BY <1>4, <1>5, <2>1 DEF Heard
  <2>3. QED
    BY <2>1, <2>2 DEF StrayLocks
<1>6. CASE step = 2
  <2>1. Program[step].kind = "write" /\ Program[step].to = id
    BY <1>3, <1>6, LocksAre
  <2>2. GoOn /\ LockedUp'
    BY <1>1, <1>4, <1>6, <2>1, StrayWrite
  <2>3. step' = 3
    BY <1>6, <2>2 DEF GoOn
  <2>4. QED
    BY <1>4, <2>2, <2>3 DEF StrayLocks, Strays
<1>7. CASE step \in 3..5
  <2>1. Program[step].kind = "write" /\ "LOCK" \notin DOMAIN Program[step].write
    <3>1. CASE step = 3
      BY <1>3, <3>1, RestoreHeadIs DEF Write
    <3>2. CASE step \in {4, 5}
      BY <1>3, <3>2 DEF Write, Set
    <3>3. QED
      BY <1>7, <3>1, <3>2
  <2>2. GoOn /\ LockedUp'
    BY <1>4, <2>1, PlainWriteKeepsLocks
  <2>3. step' = step + 1
    BY <2>2 DEF GoOn
  <2>4. QED
    BY <1>4, <1>7, <2>2, <2>3 DEF StrayLocks, Strays
<1>8. CASE step = 6
  <2>1. Open(id)
    BY <1>4, QuietSendIs DEF Open, LockedUp
  <2>2. GoOn /\ LockedUp'
    BY <1>3, <1>8, <2>1, LockCloses
  <2>3. step' = 7
    BY <1>8, <2>2 DEF GoOn
  <2>4. QED
    BY <1>4, <2>2, <2>3 DEF StrayLocks, Strays
<1>9. QED
  BY <1>4, <1>5, <1>6, <1>7, <1>8

LEMMA StrayWriteReg ==
  ASSUME QuietSend, cmd.op = "write_reg", StrayLocks
  PROVE  StrayLocks'
<1>1. PICK id : id = cmd.id
  OBVIOUS
<1>2. Program = WriteRegProgram(cmd)
  BY ProgramIs DEF Program
<1>3. /\ cmd' = cmd /\ step \in 1..Len(Program) /\ astray' = astray /\ LockedUp
      /\ step \in Strays(cmd) => Heard(cmd.id) \subseteq astray
  BY QuietSendIs DEF StrayLocks
<1>4. CASE ~cmd.unlock
  <2>1. /\ step = 1 /\ Program[step] = Write(id, cmd.write, "note")
    <3>1. Program = << Write(cmd.id, cmd.write, "note") >>
      BY <1>2, <1>4 DEF WriteRegProgram
    <3>2. step = 1
      BY <1>3, <3>1
    <3>3. QED
      BY <1>1, <3>1, <3>2
  <2>2. Program[step].kind = "write" /\ Program[step].to = cmd.id /\ Strays(cmd) = 1..1
    BY <1>1, <1>4, <2>1, WriteIs DEF Strays
  <2>3. GoOn /\ LockedUp'
    BY <1>3, <2>1, <2>2, StrayWrite
  <2>4. step' = 2
    BY <2>1, <2>3 DEF GoOn
  <2>5. Strays(cmd)' = Strays(cmd) /\ step' \notin 1..1
    BY <1>3, <2>4 DEF Strays
  <2>6. QED
    BY <2>2, <2>3, <2>5 DEF StrayLocks
<1>5. CASE cmd.unlock
  <2>1. /\ step \in {1, 2, 3} /\ Program[1] = Unlock(id)
        /\ Program[2] = Write(id, cmd.write, "note") /\ Program[3] = Lock(id)
    <3>1. Program = << Unlock(id), Write(id, cmd.write, "note"), Lock(id) >>
      BY <1>1, <1>2, <1>5 DEF WriteRegProgram
    <3>2. QED
      BY <1>3, <3>1
  <2>2. Strays(cmd) = 1..2
    BY <1>5 DEF Strays
  <2>3. CASE step \in {1, 2}
    <3>1. /\ Program[step].kind = "write" /\ Program[step].to = cmd.id
          /\ step = 1 => "ID" \notin DOMAIN Program[step].write
      <4>1. CASE step = 1
        BY <1>1, <2>1, <4>1, LocksAre
      <4>2. CASE step = 2
        BY <1>1, <2>1, <4>2, WriteIs
      <4>3. QED
        BY <2>3, <4>1, <4>2
    <3>2. /\ GoOn /\ LockedUp'
          /\ step = 1 => Heard(cmd.id)' \subseteq astray'
      BY <1>3, <2>2, <2>3, <3>1, StrayWrite
    <3>3. step' = step + 1
      BY <3>2 DEF GoOn
    <3>4. QED
      BY <1>3, <2>2, <2>3, <3>2, <3>3 DEF StrayLocks, Strays
  <2>4. CASE step = 3
    <3>1. Open(id)
      BY <1>3, QuietSendIs DEF Open, LockedUp
    <3>2. GoOn /\ LockedUp'
      BY <2>1, <2>4, <3>1, LockCloses
    <3>3. step' = 4
      BY <2>4, <3>2 DEF GoOn
    <3>4. QED
      BY <1>3, <2>2, <3>2, <3>3 DEF StrayLocks, Strays
  <2>5. QED
    BY <2>1, <2>3, <2>4
<1>6. QED
  BY <1>4, <1>5

LEMMA LockInit == Init => LockInv
<1> SUFFICES ASSUME Init PROVE LockInv
  OBVIOUS
<1>1. \A id \in Id, on \in Bit : Commissioned(id, on)["LOCK"] = 1
  BY DEF Commissioned, Reg
<1>2. LockedUp
  BY <1>1 DEF Init, LockedUp, Tracked
<1>3. QED
  BY <1>2 DEF Init, LockInv

(* A command that has the bus goes on to its end, unless the node restarts.*)
LEMMA RunEnds ==
  ASSUME "reboot" \notin Faults, [Next]_vars, hpc = "run", hpc' # "run", ~Transmit, ~SendFails
  PROVE  Ended
<1>1. UNCHANGED hpc \/ Answer
  BY Zenon DEF Next, HttpdStep, Receive, EstopCheck, EstopAbort, BusLock, BusLockTimeout,
       ScanCommand, SpawnFails, Spawn, ScanStep, ScanCheck, ScanLock, ScanLockTimeout,
       ScanPing, ScanUnlock, ScanReport, ScanClearAbort, ScanFinish, Reboot, vars, httpdVars
<1>2. QED
  BY <1>1 DEF Answer

LEMMA EndedLocks ==
  ASSUME TypeOK, CommandInv, LockInv, hpc = "run", Ended, cmd.op \in Eeproms
  PROVE  LockedUp
<1> SUFFICES ASSUME ~LosesTrack(cmd) PROVE LockedUp
  BY DEF LockInv, StrayLocks
<1>1. step = Len(Program) + 1
  BY DEF Ended
<1>2. CASE cmd.op = "set_id"
  <2>1. CASE Malformed(cmd)
    <3>1. step = 1
      BY <1>1, <1>2, <2>1, ProgramIs DEF Program
    <3>2. QED
      BY <1>2, <3>1 DEF LockInv, SetIdLocks, Eeproms, Checked
  <2>2. CASE ~Malformed(cmd)
    <3>1. Program = SetIdProgram(cmd)
      BY <1>2, <2>2, ProgramIs DEF Program
    <3>2. Len(Program) = Checked(cmd) + 4 /\ Checked(cmd) \in {1, 2}
      BY <3>1, SetIdProgramIs
    <3>3. QED
      BY <1>1, <1>2, <3>2 DEF LockInv, SetIdLocks, Eeproms
  <2>3. QED
    BY <2>1, <2>2
<1>3. CASE cmd.op = "restore"
  <2>1. Program = RestoreProgram(cmd)
    BY <1>3, ProgramIs DEF Program
  <2>2. Len(Program) = 6
    BY <2>1, RestoreProgramIs
  <2>3. QED
    BY <1>1, <1>3, <2>2 DEF LockInv, RestoreLocks, Eeproms
<1>4. CASE cmd.op = "factory_reset"
  <2>1. Program = FactoryResetProgram(cmd)
    BY <1>4, ProgramIs DEF Program
  <2>2. Len(Program) \in {2, 5}
    BY <2>1, FactoryResetProgramIs
  <2>3. step \in {3, 6}
    <3>1. CASE Len(Program) = 2
      BY <1>1, <3>1
    <3>2. CASE Len(Program) = 5
      BY <1>1, <3>2
    <3>3. QED
      BY <2>2, <3>1, <3>2
  <2>4. QED
    BY <1>4, <2>3 DEF LockInv, FactoryResetLocks, Eeproms
<1>5. CASE cmd.op = "write_reg"
  <2>1. Program = WriteRegProgram(cmd)
    BY <1>5, ProgramIs DEF Program
  <2>2. cmd.unlock => step = 4
    BY <1>1, <2>1 DEF WriteRegProgram
  <2>3. QED
    BY <1>5, <2>2 DEF LockInv, WriteRegLocks, Eeproms
<1>6. QED
  BY <1>2, <1>3, <1>4, <1>5 DEF Eeproms

LEMMA LockedUpKept ==
  ASSUME LockedUp, [Next]_vars, reg' = reg
  PROVE  LockedUp'
BY HistorySteps DEF LockedUp, Tracked

LEMMA LockStep ==
  ASSUME QuietBus,
         TypeOK, MutexInv, CommandInv, LockInv, [Next]_vars
  PROVE  LockInv'
<1>1. CASE hpc = "run" /\ Transmit
  <2>1. QuietSend
    BY <1>1 DEF QuietSend
  <2>2. hpc' = hpc /\ cmd' = cmd /\ Tracked' = Tracked /\ Tracked \subseteq Servo
    BY <2>1, QuietSendIs
  <2>a. LosesTrack(cmd') <=> LosesTrack(cmd)
    BY <2>2
  <2>b. CASE cmd.op \in Eeproms /\ LosesTrack(cmd)
    <3>1. StrayLocks /\ cmd.op \in {"restore", "write_reg"}
      BY <1>1, <2>b DEF LockInv, LosesTrack
    <3>2. StrayLocks'
      BY <2>1, <3>1, StrayRestore, StrayWriteReg
    <3>3. LockedUp'
      BY <3>2 DEF StrayLocks
    <3>4. QED
      BY <1>1, <2>2, <2>a, <2>b, <3>2, <3>3 DEF LockInv
  <2>3. CASE cmd.op \in Eeproms /\ ~LosesTrack(cmd)
    BY <1>1, <2>1, <2>2, <2>a, <2>3, SetIdKeepsLocks, RestoreKeepsLocks, FactoryResetKeepsLocks,
       WriteRegKeepsLocks DEF LockInv, Eeproms
  <2>4. CASE cmd.op \notin Eeproms
    <3>1. LockedUp
      BY <2>4 DEF LockInv
    <3>2. LockedUp'
      BY <1>1, <2>2, <2>4, <3>1, PlainStep DEF LockedUp
    <3>3. QED
      BY <2>2, <2>4, <3>2 DEF LockInv
  <2>5. QED
    BY <2>b, <2>3, <2>4
<1>2. CASE hpc # "run" /\ Transmit
  <2>1. hpc = "forced" /\ hpc' = hpc /\ cmd.op = "emergency_stop" /\ astray' = astray
    BY <1>2, TransmitIs DEF CommandInv
  <2>2. LockedUp'
    BY <1>2, <2>1, PlainStep DEF LockedUp, LockInv, Eeproms, Tracked
  <2>3. QED
    BY <2>1, <2>2 DEF LockInv
<1>3. CASE ~Transmit /\ hpc' # "run"
  <2>1. reg' = reg
    BY <1>3, OthersKeepServos
  <2>2. LockedUp
    <3>1. CASE hpc = "run" /\ cmd.op \in Eeproms
      <4>1. ~SendFails
        BY SendFailsIs DEF QuietBus
      <4>2. Ended
        BY <1>3, <3>1, <4>1, RunEnds DEF QuietBus
      <4>3. QED
        BY <3>1, <4>2, EndedLocks
    <3>2. QED
      BY <3>1 DEF LockInv
  <2>3. QED
    BY <1>3, <2>1, <2>2, LockedUpKept DEF LockInv
<1>4. CASE ~Transmit /\ hpc' = "run"
  <2>1. ~SendFails
    BY SendFailsIs DEF QuietBus
  <2>2. /\ reg' = reg /\ cmd' = cmd /\ step' = step
        /\ \/ hpc = "run" /\ astray' = astray
           \/ /\ hpc = "lock" /\ step = 1
              /\ astray' = IF LosesTrack(cmd) THEN astray \cup Heard(cmd.id) ELSE astray
    BY <1>4, <2>1, RunSteps
  <2>a. /\ Heard(cmd.id)' = Heard(cmd.id) /\ Strays(cmd)' = Strays(cmd)
        /\ LosesTrack(cmd)' <=> LosesTrack(cmd)
        /\ \A s \in Servo : \A id : Hears(s, id)' <=> Hears(s, id)
    BY <2>2 DEF Heard, Hears, Strays, LosesTrack
  <2>3. CASE hpc = "run" /\ astray' = astray
    <3>1. \A id : Open(id) => Open(id)'
      BY <2>2, <2>3, <2>a DEF Open, Tracked
    <3>2. LockedUp => LockedUp'
      BY <2>2, <2>3 DEF LockedUp, Tracked
    <3>3. CASE LosesTrack(cmd) /\ cmd.op \in Eeproms
      <4>1. StrayLocks
        BY <2>3, <3>3 DEF LockInv
      <4>2. StrayLocks'
        BY <2>2, <2>3, <2>a, <3>2, <4>1 DEF StrayLocks
      <4>3. QED
        BY <2>a, <3>3, <4>2 DEF LockInv, StrayLocks
    <3>4. CASE ~LosesTrack(cmd) \/ cmd.op \notin Eeproms
      BY <1>4, <2>2, <2>3, <2>a, <3>1, <3>2, <3>4 DEF LockInv, SetIdLocks, RestoreLocks,
         FactoryResetLocks, WriteRegLocks, Checked
    <3>5. QED
      BY <3>3, <3>4
  <2>4. CASE hpc = "lock" /\ step = 1
             /\ astray' = IF LosesTrack(cmd) THEN astray \cup Heard(cmd.id) ELSE astray
    <3>1. LockedUp'
      BY <2>2, <2>4, LockedUpKept DEF LockInv
    <3>2. step' = 1
      BY <2>2, <2>4
    <3>3. LosesTrack(cmd)' => StrayLocks'
      BY <2>2, <2>4, <2>a, <3>1 DEF StrayLocks
    <3>4. QED
      BY <3>1, <3>2, <3>3 DEF LockInv, SetIdLocks, RestoreLocks, FactoryResetLocks, WriteRegLocks,
         Checked
  <2>5. QED
    BY <2>2, <2>3, <2>4
<1>5. QED
  BY <1>1, <1>2, <1>3, <1>4

(* Between commands no servo is left with its EEPROM unlocked, but those   *)
(* that a renaming restore or a raw write of ID or LOCK has lost track of. *)
THEOREM EepromIsRelocked ==
  ASSUME QuietBus
  PROVE  Spec => []EepromRelocked
<1>1. LockInv => EepromRelocked
  BY DEF LockInv, LockedUp, EepromRelocked, Tracked
<1>2. TypeOK /\ ControlInv /\ CommandInv /\ LockInv /\ [Next]_vars => LockInv'
  BY LockStep DEF ControlInv
<1>3. QED
  BY <1>1, <1>2, LockInit, CommandInit, CommandStep, ControlAlways, TypeCorrect, PTL DEF Spec

-----------------------------------------------------------------------------
(* Part 8: addresses.                                                      *)

Distinct == \A s, u \in Servo : reg[s]["ID"] = reg[u]["ID"] => s = u

(* Behind its pings a set_id is on an address that one servo can have, and *)
(* on its way to another address it has found that one free.               *)
SetIdClear ==
  hpc = "run" /\ cmd.op = "set_id" =>
    /\ step \in 2..(Checked(cmd) + 2) => cmd.id # Broadcast
    /\ step \in 3..(Checked(cmd) + 2) /\ cmd.id # cmd.new => \A s \in Servo : reg[s]["ID"] # cmd.new

(* A command that writes an address without asking has not written it yet, *)
(* and the address is as free as it was when the command took the bus.     *)
Unasking(c) == IF c.op = "restore" THEN 1..3 ELSE Strays(c)

Unclashed ==
  hpc = "run" /\ cmd.op \in {"restore", "factory_reset", "write_reg"} /\ step \in Unasking(cmd)
    => ~Clashes(cmd)

(* A factory reset has moved the servo away from the address to give back. *)
ResetClear ==
  hpc = "run" /\ cmd.op = "factory_reset" =>
    (step \in {3, 4} /\ cmd.id # FactoryId => \A s \in Servo : reg[s]["ID"] # cmd.id)

AddressInv == ~clashed => Distinct /\ SetIdClear /\ Unclashed /\ ResetClear

(* The answer to a ping, and the silence where one servo at most can be.   *)
LEMMA PingAnswered ==
  ASSUME NEW id, TRUE \in Answers(id, "httpd")
  PROVE  id # Broadcast
BY DEF Answers, MayAnswer

LEMMA PingSilent ==
  ASSUME QuietBus, MutexInv, hpc = "run", Distinct, NEW id, id # Broadcast,
         FALSE \in Answers(id, "httpd")
  PROVE  \A s \in Servo : reg[s]["ID"] # id
<1>1. ~Noisy("httpd")
  BY DEF QuietBus, MutexInv, Noisy
<1>2. ~Alone(id)
  BY <1>1 DEF Answers, MaySilence
<1>3. QED
  BY <1>2 DEF Alone, Distinct

LEMMA SentPingIs ==
  ASSUME QuietSend, NEW id, NEW b \in BOOLEAN, Program[step] = Ping(id, b)
  PROVE  /\ \A s \in Servo : reg'[s] = reg[s]
         /\ GiveUp \/ (GoOn /\ b \in Answers(id, "httpd"))
<1>1. /\ Program[step].kind = "ping" /\ Program[step].onfail = "stop" /\ Program[step].to = id
      /\ Program[step].want = b
  BY DEF Ping
<1>2. QED
  BY <1>1, QuietSendIs, SentPing

LEMMA IdsKept ==
  ASSUME Distinct, \A s \in Servo : reg'[s]["ID"] = reg[s]["ID"]
  PROVE  Distinct'
BY DEF Distinct

LEMMA SetIdKeepsDistinct ==
  ASSUME QuietSend, Distinct, SetIdClear, cmd.op = "set_id"
  PROVE  Distinct' /\ SetIdClear'
<1>1. ~Malformed(cmd) /\ Program = SetIdProgram(cmd)
  <2>1. Malformed(cmd) => Program = << >>
    BY ProgramIs DEF Program
  <2>2. step \in 1..Len(Program)
    BY QuietSendIs
  <2>3. ~Malformed(cmd)
    BY <2>1, <2>2
  <2>4. QED
    BY <2>3, ProgramIs DEF Program
<1>2. PICK k, id, new : k = Checked(cmd) /\ id = cmd.id /\ new = cmd.new
  OBVIOUS
<1>3. /\ k \in {1, 2} /\ Len(Program) = k + 4 /\ Program[1] = Ping(id, TRUE)
      /\ k = 2 => Program[2] = Ping(new, FALSE)
      /\ k = 2 <=> id # new
      /\ Program[k + 1] = Unlock(id) /\ Program[k + 2] = Write(id, Set("ID", new), "note")
      /\ Program[k + 3] = Lock(new) /\ Program[k + 4] = Ping(new, TRUE)
  <2>1. k = 2 <=> id # new
    BY <1>2 DEF Checked
  <2>2. QED
    BY <1>1, <1>2, <2>1, SetIdProgramIs
<1>4. /\ Checked(cmd)' = k /\ cmd'.id = id /\ cmd'.new = new /\ cmd'.op = "set_id" /\ hpc' = "run"
      /\ hpc = "run" /\ step \in 1..(k + 4)
  BY <1>2, <1>3, QuietSendIs
<1>5. new # Broadcast
  <2>1. new \in Addr /\ ~(new > MaxId)
    BY <1>1, <1>2, QuietSendIs DEF Command, Malformed
  <2>2. QED
    BY <2>1, ConstantsAssumption DEF Broadcast, Addr
<1> DEFINE clear == /\ step' \in 2..(k + 2) => id # Broadcast
                    /\ step' \in 3..(k + 2) /\ id # new => \A s \in Servo : reg'[s]["ID"] # new
<1>6. SUFFICES Distinct' /\ clear
  BY <1>4 DEF SetIdClear
<1>7. /\ step \in 2..(k + 2) => id # Broadcast
      /\ step \in 3..(k + 2) /\ id # new => \A s \in Servo : reg[s]["ID"] # new
  BY <1>2, <1>4 DEF SetIdClear
<1>8. CASE step = 1
  <2>1. /\ \A s \in Servo : reg'[s] = reg[s]
        /\ GiveUp \/ (GoOn /\ TRUE \in Answers(id, "httpd"))
    BY <1>3, <1>8, SentPingIs
  <2>a. GiveUp \/ (GoOn /\ id # Broadcast)
    BY <2>1, PingAnswered, Zenon
  <2>b. GiveUp => step' = k + 5
    BY <1>3 DEF GiveUp
  <2>c. GoOn => step' = 2
    BY <1>8 DEF GoOn
  <2>2. step' = k + 5 \/ (step' = 2 /\ id # Broadcast)
    BY <2>a, <2>b, <2>c
  <2>3. QED
    BY <1>3, <2>1, <2>2, IdsKept
<1>9. CASE step = 2 /\ k = 2
  <2>1. /\ \A s \in Servo : reg'[s] = reg[s]
        /\ GiveUp \/ (GoOn /\ FALSE \in Answers(new, "httpd"))
    BY <1>3, <1>9, SentPingIs
  <2>a. QuietBus /\ MutexInv /\ hpc = "run" /\ Distinct
    BY QuietSendIs
  <2>b. FALSE \in Answers(new, "httpd") => \A s \in Servo : reg[s]["ID"] # new
    BY <1>5, <2>a, PingSilent
  <2>c. GiveUp => step' = k + 5
    BY <1>3 DEF GiveUp
  <2>d. GoOn => step' = 3
    BY <1>9 DEF GoOn
  <2>2. step' = k + 5 \/ (step' = 3 /\ \A s \in Servo : reg[s]["ID"] # new)
    BY <2>1, <2>b, <2>c, <2>d
  <2>3. QED
    BY <1>3, <1>7, <1>9, <2>1, <2>2, IdsKept
<1>10. CASE step = k + 1 \/ step = k + 3
  <2>1. /\ Program[step].kind = "write" /\ DOMAIN Program[step].write = {"LOCK"}
    BY <1>3, <1>10 DEF Unlock, Lock, Write, Set
  <2>2. GoOn /\ \A s \in Servo : reg'[s]["ID"] = reg[s]["ID"]
    BY <2>1, QuietSendIs, SentWrite DEF Eeprom
  <2>3. step' = step + 1
    BY <2>2 DEF GoOn
  <2>4. QED
    BY <1>3, <1>7, <1>10, <2>2, <2>3, IdsKept
<1>11. CASE step = k + 2
  <2>1. /\ Program[step].kind = "write" /\ Program[step].to = id
        /\ DOMAIN Program[step].write = {"ID"} /\ Program[step].write["ID"] = new
    BY <1>3, <1>11 DEF Write, Set
  <2>2. GoOn /\ \A s \in Servo : \/ reg'[s]["ID"] = reg[s]["ID"]
                                 \/ reg[s]["ID"] = id /\ reg'[s]["ID"] = new
    BY <1>3, <1>7, <1>11, <2>1, QuietSendIs, SentWrite DEF Eeprom, Hears
  <2>3. step' = k + 3
    BY <1>3, <1>11, <2>2 DEF GoOn
  <2>4. id # new => \A s \in Servo : reg[s]["ID"] # new
    BY <1>3, <1>7, <1>11
  <2>5. Distinct'
    BY <2>2, <2>4 DEF Distinct
  <2>6. QED
    BY <1>3, <2>3, <2>5
<1>12. CASE step = k + 4
  <2>1. (GoOn \/ GiveUp) /\ \A s \in Servo : reg'[s] = reg[s]
    BY <1>3, <1>12, PingKeepsLocks
  <2>2. step' = k + 5
    BY <1>3, <1>12, <2>1 DEF GoOn, GiveUp
  <2>3. QED
    BY <1>3, <2>1, <2>2, IdsKept
<1>13. QED
  BY <1>3, <1>4, <1>8, <1>9, <1>10, <1>11, <1>12

LEMMA UnaskedWrite ==
  ASSUME Distinct, ~Clashes(cmd), NEW a \in Unasked(cmd),
         \A s \in Servo : \/ reg'[s]["ID"] = reg[s]["ID"]
                          \/ Hears(s, cmd.id) /\ reg'[s]["ID"] = a
  PROVE  Distinct'
<1>1. ASSUME NEW s \in Servo, NEW u \in Servo, s # u, Hears(s, cmd.id)
      PROVE  ~Hears(u, cmd.id) /\ reg[u]["ID"] # a
  BY <1>1 DEF Clashes, Heard, Hears
<1>2. QED
  BY <1>1 DEF Distinct

LEMMA ClashesKept ==
  ASSUME cmd' = cmd, \A s \in Servo : reg'[s]["ID"] = reg[s]["ID"], ~Clashes(cmd)
  PROVE  ~Clashes(cmd)'
<1>1. Heard(cmd.id)' = Heard(cmd.id) /\ Unasked(cmd)' = Unasked(cmd)
  BY DEF Heard, Unasked
<1>2. QED
  BY <1>1 DEF Clashes

LEMMA IdWritten ==
  ASSUME QuietSend, Program[step].kind = "write"
  PROVE  /\ step' = step + 1
         /\ \A s \in Servo :
              \/ reg'[s]["ID"] = reg[s]["ID"]
              \/ /\ "ID" \in DOMAIN Program[step].write /\ Hears(s, Program[step].to)
                 /\ reg'[s]["ID"] = Program[step].write["ID"]
BY QuietSendIs, SentWrite DEF Eeprom, GoOn

LEMMA SentReset ==
  ASSUME QuietSend, NEW id, Program[step] = Reset(id)
  PROVE  /\ step' = step + 1
         /\ \A s \in Servo : IF Hears(s, id) THEN reg'[s]["ID"] = FactoryId ELSE reg'[s] = reg[s]
<1>1. Program[step].kind = "reset" /\ Program[step].to = id
  BY ResetIs
<1>2. reg' = Effect(Program[step], Heard(id)) /\ step' = step + 1
  BY <1>1, QuietSendIs, TransmitIs, QuietReached DEF GoOn
<1>3. reg \in [Servo -> RegFile]
  BY QuietSendIs DEF TypeOK
<1>4. \A s \in Servo : s \in Heard(id) <=> Hears(s, id)
  BY DEF Heard, Hears
<1>5. QED
  BY <1>1, <1>2, <1>3, <1>4, EffectReset, EffectNone

LEMMA RestoreKeepsDistinct ==
  ASSUME QuietSend, Distinct, Unclashed, cmd.op = "restore"
  PROVE  Distinct' /\ Unclashed'
<1>1. Program = RestoreProgram(cmd)
  BY ProgramIs DEF Program
<1>2. /\ Len(Program) = 6 /\ Program[1] = Ping(cmd.id, TRUE) /\ Program[2] = Unlock(cmd.id)
      /\ Program[3] = Write(cmd.id, RestoreHead(cmd), "ignore")
      /\ Program[4] = Write(cmd.id, Set("TAIL", Image), "ignore")
      /\ Program[5] = Write(cmd.id, Set("TORQUE", cmd.torque), "ignore")
      /\ Program[6] = Lock(cmd.id)
  BY <1>1, RestoreProgramIs
<1>3. /\ cmd' = cmd /\ step \in 1..6 /\ Unasking(cmd) = 1..3 /\ hpc = "run"
      /\ step \in 1..3 => ~Clashes(cmd)
      /\ cmd.new \in Addr
  BY <1>2, QuietSendIs DEF Unclashed, Unasking, Command
<1>4. CASE step = 1
  <2>1. \A s \in Servo : reg'[s] = reg[s]
    BY <1>2, <1>4, PingKeepsLocks
  <2>2. ~Clashes(cmd)'
    BY <1>3, <1>4, <2>1, ClashesKept
  <2>3. QED
    BY <1>3, <2>1, <2>2, IdsKept DEF Unclashed
<1>5. CASE step \in {2, 4, 5, 6}
  <2>1. Program[step].kind = "write" /\ "ID" \notin DOMAIN Program[step].write
    BY <1>2, <1>5 DEF Write, Set, Unlock, Lock
  <2>2. step' = step + 1 /\ \A s \in Servo : reg'[s]["ID"] = reg[s]["ID"]
    BY <2>1, IdWritten
  <2>3. step = 2 => ~Clashes(cmd)'
    BY <1>3, <2>2, ClashesKept
  <2>4. step = 2 \/ step' \notin 1..3
    BY <1>3, <1>5, <2>2
  <2>5. QED
    BY <1>3, <2>2, <2>3, <2>4, IdsKept DEF Unclashed, Unasking
<1>6. CASE step = 3
  <2>1. Program[step].kind = "write" /\ Program[step].write = RestoreHead(cmd)
        /\ Program[step].to = cmd.id
    BY <1>2, <1>6, WriteIs
  <2>2. step' = step + 1 /\ \A s \in Servo :
          \/ reg'[s]["ID"] = reg[s]["ID"]
          \/ cmd.include_id /\ Hears(s, cmd.id) /\ reg'[s]["ID"] = cmd.new
    BY <2>1, IdWritten, RestoreHeadIs
  <2>3. Distinct'
    <3>1. CASE cmd.include_id
      <4>1. cmd.new \in Unasked(cmd)
        BY <1>3, <3>1 DEF Unasked
      <4>2. QED
        BY <1>3, <1>6, <2>2, <4>1, UnaskedWrite
    <3>2. CASE ~cmd.include_id
      BY <2>2, <3>2, IdsKept
    <3>3. QED
      BY <3>1, <3>2
  <2>4. QED
    BY <1>3, <1>6, <2>2, <2>3 DEF Unclashed, Unasking
<1>7. QED
  BY <1>3, <1>4, <1>5, <1>6

LEMMA WriteRegKeepsDistinct ==
  ASSUME QuietSend, Distinct, Unclashed, cmd.op = "write_reg"
  PROVE  Distinct' /\ Unclashed'
<1>1. Program = WriteRegProgram(cmd)
  BY ProgramIs DEF Program
<1>2. /\ cmd' = cmd /\ step \in 1..Len(Program) /\ hpc = "run" /\ Unasking(cmd) = Strays(cmd)
      /\ step \in Strays(cmd) => ~Clashes(cmd)
      /\ cmd \in Command
  BY QuietSendIs DEF Unclashed, Unasking
<1>3. "ID" \in DOMAIN cmd.write => cmd.write["ID"] \in Unasked(cmd)
  <2>1. cmd.write \in Writes
    BY <1>2 DEF Command
  <2>2. "ID" \in DOMAIN cmd.write => cmd.write["ID"] \in Addr
    BY <2>1, ValuesAre DEF Writes
  <2>3. QED
    BY <2>2 DEF Unasked
<1>4. ASSUME Program[step] = Write(cmd.id, cmd.write, "note"), ~Clashes(cmd)
      PROVE  step' = step + 1 /\ Distinct'
  <2>1. /\ Program[step].kind = "write" /\ Program[step].write = cmd.write
        /\ Program[step].to = cmd.id
    BY <1>4, WriteIs
  <2>2. step' = step + 1 /\ \A s \in Servo :
          \/ reg'[s]["ID"] = reg[s]["ID"]
          \/ /\ "ID" \in DOMAIN cmd.write /\ Hears(s, cmd.id)
             /\ reg'[s]["ID"] = cmd.write["ID"]
    BY <2>1, IdWritten
  <2>3. CASE "ID" \in DOMAIN cmd.write
    BY <1>3, <1>4, <2>2, <2>3, UnaskedWrite
  <2>4. CASE "ID" \notin DOMAIN cmd.write
    BY <2>2, <2>4, IdsKept
  <2>5. QED
    BY <2>2, <2>3, <2>4
<1>5. CASE ~cmd.unlock
  <2>1. step = 1 /\ Program[step] = Write(cmd.id, cmd.write, "note")
    <3>1. Program = << Write(cmd.id, cmd.write, "note") >>
      BY <1>1, <1>5 DEF WriteRegProgram
    <3>2. step = 1
      BY <1>2, <3>1
    <3>3. QED
      BY <3>1, <3>2
  <2>2. Strays(cmd) = 1..1
    BY <1>5, QuietSendIs DEF Strays
  <2>3. step' = 2 /\ Distinct'
    BY <1>2, <1>4, <2>1, <2>2
  <2>4. QED
    BY <1>2, <2>2, <2>3 DEF Unclashed, Unasking
<1>6. CASE cmd.unlock
  <2>1. /\ step \in {1, 2, 3} /\ Program[1] = Unlock(cmd.id)
        /\ Program[2] = Write(cmd.id, cmd.write, "note") /\ Program[3] = Lock(cmd.id)
    <3>1. Program = << Unlock(cmd.id), Write(cmd.id, cmd.write, "note"), Lock(cmd.id) >>
      BY <1>1, <1>6 DEF WriteRegProgram
    <3>2. QED
      BY <1>2, <3>1
  <2>2. Strays(cmd) = 1..2
    BY <1>6 DEF Strays
  <2>3. CASE step = 2
    <3>1. step' = 3 /\ Distinct'
      BY <1>2, <1>4, <2>1, <2>2, <2>3
    <3>2. QED
      BY <1>2, <2>2, <3>1 DEF Unclashed, Unasking
  <2>4. CASE step \in {1, 3}
    <3>1. Program[step].kind = "write" /\ "ID" \notin DOMAIN Program[step].write
      <4>1. Program[step] = Unlock(cmd.id) \/ Program[step] = Lock(cmd.id)
        BY <2>1, <2>4
      <4>2. Program[step].kind = "write" /\ DOMAIN Program[step].write = {"LOCK"}
        BY <4>1 DEF Unlock, Lock, Write, Set
      <4>3. QED
        BY <4>2
    <3>2. step' = step + 1 /\ \A s \in Servo : reg'[s]["ID"] = reg[s]["ID"]
      BY <3>1, IdWritten
    <3>3. step = 1 => ~Clashes(cmd)'
      BY <1>2, <2>2, <3>2, ClashesKept
    <3>4. step = 1 \/ step' = 4
      BY <2>4, <3>2
    <3>5. QED
      BY <1>2, <2>2, <3>2, <3>3, <3>4, IdsKept DEF Unclashed, Unasking
  <2>5. QED
    BY <2>1, <2>3, <2>4
<1>7. QED
  BY <1>5, <1>6

LEMMA ResetKeepsDistinct ==
  ASSUME QuietSend, Distinct, Unclashed, ResetClear, cmd.op = "factory_reset"
  PROVE  Distinct' /\ Unclashed' /\ ResetClear'
<1>1. PICK id : id = cmd.id
  OBVIOUS
<1>2. Program = FactoryResetProgram(cmd)
  BY ProgramIs DEF Program
<1>3. /\ Len(Program) = (IF id = FactoryId THEN 2 ELSE 5)
      /\ Program[1] = Ping(id, TRUE) /\ Program[2] = Reset(id)
      /\ id # FactoryId =>
           /\ Program[3] = Unlock(FactoryId)
           /\ Program[4] = Write(FactoryId, Set("ID", id), "ignore")
           /\ Program[5] = Lock(id)
  BY <1>1, <1>2, FactoryResetProgramIs
<1>4. /\ cmd' = cmd /\ cmd'.id = id /\ step \in 1..5 /\ (step > 2 => id # FactoryId)
      /\ hpc = "run" /\ Unasking(cmd) = 1..2
      /\ step \in 1..2 => ~Clashes(cmd)
      /\ step \in {3, 4} => \A s \in Servo : reg[s]["ID"] # id
  BY <1>1, <1>3, QuietSendIs DEF Unclashed, ResetClear, Unasking, Strays
<1>5. FactoryId \in Unasked(cmd) /\ FactoryId # Broadcast
  BY StampsAreAddr, ConstantsAssumption DEF Unasked, Broadcast, FactoryId
<1>6. CASE step = 1
  <2>1. (\A s \in Servo : reg'[s] = reg[s]) /\ (GoOn \/ GiveUp)
    BY <1>3, <1>6, PingKeepsLocks
  <2>2. ~Clashes(cmd)'
    BY <1>4, <1>6, <2>1, ClashesKept
  <2>3. step' = 2 \/ step' = Len(Program) + 1
    BY <1>6, <2>1 DEF GoOn, GiveUp
  <2>4. step' \in {3, 4} => id = FactoryId
    BY <1>3, <2>3
  <2>5. QED
    BY <1>4, <2>1, <2>2, <2>4, IdsKept DEF Unclashed, ResetClear
<1>7. CASE step = 2
  <2>1. step' = 3 /\ \A s \in Servo :
          IF Hears(s, id) THEN reg'[s]["ID"] = FactoryId ELSE reg'[s] = reg[s]
    BY <1>3, <1>7, SentReset
  <2>2. Distinct'
    BY <1>1, <1>4, <1>5, <1>7, <2>1, UnaskedWrite
  <2>3. id # FactoryId => \A s \in Servo : reg'[s]["ID"] # id
    BY <2>1 DEF Hears
  <2>4. QED
    BY <1>4, <2>1, <2>2, <2>3 DEF Unclashed, ResetClear
<1>8. CASE step \in {3, 5}
  <2>1. Program[step].kind = "write" /\ "ID" \notin DOMAIN Program[step].write
    <3>1. Program[step] = Unlock(FactoryId) \/ Program[step] = Lock(id)
      BY <1>3, <1>4, <1>8
    <3>2. QED
      BY <3>1 DEF Unlock, Lock, Write, Set
  <2>2. step' = step + 1 /\ \A s \in Servo : reg'[s]["ID"] = reg[s]["ID"]
    BY <2>1, IdWritten
  <2>3. step' \in {4, 6} /\ (step' = 4 => \A s \in Servo : reg'[s]["ID"] # id)
    BY <1>4, <1>8, <2>2
  <2>4. QED
    BY <1>4, <2>2, <2>3, IdsKept DEF Unclashed, ResetClear
<1>9. CASE step = 4
  <2>1. /\ Program[step].kind = "write" /\ Program[step].to = FactoryId
        /\ Program[step].write["ID"] = id
    <3>1. Program[step] = Write(FactoryId, Set("ID", id), "ignore")
      BY <1>3, <1>4, <1>9
    <3>2. Program[step].kind = "write" /\ Program[step].to = FactoryId
          /\ Program[step].write = Set("ID", id)
      BY <3>1, WriteIs
    <3>3. Set("ID", id)["ID"] = id
      BY SetIs
    <3>4. QED
      BY <3>2, <3>3
  <2>2. step' = 5 /\ \A s \in Servo :
          \/ reg'[s]["ID"] = reg[s]["ID"]
          \/ reg[s]["ID"] = FactoryId /\ reg'[s]["ID"] = id
    BY <1>5, <1>9, <2>1, IdWritten DEF Hears
  <2>3. Distinct'
    BY <1>4, <1>9, <2>2 DEF Distinct
  <2>4. QED
    BY <1>4, <2>2, <2>3 DEF Unclashed, ResetClear
<1>10. QED
  BY <1>4, <1>6, <1>7, <1>8, <1>9

(* Whomever they reach, the packets of a write that spares the ID byte     *)
(* leave the addresses alone.                                              *)
LEMMA WriteRegKeepsIds ==
  ASSUME TypeOK, CommandInv, Transmit, cmd.op = "write_reg", "ID" \notin DOMAIN cmd.write
  PROVE  \A s \in Servo : reg'[s]["ID"] = reg[s]["ID"]
<1>1. Program = WriteRegProgram(cmd)
  BY ProgramIs DEF Program
<1>2. step \in 1..Len(Program)
  BY TransmitIs, ProgramType DEF TypeOK, Program
<1>3. Program[step].kind = "write" /\ "ID" \notin DOMAIN Program[step].write
  <2>1. CASE cmd.unlock
    <3>1. Program = << Unlock(cmd.id), Write(cmd.id, cmd.write, "note"), Lock(cmd.id) >>
      BY <1>1, <2>1 DEF WriteRegProgram
    <3>2. step \in {1, 2, 3}
      BY <1>2, <3>1
    <3>3. QED
      BY <3>1, <3>2 DEF Write, Unlock, Lock, Set
  <2>2. CASE ~cmd.unlock
    <3>1. Program = << Write(cmd.id, cmd.write, "note") >>
      BY <1>1, <2>2 DEF WriteRegProgram
    <3>2. step = 1
      BY <1>2, <3>1
    <3>3. QED
      BY <3>1, <3>2 DEF Write
  <2>3. QED
    BY <2>1, <2>2
<1>4. QED
  BY <1>3, TransmitIs, EffectWrite, EffectNone DEF Eeprom

LEMMA AddressSends ==
  ASSUME QuietSend, Distinct, SetIdClear, Unclashed, ResetClear
  PROVE  Distinct' /\ SetIdClear' /\ Unclashed' /\ ResetClear'
<1>1. cmd' = cmd /\ TypeOK /\ CommandInv /\ Transmit
  BY QuietSendIs
<1>2. CASE cmd.op = "set_id"
  BY <1>1, <1>2, SetIdKeepsDistinct DEF Unclashed, ResetClear
<1>3. CASE cmd.op = "restore"
  BY <1>1, <1>3, RestoreKeepsDistinct DEF SetIdClear, ResetClear
<1>4. CASE cmd.op = "write_reg"
  BY <1>1, <1>4, WriteRegKeepsDistinct DEF SetIdClear, ResetClear
<1>5. CASE cmd.op = "factory_reset"
  BY <1>1, <1>5, ResetKeepsDistinct DEF SetIdClear
<1>6. CASE cmd.op \notin Eeproms
  <2>1. \A s \in Servo : reg'[s]["ID"] = reg[s]["ID"]
    BY <1>1, <1>6, PlainStep DEF Eeprom
  <2>2. QED
    BY <1>1, <1>6, <2>1, IdsKept DEF SetIdClear, Unclashed, ResetClear, Eeproms
<1>7. QED
  BY <1>2, <1>3, <1>4, <1>5, <1>6 DEF Eeproms

LEMMA AddressStep ==
  ASSUME QuietBus, TypeOK, MutexInv, CommandInv, AddressInv, [Next]_vars
  PROVE  AddressInv'
<1> SUFFICES ASSUME ~clashed'
             PROVE  Distinct' /\ SetIdClear' /\ Unclashed' /\ ResetClear'
  BY DEF AddressInv
<1>1. Distinct /\ SetIdClear /\ Unclashed /\ ResetClear
  BY HistorySteps DEF AddressInv
<1>2. CASE hpc = "run" /\ Transmit
  <2>1. QuietSend
    BY <1>2 DEF QuietSend
  <2>2. QED
    BY <1>1, <2>1, AddressSends
<1>3. CASE hpc # "run" /\ Transmit
  <2>1. hpc = "forced" /\ hpc' = hpc /\ cmd.op = "emergency_stop"
    BY <1>3, TransmitIs DEF CommandInv
  <2>2. \A s \in Servo : reg'[s]["ID"] = reg[s]["ID"]
    BY <1>3, <2>1, PlainStep DEF Eeproms, Eeprom
  <2>3. QED
    BY <1>1, <2>1, <2>2, IdsKept DEF SetIdClear, Unclashed, ResetClear
<1>4. CASE ~Transmit
  <2>1. reg' = reg /\ ~SendFails
    BY <1>4, OthersKeepServos, SendFailsIs DEF QuietBus
  <2>2. Distinct'
    BY <1>1, <2>1, IdsKept
  <2>3. CASE hpc' # "run"
    BY <2>2, <2>3 DEF SetIdClear, Unclashed, ResetClear
  <2>4. CASE hpc' = "run"
    <3>1. cmd' = cmd /\ step' = step /\ (hpc = "run" \/ (step = 1 /\ (Clashes(cmd) => clashed')))
      BY <1>4, <2>1, <2>4, RunSteps
    <3>2. ~Clashes(cmd) => ~Clashes(cmd)'
      BY <2>1, <3>1, ClashesKept
    <3>3. CASE hpc = "run"
      BY <1>1, <2>1, <2>2, <2>4, <3>1, <3>2, <3>3 DEF SetIdClear, Unclashed, ResetClear, Checked,
         Unasking, Strays
    <3>4. CASE step = 1 /\ ~Clashes(cmd)
      <4>1. step' = 1 /\ ~Clashes(cmd)'
        BY <3>1, <3>2, <3>4
      <4>2. QED
        BY <2>2, <4>1 DEF SetIdClear, Unclashed, ResetClear, Checked
    <3>5. QED
      BY <3>1, <3>3, <3>4
  <2>5. QED
    BY <2>3, <2>4
<1>5. QED
  BY <1>2, <1>3, <1>4

(* No command but one that writes an address somebody has, unasked, ever   *)
(* puts two servos on the same one.                                        *)
THEOREM IdsStayDistinct ==
  ASSUME QuietBus
  PROVE  Spec => []DistinctIds
<1>1. Init => AddressInv
  <2> SUFFICES ASSUME Init PROVE AddressInv
    OBVIOUS
  <2>1. \A id \in Id, on \in Bit : Commissioned(id, on)["ID"] = id
    BY DEF Commissioned, Reg
  <2>2. Distinct
    BY <2>1 DEF Init, Distinct
  <2>3. QED
    BY <2>2 DEF AddressInv, SetIdClear, Unclashed, ResetClear, Init
<1>2. TypeOK /\ ControlInv /\ CommandInv /\ AddressInv /\ [Next]_vars => AddressInv'
  BY AddressStep DEF ControlInv
<1>3. AddressInv => DistinctIds
  BY DEF AddressInv, Distinct, DistinctIds
<1>4. QED
  BY <1>1, <1>2, <1>3, CommandInit, CommandStep, ControlAlways, TypeCorrect, PTL DEF Spec

-----------------------------------------------------------------------------
(* Part 9: what a restore has written by each of its steps.                *)

RestoreClear ==
  hpc = "run" /\ cmd.op = "restore" => (step \in 2..6 => cmd.id # Broadcast)

RestoreInv ==
  hpc = "run" /\ cmd.op = "restore" /\ ~LosesTrack(cmd) =>
    /\ RestoreClear
    /\ \A s \in Servo : idsBefore[s] = reg[s]["ID"]
    /\ \A s \in Servo : reg[s]["ID"] = cmd.id =>
         /\ step \in 3..6 => reg[s]["LOCK"] = 0
         /\ step \in 4..6 => reg[s]["HEAD"] = Image
         /\ step \in 5..6 => reg[s]["TAIL"] = Image
         /\ step \notin 1..6 /\ ok =>
              reg[s]["HEAD"] = Image /\ reg[s]["TAIL"] = Image /\ reg[s]["LOCK"] = 1

(* If it writes the ID byte at all, it is the address it is sent to.       *)
LEMMA RestoreKeepsIds ==
  ASSUME QuietSend, ~LosesTrack(cmd), RestoreClear, cmd.op = "restore"
  PROVE  RestoreClear' /\ \A s \in Servo : reg'[s]["ID"] = reg[s]["ID"]
<1>1. PICK id : id = cmd.id
  OBVIOUS
<1>2. Program = RestoreProgram(cmd)
  BY ProgramIs DEF Program
<1>3. /\ Len(Program) = 6 /\ Program[1] = Ping(id, TRUE) /\ Program[2] = Unlock(id)
      /\ Program[3] = Write(id, RestoreHead(cmd), "ignore")
      /\ Program[4] = Write(id, Set("TAIL", Image), "ignore")
      /\ Program[5] = Write(id, Set("TORQUE", cmd.torque), "ignore")
      /\ Program[6] = Lock(id)
  BY <1>1, <1>2, RestoreProgramIs
<1>4. /\ cmd'.id = id /\ cmd'.op = "restore" /\ hpc' = "run" /\ hpc = "run" /\ step \in 1..6
      /\ step \in 2..6 => id # Broadcast
  BY <1>1, <1>3, QuietSendIs DEF RestoreClear
<1>5. SUFFICES /\ \A s \in Servo : reg'[s]["ID"] = reg[s]["ID"]
               /\ step' \in 2..6 => id # Broadcast
  BY <1>4 DEF RestoreClear
<1>6. CASE step = 1
  <2>1. /\ \A s \in Servo : reg'[s] = reg[s]
        /\ GiveUp \/ (GoOn /\ TRUE \in Answers(id, "httpd"))
    BY <1>3, <1>6, SentPingIs
  <2>a. GiveUp \/ id # Broadcast
    BY <2>1, PingAnswered, Zenon
  <2>b. GiveUp => step' = 7
    BY <1>3 DEF GiveUp
  <2>2. step' = 7 \/ id # Broadcast
    BY <2>a, <2>b
  <2>3. QED
    BY <2>1, <2>2
<1>7. CASE step \in 2..6
  <2>1. /\ Program[step].kind = "write" /\ Program[step].to = id
        /\ "ID" \in DOMAIN Program[step].write => Program[step].write["ID"] = id
    <3>1. CASE step = 3
      BY <1>1, <1>3, <3>1, RestoreHeadIs DEF Write, LosesTrack
    <3>2. CASE step \in {2, 4, 5, 6}
      BY <1>3, <3>2 DEF Write, Set, Unlock, Lock
    <3>3. QED
      BY <1>7, <3>1, <3>2
  <2>2. QED
    BY <1>4, <1>7, <2>1, QuietSendIs, SentWrite DEF Hears, Eeprom
<1>8. QED
  BY <1>4, <1>6, <1>7

(* Its packets, in the order in which they go out.                         *)
LEMMA RestorePackets ==
  ASSUME QuietSend, cmd.op = "restore"
  PROVE  /\ step \in 1..6 /\ Len(Program) = 6
         /\ step = 1 => Program[step] = Ping(cmd.id, TRUE)
         /\ step = 2 => Program[step] = Unlock(cmd.id)
         /\ step = 3 => Program[step] = Write(cmd.id, RestoreHead(cmd), "ignore")
         /\ step = 4 => Program[step] = Write(cmd.id, Set("TAIL", Image), "ignore")
         /\ step = 5 => Program[step] = Write(cmd.id, Set("TORQUE", cmd.torque), "ignore")
         /\ step = 6 => Program[step] = Lock(cmd.id)
<1>1. Program = RestoreProgram(cmd)
  BY ProgramIs DEF Program
<1>2. QED
  BY <1>1, QuietSendIs, RestoreProgramIs

LEMMA RestoreSends ==
  ASSUME QuietSend, ~LosesTrack(cmd), cmd.op = "restore", RestoreInv
  PROVE  RestoreInv'
<1>1. PICK id : id = cmd.id
  OBVIOUS
<1>2. /\ RestoreClear' /\ \A s \in Servo : reg'[s]["ID"] = reg[s]["ID"]
      /\ idsBefore' = idsBefore /\ hpc = "run" /\ cmd' = cmd /\ cmd'.id = id
      /\ \A s \in Servo : idsBefore[s] = reg[s]["ID"]
  BY <1>1, QuietSendIs, RestoreKeepsIds DEF RestoreInv
<1> DEFINE Done(s) ==
      /\ step' \in 3..6 => reg'[s]["LOCK"] = 0
      /\ step' \in 4..6 => reg'[s]["HEAD"] = Image
      /\ step' \in 5..6 => reg'[s]["TAIL"] = Image
      /\ step' \notin 1..6 /\ ok' =>
           reg'[s]["HEAD"] = Image /\ reg'[s]["TAIL"] = Image /\ reg'[s]["LOCK"] = 1
<1>3. SUFFICES ASSUME NEW s \in Servo, reg[s]["ID"] = id PROVE Done(s)
  BY <1>2 DEF RestoreInv
<1>4. /\ step \in 3..6 => reg[s]["LOCK"] = 0
      /\ step \in 4..6 => reg[s]["HEAD"] = Image
      /\ step \in 5..6 => reg[s]["TAIL"] = Image
  BY <1>1, <1>3, QuietSendIs DEF RestoreInv
<1>5. /\ step \in 1..6 /\ Len(Program) = 6
      /\ step = 1 => Program[step] = Ping(id, TRUE)
      /\ step = 2 => Program[step] = Unlock(id)
      /\ step = 3 => Program[step] = Write(id, RestoreHead(cmd), "ignore")
      /\ step = 4 => Program[step] = Write(id, Set("TAIL", Image), "ignore")
      /\ step = 5 => Program[step] = Write(id, Set("TORQUE", cmd.torque), "ignore")
      /\ step = 6 => Program[step] = Lock(id)
  BY <1>1, RestorePackets
<1>6. CASE step = 1
  <2>1. GiveUp \/ GoOn
    BY <1>5, <1>6, PingKeepsLocks
  <2>2. step' = 2 \/ (step' = 7 /\ ~ok')
    BY <1>5, <1>6, <2>1 DEF GoOn, GiveUp
  <2>3. QED
    BY <2>2
<1>7. CASE step \in 2..6
  <2>1. /\ Program[step].kind = "write" /\ Program[step].to = id
        /\ step \in {2, 6} => DOMAIN Program[step].write = {"LOCK"}
        /\ step = 2 => Program[step].write["LOCK"] = 0
        /\ step = 6 => Program[step].write["LOCK"] = 1
        /\ step \in {3, 4, 5} => "LOCK" \notin DOMAIN Program[step].write
        /\ step = 3 => "HEAD" \in DOMAIN Program[step].write /\ Program[step].write["HEAD"] = Image
        /\ step = 4 => "TAIL" \in DOMAIN Program[step].write /\ Program[step].write["TAIL"] = Image
        /\ step \in {2, 4, 5, 6} => "HEAD" \notin DOMAIN Program[step].write
        /\ step \in {2, 5, 6} => "TAIL" \notin DOMAIN Program[step].write
    <3>1. CASE step = 3
      BY <1>5, <3>1, RestoreHeadIs DEF Write
    <3>2. CASE step \in {2, 4, 5, 6}
      BY <1>5, <3>2 DEF Write, Set, Unlock, Lock
    <3>3. QED
      BY <1>7, <3>1, <3>2
  <2>2. /\ GoOn
        /\ reg'[s]["LOCK"] = IF "LOCK" \in DOMAIN Program[step].write
                             THEN Program[step].write["LOCK"] ELSE reg[s]["LOCK"]
        /\ \A r \in Eeprom : reg'[s][r] =
             IF r \in DOMAIN Program[step].write /\ reg[s]["LOCK"] = 0
             THEN Program[step].write[r] ELSE reg[s][r]
    BY <1>3, <2>1, QuietSendIs, SentWrite DEF Hears
  <2>3. step' = step + 1
    BY <2>2 DEF GoOn
  <2>4. "HEAD" \in Eeprom /\ "TAIL" \in Eeprom
    BY DEF Eeprom
  <2>5. step = 2 => step' = 3 /\ reg'[s]["LOCK"] = 0
    BY <2>1, <2>2, <2>3
  <2>6. step = 3 => step' = 4 /\ reg'[s]["LOCK"] = 0 /\ reg'[s]["HEAD"] = Image
    BY <1>4, <2>1, <2>2, <2>3, <2>4
  <2>7. step = 4 => /\ step' = 5 /\ reg'[s]["LOCK"] = 0 /\ reg'[s]["HEAD"] = Image
                    /\ reg'[s]["TAIL"] = Image
    BY <1>4, <2>1, <2>2, <2>3, <2>4
  <2>8. step = 5 => /\ step' = 6 /\ reg'[s]["LOCK"] = 0 /\ reg'[s]["HEAD"] = Image
                    /\ reg'[s]["TAIL"] = Image
    <3>1. ASSUME step = 5
          PROVE  /\ reg[s]["LOCK"] = 0 /\ reg[s]["HEAD"] = Image /\ reg[s]["TAIL"] = Image
                 /\ "LOCK" \notin DOMAIN Program[step].write
                 /\ "HEAD" \notin DOMAIN Program[step].write
                 /\ "TAIL" \notin DOMAIN Program[step].write
      BY <1>4, <2>1, <3>1
    <3>2. QED
      BY <2>2, <2>3, <2>4, <3>1
  <2>9. step = 6 => /\ step' = 7 /\ reg'[s]["LOCK"] = 1 /\ reg'[s]["HEAD"] = Image
                    /\ reg'[s]["TAIL"] = Image
    <3>1. ASSUME step = 6
          PROVE  /\ reg[s]["HEAD"] = Image /\ reg[s]["TAIL"] = Image
                 /\ DOMAIN Program[step].write = {"LOCK"} /\ Program[step].write["LOCK"] = 1
      BY <1>4, <2>1, <3>1
    <3>2. QED
      BY <2>2, <2>3, <2>4, <3>1
  <2>10. QED
    BY <1>7, <2>5, <2>6, <2>7, <2>8, <2>9
<1>8. QED
  BY <1>5, <1>6, <1>7

LEMMA RestoreStep ==
  ASSUME QuietBus, TypeOK, MutexInv, CommandInv, RestoreInv, [Next]_vars
  PROVE  RestoreInv'
<1>1. SUFFICES ASSUME hpc' = "run", cmd'.op = "restore", ~LosesTrack(cmd') PROVE RestoreInv'
  BY DEF RestoreInv
<1>2. ~SendFails
  BY SendFailsIs DEF QuietBus
<1>3. CASE hpc = "run" /\ Transmit
  <2>1. QuietSend
    BY <1>3 DEF QuietSend
  <2>2. cmd' = cmd
    BY <2>1, QuietSendIs
  <2>3. QED
    BY <1>1, <2>1, <2>2, RestoreSends
<1>4. CASE hpc = "lock" /\ step = 1 /\ idsBefore' = Addresses
           /\ UNCHANGED << reg, servo_ids, cmd, step, ok >>
  BY <1>4 DEF RestoreInv, RestoreClear, Addresses
<1>5. CASE hpc = "run" /\ UNCHANGED << reg, servo_ids, cmd, step, ok, idsBefore >>
  BY <1>1, <1>5 DEF RestoreInv, RestoreClear
<1>6. QED
  BY <1>1, <1>2, <1>3, <1>4, <1>5, RunSteps

(* A restore that answers ok and leaves the servo its ID has written the   *)
(* whole image to the servo it was sent to and locked its EEPROM again.    *)
THEOREM RestoresAreComplete ==
  ASSUME QuietBus
  PROVE  Spec => []RestoreComplete
<1>1. Init => RestoreInv
  BY DEF Init, RestoreInv
<1>2. TypeOK /\ ControlInv /\ CommandInv /\ RestoreInv /\ [Next]_vars => RestoreInv'
  BY RestoreStep DEF ControlInv
<1>3. CommandInv /\ RestoreInv => RestoreComplete
  <2> SUFFICES ASSUME CommandInv, RestoreInv, Finished("restore"), ok, ~LosesTrack(cmd),
                      NEW s \in Servo, idsBefore[s] = cmd.id
               PROVE  /\ reg[s]["HEAD"] = Image /\ reg[s]["TAIL"] = Image
                      /\ reg[s]["LOCK"] = 1
    BY DEF RestoreComplete
  <2>1. hpc = "run" /\ cmd.op = "restore" /\ Ended
    BY DEF Finished, CommandInv
  <2>2. Program = RestoreProgram(cmd)
    BY <2>1, ProgramIs DEF Program
  <2>3. step = 7
    <3>1. Len(Program) = 6
      BY <2>2, RestoreProgramIs
    <3>2. QED
      BY <2>1, <3>1 DEF Ended
  <2>4. QED
    BY <2>1, <2>3 DEF RestoreInv
<1>4. QED
  BY <1>1, <1>2, <1>3, CommandInit, CommandStep, ControlAlways, TypeCorrect, PTL DEF Spec

-----------------------------------------------------------------------------
(* Part 10: what a scan has found.  The wire may lose packets here and the *)
(* node may restart; every ping is sent, and no command changes addresses. *)

LEMMA RestoreSparesIds ==
  ASSUME TypeOK, CommandInv, Transmit, cmd.op = "restore", ~cmd.include_id
  PROVE  \A s \in Servo : reg'[s]["ID"] = reg[s]["ID"]
<1>1. Program = RestoreProgram(cmd)
  BY ProgramIs DEF Program
<1>2. step \in 1..Len(Program)
  BY TransmitIs, ProgramType DEF TypeOK, Program
<1>3. step \in 1..6
  BY <1>1, <1>2, RestoreProgramIs
<1>4. Program[step].kind \in {"ping", "write"} /\ "ID" \notin DOMAIN Program[step].write
  <2>1. CASE step = 3
    <3>1. Program[step] = Write(cmd.id, RestoreHead(cmd), "ignore")
      BY <1>1, <2>1, RestoreProgramIs
    <3>2. Program[step].kind = "write" /\ Program[step].write = RestoreHead(cmd)
      BY <3>1 DEF Write
    <3>3. QED
      BY <3>2, RestoreHeadIs
  <2>2. CASE step = 1
    <3>1. Program[step] = Ping(cmd.id, TRUE)
      BY <1>1, <2>2, RestoreProgramIs
    <3>2. QED
      BY <3>1, NothingIs DEF Ping
  <2>3. CASE step \in {2, 4, 5, 6}
    <3>1. \E id, v : \/ Program[step] = Unlock(id) \/ Program[step] = Lock(id)
                     \/ Program[step] = Write(id, Set("TAIL", v), "ignore")
                     \/ Program[step] = Write(id, Set("TORQUE", v), "ignore")
      <4>1. /\ step = 2 => Program[step] = Unlock(cmd.id)
            /\ step = 4 => Program[step] = Write(cmd.id, Set("TAIL", Image), "ignore")
            /\ step = 5 => Program[step] = Write(cmd.id, Set("TORQUE", cmd.torque), "ignore")
            /\ step = 6 => Program[step] = Lock(cmd.id)
        BY <1>1, RestoreProgramIs
      <4>2. QED
        BY <2>3, <4>1, Zenon
    <3>2. QED
      BY <3>1 DEF Write, Set, Unlock, Lock
  <2>4. QED
    BY <1>3, <2>1, <2>2, <2>3
<1>5. QED
  BY <1>4, TransmitIs, EffectWrite, EffectNone DEF Eeprom

LEMMA AddressesKept ==
  ASSUME \A c \in Request : KeepsAddresses(c), TypeOK, CommandInv, [Next]_vars
  PROVE  \A s \in Servo : reg'[s]["ID"] = reg[s]["ID"]
<1>1. CASE ~Transmit
  BY <1>1, OthersKeepServos
<1>2. CASE Transmit
  <2>1. KeepsAddresses(cmd)
    <3>1. hpc \in {"run", "forced"}
      BY <1>2, TransmitIs
    <3>2. QED
      BY <3>1 DEF CommandInv
  <2>2. CASE cmd.op = "write_reg"
    <3>1. "ID" \notin DOMAIN cmd.write
      BY <2>1, <2>2 DEF KeepsAddresses
    <3>2. QED
      BY <1>2, <2>2, <3>1, WriteRegKeepsIds
  <2>3. CASE cmd.op = "restore"
    <3>1. ~cmd.include_id
      BY <2>1, <2>3 DEF KeepsAddresses
    <3>2. QED
      BY <1>2, <2>3, <3>1, RestoreSparesIds
  <2>4. CASE cmd.op \notin Eeproms
    BY <1>2, <2>4, PlainStep DEF Eeprom
  <2>5. QED
    BY <2>1, <2>2, <2>3, <2>4 DEF KeepsAddresses, Eeproms
<1>3. QED
  BY <1>1, <1>2

Used(id) == \E s \in Servo : reg[s]["ID"] = id

(* A live scan has accounted for every address in use below the one it is  *)
(* at, and leaves the loop early only while an e-stop's signal stands.     *)
Scanned(t) ==
  /\ tpc[t] = "none" => tid[t] = 0 /\ found[t] = {}
  /\ \A id \in found[t] : Used(id)
  /\ \A s \in Servo : reg[s]["ID"] < tid[t] => reg[s]["ID"] \in found[t] \cup missed
  /\ tpc[t] = "unlock" => \A s \in Servo : reg[s]["ID"] = tid[t] => tid[t] \in found[t] \cup missed
  /\ tpc[t] = "record" => tid[t] > MaxId \/ abort_scan
  /\ tpc[t] \in {"clear", "finish"} /\ ~aborted[t] => tid[t] > MaxId

ScanInv ==
  /\ Distinct
  /\ \A s \in Servo : reg[s]["ID"] \in Id
  /\ \A t \in ScanTask : Scanned(t)

LEMMA ScanUntouched ==
  ASSUME \A s \in Servo : reg'[s]["ID"] = reg[s]["ID"], NEW t \in ScanTask, Scanned(t),
         tpc'[t] = tpc[t], tid'[t] = tid[t], found'[t] = found[t], aborted'[t] = aborted[t],
         missed \subseteq missed', abort_scan => abort_scan'
  PROVE  Scanned(t)'
BY DEF Scanned, Used

LEMMA ScanFresh ==
  ASSUME NEW t \in ScanTask, \A s \in Servo : reg'[s]["ID"] \in Id,
         tpc'[t] \in {"none", "check"}, tid'[t] = 0, found'[t] = {}
  PROVE  Scanned(t)'
BY ConstantsAssumption DEF Scanned, Id

LEMMA PingFinds ==
  ASSUME found \in [ScanTask -> SUBSET Id], ScanInv, NEW t \in ScanTask, ScanPing(t),
         "send" \notin Faults
  PROVE  /\ \A id \in found'[t] : Used(id)
         /\ found[t] \subseteq found'[t] /\ missed \subseteq missed'
         /\ \A s \in Servo : reg[s]["ID"] = tid[t] => tid[t] \in found'[t] \cup missed'
<1>1. PICK a \in Answers(tid[t], t) :
        found' = IF a THEN [found EXCEPT ![t] = @ \cup {tid[t]}] ELSE found
  BY DEF ScanPing
<1>2. missed' = IF Noisy(t) THEN missed \cup {tid[t]} ELSE missed
  BY DEF ScanPing
<1>3. a \in BOOLEAN /\ (a => MayAnswer(tid[t])) /\ (~a => MaySilence(tid[t], t))
  BY <1>1 DEF Answers
<1>4. found'[t] = IF a THEN found[t] \cup {tid[t]} ELSE found[t]
  BY <1>1
<1>5. a => Used(tid[t])
  BY <1>3 DEF MayAnswer, Used
<1>6. \A id \in found[t] : Used(id)
  BY DEF ScanInv, Scanned
<1>7. ASSUME NEW s \in Servo, reg[s]["ID"] = tid[t], ~a, ~Noisy(t)
      PROVE  FALSE
  <2>1. tid[t] # Broadcast
    BY <1>7, ConstantsAssumption DEF ScanInv, Id, Broadcast
  <2>2. Alone(tid[t])
    BY <1>7 DEF Alone, ScanInv, Distinct
  <2>3. QED
    BY <1>3, <1>7, <2>1, <2>2 DEF MaySilence
<1>8. QED
  BY <1>2, <1>3, <1>4, <1>5, <1>6, <1>7

LEMMA ScanMoves ==
  ASSUME TypeOK, ControlInv, ScanInv, "send" \notin Faults, NEW t \in ScanTask, ScanStep(t),
         \A s \in Servo : reg'[s]["ID"] = reg[s]["ID"]
  PROVE  Scanned(t)'
<1> USE DEF At
<1>1. /\ tpc \in [ScanTask -> ScanPlace] /\ tid \in [ScanTask -> 0..(MaxId + 1)]
      /\ found \in [ScanTask -> SUBSET Id] /\ aborted \in [ScanTask -> BOOLEAN]
      /\ \A s \in Servo : reg[s]["ID"] \in 0..MaxId /\ MaxId \in Nat
  BY ConstantsAssumption DEF TypeOK, ScanInv, Id
<1>2. Scanned(t)
  BY DEF ScanInv
<1>3. CASE ScanCheck(t)
  BY <1>1, <1>2, <1>3 DEF ScanCheck, Scanned, Used, historyVars, flagVars
<1>4. CASE ScanLock(t)
  BY <1>1, <1>2, <1>4 DEF ScanLock, Scanned, Used, historyVars, flagVars
<1>5. CASE ScanLockTimeout(t)
  BY <1>1, <1>2, <1>5 DEF ScanLockTimeout, Scanned, Used, flagVars
<1>6. CASE ScanPing(t)
  <2>1. /\ \A id \in found'[t] : Used(id)
        /\ found[t] \subseteq found'[t] /\ missed \subseteq missed'
        /\ \A s \in Servo : reg[s]["ID"] = tid[t] => tid[t] \in found'[t] \cup missed'
    BY <1>1, <1>6, PingFinds
  <2>2. tpc'[t] = "unlock" /\ tid'[t] = tid[t]
    BY <1>1, <1>6 DEF ScanPing
  <2>3. QED
    BY <1>2, <2>1, <2>2 DEF Scanned, Used
<1>7. CASE ScanUnlock(t)
  BY <1>1, <1>2, <1>7 DEF ScanUnlock, Scanned, Used, historyVars
<1>8. CASE ScanReport(t)
  BY <1>1, <1>2, <1>8 DEF ScanReport, Scanned, Used, historyVars
<1>9. CASE ScanClearAbort(t)
  BY <1>1, <1>2, <1>9 DEF ScanClearAbort, Scanned, Used, historyVars
<1>10. CASE ScanFinish(t)
  <2>1. tpc'[t] = "none" /\ tid'[t] = 0 /\ found'[t] = {}
    BY <1>1, <1>10 DEF ScanFinish
  <2>2. QED
    BY <2>1, ScanFresh DEF ScanInv
<1>11. QED
  BY <1>3, <1>4, <1>5, <1>6, <1>7, <1>8, <1>9, <1>10 DEF ScanStep

(* Where there is one scan at most, a step of a task is a step of the only *)
(* one that has anything to keep.                                          *)
LEMMA ScanOthers ==
  ASSUME TypeOK, ControlInv, ScanInv, NEW t \in ScanTask, ScanStep(t),
         NEW u \in ScanTask, u # t, \A s \in Servo : reg'[s]["ID"] = reg[s]["ID"]
  PROVE  Scanned(u)'
<1>1. tpc \in [ScanTask -> ScanPlace] /\ tid \in [ScanTask -> 0..(MaxId + 1)]
      /\ found \in [ScanTask -> SUBSET Id]
  BY DEF TypeOK
<1>2. tpc[t] # "none" /\ tpc'[u] = tpc[u] /\ tid'[u] = tid[u] /\ found'[u] = found[u]
  BY <1>1 DEF ScanStep, At, ScanCheck, ScanLock, ScanLockTimeout, ScanPing, ScanUnlock,
              ScanReport, ScanClearAbort, ScanFinish
<1>3. tpc[u] = "none"
  BY <1>2 DEF ControlInv, OneScan
<1>4. Scanned(u)
  BY DEF ScanInv
<1>5. QED
  BY <1>2, <1>3, <1>4, ScanFresh DEF Scanned, ScanInv

LEMMA ScanHttpd ==
  ASSUME TypeOK, ControlInv, ScanInv, (\E c \in Request : Receive(c)) \/ HttpdStep \/ Reboot,
         NEW t \in ScanTask, \A s \in Servo : reg'[s]["ID"] = reg[s]["ID"]
  PROVE  Scanned(t)'
<1>1. Scanned(t) /\ tpc \in [ScanTask -> ScanPlace]
  BY DEF ScanInv, TypeOK
<1>2. CASE /\ UNCHANGED << scanVars, missed >> /\ (abort_scan => abort_scan')
  BY <1>1, <1>2, ScanUntouched DEF scanVars
<1>3. CASE ScanCommand /\ ~scan_in_progress
  <2>1. tpc[t] = "none" /\ UNCHANGED scanVars
    BY <1>3 DEF ScanCommand, ControlInv, OneScan
  <2>2. QED
    BY <1>1, <2>1, ScanFresh DEF scanVars, Scanned, ScanInv
<1>4. ASSUME NEW u \in ScanTask, Spawn(u) PROVE Scanned(t)'
  <2>1. tpc[u] = "none" /\ tpc' = [tpc EXCEPT ![u] = "check"]
        /\ UNCHANGED << tid, found, aborted, missed, abort_scan >>
    BY <1>4 DEF Spawn, historyVars, flagVars
  <2>2. CASE t = u
    BY <1>1, <2>1, <2>2, ScanFresh DEF Scanned, ScanInv
  <2>3. CASE t # u
    BY <1>1, <2>1, <2>3, ScanUntouched
  <2>4. QED
    BY <2>2, <2>3
<1>5. CASE Reboot
  BY <1>5, ScanFresh DEF Reboot, ScanInv
<1>6. \/ UNCHANGED << scanVars, missed >> /\ (abort_scan => abort_scan')
      \/ ScanCommand /\ ~scan_in_progress
      \/ Reboot \/ \E u \in ScanTask : Spawn(u)
  BY DEF HttpdStep, Receive, EstopCheck, EstopAbort, BusLock, BusLockTimeout, Transmit, SendFails,
         Answer, ScanCommand, SpawnFails, flagVars, historyVars
<1>7. QED
  BY <1>2, <1>3, <1>4, <1>5, <1>6

LEMMA ScanInvStep ==
  ASSUME "send" \notin Faults, \A c \in Request : KeepsAddresses(c),
         TypeOK, ControlInv, CommandInv, ScanInv, [Next]_vars
  PROVE  ScanInv'
<1>1. \A s \in Servo : reg'[s]["ID"] = reg[s]["ID"]
  BY AddressesKept
<1>2. Distinct' /\ \A s \in Servo : reg'[s]["ID"] \in Id
  BY <1>1 DEF ScanInv, Distinct
<1>3. ASSUME NEW t \in ScanTask PROVE Scanned(t)'
  <2>1. CASE (\E c \in Request : Receive(c)) \/ HttpdStep \/ Reboot
    BY <1>1, <2>1, ScanHttpd
  <2>2. CASE \E u \in ScanTask : ScanStep(u)
    BY <1>1, <2>2, ScanMoves, ScanOthers
  <2>3. CASE UNCHANGED vars
    <3>1. Scanned(t) /\ UNCHANGED << scanVars, missed, abort_scan >>
      BY <2>3 DEF ScanInv, vars, historyVars, flagVars
    <3>2. QED
      BY <1>1, <3>1, ScanUntouched DEF scanVars
  <2>4. QED
    BY <2>1, <2>2, <2>3 DEF Next
<1>4. QED
  BY <1>2, <1>3 DEF ScanInv

(* A scan that reports itself complete lists exactly the addresses in use, *)
(* but for those it had no turn on the bus for, whatever the wire lost and *)
(* wherever the node restarted.                                            *)
THEOREM ScansAreExact ==
  ASSUME "send" \notin Faults, \A c \in Request : KeepsAddresses(c)
  PROVE  Spec => []ScanExact
<1>1. Init => ScanInv
  <2> SUFFICES ASSUME Init PROVE ScanInv
    OBVIOUS
  <2>1. \A id \in Id, on \in Bit : Commissioned(id, on)["ID"] = id
    BY DEF Commissioned, Reg
  <2>2. Distinct /\ \A s \in Servo : reg[s]["ID"] \in Id
    BY <2>1 DEF Init, Distinct
  <2>3. \A t \in ScanTask : tpc[t] = "none" /\ tid[t] = 0 /\ found[t] = {}
    BY DEF Init
  <2>4. QED
    BY <2>2, <2>3, ConstantsAssumption DEF ScanInv, Scanned, Id
<1>2. TypeOK /\ ControlInv /\ CommandInv /\ ScanInv /\ [Next]_vars => ScanInv'
  BY ScanInvStep
<1>3. TypeOK /\ ScanInv => ScanExact
  <2> SUFFICES ASSUME TypeOK, ScanInv, NEW t \in ScanTask, tpc[t] \in {"clear", "finish"}, ~aborted[t]
               PROVE  /\ \A id \in found[t] : Used(id)
                      /\ \A s \in Servo : reg[s]["ID"] \in found[t] \cup missed
    BY DEF ScanExact, Used
  <2>1. /\ tid[t] > MaxId /\ MaxId \in Nat /\ tid[t] \in Nat
        /\ \A s \in Servo : reg[s]["ID"] \in 0..MaxId
    BY ConstantsAssumption DEF ScanInv, Scanned, Id, TypeOK
  <2>2. \A s \in Servo : reg[s]["ID"] < tid[t]
    BY <2>1
  <2>3. QED
    BY <2>2 DEF ScanInv, Scanned
<1>4. QED
  BY <1>1, <1>2, <1>3, CommandInit, CommandStep, ControlAlways, TypeCorrect, PTL DEF Spec

=============================================================================
