--------------------------- MODULE ServoBusProofs ---------------------------
(***************************************************************************)
(* Proofs about ServoBus, for any number of servos, addresses and scan     *)
(* tasks, any set of requests and any combination of faults.               *)
(***************************************************************************)
EXTENDS ServoBus, TLAPS

-----------------------------------------------------------------------------
(* Part 1: the types of registers, packets and commands.                   *)

LEMMA ValuesAre ==
  /\ Values["ID"] = Addr /\ Values["TORQUE"] = Bit /\ Values["LOCK"] = Bit
  /\ Values["HEAD"] = Stamp /\ Values["TAIL"] = Stamp
BY DEF Values, Reg

LEMMA StampsAreAddr == Stamp \subseteq Addr /\ Bit \subseteq Addr /\ Id \subseteq Addr /\ FactoryId \in Id
BY ConstantsAssumption DEF Stamp, Own, Image, Factory, Bit, Addr, Id, Broadcast, FactoryId

LEMMA SetType ==
  ASSUME NEW r \in Reg, NEW v \in Values[r]
  PROVE  Set(r, v) \in Writes
<1>1. v \in Addr
  BY ValuesAre, StampsAreAddr DEF Reg
<1>2. Set(r, v) \in [{r} -> Addr]
  BY <1>1 DEF Set
<1>3. {r} \in SUBSET Reg
  OBVIOUS
<1>4. \A x \in DOMAIN Set(r, v) : Set(r, v)[x] \in Values[x]
  BY DEF Set
<1>5. QED
  BY <1>2, <1>3, <1>4 DEF Writes

LEMMA NothingType == Nothing \in Writes
<1>1. Nothing \in [{} -> Addr] /\ DOMAIN Nothing = {}
  BY DEF Nothing
<1>2. {} \in SUBSET Reg
  OBVIOUS
<1>3. QED
  BY <1>1, <1>2 DEF Writes

LEMMA WrittenType ==
  ASSUME NEW f \in RegFile, NEW w \in Writes
  PROVE  Written(f, w) \in RegFile
<1>1. \A r \in DOMAIN w : w[r] \in Values[r]
  BY DEF Writes
<1>2. \A r \in Reg : f[r] \in Values[r]
  BY DEF RegFile
<1>3. \A r \in Reg : Values[r] \subseteq Addr
  BY ValuesAre, StampsAreAddr DEF Reg
<1>4. \A r \in Reg : Written(f, w)[r] \in Values[r]
  BY <1>1, <1>2 DEF Written
<1>5. Written(f, w) \in [Reg -> Addr]
  BY <1>1, <1>2, <1>3 DEF Written
<1>6. QED
  BY <1>4, <1>5 DEF RegFile

LEMMA ResetType ==
  ASSUME NEW f \in RegFile
  PROVE  ResetFile(f) \in RegFile
<1>1. f \in [Reg -> Addr] /\ \A r \in Reg : f[r] \in Values[r]
  BY DEF RegFile
<1>2. FactoryId \in Addr /\ Factory \in Stamp /\ 0 \in Bit /\ 1 \in Bit
  BY StampsAreAddr DEF Stamp, Bit
<1>3. ResetFile(f) \in [Reg -> Addr]
  BY <1>1, <1>2, StampsAreAddr DEF ResetFile
<1>4. \A r \in Reg : ResetFile(f)[r] \in Values[r]
  BY <1>1, <1>2, ValuesAre DEF ResetFile, Reg
<1>5. QED
  BY <1>3, <1>4 DEF RegFile

LEMMA WriteType ==
  ASSUME NEW id \in Addr, NEW w \in Writes, NEW f \in {"ignore", "note", "stop"}
  PROVE  Write(id, w, f) \in Packet
BY DEF Write, Packet

LEMMA PacketTypes ==
  ASSUME NEW id \in Addr, NEW b \in BOOLEAN
  PROVE  /\ Ping(id, b) \in Packet /\ Read(id) \in Packet /\ Reset(id) \in Packet
         /\ Unlock(id) \in Packet /\ Lock(id) \in Packet
<1>1. Ping(id, b) \in Packet /\ Read(id) \in Packet /\ Reset(id) \in Packet
  BY NothingType DEF Ping, Read, Reset, Packet
<1>2. Set("LOCK", 0) \in Writes /\ Set("LOCK", 1) \in Writes
  BY SetType, ValuesAre DEF Reg, Bit
<1>3. QED
  BY <1>1, <1>2, WriteType DEF Unlock, Lock

LEMMA SequenceType ==
  ASSUME NEW S, NEW n \in Nat, NEW f \in [1..n -> S]
  PROVE  f \in Seq(S)
OBVIOUS

LEMMA TupleTypes ==
  ASSUME NEW S, NEW a \in S, NEW b \in S, NEW c \in S, NEW d \in S, NEW e \in S, NEW f \in S
  PROVE  /\ << >> \in Seq(S) /\ << a >> \in Seq(S)
         /\ << a, b >> \in Seq(S) /\ << a, b, c >> \in Seq(S)
         /\ << a, b, c, d >> \in Seq(S) /\ << a, b, c, d, e, f >> \in Seq(S)
OBVIOUS

LEMMA JoinType ==
  ASSUME NEW S, NEW s \in Seq(S), NEW t \in Seq(S)
  PROVE  s \o t \in Seq(S)
OBVIOUS

(* What each command sends, one equation per command.                      *)
LEMMA ProgramIs ==
  ASSUME NEW c, NEW known
  PROVE  /\ c.op \in {"malformed", "scan"} => ProgramOf(c, known) = << >>
         /\ c.op = "set_id" /\ Malformed(c) => ProgramOf(c, known) = << >>
         /\ c.op = "emergency_stop" => ProgramOf(c, known) = EstopProgram(known)
         /\ c.op = "get_state" => ProgramOf(c, known) = GetStateProgram(known)
         /\ c.op = "health" => ProgramOf(c, known) = HealthProgram(known)
         /\ c.op = "move" => ProgramOf(c, known) = MoveProgram(c)
         /\ c.op = "sync_move" => ProgramOf(c, known) = SyncMoveProgram
         /\ c.op = "set_torque" => ProgramOf(c, known) = SetTorqueProgram(c)
         /\ c.op = "read_reg" => ProgramOf(c, known) = ReadRegProgram(c)
         /\ c.op = "write_reg" => ProgramOf(c, known) = WriteRegProgram(c)
         /\ c.op = "set_id" /\ ~Malformed(c) => ProgramOf(c, known) = SetIdProgram(c)
         /\ c.op = "backup" => ProgramOf(c, known) = BackupProgram(c)
         /\ c.op = "restore" => ProgramOf(c, known) = RestoreProgram(c)
         /\ c.op = "factory_reset" => ProgramOf(c, known) = FactoryResetProgram(c)
BY DEF ProgramOf

(* Every command sends packets of the type a servo understands.            *)
LEMMA ProgramType ==
  ASSUME NEW c \in Command, NEW known \in Seq(Id)
  PROVE  ProgramOf(c, known) \in Seq(Packet)
<1>1. Len(known) \in Nat /\ \A i \in 1..Len(known) : known[i] \in Addr
  BY StampsAreAddr
<1>2. /\ Set("TORQUE", 0) \in Writes /\ Set("TORQUE", 1) \in Writes
      /\ Set("TAIL", Image) \in Writes /\ Set("HEAD", Image) \in Writes
      /\ \A v \in Addr : Set("ID", v) \in Writes
  BY SetType, ValuesAre DEF Reg, Bit, Stamp
<1>3. FactoryId \in Addr /\ Broadcast \in Addr
  BY StampsAreAddr, ConstantsAssumption DEF Addr, Broadcast, FactoryId
<1>4. CASE c.op \in {"malformed", "scan"}
  <2>1. ProgramOf(c, known) = << >>
    BY <1>4, ProgramIs
  <2>2. QED
    BY <2>1
<1>5. CASE c.op = "emergency_stop"
  <2>1. ProgramOf(c, known) = EstopProgram(known)
    BY <1>5, ProgramIs
  <2>2. \A i \in 1..Len(known) : Write(known[i], Set("TORQUE", 0), "note") \in Packet
    BY <1>1, <1>2, WriteType
  <2>3. EstopProgram(known) \in [1..Len(known) -> Packet]
    BY <2>2 DEF EstopProgram
  <2>4. EstopProgram(known) \in Seq(Packet)
    BY <1>1, <2>3, SequenceType
  <2>5. QED
    BY <2>1, <2>4
<1>6. CASE c.op = "get_state"
  <2>1. ProgramOf(c, known) = GetStateProgram(known)
    BY <1>6, ProgramIs
  <2>2. \A i \in 1..Len(known) : Read(known[i]) \in Packet
    BY <1>1, PacketTypes
  <2>3. GetStateProgram(known) \in [1..Len(known) -> Packet]
    BY <2>2 DEF GetStateProgram
  <2>4. GetStateProgram(known) \in Seq(Packet)
    BY <1>1, <2>3, SequenceType
  <2>5. QED
    BY <2>1, <2>4
<1>7. CASE c.op = "health"
  <2>1. ProgramOf(c, known) = HealthProgram(known)
    BY <1>7, ProgramIs
  <2>2. CASE known = << >>
    BY <2>1, <2>2 DEF HealthProgram
  <2>3. CASE known # << >>
    <3>1. known[1] \in Addr
      BY <2>3, <1>1
    <3>2. Ping(known[1], TRUE) \in Packet
      BY <3>1, PacketTypes
    <3>3. << Ping(known[1], TRUE) >> \in Seq(Packet)
      BY <3>2, TupleTypes
    <3>4. QED
      BY <2>1, <2>3, <3>3 DEF HealthProgram
  <2>4. QED
    BY <2>2, <2>3
<1>8. CASE c.op \in {"move", "set_torque", "read_reg", "backup", "factory_reset"}
  <2>1. c.id \in Addr /\ (c.op = "set_torque" => c.on \in {0, 1})
    BY <1>8 DEF Command, Bit
  <2>2. /\ Write(c.id, Nothing, "note") \in Packet
        /\ c.op = "set_torque" => Write(c.id, Set("TORQUE", c.on), "note") \in Packet
    BY <2>1, <1>2, NothingType, WriteType
  <2>3. /\ Ping(c.id, TRUE) \in Packet /\ Read(c.id) \in Packet /\ Reset(c.id) \in Packet
        /\ Lock(c.id) \in Packet /\ Unlock(FactoryId) \in Packet
    BY <2>1, <1>3, PacketTypes
  <2>4. Write(FactoryId, Set("ID", c.id), "ignore") \in Packet
    BY <2>1, <1>2, <1>3, WriteType
  <2>5. FactoryResetProgram(c) \in Seq(Packet)
    <3>1. /\ << Ping(c.id, TRUE), Reset(c.id) >> \in Seq(Packet)
          /\ << Unlock(FactoryId), Write(FactoryId, Set("ID", c.id), "ignore"),
                Lock(c.id) >> \in Seq(Packet)
          /\ << >> \in Seq(Packet)
      BY <2>3, <2>4, TupleTypes
    <3>2. QED
      BY <3>1, JoinType DEF FactoryResetProgram
  <2>6. /\ MoveProgram(c) \in Seq(Packet)
        /\ ReadRegProgram(c) \in Seq(Packet)
        /\ BackupProgram(c) \in Seq(Packet)
        /\ c.op = "set_torque" => SetTorqueProgram(c) \in Seq(Packet)
    BY <2>2, <2>3, TupleTypes DEF MoveProgram, ReadRegProgram, BackupProgram, SetTorqueProgram
  <2>7. \/ ProgramOf(c, known) = MoveProgram(c)
        \/ ProgramOf(c, known) = ReadRegProgram(c)
        \/ ProgramOf(c, known) = BackupProgram(c)
        \/ ProgramOf(c, known) = FactoryResetProgram(c)
        \/ c.op = "set_torque" /\ ProgramOf(c, known) = SetTorqueProgram(c)
    BY <1>8, ProgramIs
  <2>8. QED
    BY <2>5, <2>6, <2>7
<1>9. CASE c.op = "sync_move"
  <2>1. ProgramOf(c, known) = SyncMoveProgram
    BY <1>9, ProgramIs
  <2>2. Write(Broadcast, Nothing, "note") \in Packet
    BY <1>3, NothingType, WriteType
  <2>3. SyncMoveProgram \in Seq(Packet)
    BY <2>2, TupleTypes DEF SyncMoveProgram
  <2>4. QED
    BY <2>1, <2>3
<1>10. CASE c.op = "write_reg"
  <2>1. ProgramOf(c, known) = WriteRegProgram(c)
    BY <1>10, ProgramIs
  <2>2. c.id \in Addr /\ c.write \in Writes
    BY <1>10 DEF Command
  <2>3. Write(c.id, c.write, "note") \in Packet
    BY <2>2, WriteType
  <2>4. Lock(c.id) \in Packet /\ Unlock(c.id) \in Packet
    BY <2>2, PacketTypes
  <2>5. WriteRegProgram(c) \in Seq(Packet)
    BY <2>3, <2>4 DEF WriteRegProgram
  <2>6. QED
    BY <2>1, <2>5
<1>11. CASE c.op = "set_id"
  <2>1. ProgramOf(c, known) = SetIdProgram(c) \/ ProgramOf(c, known) = << >>
    BY <1>11, ProgramIs
  <2>2. c.id \in Addr /\ c.new \in Addr
    BY <1>11 DEF Command
  <2>3. /\ Ping(c.id, TRUE) \in Packet /\ Ping(c.new, FALSE) \in Packet
        /\ Ping(c.new, TRUE) \in Packet
        /\ Lock(c.new) \in Packet /\ Unlock(c.id) \in Packet
    BY <2>2, PacketTypes
  <2>4. Write(c.id, Set("ID", c.new), "note") \in Packet
    BY <2>2, <1>2, WriteType
  <2>5. SetIdProgram(c) \in Seq(Packet)
    <3>1. /\ << Ping(c.id, TRUE) >> \in Seq(Packet)
          /\ << Ping(c.id, TRUE), Ping(c.new, FALSE) >> \in Seq(Packet)
          /\ << Unlock(c.id), Write(c.id, Set("ID", c.new), "note"),
                Lock(c.new), Ping(c.new, TRUE) >> \in Seq(Packet)
      BY <2>3, <2>4, TupleTypes
    <3>2. QED
      BY <3>1, JoinType DEF SetIdProgram
  <2>6. << >> \in Seq(Packet)
    OBVIOUS
  <2>7. QED
    BY <2>1, <2>5, <2>6
<1>12. CASE c.op = "restore"
  <2>1. c.id \in Addr /\ c.new \in Addr /\ c.torque \in {0, 1}
    BY <1>12 DEF Command, Bit
  <2>2. [r \in {"ID", "HEAD"} |-> IF r = "ID" THEN c.new ELSE Image] \in Writes
    <3> DEFINE w == [r \in {"ID", "HEAD"} |-> IF r = "ID" THEN c.new ELSE Image]
    <3>1. w \in [{"ID", "HEAD"} -> Addr] /\ DOMAIN w = {"ID", "HEAD"}
      BY <2>1, StampsAreAddr DEF Stamp
    <3>2. w["ID"] \in Values["ID"] /\ w["HEAD"] \in Values["HEAD"]
      BY <2>1, ValuesAre DEF Stamp
    <3>3. {"ID", "HEAD"} \in SUBSET Reg
      BY DEF Reg
    <3> HIDE DEF w
    <3>4. w \in Writes
      BY <3>1, <3>2, <3>3 DEF Writes
    <3>5. QED
      BY <3>4 DEF w
  <2>3. RestoreHead(c) \in Writes
    BY <2>2, <1>2 DEF RestoreHead
  <2>4. Ping(c.id, TRUE) \in Packet /\ Unlock(c.id) \in Packet /\ Lock(c.id) \in Packet
    BY <2>1, PacketTypes
  <2>5. /\ Write(c.id, RestoreHead(c), "ignore") \in Packet
        /\ Write(c.id, Set("TAIL", Image), "ignore") \in Packet
        /\ Write(c.id, Set("TORQUE", c.torque), "ignore") \in Packet
    BY <2>1, <2>3, <1>2, WriteType
  <2>6. RestoreProgram(c) \in Seq(Packet)
    BY <2>4, <2>5, TupleTypes DEF RestoreProgram
  <2>7. ProgramOf(c, known) = RestoreProgram(c)
    BY <1>12, ProgramIs
  <2>8. QED
    BY <2>6, <2>7
<1>13. QED
  BY <1>4, <1>5, <1>6, <1>7, <1>8, <1>9, <1>10, <1>11, <1>12 DEF Command

-----------------------------------------------------------------------------
(* Part 2: type correctness.                                               *)

LEMMA CommissionedType ==
  ASSUME NEW id \in Id, NEW on \in Bit
  PROVE  Commissioned(id, on) \in RegFile
<1> DEFINE f == Commissioned(id, on)
<1>1. /\ f["ID"] = id /\ f["HEAD"] = Own /\ f["TAIL"] = Own
      /\ f["TORQUE"] = on /\ f["LOCK"] = 1 /\ f = [r \in Reg |-> f[r]]
  BY DEF Commissioned, Reg
<1> HIDE DEF f
<1>2. \A r \in Reg : f[r] \in Values[r] /\ f[r] \in Addr
  BY <1>1, ValuesAre, StampsAreAddr DEF Reg, Stamp, Bit
<1>3. f \in RegFile
  BY <1>1, <1>2 DEF RegFile
<1>4. QED
  BY <1>3 DEF f

(* What a packet does to the servos keeps them in their type.              *)
LEMMA EffectType ==
  ASSUME reg \in [Servo -> RegFile], NEW p \in Packet, NEW reached
  PROVE  Effect(p, reached) \in [Servo -> RegFile]
<1>1. p.write \in Writes
  BY DEF Packet
<1>2. \A s \in Servo : /\ reg[s] \in RegFile
                       /\ Written(reg[s], p.write) \in RegFile
                       /\ ResetFile(reg[s]) \in RegFile
  BY <1>1, WrittenType, ResetType
<1>3. QED
  BY <1>2 DEF Effect

(* The idle httpd.                                                         *)
LEMMA IdleType ==
  ASSUME NEW known \in Seq(Id)
  PROVE  NoCommand \in Command /\ ProgramOf(NoCommand, known) = << >>
<1>1. NoCommand.op = "malformed"
  BY DEF NoCommand
<1>2. NoCommand \in Command
  BY DEF NoCommand, Command
<1>3. QED
  BY <1>1, <1>2, ProgramIs

(* TypeOK alone is not inductive: that the scan stays within the addresses *)
(* takes the check it makes before it asks for the bus.                    *)
ScanBounded ==
  \A t \in ScanTask : tpc[t] \in {"lock", "ping", "unlock"} => tid[t] \in Id

TypeInv == TypeOK /\ ScanBounded

LEMMA TypeInit == Init => TypeInv
<1> SUFFICES ASSUME Init PROVE TypeInv
  OBVIOUS
<1>1. reg \in [Servo -> RegFile]
  BY CommissionedType DEF Init
<1>2. Addresses \in [Servo -> Addr]
  BY <1>1 DEF Addresses, RegFile, Reg
<1>3. servo_ids \in Seq(Id)
  BY ConstantsAssumption DEF Init
<1>4. Program = << >> /\ cmd \in Command
  BY <1>3, IdleType DEF Init, Program
<1>5. step \in 1..(Len(Program) + 1)
  BY <1>4 DEF Init
<1>6. /\ bus_mutex = "free" /\ abort_scan \in BOOLEAN /\ scan_in_progress \in BOOLEAN
      /\ hpc \in HttpdPlace /\ ok \in BOOLEAN
      /\ estopSeen \in BOOLEAN /\ latePings \in Nat
  BY DEF Init, HttpdPlace
<1>7. /\ tpc \in [ScanTask -> ScanPlace] /\ tid \in [ScanTask -> 0..(MaxId + 1)]
      /\ found \in [ScanTask -> SUBSET Id] /\ aborted \in [ScanTask -> BOOLEAN]
  BY ConstantsAssumption DEF Init, ScanPlace
<1>8. QED
  BY <1>1, <1>2, <1>3, <1>4, <1>5, <1>6, <1>7 DEF TypeInv, ScanBounded, TypeOK, Init

(* Receiving a command, or answering one.                                  *)
LEMMA TypeHttpd ==
  ASSUME TypeOK,
         \/ \E c \in Request : Receive(c)
         \/ EstopCheck \/ EstopAbort \/ BusLock \/ BusLockTimeout \/ Answer
         \/ ScanCommand \/ SpawnFails \/ \E t \in ScanTask : Spawn(t)
  PROVE  TypeOK'
<1>1. /\ servo_ids' = servo_ids /\ servo_ids \in Seq(Id)
      /\ reg' = reg /\ Addresses \in [Servo -> Addr]
  BY DEF TypeOK, Receive, EstopCheck, EstopAbort, BusLock, BusLockTimeout, Answer,
         ScanCommand, SpawnFails, Spawn, scanVars, Addresses, RegFile, Reg
<1>2. /\ Len(ProgramOf(NoCommand, servo_ids)) = 0 /\ NoCommand \in Command
      /\ \A c \in Command : Len(ProgramOf(c, servo_ids)) \in Nat
  BY <1>1, IdleType, ProgramType
<1>3. /\ cmd' \in Command /\ ok' \in BOOLEAN /\ hpc' \in HttpdPlace
      /\ step' \in 1..(Len(Program') + 1)
  <2> USE <1>1, <1>2, ConstantsAssumption DEF Program
  <2>1. ASSUME NEW c \in Request, Receive(c)
        PROVE  /\ cmd' \in Command /\ ok' \in BOOLEAN /\ hpc' \in HttpdPlace
               /\ step' \in 1..(Len(Program') + 1)
    BY <2>1 DEF Receive, TypeOK, HttpdPlace
  <2>2. CASE UNCHANGED << cmd, step, ok >> /\ hpc' \in HttpdPlace
    BY <2>2 DEF TypeOK
  <2>3. CASE Respond
    BY <2>3 DEF Respond, HttpdPlace
  <2>4. CASE UNCHANGED << cmd, step >> /\ hpc' = "forced" /\ ok' = FALSE
    BY <2>4 DEF TypeOK, HttpdPlace
  <2>5. QED
    BY <2>1, <2>2, <2>3, <2>4 DEF EstopCheck, EstopAbort, BusLock, BusLockTimeout, Answer,
       ScanCommand, SpawnFails, Spawn, HttpdPlace
<1> USE DEF Receive, EstopCheck, EstopAbort, BusLock, BusLockTimeout, Answer, ScanCommand,
            SpawnFails, Spawn, scanVars, historyVars, flagVars
<1>4. /\ bus_mutex' \in {"free", "httpd"} \cup ScanTask
      /\ UNCHANGED << tid, found, aborted >>
      /\ latePings' \in Nat
  BY DEF TypeOK
<1>5. tpc' \in [ScanTask -> ScanPlace]
  BY DEF TypeOK, ScanPlace
<1>6. idsBefore' \in [Servo -> Addr]
  BY <1>1 DEF TypeOK
<1>7. abort_scan' \in BOOLEAN /\ scan_in_progress' \in BOOLEAN /\ estopSeen' \in BOOLEAN
  BY Zenon DEF TypeOK
<1>8. missed' \subseteq Id /\ lost' \subseteq Nat /\ unsent' \subseteq Nat
  <2>1. /\ missed' = missed \/ missed' = {}
        /\ lost' = lost \/ lost' = {}
        /\ unsent' = unsent \/ unsent' = {}
    BY Zenon
  <2>2. QED
    BY <2>1 DEF TypeOK
<1>9. astray' \subseteq Servo
  <2>1. astray' = astray \/ astray' = astray \cup Heard(cmd.id)
    BY Zenon
  <2>2. Heard(cmd.id) \subseteq Servo
    BY DEF Heard
  <2>3. QED
    BY <2>1, <2>2 DEF TypeOK
<1>10. clashed' \in BOOLEAN
  <2>1. clashed' = clashed \/ clashed' = (clashed \/ Clashes(cmd))
    BY Zenon
  <2>2. QED
    BY <2>1, Zenon DEF TypeOK
<1>11. QED
  BY <1>1, <1>3, <1>4, <1>5, <1>6, <1>7, <1>8, <1>9, <1>10 DEF TypeOK

LEMMA TypePackets ==
  ASSUME TypeOK, Transmit \/ SendFails
  PROVE  TypeOK'
<1>1. Program \in Seq(Packet)
  BY ProgramType DEF TypeOK, Program
<1>2. /\ UNCHANGED << bus_mutex, servo_ids, abort_scan, scan_in_progress, hpc, cmd >>
      /\ UNCHANGED << tpc, tid, found, aborted, estopSeen, latePings, missed, idsBefore >>
      /\ Program' = Program /\ UNCHANGED << clashed, astray >>
      /\ lost' \in {lost, lost \cup {step}} /\ unsent' \in {unsent, unsent \cup {step}}
  BY Zenon DEF TypeOK, Transmit, SendFails, flagVars, scanVars, historyVars, Program
<1>3. step \in 1..Len(Program) /\ Program[step] \in Packet
  BY <1>1 DEF Transmit, SendFails, Ended, TypeOK
<1>4. reg' \in [Servo -> RegFile]
  BY <1>3, EffectType DEF Transmit, SendFails, TypeOK
<1>5. \/ GoOn \/ GiveUp \/ Note
  BY Zenon DEF Transmit, SendFails, Fails
<1>6. step' \in 1..(Len(Program) + 1)
  BY <1>1, <1>3, <1>5 DEF GoOn, GiveUp, Note
<1>7. ok' \in BOOLEAN
  BY <1>5, Zenon DEF GoOn, GiveUp, Note, TypeOK
<1>8. lost' \subseteq Nat /\ unsent' \subseteq Nat
  BY <1>2, <1>3 DEF TypeOK
<1>9. QED
  BY <1>2, <1>4, <1>6, <1>7, <1>8 DEF TypeOK

LEMMA TypeScan ==
  ASSUME TypeInv, NEW t \in ScanTask, ScanStep(t)
  PROVE  TypeInv'
<1> USE ConstantsAssumption
        DEF TypeInv, ScanStep, ScanCheck, ScanLock, ScanLockTimeout, ScanPing, ScanUnlock,
            ScanReport, ScanClearAbort, ScanFinish, At, httpdVars, scanVars, historyVars, flagVars
<1>1. UNCHANGED << reg, servo_ids, hpc, cmd, step, ok, estopSeen, idsBefore, lost, unsent,
                   clashed, astray >>
  BY Zenon
<1>2. Program' = Program
  BY <1>1 DEF Program
<1>3. /\ bus_mutex' \in {"free", "httpd"} \cup ScanTask
      /\ latePings' \in Nat
  <2>1. bus_mutex' \in {bus_mutex, "free", t} /\ latePings' \in {latePings, latePings + 1}
    BY Zenon
  <2>2. QED
    BY <2>1 DEF TypeOK
<1>4. tpc' \in [ScanTask -> ScanPlace]
  BY DEF TypeOK, ScanPlace
<1> DEFINE bounded == tpc[t] \in {"lock", "ping", "unlock"} => tid[t] \in Id
<1>5. bounded
  BY DEF ScanBounded
<1>6. tid \in [ScanTask -> 0..(MaxId + 1)] /\ found \in [ScanTask -> SUBSET Id]
  BY DEF TypeOK
<1>7. tid' \in [ScanTask -> 0..(MaxId + 1)]
  <2>1. \/ tid' = tid
        \/ tpc[t] \in {"lock", "unlock"} /\ tid' = [tid EXCEPT ![t] = @ + 1]
        \/ tid' = [tid EXCEPT ![t] = 0]
    BY Zenon
  <2>2. CASE tpc[t] \in {"lock", "unlock"} /\ tid' = [tid EXCEPT ![t] = @ + 1]
    BY <1>5, <1>6, <2>2 DEF Id
  <2>3. QED
    BY <1>6, <2>1, <2>2
<1>8. found' \in [ScanTask -> SUBSET Id]
  <2>1. \/ found' = found
        \/ tpc[t] = "ping" /\ found' = [found EXCEPT ![t] = @ \cup {tid[t]}]
        \/ found' = [found EXCEPT ![t] = {}]
    BY Zenon
  <2>2. QED
    BY <1>5, <1>6, <2>1
<1>9. missed' \subseteq Id
  <2>1. missed \subseteq Id
    BY DEF TypeOK
  <2>2. \/ missed' = missed
        \/ tpc[t] \in {"lock", "ping"} /\ missed' = missed \cup {tid[t]}
    BY Zenon
  <2>3. QED
    BY <1>5, <2>1, <2>2
<1>10. aborted' \in [ScanTask -> BOOLEAN]
  <2>1. \/ UNCHANGED aborted
        \/ \E b \in BOOLEAN : aborted' = [aborted EXCEPT ![t] = b]
    BY Zenon DEF TypeOK
  <2>2. aborted \in [ScanTask -> BOOLEAN]
    BY DEF TypeOK
  <2>3. QED
    BY <2>1, <2>2
<1>11. abort_scan' \in BOOLEAN /\ scan_in_progress' \in BOOLEAN
  BY Zenon DEF TypeOK
<1>12. TypeOK'
  BY <1>1, <1>2, <1>3, <1>4, <1>7, <1>8, <1>9, <1>10, <1>11 DEF TypeOK
<1>13. ScanBounded'
  <2>1. tpc \in [ScanTask -> ScanPlace]
    BY DEF TypeOK
  <2>2. \A u \in ScanTask : u # t => tpc'[u] = tpc[u] /\ tid'[u] = tid[u]
    BY <1>6, <2>1
  <2>3. tpc'[t] \in {"lock", "ping", "unlock"} => tid'[t] \in Id
    <3>1. CASE ScanCheck(t)
      BY <1>6, <2>1, <3>1 DEF Id
    <3>2. CASE ScanLock(t) \/ ScanPing(t)
      BY <1>5, <2>1, <3>2
    <3>3. CASE tpc'[t] \in {"check", "clear", "finish", "none"}
      BY <3>3
    <3>4. QED
      BY <2>1, <3>1, <3>2, <3>3
  <2>4. QED
    BY <2>2, <2>3 DEF ScanBounded
<1>14. QED
  BY <1>12, <1>13

LEMMA TypeReboot ==
  ASSUME TypeInv, Reboot
  PROVE  TypeInv'
<1>1. /\ reg' = reg /\ reg \in [Servo -> RegFile] /\ servo_ids' \in Seq(Id)
      /\ abort_scan' = FALSE /\ scan_in_progress' = FALSE /\ bus_mutex' = "free"
      /\ hpc' = "idle" /\ cmd' = NoCommand /\ step' = 1 /\ ok' = TRUE
      /\ estopSeen' = FALSE /\ latePings' = 0 /\ missed' = {}
      /\ idsBefore' = Addresses /\ lost' = {} /\ unsent' = {}
      /\ clashed' \in BOOLEAN /\ astray' \subseteq Servo
  BY ConstantsAssumption DEF TypeInv, TypeOK, Reboot, Respond
<1>2. /\ tpc' \in [ScanTask -> ScanPlace] /\ tid' \in [ScanTask -> 0..(MaxId + 1)]
      /\ found' \in [ScanTask -> SUBSET Id]
      /\ \A t \in ScanTask : tpc'[t] = "none"
  BY ConstantsAssumption DEF Reboot, ScanPlace
<1>3. aborted' \in [ScanTask -> BOOLEAN]
  BY DEF Reboot
<1>4. Program' = << >> /\ NoCommand \in Command
  BY <1>1, IdleType DEF Program
<1>5. Addresses \in [Servo -> Addr]
  BY <1>1 DEF Addresses, RegFile, Reg
<1>6. step' \in 1..(Len(Program') + 1)
  BY <1>1, <1>4
<1>7. QED
  BY <1>1, <1>2, <1>3, <1>4, <1>5, <1>6 DEF TypeInv, TypeOK, ScanBounded, HttpdPlace

LEMMA TypeNext == TypeInv /\ [Next]_vars => TypeInv'
<1> SUFFICES ASSUME TypeInv, [Next]_vars PROVE TypeInv'
  OBVIOUS
<1>1. ASSUME HttpdStep \/ \E c \in Request : Receive(c) PROVE TypeInv'
  <2>1. TypeOK'
    BY <1>1, TypeHttpd, TypePackets DEF HttpdStep, TypeInv
  <2>2. /\ tid' = tid
        /\ UNCHANGED tpc \/ \E t \in ScanTask : tpc' = [tpc EXCEPT ![t] = "check"]
    BY <1>1, Zenon DEF HttpdStep, Receive, EstopCheck, EstopAbort, BusLock, BusLockTimeout,
       Answer, ScanCommand, SpawnFails, Spawn, Transmit, SendFails, scanVars
  <2>3. tpc \in [ScanTask -> ScanPlace]
    BY DEF TypeInv, TypeOK
  <2>4. QED
    BY <2>1, <2>2, <2>3 DEF TypeInv, ScanBounded
<1>2. CASE \E t \in ScanTask : ScanStep(t)
  BY <1>2, TypeScan
<1>3. CASE Reboot
  BY <1>3, TypeReboot
<1>4. CASE UNCHANGED vars
  BY <1>4, Zenon DEF vars, httpdVars, scanVars, flagVars, historyVars, TypeInv, TypeOK,
              ScanBounded, Program
<1>5. QED
  BY <1>1, <1>2, <1>3, <1>4 DEF Next

(* Every variable keeps its type: no packet counter runs past its command, *)
(* no scan past the last address, whatever is received, lost or restarted. *)
THEOREM TypeCorrect == Spec => []TypeOK
<1>1. TypeInv => TypeOK
  BY DEF TypeInv
<1>2. QED
  BY <1>1, TypeInit, TypeNext, PTL DEF Spec

-----------------------------------------------------------------------------
(* Part 3: the mutex, the scan flags and the emergency stop.  None of this *)
(* depends on what the packets do, so the steps of httpd that only send    *)
(* packets are one case.                                                   *)

(* Who holds the mutex, read off the program counters.                     *)
MutexInv ==
  /\ bus_mutex = "httpd" <=> hpc \in {"run", "scan"}
  /\ \A t \in ScanTask : bus_mutex = t <=> OnUart(t)

(* A leftover signal may stay in abort_scan, but not beyond the start of   *)
(* the next scan.                                                          *)
AbortInv ==
  /\ abort_scan => estopSeen
  /\ hpc = "spawn" => scan_in_progress /\ ~abort_scan /\ latePings = 0

(* After the one late ping no task is on its way to another: a task that   *)
(* has yet to check the flag will find it set.                             *)
LateInv ==
  /\ latePings \in {0, 1}
  /\ latePings = 1 => \A t \in ScanTask :
       /\ tpc[t] \notin {"lock", "ping"}
       /\ tpc[t] \in {"unlock", "check"} => abort_scan

ControlInv ==
  /\ MutexInv
  /\ OneScan
  /\ AbortInv
  /\ AbortedByEstop
  /\ LateInv

LEMMA ControlInit == Init => ControlInv
BY ConstantsAssumption
   DEF Init, ControlInv, MutexInv, OneScan, AbortInv, AbortedByEstop, LateInv,
       OnUart, ScanPlace

(* The steps that leave the scan tasks, the flags and the mutex alone and  *)
(* keep httpd in its place.                                                *)
LEMMA ControlPackets ==
  ASSUME ControlInv, Transmit \/ SendFails
  PROVE  ControlInv'
<1>1. UNCHANGED << bus_mutex, flagVars, hpc, scanVars, estopSeen, latePings >>
  BY Zenon DEF Transmit, SendFails, historyVars
<1>2. QED
  BY <1>1 DEF ControlInv, MutexInv, OneScan, AbortInv, AbortedByEstop, LateInv,
              OnUart, flagVars, scanVars, historyVars

LEMMA ControlHttpd ==
  ASSUME TypeOK, ControlInv,
         \/ \E c \in Request : Receive(c)
         \/ EstopCheck \/ EstopAbort \/ BusLock \/ BusLockTimeout \/ Answer
  PROVE  ControlInv'
<1> USE ConstantsAssumption
        DEF ControlInv, MutexInv, OneScan, AbortInv, AbortedByEstop, LateInv,
            OnUart, flagVars, scanVars, historyVars, Respond, ScanPlace
<1> tpc \in [ScanTask -> ScanPlace] /\ aborted \in [ScanTask -> BOOLEAN]
  BY DEF TypeOK
<1>1. ASSUME NEW c \in Request, Receive(c) PROVE ControlInv'
  BY <1>1 DEF Receive
<1>2. CASE EstopCheck
  BY <1>2 DEF EstopCheck
<1>3. CASE EstopAbort
  BY <1>3 DEF EstopAbort
<1>4. CASE BusLock
  BY <1>4 DEF BusLock
<1>5. CASE BusLockTimeout
  BY <1>5 DEF BusLockTimeout
<1>6. CASE Answer
  BY <1>6 DEF Answer
<1>7. QED
  BY <1>1, <1>2, <1>3, <1>4, <1>5, <1>6

LEMMA ControlStart ==
  ASSUME TypeOK, ControlInv,
         ScanCommand \/ SpawnFails \/ Reboot \/ \E t \in ScanTask : Spawn(t)
  PROVE  ControlInv'
<1> USE ConstantsAssumption
        DEF ControlInv, MutexInv, OneScan, AbortInv, AbortedByEstop, LateInv,
            OnUart, flagVars, scanVars, historyVars, Respond, ScanPlace
<1> tpc \in [ScanTask -> ScanPlace] /\ aborted \in [ScanTask -> BOOLEAN]
  BY DEF TypeOK
<1>1. CASE ScanCommand
  BY <1>1 DEF ScanCommand
<1>2. CASE SpawnFails
  BY <1>2 DEF SpawnFails
<1>3. CASE Reboot
  BY <1>3 DEF Reboot
<1>4. ASSUME NEW t \in ScanTask, Spawn(t) PROVE ControlInv'
  BY <1>4 DEF Spawn
<1>5. QED
  BY <1>1, <1>2, <1>3, <1>4

LEMMA ControlScan ==
  ASSUME TypeOK, ControlInv, NEW t \in ScanTask, ScanStep(t)
  PROVE  ControlInv'
<1> USE ConstantsAssumption
        DEF ControlInv, MutexInv, OneScan, AbortInv, AbortedByEstop, LateInv,
            OnUart, flagVars, scanVars, httpdVars, historyVars, At, ScanPlace
<1> tpc \in [ScanTask -> ScanPlace] /\ aborted \in [ScanTask -> BOOLEAN]
  BY DEF TypeOK
<1>1. CASE ScanCheck(t)
  BY <1>1 DEF ScanCheck
<1>2. CASE ScanLock(t)
  BY <1>2 DEF ScanLock
<1>3. CASE ScanLockTimeout(t)
  BY <1>3 DEF ScanLockTimeout
<1>4. CASE ScanPing(t)
  BY <1>4 DEF ScanPing
<1>5. CASE ScanUnlock(t)
  BY <1>5 DEF ScanUnlock
<1>6. CASE ScanReport(t)
  <2>1. /\ aborted' = [aborted EXCEPT ![t] = abort_scan]
        /\ tpc' = [tpc EXCEPT ![t] = "clear"] /\ tpc[t] = "record"
        /\ UNCHANGED << bus_mutex, abort_scan, scan_in_progress, hpc, estopSeen, latePings >>
    BY <1>6 DEF ScanReport
  <2>3. ASSUME NEW u \in ScanTask, aborted'[u], tpc'[u] \in {"clear", "finish"}
        PROVE  estopSeen'
    <3>1. CASE u = t
      BY <2>1, <2>3, <3>1
    <3>2. CASE u # t
      BY <2>1, <2>3, <3>2
    <3>3. QED
      BY <3>1, <3>2
  <2>4. MutexInv' /\ OneScan' /\ AbortInv' /\ LateInv'
    BY <2>1
  <2>5. QED
    BY <2>3, <2>4
<1>7. CASE ScanClearAbort(t)
  BY <1>7 DEF ScanClearAbort
<1>8. CASE ScanFinish(t)
  BY <1>8 DEF ScanFinish
<1>9. QED
  BY <1>1, <1>2, <1>3, <1>4, <1>5, <1>6, <1>7, <1>8, Zenon DEF ScanStep

LEMMA ControlNext == TypeOK /\ ControlInv /\ [Next]_vars => ControlInv'
<1> SUFFICES ASSUME TypeOK, ControlInv, [Next]_vars PROVE ControlInv'
  OBVIOUS
<1>1. CASE \E c \in Request : Receive(c)
  BY <1>1, ControlHttpd
<1>2. CASE HttpdStep
  BY <1>2, ControlHttpd, ControlPackets, ControlStart DEF HttpdStep
<1>3. CASE \E t \in ScanTask : ScanStep(t)
  BY <1>3, ControlScan
<1>4. CASE Reboot
  BY <1>4, ControlStart
<1>5. CASE UNCHANGED vars
  BY <1>5 DEF vars, httpdVars, scanVars, flagVars, historyVars, ControlInv, MutexInv,
              OneScan, AbortInv, AbortedByEstop, LateInv, OnUart
<1>6. QED
  BY <1>1, <1>2, <1>3, <1>4, <1>5 DEF Next

LEMMA ControlAlways == Spec => []ControlInv
BY ControlInit, ControlNext, TypeCorrect, PTL DEF Spec

(* The UART belongs to one task at a time, whatever times out or restarts. *)
THEOREM UartIsExclusive == Spec => []UartExclusive
<1>1. ControlInv => UartExclusive
  BY ConstantsAssumption DEF ControlInv, MutexInv, UartExclusive
<1>2. QED
  BY <1>1, ControlAlways, PTL

(* Never two scans, and the flag is up for as long as one is alive.        *)
THEOREM ScansAreSingle == Spec => []OneScan
<1>1. ControlInv => OneScan
  BY DEF ControlInv
<1>2. QED
  BY <1>1, ControlAlways, PTL

(* An aborted scan was aborted by an e-stop that came after its start.     *)
THEOREM AbortsAreEstops == Spec => []AbortedByEstop
<1>1. ControlInv => AbortedByEstop
  BY DEF ControlInv
<1>2. QED
  BY <1>1, ControlAlways, PTL

(* At most one ping follows the signal of an e-stop, so the e-stop waits   *)
(* for at most one ping cycle.                                             *)
THEOREM EstopPreempts == Spec => []EstopPreemptsScan
<1>1. ControlInv => EstopPreemptsScan
  BY DEF ControlInv, LateInv, EstopPreemptsScan
<1>2. QED
  BY <1>1, ControlAlways, PTL

=============================================================================
