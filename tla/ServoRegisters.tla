---------------------------- MODULE ServoRegisters ----------------------------
(* The registers of a servo as the expert half of ServoCard in
   views/ServoControl.tsx edits them: a form filled from a read of all registers,
   buttons that write parts of it one register after the other, the table of raw
   registers, restore and factory reset.  The registers kept are those the
   hazards are about: 11 max angle, 33 mode, 41 acceleration, 46 goal speed. *)
EXTENDS ApiClient, Sequences

CONSTANTS Speed,     \* magnitudes of the wheel speed
          MaxAngle,  \* what a user enters as the max angle
          Mode       \* servo modes: 0 position, 1 and 2 wheel

Bit15 == 32768

FullAngle == 4095

Angle == 0..FullAngle

ASSUME RegistersAssumption ==
  /\ Speed \subseteq 0..(Bit15 - 1) /\ 0 \in Speed
  /\ MaxAngle \subseteq Angle /\ Mode \subseteq 0..3 /\ 0 \in Mode

VARIABLES regs,      \* the servo's registers
          form,      \* the card's fields, and regs # null as read
          writeMsg,  \* "none", "ok" or "error"
          regCalls

registerVars == <<regs, form, writeMsg, regCalls>>

\* What register 46 holds.
WheelSpeed == Speed \cup {v + Bit15 : v \in Speed}

Factory == [a \in {11, 33, 41, 46} |-> IF a = 11 THEN FullAngle ELSE 0]

RegistersInit ==
  /\ regs = Factory
  /\ form = [mode |-> 0, accel |-> 0, wheelSpeed |-> 0, wheelDir |-> "cw",
             maxAngle |-> FullAngle, posOffset |-> 0,
             read |-> FALSE, regsLoading |-> TRUE, resetting |-> FALSE]
  /\ writeMsg = "none"
  /\ regCalls = Send(NoCalls, [op |-> "read"])

-----------------------------------------------------------------------------
(* Reading. *)

\* The field of the position offset is filled from register 33, the mode.
FromRegisters(d) ==
  [form EXCEPT !.mode = d[33], !.accel = d[41],
               !.maxAngle = d[11], !.posOffset = d[33], !.read = TRUE,
               !.regsLoading = FALSE]

loadRegisters(calls) == Send(calls, [op |-> "read"])

RefreshRegisters ==
  /\ ~form.regsLoading /\ CanSend(regCalls)
  /\ regCalls' = loadRegisters(regCalls)
  /\ form' = [form EXCEPT !.regsLoading = TRUE] /\ UNCHANGED writeMsg

\* An answer without data counts as a failed read.  Either ends regsLoading, also
\* that of a read still in flight.
RegistersRead(s) ==
  /\ regCalls[s].req.op = "read"
  /\ IF Ok(regCalls, s)
     THEN form' = FromRegisters(regCalls[s].body) /\ UNCHANGED writeMsg
     ELSE /\ form' = [form EXCEPT !.regsLoading = FALSE]
          /\ writeMsg' = "error"
  /\ regCalls' = Settled(regCalls, s)

-----------------------------------------------------------------------------
(* Writing. *)

\* parseInt(x) || d: zero counts as not a number.
OrElse(x, d) == IF x = 0 THEN d ELSE x

Write(addr, data) == [addr |-> addr, data |-> data]

\* The writes of a handler are made from the fields as they are at the click and
\* sent one after the other.  Every one starts by clearing the message.
Start(writes, then) ==
  /\ CanSend(regCalls)
  /\ regCalls' = Send(regCalls, [op |-> "write", writes |-> writes, then |-> then])
  /\ writeMsg' = "none"

WheelWrites(f) ==
  << Write(41, f.accel),
     Write(46, f.wheelSpeed + IF f.wheelDir = "ccw" THEN Bit15 ELSE 0) >>

\* The speed slider is let go: the form holds what it shows.
handleWriteWheelSpeed ==
  /\ form.mode \in {1, 2} /\ Start(WheelWrites(form), form.wheelDir) /\ UNCHANGED form

\* CW and CCW set the direction and call the handler of the same render, which
\* still sees the direction before the click.
DirectionButton(dir) ==
  /\ form.mode \in {1, 2} /\ Start(WheelWrites(form), dir)
  /\ form' = [form EXCEPT !.wheelDir = dir]

handleStopWheel ==
  /\ form.mode \in {1, 2} /\ Start(<<Write(46, 0)>>, "stop") /\ UNCHANGED form

\* The goal speed is whatever the field shows: typed, or read from the register.
handleWriteMovement ==
  /\ form.mode = 0 /\ UNCHANGED form
  /\ \E v \in WheelSpeed : Start(<<Write(41, form.accel), Write(46, v)>>, "stop")

handleWriteMode == Start(<<Write(33, form.mode)>>, "stop") /\ UNCHANGED form

\* Register 33 is written from the field of the position offset.
handleWriteLimits ==
  /\ Start(<<Write(11, OrElse(form.maxAngle, FullAngle)), Write(33, form.posOffset)>>, "stop")
  /\ UNCHANGED form

\* The table, once a read filled it: whatever is typed in the row of any register,
\* here the mode; it reads again.
WriteEdit ==
  /\ form.read /\ UNCHANGED form
  /\ \E v \in Mode : Start(<<Write(33, v)>>, "edit")

\* The message of one step stays until the next step or another handler.
Written(s) ==
  LET req == regCalls[s].req  calls == Settled(regCalls, s)  rest == Tail(req.writes) IN
  /\ req.op = "write"
  /\ writeMsg' = IF rest # <<>> THEN "none" ELSE IF Ok(regCalls, s) THEN "ok" ELSE "error"
  /\ regCalls' = IF rest # <<>> THEN Send(calls, [req EXCEPT !.writes = rest])
                 ELSE IF req.then = "edit" THEN loadRegisters(calls) ELSE calls
  /\ form' = [form EXCEPT !.regsLoading = @ \/ (rest = <<>> /\ req.then = "edit")]

\* Two seconds after any step that succeeded, whatever is shown by then: as many
\* such timers may be pending, a message may go at any time.
MessageTimeout ==
  writeMsg # "none" /\ writeMsg' = "none" /\ UNCHANGED <<form, regCalls>>

\* Restore and factory reset replace the EEPROM and read it again.
handleReset(op) ==
  /\ CanSend(regCalls) /\ (op = "factoryReset" => ~form.resetting)
  /\ regCalls' = Send(regCalls, [op |-> op])
  /\ form' = [form EXCEPT !.resetting = @ \/ op = "factoryReset"] /\ UNCHANGED writeMsg

ResetDone(s) ==
  LET op == regCalls[s].req.op  calls == Settled(regCalls, s) IN
  /\ op \in {"restore", "factoryReset"}
  /\ regCalls' = IF Ok(regCalls, s) THEN loadRegisters(calls) ELSE calls
  /\ form' = [form EXCEPT !.resetting = @ /\ op # "factoryReset",
                !.regsLoading = @ \/ Ok(regCalls, s)]
  /\ UNCHANGED writeMsg

\* The user edits a field.
EditField ==
  /\ \/ \E v \in Speed : form' = [form EXCEPT !.wheelSpeed = v]
     \/ \E v \in MaxAngle : form' = [form EXCEPT !.maxAngle = v]
     \/ \E v \in Mode : \E f \in {"mode", "posOffset"} :
          form' = [form EXCEPT ![f] = v]
  /\ form' # form /\ UNCHANGED <<writeMsg, regCalls>>

-----------------------------------------------------------------------------
RegisterReply(s, body) ==
  regCalls' = Answered(regCalls, s, body) \/ regCalls' = Failed(regCalls, s)

RegisterServer ==
  \E s \in Sent(regCalls) : LET req == regCalls[s].req IN
    /\ UNCHANGED <<form, writeMsg>>
    /\ \/ req.op = "read" /\ RegisterReply(s, regs) /\ UNCHANGED regs
       \/ /\ req.op = "write" /\ RegisterReply(s, Nothing)
          /\ regs' = [regs EXCEPT ![Head(req.writes).addr] = Head(req.writes).data]
       \/ /\ req.op = "factoryReset" /\ RegisterReply(s, Nothing)
          /\ regs' = [a \in DOMAIN regs |-> IF a < 40 THEN Factory[a] ELSE regs[a]]
       \/ /\ req.op = "restore" /\ RegisterReply(s, Nothing)
          /\ \E angle \in MaxAngle, mode \in Mode :
               regs' = [regs EXCEPT ![11] = angle, ![33] = mode]
       \/ regCalls' = Failed(regCalls, s) /\ UNCHANGED regs

RegisterCard ==
  \/ RefreshRegisters \/ handleWriteWheelSpeed \/ handleStopWheel
  \/ handleWriteMovement \/ handleWriteMode \/ handleWriteLimits \/ WriteEdit
  \/ MessageTimeout \/ EditField
  \/ \E dir \in {"cw", "ccw"} : DirectionButton(dir)
  \/ \E op \in {"restore", "factoryReset"} : handleReset(op)
  \/ \E s \in Replied(regCalls) : RegistersRead(s) \/ Written(s) \/ ResetDone(s)

RegistersNext == (RegisterCard /\ UNCHANGED regs) \/ RegisterServer

RegistersSpec == RegistersInit /\ [][RegistersNext]_registerVars

-----------------------------------------------------------------------------
RegistersTypeOK ==
  /\ \A v \in {regs[11], form.maxAngle} : v \in Angle
  /\ {regs[33], form.mode, form.posOffset} \subseteq Mode
  /\ regs[46] \in WheelSpeed /\ form.wheelSpeed \in Speed
  /\ form.wheelDir \in {"cw", "ccw"}
  /\ {form.read, form.regsLoading, form.resetting} \subseteq BOOLEAN
  /\ writeMsg \in {"none", "ok", "error"}
  /\ DOMAIN regCalls \subseteq Slots

\* The card reads, or resets, only while such a call is in flight.
RegistersBusy ==
  /\ form.regsLoading => InFlight(regCalls, {"read"})
  /\ form.resetting => InFlight(regCalls, {"factoryReset"})

\* "Bit 15 = direction (1=CCW)": the speed that the CW, CCW or slider handler
\* sends to the servo turns it the way that was chosen with that very action.
WheelTurnsAsClicked ==
  \A s \in DOMAIN regCalls : LET req == regCalls[s].req IN
    req.op = "write" /\ req.then \in {"cw", "ccw"} =>
      \A i \in 1..Len(req.writes) :
        req.writes[i].addr = 46 => (req.writes[i].data >= Bit15) = (req.then = "ccw")
=============================================================================
