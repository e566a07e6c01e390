---------------------------- MODULE GcodeConsole -----------------------------
(* views/KlipperStatus.tsx and the Klipper part of stores/robot.ts: the printer's
   status, polled, and a console whose commands may overlap.  The store outlives
   the view; the console's log and input end with it. *)
EXTENDS ApiClient, Sequences

CONSTANTS Gcode,  \* commands
          MaxLog  \* bound: commands logged or in flight

ASSUME GcodeAssumption == MaxLog \in Nat /\ Nothing \notin Gcode

VARIABLES klipper,  \* the store: klipperStatus (known or not), error
          console,  \* the view: whether it is mounted, gcodeInput, history
          gcodeCalls

gcodeVars == <<klipper, console, gcodeCalls>>

EmptyConsole == [open |-> TRUE, input |-> Nothing, history |-> <<>>]

GcodeInit ==
  /\ klipper = [status |-> FALSE, error |-> FALSE]
  /\ console = EmptyConsole
  /\ gcodeCalls = Send(NoCalls, [op |-> "status"])

Pending(calls) == {s \in DOMAIN calls : calls[s].req.op = "gcode"}

Logged(view, calls) == Len(view.history) + Cardinality(Pending(calls))

-----------------------------------------------------------------------------
\* On mount, and every 10 seconds, without waiting for one another.
fetchKlipperStatus ==
  /\ console.open /\ CanSend(gcodeCalls) /\ gcodeCalls' = Send(gcodeCalls, [op |-> "status"])
  /\ UNCHANGED <<klipper, console>>

\* Another view is shown.  A command in flight is an orphan from now on: the
\* setters its handler calls are those of a view that is gone.
LeaveConsole ==
  /\ console.open
  /\ console' = [EmptyConsole EXCEPT !.open = FALSE]
  /\ gcodeCalls' = [s \in DOMAIN gcodeCalls |->
                      IF s \in Pending(gcodeCalls)
                      THEN [gcodeCalls[s] EXCEPT !.req.op = "orphan"] ELSE gcodeCalls[s]]
  /\ UNCHANGED klipper

OpenConsole ==
  /\ ~console.open /\ CanSend(gcodeCalls)
  /\ console' = EmptyConsole /\ gcodeCalls' = Send(gcodeCalls, [op |-> "status"])
  /\ UNCHANGED klipper

GotStatus(s) ==
  /\ klipper' = IF Ok(gcodeCalls, s) THEN [status |-> TRUE, error |-> FALSE]
                ELSE [klipper EXCEPT !.error = TRUE]
  /\ gcodeCalls' = Settled(gcodeCalls, s) /\ UNCHANGED console

TypeGcode(g) ==
  /\ console.open /\ g # console.input /\ console' = [console EXCEPT !.input = g]
  /\ UNCHANGED <<klipper, gcodeCalls>>

\* from: the input, or a button of the quick commands.  The view's history is
\* captured too, by the closure, but not used.
SendGcode(g, from) ==
  /\ console.open /\ CanSend(gcodeCalls) /\ Logged(console, gcodeCalls) < MaxLog
  /\ gcodeCalls' = Send(gcodeCalls, [op |-> "gcode", cmd |-> g, from |-> from,
                                     seen |-> console.history])
  /\ UNCHANGED <<klipper, console>>

\* Neither the Enter key nor the button waits, and the input is still there.
handleSend == console.input # Nothing /\ SendGcode(console.input, "input")

QuickCommand(g) == SendGcode(g, "button")

\* Mutant: the history of when the command was sent is extended.
LogSeen(req, entry) == Append(req.seen, entry)

\* The history is extended as it is by now.
LogNow(req, entry) == Append(console.history, entry)

\* Also an answer that is an error, and a failure, is logged.  Afterwards the
\* input is emptied, whatever was typed meanwhile.  The answer of an orphan goes
\* to the store too, but to no log, one that was opened since included.
GcodeDone(s) ==
  LET req == gcodeCalls[s].req IN
  /\ console' = IF req.op = "orphan" THEN console ELSE
                [open |-> TRUE,
                 history |-> LogNow(req, [cmd |-> req.cmd, result |-> gcodeCalls[s].body]),
                 input |-> IF req.from = "input" THEN Nothing ELSE console.input]
  /\ klipper' = [klipper EXCEPT !.error = ~Ok(gcodeCalls, s) \/ gcodeCalls[s].body.error]
  /\ gcodeCalls' = Settled(gcodeCalls, s)

-----------------------------------------------------------------------------
\* The status has no effect; a command may be refused within an answer.
ServeGcode(s) ==
  LET req == gcodeCalls[s].req IN
  /\ \/ req.op = "status" /\ gcodeCalls' = Answered(gcodeCalls, s, Nothing)
     \/ /\ req.op \in {"gcode", "orphan"}
        /\ \E err \in BOOLEAN :
             gcodeCalls' = Answered(gcodeCalls, s, [of |-> req.cmd, error |-> err])
     \/ gcodeCalls' = Failed(gcodeCalls, s)
  /\ UNCHANGED <<klipper, console>>

GcodeNext ==
  \/ fetchKlipperStatus \/ handleSend \/ LeaveConsole \/ OpenConsole
  \/ \E g \in Gcode : TypeGcode(g) \/ QuickCommand(g)
  \/ \E s \in Sent(gcodeCalls) : ServeGcode(s)
  \/ \E s \in Replied(gcodeCalls) :
       \/ gcodeCalls[s].req.op = "status" /\ GotStatus(s)
       \/ gcodeCalls[s].req.op \in {"gcode", "orphan"} /\ GcodeDone(s)

GcodeSpec == GcodeInit /\ [][GcodeNext]_gcodeVars

-----------------------------------------------------------------------------
GcodeTypeOK ==
  /\ {klipper.status, klipper.error, console.open} \subseteq BOOLEAN
  /\ console.input \in Gcode \cup {Nothing}
  /\ \A i \in DOMAIN console.history : console.history[i].cmd \in Gcode
  /\ DOMAIN gcodeCalls \subseteq Slots

\* While the view is shown every command sent from it is in its log or still in
\* flight, and in the log once, next to its own result, however the commands
\* overlap; and the answer to a command of an earlier visit gets in nowhere.
ConsoleKeepsAll ==
  [][console.open /\ console'.open =>
       /\ Logged(console', gcodeCalls') >= Logged(console, gcodeCalls)
       /\ DOMAIN gcodeCalls' \subseteq DOMAIN gcodeCalls =>
            Logged(console', gcodeCalls') = Logged(console, gcodeCalls)
       /\ \A i \in DOMAIN console'.history : LET entry == console'.history[i] IN
            entry.result # Nothing => entry.result.of = entry.cmd]_gcodeVars
=============================================================================
