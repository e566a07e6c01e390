----------------------------- MODULE ServoMotion -----------------------------
(* Moving servos from the web UI: the store of stores/servo.ts, the bar of
   views/ServoControl.tsx and the live part of one ServoCard of it.  There is one
   servo on the bus; its id can be changed, and a user may add an id nothing
   answers to.  The cards of other ids work like the one modelled: of them, of
   their states in the store and of their calls nothing is kept. *)
EXTENDS ApiClient

CONSTANTS Id,       \* servo ids
          Card,     \* the id of the card modelled
          Position  \* positions

ASSUME ServoAssumption == Card \in Id /\ Position # {} /\ Nothing \notin Id

VARIABLES servo,      \* the servo: id, position, torque_on
          servos,     \* the store, of the id Card: its state, whether scannedIds
                      \* has it, and scanning
          card,       \* the card of the id Card, while that id is listed
          servoCalls

servoVars == <<servo, servos, card, servoCalls>>

State == [position : Position, torque_on : BOOLEAN]

FirstPosition == CHOOSE p \in Position : TRUE

NewCard == [localPos |-> FirstPosition, dragging |-> FALSE, idChanging |-> Nothing]

\* The view mounts with nothing scanned yet, and scans.
ServoInit ==
  /\ servo \in [id : Id, position : {FirstPosition}, torque_on : {FALSE}]
  /\ servos = [state |-> Nothing, listed |-> FALSE, scanning |-> TRUE]
  /\ card = NewCard
  /\ servoCalls = Send(NoCalls, [op |-> "scan"])

Ask(req) == CanSend(servoCalls) /\ servoCalls' = Send(servoCalls, req)

-----------------------------------------------------------------------------
(* The store, and the card that follows it. *)

\* Mutant: the slider follows the store also under the hand.
FollowedAlways(c, state) == IF state = Nothing THEN c ELSE [c EXCEPT !.localPos = state.position]

\* The effect that runs when the card's state or its dragging changes.
Followed(c, state) ==
  IF c.dragging \/ state = Nothing THEN c ELSE [c EXCEPT !.localPos = state.position]

\* A new Map in the store, with a new entry of the id.
SetState(state) ==
  servos' = [servos EXCEPT !.state = state] /\ card' = Followed(card, state)

\* The answer of fetchState: whatever changed since the server read the servo.
GotState(s) ==
  /\ servoCalls[s].req.op = "state"
  /\ IF Ok(servoCalls, s) THEN SetState(servoCalls[s].body) ELSE UNCHANGED <<servos, card>>
  /\ servoCalls' = Settled(servoCalls, s)

\* setPosition and setTorque enter what was asked once the server agreed.
Moved(s) ==
  /\ servoCalls[s].req.op = "position"
  /\ IF Ok(servoCalls, s) /\ servos.state # Nothing
     THEN SetState([servos.state EXCEPT !.position = servoCalls[s].req.position])
     ELSE UNCHANGED <<servos, card>>
  /\ servoCalls' = Settled(servoCalls, s)

TorqueSet(s) ==
  /\ servoCalls[s].req.op = "torque"
  /\ IF Ok(servoCalls, s) /\ servos.state # Nothing
     THEN SetState([servos.state EXCEPT !.torque_on = servoCalls[s].req.enabled])
     ELSE UNCHANGED <<servos, card>>
  /\ servoCalls' = Settled(servoCalls, s)

\* A servo event of the WebSocket, which Layout subscribes to.
updateFromEvent(p) ==
  /\ servos.state # Nothing
  /\ SetState([servos.state EXCEPT !.position = p]) /\ UNCHANGED servoCalls

\* The states of all ids found are fetched at once.  The card mounts and unmounts
\* with the list of ids.
Scanned(s) ==
  LET calls == Settled(servoCalls, s) IN
  /\ servoCalls[s].req.op = "scan"
  /\ IF Ok(servoCalls, s)
     THEN LET found == Card \in servoCalls[s].body IN
          /\ servos' = [servos EXCEPT !.listed = found, !.scanning = FALSE]
          /\ servoCalls' = IF found THEN Send(calls, [op |-> "state"]) ELSE calls
          /\ card' = IF servos.listed /\ ~found THEN NewCard ELSE card
     ELSE /\ servos' = [servos EXCEPT !.scanning = FALSE]
          /\ servoCalls' = calls /\ UNCHANGED card

-----------------------------------------------------------------------------
(* The bar of the view. *)

ScanBus ==
  /\ ~servos.scanning /\ Ask([op |-> "scan"])
  /\ servos' = [servos EXCEPT !.scanning = TRUE] /\ UNCHANGED card

handleAddManual ==
  /\ Ask([op |-> "state"])
  /\ servos' = [servos EXCEPT !.listed = TRUE] /\ UNCHANGED card

-----------------------------------------------------------------------------
(* The card.  Without a state it is a skeleton. *)

Live == servos.listed /\ servos.state # Nothing

\* The Refresh button and, with Auto ticked, a timer of 500 ms that does not
\* wait for the answer before.
Refresh ==
  /\ servos.listed /\ Ask([op |-> "state"]) /\ UNCHANGED <<servos, card>>

\* The button asks for the opposite of what it shows.
TorqueButton ==
  /\ Live
  /\ Ask([op |-> "torque", enabled |-> ~servos.state.torque_on])
  /\ UNCHANGED <<servos, card>>

handleSliderChange(p) ==
  /\ Live /\ card' = [card EXCEPT !.localPos = p, !.dragging = TRUE]
  /\ UNCHANGED <<servos, servoCalls>>

\* Also any key released on the slider.  The slider falls back to the store's
\* position until the answer is there.
handleSliderRelease ==
  /\ Live /\ Ask([op |-> "position", position |-> card.localPos])
  /\ card' = IF card.dragging THEN Followed([card EXCEPT !.dragging = FALSE], servos.state)
             ELSE card
  /\ UNCHANGED servos

\* A quick position, a preset or the Goal Position field.
handleQuickPos(p) ==
  /\ Live /\ Ask([op |-> "position", position |-> p])
  /\ card' = [card EXCEPT !.localPos = p] /\ UNCHANGED servos

handleChangeId(new) ==
  /\ Live /\ card.idChanging = Nothing
  /\ Ask([op |-> "setId", new |-> new])
  /\ card' = [card EXCEPT !.idChanging = FreeSlot(servoCalls)] /\ UNCHANGED servos

\* A scan follows, also next to one that runs.  A card mounted since the change
\* was asked for is not concerned: idChanging names the call of the card's own.
IdChanged(s) ==
  LET calls == Settled(servoCalls, s) IN
  /\ servoCalls[s].req.op = "setId"
  /\ card' = [card EXCEPT !.idChanging = IF @ = s THEN Nothing ELSE @]
  /\ IF Ok(servoCalls, s)
     THEN /\ servos' = [servos EXCEPT !.scanning = TRUE]
          /\ servoCalls' = Send(calls, [op |-> "scan"])
     ELSE servoCalls' = calls /\ UNCHANGED servos

-----------------------------------------------------------------------------
(* The server and the bus behind it. *)

ServoReply(s, body) ==
  servoCalls' = Answered(servoCalls, s, body) \/ servoCalls' = Failed(servoCalls, s)

\* Only the servo that has the id answers.
ServeServo(s) ==
  LET req == servoCalls[s].req  there == servo.id = Card IN
  \/ /\ req.op = "scan" /\ UNCHANGED servo
     /\ \E ids \in {{servo.id}, {}} : ServoReply(s, ids)
  \/ req.op # "scan" /\ ~there /\ servoCalls' = Failed(servoCalls, s) /\ UNCHANGED servo
  \/ /\ req.op = "state" /\ there /\ UNCHANGED servo
     /\ ServoReply(s, [position |-> servo.position, torque_on |-> servo.torque_on])
  \/ /\ req.op = "position" /\ there
     /\ servo' = [servo EXCEPT !.position = req.position] /\ ServoReply(s, Nothing)
  \/ /\ req.op = "torque" /\ there
     /\ servo' = [servo EXCEPT !.torque_on = req.enabled] /\ ServoReply(s, Nothing)
  \/ /\ req.op = "setId" /\ there
     /\ servo' = [servo EXCEPT !.id = req.new] /\ ServoReply(s, Nothing)

\* An emergency stop from anywhere.
TorqueOff == servo.torque_on /\ servo' = [servo EXCEPT !.torque_on = FALSE]

ServoServer ==
  /\ UNCHANGED <<servos, card>>
  /\ \/ \E s \in Sent(servoCalls) : ServeServo(s)
     \/ TorqueOff /\ UNCHANGED servoCalls

ServoBrowser ==
  \/ ScanBus \/ handleAddManual \/ Refresh \/ TorqueButton \/ handleSliderRelease
  \/ \E p \in Position :
       handleSliderChange(p) \/ handleQuickPos(p) \/ updateFromEvent(p)
  \/ \E id \in Id : handleChangeId(id)
  \/ \E s \in Replied(servoCalls) :
       GotState(s) \/ Moved(s) \/ TorqueSet(s) \/ Scanned(s) \/ IdChanged(s)

ServoNext == (ServoBrowser /\ UNCHANGED servo) \/ ServoServer

ServoSpec == ServoInit /\ [][ServoNext]_servoVars

-----------------------------------------------------------------------------
ServoTypeOK ==
  /\ servo \in [id : Id, position : Position, torque_on : BOOLEAN]
  /\ servos \in [state : State \cup {Nothing}, listed : BOOLEAN, scanning : BOOLEAN]
  /\ card \in [localPos : Position, dragging : BOOLEAN,
               idChanging : {Nothing} \cup DOMAIN servoCalls]
  /\ DOMAIN servoCalls \subseteq Slots

\* The view scans only while a scan is in flight.
ServoBusy == servos.scanning => InFlight(servoCalls, {"scan"})

\* The slider stays under the hand that drags it: polls, events, and answers of
\* moves sent before do not take it elsewhere, so that what a release sends is
\* the last position the user dragged it to.
HandHoldsSlider ==
  [][card.dragging /\ card'.dragging /\ servos'.state # servos.state
       => card'.localPos = card.localPos]_servoVars
=============================================================================
