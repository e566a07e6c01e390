------------------------------ MODULE PwmPanel -------------------------------
(* PWM servos in the web UI: the store of stores/pwmServo.ts, the dialog that
   adds one (components/AddPwmServoDialog.tsx) and the card of one channel
   (components/PwmServoCard.tsx), over the server's list of configurations. *)
EXTENDS ApiClient

CONSTANTS Channels, \* number of PWM channels
          Pin,      \* pins that can do PWM
          FirstPin  \* the pin the form starts with

ASSUME PwmAssumption == Channels \in Nat \ {0} /\ FirstPin \in Pin

VARIABLES pwmConfigs, \* server: the configurations
          pwm,        \* the store: servos, loading
          dialog,     \* the dialog; it stays mounted when closed
          pwmCard,    \* the card of channel 0, while it is listed
          pwmCalls

pwmVars == <<pwmConfigs, pwm, dialog, pwmCard, pwmCalls>>

Channel == 0..(Channels - 1)

Controller == {"esp32", "klipper"}

PwmConfig == [channel : Channel, controller : Controller, pin : Pin]

NewDialog == [open |-> FALSE, controller |-> "esp32", pin |-> FirstPin, named |-> FALSE,
              submitting |-> FALSE, error |-> FALSE]

NewPwmCard == [moving |-> FALSE, confirming |-> FALSE]

PwmInit ==
  /\ pwmConfigs = {} /\ pwm = [servos |-> {}, loading |-> TRUE]
  /\ dialog = NewDialog /\ pwmCard = NewPwmCard
  /\ pwmCalls = Send(NoCalls, [op |-> "list", then |-> "stop"])

PwmAsk(req) == CanSend(pwmCalls) /\ pwmCalls' = Send(pwmCalls, req)

-----------------------------------------------------------------------------
(* The list of servos. *)

\* A card mounts and unmounts with its channel; then it starts anew, and the
\* timer that would move its servo is cancelled.
PwmListing(servos) ==
  /\ pwm' = [pwm EXCEPT !.servos = servos, !.loading = FALSE]
  /\ pwmCard' = IF \E c \in servos : c.channel = 0 THEN pwmCard ELSE NewPwmCard

\* Back in the view.  Bound: nobody leaves it while a call is in flight.
MountPwm ==
  /\ pwmCalls = NoCalls /\ PwmAsk([op |-> "list", then |-> "stop"])
  /\ pwm' = [pwm EXCEPT !.loading = TRUE]
  /\ dialog' = NewDialog /\ pwmCard' = NewPwmCard

\* Mutant: the dialog waits for a list that is there.
ClosedIfListed(s) ==
  IF pwmCalls[s].req.then = "dialog" /\ Ok(pwmCalls, s)
  THEN [dialog EXCEPT !.open = FALSE, !.named = FALSE, !.submitting = FALSE] ELSE dialog

\* The dialog that waits for the list closes, whether it is there or not, and
\* keeps the pin.
Closed(s) ==
  IF pwmCalls[s].req.then = "dialog"
  THEN [dialog EXCEPT !.open = FALSE, !.named = FALSE, !.submitting = FALSE] ELSE dialog

GotServos(s) ==
  /\ IF Ok(pwmCalls, s) THEN PwmListing(pwmCalls[s].body)
     ELSE pwm' = [pwm EXCEPT !.loading = FALSE] /\ UNCHANGED pwmCard
  /\ dialog' = Closed(s)
  /\ pwmCalls' = Settled(pwmCalls, s)

-----------------------------------------------------------------------------
(* The dialog. *)

\* Escape and a click beside the dialog close it also while it submits.
ShowDialog(open) ==
  /\ dialog.open # open /\ dialog' = [dialog EXCEPT !.open = open]
  /\ UNCHANGED <<pwm, pwmCard, pwmCalls>>

\* The name, and for Klipper the servo's name in its configuration.
FillIn ==
  /\ dialog.open /\ ~dialog.named /\ dialog' = [dialog EXCEPT !.named = TRUE]
  /\ UNCHANGED <<pwm, pwmCard, pwmCalls>>

ChooseController(c) ==
  /\ dialog.open /\ c # dialog.controller /\ dialog' = [dialog EXCEPT !.controller = c]
  /\ UNCHANGED <<pwm, pwmCard, pwmCalls>>

usedPins == {c.pin : c \in pwm.servos}

\* A pin in use cannot be chosen, but it may be the one that is chosen already.
\* The profile of the board lists the pins; the default list is the same.
ChoosePin(p) ==
  /\ dialog.open /\ dialog.controller = "esp32" /\ p \notin usedPins
  /\ dialog.pin # p /\ dialog' = [dialog EXCEPT !.pin = p]
  /\ UNCHANGED <<pwm, pwmCard, pwmCalls>>

\* The channels not listed; the list may be older than a servo added since.
Unused == Channel \ {c.channel : c \in pwm.servos}

nextChannel == CHOOSE c \in Unused : \A d \in Unused : c <= d

\* There are no nodes to choose from, as the view passes none: node_id is null.
handleSubmit ==
  /\ dialog.open /\ dialog.named /\ ~dialog.submitting /\ Unused # {}
  /\ PwmAsk([op |-> "add", config |-> [channel |-> nextChannel, pin |-> dialog.pin,
                                       controller |-> dialog.controller]])
  /\ dialog' = [dialog EXCEPT !.submitting = TRUE, !.error = FALSE]
  /\ UNCHANGED <<pwm, pwmCard>>

\* Once added, the list is read again before the dialog goes on.
ConfigAdded(s) ==
  LET calls == Settled(pwmCalls, s) IN
  /\ IF Ok(pwmCalls, s)
     THEN /\ pwm' = [pwm EXCEPT !.loading = TRUE] /\ UNCHANGED dialog
          /\ pwmCalls' = Send(calls, [op |-> "list", then |-> "dialog"])
     ELSE /\ dialog' = [dialog EXCEPT !.submitting = FALSE, !.error = TRUE]
          /\ pwmCalls' = calls /\ UNCHANGED pwm
  /\ UNCHANGED pwmCard

-----------------------------------------------------------------------------
(* The card.  moving: a slider value waits for its 50 ms. *)

Mounted == \E c \in pwm.servos : c.channel = 0

handleSlider ==
  /\ Mounted /\ ~pwmCard.moving /\ pwmCard' = [pwmCard EXCEPT !.moving = TRUE]
  /\ UNCHANGED <<pwm, dialog, pwmCalls>>

SliderSends ==
  /\ pwmCard.moving /\ PwmAsk([op |-> "position", channel |-> 0])
  /\ pwmCard' = [pwmCard EXCEPT !.moving = FALSE] /\ UNCHANGED <<pwm, dialog>>

\* The slider value that waits is sent after it.
QuickPosition ==
  /\ Mounted /\ PwmAsk([op |-> "position", channel |-> 0]) /\ UNCHANGED <<pwm, dialog, pwmCard>>

\* The second click within 3 seconds removes.
handleRemove ==
  /\ Mounted
  /\ \/ /\ ~pwmCard.confirming /\ UNCHANGED pwmCalls
        /\ pwmCard' = [pwmCard EXCEPT !.confirming = TRUE]
     \/ /\ pwmCard.confirming /\ PwmAsk([op |-> "remove", channel |-> 0])
        /\ pwmCard' = [pwmCard EXCEPT !.confirming = FALSE]
  /\ UNCHANGED <<pwm, dialog>>

\* The timer of the first click, or of one before.
RemoveTimeout ==
  /\ pwmCard.confirming /\ pwmCard' = [pwmCard EXCEPT !.confirming = FALSE]
  /\ UNCHANGED <<pwm, dialog, pwmCalls>>

\* Taken out of the list as it is by now; a list under way may bring it back.
PwmRemoved(s) ==
  /\ IF Ok(pwmCalls, s)
     THEN LET left == {c \in pwm.servos : c.channel # pwmCalls[s].req.channel} IN
          /\ pwm' = [pwm EXCEPT !.servos = left]
          /\ pwmCard' = IF \E c \in left : c.channel = 0 THEN pwmCard ELSE NewPwmCard
     ELSE UNCHANGED <<pwm, pwmCard>>
  /\ pwmCalls' = Settled(pwmCalls, s) /\ UNCHANGED dialog

PositionSet(s) == pwmCalls' = Settled(pwmCalls, s) /\ UNCHANGED <<pwm, dialog, pwmCard>>

-----------------------------------------------------------------------------
(* The server. *)

PwmAnswer(s, body) ==
  pwmCalls' = Answered(pwmCalls, s, body) \/ pwmCalls' = Failed(pwmCalls, s)

\* An esp32 servo without a node has no backend.
ServePwm(s) ==
  LET req == pwmCalls[s].req
      At(ch) == {c \in pwmConfigs : c.channel = ch} IN
  \/ req.op = "list" /\ PwmAnswer(s, pwmConfigs) /\ UNCHANGED pwmConfigs
  \/ /\ req.op = "add" /\ At(req.config.channel) = {}
     /\ pwmConfigs' = pwmConfigs \cup {req.config} /\ PwmAnswer(s, Nothing)
  \/ /\ req.op = "add" /\ At(req.config.channel) # {}
     /\ pwmCalls' = Failed(pwmCalls, s) /\ UNCHANGED pwmConfigs
  \/ /\ req.op = "remove" /\ pwmConfigs' = pwmConfigs \ At(req.channel)
     /\ IF At(req.channel) = {} THEN pwmCalls' = Failed(pwmCalls, s) ELSE PwmAnswer(s, Nothing)
  \/ /\ req.op = "position" /\ UNCHANGED pwmConfigs
     /\ IF \E c \in At(req.channel) : c.controller = "klipper" THEN PwmAnswer(s, Nothing)
        ELSE pwmCalls' = Failed(pwmCalls, s)

PwmResume(s) ==
  \/ pwmCalls[s].req.op = "list" /\ GotServos(s)
  \/ pwmCalls[s].req.op = "add" /\ ConfigAdded(s)
  \/ pwmCalls[s].req.op = "remove" /\ PwmRemoved(s)
  \/ pwmCalls[s].req.op = "position" /\ PositionSet(s)

PwmUser ==
  \/ MountPwm \/ FillIn \/ handleSubmit
  \/ handleSlider \/ SliderSends \/ QuickPosition \/ handleRemove \/ RemoveTimeout
  \/ \E open \in BOOLEAN : ShowDialog(open)
  \/ \E c \in Controller : ChooseController(c)
  \/ \E p \in Pin : ChoosePin(p)

PwmNext ==
  \/ (PwmUser \/ \E s \in Replied(pwmCalls) : PwmResume(s)) /\ UNCHANGED pwmConfigs
  \/ \E s \in Sent(pwmCalls) : ServePwm(s) /\ UNCHANGED <<pwm, dialog, pwmCard>>

PwmSpec == PwmInit /\ [][PwmNext]_pwmVars

-----------------------------------------------------------------------------
PwmTypeOK ==
  /\ pwmConfigs \subseteq PwmConfig /\ pwm \in [servos : SUBSET PwmConfig, loading : BOOLEAN]
  /\ dialog \in [open : BOOLEAN, controller : Controller, pin : Pin, named : BOOLEAN,
                 submitting : BOOLEAN, error : BOOLEAN]
  /\ pwmCard \in [moving : BOOLEAN, confirming : BOOLEAN]
  /\ DOMAIN pwmCalls \subseteq Slots

\* The dialog submits as long as its servo is being added or the list that
\* follows is being read, and no longer.
PwmBusy ==
  /\ pwm.loading => InFlight(pwmCalls, {"list"})
  /\ dialog.submitting =>
       \E s \in DOMAIN pwmCalls : LET req == pwmCalls[s].req IN
         req.op = "add" \/ (req.op = "list" /\ req.then = "dialog")
=============================================================================
