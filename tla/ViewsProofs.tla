----------------------------- MODULE ViewsProofs -----------------------------
(***************************************************************************)
(* Proofs about the views of the web UI, for any number of calls in flight *)
(* and any order of clicks, answers and failures: their types, that no     *)
(* spinner is stuck, that the wizard adds what it probed, that a robot's   *)
(* pose is its own, that nothing moves the slider under a hand, and that   *)
(* the console loses no command.                                           *)
(*                                                                         *)
(* Each view has an inductive invariant that says which calls it can have  *)
(* in flight, with the requests and bodies each kind can hold, and which   *)
(* of them every flag of the view waits for.  The lemmas about it come in  *)
(* the order of the actions: what a handler sends, what the code after an  *)
(* await does with an answer, and what the server does.                    *)
(***************************************************************************)
EXTENDS MCViews, FileBrowserProofs, FiniteSetTheorems, WellFoundedInduction

-----------------------------------------------------------------------------
(* Part 1: calls in flight.  Good is the set of the calls a view can have.  *)

\* The calls with a request of Req, which the server answers from Body.
CallOf(Req, Body) ==
  [req : Req, state : {"sent", "failed"}, body : {Nothing}]
    \cup [req : Req, state : {"ok"}, body : Body]

NewCall(req) == [req |-> req, state |-> "sent", body |-> Nothing]

CallsIn(calls, Good) ==
  /\ DOMAIN calls \subseteq Slots /\ calls = [s \in DOMAIN calls |-> calls[s]]
  /\ \A s \in DOMAIN calls : calls[s] \in Good

\* The calls in flight before are in flight, with the same requests.
Continued(old, new) ==
  \A s \in DOMAIN old : s \in DOMAIN new /\ new[s].req = old[s].req

LEMMA CallOfFields ==
  ASSUME NEW Req, NEW Body, NEW call \in CallOf(Req, Body)
  PROVE  /\ call = [req |-> call.req, state |-> call.state, body |-> call.body]
         /\ call.req \in Req /\ call.state \in {"sent", "ok", "failed"}
         /\ call.state = "ok" => call.body \in Body
         /\ call.state # "ok" => call.body = Nothing
BY DEF CallOf

LEMMA NewCallOf ==
  ASSUME NEW Req, NEW Body, NEW req \in Req
  PROVE  NewCall(req) \in CallOf(Req, Body)
BY DEF NewCall, CallOf

LEMMA NoCallsIn ==
  ASSUME NEW Good PROVE CallsIn(NoCalls, Good) /\ CanSend(NoCalls)
BY CallsAssumption DEF NoCalls, CallsIn, CanSend, Slots

LEMMA SendIn ==
  ASSUME NEW Good, NEW calls, CallsIn(calls, Good), CanSend(calls), NEW req, NewCall(req) \in Good
  PROVE  /\ CallsIn(Send(calls, req), Good) /\ Continued(calls, Send(calls, req))
         /\ FreeSlot(calls) \in Slots /\ FreeSlot(calls) \notin DOMAIN calls
         /\ DOMAIN Send(calls, req) = DOMAIN calls \cup {FreeSlot(calls)}
         /\ Send(calls, req)[FreeSlot(calls)] = NewCall(req)
         /\ \A s \in DOMAIN calls : Send(calls, req)[s] = calls[s]
<1> DEFINE slot == FreeSlot(calls)
           call == NewCall(req)
           sent == [s \in DOMAIN calls \cup {slot} |-> IF s \in DOMAIN calls THEN calls[s] ELSE call]
<1>1. slot \in Slots /\ slot \notin DOMAIN calls
  BY DEF CanSend, FreeSlot
<1>2. Send(calls, req) = sent
  BY DEF Send, NewCall
<1> HIDE DEF slot, call
<1>3. /\ DOMAIN sent = DOMAIN calls \cup {slot} /\ sent[slot] = call
      /\ \A s \in DOMAIN calls : sent[s] = calls[s]
      /\ sent = [s \in DOMAIN sent |-> sent[s]]
  BY <1>1
<1> HIDE DEF sent
<1>4. \A s \in DOMAIN sent : sent[s] \in Good
  BY <1>3 DEF CallsIn, call
<1>5. CallsIn(sent, Good) /\ Continued(calls, sent)
  BY <1>1, <1>3, <1>4 DEF CallsIn, Continued
<1>6. QED
  BY <1>1, <1>2, <1>3, <1>5 DEF slot, call

LEMMA SettledIn ==
  ASSUME NEW Good, NEW calls, CallsIn(calls, Good), NEW s \in DOMAIN calls
  PROVE  /\ CallsIn(Settled(calls, s), Good) /\ CanSend(Settled(calls, s))
         /\ DOMAIN Settled(calls, s) = DOMAIN calls \ {s}
         /\ \A t \in DOMAIN calls \ {s} : Settled(calls, s)[t] = calls[t]
<1>1. /\ DOMAIN Settled(calls, s) = DOMAIN calls \ {s}
      /\ \A t \in DOMAIN calls \ {s} : Settled(calls, s)[t] = calls[t]
      /\ Settled(calls, s) = [t \in DOMAIN Settled(calls, s) |-> Settled(calls, s)[t]]
  BY DEF Settled
<1>2. QED
  BY <1>1 DEF CallsIn, CanSend

\* The server answers a call, or fails it.
LEMMA AnsweredIn ==
  ASSUME NEW Good, NEW calls, CallsIn(calls, Good), NEW s \in Sent(calls),
         NEW Req, NEW Body, CallOf(Req, Body) \subseteq Good, calls[s] \in CallOf(Req, Body),
         NEW body \in Body, NEW new,
         new = Answered(calls, s, body) \/ new = Failed(calls, s)
  PROVE  CallsIn(new, Good) /\ Continued(calls, new) /\ DOMAIN new = DOMAIN calls
<1>1. s \in DOMAIN calls /\ calls[s].state = "sent" /\ calls[s].body = Nothing
      /\ calls[s] = [req |-> calls[s].req, state |-> calls[s].state, body |-> calls[s].body]
      /\ calls[s].req \in Req
  BY CallOfFields DEF Sent
<1>2. PICK call : /\ new = [calls EXCEPT ![s] = call]
                  /\ call \in { [calls[s] EXCEPT !.state = "ok", !.body = body],
                                [calls[s] EXCEPT !.state = "failed"] }
  BY DEF Answered, Failed
<1>3. /\ call.req = calls[s].req /\ call = [req |-> call.req, state |-> call.state, body |-> call.body]
      /\ (call.state = "ok" /\ call.body = body) \/ (call.state = "failed" /\ call.body = Nothing)
  BY <1>1, <1>2
<1>4. call \in CallOf(Req, Body)
  BY <1>1, <1>3 DEF CallOf
<1>5. /\ DOMAIN new = DOMAIN calls /\ new[s] = call
      /\ \A t \in DOMAIN calls \ {s} : new[t] = calls[t]
      /\ new = [t \in DOMAIN new |-> new[t]]
  BY <1>1, <1>2 DEF CallsIn
<1>6. QED
  BY <1>3, <1>4, <1>5 DEF CallsIn, Continued

LEMMA SendInFlight ==
  ASSUME NEW Good, NEW calls, CallsIn(calls, Good), CanSend(calls), NEW req, NewCall(req) \in Good,
         NEW ops
  PROVE  /\ InFlight(calls, ops) => InFlight(Send(calls, req), ops)
         /\ req.op \in ops => InFlight(Send(calls, req), ops)
<1>1. /\ Continued(calls, Send(calls, req))
      /\ DOMAIN Send(calls, req) = DOMAIN calls \cup {FreeSlot(calls)}
      /\ Send(calls, req)[FreeSlot(calls)] = NewCall(req)
  BY SendIn
<1>2. FreeSlot(calls) \in DOMAIN Send(calls, req) /\ Send(calls, req)[FreeSlot(calls)].req = req
  BY <1>1 DEF NewCall
<1>3. QED
  BY <1>1, <1>2 DEF Continued, InFlight

LEMMA SettledInFlight ==
  ASSUME NEW Good, NEW calls, CallsIn(calls, Good), NEW s \in DOMAIN calls,
         NEW ops, calls[s].req.op \notin ops
  PROVE  InFlight(calls, ops) => InFlight(Settled(calls, s), ops)
<1>1. /\ DOMAIN Settled(calls, s) = DOMAIN calls \ {s}
      /\ \A t \in DOMAIN calls \ {s} : Settled(calls, s)[t] = calls[t]
  BY SettledIn, Zenon
<1>2. QED
  BY <1>1 DEF InFlight

LEMMA ContinuedInFlight ==
  ASSUME NEW old, NEW new, Continued(old, new), NEW ops, InFlight(old, ops)
  PROVE  InFlight(new, ops)
BY DEF Continued, InFlight

\* The calls of one operation, and how many there are.
Of(calls, o) == {s \in DOMAIN calls : calls[s].req.op = o}

LEMMA OfFinite ==
  ASSUME NEW Good, NEW calls, CallsIn(calls, Good), NEW o
  PROVE  IsFiniteSet(Of(calls, o)) /\ Cardinality(Of(calls, o)) \in Nat
<1>1. IsFiniteSet(1..MaxCalls)
  BY CallsAssumption, FS_Interval
<1>2. Of(calls, o) \subseteq 1..MaxCalls
  BY DEF Of, CallsIn, Slots
<1>3. QED
  BY <1>1, <1>2, FS_Subset, FS_CardinalityType

LEMMA OfContinued ==
  ASSUME NEW old, NEW new, Continued(old, new), DOMAIN new = DOMAIN old, NEW o
  PROVE  Of(new, o) = Of(old, o)
BY DEF Of, Continued

LEMMA OfSent ==
  ASSUME NEW Good, NEW calls, CallsIn(calls, Good), CanSend(calls), NEW req, NewCall(req) \in Good,
         NEW o
  PROVE  Cardinality(Of(Send(calls, req), o))
           = Cardinality(Of(calls, o)) + (IF req.op = o THEN 1 ELSE 0)
<1> DEFINE slot == FreeSlot(calls)
           new  == Send(calls, req)
<1>1. /\ DOMAIN new = DOMAIN calls \cup {slot} /\ slot \notin DOMAIN calls
      /\ new[slot] = NewCall(req) /\ \A s \in DOMAIN calls : new[s] = calls[s]
  BY SendIn
<1>2. NewCall(req).req = req
  BY DEF NewCall
<1>3. IsFiniteSet(Of(calls, o)) /\ Cardinality(Of(calls, o)) \in Nat
  BY OfFinite
<1> HIDE DEF slot, new
<1>4. CASE req.op = o
  <2>1. Of(new, o) = Of(calls, o) \cup {slot} /\ slot \notin Of(calls, o)
    BY <1>1, <1>2, <1>4 DEF Of
  <2>2. QED
    BY <1>3, <1>4, <2>1, FS_AddElement DEF new
<1>5. CASE req.op # o
  <2>1. Of(new, o) = Of(calls, o)
    BY <1>1, <1>2, <1>5 DEF Of
  <2>2. QED
    BY <1>3, <1>5, <2>1 DEF new
<1>6. QED
  BY <1>4, <1>5

LEMMA OfSettled ==
  ASSUME NEW Good, NEW calls, CallsIn(calls, Good), NEW s \in DOMAIN calls, NEW o
  PROVE  Cardinality(Of(Settled(calls, s), o))
           = Cardinality(Of(calls, o)) - (IF calls[s].req.op = o THEN 1 ELSE 0)
<1> DEFINE new == Settled(calls, s)
<1>1. DOMAIN new = DOMAIN calls \ {s} /\ \A t \in DOMAIN calls \ {s} : new[t] = calls[t]
  BY SettledIn
<1>2. IsFiniteSet(Of(calls, o)) /\ Cardinality(Of(calls, o)) \in Nat
  BY OfFinite
<1> HIDE DEF new
<1>3. CASE calls[s].req.op = o
  <2>1. Of(new, o) = Of(calls, o) \ {s} /\ s \in Of(calls, o)
    BY <1>1, <1>3 DEF Of
  <2>2. Cardinality(Of(calls, o) \ {s}) = Cardinality(Of(calls, o)) - 1
    BY <1>2, <2>1, FS_RemoveElement
  <2>3. QED
    BY <1>3, <2>1, <2>2 DEF new
<1>4. CASE calls[s].req.op # o
  <2>1. Of(new, o) = Of(calls, o)
    BY <1>1, <1>4 DEF Of
  <2>2. QED
    BY <1>2, <1>4, <2>1 DEF new
<1>5. QED
  BY <1>3, <1>4

-----------------------------------------------------------------------------
(* Part 2: the robots.  The answer to the request for a robot's state is of  *)
(* that robot.                                                               *)

Listing == CallOf([op : {"list"}], {Robot})

Commanding == CallOf([op : {"command"}, id : Robot, cmd : {"joints", "move", "home", "drive", "stop"},
                      pose : Pose \cup {Nothing}], [robot_id : Robot])

StateOf(r) == CallOf([op : {"state"}, id : {r}], [robot_id : {r}, pose : Pose])

RobotCalls == Listing \cup Commanding \cup UNION {StateOf(r) : r \in Robot}

PanelOK(panel) ==
  /\ panel = [profiles |-> panel.profiles, selectedId |-> panel.selectedId,
              states |-> panel.states, loading |-> panel.loading, error |-> panel.error,
              lastResult |-> panel.lastResult]
  /\ panel.profiles \subseteq Robot /\ panel.selectedId \in Robot \cup {Nothing}
  /\ DOMAIN panel.states \subseteq Robot
  /\ \A r \in DOMAIN panel.states : panel.states[r].robot_id = r
  /\ panel.lastResult = Nothing \/ panel.lastResult.robot_id \in Robot
  /\ panel.loading \in BOOLEAN /\ panel.error \in BOOLEAN

RobotInv ==
  /\ robots \in [Robot -> Pose] /\ PanelOK(robot) /\ CallsIn(robotCalls, RobotCalls)
  /\ RobotBusy

LEMMA RobotInvSays == RobotInv => RobotTypeOK /\ RobotBusy /\ StateOfItsRobot
BY DEF RobotInv, PanelOK, CallsIn, RobotTypeOK, StateOfItsRobot

\* Which call it is shows in its operation.
LEMMA RobotCallIs ==
  ASSUME NEW call \in RobotCalls
  PROVE  /\ call.req.op \in {"list", "state", "command"}
         /\ call.req.op = "list" => call \in Listing
         /\ call.req.op = "state" => call.req.id \in Robot /\ call \in StateOf(call.req.id)
         /\ call.req.op = "command" => call \in Commanding
BY DEF RobotCalls, Listing, Commanding, StateOf, CallOf

LEMMA RobotNewCalls ==
  /\ NewCall([op |-> "list"]) \in RobotCalls
  /\ \A r \in Robot : NewCall([op |-> "state", id |-> r]) \in RobotCalls
  /\ \A r \in Robot, c \in {"joints", "move", "home", "drive", "stop"}, p \in Pose \cup {Nothing} :
       NewCall([op |-> "command", id |-> r, cmd |-> c, pose |-> p]) \in RobotCalls
BY DEF RobotCalls, Listing, Commanding, StateOf, CallOf, NewCall

LEMMA RobotInvInit == RobotInit => RobotInv
<1> SUFFICES ASSUME RobotInit PROVE RobotInv
  OBVIOUS
<1> DEFINE req == [op |-> "list"]
<1>1. robotCalls = Send(NoCalls, req) /\ NewCall(req) \in RobotCalls /\ req.op \in {"list"}
  BY RobotNewCalls DEF RobotInit
<1> HIDE DEF req
<1>2. CallsIn(robotCalls, RobotCalls) /\ InFlight(robotCalls, {"list"})
  BY <1>1, NoCallsIn, SendIn, SendInFlight
<1>3. robots \in [Robot -> Pose] /\ PanelOK(robot)
  BY RobotAssumption DEF RobotInit, PanelOK
<1>4. QED
  BY <1>2, <1>3 DEF RobotInv, RobotBusy

\* A handler sends a call; the panel waits for the list if that is the call.
LEMMA RobotSends ==
  ASSUME RobotInv, UNCHANGED robots, NEW req, NewCall(req) \in RobotCalls, RobotAsk(req),
         PanelOK(robot'), robot'.loading => (robot.loading \/ req.op = "list")
  PROVE  RobotInv'
<1>1. CanSend(robotCalls) /\ robotCalls' = Send(robotCalls, req) /\ CallsIn(robotCalls, RobotCalls)
  BY DEF RobotAsk, RobotInv
<1>2. /\ CallsIn(robotCalls', RobotCalls)
      /\ InFlight(robotCalls, {"list"}) => InFlight(robotCalls', {"list"})
      /\ req.op \in {"list"} => InFlight(robotCalls', {"list"})
  BY <1>1, SendIn, SendInFlight
<1>3. QED
  BY <1>2 DEF RobotInv, RobotBusy

LEMMA RobotUserKeeps == ASSUME RobotInv, RobotUser, UNCHANGED robots PROVE RobotInv'
<1>1. CASE fetchProfiles
  <2>1. PanelOK(robot')
    BY <1>1 DEF fetchProfiles, RobotInv, PanelOK
  <2>2. QED
    BY <1>1, <2>1, RobotSends, RobotNewCalls DEF fetchProfiles
<1>2. ASSUME NEW r \in Robot, selectRobot(r) PROVE RobotInv'
  <2> DEFINE req == [op |-> "state", id |-> r]
  <2>1. PanelOK(robot') /\ robot'.loading = robot.loading
    BY <1>2 DEF selectRobot, RobotInv, PanelOK
  <2>2. NewCall(req) \in RobotCalls /\ RobotAsk(req)
    BY <1>2, RobotNewCalls DEF selectRobot
  <2> HIDE DEF req
  <2>3. QED
    BY <2>1, <2>2, RobotSends
<1>3. CASE SelectNone
  BY <1>3 DEF SelectNone, RobotInv, PanelOK, RobotBusy
<1>4. ASSUME NEW c \in {"joints", "move", "home", "drive", "stop"}, NEW p \in Pose \cup {Nothing},
             Command(c, p)
      PROVE  RobotInv'
  <2>1. PICK r \in Selected :
          /\ RobotAsk([op |-> "command", id |-> r, cmd |-> c, pose |-> p])
          /\ UNCHANGED robot
    BY <1>4, Zenon DEF Command
  <2>2. r \in Robot /\ PanelOK(robot')
    BY <2>1 DEF Selected, RobotInv, PanelOK
  <2>3. NewCall([op |-> "command", id |-> r, cmd |-> c, pose |-> p]) \in RobotCalls
    BY <2>2, RobotNewCalls
  <2>4. QED
    BY <2>1, <2>2, <2>3, RobotSends, Zenon
<1>5. CASE fetchState
  <2>1. PICK r \in Selected : RobotAsk([op |-> "state", id |-> r]) /\ UNCHANGED robot
    BY <1>5, Zenon DEF fetchState
  <2>2. r \in Robot /\ PanelOK(robot')
    BY <2>1 DEF Selected, RobotInv, PanelOK
  <2>3. NewCall([op |-> "state", id |-> r]) \in RobotCalls
    BY <2>2, RobotNewCalls
  <2>4. QED
    BY <2>1, <2>2, <2>3, RobotSends, Zenon
<1>6. QED
  BY <1>1, <1>2, <1>3, <1>4, <1>5, RobotAssumption
  DEF RobotUser, homeRobot, drive, stopRobot, moveJoints, moveCartesian

\* An answer of a call other than the list leaves the list in flight.
LEMMA RobotResumeKeeps ==
  ASSUME RobotInv, NEW s \in Replied(robotCalls), RobotResume(s), UNCHANGED robots
  PROVE  RobotInv'
<1> DEFINE call  == robotCalls[s]
           calls == Settled(robotCalls, s)
<1>1. s \in DOMAIN robotCalls /\ call \in RobotCalls /\ CallsIn(robotCalls, RobotCalls)
  BY DEF Replied, RobotInv, CallsIn
<1>2. /\ CallsIn(calls, RobotCalls) /\ CanSend(calls)
      /\ call.req.op # "list" /\ InFlight(robotCalls, {"list"}) => InFlight(calls, {"list"})
  BY <1>1, SettledIn, SettledInFlight
<1> HIDE DEF calls
<1>3. CASE call.req.op = "list" /\ GotProfiles(s)
  <2>1. Ok(robotCalls, s) => call.body = Robot
    BY <1>1, <1>3, RobotCallIs, CallOfFields DEF Ok, Listing
  <2>2. PanelOK(robot') /\ robot'.loading = FALSE
    BY <1>3, <2>1 DEF GotProfiles, RobotInv, PanelOK
  <2>3. QED
    BY <1>2, <1>3, <2>2 DEF GotProfiles, RobotInv, RobotBusy, calls
<1>4. CASE call.req.op = "state" /\ GotRobotState(s)
  <2>1. /\ call.req.id \in Robot
        /\ Ok(robotCalls, s) => call.body.robot_id = call.req.id
    BY <1>1, <1>4, RobotCallIs DEF Ok, StateOf, CallOf
  <2>2. PICK states : states = Entry(call.req, call.body)
    OBVIOUS
  <2>3. Ok(robotCalls, s) => /\ DOMAIN states \subseteq Robot
                             /\ \A r \in DOMAIN states : states[r].robot_id = r
    BY <2>1, <2>2 DEF Entry, RobotInv, PanelOK
  <2>4. PanelOK(robot') /\ robot'.loading = robot.loading
    BY <1>4, <2>2, <2>3 DEF GotRobotState, RobotInv, PanelOK
  <2>5. robotCalls' = calls
    BY <1>4 DEF GotRobotState, calls
  <2>6. QED
    BY <1>2, <1>4, <2>4, <2>5 DEF RobotInv, RobotBusy
<1>5. CASE call.req.op = "command" /\ CommandDone(s)
  <2>1. /\ call.req.id \in Robot
        /\ Ok(robotCalls, s) => call.body.robot_id \in Robot
    BY <1>1, <1>5, RobotCallIs DEF Ok, Commanding, CallOf
  <2>2. PanelOK(robot') /\ robot'.loading = robot.loading
    BY <1>5, <2>1 DEF CommandDone, RobotInv, PanelOK
  <2>3. PICK req : req = [op |-> "state", id |-> call.req.id] /\ NewCall(req) \in RobotCalls
    BY <2>1, RobotNewCalls
  <2>4. robotCalls' = calls \/ robotCalls' = Send(calls, req)
    BY <1>5, <2>3 DEF CommandDone, calls
  <2>5. /\ CallsIn(robotCalls', RobotCalls)
        /\ InFlight(calls, {"list"}) => InFlight(robotCalls', {"list"})
    <3>1. CallsIn(Send(calls, req), RobotCalls)
      BY <1>2, <2>3, SendIn
    <3>2. InFlight(calls, {"list"}) => InFlight(Send(calls, req), {"list"})
      BY <1>2, <2>3, SendInFlight
    <3>3. QED
      BY <1>2, <2>4, <3>1, <3>2
  <2>6. QED
    BY <1>2, <1>5, <2>2, <2>5 DEF RobotInv, RobotBusy
<1>6. QED
  BY <1>3, <1>4, <1>5 DEF RobotResume

LEMMA ServeRobotKeeps ==
  ASSUME RobotInv, NEW s \in Sent(robotCalls), ServeRobot(s), UNCHANGED robot
  PROVE  RobotInv'
<1> DEFINE call == robotCalls[s]
<1>1. call \in RobotCalls /\ CallsIn(robotCalls, RobotCalls)
  BY DEF Sent, RobotInv, CallsIn
<1>2. ASSUME NEW Req, NEW Body, CallOf(Req, Body) \subseteq RobotCalls, call \in CallOf(Req, Body),
             NEW body \in Body, RobotAnswer(s, body), robots' \in [Robot -> Pose]
      PROVE  RobotInv'
  <2>1. CallsIn(robotCalls', RobotCalls) /\ Continued(robotCalls, robotCalls')
    BY <1>1, <1>2, AnsweredIn DEF RobotAnswer
  <2>2. QED
    BY <1>2, <2>1, ContinuedInFlight DEF RobotInv, RobotBusy
<1>3. CASE call.req.op = "list" /\ RobotAnswer(s, Robot) /\ UNCHANGED robots
  <2>1. call \in CallOf([op : {"list"}], {Robot}) /\ CallOf([op : {"list"}], {Robot}) \subseteq RobotCalls
    BY <1>1, <1>3, RobotCallIs DEF Listing, RobotCalls
  <2>2. QED
    BY <1>2, <1>3, <2>1 DEF RobotInv
<1>4. CASE call.req.op = "state" /\ UNCHANGED robots
           /\ RobotAnswer(s, [robot_id |-> call.req.id, pose |-> robots[call.req.id]])
  <2>1. PICK r \in Robot : r = call.req.id /\ call \in StateOf(r)
    BY <1>1, <1>4, RobotCallIs
  <2>2. StateOf(r) \subseteq RobotCalls
    BY DEF RobotCalls
  <2>3. [robot_id |-> call.req.id, pose |-> robots[call.req.id]] \in [robot_id : {r}, pose : Pose]
    BY <2>1 DEF RobotInv
  <2>4. QED
    BY <1>2, <1>4, <2>1, <2>2, <2>3 DEF RobotInv, StateOf
<1>5. CASE /\ call.req.op = "command" /\ RobotAnswer(s, [robot_id |-> call.req.id])
           /\ robots' = IF call.req.pose = Nothing THEN robots
                        ELSE [robots EXCEPT ![call.req.id] = call.req.pose]
  <2>1. call \in Commanding /\ Commanding \subseteq RobotCalls
    BY <1>1, <1>5, RobotCallIs DEF RobotCalls
  <2>2. call.req.id \in Robot /\ call.req.pose \in Pose \cup {Nothing}
    BY <2>1 DEF Commanding, CallOf
  <2>3. robots' \in [Robot -> Pose] /\ [robot_id |-> call.req.id] \in [robot_id : Robot]
    BY <1>5, <2>2 DEF RobotInv
  <2>4. QED
    BY <1>2, <1>5, <2>1, <2>3 DEF Commanding
<1>6. QED
  BY <1>3, <1>4, <1>5 DEF ServeRobot

LEMMA RobotInvStep == RobotInv /\ [RobotNext]_robotVars => RobotInv'
<1> SUFFICES ASSUME RobotInv, [RobotNext]_robotVars PROVE RobotInv'
  OBVIOUS
<1>1. CASE UNCHANGED robotVars
  BY <1>1 DEF robotVars, RobotInv, RobotBusy
<1>2. QED
  BY <1>1, RobotUserKeeps, RobotResumeKeeps, ServeRobotKeeps DEF RobotNext

-----------------------------------------------------------------------------
(* Part 3: the nodes.  What the wizard waits for is the call that adds its   *)
(* node, or the list that is read after it.                                  *)

ListingNodes == CallOf([op : {"list"}, then : {"show", "added"}], SUBSET NodeId)

Probing == CallOf([op : {"direct", "server"}], ProbeResult)

AddingNode == CallOf([op : {"add"}, id : NodeId, transport : {"network", "serial"}], {Nothing})

Removing == CallOf([op : {"remove"}, id : NodeId], {Nothing})

NodeCalls == ListingNodes \cup Probing \cup AddingNode \cup Removing

NodeStoreOK(store) ==
  /\ store = [list |-> store.list, loading |-> store.loading, probing |-> store.probing,
              probeResult |-> store.probeResult]
  /\ store.list \subseteq NodeId /\ store.loading \in BOOLEAN /\ store.probing \in BOOLEAN
  /\ store.probeResult \in ProbeResult \cup {Nothing}

WizardOK(w) ==
  /\ w = [step |-> w.step, transport |-> w.transport, host |-> w.host,
          nodeId |-> w.nodeId, adding |-> w.adding]
  /\ w.step \in {"idle", "connect", "detect", "confirm"}
  /\ w.transport \in {"network", "serial"}
  /\ w.host \in Host \cup {Nothing} /\ w.nodeId \in NodeId \cup {Nothing}

Adds(req) == req.op = "add" \/ (req.op = "list" /\ req.then = "added")

WaitsForAdd(adding, calls) ==
  adding # Nothing => adding \in DOMAIN calls /\ Adds(calls[adding].req)

Stands(w, store) ==
  w.step = "confirm" /\ w.transport = "network" =>
    store.probeResult # Nothing /\ store.probeResult.reachable

\* The list under way that ends the loading is not one that an add waits for.
Shows(req) == req.op = "list" /\ req.then = "show"

ShowsList(calls) == \E s \in DOMAIN calls : Shows(calls[s].req)

Probes(req) == req.op \in {"direct", "server"}

ProbesHost(calls) == \E s \in DOMAIN calls : Probes(calls[s].req)

StoreBusy(store, calls) ==
  (store.loading => ShowsList(calls)) /\ (store.probing => ProbesHost(calls))

NodesInv ==
  /\ registry \subseteq NodeId /\ NodeStoreOK(nodes) /\ WizardOK(wizard)
  /\ CallsIn(nodeCalls, NodeCalls) /\ WaitsForAdd(wizard.adding, nodeCalls)
  /\ Stands(wizard, nodes) /\ StoreBusy(nodes, nodeCalls)

LEMMA NodesInvSays == NodesInv => NodesTypeOK /\ NodesBusy /\ ConfirmStandsOnResult
<1>1. NodesInv => NodesTypeOK
  BY DEF NodesInv, NodeStoreOK, WizardOK, CallsIn, WaitsForAdd, NodesTypeOK
<1>2. NodesInv => NodesBusy
  BY DEF NodesInv, StoreBusy, ShowsList, Shows, ProbesHost, Probes, NodesBusy, InFlight
<1>3. NodesInv => ConfirmStandsOnResult
  BY DEF NodesInv, Stands, ConfirmStandsOnResult
<1>4. QED
  BY <1>1, <1>2, <1>3

LEMMA NodeCallIs ==
  ASSUME NEW call \in NodeCalls
  PROVE  /\ call.req.op \in {"list", "direct", "server", "add", "remove"}
         /\ call.req.op = "list" => call \in ListingNodes
         /\ call.req.op \in {"direct", "server"} => call \in Probing
         /\ call.req.op = "add" => call \in AddingNode
         /\ call.req.op = "remove" => call \in Removing
BY DEF NodeCalls, ListingNodes, Probing, AddingNode, Removing, CallOf

LEMMA NodeNewCalls ==
  /\ \A how \in {"show", "added"} : NewCall([op |-> "list", then |-> how]) \in NodeCalls
  /\ \A o \in {"direct", "server"} : NewCall([op |-> o]) \in NodeCalls
  /\ \A id \in NodeId, t \in {"network", "serial"} :
       NewCall([op |-> "add", id |-> id, transport |-> t]) \in NodeCalls
  /\ \A id \in NodeId : NewCall([op |-> "remove", id |-> id]) \in NodeCalls
BY DEF NodeCalls, ListingNodes, Probing, AddingNode, Removing, CallOf, NewCall

LEMMA NewWizardOK ==
  ASSUME NEW step \in {"idle", "connect", "detect"}, NEW store
  PROVE  /\ WizardOK(NewWizard(step)) /\ Stands(NewWizard(step), store)
         /\ NewWizard(step).adding = Nothing /\ NewWizard(step).step = step
BY DEF NewWizard, WizardOK, Stands

LEMMA AutoIdOK ==
  ASSUME NEW w, WizardOK(w), NEW result, NEW id \in NodeId
  PROVE  /\ WizardOK(AutoId(w, result, id)) /\ AutoId(w, result, id).adding = w.adding
         /\ AutoId(w, result, id).step = w.step /\ AutoId(w, result, id).transport = w.transport
<1>1. PICK filled : filled = [w EXCEPT !.nodeId = id]
  OBVIOUS
<1>2. WizardOK(filled) /\ filled.adding = w.adding /\ filled.step = w.step
      /\ filled.transport = w.transport
  BY <1>1 DEF WizardOK
<1>3. AutoId(w, result, id) = w \/ AutoId(w, result, id) = filled
  BY <1>1 DEF AutoId
<1>4. QED
  BY <1>2, <1>3

LEMMA NodesInvInit == NodesInit => NodesInv
<1> SUFFICES ASSUME NodesInit PROVE NodesInv
  OBVIOUS
<1>1. PICK req : req = [op |-> "list", then |-> "show"] /\ NewCall(req) \in NodeCalls
  BY NodeNewCalls
<1>2. nodeCalls = Send(NoCalls, req) /\ Shows(req)
  BY <1>1 DEF NodesInit, Shows
<1>3. CallsIn(NoCalls, NodeCalls) /\ CanSend(NoCalls)
  BY NoCallsIn
<1>4. /\ CallsIn(nodeCalls, NodeCalls)
      /\ DOMAIN nodeCalls = DOMAIN NoCalls \cup {FreeSlot(NoCalls)}
      /\ nodeCalls[FreeSlot(NoCalls)] = NewCall(req)
  BY <1>1, <1>2, <1>3, SendIn
<1>5. ShowsList(nodeCalls)
  BY <1>2, <1>4 DEF ShowsList, NewCall
<1>6. NodeStoreOK(nodes) /\ registry \subseteq NodeId /\ nodes.probing = FALSE
  BY DEF NodesInit, NodeStoreOK
<1>7. WizardOK(wizard) /\ Stands(wizard, nodes) /\ wizard.adding = Nothing
  BY NewWizardOK DEF NodesInit
<1>8. QED
  BY <1>4, <1>6, <1>7, <1>5 DEF NodesInv, WaitsForAdd, StoreBusy

\* A handler that sends nothing.
LEMMA WizardOnly ==
  ASSUME NodesInv, UNCHANGED <<registry, nodeCalls>>, WizardOK(wizard'), NodeStoreOK(nodes'),
         wizard'.adding \in {wizard.adding, Nothing}, Stands(wizard', nodes'),
         nodes'.loading = nodes.loading, nodes'.probing = nodes.probing
  PROVE  NodesInv'
<1>1. WaitsForAdd(wizard'.adding, nodeCalls)
  BY DEF NodesInv, WaitsForAdd
<1>2. QED
  BY <1>1 DEF NodesInv, StoreBusy

\* A handler, or the code after an await, that sends a call next to others.
LEMMA WizardSends ==
  ASSUME NEW calls, CallsIn(calls, NodeCalls), CanSend(calls), NEW req, NewCall(req) \in NodeCalls,
         nodeCalls' = Send(calls, req), WizardOK(wizard'), NodeStoreOK(nodes'),
         registry' \subseteq NodeId, Stands(wizard', nodes'),
         \/ WaitsForAdd(wizard'.adding, calls)
         \/ wizard'.adding = FreeSlot(calls) /\ Adds(req),
         nodes'.loading => (ShowsList(calls) \/ Shows(req)),
         nodes'.probing => (ProbesHost(calls) \/ Probes(req))
  PROVE  NodesInv'
<1>1. /\ CallsIn(nodeCalls', NodeCalls)
      /\ DOMAIN nodeCalls' = DOMAIN calls \cup {FreeSlot(calls)}
      /\ nodeCalls'[FreeSlot(calls)] = NewCall(req)
      /\ \A s \in DOMAIN calls : nodeCalls'[s] = calls[s]
  BY SendIn
<1>2. NewCall(req).req = req
  BY DEF NewCall
<1>3. WaitsForAdd(wizard'.adding, nodeCalls')
  BY <1>1, <1>2 DEF WaitsForAdd
<1>4. ShowsList(calls) \/ Shows(req) => ShowsList(nodeCalls')
  BY <1>1, <1>2 DEF ShowsList
<1>5. ProbesHost(calls) \/ Probes(req) => ProbesHost(nodeCalls')
  BY <1>1, <1>2 DEF ProbesHost
<1>6. QED
  BY <1>1, <1>3, <1>4, <1>5 DEF NodesInv, StoreBusy

\* The code after an await that sends nothing more.
LEMMA WizardSettles ==
  ASSUME NEW calls, CallsIn(calls, NodeCalls), nodeCalls' = calls, WizardOK(wizard'),
         NodeStoreOK(nodes'), registry' \subseteq NodeId, Stands(wizard', nodes'),
         WaitsForAdd(wizard'.adding, calls), nodes'.loading => ShowsList(calls),
         nodes'.probing => ProbesHost(calls)
  PROVE  NodesInv'
BY DEF NodesInv, StoreBusy

LEMMA WizardKeeps ==
  ASSUME NodesInv, UNCHANGED registry,
         \/ AddNode \/ Cancel \/ handleDetect \/ Proceed \/ Back \/ handleAdd
         \/ \E h \in Host : setHost(h)
         \/ \E t \in {"network", "serial"} : setTransport(t)
         \/ \E id \in NodeId \cup {Nothing} : setNodeId(id)
         \/ \E id \in nodes.list : removeNode(id)
  PROVE  NodesInv'
<1>1. CASE AddNode \/ Cancel
  <2>1. PICK step \in {"idle", "connect"} : wizard' = NewWizard(step)
    BY <1>1 DEF AddNode, Cancel
  <2>2. /\ NodeStoreOK(nodes') /\ nodes'.loading = nodes.loading
        /\ nodes'.probing = nodes.probing /\ UNCHANGED nodeCalls
    BY <1>1 DEF AddNode, Cancel, clearProbe, NodesInv, NodeStoreOK
  <2>3. WizardOK(wizard') /\ Stands(wizard', nodes') /\ wizard'.adding = Nothing
    BY <2>1, NewWizardOK
  <2>4. QED
    BY <2>2, <2>3, WizardOnly
<1>2. CASE handleDetect
  <2>1. CASE wizard.transport = "serial" /\ wizard' = [wizard EXCEPT !.step = "detect"]
             /\ UNCHANGED <<nodes, nodeCalls>>
    <3>1. WizardOK(wizard') /\ Stands(wizard', nodes') /\ wizard'.adding = wizard.adding
      BY <2>1 DEF NodesInv, WizardOK, Stands
    <3>2. QED
      BY <2>1, <3>1, WizardOnly DEF NodesInv
  <2>2. CASE /\ wizard.step = "connect" /\ CanSend(nodeCalls) /\ UNCHANGED wizard
             /\ nodes' = [nodes EXCEPT !.probing = TRUE, !.probeResult = Nothing]
             /\ nodeCalls' = Send(nodeCalls, [op |-> "direct"])
    <3>1. PICK req : req = [op |-> "direct"] /\ NewCall(req) \in NodeCalls /\ Probes(req)
      BY NodeNewCalls DEF Probes
    <3>2. NodeStoreOK(nodes') /\ nodes'.loading = nodes.loading /\ Stands(wizard', nodes')
      BY <2>2 DEF NodesInv, NodeStoreOK, Stands
    <3>3. QED
      BY <2>2, <3>1, <3>2, WizardSends DEF NodesInv, StoreBusy
  <2>3. QED
    BY <1>2, <2>1, <2>2 DEF handleDetect
<1>3. CASE Proceed \/ Back
  <2>1. PICK step \in {"connect", "detect", "confirm"} : wizard' = [wizard EXCEPT !.step = step]
    BY <1>3, Zenon DEF Proceed, Back
  <2>2. /\ UNCHANGED <<nodes, nodeCalls>> /\ Stands(wizard', nodes)
    BY <1>3 DEF Proceed, Back, Stands, NodesInv, WizardOK
  <2>3. WizardOK(wizard') /\ wizard'.adding = wizard.adding
    BY <2>1 DEF NodesInv, WizardOK
  <2>4. QED
    BY <2>2, <2>3, WizardOnly DEF NodesInv
<1>4. CASE handleAdd
  <2>1. PICK req : /\ req = [op |-> "add", id |-> wizard.nodeId, transport |-> wizard.transport]
                   /\ NewCall(req) \in NodeCalls
    BY <1>4, NodeNewCalls DEF handleAdd, NodesInv, WizardOK
  <2>2. /\ CanSend(nodeCalls) /\ nodeCalls' = Send(nodeCalls, req) /\ UNCHANGED nodes
        /\ wizard' = [wizard EXCEPT !.adding = FreeSlot(nodeCalls)]
    BY <1>4, <2>1 DEF handleAdd
  <2>3. WizardOK(wizard') /\ Stands(wizard', nodes') /\ wizard'.adding = FreeSlot(nodeCalls)
    BY <2>2 DEF NodesInv, WizardOK, Stands
  <2>4. QED
    BY <2>1, <2>2, <2>3, WizardSends DEF NodesInv, StoreBusy, Adds
<1>5. ASSUME NEW h \in Host, setHost(h) PROVE NodesInv'
  <2>1. PICK id \in NodeId : wizard' = AutoId([wizard EXCEPT !.host = h], nodes.probeResult, id)
    BY <1>5, Zenon DEF setHost
  <2>2. PICK w : w = [wizard EXCEPT !.host = h]
    OBVIOUS
  <2>3. WizardOK(w) /\ w.adding = wizard.adding /\ w.step = "connect"
    BY <1>5, <2>2 DEF setHost, NodesInv, WizardOK
  <2>4. WizardOK(wizard') /\ wizard'.adding = wizard.adding /\ Stands(wizard', nodes)
    <3>1. PICK next : next = AutoId(w, nodes.probeResult, id)
      OBVIOUS
    <3>2. WizardOK(next) /\ next.adding = w.adding /\ next.step = w.step
      BY <2>3, <3>1, AutoIdOK
    <3>3. wizard' = next
      BY <2>1, <2>2, <3>1, Zenon
    <3>4. QED
      BY <2>3, <3>2, <3>3 DEF Stands
  <2>5. QED
    BY <1>5, <2>4, WizardOnly DEF setHost, NodesInv
<1>6. ASSUME NEW t \in {"network", "serial"}, setTransport(t) PROVE NodesInv'
  <2>1. WizardOK(wizard') /\ wizard'.adding = wizard.adding /\ Stands(wizard', nodes)
    BY <1>6 DEF setTransport, NodesInv, WizardOK, Stands
  <2>2. QED
    BY <1>6, <2>1, WizardOnly DEF setTransport, NodesInv
<1>7. ASSUME NEW id \in NodeId \cup {Nothing}, setNodeId(id) PROVE NodesInv'
  <2>1. WizardOK(wizard') /\ wizard'.adding = wizard.adding /\ Stands(wizard', nodes)
    BY <1>7 DEF setNodeId, NodesInv, WizardOK, Stands
  <2>2. QED
    BY <1>7, <2>1, WizardOnly DEF setNodeId, NodesInv
<1>8. ASSUME NEW id \in nodes.list, removeNode(id) PROVE NodesInv'
  <2>1. id \in NodeId
    BY DEF NodesInv, NodeStoreOK
  <2>2. PICK req : req = [op |-> "remove", id |-> id] /\ NewCall(req) \in NodeCalls
    BY <2>1, NodeNewCalls
  <2>3. QED
    BY <1>8, <2>2, WizardSends DEF removeNode, NodesInv, StoreBusy
<1>9. QED
  BY <1>1, <1>2, <1>3, <1>4, <1>5, <1>6, <1>7, <1>8

\* An answered call is over: the others are in flight, and the wizard waits for
\* one of them unless it waited for this one.
LEMMA NodeSettles ==
  ASSUME NodesInv, NEW s \in Replied(nodeCalls)
  PROVE  /\ s \in DOMAIN nodeCalls /\ nodeCalls[s] \in NodeCalls
         /\ CallsIn(Settled(nodeCalls, s), NodeCalls) /\ CanSend(Settled(nodeCalls, s))
         /\ (wizard.adding # s \/ ~Adds(nodeCalls[s].req)) =>
              WaitsForAdd(wizard.adding, Settled(nodeCalls, s))
         /\ (nodes.loading /\ ~Shows(nodeCalls[s].req)) => ShowsList(Settled(nodeCalls, s))
         /\ (nodes.probing /\ ~Probes(nodeCalls[s].req)) => ProbesHost(Settled(nodeCalls, s))
<1>1. s \in DOMAIN nodeCalls /\ nodeCalls[s] \in NodeCalls /\ CallsIn(nodeCalls, NodeCalls)
  BY DEF Replied, NodesInv, CallsIn
<1>2. /\ CallsIn(Settled(nodeCalls, s), NodeCalls) /\ CanSend(Settled(nodeCalls, s))
      /\ DOMAIN Settled(nodeCalls, s) = DOMAIN nodeCalls \ {s}
      /\ \A t \in DOMAIN nodeCalls \ {s} : Settled(nodeCalls, s)[t] = nodeCalls[t]
  BY <1>1, SettledIn
<1>3. QED
  BY <1>1, <1>2 DEF NodesInv, WaitsForAdd, StoreBusy, ShowsList, ProbesHost

LEMMA ShowResultKeeps ==
  ASSUME NodesInv, UNCHANGED registry, NEW result \in ProbeResult, NEW calls,
         CallsIn(calls, NodeCalls), WaitsForAdd(wizard.adding, calls),
         nodes.loading => ShowsList(calls), ShowResult(result, calls)
  PROVE  NodesInv'
<1>1. PICK id \in NodeId : wizard' = AutoId(ToDetect(wizard), result, id)
  BY DEF ShowResult
<1>2. PICK w : w = ToDetect(wizard)
  OBVIOUS
<1>3. WizardOK(w) /\ w.step = "detect" /\ w.adding \in {wizard.adding, Nothing}
  BY <1>2, NewWizardOK DEF ToDetect, NodesInv, WizardOK
<1>4. WizardOK(wizard') /\ wizard'.step = "detect" /\ wizard'.adding \in {wizard.adding, Nothing}
  BY <1>1, <1>2, <1>3, AutoIdOK
<1>5. /\ NodeStoreOK(nodes') /\ nodes'.loading = nodes.loading /\ nodes'.probing = FALSE
      /\ nodeCalls' = calls
  BY DEF ShowResult, NodesInv, NodeStoreOK
<1>6. QED
  BY <1>4, <1>5, WizardSettles DEF NodesInv, Stands, WaitsForAdd

LEMMA ProbeRepliedKeeps ==
  ASSUME NodesInv, UNCHANGED registry, NEW s \in Replied(nodeCalls),
         nodeCalls[s].req.op \in {"direct", "server"}, ProbeReplied(s)
  PROVE  NodesInv'
<1> DEFINE calls == Settled(nodeCalls, s)
<1>1. /\ CallsIn(calls, NodeCalls) /\ CanSend(calls) /\ WaitsForAdd(wizard.adding, calls)
      /\ nodes.loading => ShowsList(calls)
      /\ nodeCalls[s] \in Probing
  BY NodeSettles, NodeCallIs DEF Adds, Shows
<1>2. Ok(nodeCalls, s) => nodeCalls[s].body \in ProbeResult
  BY <1>1 DEF Probing, CallOf, Ok
<1>3. Unreachable \in ProbeResult
  BY DEF Unreachable, ProbeResult
<1>4. PICK req : req = [op |-> "server"] /\ NewCall(req) \in NodeCalls /\ Probes(req)
  BY NodeNewCalls DEF Probes
<1>5. \/ \E result \in ProbeResult : ShowResult(result, calls)
      \/ nodeCalls' = Send(calls, req) /\ UNCHANGED <<nodes, wizard>>
  BY <1>2, <1>3, <1>4 DEF ProbeReplied
<1> HIDE DEF calls
<1>6. QED
  BY <1>1, <1>4, <1>5, ShowResultKeeps, WizardSends DEF NodesInv

LEMMA NotAddingOK ==
  ASSUME NEW w, WizardOK(w), NEW s
  PROVE  /\ WizardOK(NotAdding(w, s)) /\ NotAdding(w, s).step = w.step
         /\ NotAdding(w, s).transport = w.transport
         /\ NotAdding(w, s).adding = Nothing
              \/ (w.adding # s /\ NotAdding(w, s).adding = w.adding)
BY DEF NotAdding, WizardOK

LEMMA AddEnds ==
  ASSUME NodesInv, UNCHANGED <<registry, nodes>>, NEW s \in Replied(nodeCalls),
         nodes.loading => ShowsList(Settled(nodeCalls, s)),
         nodes.probing => ProbesHost(Settled(nodeCalls, s)),
         nodeCalls' = Settled(nodeCalls, s), wizard' = NotAdding(wizard, s)
  PROVE  NodesInv'
<1>1. /\ WizardOK(wizard') /\ wizard'.step = wizard.step /\ wizard'.transport = wizard.transport
      /\ wizard'.adding = Nothing \/ (wizard.adding # s /\ wizard'.adding = wizard.adding)
  BY NotAddingOK DEF NodesInv
<1>2. Stands(wizard', nodes')
  BY <1>1 DEF Stands, NodesInv
<1>3. WaitsForAdd(wizard'.adding, nodeCalls') /\ CallsIn(nodeCalls', NodeCalls)
  BY <1>1, NodeSettles DEF WaitsForAdd
<1>4. QED
  BY <1>1, <1>2, <1>3, WizardSettles DEF NodesInv

LEMMA AddedKeeps ==
  ASSUME NodesInv, UNCHANGED registry, NEW s \in Replied(nodeCalls), Added(s)
  PROVE  NodesInv'
<1> DEFINE calls == Settled(nodeCalls, s)
<1>1. /\ CallsIn(calls, NodeCalls) /\ CanSend(calls)
      /\ wizard.adding # s => WaitsForAdd(wizard.adding, calls)
      /\ nodes.loading => ShowsList(calls)
      /\ nodes.probing => ProbesHost(calls)
  BY NodeSettles DEF Added, Shows, Probes
<1>2. CASE ~Ok(nodeCalls, s)
  BY <1>1, <1>2, AddEnds DEF Added
<1>3. CASE Ok(nodeCalls, s)
  <2>1. PICK req : req = [op |-> "list", then |-> "added"] /\ NewCall(req) \in NodeCalls
    BY NodeNewCalls
  <2>2. /\ nodeCalls' = Send(calls, req) /\ UNCHANGED nodes
        /\ wizard' = [wizard EXCEPT !.adding = IF @ = s THEN FreeSlot(calls) ELSE @]
    BY <1>3, <2>1 DEF Added
  <2>3. /\ WizardOK(wizard') /\ Stands(wizard', nodes')
        /\ wizard'.adding = IF wizard.adding = s THEN FreeSlot(calls) ELSE wizard.adding
    BY <2>2 DEF NodesInv, WizardOK, Stands
  <2> HIDE DEF calls
  <2>4. QED
    BY <1>1, <2>1, <2>2, <2>3, WizardSends DEF NodesInv, Adds
<1>4. QED
  BY <1>2, <1>3

LEMMA RefreshedKeeps ==
  ASSUME NodesInv, UNCHANGED registry, NEW s \in Replied(nodeCalls), Refreshed(s)
  PROVE  NodesInv'
<1> DEFINE calls == Settled(nodeCalls, s)
<1>1. /\ CallsIn(calls, NodeCalls) /\ CanSend(calls) /\ nodeCalls[s] \in ListingNodes
      /\ nodes.loading => ShowsList(calls)
      /\ nodes.probing => ProbesHost(calls)
  BY NodeSettles, NodeCallIs DEF Refreshed, Shows, Probes
<1>2. CASE ~Ok(nodeCalls, s)
  BY <1>1, <1>2, AddEnds DEF Refreshed
<1>3. CASE Ok(nodeCalls, s)
  <2>1. PICK req : req = [op |-> "list", then |-> "show"] /\ NewCall(req) \in NodeCalls
    BY NodeNewCalls
  <2>2. /\ nodeCalls' = Send(calls, req) /\ wizard' = NewWizard("idle") /\ Shows(req)
        /\ nodes' = [nodes EXCEPT !.list = nodeCalls[s].body, !.loading = TRUE,
                                  !.probeResult = Nothing]
    BY <1>3, <2>1 DEF Refreshed, Shows
  <2>3. nodeCalls[s].body \subseteq NodeId
    BY <1>1, <1>3 DEF ListingNodes, CallOf, Ok
  <2>4. NodeStoreOK(nodes') /\ nodes'.probing = nodes.probing
    BY <2>2, <2>3 DEF NodesInv, NodeStoreOK
  <2>5. WizardOK(wizard') /\ Stands(wizard', nodes') /\ wizard'.adding = Nothing
    BY <2>2, NewWizardOK
  <2> HIDE DEF calls
  <2>6. QED
    BY <1>1, <2>1, <2>2, <2>4, <2>5, WizardSends DEF NodesInv, WaitsForAdd
<1>4. QED
  BY <1>2, <1>3

LEMMA ShowListKeeps ==
  ASSUME NodesInv, UNCHANGED registry, NEW s \in Replied(nodeCalls), ShowList(s) \/ Removed(s)
  PROVE  NodesInv'
<1> DEFINE calls == Settled(nodeCalls, s)
<1>1. /\ CallsIn(calls, NodeCalls) /\ WaitsForAdd(wizard.adding, calls)
      /\ nodes.loading /\ Removed(s) => ShowsList(calls)
      /\ nodes.probing => ProbesHost(calls)
      /\ nodeCalls[s] \in NodeCalls
  BY NodeSettles DEF ShowList, Removed, Shows, Adds, Probes
<1>2. nodeCalls' = calls /\ UNCHANGED wizard
  BY DEF ShowList, Removed
<1>3. NodeStoreOK(nodes') /\ (nodes'.loading => Removed(s) /\ nodes.loading)
      /\ nodes'.probeResult = nodes.probeResult /\ nodes'.probing = nodes.probing
  <2>1. CASE ShowList(s)
    <3>1. Ok(nodeCalls, s) => nodeCalls[s].body \subseteq NodeId
      BY <1>1, <2>1, NodeCallIs DEF ShowList, ListingNodes, CallOf, Ok
    <3>2. QED
      BY <2>1, <3>1 DEF ShowList, NodesInv, NodeStoreOK
  <2>2. CASE Removed(s)
    <3>1. PICK list : nodes' = [nodes EXCEPT !.list = list] /\ list \subseteq nodes.list
      BY <2>2 DEF Removed
    <3>2. QED
      BY <2>2, <3>1 DEF NodesInv, NodeStoreOK
  <2>3. QED
    BY <2>1, <2>2
<1> HIDE DEF calls
<1>4. QED
  BY <1>1, <1>2, <1>3, WizardSettles DEF NodesInv, Stands

LEMMA NodeServerKeeps == ASSUME NodesInv, NodeServer PROVE NodesInv'
<1>1. PICK s \in Sent(nodeCalls) : LET req == nodeCalls[s].req IN
    /\ UNCHANGED <<nodes, wizard>>
    /\ \/ /\ req.op = "list" /\ Reply(s, registry) /\ UNCHANGED registry
       \/ /\ req.op \in {"direct", "server"} /\ UNCHANGED registry
          /\ \E r \in ProbeResult : nodeCalls' = Answered(nodeCalls, s, r)
       \/ /\ req.op = "server" /\ UNCHANGED registry
          /\ nodeCalls' = Failed(nodeCalls, s)
       \/ /\ req.op = "add" /\ req.id \notin registry
          /\ Cardinality(registry) < MaxNodes
          /\ registry' = registry \cup {req.id}
          /\ Reply(s, Nothing)
       \/ /\ req.op = "remove" /\ registry' = registry \ {req.id}
          /\ Reply(s, Nothing)
       \/ /\ req.op \in {"add", "remove"} /\ UNCHANGED registry
          /\ nodeCalls' = Failed(nodeCalls, s)
  BY Zenon DEF NodeServer
<1> DEFINE call == nodeCalls[s]
<1>2. call \in NodeCalls /\ CallsIn(nodeCalls, NodeCalls) /\ registry \subseteq NodeId
  BY DEF Sent, NodesInv, CallsIn
<1>3. ASSUME NEW Req, NEW Body, CallOf(Req, Body) \subseteq NodeCalls, call \in CallOf(Req, Body),
             NEW body \in Body, registry' \subseteq NodeId,
             nodeCalls' = Answered(nodeCalls, s, body) \/ nodeCalls' = Failed(nodeCalls, s)
      PROVE  NodesInv'
  <2>1. /\ CallsIn(nodeCalls', NodeCalls) /\ Continued(nodeCalls, nodeCalls')
    BY <1>2, <1>3, AnsweredIn
  <2>2. WaitsForAdd(wizard.adding, nodeCalls') /\ StoreBusy(nodes, nodeCalls')
    BY <2>1 DEF Continued, NodesInv, WaitsForAdd, StoreBusy, ShowsList, ProbesHost
  <2>3. QED
    BY <1>1, <1>3, <2>1, <2>2 DEF NodesInv
<1>4. /\ ListingNodes \subseteq NodeCalls /\ Probing \subseteq NodeCalls
      /\ AddingNode \subseteq NodeCalls /\ Removing \subseteq NodeCalls
  BY DEF NodeCalls
<1>5. CASE call.req.op = "list" /\ Reply(s, registry) /\ UNCHANGED registry
  <2>1. call \in ListingNodes /\ registry \in SUBSET NodeId
    BY <1>2, <1>5, NodeCallIs
  <2>2. QED
    BY <1>2, <1>3, <1>4, <1>5, <2>1 DEF ListingNodes, Reply
<1>6. CASE call.req.op \in {"direct", "server"} /\ UNCHANGED registry
           /\ \E r \in ProbeResult :
                nodeCalls' = Answered(nodeCalls, s, r) \/ nodeCalls' = Failed(nodeCalls, s)
  <2>1. call \in Probing
    BY <1>2, <1>6, NodeCallIs
  <2>2. QED
    BY <1>2, <1>3, <1>4, <1>6, <2>1 DEF Probing
<1>7. CASE call.req.op \in {"add", "remove"} /\ registry' \subseteq NodeId
           /\ (nodeCalls' = Answered(nodeCalls, s, Nothing) \/ nodeCalls' = Failed(nodeCalls, s))
  <2>1. call \in AddingNode \/ call \in Removing
    BY <1>2, <1>7, NodeCallIs
  <2>2. QED
    <3>1. CASE call \in AddingNode
      BY <1>3, <1>4, <1>7, <3>1 DEF AddingNode
    <3>2. CASE call \in Removing
      BY <1>3, <1>4, <1>7, <3>2 DEF Removing
    <3>3. QED
      BY <2>1, <3>1, <3>2
<1>8. call.req.op = "add" => call.req.id \in NodeId
  BY <1>2, NodeCallIs DEF AddingNode, CallOf
<1>9. Unreachable \in ProbeResult
  BY DEF Unreachable, ProbeResult
<1>10. QED
  BY <1>1, <1>2, <1>5, <1>6, <1>7, <1>8, <1>9 DEF Reply

LEMMA NodesInvStep == NodesInv /\ [NodesNext]_nodeVars => NodesInv'
<1> SUFFICES ASSUME NodesInv, [NodesNext]_nodeVars PROVE NodesInv'
  OBVIOUS
<1>1. CASE UNCHANGED nodeVars
  BY <1>1 DEF nodeVars, NodesInv
<1>2. CASE NodesBrowser /\ UNCHANGED registry
  BY <1>2, WizardKeeps, ProbeRepliedKeeps, AddedKeeps, RefreshedKeeps, ShowListKeeps DEF NodesBrowser
<1>3. QED
  BY <1>1, <1>2, NodeServerKeeps DEF NodesNext
-----------------------------------------------------------------------------
(* Part 4: servo motion.  The card waits for the change of id of its own.    *)

Scanning == CallOf([op : {"scan"}], SUBSET Id)

Reading == CallOf([op : {"state"}], State)

Positioning == CallOf([op : {"position"}, position : Position], {Nothing})

Switching == CallOf([op : {"torque"}, enabled : BOOLEAN], {Nothing})

Renumbering == CallOf([op : {"setId"}, new : Id], {Nothing})

ServoCalls == Scanning \cup Reading \cup Positioning \cup Switching \cup Renumbering

ServosOK(store) ==
  /\ store = [state |-> store.state, listed |-> store.listed, scanning |-> store.scanning]
  /\ store.state \in State \cup {Nothing} /\ store.listed \in BOOLEAN /\ store.scanning \in BOOLEAN

CardOK(c) ==
  /\ c = [localPos |-> c.localPos, dragging |-> c.dragging, idChanging |-> c.idChanging]
  /\ c.localPos \in Position /\ c.dragging \in BOOLEAN

WaitsForId(changing, calls) ==
  changing # Nothing => changing \in DOMAIN calls /\ calls[changing].req.op = "setId"

ServoInv ==
  /\ servo \in [id : Id, position : Position, torque_on : BOOLEAN]
  /\ ServosOK(servos) /\ CardOK(card) /\ CallsIn(servoCalls, ServoCalls)
  /\ WaitsForId(card.idChanging, servoCalls) /\ ServoBusy

LEMMA ServoInvSays == ServoInv => ServoTypeOK /\ ServoBusy
BY DEF ServoInv, ServosOK, CardOK, CallsIn, WaitsForId, ServoTypeOK

LEMMA ServoCallIs ==
  ASSUME NEW call \in ServoCalls
  PROVE  /\ call.req.op \in {"scan", "state", "position", "torque", "setId"}
         /\ call.req.op = "scan" => call \in Scanning
         /\ call.req.op = "state" => call \in Reading
         /\ call.req.op = "position" => call \in Positioning
         /\ call.req.op = "torque" => call \in Switching
         /\ call.req.op = "setId" => call \in Renumbering
BY DEF ServoCalls, Scanning, Reading, Positioning, Switching, Renumbering, CallOf

LEMMA ServoNewCalls ==
  /\ NewCall([op |-> "scan"]) \in ServoCalls /\ NewCall([op |-> "state"]) \in ServoCalls
  /\ \A p \in Position : NewCall([op |-> "position", position |-> p]) \in ServoCalls
  /\ \A b \in BOOLEAN : NewCall([op |-> "torque", enabled |-> b]) \in ServoCalls
  /\ \A id \in Id : NewCall([op |-> "setId", new |-> id]) \in ServoCalls
BY DEF ServoCalls, Scanning, Reading, Positioning, Switching, Renumbering, CallOf, NewCall

LEMMA NewCardOK == CardOK(NewCard) /\ NewCard.idChanging = Nothing
<1>1. FirstPosition \in Position
  BY ServoAssumption DEF FirstPosition
<1>2. QED
  BY <1>1 DEF NewCard, CardOK

LEMMA FollowedOK ==
  ASSUME NEW c, CardOK(c), NEW state \in State \cup {Nothing}
  PROVE  /\ CardOK(Followed(c, state)) /\ Followed(c, state).idChanging = c.idChanging
         /\ c.dragging => Followed(c, state) = c
BY DEF Followed, CardOK, State

LEMMA ServoInvInit == ServoInit => ServoInv
<1> SUFFICES ASSUME ServoInit PROVE ServoInv
  OBVIOUS
<1>1. PICK req : req = [op |-> "scan"] /\ NewCall(req) \in ServoCalls
  BY ServoNewCalls
<1>2. servoCalls = Send(NoCalls, req) /\ req.op \in {"scan"}
  BY <1>1 DEF ServoInit
<1>3. CallsIn(NoCalls, ServoCalls) /\ CanSend(NoCalls)
  BY NoCallsIn
<1>4. CallsIn(servoCalls, ServoCalls)
  BY <1>1, <1>2, <1>3, SendIn
<1>5. InFlight(servoCalls, {"scan"})
  BY <1>1, <1>2, <1>3, SendInFlight
<1>6. CardOK(card) /\ card.idChanging = Nothing /\ ServosOK(servos)
  BY NewCardOK DEF ServoInit, ServosOK
<1>7. servo \in [id : Id, position : Position, torque_on : BOOLEAN]
  BY ServoAssumption DEF ServoInit, FirstPosition
<1>8. QED
  BY <1>4, <1>5, <1>6, <1>7 DEF ServoInv, WaitsForId, ServoBusy

\* A call is sent next to others, and the card may wait for it.
LEMMA CardSends ==
  ASSUME ServoInv, UNCHANGED servo, NEW calls, CallsIn(calls, ServoCalls), CanSend(calls),
         NEW req, NewCall(req) \in ServoCalls, servoCalls' = Send(calls, req),
         ServosOK(servos'), CardOK(card'),
         \/ WaitsForId(card'.idChanging, calls)
         \/ card'.idChanging = FreeSlot(calls) /\ req.op = "setId",
         servos'.scanning => (InFlight(calls, {"scan"}) \/ req.op = "scan")
  PROVE  ServoInv'
<1>1. /\ CallsIn(servoCalls', ServoCalls)
      /\ DOMAIN servoCalls' = DOMAIN calls \cup {FreeSlot(calls)}
      /\ servoCalls'[FreeSlot(calls)] = NewCall(req)
      /\ \A s \in DOMAIN calls : servoCalls'[s] = calls[s]
  BY SendIn
<1>2. NewCall(req).req = req
  BY DEF NewCall
<1>3. WaitsForId(card'.idChanging, servoCalls')
  BY <1>1, <1>2 DEF WaitsForId
<1>4. /\ InFlight(calls, {"scan"}) => InFlight(servoCalls', {"scan"})
      /\ req.op \in {"scan"} => InFlight(servoCalls', {"scan"})
  BY SendInFlight
<1>5. QED
  BY <1>1, <1>3, <1>4 DEF ServoInv, ServoBusy

\* Nothing is sent: calls are those left.
LEMMA CardSettles ==
  ASSUME ServoInv, UNCHANGED servo, NEW calls, CallsIn(calls, ServoCalls), servoCalls' = calls,
         ServosOK(servos'), CardOK(card'), WaitsForId(card'.idChanging, calls),
         servos'.scanning => InFlight(calls, {"scan"})
  PROVE  ServoInv'
BY DEF ServoInv, ServoBusy

\* A new state in the store, and the card that follows it, unless it is dragged.
LEMMA SetStateKeeps ==
  ASSUME ServoInv, NEW state \in State, SetState(state)
  PROVE  /\ ServosOK(servos') /\ CardOK(card') /\ servos'.scanning = servos.scanning
         /\ card'.idChanging = card.idChanging /\ (card.dragging => card' = card)
<1>1. ServosOK(servos') /\ servos'.scanning = servos.scanning
  BY DEF SetState, ServoInv, ServosOK
<1>2. QED
  BY <1>1, FollowedOK DEF SetState, ServoInv

\* What a handler of the card or of the bar does to what is held under the hand.
Holds == card.dragging /\ card'.dragging /\ servos'.state # servos.state
           => card'.localPos = card.localPos

LEMMA ServoSettles ==
  ASSUME ServoInv, NEW s \in Replied(servoCalls)
  PROVE  /\ s \in DOMAIN servoCalls /\ servoCalls[s] \in ServoCalls
         /\ CallsIn(Settled(servoCalls, s), ServoCalls) /\ CanSend(Settled(servoCalls, s))
         /\ (card.idChanging # s \/ servoCalls[s].req.op # "setId") =>
              WaitsForId(card.idChanging, Settled(servoCalls, s))
         /\ (servos.scanning /\ servoCalls[s].req.op # "scan") =>
              InFlight(Settled(servoCalls, s), {"scan"})
<1>1. s \in DOMAIN servoCalls /\ servoCalls[s] \in ServoCalls /\ CallsIn(servoCalls, ServoCalls)
  BY DEF Replied, ServoInv, CallsIn
<1>2. /\ CallsIn(Settled(servoCalls, s), ServoCalls) /\ CanSend(Settled(servoCalls, s))
      /\ DOMAIN Settled(servoCalls, s) = DOMAIN servoCalls \ {s}
      /\ \A t \in DOMAIN servoCalls \ {s} : Settled(servoCalls, s)[t] = servoCalls[t]
  BY <1>1, SettledIn
<1>3. servoCalls[s].req.op \notin {"scan"} /\ InFlight(servoCalls, {"scan"})
        => InFlight(Settled(servoCalls, s), {"scan"})
  BY <1>1, SettledInFlight
<1>4. QED
  BY <1>1, <1>2, <1>3 DEF ServoInv, WaitsForId, ServoBusy

LEMMA ServoStored ==
  ASSUME ServoInv, NEW s \in Replied(servoCalls), GotState(s) \/ Moved(s) \/ TorqueSet(s),
         UNCHANGED servo
  PROVE  ServoInv' /\ Holds
<1> DEFINE calls == Settled(servoCalls, s)
           call  == servoCalls[s]
<1>1. /\ CallsIn(calls, ServoCalls) /\ WaitsForId(card.idChanging, calls)
      /\ servos.scanning => InFlight(calls, {"scan"})
      /\ call \in ServoCalls
  BY ServoSettles DEF GotState, Moved, TorqueSet
<1>2. servoCalls' = calls
  BY DEF GotState, Moved, TorqueSet
<1>3. UNCHANGED <<servos, card>> \/ \E state \in State : SetState(state)
  <2>1. CASE GotState(s)
    <3>1. Ok(servoCalls, s) => call.body \in State
      BY <1>1, <2>1, ServoCallIs DEF GotState, Reading, CallOf, Ok
    <3>2. QED
      BY <2>1, <3>1 DEF GotState
  <2>2. CASE Moved(s)
    <3>1. call.req.position \in Position
      BY <1>1, <2>2, ServoCallIs DEF Moved, Positioning, CallOf
    <3>2. servos.state # Nothing => [servos.state EXCEPT !.position = call.req.position] \in State
      BY <3>1 DEF ServoInv, ServosOK, State
    <3>3. QED
      BY <2>2, <3>2 DEF Moved
  <2>3. CASE TorqueSet(s)
    <3>1. call.req.enabled \in BOOLEAN
      BY <1>1, <2>3, ServoCallIs DEF TorqueSet, Switching, CallOf
    <3>2. servos.state # Nothing => [servos.state EXCEPT !.torque_on = call.req.enabled] \in State
      BY <3>1 DEF ServoInv, ServosOK, State
    <3>3. QED
      BY <2>3, <3>2 DEF TorqueSet
  <2>4. QED
    BY <2>1, <2>2, <2>3
<1>4. /\ ServosOK(servos') /\ CardOK(card') /\ servos'.scanning = servos.scanning
      /\ card'.idChanging = card.idChanging
      /\ (card.dragging => card' = card) \/ servos'.state = servos.state
  BY <1>3, SetStateKeeps DEF ServoInv
<1> HIDE DEF calls
<1>5. ServoInv'
  BY <1>1, <1>2, <1>4, CardSettles
<1>6. QED
  BY <1>4, <1>5 DEF Holds

LEMMA ScannedKeeps ==
  ASSUME ServoInv, NEW s \in Replied(servoCalls), Scanned(s), UNCHANGED servo
  PROVE  ServoInv' /\ servos'.state = servos.state
<1> DEFINE calls == Settled(servoCalls, s)
<1>1. /\ CallsIn(calls, ServoCalls) /\ CanSend(calls) /\ WaitsForId(card.idChanging, calls)
  BY ServoSettles DEF Scanned
<1>2. PICK req : req = [op |-> "state"] /\ NewCall(req) \in ServoCalls
  BY ServoNewCalls
<1>3. servoCalls' = calls \/ servoCalls' = Send(calls, req)
  BY <1>2, Zenon DEF Scanned
<1>4. ServosOK(servos') /\ ~servos'.scanning /\ servos'.state = servos.state
  <2>1. PICK listed \in BOOLEAN : servos' = [servos EXCEPT !.listed = listed, !.scanning = FALSE]
    <3>1. CASE Ok(servoCalls, s)
      <4>1. servos' = [servos EXCEPT !.listed = (Card \in servoCalls[s].body), !.scanning = FALSE]
        BY <3>1, Zenon DEF Scanned
      <4>2. (Card \in servoCalls[s].body) \in BOOLEAN
        OBVIOUS
      <4>3. QED
        BY <4>1, <4>2, Zenon
    <3>2. CASE ~Ok(servoCalls, s)
      <4>1. servos' = [servos EXCEPT !.scanning = FALSE]
        BY <3>2, Zenon DEF Scanned
      <4>2. servos' = [servos EXCEPT !.listed = servos.listed, !.scanning = FALSE]
        BY <4>1 DEF ServoInv, ServosOK
      <4>3. QED
        BY <4>2 DEF ServoInv, ServosOK
    <3>3. QED
      BY <3>1, <3>2
  <2>2. QED
    BY <2>1 DEF ServoInv, ServosOK
<1>5. card' = card \/ card' = NewCard
  BY Zenon DEF Scanned
<1>6. CardOK(card') /\ WaitsForId(card'.idChanging, calls)
  BY <1>1, <1>5, NewCardOK DEF ServoInv, WaitsForId
<1> HIDE DEF calls
<1>7. QED
  BY <1>1, <1>2, <1>3, <1>4, <1>6, CardSends, CardSettles

LEMMA IdChangedKeeps ==
  ASSUME ServoInv, NEW s \in Replied(servoCalls), IdChanged(s), UNCHANGED servo
  PROVE  ServoInv' /\ servos'.state = servos.state
<1> DEFINE calls == Settled(servoCalls, s)
<1>1. /\ CallsIn(calls, ServoCalls) /\ CanSend(calls)
      /\ card.idChanging # s => WaitsForId(card.idChanging, calls)
      /\ servos.scanning => InFlight(calls, {"scan"})
  BY ServoSettles DEF IdChanged
<1>2. PICK req : req = [op |-> "scan"] /\ NewCall(req) \in ServoCalls
  BY ServoNewCalls
<1>3. PICK changing : /\ card' = [card EXCEPT !.idChanging = changing]
                      /\ changing = IF card.idChanging = s THEN Nothing ELSE card.idChanging
  BY DEF IdChanged
<1>4. CardOK(card') /\ WaitsForId(card'.idChanging, calls)
  BY <1>1, <1>3 DEF ServoInv, CardOK, WaitsForId
<1>5. \/ /\ servos' = [servos EXCEPT !.scanning = TRUE] /\ servoCalls' = Send(calls, req)
      \/ servos' = servos /\ servoCalls' = calls
  BY <1>2, Zenon DEF IdChanged
<1> HIDE DEF calls
<1>6. CASE servos' = servos /\ servoCalls' = calls
  BY <1>1, <1>4, <1>6, CardSettles DEF ServoInv
<1>7. CASE servos' = [servos EXCEPT !.scanning = TRUE] /\ servoCalls' = Send(calls, req)
  <2>1. ServosOK(servos') /\ servos'.state = servos.state
    BY <1>7 DEF ServoInv, ServosOK
  <2>2. QED
    BY <1>1, <1>2, <1>4, <1>7, <2>1, CardSends
<1>8. QED
  BY <1>5, <1>6, <1>7

\* A handler of the user, of a timer or of the event socket.
LEMMA ServoUserKeeps ==
  ASSUME ServoInv, UNCHANGED servo,
         \/ ScanBus \/ handleAddManual \/ Refresh \/ TorqueButton \/ handleSliderRelease
         \/ \E p \in Position :
              handleSliderChange(p) \/ handleQuickPos(p) \/ updateFromEvent(p)
         \/ \E id \in Id : handleChangeId(id)
  PROVE  ServoInv' /\ Holds
<1>0. /\ CallsIn(servoCalls, ServoCalls) /\ WaitsForId(card.idChanging, servoCalls)
      /\ servos.scanning => InFlight(servoCalls, {"scan"})
      /\ ServosOK(servos) /\ CardOK(card)
  BY DEF ServoInv, ServoBusy
<1>1. ASSUME NEW req, NewCall(req) \in ServoCalls, Ask(req), ServosOK(servos'),
             servos'.state = servos.state, servos'.scanning => (servos.scanning \/ req.op = "scan"),
             CardOK(card'),
             \/ card'.idChanging = card.idChanging
             \/ card'.idChanging = FreeSlot(servoCalls) /\ req.op = "setId"
      PROVE  ServoInv' /\ Holds
  <2>1. CanSend(servoCalls) /\ servoCalls' = Send(servoCalls, req)
    BY <1>1 DEF Ask
  <2>2. ServoInv'
    BY <1>0, <1>1, <2>1, CardSends
  <2>3. QED
    BY <1>1, <2>2 DEF Holds
<1>2. CASE ScanBus
  <2>1. ServosOK(servos') /\ servos'.state = servos.state
    BY <1>0, <1>2 DEF ScanBus, ServosOK
  <2>2. QED
    BY <1>0, <1>1, <1>2, <2>1, ServoNewCalls DEF ScanBus
<1>3. CASE handleAddManual
  <2>1. ServosOK(servos') /\ servos'.state = servos.state /\ servos'.scanning = servos.scanning
    BY <1>0, <1>3 DEF handleAddManual, ServosOK
  <2>2. QED
    BY <1>0, <1>1, <1>3, <2>1, ServoNewCalls DEF handleAddManual
<1>4. CASE Refresh
  BY <1>0, <1>1, <1>4, ServoNewCalls DEF Refresh
<1>5. CASE TorqueButton
  <2>1. PICK req : req = [op |-> "torque", enabled |-> ~servos.state.torque_on]
    OBVIOUS
  <2>2. NewCall(req) \in ServoCalls
    BY <2>1, ServoNewCalls
  <2>3. QED
    BY <1>0, <1>1, <1>5, <2>1, <2>2 DEF TorqueButton
<1>6. CASE handleSliderRelease
  <2>1. PICK req : req = [op |-> "position", position |-> card.localPos] /\ NewCall(req) \in ServoCalls
    BY <1>0, ServoNewCalls DEF CardOK
  <2>2. PICK free : free = [card EXCEPT !.dragging = FALSE]
    OBVIOUS
  <2>3. CardOK(free) /\ free.idChanging = card.idChanging
    BY <1>0, <2>2 DEF CardOK
  <2>4. card' = card \/ card' = Followed(free, servos.state)
    BY <1>6, <2>2, Zenon DEF handleSliderRelease
  <2>5. CardOK(card') /\ card'.idChanging = card.idChanging
    BY <1>0, <2>3, <2>4, FollowedOK DEF ServosOK
  <2>6. QED
    BY <1>0, <1>1, <1>6, <2>1, <2>5 DEF handleSliderRelease
<1>7. ASSUME NEW p \in Position, handleSliderChange(p) PROVE ServoInv' /\ Holds
  <2>1. CardOK(card') /\ card'.idChanging = card.idChanging
    BY <1>0, <1>7 DEF handleSliderChange, CardOK
  <2>2. servos' = servos /\ servoCalls' = servoCalls
    BY <1>7 DEF handleSliderChange
  <2>3. QED
    BY <1>0, <2>1, <2>2, CardSettles DEF Holds
<1>8. ASSUME NEW p \in Position, handleQuickPos(p) PROVE ServoInv' /\ Holds
  <2>1. PICK req : req = [op |-> "position", position |-> p] /\ NewCall(req) \in ServoCalls
    BY ServoNewCalls
  <2>2. CardOK(card') /\ card'.idChanging = card.idChanging
    BY <1>0, <1>8 DEF handleQuickPos, CardOK
  <2>3. QED
    BY <1>0, <1>1, <1>8, <2>1, <2>2 DEF handleQuickPos
<1>9. ASSUME NEW p \in Position, updateFromEvent(p) PROVE ServoInv' /\ Holds
  <2>1. PICK state \in State : SetState(state)
    <3>1. [servos.state EXCEPT !.position = p] \in State
      BY <1>0, <1>9 DEF updateFromEvent, ServosOK, State
    <3>2. QED
      BY <1>9, <3>1 DEF updateFromEvent
  <2>2. servoCalls' = servoCalls
    BY <1>9 DEF updateFromEvent
  <2>3. /\ ServosOK(servos') /\ CardOK(card') /\ servos'.scanning = servos.scanning
        /\ card'.idChanging = card.idChanging /\ (card.dragging => card' = card)
    BY <2>1, SetStateKeeps
  <2>4. ServoInv'
    BY <1>0, <2>2, <2>3, CardSettles
  <2>5. QED
    BY <2>3, <2>4 DEF Holds
<1>10. ASSUME NEW id \in Id, handleChangeId(id) PROVE ServoInv' /\ Holds
  <2>1. PICK req : req = [op |-> "setId", new |-> id] /\ NewCall(req) \in ServoCalls
    BY ServoNewCalls
  <2>2. CardOK(card') /\ card'.idChanging = FreeSlot(servoCalls)
    BY <1>0, <1>10 DEF handleChangeId, CardOK
  <2>3. QED
    BY <1>0, <1>1, <1>10, <2>1, <2>2 DEF handleChangeId
<1>11. QED
  BY <1>2, <1>3, <1>4, <1>5, <1>6, <1>7, <1>8, <1>9, <1>10

LEMMA ServeServoKeeps ==
  ASSUME ServoInv, NEW s \in Sent(servoCalls), ServeServo(s), UNCHANGED <<servos, card>>
  PROVE  ServoInv'
<1> DEFINE call == servoCalls[s]
<1>1. call \in ServoCalls /\ CallsIn(servoCalls, ServoCalls)
  BY DEF Sent, ServoInv, CallsIn
<1>2. ASSUME NEW Req, NEW Body, CallOf(Req, Body) \subseteq ServoCalls, call \in CallOf(Req, Body),
             NEW body \in Body, servo' \in [id : Id, position : Position, torque_on : BOOLEAN],
             servoCalls' = Answered(servoCalls, s, body) \/ servoCalls' = Failed(servoCalls, s)
      PROVE  ServoInv'
  <2>1. CallsIn(servoCalls', ServoCalls) /\ Continued(servoCalls, servoCalls')
    BY <1>1, <1>2, AnsweredIn
  <2>2. WaitsForId(card.idChanging, servoCalls') /\ ServoBusy'
    BY <2>1 DEF Continued, ServoInv, WaitsForId, ServoBusy, InFlight
  <2>3. QED
    BY <1>2, <2>1, <2>2 DEF ServoInv
<1>3. /\ Scanning \subseteq ServoCalls /\ Reading \subseteq ServoCalls
      /\ Positioning \subseteq ServoCalls /\ Switching \subseteq ServoCalls
      /\ Renumbering \subseteq ServoCalls
  BY DEF ServoCalls
<1>4. CASE call.req.op = "scan" /\ UNCHANGED servo
           /\ \E ids \in SUBSET Id :
                servoCalls' = Answered(servoCalls, s, ids) \/ servoCalls' = Failed(servoCalls, s)
  <2>1. call \in Scanning
    BY <1>1, <1>4, ServoCallIs
  <2>2. QED
    BY <1>2, <1>3, <1>4, <2>1 DEF Scanning, ServoInv
<1>5. CASE call.req.op = "state" /\ UNCHANGED servo
           /\ \E state \in State :
                servoCalls' = Answered(servoCalls, s, state) \/ servoCalls' = Failed(servoCalls, s)
  <2>1. call \in Reading
    BY <1>1, <1>5, ServoCallIs
  <2>2. QED
    BY <1>2, <1>3, <1>5, <2>1 DEF Reading, ServoInv
<1>6. CASE /\ call.req.op \in {"position", "torque", "setId"}
           /\ servo' \in [id : Id, position : Position, torque_on : BOOLEAN]
           /\ servoCalls' = Answered(servoCalls, s, Nothing) \/ servoCalls' = Failed(servoCalls, s)
  <2>1. call \in Positioning \/ call \in Switching \/ call \in Renumbering
    BY <1>1, <1>6, ServoCallIs
  <2>2. CASE call \in Positioning
    BY <1>2, <1>3, <1>6, <2>2 DEF Positioning
  <2>3. CASE call \in Switching
    BY <1>2, <1>3, <1>6, <2>3 DEF Switching
  <2>4. CASE call \in Renumbering
    BY <1>2, <1>3, <1>6, <2>4 DEF Renumbering
  <2>5. QED
    BY <2>1, <2>2, <2>3, <2>4
<1>7. FirstPosition \in Position
  BY ServoAssumption DEF FirstPosition
<1>8. [position |-> servo.position, torque_on |-> servo.torque_on] \in State
      /\ servo.id \in Id
  BY DEF ServoInv, State
<1>9. CASE call.req.op = "scan"
  BY <1>4, <1>8, <1>9 DEF ServeServo, ServoReply
<1>10. CASE call.req.op = "state"
  BY <1>5, <1>8, <1>10 DEF ServeServo, ServoReply
<1>11. CASE call.req.op \in {"position", "torque", "setId"}
  <2>1. /\ call.req.op = "position" => call.req.position \in Position
        /\ call.req.op = "torque" => call.req.enabled \in BOOLEAN
        /\ call.req.op = "setId" => call.req.new \in Id
    BY <1>1, ServoCallIs DEF Positioning, Switching, Renumbering, CallOf
  <2>2. servo' \in [id : Id, position : Position, torque_on : BOOLEAN]
    BY <1>11, <2>1 DEF ServeServo, ServoInv
  <2>3. QED
    BY <1>6, <1>11, <2>2 DEF ServeServo, ServoReply
<1>12. QED
  BY <1>1, <1>9, <1>10, <1>11, ServoCallIs

LEMMA ServoServerKeeps == ASSUME ServoInv, ServoServer PROVE ServoInv' /\ Holds
<1>1. UNCHANGED <<servos, card>>
  BY DEF ServoServer
<1>2. ASSUME TorqueOff, UNCHANGED servoCalls PROVE ServoInv'
  <2>1. servo' \in [id : Id, position : Position, torque_on : BOOLEAN]
    BY <1>2 DEF TorqueOff, ServoInv
  <2>2. ServosOK(servos') /\ CardOK(card') /\ CallsIn(servoCalls', ServoCalls)
        /\ ServoBusy' /\ WaitsForId(card'.idChanging, servoCalls')
    BY <1>1, <1>2 DEF ServoInv, ServoBusy
  <2>3. QED
    BY <2>1, <2>2 DEF ServoInv
<1>3. ServoInv'
  BY <1>1, <1>2, ServeServoKeeps DEF ServoServer
<1>4. QED
  BY <1>1, <1>3 DEF Holds

LEMMA ServoInvStep == ServoInv /\ [ServoNext]_servoVars => ServoInv' /\ Holds
<1> SUFFICES ASSUME ServoInv, [ServoNext]_servoVars PROVE ServoInv' /\ Holds
  OBVIOUS
<1>1. CASE UNCHANGED servoVars
  BY <1>1 DEF servoVars, ServoInv, ServoBusy, Holds
<1>2. ASSUME NEW s \in Replied(servoCalls), UNCHANGED servo, Scanned(s) \/ IdChanged(s)
      PROVE  ServoInv' /\ Holds
  BY <1>2, ScannedKeeps, IdChangedKeeps DEF Holds
<1>3. CASE ServoBrowser /\ UNCHANGED servo
  BY <1>2, <1>3, ServoStored, ServoUserKeeps DEF ServoBrowser
<1>4. QED
  BY <1>1, <1>3, ServoServerKeeps DEF ServoNext
-----------------------------------------------------------------------------
(* Part 5: the Klipper console.  An answer is the one of its own command.    *)

ResultOf(g) == [of : {g}, error : BOOLEAN]

LogEntry == UNION {[cmd : {g}, result : {Nothing} \cup ResultOf(g)] : g \in Gcode}

Asking == CallOf([op : {"status"}], {Nothing})

Running(g) == CallOf([op : {"gcode", "orphan"}, cmd : {g}, from : {"input", "button"},
                      seen : Seq(LogEntry)], ResultOf(g))

GcodeCalls == Asking \cup UNION {Running(g) : g \in Gcode}

ConsoleOK(c) ==
  /\ c = [open |-> c.open, input |-> c.input, history |-> c.history]
  /\ c.open \in BOOLEAN
  /\ c.input \in Gcode \cup {Nothing} /\ c.history \in Seq(LogEntry)

KlipperOK(k) ==
  k = [status |-> k.status, error |-> k.error] /\ k.status \in BOOLEAN /\ k.error \in BOOLEAN

GcodeInv ==
  KlipperOK(klipper) /\ ConsoleOK(console) /\ CallsIn(gcodeCalls, GcodeCalls)

LEMMA LogEntryIs ==
  ASSUME NEW entry \in LogEntry
  PROVE  entry.cmd \in Gcode /\ (entry.result # Nothing => entry.result.of = entry.cmd)
BY DEF LogEntry, ResultOf

LEMMA LoggedWell ==
  ASSUME NEW history \in Seq(LogEntry)
  PROVE  \A i \in DOMAIN history : history[i].cmd \in Gcode
           /\ (history[i].result # Nothing => history[i].result.of = history[i].cmd)
<1>1. \A i \in DOMAIN history : history[i] \in LogEntry
  OBVIOUS
<1>2. QED
  BY <1>1, LogEntryIs

LEMMA GcodeInvSays == GcodeInv => GcodeTypeOK
BY LoggedWell DEF GcodeInv, ConsoleOK, KlipperOK, CallsIn, GcodeTypeOK

LEMMA GcodeCallIs ==
  ASSUME NEW call \in GcodeCalls
  PROVE  /\ call.req.op \in {"status", "gcode", "orphan"}
         /\ call.req.op = "status" => call \in Asking
         /\ call.req.op \in {"gcode", "orphan"} => call.req.cmd \in Gcode /\ call \in Running(call.req.cmd)
BY DEF GcodeCalls, Asking, Running, CallOf

LEMMA GcodeNewCalls ==
  /\ NewCall([op |-> "status"]) \in GcodeCalls
  /\ \A g \in Gcode, from \in {"input", "button"}, seen \in Seq(LogEntry) :
       NewCall([op |-> "gcode", cmd |-> g, from |-> from, seen |-> seen]) \in GcodeCalls
<1>1. NewCall([op |-> "status"]) \in GcodeCalls
  BY DEF GcodeCalls, Asking, CallOf, NewCall
<1>2. ASSUME NEW g \in Gcode, NEW from \in {"input", "button"}, NEW seen \in Seq(LogEntry)
      PROVE  NewCall([op |-> "gcode", cmd |-> g, from |-> from, seen |-> seen]) \in GcodeCalls
  <2>1. NewCall([op |-> "gcode", cmd |-> g, from |-> from, seen |-> seen]) \in Running(g)
    BY DEF Running, CallOf, NewCall
  <2>2. QED
    BY <2>1 DEF GcodeCalls
<1>3. QED
  BY <1>1, <1>2

LEMMA GcodeInvInit == GcodeInit => GcodeInv
<1> SUFFICES ASSUME GcodeInit PROVE GcodeInv
  OBVIOUS
<1>1. PICK req : req = [op |-> "status"] /\ NewCall(req) \in GcodeCalls
  BY GcodeNewCalls
<1>2. CallsIn(NoCalls, GcodeCalls) /\ CanSend(NoCalls)
  BY NoCallsIn
<1>3. gcodeCalls = Send(NoCalls, req)
  BY <1>1 DEF GcodeInit
<1>4. CallsIn(gcodeCalls, GcodeCalls)
  BY <1>1, <1>2, <1>3, SendIn
<1>5. ConsoleOK(console) /\ KlipperOK(klipper)
  BY DEF GcodeInit, EmptyConsole, ConsoleOK, KlipperOK
<1>6. QED
  BY <1>4, <1>5 DEF GcodeInv

\* The number of commands logged or pending.
LEMMA PendingIs == \A calls : Pending(calls) = Of(calls, "gcode")
BY DEF Pending, Of

\* What a step does to the log that is shown.
Accounts ==
  console.open /\ console'.open =>
    /\ Logged(console', gcodeCalls') >= Logged(console, gcodeCalls)
    /\ DOMAIN gcodeCalls' \subseteq DOMAIN gcodeCalls =>
         Logged(console', gcodeCalls') = Logged(console, gcodeCalls)

\* A call is sent: a command that is sent is counted.
LEMMA GcodeSends ==
  ASSUME GcodeInv, NEW req, NewCall(req) \in GcodeCalls, CanSend(gcodeCalls),
         gcodeCalls' = Send(gcodeCalls, req), UNCHANGED <<klipper, console>>
  PROVE  GcodeInv' /\ Accounts
<1>1. CallsIn(gcodeCalls', GcodeCalls) /\ ~(DOMAIN gcodeCalls' \subseteq DOMAIN gcodeCalls)
  <2>1. /\ CallsIn(gcodeCalls', GcodeCalls) /\ FreeSlot(gcodeCalls) \notin DOMAIN gcodeCalls
        /\ DOMAIN gcodeCalls' = DOMAIN gcodeCalls \cup {FreeSlot(gcodeCalls)}
    BY SendIn DEF GcodeInv
  <2>2. QED
    BY <2>1
<1>2. /\ Cardinality(Pending(gcodeCalls')) >= Cardinality(Pending(gcodeCalls))
      /\ Cardinality(Pending(gcodeCalls')) \in Nat /\ Cardinality(Pending(gcodeCalls)) \in Nat
  BY <1>1, PendingIs, OfSent, OfFinite DEF GcodeInv
<1>3. Len(console.history) \in Nat
  BY DEF GcodeInv, ConsoleOK
<1>4. GcodeInv'
  BY <1>1 DEF GcodeInv
<1>5. Accounts
  BY <1>1, <1>2, <1>3 DEF Accounts, Logged
<1>6. QED
  BY <1>4, <1>5

LEMMA GotStatusKeeps ==
  ASSUME GcodeInv, NEW s \in Replied(gcodeCalls), gcodeCalls[s].req.op = "status", GotStatus(s)
  PROVE  GcodeInv' /\ Accounts
<1>1. s \in DOMAIN gcodeCalls /\ CallsIn(gcodeCalls, GcodeCalls)
  BY DEF Replied, GcodeInv
<1>2. gcodeCalls' = Settled(gcodeCalls, s) /\ console' = console
  BY DEF GotStatus
<1>3. CallsIn(gcodeCalls', GcodeCalls)
  BY <1>1, <1>2, SettledIn
<1>4. /\ Cardinality(Pending(gcodeCalls')) = Cardinality(Pending(gcodeCalls))
      /\ Cardinality(Pending(gcodeCalls)) \in Nat
  BY <1>1, <1>2, PendingIs, OfSettled, OfFinite
<1>5. Len(console.history) \in Nat
  BY DEF GcodeInv, ConsoleOK
<1>6. KlipperOK(klipper')
  BY DEF GotStatus, GcodeInv, KlipperOK
<1>7. GcodeInv'
  BY <1>2, <1>3, <1>6 DEF GcodeInv
<1>8. Accounts
  BY <1>2, <1>4, <1>5 DEF Accounts, Logged
<1>9. QED
  BY <1>7, <1>8

\* The command that ends goes from the calls into the log, if that is there.
LEMMA GcodeDoneKeeps ==
  ASSUME GcodeInv, NEW s \in Replied(gcodeCalls), gcodeCalls[s].req.op \in {"gcode", "orphan"},
         GcodeDone(s)
  PROVE  GcodeInv' /\ Accounts
<1> DEFINE call  == gcodeCalls[s]
           entry == [cmd |-> call.req.cmd, result |-> call.body]
<1>1. s \in DOMAIN gcodeCalls /\ CallsIn(gcodeCalls, GcodeCalls) /\ call \in GcodeCalls
  BY DEF Replied, GcodeInv, CallsIn
<1>2. gcodeCalls' = Settled(gcodeCalls, s)
  BY DEF GcodeDone
<1>3. CallsIn(gcodeCalls', GcodeCalls)
  BY <1>1, <1>2, SettledIn
<1>4. KlipperOK(klipper')
  <2>1. PICK b \in BOOLEAN : klipper' = [klipper EXCEPT !.error = b]
    BY Zenon DEF GcodeDone
  <2>2. QED
    BY <2>1 DEF GcodeInv, KlipperOK
<1>5. /\ Cardinality(Pending(gcodeCalls'))
           = Cardinality(Pending(gcodeCalls)) - (IF call.req.op = "gcode" THEN 1 ELSE 0)
      /\ Cardinality(Pending(gcodeCalls)) \in Nat
  BY <1>1, <1>2, PendingIs, OfSettled, OfFinite
<1>6. console.history \in Seq(LogEntry) /\ console.input \in Gcode \cup {Nothing}
  BY DEF GcodeInv, ConsoleOK
<1>7. CASE call.req.op = "orphan"
  <2>1. console' = console
    BY <1>7 DEF GcodeDone
  <2>2. GcodeInv'
    BY <1>3, <1>4, <2>1 DEF GcodeInv
  <2>3. Accounts
    BY <1>5, <1>6, <1>7, <2>1 DEF Accounts, Logged
  <2>4. QED
    BY <2>2, <2>3
<1>8. CASE call.req.op = "gcode"
  <2>1. PICK g \in Gcode : g = call.req.cmd /\ call \in Running(g)
    BY <1>1, <1>8, GcodeCallIs
  <2>2. call.body \in {Nothing} \cup ResultOf(g)
    BY <2>1 DEF Running, CallOf
  <2>3. PICK e \in LogEntry : e = entry
    <3>1. entry \in [cmd : {g}, result : {Nothing} \cup ResultOf(g)]
      BY <2>1, <2>2
    <3>2. QED
      BY <3>1 DEF LogEntry
  <2>4. console' = [open |-> TRUE, history |-> Append(console.history, e),
                    input |-> IF call.req.from = "input" THEN Nothing ELSE console.input]
    BY <1>8, <2>3 DEF GcodeDone, LogNow
  <2>5. /\ Append(console.history, e) \in Seq(LogEntry)
        /\ Len(Append(console.history, e)) = Len(console.history) + 1
        /\ Len(console.history) \in Nat
    BY <1>6
  <2> HIDE DEF call, entry
  <2>6. ConsoleOK(console') /\ Len(console'.history) = Len(console.history) + 1
    BY <1>6, <2>4, <2>5 DEF ConsoleOK
  <2>7. GcodeInv'
    BY <1>3, <1>4, <2>6 DEF GcodeInv
  <2>8. Accounts
    BY <1>5, <1>8, <2>5, <2>6 DEF Accounts, Logged
  <2>9. QED
    BY <2>7, <2>8
<1>9. QED
  BY <1>7, <1>8

\* Leaving the view, the commands in flight are nobody's.
LEMMA LeaveConsoleKeeps ==
  ASSUME GcodeInv, LeaveConsole PROVE GcodeInv' /\ Accounts
<1> DEFINE Left(s) == IF s \in Pending(gcodeCalls)
                      THEN [gcodeCalls[s] EXCEPT !.req.op = "orphan"] ELSE gcodeCalls[s]
<1>1. CallsIn(gcodeCalls, GcodeCalls) /\ klipper' = klipper /\ KlipperOK(klipper)
  BY DEF GcodeInv, LeaveConsole
<1>2. console' = [open |-> FALSE, input |-> Nothing, history |-> <<>>]
  BY DEF LeaveConsole, EmptyConsole
<1>3. ASSUME NEW s \in DOMAIN gcodeCalls PROVE Left(s) \in GcodeCalls
  <2>1. gcodeCalls[s] \in GcodeCalls
    BY <1>1 DEF CallsIn
  <2>2. CASE s \in Pending(gcodeCalls)
    <3>1. PICK g \in Gcode : gcodeCalls[s] \in Running(g)
      BY <2>1, <2>2, GcodeCallIs DEF Pending
    <3>2. [gcodeCalls[s] EXCEPT !.req.op = "orphan"] \in Running(g)
      BY <3>1 DEF Running, CallOf
    <3>3. QED
      BY <2>2, <3>2 DEF GcodeCalls
  <2>3. QED
    BY <2>1, <2>2
<1>4. gcodeCalls' = [s \in DOMAIN gcodeCalls |-> Left(s)]
  BY DEF LeaveConsole
<1> HIDE DEF Left
<1>5. CallsIn(gcodeCalls', GcodeCalls)
  BY <1>1, <1>3, <1>4 DEF CallsIn
<1>6. ConsoleOK(console')
  BY <1>2 DEF ConsoleOK
<1>7. GcodeInv'
  BY <1>1, <1>5, <1>6 DEF GcodeInv
<1>8. Accounts
  BY <1>2 DEF Accounts
<1>9. QED
  BY <1>7, <1>8

LEMMA OpenConsoleKeeps ==
  ASSUME GcodeInv, OpenConsole PROVE GcodeInv' /\ Accounts
<1>1. PICK req : req = [op |-> "status"] /\ NewCall(req) \in GcodeCalls
  BY GcodeNewCalls
<1>2. /\ gcodeCalls' = Send(gcodeCalls, req) /\ CanSend(gcodeCalls) /\ ~console.open
      /\ console' = EmptyConsole /\ klipper' = klipper
  BY <1>1 DEF OpenConsole
<1>3. CallsIn(gcodeCalls', GcodeCalls)
  BY <1>1, <1>2, SendIn DEF GcodeInv
<1>4. ConsoleOK(console')
  BY <1>2 DEF EmptyConsole, ConsoleOK
<1>5. GcodeInv'
  BY <1>2, <1>3, <1>4 DEF GcodeInv
<1>6. Accounts
  BY <1>2 DEF Accounts
<1>7. QED
  BY <1>5, <1>6

LEMMA ServeGcodeKeeps ==
  ASSUME GcodeInv, NEW s \in Sent(gcodeCalls), ServeGcode(s)
  PROVE  GcodeInv' /\ Accounts
<1> DEFINE call == gcodeCalls[s]
<1>1. call \in GcodeCalls /\ CallsIn(gcodeCalls, GcodeCalls) /\ UNCHANGED <<klipper, console>>
  BY DEF Sent, GcodeInv, CallsIn, ServeGcode
<1>2. ASSUME NEW Req, NEW Body, CallOf(Req, Body) \subseteq GcodeCalls, call \in CallOf(Req, Body),
             NEW body \in Body,
             gcodeCalls' = Answered(gcodeCalls, s, body) \/ gcodeCalls' = Failed(gcodeCalls, s)
      PROVE  GcodeInv' /\ Accounts
  <2>1. /\ CallsIn(gcodeCalls', GcodeCalls) /\ Continued(gcodeCalls, gcodeCalls')
        /\ DOMAIN gcodeCalls' = DOMAIN gcodeCalls
    BY <1>1, <1>2, AnsweredIn
  <2>2. Cardinality(Pending(gcodeCalls')) = Cardinality(Pending(gcodeCalls))
    BY <2>1, PendingIs, OfContinued
  <2>3. Cardinality(Pending(gcodeCalls)) \in Nat /\ Len(console.history) \in Nat
    BY <1>1, PendingIs, OfFinite DEF GcodeInv, ConsoleOK
  <2>4. GcodeInv'
    BY <1>1, <2>1 DEF GcodeInv
  <2>5. Accounts
    BY <1>1, <2>2, <2>3 DEF Accounts, Logged
  <2>6. QED
    BY <2>4, <2>5
<1>3. CASE call.req.op = "status"
  <2>1. call \in Asking /\ Asking \subseteq GcodeCalls
    BY <1>1, <1>3, GcodeCallIs DEF GcodeCalls
  <2>2. gcodeCalls' = Answered(gcodeCalls, s, Nothing) \/ gcodeCalls' = Failed(gcodeCalls, s)
    BY <1>3 DEF ServeGcode
  <2>3. QED
    BY <1>2, <2>1, <2>2 DEF Asking
<1>4. CASE call.req.op \in {"gcode", "orphan"}
  <2>1. PICK g \in Gcode : g = call.req.cmd /\ call \in Running(g)
    BY <1>1, <1>4, GcodeCallIs
  <2>2. Running(g) \subseteq GcodeCalls
    BY DEF GcodeCalls
  <2>3. PICK body \in ResultOf(g) :
          gcodeCalls' = Answered(gcodeCalls, s, body) \/ gcodeCalls' = Failed(gcodeCalls, s)
    <3>1. PICK err \in BOOLEAN :
            \/ gcodeCalls' = Answered(gcodeCalls, s, [of |-> g, error |-> err])
            \/ gcodeCalls' = Failed(gcodeCalls, s)
      BY <1>4, <2>1 DEF ServeGcode
    <3>2. [of |-> g, error |-> err] \in ResultOf(g)
      BY DEF ResultOf
    <3>3. QED
      BY <3>1, <3>2
  <2>4. QED
    BY <1>2, <2>1, <2>2, <2>3 DEF Running
<1>5. QED
  BY <1>1, <1>3, <1>4, GcodeCallIs

LEMMA GcodeInvStep == GcodeInv /\ [GcodeNext]_gcodeVars => GcodeInv' /\ Accounts
<1> SUFFICES ASSUME GcodeInv, [GcodeNext]_gcodeVars PROVE GcodeInv' /\ Accounts
  OBVIOUS
<1>0. Cardinality(Pending(gcodeCalls)) \in Nat /\ Len(console.history) \in Nat
  BY PendingIs, OfFinite DEF GcodeInv, ConsoleOK
<1>1. CASE UNCHANGED gcodeVars
  BY <1>0, <1>1 DEF gcodeVars, GcodeInv, Accounts, Logged
<1>2. CASE fetchKlipperStatus
  BY <1>2, GcodeSends, GcodeNewCalls DEF fetchKlipperStatus
<1>3. ASSUME NEW g \in Gcode, NEW from \in {"input", "button"}, SendGcode(g, from)
      PROVE  GcodeInv' /\ Accounts
  <2>1. PICK req : /\ req = [op |-> "gcode", cmd |-> g, from |-> from, seen |-> console.history]
                   /\ NewCall(req) \in GcodeCalls
    BY GcodeNewCalls DEF GcodeInv, ConsoleOK
  <2>2. QED
    BY <1>3, <2>1, GcodeSends DEF SendGcode
<1>4. CASE handleSend
  BY <1>3, <1>4 DEF handleSend, GcodeInv, ConsoleOK
<1>5. ASSUME NEW g \in Gcode, TypeGcode(g) PROVE GcodeInv' /\ Accounts
  <2>1. ConsoleOK(console') /\ console'.history = console.history
    BY <1>5 DEF TypeGcode, GcodeInv, ConsoleOK
  <2>2. klipper' = klipper /\ gcodeCalls' = gcodeCalls
    BY <1>5 DEF TypeGcode
  <2>3. QED
    BY <1>0, <2>1, <2>2 DEF GcodeInv, Accounts, Logged
<1>6. QED
  BY <1>1, <1>2, <1>3, <1>4, <1>5, GotStatusKeeps, GcodeDoneKeeps, ServeGcodeKeeps,
     LeaveConsoleKeeps, OpenConsoleKeeps
  DEF GcodeNext, QuickCommand

\* The log after a step: no entry shows the result of another command.
OwnResults ==
  \A i \in DOMAIN console'.history : LET entry == console'.history[i] IN
    entry.result # Nothing => entry.result.of = entry.cmd

LEMMA LogStep ==
  GcodeInv /\ [GcodeNext]_gcodeVars => Accounts /\ OwnResults
<1>1. GcodeInv' => OwnResults
  BY LoggedWell DEF GcodeInv, ConsoleOK, OwnResults
<1>2. QED
  BY <1>1, GcodeInvStep
-----------------------------------------------------------------------------
(* Part 6: servo registers.  What is written to a register is of its kind.   *)

RegFile ==
  {r \in [{11, 33, 41, 46} -> Nat] : r[11] \in Angle /\ r[33] \in Mode /\ r[46] \in WheelSpeed}

RegWrite ==
  [addr : {11}, data : Angle] \cup [addr : {33}, data : Mode]
    \cup [addr : {41}, data : Nat] \cup [addr : {46}, data : WheelSpeed]

RegWrites == {w \in Seq(RegWrite) : w # <<>>}

ReadingRegs == CallOf([op : {"read"}], RegFile)

Writing == CallOf([op : {"write"}, writes : RegWrites, then : {"cw", "ccw", "stop", "edit"}],
                  {Nothing})

Resetting == CallOf([op : {"restore", "factoryReset"}], {Nothing})

RegCalls == ReadingRegs \cup Writing \cup Resetting

FormOK(f) ==
  f \in [mode : Mode, accel : Nat, wheelSpeed : Speed, wheelDir : {"cw", "ccw"},
         maxAngle : Angle, posOffset : Mode, read : BOOLEAN, regsLoading : BOOLEAN,
         resetting : BOOLEAN]

RegistersInv ==
  /\ regs \in RegFile /\ FormOK(form) /\ writeMsg \in {"none", "ok", "error"}
  /\ CallsIn(regCalls, RegCalls) /\ RegistersBusy

LEMMA RegistersInvSays == RegistersInv => RegistersTypeOK /\ RegistersBusy
BY DEF RegistersInv, FormOK, CallsIn, RegFile, RegistersTypeOK

LEMMA Kinds ==
  /\ Mode \subseteq Nat /\ 0 \in Mode /\ WheelSpeed \subseteq Nat /\ 0 \in WheelSpeed
  /\ 0 \in Speed /\ \A v \in Speed : v \in Nat /\ v \in WheelSpeed /\ v + Bit15 \in WheelSpeed
  /\ MaxAngle \subseteq Angle /\ Angle \subseteq Nat /\ FullAngle \in Angle
<1>1. Bit15 \in Nat /\ FullAngle \in Nat
  BY DEF Bit15, FullAngle
<1>2. /\ Mode \subseteq Nat /\ 0 \in Mode /\ Speed \subseteq Nat /\ 0 \in Speed
      /\ MaxAngle \subseteq Angle
  BY <1>1, RegistersAssumption
<1>3. \A v \in Speed : v \in WheelSpeed /\ v + Bit15 \in WheelSpeed
  BY DEF WheelSpeed
<1>4. ASSUME NEW v \in WheelSpeed PROVE v \in Nat
  <2>1. v \in Speed \/ \E u \in Speed : v = u + Bit15
    BY DEF WheelSpeed
  <2>2. \A u \in Speed : u \in Nat /\ u + Bit15 \in Nat
    BY <1>1, <1>2
  <2>3. QED
    BY <2>1, <2>2
<1>5. Angle \subseteq Nat /\ FullAngle \in Angle
  BY <1>1 DEF Angle
<1>6. QED
  BY <1>2, <1>3, <1>4, <1>5

LEMMA RegCallIs ==
  ASSUME NEW call \in RegCalls
  PROVE  /\ call.req.op \in {"read", "write", "restore", "factoryReset"}
         /\ call.req.op = "read" => call \in ReadingRegs
         /\ call.req.op = "write" => call \in Writing
         /\ call.req.op \in {"restore", "factoryReset"} => call \in Resetting
BY DEF RegCalls, ReadingRegs, Writing, Resetting, CallOf

LEMMA RegNewCalls ==
  /\ NewCall([op |-> "read"]) \in RegCalls
  /\ \A o \in {"restore", "factoryReset"} : NewCall([op |-> o]) \in RegCalls
  /\ \A w \in RegWrites, then \in {"cw", "ccw", "stop", "edit"} :
       NewCall([op |-> "write", writes |-> w, then |-> then]) \in RegCalls
BY DEF RegCalls, ReadingRegs, Writing, Resetting, CallOf, NewCall

LEMMA FactoryOK == Factory \in RegFile
BY Kinds DEF Factory, RegFile

LEMMA RegistersInvInit == RegistersInit => RegistersInv
<1> SUFFICES ASSUME RegistersInit PROVE RegistersInv
  OBVIOUS
<1>1. PICK req : req = [op |-> "read"] /\ NewCall(req) \in RegCalls
  BY RegNewCalls
<1>2. CallsIn(NoCalls, RegCalls) /\ CanSend(NoCalls)
  BY NoCallsIn
<1>3. regCalls = Send(NoCalls, req) /\ req.op \in {"read"}
  BY <1>1 DEF RegistersInit
<1>4. CallsIn(regCalls, RegCalls)
  BY <1>1, <1>2, <1>3, SendIn
<1>5. InFlight(regCalls, {"read"})
  BY <1>1, <1>2, <1>3, SendInFlight
<1>6. FormOK(form) /\ form.resetting = FALSE
  BY Kinds DEF RegistersInit, FormOK
<1>7. QED
  BY <1>4, <1>5, <1>6, FactoryOK DEF RegistersInit, RegistersInv, RegistersBusy

\* A call is sent next to others.
LEMMA FormSends ==
  ASSUME RegistersInv, UNCHANGED regs, NEW calls, CallsIn(calls, RegCalls), CanSend(calls),
         NEW req, NewCall(req) \in RegCalls, regCalls' = Send(calls, req),
         FormOK(form'), writeMsg' \in {"none", "ok", "error"},
         form'.regsLoading => (InFlight(calls, {"read"}) \/ req.op = "read"),
         form'.resetting => (InFlight(calls, {"factoryReset"}) \/ req.op = "factoryReset")
  PROVE  RegistersInv'
<1>1. CallsIn(regCalls', RegCalls)
  BY SendIn
<1>2. /\ InFlight(calls, {"read"}) => InFlight(regCalls', {"read"})
      /\ req.op \in {"read"} => InFlight(regCalls', {"read"})
  BY SendInFlight
<1>3. /\ InFlight(calls, {"factoryReset"}) => InFlight(regCalls', {"factoryReset"})
      /\ req.op \in {"factoryReset"} => InFlight(regCalls', {"factoryReset"})
  BY SendInFlight
<1>4. QED
  BY <1>1, <1>2, <1>3 DEF RegistersInv, RegistersBusy

LEMMA FormSettles ==
  ASSUME RegistersInv, UNCHANGED regs, NEW calls, CallsIn(calls, RegCalls), regCalls' = calls,
         FormOK(form'), writeMsg' \in {"none", "ok", "error"},
         form'.regsLoading => InFlight(calls, {"read"}),
         form'.resetting => InFlight(calls, {"factoryReset"})
  PROVE  RegistersInv'
BY DEF RegistersInv, RegistersBusy

LEMMA StartKeeps ==
  ASSUME RegistersInv, UNCHANGED regs, NEW w \in RegWrites,
         NEW then \in {"cw", "ccw", "stop", "edit"}, Start(w, then), FormOK(form'),
         form'.regsLoading = form.regsLoading, form'.resetting = form.resetting
  PROVE  RegistersInv'
<1>1. PICK req : req = [op |-> "write", writes |-> w, then |-> then] /\ NewCall(req) \in RegCalls
  BY RegNewCalls
<1>2. CanSend(regCalls) /\ regCalls' = Send(regCalls, req) /\ writeMsg' = "none"
  BY <1>1 DEF Start
<1>3. /\ CallsIn(regCalls, RegCalls) /\ (form'.regsLoading => InFlight(regCalls, {"read"}))
      /\ (form'.resetting => InFlight(regCalls, {"factoryReset"}))
  BY DEF RegistersInv, RegistersBusy
<1>4. QED
  BY <1>1, <1>2, <1>3, FormSends

LEMMA OneWrite == ASSUME NEW w \in RegWrite PROVE <<w>> \in RegWrites
BY DEF RegWrites

LEMMA TwoWrites == ASSUME NEW v \in RegWrite, NEW w \in RegWrite PROVE <<v, w>> \in RegWrites
BY DEF RegWrites

LEMMA WheelWritesOK == ASSUME NEW f, FormOK(f) PROVE WheelWrites(f) \in RegWrites
<1>1. PICK v : v = f.wheelSpeed + IF f.wheelDir = "ccw" THEN Bit15 ELSE 0
  OBVIOUS
<1>2. v \in WheelSpeed
  <2>1. f.wheelSpeed \in Speed /\ f.wheelSpeed \in Nat
    BY Kinds DEF FormOK
  <2>2. v = f.wheelSpeed + Bit15 \/ v = f.wheelSpeed
    BY <1>1, <2>1
  <2>3. QED
    BY <2>1, <2>2, Kinds
<1>3. Write(41, f.accel) \in RegWrite /\ Write(46, v) \in RegWrite
  BY <1>2 DEF Write, RegWrite, FormOK
<1>4. QED
  BY <1>1, <1>3, TwoWrites DEF WheelWrites

LEMMA RegisterUserKeeps ==
  ASSUME RegistersInv, UNCHANGED regs,
         \/ RefreshRegisters \/ handleWriteWheelSpeed \/ handleStopWheel
         \/ handleWriteMovement \/ handleWriteMode \/ handleWriteLimits \/ WriteEdit
         \/ MessageTimeout \/ EditField
         \/ \E dir \in {"cw", "ccw"} : DirectionButton(dir)
         \/ \E op \in {"restore", "factoryReset"} : handleReset(op)
  PROVE  RegistersInv'
<1>0. /\ FormOK(form) /\ CallsIn(regCalls, RegCalls) /\ writeMsg \in {"none", "ok", "error"}
      /\ (form.regsLoading => InFlight(regCalls, {"read"}))
      /\ (form.resetting => InFlight(regCalls, {"factoryReset"}))
  BY DEF RegistersInv, RegistersBusy
<1>1. CASE RefreshRegisters
  <2>1. PICK req : req = [op |-> "read"] /\ NewCall(req) \in RegCalls
    BY RegNewCalls
  <2>2. form' = [form EXCEPT !.regsLoading = TRUE] /\ UNCHANGED writeMsg
    BY <1>1 DEF RefreshRegisters
  <2>3. FormOK(form') /\ form'.resetting = form.resetting
    BY <1>0, <2>2 DEF FormOK
  <2>4. CanSend(regCalls) /\ regCalls' = Send(regCalls, req)
    BY <1>1, <2>1 DEF RefreshRegisters, loadRegisters
  <2>5. QED
    BY <1>0, <2>1, <2>3, <2>4, <2>2, FormSends
<1>2. CASE handleWriteWheelSpeed
  <2>1. form.wheelDir \in {"cw", "ccw"}
    BY <1>0 DEF FormOK
  <2>2. QED
    BY <1>0, <1>2, <2>1, WheelWritesOK, StartKeeps DEF handleWriteWheelSpeed
<1>3. CASE handleStopWheel
  <2>1. Write(46, 0) \in RegWrite
    BY Kinds DEF Write, RegWrite
  <2>2. QED
    BY <1>0, <1>3, <2>1, OneWrite, StartKeeps DEF handleStopWheel
<1>4. CASE handleWriteMovement
  <2>1. PICK v \in WheelSpeed : Start(<<Write(41, form.accel), Write(46, v)>>, "stop")
    BY <1>4 DEF handleWriteMovement
  <2>2. Write(41, form.accel) \in RegWrite /\ Write(46, v) \in RegWrite
    BY <1>0 DEF Write, RegWrite, FormOK
  <2>3. UNCHANGED form
    BY <1>4 DEF handleWriteMovement
  <2>4. <<Write(41, form.accel), Write(46, v)>> \in RegWrites
    BY <2>2, TwoWrites
  <2>5. QED
    BY <1>0, <2>1, <2>3, <2>4, StartKeeps
<1>5. CASE handleWriteMode
  <2>1. Write(33, form.mode) \in RegWrite
    BY <1>0 DEF Write, RegWrite, FormOK
  <2>2. QED
    BY <1>0, <1>5, <2>1, OneWrite, StartKeeps DEF handleWriteMode
<1>6. CASE handleWriteLimits
  <2>1. /\ Write(11, OrElse(form.maxAngle, FullAngle)) \in RegWrite
        /\ Write(33, form.posOffset) \in RegWrite
    BY <1>0, Kinds DEF Write, RegWrite, FormOK, OrElse
  <2>2. <<Write(11, OrElse(form.maxAngle, FullAngle)), Write(33, form.posOffset)>> \in RegWrites
    BY <2>1, TwoWrites
  <2>3. QED
    BY <1>0, <1>6, <2>2, StartKeeps DEF handleWriteLimits
<1>7. CASE WriteEdit
  <2>1. PICK v \in Mode : Start(<<Write(33, v)>>, "edit")
    BY <1>7 DEF WriteEdit
  <2>2. Write(33, v) \in RegWrite
    BY DEF Write, RegWrite
  <2>3. UNCHANGED form
    BY <1>7 DEF WriteEdit
  <2>4. QED
    BY <1>0, <2>1, <2>2, <2>3, OneWrite, StartKeeps
<1>8. CASE MessageTimeout
  BY <1>0, <1>8, FormSettles DEF MessageTimeout
<1>9. CASE EditField
  <2>1. \/ \E v \in Speed : form' = [form EXCEPT !.wheelSpeed = v]
        \/ \E v \in MaxAngle : form' = [form EXCEPT !.maxAngle = v]
        \/ \E v \in Mode : form' = [form EXCEPT !.mode = v] \/ form' = [form EXCEPT !.posOffset = v]
    BY <1>9, Zenon DEF EditField
  <2>2. FormOK(form') /\ form'.regsLoading = form.regsLoading /\ form'.resetting = form.resetting
    BY <1>0, <2>1, Kinds DEF FormOK
  <2>3. UNCHANGED <<writeMsg, regCalls>>
    BY <1>9 DEF EditField
  <2>4. QED
    BY <1>0, <2>2, <2>3, FormSettles
<1>10. ASSUME NEW dir \in {"cw", "ccw"}, DirectionButton(dir) PROVE RegistersInv'
  <2>1. FormOK(form') /\ form'.regsLoading = form.regsLoading /\ form'.resetting = form.resetting
    BY <1>0, <1>10 DEF DirectionButton, FormOK
  <2>2. QED
    BY <1>0, <1>10, <2>1, WheelWritesOK, StartKeeps DEF DirectionButton
<1>11. ASSUME NEW op \in {"restore", "factoryReset"}, handleReset(op) PROVE RegistersInv'
  <2>1. PICK req : req = [op |-> op] /\ NewCall(req) \in RegCalls
    BY RegNewCalls
  <2>2. PICK b \in BOOLEAN : /\ form' = [form EXCEPT !.resetting = b]
                             /\ b => (form.resetting \/ op = "factoryReset")
    BY <1>11, Zenon DEF handleReset
  <2>3. FormOK(form') /\ form'.regsLoading = form.regsLoading /\ form'.resetting = b
    BY <1>0, <2>2 DEF FormOK
  <2>4. CanSend(regCalls) /\ regCalls' = Send(regCalls, req) /\ UNCHANGED writeMsg
    BY <1>11, <2>1 DEF handleReset
  <2>5. QED
    BY <1>0, <2>1, <2>2, <2>3, <2>4, FormSends
<1>12. QED
  BY <1>1, <1>2, <1>3, <1>4, <1>5, <1>6, <1>7, <1>8, <1>9, <1>10, <1>11

LEMMA RegisterSettled ==
  ASSUME RegistersInv, NEW s \in Replied(regCalls)
  PROVE  /\ s \in DOMAIN regCalls /\ regCalls[s] \in RegCalls
         /\ CallsIn(Settled(regCalls, s), RegCalls) /\ CanSend(Settled(regCalls, s))
         /\ (form.regsLoading /\ regCalls[s].req.op # "read") =>
              InFlight(Settled(regCalls, s), {"read"})
         /\ (form.resetting /\ regCalls[s].req.op # "factoryReset") =>
              InFlight(Settled(regCalls, s), {"factoryReset"})
<1>1. s \in DOMAIN regCalls /\ regCalls[s] \in RegCalls /\ CallsIn(regCalls, RegCalls)
  BY DEF Replied, RegistersInv, CallsIn
<1>2. CallsIn(Settled(regCalls, s), RegCalls) /\ CanSend(Settled(regCalls, s))
  BY <1>1, SettledIn
<1>3. regCalls[s].req.op \notin {"read"} /\ InFlight(regCalls, {"read"})
        => InFlight(Settled(regCalls, s), {"read"})
  BY <1>1, SettledInFlight
<1>4. regCalls[s].req.op \notin {"factoryReset"} /\ InFlight(regCalls, {"factoryReset"})
        => InFlight(Settled(regCalls, s), {"factoryReset"})
  BY <1>1, SettledInFlight
<1>5. QED
  BY <1>1, <1>2, <1>3, <1>4 DEF RegistersInv, RegistersBusy

LEMMA RegistersReadKeeps ==
  ASSUME RegistersInv, UNCHANGED regs, NEW s \in Replied(regCalls), RegistersRead(s)
  PROVE  RegistersInv'
<1> DEFINE calls == Settled(regCalls, s)
<1>1. /\ CallsIn(calls, RegCalls) /\ (form.resetting => InFlight(calls, {"factoryReset"}))
      /\ regCalls[s] \in ReadingRegs
  BY RegisterSettled, RegCallIs DEF RegistersRead
<1>2. Ok(regCalls, s) => regCalls[s].body \in RegFile
  BY <1>1 DEF ReadingRegs, CallOf, Ok
<1>3. FormOK(form') /\ ~form'.regsLoading /\ form'.resetting = form.resetting
  <2>1. FormOK(form)
    BY DEF RegistersInv
  <2>2. CASE Ok(regCalls, s)
    <3>1. PICK d \in RegFile : form' = [form EXCEPT !.mode = d[33], !.accel = d[41],
               !.maxAngle = d[11], !.posOffset = d[33], !.read = TRUE, !.regsLoading = FALSE]
      BY <1>2, <2>2 DEF RegistersRead, FromRegisters
    <3>2. d[33] \in Mode /\ d[41] \in Nat /\ d[11] \in Angle
      BY DEF RegFile
    <3>3. QED
      BY <2>1, <3>1, <3>2 DEF FormOK
  <2>3. CASE ~Ok(regCalls, s)
    <3>1. form' = [form EXCEPT !.regsLoading = FALSE]
      BY <2>3 DEF RegistersRead
    <3>2. QED
      BY <2>1, <3>1 DEF FormOK
  <2>4. QED
    BY <2>2, <2>3
<1>4. regCalls' = calls /\ writeMsg' \in {"none", "ok", "error"}
  BY DEF RegistersRead, RegistersInv
<1> HIDE DEF calls
<1>5. QED
  BY <1>1, <1>3, <1>4, FormSettles

LEMMA WrittenKeeps ==
  ASSUME RegistersInv, UNCHANGED regs, NEW s \in Replied(regCalls), Written(s)
  PROVE  RegistersInv'
<1> DEFINE calls == Settled(regCalls, s)
           req   == regCalls[s].req
           rest  == Tail(req.writes)
<1>1. /\ CallsIn(calls, RegCalls) /\ CanSend(calls)
      /\ form.regsLoading => InFlight(calls, {"read"})
      /\ form.resetting => InFlight(calls, {"factoryReset"})
      /\ regCalls[s] \in Writing
  BY RegisterSettled, RegCallIs DEF Written
<1>2. /\ req = [op |-> "write", writes |-> req.writes, then |-> req.then]
      /\ req.writes \in RegWrites /\ req.then \in {"cw", "ccw", "stop", "edit"}
  BY <1>1 DEF Writing, CallOf
<1>3. rest # <<>> => rest \in RegWrites
  BY <1>2 DEF RegWrites
<1>4. writeMsg' \in {"none", "ok", "error"}
  BY DEF Written
<1>5. PICK b \in BOOLEAN : /\ form' = [form EXCEPT !.regsLoading = b]
                           /\ b => (form.regsLoading \/ (rest = <<>> /\ req.then = "edit"))
  BY Zenon DEF Written
<1>6. FormOK(form') /\ form'.regsLoading = b /\ form'.resetting = form.resetting
  BY <1>5 DEF RegistersInv, FormOK
<1>7. regCalls' = IF rest # <<>> THEN Send(calls, [req EXCEPT !.writes = rest])
                  ELSE IF req.then = "edit" THEN Send(calls, [op |-> "read"]) ELSE calls
  BY DEF Written, loadRegisters
<1> HIDE DEF calls, rest
<1>8. CASE rest # <<>>
  <2>1. PICK next : next = [req EXCEPT !.writes = rest]
    OBVIOUS
  <2>2. next = [op |-> "write", writes |-> rest, then |-> req.then]
    BY <1>2, <2>1
  <2>3. NewCall(next) \in RegCalls
    BY <1>2, <1>3, <1>8, <2>2, RegNewCalls
  <2>4. QED
    BY <1>1, <1>4, <1>5, <1>6, <1>7, <1>8, <2>1, <2>3, FormSends
<1>9. CASE rest = <<>> /\ req.then = "edit"
  <2>1. PICK next : next = [op |-> "read"] /\ NewCall(next) \in RegCalls
    BY RegNewCalls
  <2>2. QED
    BY <1>1, <1>4, <1>5, <1>6, <1>7, <1>9, <2>1, FormSends
<1>10. CASE rest = <<>> /\ req.then # "edit"
  BY <1>1, <1>4, <1>5, <1>6, <1>7, <1>10, FormSettles
<1>11. QED
  BY <1>8, <1>9, <1>10

LEMMA ResetDoneKeeps ==
  ASSUME RegistersInv, UNCHANGED regs, NEW s \in Replied(regCalls), ResetDone(s)
  PROVE  RegistersInv'
<1> DEFINE calls == Settled(regCalls, s)
           op    == regCalls[s].req.op
<1>1. /\ CallsIn(calls, RegCalls) /\ CanSend(calls)
      /\ form.regsLoading => InFlight(calls, {"read"})
      /\ form.resetting /\ op # "factoryReset" => InFlight(calls, {"factoryReset"})
  BY RegisterSettled DEF ResetDone
<1>2. PICK next : next = [op |-> "read"] /\ NewCall(next) \in RegCalls
  BY RegNewCalls
<1>3. PICK b \in BOOLEAN, c \in BOOLEAN :
        /\ form' = [form EXCEPT !.resetting = b, !.regsLoading = c]
        /\ b => form.resetting /\ op # "factoryReset"
        /\ c => form.regsLoading \/ Ok(regCalls, s)
  BY Zenon DEF ResetDone
<1>4. FormOK(form') /\ form'.regsLoading = c /\ form'.resetting = b
  BY <1>3 DEF RegistersInv, FormOK
<1>5. regCalls' = (IF Ok(regCalls, s) THEN Send(calls, next) ELSE calls) /\ UNCHANGED writeMsg
  BY <1>2 DEF ResetDone, loadRegisters
<1>6. writeMsg' \in {"none", "ok", "error"}
  BY <1>5 DEF RegistersInv
<1> HIDE DEF calls
<1>7. CASE Ok(regCalls, s)
  BY <1>1, <1>2, <1>3, <1>4, <1>5, <1>6, <1>7, FormSends
<1>8. CASE ~Ok(regCalls, s)
  BY <1>1, <1>3, <1>4, <1>5, <1>6, <1>8, FormSettles
<1>9. QED
  BY <1>7, <1>8

LEMMA RegisterServerKeeps == ASSUME RegistersInv, RegisterServer PROVE RegistersInv'
<1>1. PICK s \in Sent(regCalls) : LET req == regCalls[s].req IN
    /\ UNCHANGED <<form, writeMsg>>
    /\ \/ req.op = "read" /\ RegisterReply(s, regs) /\ UNCHANGED regs
       \/ /\ req.op = "write" /\ RegisterReply(s, Nothing)
          /\ regs' = [regs EXCEPT ![Head(req.writes).addr] = Head(req.writes).data]
       \/ /\ req.op = "factoryReset" /\ RegisterReply(s, Nothing)
          /\ regs' = [a \in DOMAIN regs |-> IF a < 40 THEN Factory[a] ELSE regs[a]]
       \/ /\ req.op = "restore" /\ RegisterReply(s, Nothing)
          /\ \E angle \in MaxAngle, mode \in Mode :
               regs' = [regs EXCEPT ![11] = angle, ![33] = mode]
       \/ regCalls' = Failed(regCalls, s) /\ UNCHANGED regs
  BY Zenon DEF RegisterServer
<1> DEFINE call == regCalls[s]
<1>2. call \in RegCalls /\ CallsIn(regCalls, RegCalls) /\ regs \in RegFile
  BY DEF Sent, RegistersInv, CallsIn
<1>3. ASSUME NEW Req, NEW Body, CallOf(Req, Body) \subseteq RegCalls, call \in CallOf(Req, Body),
             NEW body \in Body, regs' \in RegFile,
             regCalls' = Answered(regCalls, s, body) \/ regCalls' = Failed(regCalls, s)
      PROVE  RegistersInv'
  <2>1. CallsIn(regCalls', RegCalls) /\ Continued(regCalls, regCalls')
    BY <1>2, <1>3, AnsweredIn
  <2>2. RegistersBusy'
    BY <1>1, <2>1, ContinuedInFlight DEF RegistersInv, RegistersBusy
  <2>3. QED
    BY <1>1, <1>3, <2>1, <2>2 DEF RegistersInv
<1>4. ReadingRegs \subseteq RegCalls /\ Writing \subseteq RegCalls /\ Resetting \subseteq RegCalls
  BY DEF RegCalls
<1>5. CASE call.req.op = "read" /\ UNCHANGED regs
           /\ (regCalls' = Answered(regCalls, s, regs) \/ regCalls' = Failed(regCalls, s))
  <2>1. call \in ReadingRegs
    BY <1>2, <1>5, RegCallIs
  <2>2. QED
    BY <1>2, <1>3, <1>4, <1>5, <2>1 DEF ReadingRegs
<1>6. CASE call.req.op = "write" /\ regs' \in RegFile
           /\ (regCalls' = Answered(regCalls, s, Nothing) \/ regCalls' = Failed(regCalls, s))
  <2>1. call \in Writing
    BY <1>2, <1>6, RegCallIs
  <2>2. QED
    BY <1>3, <1>4, <1>6, <2>1 DEF Writing
<1>7. CASE call.req.op \in {"restore", "factoryReset"} /\ regs' \in RegFile
           /\ (regCalls' = Answered(regCalls, s, Nothing) \/ regCalls' = Failed(regCalls, s))
  <2>1. call \in Resetting
    BY <1>2, <1>7, RegCallIs
  <2>2. QED
    BY <1>3, <1>4, <1>7, <2>1 DEF Resetting
<1>8. CASE /\ call.req.op = "write" /\ RegisterReply(s, Nothing)
           /\ regs' = [regs EXCEPT ![Head(call.req.writes).addr] = Head(call.req.writes).data]
  <2>1. call.req.writes \in RegWrites
    BY <1>2, <1>8, RegCallIs DEF Writing, CallOf
  <2>2. PICK w \in RegWrite : w = Head(call.req.writes)
    BY <2>1 DEF RegWrites
  <2>3. regs' = [regs EXCEPT ![w.addr] = w.data]
    BY <1>8, <2>2
  <2>4. regs' \in RegFile
    <3>1. w.addr \in {11, 33, 41, 46} /\ w.data \in Nat
      <4>1. \/ w.addr = 11 /\ w.data \in Angle
            \/ w.addr = 33 /\ w.data \in Mode
            \/ w.addr = 41 /\ w.data \in Nat
            \/ w.addr = 46 /\ w.data \in WheelSpeed
        BY DEF RegWrite
      <4>2. QED
        BY <4>1, Kinds
    <3>2. /\ w.addr = 11 => w.data \in Angle
          /\ w.addr = 33 => w.data \in Mode
          /\ w.addr = 46 => w.data \in WheelSpeed
      BY DEF RegWrite
    <3>3. /\ DOMAIN regs = {11, 33, 41, 46} /\ regs[11] \in Angle /\ regs[33] \in Mode
          /\ regs[46] \in WheelSpeed /\ \A a \in {11, 33, 41, 46} : regs[a] \in Nat
      BY <1>2 DEF RegFile
    <3>4. regs' \in [{11, 33, 41, 46} -> Nat]
      BY <1>2, <2>3, <3>1 DEF RegFile
    <3>5. \A a \in {11, 33, 41, 46} : regs'[a] = IF a = w.addr THEN w.data ELSE regs[a]
      BY <2>3, <3>3
    <3>6. QED
      BY <3>2, <3>3, <3>4, <3>5 DEF RegFile
  <2>5. QED
    BY <1>6, <1>8, <2>4 DEF RegisterReply
<1>9. CASE /\ call.req.op = "factoryReset" /\ RegisterReply(s, Nothing)
           /\ regs' = [a \in DOMAIN regs |-> IF a < 40 THEN Factory[a] ELSE regs[a]]
  <2>1. regs' \in RegFile
    <3>1. PICK f \in RegFile : f = Factory
      BY FactoryOK
    <3>2. DOMAIN regs = {11, 33, 41, 46} /\ \A a \in DOMAIN regs : regs[a] \in Nat /\ f[a] \in Nat
      BY <1>2 DEF RegFile
    <3>3. /\ DOMAIN regs' = {11, 33, 41, 46} /\ regs'[11] = f[11] /\ regs'[33] = f[33]
          /\ regs'[41] = regs[41] /\ regs'[46] = regs[46]
          /\ regs' = [a \in DOMAIN regs' |-> regs'[a]]
      BY <1>9, <3>1, <3>2
    <3>4. QED
      BY <1>2, <3>2, <3>3 DEF RegFile
  <2>2. QED
    BY <1>7, <1>9, <2>1 DEF RegisterReply
<1>10. CASE /\ call.req.op = "restore" /\ RegisterReply(s, Nothing)
            /\ \E angle \in MaxAngle, mode \in Mode :
                 regs' = [regs EXCEPT ![11] = angle, ![33] = mode]
  <2>1. regs' \in RegFile
    <3>1. PICK angle \in MaxAngle, mode \in Mode :
             regs' = [regs EXCEPT ![11] = angle, ![33] = mode]
      BY <1>10
    <3>2. angle \in Angle /\ angle \in Nat /\ mode \in Nat
      BY Kinds
    <3>3. regs' \in [{11, 33, 41, 46} -> Nat]
      BY <1>2, <3>1, <3>2 DEF RegFile
    <3>4. regs'[11] = angle /\ regs'[33] = mode /\ regs'[46] = regs[46]
          /\ regs[46] \in WheelSpeed
      BY <1>2, <3>1 DEF RegFile
    <3>5. QED
      BY <3>2, <3>3, <3>4 DEF RegFile
  <2>2. QED
    BY <1>7, <1>10, <2>1 DEF RegisterReply
<1>11. CASE regCalls' = Failed(regCalls, s) /\ UNCHANGED regs
  BY <1>2, <1>5, <1>6, <1>7, <1>11, RegCallIs
<1>12. QED
  BY <1>1, <1>5, <1>8, <1>9, <1>10, <1>11 DEF RegisterReply

LEMMA RegistersInvStep == RegistersInv /\ [RegistersNext]_registerVars => RegistersInv'
<1> SUFFICES ASSUME RegistersInv, [RegistersNext]_registerVars PROVE RegistersInv'
  OBVIOUS
<1>1. CASE UNCHANGED registerVars
  BY <1>1 DEF registerVars, RegistersInv, RegistersBusy
<1>2. CASE RegisterCard /\ UNCHANGED regs
  BY <1>2, RegisterUserKeeps, RegistersReadKeeps, WrittenKeeps, ResetDoneKeeps DEF RegisterCard
<1>3. QED
  BY <1>1, <1>2, RegisterServerKeeps DEF RegistersNext
-----------------------------------------------------------------------------
(* Part 7: the settings of a node.  Every part of the view that waits has a  *)
(* call of its own kind.                                                     *)

Reporting == CallOf([op : {"config", "backup"}], Config)

Naming == CallOf([op : {"info"}], Name)

Renaming == CallOf([op : {"setName"}, name : Name], {Nothing})

RestartingNode == CallOf([op : {"restart"}], {Nothing})

Configuring == CallOf([op : {"updateConfig", "restore"}, config : Config], {Nothing})

SettingsCalls == Reporting \cup Naming \cup Renaming \cup RestartingNode \cup Configuring

\* The snapshot of the configuration, and the name card.
SnapshotOK(st) ==
  /\ st = [config |-> st.config, loading |-> st.loading, error |-> st.error, saving |-> st.saving]
  /\ st.config \in Config \cup {Nothing}
  /\ ~st.loading /\ ~st.error => st.config # Nothing
  /\ st.loading \in BOOLEAN /\ st.error \in BOOLEAN /\ st.saving \in BOOLEAN

NameCardOK(nc) ==
  /\ nc = [name |-> nc.name, renaming |-> nc.renaming]
  /\ nc.name \in Name \cup {Nothing} /\ nc.renaming \in BOOLEAN

SettingsWait(st, nc, r, calls) ==
  /\ st.loading => InFlight(calls, {"config"})
  /\ st.saving => InFlight(calls, {"updateConfig"})
  /\ nc.renaming => InFlight(calls, {"setName"})
  /\ r => InFlight(calls, {"restore"})

SettingsInv ==
  /\ device \in Config /\ info \in Name \cup {Nothing} /\ SnapshotOK(settings)
  /\ NameCardOK(nameCard) /\ restoring \in BOOLEAN /\ CallsIn(settingsCalls, SettingsCalls)
  /\ SettingsWait(settings, nameCard, restoring, settingsCalls)

LEMMA SettingsInvSays == SettingsInv => SettingsTypeOK /\ SettingsBusy
<1>1. SettingsInv => SettingsTypeOK
  BY DEF SettingsInv, SnapshotOK, NameCardOK, CallsIn, SettingsTypeOK, Shown
<1>2. SettingsInv => SettingsBusy
  BY DEF SettingsInv, SettingsWait, SettingsBusy
<1>3. QED
  BY <1>1, <1>2

LEMMA SettingsCallIs ==
  ASSUME NEW call \in SettingsCalls
  PROVE  /\ call.req.op \in {"config", "backup", "info", "setName", "restart", "updateConfig", "restore"}
         /\ call.req.op \in {"config", "backup"} => call \in Reporting
         /\ call.req.op = "info" => call \in Naming
         /\ call.req.op = "setName" => call \in Renaming
         /\ call.req.op = "restart" => call \in RestartingNode
         /\ call.req.op \in {"updateConfig", "restore"} => call \in Configuring
BY DEF SettingsCalls, Reporting, Naming, Renaming, RestartingNode, Configuring, CallOf

LEMMA SettingsNewCalls ==
  /\ \A o \in {"config", "backup", "info", "restart"} : NewCall([op |-> o]) \in SettingsCalls
  /\ \A n \in Name : NewCall([op |-> "setName", name |-> n]) \in SettingsCalls
  /\ \A o \in {"updateConfig", "restore"}, c \in Config :
       NewCall([op |-> o, config |-> c]) \in SettingsCalls
BY DEF SettingsCalls, Reporting, Naming, Renaming, RestartingNode, Configuring, CallOf, NewCall

\* A call is sent next to others, and at most what waits for it starts to wait.
LEMMA WaitSends ==
  ASSUME NEW calls, CallsIn(calls, SettingsCalls), CanSend(calls), NEW req,
         NewCall(req) \in SettingsCalls, NEW st, NEW nc, NEW r,
         st.loading => (InFlight(calls, {"config"}) \/ req.op = "config"),
         st.saving => (InFlight(calls, {"updateConfig"}) \/ req.op = "updateConfig"),
         nc.renaming => (InFlight(calls, {"setName"}) \/ req.op = "setName"),
         r => (InFlight(calls, {"restore"}) \/ req.op = "restore")
  PROVE  SettingsWait(st, nc, r, Send(calls, req)) /\ CallsIn(Send(calls, req), SettingsCalls)
<1>1. ASSUME NEW o, InFlight(calls, {o}) \/ req.op = o PROVE InFlight(Send(calls, req), {o})
  BY <1>1, SendInFlight
<1>2. CallsIn(Send(calls, req), SettingsCalls)
  BY SendIn
<1>3. QED
  BY <1>1, <1>2 DEF SettingsWait

LEMMA SettingsInvInit == SettingsInit => SettingsInv
<1> SUFFICES ASSUME SettingsInit PROVE SettingsInv
  OBVIOUS
<1>1. PICK req : req = [op |-> "config"] /\ NewCall(req) \in SettingsCalls
  BY SettingsNewCalls
<1>2. CallsIn(NoCalls, SettingsCalls) /\ CanSend(NoCalls)
  BY NoCallsIn
<1>3. settingsCalls = Send(NoCalls, req)
  BY <1>1 DEF SettingsInit
<1>4. SnapshotOK(settings) /\ NameCardOK(nameCard) /\ ~settings.saving /\ ~nameCard.renaming
      /\ restoring = FALSE
  BY DEF SettingsInit, Unloaded, SnapshotOK, NameCardOK
<1>5. SettingsWait(settings, nameCard, restoring, settingsCalls) /\ CallsIn(settingsCalls, SettingsCalls)
  BY <1>1, <1>2, <1>3, <1>4, WaitSends
<1>6. device \in Config /\ info \in Name \cup {Nothing}
  BY DEF SettingsInit, Config
<1>7. QED
  BY <1>4, <1>5, <1>6 DEF SettingsInv

\* The user's handlers.
LEMMA SettingsUserKeeps ==
  ASSUME SettingsInv, UNCHANGED device,
         \/ loadConfig \/ handleSave \/ handleRestart \/ handleRename \/ fetchInfo
         \/ handleBackup \/ \E file \in Config : handleRestore(file)
         \/ \E p \in Pins : handlePinChange(p)
         \/ \E n \in Name : TypeName(n)
  PROVE  SettingsInv'
<1>0. /\ SnapshotOK(settings) /\ NameCardOK(nameCard) /\ CallsIn(settingsCalls, SettingsCalls)
      /\ info \in Name \cup {Nothing} /\ restoring \in BOOLEAN
      /\ SettingsWait(settings, nameCard, restoring, settingsCalls)
  BY DEF SettingsInv
<1>1. ASSUME NEW req, NewCall(req) \in SettingsCalls, SettingsAsk(req), UNCHANGED info,
             SnapshotOK(settings'), NameCardOK(nameCard'), restoring' \in BOOLEAN,
             settings'.loading => (settings.loading \/ req.op = "config"),
             settings'.saving => (settings.saving \/ req.op = "updateConfig"),
             nameCard'.renaming => (nameCard.renaming \/ req.op = "setName"),
             restoring' => (restoring \/ req.op = "restore")
      PROVE  SettingsInv'
  <2>1. CanSend(settingsCalls) /\ settingsCalls' = Send(settingsCalls, req)
    BY <1>1 DEF SettingsAsk
  <2>2. /\ SettingsWait(settings', nameCard', restoring', settingsCalls')
        /\ CallsIn(settingsCalls', SettingsCalls)
    BY <1>0, <1>1, <2>1, WaitSends DEF SettingsWait
  <2>3. QED
    BY <1>1, <2>2 DEF SettingsInv
<1>2. CASE loadConfig
  <2>1. PICK req : req = [op |-> "config"] /\ NewCall(req) \in SettingsCalls
    BY SettingsNewCalls
  <2>2. SnapshotOK(settings') /\ ~settings'.saving
    BY <1>2 DEF loadConfig, Unloaded, SnapshotOK
  <2>3. NameCardOK(nameCard') /\ ~nameCard'.renaming
    BY <1>0, <1>2 DEF loadConfig, NameCardOK
  <2>4. SettingsAsk(req) /\ restoring' = FALSE /\ UNCHANGED info
    BY <1>2, <2>1 DEF loadConfig
  <2>5. QED
    BY <1>1, <2>1, <2>2, <2>3, <2>4
<1>3. CASE handleSave
  <2>1. PICK req : /\ req = [op |-> "updateConfig", config |-> settings.config]
                   /\ NewCall(req) \in SettingsCalls
    BY <1>0, <1>3, SettingsNewCalls DEF handleSave, Shown, SnapshotOK
  <2>2. SnapshotOK(settings') /\ settings'.loading = settings.loading
    BY <1>0, <1>3 DEF handleSave, SnapshotOK
  <2>3. SettingsAsk(req) /\ UNCHANGED <<info, nameCard, restoring>>
    BY <1>3, <2>1 DEF handleSave
  <2>4. QED
    BY <1>0, <1>1, <2>1, <2>2, <2>3
<1>4. CASE handleRestart \/ fetchInfo \/ handleBackup
  <2>1. PICK o \in {"restart", "info", "backup"} : SettingsAsk([op |-> o])
    BY <1>4 DEF handleRestart, fetchInfo, handleBackup
  <2>2. NewCall([op |-> o]) \in SettingsCalls
    BY SettingsNewCalls
  <2>3. UNCHANGED <<info, settings, nameCard, restoring>>
    BY <1>4 DEF handleRestart, fetchInfo, handleBackup
  <2>4. QED
    BY <1>0, <1>1, <2>1, <2>2, <2>3
<1>5. CASE handleRename
  <2>1. PICK req : /\ req = [op |-> "setName", name |-> nameCard.name]
                   /\ NewCall(req) \in SettingsCalls
    BY <1>0, <1>5, SettingsNewCalls DEF handleRename, NameCardOK
  <2>2. NameCardOK(nameCard')
    BY <1>0, <1>5 DEF handleRename, NameCardOK
  <2>3. SettingsAsk(req) /\ UNCHANGED <<info, settings, restoring>>
    BY <1>5, <2>1 DEF handleRename
  <2>4. QED
    BY <1>0, <1>1, <2>1, <2>2, <2>3
<1>6. ASSUME NEW file \in Config, handleRestore(file) PROVE SettingsInv'
  <2>1. PICK req : req = [op |-> "restore", config |-> file] /\ NewCall(req) \in SettingsCalls
    BY SettingsNewCalls
  <2>2. SettingsAsk(req) /\ UNCHANGED <<info, settings, nameCard>> /\ restoring' = TRUE
    BY <1>6, <2>1 DEF handleRestore
  <2>3. QED
    BY <1>0, <1>1, <2>1, <2>2
<1>7. ASSUME NEW p \in Pins, handlePinChange(p) PROVE SettingsInv'
  <2>1. settings.config \in Config
    BY <1>0, <1>7 DEF handlePinChange, Shown, SnapshotOK
  <2>2. PICK c \in Config : settings' = [settings EXCEPT !.config = c]
    <3>1. [settings.config EXCEPT !.pins = p] \in Config
      BY <2>1 DEF Config
    <3>2. QED
      BY <1>7, <3>1 DEF handlePinChange
  <2>3. c # Nothing
    BY SettingsAssumption
  <2>4. SnapshotOK(settings') /\ settings'.loading = settings.loading
        /\ settings'.saving = settings.saving
    BY <1>0, <2>2, <2>3 DEF SnapshotOK
  <2>5. UNCHANGED <<device, info, nameCard, restoring, settingsCalls>>
    BY <1>7 DEF handlePinChange
  <2>6. SettingsWait(settings', nameCard', restoring', settingsCalls')
    BY <1>0, <2>4, <2>5 DEF SettingsWait
  <2>7. QED
    BY <1>0, <2>4, <2>5, <2>6 DEF SettingsInv
<1>8. ASSUME NEW n \in Name, TypeName(n) PROVE SettingsInv'
  <2>1. NameCardOK(nameCard') /\ nameCard'.renaming = nameCard.renaming
    BY <1>0, <1>8 DEF TypeName, NameCardOK
  <2>2. UNCHANGED <<device, info, settings, restoring, settingsCalls>>
    BY <1>8 DEF TypeName
  <2>3. SettingsWait(settings', nameCard', restoring', settingsCalls')
    BY <1>0, <2>1, <2>2 DEF SettingsWait
  <2>4. QED
    BY <1>0, <2>1, <2>2, <2>3 DEF SettingsInv
<1>9. QED
  BY <1>2, <1>3, <1>4, <1>5, <1>6, <1>7, <1>8

\* The code after an await: the kind of call that ends is the one whose wait it
\* ends.
LEMMA SettingsResumeKeeps ==
  ASSUME SettingsInv, UNCHANGED device, NEW s \in Replied(settingsCalls), SettingsResume(s)
  PROVE  SettingsInv'
<1> DEFINE call  == settingsCalls[s]
           calls == Settled(settingsCalls, s)
<1>1. /\ SnapshotOK(settings) /\ NameCardOK(nameCard) /\ CallsIn(settingsCalls, SettingsCalls)
      /\ info \in Name \cup {Nothing} /\ restoring \in BOOLEAN
      /\ SettingsWait(settings, nameCard, restoring, settingsCalls)
      /\ s \in DOMAIN settingsCalls /\ call \in SettingsCalls
  BY DEF SettingsInv, Replied, CallsIn
<1>2. CallsIn(calls, SettingsCalls) /\ CanSend(calls)
  BY <1>1, SettledIn
<1>3. ASSUME NEW o, call.req.op # o, InFlight(settingsCalls, {o}) PROVE InFlight(calls, {o})
  BY <1>1, <1>3, SettledInFlight
<1>4. /\ settingsCalls' = calls \/ settingsCalls' = Send(calls, [op |-> "info"])
  BY DEF SettingsResume
<1>5. NewCall([op |-> "info"]) \in SettingsCalls
  BY SettingsNewCalls
<1> HIDE DEF calls
\* What waits for another kind of call waits on.
<1>6. ASSUME SnapshotOK(settings'), NameCardOK(nameCard'), restoring' \in BOOLEAN,
             info' \in Name \cup {Nothing},
             settings'.loading => settings.loading /\ call.req.op # "config",
             settings'.saving => settings.saving /\ call.req.op # "updateConfig",
             nameCard'.renaming => nameCard.renaming /\ call.req.op # "setName",
             restoring' => restoring /\ call.req.op # "restore"
      PROVE  SettingsInv'
  <2>1. SettingsWait(settings', nameCard', restoring', calls)
    BY <1>1, <1>3, <1>6 DEF SettingsWait
  <2>2. /\ SettingsWait(settings', nameCard', restoring', Send(calls, [op |-> "info"]))
        /\ CallsIn(Send(calls, [op |-> "info"]), SettingsCalls)
    BY <1>2, <1>5, <2>1, WaitSends DEF SettingsWait
  <2>3. QED
    BY <1>2, <1>4, <1>6, <2>1, <2>2 DEF SettingsInv
<1>7. CASE call.req.op = "config" /\ GotConfig(s)
  <2>1. Ok(settingsCalls, s) => call.body \in Config /\ call.body # Nothing
    BY <1>1, <1>7, SettingsCallIs, SettingsAssumption DEF Reporting, CallOf, Ok
  <2>2. SnapshotOK(settings') /\ ~settings'.loading /\ settings'.saving = settings.saving
    BY <1>1, <1>7, <2>1 DEF GotConfig, SnapshotOK
  <2>3. NameCardOK(nameCard') /\ nameCard'.renaming = nameCard.renaming
    BY <1>1, <1>7 DEF GotConfig, NameCardOK
  <2>4. UNCHANGED <<info, restoring>>
    BY <1>7 DEF GotConfig
  <2>5. QED
    BY <1>1, <1>6, <1>7, <2>2, <2>3, <2>4
<1>8. CASE call.req.op = "updateConfig" /\ ConfigSaved
  <2>1. SnapshotOK(settings') /\ settings'.loading = settings.loading /\ ~settings'.saving
    BY <1>1, <1>8 DEF ConfigSaved, SnapshotOK
  <2>2. UNCHANGED <<info, nameCard, restoring>>
    BY <1>8 DEF ConfigSaved
  <2>3. QED
    BY <1>1, <1>6, <1>8, <2>1, <2>2
<1>9. CASE call.req.op \in {"restart", "backup"} /\ UNCHANGED <<info, settings, nameCard, restoring>>
  BY <1>1, <1>6, <1>9
<1>10. CASE call.req.op = "setName" /\ Renamed
  <2>1. NameCardOK(nameCard') /\ ~nameCard'.renaming
    BY <1>1, <1>10 DEF Renamed, NameCardOK
  <2>2. UNCHANGED <<info, settings, restoring>>
    BY <1>10 DEF Renamed
  <2>3. QED
    BY <1>1, <1>6, <1>10, <2>1, <2>2
<1>11. CASE call.req.op = "info" /\ GotInfo(s)
  <2>1. Ok(settingsCalls, s) => call.body \in Name
    BY <1>1, <1>11, SettingsCallIs DEF Naming, CallOf, Ok
  <2>2. NameCardOK(nameCard') /\ nameCard'.renaming = nameCard.renaming
    BY <1>1, <1>11, <2>1 DEF GotInfo, NameFollows, NameCardOK
  <2>3. info' \in Name \cup {Nothing} /\ UNCHANGED <<settings, restoring>>
    BY <1>1, <1>11, <2>1 DEF GotInfo
  <2>4. QED
    BY <1>1, <1>6, <1>11, <2>2, <2>3
<1>12. CASE call.req.op = "restore" /\ Restored(s)
  <2>1. restoring' = FALSE /\ UNCHANGED <<info, settings, nameCard>>
    BY <1>12 DEF Restored
  <2>2. QED
    BY <1>1, <1>6, <1>12, <2>1
<1>13. QED
  BY <1>7, <1>8, <1>9, <1>10, <1>11, <1>12 DEF SettingsResume

LEMMA SettingsServerKeeps ==
  ASSUME SettingsInv, UNCHANGED <<info, settings, nameCard, restoring>>,
         NEW s \in Sent(settingsCalls), SettingsServer(s)
  PROVE  SettingsInv'
<1> DEFINE call == settingsCalls[s]
<1>1. call \in SettingsCalls /\ CallsIn(settingsCalls, SettingsCalls) /\ device \in Config
  BY DEF Sent, SettingsInv, CallsIn
<1>2. ASSUME NEW Req, NEW Body, CallOf(Req, Body) \subseteq SettingsCalls, call \in CallOf(Req, Body),
             NEW body \in Body, device' \in Config, SettingsAnswer(s, body)
      PROVE  SettingsInv'
  <2>1. CallsIn(settingsCalls', SettingsCalls) /\ Continued(settingsCalls, settingsCalls')
    BY <1>1, <1>2, AnsweredIn DEF SettingsAnswer
  <2>2. SettingsWait(settings', nameCard', restoring', settingsCalls')
    BY <2>1, ContinuedInFlight DEF SettingsInv, SettingsWait
  <2>3. QED
    BY <1>2, <2>1, <2>2 DEF SettingsInv
<1>3. /\ Reporting \subseteq SettingsCalls /\ Naming \subseteq SettingsCalls
      /\ Renaming \subseteq SettingsCalls /\ RestartingNode \subseteq SettingsCalls
      /\ Configuring \subseteq SettingsCalls
  BY DEF SettingsCalls
<1>4. CASE call.req.op \in {"config", "backup"} /\ SettingsAnswer(s, device) /\ UNCHANGED device
  <2>1. call \in Reporting
    BY <1>1, <1>4, SettingsCallIs
  <2>2. QED
    BY <1>1, <1>2, <1>3, <1>4, <2>1 DEF Reporting
<1>5. CASE call.req.op = "info" /\ SettingsAnswer(s, device.name) /\ UNCHANGED device
  <2>1. call \in Naming /\ device.name \in Name
    BY <1>1, <1>5, SettingsCallIs DEF Config
  <2>2. QED
    BY <1>1, <1>2, <1>3, <1>5, <2>1 DEF Naming
<1>6. CASE call.req.op = "restart" /\ SettingsAnswer(s, Nothing) /\ UNCHANGED device
  <2>1. call \in RestartingNode
    BY <1>1, <1>6, SettingsCallIs
  <2>2. QED
    BY <1>1, <1>2, <1>3, <1>6, <2>1 DEF RestartingNode
<1>7. CASE /\ call.req.op = "setName" /\ device' = [device EXCEPT !.name = call.req.name]
           /\ SettingsAnswer(s, Nothing)
  <2>1. call \in Renaming
    BY <1>1, <1>7, SettingsCallIs
  <2>2. call.req.name \in Name
    BY <2>1 DEF Renaming, CallOf
  <2>3. device' \in Config
    BY <1>1, <1>7, <2>2 DEF Config
  <2>4. QED
    BY <1>2, <1>3, <1>7, <2>1, <2>3 DEF Renaming
<1>8. CASE /\ call.req.op \in {"updateConfig", "restore"} /\ device' = call.req.config
           /\ SettingsAnswer(s, Nothing)
  <2>1. call \in Configuring
    BY <1>1, <1>8, SettingsCallIs
  <2>2. call.req.config \in Config
    BY <2>1 DEF Configuring, CallOf
  <2>3. QED
    BY <1>2, <1>3, <1>8, <2>1, <2>2 DEF Configuring
<1>9. CASE settingsCalls' = Failed(settingsCalls, s) /\ UNCHANGED device
  <2>1. device' \in Config /\ \A body : SettingsAnswer(s, body)
    BY <1>1, <1>9 DEF SettingsAnswer
  <2>2. device.name \in Name
    BY <1>1 DEF Config
  <2>3. CASE call \in Reporting
    BY <1>1, <1>2, <1>3, <2>1, <2>3 DEF Reporting
  <2>4. CASE call \in Naming
    BY <1>2, <1>3, <2>1, <2>2, <2>4 DEF Naming
  <2>5. CASE call \in Renaming
    BY <1>2, <1>3, <2>1, <2>5 DEF Renaming
  <2>6. CASE call \in RestartingNode
    BY <1>2, <1>3, <2>1, <2>6 DEF RestartingNode
  <2>7. CASE call \in Configuring
    BY <1>2, <1>3, <2>1, <2>7 DEF Configuring
  <2>8. QED
    BY <1>1, <2>3, <2>4, <2>5, <2>6, <2>7 DEF SettingsCalls
<1>10. QED
  BY <1>4, <1>5, <1>6, <1>7, <1>8, <1>9 DEF SettingsServer

LEMMA SettingsInvStep == SettingsInv /\ [SettingsNext]_settingsVars => SettingsInv'
<1> SUFFICES ASSUME SettingsInv, [SettingsNext]_settingsVars PROVE SettingsInv'
  OBVIOUS
<1>1. CASE UNCHANGED settingsVars
  BY <1>1 DEF settingsVars, SettingsInv
<1>2. CASE SettingsUser /\ UNCHANGED device
  BY <1>2, SettingsUserKeeps, SettingsResumeKeeps DEF SettingsUser
<1>3. CASE OtherClient /\ UNCHANGED settingsCalls /\ UNCHANGED <<info, settings, nameCard, restoring>>
  BY <1>3 DEF OtherClient, SettingsInv
<1>4. QED
  BY <1>1, <1>2, <1>3, SettingsServerKeeps DEF SettingsNext
-----------------------------------------------------------------------------
(* Part 8: the WiFi card.  Each connect that the node accepts leaves a timer  *)
(* behind, so that the calls in flight count as timers.                       *)

Known == Network \cup {Nothing}

Watching == CallOf([op : {"wifi"}], Known)

Looking == CallOf([op : {"scan"}], SUBSET Network)

Joining == CallOf([op : {"connect"}, ssid : Network, password : Known], {Nothing})

WifiCalls == Watching \cup Looking \cup Joining

WifiCardOK(w) ==
  /\ w \in [ssid : Known, networks : SUBSET Network, scanning : BOOLEAN, selectedSsid : Known,
            password : Known, connecting : BOOLEAN]

WifiWait(w, calls) ==
  /\ w.scanning => InFlight(calls, {"scan"})
  /\ w.connecting => InFlight(calls, {"connect"})

TimersFit(timers, calls) ==
  timers \in Nat /\ timers + Cardinality(Of(calls, "connect")) <= MaxTimers

WifiInv ==
  /\ station \in [ssid : Known, password : Known] /\ WifiCardOK(wifi)
  /\ CallsIn(wifiCalls, WifiCalls) /\ WifiWait(wifi, wifiCalls) /\ TimersFit(wifiTimers, wifiCalls)

LEMMA WifiInvSays == WifiInv => WifiTypeOK /\ WifiBusy
<1> SUFFICES ASSUME WifiInv PROVE WifiTypeOK /\ WifiBusy
  OBVIOUS
<1>1. WifiBusy
  BY DEF WifiInv, WifiWait, WifiBusy
<1>2. wifiTimers \in 0..MaxTimers
  BY OfFinite, CallsAssumption DEF WifiInv, TimersFit
<1>3. QED
  BY <1>1, <1>2 DEF WifiInv, WifiCardOK, CallsIn, WifiTypeOK, Known

LEMMA WifiCallIs ==
  ASSUME NEW call \in WifiCalls
  PROVE  /\ call.req.op \in {"wifi", "scan", "connect"}
         /\ call.req.op = "wifi" => call \in Watching
         /\ call.req.op = "scan" => call \in Looking
         /\ call.req.op = "connect" => call \in Joining
BY DEF WifiCalls, Watching, Looking, Joining, CallOf

LEMMA WifiNewCalls ==
  /\ NewCall([op |-> "wifi"]) \in WifiCalls /\ NewCall([op |-> "scan"]) \in WifiCalls
  /\ \A n \in Network, p \in Known :
       NewCall([op |-> "connect", ssid |-> n, password |-> p]) \in WifiCalls
BY DEF WifiCalls, Watching, Looking, Joining, CallOf, NewCall

LEMMA WifiInvInit == WifiInit => WifiInv
<1> SUFFICES ASSUME WifiInit PROVE WifiInv
  OBVIOUS
<1>1. PICK req : req = [op |-> "wifi"] /\ NewCall(req) \in WifiCalls
  BY WifiNewCalls
<1>2. CallsIn(NoCalls, WifiCalls) /\ CanSend(NoCalls) /\ Of(NoCalls, "connect") = {}
  BY NoCallsIn DEF NoCalls, Of
<1>3. wifiCalls = Send(NoCalls, req)
  BY <1>1 DEF WifiInit
<1>4. CallsIn(wifiCalls, WifiCalls)
  BY <1>1, <1>2, <1>3, SendIn
<1>5. Cardinality(Of(wifiCalls, "connect")) = 0
  <2>1. Cardinality(Of(NoCalls, "connect")) = 0
    BY <1>2, FS_EmptySet, Zenon
  <2>2. Cardinality(Of(Send(NoCalls, req), "connect"))
          = Cardinality(Of(NoCalls, "connect")) + (IF req.op = "connect" THEN 1 ELSE 0)
    BY <1>1, <1>2, OfSent
  <2>3. req.op # "connect"
    BY <1>1
  <2>4. QED
    BY <1>3, <2>1, <2>2, <2>3
<1>6. TimersFit(wifiTimers, wifiCalls)
  BY <1>5, CallsAssumption DEF WifiInit, TimersFit
<1>7. WifiCardOK(wifi) /\ WifiWait(wifi, wifiCalls) /\ station \in [ssid : Known, password : Known]
  BY DEF WifiInit, WifiCardOK, WifiWait, Known
<1>8. QED
  BY <1>4, <1>6, <1>7 DEF WifiInv

\* A call is sent next to others; a connect takes a timer that is free.
LEMMA WifiSends ==
  ASSUME WifiInv, UNCHANGED station, NEW req, NewCall(req) \in WifiCalls, WifiAsk(req),
         WifiCardOK(wifi'), wifiTimers' \in Nat,
         wifi'.scanning => (wifi.scanning \/ req.op = "scan"),
         wifi'.connecting => (wifi.connecting \/ req.op = "connect"),
         wifiTimers' + Cardinality(Of(wifiCalls, "connect")) + (IF req.op = "connect" THEN 1 ELSE 0)
           <= MaxTimers
  PROVE  WifiInv'
<1>1. CallsIn(wifiCalls, WifiCalls) /\ CanSend(wifiCalls) /\ wifiCalls' = Send(wifiCalls, req)
  BY DEF WifiInv, WifiAsk
<1>2. CallsIn(wifiCalls', WifiCalls)
  BY <1>1, SendIn
<1>3. ASSUME NEW o, InFlight(wifiCalls, {o}) \/ req.op = o PROVE InFlight(wifiCalls', {o})
  BY <1>1, <1>3, SendInFlight
<1>4. WifiWait(wifi', wifiCalls')
  BY <1>3 DEF WifiInv, WifiWait
<1>5. /\ Cardinality(Of(wifiCalls', "connect"))
           = Cardinality(Of(wifiCalls, "connect")) + (IF req.op = "connect" THEN 1 ELSE 0)
      /\ Cardinality(Of(wifiCalls, "connect")) \in Nat
  BY <1>1, OfSent, OfFinite
<1>6. TimersFit(wifiTimers', wifiCalls')
  BY <1>5, CallsAssumption DEF TimersFit
<1>7. QED
  BY <1>2, <1>4, <1>6 DEF WifiInv

LEMMA WifiUserKeeps ==
  ASSUME WifiInv, UNCHANGED station,
         \/ ReloadTimer \/ handleScan \/ TypePassword \/ handleConnect
         \/ \E n \in Network : SelectNetwork(n)
  PROVE  WifiInv'
<1>0. /\ WifiCardOK(wifi) /\ CallsIn(wifiCalls, WifiCalls) /\ wifiTimers \in Nat
      /\ Cardinality(Of(wifiCalls, "connect")) \in Nat
      /\ wifiTimers + Cardinality(Of(wifiCalls, "connect")) <= MaxTimers
  BY OfFinite DEF WifiInv, TimersFit
<1>1. CASE ReloadTimer
  <2>1. PICK req : req = [op |-> "wifi"] /\ NewCall(req) \in WifiCalls
    BY WifiNewCalls
  <2>2. WifiAsk(req) /\ wifi' = wifi /\ wifiTimers > 0 /\ wifiTimers' = wifiTimers - 1
    BY <1>1, <2>1 DEF ReloadTimer
  <2>3. wifiTimers' \in Nat /\ wifiTimers' + Cardinality(Of(wifiCalls, "connect")) <= MaxTimers
    BY <1>0, <2>2, CallsAssumption
  <2>4. QED
    BY <1>0, <2>1, <2>2, <2>3, WifiSends
<1>2. CASE handleScan
  <2>1. PICK req : req = [op |-> "scan"] /\ NewCall(req) \in WifiCalls
    BY WifiNewCalls
  <2>2. WifiCardOK(wifi') /\ wifi'.connecting = wifi.connecting
    BY <1>0, <1>2 DEF handleScan, WifiCardOK
  <2>3. WifiAsk(req) /\ UNCHANGED wifiTimers
    BY <1>2, <2>1 DEF handleScan
  <2>4. QED
    BY <1>0, <2>1, <2>2, <2>3, WifiSends
<1>3. CASE TypePassword
  <2>1. /\ WifiCardOK(wifi') /\ wifi'.connecting = wifi.connecting
        /\ wifi'.scanning = wifi.scanning
    BY <1>0, <1>3 DEF TypePassword, WifiCardOK
  <2>2. UNCHANGED <<wifiTimers, wifiCalls>>
    BY <1>3 DEF TypePassword
  <2>3. QED
    BY <2>1, <2>2 DEF WifiInv, WifiWait
<1>4. CASE handleConnect
  <2>1. wifi.selectedSsid \in Network /\ wifi.password \in Known
    BY <1>0, <1>4 DEF handleConnect, FormOpen, WifiCardOK
  <2>2. PICK req : /\ req = [op |-> "connect", ssid |-> wifi.selectedSsid, password |-> wifi.password]
                   /\ NewCall(req) \in WifiCalls
    BY <2>1, WifiNewCalls
  <2>3. WifiCardOK(wifi') /\ wifi'.scanning = wifi.scanning
    BY <1>0, <1>4 DEF handleConnect, WifiCardOK
  <2>4. /\ WifiAsk(req) /\ UNCHANGED wifiTimers
        /\ wifiTimers + Cardinality(Of(wifiCalls, "connect")) < MaxTimers
    BY <1>4, <2>2 DEF handleConnect, Of
  <2>5. wifiTimers + Cardinality(Of(wifiCalls, "connect")) + 1 <= MaxTimers
    BY <1>0, <2>4, CallsAssumption
  <2>6. QED
    BY <1>0, <2>2, <2>3, <2>4, <2>5, WifiSends
<1>5. ASSUME NEW n \in Network, SelectNetwork(n) PROVE WifiInv'
  <2>1. PICK choice \in Known : wifi' = [wifi EXCEPT !.selectedSsid = choice]
    BY <1>5 DEF SelectNetwork, Known
  <2>2. /\ WifiCardOK(wifi') /\ wifi'.connecting = wifi.connecting
        /\ wifi'.scanning = wifi.scanning
    BY <1>0, <2>1 DEF WifiCardOK
  <2>3. UNCHANGED <<wifiTimers, wifiCalls>>
    BY <1>5 DEF SelectNetwork
  <2>4. QED
    BY <2>2, <2>3 DEF WifiInv, WifiWait
<1>6. QED
  BY <1>1, <1>2, <1>3, <1>4, <1>5

LEMMA WifiResumeKeeps ==
  ASSUME WifiInv, UNCHANGED station, NEW s \in Replied(wifiCalls), WifiResume(s)
  PROVE  WifiInv'
<1> DEFINE call == wifiCalls[s]
<1>1. /\ s \in DOMAIN wifiCalls /\ call \in WifiCalls /\ CallsIn(wifiCalls, WifiCalls)
      /\ WifiCardOK(wifi) /\ wifiCalls' = Settled(wifiCalls, s) /\ wifiTimers \in Nat
  BY DEF WifiInv, Replied, CallsIn, WifiResume, TimersFit
<1>2. CallsIn(wifiCalls', WifiCalls)
  BY <1>1, SettledIn
<1>3. ASSUME NEW o, call.req.op # o, InFlight(wifiCalls, {o}) PROVE InFlight(wifiCalls', {o})
  BY <1>1, <1>3, SettledInFlight
<1>4. /\ Cardinality(Of(wifiCalls', "connect"))
           = Cardinality(Of(wifiCalls, "connect")) - (IF call.req.op = "connect" THEN 1 ELSE 0)
      /\ Cardinality(Of(wifiCalls, "connect")) \in Nat
  BY <1>1, OfSettled, OfFinite
<1>5. CASE call.req.op = "wifi" /\ LoadWifi(s) /\ UNCHANGED wifiTimers
  <2>1. Ok(wifiCalls, s) => call.body \in Known
    BY <1>1, <1>5, WifiCallIs DEF Watching, CallOf, Ok
  <2>2. /\ WifiCardOK(wifi') /\ wifi'.scanning = wifi.scanning
        /\ wifi'.connecting = wifi.connecting
    BY <1>1, <1>5, <2>1 DEF LoadWifi, WifiCardOK
  <2>3. TimersFit(wifiTimers', wifiCalls')
    BY <1>4, <1>5 DEF WifiInv, TimersFit
  <2>4. WifiWait(wifi', wifiCalls')
    BY <1>3, <1>5, <2>2 DEF WifiInv, WifiWait
  <2>5. QED
    BY <1>2, <2>2, <2>3, <2>4 DEF WifiInv
<1>6. CASE call.req.op = "scan" /\ GotNetworks(s) /\ UNCHANGED wifiTimers
  <2>1. Ok(wifiCalls, s) => call.body \subseteq Network
    BY <1>1, <1>6, WifiCallIs DEF Looking, CallOf, Ok
  <2>2. PICK nets \in SUBSET Network :
          wifi' = [wifi EXCEPT !.scanning = FALSE, !.networks = nets]
    BY <1>1, <1>6, <2>1 DEF GotNetworks, WifiCardOK
  <2>3. WifiCardOK(wifi') /\ ~wifi'.scanning /\ wifi'.connecting = wifi.connecting
    BY <1>1, <2>2 DEF WifiCardOK
  <2>4. TimersFit(wifiTimers', wifiCalls')
    BY <1>4, <1>6 DEF WifiInv, TimersFit
  <2>5. WifiWait(wifi', wifiCalls')
    BY <1>3, <1>6, <2>3 DEF WifiInv, WifiWait
  <2>6. QED
    BY <1>2, <2>3, <2>4, <2>5 DEF WifiInv
<1>7. CASE call.req.op = "connect" /\ Connected(s)
  <2>1. WifiCardOK(wifi') /\ ~wifi'.connecting /\ wifi'.scanning = wifi.scanning
    <3>1. \/ wifi' = [wifi EXCEPT !.connecting = FALSE]
          \/ wifi' = [wifi EXCEPT !.connecting = FALSE, !.selectedSsid = Nothing,
                         !.password = Nothing]
      BY <1>7 DEF Connected
    <3>2. QED
      BY <1>1, <3>1 DEF WifiCardOK, Known
  <2>2. wifiTimers' \in {wifiTimers, wifiTimers + 1}
    BY <1>7 DEF Connected
  <2>3. TimersFit(wifiTimers', wifiCalls')
    BY <1>1, <1>4, <1>7, <2>2, CallsAssumption DEF WifiInv, TimersFit
  <2>4. WifiWait(wifi', wifiCalls')
    BY <1>3, <1>7, <2>1 DEF WifiInv, WifiWait
  <2>5. QED
    BY <1>2, <2>1, <2>3, <2>4 DEF WifiInv
<1>8. QED
  BY <1>5, <1>6, <1>7 DEF WifiResume

LEMMA WifiServerKeeps ==
  ASSUME WifiInv, UNCHANGED <<wifi, wifiTimers>>, NEW s \in Sent(wifiCalls), WifiServer(s)
  PROVE  WifiInv'
<1> DEFINE call == wifiCalls[s]
<1>1. call \in WifiCalls /\ CallsIn(wifiCalls, WifiCalls)
  BY DEF Sent, WifiInv, CallsIn
<1>2. ASSUME NEW Req, NEW Body, CallOf(Req, Body) \subseteq WifiCalls, call \in CallOf(Req, Body),
             NEW body \in Body, station' \in [ssid : Known, password : Known], WifiAnswer(s, body)
      PROVE  WifiInv'
  <2>1. /\ CallsIn(wifiCalls', WifiCalls) /\ Continued(wifiCalls, wifiCalls')
        /\ DOMAIN wifiCalls' = DOMAIN wifiCalls
    BY <1>1, <1>2, AnsweredIn DEF WifiAnswer
  <2>2. WifiWait(wifi', wifiCalls')
    BY <2>1, ContinuedInFlight DEF WifiInv, WifiWait
  <2>3. Of(wifiCalls', "connect") = Of(wifiCalls, "connect")
    BY <2>1, OfContinued
  <2>4. TimersFit(wifiTimers', wifiCalls')
    BY <2>3 DEF WifiInv, TimersFit
  <2>5. QED
    BY <1>2, <2>1, <2>2, <2>4 DEF WifiInv
<1>3. /\ Watching \subseteq WifiCalls /\ Looking \subseteq WifiCalls /\ Joining \subseteq WifiCalls
      /\ station \in [ssid : Known, password : Known]
  BY DEF WifiCalls, WifiInv
<1>4. CASE call.req.op = "wifi" /\ WifiAnswer(s, station.ssid) /\ UNCHANGED station
  <2>1. call \in Watching /\ station.ssid \in Known
    BY <1>1, <1>3, <1>4, WifiCallIs
  <2>2. QED
    BY <1>2, <1>3, <1>4, <2>1 DEF Watching
<1>5. ASSUME NEW found \in SUBSET Network, call.req.op = "scan", WifiAnswer(s, found), UNCHANGED station
      PROVE  WifiInv'
  <2>1. call \in Looking
    BY <1>1, <1>5, WifiCallIs
  <2>2. QED
    BY <1>2, <1>3, <1>5, <2>1 DEF Looking
<1>6. CASE /\ call.req.op = "connect" /\ WifiAnswer(s, Nothing)
           /\ station' = [ssid |-> call.req.ssid, password |-> call.req.password]
  <2>1. call \in Joining
    BY <1>1, <1>6, WifiCallIs
  <2>2. call.req.ssid \in Known /\ call.req.password \in Known
    BY <2>1 DEF Joining, CallOf, Known
  <2>3. QED
    BY <1>2, <1>3, <1>6, <2>1, <2>2 DEF Joining
<1>7. CASE wifiCalls' = Failed(wifiCalls, s) /\ UNCHANGED station
  <2>1. station' \in [ssid : Known, password : Known] /\ \A body : WifiAnswer(s, body)
    BY <1>3, <1>7 DEF WifiAnswer
  <2>2. station.ssid \in Known /\ {} \in SUBSET Network
    BY <1>3
  <2>3. CASE call \in Watching
    BY <1>2, <1>3, <2>1, <2>2, <2>3 DEF Watching
  <2>4. CASE call \in Looking
    BY <1>2, <1>3, <2>1, <2>2, <2>4 DEF Looking
  <2>5. CASE call \in Joining
    BY <1>2, <1>3, <2>1, <2>5 DEF Joining
  <2>6. QED
    BY <1>1, <2>3, <2>4, <2>5 DEF WifiCalls
<1>8. QED
  BY <1>4, <1>5, <1>6, <1>7 DEF WifiServer

LEMMA WifiInvStep == WifiInv /\ [WifiNext]_wifiVars => WifiInv'
<1> SUFFICES ASSUME WifiInv, [WifiNext]_wifiVars PROVE WifiInv'
  OBVIOUS
<1>1. CASE UNCHANGED wifiVars
  BY <1>1 DEF wifiVars, WifiInv
<1>2. ASSUME NEW n \in Network, SaveConfig(n), UNCHANGED <<wifi, wifiTimers, wifiCalls>>
      PROVE  WifiInv'
  <2>1. station' \in [ssid : Known, password : Known]
    BY <1>2 DEF SaveConfig, WifiInv, Known
  <2>2. QED
    BY <1>2, <2>1 DEF WifiInv
<1>3. QED
  BY <1>1, <1>2, WifiUserKeeps, WifiResumeKeeps, WifiServerKeeps DEF WifiNext

-----------------------------------------------------------------------------
(* Part 9: PWM servos.  The dialog that submits has its servo being added, or *)
(* the list under way that it asked for.                                      *)

PwmListed == CallOf([op : {"list"}, then : {"stop", "dialog"}], SUBSET PwmConfig)

AddingServo == CallOf([op : {"add"}, config : PwmConfig], {Nothing})

Acting == CallOf([op : {"remove", "position"}, channel : Channel], {Nothing})

PwmRequests == PwmListed \cup AddingServo \cup Acting

DialogOK(d) ==
  d \in [open : BOOLEAN, controller : Controller, pin : Pin, named : BOOLEAN,
         submitting : BOOLEAN, error : BOOLEAN]

PwmStoreOK(p) == p \in [servos : SUBSET PwmConfig, loading : BOOLEAN]

PwmCardOK(c) == c \in [moving : BOOLEAN, confirming : BOOLEAN]

\* The calls the dialog waits for.
Submits(req) == req.op = "add" \/ (req.op = "list" /\ req.then = "dialog")

Submitting(calls) == \E s \in DOMAIN calls : Submits(calls[s].req)

PwmWait(p, d, calls) ==
  (p.loading => InFlight(calls, {"list"})) /\ (d.submitting => Submitting(calls))

PwmInv ==
  /\ pwmConfigs \subseteq PwmConfig /\ PwmStoreOK(pwm) /\ DialogOK(dialog) /\ PwmCardOK(pwmCard)
  /\ CallsIn(pwmCalls, PwmRequests) /\ PwmWait(pwm, dialog, pwmCalls)

LEMMA PwmInvSays == PwmInv => PwmTypeOK /\ PwmBusy
<1>1. PwmInv => PwmTypeOK
  BY DEF PwmInv, PwmStoreOK, DialogOK, PwmCardOK, CallsIn, PwmTypeOK
<1>2. PwmInv => PwmBusy
  BY DEF PwmInv, PwmWait, Submitting, Submits, PwmBusy
<1>3. QED
  BY <1>1, <1>2

LEMMA PwmCallIs ==
  ASSUME NEW call \in PwmRequests
  PROVE  /\ call.req.op \in {"list", "add", "remove", "position"}
         /\ call.req.op = "list" => call \in PwmListed
         /\ call.req.op = "add" => call \in AddingServo
         /\ call.req.op \in {"remove", "position"} => call \in Acting
BY DEF PwmRequests, PwmListed, AddingServo, Acting, CallOf

LEMMA PwmNewCalls ==
  /\ \A t \in {"stop", "dialog"} : NewCall([op |-> "list", then |-> t]) \in PwmRequests
  /\ \A c \in PwmConfig : NewCall([op |-> "add", config |-> c]) \in PwmRequests
  /\ \A o \in {"remove", "position"}, ch \in Channel :
       NewCall([op |-> o, channel |-> ch]) \in PwmRequests
BY DEF PwmRequests, PwmListed, AddingServo, Acting, CallOf, NewCall

LEMMA NewPwmCardOK == PwmCardOK(NewPwmCard)
BY DEF NewPwmCard, PwmCardOK

LEMMA FirstChannel == 0 \in Channel
BY PwmAssumption DEF Channel

LEMMA LeastNatural ==
  ASSUME NEW T \in SUBSET Nat, T # {} PROVE \E m \in T : \A n \in T : m <= n
<1>1. \A m, n \in Nat : n < m => <<n, m>> \in OpToRel(<, Nat)
  BY DEF OpToRel
<1>2. PICK R : IsWellFoundedOn(R, Nat) /\ \A m, n \in Nat : n < m => <<n, m>> \in R
  BY <1>1, NatLessThanWellFounded, Zenon
<1>3. PICK m \in T : \A n \in T : ~(<<n, m>> \in R)
  BY <1>2, WFMin, Zenon
<1>4. \A n \in T : ~(n < m)
  BY <1>2, <1>3
<1>5. \A n \in T : m <= n
  BY <1>4
<1>6. QED
  BY <1>5

\* The channel offered is one of the board's that no listed servo has.
LEMMA NextChannelIs == ASSUME Unused # {} PROVE nextChannel \in Channel
<1>1. Unused \in SUBSET Nat /\ Unused \subseteq Channel
  BY PwmAssumption DEF Unused, Channel
<1>2. \E c \in Unused : \A d \in Unused : c <= d
  BY <1>1, LeastNatural
<1>3. nextChannel \in Unused
  BY <1>2 DEF nextChannel
<1>4. QED
  BY <1>1, <1>3

\* A call is sent next to others, and at most what waits for it starts to wait.
LEMMA PwmCallSent ==
  ASSUME NEW calls, CallsIn(calls, PwmRequests), CanSend(calls), NEW req,
         NewCall(req) \in PwmRequests, NEW p, NEW d,
         p.loading => (InFlight(calls, {"list"}) \/ req.op = "list"),
         d.submitting => (Submitting(calls) \/ Submits(req))
  PROVE  PwmWait(p, d, Send(calls, req)) /\ CallsIn(Send(calls, req), PwmRequests)
<1> DEFINE new == Send(calls, req)
<1>1. /\ CallsIn(new, PwmRequests) /\ Continued(calls, new)
      /\ DOMAIN new = DOMAIN calls \cup {FreeSlot(calls)} /\ new[FreeSlot(calls)].req = req
  BY SendIn DEF NewCall
<1>2. InFlight(calls, {"list"}) \/ req.op = "list" => InFlight(new, {"list"})
  BY SendInFlight
<1> HIDE DEF new
<1>3. Submitting(calls) \/ Submits(req) => Submitting(new)
  BY <1>1 DEF Continued, Submitting
<1>4. QED
  BY <1>1, <1>2, <1>3 DEF PwmWait, new

LEMMA PwmInvInit == PwmInit => PwmInv
<1> SUFFICES ASSUME PwmInit PROVE PwmInv
  OBVIOUS
<1>1. PICK req : req = [op |-> "list", then |-> "stop"] /\ NewCall(req) \in PwmRequests
  BY PwmNewCalls
<1>2. CallsIn(NoCalls, PwmRequests) /\ CanSend(NoCalls)
  BY NoCallsIn
<1>3. pwmCalls = Send(NoCalls, req)
  BY <1>1 DEF PwmInit
<1>4. PwmStoreOK(pwm) /\ DialogOK(dialog) /\ PwmCardOK(pwmCard) /\ ~dialog.submitting
      /\ pwmConfigs = {}
  BY PwmAssumption
  DEF PwmInit, NewDialog, NewPwmCard, PwmStoreOK, DialogOK, PwmCardOK, Controller
<1>5. PwmWait(pwm, dialog, pwmCalls) /\ CallsIn(pwmCalls, PwmRequests)
  BY <1>1, <1>2, <1>3, <1>4, PwmCallSent
<1>6. QED
  BY <1>4, <1>5 DEF PwmInv

LEMMA PwmUserKeeps == ASSUME PwmInv, UNCHANGED pwmConfigs, PwmUser PROVE PwmInv'
<1>0. /\ PwmStoreOK(pwm) /\ DialogOK(dialog) /\ PwmCardOK(pwmCard)
      /\ CallsIn(pwmCalls, PwmRequests) /\ PwmWait(pwm, dialog, pwmCalls)
  BY DEF PwmInv
\* A handler that sends a call.
<1>1. ASSUME NEW req, NewCall(req) \in PwmRequests, PwmAsk(req),
             PwmStoreOK(pwm'), DialogOK(dialog'), PwmCardOK(pwmCard'),
             pwm'.loading => (pwm.loading \/ req.op = "list"),
             dialog'.submitting => (dialog.submitting \/ Submits(req))
      PROVE  PwmInv'
  <2>1. CanSend(pwmCalls) /\ pwmCalls' = Send(pwmCalls, req)
    BY <1>1 DEF PwmAsk
  <2>2. PwmWait(pwm', dialog', pwmCalls') /\ CallsIn(pwmCalls', PwmRequests)
    BY <1>0, <1>1, <2>1, PwmCallSent DEF PwmWait
  <2>3. QED
    BY <1>1, <2>2 DEF PwmInv
\* One that does not.
<1>2. ASSUME UNCHANGED <<pwm, pwmCalls>>, DialogOK(dialog'), PwmCardOK(pwmCard'),
             dialog'.submitting = dialog.submitting
      PROVE  PwmInv'
  <2>1. PwmWait(pwm', dialog', pwmCalls')
    BY <1>0, <1>2 DEF PwmWait
  <2>2. QED
    BY <1>2, <2>1 DEF PwmInv
<1>3. CASE MountPwm
  <2>1. PICK req : /\ req = [op |-> "list", then |-> "stop"] /\ NewCall(req) \in PwmRequests
    BY PwmNewCalls
  <2>2. PwmStoreOK(pwm')
    BY <1>0, <1>3 DEF MountPwm, PwmStoreOK
  <2>3. DialogOK(dialog') /\ PwmCardOK(pwmCard') /\ ~dialog'.submitting
    BY <1>3, PwmAssumption DEF MountPwm, NewDialog, NewPwmCard, DialogOK, PwmCardOK, Controller
  <2>4. PwmAsk(req)
    BY <1>3, <2>1 DEF MountPwm
  <2>5. QED
    BY <1>1, <2>1, <2>2, <2>3, <2>4
<1>4. CASE handleSubmit
  <2>1. [channel |-> nextChannel, pin |-> dialog.pin, controller |-> dialog.controller] \in PwmConfig
    BY <1>0, <1>4, NextChannelIs DEF handleSubmit, DialogOK, PwmConfig
  <2>2. PICK req : /\ req = [op |-> "add", config |-> [channel |-> nextChannel, pin |-> dialog.pin,
                                                       controller |-> dialog.controller]]
                   /\ NewCall(req) \in PwmRequests
    BY <2>1, PwmNewCalls
  <2>3. DialogOK(dialog')
    BY <1>0, <1>4 DEF handleSubmit, DialogOK
  <2>4. PwmAsk(req) /\ UNCHANGED <<pwm, pwmCard>> /\ Submits(req)
    BY <1>4, <2>2 DEF handleSubmit, Submits
  <2>5. QED
    BY <1>0, <1>1, <2>2, <2>3, <2>4
<1>5. CASE FillIn
  <2>1. DialogOK(dialog') /\ dialog'.submitting = dialog.submitting
    BY <1>0, <1>5 DEF FillIn, DialogOK
  <2>2. QED
    BY <1>0, <1>2, <1>5, <2>1 DEF FillIn
<1>6. ASSUME NEW open \in BOOLEAN, ShowDialog(open) PROVE PwmInv'
  <2>1. DialogOK(dialog') /\ dialog'.submitting = dialog.submitting
    BY <1>0, <1>6 DEF ShowDialog, DialogOK
  <2>2. QED
    BY <1>0, <1>2, <1>6, <2>1 DEF ShowDialog
<1>7. ASSUME NEW c \in Controller, ChooseController(c) PROVE PwmInv'
  <2>1. DialogOK(dialog') /\ dialog'.submitting = dialog.submitting
    BY <1>0, <1>7 DEF ChooseController, DialogOK
  <2>2. QED
    BY <1>0, <1>2, <1>7, <2>1 DEF ChooseController
<1>8. ASSUME NEW p \in Pin, ChoosePin(p) PROVE PwmInv'
  <2>1. DialogOK(dialog') /\ dialog'.submitting = dialog.submitting
    BY <1>0, <1>8 DEF ChoosePin, DialogOK
  <2>2. QED
    BY <1>0, <1>2, <1>8, <2>1 DEF ChoosePin
<1>9. CASE handleSlider \/ RemoveTimeout
  <2>1. PwmCardOK(pwmCard') /\ UNCHANGED <<pwm, dialog, pwmCalls>>
    BY <1>0, <1>9 DEF handleSlider, RemoveTimeout, PwmCardOK
  <2>2. QED
    BY <1>0, <1>2, <2>1
<1>10. CASE SliderSends \/ QuickPosition
  <2>1. PICK req : req = [op |-> "position", channel |-> 0] /\ NewCall(req) \in PwmRequests
    BY PwmNewCalls, FirstChannel
  <2>2. PwmCardOK(pwmCard') /\ UNCHANGED <<pwm, dialog>>
    BY <1>0, <1>10 DEF SliderSends, QuickPosition, PwmCardOK
  <2>3. PwmAsk(req)
    BY <1>10, <2>1 DEF SliderSends, QuickPosition
  <2>4. QED
    BY <1>0, <1>1, <2>1, <2>2, <2>3
<1>11. CASE handleRemove
  <2>1. PICK req : req = [op |-> "remove", channel |-> 0] /\ NewCall(req) \in PwmRequests
    BY PwmNewCalls, FirstChannel
  <2>2. PwmCardOK(pwmCard') /\ UNCHANGED <<pwm, dialog>>
    BY <1>0, <1>11 DEF handleRemove, PwmCardOK
  <2>3. PwmAsk(req) \/ UNCHANGED pwmCalls
    BY <1>11, <2>1 DEF handleRemove
  <2>4. QED
    BY <1>0, <1>1, <1>2, <2>1, <2>2, <2>3
<1>12. QED
  BY <1>3, <1>4, <1>5, <1>6, <1>7, <1>8, <1>9, <1>10, <1>11 DEF PwmUser

LEMMA PwmResumeKeeps ==
  ASSUME PwmInv, UNCHANGED pwmConfigs, NEW s \in Replied(pwmCalls), PwmResume(s)
  PROVE  PwmInv'
<1> DEFINE call  == pwmCalls[s]
           calls == Settled(pwmCalls, s)
<1>1. /\ PwmStoreOK(pwm) /\ DialogOK(dialog) /\ PwmCardOK(pwmCard)
      /\ CallsIn(pwmCalls, PwmRequests) /\ PwmWait(pwm, dialog, pwmCalls)
      /\ s \in DOMAIN pwmCalls /\ call \in PwmRequests
  BY DEF PwmInv, Replied, CallsIn
<1>2. /\ CallsIn(calls, PwmRequests) /\ CanSend(calls)
      /\ DOMAIN calls = DOMAIN pwmCalls \ {s}
      /\ \A t \in DOMAIN pwmCalls \ {s} : calls[t] = pwmCalls[t]
  BY <1>1, SettledIn
<1>3. call.req.op # "list" /\ InFlight(pwmCalls, {"list"}) => InFlight(calls, {"list"})
  BY <1>1, SettledInFlight
<1>4. ~Submits(call.req) /\ Submitting(pwmCalls) => Submitting(calls)
  BY <1>2 DEF Submitting
<1> HIDE DEF calls
<1>5. CASE call.req.op = "list" /\ GotServos(s)
  <2>1. call.req.then \in {"stop", "dialog"} /\ (Ok(pwmCalls, s) => call.body \subseteq PwmConfig)
    BY <1>1, <1>5, PwmCallIs DEF PwmListed, CallOf, Ok
  <2>2. PwmStoreOK(pwm') /\ ~pwm'.loading
    BY <1>1, <1>5, <2>1 DEF GotServos, PwmListing, PwmStoreOK
  <2>3. PwmCardOK(pwmCard')
    <3>1. pwmCard' = pwmCard \/ pwmCard' = NewPwmCard
      BY <1>5, Zenon DEF GotServos, PwmListing
    <3>2. QED
      BY <1>1, <3>1, NewPwmCardOK, Zenon
  <2>4. DialogOK(dialog') /\ (dialog'.submitting => dialog.submitting /\ ~Submits(call.req))
    BY <1>1, <1>5 DEF GotServos, Closed, DialogOK, Submits
  <2>5. PwmWait(pwm', dialog', pwmCalls')
    BY <1>1, <1>4, <1>5, <2>2, <2>4 DEF GotServos, PwmWait, calls
  <2>6. pwmCalls' = calls
    BY <1>5 DEF GotServos, calls
  <2>7. QED
    BY <1>2, <2>2, <2>3, <2>4, <2>5, <2>6 DEF PwmInv
<1>6. CASE call.req.op = "add" /\ ConfigAdded(s) /\ Ok(pwmCalls, s)
  <2>1. PICK req : req = [op |-> "list", then |-> "dialog"] /\ NewCall(req) \in PwmRequests
    BY PwmNewCalls
  <2>2. PwmStoreOK(pwm') /\ UNCHANGED <<dialog, pwmCard>>
    BY <1>1, <1>6 DEF ConfigAdded, PwmStoreOK
  <2>3. pwmCalls' = Send(calls, req) /\ Submits(req)
    BY <1>6, <2>1 DEF ConfigAdded, Submits, calls
  <2>4. PwmWait(pwm', dialog', pwmCalls') /\ CallsIn(pwmCalls', PwmRequests)
    BY <1>2, <2>1, <2>3, PwmCallSent
  <2>5. QED
    BY <1>1, <2>2, <2>4 DEF PwmInv
<1>7. CASE call.req.op = "add" /\ ConfigAdded(s) /\ ~Ok(pwmCalls, s)
  <2>1. DialogOK(dialog') /\ ~dialog'.submitting
    BY <1>1, <1>7 DEF ConfigAdded, DialogOK
  <2>2. UNCHANGED <<pwm, pwmCard>> /\ pwmCalls' = calls
    BY <1>7 DEF ConfigAdded, calls
  <2>3. PwmWait(pwm', dialog', pwmCalls')
    BY <1>1, <1>3, <1>7, <2>1, <2>2 DEF PwmWait
  <2>4. QED
    BY <1>1, <1>2, <2>1, <2>2, <2>3 DEF PwmInv
<1>8. CASE call.req.op \in {"remove", "position"} /\ (PwmRemoved(s) \/ PositionSet(s))
  <2>1. PwmStoreOK(pwm') /\ pwm'.loading = pwm.loading
    BY <1>1, <1>8 DEF PwmRemoved, PositionSet, PwmStoreOK
  <2>2. PwmCardOK(pwmCard')
    <3>1. pwmCard' = pwmCard \/ pwmCard' = NewPwmCard
      BY <1>8, Zenon DEF PwmRemoved, PositionSet
    <3>2. QED
      BY <1>1, <3>1, NewPwmCardOK, Zenon
  <2>3. UNCHANGED dialog /\ pwmCalls' = calls
    BY <1>8 DEF PwmRemoved, PositionSet, calls
  <2>4. ~Submits(call.req)
    BY <1>8 DEF Submits
  <2>5. PwmWait(pwm', dialog', pwmCalls')
    BY <1>1, <1>3, <1>4, <1>8, <2>1, <2>3, <2>4 DEF PwmWait
  <2>6. QED
    BY <1>1, <1>2, <2>1, <2>2, <2>3, <2>5 DEF PwmInv
<1>9. QED
  BY <1>5, <1>6, <1>7, <1>8 DEF PwmResume

LEMMA ServePwmKeeps ==
  ASSUME PwmInv, UNCHANGED <<pwm, dialog, pwmCard>>, NEW s \in Sent(pwmCalls), ServePwm(s)
  PROVE  PwmInv'
<1> DEFINE call == pwmCalls[s]
<1>1. call \in PwmRequests /\ CallsIn(pwmCalls, PwmRequests) /\ pwmConfigs \subseteq PwmConfig
  BY DEF Sent, PwmInv, CallsIn
<1>2. ASSUME NEW Req, NEW Body, CallOf(Req, Body) \subseteq PwmRequests, call \in CallOf(Req, Body),
             NEW body \in Body, pwmConfigs' \subseteq PwmConfig,
             PwmAnswer(s, body) \/ pwmCalls' = Failed(pwmCalls, s)
      PROVE  PwmInv'
  <2>1. CallsIn(pwmCalls', PwmRequests) /\ Continued(pwmCalls, pwmCalls')
    BY <1>1, <1>2, AnsweredIn DEF PwmAnswer
  <2>2. Submitting(pwmCalls) => Submitting(pwmCalls')
    BY <2>1 DEF Continued, Submitting
  <2>3. PwmWait(pwm', dialog', pwmCalls')
    BY <2>1, <2>2, ContinuedInFlight DEF PwmInv, PwmWait
  <2>4. QED
    BY <1>2, <2>1, <2>3 DEF PwmInv
<1>3. /\ PwmListed \subseteq PwmRequests /\ AddingServo \subseteq PwmRequests
      /\ Acting \subseteq PwmRequests
  BY DEF PwmRequests
<1>4. CASE call.req.op = "list"
  <2>1. call \in PwmListed
    BY <1>1, <1>4, PwmCallIs
  <2>2. PwmAnswer(s, pwmConfigs) /\ UNCHANGED pwmConfigs
    BY <1>4 DEF ServePwm
  <2>3. QED
    BY <1>1, <1>2, <1>3, <2>1, <2>2 DEF PwmListed
<1>5. CASE call.req.op = "add"
  <2>1. call \in AddingServo
    BY <1>1, <1>5, PwmCallIs
  <2>2. call.req.config \in PwmConfig
    BY <2>1 DEF AddingServo, CallOf
  <2>3. /\ pwmConfigs' \subseteq PwmConfig
        /\ PwmAnswer(s, Nothing) \/ pwmCalls' = Failed(pwmCalls, s)
    BY <1>1, <1>5, <2>2 DEF ServePwm
  <2>4. QED
    BY <1>2, <1>3, <2>1, <2>3 DEF AddingServo
<1>6. CASE call.req.op \in {"remove", "position"}
  <2>1. call \in Acting
    BY <1>1, <1>6, PwmCallIs
  <2>2. /\ pwmConfigs' \subseteq PwmConfig
        /\ PwmAnswer(s, Nothing) \/ pwmCalls' = Failed(pwmCalls, s)
    BY <1>1, <1>6 DEF ServePwm
  <2>3. QED
    BY <1>2, <1>3, <2>1, <2>2 DEF Acting
<1>7. QED
  BY <1>1, <1>4, <1>5, <1>6, PwmCallIs

LEMMA PwmInvStep == PwmInv /\ [PwmNext]_pwmVars => PwmInv'
<1> SUFFICES ASSUME PwmInv, [PwmNext]_pwmVars PROVE PwmInv'
  OBVIOUS
<1>1. CASE UNCHANGED pwmVars
  BY <1>1 DEF pwmVars, PwmInv
<1>2. QED
  BY <1>1, PwmUserKeeps, PwmResumeKeeps, ServePwmKeeps DEF PwmNext

-----------------------------------------------------------------------------
(* Part 10: the tools.  There is at most one upload of an image in flight, and *)
(* it has its timer.                                                          *)

AskingLed == CallOf([op : {"led"}], BOOLEAN)

Lighting == CallOf([op : {"identify"}, enabled : BOOLEAN] \cup [op : {"flash"}, on : BOOLEAN],
                   {Nothing})

Flashing == CallOf([op : {"ota"}, image : Image], {Nothing})

ListingFiles == CallOf([op : {"files"}], SUBSET FileName)

Handling == CallOf([op : {"upload", "delete", "download"}, file : FileName], {Nothing})

ToolCalls == AskingLed \cup Lighting \cup Flashing \cup ListingFiles \cup Handling

BoardOK(b) ==
  b \in [identify : BOOLEAN, flash : BOOLEAN, firmware : Image, files : SUBSET FileName]

OtaOK(o) == o \in [file : Image \cup {Nothing}, uploading : BOOLEAN, timers : 0..MaxTimers]

ManagerOK(m) == m \in [files : SUBSET FileName, loading : BOOLEAN]

LedOK(l) == l \in [identify : BOOLEAN]

ToolsWait(o, m, calls) ==
  /\ o.uploading => InFlight(calls, {"ota"})
  /\ m.loading => InFlight(calls, {"files"})

OneUpload(o, calls) ==
  \A s, t \in DOMAIN calls : calls[s].req.op = "ota" =>
    /\ o.uploading /\ o.timers < MaxTimers
    /\ calls[t].req.op = "ota" => s = t

ToolsInv ==
  /\ BoardOK(board) /\ LedOK(led) /\ OtaOK(ota) /\ ManagerOK(manager)
  /\ CallsIn(toolCalls, ToolCalls) /\ ToolsWait(ota, manager, toolCalls)
  /\ OneUpload(ota, toolCalls)

LEMMA ToolsInvSays == ToolsInv => ToolsTypeOK /\ ToolsBusy
<1>1. ToolsInv => ToolsTypeOK
  BY DEF ToolsInv, BoardOK, LedOK, OtaOK, ManagerOK, CallsIn, ToolsTypeOK
<1>2. ToolsInv => ToolsBusy
  BY DEF ToolsInv, ToolsWait, ToolsBusy
<1>3. QED
  BY <1>1, <1>2

LEMMA ToolCallIs ==
  ASSUME NEW call \in ToolCalls
  PROVE  /\ call.req.op \in {"led", "identify", "flash", "ota", "files", "upload", "delete", "download"}
         /\ call.req.op = "led" => call \in AskingLed
         /\ call.req.op \in {"identify", "flash"} => call \in Lighting
         /\ call.req.op = "ota" => call \in Flashing
         /\ call.req.op = "files" => call \in ListingFiles
         /\ call.req.op \in {"upload", "delete", "download"} => call \in Handling
BY DEF ToolCalls, AskingLed, Lighting, Flashing, ListingFiles, Handling, CallOf

LEMMA ToolNewCalls ==
  /\ NewCall([op |-> "led"]) \in ToolCalls /\ NewCall([op |-> "files"]) \in ToolCalls
  /\ \A b \in BOOLEAN : NewCall([op |-> "identify", enabled |-> b]) \in ToolCalls
  /\ \A b \in BOOLEAN : NewCall([op |-> "flash", on |-> b]) \in ToolCalls
  /\ \A i \in Image : NewCall([op |-> "ota", image |-> i]) \in ToolCalls
  /\ \A o \in {"upload", "delete", "download"}, f \in FileName :
       NewCall([op |-> o, file |-> f]) \in ToolCalls
<1>1. ASSUME NEW b \in BOOLEAN
      PROVE  /\ NewCall([op |-> "identify", enabled |-> b]) \in Lighting
             /\ NewCall([op |-> "flash", on |-> b]) \in Lighting
  <2>1. /\ [op |-> "identify", enabled |-> b] \in [op : {"identify"}, enabled : BOOLEAN]
        /\ [op |-> "flash", on |-> b] \in [op : {"flash"}, on : BOOLEAN]
    OBVIOUS
  <2>2. QED
    BY <2>1, NewCallOf DEF Lighting
<1>2. /\ NewCall([op |-> "led"]) \in AskingLed /\ NewCall([op |-> "files"]) \in ListingFiles
      /\ \A i \in Image : NewCall([op |-> "ota", image |-> i]) \in Flashing
      /\ \A o \in {"upload", "delete", "download"}, f \in FileName :
           NewCall([op |-> o, file |-> f]) \in Handling
  BY DEF AskingLed, ListingFiles, Flashing, Handling, CallOf, NewCall
<1>3. QED
  BY <1>1, <1>2 DEF ToolCalls

\* A call that is not an upload is sent next to others.
LEMMA ToolCallSent ==
  ASSUME NEW calls, CallsIn(calls, ToolCalls), CanSend(calls), NEW req,
         NewCall(req) \in ToolCalls, req.op # "ota", NEW o, NEW m, OneUpload(o, calls),
         o.uploading => InFlight(calls, {"ota"}),
         m.loading => (InFlight(calls, {"files"}) \/ req.op = "files")
  PROVE  /\ CallsIn(Send(calls, req), ToolCalls) /\ ToolsWait(o, m, Send(calls, req))
         /\ OneUpload(o, Send(calls, req))
<1> DEFINE new == Send(calls, req)
<1>1. /\ CallsIn(new, ToolCalls) /\ DOMAIN new = DOMAIN calls \cup {FreeSlot(calls)}
      /\ new[FreeSlot(calls)].req = req /\ \A s \in DOMAIN calls : new[s] = calls[s]
  BY SendIn DEF NewCall
<1>2. /\ InFlight(calls, {"ota"}) => InFlight(new, {"ota"})
      /\ InFlight(calls, {"files"}) \/ req.op = "files" => InFlight(new, {"files"})
  BY SendInFlight
<1> HIDE DEF new
<1>3. OneUpload(o, new)
  BY <1>1 DEF OneUpload
<1>4. QED
  BY <1>1, <1>2, <1>3 DEF ToolsWait, new

LEMMA FirstCallsIn ==
  /\ CallsIn(FirstCalls, ToolCalls) /\ InFlight(FirstCalls, {"files"})
  /\ \A s \in DOMAIN FirstCalls : FirstCalls[s].req.op # "ota"
<1>1. PICK ask : ask = [op |-> "led"] /\ NewCall(ask) \in ToolCalls
  BY ToolNewCalls
<1>2. PICK list : list = [op |-> "files"] /\ NewCall(list) \in ToolCalls
  BY ToolNewCalls
<1>3. CallsIn(NoCalls, ToolCalls) /\ CanSend(NoCalls) /\ DOMAIN NoCalls = {}
  BY NoCallsIn DEF NoCalls
<1>4. PICK first : first = Send(NoCalls, ask)
  OBVIOUS
<1>5. /\ CallsIn(first, ToolCalls) /\ DOMAIN first = {FreeSlot(NoCalls)}
      /\ first[FreeSlot(NoCalls)].req = ask
  <2>1. /\ CallsIn(Send(NoCalls, ask), ToolCalls)
        /\ DOMAIN Send(NoCalls, ask) = DOMAIN NoCalls \cup {FreeSlot(NoCalls)}
        /\ Send(NoCalls, ask)[FreeSlot(NoCalls)] = NewCall(ask)
    BY <1>1, <1>3, SendIn
  <2>2. QED
    BY <1>3, <1>4, <2>1 DEF NewCall
<1>6. CanSend(first)
  <2>1. 1 \in Slots /\ 2 \in Slots
    BY CallsAssumption, ToolsAssumption DEF Slots
  <2>2. QED
    BY <1>5, <2>1 DEF CanSend
<1>7. FirstCalls = Send(first, list)
  BY <1>1, <1>2, <1>4 DEF FirstCalls
<1>8. /\ CallsIn(FirstCalls, ToolCalls) /\ DOMAIN FirstCalls = DOMAIN first \cup {FreeSlot(first)}
      /\ FirstCalls[FreeSlot(first)].req = list /\ \A s \in DOMAIN first : FirstCalls[s] = first[s]
  BY <1>2, <1>5, <1>6, <1>7, SendIn DEF NewCall
<1>9. QED
  BY <1>1, <1>2, <1>5, <1>8 DEF InFlight

LEMMA FreshOta ==
  ASSUME NEW o, o = [file |-> Nothing, uploading |-> FALSE, timers |-> 0]
  PROVE  OtaOK(o) /\ ~o.uploading
BY CallsAssumption DEF OtaOK

\* The page as it starts, the first time and after a reload.
LEMMA FreshPage ==
  ASSUME NEW l, NEW o, NEW m, l = [identify |-> FALSE],
         o = [file |-> Nothing, uploading |-> FALSE, timers |-> 0],
         m = [files |-> {}, loading |-> TRUE]
  PROVE  /\ LedOK(l) /\ OtaOK(o) /\ ManagerOK(m) /\ CallsIn(FirstCalls, ToolCalls)
         /\ ToolsWait(o, m, FirstCalls) /\ OneUpload(o, FirstCalls)
<1>1. LedOK(l) /\ ManagerOK(m)
  BY DEF LedOK, ManagerOK
<1>2. OtaOK(o) /\ ~o.uploading
  BY FreshOta
<1>3. ToolsWait(o, m, FirstCalls) /\ OneUpload(o, FirstCalls)
  BY <1>2, FirstCallsIn DEF ToolsWait, OneUpload
<1>4. QED
  BY <1>1, <1>2, <1>3, FirstCallsIn

LEMMA ToolsInvInit == ToolsInit => ToolsInv
<1> SUFFICES ASSUME ToolsInit PROVE ToolsInv
  OBVIOUS
<1>1. BoardOK(board)
  BY DEF ToolsInit, BoardOK
<1>2. QED
  BY <1>1, FreshPage DEF ToolsInit, ToolsInv

LEMMA ToolsUserKeeps ==
  ASSUME ToolsInv, UNCHANGED board,
         \/ handleIdentifyToggle \/ handleOtaUpload \/ ReloadPage
         \/ \E on \in BOOLEAN : handleFlash(on)
         \/ \E i \in Image : ChooseImage(i)
         \/ \E f \in FileName : handleFileUpload(f) \/ handleDelete(f) \/ handleDownload(f)
  PROVE  ToolsInv'
<1>0. /\ LedOK(led) /\ OtaOK(ota) /\ ManagerOK(manager) /\ CallsIn(toolCalls, ToolCalls)
      /\ ToolsWait(ota, manager, toolCalls) /\ OneUpload(ota, toolCalls)
  BY DEF ToolsInv
<1>1. ASSUME NEW req, NewCall(req) \in ToolCalls, req.op # "ota", ToolAsk(req),
             UNCHANGED <<led, ota, manager>>
      PROVE  ToolsInv'
  <2>1. CanSend(toolCalls) /\ toolCalls' = Send(toolCalls, req)
    BY <1>1 DEF ToolAsk
  <2>2. /\ CallsIn(toolCalls', ToolCalls) /\ ToolsWait(ota, manager, toolCalls')
        /\ OneUpload(ota, toolCalls')
    BY <1>0, <1>1, <2>1, ToolCallSent DEF ToolsWait
  <2>3. QED
    BY <1>1, <2>2 DEF ToolsInv
<1>2. CASE handleIdentifyToggle
  <2>1. PICK b \in BOOLEAN : b = ~led.identify
    BY <1>0 DEF LedOK
  <2>2. PICK req : req = [op |-> "identify", enabled |-> b] /\ NewCall(req) \in ToolCalls
    BY ToolNewCalls
  <2>3. ToolAsk(req) /\ UNCHANGED <<led, ota, manager>>
    BY <1>2, <2>1, <2>2, Zenon DEF handleIdentifyToggle
  <2>4. QED
    BY <1>1, <2>2, <2>3
<1>3. ASSUME NEW on \in BOOLEAN, handleFlash(on) PROVE ToolsInv'
  <2>1. PICK req : req = [op |-> "flash", on |-> on] /\ NewCall(req) \in ToolCalls
    BY ToolNewCalls
  <2>2. ToolAsk(req) /\ UNCHANGED <<led, ota, manager>>
    BY <1>3, <2>1 DEF handleFlash
  <2>3. QED
    BY <1>1, <2>1, <2>2
<1>4. ASSUME NEW i \in Image, ChooseImage(i) PROVE ToolsInv'
  <2>1. OtaOK(ota') /\ ota'.uploading = ota.uploading /\ ota'.timers = ota.timers
    BY <1>0, <1>4 DEF ChooseImage, OtaOK
  <2>2. UNCHANGED <<board, led, manager, toolCalls>>
    BY <1>4 DEF ChooseImage
  <2>3. ToolsWait(ota', manager', toolCalls') /\ OneUpload(ota', toolCalls')
    BY <1>0, <2>1, <2>2 DEF ToolsWait, OneUpload
  <2>4. QED
    BY <2>1, <2>2, <2>3 DEF ToolsInv
<1>5. CASE handleOtaUpload
  <2>1. ota.file \in Image /\ ~ota.uploading /\ ota.timers < MaxTimers
    BY <1>0, <1>5 DEF handleOtaUpload, OtaOK
  <2>2. PICK req : req = [op |-> "ota", image |-> ota.file] /\ NewCall(req) \in ToolCalls
    BY <2>1, ToolNewCalls
  <2>3. OtaOK(ota') /\ ota'.uploading /\ ota'.timers = ota.timers
    BY <1>0, <1>5 DEF handleOtaUpload, OtaOK
  <2>4. CanSend(toolCalls) /\ toolCalls' = Send(toolCalls, req) /\ UNCHANGED <<led, manager>>
    BY <1>5, <2>2 DEF handleOtaUpload, ToolAsk
  <2>5. /\ CallsIn(toolCalls', ToolCalls)
        /\ DOMAIN toolCalls' = DOMAIN toolCalls \cup {FreeSlot(toolCalls)}
        /\ \A s \in DOMAIN toolCalls : toolCalls'[s] = toolCalls[s]
    BY <1>0, <2>2, <2>4, SendIn
  <2>6. \A s \in DOMAIN toolCalls : toolCalls[s].req.op # "ota"
    BY <1>0, <2>1 DEF OneUpload
  <2>7. OneUpload(ota', toolCalls')
    BY <2>1, <2>3, <2>5, <2>6 DEF OneUpload
  <2>8. InFlight(toolCalls', {"ota"})
        /\ (InFlight(toolCalls, {"files"}) => InFlight(toolCalls', {"files"}))
    BY <1>0, <2>2, <2>4, SendInFlight
  <2>9. ToolsWait(ota', manager', toolCalls')
    BY <1>0, <2>4, <2>8 DEF ToolsWait
  <2>10. QED
    BY <2>3, <2>4, <2>5, <2>7, <2>9 DEF ToolsInv
<1>6. CASE ReloadPage
  BY <1>6, FreshPage DEF ReloadPage, FreshTools, ToolsInv
<1>7. ASSUME NEW f \in FileName, handleFileUpload(f) \/ handleDelete(f) \/ handleDownload(f)
      PROVE  ToolsInv'
  <2>1. PICK o \in {"upload", "delete", "download"} : ToolAsk([op |-> o, file |-> f])
    BY <1>7 DEF handleFileUpload, handleDelete, handleDownload
  <2>2. PICK req : req = [op |-> o, file |-> f] /\ NewCall(req) \in ToolCalls
    BY ToolNewCalls
  <2>3. UNCHANGED <<led, ota, manager>>
    BY <1>7 DEF handleFileUpload, handleDelete, handleDownload
  <2>4. QED
    BY <1>1, <2>1, <2>2, <2>3
<1>8. QED
  BY <1>2, <1>3, <1>4, <1>5, <1>6, <1>7

LEMMA ToolsResumeKeeps ==
  ASSUME ToolsInv, UNCHANGED board, NEW s \in Replied(toolCalls), ToolsResume(s)
  PROVE  ToolsInv'
<1> DEFINE call  == toolCalls[s]
           calls == Settled(toolCalls, s)
<1>1. /\ LedOK(led) /\ OtaOK(ota) /\ ManagerOK(manager) /\ CallsIn(toolCalls, ToolCalls)
      /\ ToolsWait(ota, manager, toolCalls) /\ OneUpload(ota, toolCalls)
      /\ s \in DOMAIN toolCalls /\ call \in ToolCalls /\ BoardOK(board')
  BY DEF ToolsInv, Replied, CallsIn
<1>2. /\ CallsIn(calls, ToolCalls) /\ CanSend(calls)
      /\ DOMAIN calls = DOMAIN toolCalls \ {s}
      /\ \A t \in DOMAIN toolCalls \ {s} : calls[t] = toolCalls[t]
  BY <1>1, SettledIn
<1>3. ASSUME NEW o, call.req.op # o, InFlight(toolCalls, {o}) PROVE InFlight(calls, {o})
  BY <1>1, <1>3, SettledInFlight
<1> HIDE DEF calls
<1>4. OneUpload(ota, calls)
  BY <1>1, <1>2 DEF OneUpload
\* An answer that ends no wait.
<1>5. ASSUME call.req.op \notin {"ota", "files"}, LedOK(led'), UNCHANGED <<ota, manager>>,
             toolCalls' = calls
      PROVE  ToolsInv'
  <2>1. ToolsWait(ota', manager', toolCalls')
    BY <1>1, <1>3, <1>5 DEF ToolsWait
  <2>2. QED
    BY <1>1, <1>2, <1>4, <1>5, <2>1 DEF ToolsInv
<1>6. CASE call.req.op \in {"led", "identify"} /\ LedAnswered(s) /\ toolCalls' = calls
  <2>1. /\ call.req.op = "led" /\ Ok(toolCalls, s) => call.body \in BOOLEAN
        /\ call.req.op = "identify" => call.req.enabled \in BOOLEAN
    BY <1>1, <1>6, ToolCallIs DEF AskingLed, Lighting, CallOf, Ok
  <2>2. PICK b \in BOOLEAN : led' = led \/ led' = [identify |-> b]
    BY <1>6, <2>1 DEF LedAnswered
  <2>3. LedOK(led')
    BY <1>1, <2>2 DEF LedOK
  <2>4. UNCHANGED <<ota, manager>>
    BY <1>6 DEF LedAnswered
  <2>5. QED
    BY <1>5, <1>6, <2>3, <2>4
<1>7. CASE call.req.op = "ota" /\ Uploaded(s) /\ toolCalls' = calls
  <2>1. ota.timers \in 0..MaxTimers /\ ota.timers < MaxTimers
    BY <1>1, <1>7 DEF OneUpload, OtaOK
  <2>2. PICK n \in {0, 1} : ota' = [ota EXCEPT !.uploading = FALSE, !.timers = @ + n]
    BY <1>7 DEF Uploaded
  <2>3. ota.timers + n \in 0..MaxTimers
    BY <2>1, CallsAssumption
  <2>4. OtaOK(ota') /\ ~ota'.uploading
    BY <1>1, <2>2, <2>3 DEF OtaOK
  <2>5. UNCHANGED <<led, manager>>
    BY <1>7 DEF Uploaded
  <2>6. \A t \in DOMAIN calls : calls[t].req.op # "ota"
    BY <1>1, <1>2, <1>7 DEF OneUpload
  <2>7. OneUpload(ota', calls)
    BY <2>6 DEF OneUpload
  <2>8. ToolsWait(ota', manager', calls)
    BY <1>1, <1>3, <1>7, <2>4, <2>5 DEF ToolsWait
  <2>9. QED
    BY <1>1, <1>2, <1>7, <2>4, <2>5, <2>7, <2>8 DEF ToolsInv
<1>8. CASE /\ call.req.op \in {"flash", "download"} /\ UNCHANGED <<led, ota, manager>>
           /\ toolCalls' = calls
  BY <1>1, <1>5, <1>8
<1>9. CASE call.req.op = "files" /\ GotFiles(s)
  <2>1. Ok(toolCalls, s) => call.body \subseteq FileName
    BY <1>1, <1>9, ToolCallIs DEF ListingFiles, CallOf, Ok
  <2>2. PICK fs \in SUBSET FileName :
          manager' = [manager EXCEPT !.loading = FALSE, !.files = fs]
    BY <1>1, <1>9, <2>1 DEF GotFiles, ManagerOK
  <2>3. ManagerOK(manager') /\ ~manager'.loading
    BY <1>1, <2>2 DEF ManagerOK
  <2>4. UNCHANGED <<led, ota>> /\ toolCalls' = calls
    BY <1>9 DEF GotFiles, calls
  <2>5. ToolsWait(ota', manager', calls)
    BY <1>1, <1>3, <1>9, <2>3, <2>4 DEF ToolsWait
  <2>6. QED
    BY <1>1, <1>2, <1>4, <2>3, <2>4, <2>5 DEF ToolsInv
<1>10. CASE call.req.op \in {"upload", "delete"} /\ FilesChanged(s) /\ Ok(toolCalls, s)
  <2>1. PICK req : req = [op |-> "files"] /\ NewCall(req) \in ToolCalls
    BY ToolNewCalls
  <2>2. ManagerOK(manager')
    BY <1>1, <1>10 DEF FilesChanged, ListFiles, ManagerOK
  <2>3. toolCalls' = Send(calls, req) /\ UNCHANGED <<led, ota>>
    BY <1>10, <2>1 DEF FilesChanged, ListFiles, calls
  <2>4. ota.uploading => InFlight(calls, {"ota"})
    BY <1>1, <1>3, <1>10 DEF ToolsWait
  <2>5. req.op = "files" /\ req.op # "ota"
    BY <2>1
  <2>6. /\ CallsIn(toolCalls', ToolCalls) /\ ToolsWait(ota, manager', toolCalls')
        /\ OneUpload(ota, toolCalls')
    BY <1>2, <1>4, <2>1, <2>3, <2>4, <2>5, ToolCallSent
  <2>7. QED
    BY <1>1, <2>2, <2>3, <2>6 DEF ToolsInv
<1>11. CASE call.req.op \in {"upload", "delete"} /\ FilesChanged(s) /\ ~Ok(toolCalls, s)
  <2>1. UNCHANGED <<led, ota, manager>> /\ toolCalls' = calls
    BY <1>11 DEF FilesChanged, calls
  <2>2. QED
    BY <1>1, <1>5, <1>11, <2>1
<1>12. QED
  BY <1>6, <1>7, <1>8, <1>9, <1>10, <1>11 DEF ToolsResume, calls

LEMMA ToolsServerKeeps ==
  ASSUME ToolsInv, UNCHANGED <<led, ota, manager>>, NEW s \in Sent(toolCalls),
         ServeLights(s) \/ ServeFiles(s) \/ ServeOta(s)
  PROVE  ToolsInv'
<1> DEFINE call == toolCalls[s]
<1>1. call \in ToolCalls /\ CallsIn(toolCalls, ToolCalls) /\ BoardOK(board)
  BY DEF Sent, ToolsInv, CallsIn
<1>2. ASSUME NEW Req, NEW Body, CallOf(Req, Body) \subseteq ToolCalls, call \in CallOf(Req, Body),
             NEW body \in Body, BoardOK(board'),
             ToolAnswer(s, body) \/ toolCalls' = Failed(toolCalls, s)
      PROVE  ToolsInv'
  <2>1. /\ CallsIn(toolCalls', ToolCalls) /\ Continued(toolCalls, toolCalls')
        /\ DOMAIN toolCalls' = DOMAIN toolCalls
    BY <1>1, <1>2, AnsweredIn DEF ToolAnswer
  <2>2. ToolsWait(ota', manager', toolCalls')
    BY <2>1, ContinuedInFlight DEF ToolsInv, ToolsWait
  <2>3. OneUpload(ota', toolCalls')
    BY <2>1 DEF ToolsInv, OneUpload, Continued
  <2>4. QED
    BY <1>2, <2>1, <2>2, <2>3 DEF ToolsInv
<1>3. /\ AskingLed \subseteq ToolCalls /\ Lighting \subseteq ToolCalls
      /\ Flashing \subseteq ToolCalls /\ ListingFiles \subseteq ToolCalls
      /\ Handling \subseteq ToolCalls
  BY DEF ToolCalls
<1>4. CASE call.req.op = "led" /\ ToolAnswer(s, board.identify) /\ UNCHANGED board
  <2>1. call \in AskingLed /\ board.identify \in BOOLEAN
    BY <1>1, <1>4, ToolCallIs DEF BoardOK
  <2>2. QED
    BY <1>1, <1>2, <1>3, <1>4, <2>1 DEF AskingLed
<1>5. CASE /\ call.req.op = "identify" /\ board' = [board EXCEPT !.identify = call.req.enabled]
           /\ ToolAnswer(s, Nothing)
  <2>1. call \in Lighting
    BY <1>1, <1>5, ToolCallIs
  <2>2. call.req.enabled \in BOOLEAN
    BY <1>5, <2>1 DEF Lighting, CallOf
  <2>3. PICK b \in BOOLEAN : board' = [board EXCEPT !.identify = b]
    BY <1>5, <2>2, Zenon
  <2>4. BoardOK(board')
    BY <1>1, <2>3 DEF BoardOK
  <2>5. QED
    BY <1>2, <1>3, <1>5, <2>1, <2>4 DEF Lighting
<1>6. CASE /\ call.req.op = "flash" /\ board' = [board EXCEPT !.flash = call.req.on]
           /\ ToolAnswer(s, Nothing)
  <2>1. call \in Lighting
    BY <1>1, <1>6, ToolCallIs
  <2>2. call.req.on \in BOOLEAN
    BY <1>6, <2>1 DEF Lighting, CallOf
  <2>3. PICK b \in BOOLEAN : board' = [board EXCEPT !.flash = b]
    BY <1>6, <2>2, Zenon
  <2>4. BoardOK(board')
    BY <1>1, <2>3 DEF BoardOK
  <2>5. QED
    BY <1>2, <1>3, <1>6, <2>1, <2>4 DEF Lighting
<1>7. CASE call.req.op = "files" /\ ToolAnswer(s, board.files) /\ UNCHANGED board
  <2>1. call \in ListingFiles /\ board.files \in SUBSET FileName
    BY <1>1, <1>7, ToolCallIs DEF BoardOK
  <2>2. QED
    BY <1>1, <1>2, <1>3, <1>7, <2>1 DEF ListingFiles
<1>8. ASSUME call.req.op \in {"upload", "delete", "download"}, ServeFiles(s) PROVE ToolsInv'
  <2>1. call \in Handling
    BY <1>1, <1>8, ToolCallIs
  <2>2. call.req.file \in FileName
    BY <2>1 DEF Handling, CallOf
  <2>3. \/ board' = board
        \/ \E fs \in SUBSET FileName : board' = [board EXCEPT !.files = fs]
    BY <1>1, <1>8, <2>2 DEF ServeFiles, BoardOK
  <2>4. BoardOK(board')
    BY <1>1, <2>3 DEF BoardOK
  <2>5. ToolAnswer(s, Nothing)
    BY <1>8 DEF ServeFiles
  <2>6. QED
    BY <1>2, <1>3, <2>1, <2>4, <2>5 DEF Handling
<1>9. CASE ServeOta(s)
  <2>1. call \in Flashing
    BY <1>1, <1>9, ToolCallIs DEF ServeOta
  <2>2. call.req.image \in Image
    BY <2>1 DEF Flashing, CallOf
  <2>3. BoardOK(board')
    BY <1>1, <1>9, <2>2 DEF ServeOta, BoardOK
  <2>4. ToolAnswer(s, Nothing) \/ toolCalls' = Failed(toolCalls, s)
    BY <1>9 DEF ServeOta
  <2>5. QED
    BY <1>2, <1>3, <2>1, <2>3, <2>4 DEF Flashing
<1>10. CASE ServeLights(s)
  BY <1>4, <1>5, <1>6, <1>10 DEF ServeLights
<1>11. CASE ServeFiles(s)
  BY <1>7, <1>8, <1>11 DEF ServeFiles
<1>12. QED
  BY <1>9, <1>10, <1>11

LEMMA ToolsInvStep == ToolsInv /\ [ToolsNext]_toolVars => ToolsInv'
<1> SUFFICES ASSUME ToolsInv, [ToolsNext]_toolVars PROVE ToolsInv'
  OBVIOUS
<1>1. CASE UNCHANGED toolVars
  BY <1>1 DEF toolVars, ToolsInv
<1>2. CASE ToolsUser /\ UNCHANGED board
  BY <1>2, ToolsUserKeeps, ToolsResumeKeeps DEF ToolsUser
<1>3. QED
  BY <1>1, <1>2, ToolsServerKeeps DEF ToolsNext

-----------------------------------------------------------------------------
(* Part 11: the theorems.  Each view by itself, then all of them in MCViews.   *)

LEMMA NodesInvAlways == NodesSpec => []NodesInv
BY NodesInvInit, NodesInvStep, PTL DEF NodesSpec

LEMMA ServoInvAlways == ServoSpec => []ServoInv
BY ServoInvInit, ServoInvStep, PTL DEF ServoSpec

LEMMA RegistersInvAlways == RegistersSpec => []RegistersInv
BY RegistersInvInit, RegistersInvStep, PTL DEF RegistersSpec

LEMMA SettingsInvAlways == SettingsSpec => []SettingsInv
BY SettingsInvInit, SettingsInvStep, PTL DEF SettingsSpec

LEMMA WifiInvAlways == WifiSpec => []WifiInv
BY WifiInvInit, WifiInvStep, PTL DEF WifiSpec

LEMMA ToolsInvAlways == ToolsSpec => []ToolsInv
BY ToolsInvInit, ToolsInvStep, PTL DEF ToolsSpec

LEMMA RobotInvAlways == RobotSpec => []RobotInv
BY RobotInvInit, RobotInvStep, PTL DEF RobotSpec

LEMMA GcodeInvAlways == GcodeSpec => []GcodeInv
BY GcodeInvInit, GcodeInvStep, PTL DEF GcodeSpec

LEMMA PwmInvAlways == PwmSpec => []PwmInv
BY PwmInvInit, PwmInvStep, PTL DEF PwmSpec

\* A robot's pose in the panel is the one the server told of that robot, for any
\* number of robots and calls, whatever was selected while an answer was under way.
THEOREM PosesAreTheirRobots == RobotSpec => []StateOfItsRobot
BY RobotInvAlways, RobotInvSays, PTL

\* The wizard offers to add a node only on a result of a probe of it, for any
\* number of hosts, nodes and probes under way.
THEOREM AddStandsOnProbe == NodesSpec => []ConfirmStandsOnResult
BY NodesInvAlways, NodesInvSays, PTL

\* No poll, event or late answer moves the slider under the hand that drags it,
\* for any number of servos, positions and moves in flight.
THEOREM NothingMovesTheHand == ServoSpec => HandHoldsSlider
BY ServoInvInit, ServoInvStep, PTL DEF ServoSpec, HandHoldsSlider, Holds

\* While the console is shown no command sent from it is lost or shown with another
\* one's result, for any number of commands under way, in whatever order their
\* answers come and whichever were left in flight by an earlier visit.
THEOREM NoCommandIsLost == GcodeSpec => ConsoleKeepsAll
<1>1. GcodeInv /\ [GcodeNext]_gcodeVars =>
        [console.open /\ console'.open =>
           /\ Logged(console', gcodeCalls') >= Logged(console, gcodeCalls)
           /\ DOMAIN gcodeCalls' \subseteq DOMAIN gcodeCalls =>
                Logged(console', gcodeCalls') = Logged(console, gcodeCalls)
           /\ \A i \in DOMAIN console'.history : LET entry == console'.history[i] IN
                entry.result # Nothing => entry.result.of = entry.cmd]_gcodeVars
  BY LogStep DEF Accounts, OwnResults
<1>2. QED
  BY <1>1, GcodeInvAlways, PTL DEF GcodeSpec, ConsoleKeepsAll

\* What a behaviour of the whole is to each of its views.
LEMMA EachViewStarts ==
  ViewsInit => /\ FilesInit /\ NodesInit /\ ServoInit /\ RegistersInit /\ SettingsInit
               /\ WifiInit /\ ToolsInit /\ RobotInit /\ GcodeInit /\ PwmInit
BY DEF ViewsInit

LEMMA EachViewSteps ==
  [ViewsNext]_viewVars =>
    /\ [FilesNext]_fileVars /\ [NodesNext]_nodeVars /\ [ServoNext]_servoVars
    /\ [RegistersNext]_registerVars /\ [SettingsNext]_settingsVars /\ [WifiNext]_wifiVars
    /\ [ToolsNext]_toolVars /\ [RobotNext]_robotVars /\ [GcodeNext]_gcodeVars
    /\ [PwmNext]_pwmVars
BY DEF ViewsNext, Only, viewVars

\* The views on one page: each is still one that runs by itself, since a step of
\* one leaves the others as they are.
LEMMA EachViewRuns ==
  ViewsSpec => /\ FilesSpec /\ NodesSpec /\ ServoSpec /\ RegistersSpec /\ SettingsSpec
               /\ WifiSpec /\ ToolsSpec /\ RobotSpec /\ GcodeSpec /\ PwmSpec
BY EachViewStarts, EachViewSteps, PTL
DEF ViewsSpec, FilesSpec, NodesSpec, ServoSpec, RegistersSpec, SettingsSpec, WifiSpec,
    ToolsSpec, RobotSpec, GcodeSpec, PwmSpec

\* Every view keeps its types: in particular a snapshot that is shown is one, a
\* form holds values its registers take, and timers stay within their bound.
THEOREM ViewsStayTyped == ViewsSpec => []ViewsTypeOK
<1>1. /\ FilesTypeOK /\ NodesTypeOK /\ ServoTypeOK /\ RegistersTypeOK /\ SettingsTypeOK
      /\ WifiTypeOK /\ ToolsTypeOK /\ RobotTypeOK /\ GcodeTypeOK /\ PwmTypeOK
      => ViewsTypeOK
  BY DEF ViewsTypeOK
<1>2. QED
  BY <1>1, EachViewRuns, FilesInvAlways, FilesInvSays, NodesInvAlways, NodesInvSays,
     ServoInvAlways, ServoInvSays, RegistersInvAlways, RegistersInvSays, SettingsInvAlways,
     SettingsInvSays, WifiInvAlways, WifiInvSays, ToolsInvAlways, ToolsInvSays,
     RobotInvAlways, RobotInvSays, GcodeInvAlways, GcodeInvSays, PwmInvAlways, PwmInvSays, PTL

\* No view is left with a spinner that nothing will end, for any number of calls
\* in flight and whichever of them fail.
THEOREM NoSpinnerIsStuck == ViewsSpec => []SpinnersEnd
<1>1. /\ FilesBusy /\ NodesBusy /\ ServoBusy /\ RegistersBusy /\ SettingsBusy
      /\ WifiBusy /\ ToolsBusy /\ RobotBusy /\ PwmBusy
      => SpinnersEnd
  BY DEF SpinnersEnd
<1>2. QED
  BY <1>1, EachViewRuns, FilesInvAlways, FilesInvSays, NodesInvAlways, NodesInvSays,
     ServoInvAlways, ServoInvSays, RegistersInvAlways, RegistersInvSays, SettingsInvAlways,
     SettingsInvSays, WifiInvAlways, WifiInvSays, ToolsInvAlways, ToolsInvSays,
     RobotInvAlways, RobotInvSays, PwmInvAlways, PwmInvSays, PTL
=============================================================================
