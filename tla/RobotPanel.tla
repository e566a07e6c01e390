----------------------------- MODULE RobotPanel ------------------------------
(* views/RobotControl.tsx and the part of stores/robot.ts it uses: choosing a
   robot, commanding it, and showing its state and the result of a command.  A
   pose stands for the positions of all joints. *)
EXTENDS ApiClient

CONSTANTS Robot,  \* robots the server has
          Pose,   \* poses
          Home    \* the home pose

ASSUME RobotAssumption == Home \in Pose /\ Nothing \notin Robot

VARIABLES robots,  \* server: the pose of every robot
          robot,   \* the store
          robotCalls

robotVars == <<robots, robot, robotCalls>>

RobotInit ==
  /\ robots = [r \in Robot |-> Home]
  /\ robot = [profiles |-> {}, selectedId |-> Nothing, states |-> [r \in {} |-> Nothing],
              loading |-> TRUE, error |-> FALSE, lastResult |-> Nothing]
  /\ robotCalls = Send(NoCalls, [op |-> "list"])

RobotAsk(req) == CanSend(robotCalls) /\ robotCalls' = Send(robotCalls, req)

-----------------------------------------------------------------------------
(* The list of robots and the choice of one. *)

\* Mounting the view, again.
fetchProfiles ==
  /\ RobotAsk([op |-> "list"])
  /\ robot' = [robot EXCEPT !.loading = TRUE, !.error = FALSE]

GotProfiles(s) ==
  /\ robot' = IF Ok(robotCalls, s)
              THEN [robot EXCEPT !.profiles = robotCalls[s].body, !.loading = FALSE]
              ELSE [robot EXCEPT !.error = TRUE, !.loading = FALSE]
  /\ robotCalls' = Settled(robotCalls, s)

\* The result shown is dropped, and the state read anew.
selectRobot(r) ==
  /\ r \in robot.profiles /\ RobotAsk([op |-> "state", id |-> r])
  /\ robot' = [robot EXCEPT !.selectedId = r, !.lastResult = Nothing]

\* The first line of the menu.
SelectNone ==
  /\ robot' = [robot EXCEPT !.selectedId = Nothing, !.lastResult = Nothing]
  /\ UNCHANGED robotCalls

\* The robot whose controls are shown: one chosen that is still in the list.
Selected == {r \in robot.profiles : r = robot.selectedId}

-----------------------------------------------------------------------------
(* Commands.  None waits for the one before, the button to stop neither. *)

Command(cmd, p) ==
  \E r \in Selected :
    RobotAsk([op |-> "command", id |-> r, cmd |-> cmd, pose |-> p]) /\ UNCHANGED robot

\* Every step of a joint's slider is a command.
moveJoints(p) == Command("joints", p)

moveCartesian(p) == Command("move", p)

homeRobot == Command("home", Home)

\* The pose a wheeled robot gets to is not known here.
drive == Command("drive", Nothing)

stopRobot == Command("stop", Nothing)

Refetched == {"joints", "move", "home"}

\* The answer to any command becomes the last result, whichever robot is chosen
\* by now.  After those that move joints the state follows.
CommandDone(s) ==
  LET req == robotCalls[s].req  calls == Settled(robotCalls, s) IN
  /\ robot' = IF Ok(robotCalls, s)
              THEN [robot EXCEPT !.lastResult = robotCalls[s].body, !.error = FALSE]
              ELSE [robot EXCEPT !.error = TRUE]
  /\ robotCalls' = IF Ok(robotCalls, s) /\ req.cmd \in Refetched
                   THEN Send(calls, [op |-> "state", id |-> req.id]) ELSE calls

fetchState == \E r \in Selected : RobotAsk([op |-> "state", id |-> r]) /\ UNCHANGED robot

\* Mutant: entered for the robot chosen by now.
EntryOfSelected(req, state) ==
  [r \in DOMAIN robot.states \cup {robot.selectedId} |->
     IF r = robot.selectedId THEN state ELSE robot.states[r]]

\* Entered for the robot it was asked for.
Entry(req, state) ==
  [r \in DOMAIN robot.states \cup {req.id} |-> IF r = req.id THEN state ELSE robot.states[r]]

\* A state that is there clears the error of a command that failed.
GotRobotState(s) ==
  /\ robot' = IF Ok(robotCalls, s)
              THEN [robot EXCEPT !.states = Entry(robotCalls[s].req, robotCalls[s].body),
                      !.error = FALSE]
              ELSE [robot EXCEPT !.error = TRUE]
  /\ robotCalls' = Settled(robotCalls, s)

-----------------------------------------------------------------------------
(* The server.  Other clients move robots too. *)

RobotAnswer(s, body) ==
  robotCalls' = Answered(robotCalls, s, body) \/ robotCalls' = Failed(robotCalls, s)

ServeRobot(s) ==
  LET req == robotCalls[s].req IN
  \/ req.op = "list" /\ RobotAnswer(s, Robot) /\ UNCHANGED robots
  \/ /\ req.op = "state" /\ UNCHANGED robots
     /\ RobotAnswer(s, [robot_id |-> req.id, pose |-> robots[req.id]])
  \/ /\ req.op = "command" /\ RobotAnswer(s, [robot_id |-> req.id])
     /\ robots' = IF req.pose = Nothing THEN robots ELSE [robots EXCEPT ![req.id] = req.pose]

RobotResume(s) ==
  \/ robotCalls[s].req.op = "list" /\ GotProfiles(s)
  \/ robotCalls[s].req.op = "state" /\ GotRobotState(s)
  \/ robotCalls[s].req.op = "command" /\ CommandDone(s)

RobotUser ==
  \/ fetchProfiles \/ SelectNone \/ homeRobot \/ drive \/ stopRobot \/ fetchState
  \/ \E r \in Robot : selectRobot(r)
  \/ \E p \in Pose : moveJoints(p) \/ moveCartesian(p)

RobotNext ==
  \/ (RobotUser \/ \E s \in Replied(robotCalls) : RobotResume(s)) /\ UNCHANGED robots
  \/ \E s \in Sent(robotCalls) : ServeRobot(s) /\ UNCHANGED robot

RobotSpec == RobotInit /\ [][RobotNext]_robotVars

-----------------------------------------------------------------------------
RobotTypeOK ==
  /\ robots \in [Robot -> Pose]
  /\ robot.profiles \subseteq Robot /\ robot.selectedId \in Robot \cup {Nothing}
  /\ DOMAIN robot.states \subseteq Robot
  /\ robot.lastResult = Nothing \/ robot.lastResult.robot_id \in Robot
  /\ {robot.loading, robot.error} \subseteq BOOLEAN
  /\ DOMAIN robotCalls \subseteq Slots

\* The panel loads only while the list of robots is being read.
RobotBusy == robot.loading => InFlight(robotCalls, {"list"})

\* The state shown for a robot was read from that robot, although it is entered
\* after an await during which another robot may have been chosen.
StateOfItsRobot == \A r \in DOMAIN robot.states : robot.states[r].robot_id = r
=============================================================================
