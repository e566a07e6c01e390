---------------------------- MODULE ControlServer ----------------------------
(***************************************************************************)
(* The control server's links to its nodes: the node registry, the         *)
(* transports and their locks, the proxy, robot moves and the emergency    *)
(* stop (arbor_core/bridges, api/v1/node_routes.py, emergency_routes.py,   *)
(* robotics/engine.py).                                                    *)
(*                                                                         *)
(* The handlers are tasks of one asyncio loop: what one does between two   *)
(* awaits is one step, and at every await any other task may run.          *)
(***************************************************************************)
EXTENDS Naturals, Sequences, FiniteSets, SequencesExt

CONSTANTS
  Node,       (* the nodes a client may register                           *)
  Serial,     (* those on a serial port; the others speak HTTP             *)
  Task,       (* the requests the server can have in hand at once          *)
  Target,     (* the joint positions clients ask for                       *)
  MaxLinks,   (* bound on how often one node is registered                 *)
  MaxOwed,    (* bound on the answers that arrive too late on one line     *)
  Request,    (* the requests clients make, a subset of RequestKind        *)
  Faults      (* what may go wrong, a subset of FaultKind                  *)

RequestKind == {"move", "stop", "estop", "add", "remove"}

FaultKind ==
  { "refuse",       (* a node cannot be connected, or answers with an      *)
                    (* error status, or its port fails                     *)
    "timeout",      (* an answer, or the request, is late or lost          *)
    "garbage",      (* a line that parses as JSON but is no object         *)
    "unsupported" } (* create_transport has no transport for the node      *)

ASSUME ConstantsAssumption ==
  /\ Serial \subseteq Node /\ IsFiniteSet(Node)
  /\ MaxLinks \in Nat \ {0} /\ MaxOwed \in Nat
  /\ Request \subseteq RequestKind /\ Faults \subseteq FaultKind

(* A registration makes a transport of its own: the k-th of a node.        *)
Link == Node \X (1..MaxLinks)
NoLink == << >>
Unknown == "unknown"
ASSUME TargetAssumption == Unknown \notin Target

VARIABLES
  config,      (* config.nodes                                             *)
  nodes,       (* the keys of NodeBridge._nodes, in the order of the dict  *)
  made,        (* how many transports each node has had                    *)
  connected,   (* the transports whose is_connected is true                *)
  closing,     (* the serial ports being closed in the executor            *)
  queue,       (* each transport's lock: its holder, then who waits for it *)
  owed,        (* the lines a serial node has still to send for requests   *)
               (* that were given up                                       *)
  joints,      (* KinematicsEngine._joint_states, one joint on each node   *)
  op, at,      (* what each task is, and where                             *)
  todo, link,  (* the nodes it has still to go to, the transport it uses   *)
  target,      (* the position it asks for                                 *)
  outcome,     (* how it has ended                                         *)
  position,    (* history: the last move each node has carried out         *)
  unsure,      (* history: the nodes of which that is not certain          *)
  steady,      (* history: nodes there and connected since an e-stop began *)
  reached      (* history: nodes whose transport an e-stop was handed to   *)

registry == << config, nodes, made, connected, closing >>
taskVars == << at, todo, link, outcome >>
historyVars == << position, unsure, steady, reached >>
vars == << registry, queue, owed, joints, op, taskVars, target, historyVars >>

Registered(n) == \E i \in 1..Len(nodes) : nodes[i] = n
Transport(n) == << n, made[n] >>

(* What send and forward_to_all ask before they use a node.                *)
Usable(n) == Registered(n) /\ Transport(n) \in connected

(* The nodes of the configuration have been connected, or not, before the  *)
(* first request is served; nothing is asked of them yet.                  *)
Init ==
  /\ nodes \in SetToSeqs(Node)
  /\ config = Node /\ made = [n \in Node |-> 1]
  /\ connected \in SUBSET {<< n, 1 >> : n \in Node}
  /\ closing = {}
  /\ queue = [l \in Link |-> << >>]
  /\ owed = [n \in Node |-> 0]
  /\ joints = [n \in Node |-> Unknown]
  /\ op = [t \in Task |-> "none"] /\ at = [t \in Task |-> "idle"]
  /\ todo = [t \in Task |-> << >>] /\ link = [t \in Task |-> NoLink]
  /\ target = [t \in Task |-> Unknown] /\ outcome = [t \in Task |-> "none"]
  /\ position = [n \in Node |-> Unknown]
  /\ unsure = {}
  /\ steady = [t \in Task |-> {}] /\ reached = [t \in Task |-> {}]

-----------------------------------------------------------------------------
(* Sweeps: move_joints, stop and forward_to_all go from node to node, each *)
(* under the lock of its transport, and past those that are not usable.    *)

(* A request is on its way once it has the lock: a serial port has to take *)
(* it first, and nothing bounds how long that lasts.                       *)
InFlight == {"writing", "sent", "handled"}

Begin(l) == IF l[1] \in Serial THEN "writing" ELSE "sent"

(* What a node in doubt has carried out is not followed any further.       *)
Doubt(S) ==
  /\ unsure' = unsure \cup S
  /\ position' = [n \in Node |-> IF n \in S THEN Unknown ELSE position[n]]

(* The lock is fair: who finds it taken is served in the order of arrival. *)
EnterUnlocked(q, l) == Begin(l)

Enter(q, l) == IF q[l] = << >> THEN Begin(l) ELSE "queued"

(* Task t, leaving the locks as q, goes on with the nodes s.               *)
Proceed(t, kind, s, q) ==
  LET i == SelectInSeq(s, Usable)
  IN IF i = 0
     THEN /\ at' = [at EXCEPT ![t] = "done"]
          /\ todo' = [todo EXCEPT ![t] = << >>]
          /\ link' = [link EXCEPT ![t] = NoLink]
          /\ outcome' = [outcome EXCEPT ![t] = "ok"]
          /\ queue' = q
          /\ UNCHANGED reached
     ELSE LET l == Transport(s[i])
          IN /\ at' = [at EXCEPT ![t] = Enter(q, l)]
             /\ todo' = [todo EXCEPT ![t] = SubSeq(s, i + 1, Len(s))]
             /\ link' = [link EXCEPT ![t] = l]
             /\ queue' = [q EXCEPT ![l] = Append(@, t)]
             /\ reached' = [reached EXCEPT ![t] =
                    IF kind = "estop" /\ Enter(q, l) \in InFlight THEN @ \cup {s[i]} ELSE @]
             /\ UNCHANGED outcome

(* A disconnected serial transport has no port any more.                   *)
Closed(t) == link[t][1] \in Serial /\ link[t] \notin connected

Release(t) == [queue EXCEPT ![link[t]] = Tail(@)]

(* POST /robots/{id}/joints and /home: move_joints goes through the joints.  *)
StartMoveEager(t, s, v) ==
  /\ "move" \in Request
  /\ at[t] = "idle" /\ s # << >>
  /\ op' = [op EXCEPT ![t] = "move"] /\ target' = [target EXCEPT ![t] = v]
  /\ joints' = [n \in Node |-> IF \E i \in 1..Len(s) : s[i] = n THEN v ELSE joints[n]]
  /\ Proceed(t, "move", s, queue)
  /\ UNCHANGED << registry, owed, position, unsure, steady >>

StartMove(t, s, v) ==
  /\ "move" \in Request
  /\ at[t] = "idle" /\ s # << >>
  /\ op' = [op EXCEPT ![t] = "move"] /\ target' = [target EXCEPT ![t] = v]
  /\ Proceed(t, "move", s, queue)
  /\ UNCHANGED << registry, owed, position, joints, unsure, steady >>

(* POST /robots/{id}/stop: stop goes through the joints, and takes nothing *)
(* down.                                                                   *)
StartStop(t, s) ==
  /\ "stop" \in Request
  /\ at[t] = "idle" /\ s # << >>
  /\ op' = [op EXCEPT ![t] = "stop"]
  /\ Proceed(t, "stop", s, queue)
  /\ UNCHANGED << registry, owed, joints, target, position, unsure, steady >>

(* The e-stop goes to a copy of the list of nodes.                         *)
StartEstop(t) ==
  /\ "estop" \in Request
  /\ at[t] = "idle"
  /\ op' = [op EXCEPT ![t] = "estop"]
  /\ Proceed(t, "estop", nodes, queue)
  /\ steady' = [steady EXCEPT ![t] = {n \in Node : Usable(n)}]
  /\ UNCHANGED << registry, owed, joints, target, position, unsure >>

(* Whoever waited for the lock sends as soon as it has it: it does not ask *)
(* again whether the node is still there.                                  *)
Send(t) ==
  /\ at[t] = "queued" /\ Head(queue[link[t]]) = t /\ ~Closed(t)
  /\ at' = [at EXCEPT ![t] = Begin(link[t])]
  /\ reached' = [reached EXCEPT ![t] = IF op[t] = "estop" THEN @ \cup {link[t][1]} ELSE @]
  /\ UNCHANGED << registry, queue, owed, joints, op, todo, link, target, outcome,
                  position, unsure, steady >>

(* The executor has written the request to the port, if it ever does.      *)
Written(t) ==
  /\ at[t] = "writing" /\ ~Closed(t)
  /\ at' = [at EXCEPT ![t] = "sent"]
  /\ UNCHANGED << registry, queue, owed, joints, op, todo, link, target, outcome, historyVars >>

(* The node carries the request out.                                       *)
Handle(t) ==
  /\ at[t] = "sent" /\ at' = [at EXCEPT ![t] = "handled"]
  /\ position' = IF op[t] = "move" /\ link[t][1] \notin unsure
                 THEN [position EXCEPT ![link[t][1]] = target[t]] ELSE position
  /\ UNCHANGED << registry, queue, owed, joints, op, todo, link, target, outcome, unsure, steady, reached >>

(* Its answer comes.                                                       *)
Answer(t) ==
  /\ at[t] = "handled" /\ ~Closed(t)
  /\ link[t][1] \in Serial => owed[link[t][1]] = 0
  /\ joints' = IF op[t] = "move" THEN [joints EXCEPT ![link[t][1]] = target[t]] ELSE joints
  /\ Proceed(t, op[t], todo[t], Release(t))
  /\ UNCHANGED << registry, owed, op, target, position, unsure, steady >>

(* On a serial line the next line is taken for the answer, whatever id and *)
(* status it carries.  The own answer is then the one that is owed.        *)
AnswerUnchecked(t) ==
  /\ at[t] \in {"sent", "handled"} /\ ~Closed(t)
  /\ link[t][1] \in Serial
  /\ owed[link[t][1]] > 0 \/ (at[t] = "sent" /\ "refuse" \in Faults)
  /\ joints' = IF op[t] = "move" THEN [joints EXCEPT ![link[t][1]] = target[t]] ELSE joints
  /\ Doubt({link[t][1]})
  /\ Proceed(t, op[t], todo[t], Release(t))
  /\ UNCHANGED << registry, owed, op, target, steady >>

(* When a request ends without an answer.                                  *)
Breaks(t) ==
  \/ at[t] \in {"writing", "sent"} /\ Faults \cap {"refuse", "timeout"} # {}
  \/ at[t] = "handled" /\ "timeout" \in Faults
  \/ at[t] \in InFlight /\ Closed(t)
  \/ at[t] = "queued" /\ Head(queue[link[t]]) = t /\ Closed(t)

(* An error, or no answer in time: both sweeps note it and go on.  What    *)
(* the node has received it may still answer.                              *)
FailStops(t) ==
  /\ Breaks(t)
  /\ Doubt({link[t][1]})
  /\ UNCHANGED owed
  /\ Proceed(t, op[t], << >>, Release(t))
  /\ UNCHANGED << registry, joints, op, target, steady >>

FailKeepsLock(t) ==
  /\ Breaks(t)
  /\ Doubt({link[t][1]})
  /\ UNCHANGED owed
  /\ Proceed(t, op[t], todo[t], queue)
  /\ UNCHANGED << registry, joints, op, target, steady >>

Fail(t) ==
  /\ Breaks(t)
  /\ Doubt({link[t][1]})
  /\ \/ UNCHANGED owed
     \/ /\ "timeout" \in Faults /\ link[t][1] \in Serial /\ owed[link[t][1]] < MaxOwed
        /\ owed' = [owed EXCEPT ![link[t][1]] = @ + 1]
  /\ Proceed(t, op[t], todo[t], Release(t))
  /\ UNCHANGED << registry, joints, op, target, steady >>

(* A line that is no object raises what only move_joints and stop catch;   *)
(* the e-stop ends there, with a server error.                             *)
Garbage(t) ==
  /\ "garbage" \in Faults
  /\ at[t] \in {"sent", "handled"} /\ link[t][1] \in Serial /\ ~Closed(t)
  /\ Doubt({link[t][1]})
  /\ IF op[t] = "estop"
     THEN /\ at' = [at EXCEPT ![t] = "done"] /\ outcome' = [outcome EXCEPT ![t] = "error"]
          /\ todo' = [todo EXCEPT ![t] = << >>] /\ link' = [link EXCEPT ![t] = NoLink]
          /\ queue' = Release(t) /\ UNCHANGED reached
     ELSE Proceed(t, op[t], todo[t], Release(t))
  /\ UNCHANGED << registry, owed, joints, op, target, steady >>

(* An owed line comes after all, to a reader that was given up, or not     *)
(* at all.                                                                 *)
Lost(n) ==
  /\ owed[n] > 0 /\ owed' = [owed EXCEPT ![n] = @ - 1]
  /\ UNCHANGED << registry, queue, joints, op, taskVars, target, historyVars >>

-----------------------------------------------------------------------------
(* The node registry                                                       *)

(* unregister_node: a serial port takes an executor, and time, to close.   *)
Disconnect(n) ==
  LET l == Transport(n)
  IN /\ IF Usable(n) /\ n \in Serial
        THEN closing' = closing \cup {l} /\ UNCHANGED connected
        ELSE connected' = connected \ (IF Registered(n) THEN {l} ELSE {}) /\ UNCHANGED closing
     /\ Doubt(IF queue[l] = << >> THEN {} ELSE {n})

(* POST /nodes: the node is in the configuration and in the bridge before  *)
(* the first await, which is the connection.  What the bridge holds the    *)
(* configuration lists, so it does not find the node registered already.   *)
AddNode(t, n) ==
  /\ "add" \in Request
  /\ at[t] = "idle" /\ n \notin config
  /\ op' = [op EXCEPT ![t] = "add"]
  /\ config' = config \cup {n}
  /\ \/ /\ made[n] < MaxLinks
        /\ nodes' = Append(nodes, n)
        /\ made' = [made EXCEPT ![n] = @ + 1]
        /\ at' = [at EXCEPT ![t] = "connecting"]
        /\ link' = [link EXCEPT ![t] = << n, made[n] + 1 >>]
        /\ UNCHANGED outcome
     \/ /\ "unsupported" \in Faults
        /\ at' = [at EXCEPT ![t] = "done"] /\ outcome' = [outcome EXCEPT ![t] = "ok"]
        /\ UNCHANGED << nodes, made, link >>
  /\ UNCHANGED << connected, closing, queue, owed, joints, todo, target, historyVars >>

ConnectLate(t) ==
  /\ at[t] = "connecting"
  /\ connected' = connected \cup {link[t]}
  /\ nodes' = IF Registered(link[t][1]) THEN nodes ELSE Append(nodes, link[t][1])
  /\ at' = [at EXCEPT ![t] = "done"] /\ outcome' = [outcome EXCEPT ![t] = "ok"]
  /\ link' = [link EXCEPT ![t] = NoLink]
  /\ UNCHANGED << config, made, closing, queue, owed, joints, op, todo, target, historyVars >>

(* The connection is made, even if the node was removed meanwhile.         *)
Connect(t) ==
  /\ at[t] = "connecting"
  /\ connected' = connected \cup {link[t]}
  /\ at' = [at EXCEPT ![t] = "done"] /\ outcome' = [outcome EXCEPT ![t] = "ok"]
  /\ link' = [link EXCEPT ![t] = NoLink]
  /\ UNCHANGED << config, nodes, made, closing, queue, owed, joints, op, todo, target, historyVars >>

ConnectFails(t) ==
  /\ "refuse" \in Faults
  /\ at[t] = "connecting"
  /\ at' = [at EXCEPT ![t] = "done"] /\ outcome' = [outcome EXCEPT ![t] = "error"]
  /\ link' = [link EXCEPT ![t] = NoLink]
  /\ UNCHANGED << registry, queue, owed, joints, op, todo, target, historyVars >>

RemoveFromConfig(n) ==
  /\ "remove" \in Request
  /\ n \in config
  /\ config' = config \ {n}
  /\ Disconnect(n)
  /\ steady' = [e \in Task |-> steady[e] \ {n}]
  /\ UNCHANGED << nodes, made, queue, owed, joints, op, taskVars, target, reached >>

(* DELETE /nodes/{id}: the node leaves both, and its transport is          *)
(* disconnected without regard to its lock, all before the first await.    *)
RemoveNode(n) ==
  /\ "remove" \in Request
  /\ n \in config
  /\ config' = config \ {n}
  /\ nodes' = RemoveFirst(nodes, n)
  /\ Disconnect(n)
  /\ steady' = [e \in Task |-> steady[e] \ {n}]
  /\ UNCHANGED << made, queue, owed, joints, op, taskVars, target, reached >>

(* The executor has closed the port; is_connected was true until then.     *)
PortClosed(l) ==
  /\ l \in closing
  /\ closing' = closing \ {l} /\ connected' = connected \ {l}
  /\ UNCHANGED << config, nodes, made, queue, owed, joints, op, taskVars, target, historyVars >>

(* The client has its answer.                                              *)
Reply(t) ==
  /\ at[t] = "done" /\ at' = [at EXCEPT ![t] = "idle"]
  /\ op' = [op EXCEPT ![t] = "none"] /\ target' = [target EXCEPT ![t] = Unknown]
  /\ outcome' = [outcome EXCEPT ![t] = "none"]
  /\ steady' = [steady EXCEPT ![t] = {}] /\ reached' = [reached EXCEPT ![t] = {}]
  /\ UNCHANGED << registry, queue, owed, joints, todo, link, position, unsure >>

-----------------------------------------------------------------------------
Arrive(t) ==
  \/ \E s \in SetToAllKPermutations(Node), v \in Target : StartMove(t, s, v)
  \/ \E s \in SetToAllKPermutations(Node) : StartStop(t, s)
  \/ StartEstop(t)
  \/ \E n \in Node : AddNode(t, n)

Run(t) ==
  \/ Send(t) \/ Written(t) \/ Handle(t) \/ Answer(t) \/ AnswerUnchecked(t) \/ Fail(t) \/ Garbage(t)
  \/ Connect(t) \/ ConnectFails(t) \/ Reply(t)

Next ==
  \/ \E t \in Task : Arrive(t) \/ Run(t)
  \/ \E n \in Node : RemoveNode(n)
  \/ \E l \in Link : PortClosed(l)
  \/ \E n \in Serial : Lost(n)

(* A serial port is opened and written to in the executor, for as long as  *)
(* the operating system takes.                                             *)
AtPort(t) ==
  \/ at[t] = "writing"
  \/ at[t] = "connecting" /\ link[t][1] \in Serial

(* Everything else goes on: the event loop, and the timeouts of the        *)
(* sockets and of the reading of a line, see to it.                        *)
Fairness == \A t \in Task : WF_vars(~AtPort(t) /\ Run(t))

Spec == Init /\ [][Next]_vars /\ Fairness

-----------------------------------------------------------------------------
Place == InFlight \cup {"idle", "connecting", "queued", "done"}

(* The type of every variable; a node is registered once, and a lock has   *)
(* each task once.                                                         *)
TypeOK ==
  /\ config \subseteq Node /\ nodes \in Seq(Node) /\ IsInjective(nodes)
  /\ made \in [Node -> 1..MaxLinks] /\ closing \subseteq connected /\ connected \subseteq Link
  /\ queue \in [Link -> Seq(Task)] /\ \A l \in Link : IsInjective(queue[l])
  /\ owed \in [Node -> 0..MaxOwed]
  /\ joints \in [Node -> Target \cup {Unknown}]
  /\ op \in [Task -> RequestKind \cup {"none"}]
  /\ at \in [Task -> Place]
  /\ todo \in [Task -> Seq(Node)] /\ link \in [Task -> Link \cup {NoLink}]
  /\ target \in [Task -> Target \cup {Unknown}]
  /\ outcome \in [Task -> {"none", "ok", "error"}]
  /\ position \in [Node -> Target \cup {Unknown}]
  /\ unsure \subseteq Node
  /\ steady \in [Task -> SUBSET Node] /\ reached \in [Task -> SUBSET Node]

(* The bridge has no transport for a node the configuration does not list: *)
(* a node that was deleted cannot be commanded through a link left behind  *)
(* by an add that was still connecting.                                    *)
RegistryAgrees == \A n \in Node : Registered(n) => n \in config

(* One request at a time is on a transport, and it is the one that holds   *)
(* the lock: none is sent between a command and its answer.                *)
LinkExclusive ==
  \A t \in Task : at[t] \in InFlight => queue[link[t]] # << >> /\ Head(queue[link[t]]) = t

(* An e-stop that does not end in a server error was handed, in its turn,  *)
(* to the transport of every node that was registered and connected from   *)
(* its beginning to its end, whatever the other nodes answered, and        *)
(* whoever came and went meanwhile.                                        *)
EstopReachesAll ==
  \A t \in Task :
    at[t] = "done" /\ op[t] = "estop" /\ outcome[t] = "ok" => steady[t] \subseteq reached[t]

(* Whenever no request is on its way to a node, the joint position the     *)
(* engine reports is the last move the node carried out, though moves      *)
(* overlap; unless a move failed there or something bypassed the engine.   *)
JointsCurrent ==
  \A n \in Node \ unsure :
    (\A t \in Task : ~(at[t] \in InFlight /\ link[t][1] = n)) => joints[n] = position[n]

(* It waits for a serial port, or for the lock of one.                     *)
Behind(t) ==
  \/ AtPort(t)
  \/ /\ at[t] = "queued"
     /\ LET u == Head(queue[link[t]]) IN AtPort(u) /\ link[u] = link[t]

(* Every request is answered, but for those that wait for ever, from some  *)
(* time on, for one serial port that takes no bytes: no lock is lost, and  *)
(* a stalled port holds up nobody who does not come to it.                 *)
RequestsEnd == \A t \in Task : []<>(at[t] = "idle") \/ <>[]Behind(t)

(* "the highest-priority command ... broadcasts to every connected node    *)
(* simultaneously": no other command goes to a node that an e-stop has     *)
(* still to stop.                                                          *)
EstopHasPriority ==
  [][\A t, e \in Task :
       at[t] \notin InFlight /\ at'[t] \in InFlight /\ op'[t] = "move"
       /\ op[e] = "estop" /\ at[e] # "done"
       => LET n == link'[t][1]
          IN n \notin steady[e] \/ n \in reached[e]]_vars

=============================================================================
