----------------------------- MODULE NodeWizard -----------------------------
(* The nodes page of the web UI: the list of registered nodes and the wizard of
   views/Nodes.tsx over the store of stores/nodes.ts and the probe of
   api/client.ts.  A host stands for its address and port.  The page stays
   mounted; the wizard is mounted anew every time its step leaves "idle", and
   what an await of an older wizard ends with still reaches the page. *)
EXTENDS ApiClient, FiniteSets

CONSTANTS Host,    \* the addresses a user types
          NodeId,  \* node ids: which of them a field or a board has is left open
          MaxNodes \* bound: nodes registered at the same time

ASSUME HostAssumption == Nothing \notin Host \cup NodeId /\ MaxNodes \in Nat

VARIABLES registry,  \* server: the ids of the registered nodes
          nodes,     \* the store
          wizard,    \* the state of Nodes and of the AddNodeWizard it shows
          nodeCalls

nodeVars == <<registry, nodes, wizard, nodeCalls>>

\* What probing returns: the steps after the health check may each fail, of
\* which the system info is kept.
ProbeResult == [reachable : BOOLEAN, info : BOOLEAN] \ {[reachable |-> FALSE, info |-> TRUE]}

Unreachable == [reachable |-> FALSE, info |-> FALSE]

NewWizard(step) == [step |-> step, transport |-> "network", host |-> Nothing,
                    nodeId |-> Nothing, adding |-> Nothing]

NodesInit ==
  /\ registry = {}
  /\ nodes = [list |-> {}, loading |-> TRUE, probing |-> FALSE, probeResult |-> Nothing]
  /\ wizard = NewWizard("idle")
  /\ nodeCalls = Send(NoCalls, [op |-> "list", then |-> "show"])

-----------------------------------------------------------------------------
(* The wizard. *)

\* The effect that fills in the node id when the result or the address changes:
\* from the board in the result, else from the address typed by now.
AutoId(w, result, id) ==
  IF result = Nothing \/ w.step = "idle" THEN w
  ELSE IF result.info THEN [w EXCEPT !.nodeId = id] ELSE w

clearProbe == nodes' = [nodes EXCEPT !.probeResult = Nothing]

AddNode ==
  /\ wizard.step = "idle" /\ clearProbe
  /\ wizard' = NewWizard("connect") /\ UNCHANGED nodeCalls

Cancel ==
  /\ wizard.step # "idle" /\ clearProbe
  /\ wizard' = NewWizard("idle") /\ UNCHANGED nodeCalls

\* Step 1.  The fields stay enabled while a probe runs.
setHost(h) ==
  /\ wizard.step = "connect" /\ wizard.transport = "network" /\ wizard.host # h
  /\ \E id \in NodeId :
       wizard' = AutoId([wizard EXCEPT !.host = h], nodes.probeResult, id)
  /\ UNCHANGED <<nodes, nodeCalls>>

setTransport(t) ==
  /\ wizard.step = "connect" /\ wizard.transport # t
  /\ wizard' = [wizard EXCEPT !.transport = t] /\ UNCHANGED <<nodes, nodeCalls>>

\* Detect also stays enabled, so probes overlap.
handleDetect ==
  /\ wizard.step = "connect"
  /\ \/ /\ wizard.transport = "network" /\ wizard.host # Nothing
        /\ CanSend(nodeCalls)
        /\ nodes' = [nodes EXCEPT !.probing = TRUE, !.probeResult = Nothing]
        /\ nodeCalls' = Send(nodeCalls, [op |-> "direct"])
        /\ UNCHANGED wizard
     \/ /\ wizard.transport = "serial"
        /\ wizard' = [wizard EXCEPT !.step = "detect"]
        /\ UNCHANGED <<nodes, nodeCalls>>

\* Mutant: only the wizard that waits for the result moves to it.
ToDetectIfWaiting(w) == IF w.step = "connect" THEN [w EXCEPT !.step = "detect"] ELSE w

\* setStep("detect") after the await: from any step, also from "idle", where it
\* mounts a new wizard.
ToDetect(w) ==
  IF w.step = "idle" THEN NewWizard("detect") ELSE [w EXCEPT !.step = "detect"]

ShowResult(result, calls) ==
  /\ nodes' = [nodes EXCEPT !.probing = FALSE, !.probeResult = result]
  /\ \E id \in NodeId : wizard' = AutoId(ToDetect(wizard), result, id)
  /\ nodeCalls' = calls

\* Not reachable from the browser: the server probes.  If that fails too, the
\* first result stands.
ProbeReplied(s) ==
  LET c == nodeCalls[s]  calls == Settled(nodeCalls, s) IN
  IF Ok(nodeCalls, s) /\ (c.body.reachable \/ c.req.op = "server")
  THEN ShowResult(c.body, calls)
  ELSE IF c.req.op = "direct"
  THEN /\ nodeCalls' = Send(calls, [op |-> "server"])
       /\ UNCHANGED <<nodes, wizard>>
  ELSE ShowResult(Unreachable, calls)

\* Step 2.
Proceed ==
  /\ wizard.step = "detect"
  /\ IF nodes.probeResult = Nothing THEN wizard.transport = "serial"
     ELSE nodes.probeResult.reachable
  /\ wizard' = [wizard EXCEPT !.step = "confirm"] /\ UNCHANGED <<nodes, nodeCalls>>

Back ==
  /\ wizard.step \in {"detect", "confirm"}
  /\ wizard' = [wizard EXCEPT !.step = IF @ = "detect" THEN "connect" ELSE "detect"]
  /\ UNCHANGED <<nodes, nodeCalls>>

\* Step 3.
setNodeId(id) ==
  /\ wizard.step = "confirm" /\ wizard.nodeId # id
  /\ wizard' = [wizard EXCEPT !.nodeId = id] /\ UNCHANGED <<nodes, nodeCalls>>

handleAdd ==
  /\ wizard.step = "confirm" /\ wizard.nodeId # Nothing /\ wizard.adding = Nothing
  /\ CanSend(nodeCalls)
  /\ nodeCalls' = Send(nodeCalls,
                       [op |-> "add", id |-> wizard.nodeId, transport |-> wizard.transport])
  /\ wizard' = [wizard EXCEPT !.adding = FreeSlot(nodeCalls)] /\ UNCHANGED nodes

\* Mutant: the button stays disabled after a failure.
NotAddingIfAdded(w, s) == w

\* adding names the call it waits for: a wizard opened since is not concerned.
NotAdding(w, s) == IF w.adding = s THEN [w EXCEPT !.adding = Nothing] ELSE w

\* The node is added: the list is fetched again, still inside addNode.
Added(s) ==
  LET calls == Settled(nodeCalls, s) IN
  /\ nodeCalls[s].req.op = "add"
  /\ IF Ok(nodeCalls, s)
     THEN /\ nodeCalls' = Send(calls, [op |-> "list", then |-> "added"])
          /\ wizard' = [wizard EXCEPT !.adding = IF @ = s THEN FreeSlot(calls) ELSE @]
     ELSE nodeCalls' = calls /\ wizard' = NotAdding(wizard, s)
  /\ UNCHANGED nodes

\* onDone closes whatever wizard is open by now.  A refresh that failed counts
\* as an add that failed.
Refreshed(s) ==
  LET calls == Settled(nodeCalls, s) IN
  /\ nodeCalls[s].req.op = "list" /\ nodeCalls[s].req.then = "added"
  /\ IF Ok(nodeCalls, s)
     THEN /\ nodes' = [nodes EXCEPT !.list = nodeCalls[s].body, !.loading = TRUE,
                                    !.probeResult = Nothing]
          /\ nodeCalls' = Send(calls, [op |-> "list", then |-> "show"])
          /\ wizard' = NewWizard("idle")
     ELSE nodeCalls' = calls /\ wizard' = NotAdding(wizard, s) /\ UNCHANGED nodes

-----------------------------------------------------------------------------
(* The list. *)

ShowList(s) ==
  /\ nodeCalls[s].req.op = "list" /\ nodeCalls[s].req.then = "show"
  /\ nodes' = [nodes EXCEPT !.loading = FALSE,
                 !.list = IF Ok(nodeCalls, s) THEN nodeCalls[s].body ELSE @]
  /\ nodeCalls' = Settled(nodeCalls, s) /\ UNCHANGED wizard

removeNode(id) ==
  /\ CanSend(nodeCalls) /\ ~nodes.loading /\ id \in nodes.list
  /\ nodeCalls' = Send(nodeCalls, [op |-> "remove", id |-> id])
  /\ UNCHANGED <<nodes, wizard>>

\* The list as it is by now loses the node: one fetched before the removal and
\* answered after it brings the node back.
Removed(s) ==
  /\ nodeCalls[s].req.op = "remove"
  /\ nodes' = [nodes EXCEPT !.list = IF Ok(nodeCalls, s)
                                     THEN @ \ {nodeCalls[s].req.id} ELSE @]
  /\ nodeCalls' = Settled(nodeCalls, s) /\ UNCHANGED wizard

-----------------------------------------------------------------------------
(* The node API and the nodes themselves. *)

Reply(s, body) ==
  nodeCalls' = Answered(nodeCalls, s, body) \/ nodeCalls' = Failed(nodeCalls, s)

\* An id is registered once; the answer of a change may be lost.
NodeServer ==
  \E s \in Sent(nodeCalls) : LET req == nodeCalls[s].req IN
    /\ UNCHANGED <<nodes, wizard>>
    /\ \/ /\ req.op = "list" /\ Reply(s, registry) /\ UNCHANGED registry
       \/ /\ req.op \in {"direct", "server"} /\ UNCHANGED registry
          /\ \E r \in ProbeResult : nodeCalls' = Answered(nodeCalls, s, r)
       \/ /\ req.op = "server" /\ UNCHANGED registry
          /\ nodeCalls' = Failed(nodeCalls, s)
       \/ /\ req.op = "add" /\ req.id \notin registry
          /\ Cardinality(registry) < MaxNodes
          /\ registry' = registry \cup {req.id}
          /\ Reply(s, Nothing)
       \/ /\ req.op = "remove" /\ registry' = registry \ {req.id}
          /\ Reply(s, Nothing)
       \/ /\ req.op \in {"add", "remove"} /\ UNCHANGED registry
          /\ nodeCalls' = Failed(nodeCalls, s)

NodesBrowser ==
  \/ AddNode \/ Cancel \/ handleDetect \/ Proceed \/ Back \/ handleAdd
  \/ \E h \in Host : setHost(h)
  \/ \E t \in {"network", "serial"} : setTransport(t)
  \/ \E id \in NodeId \cup {Nothing} : setNodeId(id)
  \/ \E id \in nodes.list : removeNode(id)
  \/ \E s \in Replied(nodeCalls) :
       \/ nodeCalls[s].req.op \in {"direct", "server"} /\ ProbeReplied(s)
       \/ Added(s) \/ Refreshed(s) \/ ShowList(s) \/ Removed(s)

NodesNext == (NodesBrowser /\ UNCHANGED registry) \/ NodeServer

NodesSpec == NodesInit /\ [][NodesNext]_nodeVars

-----------------------------------------------------------------------------
NodesTypeOK ==
  /\ registry \subseteq NodeId /\ nodes.list \subseteq NodeId
  /\ {nodes.loading, nodes.probing} \subseteq BOOLEAN
  /\ nodes.probeResult \in ProbeResult \cup {Nothing}
  /\ wizard.step \in {"idle", "connect", "detect", "confirm"}
  /\ wizard.host \in Host \cup {Nothing} /\ wizard.nodeId \in NodeId \cup {Nothing}
  /\ wizard.adding \in {Nothing} \cup DOMAIN nodeCalls
  /\ DOMAIN nodeCalls \subseteq Slots

\* The third step of the wizard stands, for a network node, on a detection that
\* reached something, for as long as it is shown: a probe sent from an earlier
\* step and answered late does not take the result away under the summary and
\* the "Add Node" button.
ConfirmStandsOnResult ==
  wizard.step = "confirm" /\ wizard.transport = "network" =>
    nodes.probeResult # Nothing /\ nodes.probeResult.reachable

\* The list is shown as loading only while it is being read, and a host as being
\* probed only while a probe is under way.
NodesBusy ==
  /\ nodes.loading => InFlight(nodeCalls, {"list"})
  /\ nodes.probing => InFlight(nodeCalls, {"direct", "server"})
=============================================================================
