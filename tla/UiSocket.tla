------------------------------- MODULE UiSocket ------------------------------
(* The event socket of the web UI: api/ws.ts, one object for the whole page, as
   components/Layout.tsx uses it while it is mounted.  The browser reports the
   end of a socket in its own time, so a socket that was closed, or replaced,
   still calls the handlers of the object later. *)
EXTENDS ApiClient

CONSTANTS Topic,     \* the topics Layout subscribes to
          MaxSockets \* bound: sockets whose close event is still to come

ASSUME SocketAssumption == MaxSockets \in Nat \ {0} /\ Nothing \notin 1..MaxSockets

VARIABLES layout,  \* Layout is mounted
          client,  \* the ArborWs object: ws, connected, timer, and its topics
          shown,   \* what the status indicator shows: wsConnected of the store
          sockets  \* browser and server: state of a socket, and topics it serves

socketVars == <<layout, client, shown, sockets>>

Socket == 1..MaxSockets

NewClient == [ws |-> Nothing, connected |-> FALSE, timer |-> FALSE,
              subscriptions |-> {}, pending |-> {}]

SocketInit ==
  /\ layout = FALSE /\ shown = FALSE /\ client = NewClient
  /\ sockets = [s \in {} |-> Nothing]

IsOpen(socks, s) == s \in DOMAIN socks /\ socks[s].state = "open"

-----------------------------------------------------------------------------
(* The methods of the object, as functions of it and of the sockets. *)

NewSocket(socks) == CHOOSE s \in Socket : s \notin DOMAIN socks

\* Returns early only on an open socket: one that connects is replaced, and
\* left to itself.
Connected(c, socks) == IF IsOpen(socks, c.ws) THEN c ELSE [c EXCEPT !.ws = NewSocket(socks)]

Opening(c, socks) ==
  IF IsOpen(socks, c.ws) THEN socks
  ELSE [s \in DOMAIN socks \cup {NewSocket(socks)} |->
          IF s \in DOMAIN socks THEN socks[s] ELSE [state |-> "connecting", serves |-> {}]]

\* Bound.
CanConnect(c, socks) == IsOpen(socks, c.ws) \/ DOMAIN socks # Socket

\* send drops what it cannot send.
Sending(c, socks, topics) ==
  IF IsOpen(socks, c.ws) THEN [socks EXCEPT ![c.ws].serves = @ \cup topics] ELSE socks

\* ws.close(): the close event comes later.
Closing(c, socks) ==
  IF c.ws \in DOMAIN socks THEN [socks EXCEPT ![c.ws].state = "closing"] ELSE socks

-----------------------------------------------------------------------------
(* Layout's effect: connect and subscribe, and the opposite. *)

\* A topic waits for onopen unless the object takes itself for connected.
Mount ==
  LET c == Connected(client, sockets)  socks == Opening(client, sockets) IN
  /\ ~layout /\ CanConnect(client, sockets)
  /\ layout' = TRUE
  /\ client' = [c EXCEPT !.subscriptions = Topic,
                  !.pending = IF c.connected THEN @ ELSE @ \cup Topic]
  /\ sockets' = IF c.connected THEN Sending(c, socks, Topic) ELSE socks
  /\ UNCHANGED shown

\* The handlers stay, for the events still to come.
Unmount ==
  /\ layout /\ layout' = FALSE
  /\ client' = [client EXCEPT !.ws = Nothing, !.connected = FALSE, !.timer = FALSE,
                  !.subscriptions = {}]
  /\ sockets' = Closing(client, sockets)
  /\ UNCHANGED shown

-----------------------------------------------------------------------------
(* The events of a socket, whether it is still the object's or not. *)

ToSubscribe(c) == c.subscriptions \cup c.pending

\* The topics are sent over the object's socket, not over the one that opened.
onopen(s) ==
  LET socks == [sockets EXCEPT ![s].state = "open"] IN
  /\ s \in DOMAIN sockets /\ sockets[s].state = "connecting"
  /\ client' = [client EXCEPT !.connected = TRUE, !.pending = {}]
  /\ sockets' = Sending(client, socks, ToSubscribe(client))
  /\ shown' = TRUE /\ UNCHANGED layout

\* Mutant: only an object that takes itself for connected reconnects.
AfterCloseIfUp(c, s) == [c EXCEPT !.connected = FALSE, !.timer = @ \/ c.connected,
                           !.ws = IF @ = s THEN Nothing ELSE @]

AfterClose(c, s) == [c EXCEPT !.connected = FALSE, !.timer = TRUE,
                       !.ws = IF @ = s THEN Nothing ELSE @]

\* A reconnect is scheduled whether or not another socket is in use by now, also
\* after disconnect.
onclose(s) ==
  /\ s \in DOMAIN sockets /\ sockets[s].state = "closing"
  /\ sockets' = [t \in DOMAIN sockets \ {s} |-> sockets[t]]
  /\ client' = AfterClose(client, s)
  /\ shown' = FALSE /\ UNCHANGED layout

\* The error of any socket closes the one the object has.
onerror(s) ==
  /\ s \in DOMAIN sockets /\ sockets[s].state # "closing"
  /\ sockets' = Closing(client, [sockets EXCEPT ![s].state = "closing"])
  /\ UNCHANGED <<layout, client, shown>>

\* The timer of scheduleReconnect; its delays are left out.
Reconnect ==
  /\ client.timer /\ CanConnect(client, sockets)
  /\ client' = [Connected(client, sockets) EXCEPT !.timer = FALSE]
  /\ sockets' = Opening(client, sockets)
  /\ UNCHANGED <<layout, shown>>

\* The server, or the network, ends a socket.
Lost(s) ==
  /\ IsOpen(sockets, s) /\ sockets' = [sockets EXCEPT ![s].state = "closing"]
  /\ UNCHANGED <<layout, client, shown>>

\* What the browser and the server do; Layout's part is Mount and Unmount.
SocketEvent ==
  \/ Reconnect
  \/ \E s \in Socket : onopen(s) \/ onclose(s) \/ onerror(s) \/ Lost(s)

SocketNext == Mount \/ Unmount \/ SocketEvent

SocketSpec == SocketInit /\ [][SocketNext]_socketVars

-----------------------------------------------------------------------------
SocketTypeOK ==
  /\ {layout, shown, client.connected, client.timer} \subseteq BOOLEAN
  /\ client.ws \in DOMAIN sockets \cup {Nothing} /\ DOMAIN sockets \subseteq Socket
  /\ client.subscriptions \subseteq Topic /\ client.pending \subseteq Topic
  /\ \A s \in DOMAIN sockets :
       sockets[s] \in [state : {"connecting", "open", "closing"}, serves : SUBSET Topic]
=============================================================================
