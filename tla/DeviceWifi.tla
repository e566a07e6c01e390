------------------------------ MODULE DeviceWifi -----------------------------
(* The WiFi card of views/Settings.tsx, and the network the node joins.  A
   password is represented by the network it was typed for. *)
EXTENDS ApiClient

CONSTANT Network

ASSUME WifiAssumption == Network # {} /\ Nothing \notin Network

VARIABLES station,   \* the node: ssid and password it has stored
          wifi,      \* the card
          wifiTimers,\* pending timers that reload the state
          wifiCalls

wifiVars == <<station, wifi, wifiTimers, wifiCalls>>

WifiInit ==
  /\ station \in {[ssid |-> n, password |-> n] : n \in Network \cup {Nothing}}
  /\ wifi = [ssid |-> Nothing, networks |-> {}, scanning |-> FALSE,
             selectedSsid |-> Nothing, password |-> Nothing, connecting |-> FALSE]
  /\ wifiTimers = 0
  /\ wifiCalls = Send(NoCalls, [op |-> "wifi"])

WifiAsk(req) == CanSend(wifiCalls) /\ wifiCalls' = Send(wifiCalls, req)

\* The state shown, also 2 seconds after a connect was accepted.
LoadWifi(s) ==
  wifi' = IF Ok(wifiCalls, s) THEN [wifi EXCEPT !.ssid = wifiCalls[s].body] ELSE wifi

ReloadTimer ==
  /\ wifiTimers > 0 /\ WifiAsk([op |-> "wifi"])
  /\ wifiTimers' = wifiTimers - 1 /\ UNCHANGED wifi

handleScan ==
  /\ ~wifi.scanning /\ WifiAsk([op |-> "scan"])
  /\ wifi' = [wifi EXCEPT !.scanning = TRUE] /\ UNCHANGED wifiTimers

GotNetworks(s) ==
  wifi' = [wifi EXCEPT !.scanning = FALSE,
             !.networks = IF Ok(wifiCalls, s) THEN wifiCalls[s].body ELSE @]

\* A click on a network opens the form below it, or closes it.  The password
\* typed for another one stays in the field.
SelectNetwork(n) ==
  /\ n \in wifi.networks
  /\ wifi' = [wifi EXCEPT !.selectedSsid = IF @ = n THEN Nothing ELSE n]
  /\ UNCHANGED <<wifiTimers, wifiCalls>>

FormOpen == wifi.selectedSsid \in wifi.networks

TypePassword ==
  /\ FormOpen /\ wifi.password # wifi.selectedSsid
  /\ wifi' = [wifi EXCEPT !.password = wifi.selectedSsid]
  /\ UNCHANGED <<wifiTimers, wifiCalls>>

\* The Enter key does not wait for the connect before it.  Bound: timers.
handleConnect ==
  /\ FormOpen
  /\ wifiTimers + Cardinality({s \in DOMAIN wifiCalls : wifiCalls[s].req.op = "connect"})
       < MaxTimers
  /\ WifiAsk([op |-> "connect", ssid |-> wifi.selectedSsid, password |-> wifi.password])
  /\ wifi' = [wifi EXCEPT !.connecting = TRUE] /\ UNCHANGED wifiTimers

\* The form closes, also one opened since for another network.
Connected(s) ==
  IF Ok(wifiCalls, s)
  THEN /\ wifi' = [wifi EXCEPT !.connecting = FALSE, !.selectedSsid = Nothing,
                     !.password = Nothing]
       /\ wifiTimers' = wifiTimers + 1
  ELSE wifi' = [wifi EXCEPT !.connecting = FALSE] /\ UNCHANGED wifiTimers

-----------------------------------------------------------------------------
WifiAnswer(s, body) ==
  wifiCalls' = Answered(wifiCalls, s, body) \/ wifiCalls' = Failed(wifiCalls, s)

\* The node answers a connect before it stores the network and joins it, but
\* takes no other request in between.
WifiServer(s) ==
  LET req == wifiCalls[s].req IN
  \/ /\ req.op = "wifi" /\ WifiAnswer(s, station.ssid) /\ UNCHANGED station
  \/ /\ req.op = "scan" /\ UNCHANGED station
     /\ \E found \in SUBSET Network : WifiAnswer(s, found)
  \/ /\ req.op = "connect" /\ WifiAnswer(s, Nothing)
     /\ station' = [ssid |-> req.ssid, password |-> req.password]
  \/ wifiCalls' = Failed(wifiCalls, s) /\ UNCHANGED station

\* Save Config, whose snapshot has the ssid of when it was loaded and, as the
\* node tells nobody its password, none.
SaveConfig(n) == station.ssid # n /\ station' = [station EXCEPT !.ssid = n]

WifiResume(s) ==
  /\ \/ wifiCalls[s].req.op = "wifi" /\ LoadWifi(s) /\ UNCHANGED wifiTimers
     \/ wifiCalls[s].req.op = "scan" /\ GotNetworks(s) /\ UNCHANGED wifiTimers
     \/ wifiCalls[s].req.op = "connect" /\ Connected(s)
  /\ wifiCalls' = Settled(wifiCalls, s)

WifiNext ==
  \/ /\ UNCHANGED station
     /\ \/ ReloadTimer \/ handleScan \/ TypePassword \/ handleConnect
        \/ \E n \in Network : SelectNetwork(n)
        \/ \E s \in Replied(wifiCalls) : WifiResume(s)
  \/ /\ UNCHANGED <<wifi, wifiTimers>>
     /\ \/ \E s \in Sent(wifiCalls) : WifiServer(s)
        \/ \E n \in Network : SaveConfig(n) /\ UNCHANGED wifiCalls

WifiSpec == WifiInit /\ [][WifiNext]_wifiVars

-----------------------------------------------------------------------------
WifiTypeOK ==
  /\ {station.ssid, station.password, wifi.ssid, wifi.selectedSsid, wifi.password}
       \subseteq Network \cup {Nothing}
  /\ wifi.networks \subseteq Network /\ wifiTimers \in 0..MaxTimers
  /\ {wifi.scanning, wifi.connecting} \subseteq BOOLEAN
  /\ DOMAIN wifiCalls \subseteq Slots

\* The card is scanning or connecting only while such a call is in flight.
WifiBusy ==
  /\ wifi.scanning => InFlight(wifiCalls, {"scan"})
  /\ wifi.connecting => InFlight(wifiCalls, {"connect"})
=============================================================================
