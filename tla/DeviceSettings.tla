---------------------------- MODULE DeviceSettings ---------------------------
(* The part of views/Settings.tsx that works on the node's configuration: the
   snapshot of it that the view loads, edits and saves as a whole, the name card,
   and backup and restore.  The page is the expert's; the student's lacks some of
   the cards.  The WiFi card is in DeviceWifi, the others are in DeviceTools. *)
EXTENDS ApiClient

CONSTANTS Name, Pins  \* values of two parts of a configuration

Config == [name : Name, pins : Pins]

ASSUME SettingsAssumption == Name # {} /\ Pins # {} /\ Nothing \notin Name \cup Config

VARIABLES device,    \* the node: its stored configuration
          info,      \* the system store: the display name, as last fetched
          settings,  \* the view: config, loading, error, saving
          nameCard,  \* the name card: name, renaming
          restoring, \* the backup card
          settingsCalls

settingsVars == <<device, info, settings, nameCard, restoring, settingsCalls>>

Unloaded == [config |-> Nothing, loading |-> TRUE, error |-> FALSE, saving |-> FALSE]

SettingsInit ==
  /\ device \in Config
  /\ info \in {Nothing, device.name}
  /\ settings = Unloaded
  /\ nameCard = [name |-> Nothing, renaming |-> FALSE]
  /\ restoring = FALSE
  /\ settingsCalls = Send(NoCalls, [op |-> "config"])

SettingsAsk(req) ==
  CanSend(settingsCalls) /\ settingsCalls' = Send(settingsCalls, req)

\* While the configuration loads, or could not be loaded, there are no cards.
Shown == ~settings.loading /\ ~settings.error

-----------------------------------------------------------------------------
(* The configuration as a whole. *)

\* Back in the view.  Bound: nobody leaves it while a call is in flight.
loadConfig ==
  /\ settingsCalls = NoCalls /\ SettingsAsk([op |-> "config"])
  /\ settings' = Unloaded
  /\ nameCard' = [nameCard EXCEPT !.name = Nothing, !.renaming = FALSE]
  /\ restoring' = FALSE /\ UNCHANGED info

\* The cards mount, and the name card copies the name known.
GotConfig(s) ==
  /\ settings' = IF Ok(settingsCalls, s)
                 THEN [settings EXCEPT !.config = settingsCalls[s].body, !.loading = FALSE]
                 ELSE [settings EXCEPT !.error = TRUE, !.loading = FALSE]
  /\ nameCard' = [nameCard EXCEPT !.name = info]
  /\ UNCHANGED <<info, restoring>>

\* Bound: a pin form holds one value of Pins, not one number per pin.
handlePinChange(p) ==
  /\ Shown /\ settings.config.pins # p
  /\ settings' = [settings EXCEPT !.config.pins = p]
  /\ UNCHANGED <<info, nameCard, restoring, settingsCalls>>

\* The whole snapshot is sent back: with the name, and whatever else it has, as
\* stored when it was loaded.
handleSave ==
  /\ Shown /\ ~settings.saving
  /\ SettingsAsk([op |-> "updateConfig", config |-> settings.config])
  /\ settings' = [settings EXCEPT !.saving = TRUE] /\ UNCHANGED <<info, nameCard, restoring>>

ConfigSaved ==
  settings' = [settings EXCEPT !.saving = FALSE] /\ UNCHANGED <<info, nameCard, restoring>>

\* The answer, or the loss of it, is ignored.
handleRestart ==
  Shown /\ SettingsAsk([op |-> "restart"]) /\ UNCHANGED <<info, settings, nameCard, restoring>>

-----------------------------------------------------------------------------
(* The name card. *)

\* The effect on the display name overwrites what is being typed.
NameFollows(display_name) ==
  nameCard' = [nameCard EXCEPT !.name = IF display_name # info THEN display_name ELSE @]

TypeName(n) ==
  /\ Shown /\ n # nameCard.name /\ nameCard' = [nameCard EXCEPT !.name = n]
  /\ UNCHANGED <<info, settings, restoring, settingsCalls>>

\* The button waits for the renaming before it, the Enter key does not.
handleRename ==
  /\ Shown /\ nameCard.name # Nothing
  /\ SettingsAsk([op |-> "setName", name |-> nameCard.name])
  /\ nameCard' = [nameCard EXCEPT !.renaming = TRUE] /\ UNCHANGED <<info, settings, restoring>>

Renamed == nameCard' = [nameCard EXCEPT !.renaming = FALSE] /\ UNCHANGED <<info, settings, restoring>>

\* Layout and the dashboard fetch the system information too.
fetchInfo == SettingsAsk([op |-> "info"]) /\ UNCHANGED <<info, settings, nameCard, restoring>>

GotInfo(s) ==
  /\ IF Ok(settingsCalls, s)
     THEN /\ info' = settingsCalls[s].body
          /\ IF Shown THEN NameFollows(settingsCalls[s].body) ELSE UNCHANGED nameCard
     ELSE UNCHANGED <<info, nameCard>>
  /\ UNCHANGED <<settings, restoring>>

-----------------------------------------------------------------------------
(* Backup and restore. *)

\* The browser saves what comes back to a file.
handleBackup ==
  Shown /\ SettingsAsk([op |-> "backup"]) /\ UNCHANGED <<info, settings, nameCard, restoring>>

\* A file picked, of any earlier backup, and confirmed.  The view keeps its old
\* snapshot.
handleRestore(file) ==
  /\ Shown /\ ~restoring /\ SettingsAsk([op |-> "restore", config |-> file])
  /\ restoring' = TRUE /\ UNCHANGED <<info, settings, nameCard>>

\* Mutant: only a success ends the restoring.
RestoredIfOk(s) ==
  /\ restoring' = (restoring /\ ~Ok(settingsCalls, s))
  /\ UNCHANGED <<info, settings, nameCard>>

\* In the finally block.
Restored(s) ==
  restoring' = FALSE /\ UNCHANGED <<info, settings, nameCard>>

-----------------------------------------------------------------------------
(* The node. *)

SettingsAnswer(s, body) ==
  \/ settingsCalls' = Answered(settingsCalls, s, body)
  \/ settingsCalls' = Failed(settingsCalls, s)

SettingsServer(s) ==
  LET req == settingsCalls[s].req IN
  \/ req.op \in {"config", "backup"} /\ SettingsAnswer(s, device) /\ UNCHANGED device
  \/ req.op = "info" /\ SettingsAnswer(s, device.name) /\ UNCHANGED device
  \/ req.op = "restart" /\ SettingsAnswer(s, Nothing) /\ UNCHANGED device
  \/ req.op = "setName" /\ device' = [device EXCEPT !.name = req.name] /\ SettingsAnswer(s, Nothing)
  \/ req.op \in {"updateConfig", "restore"} /\ device' = req.config /\ SettingsAnswer(s, Nothing)
  \/ settingsCalls' = Failed(settingsCalls, s) /\ UNCHANGED device

\* Another client, or another card, configures the node.
OtherClient == device' \in Config \ {device}

SettingsResume(s) ==
  LET op == settingsCalls[s].req.op IN
  /\ \/ op = "config" /\ GotConfig(s)
     \/ op = "updateConfig" /\ ConfigSaved
     \/ op \in {"restart", "backup"} /\ UNCHANGED <<info, settings, nameCard, restoring>>
     \/ op = "setName" /\ Renamed
     \/ op = "info" /\ GotInfo(s)
     \/ op = "restore" /\ Restored(s)
  /\ settingsCalls' =
       LET calls == Settled(settingsCalls, s) IN
       IF op = "setName" /\ Ok(settingsCalls, s) THEN Send(calls, [op |-> "info"]) ELSE calls

SettingsUser ==
  \/ loadConfig \/ handleSave \/ handleRestart \/ handleRename \/ fetchInfo
  \/ handleBackup \/ \E file \in Config : handleRestore(file)
  \/ \E p \in Pins : handlePinChange(p)
  \/ \E n \in Name : TypeName(n)
  \/ \E s \in Replied(settingsCalls) : SettingsResume(s)

SettingsNext ==
  \/ SettingsUser /\ UNCHANGED device
  \/ /\ UNCHANGED <<info, settings, nameCard, restoring>>
     /\ \/ \E s \in Sent(settingsCalls) : SettingsServer(s)
        \/ OtherClient /\ UNCHANGED settingsCalls

SettingsSpec == SettingsInit /\ [][SettingsNext]_settingsVars

-----------------------------------------------------------------------------
SettingsTypeOK ==
  /\ device \in Config /\ info \in Name \cup {Nothing}
  /\ settings.config \in Config \cup {Nothing} /\ (Shown => settings.config # Nothing)
  /\ nameCard.name \in Name \cup {Nothing}
  /\ {settings.loading, settings.error, settings.saving, nameCard.renaming,
      restoring} \subseteq BOOLEAN
  /\ DOMAIN settingsCalls \subseteq Slots

\* Whatever the view shows as running has a call in flight that will end it.
SettingsBusy ==
  /\ settings.loading => InFlight(settingsCalls, {"config"})
  /\ settings.saving => InFlight(settingsCalls, {"updateConfig"})
  /\ nameCard.renaming => InFlight(settingsCalls, {"setName"})
  /\ restoring => InFlight(settingsCalls, {"restore"})
=============================================================================
