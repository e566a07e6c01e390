------------------------------- MODULE MCViews -------------------------------
(* The views of the web UI in one small instance.  The views share nothing that
   changes but the server behind them, of which each module keeps its own part,
   so that their states need not be multiplied: a behaviour is one of one view,
   chosen at the start; the other views stay as they started. *)
EXTENDS FileBrowser, NodeWizard, ServoMotion, ServoRegisters, DeviceSettings,
        DeviceWifi, DeviceTools, RobotPanel, GcodeConsole, PwmPanel

VARIABLE view

viewVars == <<view, fileVars, nodeVars, servoVars, registerVars, settingsVars,
              wifiVars, toolVars, robotVars, gcodeVars, pwmVars>>

\* Two roots, one of them read-only, with a file in a directory and one beside.
TwoFiles == {<<"A", <<"f">>>>, <<"B", <<"d", "f">>>>}

ViewsInit ==
  /\ view \in {"files", "nodes", "servo", "registers", "settings", "wifi", "tools",
               "robot", "gcode", "pwm"}
  /\ FilesInit /\ NodesInit /\ ServoInit /\ RegistersInit /\ SettingsInit /\ WifiInit
  /\ ToolsInit /\ RobotInit /\ GcodeInit /\ PwmInit
  /\ view # "servo" => servo.id = Card
  /\ view # "settings" => device = (CHOOSE c \in Config : TRUE) /\ info = Nothing
  /\ view # "wifi" => station.ssid = Nothing
  /\ view # "tools" => ~board.identify /\ board.files = {}

Only(v) ==
  /\ view = v /\ UNCHANGED view
  /\ v # "files" => UNCHANGED fileVars
  /\ v # "nodes" => UNCHANGED nodeVars
  /\ v # "servo" => UNCHANGED servoVars
  /\ v # "registers" => UNCHANGED registerVars
  /\ v # "settings" => UNCHANGED settingsVars
  /\ v # "wifi" => UNCHANGED wifiVars
  /\ v # "tools" => UNCHANGED toolVars
  /\ v # "robot" => UNCHANGED robotVars
  /\ v # "gcode" => UNCHANGED gcodeVars
  /\ v # "pwm" => UNCHANGED pwmVars

ViewsNext ==
  \/ Only("files") /\ FilesNext
  \/ Only("nodes") /\ NodesNext
  \/ Only("servo") /\ ServoNext
  \/ Only("registers") /\ RegistersNext
  \/ Only("settings") /\ SettingsNext
  \/ Only("wifi") /\ WifiNext
  \/ Only("tools") /\ ToolsNext
  \/ Only("robot") /\ RobotNext
  \/ Only("gcode") /\ GcodeNext
  \/ Only("pwm") /\ PwmNext

ViewsSpec == ViewsInit /\ [][ViewsNext]_viewVars

-----------------------------------------------------------------------------
\* Type correctness of every view.
ViewsTypeOK ==
  /\ view = "files" => FilesTypeOK
  /\ view = "nodes" => NodesTypeOK
  /\ view = "servo" => ServoTypeOK
  /\ view = "registers" => RegistersTypeOK
  /\ view = "settings" => SettingsTypeOK
  /\ view = "wifi" => WifiTypeOK
  /\ view = "tools" => ToolsTypeOK
  /\ view = "robot" => RobotTypeOK
  /\ view = "gcode" => GcodeTypeOK
  /\ view = "pwm" => PwmTypeOK

\* No view is left with a spinner that nothing will end: whatever it shows as
\* loading, saving, scanning, connecting or uploading has a call in flight, after
\* any overlap of calls, answers and failures.
SpinnersEnd ==
  /\ view = "files" => FilesBusy
  /\ view = "nodes" => NodesBusy
  /\ view = "servo" => ServoBusy
  /\ view = "registers" => RegistersBusy
  /\ view = "settings" => SettingsBusy
  /\ view = "wifi" => WifiBusy
  /\ view = "tools" => ToolsBusy
  /\ view = "robot" => RobotBusy
  /\ view = "pwm" => PwmBusy
=============================================================================
