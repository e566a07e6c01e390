----------------------------- MODULE DeviceTools -----------------------------
(* The cards of views/Settings.tsx that work on the node itself: the identify
   and flash lights, the firmware upload and the file manager. *)
EXTENDS ApiClient

CONSTANTS Image,    \* firmware binaries
          FileName  \* files of the node's file system

\* The page opens with two calls.
ASSUME ToolsAssumption ==
  Image # {} /\ FileName # {} /\ Nothing \notin Image /\ MaxCalls > 1

VARIABLES board,   \* the node: identify and flash lights, firmware, files
          led,     \* the LED card: identify
          ota,     \* the OTA card: file, uploading; and the page's reload timers
          manager, \* the file manager: files, loading
          toolCalls

toolVars == <<board, led, ota, manager, toolCalls>>

\* Two cards ask when they mount, and neither waits for the other.
FirstCalls == Send(Send(NoCalls, [op |-> "led"]), [op |-> "files"])

FreshTools ==
  /\ led' = [identify |-> FALSE]
  /\ ota' = [file |-> Nothing, uploading |-> FALSE, timers |-> 0]
  /\ manager' = [files |-> {}, loading |-> TRUE]
  /\ toolCalls' = FirstCalls

ToolsInit ==
  /\ board \in [identify : BOOLEAN, flash : {FALSE}, firmware : Image, files : SUBSET FileName]
  /\ led = [identify |-> FALSE]
  /\ ota = [file |-> Nothing, uploading |-> FALSE, timers |-> 0]
  /\ manager = [files |-> {}, loading |-> TRUE]
  /\ toolCalls = FirstCalls

ToolAsk(req) == CanSend(toolCalls) /\ toolCalls' = Send(toolCalls, req)

-----------------------------------------------------------------------------
(* The lights. *)

\* The opposite of what the switch shows, which follows only with the answer.
handleIdentifyToggle ==
  ToolAsk([op |-> "identify", enabled |-> ~led.identify]) /\ UNCHANGED <<led, ota, manager>>

\* Also the first state, which may arrive after a switch.
LedAnswered(s) ==
  LET req == toolCalls[s].req IN
  /\ led' = IF ~Ok(toolCalls, s) THEN led
            ELSE [identify |-> IF req.op = "led" THEN toolCalls[s].body ELSE req.enabled]
  /\ UNCHANGED <<ota, manager>>

\* Pressing the button, releasing it or leaving it with the mouse.  The two
\* calls do not wait for each other.
handleFlash(on) == ToolAsk([op |-> "flash", on |-> on]) /\ UNCHANGED <<led, ota, manager>>

-----------------------------------------------------------------------------
(* The firmware. *)

ChooseImage(i) ==
  /\ ~ota.uploading /\ i # ota.file
  /\ ota' = [ota EXCEPT !.file = i] /\ UNCHANGED <<led, manager, toolCalls>>

\* Bound: timers.
handleOtaUpload ==
  /\ ota.file # Nothing /\ ~ota.uploading /\ ota.timers < MaxTimers
  /\ ToolAsk([op |-> "ota", image |-> ota.file])
  /\ ota' = [ota EXCEPT !.uploading = TRUE] /\ UNCHANGED <<led, manager>>

\* Once the node has taken the image the page reloads in 10 seconds.
Uploaded(s) ==
  /\ ota' = [ota EXCEPT !.uploading = FALSE, !.timers = @ + (IF Ok(toolCalls, s) THEN 1 ELSE 0)]
  /\ UNCHANGED <<led, manager>>

\* The page starts anew, and aborts what it has in flight: an upload of another
\* image, too.
ReloadPage == ota.timers > 0 /\ FreshTools

-----------------------------------------------------------------------------
(* The files. *)

ListFiles(calls) ==
  manager' = [manager EXCEPT !.loading = TRUE] /\ toolCalls' = Send(calls, [op |-> "files"])

\* Mutant: the answer of a failed listing leaves the spinner.
GotFilesIfOk(s) ==
  /\ manager' = IF Ok(toolCalls, s) THEN [files |-> toolCalls[s].body, loading |-> FALSE]
                ELSE manager
  /\ toolCalls' = Settled(toolCalls, s) /\ UNCHANGED <<led, ota>>

GotFiles(s) ==
  /\ manager' = [manager EXCEPT !.loading = FALSE,
                   !.files = IF Ok(toolCalls, s) THEN toolCalls[s].body ELSE @]
  /\ toolCalls' = Settled(toolCalls, s) /\ UNCHANGED <<led, ota>>

\* A file picked and read.  The picker stays available, so do all buttons.
handleFileUpload(f) == ToolAsk([op |-> "upload", file |-> f]) /\ UNCHANGED <<led, ota, manager>>

handleDelete(f) ==
  /\ f \in manager.files
  /\ ToolAsk([op |-> "delete", file |-> f]) /\ UNCHANGED <<led, ota, manager>>

\* What comes back is handed to the browser.
handleDownload(f) ==
  /\ f \in manager.files
  /\ ToolAsk([op |-> "download", file |-> f]) /\ UNCHANGED <<led, ota, manager>>

\* The list is read again once the node has answered.  fileUpload does not look
\* at the status: a refusal counts as an answer, and is shown as an upload.
FilesChanged(s) ==
  LET calls == Settled(toolCalls, s) IN
  /\ IF Ok(toolCalls, s) THEN ListFiles(calls) ELSE toolCalls' = calls /\ UNCHANGED manager
  /\ UNCHANGED <<led, ota>>

-----------------------------------------------------------------------------
(* The node. *)

ToolAnswer(s, body) ==
  toolCalls' = Answered(toolCalls, s, body) \/ toolCalls' = Failed(toolCalls, s)

ServeLights(s) ==
  LET req == toolCalls[s].req IN
  \/ req.op = "led" /\ ToolAnswer(s, board.identify) /\ UNCHANGED board
  \/ req.op = "identify" /\ board' = [board EXCEPT !.identify = req.enabled] /\ ToolAnswer(s, Nothing)
  \/ req.op = "flash" /\ board' = [board EXCEPT !.flash = req.on] /\ ToolAnswer(s, Nothing)

\* An upload can be refused with an answer.
ServeFiles(s) ==
  LET req == toolCalls[s].req IN
  \/ req.op = "files" /\ ToolAnswer(s, board.files) /\ UNCHANGED board
  \/ req.op = "download" /\ ToolAnswer(s, Nothing) /\ UNCHANGED board
  \/ /\ req.op = "upload" /\ ToolAnswer(s, Nothing)
     /\ \E fs \in {board.files, board.files \cup {req.file}} : board' = [board EXCEPT !.files = fs]
  \/ /\ req.op = "delete" /\ ToolAnswer(s, Nothing)
     /\ board' = [board EXCEPT !.files = @ \ {req.file}]

ServeOta(s) ==
  LET req == toolCalls[s].req IN
  /\ req.op = "ota"
  /\ \/ board' = [board EXCEPT !.firmware = req.image] /\ ToolAnswer(s, Nothing)
     \/ toolCalls' = Failed(toolCalls, s) /\ UNCHANGED board

ToolsResume(s) ==
  LET op == toolCalls[s].req.op  Over == toolCalls' = Settled(toolCalls, s) IN
  \/ op \in {"led", "identify"} /\ LedAnswered(s) /\ Over
  \/ op = "ota" /\ Uploaded(s) /\ Over
  \/ op \in {"flash", "download"} /\ UNCHANGED <<led, ota, manager>> /\ Over
  \/ op = "files" /\ GotFiles(s)
  \/ op \in {"upload", "delete"} /\ FilesChanged(s)

ToolsUser ==
  \/ handleIdentifyToggle \/ handleOtaUpload \/ ReloadPage
  \/ \E on \in BOOLEAN : handleFlash(on)
  \/ \E i \in Image : ChooseImage(i)
  \/ \E f \in FileName : handleFileUpload(f) \/ handleDelete(f) \/ handleDownload(f)
  \/ \E s \in Replied(toolCalls) : ToolsResume(s)

ToolsNext ==
  \/ ToolsUser /\ UNCHANGED board
  \/ /\ \E s \in Sent(toolCalls) : ServeLights(s) \/ ServeFiles(s) \/ ServeOta(s)
     /\ UNCHANGED <<led, ota, manager>>

ToolsSpec == ToolsInit /\ [][ToolsNext]_toolVars

-----------------------------------------------------------------------------
ToolsTypeOK ==
  /\ board \in [identify : BOOLEAN, flash : BOOLEAN, firmware : Image, files : SUBSET FileName]
  /\ ota \in [file : Image \cup {Nothing}, uploading : BOOLEAN, timers : 0..MaxTimers]
  /\ manager \in [files : SUBSET FileName, loading : BOOLEAN]
  /\ led.identify \in BOOLEAN /\ DOMAIN toolCalls \subseteq Slots

\* The page uploads or loads only while such a call is in flight.
ToolsBusy ==
  /\ ota.uploading => InFlight(toolCalls, {"ota"})
  /\ manager.loading => InFlight(toolCalls, {"files"})
=============================================================================
