----------------------------- MODULE FileBrowser ----------------------------
(* The config browser of the web UI: the store of stores/files.ts, the view
   ConfigBrowser and its list FileTree, over the file API of the server.

   A file is <<root, path>>, a path a sequence of names.  A text remembers the
   file it was read from or typed into, which is what the properties look at. *)
EXTENDS ApiClient, Sequences, FiniteSets

CONSTANTS Root,         \* the configured file roots
          ReadonlyRoot, \* those the server refuses to write
          RestartRoot,  \* those with a restart command
          File,         \* the files: a set of <<root, path>>
          Text          \* the texts a user types

ASSUME FilesAssumption ==
  /\ Root # {} /\ Text # {} /\ Nothing \notin Root
  /\ ReadonlyRoot \subseteq Root /\ RestartRoot \subseteq Root
  /\ File \subseteq Root \X Seq(STRING)

VARIABLES disk,      \* server: the text of every file
          files,     \* the store; items is the listing shown
          confirmRestart, \* the view: the restart button is armed
          fileCalls

fileVars == <<disk, files, confirmRestart, fileCalls>>

Content == [of : File, text : Text]

FirstRoot == CHOOSE r \in Root : TRUE

FilesInit ==
  /\ disk = [f \in File |-> [of |-> f, text |-> CHOOSE t \in Text : TRUE]]
  /\ files = [roots |-> {}, activeRootId |-> Nothing, currentPath |-> <<>>,
              items |-> {}, openFile |-> Nothing, loading |-> FALSE, saving |-> FALSE]
  /\ confirmRestart = FALSE
  /\ fileCalls = NoCalls

-----------------------------------------------------------------------------
(* Entering the view, and the list of roots. *)

\* Bound: nobody leaves the view between the click on the armed button and the
\* answer of the restart, whose handler would disarm a button that is gone.
Restarting ==
  \E s \in DOMAIN fileCalls : LET req == fileCalls[s].req IN
    req.op = "restart" \/ (req.op = "write" /\ req.then = "restart")

\* Mounting the view: the store kept everything, the view starts anew.
fetchRoots ==
  /\ CanSend(fileCalls) /\ ~Restarting
  /\ fileCalls' = Send(fileCalls, [op |-> "roots"])
  /\ files' = [files EXCEPT !.loading = TRUE]
  /\ confirmRestart' = FALSE

\* The store's part of navigateTo, up to its await.
Navigate(calls, store, r, p) ==
  /\ files' = [store EXCEPT !.currentPath = p, !.loading = TRUE]
  /\ fileCalls' = Send(calls, [op |-> "list", root |-> r, path |-> p])

\* selectRoot drops the open file, saved or not.
Select(calls, store, r) ==
  Navigate(calls, [store EXCEPT !.activeRootId = r, !.openFile = Nothing], r, <<>>)

GotRoots(s) ==
  LET got == [files EXCEPT !.roots = fileCalls[s].body]
      calls == Settled(fileCalls, s) IN
  /\ Ok(fileCalls, s)
  /\ IF files.activeRootId = Nothing /\ got.roots # {}
     THEN Select(calls, got, FirstRoot)
     ELSE files' = [got EXCEPT !.loading = FALSE] /\ fileCalls' = calls
  /\ UNCHANGED confirmRestart

NoRoots(s) ==
  /\ ~Ok(fileCalls, s)
  /\ files' = [files EXCEPT !.loading = FALSE]
  /\ fileCalls' = Settled(fileCalls, s) /\ UNCHANGED confirmRestart

-----------------------------------------------------------------------------
(* Walking through the directories and opening a file. *)

IsPrefixOf(p, q) == Len(p) < Len(q) /\ SubSeq(q, 1, Len(p)) = p

\* What the server lists of a directory.
Entries(r, p) ==
  {[name |-> f[2][Len(p) + 1],
    type |-> IF Len(f[2]) = Len(p) + 1 THEN "file" ELSE "directory"] :
     f \in {g \in File : g[1] = r /\ IsPrefixOf(p, g[2])}}

joinPath(base, name) == Append(base, name)

\* A root tab; there is one for each root that is known.
selectRoot(r) ==
  /\ CanSend(fileCalls) /\ r \in files.roots
  /\ Select(fileCalls, files, r) /\ UNCHANGED confirmRestart

\* The tree is hidden while something loads and no file is open.
TreeShown ==
  files.activeRootId # Nothing /\ ~(files.loading /\ files.openFile = Nothing)

\* An entry of the list leads to its name joined to the path shown by now,
\* whatever directory, and root, the listing was asked for.
Listed(type) ==
  {joinPath(files.currentPath, i.name) :
     i \in {j \in files.items : TreeShown /\ j.type = type}}

\* The breadcrumbs and the parent link lead to any directory above.
Above ==
  {SubSeq(files.currentPath, 1, n) :
     n \in {m \in 0..Len(files.currentPath) : files.activeRootId # Nothing}}

navigateTo(p) ==
  /\ CanSend(fileCalls) /\ p \in Above \cup Listed("directory")
  /\ Navigate(fileCalls, files, files.activeRootId, p) /\ UNCHANGED confirmRestart

ShowItems(s) ==
  /\ files' = [files EXCEPT !.loading = FALSE,
                 !.items = IF Ok(fileCalls, s) THEN fileCalls[s].body ELSE {}]
  /\ fileCalls' = Settled(fileCalls, s) /\ UNCHANGED confirmRestart

openFilePath(p) ==
  /\ CanSend(fileCalls) /\ p \in Listed("file")
  /\ files' = [files EXCEPT !.loading = TRUE]
  /\ fileCalls' = Send(fileCalls,
                       [op |-> "read", root |-> files.activeRootId, path |-> p])
  /\ UNCHANGED confirmRestart

\* Mutant: the root is looked up after the await.
DocumentLate(req, body) ==
  [rootId |-> files.activeRootId, path |-> body.path, content |-> body.content,
   originalContent |-> body.content, readonly |-> body.readonly]

\* The root is the one captured with the request, not the one shown by now.
Document(req, body) ==
  [rootId |-> req.root, path |-> body.path, content |-> body.content,
   originalContent |-> body.content, readonly |-> body.readonly]

ShowFile(s) ==
  /\ files' = [files EXCEPT !.loading = FALSE,
                 !.openFile = IF Ok(fileCalls, s)
                              THEN Document(fileCalls[s].req, fileCalls[s].body)
                              ELSE @]
  /\ fileCalls' = Settled(fileCalls, s) /\ UNCHANGED confirmRestart

closeFile ==
  /\ files.openFile # Nothing
  /\ files' = [files EXCEPT !.openFile = Nothing]
  /\ UNCHANGED <<confirmRestart, fileCalls>>

-----------------------------------------------------------------------------
(* Editing, saving and restarting. *)

Editable == files.openFile # Nothing /\ ~files.openFile.readonly

isDirty ==
  /\ files.openFile # Nothing
  /\ files.openFile.content # files.openFile.originalContent

Target(doc) == <<doc.rootId, doc.path>>

\* Typing; the text belongs to the file named above the editor.
setContent(t) ==
  /\ Editable /\ files.openFile.content.text # t
  /\ files' = [files EXCEPT !.openFile.content =
                 [of |-> Target(files.openFile), text |-> t]]
  /\ UNCHANGED <<confirmRestart, fileCalls>>

\* saveFile up to its await: the document is captured as it is.
Save(then) ==
  /\ CanSend(fileCalls) /\ Editable
  /\ files' = [files EXCEPT !.saving = TRUE]
  /\ fileCalls' = Send(fileCalls,
                       [op |-> "write", doc |-> files.openFile, then |-> then])
  /\ UNCHANGED confirmRestart

\* The Save button waits for an unsaved text and for the save before it;
\* Ctrl+S waits for neither.
SaveButton == ~files.saving /\ isDirty /\ Save("stop")
CtrlS == (files.saving \/ ~isDirty) /\ Save("stop")

\* The first click arms the button for 5 seconds, the second one saves.
handleSaveAndRestart ==
  /\ Editable /\ files.activeRootId \in RestartRoot /\ ~files.saving
  /\ \/ ~confirmRestart /\ confirmRestart' = TRUE /\ UNCHANGED <<files, fileCalls>>
     \/ confirmRestart /\ Save("restart")

\* The timer of the click that armed the button, or of one before, disarms it.
ConfirmTimeout ==
  confirmRestart /\ confirmRestart' = FALSE /\ UNCHANGED <<files, fileCalls>>

\* Mutant: the file open by now is the one marked as saved.
ReopenedLate(doc) ==
  [IF files.openFile = Nothing THEN doc ELSE files.openFile
   EXCEPT !.originalContent = doc.content]

\* The document captured before the await comes back as the open one, whatever
\* was typed, opened or closed meanwhile; saveAndRestart then reads it again.
Reopened(doc) == [doc EXCEPT !.originalContent = doc.content]

Saved(s) ==
  LET req == fileCalls[s].req  calls == Settled(fileCalls, s) IN
  /\ Ok(fileCalls, s)
  /\ files' = [files EXCEPT !.saving = FALSE, !.openFile = Reopened(req.doc)]
  /\ fileCalls' =
       IF req.then = "stop" THEN calls
       ELSE Send(calls, [op |-> "restart", root |-> files'.openFile.rootId])
  /\ UNCHANGED confirmRestart

SaveFailed(s) ==
  /\ ~Ok(fileCalls, s)
  /\ files' = [files EXCEPT !.saving = FALSE]
  /\ confirmRestart' = (confirmRestart /\ fileCalls[s].req.then = "stop")
  /\ fileCalls' = Settled(fileCalls, s)

Restarted(s) ==
  /\ confirmRestart' = FALSE
  /\ fileCalls' = Settled(fileCalls, s) /\ UNCHANGED files

-----------------------------------------------------------------------------
(* The server. *)

Answer(s, body) ==
  fileCalls' = Answered(fileCalls, s, body) \/ fileCalls' = Failed(fileCalls, s)

ServeRead(s) ==
  LET req == fileCalls[s].req IN
  \/ req.op = "roots" /\ Answer(s, Root)
  \/ req.op = "list" /\ Answer(s, Entries(req.root, req.path))
  \/ req.op = "restart" /\ Answer(s, Nothing)
  \/ /\ req.op = "read" /\ <<req.root, req.path>> \in File
     /\ Answer(s, [path |-> req.path, content |-> disk[<<req.root, req.path>>],
                   readonly |-> req.root \in ReadonlyRoot])
  \/ /\ req.op = "read" /\ <<req.root, req.path>> \notin File
     /\ fileCalls' = Failed(fileCalls, s)

\* A write is refused below a read-only root; its answer may be lost.
ServeWrite(s) ==
  LET req == fileCalls[s].req IN
  /\ req.op = "write"
  /\ \/ /\ req.doc.rootId \notin ReadonlyRoot
        /\ disk' = [disk EXCEPT ![Target(req.doc)] = req.doc.content]
        /\ Answer(s, Nothing)
     \/ fileCalls' = Failed(fileCalls, s) /\ UNCHANGED disk

FileServer ==
  \E s \in Sent(fileCalls) :
    /\ (ServeRead(s) /\ UNCHANGED disk) \/ ServeWrite(s)
    /\ UNCHANGED <<files, confirmRestart>>

Resume(s) ==
  LET op == fileCalls[s].req.op IN
  \/ op = "roots" /\ (GotRoots(s) \/ NoRoots(s))
  \/ op = "list" /\ ShowItems(s)
  \/ op = "read" /\ ShowFile(s)
  \/ op = "write" /\ (Saved(s) \/ SaveFailed(s))
  \/ op = "restart" /\ Restarted(s)

FilesUser ==
  \/ fetchRoots \/ closeFile \/ SaveButton \/ CtrlS
  \/ handleSaveAndRestart \/ ConfirmTimeout
  \/ \E r \in files.roots : selectRoot(r)
  \/ \E p \in Above \cup Listed("directory") : navigateTo(p)
  \/ \E p \in Listed("file") : openFilePath(p)
  \/ \E t \in Text : setContent(t)
  \/ \E s \in Replied(fileCalls) : Resume(s)

FilesNext == (FilesUser /\ UNCHANGED disk) \/ FileServer

FilesSpec == FilesInit /\ [][FilesNext]_fileVars

-----------------------------------------------------------------------------
Documents ==
  UNION {[rootId : {f[1]}, path : {f[2]}, content : Content,
          originalContent : Content, readonly : BOOLEAN] : f \in File}

FilesTypeOK ==
  /\ disk \in [File -> Content]
  /\ files.roots \subseteq Root /\ files.activeRootId \in Root \cup {Nothing}
  /\ files.openFile \in Documents \cup {Nothing}
  /\ {files.loading, files.saving, confirmRestart} \subseteq BOOLEAN
  /\ DOMAIN fileCalls \subseteq Slots

\* The browser shows a spinner, or "Saving", only while a call will end it.
FilesBusy ==
  /\ files.loading => InFlight(fileCalls, {"roots", "list", "read"})
  /\ files.saving => InFlight(fileCalls, {"write"})

\* What is written to a file was read from that file or typed while its name
\* stood above the editor, and nothing is written below a read-only root: the
\* document carries its own root and path across every await of openFilePath and
\* saveFile, however the tabs, the tree and the answers interleave.
WritesStayInFile ==
  \A s \in DOMAIN fileCalls : LET req == fileCalls[s].req IN
    req.op = "write" =>
      /\ \A t \in {req.doc.content, req.doc.originalContent} : t.of = Target(req.doc)
      /\ req.doc.rootId \notin ReadonlyRoot

Restarts(calls, s) == s \in DOMAIN calls /\ calls[s].req.op = "restart"

\* A restart that is sent follows the answer to the write that asked for it.
RestartIsOfSave ==
  \A s \in Slots :
    (Restarts(fileCalls', s) /\ ~Restarts(fileCalls, s)) =>
      \E w \in Replied(fileCalls) : LET req == fileCalls[w].req IN
        /\ req.op = "write" /\ Ok(fileCalls, w)
        /\ req.then = "restart" /\ req.doc.rootId = fileCalls'[s].req.root

\* Save & Restart restarts the service whose file it has just stored, and only
\* after the server said so: saveAndRestart reads the open file again after the
\* await, when another file of another root may have been opened.
RestartFollowsSave == [][RestartIsOfSave]_fileVars
=============================================================================
