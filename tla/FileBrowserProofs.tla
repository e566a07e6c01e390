-------------------------- MODULE FileBrowserProofs --------------------------
(***************************************************************************)
(* Proofs about FileBrowser, for any files and roots, any number of calls  *)
(* in flight and any order of clicks and answers: the types, that the      *)
(* spinners end, and that what is written belongs to the file written.     *)
(***************************************************************************)
EXTENDS FileBrowser, TLAPS

-----------------------------------------------------------------------------
(* Part 1: documents, requests and calls.                                  *)

\* A document whose texts belong to the file it names, and that can be edited
\* only if the server lets its root be written.
GoodDoc(doc) ==
  /\ doc = [rootId |-> doc.rootId, path |-> doc.path, content |-> doc.content,
            originalContent |-> doc.originalContent, readonly |-> doc.readonly]
  /\ Target(doc) \in File
  /\ doc.content \in Content /\ doc.content.of = Target(doc)
  /\ doc.originalContent \in Content /\ doc.originalContent.of = Target(doc)
  /\ doc.readonly \in BOOLEAN
  /\ ~doc.readonly => doc.rootId \notin ReadonlyRoot

LEMMA GoodDocType ==
  ASSUME NEW doc, GoodDoc(doc)
  PROVE  doc \in Documents
<1> DEFINE f == Target(doc)
<1>1. f \in File /\ f[1] = doc.rootId /\ f[2] = doc.path
  BY DEF GoodDoc, Target
<1>2. doc \in [rootId : {f[1]}, path : {f[2]}, content : Content,
               originalContent : Content, readonly : BOOLEAN]
  BY <1>1 DEF GoodDoc
<1> HIDE DEF f
<1>3. QED
  BY <1>1, <1>2 DEF Documents

GoodRequest(req) ==
  req.op = "write" => /\ GoodDoc(req.doc) /\ req.doc.rootId \notin ReadonlyRoot
                      /\ req.then \in {"stop", "restart"}

\* What the server answers: a text of the file asked for, and its own roots.
GoodBody(req, body) ==
  /\ req.op = "roots" => body \subseteq Root
  /\ req.op = "read" =>
       /\ <<req.root, req.path>> \in File /\ body.path = req.path
       /\ body.content \in Content /\ body.content.of = <<req.root, req.path>>
       /\ body.readonly \in BOOLEAN /\ (~body.readonly => req.root \notin ReadonlyRoot)

GoodCall(call) ==
  /\ call = [req |-> call.req, state |-> call.state, body |-> call.body]
  /\ GoodRequest(call.req)
  /\ call.state = "ok" => GoodBody(call.req, call.body)

CallsOK(calls) ==
  /\ DOMAIN calls \subseteq Slots /\ calls = [s \in DOMAIN calls |-> calls[s]]
  /\ \A s \in DOMAIN calls : GoodCall(calls[s])

\* The calls in flight before are in flight, with the same requests.
Continue(old, new) ==
  \A s \in DOMAIN old : s \in DOMAIN new /\ new[s].req = old[s].req

LEMMA SendKeeps ==
  ASSUME NEW calls, CallsOK(calls), CanSend(calls), NEW req, GoodRequest(req)
  PROVE  /\ CallsOK(Send(calls, req)) /\ Continue(calls, Send(calls, req))
         /\ \E s \in DOMAIN Send(calls, req) : Send(calls, req)[s].req = req
<1> DEFINE slot == FreeSlot(calls)
           call == [req |-> req, state |-> "sent", body |-> Nothing]
           sent == [s \in DOMAIN calls \cup {slot} |-> IF s \in DOMAIN calls THEN calls[s] ELSE call]
<1>1. slot \in Slots /\ slot \notin DOMAIN calls
  BY DEF CanSend, FreeSlot
<1>2. GoodCall(call) /\ call.req = req
  BY DEF GoodCall
<1>3. Send(calls, req) = sent
  BY DEF Send
<1> HIDE DEF slot, call
<1>4. /\ DOMAIN sent = DOMAIN calls \cup {slot} /\ sent[slot] = call
      /\ \A s \in DOMAIN calls : sent[s] = calls[s]
      /\ sent = [s \in DOMAIN sent |-> sent[s]]
  BY <1>1
<1> HIDE DEF sent
<1>5. \A s \in DOMAIN sent : GoodCall(sent[s])
  BY <1>2, <1>4 DEF CallsOK
<1>6. CallsOK(sent) /\ Continue(calls, sent)
  BY <1>1, <1>4, <1>5 DEF CallsOK, Continue
<1>7. QED
  BY <1>2, <1>3, <1>4, <1>6

LEMMA SettledKeeps ==
  ASSUME NEW calls, CallsOK(calls), NEW s \in DOMAIN calls
  PROVE  /\ CallsOK(Settled(calls, s)) /\ CanSend(Settled(calls, s))
         /\ DOMAIN Settled(calls, s) = DOMAIN calls \ {s}
         /\ \A t \in DOMAIN calls \ {s} : Settled(calls, s)[t] = calls[t]
<1>1. /\ DOMAIN Settled(calls, s) = DOMAIN calls \ {s}
      /\ \A t \in DOMAIN calls \ {s} : Settled(calls, s)[t] = calls[t]
      /\ Settled(calls, s) = [t \in DOMAIN Settled(calls, s) |-> Settled(calls, s)[t]]
  BY DEF Settled
<1>2. QED
  BY <1>1 DEF CallsOK, CanSend

LEMMA AnsweredKeeps ==
  ASSUME NEW calls, CallsOK(calls), NEW s \in DOMAIN calls,
         NEW body, GoodBody(calls[s].req, body)
  PROVE  CallsOK(Answered(calls, s, body)) /\ Continue(calls, Answered(calls, s, body))
<1> DEFINE call == [calls[s] EXCEPT !.state = "ok", !.body = body]
           new  == [calls EXCEPT ![s] = call]
<1>1. GoodCall(calls[s]) /\ new = Answered(calls, s, body)
  BY DEF CallsOK, Answered
<1>2. call.req = calls[s].req /\ call.body = body
      /\ call = [req |-> call.req, state |-> call.state, body |-> call.body]
  BY <1>1 DEF GoodCall
<1>3. GoodCall(call)
  BY <1>1, <1>2 DEF GoodCall
<1> HIDE DEF call
<1>4. /\ DOMAIN new = DOMAIN calls /\ new[s] = call
      /\ \A t \in DOMAIN calls \ {s} : new[t] = calls[t]
      /\ new = [t \in DOMAIN new |-> new[t]]
  BY DEF CallsOK
<1> HIDE DEF new
<1>5. CallsOK(new) /\ Continue(calls, new)
  BY <1>2, <1>3, <1>4 DEF CallsOK, Continue
<1>6. QED
  BY <1>1, <1>5

LEMMA FailedKeeps ==
  ASSUME NEW calls, CallsOK(calls), NEW s \in DOMAIN calls
  PROVE  CallsOK(Failed(calls, s)) /\ Continue(calls, Failed(calls, s))
<1> DEFINE call == [calls[s] EXCEPT !.state = "failed"]
           new  == [calls EXCEPT ![s] = call]
<1>1. GoodCall(calls[s]) /\ new = Failed(calls, s)
  BY DEF CallsOK, Failed
<1>2. call.req = calls[s].req /\ call.state = "failed"
      /\ call = [req |-> call.req, state |-> call.state, body |-> call.body]
  BY <1>1 DEF GoodCall
<1>3. GoodCall(call)
  BY <1>1, <1>2 DEF GoodCall
<1> HIDE DEF call
<1>4. /\ DOMAIN new = DOMAIN calls /\ new[s] = call
      /\ \A t \in DOMAIN calls \ {s} : new[t] = calls[t]
      /\ new = [t \in DOMAIN new |-> new[t]]
  BY DEF CallsOK
<1> HIDE DEF new
<1>5. CallsOK(new) /\ Continue(calls, new)
  BY <1>2, <1>3, <1>4 DEF CallsOK, Continue
<1>6. QED
  BY <1>1, <1>5

LEMMA SendBusy ==
  ASSUME NEW calls, CallsOK(calls), CanSend(calls), NEW req, GoodRequest(req), NEW ops
  PROVE  /\ InFlight(calls, ops) => InFlight(Send(calls, req), ops)
         /\ req.op \in ops => InFlight(Send(calls, req), ops)
BY SendKeeps DEF Continue, InFlight

LEMMA SettledBusy ==
  ASSUME NEW calls, CallsOK(calls), NEW s \in DOMAIN calls, NEW ops, calls[s].req.op \notin ops
  PROVE  InFlight(calls, ops) => InFlight(Settled(calls, s), ops)
<1>1. /\ DOMAIN Settled(calls, s) = DOMAIN calls \ {s}
      /\ \A t \in DOMAIN calls \ {s} : Settled(calls, s)[t] = calls[t]
  BY SettledKeeps
<1>2. QED
  BY <1>1 DEF InFlight

LEMMA ContinueBusy ==
  ASSUME NEW old, NEW new, Continue(old, new), NEW ops, InFlight(old, ops)
  PROVE  InFlight(new, ops)
BY DEF Continue, InFlight

-----------------------------------------------------------------------------
(* Part 2: the invariant.                                                  *)

StoreOK(store) ==
  /\ store = [roots |-> store.roots, activeRootId |-> store.activeRootId,
              currentPath |-> store.currentPath, items |-> store.items,
              openFile |-> store.openFile, loading |-> store.loading, saving |-> store.saving]
  /\ store.roots \subseteq Root /\ store.activeRootId \in Root \cup {Nothing}
  /\ store.openFile = Nothing \/ GoodDoc(store.openFile)
  /\ store.loading \in BOOLEAN /\ store.saving \in BOOLEAN

Loading == {"roots", "list", "read"}

BusyOK(store, calls) ==
  /\ store.loading => InFlight(calls, Loading)
  /\ store.saving => InFlight(calls, {"write"})

\* The store with its calls, and the disk.
StoreInv == StoreOK(files) /\ CallsOK(fileCalls) /\ BusyOK(files, fileCalls)

DiskInv == disk \in [File -> Content] /\ \A f \in File : disk[f].of = f

FilesInv == StoreInv /\ DiskInv /\ confirmRestart \in BOOLEAN

LEMMA FilesInvInit == FilesInit => FilesInv
<1> SUFFICES ASSUME FilesInit PROVE FilesInv
  OBVIOUS
<1>1. (CHOOSE t \in Text : TRUE) \in Text
  BY FilesAssumption
<1>2. DiskInv
  BY <1>1 DEF FilesInit, DiskInv, Content
<1>3. CallsOK(fileCalls)
  BY DEF FilesInit, NoCalls, CallsOK
<1>4. StoreOK(files) /\ BusyOK(files, fileCalls)
  BY DEF FilesInit, StoreOK, BusyOK
<1>5. QED
  BY <1>2, <1>3, <1>4 DEF FilesInit, FilesInv, StoreInv

\* What the invariant says.
LEMMA FilesInvSays == FilesInv => FilesTypeOK /\ FilesBusy /\ WritesStayInFile
<1> SUFFICES ASSUME FilesInv PROVE FilesTypeOK /\ FilesBusy /\ WritesStayInFile
  OBVIOUS
<1>1. files.openFile \in Documents \cup {Nothing}
  BY GoodDocType DEF FilesInv, StoreInv, StoreOK
<1>2. FilesTypeOK
  BY <1>1 DEF FilesInv, StoreInv, DiskInv, StoreOK, CallsOK, FilesTypeOK
<1>3. FilesBusy
  BY DEF FilesInv, StoreInv, BusyOK, Loading, FilesBusy
<1>4. WritesStayInFile
  <2> SUFFICES ASSUME NEW s \in DOMAIN fileCalls, fileCalls[s].req.op = "write"
               PROVE  /\ \A t \in {fileCalls[s].req.doc.content,
                                   fileCalls[s].req.doc.originalContent} :
                           t.of = Target(fileCalls[s].req.doc)
                      /\ fileCalls[s].req.doc.rootId \notin ReadonlyRoot
    BY DEF WritesStayInFile
  <2>1. GoodRequest(fileCalls[s].req)
    BY DEF FilesInv, StoreInv, CallsOK, GoodCall
  <2>2. QED
    BY <2>1 DEF GoodRequest, GoodDoc
<1>5. QED
  BY <1>2, <1>3, <1>4

-----------------------------------------------------------------------------
(* Part 3: the handlers of the browser.                                    *)

LEMMA NavigateKeeps ==
  ASSUME NEW store, StoreOK(store), NEW calls, CallsOK(calls), CanSend(calls),
         store.saving => InFlight(calls, {"write"}), NEW r, NEW p, Navigate(calls, store, r, p)
  PROVE  StoreInv'
<1> DEFINE req == [op |-> "list", root |-> r, path |-> p]
<1>1. GoodRequest(req) /\ req.op \in Loading
  BY DEF GoodRequest, Loading
<1>2. fileCalls' = Send(calls, req) /\ files' = [store EXCEPT !.currentPath = p, !.loading = TRUE]
  BY DEF Navigate
<1> HIDE DEF req
<1>3. CallsOK(fileCalls') /\ InFlight(fileCalls', Loading)
      /\ (store.saving => InFlight(fileCalls', {"write"}))
  BY <1>1, <1>2, SendKeeps, SendBusy
<1>4. StoreOK(files') /\ files'.saving = store.saving
  BY <1>2 DEF StoreOK
<1>5. QED
  BY <1>3, <1>4 DEF StoreInv, BusyOK

LEMMA SelectKeeps ==
  ASSUME NEW store, StoreOK(store), NEW calls, CallsOK(calls), CanSend(calls),
         store.saving => InFlight(calls, {"write"}), NEW r \in Root, Select(calls, store, r)
  PROVE  StoreInv'
<1>1. PICK new : new = [store EXCEPT !.activeRootId = r, !.openFile = Nothing]
  OBVIOUS
<1>2. StoreOK(new) /\ new.saving = store.saving
  BY <1>1 DEF StoreOK
<1>3. Navigate(calls, new, r, <<>>)
  BY <1>1 DEF Select
<1>4. QED
  BY <1>2, <1>3, NavigateKeeps

\* A handler sends a call and shows that it waits.
LEMMA SendingKeeps ==
  ASSUME StoreInv, CanSend(fileCalls), NEW req, GoodRequest(req),
         fileCalls' = Send(fileCalls, req), StoreOK(files'),
         (files'.loading # files.loading) => req.op \in Loading,
         (files'.saving # files.saving) => req.op = "write"
  PROVE  StoreInv'
<1>1. CallsOK(fileCalls')
  BY SendKeeps DEF StoreInv
<1>2. /\ InFlight(fileCalls, Loading) => InFlight(fileCalls', Loading)
      /\ req.op \in Loading => InFlight(fileCalls', Loading)
      /\ InFlight(fileCalls, {"write"}) => InFlight(fileCalls', {"write"})
      /\ req.op \in {"write"} => InFlight(fileCalls', {"write"})
  BY SendBusy DEF StoreInv
<1>3. BusyOK(files', fileCalls')
  BY <1>2 DEF StoreInv, BusyOK
<1>4. QED
  BY <1>1, <1>3 DEF StoreInv

LEMMA FetchRootsKeeps == ASSUME FilesInv, fetchRoots PROVE StoreInv' /\ confirmRestart' \in BOOLEAN
<1>1. GoodRequest([op |-> "roots"]) /\ [op |-> "roots"].op \in Loading
  BY DEF GoodRequest, Loading
<1>2. StoreOK(files') /\ files'.saving = files.saving
  BY DEF fetchRoots, FilesInv, StoreInv, StoreOK
<1>3. CanSend(fileCalls) /\ fileCalls' = Send(fileCalls, [op |-> "roots"])
      /\ confirmRestart' = FALSE
  BY DEF fetchRoots
<1>4. StoreInv'
  BY <1>1, <1>2, <1>3, SendingKeeps DEF FilesInv
<1>5. QED
  BY <1>3, <1>4

LEMMA SelectRootKeeps ==
  ASSUME FilesInv, NEW r \in files.roots, selectRoot(r)
  PROVE  StoreInv' /\ confirmRestart' \in BOOLEAN
<1>1. r \in Root /\ StoreOK(files) /\ CallsOK(fileCalls)
      /\ (files.saving => InFlight(fileCalls, {"write"}))
  BY DEF FilesInv, StoreInv, StoreOK, BusyOK
<1>2. CanSend(fileCalls) /\ Select(fileCalls, files, r) /\ confirmRestart' = confirmRestart
  BY DEF selectRoot
<1>3. QED
  BY <1>1, <1>2, SelectKeeps DEF FilesInv

LEMMA NavigateToKeeps ==
  ASSUME FilesInv, NEW p, navigateTo(p)
  PROVE  StoreInv' /\ confirmRestart' \in BOOLEAN
<1>1. StoreOK(files) /\ CallsOK(fileCalls) /\ (files.saving => InFlight(fileCalls, {"write"}))
  BY DEF FilesInv, StoreInv, BusyOK
<1>2. CanSend(fileCalls) /\ Navigate(fileCalls, files, files.activeRootId, p)
      /\ confirmRestart' = confirmRestart
  BY DEF navigateTo
<1>3. QED
  BY <1>1, <1>2, NavigateKeeps DEF FilesInv

LEMMA OpenFilePathKeeps ==
  ASSUME FilesInv, NEW p, openFilePath(p)
  PROVE  StoreInv' /\ confirmRestart' \in BOOLEAN
<1> DEFINE req == [op |-> "read", root |-> files.activeRootId, path |-> p]
<1>1. GoodRequest(req) /\ req.op \in Loading
  BY DEF GoodRequest, Loading
<1>2. StoreOK(files') /\ files'.saving = files.saving
  BY DEF openFilePath, FilesInv, StoreInv, StoreOK
<1>3. CanSend(fileCalls) /\ fileCalls' = Send(fileCalls, req) /\ confirmRestart' = confirmRestart
  BY DEF openFilePath
<1> HIDE DEF req
<1>4. StoreInv'
  BY <1>1, <1>2, <1>3, SendingKeeps DEF FilesInv
<1>5. QED
  BY <1>3, <1>4 DEF FilesInv

LEMMA CloseFileKeeps ==
  ASSUME FilesInv, closeFile
  PROVE  StoreInv' /\ confirmRestart' \in BOOLEAN
<1>1. StoreOK(files') /\ files'.saving = files.saving /\ files'.loading = files.loading
  BY DEF closeFile, FilesInv, StoreInv, StoreOK
<1>2. QED
  BY <1>1 DEF closeFile, FilesInv, StoreInv, BusyOK

\* Typing leaves the file of the document, and what is typed belongs to it.
LEMMA SetContentKeeps ==
  ASSUME FilesInv, NEW t \in Text, setContent(t)
  PROVE  StoreInv' /\ confirmRestart' \in BOOLEAN
<1> DEFINE doc  == files.openFile
           text == [of |-> Target(doc), text |-> t]
           new  == [doc EXCEPT !.content = text]
<1>1. GoodDoc(doc) /\ ~doc.readonly /\ StoreOK(files)
  BY DEF setContent, Editable, FilesInv, StoreInv, StoreOK
<1>2. text \in Content /\ text.of = Target(doc)
  BY <1>1 DEF GoodDoc, Content
<1>3. files' = [files EXCEPT !.openFile = new]
  BY DEF setContent
<1> HIDE DEF doc, text
<1>4. GoodDoc(new)
  BY <1>1, <1>2 DEF GoodDoc, Target
<1> HIDE DEF new
<1>5. StoreOK(files') /\ files'.saving = files.saving /\ files'.loading = files.loading
  BY <1>1, <1>3, <1>4 DEF StoreOK
<1>6. QED
  BY <1>5 DEF setContent, FilesInv, StoreInv, BusyOK

\* Save captures a document that can be edited.
LEMMA SaveKeeps ==
  ASSUME FilesInv, NEW then \in {"stop", "restart"}, Save(then)
  PROVE  StoreInv' /\ confirmRestart' \in BOOLEAN
<1> DEFINE req == [op |-> "write", doc |-> files.openFile, then |-> then]
<1>1. GoodDoc(files.openFile) /\ ~files.openFile.readonly
  BY DEF Save, Editable, FilesInv, StoreInv, StoreOK
<1>2. GoodRequest(req) /\ req.op = "write"
  BY <1>1 DEF GoodRequest, GoodDoc
<1>3. StoreOK(files') /\ files'.loading = files.loading
  BY DEF Save, FilesInv, StoreInv, StoreOK
<1>4. CanSend(fileCalls) /\ fileCalls' = Send(fileCalls, req) /\ confirmRestart' = confirmRestart
  BY DEF Save
<1> HIDE DEF req
<1>5. StoreInv'
  BY <1>2, <1>3, <1>4, SendingKeeps DEF FilesInv
<1>6. QED
  BY <1>4, <1>5 DEF FilesInv

-----------------------------------------------------------------------------
(* Part 4: the code after the awaits.                                      *)

\* An answer has been handled: its spinner ends, its call is over.
LEMMA SettlingKeeps ==
  ASSUME StoreInv, NEW s \in DOMAIN fileCalls, fileCalls' = Settled(fileCalls, s), StoreOK(files'),
         fileCalls[s].req.op \in Loading => ~files'.loading,
         fileCalls[s].req.op = "write" => ~files'.saving,
         files'.loading => files.loading, files'.saving => files.saving
  PROVE  StoreInv'
<1>1. CallsOK(fileCalls')
  BY SettledKeeps DEF StoreInv
<1>2. /\ files'.loading => InFlight(fileCalls', Loading)
      /\ files'.saving => InFlight(fileCalls', {"write"})
  BY SettledBusy DEF StoreInv, BusyOK
<1>3. QED
  BY <1>1, <1>2 DEF StoreInv, BusyOK

LEMMA GotRootsKeeps ==
  ASSUME FilesInv, NEW s \in Replied(fileCalls), fileCalls[s].req.op = "roots", GotRoots(s)
  PROVE  StoreInv' /\ confirmRestart' \in BOOLEAN
<1> DEFINE got   == [files EXCEPT !.roots = fileCalls[s].body]
           calls == Settled(fileCalls, s)
<1>1. s \in DOMAIN fileCalls /\ fileCalls[s].state = "ok" /\ confirmRestart' \in BOOLEAN
  BY DEF GotRoots, Ok, Replied, FilesInv
<1>2. fileCalls[s].body \subseteq Root
  BY <1>1 DEF FilesInv, StoreInv, CallsOK, GoodCall, GoodBody
<1>3. StoreOK(got) /\ got.saving = files.saving
  BY <1>2 DEF FilesInv, StoreInv, StoreOK
<1>4. CallsOK(calls) /\ CanSend(calls) /\ (got.saving => InFlight(calls, {"write"}))
  BY <1>1, <1>3, SettledKeeps, SettledBusy DEF FilesInv, StoreInv, BusyOK
<1>5. IF files.activeRootId = Nothing /\ got.roots # {}
      THEN Select(calls, got, FirstRoot)
      ELSE files' = [got EXCEPT !.loading = FALSE] /\ fileCalls' = calls
  BY DEF GotRoots
<1>6. FirstRoot \in Root
  BY FilesAssumption DEF FirstRoot
<1> HIDE DEF got, calls
<1>7. CASE Select(calls, got, FirstRoot)
  BY <1>1, <1>3, <1>4, <1>6, <1>7, SelectKeeps
<1>8. CASE files' = [got EXCEPT !.loading = FALSE] /\ fileCalls' = calls
  <2>1. StoreOK(files') /\ ~files'.loading /\ files'.saving = got.saving
    BY <1>3, <1>8 DEF StoreOK
  <2>2. QED
    BY <1>1, <1>4, <1>8, <2>1 DEF StoreInv, BusyOK
<1>9. QED
  BY <1>5, <1>7, <1>8

LEMMA NoRootsKeeps ==
  ASSUME FilesInv, NEW s \in Replied(fileCalls), fileCalls[s].req.op = "roots", NoRoots(s)
  PROVE  StoreInv' /\ confirmRestart' \in BOOLEAN
<1>1. s \in DOMAIN fileCalls /\ fileCalls' = Settled(fileCalls, s) /\ confirmRestart' \in BOOLEAN
  BY DEF NoRoots, Replied, FilesInv
<1>2. StoreOK(files') /\ ~files'.loading /\ files'.saving = files.saving
  BY DEF NoRoots, FilesInv, StoreInv, StoreOK
<1>3. QED
  BY <1>1, <1>2, SettlingKeeps DEF FilesInv

LEMMA ShowItemsKeeps ==
  ASSUME FilesInv, NEW s \in Replied(fileCalls), fileCalls[s].req.op = "list", ShowItems(s)
  PROVE  StoreInv' /\ confirmRestart' \in BOOLEAN
<1>1. s \in DOMAIN fileCalls /\ fileCalls' = Settled(fileCalls, s) /\ confirmRestart' \in BOOLEAN
  BY DEF ShowItems, Replied, FilesInv
<1>2. PICK items : files' = [files EXCEPT !.loading = FALSE, !.items = items]
  BY DEF ShowItems
<1>3. StoreOK(files') /\ ~files'.loading /\ files'.saving = files.saving
  BY <1>2 DEF FilesInv, StoreInv, StoreOK
<1>4. QED
  BY <1>1, <1>3, SettlingKeeps DEF FilesInv

\* The answer is of the file that was asked for, whichever root is shown by now.
LEMMA ShowFileKeeps ==
  ASSUME FilesInv, NEW s \in Replied(fileCalls), fileCalls[s].req.op = "read", ShowFile(s)
  PROVE  StoreInv' /\ confirmRestart' \in BOOLEAN
<1> DEFINE call == fileCalls[s]
           doc  == Document(call.req, call.body)
<1>1. s \in DOMAIN fileCalls /\ fileCalls' = Settled(fileCalls, s) /\ confirmRestart' \in BOOLEAN
  BY DEF ShowFile, Replied, FilesInv
<1>2. PICK open : /\ files' = [files EXCEPT !.loading = FALSE, !.openFile = open]
                  /\ open = files.openFile \/ (call.state = "ok" /\ open = doc)
  BY DEF ShowFile, Ok
<1>3. ASSUME call.state = "ok" PROVE GoodDoc(doc)
  <2>1. GoodBody(call.req, call.body)
    BY <1>1, <1>3 DEF FilesInv, StoreInv, CallsOK, GoodCall
  <2>2. QED
    BY <2>1 DEF GoodBody, GoodDoc, Document, Target
<1> HIDE DEF call, doc
<1>4. open = Nothing \/ GoodDoc(open)
  BY <1>2, <1>3 DEF FilesInv, StoreInv, StoreOK
<1>5. StoreOK(files') /\ ~files'.loading /\ files'.saving = files.saving
  BY <1>2, <1>4 DEF FilesInv, StoreInv, StoreOK
<1>6. QED
  BY <1>1, <1>5, SettlingKeeps DEF FilesInv

\* The document that comes back as the open one is the one that was saved.
LEMMA SavedKeeps ==
  ASSUME FilesInv, NEW s \in Replied(fileCalls), fileCalls[s].req.op = "write", Saved(s)
  PROVE  StoreInv' /\ confirmRestart' \in BOOLEAN
<1> DEFINE doc   == fileCalls[s].req.doc
           new   == Reopened(doc)
           calls == Settled(fileCalls, s)
           req   == [op |-> "restart", root |-> files'.openFile.rootId]
<1>1. s \in DOMAIN fileCalls /\ confirmRestart' \in BOOLEAN
  BY DEF Saved, Replied, FilesInv
<1>2. GoodDoc(doc)
  BY <1>1 DEF FilesInv, StoreInv, CallsOK, GoodCall, GoodRequest
<1>3. files' = [files EXCEPT !.saving = FALSE, !.openFile = new]
      /\ (fileCalls' = calls \/ fileCalls' = Send(calls, req))
  BY DEF Saved
<1> HIDE DEF doc
<1>4. GoodDoc(new)
  BY <1>2 DEF GoodDoc, Reopened, Target
<1> HIDE DEF new
<1>5. StoreOK(files') /\ ~files'.saving /\ files'.loading = files.loading
  BY <1>3, <1>4 DEF FilesInv, StoreInv, StoreOK
<1>6. CallsOK(calls) /\ CanSend(calls) /\ (files.loading => InFlight(calls, Loading))
  <2>1. fileCalls[s].req.op \notin Loading
    BY DEF Loading
  <2>2. QED
    BY <1>1, <2>1, SettledKeeps, SettledBusy DEF FilesInv, StoreInv, BusyOK
<1>7. GoodRequest(req)
  BY DEF GoodRequest
<1> HIDE DEF calls, req
<1>8. CallsOK(fileCalls') /\ (files.loading => InFlight(fileCalls', Loading))
  BY <1>3, <1>6, <1>7, SendKeeps, SendBusy
<1>9. QED
  BY <1>1, <1>5, <1>8 DEF StoreInv, BusyOK

LEMMA SaveFailedKeeps ==
  ASSUME FilesInv, NEW s \in Replied(fileCalls), fileCalls[s].req.op = "write", SaveFailed(s)
  PROVE  StoreInv' /\ confirmRestart' \in BOOLEAN
<1>1. s \in DOMAIN fileCalls /\ fileCalls' = Settled(fileCalls, s) /\ confirmRestart' \in BOOLEAN
  BY DEF SaveFailed, Replied, FilesInv
<1>2. StoreOK(files') /\ ~files'.saving /\ files'.loading = files.loading
  BY DEF SaveFailed, FilesInv, StoreInv, StoreOK
<1>3. fileCalls[s].req.op \notin Loading
  BY DEF Loading
<1>4. QED
  BY <1>1, <1>2, <1>3, SettlingKeeps DEF FilesInv

LEMMA RestartedKeeps ==
  ASSUME FilesInv, NEW s \in Replied(fileCalls), fileCalls[s].req.op = "restart", Restarted(s)
  PROVE  StoreInv' /\ confirmRestart' \in BOOLEAN
<1>1. s \in DOMAIN fileCalls /\ fileCalls' = Settled(fileCalls, s) /\ confirmRestart' \in BOOLEAN
      /\ files' = files
  BY DEF Restarted, Replied
<1>2. fileCalls[s].req.op \notin Loading
  BY DEF Loading
<1>3. QED
  BY <1>1, <1>2, SettlingKeeps DEF FilesInv, StoreInv

LEMMA ResumeKeeps ==
  ASSUME FilesInv, NEW s \in Replied(fileCalls), Resume(s)
  PROVE  StoreInv' /\ confirmRestart' \in BOOLEAN
BY GotRootsKeeps, NoRootsKeeps, ShowItemsKeeps, ShowFileKeeps, SavedKeeps, SaveFailedKeeps,
   RestartedKeeps DEF Resume

-----------------------------------------------------------------------------
(* Part 5: the server.                                                     *)

LEMMA AnswerKeeps ==
  ASSUME StoreInv, NEW s \in Sent(fileCalls), NEW body, GoodBody(fileCalls[s].req, body),
         Answer(s, body), files' = files
  PROVE  StoreInv'
<1>1. s \in DOMAIN fileCalls
  BY DEF Sent
<1>2. CallsOK(fileCalls') /\ Continue(fileCalls, fileCalls')
  BY <1>1, AnsweredKeeps, FailedKeeps DEF Answer, StoreInv
<1>3. BusyOK(files', fileCalls')
  BY <1>2, ContinueBusy DEF StoreInv, BusyOK
<1>4. QED
  BY <1>2, <1>3 DEF StoreInv

LEMMA RefusalKeeps ==
  ASSUME StoreInv, NEW s \in Sent(fileCalls), fileCalls' = Failed(fileCalls, s), files' = files
  PROVE  StoreInv'
<1>1. s \in DOMAIN fileCalls
  BY DEF Sent
<1>2. CallsOK(fileCalls') /\ Continue(fileCalls, fileCalls')
  BY <1>1, FailedKeeps DEF StoreInv
<1>3. BusyOK(files', fileCalls')
  BY <1>2, ContinueBusy DEF StoreInv, BusyOK
<1>4. QED
  BY <1>2, <1>3 DEF StoreInv

LEMMA ServeReadKeeps ==
  ASSUME FilesInv, NEW s \in Sent(fileCalls), ServeRead(s), files' = files
  PROVE  StoreInv'
<1> DEFINE req == fileCalls[s].req
<1>1. CASE req.op = "roots" /\ Answer(s, Root)
  <2>1. GoodBody(req, Root)
    BY <1>1 DEF GoodBody
  <2>2. QED
    BY <1>1, <2>1, AnswerKeeps DEF FilesInv
<1>2. CASE req.op = "list" /\ Answer(s, Entries(req.root, req.path))
  <2>1. GoodBody(req, Entries(req.root, req.path))
    BY <1>2 DEF GoodBody
  <2>2. QED
    BY <1>2, <2>1, AnswerKeeps DEF FilesInv
<1>3. CASE req.op = "restart" /\ Answer(s, Nothing)
  <2>1. GoodBody(req, Nothing)
    BY <1>3 DEF GoodBody
  <2>2. QED
    BY <1>3, <2>1, AnswerKeeps DEF FilesInv
<1>4. CASE /\ req.op = "read" /\ <<req.root, req.path>> \in File
           /\ Answer(s, [path |-> req.path, content |-> disk[<<req.root, req.path>>],
                         readonly |-> req.root \in ReadonlyRoot])
  <2> DEFINE body == [path |-> req.path, content |-> disk[<<req.root, req.path>>],
                      readonly |-> req.root \in ReadonlyRoot]
  <2>1. disk[<<req.root, req.path>>] \in Content
        /\ disk[<<req.root, req.path>>].of = <<req.root, req.path>>
    BY <1>4 DEF FilesInv, DiskInv
  <2>2. body.path = req.path /\ body.content = disk[<<req.root, req.path>>]
        /\ body.readonly = (req.root \in ReadonlyRoot)
    BY Zenon
  <2> HIDE DEF body
  <2>3. body.readonly \in BOOLEAN /\ (~body.readonly => req.root \notin ReadonlyRoot)
    <3>1. (req.root \in ReadonlyRoot) \in BOOLEAN
      OBVIOUS
    <3>2. QED
      BY <2>2, <3>1, Zenon
  <2>4. GoodBody(req, body)
    BY <1>4, <2>1, <2>2, <2>3 DEF GoodBody
  <2>5. Answer(s, body)
    BY <1>4 DEF body
  <2>6. QED
    BY <2>4, <2>5, AnswerKeeps DEF FilesInv
<1>5. CASE fileCalls' = Failed(fileCalls, s)
  BY <1>5, RefusalKeeps DEF FilesInv
<1>6. QED
  BY <1>1, <1>2, <1>3, <1>4, <1>5 DEF ServeRead

\* A write stores a text below the name it belongs to.
LEMMA ServeWriteKeeps ==
  ASSUME FilesInv, NEW s \in Sent(fileCalls), ServeWrite(s), files' = files
  PROVE  StoreInv' /\ DiskInv'
<1> DEFINE req == fileCalls[s].req
<1>1. s \in DOMAIN fileCalls /\ req.op = "write" /\ GoodDoc(req.doc)
  BY DEF Sent, ServeWrite, FilesInv, StoreInv, CallsOK, GoodCall, GoodRequest
<1>2. CASE /\ disk' = [disk EXCEPT ![Target(req.doc)] = req.doc.content]
           /\ Answer(s, Nothing)
  <2>1. GoodBody(req, Nothing)
    BY <1>1 DEF GoodBody
  <2>2. StoreInv'
    BY <1>2, <2>1, AnswerKeeps DEF FilesInv
  <2>3. Target(req.doc) \in File /\ req.doc.content \in Content
        /\ req.doc.content.of = Target(req.doc)
    BY <1>1 DEF GoodDoc
  <2>4. DiskInv'
    BY <1>2, <2>3 DEF FilesInv, DiskInv
  <2>5. QED
    BY <2>2, <2>4
<1>3. CASE fileCalls' = Failed(fileCalls, s) /\ UNCHANGED disk
  BY <1>3, RefusalKeeps DEF FilesInv, DiskInv
<1>4. QED
  BY <1>2, <1>3 DEF ServeWrite

-----------------------------------------------------------------------------
(* Part 6: every step keeps the invariant.                                 *)

LEMMA FilesUserKeeps ==
  ASSUME FilesInv, FilesUser
  PROVE  StoreInv' /\ confirmRestart' \in BOOLEAN
<1>1. CASE fetchRoots
  BY <1>1, FetchRootsKeeps
<1>2. CASE closeFile
  BY <1>2, CloseFileKeeps
<1>3. CASE SaveButton \/ CtrlS
  BY <1>3, SaveKeeps DEF SaveButton, CtrlS
<1>4. CASE handleSaveAndRestart
  <2>1. CASE confirmRestart' = TRUE /\ UNCHANGED <<files, fileCalls>>
    BY <2>1 DEF FilesInv, StoreInv
  <2>2. CASE Save("restart")
    BY <2>2, SaveKeeps
  <2>3. QED
    BY <1>4, <2>1, <2>2 DEF handleSaveAndRestart
<1>5. CASE ConfirmTimeout
  BY <1>5 DEF ConfirmTimeout, FilesInv, StoreInv
<1>6. ASSUME NEW r \in files.roots, selectRoot(r) PROVE StoreInv' /\ confirmRestart' \in BOOLEAN
  BY <1>6, SelectRootKeeps
<1>7. ASSUME NEW p, navigateTo(p) PROVE StoreInv' /\ confirmRestart' \in BOOLEAN
  BY <1>7, NavigateToKeeps
<1>8. ASSUME NEW p, openFilePath(p) PROVE StoreInv' /\ confirmRestart' \in BOOLEAN
  BY <1>8, OpenFilePathKeeps
<1>9. ASSUME NEW t \in Text, setContent(t) PROVE StoreInv' /\ confirmRestart' \in BOOLEAN
  BY <1>9, SetContentKeeps
<1>10. ASSUME NEW s \in Replied(fileCalls), Resume(s)
       PROVE  StoreInv' /\ confirmRestart' \in BOOLEAN
  BY <1>10, ResumeKeeps
<1>11. QED
  BY <1>1, <1>2, <1>3, <1>4, <1>5, <1>6, <1>7, <1>8, <1>9, <1>10 DEF FilesUser

LEMMA FilesInvStep == FilesInv /\ [FilesNext]_fileVars => FilesInv'
<1> SUFFICES ASSUME FilesInv, [FilesNext]_fileVars PROVE FilesInv'
  OBVIOUS
<1>1. CASE FilesUser /\ UNCHANGED disk
  BY <1>1, FilesUserKeeps DEF FilesInv, DiskInv
<1>2. CASE FileServer
  <2>1. PICK s \in Sent(fileCalls) :
          /\ (ServeRead(s) /\ UNCHANGED disk) \/ ServeWrite(s)
          /\ UNCHANGED <<files, confirmRestart>>
    BY <1>2 DEF FileServer
  <2>2. StoreInv' /\ DiskInv'
    BY <2>1, ServeReadKeeps, ServeWriteKeeps DEF FilesInv, DiskInv
  <2>3. QED
    BY <2>1, <2>2 DEF FilesInv
<1>3. CASE UNCHANGED fileVars
  BY <1>3 DEF fileVars, FilesInv, StoreInv, DiskInv
<1>4. QED
  BY <1>1, <1>2, <1>3 DEF FilesNext

LEMMA FilesInvAlways == FilesSpec => []FilesInv
BY FilesInvInit, FilesInvStep, PTL DEF FilesSpec

\* The open file is always a file of the server with its own texts.
THEOREM FilesTyped == FilesSpec => []FilesTypeOK
BY FilesInvAlways, FilesInvSays, PTL

\* A spinner and the word Saving have a call in flight that ends them, however
\* many listings, reads and writes overlap.
THEOREM FilesNeverStuck == FilesSpec => []FilesBusy
BY FilesInvAlways, FilesInvSays, PTL

\* A write carries the texts of the file it writes, outside the read-only roots,
\* for any number of roots and files and any interleaving of tabs and answers.
THEOREM WritesStay == FilesSpec => []WritesStayInFile
BY FilesInvAlways, FilesInvSays, PTL

-----------------------------------------------------------------------------
(* Part 7: restarts.                                                       *)

\* Whatever restarts in the new calls did so in the old ones.
Tame(old, new) ==
  \A s \in DOMAIN new : new[s].req.op = "restart" =>
                          s \in DOMAIN old /\ old[s].req.op = "restart"

LEMMA SendTame ==
  ASSUME NEW calls, NEW req
  PROVE  /\ \A s \in DOMAIN Send(calls, req) :
              \/ s \in DOMAIN calls /\ Send(calls, req)[s] = calls[s]
              \/ s \notin DOMAIN calls /\ Send(calls, req)[s].req = req
         /\ req.op # "restart" => Tame(calls, Send(calls, req))
<1>1. \A s \in DOMAIN Send(calls, req) :
        \/ s \in DOMAIN calls /\ Send(calls, req)[s] = calls[s]
        \/ s \notin DOMAIN calls /\ Send(calls, req)[s].req = req
  BY DEF Send
<1>2. QED
  BY <1>1 DEF Tame

LEMMA SettledTame ==
  ASSUME NEW calls, NEW s
  PROVE  Tame(calls, Settled(calls, s))
BY DEF Settled, Tame

LEMMA NavigateTame ==
  ASSUME NEW calls, NEW store, NEW r, NEW p, Navigate(calls, store, r, p)
  PROVE  Tame(calls, fileCalls')
<1>1. fileCalls' = Send(calls, [op |-> "list", root |-> r, path |-> p])
  BY DEF Navigate
<1>2. QED
  BY <1>1, SendTame

LEMMA SelectTame ==
  ASSUME NEW calls, NEW store, NEW r, Select(calls, store, r)
  PROVE  Tame(calls, fileCalls')
<1>1. Navigate(calls, [store EXCEPT !.activeRootId = r, !.openFile = Nothing], r, <<>>)
  BY DEF Select
<1>2. QED
  BY <1>1, NavigateTame

LEMMA SaveTame ==
  ASSUME NEW then, Save(then)
  PROVE  Tame(fileCalls, fileCalls')
<1>1. fileCalls' = Send(fileCalls, [op |-> "write", doc |-> files.openFile, then |-> then])
  BY DEF Save
<1>2. QED
  BY <1>1, SendTame

LEMMA SameTame == UNCHANGED fileCalls => Tame(fileCalls, fileCalls')
BY DEF Tame

\* The answers to the calls but for that of a write.
LEMMA ResumeTame ==
  ASSUME NEW s \in Replied(fileCalls), Resume(s)
  PROVE  Tame(fileCalls, fileCalls') \/ (fileCalls[s].req.op = "write" /\ Saved(s))
<1> DEFINE calls == Settled(fileCalls, s)
<1>1. Tame(fileCalls, calls)
  BY SettledTame
<1> HIDE DEF calls
<1>2. CASE GotRoots(s)
  <2>1. fileCalls' = calls \/ \E store, r : Select(calls, store, r)
    BY <1>2 DEF GotRoots, calls
  <2>2. Tame(calls, fileCalls')
    BY <2>1, SelectTame DEF Tame
  <2>3. QED
    BY <1>1, <2>2 DEF Tame
<1>3. CASE NoRoots(s) \/ ShowItems(s) \/ ShowFile(s) \/ SaveFailed(s) \/ Restarted(s)
  BY <1>1, <1>3 DEF NoRoots, ShowItems, ShowFile, SaveFailed, Restarted, calls
<1>4. QED
  BY <1>2, <1>3 DEF Resume

LEMMA UserTame ==
  ASSUME FilesUser
  PROVE  \/ Tame(fileCalls, fileCalls')
         \/ \E w \in Replied(fileCalls) : fileCalls[w].req.op = "write" /\ Saved(w)
<1>1. CASE fetchRoots
  <2>1. fileCalls' = Send(fileCalls, [op |-> "roots"])
    BY <1>1 DEF fetchRoots
  <2>2. QED
    BY <2>1, SendTame
<1>2. CASE closeFile \/ ConfirmTimeout
  BY <1>2, SameTame DEF closeFile, ConfirmTimeout
<1>3. CASE SaveButton \/ CtrlS
  BY <1>3, SaveTame DEF SaveButton, CtrlS
<1>4. CASE handleSaveAndRestart
  BY <1>4, SaveTame, SameTame DEF handleSaveAndRestart
<1>5. ASSUME NEW r \in files.roots, selectRoot(r) PROVE Tame(fileCalls, fileCalls')
  BY <1>5, SelectTame DEF selectRoot
<1>6. ASSUME NEW p, navigateTo(p) PROVE Tame(fileCalls, fileCalls')
  BY <1>6, NavigateTame DEF navigateTo
<1>7. ASSUME NEW p, openFilePath(p) PROVE Tame(fileCalls, fileCalls')
  <2>1. fileCalls' = Send(fileCalls, [op |-> "read", root |-> files.activeRootId, path |-> p])
    BY <1>7 DEF openFilePath
  <2>2. QED
    BY <2>1, SendTame
<1>8. ASSUME NEW t \in Text, setContent(t) PROVE Tame(fileCalls, fileCalls')
  BY <1>8, SameTame DEF setContent
<1>9. ASSUME NEW s \in Replied(fileCalls), Resume(s)
      PROVE  \/ Tame(fileCalls, fileCalls')
             \/ fileCalls[s].req.op = "write" /\ Saved(s)
  BY <1>9, ResumeTame
<1>10. QED
  BY <1>1, <1>2, <1>3, <1>4, <1>5, <1>6, <1>7, <1>8, <1>9 DEF FilesUser

LEMMA ServerTame ==
  ASSUME FilesInv, FileServer
  PROVE  Tame(fileCalls, fileCalls')
<1>1. PICK s \in Sent(fileCalls) : ServeRead(s) \/ ServeWrite(s)
  BY DEF FileServer
<1>2. s \in DOMAIN fileCalls /\ CallsOK(fileCalls)
  BY DEF Sent, FilesInv, StoreInv
<1>3. fileCalls' = Failed(fileCalls, s) \/ \E body : fileCalls' = Answered(fileCalls, s, body)
  BY <1>1 DEF ServeRead, ServeWrite, Answer
<1>4. GoodCall(fileCalls[s])
  BY <1>2 DEF CallsOK
<1>5. ASSUME NEW new, new = Failed(fileCalls, s) \/ \E body : new = Answered(fileCalls, s, body)
      PROVE  DOMAIN new = DOMAIN fileCalls /\ \A t \in DOMAIN new : new[t].req = fileCalls[t].req
  <2>1. PICK call : new = [fileCalls EXCEPT ![s] = call] /\ call.req = fileCalls[s].req
    <3>1. \E st, body : new = [fileCalls EXCEPT ![s] = [@ EXCEPT !.state = st, !.body = body]]
      <4>1. Failed(fileCalls, s)
              = [fileCalls EXCEPT ![s] = [@ EXCEPT !.state = "failed", !.body = fileCalls[s].body]]
        BY <1>4 DEF Failed, GoodCall
      <4>2. QED
        BY <1>5, <4>1 DEF Answered
    <3>2. QED
      BY <1>4, <3>1 DEF GoodCall
  <2>2. QED
    BY <1>2, <2>1 DEF CallsOK
<1>6. QED
  BY <1>3, <1>5 DEF Tame

\* A write that has been stored is followed by the restart of its own root, if the
\* second button sent it.
LEMMA SavedRestarts ==
  ASSUME FilesInv, NEW w \in Replied(fileCalls), fileCalls[w].req.op = "write", Saved(w),
         NEW s \in DOMAIN fileCalls', fileCalls'[s].req.op = "restart",
         ~(s \in DOMAIN fileCalls /\ fileCalls[s].req.op = "restart")
  PROVE  /\ Ok(fileCalls, w) /\ fileCalls[w].req.then = "restart"
         /\ fileCalls[w].req.doc.rootId = fileCalls'[s].req.root
<1> DEFINE doc   == fileCalls[w].req.doc
           calls == Settled(fileCalls, w)
           req   == [op |-> "restart", root |-> files'.openFile.rootId]
<1>1. w \in DOMAIN fileCalls /\ Tame(fileCalls, calls)
  BY SettledTame DEF Replied
<1>2. GoodDoc(doc) /\ fileCalls[w].req.then \in {"stop", "restart"}
  BY <1>1 DEF FilesInv, StoreInv, CallsOK, GoodCall, GoodRequest
<1>3. /\ Ok(fileCalls, w)
      /\ files' = [files EXCEPT !.saving = FALSE, !.openFile = Reopened(doc)]
      /\ fileCalls' = IF fileCalls[w].req.then = "stop" THEN calls ELSE Send(calls, req)
  BY DEF Saved
<1> HIDE DEF calls, doc
<1>4. fileCalls[w].req.then = "restart" /\ fileCalls' = Send(calls, req)
  BY <1>1, <1>2, <1>3 DEF Tame
<1>5. fileCalls'[s].req = req
  BY <1>1, <1>4, SendTame DEF Tame
<1>6. files'.openFile = Reopened(doc)
  BY <1>3 DEF FilesInv, StoreInv, StoreOK
<1>7. Reopened(doc).rootId = doc.rootId
  BY <1>2 DEF Reopened, GoodDoc
<1>8. QED
  BY <1>3, <1>4, <1>5, <1>6, <1>7 DEF doc

\* Only a save that the server confirmed restarts a service, and only the service
\* of the root it saved in, whatever was opened while it was under way.
THEOREM RestartsFollowSaves == FilesSpec => RestartFollowsSave
<1>1. FilesInv /\ [FilesNext]_fileVars => RestartIsOfSave
  <2> SUFFICES ASSUME FilesInv, [FilesNext]_fileVars,
                      NEW s \in Slots, Restarts(fileCalls', s), ~Restarts(fileCalls, s)
               PROVE  \E w \in Replied(fileCalls) :
                        /\ fileCalls[w].req.op = "write" /\ Ok(fileCalls, w)
                        /\ fileCalls[w].req.then = "restart"
                        /\ fileCalls[w].req.doc.rootId = fileCalls'[s].req.root
    BY DEF RestartIsOfSave
  <2>1. ~Tame(fileCalls, fileCalls')
    BY DEF Tame, Restarts
  <2>2. FilesUser
    BY <2>1, ServerTame, SameTame DEF FilesNext, fileVars
  <2>3. PICK w \in Replied(fileCalls) : fileCalls[w].req.op = "write" /\ Saved(w)
    BY <2>1, <2>2, UserTame
  <2>4. QED
    BY <2>3, SavedRestarts DEF Restarts
<1>2. QED
  BY <1>1, FilesInvAlways, PTL DEF FilesSpec, RestartFollowsSave
=============================================================================
