---------------------------- MODULE UiShellProofs ----------------------------
(***************************************************************************)
(* Proofs about UiShell, for any number of calls in flight: the types,     *)
(* that no button of the page stays disabled for good, and that the access *)
(* code survives in the browser that received it.  At the end the types of *)
(* the event socket, and of the page as a whole.                           *)
(***************************************************************************)
EXTENDS MCShell, ToastsProofs, FiniteSetTheorems

-----------------------------------------------------------------------------
(* Part 1: the invariant, for any page, browser and calls, so that it can   *)
(* be stated of those that a handler passes on to GoTo.                     *)

PageOK(pg) ==
  pg \in [app : {"loading", "up", "crashed"}, info : {Nothing, "open", "locked"},
          expert : BOOLEAN, wizard : Wizard, stopping : BOOLEAN, rescuing : BOOLEAN,
          refused : BOOLEAN]

BrowserOK(br) == br \in [at : Route, token : Tokens, expert : BOOLEAN, storage : BOOLEAN]

ServerOK == server \in [locked : BOOLEAN, delivered : BOOLEAN, replaced : BOOLEAN]

Request == [op : CallOp, token : Tokens, live : BOOLEAN]

Call == [req : Request, state : {"sent", "ok", "failed"}, body : {Nothing, "open", "locked"}]

CallsOK(calls) ==
  /\ DOMAIN calls \subseteq Slots /\ calls = [s \in DOMAIN calls |-> calls[s]]
  /\ \A s \in DOMAIN calls : calls[s] \in Call

CallingIn(calls, op) == \E s \in DOMAIN calls : calls[s].req.op = op /\ calls[s].req.live

BusyIn(pg, calls) ==
  /\ pg.stopping => CallingIn(calls, "stop")
  /\ pg.rescuing => CallingIn(calls, "rescue")
  /\ pg.wizard.creating => CallingIn(calls, "create")

PageInv == PageOK(page) /\ CallsOK(shellCalls) /\ BusyIn(page, shellCalls)

KeyInv == BrowserOK(browser) /\ ServerOK /\ KeySurvives

ShellInv == PageInv /\ KeyInv

LEMMA ShellInvSays == ShellInv => ShellTypeOK /\ ShellBusy /\ KeySurvives
<1> SUFFICES ASSUME ShellInv PROVE ShellTypeOK /\ ShellBusy /\ KeySurvives
  OBVIOUS
<1>1. ShellTypeOK
  BY DEF ShellInv, PageInv, KeyInv, PageOK, BrowserOK, ServerOK, CallsOK, Call, Request, ShellTypeOK
<1>2. ShellBusy
  BY DEF ShellInv, PageInv, BusyIn, CallingIn, Calling, ShellBusy
<1>3. QED
  BY <1>1, <1>2 DEF ShellInv, KeyInv

LEMMA LoadedPageOK ==
  ASSUME NEW expert \in BOOLEAN, NEW calls
  PROVE  PageOK(LoadedPage(expert)) /\ BusyIn(LoadedPage(expert), calls)
BY DEF LoadedPage, WizardStart, PageOK, Wizard, BusyIn

LEMMA NoCallsOK == CallsOK(NoCalls)
BY DEF NoCalls, CallsOK

LEMMA ShellInvInit == ShellInit => ShellInv
<1> SUFFICES ASSUME ShellInit PROVE ShellInv
  OBVIOUS
<1>1. PageInv
  BY LoadedPageOK, NoCallsOK DEF ShellInit, PageInv
<1>2. KeyInv
  BY DEF ShellInit, KeyInv, BrowserOK, ServerOK, Tokens, KeySurvives
<1>3. QED
  BY <1>1, <1>2 DEF ShellInv

-----------------------------------------------------------------------------
(* Part 2: the calls.                                                      *)

LEMMA OpOK ==
  ASSUME NEW op \in CallOp, NEW token \in Tokens
  PROVE  Op(op, token) \in Request /\ Op(op, token).op = op /\ Op(op, token).live
BY DEF Op, Request

LEMMA SendOK ==
  ASSUME NEW calls, CallsOK(calls), CanSend(calls), NEW req \in Request
  PROVE  /\ CallsOK(Send(calls, req))
         /\ \A op : CallingIn(calls, op) => CallingIn(Send(calls, req), op)
         /\ req.live => CallingIn(Send(calls, req), req.op)
<1> DEFINE slot == FreeSlot(calls)
           call == [req |-> req, state |-> "sent", body |-> Nothing]
<1>1. slot \in Slots /\ slot \notin DOMAIN calls
  BY DEF CanSend, FreeSlot
<1>2. call \in Call /\ call.req = req
  BY DEF Call
<1>3. Send(calls, req) =
        [s \in DOMAIN calls \cup {slot} |-> IF s \in DOMAIN calls THEN calls[s] ELSE call]
  BY DEF Send
<1> HIDE DEF slot, call
<1>4. PICK sent : sent = Send(calls, req)
  OBVIOUS
<1>5. /\ DOMAIN sent = DOMAIN calls \cup {slot} /\ sent[slot] = call
      /\ \A s \in DOMAIN calls : sent[s] = calls[s]
      /\ sent = [s \in DOMAIN sent |-> sent[s]]
  BY <1>1, <1>3, <1>4
<1>6. \A s \in DOMAIN sent : sent[s] \in Call
  BY <1>2, <1>5 DEF CallsOK
<1>7. CallsOK(sent)
  BY <1>1, <1>5, <1>6 DEF CallsOK
<1>8. \A op : CallingIn(calls, op) => CallingIn(sent, op)
  BY <1>5 DEF CallingIn
<1>9. req.live => CallingIn(sent, req.op)
  BY <1>2, <1>5 DEF CallingIn
<1>10. QED
  BY <1>4, <1>7, <1>8, <1>9

LEMMA SettledOK ==
  ASSUME NEW calls, CallsOK(calls), NEW s \in DOMAIN calls
  PROVE  /\ CallsOK(Settled(calls, s))
         /\ \A op : CallingIn(calls, op) =>
                      CallingIn(Settled(calls, s), op) \/ (calls[s].req.op = op /\ calls[s].req.live)
<1>1. /\ DOMAIN Settled(calls, s) = DOMAIN calls \ {s}
      /\ \A t \in DOMAIN calls \ {s} : Settled(calls, s)[t] = calls[t]
      /\ Settled(calls, s) = [t \in DOMAIN Settled(calls, s) |-> Settled(calls, s)[t]]
  BY DEF Settled
<1>2. QED
  BY <1>1 DEF CallsOK, CallingIn

\* The handlers that a component leaves behind: the rescue of the error boundary
\* goes on, the others concern no button that is left.
LEMMA LeftOK ==
  ASSUME NEW calls, CallsOK(calls)
  PROVE  /\ CallsOK(Left(calls))
         /\ CallingIn(calls, "rescue") => CallingIn(Left(calls), "rescue")
<1> DEFINE kept == {s \in DOMAIN calls : calls[s].req.op \in {"info", "create", "rescue"}}
           left == [s \in kept |-> IF calls[s].req.op = "create"
                                   THEN [calls[s] EXCEPT !.req.live = FALSE] ELSE calls[s]]
<1>1. Left(calls) = left
  BY DEF Left
<1>2. DOMAIN left = kept /\ left = [s \in DOMAIN left |-> left[s]]
  OBVIOUS
<1>3. \A s \in kept : left[s] \in Call
  <2> TAKE s \in kept
  <2>1. calls[s] \in Call
    BY DEF CallsOK
  <2>2. [calls[s] EXCEPT !.req.live = FALSE] \in Call
    BY <2>1 DEF Call, Request
  <2>3. QED
    BY <2>1, <2>2
<1>4. \A s \in kept : calls[s].req.op # "create" => left[s] = calls[s]
  OBVIOUS
<1> HIDE DEF left
<1>5. CallsOK(left)
  BY <1>2, <1>3 DEF CallsOK
<1>6. CallingIn(calls, "rescue") => CallingIn(left, "rescue")
  BY <1>2, <1>4 DEF CallingIn
<1>7. QED
  BY <1>1, <1>5, <1>6

LEMMA RoomSends ==
  ASSUME NEW calls, Room(calls, 1)
  PROVE  CanSend(calls)
<1>1. Slots \ DOMAIN calls # {}
  BY FS_EmptySet DEF Room
<1>2. QED
  BY <1>1 DEF CanSend

-----------------------------------------------------------------------------
(* Part 3: going from one address to another.                              *)

\* What the two ways of GoTo have in common is that no busy button is left
\* without its call: between two views everything stays, and on leaving what is
\* dropped with the calls are the buttons of what was left.
LEMMA GoToOK ==
  ASSUME NEW to \in Route, NEW calls, CallsOK(calls), NEW pg, PageOK(pg), BusyIn(pg, calls),
         NEW br, BrowserOK(br), GoTo(to, calls, pg, br)
  PROVE  /\ PageInv' /\ BrowserOK(browser')
         /\ browser'.token = br.token /\ browser'.storage = br.storage
<1>1. BrowserOK(browser') /\ browser'.token = br.token /\ browser'.storage = br.storage
  BY DEF GoTo, BrowserOK
<1>2. CASE page' = pg /\ shellCalls' = calls
  BY <1>1, <1>2 DEF PageInv
<1>3. CASE /\ Room(Left(calls), 1)
           /\ shellCalls' = OnArrival(to, Left(calls), br.token)
           /\ page' = [pg EXCEPT !.app = "up", !.wizard = WizardStart, !.stopping = FALSE,
                         !.refused = FALSE]
  <2>1. br.token \in Tokens
    BY DEF BrowserOK
  <2>2. \/ shellCalls' = Left(calls) \/ shellCalls' = Send(Left(calls), Op("info", br.token))
        \/ shellCalls' = Send(Left(calls), Op("guard", br.token))
    BY <1>3 DEF OnArrival
  <2>3. Op("info", br.token) \in Request /\ Op("guard", br.token) \in Request
    BY <2>1, OpOK DEF CallOp
  <2>4. CallsOK(Left(calls)) /\ CanSend(Left(calls))
        /\ (CallingIn(calls, "rescue") => CallingIn(Left(calls), "rescue"))
    BY <1>3, LeftOK, RoomSends
  <2>5. CallsOK(shellCalls') /\ (CallingIn(calls, "rescue") => CallingIn(shellCalls', "rescue"))
    BY <2>2, <2>3, <2>4, SendOK
  <2>6. WizardStart \in Wizard /\ ~WizardStart.creating
    BY DEF WizardStart, Wizard
  <2>7. PageOK(page') /\ ~page'.stopping /\ page'.wizard = WizardStart
        /\ page'.rescuing = pg.rescuing
    BY <1>3, <2>6 DEF PageOK
  <2>8. BusyIn(page', shellCalls')
    BY <2>5, <2>6, <2>7 DEF BusyIn
  <2>9. QED
    BY <1>1, <2>5, <2>7, <2>8 DEF PageInv
<1>4. QED
  BY <1>2, <1>3 DEF GoTo

\* A page that goes somewhere with a browser that keeps the code if it must.
LEMMA GoToStores ==
  ASSUME NEW to \in Route, NEW calls, CallsOK(calls), NEW pg, PageOK(pg),
         BusyIn(pg, calls), NEW br, BrowserOK(br), GoTo(to, calls, pg, br), ServerOK',
         server'.delivered /\ br.storage /\ ~server'.replaced => br.token = "code"
  PROVE  ShellInv'
<1>1. /\ PageInv' /\ BrowserOK(browser')
      /\ browser'.token = br.token /\ browser'.storage = br.storage
  BY GoToOK
<1>2. KeySurvives'
  BY <1>1 DEF KeySurvives
<1>3. QED
  BY <1>1, <1>2 DEF ShellInv, KeyInv

\* A page that goes somewhere with what the browser has.
LEMMA GoToKeeps ==
  ASSUME KeyInv, NEW to \in Route, NEW calls, CallsOK(calls), NEW pg, PageOK(pg),
         BusyIn(pg, calls), NEW br, BrowserOK(br), GoTo(to, calls, pg, br),
         br.storage = browser.storage, br.token = browser.token, UNCHANGED server
  PROVE  ShellInv'
<1>1. ServerOK' /\ (server'.delivered /\ br.storage /\ ~server'.replaced => br.token = "code")
  BY DEF KeyInv, KeySurvives, ServerOK
<1>2. QED
  BY <1>1, GoToStores

-----------------------------------------------------------------------------
(* Part 4: mounting, loading, and the buttons of Layout.                   *)

LEMMA RoutesAre == UnderLayout \subseteq Route /\ "/setup" \in Route /\ "/" \in Route
BY DEF UnderLayout, Route

LEMMA OpenedIsRoute ==
  ASSUME NEW to \in Route, NEW expert
  PROVE  Opened(to, expert) \in Route
BY DEF Opened, Route

\* The parts of the invariant that GoToKeeps asks for.
LEMMA ShellInvParts ==
  ASSUME ShellInv
  PROVE  /\ PageOK(page) /\ CallsOK(shellCalls) /\ BusyIn(page, shellCalls) /\ KeyInv
         /\ BrowserOK(browser) /\ browser.at \in Route /\ page.expert \in BOOLEAN
         /\ browser.token \in Tokens
BY DEF ShellInv, PageInv, KeyInv, BrowserOK, PageOK

LEMMA MountAppKeeps == ASSUME ShellInv, MountApp PROVE ShellInv'
BY ShellInvParts, OpenedIsRoute, GoToKeeps DEF MountApp

LEMMA NavLinkKeeps == ASSUME ShellInv, NEW to \in Route, NavLink(to) PROVE ShellInv'
BY ShellInvParts, GoToKeeps DEF NavLink

LEMMA RedirectToSetupKeeps == ASSUME ShellInv, RedirectToSetup PROVE ShellInv'
BY ShellInvParts, RoutesAre, GoToKeeps DEF RedirectToSetup

LEMMA ToggleModeKeeps == ASSUME ShellInv, toggleMode PROVE ShellInv'
<1> DEFINE expert == ~page.expert
           stored == browser.storage /\ expert
<1>1. expert \in BOOLEAN /\ stored \in BOOLEAN /\ browser.at \in Route
  BY ShellInvParts
<1>2. /\ GoTo(Opened(browser.at, expert), shellCalls, [page EXCEPT !.expert = expert],
              [browser EXCEPT !.expert = stored])
      /\ UNCHANGED server
  BY DEF toggleMode
<1> HIDE DEF expert, stored
<1>3. PICK pg, br : pg = [page EXCEPT !.expert = expert] /\ br = [browser EXCEPT !.expert = stored]
  OBVIOUS
<1>4. PageOK(pg) /\ pg.stopping = page.stopping /\ pg.rescuing = page.rescuing
      /\ pg.wizard = page.wizard
  BY <1>1, <1>3, ShellInvParts DEF PageOK
<1>5. BrowserOK(br) /\ br.storage = browser.storage /\ br.token = browser.token
  BY <1>1, <1>3, ShellInvParts DEF BrowserOK
<1>6. BusyIn(pg, shellCalls)
  BY <1>4, ShellInvParts DEF BusyIn
<1>7. Opened(browser.at, expert) \in Route
  BY <1>1, OpenedIsRoute
<1>8. QED
  BY <1>2, <1>3, <1>4, <1>5, <1>6, <1>7, ShellInvParts, GoToKeeps

LEMMA LoadKeeps == ASSUME ShellInv, NEW to \in Route, Load(to) PROVE ShellInv'
<1>1. PageInv'
  <2>1. browser.expert \in BOOLEAN
    BY ShellInvParts DEF BrowserOK
  <2>2. page' = LoadedPage(browser.expert) /\ shellCalls' = NoCalls
    BY DEF Load
  <2>3. QED
    BY <2>1, <2>2, LoadedPageOK, NoCallsOK DEF PageInv
<1>2. BrowserOK(browser') /\ browser'.token = browser.token /\ browser'.storage = browser.storage
  BY ShellInvParts DEF Load, BrowserOK
<1>3. ServerOK' /\ server'.delivered = server.delivered /\ server'.replaced = server.replaced
  <2>1. PICK locked \in BOOLEAN : server' = [server EXCEPT !.locked = locked]
    <3>1. ServerOK
      BY DEF ShellInv, KeyInv
    <3>2. PICK done \in BOOLEAN :
            server' = [server EXCEPT !.locked = @ \/ (done /\ \E s \in Sent(shellCalls) :
                                                       shellCalls[s].req.op = "create")]
      BY DEF Load
    <3>3. (server.locked \/ (done /\ \E s \in Sent(shellCalls) :
                                       shellCalls[s].req.op = "create")) \in BOOLEAN
      OBVIOUS
    <3>4. QED
      BY <3>2, <3>3, Zenon
  <2>2. QED
    BY <2>1 DEF ShellInv, KeyInv, ServerOK
<1>4. KeySurvives'
  BY <1>2, <1>3 DEF ShellInv, KeyInv, KeySurvives
<1>5. QED
  BY <1>1, <1>2, <1>3, <1>4 DEF ShellInv, KeyInv

\* A button sends its call and is disabled.
LEMMA SendingKeeps ==
  ASSUME ShellInv, CanSend(shellCalls), NEW op \in CallOp,
         shellCalls' = Send(shellCalls, Op(op, browser.token)), PageOK(page'),
         page'.stopping => page.stopping \/ op = "stop",
         page'.rescuing => page.rescuing \/ op = "rescue",
         page'.wizard.creating => page.wizard.creating \/ op = "create",
         UNCHANGED <<browser, server>>
  PROVE  ShellInv'
<1>1. PICK req : req = Op(op, browser.token) /\ req \in Request /\ req.op = op /\ req.live
  BY ShellInvParts, OpOK
<1>2. /\ CallsOK(shellCalls') /\ CallingIn(shellCalls', op)
      /\ \A o : CallingIn(shellCalls, o) => CallingIn(shellCalls', o)
  BY <1>1, ShellInvParts, SendOK
<1>3. BusyIn(page', shellCalls')
  BY <1>2, ShellInvParts DEF BusyIn
<1>4. KeyInv'
  BY DEF ShellInv, KeyInv, BrowserOK, ServerOK, KeySurvives
<1>5. QED
  BY <1>2, <1>3, <1>4 DEF ShellInv, PageInv

LEMMA HandleStopKeeps == ASSUME ShellInv, handleStop PROVE ShellInv'
<1>1. PageOK(page') /\ page'.rescuing = page.rescuing /\ page'.wizard = page.wizard
  BY ShellInvParts DEF handleStop, PageOK
<1>2. "stop" \in CallOp
  BY DEF CallOp
<1>3. QED
  BY <1>1, <1>2, SendingKeeps DEF handleStop

LEMMA HandleEmergencyStopKeeps == ASSUME ShellInv, handleEmergencyStop PROVE ShellInv'
<1>1. PageOK(page') /\ page'.stopping = page.stopping /\ page'.wizard = page.wizard
  BY ShellInvParts DEF handleEmergencyStop, PageOK
<1>2. "rescue" \in CallOp
  BY DEF CallOp
<1>3. QED
  BY <1>1, <1>2, SendingKeeps DEF handleEmergencyStop

LEMMA SubmitPasswordKeeps == ASSUME ShellInv, submitPassword PROVE ShellInv'
<1>1. PageOK(page') /\ page'.stopping = page.stopping /\ page'.rescuing = page.rescuing
      /\ page'.wizard = page.wizard
  BY ShellInvParts DEF submitPassword, PageOK
<1>2. "login" \in CallOp
  BY DEF CallOp
<1>3. QED
  BY <1>1, <1>2, SendingKeeps DEF submitPassword

LEMMA HandleCreateCodeKeeps == ASSUME ShellInv, handleCreateCode PROVE ShellInv'
<1>1. PageOK(page') /\ page'.stopping = page.stopping /\ page'.rescuing = page.rescuing
  BY ShellInvParts DEF handleCreateCode, PageOK, Wizard
<1>2. "create" \in CallOp
  BY DEF CallOp
<1>3. QED
  BY <1>1, <1>2, SendingKeeps DEF handleCreateCode

\* The error boundary takes over with the buttons of the page gone.
LEMMA ComponentDidCatchKeeps == ASSUME ShellInv, componentDidCatch PROVE ShellInv'
<1>1. WizardStart \in Wizard /\ ~WizardStart.creating
  BY DEF WizardStart, Wizard
<1>2. PageOK(page') /\ ~page'.stopping /\ page'.rescuing = page.rescuing
      /\ page'.wizard = WizardStart
  BY <1>1, ShellInvParts DEF componentDidCatch, PageOK
<1>3. CallsOK(shellCalls') /\ (CallingIn(shellCalls, "rescue") => CallingIn(shellCalls', "rescue"))
  BY ShellInvParts, LeftOK DEF componentDidCatch
<1>4. BusyIn(page', shellCalls')
  BY <1>1, <1>2, <1>3, ShellInvParts DEF BusyIn
<1>5. KeyInv'
  BY DEF componentDidCatch, ShellInv, KeyInv, BrowserOK, ServerOK, KeySurvives
<1>6. QED
  BY <1>2, <1>3, <1>4, <1>5 DEF ShellInv, PageInv

-----------------------------------------------------------------------------
(* Part 5: the wizard and the login page.                                  *)

LEMMA SetStepKeeps ==
  ASSUME ShellInv, NEW from, NEW to \in {"welcome", "create-code"}, setStep(from, to)
  PROVE  ShellInv'
<1>1. PageOK(page') /\ page'.stopping = page.stopping /\ page'.rescuing = page.rescuing
      /\ page'.wizard.creating = page.wizard.creating
  BY ShellInvParts DEF setStep, PageOK, Wizard
<1>2. PageInv'
  BY <1>1, ShellInvParts DEF setStep, PageInv, BusyIn
<1>3. KeyInv'
  BY DEF setStep, ShellInv, KeyInv, BrowserOK, ServerOK, KeySurvives
<1>4. QED
  BY <1>2, <1>3 DEF ShellInv

\* Storing a code keeps whether there is a storage, and leaves a code in it.
LEMMA StoredOK ==
  ASSUME ShellInv, NEW token \in {"code", Typed}
  PROVE  /\ BrowserOK(Stored(token)) /\ Stored(token).storage = browser.storage
         /\ browser.storage => Stored(token).token = token
<1>1. token \in Tokens
  BY DEF Tokens
<1>2. QED
  BY <1>1, ShellInvParts DEF Stored, BrowserOK

LEMMA HandleFinishKeeps == ASSUME ShellInv, handleFinish PROVE ShellInv'
<1>1. ServerOK' /\ GoTo("/", shellCalls, page, Stored("code"))
  BY DEF handleFinish, ShellInv, KeyInv, ServerOK
<1>2. QED
  BY <1>1, ShellInvParts, StoredOK, RoutesAre, GoToStores

\* What is typed replaces the code that has arrived.
LEMMA SubmitCodeKeeps ==
  ASSUME ShellInv, NEW token \in {"code", Typed}, submitCode(token)
  PROVE  ShellInv'
<1>1. /\ GoTo("/", shellCalls, page, Stored(token)) /\ browser.storage
      /\ server' = [server EXCEPT !.replaced = server.delivered /\ token = Typed]
  BY DEF submitCode
<1>2. PICK replaced \in BOOLEAN : replaced <=> server.delivered /\ token = Typed
  OBVIOUS
<1>3. /\ server' = [server EXCEPT !.replaced = replaced]
      /\ server \in [locked : BOOLEAN, delivered : BOOLEAN, replaced : BOOLEAN]
  BY <1>1, <1>2, Zenon DEF ShellInv, KeyInv, ServerOK
<1>4. ServerOK' /\ (server'.delivered /\ ~server'.replaced => token = "code")
  BY <1>2, <1>3 DEF ServerOK
<1>5. QED
  BY <1>1, <1>4, ShellInvParts, StoredOK, RoutesAre, GoToStores

-----------------------------------------------------------------------------
(* Part 6: the server and its answers.                                     *)

LEMMA SetUpElsewhereKeeps == ASSUME ShellInv, SetUpElsewhere PROVE ShellInv'
BY DEF SetUpElsewhere, ShellInv, PageInv, KeyInv, BrowserOK, ServerOK, KeySurvives

LEMMA ServeKeeps == ASSUME ShellInv, NEW s \in Slots, Serve(s) PROVE ShellInv'
<1>1. s \in DOMAIN shellCalls /\ CallsOK(shellCalls) /\ shellCalls[s] \in Call
  BY ShellInvParts DEF Serve, Sent, CallsOK
<1>2. PICK call \in Call : call.req = shellCalls[s].req /\ shellCalls' = [shellCalls EXCEPT ![s] = call]
  <2>1. CASE \E body \in {"locked", "open"} : shellCalls' = Answered(shellCalls, s, body)
    <3>1. PICK body \in {"locked", "open"} : shellCalls' = Answered(shellCalls, s, body)
      BY <2>1
    <3>2. PICK call : call = [shellCalls[s] EXCEPT !.state = "ok", !.body = body]
      OBVIOUS
    <3>3. call \in Call /\ call.req = shellCalls[s].req
      BY <1>1, <3>2 DEF Call
    <3>4. QED
      BY <3>1, <3>2, <3>3 DEF Answered
  <2>2. CASE shellCalls' = Failed(shellCalls, s)
    <3>1. PICK call : call = [shellCalls[s] EXCEPT !.state = "failed"]
      OBVIOUS
    <3>2. call \in Call /\ call.req = shellCalls[s].req
      BY <1>1, <3>1 DEF Call
    <3>3. QED
      BY <2>2, <3>1, <3>2 DEF Failed
  <2>3. QED
    BY <2>1, <2>2 DEF Serve
<1>3. /\ DOMAIN shellCalls' = DOMAIN shellCalls /\ shellCalls'[s] = call
      /\ \A t \in DOMAIN shellCalls \ {s} : shellCalls'[t] = shellCalls[t]
      /\ shellCalls' = [t \in DOMAIN shellCalls' |-> shellCalls'[t]]
  BY <1>1, <1>2 DEF CallsOK
<1>4. CallsOK(shellCalls')
  BY <1>1, <1>2, <1>3 DEF CallsOK
<1>5. \A op : CallingIn(shellCalls, op) => CallingIn(shellCalls', op)
  BY <1>1, <1>2, <1>3 DEF CallingIn
<1>6. PageInv'
  BY <1>4, <1>5, ShellInvParts DEF Serve, PageInv, BusyIn
<1>7. PICK locked \in BOOLEAN : server' = [server EXCEPT !.locked = locked]
  <2>1. PICK done \in BOOLEAN :
          server' = [server EXCEPT !.locked =
                       @ \/ (done /\ shellCalls[s].req.op = "create" /\ Valid(shellCalls[s].req.token))]
    BY DEF Serve
  <2>2. (server.locked \/ (done /\ shellCalls[s].req.op = "create"
                                 /\ Valid(shellCalls[s].req.token))) \in BOOLEAN
    OBVIOUS
  <2>3. QED
    BY <2>1, <2>2, Zenon
<1>8. KeyInv'
  BY <1>7 DEF Serve, ShellInv, KeyInv, BrowserOK, ServerOK, KeySurvives
<1>9. QED
  BY <1>6, <1>8 DEF ShellInv

LEMMA FetchInfoKeeps ==
  ASSUME ShellInv, NEW s \in Replied(shellCalls), shellCalls[s].req.op = "info", fetchInfo(s)
  PROVE  ShellInv'
<1>1. s \in DOMAIN shellCalls /\ shellCalls[s] \in Call
  BY ShellInvParts DEF Replied, CallsOK
<1>2. PageOK(page') /\ page'.stopping = page.stopping /\ page'.rescuing = page.rescuing
      /\ page'.wizard = page.wizard
  BY <1>1, ShellInvParts DEF fetchInfo, PageOK, Call
<1>3. CallsOK(shellCalls') /\ BusyIn(page', shellCalls')
  BY <1>1, <1>2, ShellInvParts, SettledOK DEF fetchInfo, BusyIn
<1>4. KeyInv'
  BY DEF fetchInfo, ShellInv, KeyInv, BrowserOK, ServerOK, KeySurvives
<1>5. QED
  BY <1>2, <1>3, <1>4 DEF ShellInv, PageInv

LEMMA GuardKeeps ==
  ASSUME ShellInv, NEW s \in Replied(shellCalls), shellCalls[s].req.op = "guard", Guard(s)
  PROVE  ShellInv'
<1>1. s \in DOMAIN shellCalls
  BY DEF Replied
<1>2. CallsOK(Settled(shellCalls, s)) /\ BusyIn(page, Settled(shellCalls, s))
  BY <1>1, ShellInvParts, SettledOK DEF BusyIn
<1>3. CASE /\ page' = [page EXCEPT !.wizard.checked = TRUE]
           /\ shellCalls' = Settled(shellCalls, s) /\ UNCHANGED browser
  <2>1. PageOK(page') /\ page'.stopping = page.stopping /\ page'.rescuing = page.rescuing
        /\ page'.wizard.creating = page.wizard.creating
    BY <1>3, ShellInvParts DEF PageOK, Wizard
  <2>2. PageInv'
    BY <1>2, <1>3, <2>1 DEF PageInv, BusyIn
  <2>3. KeyInv'
    BY <1>3 DEF Guard, ShellInv, KeyInv, BrowserOK, ServerOK, KeySurvives
  <2>4. QED
    BY <2>2, <2>3 DEF ShellInv
<1>4. CASE GoTo("/", Settled(shellCalls, s), page, browser)
  BY <1>2, <1>4, ShellInvParts, RoutesAre, GoToKeeps DEF Guard
<1>5. QED
  BY <1>3, <1>4 DEF Guard

\* The code is in the browser when the answer that delivered it has been handled,
\* also by a wizard that is gone.
LEMMA CreatedKeeps ==
  ASSUME ShellInv, NEW s \in Replied(shellCalls), shellCalls[s].req.op = "create", Created(s)
  PROVE  ShellInv'
<1>1. s \in DOMAIN shellCalls /\ shellCalls[s] \in Call
  BY ShellInvParts DEF Replied, CallsOK
<1>2. /\ CallsOK(shellCalls')
      /\ \A op : CallingIn(shellCalls, op) =>
           CallingIn(shellCalls', op) \/ (op = "create" /\ shellCalls[s].req.live)
  BY <1>1, ShellInvParts, SettledOK DEF Created
<1>3. \/ page' = page /\ ~shellCalls[s].req.live
      \/ \E wizard \in Wizard : ~wizard.creating /\ page' = [page EXCEPT !.wizard = wizard]
  <2>1. PICK warned \in BOOLEAN : warned = ~browser.storage
    OBVIOUS
  <2>2. page.wizard \in Wizard
    BY ShellInvParts DEF PageOK
  <2>3. PICK done, bad : /\ done = [page.wizard EXCEPT !.creating = FALSE, !.step = "done",
                                      !.warned = warned]
                         /\ bad = [page.wizard EXCEPT !.creating = FALSE, !.error = TRUE]
    OBVIOUS
  <2>4. done \in Wizard /\ ~done.creating /\ bad \in Wizard /\ ~bad.creating
    BY <2>1, <2>2, <2>3 DEF Wizard
  <2>5. \/ page' = page /\ ~shellCalls[s].req.live
        \/ page' = [page EXCEPT !.wizard = done] \/ page' = [page EXCEPT !.wizard = bad]
    BY <2>1, <2>3, Zenon DEF Created
  <2>6. QED
    BY <2>4, <2>5
<1>4. PageOK(page') /\ page'.stopping = page.stopping /\ page'.rescuing = page.rescuing
      /\ \/ page'.wizard = page.wizard /\ ~shellCalls[s].req.live
         \/ ~page'.wizard.creating
  BY <1>3, ShellInvParts DEF PageOK
<1>5. PageInv'
  BY <1>2, <1>4, ShellInvParts DEF PageInv, BusyIn
<1>6. KeyInv'
  <2>1. /\ BrowserOK(Stored("code")) /\ Stored("code").storage = browser.storage
        /\ browser.storage => Stored("code").token = "code"
    BY StoredOK
  <2>2. CASE Ok(shellCalls, s)
    <3>1. browser' = Stored("code")
      BY <2>2 DEF Created, OnCreated
    <3>2. ServerOK'
      <4>1. server' = [server EXCEPT !.delivered = TRUE, !.replaced = FALSE]
        BY <2>2 DEF Created
      <4>2. QED
        BY <4>1 DEF ShellInv, KeyInv, ServerOK
    <3>3. QED
      BY <2>1, <3>1, <3>2 DEF KeyInv, KeySurvives
  <2>3. CASE ~Ok(shellCalls, s)
    <3>1. browser' = browser
      BY <2>3 DEF Created, OnCreated
    <3>2. server' = server
      BY <2>3 DEF Created
    <3>3. QED
      BY <3>1, <3>2 DEF ShellInv, KeyInv, ServerOK, BrowserOK, KeySurvives
  <2>4. QED
    BY <2>2, <2>3
<1>7. QED
  BY <1>5, <1>6 DEF ShellInv

LEMMA ShownKeeps ==
  ASSUME ShellInv, NEW s \in Replied(shellCalls),
         shellCalls[s].req.op \in {"stop", "rescue", "login"}, Shown(s)
  PROVE  ShellInv'
<1> DEFINE op == shellCalls[s].req.op
<1>1. s \in DOMAIN shellCalls
  BY DEF Replied
<1>2. PICK stopping \in BOOLEAN, rescuing \in BOOLEAN, refused \in BOOLEAN :
        /\ page' = [page EXCEPT !.stopping = stopping, !.rescuing = rescuing, !.refused = refused]
        /\ stopping => page.stopping /\ op # "stop"
        /\ rescuing => page.rescuing /\ op # "rescue"
  <2>1. /\ (page.stopping /\ op # "stop") \in BOOLEAN
        /\ (page.rescuing /\ op # "rescue") \in BOOLEAN
        /\ (page.refused \/ op = "login") \in BOOLEAN
    OBVIOUS
  <2>2. QED
    BY <2>1, Zenon DEF Shown
<1>3. PageOK(page') /\ page'.stopping = stopping /\ page'.rescuing = rescuing
      /\ page'.wizard = page.wizard
  BY <1>2, ShellInvParts DEF PageOK
<1>4. CallsOK(shellCalls') /\ \A o : CallingIn(shellCalls, o) => CallingIn(shellCalls', o) \/ op = o
  BY <1>1, ShellInvParts, SettledOK DEF Shown
<1>5. BusyIn(page', shellCalls')
  BY <1>2, <1>3, <1>4, ShellInvParts DEF BusyIn
<1>6. KeyInv'
  BY DEF Shown, ShellInv, KeyInv, BrowserOK, ServerOK, KeySurvives
<1>7. QED
  BY <1>3, <1>4, <1>5, <1>6 DEF ShellInv, PageInv

LEMMA ShellResumeKeeps == ASSUME ShellInv, NEW s \in Slots, ShellResume(s) PROVE ShellInv'
BY FetchInfoKeeps, GuardKeeps, CreatedKeeps, ShownKeeps DEF ShellResume

-----------------------------------------------------------------------------
(* Part 7: the theorems.                                                   *)

LEMMA ShellInvStep == ShellInv /\ [ShellNext]_shellVars => ShellInv'
<1> SUFFICES ASSUME ShellInv, [ShellNext]_shellVars PROVE ShellInv'
  OBVIOUS
<1>1. CASE MountApp \/ toggleMode \/ RedirectToSetup \/ componentDidCatch
  BY <1>1, MountAppKeeps, ToggleModeKeeps, RedirectToSetupKeeps, ComponentDidCatchKeeps
<1>2. CASE handleStop \/ handleEmergencyStop \/ handleCreateCode \/ submitPassword
  BY <1>2, HandleStopKeeps, HandleEmergencyStopKeeps, HandleCreateCodeKeeps, SubmitPasswordKeeps
<1>3. CASE handleFinish \/ SetUpElsewhere
  BY <1>3, HandleFinishKeeps, SetUpElsewhereKeeps
<1>4. CASE setStep("welcome", "create-code") \/ setStep("create-code", "welcome")
  BY <1>4, SetStepKeeps
<1>5. ASSUME NEW to \in Route, Load(to) \/ NavLink(to) PROVE ShellInv'
  BY <1>5, LoadKeeps, NavLinkKeeps
<1>6. ASSUME NEW token \in {"code", Typed}, submitCode(token) PROVE ShellInv'
  BY <1>6, SubmitCodeKeeps
<1>7. ASSUME NEW s \in Slots, Serve(s) \/ ShellResume(s) PROVE ShellInv'
  BY <1>7, ServeKeeps, ShellResumeKeeps
<1>8. CASE UNCHANGED shellVars
  BY <1>8 DEF shellVars, ShellInv, PageInv, KeyInv, BrowserOK, ServerOK, KeySurvives
<1>9. QED
  BY <1>1, <1>2, <1>3, <1>4, <1>5, <1>6, <1>7, <1>8 DEF ShellNext

LEMMA ShellInvAlways == ShellSpec => []ShellInv
BY ShellInvInit, ShellInvStep, PTL DEF ShellSpec

\* The page, the browser and the calls stay of their types.
THEOREM ShellTyped == ShellSpec => []ShellTypeOK
BY ShellInvAlways, ShellInvSays, PTL

\* A disabled stop button, or Create Code, has its call in flight, whatever the
\* error boundary, a redirect or an answer to an earlier visit does meanwhile.
THEOREM ButtonsComeBack == ShellSpec => []ShellBusy
BY ShellInvAlways, ShellInvSays, PTL

\* The code that a browser with a storage received is the one it keeps, until
\* something else is typed over it on the login page.
THEOREM KeyAlwaysSurvives == ShellSpec => []KeySurvives
BY ShellInvAlways, ShellInvSays, PTL
-----------------------------------------------------------------------------
(* Part 8: the event socket, for any number of sockets whose close event is   *)
(* still to come, and any topics.                                             *)

Connection == [state : {"connecting", "open", "closing"}, serves : SUBSET Topic]

SocketsOK(socks) ==
  /\ DOMAIN socks \subseteq Socket /\ socks = [s \in DOMAIN socks |-> socks[s]]
  /\ \A s \in DOMAIN socks : socks[s] \in Connection

ClientOK(c, socks) ==
  c \in [ws : DOMAIN socks \cup {Nothing}, connected : BOOLEAN, timer : BOOLEAN,
         subscriptions : SUBSET Topic, pending : SUBSET Topic]

SocketInv ==
  layout \in BOOLEAN /\ shown \in BOOLEAN /\ SocketsOK(sockets) /\ ClientOK(client, sockets)

LEMMA SocketInvSays == SocketInv => SocketTypeOK
BY DEF SocketInv, SocketsOK, ClientOK, Connection, SocketTypeOK

LEMMA SocketInvInit == SocketInit => SocketInv
<1> SUFFICES ASSUME SocketInit PROVE SocketInv
  OBVIOUS
<1>1. SocketsOK(sockets)
  BY DEF SocketInit, SocketsOK
<1>2. ClientOK(client, sockets)
  BY DEF SocketInit, NewClient, ClientOK
<1>3. QED
  BY <1>1, <1>2 DEF SocketInit, SocketInv

\* The state of one socket changes, or its topics.
LEMMA OneSocketOK ==
  ASSUME NEW socks, SocketsOK(socks), NEW s \in DOMAIN socks, NEW one \in Connection
  PROVE  /\ SocketsOK([socks EXCEPT ![s] = one])
         /\ DOMAIN [socks EXCEPT ![s] = one] = DOMAIN socks
<1> DEFINE new == [socks EXCEPT ![s] = one]
<1>1. /\ DOMAIN new = DOMAIN socks /\ new = [t \in DOMAIN new |-> new[t]]
      /\ new[s] = one /\ \A t \in DOMAIN socks \ {s} : new[t] = socks[t]
  BY DEF SocketsOK
<1> HIDE DEF new
<1>2. SocketsOK(new)
  BY <1>1 DEF SocketsOK
<1>3. QED
  BY <1>1, <1>2 DEF new

LEMMA StateOK ==
  ASSUME NEW socks, SocketsOK(socks), NEW s \in DOMAIN socks,
         NEW state \in {"connecting", "open", "closing"}
  PROVE  /\ SocketsOK([socks EXCEPT ![s].state = state])
         /\ DOMAIN [socks EXCEPT ![s].state = state] = DOMAIN socks
<1>1. PICK one : one = [socks[s] EXCEPT !.state = state]
  OBVIOUS
<1>2. one \in Connection
  BY <1>1 DEF SocketsOK, Connection
<1>3. [socks EXCEPT ![s].state = state] = [socks EXCEPT ![s] = one]
  BY <1>1
<1>4. QED
  BY <1>2, <1>3, OneSocketOK

LEMMA SendingOK ==
  ASSUME NEW socks, SocketsOK(socks), NEW c, NEW topics \in SUBSET Topic
  PROVE  SocketsOK(Sending(c, socks, topics)) /\ DOMAIN Sending(c, socks, topics) = DOMAIN socks
<1>1. CASE IsOpen(socks, c.ws)
  <2>1. PICK ws \in DOMAIN socks : ws = c.ws
    BY <1>1 DEF IsOpen
  <2>2. PICK one : one = [socks[ws] EXCEPT !.serves = @ \cup topics]
    OBVIOUS
  <2>3. one \in Connection
    BY <2>2 DEF SocketsOK, Connection
  <2>4. Sending(c, socks, topics) = [socks EXCEPT ![ws] = one]
    BY <1>1, <2>1, <2>2 DEF Sending
  <2>5. /\ SocketsOK([socks EXCEPT ![ws] = one])
        /\ DOMAIN [socks EXCEPT ![ws] = one] = DOMAIN socks
    BY <2>3, OneSocketOK
  <2>6. QED
    BY <2>4, <2>5, Zenon
<1>2. CASE ~IsOpen(socks, c.ws)
  BY <1>2 DEF Sending
<1>3. QED
  BY <1>1, <1>2

LEMMA ClosingOK ==
  ASSUME NEW socks, SocketsOK(socks), NEW c
  PROVE  SocketsOK(Closing(c, socks)) /\ DOMAIN Closing(c, socks) = DOMAIN socks
BY StateOK DEF Closing

\* connect(): the object has a socket that is there.
LEMMA ConnectOK ==
  ASSUME NEW socks, NEW c, SocketsOK(socks), ClientOK(c, socks), CanConnect(c, socks)
  PROVE  SocketsOK(Opening(c, socks)) /\ ClientOK(Connected(c, socks), Opening(c, socks))
<1>1. CASE IsOpen(socks, c.ws)
  BY <1>1 DEF Opening, Connected
<1>2. CASE ~IsOpen(socks, c.ws)
  <2> DEFINE slot == NewSocket(socks)
             one  == [state |-> "connecting", serves |-> {}]
             new  == [s \in DOMAIN socks \cup {slot} |-> IF s \in DOMAIN socks THEN socks[s] ELSE one]
  <2>1. slot \in Socket
    BY <1>2 DEF CanConnect, NewSocket, SocketsOK
  <2>2. one \in Connection
    BY DEF Connection
  <2>3. Opening(c, socks) = new /\ Connected(c, socks) = [c EXCEPT !.ws = slot]
    BY <1>2 DEF Opening, Connected
  <2> HIDE DEF slot, one
  <2>4. /\ DOMAIN new = DOMAIN socks \cup {slot} /\ new = [s \in DOMAIN new |-> new[s]]
        /\ \A s \in DOMAIN new : new[s] = one \/ (s \in DOMAIN socks /\ new[s] = socks[s])
    OBVIOUS
  <2> HIDE DEF new
  <2>5. SocketsOK(new)
    BY <2>1, <2>2, <2>4 DEF SocketsOK
  <2>6. ClientOK([c EXCEPT !.ws = slot], new)
    BY <2>4 DEF ClientOK
  <2>7. QED
    BY <2>3, <2>5, <2>6
<1>3. QED
  BY <1>1, <1>2

LEMMA MountSocketKeeps == ASSUME SocketInv, Mount PROVE SocketInv'
<1>1. PICK c : c = Connected(client, sockets)
  OBVIOUS
<1>2. PICK socks : socks = Opening(client, sockets)
  OBVIOUS
<1>3. SocketsOK(socks) /\ ClientOK(c, socks)
  BY <1>1, <1>2, ConnectOK DEF SocketInv, Mount
<1>4. sockets' = Sending(c, socks, Topic) \/ sockets' = socks
  BY <1>1, <1>2 DEF Mount
<1>5. SocketsOK(sockets') /\ DOMAIN sockets' = DOMAIN socks
  BY <1>3, <1>4, SendingOK
<1>6. PICK topics \in SUBSET Topic :
        client' = [c EXCEPT !.subscriptions = Topic, !.pending = topics]
  BY <1>1, <1>3 DEF Mount, ClientOK
<1>7. ClientOK(client', sockets')
  BY <1>3, <1>5, <1>6 DEF ClientOK
<1>8. QED
  BY <1>5, <1>7 DEF SocketInv, Mount

LEMMA UnmountSocketKeeps == ASSUME SocketInv, Unmount PROVE SocketInv'
<1>1. SocketsOK(sockets') /\ DOMAIN sockets' = DOMAIN sockets
  BY ClosingOK DEF SocketInv, Unmount
<1>2. ClientOK(client', sockets')
  BY <1>1 DEF SocketInv, Unmount, ClientOK
<1>3. QED
  BY <1>1, <1>2 DEF SocketInv, Unmount

LEMMA SocketEventKeeps == ASSUME SocketInv, SocketEvent PROVE SocketInv'
<1>1. SocketsOK(sockets) /\ ClientOK(client, sockets) /\ layout \in BOOLEAN /\ shown \in BOOLEAN
  BY DEF SocketInv
<1>2. CASE Reconnect
  <2>1. PICK c : c = Connected(client, sockets)
    OBVIOUS
  <2>2. SocketsOK(sockets') /\ ClientOK(c, sockets')
    BY <1>1, <1>2, <2>1, ConnectOK DEF Reconnect
  <2>3. client' = [c EXCEPT !.timer = FALSE] /\ UNCHANGED <<layout, shown>>
    BY <1>2, <2>1 DEF Reconnect
  <2>4. ClientOK(client', sockets')
    BY <2>2, <2>3 DEF ClientOK
  <2>5. QED
    BY <1>1, <2>2, <2>3, <2>4 DEF SocketInv
<1>3. ASSUME NEW s \in Socket, onopen(s) PROVE SocketInv'
  <2>1. PICK socks : socks = [sockets EXCEPT ![s].state = "open"]
    OBVIOUS
  <2>2. SocketsOK(socks) /\ DOMAIN socks = DOMAIN sockets
    BY <1>1, <1>3, <2>1, StateOK DEF onopen
  <2>3. ToSubscribe(client) \in SUBSET Topic
    BY <1>1 DEF ToSubscribe, ClientOK
  <2>4. SocketsOK(sockets') /\ DOMAIN sockets' = DOMAIN sockets
    BY <1>3, <2>1, <2>2, <2>3, SendingOK DEF onopen
  <2>5. ClientOK(client', sockets')
    BY <1>1, <1>3, <2>4 DEF onopen, ClientOK
  <2>6. QED
    BY <1>1, <1>3, <2>4, <2>5 DEF onopen, SocketInv
<1>4. ASSUME NEW s \in Socket, onclose(s) PROVE SocketInv'
  <2>1. DOMAIN sockets' = DOMAIN sockets \ {s} /\ SocketsOK(sockets')
    BY <1>1, <1>4 DEF onclose, SocketsOK
  <2>2. ClientOK(client', sockets')
    BY <1>1, <1>4, <2>1 DEF onclose, AfterClose, ClientOK
  <2>3. QED
    BY <1>1, <1>4, <2>1, <2>2 DEF onclose, SocketInv
<1>5. ASSUME NEW s \in Socket, onerror(s) \/ Lost(s) PROVE SocketInv'
  <2>1. PICK socks : socks = [sockets EXCEPT ![s].state = "closing"]
    OBVIOUS
  <2>2. s \in DOMAIN sockets
    BY <1>5 DEF onerror, Lost, IsOpen
  <2>3. SocketsOK(socks) /\ DOMAIN socks = DOMAIN sockets
    BY <1>1, <2>1, <2>2, StateOK
  <2>4. sockets' = socks \/ sockets' = Closing(client, socks)
    BY <1>5, <2>1 DEF onerror, Lost
  <2>5. SocketsOK(sockets') /\ DOMAIN sockets' = DOMAIN sockets
    BY <2>3, <2>4, ClosingOK
  <2>6. UNCHANGED <<layout, client, shown>>
    BY <1>5 DEF onerror, Lost
  <2>7. QED
    BY <1>1, <2>5, <2>6 DEF ClientOK, SocketInv
<1>6. QED
  BY <1>2, <1>3, <1>4, <1>5 DEF SocketEvent

LEMMA SocketInvStep == SocketInv /\ [SocketNext]_socketVars => SocketInv'
<1> SUFFICES ASSUME SocketInv, [SocketNext]_socketVars PROVE SocketInv'
  OBVIOUS
<1>1. CASE UNCHANGED socketVars
  BY <1>1 DEF socketVars, SocketInv
<1>2. QED
  BY <1>1, MountSocketKeeps, UnmountSocketKeeps, SocketEventKeeps DEF SocketNext

-----------------------------------------------------------------------------
(* Part 9: the page, the socket and the toasts together.                     *)

LEMMA EachPartSteps ==
  [ShellPartsNext]_pageVars =>
    [ShellNext]_shellVars /\ [SocketNext]_socketVars /\ [ToastsNext]_toastVars
BY DEF ShellPartsNext, pageVars

\* The page, its socket and its toasts on one page: each is still one that runs by
\* itself, since a step of one leaves the others as they are.
LEMMA EachPartRuns ==
  ShellPartsSpec => ShellSpec /\ SocketSpec /\ ToastsSpec
<1>1. ShellPartsInit => ShellInit /\ SocketInit /\ ToastsInit
  BY DEF ShellPartsInit
<1>2. QED
  BY <1>1, EachPartSteps, PTL DEF ShellPartsSpec, ShellSpec, SocketSpec, ToastsSpec

\* The types of the page, of its socket and of its toasts: the object never holds
\* a socket that has reported its end, however late the events of earlier ones
\* come, and no timer of a toast runs past its duration.
THEOREM PageStaysTyped == ShellPartsSpec => []PageTypeOK
<1>1. ShellTypeOK /\ SocketTypeOK /\ ToastsTypeOK => PageTypeOK
  BY DEF PageTypeOK
<1>2. SocketSpec => []SocketTypeOK
  BY SocketInvInit, SocketInvStep, SocketInvSays, PTL DEF SocketSpec
<1>3. QED
  BY <1>1, <1>2, EachPartRuns, ShellTyped, ToastsTyped, PTL
=============================================================================
