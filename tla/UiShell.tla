------------------------------- MODULE UiShell -------------------------------
(* The page around the views of the web UI: the routes of App, Layout with its
   redirect to the first-boot wizard, the wizard, the login page, the emergency
   stop buttons and the error boundary, and the access codes of the control server.
   The event socket, which lives and ends with Layout, is UiSocket.

   What the browser keeps (localStorage) outlives a load of the page, what the
   stores keep outlives the components, what a component keeps ends with it. *)
EXTENDS ApiClient

CONSTANT Typed  \* what the user types for an access code and is none

ASSUME ShellAssumption == Nothing \notin {Typed, "code"}

VARIABLES browser,    \* the address, and what localStorage keeps
          page,       \* the stores and components of this load of the page
          shellCalls, \* its calls in flight
          server      \* whether an access code exists; history: whether one arrived
                      \* here, and whether the user has typed over it

shellVars == <<browser, page, shellCalls, server>>

\* "/" stands for every view that both modes show, "/klipper" for the others.
Route == {"/setup", "/login", "/", "/klipper"}
UnderLayout == {"/", "/klipper"}

WizardStart == [checked |-> FALSE, step |-> "welcome", creating |-> FALSE, error |-> FALSE,
                warned |-> FALSE]

LoadedPage(expert) ==
  [app |-> "loading", info |-> Nothing, expert |-> expert, wizard |-> WizardStart,
   stopping |-> FALSE, rescuing |-> FALSE, refused |-> FALSE]

ShellInit ==
  /\ shellCalls = NoCalls
  /\ \E storage \in BOOLEAN, at \in Route :
       browser = [at |-> at, token |-> Nothing, expert |-> FALSE, storage |-> storage]
  /\ page = LoadedPage(FALSE)
  /\ server = [locked |-> FALSE, delivered |-> FALSE, replaced |-> FALSE]

-----------------------------------------------------------------------------
(* Mounting and unmounting. *)

Layout == page.app = "up" /\ browser.at \in UnderLayout

Op(op, token) == [op |-> op, token |-> token, live |-> TRUE]

\* Of the handlers a component leaves behind only the effect on the stores and
\* on localStorage is kept.  The wizard cancels its guard.
Left(calls) ==
  LET kept == {s \in DOMAIN calls : calls[s].req.op \in {"info", "create", "rescue"}} IN
  [s \in kept |-> IF calls[s].req.op = "create" THEN [calls[s] EXCEPT !.req.live = FALSE]
                  ELSE calls[s]]

\* Mutant: Layout fetches no info when it has one.
OnArrivalOnce(to, calls, token) ==
  IF to \in UnderLayout /\ page.info = Nothing THEN Send(calls, Op("info", token))
  ELSE IF to = "/setup" THEN Send(calls, Op("guard", token)) ELSE calls

\* Layout fetches the info, and the wizard asks whether it is wanted.
OnArrival(to, calls, token) ==
  IF to \in UnderLayout THEN Send(calls, Op("info", token))
  ELSE IF to = "/setup" THEN Send(calls, Op("guard", token)) ELSE calls

\* Between two views Layout stays.
GoTo(to, calls, pg, br) ==
  /\ browser' = [br EXCEPT !.at = to]
  /\ IF Layout /\ to \in UnderLayout
     THEN page' = pg /\ shellCalls' = calls
     ELSE /\ Room(Left(calls), 1)
          /\ shellCalls' = OnArrival(to, Left(calls), br.token)
          /\ page' = [pg EXCEPT !.app = "up", !.wizard = WizardStart, !.stopping = FALSE,
                        !.refused = FALSE]

\* ExpertRoute sends a student who asks for an expert route to the dashboard.
Opened(to, expert) == IF to = "/klipper" /\ ~expert THEN "/" ELSE to

\* The page has been loaded, or Try Again of the error boundary.
MountApp ==
  /\ page.app # "up" /\ GoTo(Opened(browser.at, page.expert), shellCalls, page, browser)
  /\ UNCHANGED server

\* Another address, or the same: the page and its calls end, the server may still
\* carry out what was sent.
Load(to) ==
  /\ browser' = [browser EXCEPT !.at = to]
  /\ page' = LoadedPage(browser.expert) /\ shellCalls' = NoCalls
  /\ \E done \in BOOLEAN :
       server' = [server EXCEPT !.locked = @ \/ (done /\ \E s \in Sent(shellCalls) :
                                                  shellCalls[s].req.op = "create")]

-----------------------------------------------------------------------------
(* Layout and its buttons. *)

NavLink(to) ==
  /\ Layout /\ to \in UnderLayout \ {browser.at}
  /\ to = "/klipper" => page.expert
  /\ GoTo(to, shellCalls, page, browser) /\ UNCHANGED server

toggleMode ==
  LET expert == ~page.expert
      stored == [browser EXCEPT !.expert = browser.storage /\ expert] IN
  /\ Layout
  /\ GoTo(Opened(browser.at, expert), shellCalls, [page EXCEPT !.expert = expert], stored)
  /\ UNCHANGED server

\* The store's info is that of the last answer, to whichever fetch.
RedirectToSetup ==
  /\ Layout /\ page.info = "open" /\ GoTo("/setup", shellCalls, page, browser)
  /\ UNCHANGED server

\* The buttons of Layout and of the error boundary, each disabled by its own call.
handleStop ==
  /\ Layout /\ ~page.stopping /\ CanSend(shellCalls)
  /\ shellCalls' = Send(shellCalls, Op("stop", browser.token))
  /\ page' = [page EXCEPT !.stopping = TRUE]
  /\ UNCHANGED <<browser, server>>

handleEmergencyStop ==
  /\ page.app = "crashed" /\ ~page.rescuing /\ CanSend(shellCalls)
  /\ shellCalls' = Send(shellCalls, Op("rescue", browser.token))
  /\ page' = [page EXCEPT !.rescuing = TRUE]
  /\ UNCHANGED <<browser, server>>

\* A component throws: the boundary replaces the whole application.
componentDidCatch ==
  /\ page.app = "up"
  /\ page' = [page EXCEPT !.app = "crashed", !.wizard = WizardStart, !.stopping = FALSE,
                !.refused = FALSE]
  /\ shellCalls' = Left(shellCalls)
  /\ UNCHANGED <<browser, server>>

-----------------------------------------------------------------------------
(* FirstBootWizard and Login. *)

InWizard(step) ==
  /\ browser.at = "/setup" /\ page.app = "up"
  /\ page.wizard.checked /\ page.wizard.step = step

\* Get Started, and Back.
setStep(from, to) ==
  /\ InWizard(from) /\ page' = [page EXCEPT !.wizard.step = to]
  /\ UNCHANGED <<browser, shellCalls, server>>

handleCreateCode ==
  /\ InWizard("create-code") /\ ~page.wizard.creating /\ CanSend(shellCalls)
  /\ shellCalls' = Send(shellCalls, Op("create", browser.token))
  /\ page' = [page EXCEPT !.wizard.error = FALSE, !.wizard.creating = TRUE]
  /\ UNCHANGED <<browser, server>>

\* safeLocalStorageSet
Stored(token) == IF browser.storage THEN [browser EXCEPT !.token = token] ELSE browser

\* Without localStorage nothing is left of the code that was shown.
handleFinish ==
  /\ InWizard("done") /\ GoTo("/", shellCalls, page, Stored("code"))
  /\ server' = [server EXCEPT !.replaced = FALSE]

AtLogin == browser.at = "/login" /\ page.app = "up"

\* Setting an item throws where there is no storage, and nothing else happens.
\* Whatever is typed is kept, in the place of the code that was there.
submitCode(token) ==
  /\ AtLogin /\ browser.storage
  /\ token = "code" => server.locked
  /\ GoTo("/", shellCalls, page, Stored(token))
  /\ server' = [server EXCEPT !.replaced = server.delivered /\ token = Typed]

submitPassword ==
  /\ AtLogin /\ CanSend(shellCalls)
  /\ shellCalls' = Send(shellCalls, Op("login", browser.token))
  /\ page' = [page EXCEPT !.refused = FALSE]
  /\ UNCHANGED <<browser, server>>

-----------------------------------------------------------------------------
(* The server. *)

Valid(token) == server.locked => token = "code"

\* The first code locks everybody else out, also when its answer is lost.
Serve(s) ==
  LET req == shellCalls[s].req IN
  /\ s \in Sent(shellCalls)
  /\ \/ /\ Valid(req.token) /\ req.op # "login"
        /\ shellCalls' = Answered(shellCalls, s, IF server.locked THEN "locked" ELSE "open")
     \/ shellCalls' = Failed(shellCalls, s)
  /\ \E done \in BOOLEAN :
       /\ shellCalls'[s].state = "ok" => done
       /\ server' = [server EXCEPT !.locked =
                       @ \/ (done /\ req.op = "create" /\ Valid(req.token))]
  /\ UNCHANGED <<browser, page>>

\* Another browser goes through the wizard.
SetUpElsewhere ==
  /\ ~server.locked /\ server' = [server EXCEPT !.locked = TRUE]
  /\ UNCHANGED <<browser, page, shellCalls>>

-----------------------------------------------------------------------------
(* The code after the await of each call. *)

fetchInfo(s) ==
  /\ page' = IF Ok(shellCalls, s) THEN [page EXCEPT !.info = shellCalls[s].body] ELSE page
  /\ shellCalls' = Settled(shellCalls, s)
  /\ UNCHANGED <<browser, server>>

Wanted(s) == ~Ok(shellCalls, s) \/ shellCalls[s].body = "open"

\* When the server cannot be asked the wizard is shown.
Guard(s) ==
  /\ UNCHANGED server
  /\ IF Wanted(s)
     THEN /\ page' = [page EXCEPT !.wizard.checked = TRUE]
          /\ shellCalls' = Settled(shellCalls, s) /\ UNCHANGED browser
     ELSE GoTo("/", Settled(shellCalls, s), page, browser)

\* Mutant: the code is stored by Enter Arbor only.
OnCreatedLate(s) == browser

\* The code is stored wherever the user is by now.
OnCreated(s) == IF Ok(shellCalls, s) THEN Stored("code") ELSE browser

Created(s) ==
  /\ browser' = OnCreated(s)
  /\ server' = IF Ok(shellCalls, s) THEN [server EXCEPT !.delivered = TRUE, !.replaced = FALSE]
               ELSE server
  /\ page' = IF ~shellCalls[s].req.live THEN page
             ELSE IF Ok(shellCalls, s)
             THEN [page EXCEPT !.wizard = [@ EXCEPT !.creating = FALSE, !.step = "done",
                                             !.warned = ~browser.storage]]
             ELSE [page EXCEPT !.wizard = [@ EXCEPT !.creating = FALSE, !.error = TRUE]]
  /\ shellCalls' = Settled(shellCalls, s)

\* Mutant: the buttons are enabled again by an answer only.
ShownIfOk(s) ==
  /\ page' = IF Ok(shellCalls, s)
             THEN [page EXCEPT !.stopping = @ /\ shellCalls[s].req.op # "stop",
                     !.rescuing = @ /\ shellCalls[s].req.op # "rescue"]
             ELSE page
  /\ shellCalls' = Settled(shellCalls, s)
  /\ UNCHANGED <<browser, server>>

\* The stop buttons and the login show their answer.
Shown(s) ==
  /\ page' = [page EXCEPT !.stopping = @ /\ shellCalls[s].req.op # "stop",
                !.rescuing = @ /\ shellCalls[s].req.op # "rescue",
                !.refused = @ \/ shellCalls[s].req.op = "login"]
  /\ shellCalls' = Settled(shellCalls, s)
  /\ UNCHANGED <<browser, server>>

ShellResume(s) ==
  LET op == shellCalls[s].req.op IN
  /\ s \in Replied(shellCalls)
  /\ \/ op = "info" /\ fetchInfo(s)
     \/ op = "guard" /\ Guard(s)
     \/ op = "create" /\ Created(s)
     \/ op \in {"stop", "rescue", "login"} /\ Shown(s)

ShellNext ==
  \/ MountApp \/ toggleMode \/ RedirectToSetup \/ handleStop \/ handleEmergencyStop
  \/ componentDidCatch \/ handleCreateCode \/ handleFinish \/ submitPassword \/ SetUpElsewhere
  \/ setStep("welcome", "create-code") \/ setStep("create-code", "welcome")
  \/ \E to \in Route : Load(to) \/ NavLink(to)
  \/ \E token \in {"code", Typed} : submitCode(token)
  \/ \E s \in Slots : Serve(s) \/ ShellResume(s)

ShellSpec == ShellInit /\ [][ShellNext]_shellVars

-----------------------------------------------------------------------------
Wizard == [checked : BOOLEAN, step : {"welcome", "create-code", "done"},
           creating : BOOLEAN, error : BOOLEAN, warned : BOOLEAN]

\* The calls of the page.
CallOp == {"info", "guard", "create", "stop", "rescue", "login"}

Tokens == {Nothing, Typed, "code"}

ShellTypeOK ==
  /\ browser \in [at : Route, token : Tokens, expert : BOOLEAN, storage : BOOLEAN]
  /\ page \in [app : {"loading", "up", "crashed"}, info : {Nothing, "open", "locked"},
               expert : BOOLEAN, wizard : Wizard, stopping : BOOLEAN, rescuing : BOOLEAN,
               refused : BOOLEAN]
  /\ server \in [locked : BOOLEAN, delivered : BOOLEAN, replaced : BOOLEAN]
  /\ DOMAIN shellCalls \subseteq Slots
  /\ \A s \in DOMAIN shellCalls :
       shellCalls[s] \in [req : [op : CallOp, token : Tokens, live : BOOLEAN],
                         state : {"sent", "ok", "failed"}, body : {Nothing, "open", "locked"}]

Calling(op) == \E s \in DOMAIN shellCalls :
                 shellCalls[s].req.op = op /\ shellCalls[s].req.live

\* A button that is disabled while it works has its call in flight: no crash of
\* a component, no redirect and no answer to an earlier visit leaves Stop All, the
\* emergency stop of the error boundary or Create Code disabled for good.
ShellBusy ==
  /\ page.stopping => Calling("stop")
  /\ page.rescuing => Calling("rescue")
  /\ page.wizard.creating => Calling("create")

\* The access code this browser received is the one it keeps, whenever its storage
\* works, until the user types another over it on the login page: wherever the user
\* went, and whatever was kept or typed, between Create Code and the answer, and
\* whether Enter Arbor was ever clicked.
KeySurvives ==
  server.delivered /\ browser.storage /\ ~server.replaced => browser.token = "code"
=============================================================================
