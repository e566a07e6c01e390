------------------------------- MODULE MCShell -------------------------------
(* The page, its event socket and its toasts in one small instance.  They share no
   state but whether Layout is mounted, which the socket takes as its environment:
   a behaviour is one of the page, one of the socket or one of the toasts. *)
EXTENDS UiShell, UiSocket, Toasts

VARIABLE part \* which of the three a behaviour is of

pageVars == <<part, shellVars, socketVars, toastVars>>

ShellPartsInit ==
  /\ ShellInit /\ SocketInit /\ ToastsInit
  /\ part \in {"page", "socket", "toasts"}
  /\ part # "page" => browser = [at |-> "/", token |-> Nothing, expert |-> FALSE, storage |-> FALSE]

OfPage(A)   == part = "page" /\ A /\ UNCHANGED <<part, socketVars, toastVars>>
OfSocket(A) == part = "socket" /\ A /\ UNCHANGED <<part, shellVars, toastVars>>

ShellPartsNext ==
  \/ part = "page" /\ ShellNext /\ UNCHANGED <<part, socketVars, toastVars>>
  \/ part = "socket" /\ SocketNext /\ UNCHANGED <<part, shellVars, toastVars>>
  \/ part = "toasts" /\ ToastsNext /\ UNCHANGED <<part, shellVars, socketVars>>

\* The effect that redirects runs after the render, a call ends and the code
\* after its await runs, and the server answers every so often.
InfoArrives ==
  \E s \in Sent(shellCalls) :
    shellCalls[s].req.op = "info" /\ Serve(s) /\ shellCalls'[s].state = "ok"

PageFairness ==
  /\ WF_pageVars(OfPage(RedirectToSetup))
  /\ \A s \in Slots : WF_pageVars(OfPage(Serve(s) \/ ShellResume(s)))
  /\ SF_pageVars(OfPage(InfoArrives))

\* Timers and close events come, an attempt to connect ends, and of the attempts
\* of the object's own socket one that is repeated for ever succeeds.
Attempt(s) == s \in DOMAIN sockets /\ sockets[s].state = "connecting"
              /\ (onopen(s) \/ onerror(s))

SocketFairness ==
  /\ WF_pageVars(OfSocket(Reconnect))
  /\ WF_pageVars(OfSocket(\E s \in Socket : onclose(s)))
  /\ WF_pageVars(OfSocket(Attempt(client.ws)))
  /\ SF_pageVars(OfSocket(\E s \in Socket : s = client.ws /\ onopen(s)))

ShellPartsSpec ==
  ShellPartsInit /\ [][ShellPartsNext]_pageVars /\ PageFairness /\ SocketFairness

-----------------------------------------------------------------------------
\* Type correctness of the page, of the socket and of the toasts.
PageTypeOK == ShellTypeOK /\ SocketTypeOK /\ ToastsTypeOK

\* A Layout that stays mounted has an open socket again and again, whatever closes
\* and errors of earlier sockets arrive late: the handlers of ws.ts, which every
\* socket shares, never take the object's last attempt away without a timer.
Reconnects == layout ~> (IsOpen(sockets, client.ws) \/ ~layout)

\* A browser that holds the code of a locked server is not sent to the wizard for
\* ever: the info its store kept from before is replaced, or the wizard shows.
SetupEnds ==
  (Layout /\ page.info = "open" /\ server.locked /\ browser.token = "code") ~>
    \/ page.info # "open" \/ browser.token # "code" \/ page.wizard.checked
    \/ page.app # "up" \/ browser.at = "/login"
=============================================================================
