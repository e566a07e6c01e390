----------------------------- MODULE ApiClient -----------------------------
(* request() of api/client.ts as every view and store of the web UI uses it: a
   call is sent, the server acts and answers in its own time, and only then does
   the code after the await run.  Between the three anything else may happen,
   calls overlap, and nothing cancels one: leaving the view, changing the
   selection or sending the same call again leaves it in flight.

   A state keeps the calls in flight as a function of the slots in use.  A call
   holds the request, with the values its handler captured before the await. *)
EXTENDS Naturals, FiniteSets

CONSTANTS MaxCalls,  \* bound: calls of a view in flight at the same time
          MaxTimers, \* bound: timers of one kind pending at the same time
          Nothing    \* null, and the body of a call that has no answer yet

ASSUME CallsAssumption == MaxCalls \in Nat \ {0} /\ MaxTimers \in Nat \ {0}

Slots == 1..MaxCalls

NoCalls == [s \in {} |-> Nothing]

CanSend(calls) == \E s \in Slots : s \notin DOMAIN calls

Room(calls, n) == Cardinality(Slots \ DOMAIN calls) >= n

FreeSlot(calls) == CHOOSE s \in Slots : s \notin DOMAIN calls

Send(calls, req) ==
  [s \in DOMAIN calls \cup {FreeSlot(calls)} |->
     IF s \in DOMAIN calls THEN calls[s]
     ELSE [req |-> req, state |-> "sent", body |-> Nothing]]

\* res.ok, with what res.json() resolves to.
Answered(calls, s, body) ==
  [calls EXCEPT ![s] = [@ EXCEPT !.state = "ok", !.body = body]]

\* An ApiError, or the rejection of fetch itself: the handler's catch runs
\* either way, and cannot tell a call the server refused from one it carried
\* out and whose answer was lost.
Failed(calls, s) == [calls EXCEPT ![s] = [@ EXCEPT !.state = "failed"]]

\* The code after the await runs: the call is over.
Settled(calls, s) == [t \in DOMAIN calls \ {s} |-> calls[t]]

Sent(calls)    == {s \in DOMAIN calls : calls[s].state = "sent"}
Replied(calls) == {s \in DOMAIN calls : calls[s].state # "sent"}
Ok(calls, s)   == calls[s].state = "ok"

\* A call of one of these operations is not over.
InFlight(calls, ops) == \E s \in DOMAIN calls : calls[s].req.op \in ops
=============================================================================
