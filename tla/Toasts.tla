-------------------------------- MODULE Toasts -------------------------------
(* The notifications of the web UI: the store (stores/toast.ts), the items of
   ToastContainer with their timers, and who adds them.  Toasts outlive every
   view and the error boundary.  A pointer over an item, or the focus in it,
   stops its timer; the end of either starts it again with what remained. *)
EXTENDS Naturals, FiniteSets

CONSTANTS MaxToasts,  \* MAX_TOASTS
          Duration,   \* the life of a toast that is not sticky, in ticks
          MaxGiven    \* bound: toasts added

\* slice(-(MAX_TOASTS - 1)) of one toast at most would be all of them.
ASSUME ToastsAssumption == MaxToasts \in Nat \ {0, 1} /\ Duration \in Nat \ {0}

VARIABLES toasts,   \* from the ids of the toasts shown to their items
          nextId,   \* the id given last
          dismissed \* history: the ids the user has dismissed

toastVars == <<toasts, nextId, dismissed>>

ToastsInit == nextId = 0 /\ toasts = [id \in {} |-> Duration] /\ dismissed = {}

-----------------------------------------------------------------------------
(* The item: what is left of the duration, and whether the timer runs. *)

\* Mutant: the timer of a sticky toast is started too.
StartedAlways(item) == [item EXCEPT !.running = TRUE]

\* A timer that runs is set anew.
Started(item) == IF item.remaining > 0 THEN [item EXCEPT !.running = TRUE] ELSE item

\* Mutant: without Math.max(0, ...).
PausedBelow(item, elapsed) ==
  IF ~item.running THEN item ELSE [item EXCEPT !.running = FALSE, !.remaining = @ - elapsed]

\* However late it is, what remains is not negative.
Paused(item, elapsed) ==
  IF ~item.running THEN item
  ELSE [item EXCEPT !.running = FALSE,
          !.remaining = IF elapsed > @ THEN 0 ELSE @ - elapsed]

NewItem(duration) ==
  Started([sticky |-> duration = 0, remaining |-> duration, running |-> FALSE,
           hover |-> FALSE, focus |-> FALSE])

-----------------------------------------------------------------------------
(* The store. *)

\* Mutant: slice(-MAX_TOASTS)
KeptAll(ids) == {id \in ids : Cardinality({later \in ids : later > id}) < MaxToasts}

Kept(ids) == {id \in ids : Cardinality({later \in ids : later > id}) < MaxToasts - 1}

add(duration) ==
  LET kept == Kept(DOMAIN toasts) IN
  /\ nextId < MaxGiven
  /\ nextId' = nextId + 1
  /\ toasts' = [id \in kept \cup {nextId + 1} |->
                  IF id \in kept THEN toasts[id] ELSE NewItem(duration)]
  /\ UNCHANGED dismissed

dismiss(id) ==
  /\ toasts' = [other \in DOMAIN toasts \ {id} |-> toasts[other]] /\ UNCHANGED nextId

-----------------------------------------------------------------------------
(* Who adds: the error boundary when it catches, a sticky one, and the views and
   its stop button when they have something to say. *)

Caught == add(0)
Said   == add(Duration)

\* The button of the item.
Dismiss(id) == id \in DOMAIN toasts /\ dismiss(id) /\ dismissed' = dismissed \cup {id}

Fire(id) ==
  id \in DOMAIN toasts /\ toasts[id].running /\ dismiss(id) /\ UNCHANGED dismissed

\* The pointer and the focus come and go by themselves: the timer runs again
\* when one has left while the other stays.
Enter(id, how) ==
  /\ id \in DOMAIN toasts /\ ~toasts[id][how]
  /\ \E elapsed \in 0..Duration :
       toasts' = [toasts EXCEPT ![id] = Paused([@ EXCEPT ![how] = TRUE], elapsed)]
  /\ UNCHANGED <<nextId, dismissed>>

Leave(id, how) ==
  /\ id \in DOMAIN toasts /\ toasts[id][how]
  /\ toasts' = [toasts EXCEPT ![id] = Started([@ EXCEPT ![how] = FALSE])]
  /\ UNCHANGED <<nextId, dismissed>>

ToastsNext ==
  \/ Caught \/ Said
  \/ \E id \in 1..nextId : \/ Dismiss(id) \/ Fire(id)
                           \/ \E how \in {"hover", "focus"} : Enter(id, how) \/ Leave(id, how)

ToastsSpec == ToastsInit /\ [][ToastsNext]_toastVars

-----------------------------------------------------------------------------
Item == [sticky : BOOLEAN, remaining : 0..Duration, running : BOOLEAN,
         hover : BOOLEAN, focus : BOOLEAN]

ToastsTypeOK ==
  /\ nextId \in Nat /\ dismissed \subseteq 1..nextId
  /\ DOMAIN toasts \subseteq 1..nextId /\ toasts \in [DOMAIN toasts -> Item]

\* The timer of a sticky toast never runs.
StickyRests ==
  \A id \in DOMAIN toasts : toasts[id].sticky => toasts[id].remaining = 0 /\ ~toasts[id].running

-----------------------------------------------------------------------------
Promise == INSTANCE Notifications WITH
             MaxNotes <- MaxToasts, given <- nextId, closed <- dismissed,
             notes <- [id \in DOMAIN toasts |-> toasts[id].sticky]

\* The store and its items, with the timers that the pointer and the focus stop and
\* start, are the notifications that were promised: no timer takes a sticky one
\* away, and nothing but newer ones and the user does.
ImplementsNotifications == Promise!NotesSpec
=============================================================================
