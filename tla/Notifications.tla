---------------------------- MODULE Notifications ----------------------------
(* What the web UI promises of its notifications, of which Toasts is the code:
   they are listed in the order they were given, at most so many at a time, the
   oldest making way; one that is gone does not come back; and a sticky one
   stays until the user dismisses it or newer ones take its place. *)
EXTENDS Naturals, FiniteSets

CONSTANT MaxNotes \* notifications on the screen, one at least

VARIABLES notes, \* from the ids of the notifications on the screen to: is it sticky
          given, \* the notifications given so far: their ids are 1..given
          closed \* those the user has dismissed

NotesInit == given = 0 /\ notes = [id \in {} |-> FALSE] /\ closed = {}

Newest(ids, n) == {id \in ids : Cardinality({later \in ids : later > id}) < n}

Notify(sticky) ==
  LET kept == Newest(DOMAIN notes, MaxNotes - 1) IN
  /\ given' = given + 1
  /\ notes' = [id \in kept \cup {given + 1} |-> IF id \in kept THEN notes[id] ELSE sticky]
  /\ UNCHANGED closed

Gone(id) == notes' = [other \in DOMAIN notes \ {id} |-> notes[other]] /\ UNCHANGED given

DismissNote(id) == id \in DOMAIN notes /\ Gone(id) /\ closed' = closed \cup {id}

Expire(id) == id \in DOMAIN notes /\ ~notes[id] /\ Gone(id) /\ UNCHANGED closed

NotesNext ==
  \/ \E sticky \in BOOLEAN : Notify(sticky)
  \/ \E id \in 1..given : DismissNote(id) \/ Expire(id)

NotesSpec == NotesInit /\ [][NotesNext]_<<notes, given, closed>>
=============================================================================
