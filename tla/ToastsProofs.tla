---------------------------- MODULE ToastsProofs -----------------------------
(***************************************************************************)
(* Proofs about Toasts, for any number of toasts shown or added and any    *)
(* duration: the types, that the timer of a sticky toast never runs, and   *)
(* from the two that the store with its timers implements Notifications.   *)
(***************************************************************************)
EXTENDS Toasts, TLAPS

-----------------------------------------------------------------------------
(* Part 1: what a step of one item keeps.                                  *)

\* An item as the store holds it.
GoodItem(item) == item \in Item /\ (item.sticky => item.remaining = 0 /\ ~item.running)

LEMMA TimerStarts ==
  ASSUME NEW item, GoodItem(item)
  PROVE  GoodItem(Started(item)) /\ Started(item).sticky = item.sticky
<1>1. CASE item.remaining > 0
  <2>1. ~item.sticky
    BY <1>1 DEF GoodItem, Item
  <2>2. Started(item) = [item EXCEPT !.running = TRUE]
    BY <1>1 DEF Started
  <2>3. QED
    BY <2>1, <2>2 DEF GoodItem, Item
<1>2. CASE ~(item.remaining > 0)
  BY <1>2 DEF Started
<1>3. QED
  BY <1>1, <1>2

LEMMA NewItemGood ==
  ASSUME NEW duration \in {0, Duration}
  PROVE  GoodItem(NewItem(duration)) /\ NewItem(duration).sticky = (duration = 0)
<1> DEFINE item == [sticky |-> duration = 0, remaining |-> duration, running |-> FALSE,
                    hover |-> FALSE, focus |-> FALSE]
<1>1. (duration = 0) \in BOOLEAN /\ duration \in 0..Duration
  BY ToastsAssumption
<1>2. item \in Item /\ item.sticky = (duration = 0)
  BY <1>1, Zenon DEF Item
<1>3. item.remaining = duration /\ item.running = FALSE
  BY Zenon
<1>4. GoodItem(item)
  BY <1>2, <1>3, Zenon DEF GoodItem
<1> HIDE DEF item
<1>5. GoodItem(Started(item)) /\ Started(item).sticky = (duration = 0)
  BY <1>2, <1>4, TimerStarts, Zenon
<1>6. QED
  BY <1>5, Zenon DEF NewItem, item

LEMMA PausedGood ==
  ASSUME NEW item, GoodItem(item), NEW how \in {"hover", "focus"}, NEW elapsed \in 0..Duration
  PROVE  /\ GoodItem(Paused([item EXCEPT ![how] = TRUE], elapsed))
         /\ Paused([item EXCEPT ![how] = TRUE], elapsed).sticky = item.sticky
<1> DEFINE over == [item EXCEPT ![how] = TRUE]
<1>1. over \in Item /\ over.sticky = item.sticky /\ over.remaining = item.remaining
      /\ over.running = item.running
  BY DEF GoodItem, Item
<1> HIDE DEF over
<1>2. GoodItem(Paused(over, elapsed)) /\ Paused(over, elapsed).sticky = over.sticky
  <2>1. CASE ~over.running
    BY <2>1, <1>1 DEF GoodItem, Item, Paused
  <2>2. CASE over.running
    <3> DEFINE left == IF elapsed > over.remaining THEN 0 ELSE over.remaining - elapsed
    <3>1. over.remaining \in 0..Duration /\ Duration \in Nat
      BY <1>1, ToastsAssumption DEF Item
    <3>2. left \in 0..Duration
      BY <3>1
    <3> HIDE DEF left
    <3>3. Paused(over, elapsed) = [over EXCEPT !.running = FALSE, !.remaining = left]
      BY <2>2, Zenon DEF Paused, left
    <3>4. ~over.sticky
      BY <2>2, <1>1 DEF GoodItem, Item
    <3>5. QED
      BY <3>2, <3>3, <3>4, <1>1 DEF GoodItem, Item
  <2>3. QED
    BY <2>1, <2>2
<1>3. QED
  BY <1>1, <1>2 DEF over

LEMMA StartedGood ==
  ASSUME NEW item, GoodItem(item), NEW how \in {"hover", "focus"}
  PROVE  /\ GoodItem(Started([item EXCEPT ![how] = FALSE]))
         /\ Started([item EXCEPT ![how] = FALSE]).sticky = item.sticky
<1> DEFINE out == [item EXCEPT ![how] = FALSE]
<1>1. out \in Item /\ out.sticky = item.sticky /\ out.remaining = item.remaining
      /\ out.running = item.running
  BY DEF GoodItem, Item
<1> HIDE DEF out
<1>2. GoodItem(Started(out)) /\ Started(out).sticky = out.sticky
  BY <1>1, TimerStarts DEF GoodItem
<1>3. QED
  BY <1>1, <1>2 DEF out

-----------------------------------------------------------------------------
(* Part 2: the invariant.                                                  *)

ToastsInv ==
  /\ nextId \in Nat /\ dismissed \subseteq 1..nextId /\ DOMAIN toasts \subseteq 1..nextId
  /\ toasts = [id \in DOMAIN toasts |-> toasts[id]]
  /\ \A id \in DOMAIN toasts : GoodItem(toasts[id])

LEMMA ToastsInvInit == ToastsInit => ToastsInv
BY DEF ToastsInit, ToastsInv, GoodItem

LEMMA AddKeeps ==
  ASSUME ToastsInv, NEW duration \in {0, Duration}, add(duration)
  PROVE  ToastsInv'
<1> DEFINE kept == Kept(DOMAIN toasts)
<1>1. kept \subseteq DOMAIN toasts
  BY DEF Kept
<1>2. /\ nextId' = nextId + 1 /\ dismissed' = dismissed
      /\ toasts' = [id \in kept \cup {nextId + 1} |->
                      IF id \in kept THEN toasts[id] ELSE NewItem(duration)]
  BY DEF add
<1>3. GoodItem(NewItem(duration))
  BY NewItemGood
<1> HIDE DEF kept
<1>4. DOMAIN toasts' = kept \cup {nextId + 1}
  BY <1>2
<1>5. \A id \in DOMAIN toasts' :
        toasts'[id] = IF id \in kept THEN toasts[id] ELSE NewItem(duration)
  BY <1>2, <1>4
<1>6. \A id \in DOMAIN toasts' : GoodItem(toasts'[id])
  <2> TAKE id \in DOMAIN toasts'
  <2>1. CASE id \in kept
    BY <2>1, <1>1, <1>5 DEF ToastsInv
  <2>2. CASE id \notin kept
    <3>1. toasts'[id] = NewItem(duration)
      BY <2>2, <1>5
    <3>2. QED
      BY <3>1, <1>3
  <2>3. QED
    BY <2>1, <2>2
<1>7. QED
  BY <1>1, <1>2, <1>4, <1>6 DEF ToastsInv

LEMMA DismissKeeps ==
  ASSUME ToastsInv, NEW id \in DOMAIN toasts, dismiss(id), dismissed' \subseteq dismissed \cup {id}
  PROVE  ToastsInv'
<1>1. /\ nextId' = nextId /\ DOMAIN toasts' = DOMAIN toasts \ {id}
      /\ \A other \in DOMAIN toasts' : toasts'[other] = toasts[other]
      /\ toasts' = [other \in DOMAIN toasts' |-> toasts'[other]]
  BY DEF dismiss
<1>2. \A other \in DOMAIN toasts' : GoodItem(toasts'[other])
  BY <1>1 DEF ToastsInv
<1>3. QED
  BY <1>1, <1>2 DEF ToastsInv

\* One item changes to another good one, as the pointer and the focus do.
LEMMA ItemKeeps ==
  ASSUME ToastsInv, NEW id \in DOMAIN toasts, NEW item, GoodItem(item),
         toasts' = [toasts EXCEPT ![id] = item], UNCHANGED <<nextId, dismissed>>
  PROVE  ToastsInv'
<1>1. /\ DOMAIN toasts' = DOMAIN toasts /\ toasts'[id] = item
      /\ \A other \in DOMAIN toasts \ {id} : toasts'[other] = toasts[other]
      /\ toasts' = [other \in DOMAIN toasts' |-> toasts'[other]]
  BY DEF ToastsInv
<1>2. \A other \in DOMAIN toasts' : GoodItem(toasts'[other])
  <2> TAKE other \in DOMAIN toasts'
  <2>1. CASE other = id
    BY <2>1, <1>1
  <2>2. CASE other # id
    <3>1. toasts'[other] = toasts[other] /\ other \in DOMAIN toasts
      BY <1>1, <2>2
    <3>2. QED
      BY <3>1 DEF ToastsInv
  <2>3. QED
    BY <2>1, <2>2
<1>3. QED
  BY <1>1, <1>2 DEF ToastsInv

\* What Enter and Leave do to the item they are about.
LEMMA EnterItem ==
  ASSUME ToastsInv, NEW id, NEW how \in {"hover", "focus"}, Enter(id, how)
  PROVE  \E item : /\ GoodItem(item) /\ item.sticky = toasts[id].sticky /\ id \in DOMAIN toasts
                   /\ toasts' = [toasts EXCEPT ![id] = item]
                   /\ UNCHANGED <<nextId, dismissed>>
<1>1. PICK elapsed \in 0..Duration :
        toasts' = [toasts EXCEPT ![id] = Paused([toasts[id] EXCEPT ![how] = TRUE], elapsed)]
  BY DEF Enter
<1>2. id \in DOMAIN toasts /\ UNCHANGED <<nextId, dismissed>> /\ GoodItem(toasts[id])
  BY DEF Enter, ToastsInv
<1>3. QED
  BY <1>1, <1>2, PausedGood

LEMMA LeaveItem ==
  ASSUME ToastsInv, NEW id, NEW how \in {"hover", "focus"}, Leave(id, how)
  PROVE  \E item : /\ GoodItem(item) /\ item.sticky = toasts[id].sticky /\ id \in DOMAIN toasts
                   /\ toasts' = [toasts EXCEPT ![id] = item]
                   /\ UNCHANGED <<nextId, dismissed>>
<1>1. /\ id \in DOMAIN toasts /\ UNCHANGED <<nextId, dismissed>> /\ GoodItem(toasts[id])
      /\ toasts' = [toasts EXCEPT ![id] = Started([toasts[id] EXCEPT ![how] = FALSE])]
  BY DEF Leave, ToastsInv
<1>2. QED
  BY <1>1, StartedGood

LEMMA ToastsInvStep == ToastsInv /\ [ToastsNext]_toastVars => ToastsInv'
<1> SUFFICES ASSUME ToastsInv, [ToastsNext]_toastVars PROVE ToastsInv'
  OBVIOUS
<1>1. CASE Caught
  BY <1>1, AddKeeps DEF Caught
<1>2. CASE Said
  BY <1>2, AddKeeps DEF Said
<1>3. ASSUME NEW id \in 1..nextId, Dismiss(id) PROVE ToastsInv'
  BY <1>3, DismissKeeps DEF Dismiss
<1>4. ASSUME NEW id \in 1..nextId, Fire(id) PROVE ToastsInv'
  BY <1>4, DismissKeeps DEF Fire
<1>5. ASSUME NEW id \in 1..nextId, NEW how \in {"hover", "focus"}, Enter(id, how)
      PROVE  ToastsInv'
  BY <1>5, EnterItem, ItemKeeps
<1>6. ASSUME NEW id \in 1..nextId, NEW how \in {"hover", "focus"}, Leave(id, how)
      PROVE  ToastsInv'
  BY <1>6, LeaveItem, ItemKeeps
<1>7. CASE UNCHANGED toastVars
  BY <1>7 DEF ToastsInv, toastVars
<1>8. QED
  BY <1>1, <1>2, <1>3, <1>4, <1>5, <1>6, <1>7 DEF ToastsNext

LEMMA ToastsInvAlways == ToastsSpec => []ToastsInv
BY ToastsInvInit, ToastsInvStep, PTL DEF ToastsSpec

LEMMA ToastsInvSays == ToastsInv => ToastsTypeOK /\ StickyRests
BY DEF ToastsInv, ToastsTypeOK, StickyRests, GoodItem

\* The store and its items stay of their types: the pointer and the focus leave
\* a duration between nothing and the whole, however late the timers are.
THEOREM ToastsTyped == ToastsSpec => []ToastsTypeOK
BY ToastsInvAlways, ToastsInvSays, PTL

\* The timer of a sticky toast never runs, whatever the pointer and the focus do.
THEOREM StickyNeverTimed == ToastsSpec => []StickyRests
BY ToastsInvAlways, ToastsInvSays, PTL

-----------------------------------------------------------------------------
(* Part 3: the refinement.  Promise maps the toasts to their stickiness.   *)

\* The notifications the toasts shown stand for.
ShownNotes == [id \in DOMAIN toasts |-> toasts[id].sticky]

LEMMA RefinesInit == ToastsInit => Promise!NotesInit
BY DEF ToastsInit, Promise!NotesInit

LEMMA AddRefines ==
  ASSUME ToastsInv, NEW duration \in {0, Duration}, add(duration)
  PROVE  Promise!Notify(duration = 0)
<1> DEFINE kept == Kept(DOMAIN toasts)
<1>1. kept \subseteq DOMAIN toasts /\ kept = Promise!Newest(DOMAIN ShownNotes, MaxToasts - 1)
  <2>1. DOMAIN ShownNotes = DOMAIN toasts
    BY DEF ShownNotes
  <2>2. QED
    BY <2>1, Zenon DEF Kept, Promise!Newest, Cardinality, Promise!Cardinality
<1>2. /\ nextId' = nextId + 1 /\ dismissed' = dismissed
      /\ toasts' = [id \in kept \cup {nextId + 1} |->
                      IF id \in kept THEN toasts[id] ELSE NewItem(duration)]
  BY DEF add
<1>3. NewItem(duration).sticky = (duration = 0)
  BY NewItemGood
<1> HIDE DEF kept
<1>4. DOMAIN toasts' = kept \cup {nextId + 1}
  BY <1>2
<1>5. \A id \in kept \cup {nextId + 1} :
        toasts'[id].sticky = IF id \in kept THEN toasts[id].sticky ELSE duration = 0
  <2> TAKE id \in kept \cup {nextId + 1}
  <2>1. CASE id \in kept
    BY <2>1, <1>2
  <2>2. CASE id \notin kept
    <3>1. toasts'[id] = NewItem(duration)
      BY <2>2, <1>2
    <3>2. QED
      BY <3>1, <2>2, <1>3, Zenon
  <2>3. QED
    BY <2>1, <2>2
<1>6. \A id \in kept : ShownNotes[id] = toasts[id].sticky
  BY <1>1 DEF ShownNotes
<1>7. [id \in DOMAIN toasts' |-> toasts'[id].sticky]
        = [id \in kept \cup {nextId + 1} |-> IF id \in kept THEN ShownNotes[id] ELSE duration = 0]
  BY <1>4, <1>5, <1>6, Zenon
<1>8. QED
  BY <1>1, <1>2, <1>7, Zenon DEF Promise!Notify, ShownNotes

LEMMA DismissRefines ==
  ASSUME NEW id \in DOMAIN toasts, dismiss(id)
  PROVE  Promise!Gone(id)
<1>1. /\ nextId' = nextId /\ DOMAIN toasts' = DOMAIN toasts \ {id}
      /\ \A other \in DOMAIN toasts' : toasts'[other] = toasts[other]
  BY DEF dismiss
<1>2. [other \in DOMAIN toasts' |-> toasts'[other].sticky]
        = [other \in DOMAIN ShownNotes \ {id} |-> ShownNotes[other]]
  BY <1>1 DEF ShownNotes
<1>3. QED
  BY <1>1, <1>2, Zenon DEF Promise!Gone, ShownNotes

\* Enter and Leave are a stutter of the notifications.
LEMMA ItemStutters ==
  ASSUME ToastsInv, NEW id \in DOMAIN toasts, NEW item, item.sticky = toasts[id].sticky,
         toasts' = [toasts EXCEPT ![id] = item], UNCHANGED <<nextId, dismissed>>
  PROVE  UNCHANGED <<ShownNotes, nextId, dismissed>>
<1>1. DOMAIN toasts' = DOMAIN toasts
  BY DEF ToastsInv
<1>2. \A other \in DOMAIN toasts : toasts'[other].sticky = toasts[other].sticky
  BY DEF ToastsInv
<1>3. QED
  BY <1>1, <1>2 DEF ShownNotes

LEMMA RefinesStep ==
  ToastsInv /\ [ToastsNext]_toastVars
    => [Promise!NotesNext]_<<ShownNotes, nextId, dismissed>>
<1> SUFFICES ASSUME ToastsInv, [ToastsNext]_toastVars
             PROVE  Promise!NotesNext \/ UNCHANGED <<ShownNotes, nextId, dismissed>>
  OBVIOUS
<1>1. CASE Caught
  <2>1. Promise!Notify(0 = 0)
    BY <1>1, AddRefines DEF Caught
  <2>2. QED
    BY <2>1 DEF Promise!NotesNext
<1>2. CASE Said
  <2>1. Promise!Notify(Duration = 0)
    BY <1>2, AddRefines DEF Said
  <2>2. QED
    BY <2>1 DEF Promise!NotesNext
<1>3. ASSUME NEW id \in 1..nextId, Dismiss(id) PROVE Promise!NotesNext
  <2>1. id \in DOMAIN ShownNotes /\ Promise!Gone(id) /\ dismissed' = dismissed \cup {id}
    BY <1>3, DismissRefines DEF Dismiss, ShownNotes
  <2>2. QED
    BY <2>1 DEF Promise!NotesNext, Promise!DismissNote, ShownNotes
\* A timer runs only for a toast that is not sticky.
<1>4. ASSUME NEW id \in 1..nextId, Fire(id) PROVE Promise!NotesNext
  <2>1. id \in DOMAIN ShownNotes /\ ~ShownNotes[id]
    BY <1>4 DEF Fire, ShownNotes, ToastsInv, GoodItem
  <2>2. Promise!Gone(id) /\ dismissed' = dismissed
    BY <1>4, DismissRefines DEF Fire
  <2>3. QED
    BY <2>1, <2>2 DEF Promise!NotesNext, Promise!Expire, ShownNotes
<1>5. ASSUME NEW id \in 1..nextId, NEW how \in {"hover", "focus"}, Enter(id, how)
      PROVE  UNCHANGED <<ShownNotes, nextId, dismissed>>
  BY <1>5, EnterItem, ItemStutters
<1>6. ASSUME NEW id \in 1..nextId, NEW how \in {"hover", "focus"}, Leave(id, how)
      PROVE  UNCHANGED <<ShownNotes, nextId, dismissed>>
  BY <1>6, LeaveItem, ItemStutters
<1>7. CASE UNCHANGED toastVars
  BY <1>7 DEF toastVars, ShownNotes
<1>8. QED
  BY <1>1, <1>2, <1>3, <1>4, <1>5, <1>6, <1>7 DEF ToastsNext

\* The toasts implement the notifications that were promised, for any limit and
\* any duration: the pause and the restart of a timer are stutters, and a timer
\* that fires takes away a toast that is not sticky.
THEOREM ToastsAreNotifications == ToastsSpec => ImplementsNotifications
<1>1. ToastsSpec => [][Promise!NotesNext]_<<ShownNotes, nextId, dismissed>>
  BY ToastsInvAlways, RefinesStep, PTL DEF ToastsSpec
<1>2. QED
  BY <1>1, RefinesInit, PTL DEF ToastsSpec, ImplementsNotifications, Promise!NotesSpec, ShownNotes
=============================================================================
