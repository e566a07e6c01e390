------------------------- MODULE ControlServerProofs -------------------------
(***************************************************************************)
(* Proofs about ControlServer, for any finite set of nodes, any number of  *)
(* tasks, targets, registrations and late answers, any requests and any    *)
(* combination of faults.                                                  *)
(***************************************************************************)
EXTENDS ControlServer, FiniteSetTheorems, WellFoundedInduction, TLAPS

-----------------------------------------------------------------------------
(* Part 1: sequences.                                                      *)

LEMMA LeastExists ==
  ASSUME NEW S \in SUBSET Nat, S # {}
  PROVE  Min(S) \in S /\ \A y \in S : Min(S) <= y
<1>1. PICK x \in S : \A y \in S : ~ (<< y, x >> \in OpToRel(<, Nat))
  BY NatLessThanWellFounded, WFMin
<1>2. \A y \in S : ~ (y < x)
  BY <1>1, Zenon DEF OpToRel
<1>3. \A y \in S : x <= y
  BY <1>2
<1>4. QED
  BY <1>3 DEF Min

(* Where a sweep goes next: the first usable node, if there is one.        *)
LEMMA NextStop ==
  ASSUME NEW s \in Seq(Node)
  PROVE  LET i == SelectInSeq(s, Usable)
         IN \/ i = 0 /\ \A j \in 1..Len(s) : ~Usable(s[j])
            \/ /\ i \in 1..Len(s) /\ Usable(s[i])
               /\ \A j \in 1..(i - 1) : ~Usable(s[j])
<1> DEFINE I == {j \in 1..Len(s) : Usable(s[j])}
<1>1. SelectInSeq(s, Usable) = IF I # {} THEN Min(I) ELSE 0
  BY DEF SelectInSeq
<1>2. CASE I = {}
  BY <1>1, <1>2
<1>3. CASE I # {}
  <2>1. Min(I) \in I /\ \A y \in I : Min(I) <= y
    <3>1. I \in SUBSET Nat
      OBVIOUS
    <3>2. QED
      BY <1>3, <3>1, LeastExists, Zenon
  <2>2. \A j \in 1..(Min(I) - 1) : j \notin I /\ j \in 1..Len(s)
    BY <2>1
  <2>3. QED
    BY <1>1, <1>3, <2>1, <2>2
<1>4. QED
  BY <1>2, <1>3

LEMMA PermutationTypes ==
  /\ SetToSeqs(Node) \subseteq Seq(Node)
  /\ \A f \in SetToSeqs(Node) : IsInjective(f)
  /\ SetToAllKPermutations(Node) \subseteq Seq(Node)
<1>1. ASSUME NEW S \in SUBSET Node, NEW f \in SetToSeqs(S)
      PROVE  f \in Seq(Node) /\ IsInjective(f)
  <2>1. Cardinality(S) \in Nat
    BY FS_Subset, FS_CardinalityType, ConstantsAssumption
  <2>2. /\ f \in [1..Cardinality(S) -> S]
        /\ \A i, j \in 1..Cardinality(S) : i # j => f[i] # f[j]
    BY DEF SetToSeqs
  <2>3. f \in [1..Cardinality(S) -> Node]
    BY <2>2
  <2>4. QED
    BY <2>1, <2>2, <2>3 DEF IsInjective
<1>2. \A f \in SetToSeqs(Node) : f \in Seq(Node) /\ IsInjective(f)
  BY <1>1
<1>3. \A s \in SetToAllKPermutations(Node) : s \in Seq(Node)
  BY <1>1 DEF SetToAllKPermutations
<1>4. QED
  BY <1>2, <1>3

LEMMA RemoveAtIs ==
  ASSUME NEW S, NEW s \in Seq(S), NEW k \in 1..Len(s)
  PROVE  /\ RemoveAt(s, k) \in Seq(S) /\ Len(RemoveAt(s, k)) = Len(s) - 1
         /\ \A i \in 1..(Len(s) - 1) :
              RemoveAt(s, k)[i] = s[IF i < k THEN i ELSE i + 1]
<1>1. SubSeq(s, 1, k - 1) \in Seq(S) /\ SubSeq(s, k + 1, Len(s)) \in Seq(S)
  OBVIOUS
<1>2. Len(SubSeq(s, 1, k - 1)) = k - 1 /\ Len(SubSeq(s, k + 1, Len(s))) = Len(s) - k
  OBVIOUS
<1>3. /\ \A i \in 1..(k - 1) : SubSeq(s, 1, k - 1)[i] = s[i]
      /\ \A i \in 1..(Len(s) - k) : SubSeq(s, k + 1, Len(s))[i] = s[k + i]
  OBVIOUS
<1>4. PICK a \in Seq(S), b \in Seq(S) :
        /\ RemoveAt(s, k) = a \o b /\ Len(a) = k - 1 /\ Len(b) = Len(s) - k
        /\ \A i \in 1..(k - 1) : a[i] = s[i]
        /\ \A i \in 1..(Len(s) - k) : b[i] = s[k + i]
  BY <1>1, <1>2, <1>3 DEF RemoveAt
<1>5. a \o b \in Seq(S) /\ Len(a \o b) = Len(s) - 1
  <2>1. a \o b \in Seq(S) /\ Len(a \o b) = Len(a) + Len(b)
    OBVIOUS
  <2>2. Len(s) \in Nat /\ k \in Nat /\ Len(a) = k - 1 /\ Len(b) = Len(s) - k
    BY <1>4
  <2>3. QED
    BY <2>1, <2>2
<1>6. ASSUME NEW i \in 1..(Len(s) - 1)
      PROVE  (a \o b)[i] = s[IF i < k THEN i ELSE i + 1]
  <2>1. (a \o b)[i] = IF i <= Len(a) THEN a[i] ELSE b[i - Len(a)]
    BY <1>4, <1>5
  <2>2. CASE i < k
    BY <1>4, <2>1, <2>2
  <2>3. CASE ~ (i < k)
    <3>1. (a \o b)[i] = b[i - (k - 1)] /\ i - (k - 1) \in 1..(Len(s) - k)
      BY <1>4, <2>1, <2>3
    <3>2. k + (i - (k - 1)) = i + 1
      OBVIOUS
    <3>3. QED
      BY <1>4, <2>3, <3>1, <3>2
  <2>4. QED
    BY <2>2, <2>3
<1>7. QED
  BY <1>4, <1>5, <1>6

LEMMA RemoveFirstIs ==
  ASSUME NEW S, NEW s \in Seq(S), NEW n, IsInjective(s)
  PROVE  /\ RemoveFirst(s, n) \in Seq(S) /\ IsInjective(RemoveFirst(s, n))
         /\ Range(RemoveFirst(s, n)) = Range(s) \ {n}
<1>1. CASE \E i \in 1..Len(s) : s[i] = n
  <2> DEFINE I == {j \in 1..Len(s) : s[j] = n}
  <2>1. \E k \in 1..Len(s) : s[k] = n /\ RemoveFirst(s, n) = RemoveAt(s, k)
    <3>1. I \in SUBSET Nat /\ I # {}
      BY <1>1
    <3>2. Min(I) \in I
      BY <3>1, LeastExists, Zenon
    <3>3. SelectInSeq(s, LAMBDA v : v = n) = Min(I)
      BY <1>1 DEF SelectInSeq
    <3>4. RemoveFirst(s, n) = RemoveAt(s, Min(I))
      BY <1>1, <3>3 DEF RemoveFirst
    <3>5. QED
      BY <3>2, <3>4
  <2>2. PICK k \in 1..Len(s) : s[k] = n /\ RemoveFirst(s, n) = RemoveAt(s, k)
    BY <2>1
  <2>3. PICK r \in Seq(S) : /\ r = RemoveFirst(s, n) /\ Len(r) = Len(s) - 1
                            /\ \A i \in 1..Len(r) : r[i] = s[IF i < k THEN i ELSE i + 1]
    <3>1. PICK r : r = RemoveAt(s, k)
      OBVIOUS
    <3>2. /\ r \in Seq(S) /\ Len(r) = Len(s) - 1
          /\ \A i \in 1..(Len(s) - 1) : r[i] = s[IF i < k THEN i ELSE i + 1]
      BY <3>1, RemoveAtIs
    <3>3. QED
      BY <2>2, <3>1, <3>2
  <2>4. \A i, j \in 1..Len(s) : s[i] = s[j] => i = j
    BY DEF IsInjective
  <2>5. IsInjective(r)
    BY <2>3, <2>4 DEF IsInjective
  <2>6. ASSUME NEW i \in 1..Len(s), s[i] # n
        PROVE  \E j \in 1..Len(r) : r[j] = s[i]
    <3>1. CASE i < k
      BY <2>2, <2>3, <3>1
    <3>2. CASE i > k
      <4>1. i - 1 \in 1..Len(r) /\ r[i - 1] = s[i]
        BY <2>2, <2>3, <3>2
      <4>2. QED
        BY <4>1
    <3>3. QED
      BY <2>2, <2>6, <3>1, <3>2
  <2>7. ASSUME NEW i \in 1..Len(r)
        PROVE  r[i] # n /\ \E j \in 1..Len(s) : s[j] = r[i]
    <3>1. PICK j \in 1..Len(s) : r[i] = s[j] /\ j # k
      <4>1. r[i] = s[IF i < k THEN i ELSE i + 1]
        BY <2>3
      <4>2. (IF i < k THEN i ELSE i + 1) \in 1..Len(s) /\ (IF i < k THEN i ELSE i + 1) # k
        BY <2>3
      <4>3. QED
        BY <4>1, <4>2
    <3>2. QED
      BY <2>2, <2>4, <3>1
  <2>8. Range(r) = Range(s) \ {n}
    <3>1. DOMAIN r = 1..Len(r) /\ DOMAIN s = 1..Len(s)
      BY <2>3
    <3>2. ASSUME NEW m \in Range(r)
          PROVE  m \in Range(s) /\ m # n
      BY <2>7, <3>1 DEF Range
    <3>3. ASSUME NEW m \in Range(s), m # n
          PROVE  m \in Range(r)
      <4>1. PICK i \in 1..Len(s) : s[i] = m
        BY <3>1, <3>3 DEF Range
      <4>2. PICK j \in 1..Len(r) : r[j] = m
        BY <2>6, <3>3, <4>1
      <4>3. QED
        BY <3>1, <4>2 DEF Range
    <3>4. QED
      BY <3>2, <3>3
  <2>9. QED
    BY <2>3, <2>5, <2>8
<1>2. CASE ~ \E i \in 1..Len(s) : s[i] = n
  <2>1. RemoveFirst(s, n) = s
    BY <1>2 DEF RemoveFirst
  <2>2. n \notin Range(s)
    BY <1>2 DEF Range
  <2>3. QED
    BY <2>1, <2>2
<1>3. QED
  BY <1>1, <1>2

-----------------------------------------------------------------------------
(* Part 2: the locks.  Who holds or awaits a lock is in its queue, once,   *)
(* and in no other; whose request is on its way holds it.                  *)

Waiting == InFlight \cup {"queued"}

QueueType(a, k, q) ==
  a \in [Task -> Place] /\ k \in [Task -> Link \cup {NoLink}] /\ q \in [Link -> Seq(Task)]

QueueInv(a, k, q) ==
  /\ \A t \in Task : a[t] \in Waiting =>
       k[t] \in Link /\ \E i \in 1..Len(q[k[t]]) : q[k[t]][i] = t
  /\ \A t \in Task : a[t] \in InFlight => q[k[t]][1] = t
  /\ \A l \in Link : \A i \in 1..Len(q[l]) : a[q[l][i]] \in Waiting /\ k[q[l][i]] = l
  /\ \A l \in Link : \A i, j \in 1..Len(q[l]) : q[l][i] = q[l][j] => i = j

(* Who is in no queue may go wherever there is none.                       *)
LEMMA ElsewhereKeeps ==
  ASSUME NEW a, NEW k, NEW q, QueueType(a, k, q), QueueInv(a, k, q),
         NEW t \in Task, a[t] \notin Waiting,
         NEW x \in Place \ Waiting, NEW y \in Link \cup {NoLink}
  PROVE  /\ QueueType([a EXCEPT ![t] = x], [k EXCEPT ![t] = y], q)
         /\ QueueInv([a EXCEPT ![t] = x], [k EXCEPT ![t] = y], q)
<1> DEFINE b == [a EXCEPT ![t] = x]
           m == [k EXCEPT ![t] = y]
<1>1. QueueType(b, m, q)
  BY DEF QueueType
<1>2. \A l \in Link : \A i \in 1..Len(q[l]) : q[l][i] \in Task /\ q[l][i] # t
  BY DEF QueueType, QueueInv
<1>3. \A u \in Task : u # t => b[u] = a[u] /\ m[u] = k[u]
  BY DEF QueueType
<1>4. b[t] \notin Waiting /\ InFlight \subseteq Waiting
  BY DEF QueueType, Waiting
<1>5. QED
  BY <1>1, <1>2, <1>3, <1>4 DEF QueueInv

(* The head of a queue leaves it.                                          *)
LEMMA LeaveKeeps ==
  ASSUME NEW a, NEW k, NEW q, QueueType(a, k, q), QueueInv(a, k, q),
         NEW t \in Task, a[t] \in Waiting, Head(q[k[t]]) = t
  PROVE  /\ QueueType([a EXCEPT ![t] = "done"], k, [q EXCEPT ![k[t]] = Tail(@)])
         /\ QueueInv([a EXCEPT ![t] = "done"], k, [q EXCEPT ![k[t]] = Tail(@)])
<1> DEFINE b == [a EXCEPT ![t] = "done"]
           h == k[t]
           p == [q EXCEPT ![h] = Tail(@)]
<1>1. h \in Link /\ q[h] \in Seq(Task) /\ q[h] # << >> /\ q[h][1] = t
  BY DEF QueueType, QueueInv
<1>2. /\ Tail(q[h]) \in Seq(Task) /\ Len(Tail(q[h])) = Len(q[h]) - 1
      /\ \A i \in 1..(Len(q[h]) - 1) : Tail(q[h])[i] = q[h][i + 1]
  BY <1>1
<1>3. QueueType(b, k, p)
  BY <1>1, <1>2 DEF QueueType, Place
<1>4. p[h] = Tail(q[h]) /\ \A l \in Link : l # h => p[l] = q[l]
  BY <1>1 DEF QueueType
<1>5. b[t] \notin Waiting /\ InFlight \subseteq Waiting /\ \A u \in Task : u # t => b[u] = a[u]
  BY DEF QueueType, Waiting, InFlight
<1>6. \A i \in 1..Len(p[h]) : i + 1 \in 1..Len(q[h]) /\ p[h][i] = q[h][i + 1] /\ p[h][i] # t
  <2> SUFFICES ASSUME NEW i \in 1..Len(p[h])
               PROVE  i + 1 \in 1..Len(q[h]) /\ p[h][i] = q[h][i + 1] /\ p[h][i] # t
    OBVIOUS
  <2>1. Len(q[h]) \in Nat /\ Len(p[h]) = Len(q[h]) - 1
    <3>1. Len(p[h]) = Len(Tail(q[h]))
      BY <1>4, Zenon
    <3>2. QED
      BY <1>1, <1>2, <3>1
  <2>2. i + 1 \in 1..Len(q[h]) /\ 1 \in 1..Len(q[h]) /\ i + 1 # 1 /\ i \in 1..(Len(q[h]) - 1)
    BY <2>1
  <2>3. p[h][i] = q[h][i + 1]
    BY <1>2, <1>4, <2>2
  <2>4. q[h][i + 1] # q[h][1]
    BY <1>1, <2>2 DEF QueueInv
  <2>5. QED
    BY <1>1, <2>2, <2>3, <2>4
<1>7. \A u \in Task : b[u] \in Waiting => k[u] \in Link /\ \E i \in 1..Len(p[k[u]]) : p[k[u]][i] = u
  <2> SUFFICES ASSUME NEW u \in Task, b[u] \in Waiting
               PROVE  k[u] \in Link /\ \E i \in 1..Len(p[k[u]]) : p[k[u]][i] = u
    OBVIOUS
  <2>1. u # t /\ a[u] \in Waiting /\ k[u] \in Link
    BY <1>5 DEF QueueInv
  <2>2. PICK i \in 1..Len(q[k[u]]) : q[k[u]][i] = u
    BY <2>1 DEF QueueInv
  <2>3. CASE k[u] = h
    <3>1. i # 1
      BY <1>1, <2>1, <2>2, <2>3
    <3>2. i - 1 \in 1..(Len(q[h]) - 1) /\ (i - 1) + 1 = i
      BY <1>1, <2>3, <3>1
    <3>3. Tail(q[h])[i - 1] = q[h][i]
      BY <1>2, <3>2
    <3>4. i - 1 \in 1..Len(p[h]) /\ p[h][i - 1] = u
      BY <1>2, <1>4, <2>2, <2>3, <3>2, <3>3
    <3>5. QED
      BY <2>1, <2>3, <3>4
  <2>4. CASE k[u] # h
    BY <1>4, <2>1, <2>2, <2>4
  <2>5. QED
    BY <2>3, <2>4
<1>8. ASSUME NEW u \in Task, b[u] \in InFlight
      PROVE  p[k[u]][1] = u
  <2>1. u # t /\ a[u] \in InFlight /\ a[u] \in Waiting
    BY <1>5, <1>8
  <2>2. k[u] \in Link /\ q[k[u]][1] = u
    BY <2>1 DEF QueueInv
  <2>3. k[u] # h
    BY <1>1, <2>1, <2>2
  <2>4. QED
    BY <1>4, <2>2, <2>3
<1>9. \A l \in Link : \A i \in 1..Len(p[l]) : b[p[l][i]] \in Waiting /\ k[p[l][i]] = l
  <2> SUFFICES ASSUME NEW l \in Link, NEW i \in 1..Len(p[l])
               PROVE  b[p[l][i]] \in Waiting /\ k[p[l][i]] = l
    OBVIOUS
  <2>1. p[l][i] # t /\ \E j \in 1..Len(q[l]) : p[l][i] = q[l][j]
    <3>1. CASE l = h
      BY <1>6, <3>1
    <3>2. CASE l # h
      BY <1>1, <1>4, <3>2 DEF QueueInv
    <3>3. QED
      BY <3>1, <3>2
  <2>2. a[p[l][i]] \in Waiting /\ k[p[l][i]] = l /\ p[l][i] \in Task
    BY <2>1 DEF QueueInv, QueueType
  <2>3. QED
    BY <1>5, <2>1, <2>2
<1>10. \A l \in Link : \A i, j \in 1..Len(p[l]) : p[l][i] = p[l][j] => i = j
  <2> SUFFICES ASSUME NEW l \in Link, NEW i \in 1..Len(p[l]), NEW j \in 1..Len(p[l]), p[l][i] = p[l][j]
               PROVE  i = j
    OBVIOUS
  <2>1. CASE l = h
    <3>1. /\ i + 1 \in 1..Len(q[h]) /\ p[h][i] = q[h][i + 1]
          /\ j + 1 \in 1..Len(q[h]) /\ p[h][j] = q[h][j + 1]
      BY <1>6, <2>1
    <3>2. q[h][i + 1] = q[h][j + 1]
      BY <2>1, <3>1
    <3>3. i + 1 = j + 1
      BY <1>1, <3>1, <3>2 DEF QueueInv
    <3>4. i \in Int /\ j \in Int
      OBVIOUS
    <3>5. QED
      BY <3>3, <3>4
  <2>2. CASE l # h
    BY <1>4, <2>2 DEF QueueInv
  <2>3. QED
    BY <2>1, <2>2
<1>11. QED
  BY <1>3, <1>7, <1>8, <1>9, <1>10 DEF QueueInv

(* Who is in no queue joins one.                                           *)
LEMMA JoinKeeps ==
  ASSUME NEW a, NEW k, NEW q, QueueType(a, k, q), QueueInv(a, k, q),
         NEW t \in Task, a[t] \notin Waiting, NEW l \in Link
  PROVE  /\ QueueType([a EXCEPT ![t] = Enter(q, l)], [k EXCEPT ![t] = l],
                       [q EXCEPT ![l] = Append(@, t)])
         /\ QueueInv([a EXCEPT ![t] = Enter(q, l)], [k EXCEPT ![t] = l],
                      [q EXCEPT ![l] = Append(@, t)])
<1> DEFINE b == [a EXCEPT ![t] = Enter(q, l)]
           m == [k EXCEPT ![t] = l]
           p == [q EXCEPT ![l] = Append(@, t)]
<1>1. q[l] \in Seq(Task) /\ Append(q[l], t) \in Seq(Task)
  BY DEF QueueType
<1>2. /\ Len(Append(q[l], t)) = Len(q[l]) + 1
      /\ Append(q[l], t)[Len(q[l]) + 1] = t
      /\ \A i \in 1..Len(q[l]) : Append(q[l], t)[i] = q[l][i]
  BY <1>1
<1>3. Enter(q, l) \in {"writing", "sent", "queued"}
  BY DEF Enter, Begin
<1>4. QueueType(b, m, p)
  BY <1>1, <1>3 DEF QueueType, Place, InFlight
<1>5. p[l] = Append(q[l], t) /\ \A h \in Link : h # l => p[h] = q[h]
  BY DEF QueueType
<1>6. /\ b[t] = Enter(q, l) /\ b[t] \in Waiting /\ m[t] = l /\ InFlight \subseteq Waiting
      /\ \A u \in Task : u # t => b[u] = a[u] /\ m[u] = k[u]
  BY <1>3 DEF QueueType, Waiting, InFlight
<1>7. \A h \in Link : \A i \in 1..Len(q[h]) : q[h][i] \in Task /\ q[h][i] # t
  BY DEF QueueType, QueueInv
<1>8. \A h \in Link : \A i \in 1..Len(q[h]) : i \in 1..Len(p[h]) /\ p[h][i] = q[h][i]
  BY <1>1, <1>2, <1>5 DEF QueueType
<1>9. \A h \in Link : \A i \in 1..Len(p[h]) :
        \/ i \in 1..Len(q[h]) /\ p[h][i] = q[h][i]
        \/ h = l /\ i = Len(q[l]) + 1 /\ p[h][i] = t
  BY <1>1, <1>2, <1>5 DEF QueueType
<1>10. \A u \in Task : b[u] \in Waiting => m[u] \in Link /\ \E i \in 1..Len(p[m[u]]) : p[m[u]][i] = u
  <2> SUFFICES ASSUME NEW u \in Task, b[u] \in Waiting
               PROVE  m[u] \in Link /\ \E i \in 1..Len(p[m[u]]) : p[m[u]][i] = u
    OBVIOUS
  <2>1. CASE u = t
    <3>1. Len(q[l]) + 1 \in 1..Len(p[l])
      BY <1>1, <1>2, <1>5
    <3>2. QED
      BY <1>2, <1>5, <1>6, <2>1, <3>1
  <2>2. CASE u # t
    <3>1. k[u] \in Link /\ \E i \in 1..Len(q[k[u]]) : q[k[u]][i] = u
      BY <1>6, <2>2 DEF QueueInv
    <3>2. QED
      BY <1>6, <1>8, <2>2, <3>1
  <2>3. QED
    BY <2>1, <2>2
<1>11. ASSUME NEW u \in Task, b[u] \in InFlight
       PROVE  p[m[u]][1] = u
  <2>1. CASE u = t
    <3>1. q[l] = << >>
      BY <1>6, <1>11, <2>1 DEF Enter, InFlight
    <3>2. Len(q[l]) + 1 = 1
      BY <3>1
    <3>3. QED
      BY <1>2, <1>5, <1>6, <2>1, <3>2
  <2>2. CASE u # t
    <3>1. k[u] \in Link /\ q[k[u]][1] = u /\ \E i \in 1..Len(q[k[u]]) : q[k[u]][i] = u
      BY <1>6, <1>11, <2>2 DEF QueueInv
    <3>2. 1 \in 1..Len(q[k[u]])
      BY <3>1 DEF QueueType
    <3>3. QED
      BY <1>6, <1>8, <2>2, <3>1, <3>2
  <2>3. QED
    BY <2>1, <2>2
<1>12. \A h \in Link : \A i \in 1..Len(p[h]) : b[p[h][i]] \in Waiting /\ m[p[h][i]] = h
  BY <1>6, <1>7, <1>9 DEF QueueInv
<1>13. \A h \in Link : \A i, j \in 1..Len(p[h]) : p[h][i] = p[h][j] => i = j
  BY <1>7, <1>9 DEF QueueInv
<1>14. QED
  BY <1>4, <1>10, <1>11, <1>12, <1>13 DEF QueueInv

(* The holder of a lock goes on with its exchange.                         *)
LEMMA AdvanceKeeps ==
  ASSUME NEW a, NEW k, NEW q, QueueType(a, k, q), QueueInv(a, k, q),
         NEW t \in Task, a[t] \in Waiting, Head(q[k[t]]) = t, NEW x \in InFlight
  PROVE  /\ QueueType([a EXCEPT ![t] = x], k, q)
         /\ QueueInv([a EXCEPT ![t] = x], k, q)
<1> DEFINE b == [a EXCEPT ![t] = x]
<1>1. b[t] \in InFlight /\ InFlight \subseteq Waiting /\ \A u \in Task : u # t => b[u] = a[u]
  BY DEF QueueType, Waiting
<1>2. QueueType(b, k, q)
  BY DEF QueueType, Place
<1>3. k[t] \in Link /\ q[k[t]] \in Seq(Task) /\ q[k[t]][1] = t
  BY DEF QueueType, QueueInv
<1>4. \A l \in Link : \A i \in 1..Len(q[l]) : q[l][i] \in Task
  BY DEF QueueType
<1>5. QED
  BY <1>1, <1>2, <1>3, <1>4 DEF QueueInv

-----------------------------------------------------------------------------
(* Part 3: type correctness.  It needs to know that a task is in the queue *)
(* it is supposed to be in, and that no port that is being closed is that  *)
(* of a registered node.                                                   *)

RegistryType ==
  /\ config \subseteq Node /\ nodes \in Seq(Node) /\ IsInjective(nodes)
  /\ made \in [Node -> 1..MaxLinks] /\ connected \subseteq Link /\ closing \subseteq connected
  /\ \A n \in Node : Registered(n) => n \in config
  /\ \A l \in closing : l[2] <= made[l[1]] /\ ~ (Registered(l[1]) /\ l = Transport(l[1]))

ExchangeType ==
  /\ QueueType(at, link, queue)
  /\ QueueInv(at, link, queue)
  /\ \A t \in Task : at[t] = "connecting" => link[t] \in Link
  /\ todo \in [Task -> Seq(Node)]
  /\ outcome \in [Task -> {"none", "ok", "error"}]
  /\ reached \in [Task -> SUBSET Node]

DataType ==
  /\ owed \in [Node -> 0..MaxOwed]
  /\ joints \in [Node -> Target \cup {Unknown}]
  /\ op \in [Task -> RequestKind \cup {"none"}]
  /\ target \in [Task -> Target \cup {Unknown}]
  /\ position \in [Node -> Target \cup {Unknown}]
  /\ unsure \subseteq Node
  /\ steady \in [Task -> SUBSET Node]

TypeInv == RegistryType /\ ExchangeType /\ DataType

LEMMA TypeInvImplies == TypeInv => TypeOK
<1> SUFFICES ASSUME TypeInv
             PROVE  TypeOK
  OBVIOUS
<1>1. ASSUME NEW l \in Link PROVE IsInjective(queue[l])
  <2>1. queue[l] \in Seq(Task) /\ \A i, j \in 1..Len(queue[l]) : queue[l][i] = queue[l][j] => i = j
    BY DEF TypeInv, ExchangeType, QueueType, QueueInv
  <2>2. QED
    BY <2>1 DEF IsInjective
<1>2. QED
  BY <1>1 DEF TypeInv, RegistryType, ExchangeType, DataType, QueueType, TypeOK

LEMMA TransportType ==
  ASSUME RegistryType, NEW n \in Node
  PROVE  Transport(n) \in Link
BY DEF RegistryType, Transport, Link

(* The node of a transport.                                                *)
LEMMA LinkNode ==
  ASSUME NEW l \in Link
  PROVE  l[1] \in Node /\ l[2] \in 1..MaxLinks /\ l = << l[1], l[2] >>
BY DEF Link

LEMMA TypeInit == Init => TypeInv
<1> SUFFICES ASSUME Init
             PROVE  TypeInv
  OBVIOUS
<1>1. RegistryType
  <2>1. nodes \in Seq(Node) /\ IsInjective(nodes)
    BY PermutationTypes DEF Init
  <2>2. connected \subseteq Link /\ made \in [Node -> 1..MaxLinks]
    BY ConstantsAssumption DEF Init, Link
  <2>3. QED
    BY <2>1, <2>2 DEF Init, RegistryType
<1>2. ExchangeType
  <2>1. QueueType(at, link, queue)
    BY DEF Init, QueueType, Place
  <2>2. \A t \in Task : at[t] = "idle"
    BY DEF Init
  <2>3. \A l \in Link : queue[l] = << >>
    BY DEF Init
  <2>4. QueueInv(at, link, queue)
    BY <2>2, <2>3 DEF QueueInv, Waiting, InFlight
  <2>5. QED
    BY <2>1, <2>2, <2>4 DEF Init, ExchangeType
<1>3. DataType
  BY ConstantsAssumption DEF Init, DataType
<1>4. QED
  BY <1>1, <1>2, <1>3 DEF TypeInv

(* Whoever holds a lock, or fails with it, is at the head of its queue.    *)
LEMMA HolderIsHead ==
  ASSUME TypeInv, NEW t \in Task, at[t] \in InFlight \/ Breaks(t)
  PROVE  at[t] \in Waiting /\ link[t] \in Link /\ link[t][1] \in Node /\ Head(queue[link[t]]) = t
<1>1. at[t] \in Waiting /\ link[t] \in Link
  BY DEF TypeInv, ExchangeType, QueueInv, Breaks, Waiting, InFlight
<1>2. CASE at[t] \in InFlight
  <2>1. queue[link[t]] \in Seq(Task) /\ queue[link[t]][1] = t
    BY <1>1, <1>2 DEF TypeInv, ExchangeType, QueueType, QueueInv
  <2>2. QED
    BY <1>1, <2>1, LinkNode
<1>3. CASE Breaks(t) /\ at[t] \notin InFlight
  BY <1>1, <1>3, LinkNode DEF Breaks, InFlight
<1>4. QED
  BY <1>2, <1>3

(* The tasks and the locks once t has left its lock, if it had one.        *)
Free(t) == [at EXCEPT ![t] = "done"]

LEMMA IdleIsFree ==
  ASSUME TypeInv, NEW t \in Task, at[t] \notin Waiting
  PROVE  QueueType(Free(t), link, queue) /\ QueueInv(Free(t), link, queue)
<1>1. QueueType(at, link, queue) /\ QueueInv(at, link, queue)
  BY DEF TypeInv, ExchangeType
<1>2. "done" \in Place \ Waiting /\ link[t] \in Link \cup {NoLink}
  BY <1>1 DEF QueueType, Place, Waiting, InFlight
<1>3. [link EXCEPT ![t] = link[t]] = link
  BY <1>1 DEF QueueType
<1>4. QED
  BY <1>1, <1>2, <1>3, ElsewhereKeeps DEF Free

LEMMA HeadIsFree ==
  ASSUME TypeInv, NEW t \in Task, at[t] \in Waiting, Head(queue[link[t]]) = t
  PROVE  QueueType(Free(t), link, Release(t)) /\ QueueInv(Free(t), link, Release(t))
<1>1. QueueType(at, link, queue) /\ QueueInv(at, link, queue)
  BY DEF TypeInv, ExchangeType
<1>2. QED
  BY <1>1, LeaveKeeps DEF Free, Release

(* Task t, free of locks, goes on with the nodes s.                        *)
LEMMA ProceedType ==
  ASSUME TypeInv, NEW t \in Task, NEW kind, NEW s \in Seq(Node), NEW q,
         QueueType(Free(t), link, q), QueueInv(Free(t), link, q), Proceed(t, kind, s, q)
  PROVE  /\ ExchangeType'
         /\ at' \in [Task -> Place] /\ at'[t] \in {"done", "writing", "sent", "queued"}
         /\ \A u \in Task : u # t => at'[u] = at[u] /\ link'[u] = link[u]
<1> DEFINE i == SelectInSeq(s, Usable)
           l == Transport(s[i])
<1>1. /\ at \in [Task -> Place] /\ Free(t) \in [Task -> Place] /\ Free(t)[t] = "done"
      /\ \A u \in Task : u # t => Free(t)[u] = at[u]
  BY DEF QueueType, Free, TypeInv, ExchangeType
<1>2. /\ link \in [Task -> Link \cup {NoLink}]
      /\ todo \in [Task -> Seq(Node)] /\ outcome \in [Task -> {"none", "ok", "error"}]
      /\ reached \in [Task -> SUBSET Node]
      /\ \A u \in Task : at[u] = "connecting" => link[u] \in Link
  BY DEF TypeInv, ExchangeType, QueueType
<1>3. "done" \notin Waiting /\ "done" \in Place
  BY DEF Waiting, InFlight, Place
<1>4. CASE i = 0
  <2>1. /\ at' = [Free(t) EXCEPT ![t] = "done"] /\ link' = [link EXCEPT ![t] = NoLink]
        /\ queue' = q /\ todo' = [todo EXCEPT ![t] = << >>]
        /\ outcome' = [outcome EXCEPT ![t] = "ok"] /\ reached' = reached
        /\ at' = Free(t)
    BY <1>1, <1>4 DEF Proceed, Free
  <2>2. QueueType(at', link', queue') /\ QueueInv(at', link', queue')
    <3>1. /\ QueueType([Free(t) EXCEPT ![t] = "done"], [link EXCEPT ![t] = NoLink], q)
          /\ QueueInv([Free(t) EXCEPT ![t] = "done"], [link EXCEPT ![t] = NoLink], q)
      <4>1. "done" \in Place \ Waiting /\ NoLink \in Link \cup {NoLink}
        BY <1>3
      <4>2. Free(t)[t] \notin Waiting
        BY <1>1, <1>3
      <4>3. QED
        BY <4>1, <4>2, ElsewhereKeeps, Zenon
    <3>2. QED
      BY <2>1, <3>1, Zenon
  <2>3. todo' \in [Task -> Seq(Node)] /\ outcome' \in [Task -> {"none", "ok", "error"}]
    BY <1>2, <2>1
  <2>4. \A u \in Task : u # t => at'[u] = at[u] /\ link'[u] = link[u]
    BY <1>1, <1>2, <2>1
  <2>5. at'[t] = "done" /\ at' \in [Task -> Place]
    BY <1>1, <2>1
  <2>6. QED
    BY <1>2, <2>1, <2>2, <2>3, <2>4, <2>5 DEF ExchangeType
<1>5. CASE i # 0
  <2>1. i \in 1..Len(s) /\ s[i] \in Node
    <3>1. i \in 1..Len(s)
      BY <1>5, NextStop, Zenon
    <3>2. QED
      BY <3>1
  <2>2. l \in Link
    BY <2>1, TransportType DEF TypeInv
  <2>3. Enter(q, l) \in {"writing", "sent", "queued"}
    BY DEF Enter, Begin
  <2>4. /\ at' = [at EXCEPT ![t] = Enter(q, l)] /\ link' = [link EXCEPT ![t] = l]
        /\ queue' = [q EXCEPT ![l] = Append(@, t)]
        /\ todo' = [todo EXCEPT ![t] = SubSeq(s, i + 1, Len(s))]
        /\ reached' = [reached EXCEPT ![t] =
               IF kind = "estop" /\ Enter(q, l) \in InFlight THEN @ \cup {s[i]} ELSE @]
        /\ outcome' = outcome
    BY <1>5 DEF Proceed
  <2>5. at' = [Free(t) EXCEPT ![t] = Enter(q, l)]
    BY <1>1, <2>4 DEF Free
  <2>6. QueueType(at', link', queue') /\ QueueInv(at', link', queue')
    <3>1. /\ QueueType([Free(t) EXCEPT ![t] = Enter(q, l)], [link EXCEPT ![t] = l],
                        [q EXCEPT ![l] = Append(@, t)])
          /\ QueueInv([Free(t) EXCEPT ![t] = Enter(q, l)], [link EXCEPT ![t] = l],
                       [q EXCEPT ![l] = Append(@, t)])
      <4>1. Free(t)[t] \notin Waiting
        BY <1>1, <1>3
      <4>2. QED
        BY <2>2, <4>1, JoinKeeps, Zenon
    <3>2. QED
      BY <2>4, <2>5, <3>1, Zenon
  <2>7. SubSeq(s, i + 1, Len(s)) \in Seq(Node)
    BY <2>1
  <2>8. todo' \in [Task -> Seq(Node)] /\ reached' \in [Task -> SUBSET Node]
    BY <1>2, <2>1, <2>4, <2>7
  <2>9. \A u \in Task : u # t => at'[u] = at[u] /\ link'[u] = link[u]
    BY <1>1, <1>2, <2>4
  <2>10. at'[t] \in {"writing", "sent", "queued"} /\ at' \in [Task -> Place]
    BY <1>1, <2>3, <2>4 DEF Place, InFlight
  <2>11. QED
    BY <1>2, <2>4, <2>6, <2>8, <2>9, <2>10 DEF ExchangeType
<1>6. QED
  BY <1>4, <1>5

LEMMA RegistryKept == RegistryType /\ UNCHANGED registry => RegistryType'
BY DEF RegistryType, registry, Registered, Transport

(* A step at the end of which t, which was free, goes on with a sweep.     *)
LEMMA SweepType ==
  ASSUME TypeInv, NEW t \in Task, NEW kind, NEW s \in Seq(Node),
         \/ at[t] \notin Waiting /\ Proceed(t, kind, s, queue)
         \/ (at[t] \in InFlight \/ Breaks(t)) /\ Proceed(t, kind, s, Release(t)),
         UNCHANGED registry, DataType'
  PROVE  TypeInv'
<1>1. RegistryType'
  BY RegistryKept DEF TypeInv
<1>2. CASE at[t] \notin Waiting /\ Proceed(t, kind, s, queue)
  <2>1. QueueType(Free(t), link, queue) /\ QueueInv(Free(t), link, queue)
    BY <1>2, IdleIsFree
  <2>2. ExchangeType'
    BY <1>2, <2>1, ProceedType, Zenon
  <2>3. QED
    BY <1>1, <2>2 DEF TypeInv
<1>3. CASE (at[t] \in InFlight \/ Breaks(t)) /\ Proceed(t, kind, s, Release(t))
  <2>1. at[t] \in Waiting /\ Head(queue[link[t]]) = t
    BY <1>3, HolderIsHead
  <2>2. QueueType(Free(t), link, Release(t)) /\ QueueInv(Free(t), link, Release(t))
    BY <2>1, HeadIsFree
  <2>3. ExchangeType'
    BY <1>3, <2>2, ProceedType, Zenon
  <2>4. QED
    BY <1>1, <2>3 DEF TypeInv
<1>4. QED
  BY <1>2, <1>3

LEMMA DoubtType ==
  ASSUME DataType, NEW S \in SUBSET Node, Doubt(S)
  PROVE  unsure' \subseteq Node /\ position' \in [Node -> Target \cup {Unknown}]
BY DEF DataType, Doubt

(* A request arrives, or an exchange comes to its end.                     *)
LEMMA SweepStepType ==
  ASSUME TypeInv, NEW t \in Task
  PROVE  /\ \A s \in Seq(Node), v \in Target : StartMove(t, s, v) => TypeInv'
         /\ \A s \in Seq(Node) : StartStop(t, s) => TypeInv'
         /\ StartEstop(t) \/ Answer(t) \/ AnswerUnchecked(t) \/ Fail(t) => TypeInv'
<1>1. /\ at[t] = "idle" => at[t] \notin Waiting
      /\ todo[t] \in Seq(Node) /\ nodes \in Seq(Node)
  BY DEF Waiting, InFlight, TypeInv, ExchangeType, RegistryType
<1>2. ASSUME NEW s \in Seq(Node), NEW v \in Target, StartMove(t, s, v)
      PROVE  TypeInv'
  <2>1. DataType'
    BY <1>2 DEF StartMove, TypeInv, DataType, RequestKind
  <2>2. QED
    BY <1>1, <1>2, <2>1, SweepType, Zenon DEF StartMove
<1>3. ASSUME NEW s \in Seq(Node), StartStop(t, s)
      PROVE  TypeInv'
  <2>1. DataType'
    BY <1>3 DEF StartStop, TypeInv, DataType, RequestKind
  <2>2. QED
    BY <1>1, <1>3, <2>1, SweepType, Zenon DEF StartStop
<1>4. CASE StartEstop(t)
  <2>1. DataType'
    BY <1>4 DEF StartEstop, TypeInv, DataType, RequestKind
  <2>2. QED
    BY <1>1, <1>4, <2>1, SweepType, Zenon DEF StartEstop
<1>5. CASE Answer(t)
  <2>1. DataType'
    BY <1>5 DEF Answer, TypeInv, DataType
  <2>2. at[t] \in InFlight
    BY <1>5 DEF Answer, InFlight
  <2>3. QED
    BY <1>1, <1>5, <2>1, <2>2, SweepType, Zenon DEF Answer
<1>6. CASE AnswerUnchecked(t)
  <2>1. at[t] \in InFlight
    BY <1>6 DEF AnswerUnchecked, InFlight
  <2>2. unsure' \subseteq Node /\ position' \in [Node -> Target \cup {Unknown}]
    BY <1>6, <2>1, HolderIsHead, DoubtType DEF AnswerUnchecked, TypeInv
  <2>3. DataType'
    BY <1>6, <2>2 DEF AnswerUnchecked, TypeInv, DataType
  <2>4. QED
    BY <1>1, <1>6, <2>1, <2>3, SweepType, Zenon DEF AnswerUnchecked
<1>7. CASE Fail(t)
  <2>1. Breaks(t)
    BY <1>7 DEF Fail
  <2>2. link[t][1] \in Node
    BY <2>1, HolderIsHead
  <2>3. unsure' \subseteq Node /\ position' \in [Node -> Target \cup {Unknown}]
    BY <1>7, <2>2, DoubtType DEF Fail, TypeInv
  <2>4. owed' \in [Node -> 0..MaxOwed]
    BY <1>7, <2>2, ConstantsAssumption DEF Fail, TypeInv, DataType
  <2>5. DataType'
    BY <1>7, <2>3, <2>4 DEF Fail, TypeInv, DataType
  <2>6. QED
    BY <1>1, <1>7, <2>1, <2>5, SweepType, Zenon DEF Fail
<1>8. QED
  BY <1>2, <1>3, <1>4, <1>5, <1>6, <1>7, Zenon

(* An exchange goes on, or ends in a line that is no object.               *)
LEMMA ExchangeStepType ==
  ASSUME TypeInv, NEW t \in Task, Send(t) \/ Written(t) \/ Handle(t) \/ Garbage(t)
  PROVE  TypeInv'
<1>1. QueueType(at, link, queue) /\ QueueInv(at, link, queue)
  BY DEF TypeInv, ExchangeType
<1>2. CASE Send(t)
  <2>1. RegistryType' /\ DataType'
    BY <1>2, RegistryKept DEF Send, TypeInv, DataType
  <2>2. at[t] \in Waiting /\ Head(queue[link[t]]) = t /\ Begin(link[t]) \in InFlight
    BY <1>2 DEF Send, Waiting, InFlight, Begin
  <2>3. QueueType(at', link', queue') /\ QueueInv(at', link', queue')
    <3>1. /\ QueueType([at EXCEPT ![t] = Begin(link[t])], link, queue)
          /\ QueueInv([at EXCEPT ![t] = Begin(link[t])], link, queue)
      BY <1>1, <2>2, AdvanceKeeps, Zenon
    <3>2. QED
      BY <1>2, <3>1, Zenon DEF Send
  <2>4. link[t][1] \in Node
    BY <1>1, <2>2, LinkNode DEF QueueInv
  <2>5. reached' \in [Task -> SUBSET Node]
    BY <1>2, <2>4 DEF Send, TypeInv, ExchangeType
  <2>6. \A u \in Task : at'[u] = "connecting" => link'[u] \in Link
    <3>1. Begin(link[t]) # "connecting" /\ link' = link /\ at' = [at EXCEPT ![t] = Begin(link[t])]
      BY <1>2 DEF Send, Begin
    <3>2. QED
      BY <1>1, <3>1 DEF TypeInv, ExchangeType, QueueType
  <2>7. QED
    BY <1>2, <2>1, <2>3, <2>5, <2>6 DEF Send, TypeInv, ExchangeType
<1>3. CASE Written(t)
  <2>1. RegistryType'
    BY <1>3, RegistryKept DEF Written, TypeInv
  <2>2. DataType'
    BY <1>3 DEF Written, TypeInv, DataType, historyVars
  <2>3. at[t] \in InFlight /\ "sent" \in InFlight
    BY <1>3 DEF Written, InFlight
  <2>4. at[t] \in Waiting /\ Head(queue[link[t]]) = t
    BY <2>3, HolderIsHead
  <2>5. QueueType(at', link', queue') /\ QueueInv(at', link', queue')
    <3>1. QueueType([at EXCEPT ![t] = "sent"], link, queue) /\ QueueInv([at EXCEPT ![t] = "sent"], link, queue)
      BY <1>1, <2>3, <2>4, AdvanceKeeps, Zenon
    <3>2. QED
      BY <1>3, <3>1, Zenon DEF Written
  <2>6. \A u \in Task : at'[u] = "connecting" => link'[u] \in Link
    BY <1>1, <1>3 DEF Written, TypeInv, ExchangeType, QueueType
  <2>7. QED
    BY <1>3, <2>1, <2>2, <2>5, <2>6 DEF Written, TypeInv, ExchangeType, historyVars
<1>4. CASE Handle(t)
  <2>1. RegistryType'
    BY <1>4, RegistryKept DEF Handle, TypeInv
  <2>2. DataType'
    BY <1>4 DEF Handle, TypeInv, DataType
  <2>3. at[t] \in InFlight /\ "handled" \in InFlight
    BY <1>4 DEF Handle, InFlight
  <2>4. at[t] \in Waiting /\ Head(queue[link[t]]) = t
    BY <2>3, HolderIsHead
  <2>5. QueueType(at', link', queue') /\ QueueInv(at', link', queue')
    <3>1. /\ QueueType([at EXCEPT ![t] = "handled"], link, queue)
          /\ QueueInv([at EXCEPT ![t] = "handled"], link, queue)
      BY <1>1, <2>3, <2>4, AdvanceKeeps, Zenon
    <3>2. QED
      BY <1>4, <3>1, Zenon DEF Handle
  <2>6. \A u \in Task : at'[u] = "connecting" => link'[u] \in Link
    BY <1>1, <1>4 DEF Handle, TypeInv, ExchangeType, QueueType
  <2>7. QED
    BY <1>4, <2>1, <2>2, <2>5, <2>6 DEF Handle, TypeInv, ExchangeType
<1>5. CASE Garbage(t)
  <2>1. at[t] \in InFlight
    BY <1>5 DEF Garbage, InFlight
  <2>2. at[t] \in Waiting /\ link[t][1] \in Node /\ Head(queue[link[t]]) = t
    BY <2>1, HolderIsHead
  <2>3. unsure' \subseteq Node /\ position' \in [Node -> Target \cup {Unknown}]
    BY <1>5, <2>2, DoubtType DEF Garbage, TypeInv
  <2>4. DataType'
    BY <1>5, <2>3 DEF Garbage, TypeInv, DataType
  <2>5. CASE op[t] = "estop"
    <3>1. QueueType(Free(t), link, Release(t)) /\ QueueInv(Free(t), link, Release(t))
      BY <2>2, HeadIsFree
    <3>2. /\ at' = Free(t) /\ link' = [link EXCEPT ![t] = NoLink] /\ queue' = Release(t)
          /\ outcome' = [outcome EXCEPT ![t] = "error"] /\ todo' = [todo EXCEPT ![t] = << >>]
          /\ reached' = reached
      BY <1>5, <2>5, Zenon DEF Garbage, Free
    <3>3. Free(t)[t] = "done" /\ "done" \in Place \ Waiting
      BY <1>1 DEF Free, QueueType, Place, Waiting, InFlight
    <3>4. [Free(t) EXCEPT ![t] = "done"] = Free(t)
      BY <1>1 DEF Free, QueueType
    <3>5. /\ QueueType([Free(t) EXCEPT ![t] = "done"], [link EXCEPT ![t] = NoLink], Release(t))
          /\ QueueInv([Free(t) EXCEPT ![t] = "done"], [link EXCEPT ![t] = NoLink], Release(t))
      <4>1. NoLink \in Link \cup {NoLink} /\ Free(t)[t] \notin Waiting
        BY <3>3
      <4>2. QED
        BY <3>1, <3>3, <4>1, ElsewhereKeeps, Zenon
    <3>6. QueueType(at', link', queue') /\ QueueInv(at', link', queue')
      BY <3>2, <3>4, <3>5, Zenon
    <3>7. \A u \in Task : at'[u] = "connecting" => link'[u] \in Link
      BY <1>1, <3>2 DEF Free, TypeInv, ExchangeType, QueueType
    <3>8. /\ todo' \in [Task -> Seq(Node)] /\ outcome' \in [Task -> {"none", "ok", "error"}]
          /\ reached' \in [Task -> SUBSET Node]
      BY <3>2 DEF TypeInv, ExchangeType
    <3>9. RegistryType'
      BY <1>5, RegistryKept DEF Garbage, TypeInv
    <3>10. QED
      BY <2>4, <3>6, <3>7, <3>8, <3>9 DEF TypeInv, ExchangeType
  <2>6. CASE op[t] # "estop"
    <3>1. todo[t] \in Seq(Node)
      BY DEF TypeInv, ExchangeType
    <3>2. QED
      BY <1>5, <2>1, <2>4, <2>6, <3>1, SweepType, Zenon DEF Garbage
  <2>7. QED
    BY <2>5, <2>6
<1>6. QED
  BY <1>2, <1>4, <1>5, <1>3

(* A task that is in no queue, before and after, is somewhere else.        *)
LEMMA AsideType ==
  ASSUME TypeInv, NEW t \in Task, at[t] \notin Waiting, NEW x \in Place \ Waiting,
         NEW y \in Link \cup {NoLink}, x = "connecting" => y \in Link,
         at' = [at EXCEPT ![t] = x], link' = [link EXCEPT ![t] = y], UNCHANGED << queue, todo >>,
         outcome' \in [Task -> {"none", "ok", "error"}], reached' \in [Task -> SUBSET Node]
  PROVE  ExchangeType'
<1>1. QueueType(at, link, queue) /\ QueueInv(at, link, queue)
  BY DEF TypeInv, ExchangeType
<1>2. QueueType(at', link', queue') /\ QueueInv(at', link', queue')
  <2>1. /\ QueueType([at EXCEPT ![t] = x], [link EXCEPT ![t] = y], queue)
        /\ QueueInv([at EXCEPT ![t] = x], [link EXCEPT ![t] = y], queue)
    BY <1>1, ElsewhereKeeps, Zenon
  <2>2. QED
    BY <2>1, Zenon
<1>3. \A u \in Task : at'[u] = "connecting" => link'[u] \in Link
  BY <1>1 DEF TypeInv, ExchangeType, QueueType
<1>4. QED
  BY <1>2, <1>3 DEF TypeInv, ExchangeType

LEMMA ReplyStepType ==
  ASSUME TypeInv, NEW t \in Task, Connect(t) \/ ConnectFails(t) \/ Reply(t)
  PROVE  TypeInv'
<1>1. at[t] \in {"connecting", "done"} /\ at[t] \notin Waiting
  BY DEF Connect, ConnectFails, Reply, Waiting, InFlight
<1>2. {"done", "idle"} \subseteq Place \ Waiting
  BY DEF Waiting, InFlight, Place
<1>3. /\ link \in [Task -> Link \cup {NoLink}] /\ outcome \in [Task -> {"none", "ok", "error"}]
      /\ reached \in [Task -> SUBSET Node]
      /\ at[t] = "connecting" => link[t] \in Link
  BY DEF TypeInv, ExchangeType, QueueType
<1>4. CASE Connect(t)
  <2>1. RegistryType'
    BY <1>3, <1>4 DEF Connect, TypeInv, RegistryType, Registered, Transport
  <2>2. DataType'
    BY <1>4 DEF Connect, historyVars, TypeInv, DataType
  <2>3. outcome' \in [Task -> {"none", "ok", "error"}] /\ reached' \in [Task -> SUBSET Node]
    BY <1>3, <1>4 DEF Connect, historyVars
  <2>4. ExchangeType'
    <3>1. /\ at' = [at EXCEPT ![t] = "done"] /\ link' = [link EXCEPT ![t] = NoLink]
          /\ UNCHANGED << queue, todo >> /\ "done" \in Place \ Waiting
          /\ NoLink \in Link \cup {NoLink} /\ "done" # "connecting"
      BY <1>2, <1>4 DEF Connect
    <3>2. QED
      BY <1>1, <2>3, <3>1, AsideType, Zenon
  <2>5. QED
    BY <2>1, <2>2, <2>4 DEF TypeInv
<1>5. CASE ConnectFails(t)
  <2>1. RegistryType' /\ DataType'
    BY <1>5, RegistryKept DEF ConnectFails, historyVars, TypeInv, DataType
  <2>2. outcome' \in [Task -> {"none", "ok", "error"}] /\ reached' \in [Task -> SUBSET Node]
    BY <1>3, <1>5 DEF ConnectFails, historyVars
  <2>3. ExchangeType'
    <3>1. /\ at' = [at EXCEPT ![t] = "done"] /\ link' = [link EXCEPT ![t] = NoLink]
          /\ UNCHANGED << queue, todo >> /\ "done" \in Place \ Waiting
          /\ NoLink \in Link \cup {NoLink} /\ "done" # "connecting"
      BY <1>2, <1>5 DEF ConnectFails
    <3>2. QED
      BY <1>1, <2>2, <3>1, AsideType, Zenon
  <2>4. QED
    BY <2>1, <2>3 DEF TypeInv
<1>6. CASE Reply(t)
  <2>1. RegistryType'
    BY <1>6, RegistryKept DEF Reply, TypeInv
  <2>2. DataType'
    BY <1>6 DEF Reply, TypeInv, DataType
  <2>3. outcome' \in [Task -> {"none", "ok", "error"}] /\ reached' \in [Task -> SUBSET Node]
    BY <1>3, <1>6 DEF Reply
  <2>4. ExchangeType'
    <3>1. [link EXCEPT ![t] = link[t]] = link /\ link[t] \in Link \cup {NoLink}
      BY <1>3
    <3>2. /\ at' = [at EXCEPT ![t] = "idle"] /\ link' = [link EXCEPT ![t] = link[t]]
          /\ UNCHANGED << queue, todo >> /\ "idle" \in Place \ Waiting /\ "idle" # "connecting"
      BY <1>2, <1>6, <3>1 DEF Reply
    <3>3. QED
      BY <1>1, <2>3, <3>1, <3>2, AsideType, Zenon
  <2>5. QED
    BY <2>1, <2>2, <2>4 DEF TypeInv
<1>7. QED
  BY <1>4, <1>5, <1>6

(* POST /nodes appends a node that is not registered, with a new transport.*)
LEMMA AddNodeType ==
  ASSUME TypeInv, NEW t \in Task, NEW n \in Node, AddNode(t, n)
  PROVE  TypeInv'
<1>1. at[t] = "idle" /\ at[t] \notin Waiting /\ n \notin config /\ ~Registered(n)
  BY DEF AddNode, Waiting, InFlight, TypeInv, RegistryType
<1>2. DataType'
  BY DEF AddNode, historyVars, TypeInv, DataType, RequestKind
<1>3. /\ link \in [Task -> Link \cup {NoLink}] /\ outcome \in [Task -> {"none", "ok", "error"}]
      /\ reached \in [Task -> SUBSET Node] /\ reached' = reached
  BY DEF TypeInv, ExchangeType, QueueType, AddNode, historyVars
<1>4. CASE /\ made[n] < MaxLinks
           /\ nodes' = Append(nodes, n)
           /\ made' = [made EXCEPT ![n] = @ + 1]
           /\ at' = [at EXCEPT ![t] = "connecting"]
           /\ link' = [link EXCEPT ![t] = << n, made[n] + 1 >>]
           /\ UNCHANGED outcome
  <2>1. made[n] + 1 \in 1..MaxLinks /\ << n, made[n] + 1 >> \in Link
    BY <1>4, ConstantsAssumption DEF TypeInv, RegistryType, Link
  <2>2. /\ nodes \in Seq(Node) /\ Append(nodes, n) \in Seq(Node)
        /\ Len(Append(nodes, n)) = Len(nodes) + 1 /\ Append(nodes, n)[Len(nodes) + 1] = n
        /\ \A i \in 1..Len(nodes) : Append(nodes, n)[i] = nodes[i] /\ nodes[i] # n
    BY <1>1 DEF TypeInv, RegistryType, Registered
  <2>3. IsInjective(nodes')
    <3>1. \A i, j \in 1..Len(nodes) : nodes[i] = nodes[j] => i = j
      BY DEF TypeInv, RegistryType, IsInjective
    <3>2. QED
      BY <1>4, <2>2, <3>1 DEF IsInjective
  <2>4. \A m \in Node : Registered(m)' <=> Registered(m) \/ m = n
    <3> SUFFICES ASSUME NEW m \in Node
                 PROVE  Registered(m)' <=> Registered(m) \/ m = n
      OBVIOUS
    <3>1. Registered(m)' => Registered(m) \/ m = n
      BY <1>4, <2>2 DEF Registered
    <3>2. Registered(m) => Registered(m)'
      BY <1>4, <2>2 DEF Registered
    <3>3. Len(nodes) + 1 \in 1..Len(nodes')
      BY <1>4, <2>2
    <3>4. m = n => Registered(m)'
      BY <1>4, <2>2, <3>3 DEF Registered
    <3>5. QED
      BY <3>1, <3>2, <3>4
  <2>5. /\ config' = config \cup {n} /\ connected' = connected /\ closing' = closing
        /\ made' \in [Node -> 1..MaxLinks] /\ made'[n] = made[n] + 1
        /\ \A m \in Node : m # n => made'[m] = made[m]
    BY <1>4, <2>1 DEF AddNode, TypeInv, RegistryType
  <2>6. ASSUME NEW l \in closing
        PROVE  l[2] <= made'[l[1]] /\ ~ (Registered(l[1])' /\ l = Transport(l[1])')
    <3>1. /\ l[1] \in Node /\ l[2] \in Nat /\ l[2] <= made[l[1]] /\ made[l[1]] \in Nat
          /\ ~ (Registered(l[1]) /\ l = << l[1], made[l[1]] >>)
          /\ l = << l[1], l[2] >>
      BY LinkNode DEF TypeInv, RegistryType, Transport
    <3>2. CASE l[1] = n
      BY <2>5, <3>1, <3>2 DEF Transport
    <3>3. CASE l[1] # n
      BY <2>4, <2>5, <3>1, <3>3 DEF Transport
    <3>4. QED
      BY <3>2, <3>3
  <2>7. RegistryType'
    <3>1. /\ config' \subseteq Node /\ nodes' \in Seq(Node)
          /\ connected' \subseteq Link /\ closing' \subseteq connected'
      BY <1>4, <2>2, <2>5 DEF TypeInv, RegistryType
    <3>2. \A m \in Node : Registered(m)' => m \in config'
      BY <2>4, <2>5 DEF TypeInv, RegistryType
    <3>3. QED
      BY <2>3, <2>5, <2>6, <3>1, <3>2 DEF RegistryType
  <2>8. ExchangeType'
    <3>1. "connecting" \in Place \ Waiting
      BY DEF Waiting, InFlight, Place
    <3>2. outcome' \in [Task -> {"none", "ok", "error"}] /\ reached' \in [Task -> SUBSET Node]
      BY <1>3, <1>4
    <3>3. << n, made[n] + 1 >> \in Link \cup {NoLink} /\ UNCHANGED << queue, todo >>
      BY <2>1 DEF AddNode
    <3>4. QED
      BY <1>1, <1>4, <2>1, <3>1, <3>2, <3>3, AsideType, Zenon
  <2>9. QED
    BY <1>2, <2>7, <2>8 DEF TypeInv
<1>5. CASE /\ at' = [at EXCEPT ![t] = "done"] /\ outcome' = [outcome EXCEPT ![t] = "ok"]
           /\ UNCHANGED << nodes, made, link >>
  <2>1. RegistryType'
    BY <1>5 DEF AddNode, TypeInv, RegistryType, Registered, Transport
  <2>2. ExchangeType'
    <3>1. [link EXCEPT ![t] = link[t]] = link /\ link[t] \in Link \cup {NoLink}
      BY <1>3
    <3>2. "done" \in Place \ Waiting /\ "done" # "connecting"
      BY DEF Waiting, InFlight, Place
    <3>3. outcome' \in [Task -> {"none", "ok", "error"}] /\ reached' \in [Task -> SUBSET Node]
      BY <1>3, <1>5
    <3>4. UNCHANGED << queue, todo >> /\ link' = [link EXCEPT ![t] = link[t]]
      BY <1>5, <3>1 DEF AddNode
    <3>5. QED
      BY <1>1, <1>5, <3>1, <3>2, <3>3, <3>4, AsideType, Zenon
  <2>3. QED
    BY <1>2, <2>1, <2>2 DEF TypeInv
<1>6. QED
  BY <1>4, <1>5 DEF AddNode

(* The exchanges see nothing of a change of the registry.                  *)
LEMMA ExchangeKept == ExchangeType /\ UNCHANGED << queue, taskVars, reached >> => ExchangeType'
BY DEF ExchangeType, taskVars

(* DELETE /nodes/{id}: a port that begins to close is that of a node that  *)
(* is registered no longer.                                                *)
LEMMA RemoveNodeType ==
  ASSUME TypeInv, NEW n \in Node, RemoveNode(n)
  PROVE  /\ TypeInv'
         /\ \A m \in Node : Registered(m)' <=> Registered(m) /\ m # n
<1> DEFINE l == Transport(n)
<1>1. nodes \in Seq(Node) /\ IsInjective(nodes) /\ nodes' = RemoveFirst(nodes, n)
  BY DEF TypeInv, RegistryType, RemoveNode
<1>2. /\ nodes' \in Seq(Node) /\ IsInjective(nodes')
      /\ \A m \in Node : Registered(m)' <=> Registered(m) /\ m # n
  <2>1. /\ nodes' \in Seq(Node) /\ IsInjective(nodes')
        /\ Range(nodes') = Range(nodes) \ {n}
    BY <1>1, RemoveFirstIs
  <2>2. \A m : (Registered(m) <=> m \in Range(nodes)) /\ (Registered(m)' <=> m \in Range(nodes'))
    BY <1>1, <2>1 DEF Registered, Range
  <2>3. QED
    BY <2>1, <2>2
<1>3. l \in Link /\ l[1] = n /\ l[2] = made[n] /\ made[n] \in Nat
  BY TransportType DEF TypeInv, RegistryType, Transport
<1>4. /\ config' = config \ {n} /\ made' = made /\ closing' \subseteq closing \cup {l}
      /\ connected' \subseteq connected /\ closing' \subseteq connected'
  <2>1. CASE Usable(n) /\ n \in Serial
    BY <2>1 DEF RemoveNode, Disconnect, Usable, TypeInv, RegistryType
  <2>2. CASE ~ (Usable(n) /\ n \in Serial)
    <3>1. Registered(n) => l \notin closing
      BY <1>3 DEF TypeInv, RegistryType
    <3>2. QED
      BY <2>2, <3>1 DEF RemoveNode, Disconnect, TypeInv, RegistryType
  <2>3. QED
    BY <2>1, <2>2
<1>5. ASSUME NEW k \in closing'
      PROVE  k[2] <= made'[k[1]] /\ ~ (Registered(k[1])' /\ k = Transport(k[1])')
  <2>1. CASE k = l
    BY <1>2, <1>3, <1>4, <2>1
  <2>2. CASE k \in closing
    <3>1. k[2] <= made[k[1]] /\ ~ (Registered(k[1]) /\ k = Transport(k[1])) /\ k[1] \in Node
      BY <2>2, LinkNode DEF TypeInv, RegistryType
    <3>2. QED
      BY <1>2, <1>4, <3>1 DEF Transport
  <2>3. QED
    BY <1>4, <2>1, <2>2
<1>6. RegistryType'
  BY <1>2, <1>4, <1>5 DEF TypeInv, RegistryType
<1>7. ExchangeType'
  BY ExchangeKept DEF RemoveNode, TypeInv
<1>8. DataType'
  <2>1. unsure' \subseteq Node /\ position' \in [Node -> Target \cup {Unknown}]
    BY DoubtType DEF RemoveNode, Disconnect, TypeInv
  <2>2. QED
    BY <2>1 DEF RemoveNode, TypeInv, DataType
<1>9. QED
  BY <1>2, <1>6, <1>7, <1>8 DEF TypeInv

LEMMA PortClosedType ==
  ASSUME TypeInv, NEW l \in Link, PortClosed(l)
  PROVE  TypeInv'
<1>1. RegistryType'
  BY DEF PortClosed, TypeInv, RegistryType, Registered, Transport
<1>2. ExchangeType'
  BY ExchangeKept DEF PortClosed, historyVars, TypeInv
<1>3. DataType'
  BY DEF PortClosed, historyVars, TypeInv, DataType
<1>4. QED
  BY <1>1, <1>2, <1>3 DEF TypeInv

LEMMA LostType ==
  ASSUME TypeInv, NEW n \in Serial, Lost(n)
  PROVE  TypeInv'
<1>1. RegistryType' /\ ExchangeType'
  BY RegistryKept, ExchangeKept DEF Lost, historyVars, TypeInv
<1>2. owed' \in [Node -> 0..MaxOwed]
  BY ConstantsAssumption DEF Lost, TypeInv, DataType
<1>3. DataType'
  BY <1>2 DEF Lost, historyVars, TypeInv, DataType
<1>4. QED
  BY <1>1, <1>3 DEF TypeInv

LEMMA TypeNext == TypeInv /\ [Next]_vars => TypeInv'
<1> SUFFICES ASSUME TypeInv, [Next]_vars
             PROVE  TypeInv'
  OBVIOUS
<1>1. ASSUME NEW t \in Task, Arrive(t) \/ Run(t)
      PROVE  TypeInv'
  <2>1. CASE Arrive(t)
    BY <2>1, PermutationTypes, SweepStepType, AddNodeType DEF Arrive
  <2>2. CASE Run(t)
    BY <2>2, SweepStepType, ExchangeStepType, ReplyStepType DEF Run
  <2>3. QED
    BY <1>1, <2>1, <2>2
<1>2. ASSUME NEW n \in Node, RemoveNode(n)
      PROVE  TypeInv'
  BY <1>2, RemoveNodeType
<1>3. CASE UNCHANGED vars
  <2>1. RegistryType' /\ ExchangeType'
    BY <1>3, RegistryKept, ExchangeKept DEF vars, historyVars, TypeInv
  <2>2. DataType'
    BY <1>3 DEF vars, historyVars, TypeInv, DataType
  <2>3. QED
    BY <2>1, <2>2 DEF TypeInv
<1>4. QED
  BY <1>1, <1>2, <1>3, PortClosedType, LostType DEF Next

LEMMA TypeInvHolds == Spec => []TypeInv
BY TypeInit, TypeNext, PTL DEF Spec

(* Every variable keeps its type, every node is registered at most once,   *)
(* and no task is in a lock's queue twice.                                 *)
THEOREM LinksTypeCorrect == Spec => []TypeOK
BY TypeInvHolds, TypeInvImplies, PTL

(* Never are two requests on one transport, nor one without its lock: each *)
(* task whose request is on its way is at the head of the queue.           *)
THEOREM ExchangesAreExclusive == Spec => []LinkExclusive
<1>1. TypeInv => LinkExclusive
  <2> SUFFICES ASSUME TypeInv, NEW t \in Task, at[t] \in InFlight
               PROVE  queue[link[t]] # << >> /\ Head(queue[link[t]]) = t
    BY DEF LinkExclusive
  <2>1. at[t] \in Waiting /\ Head(queue[link[t]]) = t
    BY HolderIsHead
  <2>2. \E i \in 1..Len(queue[link[t]]) : queue[link[t]][i] = t
    BY <2>1 DEF TypeInv, ExchangeType, QueueInv
  <2>3. QED
    BY <2>1, <2>2
<1>2. QED
  BY <1>1, TypeInvHolds, PTL

(* The bridge registers no node that the configuration does not list,      *)
(* whatever adds and removals overlap.                                     *)
THEOREM RegistriesAgree == Spec => []RegistryAgrees
<1>1. TypeInv => RegistryAgrees
  BY DEF TypeInv, RegistryType, RegistryAgrees
<1>2. QED
  BY <1>1, TypeInvHolds, PTL

-----------------------------------------------------------------------------
(* Part 4: the e-stop.  A node that is there and connected from its        *)
(* beginning on has been sent the stop, or is still to be gone to, or is   *)
(* the one whose lock the e-stop awaits, and then on the transport that    *)
(* the node still has: so the sweep cannot fail before it sends.           *)

EstopAt(t) ==
  /\ at[t] = "connecting" => op[t] # "estop"
  /\ \A n \in steady[t] : Usable(n)
  /\ op[t] = "estop" =>
       /\ at[t] \in InFlight => steady[t] \subseteq reached[t] \cup Range(todo[t])
       /\ at[t] = "queued" =>
            /\ steady[t] \subseteq reached[t] \cup Range(todo[t]) \cup {link[t][1]}
            /\ link[t][1] \in steady[t] => link[t] = Transport(link[t][1])
       /\ at[t] = "done" /\ outcome[t] = "ok" => steady[t] \subseteq reached[t]

EstopInv == \A t \in Task : EstopAt(t)

(* No step but its removal makes a node unusable, or gives it another      *)
(* transport.                                                              *)
LEMMA UsableKept ==
  ASSUME TypeInv, [Next]_vars, NEW n \in Node, Usable(n)
  PROVE  RemoveNode(n) \/ (Usable(n)' /\ Transport(n)' = Transport(n))
<1>1. CASE UNCHANGED registry
  BY <1>1 DEF registry, Usable, Registered, Transport
<1>2. ASSUME NEW t \in Task, Connect(t)
      PROVE  Usable(n)' /\ Transport(n)' = Transport(n)
  BY <1>2 DEF Connect, Usable, Registered, Transport
<1>3. ASSUME NEW t \in Task, NEW m \in Node, AddNode(t, m)
      PROVE  Usable(n)' /\ Transport(n)' = Transport(n)
  <2>1. n # m
    BY <1>3 DEF AddNode, Usable, TypeInv, RegistryType
  <2>2. Transport(n)' = Transport(n) /\ connected' = connected
    BY <1>3, <2>1 DEF AddNode, Transport, TypeInv, RegistryType
  <2>3. nodes' = nodes \/ nodes' = Append(nodes, m)
    BY <1>3 DEF AddNode
  <2>4. nodes \in Seq(Node)
    BY DEF TypeInv, RegistryType
  <2>5. Registered(n)'
    <3>1. CASE nodes' = nodes
      BY <3>1 DEF Usable, Registered
    <3>2. CASE nodes' = Append(nodes, m)
      <4>1. PICK i \in 1..Len(nodes) : nodes[i] = n
        BY DEF Usable, Registered
      <4>2. i \in 1..Len(nodes') /\ nodes'[i] = n
        BY <2>4, <3>2, <4>1
      <4>3. QED
        BY <4>2 DEF Registered
    <3>3. QED
      BY <2>3, <3>1, <3>2
  <2>6. QED
    BY <2>2, <2>5 DEF Usable
<1>4. ASSUME NEW m \in Node, RemoveNode(m), m # n
      PROVE  Usable(n)' /\ Transport(n)' = Transport(n)
  <2>1. Registered(n)' /\ made' = made
    BY <1>4, RemoveNodeType DEF Usable, RemoveNode
  <2>2. Transport(n) # Transport(m)
    BY <1>4 DEF Transport
  <2>3. Transport(n) \in connected'
    BY <1>4, <2>2 DEF RemoveNode, Disconnect, Usable
  <2>4. QED
    BY <2>1, <2>3 DEF Usable, Transport
<1>5. ASSUME NEW l \in Link, PortClosed(l)
      PROVE  Usable(n)' /\ Transport(n)' = Transport(n)
  <2>1. l # Transport(n)
    BY <1>5 DEF PortClosed, TypeInv, RegistryType, Usable, Transport
  <2>2. QED
    BY <1>5, <2>1 DEF PortClosed, Usable, Registered, Transport
<1>6. \/ UNCHANGED registry \/ \E t \in Task : Connect(t) \/ \E m \in Node : AddNode(t, m)
      \/ \E m \in Node : RemoveNode(m) \/ \E l \in Link : PortClosed(l)
  <2>1. ASSUME NEW t \in Task, Arrive(t)
        PROVE  UNCHANGED registry \/ \E m \in Node : AddNode(t, m)
    BY <2>1 DEF Arrive, StartMove, StartStop, StartEstop
  <2>2. ASSUME NEW t \in Task, Run(t)
        PROVE  UNCHANGED registry \/ Connect(t)
    BY <2>2, Zenon DEF Run, Send, Written, Handle, Answer, AnswerUnchecked, Fail, Garbage, ConnectFails, Reply
  <2>3. (\E m \in Serial : Lost(m)) \/ UNCHANGED vars => UNCHANGED registry
    BY DEF Lost, vars
  <2>4. QED
    BY <2>1, <2>2, <2>3, Zenon DEF Next
<1>7. QED
  BY <1>1, <1>2, <1>3, <1>4, <1>5, <1>6, Zenon

SameTask(u) ==
  /\ at'[u] = at[u] /\ op'[u] = op[u] /\ todo'[u] = todo[u] /\ link'[u] = link[u]
  /\ outcome'[u] = outcome[u] /\ reached'[u] = reached[u] /\ steady'[u] = steady[u]

(* A task that does not step itself keeps what it has.                     *)
LEMMA EstopKept ==
  ASSUME TypeInv, [Next]_vars, NEW u \in Task, EstopAt(u),
         at'[u] = at[u], op'[u] = op[u], todo'[u] = todo[u], link'[u] = link[u],
         outcome'[u] = outcome[u], reached'[u] = reached[u], steady'[u] \subseteq steady[u],
         \A n \in steady'[u] : ~RemoveNode(n)
  PROVE  EstopAt(u)'
<1>1. \A n \in steady'[u] : n \in Node /\ n \in steady[u] /\ Usable(n)
  BY DEF EstopAt, TypeInv, DataType
<1>2. \A n \in steady'[u] : Usable(n)' /\ Transport(n)' = Transport(n)
  BY <1>1, UsableKept
<1>3. \A n \in steady'[u] : Usable(n)'
  BY <1>2
<1>4. ASSUME op'[u] = "estop"
      PROVE  /\ at'[u] \in InFlight => steady'[u] \subseteq reached'[u] \cup Range(todo'[u])
             /\ at'[u] = "queued" =>
                  steady'[u] \subseteq reached'[u] \cup Range(todo'[u]) \cup {link'[u][1]}
             /\ at'[u] = "done" /\ outcome'[u] = "ok" => steady'[u] \subseteq reached'[u]
  BY <1>4 DEF EstopAt
<1>5. ASSUME op'[u] = "estop", at'[u] = "queued", link'[u][1] \in steady'[u]
      PROVE  link'[u] = << link'[u][1], made'[link'[u][1]] >>
  BY <1>1, <1>2, <1>5 DEF EstopAt, Transport
<1>6. at'[u] = "connecting" => op'[u] # "estop"
  BY DEF EstopAt
<1>7. QED
  BY <1>3, <1>4, <1>5, <1>6 DEF EstopAt, Transport

(* What Proceed does to a task, without the locks: it is at the end of s,  *)
(* or goes to the i-th of s.                                               *)
Finishes(t, s) ==
  /\ \A j \in 1..Len(s) : ~Usable(s[j])
  /\ at'[t] = "done" /\ reached'[t] = reached[t]

GoesTo(t, kind, s, i) ==
  /\ \A j \in 1..(i - 1) : ~Usable(s[j])
  /\ todo'[t] = SubSeq(s, i + 1, Len(s)) /\ link'[t] = Transport(s[i])
  /\ at'[t] \in InFlight \cup {"queued"}
  /\ reached'[t] = IF kind = "estop" /\ at'[t] \in InFlight THEN reached[t] \cup {s[i]} ELSE reached[t]

LEMMA ProceedIs ==
  ASSUME TypeInv, NEW t \in Task, NEW kind, NEW s \in Seq(Node), NEW q, Proceed(t, kind, s, q)
  PROVE  /\ \A u \in Task : u # t => /\ at'[u] = at[u] /\ todo'[u] = todo[u] /\ link'[u] = link[u]
                                     /\ outcome'[u] = outcome[u] /\ reached'[u] = reached[u]
         /\ Finishes(t, s) \/ \E i \in 1..Len(s) : GoesTo(t, kind, s, i)
<1> DEFINE i == SelectInSeq(s, Usable)
           l == Transport(s[i])
<1>1. /\ at \in [Task -> Place] /\ link \in [Task -> Link \cup {NoLink}]
      /\ todo \in [Task -> Seq(Node)] /\ outcome \in [Task -> {"none", "ok", "error"}]
      /\ reached \in [Task -> SUBSET Node]
  BY DEF TypeInv, ExchangeType, QueueType
<1>2. \/ i = 0 /\ \A j \in 1..Len(s) : ~Usable(s[j])
      \/ i \in 1..Len(s) /\ Usable(s[i]) /\ \A j \in 1..(i - 1) : ~Usable(s[j])
  BY NextStop, Zenon
<1>3. CASE i = 0
  <2>1. /\ at' = [at EXCEPT ![t] = "done"] /\ link' = [link EXCEPT ![t] = NoLink]
        /\ todo' = [todo EXCEPT ![t] = << >>]
        /\ outcome' = [outcome EXCEPT ![t] = "ok"] /\ reached' = reached
    BY <1>3 DEF Proceed
  <2>2. \A j \in 1..Len(s) : ~Usable(s[j])
    BY <1>2, <1>3
  <2>3. QED
    BY <1>1, <2>1, <2>2 DEF Finishes
<1>4. CASE i # 0
  <2>1. i \in 1..Len(s) /\ \A j \in 1..(i - 1) : ~Usable(s[j])
    BY <1>2, <1>4
  <2>2. /\ at' = [at EXCEPT ![t] = Enter(q, l)] /\ link' = [link EXCEPT ![t] = l]
        /\ todo' = [todo EXCEPT ![t] = SubSeq(s, i + 1, Len(s))]
        /\ reached' = [reached EXCEPT ![t] =
               IF kind = "estop" /\ Enter(q, l) \in InFlight THEN @ \cup {s[i]} ELSE @]
        /\ outcome' = outcome
    BY <1>4 DEF Proceed
  <2>3. PICK k, e : k = i /\ e = Enter(q, l) /\ e \in InFlight \cup {"queued"}
    BY DEF Enter, Begin, InFlight
  <2>4. /\ at' = [at EXCEPT ![t] = e] /\ link' = [link EXCEPT ![t] = Transport(s[k])]
        /\ todo' = [todo EXCEPT ![t] = SubSeq(s, k + 1, Len(s))]
        /\ reached' = [reached EXCEPT ![t] = IF kind = "estop" /\ e \in InFlight THEN @ \cup {s[k]} ELSE @]
        /\ outcome' = outcome
        /\ k \in 1..Len(s) /\ \A j \in 1..(k - 1) : ~Usable(s[j])
    BY <2>1, <2>2, <2>3, Zenon
  <2>5. /\ at'[t] = e /\ link'[t] = Transport(s[k]) /\ todo'[t] = SubSeq(s, k + 1, Len(s))
        /\ reached'[t] = IF kind = "estop" /\ e \in InFlight THEN reached[t] \cup {s[k]} ELSE reached[t]
    BY <1>1, <2>4
  <2>6. \A u \in Task : u # t => /\ at'[u] = at[u] /\ todo'[u] = todo[u] /\ link'[u] = link[u]
                                 /\ outcome'[u] = outcome[u] /\ reached'[u] = reached[u]
    BY <1>1, <2>4
  <2>7. QED
    BY <2>3, <2>4, <2>5, <2>6 DEF GoesTo
<1>5. QED
  BY <1>3, <1>4

(* An e-stop that goes on, having reached or before it all it must reach.  *)
LEMMA ProceedReaches ==
  ASSUME TypeInv, NEW t \in Task, NEW s \in Seq(Node), NEW q,
         NEW kind, kind = "estop", Proceed(t, kind, s, q),
         NEW W \in SUBSET Node, W \subseteq reached[t] \cup Range(s), \A n \in W : Usable(n)
  PROVE  /\ at'[t] \in InFlight => W \subseteq reached'[t] \cup Range(todo'[t])
         /\ at'[t] = "queued" => /\ W \subseteq reached'[t] \cup Range(todo'[t]) \cup {link'[t][1]}
                                 /\ link'[t] = Transport(link'[t][1])
         /\ at'[t] = "done" => W \subseteq reached'[t]
         /\ at'[t] # "connecting"
<1>1. \A n \in W : n \in reached[t] \/ \E j \in 1..Len(s) : s[j] = n
  BY DEF Range
<1>2. CASE Finishes(t, s)
  BY <1>1, <1>2 DEF Finishes, InFlight
<1>3. ASSUME NEW i \in 1..Len(s), GoesTo(t, kind, s, i)
      PROVE  /\ at'[t] \in InFlight => W \subseteq reached'[t] \cup Range(todo'[t])
             /\ at'[t] = "queued" => /\ W \subseteq reached'[t] \cup Range(todo'[t]) \cup {link'[t][1]}
                                     /\ link'[t] = Transport(link'[t][1])
             /\ at'[t] = "done" => W \subseteq reached'[t]
             /\ at'[t] # "connecting"
  <2>1. /\ \A j \in 1..(i - 1) : ~Usable(s[j])
        /\ todo'[t] = SubSeq(s, i + 1, Len(s)) /\ link'[t] = Transport(s[i])
        /\ at'[t] \in InFlight \cup {"queued"}
        /\ reached'[t] = IF at'[t] \in InFlight THEN reached[t] \cup {s[i]} ELSE reached[t]
    BY <1>3 DEF GoesTo
  <2>2. ASSUME NEW j \in 1..Len(s), j > i
        PROVE  s[j] \in Range(todo'[t])
    <3>1. PICK r \in Seq(Node) : r = SubSeq(s, i + 1, Len(s)) /\ Len(r) = Len(s) - i
                                 /\ \A x \in 1..Len(r) : r[x] = s[i + x]
      <4>1. SubSeq(s, i + 1, Len(s)) \in Seq(Node) /\ Len(SubSeq(s, i + 1, Len(s))) = Len(s) - i
        OBVIOUS
      <4>2. \A x \in 1..(Len(s) - i) : SubSeq(s, i + 1, Len(s))[x] = s[i + x]
        OBVIOUS
      <4>3. QED
        BY <4>1, <4>2
    <3>2. j - i \in 1..Len(r) /\ i + (j - i) = j /\ DOMAIN r = 1..Len(r)
      BY <2>2, <3>1
    <3>3. r[j - i] = s[j]
      BY <3>1, <3>2
    <3>4. todo'[t] = r
      BY <2>1, <3>1
    <3>5. QED
      BY <3>2, <3>3, <3>4 DEF Range
  <2>3. W \subseteq reached[t] \cup Range(todo'[t]) \cup {s[i]}
    <3> SUFFICES ASSUME NEW n \in W, n \notin reached[t]
                 PROVE  n \in Range(todo'[t]) \cup {s[i]}
      OBVIOUS
    <3>1. PICK j \in 1..Len(s) : s[j] = n
      BY <1>1
    <3>2. ~ (j \in 1..(i - 1))
      BY <2>1, <3>1
    <3>3. j = i \/ j > i
      BY <3>2
    <3>4. QED
      BY <2>2, <3>1, <3>3
  <2>4. link'[t][1] = s[i] /\ link'[t] = Transport(link'[t][1])
    BY <2>1 DEF Transport
  <2>5. QED
    BY <2>1, <2>3, <2>4 DEF InFlight
<1>4. Finishes(t, s) \/ \E i \in 1..Len(s) : GoesTo(t, kind, s, i)
  BY ProceedIs, Zenon
<1>5. QED
  BY <1>2, <1>3, <1>4, Zenon

LEMMA OthersKept ==
  ASSUME TypeInv, EstopInv, [Next]_vars, config \subseteq config', NEW u \in Task, SameTask(u)
  PROVE  EstopAt(u)'
<1>1. \A n \in Node : ~RemoveNode(n)
  BY DEF RemoveNode
<1>2. steady'[u] \subseteq Node /\ steady'[u] \subseteq steady[u]
  BY DEF SameTask, TypeInv, DataType
<1>3. QED
  BY <1>1, <1>2, EstopKept DEF SameTask, EstopInv

(* A sweep goes on: an e-stop's has what it must reach before it.          *)
LEMMA SweepReaches ==
  ASSUME TypeInv, NEW t \in Task, NEW s \in Seq(Node), NEW q,
         NEW kind, Proceed(t, kind, s, q), op'[t] = kind, UNCHANGED registry,
         steady'[t] \in SUBSET Node, \A n \in steady'[t] : Usable(n),
         kind = "estop" => steady'[t] \subseteq reached[t] \cup Range(s)
  PROVE  EstopAt(t)'
<1>1. \A n \in steady'[t] : Usable(n)'
  BY DEF registry, Usable, Registered, Transport
<1>2. at'[t] # "connecting"
  BY ProceedIs DEF Finishes, GoesTo, InFlight
<1>3. CASE kind = "estop"
  <2>1. /\ at'[t] \in InFlight => steady'[t] \subseteq reached'[t] \cup Range(todo'[t])
        /\ at'[t] = "queued" => /\ steady'[t] \subseteq reached'[t] \cup Range(todo'[t]) \cup {link'[t][1]}
                                /\ link'[t] = Transport(link'[t][1])
        /\ at'[t] = "done" => steady'[t] \subseteq reached'[t]
    BY <1>3, ProceedReaches, Zenon
  <2>2. at'[t] = "queued" => link'[t] = << link'[t][1], made'[link'[t][1]] >>
    BY <2>1 DEF Transport, registry
  <2>3. QED
    BY <1>1, <1>2, <2>1, <2>2 DEF EstopAt, Transport
<1>4. CASE kind # "estop"
  BY <1>1, <1>2, <1>4 DEF EstopAt
<1>5. QED
  BY <1>3, <1>4

LEMMA EstopInit == Init => EstopInv
BY DEF Init, EstopInv, EstopAt, InFlight

LEMMA StartReaches ==
  ASSUME TypeInv, EstopInv, NEW t \in Task
  PROVE  /\ \A s \in Seq(Node), v \in Target : StartMove(t, s, v) => EstopAt(t)'
         /\ \A s \in Seq(Node) : StartStop(t, s) => EstopAt(t)'
         /\ StartEstop(t) => EstopAt(t)'
<1>1. steady[t] \in SUBSET Node /\ \A n \in steady[t] : Usable(n)
  BY DEF TypeInv, DataType, EstopInv, EstopAt
<1>2. ASSUME NEW s \in Seq(Node), NEW v \in Target, StartMove(t, s, v)
      PROVE  EstopAt(t)'
  <2>1. op'[t] = "move" /\ UNCHANGED << registry, steady >> /\ "move" # "estop"
    BY <1>2 DEF StartMove, TypeInv, DataType
  <2>2. QED
    BY <1>1, <1>2, <2>1, SweepReaches, Zenon DEF StartMove
<1>3. ASSUME NEW s \in Seq(Node), StartStop(t, s)
      PROVE  EstopAt(t)'
  <2>1. op'[t] = "stop" /\ UNCHANGED << registry, steady >> /\ "stop" # "estop"
    BY <1>3 DEF StartStop, TypeInv, DataType
  <2>2. QED
    BY <1>1, <1>3, <2>1, SweepReaches, Zenon DEF StartStop
<1>4. CASE StartEstop(t)
  <2>1. op'[t] = "estop" /\ UNCHANGED registry /\ steady'[t] = {n \in Node : Usable(n)}
    BY <1>4 DEF StartEstop, TypeInv, DataType
  <2>2. nodes \in Seq(Node)
    BY DEF TypeInv, RegistryType
  <2>3. \A n \in steady'[t] : n \in Node /\ Usable(n) /\ n \in Range(nodes)
    BY <2>1, <2>2 DEF Usable, Registered, Range
  <2>4. QED
    BY <1>4, <2>1, <2>2, <2>3, SweepReaches DEF StartEstop
<1>5. QED
  BY <1>2, <1>3, <1>4

LEMMA GoOnReaches ==
  ASSUME TypeInv, EstopInv, NEW t \in Task, Answer(t) \/ AnswerUnchecked(t) \/ Fail(t)
  PROVE  EstopAt(t)'
<1>1. \E q : Proceed(t, op[t], todo[t], q)
  BY Zenon DEF Answer, AnswerUnchecked, Fail
<1>2. op'[t] = op[t] /\ steady'[t] = steady[t] /\ UNCHANGED registry
  BY DEF Answer, AnswerUnchecked, Fail
<1>3. /\ steady[t] \in SUBSET Node /\ todo[t] \in Seq(Node)
      /\ \A n \in steady[t] : n \in Node /\ Usable(n)
  BY DEF TypeInv, DataType, ExchangeType, EstopInv, EstopAt
<1>4. ASSUME op[t] = "estop"
      PROVE  steady[t] \subseteq reached[t] \cup Range(todo[t])
  <2>1. CASE at[t] \in InFlight
    BY <1>4, <2>1 DEF EstopInv, EstopAt
  <2>2. CASE at[t] \notin InFlight
    <3>1. at[t] = "queued" /\ Closed(t)
      BY <2>2 DEF Answer, AnswerUnchecked, Fail, Breaks, InFlight
    <3>2. link[t] \notin connected
      BY <3>1 DEF Closed
    <3>3. link[t][1] \notin steady[t]
      BY <1>3, <1>4, <3>1, <3>2 DEF EstopInv, EstopAt, Usable
    <3>4. QED
      BY <1>4, <3>1, <3>3 DEF EstopInv, EstopAt
  <2>3. QED
    BY <2>1, <2>2
<1>5. QED
  BY <1>1, <1>2, <1>3, <1>4, SweepReaches, Zenon

LEMMA ExchangeReaches ==
  ASSUME TypeInv, EstopInv, [Next]_vars, NEW t \in Task, Send(t) \/ Written(t) \/ Handle(t) \/ Garbage(t)
  PROVE  EstopAt(t)'
<1>1. UNCHANGED registry /\ op'[t] = op[t] /\ steady'[t] = steady[t]
  BY DEF Send, Written, Handle, Garbage, historyVars
<1>2. /\ at \in [Task -> Place] /\ reached \in [Task -> SUBSET Node] /\ outcome \in [Task -> {"none", "ok", "error"}]
      /\ steady[t] \in SUBSET Node /\ todo[t] \in Seq(Node)
      /\ \A n \in steady[t] : Usable(n)
  BY DEF TypeInv, DataType, ExchangeType, QueueType, EstopInv, EstopAt
<1>3. \A n \in steady'[t] : Usable(n)'
  BY <1>1, <1>2 DEF registry, Usable, Registered, Transport
<1>4. CASE Send(t)
  <2>1. /\ at'[t] \in {"writing", "sent"} /\ todo'[t] = todo[t]
        /\ op[t] = "estop" => reached'[t] = reached[t] \cup {link[t][1]}
    BY <1>2, <1>4 DEF Send, Begin
  <2>2. op[t] = "estop" => steady[t] \subseteq reached[t] \cup Range(todo[t]) \cup {link[t][1]}
    BY <1>4 DEF Send, EstopInv, EstopAt
  <2>3. QED
    BY <1>1, <1>3, <2>1, <2>2 DEF EstopAt
<1>5. CASE Written(t) \/ Handle(t)
  <2>1. /\ at'[t] \in {"sent", "handled"} /\ at[t] \in InFlight
        /\ todo'[t] = todo[t] /\ reached'[t] = reached[t]
    BY <1>2, <1>5 DEF Written, Handle, InFlight, historyVars
  <2>2. op[t] = "estop" => steady[t] \subseteq reached[t] \cup Range(todo[t])
    BY <2>1 DEF EstopInv, EstopAt
  <2>3. QED
    BY <1>1, <1>3, <2>1, <2>2 DEF EstopAt
<1>6. CASE Garbage(t)
  <2>1. CASE op[t] = "estop"
    <3>1. at'[t] = "done" /\ outcome'[t] = "error"
      BY <1>2, <1>6, <2>1 DEF Garbage
    <3>2. QED
      BY <1>1, <1>3, <3>1 DEF EstopAt, InFlight
  <2>2. CASE op[t] # "estop"
    <3>1. Proceed(t, op[t], todo[t], Release(t))
      BY <1>6, <2>2 DEF Garbage
    <3>2. QED
      BY <1>1, <1>2, <2>2, <3>1, SweepReaches
  <2>3. QED
    BY <2>1, <2>2
<1>7. QED
  BY <1>4, <1>5, <1>6

(* Outside its sweep a task has nothing to reach.                          *)
LEMMA AsideReaches ==
  ASSUME TypeInv, EstopInv, [Next]_vars, NEW t \in Task,
         \/ Connect(t) \/ ConnectFails(t) \/ Reply(t) \/ \E n \in Node : AddNode(t, n)
  PROVE  EstopAt(t)'
<1>1. \A n \in steady'[t] : n \in Node /\ Usable(n)
  BY DEF Connect, ConnectFails, Reply, AddNode, historyVars, TypeInv, DataType, EstopInv, EstopAt
<1>2. config \subseteq config'
  BY DEF Connect, ConnectFails, Reply, AddNode, registry
<1>3. \A n \in steady'[t] : Usable(n)'
  BY <1>1, <1>2, UsableKept DEF RemoveNode
<1>4. op'[t] # "estop"
  BY DEF Connect, ConnectFails, Reply, AddNode, TypeInv, DataType, EstopInv, EstopAt
<1>5. QED
  BY <1>3, <1>4 DEF EstopAt

LEMMA StepIsLocal ==
  ASSUME TypeInv, NEW t \in Task, Arrive(t) \/ Run(t), NEW u \in Task, u # t
  PROVE  SameTask(u) /\ config \subseteq config'
<1>1. /\ at \in [Task -> Place] /\ link \in [Task -> Link \cup {NoLink}]
      /\ todo \in [Task -> Seq(Node)] /\ outcome \in [Task -> {"none", "ok", "error"}]
      /\ reached \in [Task -> SUBSET Node] /\ steady \in [Task -> SUBSET Node]
      /\ op \in [Task -> RequestKind \cup {"none"}]
      /\ nodes \in Seq(Node) /\ todo[t] \in Seq(Node)
  BY DEF TypeInv, RegistryType, ExchangeType, QueueType, DataType
<1>2. ASSUME NEW kind, NEW s \in Seq(Node), NEW q, Proceed(t, kind, s, q)
      PROVE  /\ at'[u] = at[u] /\ todo'[u] = todo[u] /\ link'[u] = link[u]
             /\ outcome'[u] = outcome[u] /\ reached'[u] = reached[u]
  BY <1>2, ProceedIs, Zenon
<1>3. ASSUME NEW s \in SetToAllKPermutations(Node), NEW v \in Target, StartMove(t, s, v)
      PROVE  SameTask(u) /\ config \subseteq config'
  <2>1. Proceed(t, "move", s, queue) /\ s \in Seq(Node)
    BY <1>3, PermutationTypes, Zenon DEF StartMove
  <2>2. op'[u] = op[u] /\ steady'[u] = steady[u] /\ config' = config
    BY <1>1, <1>3 DEF StartMove, registry
  <2>3. QED
    BY <1>2, <2>1, <2>2 DEF SameTask
<1>4. ASSUME NEW s \in SetToAllKPermutations(Node), StartStop(t, s)
      PROVE  SameTask(u) /\ config \subseteq config'
  <2>1. Proceed(t, "stop", s, queue) /\ s \in Seq(Node)
    BY <1>4, PermutationTypes, Zenon DEF StartStop
  <2>2. op'[u] = op[u] /\ steady'[u] = steady[u] /\ config' = config
    BY <1>1, <1>4 DEF StartStop, registry
  <2>3. QED
    BY <1>2, <2>1, <2>2 DEF SameTask
<1>5. CASE StartEstop(t)
  <2>1. Proceed(t, "estop", nodes, queue)
    BY <1>5, Zenon DEF StartEstop
  <2>2. op'[u] = op[u] /\ steady'[u] = steady[u] /\ config' = config
    BY <1>1, <1>5 DEF StartEstop, registry
  <2>3. QED
    BY <1>1, <1>2, <2>1, <2>2 DEF SameTask
<1>6. CASE Answer(t) \/ AnswerUnchecked(t) \/ Fail(t) \/ (Garbage(t) /\ op[t] # "estop")
  <2>1. Proceed(t, op[t], todo[t], Release(t))
    BY <1>6, Zenon DEF Answer, AnswerUnchecked, Fail, Garbage
  <2>2. op'[u] = op[u] /\ steady'[u] = steady[u] /\ config' = config
    BY <1>6 DEF Answer, AnswerUnchecked, Fail, Garbage, registry
  <2>3. QED
    BY <1>1, <1>2, <2>1, <2>2 DEF SameTask
<1>7. CASE Garbage(t) /\ op[t] = "estop"
  BY <1>1, <1>7 DEF Garbage, SameTask, registry
<1>8. CASE Send(t) \/ Written(t) \/ Handle(t) \/ Connect(t) \/ ConnectFails(t) \/ Reply(t)
  BY <1>1, <1>8 DEF Send, Written, Handle, Connect, ConnectFails, Reply, SameTask, registry, historyVars
<1>9. ASSUME NEW n \in Node, AddNode(t, n)
      PROVE  SameTask(u) /\ config \subseteq config'
  BY <1>1, <1>9 DEF AddNode, SameTask, historyVars
<1>10. QED
  BY <1>3, <1>4, <1>5, <1>6, <1>7, <1>8, <1>9 DEF Arrive, Run

LEMMA EstopNext == TypeInv /\ EstopInv /\ [Next]_vars => EstopInv'
<1> SUFFICES ASSUME TypeInv, EstopInv, [Next]_vars, NEW u \in Task
             PROVE  EstopAt(u)'
  BY DEF EstopInv
<1>1. ASSUME NEW t \in Task, Arrive(t) \/ Run(t)
      PROVE  EstopAt(u)'
  <2>1. CASE u # t
    BY <1>1, <2>1, StepIsLocal, OthersKept
  <2>2. CASE u = t
    <3>1. CASE Arrive(t)
      BY <2>2, <3>1, PermutationTypes, StartReaches, AsideReaches DEF Arrive
    <3>2. CASE Run(t)
      BY <2>2, <3>2, GoOnReaches, ExchangeReaches, AsideReaches DEF Run
    <3>3. QED
      BY <1>1, <3>1, <3>2
  <2>3. QED
    BY <2>1, <2>2
<1>2. ASSUME NEW n \in Node, RemoveNode(n)
      PROVE  EstopAt(u)'
  <2>1. steady'[u] = steady[u] \ {n} /\ config' = config \ {n} /\ n \in config
    BY <1>2 DEF RemoveNode
  <2>2. \A m \in steady'[u] : ~RemoveNode(m)
    BY <2>1 DEF RemoveNode
  <2>3. /\ at'[u] = at[u] /\ op'[u] = op[u] /\ todo'[u] = todo[u] /\ link'[u] = link[u]
        /\ outcome'[u] = outcome[u] /\ reached'[u] = reached[u]
    BY <1>2 DEF RemoveNode, taskVars
  <2>4. QED
    BY <2>1, <2>2, <2>3, EstopKept DEF EstopInv
<1>3. CASE (\E l \in Link : PortClosed(l)) \/ (\E n \in Serial : Lost(n)) \/ UNCHANGED vars
  <2>1. SameTask(u) /\ config \subseteq config'
    BY <1>3 DEF PortClosed, Lost, vars, taskVars, historyVars, registry, SameTask
  <2>2. QED
    BY <2>1, OthersKept
<1>4. QED
  BY <1>1, <1>2, <1>3 DEF Next

(* An e-stop that does not end in a server error was handed to the         *)
(* transport of every node that was registered and connected all the       *)
(* while, whatever failed, came, went or was waited for meanwhile.         *)
THEOREM EstopReaches == Spec => []EstopReachesAll
<1>1. EstopInv => EstopReachesAll
  BY DEF EstopInv, EstopAt, EstopReachesAll
<1>2. QED
  BY <1>1, EstopInit, EstopNext, TypeInvHolds, PTL DEF Spec

-----------------------------------------------------------------------------
(* Part 5: the joint positions the engine reports.  Of a node that is not  *)
(* in doubt, whoever waits for it or talks to it does so on the transport  *)
(* it has, so there is one exchange with it at a time; what a move has     *)
(* done there is on its way to the engine, or has arrived.                 *)

Moving(t, n) == at[t] = "handled" /\ op[t] = "move" /\ link[t][1] = n

NodeCurrent(n) ==
  /\ \A t \in Task : at[t] \in Waiting /\ link[t][1] = n => Registered(n) /\ link[t] = Transport(n)
  /\ \A t \in Task : Moving(t, n) => position[n] = target[t]
  /\ (\A t \in Task : ~Moving(t, n)) => joints[n] = position[n]

JointsInv == \A n \in Node \ unsure : NodeCurrent(n)

(* A sweep that goes on awaits or uses the transport of a registered node. *)
LEMMA ProceedUses ==
  ASSUME TypeInv, NEW t \in Task, NEW kind, NEW s \in Seq(Node), NEW q, Proceed(t, kind, s, q)
  PROVE  /\ at'[t] \notin {"handled", "connecting"}
         /\ at'[t] \in Waiting => \E n \in Node : Registered(n) /\ link'[t] = Transport(n)
<1> DEFINE i == SelectInSeq(s, Usable)
<1>1. at \in [Task -> Place] /\ link \in [Task -> Link \cup {NoLink}]
  BY DEF TypeInv, ExchangeType, QueueType
<1>2. i = 0 \/ (i \in 1..Len(s) /\ Usable(s[i]))
  BY NextStop, Zenon
<1>3. CASE i = 0
  <2>1. at' = [at EXCEPT ![t] = "done"]
    BY <1>3 DEF Proceed
  <2>2. QED
    BY <1>1, <2>1 DEF Waiting, InFlight
<1>4. CASE i # 0
  <2>1. PICK k, e : k = i /\ e = Enter(q, Transport(s[k])) /\ e \in {"writing", "sent", "queued"}
    BY DEF Enter, Begin
  <2>2. /\ at' = [at EXCEPT ![t] = e] /\ link' = [link EXCEPT ![t] = Transport(s[k])]
        /\ k \in 1..Len(s) /\ Usable(s[k])
    BY <1>2, <1>4, <2>1, Zenon DEF Proceed
  <2>3. at'[t] = e /\ link'[t] = Transport(s[k]) /\ s[k] \in Node /\ Registered(s[k])
    BY <1>1, <2>2 DEF Usable
  <2>4. QED
    BY <2>1, <2>3
<1>5. QED
  BY <1>3, <1>4

LEMMA OneExchange ==
  ASSUME TypeInv, NEW n \in Node, NodeCurrent(n), NEW t \in Task, NEW u \in Task,
         at[t] \in InFlight, at[u] \in InFlight, link[t][1] = n, link[u][1] = n
  PROVE  t = u
<1>1. link[t] = Transport(n) /\ link[u] = Transport(n)
  BY DEF NodeCurrent, Waiting
<1>2. Head(queue[link[t]]) = t /\ Head(queue[link[u]]) = u
  BY HolderIsHead
<1>3. QED
  BY <1>1, <1>2

(* A step of task t that leaves the node as it is, at the end of which t   *)
(* has no move to report.                                                  *)
LEMMA CurrentKept ==
  ASSUME NEW n \in Node, NodeCurrent(n), NEW t \in Task,
         \A u \in Task : u # t => /\ at'[u] = at[u] /\ op'[u] = op[u] /\ link'[u] = link[u]
                                  /\ target'[u] = target[u],
         position'[n] = position[n],
         Registered(n) => Registered(n)' /\ Transport(n)' = Transport(n),
         at'[t] \in Waiting /\ link'[t][1] = n => Registered(n)' /\ link'[t] = Transport(n)',
         ~Moving(t, n)',
         \/ joints'[n] = joints[n] /\ ~Moving(t, n)
         \/ joints'[n] = position[n] /\ \A u \in Task : u # t => ~Moving(u, n)
  PROVE  NodeCurrent(n)'
<1>1. \A u \in Task : u # t => (Moving(u, n)' <=> Moving(u, n))
  BY DEF Moving
<1>2. ASSUME NEW u \in Task, at'[u] \in Waiting, link'[u][1] = n
      PROVE  Registered(n)' /\ link'[u] = Transport(n)'
  BY <1>2 DEF NodeCurrent
<1>3. ASSUME NEW u \in Task, Moving(u, n)'
      PROVE  position'[n] = target'[u]
  BY <1>1, <1>3 DEF NodeCurrent
<1>4. ASSUME \A u \in Task : ~Moving(u, n)'
      PROVE  joints'[n] = position'[n]
  BY <1>1, <1>4 DEF NodeCurrent
<1>5. QED
  BY <1>2, <1>3, <1>4 DEF NodeCurrent

(* The sweeps.                                                             *)
LEMMA CurrentSweep ==
  ASSUME TypeInv, NEW n \in Node, n \notin unsure, NodeCurrent(n), n \notin unsure', NEW t \in Task,
         NEW kind, NEW s \in Seq(Node), NEW q, Proceed(t, kind, s, q), UNCHANGED registry,
         \A u \in Task : u # t => op'[u] = op[u] /\ target'[u] = target[u],
         position'[n] = position[n],
         \/ joints'[n] = joints[n] /\ ~Moving(t, n)
         \/ joints'[n] = position[n] /\ \A u \in Task : u # t => ~Moving(u, n)
  PROVE  NodeCurrent(n)'
<1>1. \A u \in Task : u # t => at'[u] = at[u] /\ link'[u] = link[u]
  BY ProceedIs, Zenon
<1>2. /\ at'[t] \notin {"handled", "connecting"}
      /\ at'[t] \in Waiting => \E m \in Node : Registered(m) /\ link'[t] = Transport(m)
  BY ProceedUses, Zenon
<1>3. /\ \A m \in Node : Registered(m) => Registered(m)'
      /\ \A m \in Node : << m, made'[m] >> = << m, made[m] >>
  BY DEF registry, Registered
<1>4. at'[t] \in Waiting /\ link'[t][1] = n => Registered(n)' /\ link'[t] = Transport(n)'
  BY <1>2, <1>3 DEF Transport
<1>5. ~Moving(t, n)'
  BY <1>2 DEF Moving
<1>6. Registered(n) => Registered(n)' /\ Transport(n)' = Transport(n)
  BY <1>3 DEF Transport
<1>7. QED
  BY <1>1, <1>4, <1>5, <1>6, CurrentKept

LEMMA CurrentStart ==
  ASSUME TypeInv, NEW n \in Node, n \notin unsure, NodeCurrent(n), n \notin unsure', NEW t \in Task,
         \/ \E s \in SetToAllKPermutations(Node), v \in Target : StartMove(t, s, v)
         \/ \E s \in SetToAllKPermutations(Node) : StartStop(t, s)
         \/ StartEstop(t)
  PROVE  NodeCurrent(n)'
<1>1. /\ at[t] = "idle" /\ UNCHANGED registry /\ position' = position /\ joints' = joints
      /\ \E kind : \E s \in Seq(Node) : Proceed(t, kind, s, queue)
  BY PermutationTypes, Zenon DEF StartMove, StartStop, StartEstop, TypeInv, RegistryType
<1>2. \A u \in Task : u # t => op'[u] = op[u] /\ target'[u] = target[u]
  BY DEF StartMove, StartStop, StartEstop, TypeInv, DataType
<1>3. ~Moving(t, n)
  BY <1>1 DEF Moving
<1>4. QED
  BY <1>1, <1>2, <1>3, CurrentSweep

LEMMA CurrentAnswer ==
  ASSUME TypeInv, NEW n \in Node, n \notin unsure, NodeCurrent(n), n \notin unsure', NEW t \in Task,
         Answer(t)
  PROVE  NodeCurrent(n)'
<1>1. /\ at[t] = "handled" /\ UNCHANGED << registry, op, target, position >>
      /\ Proceed(t, op[t], todo[t], Release(t))
      /\ joints' = IF op[t] = "move" THEN [joints EXCEPT ![link[t][1]] = target[t]] ELSE joints
  BY DEF Answer
<1>2. todo[t] \in Seq(Node) /\ joints \in [Node -> Target \cup {Unknown}]
  BY DEF TypeInv, ExchangeType, DataType
<1>3. CASE link[t][1] # n
  <2>1. joints'[n] = joints[n] /\ ~Moving(t, n)
    BY <1>1, <1>2, <1>3 DEF Moving
  <2>2. QED
    BY <1>1, <1>2, <2>1, CurrentSweep
<1>4. CASE link[t][1] = n
  <2>1. \A u \in Task : u # t => ~Moving(u, n)
    BY <1>1, <1>4, OneExchange DEF Moving, InFlight
  <2>2. joints'[n] = position[n]
    <3>1. CASE op[t] = "move"
      <4>1. position[n] = target[t]
        BY <1>1, <1>4, <3>1 DEF NodeCurrent, Moving
      <4>2. QED
        BY <1>1, <1>2, <1>4, <3>1, <4>1
    <3>2. CASE op[t] # "move"
      <4>1. \A u \in Task : ~Moving(u, n)
        BY <2>1, <3>2 DEF Moving
      <4>2. QED
        BY <1>1, <3>2, <4>1 DEF NodeCurrent
    <3>3. QED
      BY <3>1, <3>2
  <2>3. QED
    BY <1>1, <1>2, <2>1, <2>2, CurrentSweep
<1>5. QED
  BY <1>3, <1>4

(* What ends in doubt concerns another node.                               *)
LEMMA CurrentDoubt ==
  ASSUME TypeInv, NEW n \in Node, n \notin unsure, NodeCurrent(n), n \notin unsure', NEW t \in Task,
         AnswerUnchecked(t) \/ Fail(t) \/ Garbage(t)
  PROVE  NodeCurrent(n)'
<1>1. /\ Doubt({link[t][1]}) /\ UNCHANGED << registry, op, target >>
      /\ joints' = joints \/ joints' = [joints EXCEPT ![link[t][1]] = target[t]]
  BY DEF AnswerUnchecked, Fail, Garbage
<1>2. \/ Proceed(t, op[t], todo[t], Release(t))
      \/ at' = [at EXCEPT ![t] = "done"] /\ link' = [link EXCEPT ![t] = NoLink]
  BY Zenon DEF AnswerUnchecked, Fail, Garbage
<1>3. link[t][1] # n /\ position'[n] = position[n] /\ joints'[n] = joints[n]
  BY <1>1 DEF Doubt, TypeInv, DataType
<1>4. ~Moving(t, n)
  BY <1>3 DEF Moving
<1>5. CASE Proceed(t, op[t], todo[t], Release(t))
  <2>1. todo[t] \in Seq(Node)
    BY DEF TypeInv, ExchangeType
  <2>2. QED
    BY <1>1, <1>3, <1>4, <1>5, <2>1, CurrentSweep
<1>6. CASE at' = [at EXCEPT ![t] = "done"] /\ link' = [link EXCEPT ![t] = NoLink]
  <2>1. \A u \in Task : u # t => at'[u] = at[u] /\ link'[u] = link[u]
    BY <1>6 DEF TypeInv, ExchangeType, QueueType
  <2>2. at'[t] = "done"
    BY <1>6 DEF TypeInv, ExchangeType, QueueType
  <2>3. at'[t] \notin Waiting /\ ~Moving(t, n)'
    BY <2>2 DEF Waiting, InFlight, Moving
  <2>4. Registered(n) => Registered(n)' /\ Transport(n)' = Transport(n)
    BY <1>1 DEF registry, Registered, Transport
  <2>5. QED
    BY <1>1, <1>3, <1>4, <2>1, <2>3, <2>4, CurrentKept
<1>7. QED
  BY <1>2, <1>5, <1>6

(* The node carries a move out; it is the only one on its way.             *)
LEMMA CurrentHandle ==
  ASSUME TypeInv, NEW n \in Node, n \notin unsure, NodeCurrent(n), NEW t \in Task, Handle(t)
  PROVE  NodeCurrent(n)'
<1>1. /\ at[t] = "sent" /\ at' = [at EXCEPT ![t] = "handled"]
      /\ UNCHANGED << registry, joints, op, link, target >>
      /\ position' = IF op[t] = "move" /\ link[t][1] \notin unsure
                     THEN [position EXCEPT ![link[t][1]] = target[t]] ELSE position
  BY DEF Handle
<1>2. /\ at \in [Task -> Place] /\ position \in [Node -> Target \cup {Unknown}]
  BY DEF TypeInv, ExchangeType, QueueType, DataType
<1>3. at'[t] = "handled" /\ \A u \in Task : u # t => at'[u] = at[u]
  BY <1>1, <1>2
<1>4. ASSUME NEW u \in Task, at'[u] \in Waiting, link'[u][1] = n
      PROVE  Registered(n)' /\ link'[u] = Transport(n)'
  <2>1. at[u] \in Waiting /\ link[u][1] = n
    BY <1>1, <1>3, <1>4 DEF Waiting, InFlight
  <2>2. Registered(n) /\ link[u] = Transport(n)
    BY <2>1 DEF NodeCurrent
  <2>3. QED
    BY <1>1, <2>2 DEF registry, Registered, Transport
<1>5. \A u \in Task : u # t => (Moving(u, n)' <=> Moving(u, n))
  BY <1>1, <1>3 DEF Moving
<1>6. Moving(t, n)' <=> op[t] = "move" /\ link[t][1] = n
  BY <1>1, <1>3 DEF Moving
<1>7. CASE op[t] = "move" /\ link[t][1] = n
  <2>1. \A u \in Task : u # t => ~Moving(u, n)
    BY <1>1, <1>7, OneExchange DEF Moving, InFlight
  <2>2. position'[n] = target[t]
    BY <1>1, <1>2, <1>7
  <2>3. \A u \in Task : Moving(u, n)' => u = t
    BY <1>5, <2>1
  <2>4. \A u \in Task : Moving(u, n)' => position'[n] = target'[u]
    BY <1>1, <2>2, <2>3
  <2>5. Moving(t, n)'
    BY <1>6, <1>7
  <2>6. QED
    BY <1>4, <2>4, <2>5 DEF NodeCurrent
<1>8. CASE ~ (op[t] = "move" /\ link[t][1] = n)
  <2>1. position'[n] = position[n] /\ joints'[n] = joints[n]
    BY <1>1, <1>2, <1>8
  <2>2. ~Moving(t, n) /\ ~Moving(t, n)'
    BY <1>1, <1>6, <1>8 DEF Moving
  <2>3. \A u \in Task : Moving(u, n)' => position'[n] = target'[u]
    BY <1>1, <1>5, <2>1, <2>2 DEF NodeCurrent
  <2>4. (\A u \in Task : ~Moving(u, n)') => joints'[n] = position'[n]
    BY <1>5, <2>1, <2>2 DEF NodeCurrent
  <2>5. QED
    BY <1>4, <2>3, <2>4 DEF NodeCurrent
<1>9. QED
  BY <1>7, <1>8

LEMMA CurrentAside ==
  ASSUME TypeInv, NEW n \in Node, n \notin unsure, NodeCurrent(n), NEW t \in Task,
         \/ Send(t) \/ Written(t) \/ Connect(t) \/ ConnectFails(t) \/ Reply(t) \/ \E m \in Node : AddNode(t, m)
  PROVE  NodeCurrent(n)'
<1>1. /\ at \in [Task -> Place] /\ link \in [Task -> Link \cup {NoLink}]
      /\ op \in [Task -> RequestKind \cup {"none"}] /\ target \in [Task -> Target \cup {Unknown}]
      /\ nodes \in Seq(Node) /\ made \in [Node -> 1..MaxLinks]
  BY DEF TypeInv, RegistryType, ExchangeType, QueueType, DataType
<1>2. UNCHANGED << joints, position >>
  BY DEF Send, Written, Connect, ConnectFails, Reply, AddNode, historyVars
<1>3. \A u \in Task : u # t => /\ at'[u] = at[u] /\ op'[u] = op[u] /\ link'[u] = link[u]
                               /\ target'[u] = target[u]
  BY <1>1 DEF Send, Written, Connect, ConnectFails, Reply, AddNode, historyVars
<1>4. CASE Send(t) \/ Written(t)
  <2>1. /\ at[t] \in {"queued", "writing"} /\ at'[t] \in {"writing", "sent"}
        /\ UNCHANGED << registry, link >>
    BY <1>1, <1>4 DEF Send, Written, Begin
  <2>2. ~Moving(t, n) /\ ~Moving(t, n)'
    BY <2>1 DEF Moving
  <2>3. at[t] \in Waiting
    BY <2>1 DEF Waiting, InFlight
  <2>4. Registered(n) => Registered(n)' /\ Transport(n)' = Transport(n)
    BY <2>1 DEF registry, Registered, Transport
  <2>5. link'[t][1] = n => Registered(n)' /\ link'[t] = Transport(n)'
    BY <2>1, <2>3 DEF NodeCurrent, registry, Registered, Transport
  <2>6. QED
    BY <1>2, <1>3, <2>2, <2>4, <2>5, CurrentKept
<1>5. CASE ~ (Send(t) \/ Written(t))
  <2>1. at[t] \in {"idle", "connecting", "done"} /\ at'[t] \in {"idle", "connecting", "done"}
    BY <1>1, <1>5 DEF Connect, ConnectFails, Reply, AddNode
  <2>2. ~Moving(t, n) /\ ~Moving(t, n)' /\ at'[t] \notin Waiting
    BY <2>1 DEF Moving, Waiting, InFlight
  <2>3. CASE AddNode(t, n)
    <3>1. ~Registered(n)
      BY <2>3 DEF AddNode, TypeInv, RegistryType
    <3>2. QED
      BY <1>2, <1>3, <2>2, <3>1, CurrentKept
  <2>4. CASE ~AddNode(t, n)
    <3>1. made'[n] = made[n]
      BY <1>1, <1>5, <2>4 DEF Connect, ConnectFails, Reply, AddNode, registry
    <3>2. nodes' = nodes \/ \E m \in Node : nodes' = Append(nodes, m)
      BY <1>5 DEF Connect, ConnectFails, Reply, AddNode, registry
    <3>3. Registered(n) => Registered(n)'
      <4>1. ASSUME NEW m \in Node, nodes' = Append(nodes, m), NEW i \in 1..Len(nodes), nodes[i] = n
            PROVE  i \in 1..Len(nodes') /\ nodes'[i] = n
        BY <1>1, <4>1
      <4>2. QED
        BY <3>2, <4>1 DEF Registered
    <3>4. QED
      BY <1>2, <1>3, <2>2, <3>1, <3>3, CurrentKept DEF Transport
  <2>5. QED
    BY <2>3, <2>4
<1>6. QED
  BY <1>4, <1>5

(* Whoever awaits or uses the transport that is removed puts the node in   *)
(* doubt.                                                                  *)
LEMMA CurrentRemove ==
  ASSUME TypeInv, NEW n \in Node, NodeCurrent(n), n \notin unsure', NEW m \in Node, RemoveNode(m)
  PROVE  NodeCurrent(n)'
<1>1. /\ UNCHANGED << at, link, op, target, joints, made >>
      /\ Doubt(IF queue[Transport(m)] = << >> THEN {} ELSE {m})
  BY DEF RemoveNode, Disconnect, taskVars
<1>2. position'[n] = position[n]
  BY <1>1 DEF Doubt
<1>3. \A u \in Task : Moving(u, n)' <=> Moving(u, n)
  BY <1>1 DEF Moving
<1>4. ASSUME NEW u \in Task, at[u] \in Waiting, link[u][1] = n
      PROVE  Registered(n)' /\ link[u] = << n, made'[n] >>
  <2>1. Registered(n) /\ link[u] = Transport(n)
    BY <1>4 DEF NodeCurrent
  <2>2. CASE m = n
    <3>1. queue[Transport(n)] = << >>
      BY <1>1, <2>2 DEF Doubt
    <3>2. \E i \in 1..Len(queue[link[u]]) : queue[link[u]][i] = u
      BY <1>4 DEF TypeInv, ExchangeType, QueueInv
    <3>3. QED
      BY <2>1, <3>1, <3>2
  <2>3. CASE m # n
    BY <1>1, <2>1, <2>3, RemoveNodeType DEF Transport
  <2>4. QED
    BY <2>2, <2>3
<1>5. QED
  BY <1>1, <1>2, <1>3, <1>4 DEF NodeCurrent, Transport

LEMMA JointsNext == TypeInv /\ JointsInv /\ [Next]_vars => JointsInv'
<1> SUFFICES ASSUME TypeInv, JointsInv, [Next]_vars, NEW n \in Node, n \notin unsure'
             PROVE  NodeCurrent(n)'
  BY DEF JointsInv
<1>1. unsure \subseteq unsure'
  <2>1. UNCHANGED unsure \/ \E S : Doubt(S)
    <3>1. ASSUME NEW t \in Task, Arrive(t)
          PROVE  UNCHANGED unsure
      BY <3>1 DEF Arrive, StartMove, StartStop, StartEstop, AddNode, historyVars
    <3>2. ASSUME NEW t \in Task, Run(t)
          PROVE  UNCHANGED unsure \/ \E S : Doubt(S)
      BY <3>2, Zenon DEF Run, Send, Written, Handle, Answer, AnswerUnchecked, Fail, Garbage, Connect,
           ConnectFails, Reply, historyVars
    <3>3. ASSUME NEW m \in Node, RemoveNode(m)
          PROVE  \E S : Doubt(S)
      BY <3>3, Zenon DEF RemoveNode, Disconnect
    <3>4. (\E l \in Link : PortClosed(l)) \/ (\E m \in Serial : Lost(m)) \/ UNCHANGED vars
            => UNCHANGED unsure
      BY DEF PortClosed, Lost, vars, historyVars
    <3>5. QED
      BY <3>1, <3>2, <3>3, <3>4, Zenon DEF Next
  <2>2. QED
    BY <2>1 DEF Doubt
<1>2. n \notin unsure /\ NodeCurrent(n)
  BY <1>1 DEF JointsInv
<1>3. ASSUME NEW t \in Task, Arrive(t)
      PROVE  NodeCurrent(n)'
  BY <1>2, <1>3, CurrentStart, CurrentAside DEF Arrive
<1>4. ASSUME NEW t \in Task, Run(t)
      PROVE  NodeCurrent(n)'
  BY <1>2, <1>4, CurrentAnswer, CurrentDoubt, CurrentHandle, CurrentAside DEF Run
<1>5. ASSUME NEW m \in Node, RemoveNode(m)
      PROVE  NodeCurrent(n)'
  BY <1>2, <1>5, CurrentRemove
<1>6. CASE (\E l \in Link : PortClosed(l)) \/ (\E m \in Serial : Lost(m)) \/ UNCHANGED vars
  <2>1. UNCHANGED << nodes, made, at, link, op, target, joints, position >>
    BY <1>6 DEF PortClosed, Lost, vars, taskVars, historyVars, registry
  <2>2. QED
    BY <1>2, <2>1 DEF NodeCurrent, Moving, Registered, Transport
<1>7. QED
  BY <1>3, <1>4, <1>5, <1>6 DEF Next

(* Whenever no request is on its way to a node, the joint position the     *)
(* engine reports is the last move the node carried out, though moves      *)
(* overlap and nodes are removed and added meanwhile; unless a move failed *)
(* there or something bypassed the engine.                                 *)
THEOREM JointsAreCurrent == Spec => []JointsCurrent
<1>1. Init => JointsInv
  <2> SUFFICES ASSUME Init, NEW n \in Node
               PROVE  NodeCurrent(n)
    BY DEF JointsInv
  <2>1. (\A t \in Task : at[t] = "idle") /\ joints[n] = position[n]
    BY DEF Init
  <2>2. QED
    BY <2>1 DEF NodeCurrent, Moving, Waiting, InFlight
<1>2. JointsInv => JointsCurrent
  BY DEF JointsInv, NodeCurrent, Moving, JointsCurrent, InFlight
<1>3. QED
  BY <1>1, <1>2, JointsNext, TypeInvHolds, PTL DEF Spec

=============================================================================
