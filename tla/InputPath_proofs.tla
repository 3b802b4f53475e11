-------------------------- MODULE InputPath_proofs --------------------------
(***************************************************************************)
(* Proofs about InputPath, for any window, stream and places of the        *)
(* pointer, any number of events and of faults, and any capacity of the    *)
(* channels.                                                               *)
(***************************************************************************)
EXTENDS InputPath, FiniteSetTheorems, TLAPS

-----------------------------------------------------------------------------
(* The invariant. *)

Kinds == {"move", "down", "up", "keydown", "keyup"}
Classes == {"move", "button", "key"}

Events == Seq(Numbers)
Batches == Seq(Events)

Elems(q) == UNION {ToSet(q[i]) : i \in DOMAIN q}

Taken == ToSet(pending) \cup ({lastMove} \ {0})
Waiting == ToSet(sdlq) \cup Taken
Travelling == ToSet(inject) \cup Elems(vsockq) \cup Elems(batches)

Sorted(q) == \A i, j \in DOMAIN q : i < j => q[i] < q[j]

(* Event a of an earlier batch than b, or of the same one and ahead of b:     *)
(* buttons and keys are in the user's order and a move is the last.  d is     *)
(* what the user did, bo the number of each event's batch.                    *)
Ahead(d, bo, a, b) ==
  \/ bo[a] < bo[b]
  \/ bo[a] = bo[b] /\ d[a] # "move" /\ (d[b] = "move" \/ a < b)

InOrder(d, bo, q) == \A i, j \in DOMAIN q : i < j => Ahead(d, bo, q[i], q[j])

(* Every event of S is of an earlier batch than every one of T. *)
Earlier(bo, S, T) == \A a \in S, b \in T : bo[a] < bo[b]

(* Each batch in order, and of an earlier number than the next. *)
BatchesInOrder(d, bo, q) ==
  /\ \A i \in DOMAIN q : InOrder(d, bo, q[i])
  /\ \A i, j \in DOMAIN q : i < j => Earlier(bo, ToSet(q[i]), ToSet(q[j]))

TypeInv ==
  /\ did \in Seq(Kinds) /\ Len(did) <= MaxEvents
  /\ sdlq \in Events /\ pending \in Events /\ lastMove \in Numbers \cup {0}
  /\ batches \in Batches /\ vsockq \in Batches /\ inject \in Events
  /\ guest \in [Classes -> Numbers \cup {0}]
  /\ clicks \subseteq Numbers \X (Numbers \cup {0})
  /\ lost \subseteq Done
  /\ batchOf \in [Numbers -> Nat]

(* Events that wait are in the user's order, those taken first; of moves only *)
(* the last is kept.                                                          *)
WaitInv ==
  /\ Waiting \subseteq Done \ lost
  /\ \A n \in Waiting : batchOf[n] = 0
  /\ Sorted(sdlq) /\ Sorted(pending)
  /\ \A n \in ToSet(pending) : did[n] # "move"
  /\ lastMove # 0 => did[lastMove] = "move"
  /\ \A n \in Taken, k \in ToSet(sdlq) : n < k

(* Batches are numbered without a gap, and a later one holds later events. *)
NumberInv ==
  /\ \E B \in Nat : {batchOf[n] : n \in {k \in Numbers : batchOf[k] # 0}} = 1 .. B
  /\ \A j, k \in Numbers : batchOf[j] # 0 /\ batchOf[j] < batchOf[k] => j < k
  /\ \A j \in Numbers : batchOf[j] # 0 => j \in Done /\ \A k \in Waiting : j < k

(* What travels was sent, and arrives in the order it was sent. *)
OrderInv ==
  /\ Travelling \subseteq Done \ lost
  /\ \A n \in Travelling : batchOf[n] # 0
  /\ InOrder(did, batchOf, inject)
  /\ BatchesInOrder(did, batchOf, vsockq) /\ BatchesInOrder(did, batchOf, batches)
  /\ Earlier(batchOf, ToSet(inject), Elems(vsockq) \cup Elems(batches))
  /\ Earlier(batchOf, Elems(vsockq), Elems(batches))

(* What the guest has last applied was ahead of all that travels. *)
GuestInv ==
  \A c \in Classes : guest[c] # 0 =>
     /\ guest[c] \in Done \ lost /\ Class(did[guest[c]]) = c /\ batchOf[guest[c]] # 0
     /\ \A e \in Travelling : Ahead(did, batchOf, guest[c], e)

(* A move replaced before it was sent. *)
Superseded(n) ==
  /\ did[n] = "move" /\ batchOf[n] = 0
  /\ \E k \in Done : k > n /\ did[k] = "move" /\ (k = lastMove \/ batchOf[k] # 0)

(* No event disappears: what is not lost waits, travels, was applied, or was  *)
(* replaced.                                                                  *)
AccountInv ==
  \A n \in Done \ lost :
     \/ n \in Waiting \cup Travelling
     \/ batchOf[n] # 0 /\ n <= guest[Class(did[n])]
     \/ Superseded(n)

(* A button applied is sent, and not ahead of a move sent before it. *)
ClickInv ==
  \A c \in clicks :
     /\ c[1] \in Done /\ batchOf[c[1]] # 0 /\ c[2] < c[1]
     /\ \A j \in Done : did[j] = "move" /\ c[2] < j /\ j < c[1]
           => j \in lost \/ batchOf[j] = 0 \/ batchOf[j] >= batchOf[c[1]]

InputPathInv == TypeInv /\ WaitInv /\ NumberInv /\ OrderInv /\ GuestInv /\ AccountInv /\ ClickInv

-----------------------------------------------------------------------------
(* Queues. *)

(* A queue of events: what joins it at its end and leaves it at its head. *)
LEMMA EventQueue ==
  ASSUME NEW q \in Events
  PROVE  /\ <<>> \in Events /\ ToSet(<<>>) = {} /\ ToSet(q) \subseteq Numbers
         /\ \A n \in Numbers : Append(q, n) \in Events /\ ToSet(Append(q, n)) = ToSet(q) \cup {n}
         /\ q # <<>> => /\ Head(q) \in Numbers /\ Tail(q) \in Events
                        /\ ToSet(q) = {Head(q)} \cup ToSet(Tail(q))
<1>1. <<>> \in Events /\ ToSet(<<>>) = {} /\ ToSet(q) \subseteq Numbers
  BY DEF Events, ToSet
<1>2. ASSUME NEW n \in Numbers
      PROVE  Append(q, n) \in Events /\ ToSet(Append(q, n)) = ToSet(q) \cup {n}
  <2> DEFINE r == Append(q, n)
  <2>1. /\ r \in Events /\ DOMAIN r = 1 .. Len(q) + 1 /\ r[Len(q) + 1] = n
        /\ Len(q) \in Nat /\ DOMAIN q = 1 .. Len(q) /\ \A i \in 1 .. Len(q) : r[i] = q[i]
    BY DEF Events
  <2>. QED
    BY <2>1 DEF ToSet
<1>3. ASSUME q # <<>>
      PROVE  /\ Head(q) \in Numbers /\ Tail(q) \in Events
             /\ ToSet(q) = {Head(q)} \cup ToSet(Tail(q))
  <2> DEFINE r == Tail(q)
  <2>1. /\ r \in Events /\ DOMAIN r = 1 .. Len(q) - 1 /\ Len(q) \in Nat \ {0}
        /\ DOMAIN q = 1 .. Len(q) /\ \A i \in 1 .. Len(q) - 1 : r[i] = q[i + 1]
        /\ Head(q) = q[1] /\ q[1] \in Numbers
    BY <1>3 DEF Events
  <2>2. ASSUME NEW n \in ToSet(q) PROVE n = Head(q) \/ n \in ToSet(r)
    <3>1. PICK i \in 1 .. Len(q) : n = q[i]
      BY <2>1 DEF ToSet
    <3>2. CASE i = 1
      BY <2>1, <3>1, <3>2
    <3>3. CASE i # 1
      <4>1. i - 1 \in 1 .. Len(q) - 1 /\ r[i - 1] = q[i]
        BY <2>1, <3>3
      <4>. QED
        BY <2>1, <3>1, <4>1 DEF ToSet
    <3>. QED
      BY <3>2, <3>3
  <2>. QED
    BY <2>1, <2>2 DEF ToSet
<1>. QED
  BY <1>1, <1>2, <1>3

(* Two queues of events, one after the other. *)
LEMMA EventConcat ==
  ASSUME NEW p \in Events, NEW q \in Events
  PROVE  /\ p \o q \in Events /\ ToSet(p \o q) = ToSet(p) \cup ToSet(q)
         /\ Len(p) \in Nat /\ DOMAIN (p \o q) = 1 .. Len(p) + Len(q)
         /\ DOMAIN p = 1 .. Len(p) /\ DOMAIN q = 1 .. Len(q) /\ Len(q) \in Nat
         /\ \A i \in DOMAIN (p \o q) :
               (p \o q)[i] = IF i <= Len(p) THEN p[i] ELSE q[i - Len(p)]
<1> DEFINE r == p \o q
<1>1. /\ r \in Events /\ DOMAIN r = 1 .. Len(p) + Len(q) /\ Len(p) \in Nat /\ Len(q) \in Nat
      /\ DOMAIN p = 1 .. Len(p) /\ DOMAIN q = 1 .. Len(q)
      /\ \A i \in DOMAIN r : r[i] = IF i <= Len(p) THEN p[i] ELSE q[i - Len(p)]
  BY DEF Events
<1>2. ASSUME NEW n \in ToSet(p) \cup ToSet(q) PROVE n \in ToSet(r)
  <2>1. CASE n \in ToSet(p)
    <3>1. PICK i \in DOMAIN p : n = p[i]
      BY <2>1 DEF ToSet
    <3>. QED
      BY <1>1, <3>1 DEF ToSet
  <2>2. CASE n \in ToSet(q)
    <3>1. PICK i \in DOMAIN q : n = q[i]
      BY <2>2 DEF ToSet
    <3>2. i + Len(p) \in DOMAIN r /\ r[i + Len(p)] = q[i]
      BY <1>1, <3>1
    <3>. QED
      BY <3>1, <3>2 DEF ToSet
  <2>. QED
    BY <1>2, <2>1, <2>2
<1>3. ASSUME NEW n \in ToSet(r) PROVE n \in ToSet(p) \cup ToSet(q)
  <2>1. PICK i \in DOMAIN r : n = r[i]
    BY DEF ToSet
  <2>2. CASE i <= Len(p)
    BY <1>1, <2>1, <2>2 DEF ToSet
  <2>3. CASE i > Len(p)
    <3>1. i - Len(p) \in DOMAIN q /\ r[i] = q[i - Len(p)]
      BY <1>1, <2>1, <2>3
    <3>. QED
      BY <2>1, <3>1 DEF ToSet
  <2>. QED
    BY <1>1, <2>1, <2>2, <2>3
<1>. QED
  BY <1>1, <1>2, <1>3

(* A queue of batches: what joins it at its end and leaves it at its head. *)
LEMMA BatchQueue ==
  ASSUME NEW q \in Batches
  PROVE  /\ <<>> \in Batches /\ Elems(<<>>) = {} /\ Elems(q) \subseteq Numbers
         /\ \A s \in Events : Append(q, s) \in Batches /\ Elems(Append(q, s)) = Elems(q) \cup ToSet(s)
         /\ q # <<>> => /\ Head(q) \in Events /\ Tail(q) \in Batches
                        /\ Elems(q) = ToSet(Head(q)) \cup Elems(Tail(q))
<1>1. \A s \in Events : ToSet(s) \subseteq Numbers
  BY EventQueue
<1>2. <<>> \in Batches /\ Elems(<<>>) = {} /\ Elems(q) \subseteq Numbers
  BY <1>1 DEF Batches, Elems
<1>3. ASSUME NEW s \in Events
      PROVE  Append(q, s) \in Batches /\ Elems(Append(q, s)) = Elems(q) \cup ToSet(s)
  <2> DEFINE r == Append(q, s)
  <2>1. /\ r \in Batches /\ DOMAIN r = 1 .. Len(q) + 1 /\ r[Len(q) + 1] = s
        /\ Len(q) \in Nat /\ DOMAIN q = 1 .. Len(q) /\ \A i \in 1 .. Len(q) : r[i] = q[i]
    BY DEF Batches
  <2> HIDE DEF r
  <2>2. ASSUME NEW n \in Elems(r) PROVE n \in Elems(q) \cup ToSet(s)
    <3>1. PICK i \in DOMAIN r : n \in ToSet(r[i])
      BY DEF Elems
    <3>2. i = Len(q) + 1 \/ (i \in DOMAIN q /\ r[i] = q[i])
      BY <2>1, <3>1
    <3>. QED
      BY <2>1, <3>1, <3>2 DEF Elems
  <2>3. ASSUME NEW n \in Elems(q) \cup ToSet(s) PROVE n \in Elems(r)
    <3>1. CASE n \in ToSet(s)
      <4>1. Len(q) + 1 \in DOMAIN r
        BY <2>1
      <4>. QED
        BY <2>1, <3>1, <4>1 DEF Elems
    <3>2. CASE n \in Elems(q)
      <4>1. PICK i \in DOMAIN q : n \in ToSet(q[i])
        BY <3>2 DEF Elems
      <4>2. i \in DOMAIN r /\ r[i] = q[i]
        BY <2>1, <4>1
      <4>. QED
        BY <4>1, <4>2 DEF Elems
    <3>. QED
      BY <2>3, <3>1, <3>2
  <2>. QED
    BY <2>1, <2>2, <2>3 DEF r
<1>4. ASSUME q # <<>>
      PROVE  /\ Head(q) \in Events /\ Tail(q) \in Batches
             /\ Elems(q) = ToSet(Head(q)) \cup Elems(Tail(q))
  <2> DEFINE r == Tail(q)
  <2>1. /\ r \in Batches /\ DOMAIN r = 1 .. Len(q) - 1 /\ Len(q) \in Nat \ {0}
        /\ DOMAIN q = 1 .. Len(q) /\ \A i \in 1 .. Len(q) - 1 : r[i] = q[i + 1]
        /\ Head(q) = q[1] /\ q[1] \in Events
    BY <1>4 DEF Batches
  <2> HIDE DEF r
  <2>2. ASSUME NEW n \in Elems(q) PROVE n \in ToSet(Head(q)) \cup Elems(r)
    <3>1. PICK i \in DOMAIN q : n \in ToSet(q[i])
      BY DEF Elems
    <3>2. CASE i = 1
      BY <2>1, <3>1, <3>2
    <3>3. CASE i # 1
      <4>1. i - 1 \in DOMAIN r /\ r[i - 1] = q[i]
        BY <2>1, <3>1, <3>3
      <4>. QED
        BY <3>1, <4>1 DEF Elems
    <3>. QED
      BY <3>2, <3>3
  <2>3. ASSUME NEW n \in ToSet(Head(q)) \cup Elems(r) PROVE n \in Elems(q)
    <3>1. CASE n \in ToSet(Head(q))
      <4>1. 1 \in DOMAIN q
        BY <2>1
      <4>. QED
        BY <2>1, <3>1, <4>1 DEF Elems
    <3>2. CASE n \in Elems(r)
      <4>1. PICK i \in DOMAIN r : n \in ToSet(r[i])
        BY <3>2 DEF Elems
      <4>2. i + 1 \in DOMAIN q /\ r[i] = q[i + 1]
        BY <2>1, <4>1
      <4>. QED
        BY <4>1, <4>2 DEF Elems
    <3>. QED
      BY <2>3, <3>1, <3>2
  <2>. QED
    BY <2>1, <2>2, <2>3 DEF r
<1>. QED
  BY <1>2, <1>3, <1>4

-----------------------------------------------------------------------------
(* Queues in order. *)

(* A later event joins a queue that is sorted. *)
LEMMA SortedGrows ==
  ASSUME NEW q \in Events, NEW n \in Numbers, Sorted(q), \A k \in ToSet(q) : k < n
  PROVE  Sorted(Append(q, n))
<1> DEFINE r == Append(q, n)
<1>1. /\ DOMAIN r = 1 .. Len(q) + 1 /\ r[Len(q) + 1] = n /\ Len(q) \in Nat
      /\ DOMAIN q = 1 .. Len(q) /\ \A i \in 1 .. Len(q) : r[i] = q[i]
  BY DEF Events
<1> HIDE DEF r
<1>2. \A i \in 1 .. Len(q) : r[i] < n
  BY <1>1 DEF ToSet
<1>3. SUFFICES ASSUME NEW i \in DOMAIN r, NEW j \in DOMAIN r, i < j
               PROVE  r[i] < r[j]
  BY DEF Sorted, r
<1>4. CASE j = Len(q) + 1
  BY <1>1, <1>2, <1>3, <1>4
<1>5. CASE j # Len(q) + 1
  <2>1. i \in DOMAIN q /\ j \in DOMAIN q /\ r[i] = q[i] /\ r[j] = q[j]
    BY <1>1, <1>3, <1>5
  <2>. QED
    BY <1>3, <2>1 DEF Sorted
<1>. QED
  BY <1>4, <1>5

(* The head of a sorted queue is before the others. *)
LEMMA SortedLeaves ==
  ASSUME NEW q \in Events, q # <<>>, Sorted(q)
  PROVE  Sorted(Tail(q)) /\ \A k \in ToSet(Tail(q)) : Head(q) < k
<1> DEFINE r == Tail(q)
<1>1. /\ DOMAIN r = 1 .. Len(q) - 1 /\ Len(q) \in Nat \ {0} /\ DOMAIN q = 1 .. Len(q)
      /\ \A i \in 1 .. Len(q) - 1 : r[i] = q[i + 1]
      /\ Head(q) = q[1]
  BY DEF Events
<1> HIDE DEF r
<1>2. \A i \in DOMAIN r : i + 1 \in DOMAIN q /\ r[i] = q[i + 1]
  BY <1>1
<1>3. Sorted(r)
  BY <1>1, <1>2 DEF Sorted
<1>4. \A i \in DOMAIN r : q[1] < r[i]
  BY <1>1, <1>2 DEF Sorted
<1>. QED
  BY <1>1, <1>3, <1>4 DEF r, ToSet

(* The head of a queue in order is ahead of the others. *)
LEMMA OrderLeaves ==
  ASSUME NEW d, NEW bo, NEW q \in Events, q # <<>>, InOrder(d, bo, q)
  PROVE  InOrder(d, bo, Tail(q)) /\ \A k \in ToSet(Tail(q)) : Ahead(d, bo, Head(q), k)
<1> DEFINE r == Tail(q)
<1>1. /\ DOMAIN r = 1 .. Len(q) - 1 /\ Len(q) \in Nat \ {0} /\ DOMAIN q = 1 .. Len(q)
      /\ \A i \in 1 .. Len(q) - 1 : r[i] = q[i + 1]
      /\ Head(q) = q[1]
  BY DEF Events
<1> HIDE DEF r
<1>2. \A i \in DOMAIN r : i + 1 \in DOMAIN q /\ r[i] = q[i + 1]
  BY <1>1
<1>3. InOrder(d, bo, r)
  BY <1>1, <1>2 DEF InOrder
<1>4. \A i \in DOMAIN r : Ahead(d, bo, q[1], r[i])
  BY <1>1, <1>2 DEF InOrder
<1>. QED
  BY <1>1, <1>3, <1>4 DEF r, ToSet

(* Queues in order, the first of earlier batches, make one in order. *)
LEMMA OrderJoins ==
  ASSUME NEW d, NEW bo, NEW p \in Events, NEW q \in Events,
         InOrder(d, bo, p), InOrder(d, bo, q), Earlier(bo, ToSet(p), ToSet(q))
  PROVE  InOrder(d, bo, p \o q)
<1> DEFINE r == p \o q
<1>1. /\ Len(p) \in Nat /\ Len(q) \in Nat /\ DOMAIN r = 1 .. Len(p) + Len(q)
      /\ DOMAIN p = 1 .. Len(p) /\ DOMAIN q = 1 .. Len(q)
      /\ \A i \in DOMAIN r : r[i] = IF i <= Len(p) THEN p[i] ELSE q[i - Len(p)]
  BY EventConcat
<1> HIDE DEF r
<1>2. SUFFICES ASSUME NEW i \in DOMAIN r, NEW j \in DOMAIN r, i < j
               PROVE  Ahead(d, bo, r[i], r[j])
  BY DEF InOrder, r
<1>3. CASE j <= Len(p)
  <2>1. i \in DOMAIN p /\ j \in DOMAIN p /\ r[i] = p[i] /\ r[j] = p[j]
    BY <1>1, <1>2, <1>3
  <2>. QED
    BY <1>2, <2>1 DEF InOrder
<1>4. CASE i > Len(p)
  <2>1. /\ i - Len(p) \in DOMAIN q /\ j - Len(p) \in DOMAIN q /\ i - Len(p) < j - Len(p)
        /\ r[i] = q[i - Len(p)] /\ r[j] = q[j - Len(p)]
    BY <1>1, <1>2, <1>4
  <2>. QED
    BY <2>1 DEF InOrder
<1>5. CASE i <= Len(p) /\ j > Len(p)
  <2>1. i \in DOMAIN p /\ j - Len(p) \in DOMAIN q /\ r[i] = p[i] /\ r[j] = q[j - Len(p)]
    BY <1>1, <1>2, <1>5
  <2>2. r[i] \in ToSet(p) /\ r[j] \in ToSet(q)
    BY <2>1 DEF ToSet
  <2>. QED
    BY <2>2 DEF Earlier, Ahead
<1>. QED
  BY <1>1, <1>3, <1>4, <1>5

(* A batch's buttons and key in the user's order. *)
LEMMA SortedInOrder ==
  ASSUME NEW d, NEW bo, NEW b, NEW q \in Events, Sorted(q),
         \A n \in ToSet(q) : bo[n] = b /\ d[n] # "move"
  PROVE  InOrder(d, bo, q)
<1>1. \A i \in DOMAIN q : bo[q[i]] = b /\ d[q[i]] # "move"
  BY DEF ToSet
<1>. QED
  BY <1>1 DEF InOrder, Ahead, Sorted

(* The move is the last of its batch. *)
LEMMA MoveIsLast ==
  ASSUME NEW d, NEW bo, NEW b, NEW q \in Events, NEW m \in Numbers, InOrder(d, bo, q),
         \A n \in ToSet(q) : bo[n] = b /\ d[n] # "move", bo[m] = b, d[m] = "move"
  PROVE  InOrder(d, bo, Append(q, m))
<1> DEFINE r == Append(q, m)
<1>1. /\ DOMAIN r = 1 .. Len(q) + 1 /\ r[Len(q) + 1] = m /\ Len(q) \in Nat
      /\ DOMAIN q = 1 .. Len(q) /\ \A i \in 1 .. Len(q) : r[i] = q[i]
  BY DEF Events
<1> HIDE DEF r
<1>2. \A i \in 1 .. Len(q) : bo[r[i]] = b /\ d[r[i]] # "move"
  BY <1>1 DEF ToSet
<1>3. SUFFICES ASSUME NEW i \in DOMAIN r, NEW j \in DOMAIN r, i < j
               PROVE  Ahead(d, bo, r[i], r[j])
  BY DEF InOrder, r
<1>4. CASE j = Len(q) + 1
  BY <1>1, <1>2, <1>3, <1>4 DEF Ahead
<1>5. CASE j # Len(q) + 1
  <2>1. i \in DOMAIN q /\ j \in DOMAIN q /\ r[i] = q[i] /\ r[j] = q[j]
    BY <1>1, <1>3, <1>5
  <2>. QED
    BY <1>3, <2>1 DEF InOrder
<1>. QED
  BY <1>4, <1>5

(* A later batch joins a queue of batches in order. *)
LEMMA BatchArrives ==
  ASSUME NEW d, NEW bo, NEW q \in Batches, NEW s \in Events,
         BatchesInOrder(d, bo, q), InOrder(d, bo, s), Earlier(bo, Elems(q), ToSet(s))
  PROVE  BatchesInOrder(d, bo, Append(q, s))
<1> DEFINE r == Append(q, s)
<1>1. /\ DOMAIN r = 1 .. Len(q) + 1 /\ r[Len(q) + 1] = s /\ Len(q) \in Nat
      /\ DOMAIN q = 1 .. Len(q) /\ \A i \in 1 .. Len(q) : r[i] = q[i]
  BY DEF Batches
<1> HIDE DEF r
<1>2. \A i \in DOMAIN r : InOrder(d, bo, r[i])
  <2> TAKE i \in DOMAIN r
  <2>1. i = Len(q) + 1 \/ (i \in DOMAIN q /\ r[i] = q[i])
    BY <1>1
  <2>. QED
    BY <1>1, <2>1 DEF BatchesInOrder
<1>3. ASSUME NEW i \in DOMAIN r, NEW j \in DOMAIN r, i < j
      PROVE  Earlier(bo, ToSet(r[i]), ToSet(r[j]))
  <2>1. CASE j = Len(q) + 1
    <3>1. i \in DOMAIN q /\ r[i] = q[i] /\ r[j] = s
      BY <1>1, <1>3, <2>1
    <3>2. ToSet(q[i]) \subseteq Elems(q)
      BY <3>1 DEF Elems
    <3>. QED
      BY <3>1, <3>2 DEF Earlier
  <2>2. CASE j # Len(q) + 1
    <3>1. i \in DOMAIN q /\ j \in DOMAIN q /\ r[i] = q[i] /\ r[j] = q[j]
      BY <1>1, <1>3, <2>2
    <3>. QED
      BY <1>3, <3>1 DEF BatchesInOrder
  <2>. QED
    BY <2>1, <2>2
<1>. QED
  BY <1>2, <1>3 DEF BatchesInOrder, r

(* The first batch of a queue in order is in order, and earlier than the others. *)
LEMMA BatchLeaves ==
  ASSUME NEW d, NEW bo, NEW q \in Batches, q # <<>>, BatchesInOrder(d, bo, q)
  PROVE  /\ InOrder(d, bo, Head(q)) /\ BatchesInOrder(d, bo, Tail(q))
         /\ Earlier(bo, ToSet(Head(q)), Elems(Tail(q)))
<1> DEFINE r == Tail(q)
<1>1. /\ DOMAIN r = 1 .. Len(q) - 1 /\ Len(q) \in Nat \ {0} /\ DOMAIN q = 1 .. Len(q)
      /\ \A i \in 1 .. Len(q) - 1 : r[i] = q[i + 1]
      /\ Head(q) = q[1]
  BY DEF Batches
<1> HIDE DEF r
<1>2. \A i \in DOMAIN r : i + 1 \in DOMAIN q /\ r[i] = q[i + 1] /\ 1 < i + 1
  BY <1>1
<1>3. 1 \in DOMAIN q
  BY <1>1
<1>4. InOrder(d, bo, q[1])
  BY <1>3 DEF BatchesInOrder
<1>5. ASSUME NEW i \in DOMAIN r PROVE InOrder(d, bo, r[i])
  BY <1>2 DEF BatchesInOrder
<1>6. ASSUME NEW i \in DOMAIN r, NEW j \in DOMAIN r, i < j
      PROVE  Earlier(bo, ToSet(r[i]), ToSet(r[j]))
  <2>1. /\ i + 1 \in DOMAIN q /\ j + 1 \in DOMAIN q /\ i + 1 < j + 1
        /\ r[i] = q[i + 1] /\ r[j] = q[j + 1]
    BY <1>1, <1>2, <1>6
  <2>. QED
    BY <2>1 DEF BatchesInOrder
<1>7. ASSUME NEW i \in DOMAIN r PROVE Earlier(bo, ToSet(q[1]), ToSet(r[i]))
  <2>1. i + 1 \in DOMAIN q /\ r[i] = q[i + 1] /\ 1 < i + 1
    BY <1>2
  <2>. QED
    BY <1>3, <2>1 DEF BatchesInOrder
<1>8. Earlier(bo, ToSet(q[1]), Elems(r))
  BY <1>7 DEF Earlier, Elems
<1>. QED
  BY <1>1, <1>4, <1>5, <1>6, <1>8 DEF BatchesInOrder, r

(* The order is of the events in a queue alone. *)
LEMMA OrderKept ==
  ASSUME NEW d, NEW bo, NEW d2, NEW bo2, NEW S, \A n \in S : d2[n] = d[n] /\ bo2[n] = bo[n]
  PROVE  /\ \A q : ToSet(q) \subseteq S /\ InOrder(d, bo, q) => InOrder(d2, bo2, q)
         /\ \A q : Elems(q) \subseteq S /\ BatchesInOrder(d, bo, q) => BatchesInOrder(d2, bo2, q)
         /\ \A T, U : T \subseteq S /\ U \subseteq S /\ Earlier(bo, T, U) => Earlier(bo2, T, U)
         /\ \A a, b \in S : Ahead(d, bo, a, b) => Ahead(d2, bo2, a, b)
<1>1. \A q : ToSet(q) \subseteq S /\ InOrder(d, bo, q) => InOrder(d2, bo2, q)
  <2> SUFFICES ASSUME NEW q, ToSet(q) \subseteq S, InOrder(d, bo, q) PROVE InOrder(d2, bo2, q)
    OBVIOUS
  <2>1. \A i \in DOMAIN q : d2[q[i]] = d[q[i]] /\ bo2[q[i]] = bo[q[i]]
    BY DEF ToSet
  <2>. QED
    BY <2>1 DEF InOrder, Ahead
<1>2. \A T, U : T \subseteq S /\ U \subseteq S /\ Earlier(bo, T, U) => Earlier(bo2, T, U)
  BY DEF Earlier
<1>3. \A q : Elems(q) \subseteq S /\ BatchesInOrder(d, bo, q) => BatchesInOrder(d2, bo2, q)
  <2> SUFFICES ASSUME NEW q, Elems(q) \subseteq S, BatchesInOrder(d, bo, q)
               PROVE  BatchesInOrder(d2, bo2, q)
    OBVIOUS
  <2>1. \A i \in DOMAIN q : ToSet(q[i]) \subseteq S
    BY DEF Elems
  <2>. QED
    BY <1>1, <1>2, <2>1 DEF BatchesInOrder
<1>4. \A a, b \in S : Ahead(d, bo, a, b) => Ahead(d2, bo2, a, b)
  BY DEF Ahead
<1>. QED
  BY <1>1, <1>2, <1>3, <1>4

-----------------------------------------------------------------------------
(* The beginning, and what the invariant says. *)

(* Only a move is of the class of moves. *)
LEMMA ClassOfKind == \A k \in Kinds : Class(k) \in Classes /\ (Class(k) = "move" <=> k = "move")
BY DEF Kinds, Classes, Class

(* No event yet. *)
LEMMA InputInit == Init => InputPathInv
<1> SUFFICES ASSUME Init PROVE InputPathInv
  OBVIOUS
<1> USE DEF Init
<1>1. ToSet(<<>>) = {} /\ Elems(<<>>) = {} /\ DOMAIN <<>> = {} /\ <<>> \in Events /\ <<>> \in Batches
  BY DEF ToSet, Elems, Events, Batches
<1>2. Waiting = {} /\ Travelling = {} /\ Taken = {} /\ Done = {} /\ Len(did) = 0
  BY <1>1 DEF Waiting, Taken, Travelling, Done
<1>3. TypeInv
  BY <1>1, <1>2, InputAssumption DEF TypeInv, Classes, Numbers
<1>4. WaitInv
  BY <1>1, <1>2 DEF WaitInv, Sorted
<1>5. {batchOf[n] : n \in {k \in Numbers : batchOf[k] # 0}} = 1 .. 0
  OBVIOUS
<1>6. NumberInv
  BY <1>2, <1>5 DEF NumberInv
<1>7. OrderInv
  BY <1>1, <1>2 DEF OrderInv, InOrder, BatchesInOrder, Earlier
<1>8. GuestInv /\ AccountInv /\ ClickInv
  BY <1>2 DEF GuestInv, AccountInv, ClickInv, Classes
<1>. QED
  BY <1>3, <1>4, <1>6, <1>7, <1>8 DEF InputPathInv

(* A click is done where the guest's pointer was when the user clicked. *)
LEMMA NotAhead == InputPathInv => ClickNotAhead
<1> SUFFICES ASSUME InputPathInv PROVE ClickNotAhead
  OBVIOUS
<1>1. \A n \in Done : did[n] \in Kinds
  BY DEF InputPathInv, TypeInv, Done
<1>2. \A j \in Of("move") : j \in Done /\ did[j] = "move"
  BY <1>1, ClassOfKind DEF Of
<1>. QED
  BY <1>2 DEF InputPathInv, ClickInv, ClickNotAhead

(* When nothing is under way, the guest has the last event of each class *)
(* that was not lost.                                                    *)
LEMMA AtRestAgrees == InputPathInv => RestAgrees
<1> SUFFICES ASSUME InputPathInv, AtRest, NEW c \in Classes
             PROVE  guest[c] = LastOf(Of(c) \ (lost \cup Replaced))
  BY DEF RestAgrees, Classes
<1> DEFINE S == Of(c) \ (lost \cup Replaced)
<1>1. \A n \in Done : did[n] \in Kinds /\ n \in Nat /\ n > 0
  BY DEF InputPathInv, TypeInv, Done
<1>2. Waiting = {} /\ Travelling = {} /\ lastMove = 0
  BY DEF AtRest, Waiting, Taken, Travelling, ToSet, Elems
<1>3. ASSUME NEW n \in S PROVE n <= guest[c]
  <2>1. n \in Done \ lost /\ Class(did[n]) = c /\ n \notin Replaced
    BY DEF Of
  <2>2. ~Superseded(n)
    <3>1. ASSUME Superseded(n) PROVE FALSE
      <4>1. PICK k \in Done : k > n /\ did[k] = "move" /\ batchOf[k] # 0
        BY <1>1, <1>2, <3>1 DEF Superseded
      <4>2. n \in Of("move") /\ k \in Of("move") /\ batchOf[n] = 0
        BY <1>1, <2>1, <3>1, <4>1, ClassOfKind DEF Of, Superseded
      <4>. QED
        BY <2>1, <4>1, <4>2 DEF Replaced
    <3>. QED
      BY <3>1
  <2>. QED
    BY <1>2, <2>1, <2>2 DEF InputPathInv, AccountInv
<1>4. guest[c] # 0 => guest[c] \in S
  BY DEF InputPathInv, GuestInv, Of, Replaced
<1>5. guest[c] \in Nat
  BY DEF InputPathInv, TypeInv, Numbers
<1>6. \A n \in S : n \in Nat /\ n > 0
  BY <1>1 DEF Of
<1> HIDE DEF S
<1>7. CASE S = {}
  BY <1>4, <1>7 DEF LastOf, S
<1>8. CASE S # {}
  <2>1. guest[c] \in S /\ \A k \in S : k <= guest[c]
    BY <1>3, <1>4, <1>5, <1>6, <1>8
  <2>2. \A n \in S : (\A k \in S : k <= n) => n = guest[c]
    BY <1>6, <2>1
  <2>. QED
    BY <1>8, <2>1, <2>2 DEF LastOf, S
<1>. QED
  BY <1>7, <1>8

-----------------------------------------------------------------------------
(* The window. *)

(* An event is new, and waits or is lost. *)
LEMMA HappensKeeps ==
  ASSUME InputPathInv, NEW kind \in Kinds, NEW sent \in BOOLEAN, Happens(kind, sent)
  PROVE  InputPathInv'
<1> DEFINE n == Len(did) + 1
<1>1. TypeInv /\ WaitInv /\ NumberInv /\ OrderInv /\ GuestInv /\ AccountInv /\ ClickInv
  BY DEF InputPathInv
<1>2. /\ UNCHANGED <<pending, lastMove, batches, vsockq, inject, guest, clicks, batchOf>>
      /\ n <= MaxEvents /\ did' = Append(did, kind)
      /\ \/ sdlq' = Append(sdlq, n) /\ lost' = lost
         \/ sdlq' = sdlq /\ lost' = lost \cup {n}
  BY DEF Happens
<1>3. /\ did' \in Seq(Kinds) /\ Len(did') = n /\ Len(did) \in Nat
      /\ n \in Numbers /\ Done' = Done \cup {n} /\ n \notin Done
      /\ Done \subseteq Numbers /\ did'[n] = kind
      /\ \A k \in Done : k \in Nat /\ k < n /\ did'[k] = did[k]
  BY <1>1, <1>2, InputAssumption DEF TypeInv, Done, Numbers
<1>4. sdlq \in Events /\ ToSet(sdlq) \subseteq Done /\ Waiting \subseteq Done
  BY <1>1 DEF TypeInv, WaitInv, Waiting
<1> HIDE DEF n
<1>5. /\ sdlq' \in Events
      /\ \/ ToSet(sdlq') = ToSet(sdlq) \cup {n} /\ lost' = lost
         \/ ToSet(sdlq') = ToSet(sdlq) /\ lost' = lost \cup {n}
  <2>1. Append(sdlq, n) \in Events /\ ToSet(Append(sdlq, n)) = ToSet(sdlq) \cup {n}
    BY <1>3, <1>4, EventQueue
  <2>. QED
    BY <1>2, <1>4, <2>1
<1>6. Taken' = Taken /\ Travelling' = Travelling /\ Taken \subseteq Waiting
  BY <1>2 DEF Taken, Travelling, Waiting
<1>7. \/ Waiting' = Waiting \cup {n} /\ lost' = lost
      \/ Waiting' = Waiting /\ lost' = lost \cup {n}
  BY <1>5, <1>6 DEF Waiting
<1>8. n \notin lost /\ n \notin Waiting /\ n \notin Travelling /\ batchOf[n] = 0
  BY <1>1, <1>3, <1>4 DEF TypeInv, OrderInv, NumberInv
<1>9. TypeInv'
  BY <1>1, <1>2, <1>3, <1>5 DEF TypeInv
<1>10. WaitInv'
  <2>1. Waiting' \subseteq Done' \ lost' /\ \A k \in Waiting' : batchOf'[k] = 0
    BY <1>1, <1>2, <1>3, <1>7, <1>8 DEF WaitInv
  <2>2. Sorted(sdlq')
    BY <1>1, <1>2, <1>3, <1>4, SortedGrows DEF WaitInv
  <2>3. /\ Sorted(pending') /\ \A k \in ToSet(pending') : did'[k] # "move"
        /\ lastMove' # 0 => did'[lastMove'] = "move"
    BY <1>1, <1>2, <1>3, <1>4 DEF WaitInv, Waiting, Taken
  <2>4. \A j \in Taken', k \in ToSet(sdlq') : j < k
    BY <1>1, <1>3, <1>4, <1>5, <1>6 DEF WaitInv
  <2>. QED
    BY <2>1, <2>2, <2>3, <2>4 DEF WaitInv
<1>11. NumberInv'
  <2>1. batchOf' = batchOf /\ \A j \in Numbers : batchOf[j] # 0 => j \in Done' /\ \A k \in Waiting' : j < k
    BY <1>1, <1>2, <1>3, <1>7 DEF NumberInv
  <2>. QED
    BY <1>1, <2>1 DEF NumberInv
<1>12. \A k \in Done : did'[k] = did[k] /\ batchOf'[k] = batchOf[k]
  BY <1>2, <1>3
<1>13. /\ Travelling \subseteq Done /\ ToSet(inject) \subseteq Done
       /\ Elems(vsockq) \subseteq Done /\ Elems(batches) \subseteq Done
  BY <1>1 DEF OrderInv, Travelling
<1>14. OrderInv'
  <2>1. Travelling' \subseteq Done' \ lost' /\ \A k \in Travelling' : batchOf'[k] # 0
    BY <1>1, <1>2, <1>3, <1>6, <1>7, <1>8 DEF OrderInv
  <2>2. /\ InOrder(did', batchOf', inject) /\ BatchesInOrder(did', batchOf', vsockq)
        /\ BatchesInOrder(did', batchOf', batches)
    BY <1>1, <1>12, <1>13, OrderKept DEF OrderInv
  <2>. QED
    BY <1>1, <1>2, <2>1, <2>2 DEF OrderInv
<1>15. GuestInv'
  <2> SUFFICES ASSUME NEW c \in Classes, guest[c] # 0
               PROVE  /\ guest[c] \in Done' \ lost' /\ Class(did'[guest[c]]) = c
                      /\ batchOf'[guest[c]] # 0
                      /\ \A e \in Travelling' : Ahead(did', batchOf', guest[c], e)
    BY <1>2 DEF GuestInv
  <2>1. /\ guest[c] \in Done \ lost /\ Class(did[guest[c]]) = c /\ batchOf[guest[c]] # 0
        /\ \A e \in Travelling : Ahead(did, batchOf, guest[c], e)
    BY <1>1 DEF GuestInv
  <2>2. \A e \in Travelling : Ahead(did', batchOf', guest[c], e)
    BY <1>12, <1>13, <2>1, OrderKept
  <2>. QED
    BY <1>2, <1>3, <1>6, <1>7, <2>1, <2>2
<1>16. AccountInv'
  <2> SUFFICES ASSUME NEW k \in Done' \ lost'
               PROVE  \/ k \in Waiting' \cup Travelling'
                      \/ batchOf'[k] # 0 /\ k <= guest'[Class(did'[k])]
                      \/ Superseded(k)'
    BY DEF AccountInv
  <2>1. CASE k = n
    BY <1>7, <2>1
  <2>2. CASE k # n
    <3>1. k \in Done \ lost
      BY <1>3, <1>7, <2>2
    <3>2. ASSUME Superseded(k) PROVE Superseded(k)'
      <4>1. PICK j \in Done : j > k /\ did[j] = "move" /\ (j = lastMove \/ batchOf[j] # 0)
        BY <3>2 DEF Superseded
      <4>2. j \in Done' /\ did'[j] = "move" /\ (j = lastMove' \/ batchOf'[j] # 0)
        BY <1>2, <1>3, <4>1
      <4>. QED
        BY <1>2, <1>3, <3>1, <3>2, <4>1, <4>2 DEF Superseded
    <3>. QED
      BY <1>1, <1>2, <1>3, <1>6, <1>7, <3>1, <3>2 DEF AccountInv
  <2>. QED
    BY <2>1, <2>2
<1>17. ClickInv'
  <2> SUFFICES ASSUME NEW c \in clicks
               PROVE  /\ c[1] \in Done' /\ batchOf'[c[1]] # 0 /\ c[2] < c[1]
                      /\ \A j \in Done' : did'[j] = "move" /\ c[2] < j /\ j < c[1]
                            => j \in lost' \/ batchOf'[j] = 0 \/ batchOf'[j] >= batchOf'[c[1]]
    BY <1>2 DEF ClickInv
  <2>1. /\ c[1] \in Done /\ batchOf[c[1]] # 0 /\ c[2] < c[1]
        /\ \A j \in Done : did[j] = "move" /\ c[2] < j /\ j < c[1]
              => j \in lost \/ batchOf[j] = 0 \/ batchOf[j] >= batchOf[c[1]]
    BY <1>1 DEF ClickInv
  <2>. QED
    BY <1>2, <1>3, <1>7, <1>8, <2>1
<1>. QED
  BY <1>9, <1>10, <1>11, <1>14, <1>15, <1>16, <1>17 DEF InputPathInv

-----------------------------------------------------------------------------
(* The sender. *)

(* A move that is taken replaces the one that waits, a button waits. *)
LEMMA TakeKeeps ==
  ASSUME InputPathInv, TakeMove \/ TakeButton
  PROVE  InputPathInv'
<1> DEFINE h == Head(sdlq)
<1>1. TypeInv /\ WaitInv /\ NumberInv /\ OrderInv /\ GuestInv /\ AccountInv /\ ClickInv
  BY DEF InputPathInv
<1>2. /\ UNCHANGED <<did, batches, vsockq, inject, guest, clicks, lost, batchOf>>
      /\ sdlq # <<>> /\ sdlq' = Tail(sdlq)
      /\ \/ did[h] = "move" /\ lastMove' = h /\ pending' = pending
         \/ Class(did[h]) = "button" /\ lastMove' = lastMove /\ pending' = Append(pending, h)
  BY DEF TakeMove, TakeButton, SenderLeaves
<1>3. /\ h \in Numbers /\ sdlq' \in Events /\ ToSet(sdlq) = {h} \cup ToSet(sdlq')
      /\ Sorted(sdlq') /\ \A k \in ToSet(sdlq') : h < k
  BY <1>1, <1>2, EventQueue, SortedLeaves DEF TypeInv, WaitInv
<1> HIDE DEF h
<1>4. h \in Waiting /\ h \in Done /\ h # 0 /\ h \notin lost /\ batchOf[h] = 0 /\ Taken \subseteq Waiting
  BY <1>1, <1>3 DEF Waiting, WaitInv, Numbers
<1>5. \/ ToSet(pending') = ToSet(pending) /\ pending' \in Events /\ Sorted(pending')
      \/ /\ ToSet(pending') = ToSet(pending) \cup {h} /\ pending' \in Events /\ Sorted(pending')
         /\ Class(did[h]) = "button"
  <2>1. pending \in Events /\ Sorted(pending) /\ \A k \in ToSet(pending) : k < h
    BY <1>1, <1>3 DEF TypeInv, WaitInv, Taken
  <2>2. /\ Append(pending, h) \in Events /\ ToSet(Append(pending, h)) = ToSet(pending) \cup {h}
        /\ Sorted(Append(pending, h))
    BY <1>3, <2>1, EventQueue, SortedGrows
  <2>. QED
    BY <1>2, <2>1, <2>2
<1>6. /\ Taken' \subseteq Taken \cup {h} /\ Waiting' \subseteq Waiting
      /\ \A n \in Waiting \ Waiting' : n = lastMove /\ lastMove' = h /\ did[h] = "move"
  <2>1. CASE did[h] = "move" /\ lastMove' = h /\ pending' = pending
    BY <1>3, <1>4, <2>1 DEF Waiting, Taken
  <2>2. CASE Class(did[h]) = "button" /\ lastMove' = lastMove /\ pending' = Append(pending, h)
    <3>1. ToSet(pending') = ToSet(pending) \cup {h}
      BY <1>1, <1>3, <2>2, EventQueue DEF TypeInv
    <3>. QED
      BY <1>3, <2>2, <3>1 DEF Waiting, Taken
  <2>. QED
    BY <1>2, <2>1, <2>2
<1>7. Done' = Done /\ Travelling' = Travelling
  BY <1>2 DEF Done, Travelling
<1>8. did[h] \in Kinds /\ (Class(did[h]) = "button" => did[h] # "move")
  BY <1>1, <1>4, ClassOfKind DEF TypeInv, Done
<1>9. TypeInv'
  <2>1. lastMove' \in Numbers \cup {0}
    BY <1>1, <1>2, <1>3 DEF TypeInv
  <2>. QED
    BY <1>1, <1>2, <1>3, <1>5, <1>7, <2>1 DEF TypeInv
<1>10. WaitInv'
  <2>1. Waiting' \subseteq Done' \ lost' /\ \A k \in Waiting' : batchOf'[k] = 0
    BY <1>1, <1>2, <1>6, <1>7 DEF WaitInv
  <2>2. /\ Sorted(sdlq') /\ Sorted(pending') /\ \A k \in ToSet(pending') : did'[k] # "move"
    BY <1>1, <1>2, <1>3, <1>5, <1>8 DEF WaitInv
  <2>3. lastMove' # 0 => did'[lastMove'] = "move"
    BY <1>1, <1>2 DEF WaitInv
  <2>4. \A j \in Taken', k \in ToSet(sdlq') : j < k
    BY <1>1, <1>3, <1>6 DEF WaitInv
  <2>. QED
    BY <2>1, <2>2, <2>3, <2>4 DEF WaitInv
<1>11. NumberInv'
  <2>1. batchOf' = batchOf /\ \A j \in Numbers : batchOf[j] # 0 => j \in Done' /\ \A k \in Waiting' : j < k
    BY <1>1, <1>2, <1>6, <1>7 DEF NumberInv
  <2>. QED
    BY <1>1, <2>1 DEF NumberInv
<1>12. OrderInv' /\ GuestInv' /\ ClickInv'
  BY <1>1, <1>2, <1>7 DEF OrderInv, GuestInv, ClickInv
<1>13. AccountInv'
  <2> SUFFICES ASSUME NEW n \in Done \ lost
               PROVE  \/ n \in Waiting' \cup Travelling'
                      \/ batchOf'[n] # 0 /\ n <= guest'[Class(did'[n])]
                      \/ Superseded(n)'
    BY <1>2, <1>7 DEF AccountInv
  <2>1. ASSUME Superseded(n) PROVE Superseded(n)'
    <3>1. PICK k \in Done : k > n /\ did[k] = "move" /\ (k = lastMove \/ batchOf[k] # 0)
      BY <2>1 DEF Superseded
    <3>2. ASSUME k = lastMove, lastMove' = h, did[h] = "move" PROVE h > n
      <4>1. k \in Taken /\ h \in ToSet(sdlq) /\ k \in Nat /\ n \in Nat /\ h \in Nat
        BY <1>3, <1>4, <3>1, <3>2 DEF Taken, Done
      <4>2. k < h
        BY <1>1, <4>1 DEF WaitInv
      <4>. QED
        BY <3>1, <4>1, <4>2
    <3>3. lastMove' = lastMove \/ (lastMove' = h /\ did[h] = "move")
      BY <1>2
    <3>. QED
      BY <1>2, <1>4, <1>7, <2>1, <3>1, <3>2, <3>3 DEF Superseded
  <2>2. ASSUME n \in Waiting \ Waiting' PROVE Superseded(n)'
    <3>1. n = lastMove /\ lastMove' = h /\ did[h] = "move" /\ n # 0
      BY <1>6, <2>2 DEF Done
    <3>2. n \in Taken /\ h \in ToSet(sdlq) /\ did[n] = "move" /\ batchOf[n] = 0
      BY <1>1, <1>3, <2>2, <3>1 DEF Taken, WaitInv
    <3>3. n < h /\ n \in Nat /\ h \in Nat
      BY <1>1, <1>4, <3>2 DEF WaitInv, Done
    <3>4. h > n /\ h \in Done' /\ did'[h] = "move" /\ did'[n] = "move" /\ batchOf'[n] = 0
      BY <1>2, <1>4, <1>7, <3>1, <3>2, <3>3
    <3>. QED
      BY <3>1, <3>4 DEF Superseded
  <2>. QED
    BY <1>1, <1>2, <1>7, <2>1, <2>2 DEF AccountInv
<1>. QED
  BY <1>9, <1>10, <1>11, <1>12, <1>13 DEF InputPathInv

(* The events p, and the move that waits, make the next batch. *)
LEMMA SendKeeps ==
  ASSUME InputPathInv, NEW p \in Events,
         Sorted(p), \A n \in ToSet(p) : did[n] # "move",
         ToSet(p) \cup ({lastMove} \ {0}) # {},
         ToSet(p) \cup ToSet(sdlq') = ToSet(pending) \cup ToSet(sdlq),
         sdlq' \in Events, Sorted(sdlq'),
         \A n \in ToSet(p) \cup ({lastMove} \ {0}), k \in ToSet(sdlq') : n < k,
         Flush(WithMove(p)), pending' = <<>>, SenderLeaves
  PROVE  InputPathInv'
<1> DEFINE s == WithMove(p)
           used == {batchOf[n] : n \in {k \in Numbers : batchOf[k] # 0}}
           b == 1 + Cardinality(used)
<1>1. TypeInv /\ WaitInv /\ NumberInv /\ OrderInv /\ GuestInv /\ AccountInv /\ ClickInv
  BY DEF InputPathInv
<1>2. /\ UNCHANGED <<did, vsockq, inject, guest, clicks, lost>>
      /\ batches' = Append(batches, s) /\ lastMove' = 0 /\ pending' = <<>>
      /\ batchOf' = [n \in Numbers |-> IF n \in ToSet(s) THEN b ELSE batchOf[n]]
  BY DEF Flush, SenderLeaves
<1>3. PICK B \in Nat : used = 1 .. B
  BY <1>1 DEF NumberInv
<1> HIDE DEF used
<1>4. b = B + 1
  <2>1. Cardinality(1 .. B) = B
    BY FS_Interval
  <2>. QED
    BY <1>3, <2>1
<1> HIDE DEF b, s
<1>5. lastMove \in Numbers \cup {0} /\ (lastMove # 0 => did[lastMove] = "move")
  BY <1>1 DEF TypeInv, WaitInv
<1>6. s \in Events /\ ToSet(s) = ToSet(p) \cup ({lastMove} \ {0}) /\ ToSet(s) \subseteq Numbers
  <2>1. CASE lastMove = 0
    BY <2>1, EventQueue DEF s, WithMove
  <2>2. CASE lastMove # 0
    <3>1. Append(p, lastMove) \in Events /\ ToSet(Append(p, lastMove)) = ToSet(p) \cup {lastMove}
      BY <1>5, <2>2, EventQueue
    <3>. QED
      BY <2>2, <3>1, EventQueue DEF s, WithMove
  <2>. QED
    BY <2>1, <2>2
<1>7. Waiting = ToSet(s) \cup ToSet(sdlq') /\ Waiting' = ToSet(sdlq') /\ Taken' = {}
  <2>1. ToSet(pending') = {} /\ lastMove' = 0
    BY <1>2, EventQueue
  <2>2. Taken' = {} /\ Waiting' = ToSet(sdlq')
    BY <2>1 DEF Waiting, Taken
  <2>3. Waiting = (ToSet(pending) \cup ToSet(sdlq)) \cup ({lastMove} \ {0})
    BY DEF Waiting, Taken
  <2>. QED
    BY <1>6, <2>2, <2>3
<1>8. \A n \in ToSet(s), k \in Waiting' : n < k
  BY <1>6, <1>7
<1>9. \A n \in Waiting : n \in Numbers /\ n \in Done \ lost /\ batchOf[n] = 0
  BY <1>1, <1>6, <1>7, EventQueue DEF WaitInv
<1>10. Done' = Done /\ Done \subseteq Numbers
  BY <1>1, <1>2, InputAssumption DEF Done, TypeInv, Numbers
<1>11. \A n \in Numbers : batchOf[n] \in Nat /\ batchOf[n] < b
  <2>1. \A n \in Numbers : batchOf[n] \in Nat /\ (batchOf[n] # 0 => batchOf[n] \in used)
    BY <1>1 DEF TypeInv, used
  <2>. QED
    BY <1>3, <1>4, <2>1
<1>12. /\ b \in Nat \ {0}
       /\ \A n \in ToSet(s) : batchOf'[n] = b
       /\ \A n \in Numbers \ ToSet(s) : batchOf'[n] = batchOf[n]
       /\ \A n \in Numbers : batchOf[n] # 0 => batchOf'[n] = batchOf[n] /\ n \notin ToSet(s)
  BY <1>2, <1>4, <1>6, <1>7, <1>9
<1>13. /\ batches' \in Batches /\ Elems(batches') = Elems(batches) \cup ToSet(s)
       /\ batches \in Batches
  BY <1>1, <1>2, <1>6, BatchQueue DEF TypeInv
<1>14. Travelling' = Travelling \cup ToSet(s)
  BY <1>2, <1>13 DEF Travelling
<1>15. TypeInv'
  <2>1. batchOf' \in [Numbers -> Nat]
    BY <1>1, <1>2, <1>12 DEF TypeInv
  <2>2. pending' \in Events
    BY <1>2, EventQueue
  <2>. QED
    BY <1>1, <1>2, <1>10, <1>13, <2>1, <2>2 DEF TypeInv
<1>16. WaitInv'
  <2>1. Waiting' \subseteq Done' \ lost' /\ \A n \in Waiting' : batchOf'[n] = 0
    <3>1. \A n \in Waiting' : n \notin ToSet(s)
      <4>1. \A n \in ToSet(s) : n \in Nat
        BY <1>6 DEF Numbers
      <4>. QED
        BY <1>8, <4>1
    <3>. QED
      BY <1>2, <1>7, <1>9, <1>10, <1>12, <3>1
  <2>2. pending' = <<>> /\ ToSet(pending') = {} /\ Sorted(pending')
    BY <1>2 DEF ToSet, Sorted
  <2>. QED
    BY <1>2, <1>7, <2>1, <2>2 DEF WaitInv
<1>17. NumberInv'
  <2>1. {batchOf'[n] : n \in {k \in Numbers : batchOf'[k] # 0}} = 1 .. B + 1
    <3> DEFINE new == {batchOf'[n] : n \in {k \in Numbers : batchOf'[k] # 0}}
    <3>1. ASSUME NEW x \in new PROVE x \in 1 .. B + 1
      <4>1. PICK n \in Numbers : x = batchOf'[n] /\ batchOf'[n] # 0
        OBVIOUS
      <4>2. CASE n \in ToSet(s)
        BY <1>4, <1>12, <4>1, <4>2
      <4>3. CASE n \notin ToSet(s)
        <5>1. x \in used
          BY <1>12, <4>1, <4>3 DEF used
        <5>. QED
          BY <1>3, <5>1
      <4>. QED
        BY <4>2, <4>3
    <3>2. ASSUME NEW x \in 1 .. B + 1 PROVE x \in new
      <4>1. CASE x = B + 1
        <5>1. PICK n \in ToSet(s) : n \in Numbers
          BY <1>6
        <5>. QED
          BY <1>4, <1>12, <4>1, <5>1
      <4>2. CASE x # B + 1
        <5>1. x \in used
          <6>1. x \in 1 .. B
            BY <4>2
          <6>. QED
            BY <1>3, <6>1
        <5>2. PICK n \in Numbers : x = batchOf[n] /\ batchOf[n] # 0
          BY <5>1 DEF used
        <5>3. batchOf'[n] = x /\ batchOf'[n] # 0
          BY <1>12, <5>2
        <5>. QED
          BY <5>3
      <4>. QED
        BY <4>1, <4>2
    <3>. QED
      BY <3>1, <3>2
  <2>2. ASSUME NEW j \in Numbers, NEW k \in Numbers, batchOf'[j] # 0, batchOf'[j] < batchOf'[k]
        PROVE  j < k
    <3>1. CASE k \in ToSet(s)
      <4>1. j \notin ToSet(s) /\ batchOf[j] # 0 /\ k \in Waiting
        BY <1>7, <1>12, <2>2, <3>1
      <4>. QED
        BY <1>1, <4>1 DEF NumberInv
    <3>2. CASE k \notin ToSet(s)
      <4>1. batchOf'[k] = batchOf[k] /\ batchOf[k] < b /\ batchOf[k] \in Nat
        BY <1>11, <1>12, <3>2
      <4>2. j \notin ToSet(s)
        BY <1>12, <2>2, <4>1
      <4>3. batchOf[j] # 0 /\ batchOf[j] < batchOf[k]
        BY <1>12, <2>2, <4>1, <4>2
      <4>. QED
        BY <1>1, <4>3 DEF NumberInv
    <3>. QED
      BY <3>1, <3>2
  <2>3. ASSUME NEW j \in Numbers, batchOf'[j] # 0
        PROVE  j \in Done' /\ \A k \in Waiting' : j < k
    <3>1. CASE j \in ToSet(s)
      BY <1>7, <1>8, <1>9, <1>10, <3>1
    <3>2. CASE j \notin ToSet(s)
      <4>1. batchOf[j] # 0
        BY <1>12, <2>3, <3>2
      <4>2. j \in Done /\ \A k \in Waiting : j < k
        BY <1>1, <4>1 DEF NumberInv
      <4>. QED
        BY <1>7, <1>10, <4>2
    <3>. QED
      BY <3>1, <3>2
  <2>. QED
    BY <2>1, <2>2, <2>3 DEF NumberInv
<1>18. /\ Travelling \subseteq Numbers /\ Travelling \subseteq Done \ lost
       /\ \A n \in Travelling : batchOf[n] # 0 /\ did'[n] = did[n] /\ batchOf'[n] = batchOf[n]
       /\ ToSet(inject) \subseteq Travelling /\ Elems(vsockq) \subseteq Travelling
       /\ Elems(batches) \subseteq Travelling
  BY <1>1, <1>2, <1>10, <1>12 DEF OrderInv, Travelling
<1>19. \A a \in Travelling, e \in ToSet(s) : batchOf'[a] < batchOf'[e]
  BY <1>11, <1>12, <1>18
<1>20. OrderInv'
  <2>1. Travelling' \subseteq Done' \ lost' /\ \A n \in Travelling' : batchOf'[n] # 0
    BY <1>2, <1>7, <1>9, <1>10, <1>12, <1>14, <1>18
  <2>2. /\ InOrder(did', batchOf', inject) /\ BatchesInOrder(did', batchOf', vsockq)
        /\ BatchesInOrder(did', batchOf', batches)
        /\ Earlier(batchOf', ToSet(inject), Elems(vsockq) \cup Elems(batches))
        /\ Earlier(batchOf', Elems(vsockq), Elems(batches))
    <3>1. /\ InOrder(did, batchOf, inject) /\ BatchesInOrder(did, batchOf, vsockq)
          /\ BatchesInOrder(did, batchOf, batches)
          /\ Earlier(batchOf, ToSet(inject), Elems(vsockq) \cup Elems(batches))
          /\ Earlier(batchOf, Elems(vsockq), Elems(batches))
      BY <1>1 DEF OrderInv
    <3>2. \A n \in Travelling : did'[n] = did[n] /\ batchOf'[n] = batchOf[n]
      BY <1>18
    <3>3. Elems(vsockq) \cup Elems(batches) \subseteq Travelling
      BY <1>18
    <3>. QED
      BY <1>18, <3>1, <3>2, <3>3, OrderKept
  <2>3. InOrder(did', batchOf', s)
    <3>1. \A n \in ToSet(p) : batchOf'[n] = b /\ did'[n] # "move"
      BY <1>2, <1>6, <1>12
    <3>2. InOrder(did', batchOf', p)
      BY <3>1, SortedInOrder
    <3>3. CASE lastMove = 0
      BY <3>2, <3>3 DEF s, WithMove
    <3>4. CASE lastMove # 0
      <4>1. lastMove \in Numbers /\ batchOf'[lastMove] = b /\ did'[lastMove] = "move"
        BY <1>2, <1>5, <1>6, <1>12, <3>4
      <4>2. InOrder(did', batchOf', Append(p, lastMove))
        BY <3>1, <3>2, <4>1, MoveIsLast
      <4>. QED
        BY <3>4, <4>2 DEF s, WithMove
    <3>. QED
      BY <3>3, <3>4
  <2>4. BatchesInOrder(did', batchOf', batches')
    <3>1. Earlier(batchOf', Elems(batches), ToSet(s))
      BY <1>18, <1>19 DEF Earlier
    <3>2. BatchesInOrder(did', batchOf', Append(batches, s))
      BY <1>6, <1>13, <2>2, <2>3, <3>1, BatchArrives
    <3>. QED
      BY <1>2, <3>2
  <2>5. /\ Earlier(batchOf', ToSet(inject), Elems(vsockq) \cup Elems(batches'))
        /\ Earlier(batchOf', Elems(vsockq), Elems(batches'))
    BY <1>13, <1>18, <1>19, <2>2 DEF Earlier
  <2>. QED
    BY <1>2, <2>1, <2>2, <2>4, <2>5 DEF OrderInv
<1>21. GuestInv'
  <2> SUFFICES ASSUME NEW c \in Classes, guest[c] # 0
               PROVE  /\ guest[c] \in Done' \ lost' /\ Class(did'[guest[c]]) = c
                      /\ batchOf'[guest[c]] # 0
                      /\ \A e \in Travelling' : Ahead(did', batchOf', guest[c], e)
    BY <1>2 DEF GuestInv
  <2> DEFINE g == guest[c]
  <2>1. /\ g \in Done \ lost /\ Class(did[g]) = c /\ batchOf[g] # 0
        /\ \A e \in Travelling : Ahead(did, batchOf, g, e)
    BY <1>1 DEF GuestInv
  <2> HIDE DEF g
  <2>2. batchOf'[g] = batchOf[g] /\ batchOf[g] < b
    BY <1>10, <1>11, <1>12, <2>1
  <2>3. ASSUME NEW e \in Travelling PROVE Ahead(did', batchOf', g, e)
    BY <1>2, <1>18, <2>1, <2>2 DEF Ahead
  <2>4. ASSUME NEW e \in ToSet(s) PROVE Ahead(did', batchOf', g, e)
    BY <1>12, <2>2 DEF Ahead
  <2>. QED
    BY <1>2, <1>10, <1>14, <2>1, <2>2, <2>3, <2>4 DEF g
<1>22. AccountInv'
  <2> SUFFICES ASSUME NEW n \in Done \ lost
               PROVE  \/ n \in Waiting' \cup Travelling'
                      \/ batchOf'[n] # 0 /\ n <= guest'[Class(did'[n])]
                      \/ Superseded(n)'
    BY <1>2, <1>10 DEF AccountInv
  <2>1. CASE n \in Waiting
    BY <1>7, <1>14, <2>1
  <2>2. CASE n \notin Waiting /\ Superseded(n)
    <3>1. PICK k \in Done : k > n /\ did[k] = "move" /\ (k = lastMove \/ batchOf[k] # 0)
      BY <2>2 DEF Superseded
    <3>2. batchOf'[k] # 0
      <4>1. CASE k = lastMove
        <5>1. k \in ToSet(s)
          BY <1>6, <4>1 DEF Done
        <5>. QED
          BY <1>12, <5>1
      <4>2. CASE batchOf[k] # 0
        BY <1>10, <1>12, <4>2
      <4>. QED
        BY <3>1, <4>1, <4>2
    <3>3. batchOf'[n] = 0
      <4>1. n \in Numbers /\ n \notin ToSet(s) /\ batchOf[n] = 0
        BY <1>7, <1>10, <2>2 DEF Superseded
      <4>. QED
        BY <1>12, <4>1
    <3>. QED
      BY <1>2, <1>10, <2>2, <3>1, <3>2, <3>3 DEF Superseded
  <2>3. CASE n \in Travelling
    BY <1>14, <2>3
  <2>4. CASE batchOf[n] # 0 /\ n <= guest[Class(did[n])]
    BY <1>2, <1>10, <1>12, <2>4
  <2>. QED
    BY <1>1, <2>1, <2>2, <2>3, <2>4 DEF AccountInv
<1>23. ClickInv'
  <2> SUFFICES ASSUME NEW c \in clicks
               PROVE  /\ c[1] \in Done /\ batchOf'[c[1]] # 0 /\ c[2] < c[1]
                      /\ \A j \in Done : did[j] = "move" /\ c[2] < j /\ j < c[1]
                            => j \in lost \/ batchOf'[j] = 0 \/ batchOf'[j] >= batchOf'[c[1]]
    BY <1>2, <1>10 DEF ClickInv
  <2>1. /\ c[1] \in Done /\ batchOf[c[1]] # 0 /\ c[2] < c[1]
        /\ \A j \in Done : did[j] = "move" /\ c[2] < j /\ j < c[1]
              => j \in lost \/ batchOf[j] = 0 \/ batchOf[j] >= batchOf[c[1]]
    BY <1>1 DEF ClickInv
  <2>2. batchOf'[c[1]] = batchOf[c[1]] /\ batchOf[c[1]] < b /\ batchOf[c[1]] \in Nat
    BY <1>10, <1>11, <1>12, <2>1
  <2>3. ASSUME NEW j \in Done, did[j] = "move", c[2] < j, j < c[1]
        PROVE  j \in lost \/ batchOf'[j] = 0 \/ batchOf'[j] >= batchOf'[c[1]]
    <3>1. CASE j \in ToSet(s)
      BY <1>12, <2>2, <3>1
    <3>2. CASE j \notin ToSet(s)
      BY <1>10, <1>12, <2>1, <2>2, <2>3, <3>2
    <3>. QED
      BY <3>1, <3>2
  <2>. QED
    BY <2>1, <2>2, <2>3
<1>. QED
  BY <1>15, <1>16, <1>17, <1>20, <1>21, <1>22, <1>23 DEF InputPathInv

(* A key is sent at once, after the buttons that wait and before the move. *)
LEMMA KeyKeeps ==
  ASSUME InputPathInv, TakeKey
  PROVE  InputPathInv'
<1> DEFINE h == Head(sdlq)
           p == Append(pending, h)
<1>1. /\ sdlq # <<>> /\ sdlq' = Tail(sdlq) /\ Class(did[h]) = "key"
      /\ Flush(WithMove(p)) /\ pending' = <<>> /\ SenderLeaves
  BY DEF TakeKey
<1>2. /\ sdlq \in Events /\ pending \in Events /\ Sorted(sdlq) /\ Sorted(pending)
      /\ Waiting \subseteq Done /\ \A n \in Done : did[n] \in Kinds
      /\ \A n \in ToSet(pending) : did[n] # "move"
      /\ \A n \in Taken, k \in ToSet(sdlq) : n < k
  BY DEF InputPathInv, TypeInv, WaitInv, Done
<1>3. /\ h \in Numbers /\ sdlq' \in Events /\ ToSet(sdlq) = {h} \cup ToSet(sdlq')
      /\ Sorted(sdlq') /\ \A k \in ToSet(sdlq') : h < k
  BY <1>1, <1>2, EventQueue, SortedLeaves
<1> HIDE DEF h
<1>4. did[h] # "move"
  <2>1. h \in Done
    BY <1>2, <1>3 DEF Waiting
  <2>. QED
    BY <1>1, <1>2, <2>1, ClassOfKind
<1>5. ToSet(pending) \subseteq Taken /\ \A n \in ToSet(pending) : n < h
  BY <1>2, <1>3 DEF Taken
<1>6. p \in Events /\ ToSet(p) = ToSet(pending) \cup {h} /\ Sorted(p)
  BY <1>2, <1>3, <1>5, EventQueue, SortedGrows
<1> HIDE DEF p
<1>7. \A n \in ToSet(p) : did[n] # "move"
  BY <1>2, <1>4, <1>6
<1>8. \A n \in ToSet(p) \cup ({lastMove} \ {0}), k \in ToSet(sdlq') : n < k
  BY <1>2, <1>3, <1>6 DEF Taken
<1>9. /\ ToSet(p) \cup ({lastMove} \ {0}) # {}
      /\ ToSet(p) \cup ToSet(sdlq') = ToSet(pending) \cup ToSet(sdlq)
  BY <1>3, <1>6
<1>. QED
  BY <1>1, <1>3, <1>6, <1>7, <1>8, <1>9, SendKeeps

(* The timer sends what waits. *)
LEMMA TickKeeps ==
  ASSUME InputPathInv, Tick
  PROVE  InputPathInv'
<1>1. /\ pending # <<>> \/ lastMove # 0
      /\ Flush(WithMove(pending)) /\ pending' = <<>> /\ sdlq' = sdlq /\ SenderLeaves
  BY DEF Tick
<1>2. /\ sdlq \in Events /\ pending \in Events /\ Sorted(sdlq) /\ Sorted(pending)
      /\ \A n \in ToSet(pending) : did[n] # "move"
      /\ \A n \in Taken, k \in ToSet(sdlq) : n < k
  BY DEF InputPathInv, TypeInv, WaitInv
<1>3. ToSet(pending) \cup ({lastMove} \ {0}) # {}
  BY <1>1, <1>2, EventQueue
<1>. QED
  BY <1>1, <1>2, <1>3, SendKeeps DEF Taken

-----------------------------------------------------------------------------
(* The proxy-encoder and the agent. *)

(* A step that sends nothing and takes nothing from the user: what arrives    *)
(* was ahead of what still travels, and what is lost was travelling.          *)
LEMMA TravelKeeps ==
  ASSUME InputPathInv,
         UNCHANGED <<did, sdlq, pending, lastMove, batchOf, guest, clicks>>,
         inject' \in Events, vsockq' \in Batches, batches' \in Batches,
         InOrder(did, batchOf, inject'), BatchesInOrder(did, batchOf, vsockq'),
         BatchesInOrder(did, batchOf, batches'),
         Earlier(batchOf, ToSet(inject'), Elems(vsockq') \cup Elems(batches')),
         Earlier(batchOf, Elems(vsockq'), Elems(batches')),
         NEW gone \in SUBSET Travelling, lost' = lost \cup gone, Travelling' = Travelling \ gone
  PROVE  InputPathInv'
<1>1. TypeInv /\ WaitInv /\ NumberInv /\ OrderInv /\ GuestInv /\ AccountInv /\ ClickInv
  BY DEF InputPathInv
<1>2. Done' = Done /\ Waiting' = Waiting /\ Taken' = Taken
  BY DEF Done, Waiting, Taken
<1>3. /\ gone \subseteq Done \ lost /\ \A n \in gone : n \notin Waiting
      /\ Travelling \subseteq Done \ lost /\ \A n \in Travelling : batchOf[n] # 0
  BY <1>1 DEF OrderInv, WaitInv
<1>4. TypeInv'
  <2>1. lost' \subseteq Done'
    BY <1>1, <1>2, <1>3 DEF TypeInv
  <2>. QED
    BY <1>1, <2>1 DEF TypeInv
<1>5. WaitInv'
  <2>1. Waiting' \subseteq Done' \ lost'
    BY <1>1, <1>2, <1>3 DEF WaitInv
  <2>. QED
    BY <1>1, <1>2, <2>1 DEF WaitInv
<1>6. NumberInv'
  BY <1>1, <1>2 DEF NumberInv
<1>7. OrderInv'
  <2>1. Travelling' \subseteq Done' \ lost' /\ \A n \in Travelling' : batchOf'[n] # 0
    BY <1>2, <1>3
  <2>. QED
    BY <2>1 DEF OrderInv
<1>8. GuestInv'
  <2> SUFFICES ASSUME NEW c \in Classes, guest[c] # 0
               PROVE  /\ guest[c] \in Done \ lost' /\ Class(did[guest[c]]) = c
                      /\ batchOf[guest[c]] # 0
                      /\ \A e \in Travelling' : Ahead(did, batchOf, guest[c], e)
    BY <1>2 DEF GuestInv
  <2> DEFINE g == guest[c]
  <2>1. /\ g \in Done \ lost /\ Class(did[g]) = c /\ batchOf[g] # 0
        /\ \A e \in Travelling : Ahead(did, batchOf, g, e)
    BY <1>1 DEF GuestInv
  <2> HIDE DEF g
  <2>2. ~Ahead(did, batchOf, g, g)
    <3>1. g \in Nat /\ g \in Numbers
      BY <1>1, <2>1, InputAssumption DEF Done, TypeInv, Numbers
    <3>2. batchOf[g] \in Nat
      BY <1>1, <3>1 DEF TypeInv
    <3>. QED
      BY <3>1, <3>2 DEF Ahead
  <2>3. g \notin gone
    BY <2>1, <2>2
  <2>. QED
    BY <2>1, <2>3 DEF g
<1>9. AccountInv'
  <2> SUFFICES ASSUME NEW n \in Done \ lost'
               PROVE  \/ n \in Waiting' \cup Travelling'
                      \/ batchOf'[n] # 0 /\ n <= guest'[Class(did'[n])]
                      \/ Superseded(n)'
    BY <1>2 DEF AccountInv
  <2>1. n \in Done \ lost /\ n \notin gone
    OBVIOUS
  <2>2. Superseded(n) => Superseded(n)'
    BY <1>2 DEF Superseded
  <2>. QED
    BY <1>1, <1>2, <2>1, <2>2 DEF AccountInv
<1>10. ClickInv'
  BY <1>1, <1>2 DEF ClickInv
<1>. QED
  BY <1>4, <1>5, <1>6, <1>7, <1>8, <1>9, <1>10 DEF InputPathInv

(* What the order says of the three queues together. *)
LEMMA QueuesInOrder ==
  ASSUME InputPathInv
  PROVE  /\ inject \in Events /\ vsockq \in Batches /\ batches \in Batches
         /\ InOrder(did, batchOf, inject)
         /\ BatchesInOrder(did, batchOf, vsockq) /\ BatchesInOrder(did, batchOf, batches)
         /\ Earlier(batchOf, ToSet(inject), Elems(vsockq) \cup Elems(batches))
         /\ Earlier(batchOf, Elems(vsockq), Elems(batches))
         /\ Travelling = ToSet(inject) \cup Elems(vsockq) \cup Elems(batches)
         /\ \A n \in Travelling : n \in Numbers /\ batchOf[n] \in Nat
<1>1. TypeInv /\ OrderInv
  BY DEF InputPathInv
<1>2. /\ inject \in Events /\ vsockq \in Batches /\ batches \in Batches
      /\ Travelling = ToSet(inject) \cup Elems(vsockq) \cup Elems(batches)
  BY <1>1 DEF TypeInv, Travelling
<1>3. Travelling \subseteq Numbers
  BY <1>2, EventQueue, BatchQueue
<1>. QED
  BY <1>1, <1>2, <1>3 DEF TypeInv, OrderInv

(* A batch is taken for the relay, or lost at its full channel. *)
LEMMA InjectKeeps ==
  ASSUME InputPathInv, InjectBatch
  PROVE  InputPathInv'
<1> DEFINE s == Head(batches)
<1>1. /\ UNCHANGED <<did, sdlq, pending, lastMove, batchOf, guest, clicks, inject>>
      /\ batches # <<>> /\ batches' = Tail(batches)
      /\ \/ lost' = lost \cup ToSet(s) /\ vsockq' = vsockq
         \/ lost' = lost /\ vsockq' = Append(vsockq, s)
  BY DEF InjectBatch
<1>2. /\ inject \in Events /\ vsockq \in Batches /\ batches \in Batches
      /\ InOrder(did, batchOf, inject)
      /\ BatchesInOrder(did, batchOf, vsockq) /\ BatchesInOrder(did, batchOf, batches)
      /\ Earlier(batchOf, ToSet(inject), Elems(vsockq) \cup Elems(batches))
      /\ Earlier(batchOf, Elems(vsockq), Elems(batches))
      /\ Travelling = ToSet(inject) \cup Elems(vsockq) \cup Elems(batches)
      /\ \A n \in Travelling : n \in Numbers /\ batchOf[n] \in Nat
  BY QueuesInOrder
<1>3. /\ s \in Events /\ batches' \in Batches /\ Elems(batches) = ToSet(s) \cup Elems(batches')
      /\ InOrder(did, batchOf, s) /\ BatchesInOrder(did, batchOf, batches')
      /\ Earlier(batchOf, ToSet(s), Elems(batches'))
  BY <1>1, <1>2, BatchQueue, BatchLeaves
<1>4. Travelling' = ToSet(inject) \cup Elems(vsockq') \cup Elems(batches')
  BY <1>1 DEF Travelling
<1> HIDE DEF s
<1>5. CASE lost' = lost \cup ToSet(s) /\ vsockq' = vsockq
  <2>1. /\ Earlier(batchOf, ToSet(inject), Elems(vsockq) \cup Elems(batches'))
        /\ Earlier(batchOf, Elems(vsockq), Elems(batches'))
    BY <1>2, <1>3 DEF Earlier
  <2>2. \A n \in ToSet(s) : n \notin ToSet(inject) \cup Elems(vsockq) \cup Elems(batches')
    <3> SUFFICES ASSUME NEW n \in ToSet(s), n \in ToSet(inject) \cup Elems(vsockq) \cup Elems(batches')
                 PROVE  FALSE
      OBVIOUS
    <3>1. n \in Travelling /\ n \in Elems(batches)
      BY <1>2, <1>3
    <3>2. batchOf[n] < batchOf[n]
      BY <1>2, <1>3, <3>1 DEF Earlier
    <3>. QED
      BY <1>2, <3>1, <3>2
  <2>3. ToSet(s) \in SUBSET Travelling /\ Travelling' = Travelling \ ToSet(s)
    BY <1>2, <1>3, <1>4, <1>5, <2>2
  <2>. QED
    BY <1>1, <1>2, <1>3, <1>5, <2>1, <2>3, TravelKeeps
<1>6. CASE lost' = lost /\ vsockq' = Append(vsockq, s)
  <2>1. vsockq' \in Batches /\ Elems(vsockq') = Elems(vsockq) \cup ToSet(s)
    BY <1>2, <1>3, <1>6, BatchQueue
  <2>2. Earlier(batchOf, Elems(vsockq), ToSet(s))
    BY <1>2, <1>3 DEF Earlier
  <2>3. BatchesInOrder(did, batchOf, vsockq')
    BY <1>2, <1>3, <1>6, <2>2, BatchArrives
  <2>4. /\ Earlier(batchOf, ToSet(inject), Elems(vsockq') \cup Elems(batches'))
        /\ Earlier(batchOf, Elems(vsockq'), Elems(batches'))
    BY <1>2, <1>3, <2>1 DEF Earlier
  <2>5. lost' = lost \cup {} /\ Travelling' = Travelling \ {} /\ {} \in SUBSET Travelling
    BY <1>2, <1>3, <1>4, <1>6, <2>1
  <2>. QED
    BY <1>1, <1>2, <1>3, <2>1, <2>3, <2>4, <2>5, TravelKeeps
<1>. QED
  BY <1>1, <1>5, <1>6

(* The events of a batch reach the portal's thread, in order. *)
LEMMA RelayKeeps ==
  ASSUME InputPathInv, Relay
  PROVE  InputPathInv'
<1> DEFINE s == Head(vsockq)
<1>1. /\ UNCHANGED <<did, sdlq, pending, lastMove, batchOf, guest, clicks, batches, lost>>
      /\ vsockq # <<>> /\ vsockq' = Tail(vsockq) /\ inject' = inject \o s
  BY DEF Relay
<1>2. /\ inject \in Events /\ vsockq \in Batches /\ batches \in Batches
      /\ InOrder(did, batchOf, inject)
      /\ BatchesInOrder(did, batchOf, vsockq) /\ BatchesInOrder(did, batchOf, batches)
      /\ Earlier(batchOf, ToSet(inject), Elems(vsockq) \cup Elems(batches))
      /\ Earlier(batchOf, Elems(vsockq), Elems(batches))
      /\ Travelling = ToSet(inject) \cup Elems(vsockq) \cup Elems(batches)
  BY QueuesInOrder
<1>3. /\ s \in Events /\ vsockq' \in Batches /\ Elems(vsockq) = ToSet(s) \cup Elems(vsockq')
      /\ InOrder(did, batchOf, s) /\ BatchesInOrder(did, batchOf, vsockq')
      /\ Earlier(batchOf, ToSet(s), Elems(vsockq'))
  BY <1>1, <1>2, BatchQueue, BatchLeaves
<1> HIDE DEF s
<1>4. inject' \in Events /\ ToSet(inject') = ToSet(inject) \cup ToSet(s)
  BY <1>1, <1>2, <1>3, EventConcat
<1>5. InOrder(did, batchOf, inject')
  <2>1. Earlier(batchOf, ToSet(inject), ToSet(s))
    BY <1>2, <1>3 DEF Earlier
  <2>. QED
    BY <1>1, <1>2, <1>3, <2>1, OrderJoins
<1>6. /\ Earlier(batchOf, ToSet(inject'), Elems(vsockq') \cup Elems(batches'))
      /\ Earlier(batchOf, Elems(vsockq'), Elems(batches'))
  BY <1>1, <1>2, <1>3, <1>4 DEF Earlier
<1>7. lost' = lost \cup {} /\ {} \in SUBSET Travelling /\ Travelling' = Travelling \ {}
  BY <1>1, <1>2, <1>3, <1>4 DEF Travelling
<1>. QED
  BY <1>1, <1>2, <1>3, <1>4, <1>5, <1>6, <1>7, TravelKeeps

(* The first event at the agent is ahead of all others. *)
LEMMA FirstIsAhead ==
  ASSUME InputPathInv, inject # <<>>, inject' = Tail(inject), UNCHANGED <<vsockq, batches>>
  PROVE  /\ Head(inject) \in Travelling /\ Head(inject) \in Numbers
         /\ Travelling' = Travelling \ {Head(inject)}
         /\ \A e \in Travelling' : Ahead(did, batchOf, Head(inject), e)
         /\ inject' \in Events /\ InOrder(did, batchOf, inject') /\ ToSet(inject') \subseteq ToSet(inject)
<1> DEFINE h == Head(inject)
<1>1. /\ inject \in Events /\ InOrder(did, batchOf, inject)
      /\ Earlier(batchOf, ToSet(inject), Elems(vsockq) \cup Elems(batches))
      /\ Travelling = ToSet(inject) \cup Elems(vsockq) \cup Elems(batches)
      /\ \A n \in Travelling : n \in Numbers /\ batchOf[n] \in Nat
  BY QueuesInOrder
<1>2. h \in Numbers /\ inject' \in Events /\ ToSet(inject) = {h} \cup ToSet(inject')
  BY <1>1, EventQueue
<1>3. InOrder(did, batchOf, inject') /\ \A k \in ToSet(inject') : Ahead(did, batchOf, h, k)
  BY <1>1, OrderLeaves
<1>4. Travelling' = ToSet(inject') \cup Elems(vsockq) \cup Elems(batches)
  BY DEF Travelling
<1> HIDE DEF h
<1>5. \A e \in Travelling' : Ahead(did, batchOf, h, e)
  BY <1>1, <1>2, <1>3, <1>4 DEF Earlier, Ahead
<1>6. h \notin Travelling'
  <2>1. ~Ahead(did, batchOf, h, h)
    BY <1>1, <1>2 DEF Ahead, Numbers
  <2>. QED
    BY <1>5, <2>1
<1>7. h \in Travelling /\ Travelling' = Travelling \ {h}
  BY <1>1, <1>2, <1>4, <1>6
<1>. QED
  BY <1>2, <1>3, <1>5, <1>7 DEF h

(* An event the agent fails to apply is lost. *)
LEMMA FailsKeeps ==
  ASSUME InputPathInv, ApplyFails
  PROVE  InputPathInv'
<1> DEFINE h == Head(inject)
<1>1. /\ UNCHANGED <<did, sdlq, pending, lastMove, batchOf, guest, clicks, batches, vsockq>>
      /\ inject # <<>> /\ inject' = Tail(inject) /\ lost' = lost \cup {h}
  BY DEF ApplyFails
<1>2. /\ vsockq \in Batches /\ batches \in Batches
      /\ BatchesInOrder(did, batchOf, vsockq) /\ BatchesInOrder(did, batchOf, batches)
      /\ Earlier(batchOf, ToSet(inject), Elems(vsockq) \cup Elems(batches))
      /\ Earlier(batchOf, Elems(vsockq), Elems(batches))
  BY QueuesInOrder
<1>3. /\ h \in Travelling /\ Travelling' = Travelling \ {h}
      /\ inject' \in Events /\ InOrder(did, batchOf, inject') /\ ToSet(inject') \subseteq ToSet(inject)
  BY <1>1, FirstIsAhead
<1> HIDE DEF h
<1>4. Earlier(batchOf, ToSet(inject'), Elems(vsockq) \cup Elems(batches))
  BY <1>2, <1>3 DEF Earlier
<1>. QED
  BY <1>1, <1>2, <1>3, <1>4, TravelKeeps

(* The first event at the agent is applied in the guest. *)
LEMMA ApplyKeeps ==
  ASSUME InputPathInv, ApplyEvent
  PROVE  InputPathInv'
<1> DEFINE h == Head(inject)
           cl == Class(did[h])
<1>1. TypeInv /\ WaitInv /\ NumberInv /\ OrderInv /\ GuestInv /\ AccountInv /\ ClickInv
  BY DEF InputPathInv
<1>2. /\ UNCHANGED <<did, sdlq, pending, lastMove, batchOf, batches, vsockq, lost>>
      /\ inject # <<>> /\ inject' = Tail(inject)
      /\ guest' = [guest EXCEPT ![cl] = h]
      /\ clicks' = IF cl = "button" THEN clicks \cup {<<h, guest.move>>} ELSE clicks
  BY DEF ApplyEvent, Applied
<1>3. /\ h \in Travelling /\ h \in Numbers /\ Travelling' = Travelling \ {h}
      /\ \A e \in Travelling' : Ahead(did, batchOf, h, e)
      /\ inject' \in Events /\ InOrder(did, batchOf, inject') /\ ToSet(inject') \subseteq ToSet(inject)
  BY <1>2, FirstIsAhead
<1>4. Done' = Done /\ Waiting' = Waiting /\ Taken' = Taken
  BY <1>2 DEF Done, Waiting, Taken
<1> HIDE DEF h
<1>5. /\ h \in Done /\ h \notin lost /\ batchOf[h] # 0
      /\ \A n \in Done : did[n] \in Kinds /\ n \in Numbers /\ n \in Nat
  BY <1>1, <1>3, InputAssumption DEF OrderInv, TypeInv, Done, Numbers
<1>6. cl \in Classes /\ (cl = "move" <=> did[h] = "move")
  BY <1>5, ClassOfKind
<1> HIDE DEF cl
<1>7. /\ guest' \in [Classes -> Numbers \cup {0}] /\ guest'[cl] = h
      /\ \A c \in Classes \ {cl} : guest'[c] = guest[c]
      /\ \A c \in Classes : guest[c] \in Numbers \cup {0}
  BY <1>1, <1>2, <1>3, <1>6 DEF TypeInv
(* The one applied before it of the same class is an earlier one. *)
<1>8. ASSUME NEW c \in Classes, guest[c] # 0
      PROVE  /\ guest[c] \in Done /\ Ahead(did, batchOf, guest[c], h)
             /\ Class(did[guest[c]]) = c /\ batchOf[guest[c]] # 0
  BY <1>1, <1>3, <1>8 DEF GuestInv
<1>9. guest[cl] <= h
  <2>1. CASE guest[cl] = 0
    BY <1>3, <2>1 DEF Numbers
  <2>2. CASE guest[cl] # 0
    <3> DEFINE g == guest[cl]
    <3>1. /\ g \in Done /\ g \in Numbers /\ g \in Nat /\ h \in Nat /\ Ahead(did, batchOf, g, h)
          /\ Class(did[g]) = cl /\ batchOf[g] # 0
      BY <1>5, <1>6, <1>8, <2>2
    <3> HIDE DEF g
    <3>2. did[g] = "move" <=> did[h] = "move"
      BY <1>5, <1>6, <3>1, ClassOfKind
    <3>3. batchOf[g] < batchOf[h] => g < h
      BY <1>1, <1>3, <3>1 DEF NumberInv
    <3>. QED
      BY <3>1, <3>2, <3>3 DEF Ahead, g
  <2>. QED
    BY <2>1, <2>2
<1>10. TypeInv'
  <2>1. clicks' \subseteq Numbers \X (Numbers \cup {0})
    <3>1. guest.move \in Numbers \cup {0}
      BY <1>7 DEF Classes
    <3>. QED
      BY <1>1, <1>2, <1>3, <3>1 DEF TypeInv
  <2>. QED
    BY <1>1, <1>2, <1>3, <1>4, <1>7, <2>1 DEF TypeInv
<1>11. WaitInv' /\ NumberInv'
  BY <1>1, <1>2, <1>4 DEF WaitInv, NumberInv
<1>12. OrderInv'
  <2>1. Travelling' \subseteq Done' \ lost' /\ \A n \in Travelling' : batchOf'[n] # 0
    BY <1>1, <1>2, <1>3, <1>4 DEF OrderInv
  <2>2. Earlier(batchOf, ToSet(inject'), Elems(vsockq) \cup Elems(batches))
    BY <1>1, <1>3 DEF OrderInv, Earlier
  <2>. QED
    BY <1>1, <1>2, <1>3, <2>1, <2>2 DEF OrderInv
<1>13. GuestInv'
  <2> SUFFICES ASSUME NEW c \in Classes, guest'[c] # 0
               PROVE  /\ guest'[c] \in Done \ lost /\ Class(did[guest'[c]]) = c
                      /\ batchOf[guest'[c]] # 0
                      /\ \A e \in Travelling' : Ahead(did, batchOf, guest'[c], e)
    BY <1>2, <1>4 DEF GuestInv
  <2>1. CASE c = cl
    BY <1>3, <1>5, <1>7, <2>1 DEF cl
  <2>2. CASE c # cl
    <3>1. guest'[c] = guest[c] /\ guest[c] # 0
      BY <1>7, <2>2
    <3>. QED
      BY <1>1, <1>3, <3>1 DEF GuestInv
  <2>. QED
    BY <2>1, <2>2
<1>14. AccountInv'
  <2> SUFFICES ASSUME NEW n \in Done \ lost
               PROVE  \/ n \in Waiting' \cup Travelling'
                      \/ batchOf'[n] # 0 /\ n <= guest'[Class(did'[n])]
                      \/ Superseded(n)'
    BY <1>2, <1>4 DEF AccountInv
  <2>1. CASE n = h
    BY <1>2, <1>5, <1>7, <2>1 DEF cl
  <2>2. CASE batchOf[n] # 0 /\ n <= guest[Class(did[n])]
    <3>1. Class(did[n]) \in Classes /\ n \in Nat
      BY <1>5, ClassOfKind
    <3>2. CASE Class(did[n]) = cl
      <4>1. n <= guest'[cl] /\ batchOf'[n] # 0
        BY <1>2, <1>5, <1>6, <1>7, <1>9, <2>2, <3>1, <3>2 DEF Numbers
      <4>. QED
        BY <1>2, <3>2, <4>1
    <3>3. CASE Class(did[n]) # cl
      BY <1>2, <1>7, <2>2, <3>1, <3>3
    <3>. QED
      BY <3>2, <3>3
  <2>3. CASE Superseded(n)
    BY <1>2, <1>4, <2>3 DEF Superseded
  <2>4. CASE n \in (Waiting \cup Travelling) \ {h}
    BY <1>3, <1>4, <2>4
  <2>. QED
    BY <1>1, <2>1, <2>2, <2>3, <2>4 DEF AccountInv
<1>15. ClickInv'
  <2> SUFFICES ASSUME NEW c \in clicks'
               PROVE  /\ c[1] \in Done /\ batchOf[c[1]] # 0 /\ c[2] < c[1]
                      /\ \A j \in Done : did[j] = "move" /\ c[2] < j /\ j < c[1]
                            => j \in lost \/ batchOf[j] = 0 \/ batchOf[j] >= batchOf[c[1]]
    BY <1>2, <1>4 DEF ClickInv
  <2>1. CASE c \in clicks
    BY <1>1, <2>1 DEF ClickInv
  <2>2. CASE c = <<h, guest.move>> /\ cl = "button"
    <3> DEFINE m == guest["move"]
    <3>1. c[1] = h /\ c[2] = m /\ m \in Numbers \cup {0} /\ "move" \in Classes
      BY <1>7, <2>2 DEF Classes
    <3>2. did[h] # "move"
      BY <1>6, <2>2
    <3>3. m < h
      <4>1. CASE m = 0
        BY <1>3, <4>1 DEF Numbers
      <4>2. CASE m # 0
        <5>1. /\ m \in Done /\ Ahead(did, batchOf, m, h) /\ batchOf[m] # 0
              /\ Class(did[m]) = "move" /\ m \in Numbers
          BY <1>5, <1>8, <3>1, <4>2
        <5> HIDE DEF m
        <5>2. did[m] = "move"
          BY <1>5, <5>1, ClassOfKind
        <5>3. batchOf[m] < batchOf[h]
          BY <5>1, <5>2 DEF Ahead
        <5>. QED
          BY <1>1, <1>3, <5>1, <5>3 DEF NumberInv
      <4>. QED
        BY <4>1, <4>2
    <3> HIDE DEF m
    <3>4. ASSUME NEW j \in Done, did[j] = "move", m < j, j < h,
                 j \notin lost, batchOf[j] # 0
          PROVE  batchOf[j] >= batchOf[h]
      <4>1. j # h /\ j \in Nat /\ j \in Numbers /\ h \in Nat /\ m \in Nat /\ Class(did[j]) = "move"
        BY <1>3, <1>5, <3>1, <3>2, <3>4, ClassOfKind DEF Numbers
      <4>2. j \in Travelling
        <5>1. j \notin Waiting
          BY <1>1, <3>4 DEF WaitInv
        <5>2. ~Superseded(j)
          BY <3>4 DEF Superseded
        <5>3. ~(j <= guest[Class(did[j])])
          BY <3>1, <3>4, <4>1 DEF m
        <5>. QED
          BY <1>1, <3>4, <5>1, <5>2, <5>3 DEF AccountInv
      <4>3. Ahead(did, batchOf, h, j)
        BY <1>3, <4>1, <4>2
      <4>4. batchOf[j] \in Nat /\ batchOf[h] \in Nat
        BY <1>1, <1>3, <4>1 DEF TypeInv
      <4>. QED
        BY <4>3, <4>4 DEF Ahead
    <3>. QED
      BY <1>5, <3>1, <3>3, <3>4
  <2>. QED
    BY <1>2, <2>1, <2>2
<1>. QED
  BY <1>10, <1>11, <1>12, <1>13, <1>14, <1>15 DEF InputPathInv

-----------------------------------------------------------------------------
(* Every step. *)

(* Every step of the path keeps the invariant. *)
LEMMA InputStep == InputPathInv /\ [Next]_vars => InputPathInv'
<1> SUFFICES ASSUME InputPathInv, [Next]_vars PROVE InputPathInv'
  OBVIOUS
<1>1. ASSUME UNCHANGED <<did, sdlq, pending, lastMove, batches, vsockq, inject, guest, clicks,
                         lost, batchOf>>
      PROVE  InputPathInv'
  <2>1. Done' = Done /\ Taken' = Taken /\ Waiting' = Waiting /\ Travelling' = Travelling
    BY <1>1 DEF Done, Taken, Waiting, Travelling
  <2>2. TypeInv /\ WaitInv /\ NumberInv => TypeInv' /\ WaitInv' /\ NumberInv'
    BY <1>1, <2>1 DEF TypeInv, WaitInv, NumberInv
  <2>3. OrderInv /\ GuestInv /\ ClickInv => OrderInv' /\ GuestInv' /\ ClickInv'
    BY <1>1, <2>1 DEF OrderInv, GuestInv, ClickInv
  <2>4. AccountInv => AccountInv'
    BY <1>1, <2>1 DEF AccountInv, Superseded
  <2>. QED
    BY <2>2, <2>3, <2>4 DEF InputPathInv
<1>2. CASE \E size \in Windows : Resize(size)
  BY <1>1, <1>2 DEF Resize
<1>3. CASE SendTimesOut
  BY <1>1, <1>3 DEF SendTimesOut
<1>4. CASE UNCHANGED vars
  BY <1>1, <1>4 DEF vars
<1>5. CASE \E p \in Points : Move(p)
  <2>1. PICK p \in Points : Move(p)
    BY <1>5
  <2>2. Inside(p) \in BOOLEAN /\ Happens("move", Inside(p)) /\ "move" \in Kinds
    BY <2>1 DEF Move, Inside, Kinds
  <2>. QED
    BY <2>2, HappensKeeps
<1>6. CASE Button
  <2>1. PICK kind \in {"up", "down"} : Happens(kind, Inside(pointer))
    BY <1>6 DEF Button
  <2>2. Inside(pointer) \in BOOLEAN /\ kind \in Kinds
    BY <2>1 DEF Inside, Kinds
  <2>. QED
    BY <2>1, <2>2, HappensKeeps
<1>7. CASE Key
  <2>1. PICK kind \in {"keyup", "keydown"} : Happens(kind, TRUE)
    BY <1>7 DEF Key
  <2>2. kind \in Kinds
    BY <2>1 DEF Kinds
  <2>. QED
    BY <2>1, <2>2, HappensKeeps
<1>8. CASE Sender
  BY <1>8, TakeKeeps, KeyKeeps DEF Sender
<1>9. CASE Tick
  BY <1>9, TickKeeps
<1>10. CASE InjectBatch \/ Relay \/ ApplyEvent \/ ApplyFails
  BY <1>10, InjectKeeps, RelayKeeps, ApplyKeeps, FailsKeeps
<1>. QED
  BY <1>2, <1>3, <1>4, <1>5, <1>6, <1>7, <1>8, <1>9, <1>10 DEF Next

(* Whatever the sizes of the window and the channels, and whatever is lost, a *)
(* press or release acts at no place reached after it, and misses no move of  *)
(* an earlier batch that was not dropped (InputSender, inject_events).        *)
THEOREM ClickSafety == Spec => []ClickNotAhead
<1>1. Init => InputPathInv
  BY InputInit
<1>2. InputPathInv /\ [Next]_vars => InputPathInv'
  BY InputStep
<1>3. InputPathInv => ClickNotAhead
  BY NotAhead
<1>. QED
  BY <1>1, <1>2, <1>3, PTL DEF Spec

(* When nothing is on its way, the guest is where the last events of each     *)
(* kind that were neither dropped nor replaced have left it.                  *)
THEOREM RestSafety == Spec => []RestAgrees
<1>1. Init => InputPathInv
  BY InputInit
<1>2. InputPathInv /\ [Next]_vars => InputPathInv'
  BY InputStep
<1>3. InputPathInv => RestAgrees
  BY AtRestAgrees
<1>. QED
  BY <1>1, <1>2, <1>3, PTL DEF Spec

=============================================================================
