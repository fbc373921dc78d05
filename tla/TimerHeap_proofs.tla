--------------------------- MODULE TimerHeap_proofs ---------------------------
(***************************************************************************)
(* Proofs about TimerHeap, for any number of timers and any size of the    *)
(* heap.                                                                   *)
(*                                                                         *)
(* While an operation goes on the array is a heap except at the hole, and  *)
(* the timers around the hole are in order as if it were not there.  The   *)
(* inductive invariant says so, and where the timer in hand stands.        *)
(***************************************************************************)
EXTENDS TimerHeap, TLAPS, WellFoundedInduction

Removing == pc \in {"down", "remove"}

\* The last place that the operation compares with: a removal still looks at the
\* place that it has just given up.
LastPlace == IF Removing THEN currSize ELSE currSize - 1

\* Place i is not the hole.
Filled(i) == pc = "idle" \/ i # holeIndex

\* The timer in hand and the hole.
InHand ==
  pc # "idle" =>
    /\ pTimerEvent \in Timers
    /\ pc = "insert" =>
         holeIndex < currSize /\ timerMinHeapIndex[pTimerEvent] = INVALID
    /\ Removing =>
         /\ holeIndex <= currSize
         /\ pHeap[currSize] = pTimerEvent
         /\ holeIndex < currSize => timerMinHeapIndex[pTimerEvent] = currSize

\* Every place but the hole holds a timer that knows it.
PlacesKnown ==
  \A i \in 0 .. currSize - 1 :
    Filled(i) => pHeap[i] \in Timers /\ timerMinHeapIndex[pHeap[i]] = i

\* Every timer that knows a place is there.
TimersThere ==
  \A t \in Timers : timerMinHeapIndex[t] # INVALID =>
    \/ /\ timerMinHeapIndex[t] < currSize
       /\ Filled(timerMinHeapIndex[t])
       /\ pHeap[timerMinHeapIndex[t]] = t
    \/ /\ Removing /\ holeIndex < currSize
       /\ t = pTimerEvent /\ timerMinHeapIndex[t] = currSize

OrderedElsewhere ==
  \A p, c \in 0 .. LastPlace :
    IsChild(p, c) /\ Filled(p) /\ Filled(c) => ~ Later(pHeap[p], pHeap[c])

OrderedAcross ==
  pc # "idle" =>
    \A p, c \in 0 .. LastPlace :
      IsChild(p, holeIndex) /\ IsChild(holeIndex, c) => ~ Later(pHeap[p], pHeap[c])

\* The timer in hand may not sink.
OrderedBelow ==
  pc \in {"insert", "remove"} =>
    \A c \in 0 .. currSize - 1 :
      IsChild(holeIndex, c) => ~ Later(pTimerEvent, pHeap[c])

\* A hole behind the last place need not rise.
OrderedLast ==
  Removing /\ holeIndex = currSize =>
    \A p \in 0 .. currSize : IsChild(p, holeIndex) => ~ Later(pHeap[p], pTimerEvent)

HeapInv ==
  /\ TypeOK /\ InHand /\ PlacesKnown /\ TimersThere
  /\ OrderedElsewhere /\ OrderedAcross /\ OrderedBelow /\ OrderedLast

-----------------------------------------------------------------------------
\* The place above a place other than the top is its parent.
LEMMA ParentAbove ==
  ASSUME NEW i \in Nat \ {0}
  PROVE  Parent(i) \in Nat /\ Parent(i) < i /\ IsChild(Parent(i), i)
  BY DEF Parent, IsChild

\* A place has one parent, which comes before it.
LEMMA OneParent ==
  ASSUME NEW p \in Nat, NEW q \in Nat, NEW c \in Nat, IsChild(p, c)
  PROVE  p < c /\ c > 0 /\ (IsChild(q, c) => p = q)
  BY DEF IsChild

\* "Not later" is transitive.
LEMMA NotLaterTransitive ==
  ASSUME TypeOK, NEW t \in Timers, NEW u \in Timers, NEW v \in Timers
  PROVE  /\ ~ Later(t, u) /\ ~ Later(u, v) => ~ Later(t, v)
         /\ Later(u, t) => ~ Later(t, u)
         /\ ~ Later(t, t)
<1> tvTimeout[t] \in Nat /\ tvTimeout[u] \in Nat /\ tvTimeout[v] \in Nat
  BY HeapAssumption DEF TypeOK
<1> QED
  BY DEF Later

\* The invariant holds of the empty heap.
LEMMA InitInv == Init => HeapInv
<1> SUFFICES ASSUME Init PROVE HeapInv
  OBVIOUS
<1> USE HeapAssumption DEF Init, Indexes, INVALID
<1>1. TypeOK
  BY DEF TypeOK
<1>2. InHand /\ PlacesKnown /\ TimersThere
  BY DEF InHand, PlacesKnown, TimersThere, Removing
<1>3. OrderedElsewhere /\ OrderedAcross /\ OrderedBelow /\ OrderedLast
  BY DEF OrderedElsewhere, OrderedAcross, OrderedBelow, OrderedLast, Removing, LastPlace
<1> QED
  BY <1>1, <1>2, <1>3 DEF HeapInv

\* An insertion opens a hole behind the last timer.
LEMMA InsertInv ==
  ASSUME HeapInv, NEW t \in Timers, NEW time \in Times, Insert(t, time)
  PROVE  HeapInv'
<1> USE HeapAssumption DEF HeapInv, Insert, HasRoom, Indexes, INVALID, Removing, Filled, LastPlace
<1>1. TypeOK'
  BY DEF TypeOK
<1>2. InHand'
  BY DEF TypeOK, InHand
<1>3. PlacesKnown'
  BY DEF TypeOK, PlacesKnown
<1>4. TimersThere'
  BY DEF TypeOK, TimersThere
<1>5. \A i \in 0 .. currSize - 1 : tvTimeout'[pHeap[i]] = tvTimeout[pHeap[i]]
  BY DEF TypeOK, PlacesKnown
<1>6. OrderedElsewhere'
  BY <1>5 DEF TypeOK, OrderedElsewhere, Later, IsChild
<1>7. OrderedAcross' /\ OrderedBelow' /\ OrderedLast'
  BY DEF TypeOK, OrderedAcross, OrderedBelow, OrderedLast, IsChild
<1> QED
  BY <1>1, <1>2, <1>3, <1>4, <1>6, <1>7

\* A removal opens a hole where the timer was, and takes the last one in hand.
LEMMA RemoveInv ==
  ASSUME HeapInv, NEW t \in Timers, Remove(t)
  PROVE  HeapInv'
<1> USE HeapAssumption DEF HeapInv, Remove, Indexes, INVALID, Removing, Filled, LastPlace
<1> DEFINE i == timerMinHeapIndex[t]
<1>1. i \in 0 .. currSize - 1 /\ currSize \in Nat /\ pHeap[i] = t
  BY DEF TypeOK, TimersThere
<1>2. TypeOK'
  BY <1>1 DEF TypeOK, PlacesKnown
<1>3. pHeap[currSize - 1] \in Timers /\ timerMinHeapIndex[pHeap[currSize - 1]] = currSize - 1
  BY <1>1 DEF PlacesKnown
<1>4. InHand'
  BY <1>1, <1>3 DEF TypeOK, InHand
<1>5. PlacesKnown'
  BY <1>1 DEF TypeOK, PlacesKnown
<1>6. TimersThere'
  BY <1>1, <1>3 DEF TypeOK, TimersThere
<1>7. OrderedElsewhere'
  BY <1>1 DEF TypeOK, OrderedElsewhere, Later, IsChild
<1>8. OrderedAcross'
  <2> SUFFICES ASSUME NEW p \in 0 .. currSize - 1, NEW c \in 0 .. currSize - 1,
                      IsChild(p, i), IsChild(i, c)
               PROVE  ~ Later(pHeap[p], pHeap[c])
    BY <1>1 DEF TypeOK, OrderedAcross, Later
  <2>1. ~ Later(pHeap[p], pHeap[i]) /\ ~ Later(pHeap[i], pHeap[c])
    BY <1>1 DEF OrderedElsewhere
  <2>2. pHeap[p] \in Timers /\ pHeap[i] \in Timers /\ pHeap[c] \in Timers
    BY <1>1 DEF PlacesKnown
  <2> QED
    BY <2>1, <2>2, NotLaterTransitive
<1>9. OrderedBelow' /\ OrderedLast'
  BY <1>1 DEF TypeOK, OrderedElsewhere, OrderedBelow, OrderedLast, Later, IsChild
<1> QED
  BY <1>2, <1>4, <1>5, <1>6, <1>7, <1>8, <1>9

\* The places whose timers the loops move hold timers, each once.
LEMMA PlaceOccupied ==
  ASSUME HeapInv, pc # "idle", NEW i \in 0 .. LastPlace, i # holeIndex
  PROVE  /\ i \in Indexes /\ pHeap[i] \in Timers
         /\ timerMinHeapIndex[pHeap[i]] = i
BY HeapAssumption DEF HeapInv, TypeOK, InHand, PlacesKnown, Removing, Filled, LastPlace, Indexes

\* The earlier child moves up into the hole.
LEMMA SinkInv ==
  ASSUME HeapInv, Sink
  PROVE  HeapInv'
<1> USE HeapAssumption DEF HeapInv, Indexes, INVALID, Removing, Filled, LastPlace
<1> DEFINE e == EarlierChild
<1>1. /\ pc = "down" /\ pc' = "down" /\ MaxChild <= currSize /\ ~ Later(pHeap[e], pTimerEvent)
      /\ pHeap' = [pHeap EXCEPT ![holeIndex] = pHeap[e]]
      /\ timerMinHeapIndex' = [timerMinHeapIndex EXCEPT ![pHeap[e]] = holeIndex]
      /\ holeIndex' = e
      /\ UNCHANGED <<currSize, tvTimeout, pTimerEvent, first>>
  BY DEF Sink, MustSink, HasChildren, MoveHole, Placed
<1>2. /\ holeIndex \in Nat /\ currSize \in Indexes
      /\ e \in {MinChild, MaxChild} /\ IsChild(holeIndex, e)
      /\ MinChild \in 0 .. currSize /\ MaxChild \in 0 .. currSize
      /\ holeIndex < MinChild /\ holeIndex < currSize
  BY <1>1 DEF TypeOK, EarlierChild, MinChild, MaxChild, IsChild
<1>3. /\ pHeap[e] \in Timers /\ timerMinHeapIndex[pHeap[e]] = e
      /\ pHeap[MinChild] \in Timers /\ pHeap[MaxChild] \in Timers
  <2>1. \A i \in {MinChild, MaxChild} : i \in 0 .. LastPlace /\ i # holeIndex
    BY <1>1, <1>2 DEF MaxChild
  <2>2. \A i \in {MinChild, MaxChild} :
          pHeap[i] \in Timers /\ timerMinHeapIndex[pHeap[i]] = i
    BY <2>1, <1>1, PlaceOccupied
  <2> QED
    BY <2>2, <1>2
<1>4. \A c \in Nat : IsChild(holeIndex, c) => ~ Later(pHeap[e], pHeap[c])
  <2>1. ~ Later(pHeap[e], pHeap[MinChild]) /\ ~ Later(pHeap[e], pHeap[MaxChild])
    BY <1>3, NotLaterTransitive DEF EarlierChild
  <2> QED
    <3>1. MaxChild = 2 * holeIndex + 2
      BY <1>2 DEF MaxChild, MinChild
    <3> QED
      BY <2>1, <3>1 DEF IsChild, MinChild
<1>5. TypeOK'
  BY <1>1, <1>2, <1>3 DEF TypeOK
<1>6. InHand'
  BY <1>1, <1>2, <1>3 DEF TypeOK, InHand
<1>7. PlacesKnown'
  BY <1>1, <1>2, <1>3 DEF TypeOK, PlacesKnown
<1>8. TimersThere'
  BY <1>1, <1>2, <1>3 DEF TypeOK, TimersThere, InHand
<1>9. OrderedElsewhere'
  <2> SUFFICES ASSUME NEW p \in 0 .. currSize, NEW c \in 0 .. currSize,
                      IsChild(p, c), p # e, c # e
               PROVE  ~ (tvTimeout'[pHeap'[p]] > tvTimeout'[pHeap'[c]])
    BY <1>1 DEF OrderedElsewhere, Later
  <2>1. CASE p = holeIndex
    BY <2>1, <1>1, <1>2, <1>4 DEF TypeOK, Later, IsChild
  <2>2. CASE c = holeIndex
    <3>1. ~ Later(pHeap[p], pHeap[e])
      BY <2>2, <1>1, <1>2 DEF OrderedAcross
    <3> QED
      BY <3>1, <2>2, <1>1, <1>2 DEF TypeOK, Later, IsChild
  <2>3. CASE p # holeIndex /\ c # holeIndex
    BY <2>3, <1>1, <1>2 DEF TypeOK, OrderedElsewhere, Later
  <2> QED
    BY <2>1, <2>2, <2>3
<1>10. OrderedAcross'
  <2> SUFFICES ASSUME NEW p \in 0 .. currSize, NEW c \in 0 .. currSize,
                      IsChild(p, e), IsChild(e, c)
               PROVE  ~ (tvTimeout'[pHeap'[p]] > tvTimeout'[pHeap'[c]])
    BY <1>1 DEF OrderedAcross, Later
  <2>1. p = holeIndex /\ c # holeIndex /\ e # holeIndex
    BY <1>2 DEF IsChild, MinChild, MaxChild
  <2>2. ~ Later(pHeap[e], pHeap[c])
    BY <2>1, <1>1, <1>2 DEF OrderedElsewhere
  <2> QED
    BY <2>1, <2>2, <1>1, <1>2 DEF TypeOK, Later
<1>11. OrderedBelow' /\ OrderedLast'
  BY <1>1, <1>2, <1>3 DEF TypeOK, OrderedBelow, OrderedLast, InHand, Later, IsChild, MinChild, MaxChild
<1> QED
  BY <1>5, <1>6, <1>7, <1>8, <1>9, <1>10, <1>11

\* No child of the hole is earlier than the timer in hand.
LEMMA StopSinkingInv ==
  ASSUME HeapInv, StopSinking
  PROVE  HeapInv'
<1> USE HeapAssumption DEF HeapInv, Indexes, Removing, Filled, LastPlace
<1>1. /\ pc = "down" /\ pc' = "remove" /\ ~ MustSink
      /\ UNCHANGED <<pHeap, currSize, timers, holeIndex, pTimerEvent, first>>
  BY DEF StopSinking
<1>2. /\ TypeOK' /\ InHand' /\ PlacesKnown' /\ TimersThere'
      /\ OrderedElsewhere' /\ OrderedAcross' /\ OrderedLast'
  BY <1>1 DEF timers, TypeOK, InHand, PlacesKnown, TimersThere, OrderedElsewhere,
              OrderedAcross, OrderedLast, Later
<1>3. ASSUME NEW c \in 0 .. currSize - 1, IsChild(holeIndex, c)
      PROVE  ~ Later(pTimerEvent, pHeap[c])
  <2>1. HasChildren
    BY <1>1, <1>3, HeapInv DEF TypeOK, HasChildren, MaxChild, MinChild, IsChild
  <2>2. /\ MinChild \in 0 .. LastPlace /\ MinChild # holeIndex
        /\ MaxChild \in 0 .. LastPlace /\ MaxChild # holeIndex
    BY <1>1, <2>1 DEF TypeOK, HasChildren, MaxChild, MinChild
  <2>3. pHeap[MinChild] \in Timers /\ pHeap[MaxChild] \in Timers
    BY <1>1, <2>2, PlaceOccupied
  <2>4. Later(pHeap[EarlierChild], pTimerEvent)
    BY <1>1, <2>1 DEF MustSink
  <2>5. pTimerEvent \in Timers
    BY <1>1 DEF InHand
  <2> QED
    <3>1. ~ Later(pTimerEvent, pHeap[EarlierChild])
      BY <2>3, <2>4, <2>5, NotLaterTransitive DEF EarlierChild
    <3>2. /\ ~ Later(pHeap[EarlierChild], pHeap[MinChild])
          /\ ~ Later(pHeap[EarlierChild], pHeap[MaxChild])
      BY <2>3, NotLaterTransitive DEF EarlierChild
    <3>3. ~ Later(pTimerEvent, pHeap[MinChild]) /\ ~ Later(pTimerEvent, pHeap[MaxChild])
      BY <3>1, <3>2, <2>3, <2>5, NotLaterTransitive DEF EarlierChild
    <3>4. MaxChild = 2 * holeIndex + 2
      BY DEF TypeOK, MaxChild, MinChild
    <3> QED
      BY <3>3, <3>4, <1>3 DEF IsChild, MinChild
<1>4. OrderedBelow'
  BY <1>1, <1>3 DEF timers, OrderedBelow, Later
<1> QED
  BY <1>2, <1>4

\* The parent of the hole, later than the timer in hand, moves down into it.
LEMMA RiseInv ==
  ASSUME HeapInv, Rise
  PROVE  HeapInv'
<1> USE HeapAssumption DEF HeapInv, Indexes, INVALID, Removing, Filled, LastPlace
<1> DEFINE up == Parent(holeIndex)
<1>1. /\ pc \in {"insert", "remove"} /\ UNCHANGED pc
      /\ holeIndex > 0 /\ Later(pHeap[up], pTimerEvent)
      /\ pHeap' = [pHeap EXCEPT ![holeIndex] = pHeap[up]]
      /\ timerMinHeapIndex' = [timerMinHeapIndex EXCEPT ![pHeap[up]] = holeIndex]
      /\ holeIndex' = up
      /\ UNCHANGED <<currSize, tvTimeout, pTimerEvent, first>>
  BY DEF Rise, MustRise, MoveHole, Placed
<1>2. /\ holeIndex \in Nat \ {0} /\ currSize \in Indexes /\ holeIndex <= currSize
      /\ up \in Nat /\ up < holeIndex /\ IsChild(up, holeIndex)
  BY <1>1, ParentAbove DEF TypeOK, InHand
<1>3. holeIndex < currSize
  BY <1>1, <1>2 DEF InHand, OrderedLast
<1>4. pHeap[up] \in Timers /\ timerMinHeapIndex[pHeap[up]] = up /\ pTimerEvent \in Timers
  BY <1>1, <1>2, <1>3, PlaceOccupied DEF InHand
<1>5. pTimerEvent # pHeap[up]
  BY <1>1, <1>2, <1>3, <1>4 DEF InHand
<1>6. TypeOK'
  BY <1>1, <1>2, <1>3, <1>4 DEF TypeOK
<1>7. InHand'
  BY <1>1, <1>2, <1>3, <1>4, <1>5 DEF TypeOK, InHand
<1>8. PlacesKnown'
  BY <1>1, <1>2, <1>3, <1>4 DEF TypeOK, PlacesKnown
<1>9. TimersThere'
  BY <1>1, <1>2, <1>3, <1>4 DEF TypeOK, TimersThere
<1>10. \A c \in 0 .. LastPlace :
         IsChild(up, c) /\ c # holeIndex => ~ Later(pHeap[up], pHeap[c])
  BY <1>1, <1>2, <1>3 DEF OrderedElsewhere
<1>11. OrderedElsewhere'
  <2> SUFFICES ASSUME NEW p \in 0 .. LastPlace, NEW c \in 0 .. LastPlace,
                      IsChild(p, c), p # up, c # up
               PROVE  ~ (tvTimeout'[pHeap'[p]] > tvTimeout'[pHeap'[c]])
    BY <1>1 DEF OrderedElsewhere, Later
  <2>1. CASE p = holeIndex
    <3>1. ~ Later(pHeap[up], pHeap[c]) /\ c # holeIndex
      BY <2>1, <1>1, <1>2, <1>3 DEF OrderedAcross, IsChild
    <3> QED
      BY <3>1, <2>1, <1>1, <1>2 DEF TypeOK, Later
  <2>2. c # holeIndex
    BY <1>2, OneParent
  <2>3. CASE p # holeIndex
    BY <2>2, <2>3, <1>1, <1>2 DEF TypeOK, OrderedElsewhere, Later
  <2> QED
    BY <2>1, <2>3
<1>12. OrderedAcross'
  <2> SUFFICES ASSUME NEW p \in 0 .. LastPlace, NEW c \in 0 .. LastPlace,
                      IsChild(p, up), IsChild(up, c)
               PROVE  ~ (tvTimeout'[pHeap'[p]] > tvTimeout'[pHeap'[c]])
    BY <1>1 DEF OrderedAcross, Later
  <2>1. p < up /\ p # holeIndex /\ up \in 0 .. LastPlace
    BY <1>1, <1>2, <1>3 DEF IsChild
  <2>2. ~ Later(pHeap[p], pHeap[up])
    BY <2>1, <1>1, <1>2 DEF OrderedElsewhere
  <2>3. pHeap[p] \in Timers
    BY <2>1, <1>1, PlaceOccupied
  <2>4. CASE c = holeIndex
    BY <2>1, <2>2, <2>4, <1>1, <1>2 DEF TypeOK, Later
  <2>5. CASE c # holeIndex
    <3>1. ~ Later(pHeap[up], pHeap[c]) /\ pHeap[c] \in Timers
      BY <2>5, <1>1, <1>10, PlaceOccupied
    <3>2. ~ Later(pHeap[p], pHeap[c])
      BY <3>1, <2>2, <2>3, <1>4, NotLaterTransitive
    <3> QED
      BY <3>2, <2>1, <2>5, <1>1, <1>2 DEF TypeOK, Later
  <2> QED
    BY <2>4, <2>5
<1>13. OrderedBelow'
  <2> SUFFICES ASSUME NEW c \in 0 .. currSize - 1, IsChild(up, c)
               PROVE  ~ (tvTimeout'[pTimerEvent] > tvTimeout'[pHeap'[c]])
    BY <1>1 DEF OrderedBelow, Later
  <2>1. CASE c = holeIndex
    <3>1. ~ Later(pTimerEvent, pHeap[up])
      BY <1>1, <1>4, NotLaterTransitive
    <3> QED
      BY <3>1, <2>1, <1>1, <1>2 DEF TypeOK, Later
  <2>2. CASE c # holeIndex
    <3>1. ~ Later(pHeap[up], pHeap[c]) /\ pHeap[c] \in Timers
      BY <2>2, <1>1, <1>2, <1>10, PlaceOccupied
    <3>2. ~ Later(pTimerEvent, pHeap[c])
      BY <3>1, <1>1, <1>4, NotLaterTransitive
    <3> QED
      BY <3>2, <2>2, <1>1, <1>2 DEF TypeOK, Later
  <2> QED
    BY <2>1, <2>2
<1>14. OrderedLast'
  BY <1>1, <1>2, <1>3 DEF OrderedLast
<1> QED
  BY <1>6, <1>7, <1>8, <1>9, <1>11, <1>12, <1>13, <1>14

\* The timer in hand is put into the hole of an insertion.
LEMMA PlaceInsertedInv ==
  ASSUME HeapInv, PlaceInserted
  PROVE  HeapInv'
<1> USE HeapAssumption DEF HeapInv, Indexes, INVALID, Removing, Filled, LastPlace
<1>1. /\ pc = "insert" /\ pc' = "idle" /\ ~ MustRise
      /\ pHeap' = [pHeap EXCEPT ![holeIndex] = pTimerEvent]
      /\ timerMinHeapIndex' = [timerMinHeapIndex EXCEPT ![pTimerEvent] = holeIndex]
      /\ UNCHANGED <<currSize, tvTimeout, holeIndex, pTimerEvent, first>>
  BY DEF PlaceInserted, Placed
<1>2. /\ holeIndex \in 0 .. currSize - 1 /\ currSize \in Indexes
      /\ pTimerEvent \in Timers /\ timerMinHeapIndex[pTimerEvent] = INVALID
  BY <1>1 DEF TypeOK, InHand
<1>3. TypeOK'
  BY <1>1, <1>2 DEF TypeOK
<1>4. InHand' /\ OrderedAcross' /\ OrderedBelow' /\ OrderedLast'
  BY <1>1 DEF InHand, OrderedAcross, OrderedBelow, OrderedLast
<1>5. PlacesKnown'
  BY <1>1, <1>2 DEF TypeOK, PlacesKnown
<1>6. TimersThere'
  BY <1>1, <1>2 DEF TypeOK, TimersThere
<1>7. OrderedElsewhere'
  <2> SUFFICES ASSUME NEW p \in 0 .. currSize - 1, NEW c \in 0 .. currSize - 1,
                      IsChild(p, c)
               PROVE  ~ (tvTimeout'[pHeap'[p]] > tvTimeout'[pHeap'[c]])
    BY <1>1 DEF OrderedElsewhere, Later
  <2>1. CASE p = holeIndex
    <3>1. ~ Later(pTimerEvent, pHeap[c]) /\ c # holeIndex
      BY <2>1, <1>1 DEF OrderedBelow, IsChild
    <3> QED
      BY <3>1, <2>1, <1>1, <1>2 DEF TypeOK, Later
  <2>2. CASE c = holeIndex
    <3>1. holeIndex > 0 /\ p = Parent(holeIndex) /\ p # holeIndex
      BY <2>2, <1>2, ParentAbove, OneParent
    <3>2. ~ Later(pHeap[p], pTimerEvent)
      BY <3>1, <1>1 DEF MustRise
    <3> QED
      BY <3>1, <3>2, <2>2, <1>1, <1>2 DEF TypeOK, Later
  <2>3. CASE p # holeIndex /\ c # holeIndex
    BY <2>3, <1>1, <1>2 DEF TypeOK, OrderedElsewhere, Later
  <2> QED
    BY <2>1, <2>2, <2>3
<1> QED
  BY <1>3, <1>4, <1>5, <1>6, <1>7

\* The timer in hand is put into the hole of a removal, unless the hole has
\* left the heap.
LEMMA PlaceRemainingInv ==
  ASSUME HeapInv, PlaceRemaining
  PROVE  HeapInv'
<1> USE HeapAssumption DEF HeapInv, Indexes, INVALID, Removing, Filled, LastPlace
<1>1. /\ pc = "remove" /\ pc' = "idle" /\ ~ MustRise
      /\ UNCHANGED <<currSize, tvTimeout, holeIndex, pTimerEvent, first>>
  BY DEF PlaceRemaining
<1>2. /\ currSize \in Indexes /\ holeIndex \in 0 .. currSize
      /\ pTimerEvent \in Timers
      /\ holeIndex < currSize => timerMinHeapIndex[pTimerEvent] = currSize
  BY <1>1 DEF TypeOK, InHand
<1>3. InHand' /\ OrderedAcross' /\ OrderedBelow' /\ OrderedLast'
  BY <1>1 DEF InHand, OrderedAcross, OrderedBelow, OrderedLast
<1>4. CASE holeIndex < currSize
  <2>1. /\ pHeap' = [pHeap EXCEPT ![holeIndex] = pTimerEvent, ![currSize] = NULL]
        /\ timerMinHeapIndex' = [timerMinHeapIndex EXCEPT ![pTimerEvent] = holeIndex]
    BY <1>4 DEF PlaceRemaining, Placed
  <2>2. /\ pHeap'[holeIndex] = pTimerEvent
        /\ \A i \in 0 .. currSize - 1 : i # holeIndex => pHeap'[i] = pHeap[i]
    BY <2>1, <1>2, <1>4 DEF TypeOK
  <2>3. TypeOK'
    BY <2>1, <1>1, <1>2, <1>4 DEF TypeOK
  <2>4. PlacesKnown'
    BY <2>1, <2>2, <1>1, <1>2, <1>4 DEF TypeOK, PlacesKnown
  <2>5. TimersThere'
    BY <2>1, <2>2, <1>1, <1>2, <1>4 DEF TypeOK, TimersThere
  <2>6. OrderedElsewhere'
    <3> SUFFICES ASSUME NEW p \in 0 .. currSize - 1, NEW c \in 0 .. currSize - 1,
                        IsChild(p, c)
                 PROVE  ~ (tvTimeout'[pHeap'[p]] > tvTimeout'[pHeap'[c]])
      BY <1>1 DEF OrderedElsewhere, Later
    <3>1. CASE p = holeIndex
      <4>1. ~ Later(pTimerEvent, pHeap[c]) /\ c # holeIndex
        BY <3>1, <1>1 DEF OrderedBelow, IsChild
      <4> QED
        BY <4>1, <3>1, <2>2, <1>1 DEF Later
    <3>2. CASE c = holeIndex
      <4>1. holeIndex > 0 /\ p = Parent(holeIndex) /\ p # holeIndex
        BY <3>2, <1>2, ParentAbove, OneParent
      <4>2. ~ Later(pHeap[p], pTimerEvent)
        BY <4>1, <1>1 DEF MustRise
      <4> QED
        BY <4>1, <4>2, <3>2, <2>2, <1>1 DEF Later
    <3>3. CASE p # holeIndex /\ c # holeIndex
      <4>1. ~ Later(pHeap[p], pHeap[c])
        BY <3>3, <1>1, <1>2 DEF OrderedElsewhere
      <4> QED
        BY <4>1, <3>3, <2>2, <1>1 DEF Later
    <3> QED
      BY <3>1, <3>2, <3>3
  <2> QED
    BY <1>3, <2>3, <2>4, <2>5, <2>6
<1>5. CASE holeIndex = currSize
  <2>1. pHeap' = [pHeap EXCEPT ![currSize] = NULL] /\ UNCHANGED timerMinHeapIndex
    BY <1>5, <1>2 DEF PlaceRemaining
  <2>2. \A i \in 0 .. currSize - 1 : pHeap'[i] = pHeap[i]
    BY <2>1, <1>2 DEF TypeOK
  <2>3. TypeOK'
    BY <2>1, <1>1, <1>2 DEF TypeOK
  <2>4. PlacesKnown'
    BY <2>1, <2>2, <1>1, <1>2, <1>5 DEF PlacesKnown
  <2>5. TimersThere'
    BY <2>1, <2>2, <1>1, <1>2, <1>5 DEF TypeOK, TimersThere
  <2>6. OrderedElsewhere'
    BY <2>2, <1>1, <1>2, <1>5 DEF OrderedElsewhere, Later
  <2> QED
    BY <1>3, <2>3, <2>4, <2>5, <2>6
<1> QED
  BY <1>2, <1>4, <1>5

\* Looking at the top changes nothing of the heap.
LEMMA PeekInv ==
  ASSUME HeapInv, Peek
  PROVE  HeapInv'
<1> USE HeapAssumption DEF HeapInv, Peek, timers, Indexes
<1>1. TypeOK'
  BY DEF TypeOK
<1>2. InHand' /\ PlacesKnown' /\ TimersThere'
  BY DEF InHand, PlacesKnown, TimersThere, Removing, Filled
<1>3. OrderedElsewhere' /\ OrderedAcross' /\ OrderedBelow' /\ OrderedLast'
  BY DEF OrderedElsewhere, OrderedAcross, OrderedBelow, OrderedLast, Removing,
         LastPlace, Filled, Later
<1> QED
  BY <1>1, <1>2, <1>3

\* Every step keeps the invariant.
LEMMA StepInv == HeapInv /\ [Next]_vars => HeapInv'
<1> SUFFICES ASSUME HeapInv, [Next]_vars PROVE HeapInv'
  OBVIOUS
<1>1. CASE Next
  BY <1>1, InsertInv, RemoveInv, SinkInv, StopSinkingInv, RiseInv, PlaceInsertedInv,
     PlaceRemainingInv, PeekInv DEF Next
<1>2. CASE UNCHANGED vars
  <2> USE <1>2 DEF vars, timers
  <2>1. TypeOK'
    BY DEF HeapInv, TypeOK
  <2>2. InHand' /\ PlacesKnown' /\ TimersThere'
    BY DEF HeapInv, InHand, PlacesKnown, TimersThere, Removing, Filled
  <2>3. OrderedElsewhere' /\ OrderedAcross' /\ OrderedBelow' /\ OrderedLast'
    BY DEF HeapInv, OrderedElsewhere, OrderedAcross, OrderedBelow, OrderedLast,
           Removing, LastPlace, Filled, Later
  <2> QED
    BY <2>1, <2>2, <2>3 DEF HeapInv
<1> QED
  BY <1>1, <1>2

-----------------------------------------------------------------------------
\* The heap is a heap except at the hole, throughout.
THEOREM HeapExceptAtHole == Spec => []HeapInv
  BY InitInv, StepInv, PTL DEF Spec

\* The heap and the places of the timers stay well-typed.
THEOREM TypeCorrect == Spec => []TypeOK
<1>1. HeapInv => TypeOK
  BY DEF HeapInv
<1> QED
  BY <1>1, HeapExceptAtHole, PTL

\* Between two operations no timer is due before its parent, for every number of
\* timers and every history of insertions and removals (NwGtpv2c.c:138-214).
THEOREM HeapOrdered == Spec => []HeapOrder
<1>1. HeapInv => HeapOrder
  BY DEF HeapInv, HeapOrder, OrderedElsewhere, LastPlace, Removing, Filled
<1> QED
  BY <1>1, HeapExceptAtHole, PTL

\* Between two operations a timer is exactly where it believes to be, so that
\* stopping it never stops another one (NwGtpv2c.c:1781).
THEOREM PlacesAgree == Spec => []IndexesAgree
<1>1. HeapInv => IndexesAgree
  BY HeapAssumption DEF HeapInv, IndexesAgree, PlacesKnown, TimersThere, Removing, Filled
<1> QED
  BY <1>1, HeapExceptAtHole, PTL

-----------------------------------------------------------------------------
\* The timer at the top is due as early as any other: of the places that an
\* earlier timer holds there would be a first, and its parent is not one of them.
LEMMA TopEarliest ==
  ASSUME HeapInv, pc = "idle"
  PROVE  \A i \in 0 .. currSize - 1 : ~ Later(pHeap[0], pHeap[i])
<1> DEFINE T == {i \in 0 .. currSize - 1 : Later(pHeap[0], pHeap[i])}
<1> SUFFICES ASSUME T # {} PROVE FALSE
  OBVIOUS
<1>1. currSize \in Nat /\ T \subseteq Nat
  BY DEF HeapInv, TypeOK, Indexes
<1>2. PICK m \in T : \A n \in T : ~ (<<n, m>> \in OpToRel(<, Nat))
  BY <1>1, WFMin, NatLessThanWellFounded
<1>3. \A n \in T : ~ (n < m)
  BY <1>1, <1>2 DEF OpToRel
<1>4. \A i \in 0 .. currSize - 1 : pHeap[i] \in Timers
  BY DEF HeapInv, PlacesKnown, Filled
<1>5. m \in 0 .. currSize - 1 /\ 0 \in 0 .. currSize - 1 /\ Later(pHeap[0], pHeap[m])
  BY <1>1
<1>6. m # 0
  BY <1>4, <1>5, NotLaterTransitive DEF HeapInv
<1> DEFINE p == Parent(m)
<1>7. p \in 0 .. currSize - 1 /\ p < m /\ IsChild(p, m)
  BY <1>1, <1>5, <1>6, ParentAbove
<1>8. ~ Later(pHeap[0], pHeap[p])
  BY <1>3, <1>7
<1>9. ~ Later(pHeap[p], pHeap[m])
  BY <1>5, <1>7 DEF HeapInv, OrderedElsewhere, LastPlace, Removing, Filled
<1> QED
  BY <1>4, <1>5, <1>7, <1>8, <1>9, NotLaterTransitive DEF HeapInv

\* What the heap does between two places is invisible: the timers that have a
\* place, or are on their way to one, stay the same.
LEMMA PendingKept ==
  ASSUME HeapInv, Rise \/ PlaceInserted \/ Sink \/ StopSinking \/ PlaceRemaining
  PROVE  UNCHANGED Queue!vars
<1> USE HeapAssumption DEF HeapInv, Indexes, INVALID
<1>1. UNCHANGED <<tvTimeout, first>>
  BY DEF Rise, PlaceInserted, Sink, StopSinking, PlaceRemaining, MoveHole, timers
<1> SUFFICES Pending' = Pending
  BY <1>1 DEF Queue!vars
<1>2. ASSUME NEW i \in 0 .. LastPlace, i # holeIndex, pc # "idle", MoveHole(i), UNCHANGED pc
      PROVE  Pending' = Pending
  <2>1. i \in Indexes /\ pHeap[i] \in Timers /\ timerMinHeapIndex[pHeap[i]] = i
    BY <1>2, PlaceOccupied
  <2>2. /\ timerMinHeapIndex' = [timerMinHeapIndex EXCEPT ![pHeap[i]] = holeIndex]
        /\ UNCHANGED pTimerEvent
    BY <1>2 DEF MoveHole, Placed
  <2> QED
    BY <1>2, <2>1, <2>2 DEF TypeOK, Pending
<1>3. CASE Rise
  <2> DEFINE up == Parent(holeIndex)
  <2>1. holeIndex \in Nat \ {0} /\ holeIndex <= currSize
    BY <1>3 DEF Rise, MustRise, TypeOK, InHand, Removing
  <2>2. up \in Nat /\ up < holeIndex /\ IsChild(up, holeIndex)
    BY <2>1, ParentAbove
  <2>3. up \in 0 .. LastPlace
    BY <1>3, <2>1, <2>2 DEF Rise, TypeOK, InHand, LastPlace, Removing
  <2> QED
    BY <1>2, <1>3, <2>2, <2>3 DEF Rise
<1>4. CASE Sink
  <2>1. /\ EarlierChild \in {MinChild, MaxChild} /\ MaxChild <= currSize
        /\ MoveHole(EarlierChild) /\ pc = "down" /\ UNCHANGED pc
    BY <1>4 DEF Sink, MustSink, HasChildren, EarlierChild
  <2>2. EarlierChild \in 0 .. LastPlace /\ EarlierChild # holeIndex
    BY <2>1 DEF TypeOK, MinChild, MaxChild, LastPlace, Removing
  <2> QED
    BY <1>2, <2>1, <2>2
<1>5. CASE PlaceInserted
  BY <1>5 DEF PlaceInserted, Placed, Pending, TypeOK, InHand
<1>6. CASE StopSinking
  BY <1>6 DEF StopSinking, Pending, timers
<1>7. CASE PlaceRemaining
  BY <1>7 DEF PlaceRemaining, Placed, Pending, TypeOK, InHand, Removing
<1> QED
  BY <1>3, <1>4, <1>5, <1>6, <1>7

\* A step of the heap is a step of the queue, or none.
LEMMA StepRefines ==
  ASSUME HeapInv, [Next]_vars
  PROVE  [Queue!Next]_(Queue!vars)
<1> USE HeapAssumption DEF HeapInv, INVALID
<1>1. ASSUME NEW t \in Timers, NEW time \in Times, Insert(t, time)
      PROVE  Queue!Add(t, time)
  BY <1>1 DEF Insert, Pending, Queue!Add
<1>2. ASSUME NEW t \in Timers, Remove(t)
      PROVE  Queue!TakeOut(t)
  <2>1. pHeap[timerMinHeapIndex[t]] = t
    BY <1>2 DEF Remove, TypeOK, Indexes, TimersThere, Removing
  <2>2. timerMinHeapIndex' = [timerMinHeapIndex EXCEPT ![t] = INVALID]
    BY <1>2, <2>1 DEF Remove
  <2>3. Pending' = Pending \ {t}
    BY <1>2, <2>2 DEF Remove, TypeOK, Pending
  <2> QED
    BY <1>2, <2>3 DEF Remove, Queue!TakeOut
<1>3. ASSUME Peek
      PROVE  Queue!Look
  <2>1. Pending' = Pending /\ UNCHANGED tvTimeout
    BY <1>3 DEF Peek, Pending, timers
  <2>2. Pending = {t \in Timers : timerMinHeapIndex[t] # INVALID}
    BY <1>3 DEF Peek, Pending
  <2>3. \A t \in Pending : /\ timerMinHeapIndex[t] \in 0 .. currSize - 1
                           /\ pHeap[timerMinHeapIndex[t]] = t
    BY <1>3, <2>2 DEF Peek, TypeOK, Indexes, TimersThere, Removing
  <2>4. CASE currSize = 0
    BY <1>3, <2>1, <2>3, <2>4 DEF Peek, Queue!Look
  <2>5. CASE currSize # 0
    <3>1. 0 \in 0 .. currSize - 1
      BY <2>5 DEF TypeOK, Indexes
    <3>2. first' = pHeap[0] /\ pHeap[0] \in Timers /\ timerMinHeapIndex[pHeap[0]] = 0
      BY <1>3, <2>5, <3>1 DEF Peek, PlacesKnown, Filled
    <3>3. \A u \in Pending : ~ Later(pHeap[0], u)
      BY <1>3, <2>3, TopEarliest DEF Peek
    <3>4. ASSUME NEW u \in Pending
          PROVE  tvTimeout[pHeap[0]] <= tvTimeout[u]
      <4>1. tvTimeout[pHeap[0]] \in Nat /\ tvTimeout[u] \in Nat
        BY <2>2, <3>2 DEF TypeOK
      <4> QED
        BY <3>3, <4>1 DEF Later
    <3>5. pHeap[0] \in Pending
      BY <2>2, <3>2
    <3> QED
      BY <2>1, <3>2, <3>4, <3>5 DEF Queue!Look, Queue!Earliest
  <2> QED
    BY <2>4, <2>5
<1>4. CASE UNCHANGED vars
  BY <1>4 DEF vars, timers, Pending, Queue!vars
<1> QED
  BY <1>1, <1>2, <1>3, <1>4, PendingKept DEF Next, Queue!Next

\* The heap is a queue of timers, for any number of them: what is put in or
\* taken out is the timer that was asked for, and a look finds one that no other
\* precedes (NwGtpv2c.c:133-225).
THEOREM ImplementsQueue == Spec => QueueSpec
<1>1. Init => Queue!Init
  BY DEF Init, Queue!Init, Pending
<1>2. HeapInv /\ [Next]_vars => [Queue!Next]_(Queue!vars)
  BY StepRefines
<1> QED
  BY <1>1, <1>2, HeapExceptAtHole, PTL DEF Spec, QueueSpec, Queue!Spec
=============================================================================
