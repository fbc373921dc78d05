------------------------------ MODULE TimerHeap ------------------------------
(***************************************************************************)
(* The binary heap of timers, of which the program has two copies: one in  *)
(* the GTPv2-C stack (nwGtpv2cTmrMinHeap..., used under a mutex) and one   *)
(* in the event engine (nwEventTimerMinHeap...).  A timer knows its place  *)
(* in the heap, so that it can be taken out from the middle.               *)
(*                                                                         *)
(* A step is one iteration of a loop: the heap has a hole which travels to *)
(* the place of the timer that is in hand.                                 *)
(***************************************************************************)
EXTENDS Integers

CONSTANTS
  Timers,    \* NwGtpv2cTimeoutInfoT blocks
  MaxSize,   \* maxSize, with which the heap is made
  Times,     \* the times at which timers are due
  NULL

INVALID == -1   \* NW_MIN_HEAP_INDEX_INVALID, 0xFFFFFFFF as an int

Indexes == 0 .. MaxSize - 1

ASSUME HeapAssumption ==
  /\ MaxSize \in Nat \ {0}
  /\ Times \subseteq Nat
  /\ Times # {}
  /\ NULL \notin Timers

VARIABLES
  pHeap, currSize,
  timerMinHeapIndex,   \* per timer: its place, INVALID if it is in no heap
  tvTimeout,           \* per timer: when it is due
  pc, holeIndex, pTimerEvent,
  first                \* what nwGtpv2cTmrMinHeapPeek has returned

timers == <<timerMinHeapIndex, tvTimeout>>
vars   == <<pHeap, currSize, timers, pc, holeIndex, pTimerEvent, first>>

TypeOK ==
  /\ pHeap \in [Indexes -> Timers \cup {NULL}]
  /\ currSize \in Indexes
  /\ timerMinHeapIndex \in [Timers -> Indexes \cup {INVALID}]
  /\ tvTimeout \in [Timers -> Times]
  /\ pc \in {"idle", "insert", "down", "remove"}
  /\ holeIndex \in Indexes
  /\ pTimerEvent \in Timers \cup {NULL}
  /\ first \in Timers \cup {NULL}

\* The heap is allocated but not cleared; no place is read before it is written.
Init ==
  /\ pHeap = [i \in Indexes |-> NULL]
  /\ currSize = 0
  /\ timerMinHeapIndex = [t \in Timers |-> INVALID]
  /\ tvTimeout \in [Timers -> Times]
  /\ pc = "idle"
  /\ holeIndex = 0
  /\ pTimerEvent = NULL
  /\ first = NULL

-----------------------------------------------------------------------------
Parent(i) == (i - 1) \div 2

Later(t, u) == tvTimeout[t] > tvTimeout[u]

FaultyPlaced(t, i) == timerMinHeapIndex   \* the timer is not told its place

\* Timer t is told its place.
Placed(t, i) == [timerMinHeapIndex EXCEPT ![t] = i]

\* A timer moves from place i into the hole, which moves to place i.
MoveHole(i) ==
  /\ pHeap' = [pHeap EXCEPT ![holeIndex] = pHeap[i]]
  /\ timerMinHeapIndex' = Placed(pHeap[i], holeIndex)
  /\ holeIndex' = i
  /\ UNCHANGED <<currSize, tvTimeout, pTimerEvent, first>>

\* The size after the insertion is asserted to be less than maxSize.  (The event
\* engine's copy does not look: its maxSize must never be reached.)
HasRoom == currSize + 1 < MaxSize

\* nwGtpv2cTmrMinHeapInsert, for a timer that is in no heap.
Insert(t, time) ==
  /\ pc = "idle"
  /\ timerMinHeapIndex[t] = INVALID
  /\ HasRoom
  /\ tvTimeout' = [tvTimeout EXCEPT ![t] = time]
  /\ pTimerEvent' = t
  /\ holeIndex' = currSize
  /\ currSize' = currSize + 1
  /\ pc' = "insert"
  /\ UNCHANGED <<pHeap, timerMinHeapIndex, first>>

FaultyMustRise == pc = "insert" /\ holeIndex > 0 /\ Later(pHeap[Parent(holeIndex)], pTimerEvent)
  \* the second loop of the removal is left out

MustRise == holeIndex > 0 /\ Later(pHeap[Parent(holeIndex)], pTimerEvent)

Rise ==
  /\ pc \in {"insert", "remove"}
  /\ MustRise
  /\ MoveHole(Parent(holeIndex))
  /\ UNCHANGED pc

PlaceInserted ==
  /\ pc = "insert"
  /\ ~ MustRise
  /\ pHeap' = [pHeap EXCEPT ![holeIndex] = pTimerEvent]
  /\ timerMinHeapIndex' = Placed(pTimerEvent, holeIndex)
  /\ pc' = "idle"
  /\ UNCHANGED <<currSize, tvTimeout, holeIndex, pTimerEvent, first>>

\* nwGtpv2cTmrMinHeapRemove, by the place that the timer knows.  A timer that
\* is in no heap has no valid place, and nothing is done.
Remove(t) ==
  /\ pc = "idle"
  /\ timerMinHeapIndex[t] \in 0 .. currSize - 1
  /\ timerMinHeapIndex' = [timerMinHeapIndex EXCEPT
                             ![pHeap[timerMinHeapIndex[t]]] = INVALID]
  /\ pTimerEvent' = pHeap[currSize - 1]
  /\ holeIndex' = timerMinHeapIndex[t]
  /\ currSize' = currSize - 1
  /\ pc' = "down"
  /\ UNCHANGED <<pHeap, tvTimeout, first>>

MinChild == 2 * holeIndex + 1
MaxChild == MinChild + 1

\* The place of the last timer, which is in hand, counts as occupied.
HasChildren == MaxChild <= currSize

FaultyEarlierChild == MinChild   \* always the first child

EarlierChild == IF Later(pHeap[MinChild], pHeap[MaxChild]) THEN MaxChild ELSE MinChild

MustSink == HasChildren /\ ~ Later(pHeap[EarlierChild], pTimerEvent)

Sink ==
  /\ pc = "down"
  /\ MustSink
  /\ MoveHole(EarlierChild)
  /\ UNCHANGED pc

StopSinking ==
  /\ pc = "down"
  /\ ~ MustSink
  /\ pc' = "remove"
  /\ UNCHANGED <<pHeap, currSize, timers, holeIndex, pTimerEvent, first>>

\* If the hole has travelled to the place behind the last one, the timer in hand
\* has been moved on the way, or is the one that was removed.
PlaceRemaining ==
  /\ pc = "remove"
  /\ ~ MustRise
  /\ IF holeIndex < currSize
     THEN /\ pHeap' = [pHeap EXCEPT ![holeIndex] = pTimerEvent, ![currSize] = NULL]
          /\ timerMinHeapIndex' = Placed(pTimerEvent, holeIndex)
     ELSE /\ pHeap' = [pHeap EXCEPT ![currSize] = NULL]
          /\ UNCHANGED timerMinHeapIndex
  /\ pc' = "idle"
  /\ UNCHANGED <<currSize, tvTimeout, holeIndex, pTimerEvent, first>>

\* nwGtpv2cTmrMinHeapPeek
Peek ==
  /\ pc = "idle"
  /\ first' = IF currSize # 0 THEN pHeap[0] ELSE NULL
  /\ UNCHANGED <<pHeap, currSize, timers, pc, holeIndex, pTimerEvent>>

Next ==
  \/ \E t \in Timers : Remove(t) \/ \E time \in Times : Insert(t, time)
  \/ Rise \/ PlaceInserted \/ Sink \/ StopSinking \/ PlaceRemaining \/ Peek

Spec == Init /\ [][Next]_vars

-----------------------------------------------------------------------------
(* Properties *)

IsChild(p, c) == c = 2 * p + 1 \/ c = 2 * p + 2

\* Between two operations no timer is due before its parent: the next one to
\* expire is always at the top, whatever was taken out of the middle
\* (NwGtpv2c.c:160-214; the last place is still compared after currSize-- ).
HeapOrder ==
  pc = "idle" =>
    \A p, c \in 0 .. currSize - 1 :
      IsChild(p, c) => ~ Later(pHeap[p], pHeap[c])

\* Between two operations a timer is in the heap exactly where it believes to
\* be: to stop a timer never stops another one (NwGtpv2c.c:1781).
IndexesAgree ==
  pc = "idle" =>
    /\ \A i \in 0 .. currSize - 1 :
         pHeap[i] # NULL /\ timerMinHeapIndex[pHeap[i]] = i
    /\ \A t \in Timers :
         timerMinHeapIndex[t] # INVALID =>
           timerMinHeapIndex[t] < currSize /\ pHeap[timerMinHeapIndex[t]] = t

Pending ==
  {t \in Timers : timerMinHeapIndex[t] # INVALID \/ (pc = "insert" /\ t = pTimerEvent)}

Queue == INSTANCE TimerQueue WITH
           None     <- NULL,
           NotLater <- <=,
           pending  <- Pending,
           due      <- tvTimeout,
           first    <- first

\* The heap implements a queue of timers: what is put in or taken out is the
\* timer that was asked for, and a look always finds one that no other precedes
\* (NwGtpv2c.c:133-225).
QueueSpec == Queue!Spec
=============================================================================
