---------------------------- MODULE EventEngine ----------------------------
(***************************************************************************)
(* The event engine (NwEvent.c) that runs a program once it has started:   *)
(* one thread that waits in select for descriptors and for the first       *)
(* timer, moves what is due and what is readable to the queue of active    *)
(* events, and calls their callbacks.  Timers are blocks of a pool; the    *)
(* heap of pending timers (module TimerHeap) is here the sequence of its   *)
(* timers in the order of their times, of which the first "due" have come. *)
(*                                                                         *)
(* A callback may start, stop, restart and destroy timers, and add and     *)
(* remove descriptors.  Its owner keeps to this: it does not touch a timer *)
(* that it has destroyed or that has expired once, and does not restart a  *)
(* timer that waits in the active queue (the code forgets to look there).  *)
(* The priorities (there is one queue), the events that wait for writing   *)
(* and nwEventLoopOnce, which nobody uses, are left out.                   *)
(***************************************************************************)
EXTENDS Naturals, FiniteSets, SequencesExt

CONSTANTS
  Fds,        \* the descriptors, distinct from the timers
  MaxTimers   \* the timers that can be allocated (a bound: __MIN_HEAP_SIZE__)

ASSUME EventEngineAssumption ==
  MaxTimers \in Nat /\ Fds \subseteq Nat /\ Fds \cap (0..MaxTimers) = {}

Timers == 1..MaxTimers
NoEvent == 0

VARIABLES
  added,      \* the descriptors in eventReadSet
  readable,   \* the descriptors on which something can be read
  kind,       \* kind[t]: "oneShot" or "repetitive", the flag of timer t
  created,    \* tmrCount: timers 1..created have been allocated
  pool,       \* gpEventPool, the last one given back first
  heap,       \* timerMinHeap, in the order of the times
  due,        \* how many timers of the heap are due
  queue,      \* ppActiveQueues[0]
  phase,      \* where the loop is: "select", "timers", "fds" or "dispatch",
              \* "off" before the loop
  selected,   \* rfds, the descriptors that select has returned
  calling     \* the event whose callback runs, NoEvent if none does

gInstance == <<added, kind, created, pool, heap, due, queue>>
loop == <<phase, selected, calling>>
engineVars == <<gInstance, readable, loop>>

\* The library has not been initialized.
EngineInit ==
  /\ added = {} /\ readable = {} /\ selected = {}
  /\ kind = [t \in Timers |-> "oneShot"]
  /\ created = 0 /\ due = 0
  /\ pool = <<>> /\ heap = <<>> /\ queue = <<>>
  /\ phase = "off"
  /\ calling = NoEvent

---------------------------------------------------------------------------
\* The heap.

Pending == ToSet(heap)
Overdue == ToSet(SubSeq(heap, 1, due))
Queued == ToSet(queue)

\* A timer whose time is now plus something: behind all that are due.
MinHeapInsert(t, h, d) ==
  \E place \in d + 1 .. Len(h) + 1 :
    /\ heap' = InsertAt(h, place, t)
    /\ due' = d

MinHeapRemove(t) ==
  /\ heap' = Remove(heap, t)
  /\ due' = Cardinality(Overdue \ {t})

FaultyRemoveFromActiveQueue(e) == queue

\* nwEventRemoveFromActiveQueue
RemoveFromActiveQueue(e) == Remove(queue, e)

---------------------------------------------------------------------------
\* What a callback may do, and Add what starts the program.

InCallback == calling # NoEvent

Add(f) ==
  /\ f \notin added
  /\ added' = added \cup {f}
  /\ UNCHANGED <<kind, created, pool, heap, due, queue, loop, readable>>

RemoveFd(f) ==
  /\ f \in added
  /\ added' = added \ {f}
  /\ queue' = RemoveFromActiveQueue(f)
  /\ UNCHANGED <<kind, created, pool, heap, due, loop, readable>>

\* The timer that nwEventTimerCreate takes, from the pool if there is one.
NewTimer == IF pool = <<>> THEN created + 1 ELSE Head(pool)

TimerCreate(k) ==
  /\ pool = <<>> => created < MaxTimers
  /\ kind' = [kind EXCEPT ![NewTimer] = k]
  /\ IF pool = <<>>
     THEN created' = created + 1 /\ UNCHANGED pool
     ELSE pool' = Tail(pool) /\ UNCHANGED created

\* nwEventTimerCreateAndStart, for nwTmrMgrStartTimer
TimerCreateAndStart(k) ==
  /\ TimerCreate(k)
  /\ MinHeapInsert(NewTimer, heap, due)
  /\ UNCHANGED <<added, queue, loop, readable>>

Held == (1..created) \ ToSet(pool)

TimerStart(t) ==
  /\ t \in Held \ (Pending \cup Queued)
  /\ MinHeapInsert(t, heap, due)
  /\ UNCHANGED <<added, kind, created, pool, queue, loop, readable>>

TimerStop(t) ==
  /\ t \in Held
  /\ queue' = RemoveFromActiveQueue(t)
  /\ MinHeapRemove(t)
  /\ UNCHANGED <<added, kind, created, pool, loop, readable>>

\* nwEventTimerRestart, and nwEventTimerUpdate with another duration
TimerRestart(t) ==
  /\ t \in Held \ Queued
  /\ MinHeapInsert(t, Remove(heap, t), Cardinality(Overdue \ {t}))
  /\ UNCHANGED <<added, kind, created, pool, queue, loop, readable>>

\* nwEventTimerDestroy, for nwTmrMgrStopTimer
TimerDestroy(t) ==
  /\ t \in Held
  /\ queue' = RemoveFromActiveQueue(t)
  /\ MinHeapRemove(t)
  /\ pool' = <<t>> \o pool
  /\ UNCHANGED <<added, kind, created, loop, readable>>

Use ==
  /\ InCallback
  /\ \/ \E k \in {"oneShot", "repetitive"} : TimerCreateAndStart(k)
     \/ \E t \in Timers : TimerStart(t) \/ TimerStop(t) \/ TimerRestart(t) \/ TimerDestroy(t)
     \/ \E f \in Fds : Add(f) \/ RemoveFd(f)

---------------------------------------------------------------------------
\* nwEventLoop

\* select returns when a descriptor is readable, or nwEventGetNextTimeout has passed.
Select ==
  /\ phase = "select"
  /\ due > 0 \/ added \cap readable # {}
  /\ selected' = added \cap readable
  /\ phase' = "timers"
  /\ UNCHANGED <<gInstance, readable, calling>>

\* nwEvProcessTimeout, one timer of its loop.
ProcessTimeout ==
  /\ phase = "timers"
  /\ IF due > 0
     THEN /\ queue' = Append(queue, Head(heap))
          /\ heap' = Tail(heap)
          /\ due' = due - 1
          /\ UNCHANGED phase
     ELSE /\ phase' = "fds"
          /\ UNCHANGED <<queue, heap, due>>
  /\ UNCHANGED <<added, kind, created, pool, readable, selected, calling>>

FaultyScan(fds) == IF fds = {} THEN {} ELSE fds \ {CHOOSE f \in Fds : \A g \in Fds : g <= f}

\* The descriptors that the loop from 0 to highestFd finds.
Scan(fds) == fds

ScanFds ==
  /\ phase = "fds"
  /\ queue' = queue \o SetToSortSeq(Scan(selected), <)
  /\ phase' = "dispatch"
  /\ UNCHANGED <<added, kind, created, pool, heap, due, readable, selected, calling>>

\* A repetitive timer's next time is its last one plus the duration: it may have come.
Rearm(t) ==
  \E place \in 1 .. Len(heap) + 1 :
    /\ heap' = InsertAt(heap, place, t)
    /\ due' \in {IF place <= due THEN due + 1 ELSE due}
                  \cup (IF place = due + 1 THEN {due + 1} ELSE {})

\* nwEventDispatch takes the first event of the queue and calls it.
Dispatch ==
  /\ phase = "dispatch" /\ calling = NoEvent
  /\ queue # <<>>
  /\ LET e == Head(queue) IN
       /\ calling' = e
       /\ queue' = Tail(queue)
       /\ \/ e \in Fds /\ UNCHANGED <<heap, due, pool>>
          \/ e \in Timers /\ kind[e] = "repetitive" /\ Rearm(e) /\ UNCHANGED pool
          \/ e \in Timers /\ kind[e] = "oneShot" /\ MinHeapRemove(e) /\ pool' = <<e>> \o pool
  /\ UNCHANGED <<added, kind, created, readable, phase, selected>>

\* The callback returns; one of a descriptor may have read all there was.
Return ==
  /\ InCallback
  /\ readable' \in {readable, readable \ {calling}}
  /\ calling' = NoEvent
  /\ UNCHANGED <<gInstance, phase, selected>>

DispatchDone ==
  /\ phase = "dispatch" /\ calling = NoEvent
  /\ queue = <<>>
  /\ phase' = "select"
  /\ UNCHANGED <<gInstance, readable, selected, calling>>

Loop == Select \/ ProcessTimeout \/ ScanFds \/ Dispatch \/ Return \/ DispatchDone

---------------------------------------------------------------------------
\* The environment.

TimePasses ==
  /\ due < Len(heap)
  /\ due' = due + 1
  /\ UNCHANGED <<added, kind, created, pool, heap, queue, readable, loop>>

Arrive(f) ==
  /\ readable' = readable \cup {f}
  /\ UNCHANGED <<gInstance, loop>>

EngineNext == Loop \/ Use \/ TimePasses \/ \E f \in Fds : Arrive(f)

---------------------------------------------------------------------------
\* A timer is in one place: pending, active, given back, or kept by its
\* owner; and what waits to be called has an owner, so that no callback is
\* called for a timer that was stopped or destroyed, or for a descriptor that
\* was removed, while it waited (NwEvent.c:393-407, 672, 784, 836).
EventsHaveOwners ==
  /\ IsInjective(heap) /\ IsInjective(queue) /\ IsInjective(pool)
  /\ Pending \cap Queued = {}
  /\ ToSet(pool) \cap (Pending \cup Queued) = {}
  /\ Pending \subseteq Held
  /\ Queued \subseteq Held \cup added

Waiting(e) == e \in Overdue \cup Queued \cup (added \cap readable)

\* A timer that is due and a descriptor that is readable are called, or given
\* up by their owners, whatever else is due (NwEvent.c:879-956).
EveryEventServed == \A e \in Timers \cup Fds : Waiting(e) ~> calling = e \/ ~Waiting(e)
=============================================================================
