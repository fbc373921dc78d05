---------------------------- MODULE Gtpv2cTimer -----------------------------
(***************************************************************************)
(* The timers of the GTPv2-C stack (NwGtpv2c.c, from nwGtpv2cProcessTimeout*)
(* on) and the event engine that runs them (NwEvent.c, NwTmrMgr.c).        *)
(*                                                                         *)
(* The stack keeps its timers in a heap and has the event engine time only *)
(* one of them, the active timer.  When that one expires, the event loop   *)
(* calls back every timer that is due and arms an event for the next.  A   *)
(* callback may start a timer: a request is sent again.                    *)
(*                                                                         *)
(* Timers are started and stopped by the event loop and by worker threads. *)
(* The heap and the pool of timer blocks are used under a mutex each; the  *)
(* active timer and the event engine have none, so that each use of one of *)
(* these four is a step.  Both heaps are sets here: module TimerHeap shows *)
(* that they are queues of timers.  Two threads inside the event engine at *)
(* a time are not modelled.                                                *)
(*                                                                         *)
(* Times are relative to now.  A call takes no time.                       *)
(***************************************************************************)
EXTENDS Integers, Sequences, FiniteSets

CONSTANTS
  Workers,   \* threads besides the event loop
  Trxns,     \* transactions, each with at most one timer
  Blocks,    \* NwGtpv2cTimeoutInfoT; bound: one more than transactions
  Events,    \* NwEventT for timers; bound: as many as blocks
  T3,        \* time to wait for a response
  Hold,      \* time for which an answered request is kept
  None

\* What a timer block, and an event of the engine, hold.
TimeoutInfo == [trxn : Trxns, due : Int, back : BOOLEAN, event : Events \cup {None}]
Event == [block : Blocks, due : Int]

ASSUME TimerAssumption ==
  /\ T3 \in Nat \ {0} /\ Hold \in Nat
  /\ IsFiniteSet(Blocks)
  /\ None \notin TimeoutInfo \cup Event \cup Blocks \cup Events \cup Int

Loop == "loop"

Threads == Workers \cup {Loop}

VARIABLES
  pool,      \* gpGtpv2cTimeoutInfoPool, used last first
  info,      \* what each block holds: its transaction, when it is due, its event
  heap,      \* hTmrMinHeap: the blocks of pending timers
  active,    \* activeTimerInfo
  free,      \* gpEventPool, used last first
  event,     \* what each event holds: its block, when it is due
  armed,     \* the events in the heap of the event engine
  queue,     \* the active queue: events that wait to be dispatched
  thread,    \* what each thread does: the step it is at, and its block
  hRspTmr,   \* per transaction: its timer
  wanted,    \* history: when the timer of each transaction shall expire
  early,     \* history: a timer has been called back before it was due
  broken     \* an event has been destroyed twice

blocks == <<pool, info>>
engine == <<free, event, armed, queue, broken>>
trxns  == <<hRspTmr, wanted, early>>
vars   == <<blocks, heap, active, engine, thread, trxns>>

Resting == [at |-> "idle", block |-> None]

Init ==
  /\ pool = <<>>
  /\ info = [b \in Blocks |-> None]
  /\ heap = {}
  /\ active = None
  /\ free = <<>>
  /\ event = [e \in Events |-> None]
  /\ armed = {}
  /\ queue = <<>>
  /\ thread = [t \in Threads |-> Resting]
  /\ hRspTmr = [x \in Trxns |-> None]
  /\ wanted = [x \in Trxns |-> None]
  /\ early = FALSE
  /\ broken = FALSE

At(t, at) == ~ broken /\ thread[t].at = at

Goto(t, at) == thread' = [thread EXCEPT ![t].at = at]

\* A start of a timer ends in the call it was made from: that of the event loop
\* goes on with the timers that are due.
Return(t, calledBack) ==
  thread' = [thread EXCEPT ![t] = [at |-> IF calledBack THEN "peek" ELSE "idle",
                                   block |-> None]]

Expired(b) == info[b].due <= 0

\* A block that the heap may yield at a peek.
Firsts == {b \in heap : \A c \in heap : info[b].due <= info[c].due}

-----------------------------------------------------------------------------
(* The event engine: nwTmrMgrStartTimer, nwTmrMgrStopTimer.                   *)

\* The event that nwEventTimerCreate uses.
NewEvents ==
  IF free # <<>> THEN {Head(free)}
  ELSE LET fresh == {e \in Events : event[e] = None}
       IN IF fresh = {} THEN {} ELSE {CHOOSE e \in fresh : TRUE}

\* nwEventTimerCreateAndStart, for block b: the handle of the event is stored in
\* the block.
StartEvent(b, due) ==
  \E e \in NewEvents :
    /\ free' = IF free # <<>> THEN Tail(free) ELSE free
    /\ event' = [event EXCEPT ![e] = [block |-> b, due |-> due]]
    /\ armed' = armed \cup {e}
    /\ info' = [info EXCEPT ![b].event = e]
    /\ UNCHANGED <<queue, broken>>

\* nwEventRemoveFromActiveQueue: the first place where e is found.
Without(s, e) ==
  LET places == {i \in 1 .. Len(s) : s[i] = e}
      i == CHOOSE j \in places : \A k \in places : j <= k
  IN IF places = {} THEN s ELSE SubSeq(s, 1, i - 1) \o SubSeq(s, i + 1, Len(s))

\* nwEventTimerDestroy, of an event that may be armed or may wait for dispatch.
FaultyDestroyed(e) == armed' = armed \ {e} /\ UNCHANGED queue   \* may still be dispatched

Destroyed(e) == armed' = armed \ {e} /\ queue' = Without(queue, e)

StopEvent(e) ==
  /\ Destroyed(e)
  /\ free' = <<e>> \o free
  /\ broken' = \E i \in 1 .. Len(free) : free[i] = e
  /\ UNCHANGED event

-----------------------------------------------------------------------------
(* nwGtpv2cStartTimer                                                         *)

\* A block from the pool, or a new one.
NewBlocks ==
  IF pool # <<>> THEN {Head(pool)}
  ELSE LET fresh == {b \in Blocks : info[b] = None}
       IN IF fresh = {} THEN {} ELSE {CHOOSE b \in fresh : TRUE}

\* A block is filled for a timer of transaction x; its old event handle stays.
Allocate(t, x, time, at) ==
  \E b \in NewBlocks :
    /\ pool' = IF pool # <<>> THEN Tail(pool) ELSE pool
    /\ info' = [info EXCEPT ![b] = [trxn |-> x, due |-> time, back |-> at = "call",
                                    event |-> IF @ = None THEN None ELSE @.event]]
    /\ thread' = [thread EXCEPT ![t] = [at |-> "insert", block |-> b]]
    /\ wanted' = [wanted EXCEPT ![x] = time]

\* A request is sent, or a response to one: nwGtpv2cTrxnStartPeerRspWaitTimer,
\* nwGtpv2cTrxnStartDulpicateRequestWaitTimer.
StartTimer(t) ==
  /\ At(t, "idle")
  /\ \E x \in Trxns, time \in {T3, Hold} :
       /\ wanted[x] = None /\ hRspTmr[x] = None
       /\ Allocate(t, x, time, "idle")
  /\ UNCHANGED <<heap, active, engine, hRspTmr, early>>

InsertTimer(t) ==
  /\ At(t, "insert")
  /\ heap' = heap \cup {thread[t].block}
  /\ Goto(t, "look")
  /\ UNCHANGED <<blocks, active, engine, trxns>>

\* *phTimer = timeoutInfo, when the start returns.
Started(t) ==
  LET b == thread[t].block IN
    /\ hRspTmr' = [hRspTmr EXCEPT ![info[b].trxn] = b]
    /\ Return(t, info[b].back)
    /\ UNCHANGED <<wanted, early>>

FaultyEarlierThanActive(b) == FALSE   \* an earlier timer does not replace the active one

EarlierThanActive(b) == info[active].due > info[b].due

LookAtActive(t) ==
  /\ At(t, "look")
  /\ \/ active = None /\ Goto(t, "arm") /\ UNCHANGED trxns
     \/ /\ active # None
        /\ \/ EarlierThanActive(thread[t].block) /\ Goto(t, "stop") /\ UNCHANGED trxns
           \/ ~ EarlierThanActive(thread[t].block) /\ Started(t)
  /\ UNCHANGED <<blocks, heap, active, engine>>

\* The active timer is read again.  It may be gone.
StopActive(t) ==
  /\ At(t, "stop")
  /\ IF active = None \/ info[active].event = None
     THEN broken' = TRUE /\ UNCHANGED <<free, event, armed, queue>>
     ELSE StopEvent(info[active].event)
  /\ Goto(t, "arm")
  /\ UNCHANGED <<blocks, heap, active, trxns>>

Arm(t) ==
  /\ At(t, "arm")
  /\ StartEvent(thread[t].block, info[thread[t].block].due)
  /\ Goto(t, "set")
  /\ UNCHANGED <<pool, heap, active, trxns>>

SetActive(t) ==
  /\ At(t, "set")
  /\ active' = thread[t].block
  /\ Started(t)
  /\ UNCHANGED <<blocks, heap, engine>>

-----------------------------------------------------------------------------
(* nwGtpv2cProcessTimeout, called by the event loop, or by nwGtpv2cStopTimer.  *)

\* select returns: nwEvProcessTimeout moves what is due to the active queue.
MoveExpired ==
  /\ At(Loop, "idle")
  /\ \E e \in armed :
       /\ event[e].due <= 0
       /\ \A f \in armed : event[e].due <= event[f].due
       /\ armed' = armed \ {e}
       /\ queue' = Append(queue, e)
  /\ UNCHANGED <<blocks, heap, active, free, event, broken, thread, trxns>>

\* nwEventDispatch: the event is given back, then its callback is called.
Dispatch ==
  /\ At(Loop, "idle") /\ queue # <<>>
  /\ StopEvent(Head(queue))
  /\ thread' = [thread EXCEPT ![Loop] = [at |-> "timeout", block |-> event[Head(queue)].block]]
  /\ UNCHANGED <<blocks, heap, active, trxns>>

\* A timer that is not the active one is ignored.
ProcessTimeout(t) ==
  /\ At(t, "timeout")
  /\ IF active = thread[t].block
     THEN active' = None /\ Goto(t, "remove")
     ELSE UNCHANGED active /\ Return(t, FALSE)
  /\ UNCHANGED <<blocks, heap, engine, trxns>>

\* The heap is left by its first timer, whichever was asked for.
FaultyTakenOut(b) ==
  IF Firsts = {} THEN heap ELSE heap \ {CHOOSE c \in Firsts : TRUE}

TakenOut(b) == heap \ {b}

RemoveTimer(t) ==
  /\ At(t, "remove")
  /\ heap' = TakenOut(thread[t].block)
  /\ Goto(t, "give")
  /\ UNCHANGED <<blocks, active, engine, trxns>>

\* The block is in the pool before its callback is read (NwGtpv2c.c:1513-1518).
GiveBack(t) ==
  /\ At(t, "give")
  /\ pool' = <<thread[t].block>> \o pool
  /\ Goto(t, "call")
  /\ UNCHANGED <<info, heap, active, engine, trxns>>

\* nwGtpv2cTrxnPeerRspWaitTimeout sends the request again, with a new timer; or
\* the transaction has ended, as it has after its duplicates were waited for.
CallBack(t) ==
  /\ At(t, "call")
  /\ LET x == info[thread[t].block].trxn IN
       /\ early' = (early \/ wanted[x] = None \/ wanted[x] > 0)
       /\ hRspTmr' = [hRspTmr EXCEPT ![x] = None]
       /\ \/ Allocate(t, x, T3, "call")
          \/ /\ wanted' = [wanted EXCEPT ![x] = None]
             /\ Goto(t, "peek")
             /\ UNCHANGED blocks
  /\ UNCHANGED <<heap, active, engine>>

\* The other timers that are due, as long as there are any.
PeekDue(t) ==
  /\ At(t, "peek")
  /\ \/ \E b \in Firsts :
          /\ Expired(b)
          /\ thread' = [thread EXCEPT ![t] = [at |-> "remove", block |-> b]]
     \/ /\ ~ \E b \in heap : Expired(b)
        /\ Goto(t, "rest")
  /\ UNCHANGED <<blocks, heap, active, engine, trxns>>

FaultyMustRearm == active = None /\ Cardinality(heap) > 1   \* the last timer is forgotten

\* A callback that started a timer has armed one.
MustRearm == active = None /\ heap # {}

Rearm(t) ==
  /\ At(t, "rest") /\ MustRearm
  /\ \E b \in Firsts :
       /\ StartEvent(b, info[b].due)
       /\ thread' = [thread EXCEPT ![t] = [at |-> "reset", block |-> b]]
  /\ UNCHANGED <<pool, heap, active, trxns>>

Rest(t) ==
  /\ At(t, "rest") /\ ~ MustRearm
  /\ Return(t, FALSE)
  /\ UNCHANGED <<blocks, heap, active, engine, trxns>>

ResetActive(t) ==
  /\ At(t, "reset")
  /\ active' = thread[t].block
  /\ Return(t, FALSE)
  /\ UNCHANGED <<blocks, heap, engine, trxns>>

-----------------------------------------------------------------------------
(* nwGtpv2cStopTimer: the answer to a request arrives, or a transaction ends.  *)

StopTimer(t) ==
  /\ At(t, "idle")
  /\ \E x \in Trxns :
       /\ hRspTmr[x] # None
       /\ heap' = TakenOut(hRspTmr[x])
       /\ thread' = [thread EXCEPT ![t] = [at |-> "stopped", block |-> hRspTmr[x]]]
       /\ hRspTmr' = [hRspTmr EXCEPT ![x] = None]
       /\ wanted' = [wanted EXCEPT ![x] = None]
  /\ UNCHANGED <<blocks, active, engine, early>>

GiveBackStopped(t) ==
  /\ At(t, "stopped")
  /\ pool' = <<thread[t].block>> \o pool
  /\ Goto(t, "replace")
  /\ UNCHANGED <<info, heap, active, engine, trxns>>

\* If the timer was the active one, the next one takes its place.
ReplaceActive(t) ==
  /\ At(t, "replace")
  /\ IF active = thread[t].block
     THEN StopEvent(info[active].event) /\ active' = None /\ Goto(t, "next")
     ELSE Return(t, FALSE) /\ UNCHANGED <<active, engine>>
  /\ UNCHANGED <<blocks, heap, trxns>>

Overdue(b) == info[b].due < 0

NextActive(t) ==
  /\ At(t, "next")
  /\ \/ /\ heap = {}
        /\ Return(t, FALSE)
        /\ UNCHANGED <<info, active, engine>>
     \/ \E b \in Firsts :
          IF Overdue(b)
          THEN /\ active' = b
               /\ thread' = [thread EXCEPT ![t] = [at |-> "timeout", block |-> b]]
               /\ UNCHANGED <<info, engine>>
          ELSE /\ StartEvent(b, info[b].due)
               /\ thread' = [thread EXCEPT ![t] = [at |-> "reset", block |-> b]]
               /\ UNCHANGED active
  /\ UNCHANGED <<pool, heap, trxns>>

-----------------------------------------------------------------------------
AllRest == \A t \in Threads : thread[t] = Resting

\* Time passes while every thread waits, and the event loop has nothing to do.
\* Bound: it stops when a timer is late by more than T3, which none ever is.
Tick ==
  /\ ~ broken /\ AllRest /\ queue = <<>>
  /\ \A e \in armed : event[e].due > 0
  /\ wanted # [x \in Trxns |-> None]
  /\ \A x \in Trxns : wanted[x] # None => wanted[x] >= - T3
  /\ info' = [b \in Blocks |-> IF b \in heap THEN [info[b] EXCEPT !.due = @ - 1] ELSE info[b]]
  /\ event' = [e \in Events |-> IF e \in armed THEN [event[e] EXCEPT !.due = @ - 1]
                                ELSE event[e]]
  /\ wanted' = [x \in Trxns |-> IF wanted[x] = None THEN None ELSE wanted[x] - 1]
  /\ UNCHANGED <<pool, heap, active, free, armed, queue, thread, hRspTmr, early, broken>>

Start(t) == StartTimer(t) \/ InsertTimer(t) \/ LookAtActive(t) \/ StopActive(t) \/ Arm(t)
              \/ SetActive(t)

Timeout(t) == ProcessTimeout(t) \/ RemoveTimer(t) \/ GiveBack(t) \/ CallBack(t) \/ PeekDue(t)
                \/ Rearm(t) \/ Rest(t) \/ ResetActive(t)

Stop(t) == StopTimer(t) \/ GiveBackStopped(t) \/ ReplaceActive(t) \/ NextActive(t)

Next == Tick \/ MoveExpired \/ Dispatch
          \/ \E t \in Threads : Start(t) \/ Timeout(t) \/ Stop(t)

Spec == Init /\ [][Next]_vars

\* A call that was begun goes on.  The event loop comes back to select after
\* whatever it has called, and time passes however often timers are started.
Fairness ==
  /\ SF_vars(Tick) /\ SF_vars(MoveExpired) /\ SF_vars(Dispatch)
  /\ \A t \in Threads :
       /\ WF_vars(InsertTimer(t) \/ LookAtActive(t) \/ StopActive(t) \/ Arm(t) \/ SetActive(t))
       /\ WF_vars(Timeout(t))
       /\ WF_vars(GiveBackStopped(t) \/ ReplaceActive(t) \/ NextActive(t))

FairSpec == Spec /\ Fairness

-----------------------------------------------------------------------------
(* Properties *)

Steps ==
  {"idle", "insert", "look", "stop", "arm", "set", "timeout", "remove", "give", "call",
   "peek", "rest", "reset", "stopped", "replace", "next"}

TypeOK ==
  /\ pool \in Seq(Blocks)
  /\ info \in [Blocks -> TimeoutInfo \cup {None}]
  /\ heap \subseteq Blocks
  /\ active \in Blocks \cup {None}
  /\ free \in Seq(Events) /\ queue \in Seq(Events) /\ armed \subseteq Events
  /\ event \in [Events -> Event \cup {None}]
  /\ thread \in [Threads -> [at : Steps, block : Blocks \cup {None}]]
  /\ hRspTmr \in [Trxns -> Blocks \cup {None}]
  /\ wanted \in [Trxns -> Int \cup {None}]
  /\ early \in BOOLEAN /\ broken \in BOOLEAN

\* While no call is in progress, the timers of the transactions are the blocks
\* of the heap, one each, and say what the transactions wait for: to stop one
\* never stops another, and none is lost or kept (NwGtpv2c.c:1513-1518, 1780-1788).
TimersBelong ==
  AllRest =>
    /\ \A x \in Trxns :
         IF wanted[x] = None THEN hRspTmr[x] = None
         ELSE /\ hRspTmr[x] \in heap
              /\ info[hRspTmr[x]].trxn = x
              /\ info[hRspTmr[x]].due = wanted[x]
    /\ heap = {hRspTmr[x] : x \in Trxns} \ {None}
    /\ heap \cup {pool[i] : i \in 1 .. Len(pool)} = {b \in Blocks : info[b] # None}
    /\ Cardinality(heap) + Len(pool) = Cardinality({b \in Blocks : info[b] # None})

\* The source: "T3 Response timer expired for transaction" (NwGtpv2cTrxn.c:95).
NeverEarly == ~ early

\* A callback that starts a timer makes it the active one while others are
\* pending that are due before it (NwGtpv2c.c:1633-1660, 1555): those are late,
\* but never by more than the callback's timer takes.
LateByOneTimer == \A x \in Trxns : wanted[x] # None => wanted[x] > - T3

\* A timer that is due is called back or stopped (NwGtpv2c.c:1494-1575).
EveryTimerExpires ==
  \A x \in Trxns : (wanted[x] # None /\ wanted[x] <= 0) ~> (wanted[x] = None \/ wanted[x] > 0)
=============================================================================
