------------------------ MODULE Gtpv2cTimer_proofs --------------------------
(***************************************************************************)
(* Proofs about the timers of the GTPv2-C stack, for any number of threads *)
(* that start and stop them, any number of transactions and any waiting    *)
(* times.  The hypothesis is that one thread at a time is inside a call:   *)
(* what a mutex would give that is held over each call.  Those of the code *)
(* guard the heap and the pool only (NwGtpv2c.c:1590-1664), and without    *)
(* the hypothesis the theorems are false.                                  *)
(***************************************************************************)
EXTENDS Gtpv2cTimer, SequenceTheorems, FiniteSetTheorems, TLAPS

\* A call of one thread is over before another thread begins one.  The event
\* loop may move what is due to the active queue in the meantime.
OneAtATime ==
  \A s, t \in Threads : thread[s] # Resting /\ thread[t] # Resting => s = t

\* What the thread inside does, or the event loop if there is none.
Inside == {t \in Threads : thread[t] # Resting}
now    == thread[IF Inside = {} THEN Loop ELSE CHOOSE t \in Inside : TRUE]
at     == now.at
mine   == now.block

\* A step of thread t, alone inside.
Alone(t) == thread[t] = now /\ thread'[t] = now'

Starting == at \in {"insert", "look", "stop", "arm", "set"}

\* The thread is calling back the timers that are due.
Busy == at \in {"peek", "remove", "give", "call"} \/ (Starting /\ info[mine].back)

Occurs(x, s) == \E i \in DOMAIN s : s[i] = x

InPool(b) == Occurs(b, pool)

\* A block that is in the hands of the thread only.
Out(b) == at \in {"insert", "give", "stopped"} /\ b = mine

\* The blocks that have been used are in the heap, in the pool, or in hand.
Memory ==
  /\ IsInjective(pool)
  /\ \A b \in Blocks : ~ (b \in heap /\ InPool(b))
  /\ \A b \in Blocks : Out(b) => b \notin heap /\ ~ InPool(b)
  /\ \A b \in Blocks : info[b] # None <=> b \in heap \/ InPool(b) \/ Out(b)

\* The timer has been started, and neither been stopped nor called back.
Live(b) == b \in heap \/ (at \in {"insert", "give", "call"} /\ b = mine)

\* The live timers are those of the transactions, which have their handles.
Owners ==
  /\ \A b \in Blocks : Live(b) =>
       /\ info[b] # None
       /\ wanted[info[b].trxn] = info[b].due
       /\ hRspTmr[info[b].trxn] = IF Starting /\ b = mine THEN None ELSE b
  /\ \A b, c \in Blocks : Live(b) /\ Live(c) /\ info[b].trxn = info[c].trxn => b = c
  /\ \A x \in Trxns : wanted[x] # None => \E b \in Blocks : Live(b) /\ info[b].trxn = x
  /\ \A x \in Trxns : wanted[x] = None => hRspTmr[x] = None

\* Where the thread stands, and what its block is.
Place ==
  /\ at = "idle" <=> now = Resting
  /\ Starting => mine # None
  /\ at \in {"look", "stop", "arm", "set", "timeout", "remove", "reset"} => mine \in heap
  /\ Starting /\ info[mine].back => info[mine].due = T3
  /\ at \in {"look", "stop", "arm", "set", "remove"} => mine # active
  /\ at \in {"timeout", "remove", "give", "call"} => mine # None /\ info[mine].due <= 0
  /\ at = "timeout" => active = mine
  /\ at \in {"stop", "arm"} /\ active # None => info[active].due > info[mine].due
  /\ at = "stop" => active # None
  /\ at \in {"call", "replace"} => mine # None /\ InPool(mine)
  /\ at = "stopped" => mine # None
  /\ at \in {"reset", "next"} => active = None
  /\ active # None => active \in heap \/ (at \in {"stopped", "replace"} /\ active = mine)
  /\ Busy /\ active # None => info[active].due > 0
  /\ at \in {"idle", "stopped", "replace"} /\ heap # {} => active # None
  /\ at \in {"insert", "look"} /\ ~ info[mine].back /\ heap \ {mine} # {} => active # None

\* The block that the event of the engine is for.
Served ==
  IF at \in {"set", "reset"} THEN mine
  ELSE IF at \in {"arm", "timeout"} THEN None
  ELSE active

Running(b) ==
  \E e \in Events :
    /\ info[b].event = e
    /\ event[e] = [block |-> b, due |-> info[b].due]
    /\ ~ Occurs(e, free)
    /\ \/ armed = {e} /\ queue = <<>>
       \/ armed = {} /\ queue = <<e>> /\ info[b].due <= 0

\* The event engine runs one event, or none.
Engine ==
  /\ IsInjective(free)
  /\ \A e \in Events : Occurs(e, free) => event[e] # None
  /\ Served = None => armed = {} /\ queue = <<>>
  /\ Served # None => Running(Served)

\* The block that decides when the event loop looks at the timers again.
Clock == IF at \in {"arm", "set", "reset"} THEN mine ELSE active

\* No timer is due so much before that one that it is late by T3.
Punctual ==
  /\ \A x \in Trxns : wanted[x] # None => wanted[x] > - T3
  /\ Clock # None /\ at # "timeout" => \A b \in heap :
       \/ info[b].due > info[Clock].due - T3
       \/ (Busy /\ info[b].due <= 0)
       \/ (at \in {"look", "stop"} /\ b = mine)

TimerInv ==
  TypeOK /\ Memory /\ Owners /\ Place /\ Engine /\ Punctual /\ ~ early /\ ~ broken

-----------------------------------------------------------------------------
(* The free lists and the active queue *)

\* Taking the first element of a list without repetition.
LEMMA PopList ==
  ASSUME NEW S, NEW s \in Seq(S), s # <<>>, IsInjective(s)
  PROVE  /\ Head(s) \in S /\ Tail(s) \in Seq(S)
         /\ IsInjective(Tail(s))
         /\ Occurs(Head(s), s)
         /\ \A x : Occurs(x, Tail(s)) <=> Occurs(x, s) /\ x # Head(s)
<1>1. Len(s) \in Nat /\ Len(s) >= 1 /\ DOMAIN s = 1 .. Len(s) /\ Head(s) = s[1]
  BY EmptySeq
<1>2. /\ Head(s) \in S /\ Tail(s) \in Seq(S) /\ Len(Tail(s)) = Len(s) - 1
      /\ \A i \in 1 .. Len(s) - 1 : Tail(s)[i] = s[i + 1]
      /\ DOMAIN Tail(s) = 1 .. Len(s) - 1
  BY <1>1, HeadTailProperties
<1>3. IsInjective(Tail(s))
  BY <1>1, <1>2 DEF IsInjective
<1>4. ASSUME NEW x
      PROVE  Occurs(x, Tail(s)) <=> Occurs(x, s) /\ x # Head(s)
  <2>1. ASSUME NEW i \in DOMAIN Tail(s), Tail(s)[i] = x
        PROVE  (\E j \in DOMAIN s : s[j] = x) /\ x # Head(s)
    <3>1. i + 1 \in DOMAIN s /\ s[i + 1] = x /\ i + 1 # 1
      BY <1>1, <1>2, <2>1
    <3> QED BY <1>1, <3>1 DEF IsInjective
  <2>2. ASSUME NEW i \in DOMAIN s, s[i] = x, x # Head(s)
        PROVE  \E j \in DOMAIN Tail(s) : Tail(s)[j] = x
    <3>1. i - 1 \in DOMAIN Tail(s) /\ Tail(s)[i - 1] = s[i]
      BY <1>1, <1>2, <2>2
    <3> QED BY <2>2, <3>1
  <2> QED BY <2>1, <2>2 DEF Occurs
<1>5. Occurs(Head(s), s)
  BY <1>1 DEF Occurs
<1> QED BY <1>1, <1>2, <1>3, <1>4, <1>5

\* Putting an element that is not in a list without repetition before it.
LEMMA PushList ==
  ASSUME NEW S, NEW s \in Seq(S), IsInjective(s), NEW a \in S, ~ Occurs(a, s)
  PROVE  /\ <<a>> \o s \in Seq(S)
         /\ IsInjective(<<a>> \o s)
         /\ \A x : Occurs(x, <<a>> \o s) <=> Occurs(x, s) \/ x = a
<1> DEFINE t == <<a>> \o s
<1>1. Len(s) \in Nat /\ DOMAIN s = 1 .. Len(s)
  OBVIOUS
<1>2. /\ t \in Seq(S) /\ Len(t) = Len(s) + 1 /\ DOMAIN t = 1 .. Len(s) + 1
      /\ t[1] = a /\ \A i \in 1 .. Len(s) : t[i + 1] = s[i]
  BY <1>1
<1> HIDE DEF t
<1>3. \A i \in DOMAIN t : i # 1 => i - 1 \in DOMAIN s /\ t[i] = s[i - 1]
  <2>1. ASSUME NEW i \in 1 .. Len(s) + 1, i # 1
        PROVE  i - 1 \in 1 .. Len(s) /\ t[i] = s[i - 1]
    <3>1. i - 1 \in 1 .. Len(s) /\ (i - 1) + 1 = i
      BY <1>1, <2>1
    <3>2. \A j \in 1 .. Len(s) : t[j + 1] = s[j]
      BY <1>2
    <3>3. t[(i - 1) + 1] = s[i - 1]
      BY <3>1, <3>2
    <3> QED BY <3>1, <3>3
  <2> QED BY <1>1, <1>2, <2>1
<1>0. \A i \in DOMAIN s : s[i] # a
  BY DEF Occurs
<1>4. IsInjective(t)
  <2> SUFFICES ASSUME NEW i \in DOMAIN t, NEW j \in DOMAIN t, t[i] = t[j]
               PROVE  i = j
    BY DEF IsInjective
  <2>1. CASE i = 1 \/ j = 1
    BY <1>0, <1>2, <1>3, <2>1
  <2>2. CASE i # 1 /\ j # 1
    <3>1. i - 1 = j - 1
      BY <1>3, <2>2 DEF IsInjective
    <3> QED BY <1>1, <1>2, <3>1
  <2> QED BY <2>1, <2>2
<1>5. ASSUME NEW x
      PROVE  Occurs(x, t) <=> Occurs(x, s) \/ x = a
  <2>1. ASSUME NEW i \in DOMAIN t, t[i] = x PROVE (\E j \in DOMAIN s : s[j] = x) \/ x = a
    BY <1>2, <1>3, <2>1
  <2>2. ASSUME NEW i \in DOMAIN s, s[i] = x PROVE \E j \in DOMAIN t : t[j] = x
    <3>1. i + 1 \in DOMAIN t /\ t[i + 1] = x
      BY <1>1, <1>2, <2>2
    <3> QED BY <3>1
  <2>3. 1 \in DOMAIN t /\ t[1] = a
    BY <1>1, <1>2
  <2> QED BY <2>1, <2>2, <2>3 DEF Occurs
<1> QED BY <1>2, <1>4, <1>5 DEF t

\* An event that waits alone leaves an empty queue.
LEMMA WithoutOnly == ASSUME NEW e \in Events PROVE Without(<<e>>, e) = <<>>
<1> DEFINE places == {i \in 1 .. Len(<<e>>) : <<e>>[i] = e}
           i == CHOOSE j \in places : \A k \in places : j <= k
<1>1. places = {1}
  OBVIOUS
<1>2. i = 1
  BY <1>1
<1>3. SubSeq(<<e>>, 1, 0) \o SubSeq(<<e>>, 2, 1) = <<>>
  OBVIOUS
<1> QED BY <1>1, <1>2, <1>3 DEF Without

LEMMA WithoutNone == ASSUME NEW e PROVE Without(<<>>, e) = <<>>
<1>1. {i \in 1 .. Len(<<>>) : <<>>[i] = e} = {}
  OBVIOUS
<1> QED BY <1>1 DEF Without

-----------------------------------------------------------------------------
(* The places of the loop *)

ThreadOK == thread \in [Threads -> [at : Steps, block : Blocks \cup {None}]]

LEMMA Going ==
  ASSUME TypeOK, NEW t \in Threads, Alone(t), NEW p \in Steps, Goto(t, p)
  PROVE  at' = p /\ mine' = mine /\ ThreadOK'
BY DEF TypeOK, Goto, at, Alone, mine, ThreadOK

LEMMA Moving ==
  ASSUME TypeOK, NEW t \in Threads, Alone(t), NEW p \in Steps, NEW b \in Blocks \cup {None},
         thread' = [thread EXCEPT ![t] = [at |-> p, block |-> b]]
  PROVE  at' = p /\ mine' = b /\ ThreadOK'
BY DEF TypeOK, at, Alone, mine, ThreadOK

LEMMA Returning ==
  ASSUME TypeOK, NEW t \in Threads, Alone(t), NEW c \in BOOLEAN, Return(t, c)
  PROVE  /\ at' = IF c THEN "peek" ELSE "idle"
         /\ mine' = None
         /\ ~ c => now' = Resting
         /\ ThreadOK'
BY DEF TypeOK, Return, at, Alone, mine, Resting, Steps, ThreadOK

\* Some thread is where the thread inside is.
LEMMA SomeThread == \E t \in Threads : now = thread[t]
<1>1. CASE Inside = {}
  BY <1>1 DEF now, Threads
<1>2. CASE Inside # {}
  <2>1. (CHOOSE t \in Inside : TRUE) \in Inside
    BY <1>2
  <2> QED BY <1>2, <2>1 DEF now, Inside
<1> QED BY <1>1, <1>2

LEMMA PlaceType == ASSUME TypeOK PROVE at \in Steps /\ mine \in Blocks \cup {None}
BY SomeThread DEF TypeOK, at, mine

\* If no thread but t is inside, t is where the thread inside is.
LEMMA NowIs ==
  \A u \in Threads : (\A s \in Threads \ {u} : thread[s] = Resting) => now = thread[u]
<1> SUFFICES ASSUME NEW t \in Threads, \A s \in Threads \ {t} : thread[s] = Resting
             PROVE  now = thread[t]
  OBVIOUS
<1>1. CASE thread[t] = Resting
  <2>1. \A s \in Threads : thread[s] = Resting
    BY <1>1
  <2> QED BY <1>1, <2>1, SomeThread
<1>2. CASE thread[t] # Resting
  <2>1. Inside = {t}
    BY <1>2 DEF Inside
  <2> QED BY <2>1 DEF now
<1> QED BY <1>1, <1>2

LEMMA NowIsNext ==
  (\A u \in Threads : (\A s \in Threads \ {u} : thread[s] = Resting) => now = thread[u])'
BY NowIs, PTL

LEMMA SameNow == ASSUME thread' = thread PROVE now' = now
<1>1. Inside' = Inside
  BY DEF Inside
<1> QED BY <1>1 DEF now

\* The threads that are at no step of a call rest.
Rested == \A t \in Threads : thread[t].at = "idle" => thread[t] = Resting

\* A step that changes thread t alone is a step of the thread inside.
LEMMA AloneInside ==
  ASSUME OneAtATime, OneAtATime', NEW t \in Threads,
         \A s \in Threads \ {t} : thread'[s] = thread[s],
         thread[t] # Resting \/ thread'[t] # Resting
  PROVE  Alone(t)
<1>1. \A s \in Threads \ {t} : thread[s] = Resting
  BY DEF OneAtATime
<1>2. now = thread[t]
  BY <1>1, NowIs
<1>3. now' = thread'[t]
  BY <1>1, NowIsNext
<1> QED BY <1>2, <1>3 DEF Alone

-----------------------------------------------------------------------------
(* What a step leaves alone *)

\* What is known of a block in the heap.
LEMMA InHeap ==
  ASSUME TimerInv, NEW b \in heap
  PROVE  /\ b \in Blocks /\ b # None /\ info[b] # None /\ info[b] \in TimeoutInfo
         /\ info[b].trxn \in Trxns /\ info[b].due \in Int /\ Live(b) /\ ~ InPool(b)
<1>1. b \in Blocks /\ info[b] # None /\ ~ InPool(b)
  BY DEF TimerInv, TypeOK, Memory
<1>2. info[b] \in TimeoutInfo
  BY <1>1 DEF TimerInv, TypeOK
<1> QED BY <1>1, <1>2, TimerAssumption DEF TimeoutInfo, Live

LEMMA SameMemory ==
  ASSUME Memory, pool' = pool, heap' = heap,
         \A b \in Blocks : info'[b] # None <=> info[b] # None,
         \A b \in Blocks : Out(b)' <=> Out(b)
  PROVE  Memory'
<1>1. \A b \in Blocks : InPool(b)' <=> InPool(b)
  BY DEF InPool
<1> QED BY <1>1 DEF Memory

LEMMA SameOwners ==
  ASSUME Owners, wanted' = wanted, hRspTmr' = hRspTmr,
         \A b \in Blocks : Live(b)' <=> Live(b),
         \A b \in Blocks : Live(b) =>
            /\ info'[b] # None
            /\ info'[b].trxn = info[b].trxn
            /\ info'[b].due = info[b].due
            /\ (Starting' /\ b = mine') <=> (Starting /\ b = mine)
  PROVE  Owners'
<1>1. ASSUME NEW b \in Blocks, Live(b)'
      PROVE  /\ info'[b] # None
             /\ wanted'[info'[b].trxn] = info'[b].due
             /\ hRspTmr'[info'[b].trxn] = (IF Starting /\ b = mine THEN None ELSE b)'
  BY <1>1 DEF Owners
<1>2. ASSUME NEW b \in Blocks, NEW c \in Blocks, Live(b)', Live(c)',
             info'[b].trxn = info'[c].trxn
      PROVE  b = c
  BY <1>2 DEF Owners
<1>3. ASSUME NEW x \in Trxns, wanted'[x] # None
      PROVE  \E b \in Blocks : Live(b)' /\ info'[b].trxn = x
  BY <1>3 DEF Owners
<1> QED BY <1>1, <1>2, <1>3 DEF Owners

LEMMA SameEngine ==
  ASSUME Engine, UNCHANGED <<free, event, armed, queue>>, Served' = Served,
         Served # None => info'[Served] = info[Served]
  PROVE  Engine'
<1>1. Served # None => Running(Served)'
  BY DEF Engine, Running
<1>2. (Served # None)' => Running(Served)'
  BY <1>1
<1> QED BY <1>2 DEF Engine

-----------------------------------------------------------------------------
(* Starting a timer *)

LEMMA InsertTimerStep ==
  ASSUME TimerInv, NEW t \in Threads, Alone(t), InsertTimer(t)
  PROVE  TimerInv'
<1>0. TypeOK /\ at = "insert" /\ Goto(t, "look") /\ heap' = heap \cup {thread[t].block}
  BY DEF InsertTimer, Alone, At, at, TimerInv
<1>1. /\ at = "insert" /\ at' = "look" /\ mine' = mine
      /\ heap' = heap \cup {mine}
      /\ UNCHANGED <<pool, info, active, free, event, armed, queue, hRspTmr, wanted,
                     early, broken>>
  BY <1>0, Going DEF InsertTimer, Alone, mine, blocks, engine, trxns, Steps
<1>2. mine \in Blocks /\ Out(mine) /\ mine \notin heap /\ ~ InPool(mine)
  BY <1>1, PlaceType DEF TimerInv, Place, Starting, Memory, Out
<1>3. TypeOK'
  BY <1>1, <1>2 DEF TimerInv, TypeOK, InsertTimer, Goto, Steps
<1>4. Memory'
  <2>1. \A b \in Blocks : InPool(b)' <=> InPool(b)
    BY <1>1 DEF InPool
  <2>2. \A b \in Blocks : Out(b) <=> b = mine
    BY <1>1 DEF Out
  <2>3. \A b \in Blocks : ~ Out(b)'
    BY <1>1 DEF Out
  <2> QED BY <1>1, <1>2, <2>1, <2>2, <2>3 DEF TimerInv, Memory
<1>5. Owners'
  <2>1. \A b \in Blocks : Live(b)' <=> Live(b)
    BY <1>1 DEF Live
  <2>2. Starting /\ Starting'
    BY <1>1 DEF Starting
  <2>3. \A b \in Blocks : Live(b) => info[b] # None
    BY DEF TimerInv, Owners
  <2> QED BY <1>1, <2>1, <2>2, <2>3, SameOwners DEF TimerInv
<1>6. Place'
  <2>1. now' # Resting
    BY <1>1 DEF at, Resting
  <2>2. Busy' <=> Busy
    BY <1>1 DEF Busy, Starting
  <2>3. mine # active
    <3>1. active # None => active \in heap
      BY <1>1 DEF TimerInv, Place
    <3> QED BY <1>2, <3>1, TimerAssumption
  <2> QED BY <1>1, <1>2, <2>1, <2>2, <2>3, PlaceType DEF TimerInv, Place, Starting
<1>7. Engine'
  BY <1>1, SameEngine DEF TimerInv, Served
<1>8. Punctual'
  <2>1. Busy' <=> Busy
    BY <1>1 DEF Busy, Starting
  <2>2. Clock = active /\ Clock' = active
    BY <1>1 DEF Clock
  <2> QED BY <1>1, <2>1, <2>2 DEF TimerInv, Punctual
<1> QED BY <1>1, <1>3, <1>4, <1>5, <1>6, <1>7, <1>8 DEF TimerInv

\* The start returns: the transaction has the handle, and the active timer runs.
LEMMA StartReturns ==
  ASSUME TimerInv, NEW t \in Threads, Alone(t), Started(t), at \in {"look", "set"},
         UNCHANGED <<pool, info, heap, free, event, armed, queue, broken>>,
         active' = Served, active' \in heap,
         info[mine].back => info[active'].due > 0,
         \A b \in heap : \/ info[b].due > info[active'].due - T3
                         \/ Busy /\ info[b].due <= 0
  PROVE  TimerInv'
<1>0. PICK m : m = mine
  OBVIOUS
<1>1. /\ mine \in heap /\ mine \in Blocks /\ info[mine] \in TimeoutInfo
      /\ info[mine].trxn \in Trxns /\ info[mine].back \in BOOLEAN
      /\ Starting /\ Live(mine)
  BY InHeap DEF TimerInv, Place, TimeoutInfo, Starting
<1>2. /\ at' = IF info[m].back THEN "peek" ELSE "idle"
      /\ mine' = None
      /\ ~ info[m].back => now' = Resting
      /\ hRspTmr' = [hRspTmr EXCEPT ![info[m].trxn] = m]
      /\ UNCHANGED <<wanted, early>>
  <2>1. Return(t, info[m].back)
    BY <1>0 DEF Started, Alone, mine
  <2> QED BY <1>0, <1>1, <2>1, Returning DEF Started, Alone, mine, TimerInv
<1>3. TypeOK'
  <2>1. thread' \in [Threads -> [at : Steps, block : Blocks \cup {None}]]
    BY DEF Started, Return, TimerInv, TypeOK, Steps
  <2>2. hRspTmr' \in [Trxns -> Blocks \cup {None}]
    BY <1>0, <1>1, <1>2 DEF TimerInv, TypeOK
  <2>3. active' \in Blocks \cup {None}
    BY DEF TimerInv, TypeOK
  <2> QED BY <1>2, <2>1, <2>2, <2>3 DEF TimerInv, TypeOK
<1>4. Memory'
  BY <1>2, SameMemory DEF TimerInv, Out
<1>5. Owners'
  <2>1. \A b \in Blocks : Live(b)' <=> Live(b)
    BY <1>2 DEF Live
  <2>2. ~ Starting'
    BY <1>2 DEF Starting
  <2>3. ASSUME NEW b \in Blocks, Live(b) PROVE hRspTmr'[info[b].trxn] = b
    <3>1. CASE b = m
      BY <1>0, <1>1, <1>2, <3>1 DEF TimerInv, TypeOK
    <3>2. CASE b # m
      <4>1. info[b].trxn # info[m].trxn /\ hRspTmr[info[b].trxn] = b
        BY <1>0, <1>1, <2>3, <3>2 DEF TimerInv, Owners
      <4> QED BY <1>2, <4>1 DEF TimerInv, TypeOK
    <3> QED BY <3>1, <3>2
  <2>4. \A x \in Trxns : wanted[x] = None => hRspTmr'[x] = None
    <3>1. wanted[info[m].trxn] = info[m].due /\ info[m].due \in Int
      BY <1>0, <1>1 DEF TimerInv, Owners, TimeoutInfo
    <3>2. wanted[info[m].trxn] # None
      BY <3>1, TimerAssumption
    <3> QED BY <1>0, <1>1, <1>2, <3>2 DEF TimerInv, TypeOK, Owners
  <2> QED BY <1>2, <2>1, <2>2, <2>3, <2>4 DEF TimerInv, Owners
<1>6. active' # None
  BY TimerAssumption DEF TimerInv, TypeOK
<1>7. Place'
  <2>1. at' = "idle" <=> now' = Resting
    BY <1>2 DEF at, Resting
  <2>2. ~ Starting' /\ (Busy' => info[m].back)
    BY <1>2 DEF Starting, Busy
  <2> QED BY <1>0, <1>1, <1>2, <1>6, <2>1, <2>2 DEF Place
<1>8. Engine'
  <2>1. Served' = Served
    BY <1>2 DEF Served
  <2> QED BY <2>1, SameEngine DEF TimerInv
<1>9. Punctual'
  <2>1. Busy <=> info[m].back
    BY <1>0, <1>1 DEF Busy, Starting
  <2>2. Busy' <=> info[m].back
    BY <1>0, <1>1, <1>2 DEF Busy, Starting
  <2>3. Clock' = active'
    BY <1>2 DEF Clock
  <2>4. \A x \in Trxns : wanted[x] # None => wanted[x] > - T3
    BY DEF TimerInv, Punctual
  <2> QED BY <1>2, <2>1, <2>2, <2>3, <2>4 DEF Punctual
<1> QED BY <1>2, <1>3, <1>4, <1>5, <1>7, <1>8, <1>9 DEF TimerInv

\* The event of the active timer is stopped: the engine runs none.
LEMMA EventStops ==
  ASSUME TimerInv, NEW e \in Events, event[e] # None, ~ Occurs(e, free),
         \/ armed = {e} /\ queue = <<>>
         \/ armed = {} /\ queue = <<e>>,
         StopEvent(e)
  PROVE  /\ armed' = {} /\ queue' = <<>> /\ event' = event /\ broken' = FALSE
         /\ free' \in Seq(Events) /\ IsInjective(free')
         /\ \A d \in Events : Occurs(d, free') => event[d] # None
<1>1. armed' = {} /\ queue' = <<>>
  BY WithoutOnly, WithoutNone DEF StopEvent, Destroyed
<1>2. /\ free' = <<e>> \o free /\ event' = event
      /\ broken' = \E i \in 1 .. Len(free) : free[i] = e
  BY DEF StopEvent
<1>3. free \in Seq(Events) /\ IsInjective(free)
  BY DEF TimerInv, TypeOK, Engine
<1>4. broken' = FALSE
  BY <1>2, <1>3 DEF Occurs
<1>5. /\ free' \in Seq(Events) /\ IsInjective(free')
      /\ \A d : Occurs(d, free') <=> Occurs(d, free) \/ d = e
  BY <1>2, <1>3, PushList
<1> QED BY <1>1, <1>2, <1>4, <1>5 DEF TimerInv, Engine

\* An event is started for a block of the heap: it is the only one that runs.
LEMMA EventStarts ==
  ASSUME TimerInv, NEW b \in heap, armed = {}, queue = <<>>,
         StartEvent(b, info[b].due)
  PROVE  /\ free' \in Seq(Events) /\ armed' \subseteq Events /\ queue' = <<>>
         /\ event' \in [Events -> Event \cup {None}]
         /\ info' \in [Blocks -> TimeoutInfo \cup {None}]
         /\ broken' = broken
         /\ IsInjective(free')
         /\ \A d \in Events : Occurs(d, free') => event'[d] # None
         /\ \A c \in Blocks \ {b} : info'[c] = info[c]
         /\ info'[b].trxn = info[b].trxn /\ info'[b].due = info[b].due
         /\ info'[b].back = info[b].back /\ info'[b] # None
         /\ Running(b)'
<1>0. /\ free \in Seq(Events) /\ IsInjective(free) /\ b \in Blocks
      /\ event \in [Events -> Event \cup {None}]
      /\ info \in [Blocks -> TimeoutInfo \cup {None}]
      /\ \A d \in Events : Occurs(d, free) => event[d] # None
  BY DEF TimerInv, TypeOK, Engine
<1>1. PICK e \in NewEvents :
        /\ free' = IF free # <<>> THEN Tail(free) ELSE free
        /\ event' = [event EXCEPT ![e] = [block |-> b, due |-> info[b].due]]
        /\ armed' = {e}
        /\ info' = [info EXCEPT ![b].event = e]
        /\ UNCHANGED <<queue, broken>>
  BY DEF StartEvent
<1>2. /\ e \in Events /\ free' \in Seq(Events) /\ IsInjective(free')
      /\ ~ Occurs(e, free')
      /\ \A d : Occurs(d, free') => Occurs(d, free)
  <2>1. CASE free # <<>>
    <3>1. e = Head(free) /\ free' = Tail(free)
      BY <1>1, <2>1 DEF NewEvents
    <3> QED BY <1>0, <2>1, <3>1, PopList
  <2>2. CASE free = <<>>
    <3>1. e \in Events /\ free' = free
      BY <1>1, <2>2 DEF NewEvents
    <3>2. \A d : ~ Occurs(d, free)
      BY <2>2 DEF Occurs
    <3> QED BY <1>0, <3>1, <3>2
  <2> QED BY <2>1, <2>2
<1>3. info[b] \in TimeoutInfo /\ info[b].due \in Int
  BY InHeap
<1>4. [block |-> b, due |-> info[b].due] \in Event
  BY <1>0, <1>3 DEF Event
<1>5. event' \in [Events -> Event \cup {None}]
  BY <1>0, <1>1, <1>2, <1>4
<1>6. event'[e] = [block |-> b, due |-> info[b].due] /\ event'[e] # None
  BY <1>0, <1>1, <1>2, <1>4, TimerAssumption
<1>7. \A d \in Events : d # e => event'[d] = event[d]
  BY <1>0, <1>1
<1>8. info'[b] = [info[b] EXCEPT !.event = e] /\ \A c \in Blocks \ {b} : info'[c] = info[c]
  BY <1>0, <1>1
<1>9. /\ info'[b] \in TimeoutInfo /\ info'[b].trxn = info[b].trxn
      /\ info'[b].due = info[b].due /\ info'[b].back = info[b].back
      /\ info'[b].event = e
  BY <1>2, <1>3, <1>8 DEF TimeoutInfo
<1>10. info' \in [Blocks -> TimeoutInfo \cup {None}]
  BY <1>0, <1>1, <1>8, <1>9
<1>11. info'[b] # None
  BY <1>9, TimerAssumption
<1>12. Running(b)'
  BY <1>1, <1>2, <1>6, <1>9 DEF Running
<1>13. \A d \in Events : Occurs(d, free') => event'[d] # None
  BY <1>0, <1>2, <1>6, <1>7
<1>14. armed' \subseteq Events /\ queue' = <<>> /\ broken' = broken
  BY <1>1, <1>2
<1> QED BY <1>2, <1>5, <1>8, <1>9, <1>10, <1>11, <1>12, <1>13, <1>14

LEMMA LookAtActiveStep ==
  ASSUME TimerInv, NEW t \in Threads, Alone(t), LookAtActive(t)
  PROVE  TimerInv'
<1>1. /\ at = "look" /\ mine \in heap /\ mine # active /\ Starting
      /\ UNCHANGED <<pool, info, heap, active, free, event, armed, queue, broken>>
  BY DEF LookAtActive, Alone, At, at, TimerInv, Place, blocks, engine, Starting
<1>2. /\ mine \in Blocks /\ mine # None /\ info[mine].due \in Int
      /\ \A b \in heap : info[b].due \in Int
  BY <1>1, InHeap
<1>3. ASSUME NEW p \in {"arm", "stop"}, Goto(t, p), UNCHANGED trxns,
             p = "arm" <=> active = None,
             active # None => info[active].due > info[mine].due
      PROVE  TimerInv'
  <2>1. at' = p /\ mine' = mine /\ UNCHANGED <<wanted, hRspTmr, early>>
    BY <1>3, Going DEF TimerInv, trxns, Steps
  <2>2. TypeOK'
    <3>1. thread' \in [Threads -> [at : Steps, block : Blocks \cup {None}]]
      BY <1>3 DEF Goto, TimerInv, TypeOK, Steps
    <3> QED BY <1>1, <2>1, <3>1 DEF TimerInv, TypeOK
  <2>3. Memory'
    BY <1>1, <2>1, SameMemory DEF TimerInv, Out
  <2>4. Owners'
    <3>1. \A b \in Blocks : Live(b)' <=> Live(b)
      BY <1>1, <2>1 DEF Live
    <3>2. Starting'
      BY <2>1 DEF Starting
    <3> QED BY <1>1, <2>1, <3>1, <3>2, SameOwners DEF TimerInv, Owners
  <2>5. Busy' <=> Busy
    BY <1>1, <2>1 DEF Busy, Starting
  <2>6. Place'
    <3>1. now' # Resting
      BY <2>1 DEF at, Resting
    <3>2. active # None => active \in heap
      BY <1>1 DEF TimerInv, Place
    <3> QED BY <1>1, <1>2, <1>3, <2>1, <2>5, <3>1, <3>2 DEF TimerInv, Place, Starting
  <2>7. Engine'
    <3>1. CASE p = "stop"
      BY <1>1, <2>1, <3>1, SameEngine DEF TimerInv, Served
    <3>2. CASE p = "arm" /\ active = None
      BY <1>1, <2>1, <3>2, SameEngine DEF TimerInv, Served
    <3> QED BY <1>3, <3>1, <3>2
  <2>8. Punctual'
    <3>1. \A x \in Trxns : wanted[x] # None => wanted[x] > - T3
      BY DEF TimerInv, Punctual
    <3>2. CASE p = "stop"
      <4>1. Clock' = active /\ Clock = active
        BY <1>1, <2>1, <3>2 DEF Clock
      <4> QED BY <1>1, <2>1, <2>5, <3>1, <3>2, <4>1 DEF TimerInv, Punctual
    <3>3. CASE p = "arm" /\ active = None
      <4>1. Clock' = mine
        BY <2>1, <3>3 DEF Clock
      <4>2. Busy <=> info[mine].back
        BY <1>1 DEF Busy, Starting
      <4>3. ASSUME NEW b \in heap
            PROVE  info[b].due > info[mine].due - T3 \/ (Busy /\ info[b].due <= 0)
        <5>1. info[b].due \in Int /\ T3 > 0 /\ T3 \in Int
          BY <1>2, TimerAssumption
        <5>2. CASE b = mine
          BY <5>1, <5>2
        <5>3. CASE b # mine
          <6>1. info[mine].back /\ info[mine].due = T3
            BY <1>1, <3>3, <5>3 DEF TimerInv, Place
          <6> QED BY <4>2, <5>1, <6>1
        <5> QED BY <5>2, <5>3
      <4> QED BY <1>1, <2>1, <2>5, <3>1, <4>1, <4>3 DEF Punctual
    <3> QED BY <1>3, <3>2, <3>3
  <2> QED BY <1>1, <2>1, <2>2, <2>3, <2>4, <2>6, <2>7, <2>8 DEF TimerInv
<1>4. CASE active = None
  <2>1. Goto(t, "arm") /\ UNCHANGED trxns
    BY <1>4 DEF LookAtActive
  <2> QED BY <1>3, <1>4, <2>1
<1>5. CASE active # None /\ EarlierThanActive(mine)
  <2>1. Goto(t, "stop") /\ UNCHANGED trxns
    BY <1>5 DEF LookAtActive, Alone, mine
  <2> QED BY <1>3, <1>5, <2>1 DEF EarlierThanActive
<1>6. CASE active # None /\ ~ EarlierThanActive(mine)
  <2>1. Started(t)
    BY <1>6 DEF LookAtActive, Alone, mine
  <2>2. active \in heap /\ info[active].due \in Int /\ Served = active /\ Clock = active
    BY <1>1, <1>2, <1>6 DEF TimerInv, Place, Served, Clock
  <2>3. info[mine].due >= info[active].due
    BY <1>2, <1>6, <2>2 DEF EarlierThanActive
  <2>4. info[mine].due > info[active].due - T3
    BY <1>2, <2>2, <2>3, TimerAssumption
  <2>5. \A b \in heap : \/ info[b].due > info[active].due - T3
                        \/ Busy /\ info[b].due <= 0
    BY <1>1, <1>6, <2>2, <2>4 DEF TimerInv, Punctual
  <2>6. info[mine].back => info[active].due > 0
    BY <1>1, <1>6 DEF TimerInv, Place, Busy
  <2> QED BY <1>1, <2>1, <2>2, <2>5, <2>6, StartReturns
<1> QED BY <1>4, <1>5, <1>6

LEMMA StopActiveStep ==
  ASSUME TimerInv, NEW t \in Threads, Alone(t), StopActive(t)
  PROVE  TimerInv'
<1>1. /\ at = "stop" /\ mine \in heap /\ mine # active /\ Starting
      /\ active # None /\ active \in heap /\ info[active].due > info[mine].due
      /\ Served = active /\ Clock = active
      /\ UNCHANGED <<pool, info, heap, active, hRspTmr, wanted, early>>
  BY DEF StopActive, Alone, At, at, TimerInv, Place, blocks, trxns, Starting, Served, Clock
<1>2. at' = "arm" /\ mine' = mine
  BY Going DEF StopActive, TimerInv, Steps
<1>3. /\ mine \in Blocks /\ mine # None /\ info[mine].due \in Int
      /\ info[active].due \in Int /\ \A b \in heap : info[b].due \in Int
  BY <1>1, InHeap
<1>4. PICK e \in Events :
        /\ info[active].event = e
        /\ event[e] = [block |-> active, due |-> info[active].due]
        /\ ~ Occurs(e, free)
        /\ \/ armed = {e} /\ queue = <<>>
           \/ armed = {} /\ queue = <<e>>
  BY <1>1 DEF TimerInv, Engine, Running
<1>5. event[e] # None
  <2>1. event[e] \in Event
    BY <1>1, <1>3, <1>4 DEF Event, TimerInv, TypeOK
  <2> QED BY <2>1, TimerAssumption
<1>6. StopEvent(e)
  BY <1>1, <1>4, TimerAssumption DEF StopActive
<1>7. /\ armed' = {} /\ queue' = <<>> /\ event' = event /\ broken' = FALSE
      /\ free' \in Seq(Events) /\ IsInjective(free')
      /\ \A d \in Events : Occurs(d, free') => event[d] # None
  BY <1>4, <1>5, <1>6, EventStops
<1>8. TypeOK'
  <2>1. thread' \in [Threads -> [at : Steps, block : Blocks \cup {None}]]
    BY DEF StopActive, Goto, TimerInv, TypeOK, Steps
  <2>2. queue' \in Seq(Events) /\ armed' \subseteq Events
    BY <1>7
  <2>3. broken' \in BOOLEAN
    BY <1>7
  <2> QED BY <1>1, <1>7, <2>1, <2>2, <2>3 DEF TimerInv, TypeOK
<1>9. Memory'
  BY <1>1, <1>2, SameMemory DEF TimerInv, Out
<1>10. Owners'
  <2>1. \A b \in Blocks : Live(b)' <=> Live(b)
    BY <1>1, <1>2 DEF Live
  <2>2. Starting'
    BY <1>2 DEF Starting
  <2> QED BY <1>1, <1>2, <2>1, <2>2, SameOwners DEF TimerInv, Owners
<1>11. Busy' <=> Busy
  BY <1>1, <1>2 DEF Busy, Starting
<1>12. Place'
  <2>1. now' # Resting
    BY <1>2 DEF at, Resting
  <2> QED BY <1>1, <1>2, <1>3, <1>11, <2>1 DEF TimerInv, Place, Starting
<1>13. Engine'
  <2>1. Served' = None
    BY <1>2 DEF Served
  <2> QED BY <1>7, <2>1 DEF Engine
<1>14. Punctual'
  <2>1. Clock' = mine
    BY <1>2 DEF Clock
  <2>2. ASSUME NEW b \in heap
        PROVE  info[b].due > info[mine].due - T3 \/ (Busy /\ info[b].due <= 0)
    <3>1. \/ info[b].due > info[active].due - T3
          \/ Busy /\ info[b].due <= 0
          \/ b = mine
      BY <1>1 DEF TimerInv, Punctual
    <3> QED BY <1>1, <1>3, <3>1, TimerAssumption
  <2> QED BY <1>1, <1>2, <1>11, <2>1, <2>2 DEF TimerInv, Punctual
<1> QED BY <1>1, <1>7, <1>8, <1>9, <1>10, <1>12, <1>13, <1>14 DEF TimerInv

LEMMA ArmStep ==
  ASSUME TimerInv, NEW t \in Threads, Alone(t), Arm(t)
  PROVE  TimerInv'
<1>0. PICK m : m = mine
  OBVIOUS
<1>1. /\ at = "arm" /\ mine \in heap /\ mine # active /\ Starting
      /\ active # None => active \in heap
      /\ Clock = mine /\ armed = {} /\ queue = <<>>
      /\ UNCHANGED <<pool, heap, active, hRspTmr, wanted, early>>
  BY DEF Arm, Alone, At, at, TimerInv, Place, trxns, Starting, Served, Clock, Engine
<1>2. at' = "set" /\ mine' = mine
  BY Going DEF Arm, TimerInv, Steps
<1>3. mine \in Blocks /\ mine # None
  BY <1>1, InHeap
<1>4. StartEvent(m, info[m].due)
  BY <1>0 DEF Arm, Alone, mine
<1>5. /\ free' \in Seq(Events) /\ armed' \subseteq Events /\ queue' = <<>>
      /\ event' \in [Events -> Event \cup {None}]
      /\ info' \in [Blocks -> TimeoutInfo \cup {None}]
      /\ broken' = broken
      /\ IsInjective(free')
      /\ \A d \in Events : Occurs(d, free') => event'[d] # None
      /\ \A c \in Blocks \ {m} : info'[c] = info[c]
      /\ info'[m].trxn = info[m].trxn /\ info'[m].due = info[m].due
      /\ info'[m].back = info[m].back /\ info'[m] # None
      /\ Running(m)'
  BY <1>0, <1>1, <1>4, EventStarts
<1>6. \A c \in Blocks : /\ info'[c].trxn = info[c].trxn /\ info'[c].due = info[c].due
                        /\ info'[c].back = info[c].back
                        /\ info'[c] # None <=> info[c] # None
  <2>1. info[m] # None
    BY <1>0, <1>1, InHeap
  <2> QED BY <1>5, <2>1
<1>7. TypeOK'
  <2>1. thread' \in [Threads -> [at : Steps, block : Blocks \cup {None}]]
    BY DEF Arm, Goto, TimerInv, TypeOK, Steps
  <2>2. queue' \in Seq(Events)
    BY <1>5
  <2> QED BY <1>1, <1>5, <2>1, <2>2 DEF TimerInv, TypeOK
<1>8. Memory'
  BY <1>1, <1>2, <1>6, SameMemory DEF TimerInv, Out
<1>9. Owners'
  <2>1. \A b \in Blocks : Live(b)' <=> Live(b)
    BY <1>1, <1>2 DEF Live
  <2>2. Starting'
    BY <1>2 DEF Starting
  <2>3. \A b \in Blocks : Live(b) => info'[b] # None
    BY <1>6 DEF TimerInv, Owners
  <2> QED BY <1>1, <1>2, <1>6, <2>1, <2>2, <2>3, SameOwners DEF TimerInv
<1>10. Busy' <=> Busy
  BY <1>1, <1>2, <1>3, <1>6 DEF Busy, Starting
<1>11. \A b \in heap : b \in Blocks
  BY DEF TimerInv, TypeOK
<1>12. Place'
  <2>1. now' # Resting
    BY <1>2 DEF at, Resting
  <2>2. active # None => active \in Blocks
    BY <1>1, <1>11
  <2> QED
    BY <1>1, <1>2, <1>3, <1>6, <1>10, <2>1, <2>2 DEF TimerInv, Place, Starting
<1>13. Engine'
  <2>1. Served' = m
    BY <1>0, <1>2 DEF Served
  <2>2. (Served # None)' => Running(Served)'
    BY <1>5, <2>1 DEF Running
  <2> QED BY <1>0, <1>3, <1>5, <2>1, <2>2 DEF Engine
<1>14. Punctual'
  <2>1. Clock' = mine
    BY <1>2 DEF Clock
  <2> QED BY <1>1, <1>2, <1>3, <1>6, <1>10, <1>11, <2>1 DEF TimerInv, Punctual
<1> QED BY <1>1, <1>5, <1>7, <1>8, <1>9, <1>12, <1>13, <1>14 DEF TimerInv

LEMMA SetActiveStep ==
  ASSUME TimerInv, NEW t \in Threads, Alone(t), SetActive(t)
  PROVE  TimerInv'
<1>1. /\ at = "set" /\ mine \in heap /\ Starting /\ Started(t)
      /\ active' = mine /\ Served = mine /\ Clock = mine
      /\ UNCHANGED <<pool, info, heap, free, event, armed, queue, broken>>
  BY DEF SetActive, Alone, At, at, TimerInv, Place, blocks, engine, Starting, Served, Clock,
         mine
<1>2. mine # None /\ info[mine].back => info[mine].due > 0
  BY <1>1, TimerAssumption DEF TimerInv, Place
<1>3. mine # None
  BY <1>1, InHeap
<1>4. \A b \in heap : \/ info[b].due > info[mine].due - T3
                      \/ Busy /\ info[b].due <= 0
  BY <1>1, <1>3 DEF TimerInv, Punctual
<1> QED BY <1>1, <1>2, <1>3, <1>4, StartReturns

-----------------------------------------------------------------------------
(* Running out *)

LEMMA MoveExpiredStep == ASSUME TimerInv, MoveExpired PROVE TimerInv'
<1>1. /\ armed # {}
      /\ UNCHANGED <<pool, info, heap, active, free, event, broken, thread, hRspTmr,
                     wanted, early>>
  BY DEF MoveExpired, TimerInv, blocks, trxns
<1>2. Served # None
  BY <1>1 DEF TimerInv, Engine
<1>3. PICK e \in Events :
        /\ info[Served].event = e
        /\ event[e] = [block |-> Served, due |-> info[Served].due]
        /\ ~ Occurs(e, free)
        /\ armed = {e} /\ queue = <<>>
  BY <1>1, <1>2 DEF TimerInv, Engine, Running
<1>4. armed' = {} /\ queue' = <<e>> /\ event[e].due <= 0
  BY <1>3 DEF MoveExpired
<1>5. TypeOK'
  <2>1. armed' \subseteq Events /\ queue' \in Seq(Events)
    BY <1>4
  <2> QED BY <1>1, <2>1 DEF TimerInv, TypeOK
<1>6. at' = at /\ mine' = mine /\ now' = now
  BY <1>1, SameNow DEF at, mine
<1>7. Starting' <=> Starting
  BY <1>6 DEF Starting
<1>8. Busy' <=> Busy
  BY <1>1, <1>6, <1>7 DEF Busy
<1>9. Memory'
  BY <1>1, <1>6, SameMemory DEF TimerInv, Out
<1>10. Owners'
  <2>1. \A b \in Blocks : Live(b)' <=> Live(b)
    BY <1>1, <1>6 DEF Live
  <2> QED BY <1>1, <1>6, <1>7, <2>1, SameOwners DEF TimerInv, Owners
<1>11. Place'
  BY <1>1, <1>6, <1>7, <1>8 DEF TimerInv, Place, InPool
<1>12. Engine'
  <2>1. PICK b : b = Served
    OBVIOUS
  <2>2. Served' = b
    BY <1>1, <1>6, <2>1 DEF Served
  <2>3. Running(b)'
    BY <1>1, <1>3, <1>4, <2>1 DEF Running
  <2>4. Running(Served)'
    BY <2>2, <2>3 DEF Running
  <2> QED BY <1>1, <1>2, <2>1, <2>2, <2>4 DEF TimerInv, Engine
<1>13. Punctual'
  <2>1. Clock' = Clock
    BY <1>1, <1>6 DEF Clock
  <2> QED BY <1>1, <1>6, <1>8, <2>1 DEF TimerInv, Punctual
<1> QED BY <1>1, <1>5, <1>9, <1>10, <1>11, <1>12, <1>13 DEF TimerInv

LEMMA DispatchStep == ASSUME TimerInv, Alone(Loop), Dispatch PROVE TimerInv'
<1>1. /\ at = "idle" /\ queue # <<>> /\ Served = active
      /\ UNCHANGED <<pool, info, heap, active, hRspTmr, wanted, early>>
  BY DEF Dispatch, Alone, At, at, TimerInv, blocks, trxns, Served
<1>2. active # None
  BY <1>1 DEF TimerInv, Engine
<1>3. PICK e \in Events :
        /\ info[active].event = e
        /\ event[e] = [block |-> active, due |-> info[active].due]
        /\ ~ Occurs(e, free)
        /\ armed = {} /\ queue = <<e>> /\ info[active].due <= 0
  BY <1>1, <1>2 DEF TimerInv, Engine, Running
<1>4. active \in heap /\ active \in Blocks /\ info[active].due \in Int
  BY <1>1, <1>2, InHeap DEF TimerInv, Place
<1>5. event[e] # None
  <2>1. event[e] \in Event
    BY <1>3, <1>4 DEF Event
  <2> QED BY <2>1, TimerAssumption
<1>6. /\ StopEvent(e)
      /\ thread' = [thread EXCEPT ![Loop] = [at |-> "timeout", block |-> active]]
  <2>1. Head(queue) = e
    BY <1>3
  <2>2. event[Head(queue)].block = active
    BY <1>3, <2>1
  <2> QED BY <2>1, <2>2 DEF Dispatch
<1>7. /\ armed' = {} /\ queue' = <<>> /\ event' = event /\ broken' = FALSE
      /\ free' \in Seq(Events) /\ IsInjective(free')
      /\ \A d \in Events : Occurs(d, free') => event[d] # None
  BY <1>3, <1>5, <1>6, EventStops
<1>8. at' = "timeout" /\ mine' = active /\ ThreadOK'
  <2>1. Loop \in Threads
    BY DEF Threads
  <2> QED BY <1>4, <1>6, <2>1, Moving DEF TimerInv, Steps
<1>9. TypeOK'
  <2>1. queue' \in Seq(Events) /\ armed' \subseteq Events
    BY <1>7
  <2>2. broken' \in BOOLEAN
    BY <1>7
  <2> QED BY <1>1, <1>7, <1>8, <2>1, <2>2 DEF TimerInv, TypeOK, ThreadOK
<1>10. Memory'
  BY <1>1, <1>8, SameMemory DEF TimerInv, Out
<1>11. ~ Starting /\ ~ Starting' /\ ~ Busy'
  BY <1>1, <1>8 DEF Starting, Busy
<1>12. Owners'
  <2>1. \A b \in Blocks : Live(b)' <=> Live(b)
    BY <1>1, <1>8 DEF Live
  <2> QED BY <1>1, <1>11, <2>1, SameOwners DEF TimerInv, Owners
<1>13. Place'
  <2>1. now' # Resting
    BY <1>8 DEF at, Resting
  <2> QED BY <1>1, <1>2, <1>3, <1>4, <1>8, <1>11, <2>1 DEF Place
<1>14. Engine'
  <2>1. Served' = None
    BY <1>8 DEF Served
  <2> QED BY <1>7, <2>1 DEF Engine
<1>15. Punctual'
  BY <1>1, <1>8 DEF TimerInv, Punctual
<1> QED BY <1>1, <1>7, <1>9, <1>10, <1>12, <1>13, <1>14, <1>15 DEF TimerInv

LEMMA ProcessTimeoutStep ==
  ASSUME TimerInv, NEW t \in Threads, Alone(t), ProcessTimeout(t)
  PROVE  TimerInv'
<1>0. at = "timeout"
  BY DEF ProcessTimeout, Alone, At, at
<1>1. /\ at = "timeout" /\ active = mine /\ mine \in heap /\ mine # None
      /\ info[mine].due <= 0 /\ Served = None
      /\ UNCHANGED <<pool, info, heap, free, event, armed, queue, broken, hRspTmr,
                     wanted, early>>
  BY <1>0 DEF ProcessTimeout, TimerInv, Place, blocks, engine, trxns, Served
<1>2. active' = None /\ Goto(t, "remove")
  BY <1>1 DEF ProcessTimeout, Alone, mine
<1>3. at' = "remove" /\ mine' = mine /\ ThreadOK'
  BY <1>2, Going DEF TimerInv, Steps
<1>4. TypeOK'
  BY <1>1, <1>2, <1>3 DEF TimerInv, TypeOK, ThreadOK
<1>5. Memory'
  BY <1>1, <1>3, SameMemory DEF TimerInv, Out
<1>6. ~ Starting /\ ~ Starting'
  BY <1>1, <1>3 DEF Starting
<1>7. Owners'
  <2>1. \A b \in Blocks : Live(b)' <=> Live(b)
    BY <1>1, <1>3 DEF Live
  <2> QED BY <1>1, <1>6, <2>1, SameOwners DEF TimerInv, Owners
<1>8. Place'
  <2>1. now' # Resting
    BY <1>3 DEF at, Resting
  <2> QED BY <1>1, <1>2, <1>3, <1>6, <2>1 DEF Place
<1>9. Engine'
  <2>1. Served' = None
    BY <1>2, <1>3 DEF Served
  <2> QED BY <1>1, <2>1, SameEngine DEF TimerInv
<1>10. Punctual'
  <2>1. Clock' = None
    BY <1>2, <1>3 DEF Clock
  <2> QED BY <1>1, <2>1 DEF TimerInv, Punctual
<1> QED BY <1>1, <1>4, <1>5, <1>7, <1>8, <1>9, <1>10 DEF TimerInv

LEMMA RemoveTimerStep ==
  ASSUME TimerInv, NEW t \in Threads, Alone(t), RemoveTimer(t)
  PROVE  TimerInv'
<1>0. at = "remove"
  BY DEF RemoveTimer, Alone, At, at
<1>1. /\ mine \in heap /\ mine # None /\ mine # active /\ info[mine].due <= 0
      /\ heap' = heap \ {mine}
      /\ UNCHANGED <<pool, info, active, free, event, armed, queue, broken, hRspTmr,
                     wanted, early>>
  BY <1>0 DEF RemoveTimer, TakenOut, Alone, mine, TimerInv, Place, blocks, engine, trxns
<1>2. at' = "give" /\ mine' = mine /\ ThreadOK'
  BY Going DEF RemoveTimer, TimerInv, Steps
<1>3. TypeOK'
  BY <1>1, <1>2 DEF TimerInv, TypeOK, ThreadOK
<1>4. Memory'
  <2>1. \A b \in Blocks : InPool(b)' <=> InPool(b)
    BY <1>1 DEF InPool
  <2>2. \A b \in Blocks : Out(b)' <=> b = mine
    BY <1>2 DEF Out
  <2>3. \A b \in Blocks : ~ Out(b)
    BY <1>0 DEF Out
  <2> QED BY <1>1, <2>1, <2>2, <2>3 DEF TimerInv, Memory
<1>5. ~ Starting /\ ~ Starting'
  BY <1>0, <1>2 DEF Starting
<1>6. Owners'
  <2>1. \A b \in Blocks : Live(b)' <=> Live(b)
    BY <1>0, <1>1, <1>2 DEF Live
  <2> QED BY <1>1, <1>5, <2>1, SameOwners DEF TimerInv, Owners
<1>7. Busy /\ Busy'
  BY <1>0, <1>2 DEF Busy
<1>8. Place'
  <2>1. now' # Resting
    BY <1>2 DEF at, Resting
  <2>2. active # None => active \in heap /\ active # mine /\ info[active].due > 0
    BY <1>0, <1>1, <1>7 DEF TimerInv, Place
  <2> QED BY <1>1, <1>2, <1>5, <1>7, <2>1, <2>2 DEF Place
<1>9. Engine'
  <2>1. Served' = Served
    BY <1>0, <1>1, <1>2 DEF Served
  <2> QED BY <1>1, <2>1, SameEngine DEF TimerInv
<1>10. Punctual'
  <2>1. Clock' = Clock /\ Clock = active
    BY <1>0, <1>1, <1>2 DEF Clock
  <2> QED BY <1>0, <1>1, <1>2, <1>7, <2>1 DEF TimerInv, Punctual
<1> QED BY <1>1, <1>3, <1>4, <1>6, <1>8, <1>9, <1>10 DEF TimerInv

LEMMA GiveBackStep ==
  ASSUME TimerInv, NEW t \in Threads, Alone(t), GiveBack(t)
  PROVE  TimerInv'
<1>0. at = "give"
  BY DEF GiveBack, Alone, At, at
<1>1. /\ mine \in Blocks /\ mine # None /\ info[mine].due <= 0
      /\ mine \notin heap /\ ~ InPool(mine)
      /\ pool' = <<mine>> \o pool
      /\ UNCHANGED <<info, heap, active, free, event, armed, queue, broken, hRspTmr,
                     wanted, early>>
  <2>1. mine \in Blocks /\ mine # None /\ info[mine].due <= 0
    BY <1>0, PlaceType DEF TimerInv, Place
  <2>2. Out(mine)
    BY <1>0 DEF Out
  <2>3. mine \notin heap /\ ~ InPool(mine)
    BY <2>1, <2>2 DEF TimerInv, Memory
  <2> QED BY <2>1, <2>3 DEF GiveBack, Alone, mine, engine, trxns
<1>2. at' = "call" /\ mine' = mine /\ ThreadOK'
  BY Going DEF GiveBack, TimerInv, Steps
<1>p. /\ pool' \in Seq(Blocks) /\ IsInjective(pool')
      /\ \A b : Occurs(b, pool') <=> Occurs(b, pool) \/ b = mine
  BY <1>1, PushList DEF InPool, TimerInv, TypeOK, Memory
<1>3. TypeOK'
  BY <1>1, <1>p, <1>2 DEF TimerInv, TypeOK, ThreadOK
<1>4. Memory'
  <2>1. \A b \in Blocks : InPool(b)' <=> InPool(b) \/ b = mine
    BY <1>p DEF InPool
  <2>2. \A b \in Blocks : ~ Out(b)'
    BY <1>2 DEF Out
  <2>3. \A b \in Blocks : Out(b) <=> b = mine
    BY <1>0 DEF Out
  <2> QED BY <1>1, <1>p, <2>1, <2>2, <2>3 DEF TimerInv, Memory
<1>5. ~ Starting /\ ~ Starting'
  BY <1>0, <1>2 DEF Starting
<1>6. Owners'
  <2>1. \A b \in Blocks : Live(b)' <=> Live(b)
    BY <1>0, <1>1, <1>2 DEF Live
  <2> QED BY <1>1, <1>5, <2>1, SameOwners DEF TimerInv, Owners
<1>7. Busy /\ Busy'
  BY <1>0, <1>2 DEF Busy
<1>8. Place'
  <2>1. now' # Resting
    BY <1>2 DEF at, Resting
  <2>2. active # None => active \in heap /\ info[active].due > 0
    BY <1>0, <1>7 DEF TimerInv, Place
  <2>3. InPool(mine)'
    BY <1>p, <1>2 DEF InPool
  <2> QED BY <1>1, <1>2, <1>5, <1>7, <2>1, <2>2, <2>3 DEF Place
<1>9. Engine'
  <2>1. Served' = Served
    BY <1>0, <1>1, <1>2 DEF Served
  <2> QED BY <1>1, <2>1, SameEngine DEF TimerInv
<1>10. Punctual'
  <2>1. Clock' = Clock /\ Clock = active
    BY <1>0, <1>1, <1>2 DEF Clock
  <2> QED BY <1>0, <1>1, <1>2, <1>7, <2>1 DEF TimerInv, Punctual
<1> QED BY <1>1, <1>3, <1>4, <1>6, <1>8, <1>9, <1>10 DEF TimerInv

\* A block is filled for a timer of a transaction that waits for nothing else.
LEMMA BlockFilled ==
  ASSUME TimerInv, NEW x \in Trxns, NEW time \in {T3, Hold}, NEW here \in {"idle", "call"},
         NEW t \in Threads, Alone(t), Allocate(t, x, time, here)
  PROVE  \E b \in Blocks :
           /\ b \notin heap /\ b # None
           /\ InPool(b) \/ info[b] = None
           /\ pool' \in Seq(Blocks) /\ IsInjective(pool')
           /\ \A c \in Blocks : InPool(c)' <=> InPool(c) /\ c # b
           /\ info' \in [Blocks -> TimeoutInfo \cup {None}]
           /\ \A c \in Blocks \ {b} : info'[c] = info[c]
           /\ info'[b] # None /\ info'[b].trxn = x /\ info'[b].due = time
           /\ info'[b].back = (here = "call")
           /\ at' = "insert" /\ mine' = b /\ ThreadOK'
           /\ wanted' = [wanted EXCEPT ![x] = time]
<1>0. /\ pool \in Seq(Blocks) /\ info \in [Blocks -> TimeoutInfo \cup {None}]
      /\ IsInjective(pool)
  BY DEF TimerInv, TypeOK, Memory
<1>1. PICK b \in NewBlocks :
        /\ pool' = IF pool # <<>> THEN Tail(pool) ELSE pool
        /\ info' = [info EXCEPT ![b] = [trxn |-> x, due |-> time, back |-> here = "call",
                                        event |-> IF info[b] = None THEN None ELSE info[b].event]]
        /\ thread' = [thread EXCEPT ![t] = [at |-> "insert", block |-> b]]
        /\ wanted' = [wanted EXCEPT ![x] = time]
  BY DEF Allocate
<1>2. /\ b \in Blocks /\ (InPool(b) \/ info[b] = None)
      /\ pool' \in Seq(Blocks) /\ IsInjective(pool')
      /\ \A c \in Blocks : Occurs(c, pool') <=> Occurs(c, pool) /\ c # b
  <2>1. CASE pool # <<>>
    <3>1. b = Head(pool) /\ pool' = Tail(pool)
      BY <1>1, <2>1 DEF NewBlocks
    <3> QED BY <1>0, <2>1, <3>1, PopList DEF InPool
  <2>2. CASE pool = <<>>
    <3>1. b \in Blocks /\ info[b] = None /\ pool' = pool
      BY <1>1, <2>2 DEF NewBlocks
    <3>2. \A c : ~ Occurs(c, pool)
      BY <2>2 DEF Occurs
    <3> QED BY <1>0, <3>1, <3>2
  <2> QED BY <2>1, <2>2
<1>3. b \notin heap /\ b # None
  BY <1>2, TimerAssumption DEF TimerInv, Memory
<1>4. \A c \in Blocks : InPool(c)' <=> InPool(c) /\ c # b
  BY <1>2 DEF InPool
<1>5. DEFINE r == [trxn |-> x, due |-> time, back |-> here = "call",
                   event |-> IF info[b] = None THEN None ELSE info[b].event]
<1>6. time \in Int
  BY TimerAssumption
<1>7. (IF info[b] = None THEN None ELSE info[b].event) \in Events \cup {None}
  BY <1>0, <1>2 DEF TimeoutInfo
<1>8. r \in TimeoutInfo /\ r.trxn = x /\ r.due = time /\ r.back = (here = "call")
  BY <1>6, <1>7 DEF TimeoutInfo
<1>9. info'[b] = r /\ \A c \in Blocks \ {b} : info'[c] = info[c]
  BY <1>0, <1>1, <1>2
<1> HIDE DEF r
<1>10. info' \in [Blocks -> TimeoutInfo \cup {None}]
  BY <1>0, <1>1, <1>2, <1>8, <1>9
<1>11. info'[b] # None
  BY <1>8, <1>9, TimerAssumption
<1>12. at' = "insert" /\ mine' = b /\ ThreadOK'
  BY <1>1, <1>2, Moving DEF TimerInv, Steps
<1> QED BY <1>1, <1>2, <1>3, <1>4, <1>8, <1>9, <1>10, <1>11, <1>12

\* The transaction x, whose timer has expired or which has none, starts one.
LEMMA TimerAllocated ==
  ASSUME TimerInv, NEW x \in Trxns, NEW time \in {T3, Hold}, NEW here \in {"idle", "call"},
         NEW t \in Threads, Alone(t), Allocate(t, x, time, here),
         at = here, here = "call" => time = T3,
         UNCHANGED <<heap, active, free, event, armed, queue, broken>>, early' = FALSE,
         hRspTmr' \in [Trxns -> Blocks \cup {None}], hRspTmr'[x] = None,
         \A y \in Trxns : y # x => hRspTmr'[y] = hRspTmr[y],
         \A b \in heap : info[b].trxn # x,
         \A y \in Trxns : y # x /\ wanted[y] # None => \E b \in heap : info[b].trxn = y
  PROVE  TimerInv'
<1>1. \A b \in heap : /\ b \in Blocks /\ Live(b) /\ info[b].trxn # x
                      /\ info[b].trxn \in Trxns
                      /\ wanted[info[b].trxn] = info[b].due
                      /\ hRspTmr[info[b].trxn] = b
                      /\ info[b] # None /\ info[b].due \in Int
  BY InHeap DEF TimerInv, Owners, Starting
<1>2. /\ Served = active /\ Clock = active /\ (active # None => active \in heap)
      /\ Busy <=> here = "call"
  BY DEF Busy, Starting, Served, Clock, TimerInv, Place
<1>3. PICK b \in Blocks :
         /\ b \notin heap /\ b # None
         /\ InPool(b) \/ info[b] = None
         /\ pool' \in Seq(Blocks) /\ IsInjective(pool')
         /\ \A c \in Blocks : InPool(c)' <=> InPool(c) /\ c # b
         /\ info' \in [Blocks -> TimeoutInfo \cup {None}]
         /\ \A c \in Blocks \ {b} : info'[c] = info[c]
         /\ info'[b] # None /\ info'[b].trxn = x /\ info'[b].due = time
         /\ info'[b].back = (here = "call")
         /\ at' = "insert" /\ mine' = b /\ ThreadOK'
         /\ wanted' = [wanted EXCEPT ![x] = time]
  BY BlockFilled
<1>4. /\ wanted' \in [Trxns -> Int \cup {None}] /\ wanted'[x] = time
      /\ \A y \in Trxns : y # x => wanted'[y] = wanted[y]
  BY <1>3, TimerAssumption DEF TimerInv, TypeOK
<1>5. TypeOK'
  BY <1>3, <1>4 DEF TimerInv, TypeOK, ThreadOK
<1>6. \A c \in heap : info'[c] = info[c]
  BY <1>1, <1>3
<1>7. Memory'
  <2>1. \A c \in Blocks : Out(c)' <=> c = b
    BY <1>3 DEF Out
  <2>2. \A c \in Blocks : ~ Out(c)
    BY DEF Out
  <2> QED BY <1>3, <2>1, <2>2 DEF TimerInv, Memory
<1>8. Owners'
  <2>1. \A c \in Blocks : Live(c)' <=> c \in heap \/ c = b
    BY <1>3 DEF Live
  <2>2. ASSUME NEW c \in Blocks, Live(c)'
        PROVE  /\ info'[c] # None
               /\ wanted'[info'[c].trxn] = info'[c].due
               /\ hRspTmr'[info'[c].trxn] = (IF Starting /\ c = mine THEN None ELSE c)'
    <3>1. CASE c = b
      <4>1. (Starting /\ c = mine)'
        BY <1>3, <3>1 DEF Starting
      <4>2. info'[c] # None /\ info'[c].trxn = x /\ wanted'[x] = info'[c].due
        BY <1>3, <1>4, <3>1
      <4>3. hRspTmr'[info'[c].trxn] = None
        BY <4>2
      <4>4. (IF Starting /\ c = mine THEN None ELSE c)' = None
        BY <4>1
      <4>5. wanted'[info'[c].trxn] = info'[c].due
        BY <4>2
      <4> QED BY <4>2, <4>3, <4>4, <4>5
    <3>2. CASE c # b
      <4>1. c \in heap /\ info'[c] = info[c]
        BY <1>6, <2>1, <2>2, <3>2
      <4>2. info[c].trxn \in Trxns /\ info[c].trxn # x /\ info'[c] # None
        BY <1>1, <4>1
      <4>3. wanted'[info[c].trxn] = wanted[info[c].trxn]
        BY <1>4, <4>2
      <4>4. hRspTmr'[info[c].trxn] = hRspTmr[info[c].trxn]
        BY <4>2
      <4>5. wanted'[info[c].trxn] = info[c].due /\ hRspTmr'[info[c].trxn] = c
        BY <1>1, <4>1, <4>3, <4>4
      <4>6. (IF Starting /\ c = mine THEN None ELSE c)' = c
        BY <1>3, <3>2
      <4> QED BY <4>1, <4>2, <4>5, <4>6
    <3> QED BY <3>1, <3>2
  <2>3. ASSUME NEW c \in Blocks, NEW d \in Blocks, Live(c)', Live(d)',
               info'[c].trxn = info'[d].trxn
        PROVE  c = d
    <3>1. (c \in heap \/ c = b) /\ (d \in heap \/ d = b)
      BY <2>1, <2>3
    <3> QED BY <1>1, <1>3, <1>6, <2>3, <3>1 DEF TimerInv, Owners
  <2>4. ASSUME NEW y \in Trxns, wanted'[y] # None
        PROVE  \E c \in Blocks : Live(c)' /\ info'[c].trxn = y
    <3>1. CASE y = x
      BY <1>3, <2>1, <3>1
    <3>2. CASE y # x
      BY <1>1, <1>4, <1>6, <2>1, <2>4, <3>2
    <3> QED BY <3>1, <3>2
  <2>5. \A y \in Trxns : wanted'[y] = None => hRspTmr'[y] = None
    BY <1>4 DEF TimerInv, Owners
  <2> QED BY <2>2, <2>3, <2>4, <2>5 DEF Owners
<1>9. Place'
  <2>1. now' # Resting
    BY <1>3 DEF at, Resting
  <2>2. active # None => active \in heap /\ (here = "call" => info[active].due > 0)
    BY <1>2 DEF TimerInv, Place
  <2>3. Starting' /\ (Busy' <=> here = "call")
    BY <1>3 DEF Busy, Starting
  <2>4. here = "idle" /\ heap # {} => active # None
    BY DEF TimerInv, Place
  <2> QED BY <1>3, <1>6, <2>1, <2>2, <2>3, <2>4 DEF Place
<1>10. Engine'
  <2>1. Served' = Served
    BY <1>2, <1>3 DEF Served
  <2> QED BY <1>2, <1>6, <2>1, SameEngine DEF TimerInv
<1>11. Punctual'
  <2>1. Clock' = active /\ (Busy' <=> Busy)
    BY <1>2, <1>3 DEF Clock, Busy, Starting
  <2>2. \A y \in Trxns : wanted'[y] # None => wanted'[y] > - T3
    <3>1. time > - T3
      BY TimerAssumption
    <3> QED BY <1>4, <3>1 DEF TimerInv, Punctual
  <2> QED BY <1>2, <1>3, <1>6, <2>1, <2>2 DEF TimerInv, Punctual
<1> QED BY <1>5, <1>7, <1>8, <1>9, <1>10, <1>11 DEF TimerInv

LEMMA CallBackStep ==
  ASSUME TimerInv, NEW t \in Threads, Alone(t), CallBack(t)
  PROVE  TimerInv'
<1>0. at = "call"
  BY DEF CallBack, Alone, At, at
<1>a. PICK m, x : m = mine /\ x = info[m].trxn
  OBVIOUS
<1>1. /\ m \in Blocks /\ m # None /\ InPool(m) /\ m \notin heap /\ Live(m)
      /\ info[m] # None /\ x \in Trxns /\ info[m].due \in Int /\ info[m].due <= 0
      /\ wanted[x] = info[m].due /\ wanted[x] # None
  <2>1. m \in Blocks /\ m # None /\ InPool(m) /\ info[m].due <= 0 /\ Live(m)
    BY <1>0, <1>a, PlaceType DEF TimerInv, Place, Live
  <2>2. info[m] \in TimeoutInfo /\ info[m] # None /\ wanted[x] = info[m].due
    BY <1>a, <2>1 DEF TimerInv, TypeOK, Owners
  <2>3. m \notin heap
    BY <2>1 DEF TimerInv, Memory
  <2>4. info[m].due \in Int /\ x \in Trxns
    BY <1>a, <2>2 DEF TimeoutInfo
  <2> QED BY <2>1, <2>2, <2>3, <2>4, TimerAssumption
<1>2. /\ early' = (early \/ wanted[x] = None \/ wanted[x] > 0)
      /\ hRspTmr' = [hRspTmr EXCEPT ![x] = None]
      /\ UNCHANGED <<heap, active, free, event, armed, queue, broken>>
      /\ \/ Allocate(t, x, T3, "call")
         \/ /\ wanted' = [wanted EXCEPT ![x] = None]
            /\ Goto(t, "peek")
            /\ UNCHANGED <<pool, info>>
  BY <1>a DEF CallBack, Alone, mine, engine, blocks
<1>3. early' = FALSE
  <2>1. ~ (wanted[x] > 0)
    BY <1>1
  <2> QED BY <1>1, <1>2, <2>1 DEF TimerInv
<1>4. /\ hRspTmr' \in [Trxns -> Blocks \cup {None}] /\ hRspTmr'[x] = None
      /\ \A y \in Trxns : y # x => hRspTmr'[y] = hRspTmr[y]
  BY <1>1, <1>2 DEF TimerInv, TypeOK
<1>5. \A b \in heap : /\ b \in Blocks /\ b # m /\ Live(b) /\ info[b].trxn # x
                      /\ info[b].trxn \in Trxns
                      /\ wanted[info[b].trxn] = info[b].due
                      /\ hRspTmr[info[b].trxn] = b
                      /\ info[b] # None /\ info[b].due \in Int
  <2> SUFFICES ASSUME NEW b \in heap
               PROVE  /\ b \in Blocks /\ b # m /\ Live(b) /\ info[b].trxn # x
                      /\ info[b].trxn \in Trxns
                      /\ wanted[info[b].trxn] = info[b].due
                      /\ hRspTmr[info[b].trxn] = b
                      /\ info[b] # None /\ info[b].due \in Int
    OBVIOUS
  <2>1. /\ b \in Blocks /\ Live(b) /\ info[b].trxn \in Trxns /\ b # m
        /\ info[b] # None /\ info[b].due \in Int
    BY <1>1, InHeap
  <2>2. info[b].trxn # x
    BY <1>1, <1>a, <2>1 DEF TimerInv, Owners
  <2>3. wanted[info[b].trxn] = info[b].due /\ hRspTmr[info[b].trxn] = b
    BY <1>0, <2>1 DEF TimerInv, Owners, Starting
  <2> QED BY <2>1, <2>2, <2>3
<1>6. \A y \in Trxns : y # x /\ wanted[y] # None => \E b \in heap : info[b].trxn = y
  BY <1>a, <1>0 DEF TimerInv, Owners, Live
<1>7. Busy /\ Served = active /\ Clock = active /\ (active # None => active \in heap)
  BY <1>0 DEF Busy, Served, Clock, TimerInv, Place
<1>8. CASE Allocate(t, x, T3, "call")
  <2>1. \A b \in heap : info[b].trxn # x
    BY <1>5
  <2> QED BY <1>0, <1>1, <1>2, <1>3, <1>4, <1>6, <1>8, <2>1, TimerAllocated
<1>9. CASE /\ wanted' = [wanted EXCEPT ![x] = None]
           /\ Goto(t, "peek")
           /\ UNCHANGED <<pool, info>>
  <2>1. at' = "peek" /\ mine' = m /\ ThreadOK'
    BY <1>a, <1>9, Going DEF TimerInv, Steps
  <2>2. /\ wanted' \in [Trxns -> Int \cup {None}] /\ wanted'[x] = None
        /\ \A y \in Trxns : y # x => wanted'[y] = wanted[y]
    BY <1>1, <1>9 DEF TimerInv, TypeOK
  <2>3. TypeOK'
    BY <1>2, <1>3, <1>4, <1>9, <2>1, <2>2 DEF TimerInv, TypeOK, ThreadOK
  <2>4. Memory'
    BY <1>0, <1>2, <1>9, <2>1, SameMemory DEF TimerInv, Out
  <2>5. Owners'
    <3>1. \A c \in Blocks : Live(c)' <=> c \in heap
      BY <1>2, <2>1 DEF Live
    <3>2. ~ Starting'
      BY <2>1 DEF Starting
    <3>3. ASSUME NEW c \in Blocks, Live(c)'
          PROVE  /\ info'[c] # None
                 /\ wanted'[info'[c].trxn] = info'[c].due
                 /\ hRspTmr'[info'[c].trxn] = c
      BY <1>4, <1>5, <1>9, <2>2, <3>1, <3>3
    <3>4. \A c, d \in Blocks : Live(c)' /\ Live(d)' /\ info'[c].trxn = info'[d].trxn => c = d
      BY <1>5, <1>9, <3>1 DEF TimerInv, Owners
    <3>5. ASSUME NEW y \in Trxns, wanted'[y] # None
          PROVE  \E c \in Blocks : Live(c)' /\ info'[c].trxn = y
      BY <1>5, <1>6, <1>9, <2>2, <3>1, <3>5
    <3>6. \A y \in Trxns : wanted'[y] = None => hRspTmr'[y] = None
      BY <1>4, <2>2 DEF TimerInv, Owners
    <3> QED BY <3>2, <3>3, <3>4, <3>5, <3>6 DEF Owners
  <2>6. Busy' /\ ~ Starting'
    BY <2>1 DEF Busy, Starting
  <2>7. Place'
    <3>1. now' # Resting
      BY <2>1 DEF at, Resting
    <3>2. active # None => active \in heap /\ info[active].due > 0
      BY <1>7 DEF TimerInv, Place
    <3> QED BY <1>2, <1>9, <2>1, <2>6, <3>1, <3>2 DEF Place
  <2>8. Engine'
    <3>1. Served' = Served
      BY <1>2, <1>7, <2>1 DEF Served
    <3> QED BY <1>2, <1>9, <3>1, SameEngine DEF TimerInv
  <2>9. Punctual'
    <3>1. Clock' = active
      BY <1>2, <2>1 DEF Clock
    <3>2. \A y \in Trxns : wanted'[y] # None => wanted'[y] > - T3
      BY <2>2 DEF TimerInv, Punctual
    <3> QED BY <1>0, <1>2, <1>7, <1>9, <2>6, <3>1, <3>2 DEF TimerInv, Punctual
  <2> QED BY <1>2, <1>3, <2>3, <2>4, <2>5, <2>7, <2>8, <2>9 DEF TimerInv
<1> QED BY <1>2, <1>8, <1>9

\* The engine is started for a timer of the heap that is due first, while it runs
\* none.
LEMMA EarliestArmed ==
  ASSUME TimerInv, at \in {"rest", "next"}, active = None, NEW b \in Firsts,
         StartEvent(b, info[b].due), NEW t \in Threads, Alone(t),
         thread' = [thread EXCEPT ![t] = [at |-> "reset", block |-> b]],
         UNCHANGED <<pool, heap, active, hRspTmr, wanted, early>>
  PROVE  TimerInv'
<1>1. b \in heap /\ \A c \in heap : info[b].due <= info[c].due
  BY DEF Firsts
<1>2. /\ b \in Blocks /\ b # None /\ info[b] # None /\ info[b].due \in Int
      /\ \A c \in heap : info[c].due \in Int
  BY <1>1, InHeap
<1>3. armed = {} /\ queue = <<>> /\ ~ Busy /\ ~ Starting
  BY DEF TimerInv, Engine, Served, Busy, Starting
<1>4. at' = "reset" /\ mine' = b /\ ThreadOK'
  BY <1>2, Moving DEF TimerInv, Steps
<1>5. /\ free' \in Seq(Events) /\ armed' \subseteq Events /\ queue' = <<>>
      /\ event' \in [Events -> Event \cup {None}]
      /\ info' \in [Blocks -> TimeoutInfo \cup {None}]
      /\ broken' = broken
      /\ IsInjective(free')
      /\ \A d \in Events : Occurs(d, free') => event'[d] # None
      /\ \A c \in Blocks \ {b} : info'[c] = info[c]
      /\ info'[b].trxn = info[b].trxn /\ info'[b].due = info[b].due
      /\ info'[b].back = info[b].back /\ info'[b] # None
      /\ Running(b)'
  BY <1>1, <1>3, EventStarts
<1>6. \A c \in Blocks : /\ info'[c].trxn = info[c].trxn /\ info'[c].due = info[c].due
                        /\ info'[c] # None <=> info[c] # None
  BY <1>2, <1>5
<1>7. TypeOK'
  <2>1. queue' \in Seq(Events)
    BY <1>5
  <2> QED BY <1>4, <1>5, <2>1 DEF TimerInv, TypeOK, ThreadOK
<1>8. Memory'
  BY <1>4, <1>6, SameMemory DEF TimerInv, Out
<1>9. ~ Starting' /\ ~ Busy'
  BY <1>4 DEF Starting, Busy
<1>10. Owners'
  <2>1. \A c \in Blocks : Live(c)' <=> Live(c)
    BY <1>4 DEF Live
  <2>2. \A c \in Blocks : Live(c) => info'[c] # None
    BY <1>6 DEF TimerInv, Owners
  <2> QED BY <1>3, <1>6, <1>9, <2>1, <2>2, SameOwners DEF TimerInv
<1>11. Place'
  <2>1. now' # Resting
    BY <1>4 DEF at, Resting
  <2> QED BY <1>1, <1>2, <1>4, <1>9, <2>1 DEF Place
<1>12. Engine'
  <2>1. Served' = b
    BY <1>4 DEF Served
  <2>2. Running(Served)'
    BY <1>5, <2>1 DEF Running
  <2> QED BY <1>2, <1>5, <2>1, <2>2 DEF Engine
<1>13. Punctual'
  <2>1. Clock' = b
    BY <1>4 DEF Clock
  <2>2. \A c \in heap : c \in Blocks /\ info'[c].due > info'[b].due - T3
    <3> SUFFICES ASSUME NEW c \in heap
                 PROVE  c \in Blocks /\ info'[c].due > info'[b].due - T3
      OBVIOUS
    <3>1. c \in Blocks /\ info[b].due <= info[c].due
      BY <1>1, InHeap
    <3> QED BY <1>2, <1>6, <3>1, TimerAssumption
  <2> QED BY <2>1, <2>2 DEF TimerInv, Punctual
<1> QED BY <1>5, <1>7, <1>8, <1>10, <1>11, <1>12, <1>13 DEF TimerInv

LEMMA PeekDueStep ==
  ASSUME TimerInv, NEW t \in Threads, Alone(t), PeekDue(t)
  PROVE  TimerInv'
<1>0. /\ at = "peek" /\ Busy /\ ~ Starting /\ Served = active /\ Clock = active
      /\ UNCHANGED <<pool, info, heap, active, free, event, armed, queue, broken, hRspTmr,
                     wanted, early>>
  BY DEF PeekDue, Alone, At, at, Busy, Starting, Served, Clock, blocks, engine, trxns
<1>1. active # None => active \in heap /\ info[active].due > 0 /\ info[active].due \in Int
  BY <1>0, InHeap DEF TimerInv, Place
<1>2. ASSUME at' \in {"remove", "rest"}, ThreadOK',
             at' = "remove" => mine' \in heap /\ mine' # None /\ info[mine'].due <= 0,
             at' = "rest" => \A b \in heap : info[b].due > 0
      PROVE  TimerInv'
  <2>1. TypeOK'
    BY <1>0, <1>2 DEF TimerInv, TypeOK, ThreadOK
  <2>2. Memory'
    BY <1>0, <1>2, SameMemory DEF TimerInv, Out
  <2>3. ~ Starting' /\ (Busy' <=> at' = "remove")
    BY <1>2 DEF Starting, Busy
  <2>4. Owners'
    <3>1. \A c \in Blocks : Live(c)' <=> Live(c)
      BY <1>0, <1>2 DEF Live
    <3> QED BY <1>0, <2>3, <3>1, SameOwners DEF TimerInv, Owners
  <2>5. Place'
    <3>1. now' # Resting
      BY <1>2 DEF at, Resting
    <3>2. at' = "remove" => mine' # active
      BY <1>0, <1>1, <1>2
    <3> QED BY <1>0, <1>1, <1>2, <2>3, <3>1, <3>2 DEF Place
  <2>6. Engine'
    <3>1. Served' = Served
      BY <1>0, <1>2 DEF Served
    <3> QED BY <1>0, <3>1, SameEngine DEF TimerInv
  <2>7. Punctual'
    <3>1. Clock' = active
      BY <1>0, <1>2 DEF Clock
    <3>2. \A b \in heap : info[b].due \in Int
      BY InHeap
    <3> QED BY <1>0, <1>2, <2>3, <3>1, <3>2 DEF TimerInv, Punctual
  <2> QED BY <1>0, <2>1, <2>2, <2>4, <2>5, <2>6, <2>7 DEF TimerInv
<1>3. ASSUME NEW b \in Firsts, Expired(b),
             thread' = [thread EXCEPT ![t] = [at |-> "remove", block |-> b]]
      PROVE  TimerInv'
  <2>1. b \in heap /\ b \in Blocks /\ b # None /\ info[b].due <= 0
    BY <1>3, InHeap DEF Firsts, Expired
  <2>2. at' = "remove" /\ mine' = b /\ ThreadOK'
    BY <1>3, <2>1, Moving DEF TimerInv, Steps
  <2> QED BY <1>2, <2>1, <2>2
<1>4. ASSUME ~ \E b \in heap : Expired(b), Goto(t, "rest")
      PROVE  TimerInv'
  <2>1. at' = "rest" /\ ThreadOK'
    BY <1>4, Going DEF TimerInv, Steps
  <2>2. \A b \in heap : info[b].due > 0
    <3> SUFFICES ASSUME NEW b \in heap PROVE info[b].due > 0
      OBVIOUS
    <3>1. ~ (info[b].due <= 0) /\ info[b].due \in Int
      BY <1>4, InHeap DEF Expired
    <3> QED BY <3>1
  <2> QED BY <1>2, <2>1, <2>2
<1> QED BY <1>3, <1>4 DEF PeekDue

LEMMA RearmStep ==
  ASSUME TimerInv, NEW t \in Threads, Alone(t), Rearm(t)
  PROVE  TimerInv'
<1>1. at = "rest" /\ active = None /\ UNCHANGED <<pool, heap, active, hRspTmr, wanted, early>>
  BY DEF Rearm, Alone, At, at, MustRearm, trxns
<1>2. PICK b \in Firsts :
        /\ StartEvent(b, info[b].due)
        /\ thread' = [thread EXCEPT ![t] = [at |-> "reset", block |-> b]]
  BY DEF Rearm
<1> QED BY <1>1, <1>2, EarliestArmed

\* The thread comes to rest: nothing is pending, or a timer runs.
LEMMA Rests ==
  ASSUME TimerInv, at \in {"rest", "reset", "replace", "next"},
         NEW t \in Threads, Alone(t), Return(t, FALSE),
         active' = Served, active' # None => active' \in heap,
         heap # {} => active' # None,
         active' # None => \A b \in heap : info[b].due > info[active'].due - T3,
         UNCHANGED <<pool, info, heap, free, event, armed, queue, broken, hRspTmr,
                     wanted, early>>
  PROVE  TimerInv'
<1>1. at' = "idle" /\ mine' = None /\ now' = Resting /\ ThreadOK'
  BY Returning DEF TimerInv
<1>2. ~ Starting /\ ~ Starting' /\ ~ Busy'
  BY <1>1 DEF Starting, Busy
<1>3. TypeOK'
  <2>1. active' \in Blocks \cup {None}
    BY DEF TimerInv, TypeOK
  <2> QED BY <1>1, <2>1 DEF TimerInv, TypeOK, ThreadOK
<1>4. Memory'
  BY <1>1, SameMemory DEF TimerInv, Out
<1>5. Owners'
  <2>1. \A c \in Blocks : Live(c)' <=> Live(c)
    BY <1>1 DEF Live
  <2> QED BY <1>2, <2>1, SameOwners DEF TimerInv, Owners
<1>6. Place'
  BY <1>1, <1>2 DEF Place
<1>7. Engine'
  <2>1. Served' = Served
    BY <1>1 DEF Served
  <2> QED BY <2>1, SameEngine DEF TimerInv
<1>8. Punctual'
  <2>1. Clock' = active'
    BY <1>1 DEF Clock
  <2> QED BY <1>1, <2>1 DEF TimerInv, Punctual
<1> QED BY <1>3, <1>4, <1>5, <1>6, <1>7, <1>8 DEF TimerInv

LEMMA RestStep ==
  ASSUME TimerInv, NEW t \in Threads, Alone(t), Rest(t)
  PROVE  TimerInv'
<1>1. /\ at = "rest" /\ ~ MustRearm /\ Return(t, FALSE) /\ Served = active /\ Clock = active
      /\ UNCHANGED <<pool, info, heap, active, free, event, armed, queue, broken, hRspTmr,
                     wanted, early>>
  BY DEF Rest, Alone, At, at, Served, Clock, blocks, engine, trxns
<1>2. active # None => active \in heap
  BY <1>1 DEF TimerInv, Place
<1>3. ~ Busy
  BY <1>1 DEF Busy, Starting
<1>4. active # None => \A b \in heap : info[b].due > info[active].due - T3
  BY <1>1, <1>3 DEF TimerInv, Punctual
<1> QED BY <1>1, <1>2, <1>4, Rests DEF MustRearm

LEMMA ResetActiveStep ==
  ASSUME TimerInv, NEW t \in Threads, Alone(t), ResetActive(t)
  PROVE  TimerInv'
<1>1. /\ at = "reset" /\ Return(t, FALSE) /\ Served = mine /\ Clock = mine /\ active' = mine
      /\ UNCHANGED <<pool, info, heap, free, event, armed, queue, broken, hRspTmr,
                     wanted, early>>
  BY DEF ResetActive, Alone, At, at, mine, Served, Clock, blocks, engine, trxns
<1>2. mine \in heap /\ mine # None
  BY <1>1, InHeap DEF TimerInv, Place
<1>3. ~ Busy
  BY <1>1 DEF Busy, Starting
<1>4. \A b \in heap : info[b].due > info[mine].due - T3
  BY <1>1, <1>2, <1>3 DEF TimerInv, Punctual
<1> QED BY <1>1, <1>2, <1>4, Rests

-----------------------------------------------------------------------------
(* Starting and stopping from a transaction *)

LEMMA StartTimerStep ==
  ASSUME TimerInv, NEW t \in Threads, Alone(t), StartTimer(t)
  PROVE  TimerInv'
<1>1. /\ at = "idle"
      /\ UNCHANGED <<heap, active, free, event, armed, queue, broken, hRspTmr, early>>
  BY DEF StartTimer, Alone, At, at, engine
<1>2. PICK x \in Trxns, time \in {T3, Hold} :
        wanted[x] = None /\ hRspTmr[x] = None /\ Allocate(t, x, time, "idle")
  BY DEF StartTimer
<1>3. early' = FALSE /\ hRspTmr' \in [Trxns -> Blocks \cup {None}] /\ hRspTmr'[x] = None
  BY <1>1, <1>2 DEF TimerInv, TypeOK
<1>4. \A b \in heap : info[b].trxn # x
  <2> SUFFICES ASSUME NEW b \in heap PROVE info[b].trxn # x
    OBVIOUS
  <2>1. info[b].due \in Int /\ wanted[info[b].trxn] = info[b].due
    BY InHeap DEF TimerInv, Owners
  <2> QED BY <1>2, <2>1, TimerAssumption
<1>5. \A y \in Trxns : y # x /\ wanted[y] # None => \E b \in heap : info[b].trxn = y
  BY <1>1 DEF TimerInv, Owners, Live
<1> QED BY <1>1, <1>2, <1>3, <1>4, <1>5, TimerAllocated

LEMMA StopTimerStep ==
  ASSUME TimerInv, NEW t \in Threads, Alone(t), StopTimer(t)
  PROVE  TimerInv'
<1>1. /\ at = "idle" /\ ~ Starting /\ Served = active /\ Clock = active
      /\ UNCHANGED <<pool, info, active, free, event, armed, queue, broken, early>>
  BY DEF StopTimer, Alone, At, at, engine, blocks, Starting, Served, Clock
<1>2. PICK x \in Trxns, h \in Blocks \cup {None} :
        /\ h = hRspTmr[x] /\ h # None
        /\ heap' = heap \ {h}
        /\ thread' = [thread EXCEPT ![t] = [at |-> "stopped", block |-> h]]
        /\ hRspTmr' = [hRspTmr EXCEPT ![x] = None]
        /\ wanted' = [wanted EXCEPT ![x] = None]
  BY DEF StopTimer, TakenOut, TimerInv, TypeOK
<1>3. \A b \in heap : /\ b \in Blocks /\ b # None /\ info[b] # None
                      /\ info[b].trxn \in Trxns /\ Live(b)
                      /\ wanted[info[b].trxn] = info[b].due
                      /\ hRspTmr[info[b].trxn] = b
  BY <1>1, InHeap DEF TimerInv, Owners
<1>4. \A b \in Blocks : Live(b) <=> b \in heap
  BY <1>1 DEF Live
<1>5. h \in heap /\ h \in Blocks /\ info[h].trxn = x
  <2>1. wanted[x] # None
    BY <1>2 DEF TimerInv, Owners
  <2>2. PICK b \in Blocks : b \in heap /\ info[b].trxn = x
    BY <1>4, <2>1 DEF TimerInv, Owners
  <2> QED BY <1>2, <1>3, <2>2
<1>6. at' = "stopped" /\ mine' = h /\ ThreadOK'
  BY <1>2, <1>5, Moving DEF TimerInv, Steps
<1>7. /\ wanted' \in [Trxns -> Int \cup {None}] /\ wanted'[x] = None
      /\ hRspTmr' \in [Trxns -> Blocks \cup {None}] /\ hRspTmr'[x] = None
      /\ \A y \in Trxns : y # x => wanted'[y] = wanted[y] /\ hRspTmr'[y] = hRspTmr[y]
  BY <1>2 DEF TimerInv, TypeOK
<1>8. TypeOK'
  BY <1>1, <1>2, <1>6, <1>7 DEF TimerInv, TypeOK, ThreadOK
<1>9. Memory'
  <2>1. \A b \in Blocks : InPool(b)' <=> InPool(b)
    BY <1>1 DEF InPool
  <2>2. \A b \in Blocks : Out(b)' <=> b = h
    BY <1>6 DEF Out
  <2>3. \A b \in Blocks : ~ Out(b)
    BY <1>1 DEF Out
  <2> QED BY <1>1, <1>2, <1>5, <2>1, <2>2, <2>3 DEF TimerInv, Memory
<1>10. ~ Starting' /\ ~ Busy' /\ ~ Busy
  BY <1>1, <1>6 DEF Starting, Busy
<1>11. Owners'
  <2>1. \A b \in Blocks : Live(b)' <=> b \in heap /\ b # h
    BY <1>2, <1>6 DEF Live
  <2>2. \A b \in heap : b # h => info[b].trxn # x
    BY <1>3, <1>5 DEF TimerInv, Owners
  <2>3. ASSUME NEW b \in Blocks, Live(b)'
        PROVE  info'[b] # None /\ wanted'[info'[b].trxn] = info'[b].due
                 /\ hRspTmr'[info'[b].trxn] = b
    <3>1. b \in heap /\ info'[b] = info[b] /\ info[b].trxn # x
      BY <1>1, <2>1, <2>2, <2>3
    <3>2. /\ wanted'[info[b].trxn] = wanted[info[b].trxn]
          /\ hRspTmr'[info[b].trxn] = hRspTmr[info[b].trxn]
      BY <1>3, <1>7, <3>1
    <3> QED BY <1>3, <3>1, <3>2
  <2>4. \A b, c \in Blocks : Live(b)' /\ Live(c)' /\ info'[b].trxn = info'[c].trxn => b = c
    BY <1>1, <1>3, <2>1 DEF TimerInv, Owners
  <2>5. ASSUME NEW y \in Trxns, wanted'[y] # None
        PROVE  \E b \in Blocks : Live(b)' /\ info'[b].trxn = y
    <3>1. y # x /\ wanted[y] # None
      BY <1>7, <2>5
    <3>2. PICK b \in Blocks : b \in heap /\ info[b].trxn = y
      BY <1>4, <3>1 DEF TimerInv, Owners
    <3> QED BY <1>1, <1>5, <2>1, <3>1, <3>2
  <2>6. \A y \in Trxns : wanted'[y] = None => hRspTmr'[y] = None
    BY <1>7 DEF TimerInv, Owners
  <2> QED BY <1>10, <2>3, <2>4, <2>5, <2>6 DEF Owners
<1>12. Place'
  <2>1. now' # Resting
    BY <1>6 DEF at, Resting
  <2>2. active # None => active \in heap
    BY <1>1 DEF TimerInv, Place
  <2>3. heap' # {} => active # None
    BY <1>1, <1>2 DEF TimerInv, Place
  <2> QED BY <1>1, <1>2, <1>6, <1>10, <2>1, <2>2, <2>3 DEF Place
<1>13. Engine'
  <2>1. Served' = Served
    BY <1>1, <1>6 DEF Served
  <2> QED BY <1>1, <2>1, SameEngine DEF TimerInv
<1>14. Punctual'
  <2>1. Clock' = active
    BY <1>1, <1>6 DEF Clock
  <2>2. \A y \in Trxns : wanted'[y] # None => wanted'[y] > - T3
    BY <1>7 DEF TimerInv, Punctual
  <2> QED BY <1>1, <1>2, <1>6, <1>10, <2>1, <2>2 DEF TimerInv, Punctual
<1> QED BY <1>1, <1>8, <1>9, <1>11, <1>12, <1>13, <1>14 DEF TimerInv

LEMMA GiveBackStoppedStep ==
  ASSUME TimerInv, NEW t \in Threads, Alone(t), GiveBackStopped(t)
  PROVE  TimerInv'
<1>0. at = "stopped"
  BY DEF GiveBackStopped, Alone, At, at
<1>1. /\ mine \in Blocks /\ mine # None
      /\ mine \notin heap /\ ~ InPool(mine)
      /\ pool' = <<mine>> \o pool
      /\ UNCHANGED <<info, heap, active, free, event, armed, queue, broken, hRspTmr,
                     wanted, early>>
  <2>1. mine \in Blocks /\ mine # None
    BY <1>0, PlaceType DEF TimerInv, Place
  <2>2. Out(mine)
    BY <1>0 DEF Out
  <2>3. mine \notin heap /\ ~ InPool(mine)
    BY <2>1, <2>2 DEF TimerInv, Memory
  <2> QED BY <2>1, <2>3 DEF GiveBackStopped, Alone, mine, engine, trxns
<1>2. at' = "replace" /\ mine' = mine /\ ThreadOK'
  BY Going DEF GiveBackStopped, TimerInv, Steps
<1>p. /\ pool' \in Seq(Blocks) /\ IsInjective(pool')
      /\ \A b : Occurs(b, pool') <=> Occurs(b, pool) \/ b = mine
  BY <1>1, PushList DEF InPool, TimerInv, TypeOK, Memory
<1>3. TypeOK'
  BY <1>1, <1>p, <1>2 DEF TimerInv, TypeOK, ThreadOK
<1>4. Memory'
  <2>1. \A b \in Blocks : InPool(b)' <=> InPool(b) \/ b = mine
    BY <1>p DEF InPool
  <2>2. \A b \in Blocks : ~ Out(b)'
    BY <1>2 DEF Out
  <2>3. \A b \in Blocks : Out(b) <=> b = mine
    BY <1>0 DEF Out
  <2> QED BY <1>1, <1>p, <2>1, <2>2, <2>3 DEF TimerInv, Memory
<1>5. ~ Starting /\ ~ Starting' /\ ~ Busy /\ ~ Busy'
  BY <1>0, <1>2 DEF Starting, Busy
<1>6. Owners'
  <2>1. \A b \in Blocks : Live(b)' <=> Live(b)
    BY <1>0, <1>1, <1>2 DEF Live
  <2> QED BY <1>1, <1>5, <2>1, SameOwners DEF TimerInv, Owners
<1>8. Place'
  <2>1. now' # Resting
    BY <1>2 DEF at, Resting
  <2>2. active # None => active \in heap \/ active = mine
    BY <1>0 DEF TimerInv, Place
  <2>3. heap # {} => active # None
    BY <1>0 DEF TimerInv, Place
  <2>4. InPool(mine)'
    BY <1>p, <1>2 DEF InPool
  <2> QED BY <1>1, <1>2, <1>5, <2>1, <2>2, <2>3, <2>4 DEF Place
<1>9. Engine'
  <2>1. Served' = Served
    BY <1>0, <1>1, <1>2 DEF Served
  <2> QED BY <1>1, <2>1, SameEngine DEF TimerInv
<1>10. Punctual'
  <2>1. Clock' = Clock /\ Clock = active
    BY <1>0, <1>1, <1>2 DEF Clock
  <2> QED BY <1>0, <1>1, <1>2, <1>5, <2>1 DEF TimerInv, Punctual
<1> QED BY <1>1, <1>3, <1>4, <1>6, <1>8, <1>9, <1>10 DEF TimerInv

LEMMA ReplaceActiveStep ==
  ASSUME TimerInv, NEW t \in Threads, Alone(t), ReplaceActive(t)
  PROVE  TimerInv'
<1>0. /\ at = "replace" /\ mine \in Blocks /\ mine # None /\ InPool(mine)
      /\ Served = active /\ Clock = active /\ ~ Busy /\ ~ Starting
      /\ UNCHANGED <<pool, info, heap, hRspTmr, wanted, early>>
  <2>1. at = "replace"
    BY DEF ReplaceActive, Alone, At, at
  <2>2. mine \in Blocks /\ mine # None /\ InPool(mine)
    BY <2>1, PlaceType DEF TimerInv, Place
  <2> QED BY <2>1, <2>2 DEF ReplaceActive, Served, Clock, Busy, Starting, blocks, trxns
<1>1. CASE active # mine
  <2>1. Return(t, FALSE) /\ UNCHANGED <<active, free, event, armed, queue, broken>>
    BY <1>1 DEF ReplaceActive, Alone, mine, engine
  <2>2. active # None => active \in heap
    BY <1>0, <1>1 DEF TimerInv, Place
  <2>3. heap # {} => active # None
    BY <1>0 DEF TimerInv, Place
  <2>4. active # None => \A b \in heap : info[b].due > info[active].due - T3
    BY <1>0 DEF TimerInv, Punctual
  <2> QED BY <1>0, <2>1, <2>2, <2>3, <2>4, Rests
<1>2. CASE active = mine
  <2>1. StopEvent(info[active].event) /\ active' = None /\ Goto(t, "next")
    BY <1>2 DEF ReplaceActive, Alone, mine
  <2>2. at' = "next" /\ mine' = mine /\ ThreadOK'
    BY <2>1, Going DEF TimerInv, Steps
  <2>3. PICK e \in Events :
          /\ info[active].event = e
          /\ event[e] = [block |-> active, due |-> info[active].due]
          /\ ~ Occurs(e, free)
          /\ \/ armed = {e} /\ queue = <<>>
             \/ armed = {} /\ queue = <<e>>
    BY <1>0, <1>2 DEF TimerInv, Engine, Running
  <2>4. event[e] # None
    <3>1. info[mine] # None /\ info[mine] \in TimeoutInfo
      BY <1>0 DEF TimerInv, Memory, TypeOK
    <3>2. event[e] \in Event
      BY <1>0, <1>2, <2>3, <3>1 DEF TimeoutInfo, Event
    <3> QED BY <3>2, TimerAssumption
  <2>5. /\ armed' = {} /\ queue' = <<>> /\ event' = event /\ broken' = FALSE
        /\ free' \in Seq(Events) /\ IsInjective(free')
        /\ \A d \in Events : Occurs(d, free') => event[d] # None
    BY <2>1, <2>3, <2>4, EventStops
  <2>6. TypeOK'
    <3>1. queue' \in Seq(Events) /\ armed' \subseteq Events
      BY <2>5
    <3>2. broken' \in BOOLEAN
      BY <2>5
    <3>3. active' \in Blocks \cup {None}
      BY <2>1
    <3> QED BY <1>0, <2>2, <2>5, <3>1, <3>2, <3>3 DEF TimerInv, TypeOK, ThreadOK
  <2>7. Memory'
    BY <1>0, <2>2, SameMemory DEF TimerInv, Out
  <2>8. ~ Starting' /\ ~ Busy'
    BY <2>2 DEF Starting, Busy
  <2>9. Owners'
    <3>1. \A b \in Blocks : Live(b)' <=> Live(b)
      BY <1>0, <2>2 DEF Live
    <3> QED BY <1>0, <2>8, <3>1, SameOwners DEF TimerInv, Owners
  <2>10. Place'
    <3>1. now' # Resting
      BY <2>2 DEF at, Resting
    <3> QED BY <2>1, <2>2, <2>8, <3>1 DEF Place
  <2>11. Engine'
    <3>1. Served' = None
      BY <2>1, <2>2 DEF Served
    <3> QED BY <2>5, <3>1 DEF Engine
  <2>12. Punctual'
    <3>1. Clock' = None
      BY <2>1, <2>2 DEF Clock
    <3> QED BY <1>0, <3>1 DEF TimerInv, Punctual
  <2> QED BY <1>0, <2>5, <2>6, <2>7, <2>9, <2>10, <2>11, <2>12 DEF TimerInv
<1> QED BY <1>1, <1>2

LEMMA NextActiveStep ==
  ASSUME TimerInv, NEW t \in Threads, Alone(t), NextActive(t)
  PROVE  TimerInv'
<1>0. /\ at = "next" /\ active = None /\ Served = None /\ ~ Starting
      /\ UNCHANGED <<pool, heap, hRspTmr, wanted, early>>
  BY DEF NextActive, Alone, At, at, TimerInv, Place, Served, Starting, trxns
<1>1. CASE heap = {} /\ Return(t, FALSE) /\ UNCHANGED <<info, active, engine>>
  <2>1. UNCHANGED <<info, active, free, event, armed, queue, broken>>
    BY <1>1 DEF engine
  <2> QED BY <1>0, <1>1, <2>1, Rests
<1>2. ASSUME NEW b \in Firsts, active' = b, UNCHANGED <<info, engine>>, Overdue(b),
             thread' = [thread EXCEPT ![t] = [at |-> "timeout", block |-> b]]
      PROVE  TimerInv'
  <2>1. b \in heap /\ b \in Blocks /\ b # None /\ info[b].due \in Int /\ info[b].due <= 0
    <3>1. b \in heap /\ info[b].due < 0
      BY <1>2 DEF Firsts, Overdue
    <3> QED BY <3>1, InHeap
  <2>2. at' = "timeout" /\ mine' = b /\ ThreadOK'
    BY <1>2, <2>1, Moving DEF TimerInv, Steps
  <2>3. UNCHANGED <<info, free, event, armed, queue, broken>>
    BY <1>2 DEF engine
  <2>4. TypeOK'
    BY <1>0, <1>2, <2>1, <2>2, <2>3 DEF TimerInv, TypeOK, ThreadOK
  <2>5. Memory'
    BY <1>0, <2>2, <2>3, SameMemory DEF TimerInv, Out
  <2>6. ~ Starting' /\ ~ Busy'
    BY <2>2 DEF Starting, Busy
  <2>7. Owners'
    <3>1. \A c \in Blocks : Live(c)' <=> Live(c)
      BY <1>0, <2>2 DEF Live
    <3> QED BY <1>0, <2>3, <2>6, <3>1, SameOwners DEF TimerInv, Owners
  <2>8. Place'
    <3>1. now' # Resting
      BY <2>2 DEF at, Resting
    <3> QED BY <1>0, <1>2, <2>1, <2>2, <2>3, <2>6, <3>1 DEF Place
  <2>9. Engine'
    <3>1. Served' = None
      BY <2>2 DEF Served
    <3> QED BY <1>0, <2>3, <3>1, SameEngine DEF TimerInv
  <2>10. Punctual'
    BY <1>0, <2>2 DEF TimerInv, Punctual
  <2> QED BY <1>0, <2>3, <2>4, <2>5, <2>7, <2>8, <2>9, <2>10 DEF TimerInv
<1>3. ASSUME NEW b \in Firsts, StartEvent(b, info[b].due), UNCHANGED active,
             thread' = [thread EXCEPT ![t] = [at |-> "reset", block |-> b]]
      PROVE  TimerInv'
  BY <1>0, <1>3, EarliestArmed
<1> QED BY <1>1, <1>2, <1>3 DEF NextActive

-----------------------------------------------------------------------------
(* Time passes *)

LEMMA TickStep == ASSUME TimerInv, Tick PROVE TimerInv'
<1>0. /\ at = "idle" /\ ~ Starting /\ ~ Busy /\ Served = active /\ Clock = active
      /\ UNCHANGED <<pool, heap, active, free, armed, queue, thread, hRspTmr, early, broken>>
  <2>1. now = Resting
    BY SomeThread DEF Tick, AllRest
  <2>2. at = "idle"
    BY <2>1 DEF at, Resting
  <2> QED BY <2>2 DEF Tick, Starting, Busy, Served, Clock
<1>1. at' = at /\ mine' = mine /\ ~ Starting' /\ ~ Busy' /\ Served' = active /\ Clock' = active
  <2>1. at' = at /\ mine' = mine
    BY <1>0, SameNow DEF at, mine
  <2> QED BY <1>0, <2>1 DEF Starting, Busy, Served, Clock
<1>2. \A b \in Blocks : Live(b) <=> b \in heap
  BY <1>0 DEF Live
<1>3. \A b \in heap : /\ b \in Blocks /\ b # None /\ info[b] # None /\ info[b] \in TimeoutInfo
                      /\ info[b].trxn \in Trxns /\ info[b].due \in Int
                      /\ wanted[info[b].trxn] = info[b].due
                      /\ hRspTmr[info[b].trxn] = b
  BY <1>0, <1>2, InHeap DEF TimerInv, Owners
<1>4. /\ active # None => active \in heap
      /\ heap # {} => active # None
  BY <1>0 DEF TimerInv, Place
<1>5. \A b \in Blocks : info'[b] = IF b \in heap THEN [info[b] EXCEPT !.due = info[b].due - 1]
                                   ELSE info[b]
  BY DEF Tick
<1>6. \A b \in heap : /\ info'[b] \in TimeoutInfo /\ info'[b] # None
                      /\ info'[b].trxn = info[b].trxn /\ info'[b].event = info[b].event
                      /\ info'[b].due = info[b].due - 1
  <2> SUFFICES ASSUME NEW b \in heap
               PROVE  /\ info'[b] \in TimeoutInfo /\ info'[b] # None
                      /\ info'[b].trxn = info[b].trxn /\ info'[b].event = info[b].event
                      /\ info'[b].due = info[b].due - 1
    OBVIOUS
  <2>1. info'[b] = [info[b] EXCEPT !.due = info[b].due - 1]
    BY <1>3, <1>5
  <2>2. info[b] \in TimeoutInfo /\ info[b].due - 1 \in Int
    BY <1>3
  <2>3. /\ info'[b] \in TimeoutInfo
        /\ info'[b].trxn = info[b].trxn /\ info'[b].event = info[b].event
        /\ info'[b].due = info[b].due - 1
    BY <2>1, <2>2 DEF TimeoutInfo
  <2> QED BY <2>3, TimerAssumption
<1>7. \A b \in Blocks \ heap : info'[b] = info[b]
  BY <1>5
<1>8. info' \in [Blocks -> TimeoutInfo \cup {None}]
  <2>1. info' = [b \in Blocks |-> info'[b]]
    BY DEF Tick
  <2>2. \A b \in Blocks : info'[b] \in TimeoutInfo \cup {None}
    BY <1>6, <1>7 DEF TimerInv, TypeOK
  <2> QED BY <2>1, <2>2
<1>9. \A x \in Trxns : wanted'[x] = IF wanted[x] = None THEN None ELSE wanted[x] - 1
  BY DEF Tick
<1>10. /\ wanted' \in [Trxns -> Int \cup {None}]
       /\ \A x \in Trxns : wanted'[x] = None <=> wanted[x] = None
  <2>1. wanted' = [x \in Trxns |-> wanted'[x]]
    BY DEF Tick
  <2>2. \A x \in Trxns : wanted[x] # None => wanted[x] \in Int
    BY DEF TimerInv, TypeOK
  <2>3. ASSUME NEW x \in Trxns
        PROVE  wanted'[x] \in Int \cup {None} /\ (wanted'[x] = None <=> wanted[x] = None)
    BY <1>9, <2>2, TimerAssumption
  <2> QED BY <2>1, <2>3
<1>11. ASSUME active # None
       PROVE  /\ Running(active)' /\ info[active].due > 0
              /\ event' \in [Events -> Event \cup {None}]
              /\ \A e \in Events : event'[e] # None <=> event[e] # None
  <2>1. PICK e \in Events :
          /\ info[active].event = e
          /\ event[e] = [block |-> active, due |-> info[active].due]
          /\ ~ Occurs(e, free)
          /\ armed = {e} /\ queue = <<>>
    <3>1. queue = <<>>
      BY DEF Tick
    <3> QED BY <1>0, <1>11, <3>1 DEF TimerInv, Engine, Running
  <2>2. info[active].due > 0
    BY <2>1 DEF Tick
  <2>3. event'[e] = [event[e] EXCEPT !.due = event[e].due - 1]
    BY <2>1 DEF Tick
  <2>4. event'[e] = [block |-> active, due |-> info[active].due - 1]
    BY <2>1, <2>3
  <2>5. \A d \in Events : d # e => event'[d] = event[d]
    BY <2>1 DEF Tick
  <2>6. event[e] \in Event /\ event'[e] \in Event
    BY <1>3, <1>4, <1>11, <2>1, <2>4 DEF Event
  <2>7. event' \in [Events -> Event \cup {None}]
    <3>1. event' = [d \in Events |-> event'[d]]
      BY DEF Tick
    <3>2. \A d \in Events : event'[d] \in Event \cup {None}
      BY <2>5, <2>6 DEF TimerInv, TypeOK
    <3> QED BY <3>1, <3>2
  <2>8. \A d \in Events : event'[d] # None <=> event[d] # None
    BY <2>5, <2>6, TimerAssumption
  <2>9. Running(active)'
    BY <1>0, <1>4, <1>6, <1>11, <2>1, <2>4 DEF Running
  <2> QED BY <2>2, <2>7, <2>8, <2>9
<1>12. ASSUME active = None
       PROVE  armed = {} /\ event' = event
  <2>1. armed = {}
    BY <1>0, <1>12 DEF TimerInv, Engine
  <2>2. event' = [e \in Events |-> event[e]]
    BY <2>1 DEF Tick
  <2> QED BY <2>1, <2>2 DEF TimerInv, TypeOK
<1>13. TypeOK'
  BY <1>0, <1>8, <1>10, <1>11, <1>12 DEF TimerInv, TypeOK
<1>14. Memory'
  <2>1. \A b \in Blocks : info'[b] # None <=> info[b] # None
    BY <1>3, <1>6, <1>7
  <2> QED BY <1>0, <1>1, <2>1, SameMemory DEF TimerInv, Out
<1>15. Owners'
  <2>1. \A b \in Blocks : Live(b)' <=> b \in heap
    BY <1>0, <1>1 DEF Live
  <2>2. ASSUME NEW b \in heap
        PROVE  wanted'[info'[b].trxn] = info'[b].due /\ hRspTmr'[info'[b].trxn] = b
    <3>1. wanted[info[b].trxn] # None
      BY <1>3, TimerAssumption
    <3>2. wanted'[info[b].trxn] = wanted[info[b].trxn] - 1
      BY <1>3, <1>9, <3>1
    <3> QED BY <1>0, <1>3, <1>6, <3>2
  <2>3. \A b, c \in heap : info'[b].trxn = info'[c].trxn => b = c
    BY <1>2, <1>3, <1>6 DEF TimerInv, Owners
  <2>4. ASSUME NEW x \in Trxns, wanted'[x] # None
        PROVE  \E b \in heap : info'[b].trxn = x
    <3>1. PICK b \in heap : info[b].trxn = x
      BY <1>2, <1>10, <2>4 DEF TimerInv, Owners
    <3> QED BY <1>6, <3>1
  <2>5. \A x \in Trxns : wanted'[x] = None => hRspTmr'[x] = None
    BY <1>0, <1>10 DEF TimerInv, Owners
  <2> QED BY <1>1, <1>3, <1>6, <2>1, <2>2, <2>3, <2>4, <2>5 DEF Owners
<1>16. Place'
  <2>1. at' = "idle" <=> now' = Resting
    BY <1>0, <1>1, SameNow DEF TimerInv, Place
  <2> QED BY <1>0, <1>1, <1>4, <2>1 DEF Place
<1>17. Engine'
  <2>1. CASE active = None
    BY <1>0, <1>1, <1>12, <2>1 DEF TimerInv, Engine
  <2>2. CASE active # None
    <3>1. (Served # None)' /\ Running(Served)'
      <4>1. PICK a : a = active
        OBVIOUS
      <4>2. Running(a)' /\ Served' = a
        BY <1>0, <1>1, <1>11, <2>2, <4>1 DEF Running
      <4> QED BY <2>2, <4>1, <4>2 DEF Running
    <3> QED BY <1>0, <1>11, <2>2, <3>1 DEF TimerInv, Engine
  <2> QED BY <2>1, <2>2
<1>18. Punctual'
  <2>1. ASSUME active # None
        PROVE  \A b \in heap : info'[b].due > info'[active].due - T3
    <3> SUFFICES ASSUME NEW b \in heap PROVE info'[b].due > info'[active].due - T3
      OBVIOUS
    <3>1. info[b].due > info[active].due - T3
      BY <1>0, <2>1 DEF TimerInv, Punctual
    <3>2. /\ info'[b].due = info[b].due - 1 /\ info'[active].due = info[active].due - 1
          /\ info[b].due \in Int /\ info[active].due \in Int
      BY <1>3, <1>4, <1>6, <2>1
    <3> QED BY <3>1, <3>2, TimerAssumption
  <2>2. ASSUME NEW x \in Trxns, wanted'[x] # None PROVE wanted'[x] > - T3
    <3>1. PICK b \in heap : info[b].trxn = x
      BY <1>2, <1>10, <2>2 DEF TimerInv, Owners
    <3>2. wanted'[x] = info[b].due - 1
      BY <1>3, <1>9, <1>10, <2>2, <3>1
    <3>3. active # None /\ info[b].due > info[active].due - T3 /\ info[active].due > 0
      BY <1>0, <1>4, <1>11 DEF TimerInv, Punctual
    <3>4. info[b].due \in Int /\ info[active].due \in Int
      BY <1>3, <1>4, <3>3
    <3> QED BY <3>2, <3>3, <3>4, TimerAssumption
  <2> QED BY <1>0, <1>1, <2>1, <2>2 DEF Punctual
<1> QED BY <1>0, <1>13, <1>14, <1>15, <1>16, <1>17, <1>18 DEF TimerInv

-----------------------------------------------------------------------------
(* The invariant *)

LEMMA InitTimerInv == ASSUME Init PROVE TimerInv
<1>1. at = "idle" /\ mine = None /\ now = Resting
  <2>1. now = Resting
    BY SomeThread DEF Init
  <2> QED BY <2>1 DEF at, mine, Resting
<1>2. \A x : ~ Occurs(x, <<>>)
  BY DEF Occurs
<1>3. TypeOK
  <2>1. Resting \in [at : Steps, block : Blocks \cup {None}]
    BY DEF Resting, Steps
  <2>2. <<>> \in Seq(Blocks) /\ <<>> \in Seq(Events)
    OBVIOUS
  <2> QED BY <2>1, <2>2 DEF Init, TypeOK
<1>4. Memory
  BY <1>1, <1>2 DEF Init, Memory, InPool, Out, IsInjective
<1>5. Owners
  BY <1>1 DEF Init, Owners, Live
<1>6. ~ Starting /\ ~ Busy
  BY <1>1 DEF Starting, Busy
<1>7. Place
  BY <1>1, <1>6 DEF Init, Place
<1>8. Engine
  BY <1>1, <1>2 DEF Init, Engine, Served, IsInjective
<1>9. Punctual
  BY <1>1 DEF Init, Punctual, Clock
<1> QED BY <1>3, <1>4, <1>5, <1>7, <1>8, <1>9 DEF Init, TimerInv

\* A step of thread t leaves the other threads where they are, and t is inside
\* before it or after it.
LEMMA ThreadStep ==
  ASSUME TypeOK, Rested, NEW t \in Threads, Start(t) \/ Timeout(t) \/ Stop(t)
  PROVE  /\ \A s \in Threads \ {t} : thread'[s] = thread[s]
         /\ thread[t] # Resting \/ thread'[t] # Resting
         /\ Rested'
<1> DEFINE Moved == /\ \A s \in Threads \ {t} : thread'[s] = thread[s]
                    /\ thread[t] # Resting \/ thread'[t] # Resting
                    /\ thread'[t].at = "idle" => thread'[t] = Resting
<1>0. thread[t] \in [at : Steps, block : Blocks \cup {None}]
  BY DEF TypeOK
<1>1. thread[t].at # "idle" => thread[t] # Resting
  BY DEF Resting
<1>2. ASSUME NEW p, Goto(t, p), p # "idle" PROVE Moved
  <2>1. /\ \A s \in Threads \ {t} : thread'[s] = thread[s]
        /\ thread'[t].at = p
    BY <1>0, <1>2 DEF Goto, TypeOK
  <2>2. thread'[t] # Resting
    BY <1>2, <2>1 DEF Resting
  <2> QED BY <1>2, <2>1, <2>2
<1>3. ASSUME NEW p, NEW b, thread' = [thread EXCEPT ![t] = [at |-> p, block |-> b]], p # "idle"
      PROVE  Moved
  <2>1. /\ \A s \in Threads \ {t} : thread'[s] = thread[s]
        /\ thread'[t].at = p
    BY <1>3 DEF TypeOK
  <2>2. thread'[t] # Resting
    BY <1>3, <2>1 DEF Resting
  <2> QED BY <1>3, <2>1, <2>2
<1>4. ASSUME NEW c \in BOOLEAN, Return(t, c), thread[t].at # "idle" PROVE Moved
  <2>1. /\ \A s \in Threads \ {t} : thread'[s] = thread[s]
        /\ thread'[t] = [at |-> IF c THEN "peek" ELSE "idle", block |-> None]
    BY <1>4 DEF Return, TypeOK
  <2>2. thread'[t].at = "idle" => thread'[t] = Resting
    BY <2>1 DEF Resting
  <2> QED BY <1>1, <1>4, <2>1, <2>2
<1>s. ASSUME Started(t), thread[t].at # "idle" PROVE Moved
  <2>1. Return(t, TRUE) \/ Return(t, FALSE)
    BY <1>s DEF Started, Return
  <2> QED BY <1>4, <1>s, <2>1
<1>5. ASSUME NEW x, NEW time, NEW here, Allocate(t, x, time, here) PROVE Moved
  <2>1. PICK b : thread' = [thread EXCEPT ![t] = [at |-> "insert", block |-> b]]
    BY <1>5 DEF Allocate
  <2> QED BY <1>3, <2>1
<1> HIDE DEF Moved
<1>6. ASSUME Start(t) PROVE Moved
  <2>1. StartTimer(t) => Moved
    BY <1>5 DEF StartTimer
  <2>2. InsertTimer(t) \/ StopActive(t) \/ Arm(t) => Moved
    BY <1>2 DEF InsertTimer, StopActive, Arm
  <2>3. LookAtActive(t) => Moved
    BY <1>2, <1>s DEF LookAtActive, At, at
  <2>4. SetActive(t) => Moved
    BY <1>s DEF SetActive, At, at
  <2> QED BY <1>6, <2>1, <2>2, <2>3, <2>4 DEF Start
<1>7. ASSUME Timeout(t) PROVE Moved
  <2>1. ProcessTimeout(t) => Moved
    BY <1>2, <1>4 DEF ProcessTimeout, At
  <2>2. RemoveTimer(t) \/ GiveBack(t) => Moved
    BY <1>2 DEF RemoveTimer, GiveBack
  <2>3. CallBack(t) => Moved
    BY <1>2, <1>5 DEF CallBack
  <2>4. PeekDue(t) => Moved
    BY <1>2, <1>3 DEF PeekDue
  <2>5. Rearm(t) => Moved
    BY <1>3 DEF Rearm
  <2>6. Rest(t) \/ ResetActive(t) => Moved
    BY <1>4 DEF Rest, ResetActive, At, at
  <2> QED BY <1>7, <2>1, <2>2, <2>3, <2>4, <2>5, <2>6 DEF Timeout
<1>8. ASSUME Stop(t) PROVE Moved
  <2>1. StopTimer(t) => Moved
    BY <1>3 DEF StopTimer
  <2>2. GiveBackStopped(t) => Moved
    BY <1>2 DEF GiveBackStopped
  <2>3. ReplaceActive(t) => Moved
    BY <1>2, <1>4 DEF ReplaceActive, At
  <2>4. NextActive(t) => Moved
    BY <1>3, <1>4 DEF NextActive, At, at
  <2> QED BY <1>8, <2>1, <2>2, <2>3, <2>4 DEF Stop
<1>9. Moved
  BY <1>6, <1>7, <1>8
<1> QED BY <1>9 DEF Moved, Rested

LEMMA StepTimerInv ==
  ASSUME TimerInv, Rested, [Next]_vars, OneAtATime, OneAtATime'
  PROVE  TimerInv' /\ Rested'
<1>1. CASE UNCHANGED vars
  <2>1. UNCHANGED <<pool, info, heap, active, free, event, armed, queue, broken, thread,
                    hRspTmr, wanted, early>>
    BY <1>1 DEF vars, blocks, engine, trxns
  <2>2. at' = at /\ mine' = mine /\ now' = now
    BY <2>1, SameNow DEF at, mine
  <2>3. (Starting' <=> Starting) /\ Served' = Served /\ Clock' = Clock
    BY <2>1, <2>2 DEF Starting, Served, Clock
  <2>4. Busy' <=> Busy
    BY <2>1, <2>2, <2>3 DEF Busy
  <2>5. \A b : (Live(b)' <=> Live(b)) /\ (InPool(b)' <=> InPool(b)) /\ (Out(b)' <=> Out(b))
    BY <2>1, <2>2 DEF Live, InPool, Out
  <2>6. TypeOK'
    BY <2>1 DEF TimerInv, TypeOK
  <2>7. Memory'
    BY <2>1, <2>5, SameMemory DEF TimerInv
  <2>8. Owners'
    BY <2>1, <2>2, <2>3, <2>5, SameOwners DEF TimerInv, Owners
  <2>9. Place'
    BY <2>1, <2>2, <2>3, <2>4, <2>5 DEF TimerInv, Place
  <2>10. Engine'
    BY <2>1, <2>3, SameEngine DEF TimerInv
  <2>11. Punctual'
    BY <2>1, <2>2, <2>3, <2>4 DEF TimerInv, Punctual
  <2>12. Rested'
    BY <2>1 DEF Rested
  <2> QED BY <2>1, <2>6, <2>7, <2>8, <2>9, <2>10, <2>11, <2>12 DEF TimerInv
<1>2. CASE Next
  <2>1. TypeOK /\ Loop \in Threads
    BY DEF TimerInv, Threads
  <2>2. CASE Tick
    <3>1. thread' = thread
      BY <2>2 DEF Tick
    <3> QED BY <2>2, <3>1, TickStep DEF Rested
  <2>3. CASE MoveExpired
    <3>1. thread' = thread
      BY <2>3 DEF MoveExpired
    <3> QED BY <2>3, <3>1, MoveExpiredStep DEF Rested
  <2>4. CASE Dispatch
    <3>1. thread' = [thread EXCEPT ![Loop] = [at |-> "timeout",
                                              block |-> event[Head(queue)].block]]
      BY <2>4 DEF Dispatch
    <3>2. /\ \A s \in Threads \ {Loop} : thread'[s] = thread[s]
          /\ thread'[Loop].at = "timeout"
      BY <2>1, <3>1 DEF TypeOK
    <3>3. thread'[Loop] # Resting
      BY <3>2 DEF Resting
    <3>4. Alone(Loop)
      BY <2>1, <3>2, <3>3, AloneInside
    <3> QED BY <2>4, <3>2, <3>4, DispatchStep DEF Rested
  <2>5. ASSUME NEW t \in Threads, Start(t) \/ Timeout(t) \/ Stop(t)
        PROVE  TimerInv' /\ Rested'
    <3>1. Alone(t) /\ Rested'
      BY <2>1, <2>5, ThreadStep, AloneInside
    <3>2. CASE Start(t)
      BY <3>1, <3>2, StartTimerStep, InsertTimerStep, LookAtActiveStep, StopActiveStep,
         ArmStep, SetActiveStep DEF Start
    <3>3. CASE Timeout(t)
      BY <3>1, <3>3, ProcessTimeoutStep, RemoveTimerStep, GiveBackStep, CallBackStep,
         PeekDueStep, RearmStep, RestStep, ResetActiveStep DEF Timeout
    <3>4. CASE Stop(t)
      BY <3>1, <3>4, StopTimerStep, GiveBackStoppedStep, ReplaceActiveStep,
         NextActiveStep DEF Stop
    <3> QED BY <2>5, <3>1, <3>2, <3>3, <3>4
  <2> QED BY <1>2, <2>2, <2>3, <2>4, <2>5 DEF Next
<1> QED BY <1>1, <1>2

\* A list without repetition has as many elements as entries.
LEMMA ListCardinality ==
  ASSUME NEW S, NEW s \in Seq(S), IsInjective(s)
  PROVE  /\ IsFiniteSet({s[i] : i \in 1 .. Len(s)})
         /\ Cardinality({s[i] : i \in 1 .. Len(s)}) = Len(s)
<1> DEFINE R == {s[i] : i \in 1 .. Len(s)}
<1>1. Len(s) \in Nat /\ DOMAIN s = 1 .. Len(s) /\ s = [i \in 1 .. Len(s) |-> s[i]]
  OBVIOUS
<1>2. s \in [1 .. Len(s) -> R]
  BY <1>1
<1>3. s \in Bijection(1 .. Len(s), R)
  BY <1>1, <1>2 DEF Bijection, Injection, Surjection, IsInjective
<1>4. ExistsBijection(1 .. Len(s), R)
  BY <1>3 DEF ExistsBijection
<1> QED BY <1>1, <1>4, FS_CountingElements, FS_NatBijection

\* From the invariant, what the runs check.
LEMMA InvImpliesBelong == ASSUME TimerInv PROVE TimersBelong
<1> SUFFICES ASSUME AllRest
             PROVE  /\ \A x \in Trxns :
                         IF wanted[x] = None THEN hRspTmr[x] = None
                         ELSE /\ hRspTmr[x] \in heap
                              /\ info[hRspTmr[x]].trxn = x
                              /\ info[hRspTmr[x]].due = wanted[x]
                    /\ heap = {hRspTmr[x] : x \in Trxns} \ {None}
                    /\ heap \cup {pool[i] : i \in 1 .. Len(pool)} = {b \in Blocks : info[b] # None}
                    /\ Cardinality(heap) + Len(pool) = Cardinality({b \in Blocks : info[b] # None})
  BY DEF TimersBelong
<1> DEFINE pooled == {pool[i] : i \in 1 .. Len(pool)}
           used == {b \in Blocks : info[b] # None}
<1>1. at = "idle"
  <2>1. now = Resting
    BY SomeThread DEF AllRest
  <2> QED BY <2>1 DEF at, Resting
<1>2. \A b \in Blocks : (Live(b) <=> b \in heap) /\ ~ Out(b)
  BY <1>1 DEF Live, Out
<1>3. \A b \in heap : /\ b \in Blocks /\ b # None /\ info[b].trxn \in Trxns
                      /\ wanted[info[b].trxn] = info[b].due
                      /\ hRspTmr[info[b].trxn] = b
  BY <1>1, <1>2, InHeap DEF TimerInv, Owners, Starting
<1>4. ASSUME NEW x \in Trxns, wanted[x] # None
      PROVE  /\ hRspTmr[x] \in heap
             /\ info[hRspTmr[x]].trxn = x
             /\ info[hRspTmr[x]].due = wanted[x]
  <2>1. PICK b \in Blocks : b \in heap /\ info[b].trxn = x
    BY <1>2, <1>4 DEF TimerInv, Owners
  <2> QED BY <1>3, <2>1
<1>5. \A x \in Trxns : wanted[x] = None => hRspTmr[x] = None
  BY DEF TimerInv, Owners
<1>6. heap = {hRspTmr[x] : x \in Trxns} \ {None}
  BY <1>3, <1>4, <1>5
<1>7. DOMAIN pool = 1 .. Len(pool) /\ pool \in Seq(Blocks) /\ Len(pool) \in Nat
  BY DEF TimerInv, TypeOK
<1>8. \A b : InPool(b) <=> b \in pooled
  BY <1>7 DEF InPool, Occurs
<1>9. pooled \subseteq Blocks
  BY <1>7
<1>10. heap \cup pooled = used /\ heap \cap pooled = {}
  BY <1>2, <1>3, <1>8, <1>9 DEF TimerInv, Memory
<1>11. IsFiniteSet(pooled) /\ Cardinality(pooled) = Len(pool)
  BY <1>7, ListCardinality DEF TimerInv, Memory
<1>12. IsFiniteSet(heap)
  BY FS_Subset, TimerAssumption DEF TimerInv, TypeOK
<1>13. Cardinality(heap) \in Nat /\ Cardinality({}) = 0
  BY <1>12, FS_CardinalityType, FS_EmptySet
<1>14. Cardinality(heap) + Len(pool) = Cardinality(used)
  <2>1. Cardinality(heap \cup pooled)
          = Cardinality(heap) + Cardinality(pooled) - Cardinality(heap \cap pooled)
    BY <1>11, <1>12, FS_Union
  <2>2. Cardinality(used) = Cardinality(heap) + Len(pool) - 0
    <3> HIDE DEF used, pooled
    <3> QED BY <1>10, <1>11, <1>13, <2>1
  <2>3. Len(pool) \in Nat /\ Cardinality(heap) \in Nat
    BY <1>7, <1>13
  <2> QED BY <2>2, <2>3
<1> QED BY <1>4, <1>5, <1>6, <1>10, <1>14

-----------------------------------------------------------------------------
(* Theorems *)

\* If the event loop and the workers, however many, are inside the timer service
\* one at a time, the invariant holds: the heap, the pool, the handles of the
\* transactions, the active timer and the event that runs for it agree at every
\* step of the calls of NwGtpv2c.c:1494-1800.
THEOREM InvariantOfTimers == Spec /\ []OneAtATime => []TimerInv
<1>1. Init => TimerInv /\ Rested
  BY InitTimerInv DEF Init, Rested
<1>2. TimerInv /\ Rested /\ [Next]_vars /\ OneAtATime /\ OneAtATime' => (TimerInv /\ Rested)'
  BY StepTimerInv
<1> QED BY <1>1, <1>2, PTL DEF Spec

\* Whenever no call is in progress, each transaction that waits has one timer, its
\* own, due when it shall be, and every other block that was taken is in the pool,
\* once (NwGtpv2c.c:1513-1518, 1780-1788).
THEOREM TimersAreOwned == Spec /\ []OneAtATime => []TimersBelong
<1>1. TimerInv => TimersBelong
  BY InvImpliesBelong
<1> QED BY <1>1, InvariantOfTimers, PTL

\* No timer is called back before it is due, nor after it has been stopped, also
\* when one thread starts it, another stops it and the loop calls it back
\* (NwGtpv2cTrxn.c:95; NwGtpv2c.c:1513-1522).
THEOREM TimersAreNeverEarly == Spec /\ []OneAtATime => []NeverEarly
<1>1. TimerInv => NeverEarly
  BY DEF TimerInv, NeverEarly
<1> QED BY <1>1, InvariantOfTimers, PTL

\* A timer that a later one has displaced as the active one is late by less than
\* the time to wait for a response (NwGtpv2c.c:1633-1660, 1555).
THEOREM TimersAreLateByOne == Spec /\ []OneAtATime => []LateByOneTimer
<1>1. TimerInv => LateByOneTimer
  BY DEF TimerInv, Punctual, LateByOneTimer
<1> QED BY <1>1, InvariantOfTimers, PTL

\* The event engine is never asked to destroy an event it does not have, whoever
\* started the timer that the event is for
\* (NwEvent.c:395-417).
THEOREM EventsAreDestroyedOnce == Spec /\ []OneAtATime => [](~ broken)
<1>1. TimerInv => ~ broken
  BY DEF TimerInv
<1> QED BY <1>1, InvariantOfTimers, PTL
=============================================================================
