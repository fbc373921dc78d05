-------------------------- MODULE DataPlane_proofs --------------------------
(***************************************************************************)
(* Proofs about flows, end points and packets of the data plane, for any   *)
(* number of workers, contexts, end points, TEIDs, addresses and peers.    *)
(* The pools of end points are not guarded: what is proved holds as long   *)
(* as no two workers are between reading the head of a pool and setting    *)
(* it, which is so for one worker.                                         *)
(***************************************************************************)
EXTENDS DataPlane, SequenceTheorems, FiniteSetTheorems, WellFoundedInduction, TLAPS

\* The worker has read the head of the pool, and not set it yet.
Inside(w) == worker[w].at \in {"pop", "pushed"}

\* What a mutex of each pool would guarantee.
OneInPool ==
  \A v, w \in Workers : Inside(v) /\ Inside(w) /\ StackOf(v) = StackOf(w) => v = w

Busy(w) == worker[w].at # "idle"

\* The end point of the worker is in its hands only.
Hand(w) == worker[w].at \in {"insert", "push", "pushed"}

InHands(k, b) == \E w \in Workers : Hand(w) /\ StackOf(w) = k /\ worker[w].block = b

\* The block is not in the pool.
Taken(k, b) == b \in map[k] \/ b \in unused[k] \/ InHands(k, b)

\* The session control or a worker has the flow.
Has(c) == c \in flows \/ \E w \in Workers : worker[w].flow = c

Occurs(x, s) == \E i \in DOMAIN s : s[i] = x

\* The element i of a list, or Null behind its end.
Nth(s, i) == IF i \in DOMAIN s THEN s[i] ELSE Null

\* A linked list, with its first block and the link of each block.
Links(first, link, s) ==
  first = Nth(s, 1) /\ \A i \in DOMAIN s : link[s[i]] = Nth(s, i + 1)

Pool(k) ==
  \E s \in Seq(Blocks) :
    /\ IsInjective(s)
    /\ Links(head[k], next[k], s)
    /\ \A b \in Blocks : Occurs(b, s) <=> ~ Taken(k, b)

\* What a worker has, where it stands in the making or unmaking of a flow.
WorkerOK(w) ==
  LET c == worker[w].flow
      b == worker[w].block
      k == StackOf(w)
      at == worker[w].at
  IN /\ at = "idle" => c = Null
     /\ at # "idle" => c \in Contexts /\ context[c] # Null /\ c \notin flows
     /\ at \in {"new", "pop", "insert"} => context[c].handle = Null
     /\ at \in {"pop", "insert", "remove", "push", "pushed"} => b \in Blocks
     /\ at = "pop" => b = head[k]
     /\ at = "remove" => b \in map[k] /\ end[k][b].flow = c
     /\ at \in {"push", "pushed"} => context[c].handle \in {Null, b}
     /\ Hand(w) => b \notin map[k] /\ b \notin unused[k]
     /\ at = "pushed" => next[k][b] = head[k]

\* No two workers have the same flow, or the same block in hand.
Exclusive ==
  \A v, w \in Workers : v # w =>
    /\ worker[v].flow = worker[w].flow => worker[v].flow = Null
    /\ Hand(v) /\ Hand(w) /\ StackOf(v) = StackOf(w) => worker[v].block # worker[w].block

\* Contexts are held or in their pool, once.
ContextsOK ==
  /\ IsInjective(contexts)
  /\ \A c \in Contexts : Occurs(c, contexts) => ~ Has(c)
  /\ \A c \in Contexts : context[c] # Null <=> Has(c) \/ Occurs(c, contexts)

\* A TEID leads to one flow.
KeysOK ==
  \A c, d \in Contexts :
    Has(c) /\ Has(d) /\ context[c].in.stack = "gtpu" /\ context[d].in = context[c].in => c = d

\* An end point in a map belongs to a flow that has it.
MapOK(k) ==
  \A b \in map[k] :
    LET c == end[k][b].flow IN
      /\ b \notin unused[k]
      /\ c \in Contexts
      /\ context[c].in = [stack |-> k, key |-> end[k][b].key]
      /\ context[c].handle = b
      /\ c \in flows \/ \E w \in Workers : worker[w].flow = c /\ worker[w].at = "remove"

\* A complete flow can be found.
FlowsOK ==
  \A c \in flows : context[c].handle # Null =>
    /\ context[c].handle \in map[context[c].in.stack]
    /\ end[context[c].in.stack][context[c].handle].flow = c

DataInv ==
  /\ TypeOK
  /\ \A w \in Workers : WorkerOK(w)
  /\ Exclusive
  /\ ContextsOK
  /\ KeysOK
  /\ \A k \in Stacks : MapOK(k) /\ Pool(k)
  /\ FlowsOK
  /\ ~ aborted

-----------------------------------------------------------------------------
(* The pools *)

\* Taking the first element of a list without repetition.
LEMMA PopList ==
  ASSUME NEW S, NEW s \in Seq(S), s # <<>>, IsInjective(s)
  PROVE  /\ Head(s) \in S /\ Tail(s) \in Seq(S)
         /\ IsInjective(Tail(s))
         /\ Occurs(Head(s), s)
         /\ \A x : Occurs(x, Tail(s)) <=> Occurs(x, s) /\ x # Head(s)
<1>1. Len(s) \in Nat /\ Len(s) >= 1 /\ DOMAIN s = 1 .. Len(s) /\ Head(s) = s[1]
  BY EmptySeq
<1>2. /\ Head(s) \in S /\ Tail(s) \in Seq(S) /\ Len(Tail(s)) = Len(s) - 1
      /\ \A i \in 1 .. Len(s) - 1 : Tail(s)[i] = s[i + 1]
      /\ DOMAIN Tail(s) = 1 .. Len(s) - 1
  BY <1>1, HeadTailProperties
<1>3. IsInjective(Tail(s))
  BY <1>1, <1>2 DEF IsInjective
<1>4. ASSUME NEW x
      PROVE  Occurs(x, Tail(s)) <=> Occurs(x, s) /\ x # Head(s)
  <2>1. ASSUME NEW i \in DOMAIN Tail(s), Tail(s)[i] = x
        PROVE  (\E j \in DOMAIN s : s[j] = x) /\ x # Head(s)
    <3>1. i + 1 \in DOMAIN s /\ s[i + 1] = x /\ i + 1 # 1
      BY <1>1, <1>2, <2>1
    <3> QED BY <1>1, <3>1 DEF IsInjective
  <2>2. ASSUME NEW i \in DOMAIN s, s[i] = x, x # Head(s)
        PROVE  \E j \in DOMAIN Tail(s) : Tail(s)[j] = x
    <3>1. i - 1 \in DOMAIN Tail(s) /\ Tail(s)[i - 1] = s[i]
      BY <1>1, <1>2, <2>2
    <3> QED BY <2>2, <3>1
  <2> QED BY <2>1, <2>2 DEF Occurs
<1>5. Occurs(Head(s), s)
  BY <1>1 DEF Occurs
<1> QED BY <1>1, <1>2, <1>3, <1>4, <1>5

\* Putting an element that is not in a list without repetition before it.
LEMMA PushList ==
  ASSUME NEW S, NEW s \in Seq(S), IsInjective(s), NEW a \in S, ~ Occurs(a, s)
  PROVE  /\ <<a>> \o s \in Seq(S)
         /\ IsInjective(<<a>> \o s)
         /\ \A x : Occurs(x, <<a>> \o s) <=> Occurs(x, s) \/ x = a
<1> DEFINE t == <<a>> \o s
<1>1. Len(s) \in Nat /\ DOMAIN s = 1 .. Len(s)
  OBVIOUS
<1>2. /\ t \in Seq(S) /\ Len(t) = Len(s) + 1 /\ DOMAIN t = 1 .. Len(s) + 1
      /\ t[1] = a /\ \A i \in 1 .. Len(s) : t[i + 1] = s[i]
  BY <1>1
<1> HIDE DEF t
<1>3. \A i \in DOMAIN t : i # 1 => i - 1 \in DOMAIN s /\ t[i] = s[i - 1]
  <2>1. ASSUME NEW i \in 1 .. Len(s) + 1, i # 1
        PROVE  i - 1 \in 1 .. Len(s) /\ t[i] = s[i - 1]
    <3>1. i - 1 \in 1 .. Len(s) /\ (i - 1) + 1 = i
      BY <1>1, <2>1
    <3>2. \A j \in 1 .. Len(s) : t[j + 1] = s[j]
      BY <1>2
    <3>3. t[(i - 1) + 1] = s[i - 1]
      BY <3>1, <3>2
    <3> QED BY <3>1, <3>3
  <2> QED BY <1>1, <1>2, <2>1
<1>0. \A i \in DOMAIN s : s[i] # a
  BY DEF Occurs
<1>4. IsInjective(t)
  <2> SUFFICES ASSUME NEW i \in DOMAIN t, NEW j \in DOMAIN t, t[i] = t[j]
               PROVE  i = j
    BY DEF IsInjective
  <2>1. CASE i = 1 \/ j = 1
    BY <1>0, <1>2, <1>3, <2>1
  <2>2. CASE i # 1 /\ j # 1
    <3>1. i - 1 = j - 1
      BY <1>3, <2>2 DEF IsInjective
    <3> QED BY <1>1, <1>2, <3>1
  <2> QED BY <2>1, <2>2
<1>5. ASSUME NEW x
      PROVE  Occurs(x, t) <=> Occurs(x, s) \/ x = a
  <2>1. ASSUME NEW i \in DOMAIN t, t[i] = x PROVE (\E j \in DOMAIN s : s[j] = x) \/ x = a
    BY <1>2, <1>3, <2>1
  <2>2. ASSUME NEW i \in DOMAIN s, s[i] = x PROVE \E j \in DOMAIN t : t[j] = x
    <3>1. i + 1 \in DOMAIN t /\ t[i + 1] = x
      BY <1>1, <1>2, <2>2
    <3> QED BY <3>1
  <2>3. 1 \in DOMAIN t /\ t[1] = a
    BY <1>1, <1>2
  <2> QED BY <2>1, <2>2, <2>3 DEF Occurs
<1> QED BY <1>2, <1>4, <1>5 DEF t

\* The first block leaves a linked list.
LEMMA LinksPop ==
  ASSUME NEW s \in Seq(Blocks), s # <<>>, NEW first, NEW link, Links(first, link, s)
  PROVE  first = Head(s) /\ Links(link[first], link, Tail(s))
<1>1. Len(s) \in Nat /\ Len(s) >= 1 /\ DOMAIN s = 1 .. Len(s) /\ Head(s) = s[1]
  BY EmptySeq
<1>2. /\ DOMAIN Tail(s) = 1 .. Len(s) - 1
      /\ \A i \in 1 .. Len(s) - 1 : Tail(s)[i] = s[i + 1]
  BY <1>1, HeadTailProperties
<1>3. first = s[1] /\ \A i \in 1 .. Len(s) : link[s[i]] = Nth(s, i + 1)
  BY <1>1 DEF Links, Nth
<1>4. \A i \in Nat \ {0} : Nth(Tail(s), i) = Nth(s, i + 1)
  BY <1>1, <1>2 DEF Nth
<1>5. link[first] = Nth(Tail(s), 1)
  BY <1>1, <1>3, <1>4
<1>6. ASSUME NEW i \in 1 .. Len(s) - 1
      PROVE  link[Tail(s)[i]] = Nth(Tail(s), i + 1)
  <2>1. i + 1 \in 1 .. Len(s) /\ i + 1 \in Nat \ {0} /\ Tail(s)[i] = s[i + 1]
    BY <1>1, <1>2
  <2>2. link[s[i + 1]] = Nth(s, (i + 1) + 1)
    BY <1>3, <2>1
  <2> QED BY <1>4, <2>1, <2>2
<1> QED BY <1>1, <1>2, <1>3, <1>5, <1>6 DEF Links

\* A block that is linked to the first becomes the first.
LEMMA LinksPush ==
  ASSUME NEW s \in Seq(Blocks), NEW first, NEW link, Links(first, link, s),
         NEW b \in Blocks, link[b] = first
  PROVE  Links(b, link, <<b>> \o s)
<1> DEFINE t == <<b>> \o s
<1>1. Len(s) \in Nat /\ DOMAIN s = 1 .. Len(s)
  OBVIOUS
<1>2. DOMAIN t = 1 .. Len(s) + 1 /\ t[1] = b /\ \A i \in 1 .. Len(s) : t[i + 1] = s[i]
  BY <1>1
<1> HIDE DEF t
<1>3. \A i \in Nat \ {0} : Nth(t, i + 1) = Nth(s, i)
  BY <1>1, <1>2 DEF Nth
<1>4. first = Nth(s, 1) /\ \A i \in 1 .. Len(s) : link[s[i]] = Nth(s, i + 1)
  BY <1>1 DEF Links
<1>5. ASSUME NEW i \in 1 .. Len(s) + 1
      PROVE  link[t[i]] = Nth(t, i + 1)
  <2>1. CASE i = 1
    BY <1>2, <1>3, <1>4, <2>1
  <2>2. CASE i # 1
    <3>1. PICK j \in 1 .. Len(s) : i = j + 1
      <4>1. i - 1 \in 1 .. Len(s) /\ i = (i - 1) + 1
        BY <1>1, <2>2
      <4> QED BY <4>1
    <3>2. link[t[i]] = Nth(s, j + 1)
      BY <1>2, <1>4, <3>1
    <3>3. j + 1 \in Nat \ {0}
      BY <1>1
    <3> QED BY <1>3, <3>1, <3>2, <3>3
  <2> QED BY <2>1, <2>2
<1>6. b = Nth(t, 1)
  BY <1>1, <1>2 DEF Nth
<1>7. Links(b, link, t)
  BY <1>2, <1>5, <1>6 DEF Links
<1> QED BY <1>7 DEF t

\* The links of other blocks do not matter.
LEMMA LinksKept ==
  ASSUME NEW s \in Seq(Blocks), NEW first, NEW link, NEW other, Links(first, link, s),
         \A b \in Blocks : Occurs(b, s) => other[b] = link[b]
  PROVE  Links(first, other, s)
<1>1. \A i \in DOMAIN s : s[i] \in Blocks /\ Occurs(s[i], s)
  BY DEF Occurs
<1> QED BY <1>1 DEF Links

-----------------------------------------------------------------------------
(* Types *)

WorkerType ==
  worker \in [Workers -> [at : {"idle", "new", "pop", "insert", "remove", "push",
                                "pushed", "delete"},
                          flow : Contexts \cup {Null}, block : Blocks \cup {Null}]]

\* What is known of a flow that is or was in use.
LEMMA FlowShape ==
  ASSUME TypeOK, NEW c \in Contexts, context[c] # Null
  PROVE  /\ context[c] \in FlowContext
         /\ [in |-> context[c].in, out |-> context[c].out] \in Requests
         /\ context[c].handle \in Blocks \cup {Null}
         /\ context[c].in.stack \in Stacks
         /\ context[c].in = [stack |-> context[c].in.stack, key |-> context[c].in.key]
         /\ context[c].in.key \in Teids \cup Addrs
         /\ context[c].out.stack \in Stacks
         /\ context[c].out.stack = "gtpu" => context[c].out.key \in Peers
         /\ context[c].in.stack = "ip" => context[c].out.stack = "gtpu"
<1>1. context[c] \in FlowContext
  BY DEF TypeOK
<1>2. PICK f \in Requests, h \in Blocks \cup {Null} :
        context[c] = [in |-> f.in, out |-> f.out, handle |-> h]
  BY SMTT(30), <1>1 DEF FlowContext
<1>3. /\ f = [in |-> f.in, out |-> f.out]
      /\ f.in.stack \in Stacks
      /\ f.in = [stack |-> f.in.stack, key |-> f.in.key]
      /\ f.in.key \in Teids \cup Addrs
      /\ f.out.stack \in Stacks
      /\ f.out.stack = "gtpu" => f.out.key \in Peers
      /\ f.in.stack = "ip" => f.out.stack = "gtpu"
  BY DEF Requests, UplinkFlows, DownlinkFlows, RelayFlows, Gtpu, Ip, Stacks
<1> QED BY <1>1, <1>2, <1>3

\* A worker that has a flow.
LEMMA WorkerShape ==
  ASSUME DataInv, NEW w \in Workers, Busy(w)
  PROVE  /\ worker[w].flow \in Contexts /\ worker[w].flow # Null
         /\ worker[w].flow \notin flows /\ Has(worker[w].flow)
         /\ context[worker[w].flow] # Null
         /\ StackOf(w) = context[worker[w].flow].in.stack /\ StackOf(w) \in Stacks
         /\ context[worker[w].flow].handle \in Blocks \cup {Null}
<1>1. worker[w].flow \in Contexts /\ worker[w].flow \notin flows /\ context[worker[w].flow] # Null
  BY DEF DataInv, WorkerOK, Busy
<1> QED BY <1>1, FlowShape, DataPlaneAssumption DEF DataInv, Has, StackOf

\* What a step of worker w leaves alone.
LEMMA OthersStay ==
  ASSUME DataInv, NEW w \in Workers, NEW r, worker' = [worker EXCEPT ![w] = r]
  PROVE  /\ worker'[w] = r
         /\ \A v \in Workers : v # w => worker'[v] = worker[v]
BY DEF DataInv, TypeOK

\* A step of a worker within the same flow.
LEMMA Going ==
  ASSUME DataInv, NEW w \in Workers,
         NEW p \in {"insert", "push", "pushed", "delete"}, Goto(w, p)
  PROVE  /\ worker'[w].at = p /\ worker'[w].flow = worker[w].flow
         /\ worker'[w].block = worker[w].block
         /\ \A v \in Workers : v # w => worker'[v] = worker[v]
         /\ WorkerType'
BY DEF DataInv, TypeOK, Goto, WorkerType

-----------------------------------------------------------------------------
(* What a step leaves alone *)

LEMMA SameContexts ==
  ASSUME ContextsOK, KeysOK, UNCHANGED <<contexts, context, flows>>,
         \A v \in Workers : worker'[v].flow = worker[v].flow
  PROVE  ContextsOK' /\ KeysOK'
<1>1. \A c : Has(c)' <=> Has(c)
  BY DEF Has
<1>2. ContextsOK'
  BY <1>1 DEF ContextsOK
<1>3. KeysOK'
  BY <1>1 DEF KeysOK
<1> QED BY <1>2, <1>3

LEMMA SameMap ==
  ASSUME DataInv, UNCHANGED <<end, map, context, flows>>,
         \A k \in Stacks : unused'[k] \subseteq unused[k],
         \A v \in Workers : /\ worker'[v].flow = worker[v].flow
                            /\ worker'[v].at = "remove" <=> worker[v].at = "remove"
  PROVE  (\A k \in Stacks : MapOK(k)') /\ FlowsOK'
<1>1. ASSUME NEW k \in Stacks PROVE MapOK(k)'
  <2>1. MapOK(k) /\ unused'[k] \subseteq unused[k]
    BY DEF DataInv
  <2> QED BY <2>1 DEF MapOK
<1>2. FlowsOK'
  BY DEF DataInv, FlowsOK
<1> QED BY <1>1, <1>2

LEMMA SamePool ==
  ASSUME NEW k, Pool(k), head'[k] = head[k], next'[k] = next[k],
         \A b \in Blocks : Taken(k, b)' <=> Taken(k, b)
  PROVE  Pool(k)'
BY DEF Pool

\* The other workers stand where they stood.
LEMMA OtherWorker ==
  ASSUME DataInv, NEW v \in Workers, worker'[v] = worker[v],
         NEW c, c = worker[v].flow, NEW b, b = worker[v].block, NEW k, k = StackOf(v),
         Busy(v) => context'[c] = context[c] /\ c \notin flows',
         worker[v].at = "pop" => head'[k] = head[k],
         worker[v].at = "remove" => b \in map'[k] /\ end'[k][b] = end[k][b],
         Hand(v) => b \notin map'[k] /\ b \notin unused'[k],
         worker[v].at = "pushed" => head'[k] = head[k] /\ next'[k][b] = next[k][b]
  PROVE  WorkerOK(v)'
<1>1. WorkerOK(v)
  BY DEF DataInv
<1>2. CASE worker[v].at = "idle"
  BY <1>1, <1>2 DEF WorkerOK, Hand
<1>3. CASE worker[v].at # "idle"
  <2>1. context'[c] = context[c] /\ c \notin flows' /\ StackOf(v)' = k
    BY <1>3 DEF Busy, StackOf
  <2>2. Hand(v)' <=> Hand(v)
    BY DEF Hand
  <2> QED BY <1>1, <1>3, <2>1, <2>2 DEF WorkerOK
<1> QED BY <1>2, <1>3

LEMMA ExclusiveStep ==
  ASSUME DataInv, NEW w \in Workers,
         \A v \in Workers : v # w => worker'[v] = worker[v],
         \A v \in Workers : v # w /\ Busy(v) => StackOf(v)' = StackOf(v),
         worker'[w].flow # Null =>
           \A v \in Workers : v # w => worker[v].flow # worker'[w].flow,
         Hand(w)' => \A v \in Workers :
           v # w /\ Hand(v) /\ StackOf(v) = StackOf(w)' => worker[v].block # worker'[w].block
  PROVE  Exclusive'
<1> SUFFICES ASSUME NEW u \in Workers, NEW v \in Workers, u # v
             PROVE  /\ worker'[u].flow = worker'[v].flow => worker'[u].flow = Null
                    /\ Hand(u)' /\ Hand(v)' /\ StackOf(u)' = StackOf(v)'
                         => worker'[u].block # worker'[v].block
  BY DEF Exclusive
<1>1. \A x \in Workers : Hand(x) => Busy(x)
  BY DEF Hand, Busy
<1>2. \A x \in Workers : x # w => (Hand(x)' <=> Hand(x))
  BY DEF Hand
<1>3. CASE u # w /\ v # w
  <2>1. worker'[u] = worker[u] /\ worker'[v] = worker[v]
    BY <1>3
  <2> QED BY <1>1, <1>2, <1>3, <2>1 DEF DataInv, Exclusive
<1>4. CASE u = w
  <2>1. v # w /\ worker'[v] = worker[v]
    BY <1>4
  <2> QED BY <1>1, <1>2, <1>4, <2>1
<1>5. CASE v = w
  <2>1. u # w /\ worker'[u] = worker[u]
    BY <1>5
  <2> QED BY <1>1, <1>2, <1>5, <2>1
<1> QED BY <1>3, <1>4, <1>5

\* Which blocks are in hand when only worker w has moved.
LEMMA HandsStep ==
  ASSUME DataInv, NEW w \in Workers, NEW k \in Stacks,
         \A v \in Workers : v # w => worker'[v] = worker[v],
         \A v \in Workers : v # w /\ Busy(v) => StackOf(v)' = StackOf(v)
  PROVE  \A b : InHands(k, b)' <=>
           \/ \E v \in Workers : v # w /\ Hand(v) /\ StackOf(v) = k /\ worker[v].block = b
           \/ (Hand(w) /\ StackOf(w) = k /\ worker[w].block = b)'
<1>1. \A v \in Workers : Hand(v) => Busy(v)
  BY DEF Hand, Busy
<1>2. \A v \in Workers : v # w => (Hand(v)' <=> Hand(v)) /\ worker'[v].block = worker[v].block
  BY DEF Hand
<1> QED BY <1>1, <1>2 DEF InHands

\* When the end point in the hands of a worker comes into them, or leaves them.
LEMMA HandUnchanged ==
  ASSUME DataInv, NEW w \in Workers, NEW k \in Stacks,
         \A v \in Workers : v # w => worker'[v] = worker[v],
         \A v \in Workers : v # w /\ Busy(v) => StackOf(v)' = StackOf(v),
         Hand(w) /\ StackOf(w) = k <=> (Hand(w) /\ StackOf(w) = k)',
         Hand(w) /\ StackOf(w) = k => worker'[w].block = worker[w].block
  PROVE  \A b : InHands(k, b)' <=> InHands(k, b)
BY HandsStep DEF InHands

-----------------------------------------------------------------------------
(* The pools of end points *)

LEMMA ReadHeadStep == ASSUME DataInv, NEW w \in Workers, ReadHead(w) PROVE DataInv'
<1>1. /\ worker[w].at = "new" /\ Busy(w) /\ ~ Hand(w)
      /\ UNCHANGED <<contexts, context, head, next, end, map, flows, messages, aborted>>
  BY DEF ReadHead, Work, Busy, Hand
<1>2. PICK k \in Stacks, c \in Contexts : k = StackOf(w) /\ c = worker[w].flow
  BY <1>1, WorkerShape
<1>3. /\ c # Null /\ c \notin flows /\ context[c] # Null /\ context[c].handle = Null
      /\ head[k] \in Blocks \cup {Null}
  BY <1>1, <1>2, WorkerShape DEF DataInv, WorkerOK, TypeOK
<1>4. ASSUME NEW p \in {"pop", "insert"}, NEW b \in Blocks,
             worker' = [worker EXCEPT ![w] = [at |-> p, flow |-> c, block |-> b]],
             unused' \in [Stacks -> SUBSET Blocks],
             \A j \in Stacks : unused'[j] \subseteq unused[j],
             \A j \in Stacks : j # k => unused'[j] = unused[j],
             p = "pop" => b = head[k] /\ unused' = unused,
             p = "insert" => b \in unused[k] /\ unused'[k] = unused[k] \ {b}
      PROVE  DataInv'
  <2>1. /\ worker'[w] = [at |-> p, flow |-> c, block |-> b]
        /\ \A v \in Workers : v # w => worker'[v] = worker[v]
    BY <1>4, OthersStay
  <2>2. \A v \in Workers : worker'[v].flow = worker[v].flow /\ StackOf(v)' = StackOf(v)
    BY <1>1, <1>2, <2>1 DEF StackOf
  <2>3. TypeOK'
    BY <1>1, <1>4 DEF DataInv, TypeOK
  <2>4. p = "insert" => b \notin map[k]
    BY <1>4 DEF DataInv, MapOK
  <2>5. ASSUME NEW v \in Workers PROVE WorkerOK(v)'
    <3>1. CASE v = w
      <4>1. StackOf(w)' = k
        BY <1>2, <2>2
      <4> QED BY <1>1, <1>3, <1>4, <2>1, <2>4, <3>1, <4>1 DEF WorkerOK, Hand
    <3>2. CASE v # w
      <4>1. WorkerOK(v) /\ worker'[v] = worker[v]
        BY <2>1, <3>2 DEF DataInv
      <4>2. Busy(v) => worker[v].flow \notin flows /\ StackOf(v) \in Stacks
        BY WorkerShape
      <4>3. Hand(v) => Busy(v)
        BY DEF Hand, Busy
      <4>4. /\ worker[v].at = "remove" => worker[v].block \in map[StackOf(v)]
            /\ Hand(v) => worker[v].block \notin map[StackOf(v)] /\ worker[v].block \notin unused[StackOf(v)]
        BY <4>1 DEF WorkerOK
      <4> QED BY <1>1, <1>4, <4>1, <4>2, <4>3, <4>4, OtherWorker
    <3> QED BY <3>1, <3>2
  <2>6. Exclusive'
    <3>1. \A v \in Workers : v # w => worker[v].flow # worker'[w].flow
      BY <1>2, <1>3, <2>1 DEF DataInv, Exclusive
    <3>2. ASSUME NEW v \in Workers, v # w, p = "insert", Hand(v), StackOf(v) = k
          PROVE  worker[v].block # b
      BY <1>4, <3>2 DEF DataInv, WorkerOK
    <3>3. Hand(w)' => p = "insert"
      BY <2>1 DEF Hand
    <3> QED BY <1>2, <2>1, <2>2, <3>1, <3>2, <3>3, ExclusiveStep
  <2>7. ContextsOK' /\ KeysOK'
    BY <1>1, <2>2, SameContexts DEF DataInv
  <2>8. (\A j \in Stacks : MapOK(j)') /\ FlowsOK'
    BY <1>1, <1>4, <2>1, <2>2, SameMap
  <2>9. ASSUME NEW j \in Stacks PROVE Pool(j)'
    <3>1. Pool(j) /\ head'[j] = head[j] /\ next'[j] = next[j] /\ map'[j] = map[j]
      BY <1>1 DEF DataInv
    <3>2. CASE j = k /\ p = "insert"
      <4>1. \A a : InHands(k, a)' <=> InHands(k, a) \/ a = b
        <5>1. (Hand(w) /\ StackOf(w) = k)' /\ worker'[w].block = b
          BY <1>2, <2>1, <2>2, <3>2 DEF Hand
        <5>2. \A a : InHands(k, a)' <=>
                 \/ \E v \in Workers : v # w /\ Hand(v) /\ StackOf(v) = k /\ worker[v].block = a
                 \/ (Hand(w) /\ StackOf(w) = k /\ worker[w].block = a)'
          BY <2>1, <2>2, HandsStep
        <5> QED BY <1>1, <5>1, <5>2 DEF InHands
      <4>2. \A a \in Blocks : Taken(j, a)' <=> Taken(j, a)
        BY <1>4, <3>1, <3>2, <4>1 DEF Taken
      <4> QED BY <3>1, <4>2, SamePool
    <3>3. CASE ~ (j = k /\ p = "insert")
      <4>1. unused'[j] = unused[j]
        BY <1>4, <3>3
      <4>2. ~ (Hand(w) /\ StackOf(w) = j)'
        BY <1>2, <2>1, <2>2, <3>3 DEF Hand
      <4>3. \A a : InHands(j, a)' <=> InHands(j, a)
        BY <1>1, <2>1, <2>2, <4>2, HandUnchanged
      <4>4. \A a \in Blocks : Taken(j, a)' <=> Taken(j, a)
        BY <3>1, <4>1, <4>3 DEF Taken
      <4> QED BY <3>1, <4>4, SamePool
    <3> QED BY <3>2, <3>3
  <2> QED BY <1>1, <2>3, <2>5, <2>6, <2>7, <2>8, <2>9 DEF DataInv
<1>5. CASE head[k] # Null
  <2>1. Take(w, "pop", head[k]) /\ unused' = unused
    BY <1>2, <1>5 DEF ReadHead
  <2>2. worker' = [worker EXCEPT ![w] = [at |-> "pop", flow |-> c, block |-> head[k]]]
    BY <1>2, <2>1 DEF Take
  <2>3. unused' \in [Stacks -> SUBSET Blocks]
    BY <2>1 DEF DataInv, TypeOK
  <2> QED BY <1>3, <1>4, <1>5, <2>1, <2>2, <2>3
<1>6. CASE head[k] = Null
  <2>1. PICK b \in NewBlock(k) :
          /\ Take(w, "insert", b)
          /\ unused' = [unused EXCEPT ![k] = @ \ {b}]
    BY <1>2, <1>6 DEF ReadHead
  <2>2. b \in unused[k] /\ b \in Blocks /\ unused \in [Stacks -> SUBSET Blocks]
    BY <2>1 DEF NewBlock, DataInv, TypeOK
  <2>3. worker' = [worker EXCEPT ![w] = [at |-> "insert", flow |-> c, block |-> b]]
    BY <1>2, <2>1 DEF Take
  <2>4. /\ unused' \in [Stacks -> SUBSET Blocks]
        /\ \A j \in Stacks : unused'[j] \subseteq unused[j]
        /\ \A j \in Stacks : j # k => unused'[j] = unused[j]
        /\ unused'[k] = unused[k] \ {b}
    BY <2>1, <2>2
  <2> QED BY <1>4, <2>2, <2>3, <2>4
<1> QED BY <1>5, <1>6

LEMMA AdvanceHeadStep ==
  ASSUME DataInv, OneInPool, NEW w \in Workers, AdvanceHead(w) PROVE DataInv'
<1>1. /\ worker[w].at = "pop" /\ Busy(w) /\ ~ Hand(w) /\ Inside(w)
      /\ Goto(w, "insert")
      /\ UNCHANGED <<contexts, context, next, unused, end, map, flows, messages>>
  BY DEF AdvanceHead, Work, Busy, Hand, Inside
<1>2. PICK k \in Stacks, c \in Contexts, b \in Blocks :
        k = StackOf(w) /\ c = worker[w].flow /\ b = worker[w].block
  <2>1. worker[w].block \in Blocks
    BY <1>1 DEF DataInv, WorkerOK
  <2> QED BY <1>1, <2>1, WorkerShape
<1>3. /\ c # Null /\ c \notin flows /\ context[c] # Null /\ context[c].handle = Null
      /\ head[k] = b /\ b # Null
  BY <1>1, <1>2, WorkerShape, DataPlaneAssumption DEF DataInv, WorkerOK
<1>4. head' = [head EXCEPT ![k] = next[k][b]] /\ aborted' = aborted
  BY <1>2, <1>3 DEF AdvanceHead
<1>5. /\ worker'[w].at = "insert" /\ worker'[w].flow = c /\ worker'[w].block = b
      /\ \A v \in Workers : v # w => worker'[v] = worker[v]
      /\ WorkerType'
  BY <1>1, <1>2, Going
<1>6. /\ next[k][b] \in Blocks \cup {Null} /\ head \in [Stacks -> Blocks \cup {Null}]
      /\ next \in [Stacks -> [Blocks -> Blocks \cup {Null}]]
  BY DEF DataInv, TypeOK
<1>7. /\ head' \in [Stacks -> Blocks \cup {Null}] /\ head'[k] = next[k][b]
      /\ \A j \in Stacks : j # k => head'[j] = head[j]
  BY <1>4, <1>6
<1>8. TypeOK'
  BY <1>1, <1>4, <1>5, <1>7 DEF DataInv, TypeOK, WorkerType
<1>9. \A v \in Workers : worker'[v].flow = worker[v].flow /\ StackOf(v)' = StackOf(v)
  BY <1>1, <1>2, <1>5 DEF StackOf
<1>10. PICK s \in Seq(Blocks) :
         /\ IsInjective(s)
         /\ Links(head[k], next[k], s)
         /\ \A a \in Blocks : Occurs(a, s) <=> ~ Taken(k, a)
  BY DEF DataInv, Pool
<1>11. s # <<>>
  BY <1>3, <1>10 DEF Links, Nth
<1>12. /\ b = Head(s) /\ Links(next[k][b], next[k], Tail(s))
       /\ Tail(s) \in Seq(Blocks) /\ IsInjective(Tail(s)) /\ Occurs(b, s)
       /\ \A a : Occurs(a, Tail(s)) <=> Occurs(a, s) /\ a # b
  <2>1. b = Head(s) /\ Links(next[k][b], next[k], Tail(s))
    BY <1>3, <1>10, <1>11, LinksPop
  <2> QED BY <1>10, <1>11, <2>1, PopList
<1>13. ~ Taken(k, b)
  BY <1>10, <1>12
<1>14. ASSUME NEW v \in Workers PROVE WorkerOK(v)'
  <2>1. CASE v = w
    <3>1. StackOf(w)' = k
      BY <1>2, <1>9
    <3> QED BY <1>1, <1>3, <1>5, <1>13, <2>1, <3>1 DEF WorkerOK, Taken
  <2>2. CASE v # w
    <3>1. WorkerOK(v) /\ worker'[v] = worker[v]
      BY <1>5, <2>2 DEF DataInv
    <3>2. Busy(v) => worker[v].flow \notin flows /\ StackOf(v) \in Stacks
      BY WorkerShape
    <3>3. /\ Hand(v) => Busy(v)
          /\ Inside(v) => Busy(v)
      BY DEF Hand, Busy, Inside
    <3>4. /\ worker[v].at = "remove" => worker[v].block \in map[StackOf(v)]
          /\ Hand(v) => worker[v].block \notin map[StackOf(v)] /\ worker[v].block \notin unused[StackOf(v)]
      BY <3>1 DEF WorkerOK
    <3>5. Inside(v) => StackOf(v) # k
      BY <1>1, <1>2, <2>2 DEF OneInPool
    <3>6. worker[v].at \in {"pop", "pushed"} => head'[StackOf(v)] = head[StackOf(v)]
      BY <1>7, <3>2, <3>3, <3>5 DEF Inside
    <3> QED BY <1>1, <3>1, <3>2, <3>3, <3>4, <3>6, OtherWorker
  <2> QED BY <2>1, <2>2
<1>15. Exclusive'
  <2>1. \A v \in Workers : v # w => worker[v].flow # worker'[w].flow
    BY <1>2, <1>3, <1>5 DEF DataInv, Exclusive
  <2>2. \A v \in Workers : Hand(v) /\ StackOf(v) = k => worker[v].block # b
    BY <1>13 DEF Taken, InHands
  <2>3. StackOf(w)' = k
    BY <1>2, <1>9
  <2> QED BY <1>5, <1>9, <2>1, <2>2, <2>3, ExclusiveStep
<1>16. ContextsOK' /\ KeysOK'
  BY <1>1, <1>9, SameContexts DEF DataInv
<1>17. (\A j \in Stacks : MapOK(j)') /\ FlowsOK'
  BY <1>1, <1>5, <1>9, SameMap
<1>18. ASSUME NEW j \in Stacks PROVE Pool(j)'
  <2>1. CASE j = k
    <3>1. \A a : InHands(k, a)' <=> InHands(k, a) \/ a = b
      <4>1. (Hand(w) /\ StackOf(w) = k)' /\ worker'[w].block = b
        BY <1>2, <1>5, <1>9 DEF Hand
      <4>2. \A a : InHands(k, a)' <=>
               \/ \E v \in Workers : v # w /\ Hand(v) /\ StackOf(v) = k /\ worker[v].block = a
               \/ (Hand(w) /\ StackOf(w) = k /\ worker[w].block = a)'
        BY <1>5, <1>9, HandsStep
      <4> QED BY <1>1, <4>1, <4>2 DEF InHands
    <3>2. \A a \in Blocks : Taken(k, a)' <=> Taken(k, a) \/ a = b
      BY <1>1, <3>1 DEF Taken
    <3>3. \A a \in Blocks : Occurs(a, Tail(s)) <=> ~ Taken(k, a)'
      BY <1>10, <1>12, <3>2
    <3>4. Links(head[k], next[k], Tail(s))'
      BY <1>1, <1>7, <1>12 DEF Links, Nth
    <3> QED BY <1>12, <2>1, <3>3, <3>4 DEF Pool
  <2>2. CASE j # k
    <3>1. ~ (Hand(w) /\ StackOf(w) = j)'
      BY <1>2, <1>9, <2>2
    <3>2. \A a : InHands(j, a)' <=> InHands(j, a)
      BY <1>1, <1>5, <1>9, <3>1, HandUnchanged
    <3>3. \A a \in Blocks : Taken(j, a)' <=> Taken(j, a)
      BY <1>1, <3>2 DEF Taken
    <3>4. Pool(j)
      BY DEF DataInv
    <3> QED BY <1>1, <1>7, <2>2, <3>3, <3>4, SamePool
  <2> QED BY <2>1, <2>2
<1> QED BY <1>4, <1>8, <1>14, <1>15, <1>16, <1>17, <1>18 DEF DataInv

LEMMA LinkBlockStep == ASSUME DataInv, NEW w \in Workers, LinkBlock(w) PROVE DataInv'
<1>1. /\ worker[w].at = "push" /\ Busy(w) /\ Hand(w)
      /\ Goto(w, "pushed")
      /\ UNCHANGED <<contexts, context, head, unused, end, map, flows, messages, aborted>>
  BY DEF LinkBlock, Work, Busy, Hand
<1>2. PICK k \in Stacks, c \in Contexts, b \in Blocks :
        k = StackOf(w) /\ c = worker[w].flow /\ b = worker[w].block
  <2>1. worker[w].block \in Blocks
    BY <1>1 DEF DataInv, WorkerOK
  <2> QED BY <1>1, <2>1, WorkerShape
<1>3. /\ c # Null /\ c \notin flows /\ context[c] # Null /\ context[c].handle \in {Null, b}
      /\ b \notin map[k] /\ b \notin unused[k] /\ head[k] \in Blocks \cup {Null}
  BY <1>1, <1>2, WorkerShape DEF DataInv, WorkerOK, TypeOK
<1>4. next' = [next EXCEPT ![k][b] = head[k]]
  BY <1>2 DEF LinkBlock
<1>5. /\ worker'[w].at = "pushed" /\ worker'[w].flow = c /\ worker'[w].block = b
      /\ \A v \in Workers : v # w => worker'[v] = worker[v]
      /\ WorkerType'
  BY <1>1, <1>2, Going
<1>6. next \in [Stacks -> [Blocks -> Blocks \cup {Null}]]
  BY DEF DataInv, TypeOK
<1>7. /\ next' \in [Stacks -> [Blocks -> Blocks \cup {Null}]] /\ next'[k][b] = head[k]
      /\ \A a \in Blocks : a # b => next'[k][a] = next[k][a]
      /\ \A j \in Stacks : j # k => next'[j] = next[j]
  BY <1>3, <1>4, <1>6
<1>8. TypeOK'
  BY <1>1, <1>5, <1>7 DEF DataInv, TypeOK, WorkerType
<1>9. \A v \in Workers : worker'[v].flow = worker[v].flow /\ StackOf(v)' = StackOf(v)
  BY <1>1, <1>2, <1>5 DEF StackOf
<1>10. \A v \in Workers : v # w /\ Hand(v) /\ StackOf(v) = k => worker[v].block # b
  BY <1>1, <1>2 DEF DataInv, Exclusive
<1>14. ASSUME NEW v \in Workers PROVE WorkerOK(v)'
  <2>1. CASE v = w
    <3>1. StackOf(w)' = k
      BY <1>2, <1>9
    <3> QED BY <1>1, <1>3, <1>5, <1>7, <2>1, <3>1 DEF WorkerOK
  <2>2. CASE v # w
    <3>1. WorkerOK(v) /\ worker'[v] = worker[v]
      BY <1>5, <2>2 DEF DataInv
    <3>2. Busy(v) => worker[v].flow \notin flows /\ StackOf(v) \in Stacks
      BY WorkerShape
    <3>3. Hand(v) => Busy(v)
      BY DEF Hand, Busy
    <3>4. /\ worker[v].at = "remove" => worker[v].block \in map[StackOf(v)]
          /\ Hand(v) => worker[v].block \notin map[StackOf(v)] /\ worker[v].block \notin unused[StackOf(v)]
          /\ worker[v].at = "pushed" => Hand(v) /\ worker[v].block \in Blocks
      BY <3>1 DEF WorkerOK, Hand
    <3>5. worker[v].at = "pushed" =>
            next'[StackOf(v)][worker[v].block] = next[StackOf(v)][worker[v].block]
      BY <1>7, <1>10, <2>2, <3>2, <3>3, <3>4
    <3> QED BY <1>1, <3>1, <3>2, <3>3, <3>4, <3>5, OtherWorker
  <2> QED BY <2>1, <2>2
<1>15. Exclusive'
  <2>1. \A v \in Workers : v # w => worker[v].flow # worker'[w].flow
    BY <1>2, <1>3, <1>5 DEF DataInv, Exclusive
  <2>3. StackOf(w)' = k
    BY <1>2, <1>9
  <2> QED BY <1>5, <1>9, <1>10, <2>1, <2>3, ExclusiveStep
<1>16. ContextsOK' /\ KeysOK'
  BY <1>1, <1>9, SameContexts DEF DataInv
<1>17. (\A j \in Stacks : MapOK(j)') /\ FlowsOK'
  BY <1>1, <1>5, <1>9, SameMap
<1>18. ASSUME NEW j \in Stacks PROVE Pool(j)'
  <2>1. Hand(w)'
    BY <1>5 DEF Hand
  <2>2. \A a : InHands(j, a)' <=> InHands(j, a)
    BY <1>1, <1>2, <1>5, <1>9, <2>1, HandUnchanged
  <2>3. \A a \in Blocks : Taken(j, a)' <=> Taken(j, a)
    BY <1>1, <2>2 DEF Taken
  <2>4. CASE j # k
    <3>1. Pool(j)
      BY DEF DataInv
    <3> QED BY <1>1, <1>7, <2>3, <2>4, <3>1, SamePool
  <2>5. CASE j = k
    <3>1. PICK s \in Seq(Blocks) :
            /\ IsInjective(s)
            /\ Links(head[k], next[k], s)
            /\ \A a \in Blocks : Occurs(a, s) <=> ~ Taken(k, a)
      BY DEF DataInv, Pool
    <3>2. Taken(k, b)
      BY <1>1, <1>2 DEF Taken, InHands
    <3>3. \A a \in Blocks : Occurs(a, s) => next'[k][a] = next[k][a]
      BY <1>7, <3>1, <3>2
    <3>4. Links(head[k], next'[k], s)
      BY <3>1, <3>3, LinksKept
    <3>5. Links(head[k], next[k], s)'
      BY <1>1, <3>4 DEF Links, Nth
    <3> QED BY <2>3, <2>5, <3>1, <3>5 DEF Pool
  <2> QED BY <2>4, <2>5
<1> QED BY <1>1, <1>8, <1>14, <1>15, <1>16, <1>17, <1>18 DEF DataInv

\* Who has a flow may change, not that somebody has it.
LEMMA SameHolders ==
  ASSUME ContextsOK, KeysOK, UNCHANGED <<contexts, context>>,
         \A c \in Contexts : Has(c)' <=> Has(c)
  PROVE  ContextsOK' /\ KeysOK'
<1>1. ContextsOK'
  BY DEF ContextsOK
<1>2. KeysOK'
  BY DEF KeysOK
<1> QED BY <1>1, <1>2

\* Flows without end points come to the session control.
LEMMA MoreFlows ==
  ASSUME DataInv, UNCHANGED <<end, map, context, unused>>, flows \subseteq flows',
         \A c \in flows' : c \in flows \/ context[c].handle = Null,
         \A v \in Workers : worker[v].at = "remove" => worker'[v] = worker[v]
  PROVE  (\A k \in Stacks : MapOK(k)') /\ FlowsOK'
<1>1. ASSUME NEW k \in Stacks PROVE MapOK(k)'
  <2>1. MapOK(k)
    BY DEF DataInv
  <2> QED BY <2>1 DEF MapOK
<1>2. FlowsOK'
  BY DEF DataInv, FlowsOK
<1> QED BY <1>1, <1>2

\* The worker gives away the end point it has in hand.
LEMMA HandGiven ==
  ASSUME DataInv, NEW w \in Workers, Hand(w), ~ Hand(w)',
         \A v \in Workers : v # w => worker'[v] = worker[v],
         \A v \in Workers : v # w /\ Busy(v) => StackOf(v)' = StackOf(v),
         NEW b, b = worker[w].block, NEW j \in Stacks
  PROVE  \A a : InHands(j, a)' <=> InHands(j, a) /\ ~ (j = StackOf(w) /\ a = b)
<1>1. \A a : InHands(j, a)' <=>
         \E v \in Workers : v # w /\ Hand(v) /\ StackOf(v) = j /\ worker[v].block = a
  BY HandsStep
<1>2. \A v \in Workers : v # w /\ Hand(v) /\ StackOf(v) = StackOf(w) => worker[v].block # b
  BY DEF DataInv, Exclusive
<1> QED BY ZenonT(60), <1>1, <1>2 DEF InHands

LEMMA WriteHeadStep ==
  ASSUME DataInv, OneInPool, NEW w \in Workers, WriteHead(w) PROVE DataInv'
<1>1. /\ worker[w].at = "pushed" /\ Busy(w) /\ Hand(w) /\ Inside(w)
      /\ UNCHANGED <<contexts, context, next, unused, end, map, messages, aborted>>
  BY DEF WriteHead, Work, Busy, Hand, Inside
<1>2. PICK k \in Stacks, c \in Contexts, b \in Blocks :
        k = StackOf(w) /\ c = worker[w].flow /\ b = worker[w].block
  <2>1. worker[w].block \in Blocks
    BY <1>1 DEF DataInv, WorkerOK
  <2> QED BY <1>1, <2>1, WorkerShape
<1>3. /\ c # Null /\ c \notin flows /\ context[c] # Null /\ context[c].handle \in {Null, b}
      /\ b \notin map[k] /\ b \notin unused[k] /\ next[k][b] = head[k] /\ Has(c)
  BY <1>1, <1>2, WorkerShape DEF DataInv, WorkerOK
<1>4. /\ head \in [Stacks -> Blocks \cup {Null}] /\ head' = [head EXCEPT ![k] = b]
      /\ flows \subseteq Contexts
  BY <1>2 DEF WriteHead, DataInv, TypeOK
<1>5. /\ head' \in [Stacks -> Blocks \cup {Null}] /\ head'[k] = b
      /\ \A j \in Stacks : j # k => head'[j] = head[j]
  BY <1>4
<1>6. ASSUME ~ Hand(w)', WorkerType',
             \A v \in Workers : v # w => worker'[v] = worker[v],
             flows' \subseteq flows \cup {c}, flows \subseteq flows',
             c \in flows' => context[c].handle = Null,
             WorkerOK(w)',
             worker'[w].flow \in {Null, c},
             \/ worker'[w].flow = c /\ flows' = flows
             \/ worker'[w].flow = Null /\ c \in flows'
      PROVE  DataInv'
  <2>1. TypeOK'
    BY <1>1, <1>4, <1>5, <1>6 DEF DataInv, TypeOK, WorkerType
  <2>2. \A v \in Workers : v # w /\ Busy(v) => worker[v].flow # c
    BY <1>2, <1>3 DEF DataInv, Exclusive
  <2>3. \A v \in Workers : v # w => StackOf(v)' = StackOf(v)
    BY <1>1, <1>6 DEF StackOf
  <2>4. ASSUME NEW v \in Workers PROVE WorkerOK(v)'
    <3>1. CASE v = w
      BY <1>6, <3>1
    <3>2. CASE v # w
      <4>1. WorkerOK(v) /\ worker'[v] = worker[v]
        BY <1>6, <3>2 DEF DataInv
      <4>2. Busy(v) => worker[v].flow \notin flows' /\ StackOf(v) \in Stacks
        BY <1>6, <2>2, <3>2, WorkerShape
      <4>3. /\ Hand(v) => Busy(v)
            /\ Inside(v) => Busy(v)
        BY DEF Hand, Busy, Inside
      <4>4. /\ worker[v].at = "remove" => worker[v].block \in map[StackOf(v)]
            /\ Hand(v) => worker[v].block \notin map[StackOf(v)] /\ worker[v].block \notin unused[StackOf(v)]
        BY <4>1 DEF WorkerOK
      <4>5. Inside(v) => StackOf(v) # k
        BY <1>1, <1>2, <3>2 DEF OneInPool
      <4>6. worker[v].at \in {"pop", "pushed"} => head'[StackOf(v)] = head[StackOf(v)]
        BY <1>5, <4>2, <4>3, <4>5 DEF Inside
      <4> QED BY <1>1, <4>1, <4>2, <4>3, <4>4, <4>6, OtherWorker
    <3> QED BY <3>1, <3>2
  <2>5. Exclusive'
    <3>1. worker'[w].flow # Null => \A v \in Workers : v # w => worker[v].flow # worker'[w].flow
      BY <1>2, <1>3, <1>6 DEF DataInv, Exclusive
    <3> QED BY <1>6, <2>3, <3>1, ExclusiveStep
  <2>6. ContextsOK' /\ KeysOK'
    <3>1. ASSUME NEW d \in Contexts PROVE Has(d)' <=> Has(d)
      <4>1. CASE d = c
        BY <1>3, <1>6, <4>1 DEF Has
      <4>2. CASE d # c
        <5>1. d # Null /\ worker[w].flow # d /\ worker'[w].flow # d
          BY <1>2, <1>6, <4>2, DataPlaneAssumption
        <5>2. d \in flows' <=> d \in flows
          BY <1>6, <4>2
        <5> QED BY <1>6, <5>1, <5>2 DEF Has
      <4> QED BY <4>1, <4>2
    <3> QED BY <1>1, <3>1, SameHolders DEF DataInv
  <2>7. (\A j \in Stacks : MapOK(j)') /\ FlowsOK'
    <3>1. \A v \in Workers : worker[v].at = "remove" => worker'[v] = worker[v]
      BY <1>1, <1>6
    <3> QED BY <1>1, <1>6, <3>1, MoreFlows
  <2>8. ASSUME NEW j \in Stacks PROVE Pool(j)'
    <3>1. \A a : InHands(j, a)' <=> InHands(j, a) /\ ~ (j = k /\ a = b)
      BY <1>1, <1>2, <1>6, <2>3, HandGiven
    <3>2. CASE j # k
      <4>1. \A a \in Blocks : Taken(j, a)' <=> Taken(j, a)
        BY <1>1, <3>1, <3>2 DEF Taken
      <4>2. Pool(j)
        BY DEF DataInv
      <4> QED BY <1>1, <1>5, <3>2, <4>1, <4>2, SamePool
    <3>3. CASE j = k
      <4>1. \A a \in Blocks : Taken(k, a)' <=> Taken(k, a) /\ a # b
        BY <1>1, <1>3, <3>1, <3>3 DEF Taken
      <4>2. Taken(k, b)
        BY <1>1, <1>2 DEF Taken, InHands
      <4>3. PICK s \in Seq(Blocks) :
              /\ IsInjective(s)
              /\ Links(head[k], next[k], s)
              /\ \A a \in Blocks : Occurs(a, s) <=> ~ Taken(k, a)
        BY DEF DataInv, Pool
      <4>4. ~ Occurs(b, s)
        BY <4>2, <4>3
      <4>5. PICK t : t = <<b>> \o s
        OBVIOUS
      <4>6. /\ t \in Seq(Blocks) /\ IsInjective(t)
            /\ \A x : Occurs(x, t) <=> Occurs(x, s) \/ x = b
        BY <4>3, <4>4, <4>5, PushList
      <4>7. Links(b, next[k], t)
        BY <1>3, <4>3, <4>5, LinksPush
      <4>8. Links(head'[k], next'[k], t)
        BY <1>1, <1>5, <4>7
      <4>9. \A a \in Blocks : Occurs(a, t) <=> ~ Taken(k, a)'
        BY <4>1, <4>3, <4>6
      <4> QED BY <3>3, <4>6, <4>8, <4>9 DEF Pool
    <3> QED BY <3>2, <3>3
  <2> QED BY <1>1, <2>1, <2>4, <2>5, <2>6, <2>7, <2>8 DEF DataInv
<1>7. CASE context[c].handle = Null
  <2>1. flows' = flows \cup {c} /\ worker' = [worker EXCEPT ![w] = Idle]
    BY <1>2, <1>7 DEF WriteHead
  <2>2. /\ worker'[w] = Idle
        /\ \A v \in Workers : v # w => worker'[v] = worker[v]
    BY <2>1, OthersStay
  <2>3. WorkerType'
    BY <2>1 DEF WorkerType, DataInv, TypeOK, Idle
  <2>4. WorkerOK(w)' /\ ~ Hand(w)'
    BY <2>2 DEF WorkerOK, Hand, Idle
  <2> QED BY <1>6, <1>7, <2>1, <2>2, <2>3, <2>4 DEF Idle
<1>8. CASE context[c].handle # Null
  <2>1. Goto(w, "delete") /\ flows' = flows
    BY <1>2, <1>8 DEF WriteHead
  <2>2. /\ worker'[w].at = "delete" /\ worker'[w].flow = c
        /\ \A v \in Workers : v # w => worker'[v] = worker[v]
        /\ WorkerType'
    BY <1>2, <2>1, Going
  <2>3. ~ Hand(w)' /\ WorkerOK(w)'
    BY <1>1, <1>2, <1>3, <2>1, <2>2 DEF WorkerOK, Hand
  <2> QED BY <1>3, <1>6, <2>1, <2>2, <2>3
<1> QED BY <1>7, <1>8

\* Both ways of taking an end point out of its map.
LEMMA RemoveStep ==
  ASSUME DataInv, NEW w \in Workers, NEW k \in Stacks, k = StackOf(w),
         worker[w].at = "remove", map' = Removed(k, worker[w].block), Goto(w, "push"),
         UNCHANGED <<pools, context, end, flows, messages, aborted>>
  PROVE  DataInv'
<1>1. /\ Busy(w) /\ ~ Hand(w)
      /\ UNCHANGED <<contexts, context, head, next, unused, end, flows, messages, aborted>>
  BY DEF Busy, Hand, pools
<1>2. PICK c \in Contexts, b \in Blocks : c = worker[w].flow /\ b = worker[w].block
  <2>1. worker[w].block \in Blocks
    BY DEF DataInv, WorkerOK
  <2> QED BY <1>1, <2>1, WorkerShape
<1>3. /\ c # Null /\ c \notin flows /\ context[c] # Null /\ context[c].in.stack = k
      /\ b \in map[k] /\ end[k][b].flow = c
  BY <1>1, <1>2, WorkerShape DEF DataInv, WorkerOK
<1>4. context[c].handle = b /\ b \notin unused[k]
  BY <1>3 DEF DataInv, MapOK
<1>5. map \in [Stacks -> SUBSET Blocks]
  BY DEF DataInv, TypeOK
<1>6. /\ map' \in [Stacks -> SUBSET Blocks] /\ map'[k] = map[k] \ {b}
      /\ \A j \in Stacks : j # k => map'[j] = map[j]
  BY <1>2, <1>5 DEF Removed
<1>7. /\ worker'[w].at = "push" /\ worker'[w].flow = c /\ worker'[w].block = b
      /\ \A v \in Workers : v # w => worker'[v] = worker[v]
      /\ WorkerType'
  BY <1>2, Going
<1>8. TypeOK'
  BY <1>1, <1>6, <1>7 DEF DataInv, TypeOK, WorkerType
<1>9. \A v \in Workers : worker'[v].flow = worker[v].flow /\ StackOf(v)' = StackOf(v)
  BY <1>1, <1>2, <1>7 DEF StackOf
<1>10. \A v \in Workers : v # w => worker[v].flow # c
  BY <1>2, <1>3 DEF DataInv, Exclusive
<1>11. ASSUME NEW v \in Workers PROVE WorkerOK(v)'
  <2>1. CASE v = w
    <3>1. StackOf(w)' = k
      BY <1>9
    <3> QED BY <1>1, <1>3, <1>4, <1>6, <1>7, <2>1, <3>1 DEF WorkerOK
  <2>2. CASE v # w
    <3>1. WorkerOK(v) /\ worker'[v] = worker[v]
      BY <1>7, <2>2 DEF DataInv
    <3>2. Busy(v) => worker[v].flow \notin flows /\ StackOf(v) \in Stacks
      BY WorkerShape
    <3>3. Hand(v) => Busy(v)
      BY DEF Hand, Busy
    <3>4. worker[v].at = "remove" => worker[v].block \in map'[StackOf(v)]
      <4>1. HAVE worker[v].at = "remove"
      <4>2. /\ worker[v].block \in map[StackOf(v)] /\ StackOf(v) \in Stacks
            /\ end[StackOf(v)][worker[v].block].flow = worker[v].flow
        BY <3>1, <3>2, <4>1 DEF WorkerOK, Busy
      <4>3. StackOf(v) = k => worker[v].block # b
        BY <1>3, <1>10, <2>2, <4>2
      <4> QED BY <1>6, <4>2, <4>3
    <3>5. Hand(v) => worker[v].block \notin map[StackOf(v)] /\ worker[v].block \notin unused[StackOf(v)]
      BY <3>1 DEF WorkerOK
    <3>6. Hand(v) => worker[v].block \notin map'[StackOf(v)]
      BY <1>6, <3>2, <3>3, <3>5
    <3> QED BY <1>1, <3>1, <3>2, <3>4, <3>5, <3>6, OtherWorker
  <2> QED BY <2>1, <2>2
<1>12. Exclusive'
  <2>1. \A v \in Workers : Hand(v) /\ StackOf(v) = k => worker[v].block # b
    BY <1>3 DEF DataInv, WorkerOK
  <2>2. StackOf(w)' = k
    BY <1>9
  <2> QED BY <1>7, <1>9, <1>10, <2>1, <2>2, ExclusiveStep
<1>13. ContextsOK' /\ KeysOK'
  BY <1>1, <1>9, SameContexts DEF DataInv
<1>14. ASSUME NEW j \in Stacks PROVE MapOK(j)'
  <2> SUFFICES ASSUME NEW a \in map'[j]
               PROVE  LET d == end'[j][a].flow IN
                        /\ a \notin unused'[j]
                        /\ d \in Contexts
                        /\ context'[d].in = [stack |-> j, key |-> end'[j][a].key]
                        /\ context'[d].handle = a
                        /\ \/ d \in flows'
                           \/ \E v \in Workers : worker'[v].flow = d /\ worker'[v].at = "remove"
    BY DEF MapOK
  <2>1. PICK d : d = end[j][a].flow
    OBVIOUS
  <2>2. a \in map[j] /\ (j = k => a # b)
    BY <1>6
  <2>3. /\ a \notin unused[j]
        /\ d \in Contexts
        /\ context[d].in = [stack |-> j, key |-> end[j][a].key]
        /\ context[d].handle = a
        /\ d \in flows \/ \E v \in Workers : worker[v].flow = d /\ worker[v].at = "remove"
    BY <2>1, <2>2 DEF DataInv, MapOK
  <2>4. d # c
    BY <1>3, <1>4, <2>2, <2>3
  <2>5. d \in flows \/ \E v \in Workers : worker'[v].flow = d /\ worker'[v].at = "remove"
    BY <1>2, <1>7, <2>3, <2>4
  <2> QED BY <1>1, <2>1, <2>3, <2>5
<1>15. FlowsOK'
  <2> SUFFICES ASSUME NEW d \in flows, context[d].handle # Null
               PROVE  /\ context[d].handle \in map'[context[d].in.stack]
                      /\ end[context[d].in.stack][context[d].handle].flow = d
    BY <1>1 DEF FlowsOK
  <2>1. /\ context[d].handle \in map[context[d].in.stack]
        /\ end[context[d].in.stack][context[d].handle].flow = d
    BY DEF DataInv, FlowsOK
  <2>2. context[d].in.stack = k => context[d].handle # b
    BY <1>3, <2>1
  <2>3. context[d].in.stack \in Stacks
    <3>1. Has(d) /\ d \in Contexts
      BY DEF Has, DataInv, TypeOK
    <3> QED BY <3>1, FlowShape DEF DataInv, ContextsOK
  <2> QED BY <1>6, <2>1, <2>2, <2>3
<1>16. ASSUME NEW j \in Stacks PROVE Pool(j)'
  <2>0. Pool(j)
    BY DEF DataInv
  <2>1. CASE j = k
    <3>1. (Hand(w) /\ StackOf(w) = k)' /\ worker'[w].block = b
      BY <1>7, <1>9 DEF Hand
    <3>2. \A a : InHands(k, a)' <=>
             \/ \E v \in Workers : v # w /\ Hand(v) /\ StackOf(v) = k /\ worker[v].block = a
             \/ (Hand(w) /\ StackOf(w) = k /\ worker[w].block = a)'
      BY <1>7, <1>9, HandsStep
    <3>3. \A a : InHands(k, a)' <=> InHands(k, a) \/ a = b
      BY <1>1, <3>1, <3>2 DEF InHands
    <3>4. \A a \in Blocks : Taken(k, a)' <=> Taken(k, a)
      BY <1>1, <1>3, <1>6, <3>3 DEF Taken
    <3> QED BY <1>1, <2>0, <2>1, <3>4, SamePool
  <2>2. CASE j # k
    <3>1. ~ (Hand(w) /\ StackOf(w) = j)'
      BY <1>9, <2>2
    <3>2. \A a : InHands(j, a)' <=> InHands(j, a)
      BY <1>1, <1>7, <1>9, <3>1, HandUnchanged
    <3>3. \A a \in Blocks : Taken(j, a)' <=> Taken(j, a)
      BY <1>1, <1>6, <2>2, <3>2 DEF Taken
    <3> QED BY <1>1, <2>0, <3>3, SamePool
  <2> QED BY <2>1, <2>2
<1> QED BY <1>1, <1>8, <1>11, <1>12, <1>13, <1>14, <1>15, <1>16 DEF DataInv

LEMMA DeleteContextStep == ASSUME DataInv, NEW w \in Workers, DeleteContext(w) PROVE DataInv'
<1>1. /\ worker[w].at = "delete" /\ Busy(w) /\ ~ Hand(w)
      /\ worker' = [worker EXCEPT ![w] = Idle]
      /\ UNCHANGED <<context, head, next, unused, end, map, flows, messages, aborted>>
  BY DEF DeleteContext, Work, Busy, Hand
<1>2. PICK c \in Contexts : c = worker[w].flow
  BY <1>1, WorkerShape
<1>3. /\ c # Null /\ c \notin flows /\ context[c] # Null /\ Has(c)
      /\ contexts \in Seq(Contexts) /\ IsInjective(contexts) /\ ~ Occurs(c, contexts)
  BY <1>1, <1>2, WorkerShape DEF DataInv, TypeOK, ContextsOK
<1>4. contexts' = <<c>> \o contexts
  BY <1>2 DEF DeleteContext, FreeContext
<1>5. /\ contexts' \in Seq(Contexts) /\ IsInjective(contexts')
      /\ \A x : Occurs(x, contexts') <=> Occurs(x, contexts) \/ x = c
  BY <1>3, <1>4, PushList
<1>6. /\ worker'[w] = Idle
      /\ \A v \in Workers : v # w => worker'[v] = worker[v]
  BY <1>1, OthersStay
<1>7. TypeOK'
  <2>1. WorkerType'
    BY <1>1 DEF WorkerType, DataInv, TypeOK, Idle
  <2> QED BY <1>1, <1>5, <2>1 DEF DataInv, TypeOK, WorkerType
<1>8. \A v \in Workers : v # w => StackOf(v)' = StackOf(v)
  BY <1>1, <1>6 DEF StackOf
<1>9. \A v \in Workers : v # w => worker[v].flow # c
  BY <1>2, <1>3 DEF DataInv, Exclusive
<1>10. \A d \in Contexts : Has(d)' <=> Has(d) /\ d # c
  <2>1. worker'[w].flow \notin Contexts
    BY <1>6, DataPlaneAssumption DEF Idle
  <2> QED BY <1>1, <1>2, <1>3, <1>6, <1>9, <2>1 DEF Has
<1>11. ASSUME NEW v \in Workers PROVE WorkerOK(v)'
  <2>1. CASE v = w
    BY <1>6, <2>1 DEF WorkerOK, Hand, Idle
  <2>2. CASE v # w
    <3>1. WorkerOK(v) /\ worker'[v] = worker[v]
      BY <1>6, <2>2 DEF DataInv
    <3>2. Busy(v) => worker[v].flow \notin flows
      BY WorkerShape
    <3>3. /\ worker[v].at = "remove" => worker[v].block \in map[StackOf(v)]
          /\ Hand(v) => worker[v].block \notin map[StackOf(v)] /\ worker[v].block \notin unused[StackOf(v)]
      BY <3>1 DEF WorkerOK
    <3> QED BY <1>1, <3>1, <3>2, <3>3, OtherWorker
  <2> QED BY <2>1, <2>2
<1>12. Exclusive'
  <2>1. worker'[w].flow = Null /\ ~ Hand(w)'
    BY <1>6 DEF Idle, Hand
  <2> QED BY <1>6, <1>8, <2>1, ExclusiveStep
<1>13. ContextsOK'
  BY <1>1, <1>3, <1>5, <1>10 DEF DataInv, ContextsOK
<1>14. KeysOK'
  BY <1>1, <1>10 DEF DataInv, KeysOK
<1>15. (\A j \in Stacks : MapOK(j)') /\ FlowsOK'
  <2>1. \A v \in Workers : worker[v].at = "remove" => worker'[v] = worker[v]
    BY <1>1, <1>6
  <2> QED BY <1>1, <2>1, MoreFlows
<1>16. ASSUME NEW j \in Stacks PROVE Pool(j)'
  <2>0. Pool(j)
    BY DEF DataInv
  <2>1. ~ Hand(w)'
    BY <1>6 DEF Idle, Hand
  <2>2. \A a : InHands(j, a)' <=> InHands(j, a)
    BY <1>1, <1>6, <1>8, <2>1, HandUnchanged
  <2>3. \A a \in Blocks : Taken(j, a)' <=> Taken(j, a)
    BY <1>1, <2>2 DEF Taken
  <2> QED BY <1>1, <2>0, <2>3, SamePool
<1> QED BY <1>1, <1>7, <1>11, <1>12, <1>13, <1>14, <1>15, <1>16 DEF DataInv

\* A worker that is idle has nothing.
LEMMA IdleShape ==
  ASSUME DataInv, NEW w \in Workers, worker[w].at = "idle"
  PROVE  worker[w].flow = Null /\ ~ Busy(w) /\ ~ Hand(w)
BY DEF DataInv, WorkerOK, Busy, Hand

\* What the pool of contexts gives is in use nowhere.
LEMMA NewContextIsFree ==
  ASSUME DataInv, NEW c \in NewContext,
         contexts' = IF contexts # <<>> THEN Tail(contexts) ELSE contexts
  PROVE  /\ c \in Contexts /\ ~ Has(c)
         /\ contexts' \in Seq(Contexts) /\ IsInjective(contexts')
         /\ \A x : Occurs(x, contexts') <=> Occurs(x, contexts) /\ x # c
<1>1. contexts \in Seq(Contexts) /\ IsInjective(contexts)
  BY DEF DataInv, TypeOK, ContextsOK
<1>2. CASE contexts # <<>>
  <2>1. c = Head(contexts) /\ contexts' = Tail(contexts)
    BY <1>2 DEF NewContext
  <2>2. /\ c \in Contexts /\ contexts' \in Seq(Contexts) /\ IsInjective(contexts')
        /\ Occurs(c, contexts)
        /\ \A x : Occurs(x, contexts') <=> Occurs(x, contexts) /\ x # c
    BY <1>1, <1>2, <2>1, PopList
  <2> QED BY <2>2 DEF DataInv, ContextsOK
<1>3. CASE contexts = <<>>
  <2>1. contexts' = contexts /\ \A x : ~ Occurs(x, contexts)
    BY <1>3 DEF Occurs
  <2>2. c \in Contexts /\ context[c] = Null
    BY <1>3 DEF NewContext
  <2> QED BY <1>1, <2>1, <2>2 DEF DataInv, ContextsOK
<1> QED BY <1>2, <1>3

LEMMA StartCreateStep == ASSUME DataInv, NEW w \in Workers, StartCreate(w) PROVE DataInv'
<1>1. /\ worker[w].at = "idle"
      /\ UNCHANGED <<head, next, unused, end, map, flows, messages, aborted>>
  BY DEF StartCreate, Work
<1>2. PICK f \in Requests, c \in NewContext :
        /\ f.in.stack = "gtpu" => f.in.key \notin Keys("gtpu")
        /\ context' = [context EXCEPT ![c] = [in |-> f.in, out |-> f.out, handle |-> Null]]
        /\ contexts' = IF contexts # <<>> THEN Tail(contexts) ELSE contexts
        /\ worker' = [worker EXCEPT ![w] = [at |-> "new", flow |-> c, block |-> Null]]
  BY DEF StartCreate
<1>3. worker[w].flow = Null /\ ~ Busy(w) /\ ~ Hand(w)
  BY <1>1, IdleShape
<1>4. /\ c \in Contexts /\ ~ Has(c)
      /\ contexts' \in Seq(Contexts) /\ IsInjective(contexts')
      /\ \A x : Occurs(x, contexts') <=> Occurs(x, contexts) /\ x # c
  BY <1>2, NewContextIsFree
<1>5. c # Null /\ c \notin flows /\ \A v \in Workers : worker[v].flow # c
  BY <1>4, DataPlaneAssumption DEF Has
<1>6. /\ worker'[w] = [at |-> "new", flow |-> c, block |-> Null]
      /\ \A v \in Workers : v # w => worker'[v] = worker[v]
  BY <1>2, OthersStay
<1>7. PICK new : new = [in |-> f.in, out |-> f.out, handle |-> Null]
  OBVIOUS
<1>8. new \in FlowContext /\ new # Null /\ new.handle = Null /\ new.in = f.in
  <2>1. new \in FlowContext
    BY <1>7 DEF FlowContext
  <2> QED BY <1>7, <2>1, DataPlaneAssumption
<1>9. context \in [Contexts -> {Null} \cup FlowContext]
  BY DEF DataInv, TypeOK
<1>10. /\ context' \in [Contexts -> {Null} \cup FlowContext]
       /\ context'[c] = new
       /\ \A d \in Contexts : d # c => context'[d] = context[d]
  BY <1>2, <1>4, <1>7, <1>8, <1>9
<1>11. TypeOK'
  <2>1. WorkerType'
    BY <1>2, <1>4 DEF WorkerType, DataInv, TypeOK
  <2> QED BY <1>1, <1>4, <1>10, <2>1 DEF DataInv, TypeOK, WorkerType
<1>12. \A v \in Workers : Busy(v) => /\ v # w /\ worker[v].flow \in Contexts
                                    /\ worker[v].flow # c
                                    /\ context'[worker[v].flow] = context[worker[v].flow]
                                    /\ StackOf(v)' = StackOf(v)
  <2>1. \A v \in Workers : Busy(v) => v # w /\ worker[v].flow \in Contexts
    BY <1>3, WorkerShape
  <2> QED BY <1>5, <1>6, <1>10, <2>1 DEF StackOf
<1>13. \A d \in Contexts : Has(d)' <=> Has(d) \/ d = c
  <2>1. \A d \in Contexts : d # Null
    BY DataPlaneAssumption
  <2> QED BY <1>1, <1>3, <1>6, <2>1 DEF Has
<1>14. ASSUME NEW v \in Workers PROVE WorkerOK(v)'
  <2>1. CASE v = w
    BY <1>1, <1>4, <1>5, <1>6, <1>8, <1>10, <2>1 DEF WorkerOK, Hand
  <2>2. CASE v # w
    <3>1. WorkerOK(v) /\ worker'[v] = worker[v]
      BY <1>6, <2>2 DEF DataInv
    <3>2. Busy(v) => worker[v].flow \notin flows
      BY WorkerShape
    <3>3. /\ worker[v].at = "remove" => worker[v].block \in map[StackOf(v)]
          /\ Hand(v) => worker[v].block \notin map[StackOf(v)] /\ worker[v].block \notin unused[StackOf(v)]
      BY <3>1 DEF WorkerOK
    <3> QED BY <1>1, <1>12, <3>1, <3>2, <3>3, OtherWorker
  <2> QED BY <2>1, <2>2
<1>15. Exclusive'
  <2>1. worker'[w].flow = c /\ ~ Hand(w)'
    BY <1>6 DEF Hand
  <2> QED BY <1>5, <1>6, <1>12, <2>1, ExclusiveStep
<1>16. ContextsOK'
  <2>1. \A d \in Contexts : Occurs(d, contexts') => ~ Has(d)'
    BY <1>4, <1>13 DEF DataInv, ContextsOK
  <2>2. ASSUME NEW d \in Contexts
        PROVE  context'[d] # Null <=> Has(d)' \/ Occurs(d, contexts')
    <3>1. CASE d = c
      BY <1>8, <1>10, <1>13, <3>1
    <3>2. CASE d # c
      BY <1>4, <1>10, <1>13, <3>2 DEF DataInv, ContextsOK
    <3> QED BY <3>1, <3>2
  <2> QED BY <1>4, <2>1, <2>2 DEF ContextsOK
<1>17. KeysOK'
  <2>1. ASSUME NEW d \in Contexts, d # c, Has(d), f.in.stack = "gtpu", context[d].in = f.in
        PROVE  FALSE
    <3>1. d \in Held
      BY <2>1, DataPlaneAssumption DEF Held, Has
    <3>2. f.in.key \in Keys("gtpu")
      BY <2>1, <3>1 DEF Keys
    <3> QED BY <1>2, <2>1, <3>2
  <2>2. ASSUME NEW x \in Contexts, NEW y \in Contexts, Has(x)', Has(y)',
               context'[x].in.stack = "gtpu", context'[y].in = context'[x].in
        PROVE  x = y
    <3>1. CASE x = c /\ y # c
      <4>1. Has(y) /\ context[y].in = f.in /\ f.in.stack = "gtpu"
        BY <1>8, <1>10, <1>13, <2>2, <3>1
      <4> QED BY <2>1, <3>1, <4>1
    <3>2. CASE x # c /\ y = c
      <4>1. Has(x) /\ context[x].in = f.in /\ f.in.stack = "gtpu"
        BY <1>8, <1>10, <1>13, <2>2, <3>2
      <4> QED BY <2>1, <3>2, <4>1
    <3>3. CASE x # c /\ y # c
      BY <1>10, <1>13, <2>2, <3>3 DEF DataInv, KeysOK
    <3> QED BY <3>1, <3>2, <3>3
  <2> QED BY <2>2 DEF KeysOK
<1>18. ASSUME NEW j \in Stacks PROVE MapOK(j)'
  <2> SUFFICES ASSUME NEW a \in map[j]
               PROVE  LET d == end[j][a].flow IN
                        /\ a \notin unused[j]
                        /\ d \in Contexts
                        /\ context'[d].in = [stack |-> j, key |-> end[j][a].key]
                        /\ context'[d].handle = a
                        /\ \/ d \in flows
                           \/ \E v \in Workers : worker'[v].flow = d /\ worker'[v].at = "remove"
    BY <1>1 DEF MapOK
  <2>1. PICK d : d = end[j][a].flow
    OBVIOUS
  <2>2. /\ a \notin unused[j]
        /\ d \in Contexts
        /\ context[d].in = [stack |-> j, key |-> end[j][a].key]
        /\ context[d].handle = a
        /\ d \in flows \/ \E v \in Workers : worker[v].flow = d /\ worker[v].at = "remove"
    BY <2>1 DEF DataInv, MapOK
  <2>3. context'[d] = context[d]
    BY <1>5, <1>10, <2>2
  <2>4. d \in flows \/ \E v \in Workers : worker'[v].flow = d /\ worker'[v].at = "remove"
    BY <1>1, <1>6, <2>2
  <2> QED BY <2>1, <2>2, <2>3, <2>4
<1>19. FlowsOK'
  <2>1. \A d \in flows : context'[d] = context[d]
    BY <1>5, <1>10 DEF DataInv, TypeOK
  <2> QED BY <1>1, <2>1 DEF DataInv, FlowsOK
<1>20. ASSUME NEW j \in Stacks PROVE Pool(j)'
  <2>0. Pool(j)
    BY DEF DataInv
  <2>1. ~ Hand(w)'
    BY <1>6 DEF Hand
  <2>2. \A a : InHands(j, a)' <=> InHands(j, a)
    BY <1>3, <1>6, <1>12, <2>1, HandUnchanged
  <2>3. \A a \in Blocks : Taken(j, a)' <=> Taken(j, a)
    BY <1>1, <2>2 DEF Taken
  <2> QED BY <1>1, <2>0, <2>3, SamePool
<1> QED BY <1>1, <1>11, <1>14, <1>15, <1>16, <1>17, <1>18, <1>19, <1>20 DEF DataInv

LEMMA StartDestroyStep == ASSUME DataInv, NEW w \in Workers, StartDestroy(w) PROVE DataInv'
<1>1. /\ worker[w].at = "idle"
      /\ UNCHANGED <<contexts, context, head, next, unused, end, map, messages, aborted>>
  BY DEF StartDestroy, Work, pools
<1>2. PICK c \in flows :
        /\ flows' = flows \ {c}
        /\ worker' = [worker EXCEPT ![w] =
                        [at |-> IF context[c].handle # Null THEN "remove" ELSE "delete",
                         flow |-> c, block |-> context[c].handle]]
  BY DEF StartDestroy
<1>3. worker[w].flow = Null /\ ~ Busy(w) /\ ~ Hand(w)
  BY <1>1, IdleShape
<1>4. c \in Contexts /\ c # Null /\ Has(c)
  BY DataPlaneAssumption DEF DataInv, TypeOK, Has
<1>5. context[c] # Null /\ context[c].handle \in Blocks \cup {Null} /\ context[c].in.stack \in Stacks
  <2>1. context[c] # Null
    BY <1>4 DEF DataInv, ContextsOK
  <2> QED BY <1>4, <2>1, FlowShape DEF DataInv
<1>6. /\ worker'[w] = [at |-> IF context[c].handle # Null THEN "remove" ELSE "delete",
                       flow |-> c, block |-> context[c].handle]
      /\ \A v \in Workers : v # w => worker'[v] = worker[v]
  <2>1. PICK r : r = [at |-> IF context[c].handle # Null THEN "remove" ELSE "delete",
                      flow |-> c, block |-> context[c].handle]
    OBVIOUS
  <2>2. worker' = [worker EXCEPT ![w] = r]
    BY <1>2, <2>1
  <2>3. /\ worker'[w] = r
        /\ \A v \in Workers : v # w => worker'[v] = worker[v]
    BY <2>2, OthersStay
  <2> QED BY <2>1, <2>3
<1>7. /\ worker'[w].flow = c /\ worker'[w].at \in {"remove", "delete"}
      /\ worker'[w].block = context[c].handle
      /\ worker'[w].at = "remove" <=> context[c].handle # Null
  BY <1>6
<1>8. TypeOK'
  <2>1. worker'[w] \in [at : {"idle", "new", "pop", "insert", "remove", "push", "pushed", "delete"},
                        flow : Contexts \cup {Null}, block : Blocks \cup {Null}]
    BY <1>4, <1>5, <1>6
  <2>2. WorkerType'
    BY <1>2, <1>6, <2>1 DEF WorkerType, DataInv, TypeOK
  <2> QED BY <1>1, <1>2, <2>2 DEF DataInv, TypeOK, WorkerType
<1>9. \A v \in Workers : Busy(v) => v # w /\ worker[v].flow # c /\ StackOf(v)' = StackOf(v)
  <2>1. \A v \in Workers : Busy(v) => v # w /\ worker[v].flow \notin flows
    BY <1>3, WorkerShape
  <2> QED BY <1>1, <1>6, <2>1 DEF StackOf
<1>10. ASSUME NEW v \in Workers PROVE worker[v].flow # c
  BY <1>9, <1>4 DEF Busy, DataInv, WorkerOK
<1>11. \A d \in Contexts : Has(d)' <=> Has(d)
  <2>1. \A d \in Contexts : d # Null
    BY DataPlaneAssumption
  <2> QED BY <1>2, <1>3, <1>6, <1>7, <2>1 DEF Has
<1>12. ASSUME NEW v \in Workers PROVE WorkerOK(v)'
  <2>1. CASE v = w
    <3>1. StackOf(w)' = context[c].in.stack
      BY <1>1, <1>7 DEF StackOf
    <3>2. context[c].handle # Null =>
            /\ context[c].handle \in map[context[c].in.stack]
            /\ end[context[c].in.stack][context[c].handle].flow = c
      BY DEF DataInv, FlowsOK
    <3>3. c \notin flows'
      BY <1>2
    <3> QED BY <1>1, <1>4, <1>5, <1>7, <2>1, <3>1, <3>2, <3>3 DEF WorkerOK, Hand
  <2>2. CASE v # w
    <3>1. WorkerOK(v) /\ worker'[v] = worker[v]
      BY <1>6, <2>2 DEF DataInv
    <3>2. Busy(v) => worker[v].flow \notin flows'
      BY <1>2, WorkerShape
    <3>3. /\ worker[v].at = "remove" => worker[v].block \in map[StackOf(v)]
          /\ Hand(v) => worker[v].block \notin map[StackOf(v)] /\ worker[v].block \notin unused[StackOf(v)]
      BY <3>1 DEF WorkerOK
    <3> QED BY <1>1, <3>1, <3>2, <3>3, OtherWorker
  <2> QED BY <2>1, <2>2
<1>13. Exclusive'
  <2>1. ~ Hand(w)'
    BY <1>7 DEF Hand
  <2> QED BY <1>6, <1>7, <1>9, <1>10, <2>1, ExclusiveStep
<1>14. ContextsOK' /\ KeysOK'
  BY <1>1, <1>11, SameHolders DEF DataInv
<1>15. ASSUME NEW j \in Stacks PROVE MapOK(j)'
  <2> SUFFICES ASSUME NEW a \in map[j]
               PROVE  LET d == end[j][a].flow IN
                        /\ a \notin unused[j]
                        /\ d \in Contexts
                        /\ context[d].in = [stack |-> j, key |-> end[j][a].key]
                        /\ context[d].handle = a
                        /\ \/ d \in flows'
                           \/ \E v \in Workers : worker'[v].flow = d /\ worker'[v].at = "remove"
    BY <1>1 DEF MapOK
  <2>1. PICK d : d = end[j][a].flow
    OBVIOUS
  <2>2. /\ a \notin unused[j]
        /\ d \in Contexts
        /\ context[d].in = [stack |-> j, key |-> end[j][a].key]
        /\ context[d].handle = a
        /\ d \in flows \/ \E v \in Workers : worker[v].flow = d /\ worker[v].at = "remove"
    BY <2>1 DEF DataInv, MapOK
  <2>3. a # Null
    BY DataPlaneAssumption DEF DataInv, TypeOK
  <2>4. d \in flows' \/ \E v \in Workers : worker'[v].flow = d /\ worker'[v].at = "remove"
    <3>1. CASE d = c
      BY <1>7, <2>2, <2>3, <3>1
    <3>2. CASE d # c
      BY <1>1, <1>2, <1>6, <2>2, <3>2
    <3> QED BY <3>1, <3>2
  <2> QED BY <2>1, <2>2, <2>4
<1>16. FlowsOK'
  BY <1>1, <1>2 DEF DataInv, FlowsOK
<1>17. ASSUME NEW j \in Stacks PROVE Pool(j)'
  <2>0. Pool(j)
    BY DEF DataInv
  <2>1. ~ Hand(w)'
    BY <1>7 DEF Hand
  <2>2. \A a : InHands(j, a)' <=> InHands(j, a)
    BY <1>3, <1>6, <1>9, <2>1, HandUnchanged
  <2>3. \A a \in Blocks : Taken(j, a)' <=> Taken(j, a)
    BY <1>1, <2>2 DEF Taken
  <2> QED BY <1>1, <2>0, <2>3, SamePool
<1> QED BY <1>1, <1>8, <1>12, <1>13, <1>14, <1>15, <1>16, <1>17 DEF DataInv

\* Worker w has filled in end point b of stack k for flow c.
Filled(w, k, c, b) ==
  /\ k \in Stacks /\ c \in Contexts /\ b \in Blocks
  /\ Busy(w) /\ Hand(w) /\ InHands(k, b)
  /\ c # Null /\ c \notin flows /\ context[c] # Null /\ Has(c)
  /\ context[c].handle = Null /\ context[c].in.stack = k
  /\ context[c].in = [stack |-> k, key |-> context[c].in.key]
  /\ b \notin map[k] /\ b \notin unused[k]
  /\ end' \in [Stacks -> [Blocks -> [key : Teids \cup Addrs \cup {Garbage},
                                    flow : Contexts \cup {Garbage}]]]
  /\ end'[k][b] = [key |-> context[c].in.key, flow |-> c]
  /\ \A j \in Stacks : \A a \in map[j] : end'[j][a] = end[j][a]
  /\ \A j \in Stacks : \A a \in map[j] : end[j][a].flow # c

\* A worker that fills in its end point.
LEMMA InsertShape ==
  ASSUME DataInv, NEW w \in Workers, worker[w].at = "insert", Fill(w),
         NEW k, k = StackOf(w), NEW c, c = worker[w].flow, NEW b, b = worker[w].block
  PROVE  Filled(w, k, c, b)
<1>1. Busy(w) /\ Hand(w) /\ b \in Blocks /\ b \notin map[k] /\ b \notin unused[k]
  BY DEF Busy, Hand, DataInv, WorkerOK
<1>2. /\ k \in Stacks /\ c \in Contexts /\ c # Null /\ c \notin flows /\ context[c] # Null
      /\ Has(c) /\ context[c].in.stack = k
  BY <1>1, WorkerShape
<1>3. context[c].handle = Null
  BY <1>2 DEF DataInv, WorkerOK
<1>4. /\ context[c].in = [stack |-> k, key |-> context[c].in.key]
      /\ context[c].in.key \in Teids \cup Addrs
  BY <1>2, FlowShape DEF DataInv
<1>5. end' = [end EXCEPT ![k][b] = [key |-> context[c].in.key, flow |-> c]]
  BY DEF Fill, EndPoint
<1>6. end \in [Stacks -> [Blocks -> [key : Teids \cup Addrs \cup {Garbage},
                                    flow : Contexts \cup {Garbage}]]]
  BY DEF DataInv, TypeOK
<1>7. PICK e : e = [key |-> context[c].in.key, flow |-> c]
  OBVIOUS
<1>8. e \in [key : Teids \cup Addrs \cup {Garbage}, flow : Contexts \cup {Garbage}]
  BY <1>2, <1>4, <1>7
<1>9. /\ end' \in [Stacks -> [Blocks -> [key : Teids \cup Addrs \cup {Garbage},
                                        flow : Contexts \cup {Garbage}]]]
      /\ end'[k][b] = e
      /\ \A j \in Stacks : \A a \in Blocks : j # k \/ a # b => end'[j][a] = end[j][a]
  BY <1>1, <1>2, <1>5, <1>6, <1>7, <1>8
<1>10. map \in [Stacks -> SUBSET Blocks]
  BY DEF DataInv, TypeOK
<1>11. ASSUME NEW j \in Stacks, NEW a \in map[j]
       PROVE  end'[j][a] = end[j][a] /\ end[j][a].flow # c
  <2>1. a \in Blocks /\ (j # k \/ a # b)
    BY <1>1, <1>10
  <2>2. PICK d : d = end[j][a].flow
    OBVIOUS
  <2>3. context[d].handle = a
    BY <2>2 DEF DataInv, MapOK
  <2>4. a # Null
    BY <2>1, DataPlaneAssumption
  <2> QED BY <1>3, <1>9, <2>1, <2>2, <2>3, <2>4
<1>12. InHands(k, b)
  BY <1>1 DEF InHands
<1> QED BY <1>1, <1>2, <1>3, <1>4, <1>7, <1>9, <1>11, <1>12 DEF Filled

\* The end point is new: the flow is complete.
LEMMA CreatedStep ==
  ASSUME DataInv, NEW w \in Workers, worker[w].at = "insert", Fill(w), Created(w),
         UNCHANGED <<pools, messages>>
  PROVE  DataInv'
<1>1. PICK k, c, b : k = StackOf(w) /\ c = worker[w].flow /\ b = worker[w].block
  OBVIOUS
<1>2. /\ k \in Stacks /\ c \in Contexts /\ b \in Blocks
      /\ Busy(w) /\ Hand(w) /\ InHands(k, b)
      /\ c # Null /\ c \notin flows /\ context[c] # Null /\ Has(c)
      /\ context[c].handle = Null /\ context[c].in.stack = k
      /\ context[c].in = [stack |-> k, key |-> context[c].in.key]
      /\ b \notin map[k] /\ b \notin unused[k]
      /\ end' \in [Stacks -> [Blocks -> [key : Teids \cup Addrs \cup {Garbage},
                                        flow : Contexts \cup {Garbage}]]]
      /\ end'[k][b] = [key |-> context[c].in.key, flow |-> c]
      /\ \A j \in Stacks : \A a \in map[j] : end'[j][a] = end[j][a]
      /\ \A j \in Stacks : \A a \in map[j] : end[j][a].flow # c
  <2>1. Filled(w, k, c, b)
    BY <1>1, InsertShape
  <2> QED BY <2>1 DEF Filled
<1>3. /\ map' = [map EXCEPT ![k] = @ \cup {b}]
      /\ context' = [context EXCEPT ![c].handle = b]
      /\ flows' = flows \cup {c}
      /\ worker' = [worker EXCEPT ![w] = Idle]
      /\ UNCHANGED <<contexts, head, next, unused, messages, aborted>>
  BY <1>1 DEF Created, pools
<1>4. /\ map \in [Stacks -> SUBSET Blocks] /\ context \in [Contexts -> {Null} \cup FlowContext]
      /\ flows \subseteq Contexts
  BY DEF DataInv, TypeOK
<1>5. /\ map' \in [Stacks -> SUBSET Blocks] /\ map'[k] = map[k] \cup {b}
      /\ \A j \in Stacks : j # k => map'[j] = map[j]
  BY <1>2, <1>3, <1>4
<1>6. PICK new : new = [in |-> context[c].in, out |-> context[c].out, handle |-> b]
  OBVIOUS
<1>7. new \in FlowContext /\ new # Null /\ new.in = context[c].in /\ new.handle = b
  <2>1. [in |-> context[c].in, out |-> context[c].out] \in Requests
    BY <1>2, FlowShape DEF DataInv
  <2>2. new \in FlowContext
    BY <1>2, <1>6, <2>1 DEF FlowContext
  <2> QED BY <1>6, <2>2, DataPlaneAssumption
<1>8. /\ context' \in [Contexts -> {Null} \cup FlowContext]
      /\ context'[c] = new
      /\ \A d \in Contexts : d # c => context'[d] = context[d]
  <2>1. [context[c] EXCEPT !.handle = b] = new
    <3>1. PICK f \in Requests, h \in Blocks \cup {Null} :
            context[c] = [in |-> f.in, out |-> f.out, handle |-> h]
      BY <1>2, <1>4 DEF FlowContext
    <3> QED BY <1>6, <3>1
  <2>2. context' = [context EXCEPT ![c] = new]
    BY <1>3, <2>1
  <2> QED BY <1>2, <1>4, <1>7, <2>2
<1>9. /\ worker'[w] = Idle
      /\ \A v \in Workers : v # w => worker'[v] = worker[v]
  BY <1>3, OthersStay
<1>10. TypeOK'
  <2>1. WorkerType'
    BY <1>3 DEF WorkerType, DataInv, TypeOK, Idle
  <2> QED BY <1>2, <1>3, <1>4, <1>5, <1>8, <2>1 DEF DataInv, TypeOK, WorkerType
<1>11. \A v \in Workers : v # w /\ Busy(v) =>
         /\ worker[v].flow # c /\ worker[v].flow \in Contexts /\ worker[v].flow \notin flows'
         /\ context'[worker[v].flow] = context[worker[v].flow]
         /\ StackOf(v) \in Stacks /\ StackOf(v)' = StackOf(v)
  <2>1. \A v \in Workers : v # w => worker[v].flow # c
    BY <1>1, <1>2 DEF DataInv, Exclusive
  <2>2. \A v \in Workers : Busy(v) =>
          worker[v].flow \in Contexts /\ worker[v].flow \notin flows /\ StackOf(v) \in Stacks
    BY WorkerShape
  <2> QED BY <1>3, <1>8, <1>9, <2>1, <2>2 DEF StackOf
<1>12. \A d \in Contexts : Has(d)' <=> Has(d)
  <2>1. \A d \in Contexts : d # Null
    BY DataPlaneAssumption
  <2> QED BY <1>1, <1>2, <1>3, <1>9, <2>1 DEF Has, Idle
<1>13. ASSUME NEW v \in Workers PROVE WorkerOK(v)'
  <2>1. CASE v = w
    BY <1>9, <2>1 DEF WorkerOK, Hand, Idle
  <2>2. CASE v # w
    <3>1. WorkerOK(v) /\ worker'[v] = worker[v]
      BY <1>9, <2>2 DEF DataInv
    <3>2. Hand(v) => Busy(v)
      BY DEF Hand, Busy
    <3>3. /\ worker[v].at = "remove" => worker[v].block \in map[StackOf(v)] /\ Busy(v)
          /\ Hand(v) => worker[v].block \notin map[StackOf(v)] /\ worker[v].block \notin unused[StackOf(v)]
      BY <3>1 DEF WorkerOK, Busy
    <3>4. Hand(v) => worker[v].block \notin map'[StackOf(v)]
      <4>1. Hand(v) /\ StackOf(v) = k => worker[v].block # b
        BY <1>1, <1>2, <2>2 DEF DataInv, Exclusive
      <4> QED BY <1>5, <1>11, <2>2, <3>2, <3>3, <4>1
    <3>5. worker[v].at = "remove" =>
            /\ worker[v].block \in map'[StackOf(v)]
            /\ end'[StackOf(v)][worker[v].block] = end[StackOf(v)][worker[v].block]
      BY <1>2, <1>5, <1>11, <2>2, <3>3
    <3> QED BY <1>3, <1>11, <2>2, <3>1, <3>3, <3>4, <3>5, OtherWorker
  <2> QED BY <2>1, <2>2
<1>14. Exclusive'
  <2>1. worker'[w].flow = Null /\ ~ Hand(w)'
    BY <1>9 DEF Hand, Idle
  <2> QED BY <1>9, <1>11, <2>1, ExclusiveStep
<1>15. ContextsOK'
  <2>1. \A d \in Contexts : context'[d] # Null <=> context[d] # Null
    BY <1>2, <1>7, <1>8
  <2> QED BY <1>3, <1>12, <2>1 DEF DataInv, ContextsOK
<1>16. KeysOK'
  <2>1. \A d \in Contexts : context'[d].in = context[d].in
    BY <1>7, <1>8
  <2> QED BY <1>12, <2>1 DEF DataInv, KeysOK
<1>17. ASSUME NEW j \in Stacks PROVE MapOK(j)'
  <2> SUFFICES ASSUME NEW a \in map'[j]
               PROVE  LET d == end'[j][a].flow IN
                        /\ a \notin unused[j]
                        /\ d \in Contexts
                        /\ context'[d].in = [stack |-> j, key |-> end'[j][a].key]
                        /\ context'[d].handle = a
                        /\ \/ d \in flows'
                           \/ \E v \in Workers : worker'[v].flow = d /\ worker'[v].at = "remove"
    BY <1>3 DEF MapOK
  <2>1. CASE a \in map[j]
    <3>1. PICK d : d = end[j][a].flow
      OBVIOUS
    <3>2. /\ a \notin unused[j]
          /\ d \in Contexts
          /\ context[d].in = [stack |-> j, key |-> end[j][a].key]
          /\ context[d].handle = a
          /\ d \in flows \/ \E v \in Workers : worker[v].flow = d /\ worker[v].at = "remove"
      BY <2>1, <3>1 DEF DataInv, MapOK
    <3>3. d # c /\ end'[j][a] = end[j][a]
      BY <1>2, <2>1, <3>1
    <3>4. context'[d] = context[d]
      BY <1>8, <3>2, <3>3
    <3>5. d \in flows' \/ \E v \in Workers : worker'[v].flow = d /\ worker'[v].at = "remove"
      BY <1>1, <1>3, <1>9, <3>2, <3>3
    <3> QED BY <3>1, <3>2, <3>3, <3>4, <3>5
  <2>2. CASE a \notin map[j]
    <3>1. j = k /\ a = b
      BY <1>5, <2>2
    <3>2. end'[k][b].flow = c /\ end'[k][b].key = context[c].in.key
      BY <1>2
    <3> QED BY <1>2, <1>3, <1>7, <1>8, <3>1, <3>2
  <2> QED BY <2>1, <2>2
<1>18. FlowsOK'
  <2> SUFFICES ASSUME NEW d \in flows', context'[d].handle # Null
               PROVE  /\ context'[d].handle \in map'[context'[d].in.stack]
                      /\ end'[context'[d].in.stack][context'[d].handle].flow = d
    BY DEF FlowsOK
  <2>1. CASE d = c
    BY <1>2, <1>5, <1>7, <1>8, <2>1
  <2>2. CASE d # c
    <3>1. d \in flows /\ d \in Contexts /\ context'[d] = context[d]
      BY <1>3, <1>4, <1>8, <2>2
    <3>2. /\ context[d].handle \in map[context[d].in.stack]
          /\ end[context[d].in.stack][context[d].handle].flow = d
      BY <3>1 DEF DataInv, FlowsOK
    <3>3. context[d].in.stack \in Stacks
      <4>1. Has(d)
        BY <3>1 DEF Has
      <4>2. context[d] # Null
        BY <3>1, <4>1 DEF DataInv, ContextsOK
      <4> QED BY <3>1, <4>2, FlowShape DEF DataInv
    <3>4. context[d].handle \in map'[context[d].in.stack]
      BY <1>5, <3>2, <3>3
    <3> QED BY <1>2, <3>1, <3>2, <3>3, <3>4
  <2> QED BY <2>1, <2>2
<1>19. ASSUME NEW j \in Stacks PROVE Pool(j)'
  <2>0. Pool(j)
    BY DEF DataInv
  <2>1. ~ Hand(w)'
    BY <1>9 DEF Hand, Idle
  <2>2. \A a : InHands(j, a)' <=> InHands(j, a) /\ ~ (j = k /\ a = b)
    BY <1>1, <1>2, <1>9, <1>11, <2>1, HandGiven
  <2>3. \A a : a \in map'[j] <=> a \in map[j] \/ (j = k /\ a = b)
    BY <1>5
  <2>4. \A a \in Blocks : Taken(j, a)' <=> Taken(j, a)
    BY <1>2, <1>3, <2>2, <2>3 DEF Taken
  <2> QED BY <1>3, <2>0, <2>4, SamePool
<1> QED BY <1>3, <1>10, <1>13, <1>14, <1>15, <1>16, <1>17, <1>18, <1>19 DEF DataInv

\* Another end point has the address: the flow goes without.
LEMMA CollidedStep ==
  ASSUME DataInv, NEW w \in Workers, worker[w].at = "insert", Fill(w), Collided(w),
         UNCHANGED <<pools, map, context, messages, aborted>>
  PROVE  DataInv'
<1>1. PICK k, c, b : k = StackOf(w) /\ c = worker[w].flow /\ b = worker[w].block
  OBVIOUS
<1>2. /\ k \in Stacks /\ c \in Contexts /\ b \in Blocks
      /\ Busy(w) /\ Hand(w) /\ InHands(k, b)
      /\ c # Null /\ c \notin flows /\ context[c] # Null /\ Has(c)
      /\ context[c].handle = Null
      /\ b \notin map[k] /\ b \notin unused[k]
      /\ end' \in [Stacks -> [Blocks -> [key : Teids \cup Addrs \cup {Garbage},
                                        flow : Contexts \cup {Garbage}]]]
      /\ \A j \in Stacks : \A a \in map[j] : end'[j][a] = end[j][a]
  <2>1. Filled(w, k, c, b)
    BY <1>1, InsertShape
  <2> QED BY <2>1 DEF Filled
<1>3. UNCHANGED <<contexts, context, head, next, unused, map, flows, messages, aborted>>
  BY DEF Collided, pools
<1>4. /\ worker'[w].at = "push" /\ worker'[w].flow = c /\ worker'[w].block = b
      /\ \A v \in Workers : v # w => worker'[v] = worker[v]
      /\ WorkerType'
  BY <1>1, Going DEF Collided
<1>5. TypeOK'
  BY <1>2, <1>3, <1>4 DEF DataInv, TypeOK, WorkerType
<1>6. \A v \in Workers : worker'[v].flow = worker[v].flow /\ StackOf(v)' = StackOf(v)
  BY <1>1, <1>3, <1>4 DEF StackOf
<1>7. \A v \in Workers : v # w /\ Hand(v) /\ StackOf(v) = k => worker[v].block # b
  BY <1>1, <1>2 DEF DataInv, Exclusive
<1>8. ASSUME NEW v \in Workers PROVE WorkerOK(v)'
  <2>1. CASE v = w
    <3>1. StackOf(w)' = k
      BY <1>1, <1>6
    <3> QED BY <1>2, <1>3, <1>4, <2>1, <3>1 DEF WorkerOK, Hand
  <2>2. CASE v # w
    <3>1. WorkerOK(v) /\ worker'[v] = worker[v]
      BY <1>4, <2>2 DEF DataInv
    <3>2. Busy(v) => worker[v].flow \notin flows /\ StackOf(v) \in Stacks
      BY WorkerShape
    <3>3. /\ worker[v].at = "remove" => worker[v].block \in map[StackOf(v)] /\ Busy(v)
          /\ Hand(v) => worker[v].block \notin map[StackOf(v)] /\ worker[v].block \notin unused[StackOf(v)]
      BY <3>1 DEF WorkerOK, Busy
    <3>4. worker[v].at = "remove" =>
            end'[StackOf(v)][worker[v].block] = end[StackOf(v)][worker[v].block]
      BY <1>2, <3>2, <3>3
    <3> QED BY <1>3, <3>1, <3>2, <3>3, <3>4, OtherWorker
  <2> QED BY <2>1, <2>2
<1>9. Exclusive'
  <2>1. \A v \in Workers : v # w => worker[v].flow # worker'[w].flow
    BY <1>1, <1>2, <1>4 DEF DataInv, Exclusive
  <2>2. StackOf(w)' = k
    BY <1>1, <1>6
  <2> QED BY <1>4, <1>6, <1>7, <2>1, <2>2, ExclusiveStep
<1>10. ContextsOK' /\ KeysOK'
  BY <1>3, <1>6, SameContexts DEF DataInv
<1>11. ASSUME NEW j \in Stacks PROVE MapOK(j)'
  <2>1. \A v \in Workers : worker[v].at = "remove" => worker'[v] = worker[v]
    BY <1>4
  <2>2. MapOK(j) /\ map'[j] = map[j] /\ unused'[j] = unused[j]
    BY <1>3 DEF DataInv
  <2>3. \A a \in map[j] : end'[j][a] = end[j][a]
    BY <1>2
  <2> QED BY <1>3, <2>1, <2>2, <2>3 DEF MapOK
<1>12. FlowsOK'
  <2> SUFFICES ASSUME NEW d \in flows, context[d].handle # Null
               PROVE  /\ context[d].handle \in map[context[d].in.stack]
                      /\ end'[context[d].in.stack][context[d].handle].flow = d
    BY <1>3 DEF FlowsOK
  <2>1. /\ context[d].handle \in map[context[d].in.stack]
        /\ end[context[d].in.stack][context[d].handle].flow = d
    BY DEF DataInv, FlowsOK
  <2>2. context[d].in.stack \in Stacks
    <3>1. Has(d) /\ d \in Contexts
      BY DEF Has, DataInv, TypeOK
    <3>2. context[d] # Null
      BY <3>1 DEF DataInv, ContextsOK
    <3> QED BY <3>1, <3>2, FlowShape DEF DataInv
  <2> QED BY <1>2, <2>1, <2>2
<1>13. ASSUME NEW j \in Stacks PROVE Pool(j)'
  <2>0. Pool(j)
    BY DEF DataInv
  <2>1. Hand(w)'
    BY <1>4 DEF Hand
  <2>2. \A a : InHands(j, a)' <=> InHands(j, a)
    BY <1>1, <1>2, <1>4, <1>6, <2>1, HandUnchanged
  <2>3. \A a \in Blocks : Taken(j, a)' <=> Taken(j, a)
    BY <1>3, <2>2 DEF Taken
  <2> QED BY <1>3, <2>0, <2>3, SamePool
<1> QED BY <1>3, <1>5, <1>8, <1>9, <1>10, <1>11, <1>12, <1>13 DEF DataInv

\* No TEID is given to two flows: the assertion does not fail.
LEMMA InsertGtpuStep == ASSUME DataInv, NEW w \in Workers, InsertGtpu(w) PROVE DataInv'
<1>1. /\ worker[w].at = "insert" /\ StackOf(w) = "gtpu" /\ Fill(w)
      /\ UNCHANGED <<pools, messages>>
  BY DEF InsertGtpu, Work
<1>2. PICK k, c, b : k = StackOf(w) /\ c = worker[w].flow /\ b = worker[w].block
  OBVIOUS
<1>3. "gtpu" \in Stacks
  BY DEF Stacks
<1>4. /\ c \in Contexts /\ c \notin flows /\ Has(c)
      /\ context[c].in = [stack |-> "gtpu", key |-> context[c].in.key]
      /\ \A a \in map["gtpu"] : end'["gtpu"][a] = end["gtpu"][a]
      /\ \A a \in map["gtpu"] : end["gtpu"][a].flow # c
  <2>1. Filled(w, k, c, b)
    BY <1>1, <1>2, InsertShape
  <2> QED BY <1>1, <1>2, <2>1 DEF Filled
<1>5. ~ TeidExists(context[c].in.key)
  <2> SUFFICES ASSUME NEW a \in map["gtpu"], end["gtpu"][a].key = context[c].in.key
               PROVE  FALSE
    BY <1>4 DEF TeidExists
  <2>1. PICK d : d = end["gtpu"][a].flow
    OBVIOUS
  <2>2. /\ d \in Contexts
        /\ context[d].in = [stack |-> "gtpu", key |-> end["gtpu"][a].key]
        /\ d \in flows \/ \E v \in Workers : worker[v].flow = d /\ worker[v].at = "remove"
    BY <1>3, <2>1 DEF DataInv, MapOK
  <2>3. Has(d)
    BY <2>2 DEF Has
  <2>4. d = c
    BY <1>4, <2>2, <2>3 DEF DataInv, KeysOK
  <2> QED BY <1>4, <2>1, <2>4
<1>6. Created(w)
  BY <1>2, <1>5 DEF InsertGtpu
<1> QED BY <1>1, <1>6, CreatedStep

LEMMA InsertIpStep == ASSUME DataInv, NEW w \in Workers, InsertIp(w) PROVE DataInv'
<1>1. /\ worker[w].at = "insert" /\ Fill(w)
      /\ UNCHANGED <<pools, messages>>
  BY DEF InsertIp, Work
<1>2. \/ Created(w)
      \/ Collided(w) /\ UNCHANGED <<map, context, aborted>>
  BY DEF InsertIp
<1> QED BY <1>1, <1>2, CreatedStep, CollidedStep

-----------------------------------------------------------------------------
(* Packets, and the invariant *)

\* End point b leads to a flow that has it.
Leads(k, b, c) ==
  /\ b \in Blocks /\ b # Null /\ c \in Contexts /\ Has(c) /\ context[c] # Null
  /\ context[c].in = [stack |-> k, key |-> end[k][b].key]
  /\ context[c].handle = b
  /\ c \in flows \/ \E w \in Workers : worker[w].flow = c /\ worker[w].at = "remove"

\* Every end point that can be found leads to a flow in use.
LEMMA MapLeads ==
  ASSUME DataInv, NEW k \in Stacks, NEW b \in map[k], NEW c, c = end[k][b].flow
  PROVE  Leads(k, b, c)
<1>1. b \in Blocks /\ b # Null
  BY DataPlaneAssumption DEF DataInv, TypeOK
<1>2. /\ c \in Contexts
      /\ context[c].in = [stack |-> k, key |-> end[k][b].key]
      /\ context[c].handle = b
      /\ c \in flows \/ \E w \in Workers : worker[w].flow = c /\ worker[w].at = "remove"
  BY DEF DataInv, MapOK
<1>3. Has(c)
  BY <1>2 DEF Has
<1>4. context[c] # Null
  BY <1>2, <1>3 DEF DataInv, ContextsOK
<1> QED BY <1>1, <1>2, <1>3, <1>4 DEF Leads

Tunnels == Teids \cup Peers \cup {Garbage}

\* Messages go back to their pool.
LEMMA UseType ==
  ASSUME messages \in Seq(Tunnels), NEW teids \in Seq(Tunnels), Use(teids)
  PROVE  messages' \in Seq(Tunnels)
<1> DEFINE rest == SubSeq(messages, Len(teids) + 1, Len(messages))
<1>1. /\ Len(teids) \in Nat /\ Len(messages) \in Nat
      /\ Len(teids) + 1 \in Int /\ Len(messages) \in Int
      /\ \A i \in Len(teids) + 1 .. Len(messages) : messages[i] \in Tunnels
  OBVIOUS
<1>2. rest \in Seq(Tunnels)
  BY <1>1, SubSeqProperties
<1> HIDE DEF rest
<1>3. teids \o rest \in Seq(Tunnels)
  BY <1>2
<1> QED BY <1>3 DEF Use, rest

LEMMA PacketStep == ASSUME DataInv, Packet PROVE DataInv'
<1>1. UNCHANGED <<contexts, context, head, next, unused, end, map, flows, worker, aborted>>
  BY DEF Packet, pools
<1>2. messages \in Seq(Tunnels)
  BY DEF DataInv, TypeOK, Tunnels
<1>3. \A k \in Stacks : \A b \in map[k] : \A c :
        c = end[k][b].flow /\ context[c].out.stack # "ip" => context[c].out.key \in Peers
  <2>1. ASSUME NEW k \in Stacks, NEW b \in map[k], NEW c, c = end[k][b].flow,
               context[c].out.stack # "ip"
        PROVE  context[c].out.key \in Peers
    <3>1. c \in Contexts /\ context[c] # Null
      <4>1. Leads(k, b, c)
        BY <2>1, MapLeads
      <4> QED BY <4>1 DEF Leads
    <3>2. context[c].out.stack \in Stacks /\ (context[c].out.stack = "gtpu" => context[c].out.key \in Peers)
      BY <3>1, FlowShape DEF DataInv
    <3> QED BY <2>1, <3>2 DEF Stacks
  <2> QED BY <2>1
<1>4. messages' \in Seq(Tunnels)
  <2>1. CASE UNCHANGED messages
    BY <1>2, <2>1
  <2>2. CASE \E g \in GPdus : \E c \in FlowOfTeid(g.teid) : FromGtpu(c, g)
    <3>0. PICK g \in GPdus : \E c \in FlowOfTeid(g.teid) : FromGtpu(c, g)
      BY <2>2
    <3>1. PICK c \in FlowOfTeid(g.teid) : FromGtpu(c, g)
      BY <3>0
    <3>2. g.teid \in Tunnels
      BY DEF GPdus, Tunnels
    <3>3. context[c].out.stack # "ip" => context[c].out.key \in Tunnels
      <4>1. PICK b \in map["gtpu"] : c = end["gtpu"][b].flow
        BY DEF FlowOfTeid
      <4>2. c \in Contexts
        <5>1. Leads("gtpu", b, c)
          BY <4>1, MapLeads DEF Stacks
        <5> QED BY <5>1 DEF Leads
      <4> QED BY <1>3, <4>1, <4>2 DEF Stacks, Tunnels
    <3>4. CASE context[c].out.stack = "ip"
      <4>1. Use(<<g.teid>>) /\ <<g.teid>> \in Seq(Tunnels)
        BY <3>1, <3>2, <3>4 DEF FromGtpu
      <4> QED BY <1>2, <4>1, UseType
    <3>5. CASE context[c].out.stack # "ip"
      <4>1. Use(<<g.teid, context[c].out.key>>) /\ <<g.teid, context[c].out.key>> \in Seq(Tunnels)
        BY <3>1, <3>2, <3>3, <3>5 DEF FromGtpu
      <4> QED BY <1>2, <4>1, UseType
    <3> QED BY <3>4, <3>5
  <2>3. CASE \E f \in Frames : \E c \in FlowOfAddr(f.addr) : FromIpv4(c, f)
    <3>0. PICK f \in Frames : \E c \in FlowOfAddr(f.addr) : FromIpv4(c, f)
      BY <2>3
    <3>1. PICK c \in FlowOfAddr(f.addr) : FromIpv4(c, f)
      BY <3>0
    <3>2. CASE context[c].out.stack = "gtpu"
      <4>1. PICK b \in map["ip"] : c = end["ip"][b].flow
        BY DEF FlowOfAddr
      <4>2. c \in Contexts
        <5>1. Leads("ip", b, c)
          BY <4>1, MapLeads DEF Stacks
        <5> QED BY <5>1 DEF Leads
      <4>3. context[c].out.key \in Tunnels
        BY <1>3, <3>2, <4>1, <4>2 DEF Stacks, Tunnels
      <4>4. Use(<<context[c].out.key>>) /\ <<context[c].out.key>> \in Seq(Tunnels)
        BY <3>1, <3>2, <4>3 DEF FromIpv4
      <4> QED BY <1>2, <4>4, UseType
    <3>3. CASE context[c].out.stack # "gtpu"
      BY <1>2, <3>1, <3>3 DEF FromIpv4
    <3> QED BY <3>2, <3>3
  <2>4. CASE Use(<<LeftOver>>)
    <3>1. LeftOver \in Tunnels
      <4>1. messages # <<>> => Head(messages) \in Tunnels
        BY <1>2
      <4> QED BY <4>1 DEF LeftOver, Tunnels
    <3>2. <<LeftOver>> \in Seq(Tunnels)
      BY <3>1
    <3> QED BY <1>2, <2>4, <3>2, UseType
  <2>5. CASE Use(<<Garbage>>)
    <3>1. <<Garbage>> \in Seq(Tunnels)
      BY DEF Tunnels
    <3> QED BY <1>2, <2>5, <3>1, UseType
  <2> QED BY <2>1, <2>2, <2>3, <2>4, <2>5 DEF Packet, UdpReq, LlpDataInd, ProcessGpdu,
             HandleEchoReq, ProcessErrorInd, ProcessFrame, ProcessArp
<1>5. TypeOK'
  BY <1>1, <1>4 DEF DataInv, TypeOK, Tunnels
<1>6. \A w \in Workers : WorkerOK(w)'
  BY <1>1 DEF DataInv, WorkerOK, StackOf, Hand
<1>7. Exclusive' /\ ContextsOK' /\ KeysOK' /\ FlowsOK'
  BY <1>1 DEF DataInv, Exclusive, ContextsOK, KeysOK, FlowsOK, Has, Hand, StackOf
<1>8. ASSUME NEW k \in Stacks PROVE MapOK(k)' /\ Pool(k)'
  <2>1. MapOK(k) /\ Pool(k)
    BY DEF DataInv
  <2>2. \A b : Taken(k, b)' <=> Taken(k, b)
    BY <1>1 DEF Taken, InHands, Hand, StackOf
  <2>3. Pool(k)'
    BY <1>1, <2>1, <2>2, SamePool
  <2>4. MapOK(k)'
    BY <1>1, <2>1 DEF MapOK
  <2> QED BY <2>3, <2>4
<1> QED BY <1>1, <1>5, <1>6, <1>7, <1>8 DEF DataInv

LEMMA InitDataInv == Init => DataInv
<1> SUFFICES ASSUME Init PROVE DataInv
  OBVIOUS
<1>1. TypeOK
  <2>1. contexts \in Seq(Contexts) /\ messages \in Seq(Teids \cup Peers \cup {Garbage})
    BY DEF Init
  <2>2. worker \in [Workers -> [at : {"idle", "new", "pop", "insert", "remove", "push",
                                    "pushed", "delete"},
                              flow : Contexts \cup {Null}, block : Blocks \cup {Null}]]
    BY DEF Init, Idle
  <2>3. end \in [Stacks -> [Blocks -> [key : Teids \cup Addrs \cup {Garbage},
                                       flow : Contexts \cup {Garbage}]]]
    BY DEF Init
  <2> QED BY <2>1, <2>2, <2>3 DEF Init, TypeOK
<1>2. \A w \in Workers : worker[w] = Idle
  BY DEF Init
<1>3. (\A w \in Workers : WorkerOK(w)) /\ Exclusive
  BY <1>2 DEF WorkerOK, Exclusive, Idle, Hand
<1>4. \A c \in Contexts : ~ Has(c)
  BY <1>2, DataPlaneAssumption DEF Has, Init, Idle
<1>5. ContextsOK /\ KeysOK
  BY <1>4 DEF ContextsOK, KeysOK, Init, Occurs, IsInjective
<1>6. FlowsOK /\ ~ aborted
  BY DEF FlowsOK, Init
<1>7. ASSUME NEW k \in Stacks PROVE MapOK(k) /\ Pool(k)
  <2>1. MapOK(k)
    BY DEF MapOK, Init
  <2>2. \A b \in Blocks : Taken(k, b)
    BY DEF Taken, Init
  <2>3. /\ <<>> \in Seq(Blocks) /\ IsInjective(<<>>)
        /\ Links(head[k], next[k], <<>>)
        /\ \A b \in Blocks : ~ Occurs(b, <<>>)
    BY DEF Links, Nth, Occurs, IsInjective, Init
  <2> QED BY <2>1, <2>2, <2>3 DEF Pool
<1> QED BY <1>1, <1>3, <1>5, <1>6, <1>7 DEF DataInv

LEMMA StepDataInv == DataInv /\ OneInPool /\ [Next]_vars => DataInv'
<1> SUFFICES ASSUME DataInv, OneInPool, [Next]_vars PROVE DataInv'
  OBVIOUS
<1>1. CASE Packet
  BY <1>1, PacketStep
<1>2. ASSUME NEW w \in Workers, Worker(w) PROVE DataInv'
  <2>1. CASE StartCreate(w)
    BY <2>1, StartCreateStep
  <2>2. CASE ReadHead(w)
    BY <2>2, ReadHeadStep
  <2>3. CASE AdvanceHead(w)
    BY <2>3, AdvanceHeadStep
  <2>4. CASE InsertGtpu(w)
    BY <2>4, InsertGtpuStep
  <2>5. CASE InsertIp(w)
    BY <2>5, InsertIpStep
  <2>6. CASE StartDestroy(w)
    BY <2>6, StartDestroyStep
  <2>7. CASE RemoveGtpu(w)
    BY <2>7, RemoveStep DEF RemoveGtpu, Work, Stacks
  <2>8. CASE RemoveIp(w)
    BY <2>8, RemoveStep DEF RemoveIp, Work, Stacks
  <2>9. CASE LinkBlock(w)
    BY <2>9, LinkBlockStep
  <2>10. CASE WriteHead(w)
    BY <2>10, WriteHeadStep
  <2>11. CASE DeleteContext(w)
    BY <2>11, DeleteContextStep
  <2> QED BY <1>2, <2>1, <2>2, <2>3, <2>4, <2>5, <2>6, <2>7, <2>8, <2>9, <2>10, <2>11 DEF Worker
<1>3. CASE UNCHANGED vars
  <2>1. UNCHANGED <<contexts, context, head, next, unused, end, map, flows, worker,
                    messages, aborted>>
    BY <1>3 DEF vars, pools
  <2>2. TypeOK'
    BY <2>1 DEF DataInv, TypeOK
  <2>3. \A w \in Workers : WorkerOK(w)'
    BY <2>1 DEF DataInv, WorkerOK, StackOf, Hand
  <2>4. Exclusive' /\ ContextsOK' /\ KeysOK' /\ FlowsOK'
    BY <2>1 DEF DataInv, Exclusive, ContextsOK, KeysOK, FlowsOK, Has, Hand, StackOf
  <2>5. ASSUME NEW k \in Stacks PROVE MapOK(k)' /\ Pool(k)'
    <3>1. MapOK(k) /\ Pool(k)
      BY DEF DataInv
    <3>2. \A b : Taken(k, b)' <=> Taken(k, b)
      BY <2>1 DEF Taken, InHands, Hand, StackOf
    <3>3. Pool(k)'
      BY <2>1, <3>1, <3>2, SamePool
    <3>4. MapOK(k)'
      BY <2>1, <3>1 DEF MapOK
    <3> QED BY <3>3, <3>4
  <2> QED BY <2>1, <2>2, <2>3, <2>4, <2>5 DEF DataInv
<1> QED BY <1>1, <1>2, <1>3 DEF Next

\* As long as one worker at a time is in a pool, flows, end points and pools
\* agree (NwSdp.c:340-540, NwGtpv1uTunnelEndPoint.c:64-106).
THEOREM InvariantOfDataPlane == Spec /\ []OneInPool => []DataInv
BY InitDataInv, StepDataInv, PTL DEF Spec

-----------------------------------------------------------------------------
(* What the runs check *)

LEMMA HasIsHeld == ASSUME NEW c \in Contexts PROVE Has(c) <=> c \in Held
BY DataPlaneAssumption DEF Has, Held

LEMMA InvEndPointsLeadToFlows == DataInv => EndPointsLeadToFlows
<1> SUFFICES ASSUME DataInv, NEW k \in Stacks, NEW b \in map[k]
             PROVE  LET c == end[k][b].flow IN
                      /\ c \in Held
                      /\ context[c].in = [stack |-> k, key |-> end[k][b].key]
                      /\ context[c].handle = b
  BY DEF EndPointsLeadToFlows
<1>1. PICK c : c = end[k][b].flow
  OBVIOUS
<1>2. Leads(k, b, c)
  BY <1>1, MapLeads
<1>3. c \in Held
  BY <1>2, HasIsHeld DEF Leads
<1> QED BY <1>1, <1>2, <1>3 DEF Leads

\* A complete flow is found by the key of its ingress.
LEMMA FlowIsFound ==
  ASSUME DataInv, NEW c \in flows, context[c].handle # Null, NEW k \in Stacks, NEW key,
         context[c].in = [stack |-> k, key |-> key]
  PROVE  \E b \in map[k] : end[k][b].key = key /\ end[k][b].flow = c
<1>1. PICK b : b = context[c].handle
  OBVIOUS
<1>2. b \in map[k] /\ end[k][b].flow = c
  BY <1>1 DEF DataInv, FlowsOK
<1>3. Leads(k, b, c)
  BY <1>2, MapLeads
<1>4. end[k][b].key = key
  BY <1>3 DEF Leads
<1> QED BY <1>2, <1>4

\* What a complete flow sends for a packet.
OutOf(c, header) ==
  IF context[c].out.stack = "ip" THEN IpOut("tpdu")
  ELSE GtpuOut(context[c].out.key, header, "tpdu")

\* Flows with this ingress.
Owners(in) == {c \in Held : context[c].in = in}

\* What is sent for a packet for this ingress.
Follows(out, in, header) ==
  /\ out \subseteq {OutOf(c, header) : c \in Owners(in)}
  /\ Cardinality(out) <= 1
  /\ (\E c \in Owners(in) \cap flows : context[c].handle # Null) => out # {}

LEMMA SentByFlow ==
  ASSUME NEW in, NEW header, NEW c \in Owners(in)
  PROVE  Follows({OutOf(c, header)}, in, header)
<1>1. Cardinality({OutOf(c, header)}) = 1
  BY FS_Singleton
<1> QED BY <1>1 DEF Follows

LEMMA SentByNone ==
  ASSUME DataInv, NEW k \in Stacks, NEW key, NEW header, NEW in, in = [stack |-> k, key |-> key],
         \A b \in map[k] : end[k][b].key # key
  PROVE  Follows({}, in, header)
<1>1. Cardinality({}) = 0
  BY FS_EmptySet
<1>2. ASSUME NEW c \in Owners(in) \cap flows, context[c].handle # Null PROVE FALSE
  <2>1. context[c].in = [stack |-> k, key |-> key]
    BY DEF Owners
  <2> QED BY <1>2, <2>1, FlowIsFound
<1> QED BY <1>1, <1>2 DEF Follows

\* The flow that an end point leads to.
LEMMA EndPointOwner ==
  ASSUME DataInv, NEW k \in Stacks, NEW b \in map[k], NEW c, c = end[k][b].flow
  PROVE  /\ c \in Owners([stack |-> k, key |-> end[k][b].key])
         /\ context[c].out.stack \in Stacks
         /\ k = "ip" => context[c].out.stack = "gtpu"
<1>1. Leads(k, b, c)
  BY MapLeads
<1>2. c \in Held
  BY <1>1, HasIsHeld DEF Leads
<1>3. context[c].out.stack \in Stacks /\ (context[c].in.stack = "ip" => context[c].out.stack = "gtpu")
  BY <1>1, FlowShape DEF Leads, DataInv
<1> QED BY <1>1, <1>2, <1>3 DEF Leads, Owners

LEMMA GpduFollows ==
  ASSUME DataInv, ProcessGpdu
  PROVE  /\ sent'.packet \in GPdus
         /\ sent'.packet.header # "ext" =>
              Follows(sent'.out, Gtpu(sent'.packet.teid), sent'.packet.header)
<1>1. PICK g \in GPdus :
        \/ \E c \in FlowOfTeid(g.teid) : FromGtpu(c, g)
        \/ /\ FlowOfTeid(g.teid) = {}
           /\ sent' = [packet |-> g, out |-> {}]
  BY DEF ProcessGpdu
<1>2. CASE \E c \in FlowOfTeid(g.teid) : FromGtpu(c, g)
  <2>1. PICK c \in FlowOfTeid(g.teid) : FromGtpu(c, g)
    BY <1>2
  <2>2. PICK b \in map["gtpu"] : end["gtpu"][b].key = g.teid /\ c = end["gtpu"][b].flow
    BY DEF FlowOfTeid
  <2>3. c \in Owners([stack |-> "gtpu", key |-> end["gtpu"][b].key])
    BY <2>2, EndPointOwner DEF Stacks
  <2>4. c \in Owners(Gtpu(g.teid))
    BY <2>2, <2>3 DEF Gtpu
  <2>5. sent'.packet = g /\ (g.header # "ext" => sent'.out = {OutOf(c, g.header)})
    BY <2>1 DEF FromGtpu, OutOf, Decapsulate, Sendto, Tpdu, HeaderSent
  <2>6. g.header # "ext" => Follows(sent'.out, Gtpu(g.teid), g.header)
    BY <2>4, <2>5, SentByFlow
  <2> QED BY <2>5, <2>6
<1>3. CASE FlowOfTeid(g.teid) = {} /\ sent' = [packet |-> g, out |-> {}]
  <2>1. \A b \in map["gtpu"] : end["gtpu"][b].key # g.teid
    BY <1>3 DEF FlowOfTeid
  <2>2. Follows({}, Gtpu(g.teid), g.header)
    BY <2>1, SentByNone DEF Gtpu, Stacks
  <2> QED BY <1>3, <2>2
<1> QED BY <1>1, <1>2, <1>3

LEMMA FrameFollows ==
  ASSUME DataInv, ProcessFrame
  PROVE  /\ sent'.packet \in Frames
         /\ Follows(sent'.out, Ip(sent'.packet.addr), "plain")
<1>1. PICK f \in Frames :
        \/ \E c \in FlowOfAddr(f.addr) : FromIpv4(c, f)
        \/ /\ FlowOfAddr(f.addr) = {}
           /\ sent' = [packet |-> f, out |-> {}]
  BY DEF ProcessFrame
<1>2. CASE \E c \in FlowOfAddr(f.addr) : FromIpv4(c, f)
  <2>1. PICK c \in FlowOfAddr(f.addr) : FromIpv4(c, f)
    BY <1>2
  <2>2. PICK b \in map["ip"] : end["ip"][b].key = f.addr /\ c = end["ip"][b].flow
    BY DEF FlowOfAddr
  <2>3. /\ c \in Owners([stack |-> "ip", key |-> end["ip"][b].key])
        /\ context[c].out.stack = "gtpu"
    BY <2>2, EndPointOwner DEF Stacks
  <2>4. c \in Owners(Ip(f.addr))
    BY <2>2, <2>3 DEF Ip
  <2>5. sent'.packet = f /\ sent'.out = {OutOf(c, "plain")}
    BY <2>1, <2>3 DEF FromIpv4, OutOf, Encapsulate
  <2> QED BY <2>4, <2>5, SentByFlow
<1>3. CASE FlowOfAddr(f.addr) = {} /\ sent' = [packet |-> f, out |-> {}]
  <2>1. \A b \in map["ip"] : end["ip"][b].key # f.addr
    BY <1>3 DEF FlowOfAddr
  <2>2. Follows({}, Ip(f.addr), "plain")
    BY <2>1, SentByNone DEF Ip, Stacks
  <2> QED BY <1>3, <2>2
<1> QED BY <1>1, <1>2, <1>3

\* A step that sends nothing for a packet.
LEMMA NoPacket == ASSUME sent'.packet = Null PROVE PacketsFollowFlows'
BY DEF PacketsFollowFlows

LEMMA StepPacketsFollowFlows == DataInv /\ PacketsFollowFlows /\ [Next]_vars => PacketsFollowFlows'
<1> SUFFICES ASSUME DataInv, PacketsFollowFlows, [Next]_vars PROVE PacketsFollowFlows'
  OBVIOUS
<1>1. CASE Packet
  <2>1. UNCHANGED <<context, flows, worker>>
    BY <1>1 DEF Packet
  <2>2. Held' = Held
    BY <2>1 DEF Held
  <2>3. CASE ProcessGpdu
    <3>1. /\ sent'.packet \in GPdus
          /\ sent'.packet.header # "ext" =>
               Follows(sent'.out, Gtpu(sent'.packet.teid), sent'.packet.header)
      BY <2>3, GpduFollows
    <3>2. sent'.packet.type = "gpdu"
      BY <3>1 DEF GPdus
    <3> QED BY <2>1, <2>2, <3>1, <3>2 DEF PacketsFollowFlows, Follows, Owners, OutOf
  <2>4. CASE ProcessFrame
    <3>1. /\ sent'.packet \in Frames
          /\ Follows(sent'.out, Ip(sent'.packet.addr), "plain")
      BY <2>4, FrameFollows
    <3>2. sent'.packet.type = "frame"
      BY <3>1 DEF Frames
    <3> QED BY <2>1, <2>2, <3>1, <3>2 DEF PacketsFollowFlows, Follows, Owners, OutOf
  <2>5. CASE ProcessArp \/ HandleEchoReq \/ ProcessErrorInd
    <3>1. sent'.packet.type \in {"arp", "echo", "error"}
      BY <2>5 DEF ProcessArp, HandleEchoReq, ProcessErrorInd, Arps
    <3> QED BY <3>1 DEF PacketsFollowFlows
  <2> QED BY <1>1, <2>3, <2>4, <2>5 DEF Packet, UdpReq, LlpDataInd
<1>2. ASSUME NEW w \in Workers, Worker(w) PROVE PacketsFollowFlows'
  <2>1. sent' = Quiet \/ \E a : sent' = Announcement(a)
    BY <1>2 DEF Worker, StartCreate, ReadHead, AdvanceHead, InsertGtpu, InsertIp, StartDestroy,
                RemoveGtpu, RemoveIp, LinkBlock, WriteHead, DeleteContext
  <2>2. sent'.packet = Null
    BY <2>1 DEF Quiet, Announcement
  <2> QED BY <2>2, NoPacket
<1>3. CASE UNCHANGED vars
  BY <1>3 DEF vars, pools, PacketsFollowFlows, Held
<1> QED BY <1>1, <1>2, <1>3 DEF Next

-----------------------------------------------------------------------------
(* Blocks and contexts are accounted for *)

\* A list without repetition has as many elements as it is long.
LEMMA ListCardinality ==
  ASSUME NEW S, NEW s \in Seq(S), IsInjective(s)
  PROVE  IsFiniteSet(Range(s)) /\ Cardinality(Range(s)) = Len(s)
<1>1. Len(s) \in Nat /\ DOMAIN s = 1 .. Len(s) /\ s = [i \in 1 .. Len(s) |-> s[i]]
  OBVIOUS
<1>2. s \in [1 .. Len(s) -> Range(s)]
  BY <1>1 DEF Range
<1>3. s \in Bijection(1 .. Len(s), Range(s))
  BY <1>1, <1>2 DEF Bijection, Injection, Surjection, IsInjective, Range
<1>4. ExistsBijection(1 .. Len(s), Range(s))
  BY <1>3 DEF ExistsBijection
<1> QED BY <1>1, <1>4, FS_CountingElements, FS_NatBijection

\* Two sequences start alike, and continue alike as long as they are.
Alike(f, g, N) ==
  f[0] = g[0] /\ \A n \in 1 .. N : f[n - 1] = g[n - 1] => f[n] = g[n]

LEMMA SameUpTo ==
  ASSUME NEW N \in Nat, NEW f, NEW g, Alike(f, g, N)
  PROVE  \A n \in 0 .. N : f[n] = g[n]
<1> DEFINE T == {n \in 0 .. N : f[n] # g[n]}
<1> SUFFICES ASSUME T # {} PROVE FALSE
  OBVIOUS
<1>1. T \subseteq Nat
  OBVIOUS
<1>2. PICK m \in T : \A n \in T : ~ (<<n, m>> \in OpToRel(<, Nat))
  BY <1>1, WFMin, NatLessThanWellFounded
<1>3. \A n \in T : ~ (n < m)
  BY <1>1, <1>2 DEF OpToRel
<1>4. m \in 1 .. N /\ f[m] # g[m]
  BY DEF Alike
<1>5. m - 1 \in 0 .. N /\ m - 1 < m
  BY <1>4
<1>6. m - 1 \notin T
  BY <1>3, <1>5
<1>7. f[m - 1] = g[m - 1]
  BY <1>5, <1>6
<1> QED BY <1>4, <1>7 DEF Alike

\* What is reached from the head of a pool is its list.
LEMMA ChainIsList ==
  ASSUME NEW k, NEW s \in Seq(Blocks), IsInjective(s), Links(head[k], next[k], s)
  PROVE  Chain(k) = Range(s)
<1> DEFINE N == Cardinality(Blocks)
           Follow(g) == [n \in 0 .. N |-> IF n = 0 THEN head[k]
                                          ELSE IF g[n - 1] = Null THEN Null ELSE next[k][g[n - 1]]]
           nth == CHOOSE g : g = Follow(g)
           f == [n \in 0 .. N |-> Nth(s, n + 1)]
<1>1. Chain(k) = {nth[n] : n \in DOMAIN nth} \ {Null}
  BY DEF Chain
<1>2. IsFiniteSet(Blocks) /\ N \in Nat /\ \A b \in Blocks : b # Null
  BY DataPlaneAssumption, FS_CardinalityType
<1>3. Len(s) \in Nat /\ DOMAIN s = 1 .. Len(s) /\ \A i \in 1 .. Len(s) : s[i] \in Blocks
  OBVIOUS
<1>4. Len(s) <= N
  <2>1. Range(s) \in SUBSET Blocks
    BY <1>3 DEF Range
  <2>2. Cardinality(Range(s)) <= N
    BY <1>2, <2>1, FS_Subset
  <2>3. Cardinality(Range(s)) = Len(s)
    BY ListCardinality
  <2> QED BY <2>2, <2>3
<1> HIDE DEF N
<1>5. head[k] = Nth(s, 1) /\ \A i \in DOMAIN s : next[k][s[i]] = Nth(s, i + 1)
  BY DEF Links
<1>6. ASSUME NEW n \in 1 .. N
      PROVE  Nth(s, n + 1) = IF Nth(s, n) = Null THEN Null ELSE next[k][Nth(s, n)]
  <2>1. CASE n \in 1 .. Len(s)
    <3>1. Nth(s, n) = s[n] /\ s[n] # Null
      BY <1>2, <1>3, <2>1 DEF Nth
    <3> QED BY <1>3, <1>5, <2>1, <3>1
  <2>2. CASE n \notin 1 .. Len(s)
    <3>1. n \notin DOMAIN s /\ n + 1 \notin DOMAIN s
      BY <1>3, <2>2
    <3> QED BY <3>1 DEF Nth
  <2> QED BY <2>1, <2>2
<1>7. \A n \in 0 .. N : f[n] = Nth(s, n + 1)
  OBVIOUS
<1>8. f = Follow(f)
  <2>1. ASSUME NEW n \in 0 .. N
        PROVE  Nth(s, n + 1) = IF n = 0 THEN head[k]
                               ELSE IF f[n - 1] = Null THEN Null ELSE next[k][f[n - 1]]
    <3>1. CASE n = 0
      BY <1>5, <3>1
    <3>2. CASE n # 0
      <4>1. n \in 1 .. N /\ n - 1 \in 0 .. N /\ (n - 1) + 1 = n
        BY <1>2, <3>2
      <4>2. f[n - 1] = Nth(s, n)
        BY <1>7, <4>1
      <4> QED BY <1>6, <3>2, <4>1, <4>2
    <3> QED BY <3>1, <3>2
  <2> QED BY <2>1
<1>9. nth = Follow(nth)
  BY <1>8
<1>10. PICK g, h : g = nth /\ h = f
  OBVIOUS
<1> HIDE DEF nth, f
<1>11. g = Follow(g) /\ h = Follow(h)
  BY <1>8, <1>9, <1>10
<1>12. Chain(k) = {g[n] : n \in DOMAIN g} \ {Null}
  BY <1>1, <1>10
<1>13. \A n \in 0 .. N : h[n] = Nth(s, n + 1)
  BY <1>7, <1>10
<1>14. DOMAIN g = 0 .. N /\ \A n \in 0 .. N : g[n] = h[n]
  <2>1. g[0] = h[0] /\ DOMAIN g = 0 .. N
    BY <1>2, <1>11
  <2>2. \A n \in 1 .. N : g[n - 1] = h[n - 1] => g[n] = h[n]
    <3> SUFFICES ASSUME NEW n \in 1 .. N, g[n - 1] = h[n - 1] PROVE g[n] = h[n]
      OBVIOUS
    <3> QED BY <1>2, <1>11
  <2> HIDE DEF Follow
  <2>3. Alike(g, h, N)
    BY <2>1, <2>2 DEF Alike
  <2> QED BY <1>2, <2>1, <2>3, SameUpTo
<1> HIDE DEF Follow
<1>15. Chain(k) = {Nth(s, n + 1) : n \in 0 .. N} \ {Null}
  BY <1>12, <1>13, <1>14
<1>16. ASSUME NEW b PROVE b \in Chain(k) <=> b \in Range(s)
  <2>1. ASSUME b \in Chain(k) PROVE b \in Range(s)
    <3>1. PICK n \in 0 .. N : b = Nth(s, n + 1) /\ b # Null
      BY <1>15, <2>1
    <3> QED BY <3>1 DEF Nth, Range
  <2>2. ASSUME b \in Range(s) PROVE b \in Chain(k)
    <3>1. PICK i \in 1 .. Len(s) : b = s[i]
      BY <1>3, <2>2 DEF Range
    <3>2. i - 1 \in 0 .. N /\ (i - 1) + 1 = i
      BY <1>2, <1>3, <1>4
    <3>3. b = Nth(s, (i - 1) + 1) /\ b # Null
      BY <1>2, <1>3, <3>1, <3>2 DEF Nth
    <3> QED BY <1>15, <3>2, <3>3
  <2> QED BY <2>1, <2>2
<1> QED BY <1>16

\* Two sets without a common element.
LEMMA TwoParts ==
  ASSUME NEW A, NEW B, IsFiniteSet(A), IsFiniteSet(B), A \cap B = {}
  PROVE  IsFiniteSet(A \cup B) /\ Cardinality(A \cup B) = Cardinality(A) + Cardinality(B)
<1>1. /\ IsFiniteSet(A \cup B)
      /\ Cardinality(A \cup B) = Cardinality(A) + Cardinality(B) - Cardinality(A \cap B)
  BY FS_Union
<1>2. Cardinality(A \cap B) = 0
  BY FS_EmptySet
<1>3. Cardinality(A) \in Nat /\ Cardinality(B) \in Nat
  BY FS_CardinalityType
<1> QED BY <1>1, <1>2, <1>3

\* Four parts of a finite set.
LEMMA FourParts ==
  ASSUME NEW U, IsFiniteSet(U), NEW A, NEW B, NEW C, NEW D, A \cup B \cup C \cup D = U,
         A \cap B = {}, (A \cup B) \cap C = {}, (A \cup B \cup C) \cap D = {}
  PROVE  Cardinality(A) + Cardinality(B) + Cardinality(C) + Cardinality(D) = Cardinality(U)
<1>1. IsFiniteSet(A) /\ IsFiniteSet(B) /\ IsFiniteSet(C) /\ IsFiniteSet(D)
  BY FS_Subset
<1>2. /\ Cardinality(A) \in Nat /\ Cardinality(B) \in Nat
      /\ Cardinality(C) \in Nat /\ Cardinality(D) \in Nat /\ Cardinality({}) = 0
  BY <1>1, FS_CardinalityType, FS_EmptySet
<1> DEFINE AB == A \cup B
           ABC == AB \cup C
<1>3. IsFiniteSet(AB) /\ Cardinality(AB) = Cardinality(A) + Cardinality(B)
  BY <1>1, TwoParts
<1>4. AB \cap C = {} /\ ABC \cap D = {} /\ ABC \cup D = U
  OBVIOUS
<1> HIDE DEF AB
<1>5. IsFiniteSet(ABC) /\ Cardinality(ABC) = Cardinality(AB) + Cardinality(C)
  BY <1>1, <1>3, <1>4, TwoParts
<1> HIDE DEF ABC
<1>6. Cardinality(ABC \cup D) = Cardinality(ABC) + Cardinality(D)
  BY <1>1, <1>4, <1>5, TwoParts
<1> QED BY <1>2, <1>3, <1>4, <1>5, <1>6

LEMMA InvNothingLeaks == DataInv => NothingLeaks
<1> SUFFICES ASSUME DataInv PROVE NothingLeaks
  OBVIOUS
<1>1. ASSUME NEW k \in Stacks
      PROVE  /\ Chain(k) \cup map[k] \cup InHand(k) \cup unused[k] = Blocks
             /\ Cardinality(Chain(k)) + Cardinality(map[k]) + Cardinality(InHand(k))
                  + Cardinality(unused[k]) = Cardinality(Blocks)
  <2>1. PICK s \in Seq(Blocks) :
          /\ IsInjective(s)
          /\ Links(head[k], next[k], s)
          /\ \A b \in Blocks : Occurs(b, s) <=> ~ Taken(k, b)
    BY DEF DataInv, Pool
  <2>2. Range(s) = {b \in Blocks : ~ Taken(k, b)}
    <3>1. \A b : b \in Range(s) <=> Occurs(b, s)
      BY DEF Range, Occurs
    <3>2. \A b : Occurs(b, s) => b \in Blocks
      BY DEF Occurs
    <3> QED BY <2>1, <3>1, <3>2
  <2>3. Chain(k) = {b \in Blocks : ~ Taken(k, b)}
    BY <2>1, <2>2, ChainIsList
  <2>4. \A b : b \in InHand(k) <=> InHands(k, b)
    BY DEF InHand, InHands, Hand
  <2>5. map[k] \subseteq Blocks /\ unused[k] \subseteq Blocks
    BY DEF DataInv, TypeOK
  <2>6. \A b : InHands(k, b) => b \in Blocks /\ b \notin map[k] /\ b \notin unused[k]
    <3> SUFFICES ASSUME NEW w \in Workers, Hand(w), StackOf(w) = k, NEW b, b = worker[w].block
                 PROVE  b \in Blocks /\ b \notin map[k] /\ b \notin unused[k]
      BY DEF InHands
    <3> QED BY DEF DataInv, WorkerOK, Hand
  <2>7. map[k] \cap unused[k] = {}
    BY DEF DataInv, MapOK
  <2>8. Chain(k) \cup map[k] \cup InHand(k) \cup unused[k] = Blocks
    BY <2>3, <2>4, <2>5, <2>6 DEF Taken
  <2>9. /\ Chain(k) \cap map[k] = {} /\ (Chain(k) \cup map[k]) \cap InHand(k) = {}
        /\ (Chain(k) \cup map[k] \cup InHand(k)) \cap unused[k] = {}
    BY <2>3, <2>4, <2>6, <2>7 DEF Taken
  <2> QED BY <2>8, <2>9, FourParts, DataPlaneAssumption
<1>2. contexts \in Seq(Contexts) /\ IsInjective(contexts)
  BY DEF DataInv, TypeOK, ContextsOK
<1>3. \A c : c \in Range(contexts) <=> Occurs(c, contexts)
  BY DEF Range, Occurs
<1>4. Range(contexts) \subseteq Contexts
  BY <1>2 DEF Range
<1>5. Held \subseteq Contexts
  <2>1. \A w \in Workers : worker[w].flow \in Contexts \cup {Null}
    BY DEF DataInv, TypeOK
  <2> QED BY <2>1 DEF Held, DataInv, TypeOK
<1>6. {c \in Contexts : context[c] # Null} = Held \cup Range(contexts)
  BY <1>3, <1>4, <1>5, HasIsHeld DEF DataInv, ContextsOK
<1>7. Held \cap Range(contexts) = {}
  BY <1>3, <1>4, HasIsHeld DEF DataInv, ContextsOK
<1>8. Cardinality(Range(contexts)) = Len(contexts)
  BY <1>2, ListCardinality
<1> QED BY <1>1, <1>6, <1>7, <1>8 DEF NothingLeaks

-----------------------------------------------------------------------------
(* Theorems *)

\* As long as one worker at a time is in a pool, a packet never follows an end
\* point to the flow of another user (NwGtpv1u.c:483-498, NwIpv4.c:362-371).
THEOREM EndPointsLeadHome == Spec /\ []OneInPool => []EndPointsLeadToFlows
BY InvariantOfDataPlane, InvEndPointsLeadToFlows, PTL

\* As long as one worker at a time is in a pool, every end point and every flow
\* context is in exactly one place (NwGtpv1uTunnelEndPoint.c:64-106,
\* NwSdpFlowContext.c:63-105).
THEOREM DataPlaneDoesNotLeak == Spec /\ []OneInPool => []NothingLeaks
BY InvariantOfDataPlane, InvNothingLeaks, PTL

\* As long as one worker at a time is in a pool, a packet leaves along the flow
\* of its ingress, and only there (NwSdp.c:150-338).
THEOREM PacketsLeaveByTheirFlow == Spec /\ []OneInPool => []PacketsFollowFlows
<1>1. Init => PacketsFollowFlows
  BY DEF Init, PacketsFollowFlows, Quiet
<1> QED BY <1>1, InvariantOfDataPlane, StepPacketsFollowFlows, PTL DEF Spec

\* As long as one worker at a time is in a pool, the assertion that a TEID is
\* new to the map never fails, and no null pointer is followed (NwGtpv1u.c:328).
THEOREM DataPlaneNeverAborts == Spec /\ []OneInPool => [](~ aborted)
<1>1. DataInv => ~ aborted
  BY DEF DataInv
<1> QED BY <1>1, InvariantOfDataPlane, PTL
=============================================================================
