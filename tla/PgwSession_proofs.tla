------------------------- MODULE PgwSession_proofs --------------------------
(***************************************************************************)
(* Proofs about the UE sessions of the PGW, for any number of workers, UE  *)
(* blocks, peers and addresses, and for orderly and for other peers.       *)
(*                                                                         *)
(* SessionInv ties the registry, the tunnels, the memory and the addresses *)
(* to the UE blocks and to where the workers stand; FlowInv, which rests   *)
(* on it, ties the flows of the data plane to them.                        *)
(***************************************************************************)
EXTENDS PgwSession, SequenceTheorems, FiniteSetTheorems, TLAPS

\* What a Create Session Request leaves alone until its IMSI is registered.
Fresh(b) ==
  /\ ue[b].state = "INIT" /\ ~ ue[b].pgw /\ ue[b].addr = None
  /\ ue[b].ebi = None /\ ~ ue[b].uplink /\ ~ ue[b].downlink
  /\ ue[b].tunnel = None

Complete(b) == ue[b].pgw /\ ue[b].addr # None /\ ue[b].tunnel # None

\* Where a worker stands with its request, and what its UE looks like.
WorkerOK(w) ==
  LET b == pUe[w]
      r == req[w]
  IN
  /\ b = None <=> pc[w] \in {"idle", "new"}
  /\ pc[w] # "idle" => r \in Request
  /\ b # None => mem[b] = "allocated"
  /\ pc[w] \notin {"respond", "tunnel", "destroy", "destroy_dereg",
                   "destroy_freeaddr", "deltunnel", "free"} => cause[w] = None
  /\ pc[w] = "new" => r.teid = None
  /\ pc[w] = "fsm" =>
       IF r.teid = None THEN Fresh(b)
       ELSE r.teid = b /\ ue[b].state = "CREATED" /\ Complete(b)
  /\ pc[w] \in {"register", "alloc", "pop", "uplink", "downlink"} =>
       /\ r.kind = "create" /\ r.teid = None
       /\ ue[b].state = "INIT" /\ ue[b].imsi = r.imsi /\ ue[b].tunnel = None
       /\ ue[b].pgw <=> pc[w] # "register"
       /\ ~ ue[b].downlink
       /\ ue[b].uplink <=> pc[w] = "downlink"
  /\ pc[w] \in {"register", "alloc", "pop"} =>
       ue[b].addr = None /\ ue[b].ebi = None
  /\ pc[w] \in {"uplink", "downlink"} =>
       ue[b].addr # None /\ ue[b].ebi = r.ebi /\ r.ebi > 4
  /\ pc[w] \in {"rmdown", "rmup", "dereg"} => Complete(b)
  /\ pc[w] \in {"rmdown", "rmup", "dereg", "freeaddr"} =>
       r.kind = "delete" /\ r.teid = b
  /\ pc[w] = "freeaddr" => ~ ue[b].pgw
  /\ pc[w] \in {"respond", "tunnel"} /\ r.kind \in Creates => ue[b].tunnel = None
  /\ pc[w] \in {"respond", "tunnel"} /\ Opens(w) =>
       \/ ue[b].state = "END" /\ ~ ue[b].pgw
       \/ ue[b].state = "CREATED" /\ ue[b].pgw /\ ue[b].addr # None
  /\ pc[w] = "tunnel" => Opens(w)
  /\ pc[w] = "destroy_dereg" => ue[b].pgw
  /\ pc[w] \in {"destroy_freeaddr", "deltunnel", "free"} => ~ ue[b].pgw

\* An orderly peer opens a session or deletes one that it has opened.
OrderlyOK(w) == orderly =>
  LET b == pUe[w]
      r == req[w]
  IN
  /\ pc[w] # "idle" =>
       /\ r.kind \in {"create", "create_malformed", "delete"}
       /\ r.kind = "delete" <=> r.teid # None
       /\ r.ebi # None => r.ebi <= 5
  /\ pc[w] = "respond" /\ r.kind = "delete" => cause[w] = "accepted"
  /\ pc[w] \in {"respond", "tunnel"} /\ Opens(w) => ue[b].state = "CREATED"

\* Two workers never work on the same UE.
Exclusive ==
  \A v, w \in Workers : v # w /\ pUe[v] # None => pUe[v] # pUe[w]

\* What the stores hold about a block.
BlockOK(b) ==
  /\ b \in uePgwSessionRbt <=> Live(b) /\ ue[b].pgw
  /\ \A p \in Peers : <<b, p>> \in tunnelMap <=>
       ue[b].tunnel = p /\ \A w \in Workers : pUe[w] = b => pc[w] # "free"
  /\ ~ Live(b) => ue[b] = BlankUe
  /\ Live(b) /\ AtRest(b) => ue[b].state = "CREATED" /\ Complete(b)

\* A session that the peers know to be open is at rest, being opened or being
\* deleted.
KnownOK(b) == orderly /\ b \in peerSessions =>
  /\ Live(b)
  /\ \A w \in Workers : pUe[w] = b =>
       \/ pc[w] = "tunnel"
       \/ /\ req[w].kind = "delete"
          /\ pc[w] \in {"fsm", "rmdown", "rmup", "dereg", "freeaddr", "respond"}

\* The freed blocks are not in use, and in the pool once.
MemOK ==
  /\ \A i \in DOMAIN memPool : mem[memPool[i]] = "free"
  /\ IsInjective(memPool)

\* The UE has an address of the pool.
Holder(b) ==
  /\ ue[b].addr # None
  /\ \/ ue[b].pgw
     \/ \E w \in Workers : pUe[w] = b /\ pc[w] \in {"freeaddr", "destroy_freeaddr"}

InFreePool(a) == \E i \in DOMAIN pFreePool : pFreePool[i] = a

\* Each address of the pool is in the free list once or has one holder.
AddrOK ==
  /\ IsInjective(pFreePool)
  /\ \A a \in Addrs : InFreePool(a) => a \in StartIp .. endIp
  /\ \A b, c \in Blocks : Holder(b) /\ Holder(c) /\ ue[b].addr = ue[c].addr => b = c
  /\ \A b \in Blocks : Holder(b) =>
       ue[b].addr \in (StartIp .. endIp) \ Skipped /\ ~ InFreePool(ue[b].addr)
  /\ \A a \in (StartIp .. endIp) \ Skipped :
       InFreePool(a) \/ \E b \in Blocks : Holder(b) /\ ue[b].addr = a

SessionInv ==
  /\ TypeOK
  /\ \A w \in Workers : WorkerOK(w)
  /\ \A w \in Workers : OrderlyOK(w)
  /\ \A b \in Blocks : BlockOK(b)
  /\ \A b \in Blocks : KnownOK(b)
  /\ Exclusive
  /\ MemOK
  /\ AddrOK
-----------------------------------------------------------------------------
(* Requests and the free lists *)

\* What the fields of a request can be.
LEMMA RequestFields ==
  ASSUME NEW r \in Request
  PROVE  /\ r.kind \in Inputs /\ r.peer \in Peers
         /\ r.teid \in Blocks \cup {None}
         /\ r.imsi \in Imsis \cup {None} /\ r.ebi \in Ebis \cup {None}
         /\ r.kind \in Creates /\ r.teid = None => r.imsi \in Imsis /\ r.ebi \in Ebis
BY SessionAssumption DEF Request, Creates

\* Taking the first element of a list without repetition.
LEMMA PopList ==
  ASSUME NEW S, NEW s \in Seq(S), s # <<>>, IsInjective(s)
  PROVE  /\ Head(s) \in S /\ Tail(s) \in Seq(S)
         /\ IsInjective(Tail(s))
         /\ \E i \in DOMAIN s : s[i] = Head(s)
         /\ \A x : (\E i \in DOMAIN Tail(s) : Tail(s)[i] = x)
                     <=> (\E i \in DOMAIN s : s[i] = x) /\ x # Head(s)
<1>1. Len(s) \in Nat /\ Len(s) >= 1 /\ DOMAIN s = 1 .. Len(s) /\ Head(s) = s[1]
  BY EmptySeq
<1>2. /\ Head(s) \in S /\ Tail(s) \in Seq(S) /\ Len(Tail(s)) = Len(s) - 1
      /\ \A i \in 1 .. Len(s) - 1 : Tail(s)[i] = s[i + 1]
      /\ DOMAIN Tail(s) = 1 .. Len(s) - 1
  BY <1>1, HeadTailProperties
<1>3. IsInjective(Tail(s))
  BY <1>1, <1>2 DEF IsInjective
<1>4. ASSUME NEW x
      PROVE  (\E i \in DOMAIN Tail(s) : Tail(s)[i] = x)
               <=> (\E i \in DOMAIN s : s[i] = x) /\ x # Head(s)
  <2>1. ASSUME NEW i \in DOMAIN Tail(s), Tail(s)[i] = x
        PROVE  (\E j \in DOMAIN s : s[j] = x) /\ x # Head(s)
    <3>1. i + 1 \in DOMAIN s /\ s[i + 1] = x /\ i + 1 # 1
      BY <1>1, <1>2, <2>1
    <3> QED BY <1>1, <3>1 DEF IsInjective
  <2>2. ASSUME NEW i \in DOMAIN s, s[i] = x, x # Head(s)
        PROVE  \E j \in DOMAIN Tail(s) : Tail(s)[j] = x
    <3>1. i - 1 \in DOMAIN Tail(s) /\ Tail(s)[i - 1] = s[i]
      BY <1>1, <1>2, <2>2
    <3> QED BY <2>2, <3>1
  <2> QED BY <2>1, <2>2
<1> QED BY <1>1, <1>2, <1>3, <1>4

Occurs(x, s) == \E i \in DOMAIN s : s[i] = x

\* Putting an element that is not in a list without repetition before it.
LEMMA PushList ==
  ASSUME NEW S, NEW s \in Seq(S), IsInjective(s), NEW a \in S, ~ Occurs(a, s)
  PROVE  /\ <<a>> \o s \in Seq(S)
         /\ IsInjective(<<a>> \o s)
         /\ \A x : Occurs(x, <<a>> \o s) <=> Occurs(x, s) \/ x = a
<1> DEFINE t == <<a>> \o s
<1>1. Len(s) \in Nat /\ DOMAIN s = 1 .. Len(s)
  OBVIOUS
<1>2. /\ t \in Seq(S) /\ Len(t) = Len(s) + 1 /\ DOMAIN t = 1 .. Len(s) + 1
      /\ t[1] = a /\ \A i \in 1 .. Len(s) : t[i + 1] = s[i]
  BY <1>1
<1> HIDE DEF t
<1>3. \A i \in DOMAIN t : i # 1 => i - 1 \in DOMAIN s /\ t[i] = s[i - 1]
  <2>1. ASSUME NEW i \in 1 .. Len(s) + 1, i # 1
        PROVE  i - 1 \in 1 .. Len(s) /\ t[i] = s[i - 1]
    <3>1. i - 1 \in 1 .. Len(s) /\ (i - 1) + 1 = i
      BY <1>1, <2>1
    <3>2. \A j \in 1 .. Len(s) : t[j + 1] = s[j]
      BY <1>2
    <3>3. t[(i - 1) + 1] = s[i - 1]
      BY <3>1, <3>2
    <3> QED BY <3>1, <3>3
  <2> QED BY <1>1, <1>2, <2>1
<1>0. \A i \in DOMAIN s : s[i] # a
  BY DEF Occurs
<1>4. IsInjective(t)
  <2> SUFFICES ASSUME NEW i \in DOMAIN t, NEW j \in DOMAIN t, t[i] = t[j]
               PROVE  i = j
    BY DEF IsInjective
  <2>1. CASE i = 1 \/ j = 1
    BY <1>0, <1>2, <1>3, <2>1
  <2>2. CASE i # 1 /\ j # 1
    <3>1. i - 1 = j - 1
      BY <1>3, <2>2 DEF IsInjective
    <3> QED BY <1>1, <1>2, <3>1
  <2> QED BY <2>1, <2>2
<1>5. ASSUME NEW x
      PROVE  Occurs(x, t) <=> Occurs(x, s) \/ x = a
  <2>1. ASSUME NEW i \in DOMAIN t, t[i] = x PROVE (\E j \in DOMAIN s : s[j] = x) \/ x = a
    BY <1>2, <1>3, <2>1
  <2>2. ASSUME NEW i \in DOMAIN s, s[i] = x PROVE \E j \in DOMAIN t : t[j] = x
    <3>1. i + 1 \in DOMAIN t /\ t[i + 1] = x
      BY <1>1, <1>2, <2>2
    <3> QED BY <3>1
  <2>3. 1 \in DOMAIN t /\ t[1] = a
    BY <1>1, <1>2
  <2> QED BY <2>1, <2>2, <2>3 DEF Occurs
<1> QED BY <1>2, <1>4, <1>5 DEF t

-----------------------------------------------------------------------------
(* What a step leaves alone *)

SameOthers(w) ==
  \A v \in Workers \ {w} :
    pc'[v] = pc[v] /\ pUe'[v] = pUe[v] /\ req'[v] = req[v] /\ cause'[v] = cause[v]

SameBlocks(b) ==
  /\ orderly' = orderly
  /\ \A c \in Blocks \ {b} :
       /\ ue'[c] = ue[c] /\ mem'[c] = mem[c]
       /\ c \in uePgwSessionRbt' <=> c \in uePgwSessionRbt
       /\ \A p \in Peers : <<c, p>> \in tunnelMap' <=> <<c, p>> \in tunnelMap
       /\ c \in peerSessions' <=> c \in peerSessions

\* A step of worker w that changes only block b, which no other works on.
LEMMA OthersOK ==
  ASSUME SessionInv, NEW w \in Workers, NEW b \in Blocks,
         SameOthers(w), SameBlocks(b),
         pUe[w] \in {b, None}, pUe'[w] \in {b, None},
         \A v \in Workers \ {w} : pUe[v] # b
  PROVE  /\ \A v \in Workers \ {w} : WorkerOK(v)' /\ OrderlyOK(v)'
         /\ \A c \in Blocks \ {b} : BlockOK(c)' /\ KnownOK(c)'
         /\ Exclusive'
<1> USE SessionAssumption
<1>1. ASSUME NEW v \in Workers \ {w} PROVE WorkerOK(v)' /\ OrderlyOK(v)'
  <2>1. /\ pc'[v] = pc[v] /\ pUe'[v] = pUe[v] /\ req'[v] = req[v]
        /\ cause'[v] = cause[v] /\ orderly' = orderly
    BY DEF SameOthers, SameBlocks
  <2>2. CASE pUe[v] = None
    <3>1. pc[v] \in {"idle", "new"}
      BY <2>2 DEF SessionInv, WorkerOK
    <3>2. WorkerOK(v)'
      BY <2>1, <2>2, <3>1 DEF SessionInv, WorkerOK
    <3> QED BY <2>1, <3>1, <3>2 DEF SessionInv, OrderlyOK
  <2>3. CASE pUe[v] # None
    <3>1. pUe[v] \in Blocks \ {b}
      BY <2>3 DEF SessionInv, TypeOK
    <3>2. ue'[pUe'[v]] = ue[pUe[v]] /\ mem'[pUe'[v]] = mem[pUe[v]]
      BY <2>1, <3>1 DEF SameBlocks
    <3>3. WorkerOK(v)
      BY DEF SessionInv
    <3>4. OrderlyOK(v)
      BY DEF SessionInv
    <3>5. WorkerOK(v)'
      BY <2>1, <3>2, <3>3 DEF WorkerOK, Opens, Fresh, Complete
    <3> QED BY <2>1, <3>2, <3>4, <3>5 DEF OrderlyOK, Opens
  <2> QED BY <2>2, <2>3
<1>2. ASSUME NEW c \in Blocks \ {b} PROVE BlockOK(c)' /\ KnownOK(c)'
  <2>1. \A v \in Workers : pUe'[v] = c <=> pUe[v] = c
    BY DEF SameOthers
  <2>2. \A v \in Workers : pUe[v] = c => pc'[v] = pc[v] /\ req'[v] = req[v]
    BY DEF SameOthers
  <2>3. BlockOK(c)'
    BY <2>1, <2>2 DEF SameBlocks, SessionInv, BlockOK, Live, AtRest, Complete
  <2>4. KnownOK(c)'
    BY <2>1, <2>2 DEF SameBlocks, SessionInv, KnownOK, Live
  <2> QED BY <2>3, <2>4
<1>3. Exclusive'
  <2>1. \A v \in Workers \ {w} : pUe'[v] = pUe[v]
    BY DEF SameOthers
  <2> QED BY <2>1 DEF SessionInv, Exclusive
<1> QED BY <1>1, <1>2, <1>3

\* A step that neither takes nor gives back an address.
LEMMA SameAddresses ==
  ASSUME AddrOK, pFreePool' = pFreePool, endIp' = endIp,
         \A b \in Blocks : Holder(b)' <=> Holder(b),
         \A b \in Blocks : Holder(b) => ue'[b].addr = ue[b].addr
  PROVE  AddrOK'
<1>1. \A a : InFreePool(a)' <=> InFreePool(a)
  BY DEF InFreePool
<1> QED BY <1>1 DEF AddrOK

\* The UEs of the other workers and the UEs at rest keep their addresses.
LEMMA OtherHolders ==
  ASSUME NEW w \in Workers, NEW b \in Blocks, SameOthers(w), SameBlocks(b),
         pUe[w] \in {b, None}, pUe'[w] \in {b, None}, b # None,
         None \notin Blocks
  PROVE  \A c \in Blocks \ {b} : /\ Holder(c)' <=> Holder(c)
                                 /\ ue'[c].addr = ue[c].addr
BY DEF SameOthers, SameBlocks, Holder

\* Whether the UE of a worker has an address.
Holds(w, b) ==
  /\ ue[b].addr # None
  /\ ue[b].pgw \/ pc[w] \in {"freeaddr", "destroy_freeaddr"}

\* A step of worker w on its UE, which stays its UE.
LEMMA OwnStep ==
  ASSUME SessionInv, TypeOK', NEW w \in Workers, NEW b \in Blocks,
         pUe[w] = b, pUe'[w] = b, SameOthers(w), SameBlocks(b),
         mem' = mem, memPool' = memPool,
         WorkerOK(w)', OrderlyOK(w)', KnownOK(b)', AddrOK',
         b \in uePgwSessionRbt' <=> ue'[b].pgw,
         \A p \in Peers : <<b, p>> \in tunnelMap' <=>
                            ue'[b].tunnel = p /\ pc'[w] # "free"
  PROVE  SessionInv'
<1> USE SessionAssumption
<1>1. \A v \in Workers \ {w} : pUe[v] # b
  BY DEF SessionInv, Exclusive
<1>2. /\ \A v \in Workers \ {w} : WorkerOK(v)' /\ OrderlyOK(v)'
      /\ \A c \in Blocks \ {b} : BlockOK(c)' /\ KnownOK(c)'
      /\ Exclusive'
  BY <1>1, OthersOK
<1>3. MemOK'
  BY DEF SessionInv, MemOK
<1>4. BlockOK(b)'
  <2>1. Live(b) /\ Live(b)'
    BY DEF SessionInv, WorkerOK, Live
  <2>2. \A v \in Workers : pUe'[v] = b <=> v = w
    BY <1>1 DEF SameOthers
  <2> QED BY <2>1, <2>2 DEF BlockOK, AtRest
<1> QED BY <1>2, <1>3, <1>4 DEF SessionInv

\* The same, when the addresses stay where they are.
LEMMA OwnStepSameAddress ==
  ASSUME SessionInv, NEW w \in Workers, NEW b \in Blocks,
         pUe[w] = b, pUe'[w] = b, SameOthers(w), SameBlocks(b),
         pFreePool' = pFreePool, endIp' = endIp,
         Holds(w, b)' <=> Holds(w, b),
         Holds(w, b) => ue'[b].addr = ue[b].addr
  PROVE  AddrOK'
<1> USE SessionAssumption
<1>1. \A v \in Workers \ {w} : pUe[v] # b
  BY DEF SessionInv, Exclusive
<1>2. \A c \in Blocks \ {b} : /\ Holder(c)' <=> Holder(c)
                              /\ ue'[c].addr = ue[c].addr
  BY OtherHolders
<1>3. Holder(b) <=> Holds(w, b)
  BY <1>1 DEF Holder, Holds
<1>4. Holder(b)' <=> Holds(w, b)'
  BY <1>1 DEF Holder, Holds, SameOthers
<1> QED BY <1>2, <1>3, <1>4, SameAddresses DEF SessionInv

\* What is known of a worker that has a UE.
LEMMA AtWork ==
  ASSUME SessionInv, NEW w \in Workers, pc[w] \notin {"idle", "new"}
  PROVE  /\ pUe[w] \in Blocks /\ pUe[w] # None /\ ue[pUe[w]] \in UeRecord
         /\ req[w] \in Request /\ mem[pUe[w]] = "allocated"
         /\ WorkerOK(w) /\ OrderlyOK(w) /\ BlockOK(pUe[w]) /\ KnownOK(pUe[w])
         /\ pUe[w] \in uePgwSessionRbt <=> ue[pUe[w]].pgw
         /\ \A p \in Peers : <<pUe[w], p>> \in tunnelMap <=>
                              ue[pUe[w]].tunnel = p /\ pc[w] # "free"
<1> USE SessionAssumption
<1>1. WorkerOK(w) /\ OrderlyOK(w)
  BY DEF SessionInv
<1>2. pUe[w] # None /\ req[w] \in Request /\ mem[pUe[w]] = "allocated"
  BY <1>1 DEF WorkerOK
<1>3. pUe[w] \in Blocks /\ ue[pUe[w]] \in UeRecord
  BY <1>2 DEF SessionInv, TypeOK
<1>4. BlockOK(pUe[w]) /\ KnownOK(pUe[w])
  BY <1>3 DEF SessionInv
<1>5. \A v \in Workers : pUe[v] = pUe[w] => v = w
  BY <1>2 DEF SessionInv, Exclusive
<1> QED BY <1>1, <1>2, <1>3, <1>4, <1>5 DEF BlockOK, Live

-----------------------------------------------------------------------------
(* The state machine *)

\* A request that the state machine does not expect: the UE is destroyed.
LEMMA UnexpectedStep ==
  ASSUME SessionInv, TypeOK', NEW w \in Workers, Unexpected(w)
  PROVE  SessionInv'
<1> USE SessionAssumption
<1>0. PICK b : b = pUe[w]
  OBVIOUS
<1>1. /\ pc[w] = "fsm" /\ Handler(w) = "unexpected"
      /\ pc'[w] = "destroy" /\ pUe'[w] = b /\ req'[w] = req[w] /\ cause'[w] = cause[w]
      /\ SameOthers(w)
      /\ UNCHANGED <<mem, memPool, uePgwSessionRbt, pFreePool, tunnelMap,
                     peerSessions, endIp, orderly>>
  BY <1>0 DEF Unexpected, At, Goto, SameOthers, stores, world, SessionInv, TypeOK
<1>2. /\ b \in Blocks /\ b # None /\ ue[b] \in UeRecord
      /\ req[w] \in Request /\ mem[b] = "allocated"
      /\ b \in uePgwSessionRbt <=> ue[b].pgw
      /\ \A p \in Peers : <<b, p>> \in tunnelMap <=> ue[b].tunnel = p
  BY <1>0, <1>1, AtWork
<1>3. /\ \A c \in Blocks \ {b} : ue'[c] = ue[c]
      /\ ue'[b] = [ue[b] EXCEPT !.state = "END"]
  BY <1>0, <1>2 DEF Unexpected, SessionInv, TypeOK
<1>4. /\ ue'[b].state = "END" /\ ue'[b].addr = ue[b].addr
      /\ ue'[b].tunnel = ue[b].tunnel
      /\ ue'[b].pgw <=> ue[b].pgw
  BY <1>2, <1>3 DEF UeRecord
<1>5. SameBlocks(b)
  BY <1>1, <1>3 DEF SameBlocks
<1>6. WorkerOK(w)'
  BY <1>1, <1>2, <1>4 DEF WorkerOK
<1>7. ~ orderly
  <2> SUFFICES ASSUME orderly PROVE FALSE
    OBVIOUS
  <2>1. WorkerOK(w) /\ OrderlyOK(w)
    BY DEF SessionInv
  <2>2. /\ req[w].kind \in {"create", "create_malformed", "delete"} \cap Inputs
        /\ req[w].kind = "delete" <=> req[w].teid # None
    BY <1>1, <1>2, <2>1, RequestFields DEF OrderlyOK
  <2>3. IF req[w].teid = None THEN ue[b].state = "INIT" ELSE ue[b].state = "CREATED"
    BY <1>0, <1>1, <2>1 DEF WorkerOK, Fresh
  <2> QED BY <1>0, <1>1, <2>2, <2>3 DEF Handler, Creates
<1>8. OrderlyOK(w)' /\ KnownOK(b)'
  BY <1>1, <1>7 DEF OrderlyOK, KnownOK
<1>9. AddrOK'
  <2>1. (Holds(w, b)' <=> Holds(w, b)) /\ ue'[b].addr = ue[b].addr
    BY <1>1, <1>4 DEF Holds
  <2> QED BY <1>0, <1>1, <1>2, <1>5, <2>1, OwnStepSameAddress
<1>10. /\ b \in uePgwSessionRbt' <=> ue'[b].pgw
       /\ \A p \in Peers : <<b, p>> \in tunnelMap' <=>
                             ue'[b].tunnel = p /\ pc'[w] # "free"
  BY <1>1, <1>2, <1>4
<1> QED
  BY <1>0, <1>1, <1>2, <1>5, <1>6, <1>8, <1>9, <1>10, OwnStep

\* A Create Session Request is looked at.
LEMMA HandleCreateStep ==
  ASSUME SessionInv, TypeOK', NEW w \in Workers, HandleCreate(w)
  PROVE  SessionInv'
<1> USE SessionAssumption
<1>0. PICK b : b = pUe[w]
  OBVIOUS
<1>1. /\ pc[w] = "fsm" /\ Handler(w) \in Creates
      /\ UNCHANGED <<mem, memPool, uePgwSessionRbt, pFreePool, tunnelMap, pUe, req,
                     peerSessions, endIp, orderly>>
  BY DEF HandleCreate, At, stores, world
<1>2. /\ b \in Blocks /\ b # None /\ ue[b] \in UeRecord /\ ue \in [Blocks -> UeRecord]
      /\ req[w] \in Request /\ mem[b] = "allocated"
      /\ b \in uePgwSessionRbt <=> ue[b].pgw
      /\ \A p \in Peers : <<b, p>> \in tunnelMap <=> ue[b].tunnel = p
  BY <1>0, <1>1, AtWork DEF SessionInv, TypeOK
<1>3. /\ Handler(w) = req[w].kind /\ req[w].kind \in Creates
      /\ ue[b].state = "INIT"
  BY <1>0, <1>1 DEF Handler, Creates
<1>4. req[w].teid = None /\ Fresh(b) /\ cause[w] = None
  BY <1>0, <1>1, <1>3 DEF SessionInv, WorkerOK
<1>5. /\ SameOthers(w)
      /\ \A c \in Blocks \ {b} : ue'[c] = ue[c]
      /\ ue'[b].addr = ue[b].addr /\ ue'[b].tunnel = ue[b].tunnel
      /\ ue'[b].ebi = ue[b].ebi
      /\ ue'[b].pgw <=> ue[b].pgw
      /\ ue'[b].uplink <=> ue[b].uplink
      /\ ue'[b].downlink <=> ue[b].downlink
      /\ \/ /\ req[w].kind = "create" /\ pc'[w] = "register" /\ cause'[w] = None
            /\ ue'[b].state = "INIT" /\ ue'[b].imsi = req[w].imsi
         \/ /\ req[w].kind = "create_unparsable" /\ pc'[w] = "respond"
            /\ cause'[w] = "accepted" /\ ue'[b].state = "END"
         \/ /\ req[w].kind = "create_malformed" /\ pc'[w] = "respond"
            /\ cause'[w] = "error" /\ ue'[b].state = "END"
  <2>1. CASE req[w].kind = "create"
    <3>1. /\ ue' = [ue EXCEPT ![b].imsi = req[w].imsi]
          /\ Goto(w, "register") /\ cause' = cause
      BY <1>0, <1>3, <2>1 DEF HandleCreate
    <3> QED
      BY <1>1, <1>2, <1>3, <1>4, <2>1, <3>1
      DEF Goto, SameOthers, UeRecord, SessionInv, TypeOK
  <2>2. CASE req[w].kind = "create_unparsable"
    <3>1. /\ \E i : ue' = [ue EXCEPT ![b] = [@ EXCEPT !.imsi = i, !.state = "END"]]
          /\ Goto(w, "respond") /\ Decide(w, "accepted")
      BY <1>0, <1>3, <2>2 DEF HandleCreate, UnparsableCause
    <3> QED
      BY <1>1, <1>2, <2>2, <3>1
      DEF Goto, Decide, SameOthers, UeRecord, SessionInv, TypeOK
  <2>3. CASE req[w].kind = "create_malformed"
    <3>1. /\ ue' = [ue EXCEPT ![b].state = "END"]
          /\ Goto(w, "respond") /\ Decide(w, "error")
      BY <1>0, <1>3, <2>3 DEF HandleCreate
    <3> QED
      BY <1>1, <1>2, <2>3, <3>1
      DEF Goto, Decide, SameOthers, UeRecord, SessionInv, TypeOK
  <2> QED BY <1>3, <2>1, <2>2, <2>3 DEF Creates
<1>6. SameBlocks(b)
  BY <1>1, <1>5 DEF SameBlocks
<1>7. WorkerOK(w)'
  BY <1>0, <1>1, <1>2, <1>4, <1>5 DEF WorkerOK, Opens, Fresh
<1>8. OrderlyOK(w)' /\ KnownOK(b)'
  <2>1. OrderlyOK(w) /\ KnownOK(b)
    BY <1>2 DEF SessionInv
  <2>2. ~ (orderly /\ b \in peerSessions)
    BY <1>0, <1>1, <1>3, <2>1 DEF KnownOK, Creates
  <2>3. OrderlyOK(w)'
    BY <1>1, <1>3, <1>5, <2>1 DEF OrderlyOK, Opens, Creates
  <2> QED BY <1>1, <2>2, <2>3 DEF KnownOK
<1>9. AddrOK'
  <2>1. (Holds(w, b)' <=> Holds(w, b)) /\ ue'[b].addr = ue[b].addr
    BY <1>1, <1>5 DEF Holds
  <2> QED BY <1>0, <1>1, <1>2, <1>5, <1>6, <2>1, OwnStepSameAddress
<1>10. /\ b \in uePgwSessionRbt' <=> ue'[b].pgw
       /\ \A p \in Peers : <<b, p>> \in tunnelMap' <=>
                             ue'[b].tunnel = p /\ pc'[w] # "free"
  BY <1>1, <1>2, <1>5
<1> QED
  BY <1>0, <1>1, <1>2, <1>5, <1>6, <1>7, <1>8, <1>9, <1>10, OwnStep

\* A Delete Session Request is looked at.
LEMMA HandleDeleteStep ==
  ASSUME SessionInv, TypeOK', NEW w \in Workers, HandleDelete(w)
  PROVE  SessionInv'
<1> USE SessionAssumption
<1>0. PICK b : b = pUe[w]
  OBVIOUS
<1>1. /\ pc[w] = "fsm" /\ Handler(w) \in {"delete", "delete_malformed"}
      /\ UNCHANGED <<mem, memPool, uePgwSessionRbt, pFreePool, tunnelMap, pUe, req,
                     peerSessions, endIp, orderly>>
  BY DEF HandleDelete, At, stores, world
<1>2. /\ b \in Blocks /\ b # None /\ ue[b] \in UeRecord /\ ue \in [Blocks -> UeRecord]
      /\ req[w] \in Request /\ mem[b] = "allocated"
      /\ b \in uePgwSessionRbt <=> ue[b].pgw
      /\ \A p \in Peers : <<b, p>> \in tunnelMap <=> ue[b].tunnel = p
  BY <1>0, <1>1, AtWork DEF SessionInv, TypeOK
<1>3. /\ Handler(w) = req[w].kind /\ req[w].kind \notin Creates
      /\ ue[b].state = "CREATED"
  BY <1>0, <1>1 DEF Handler, Creates
<1>4. req[w].teid = b /\ Complete(b) /\ cause[w] = None
  BY <1>0, <1>1, <1>3 DEF SessionInv, WorkerOK, Fresh
<1>5. /\ SameOthers(w)
      /\ \A c \in Blocks \ {b} : ue'[c] = ue[c]
      /\ ue'[b].addr = ue[b].addr /\ ue'[b].tunnel = ue[b].tunnel
      /\ ue'[b].ebi = ue[b].ebi /\ ue'[b].state = ue[b].state
      /\ ue'[b].pgw <=> ue[b].pgw
      /\ ue'[b].uplink <=> ue[b].uplink
      /\ ue'[b].downlink <=> ue[b].downlink
      /\ \/ /\ req[w].kind = "delete" /\ pc'[w] = "rmdown" /\ cause'[w] = None
         \/ /\ req[w].kind = "delete_malformed" /\ pc'[w] = "respond"
            /\ cause'[w] = "error"
  <2>1. CASE req[w].kind = "delete"
    <3>1. Goto(w, "rmdown") /\ cause' = cause /\ ue' = ue
      BY <1>0, <1>3, <2>1 DEF HandleDelete
    <3> QED
      BY <1>1, <1>2, <1>4, <2>1, <3>1 DEF Goto, SameOthers, SessionInv, TypeOK
  <2>2. CASE req[w].kind = "delete_malformed"
    <3>1. /\ \E i : ue' = [ue EXCEPT ![b] = [@ EXCEPT !.imsi = i]]
          /\ Goto(w, "respond") /\ Decide(w, "error")
      BY <1>0, <1>3, <2>2 DEF HandleDelete
    <3> QED
      BY <1>1, <1>2, <2>2, <3>1
      DEF Goto, Decide, SameOthers, UeRecord, SessionInv, TypeOK
  <2> QED BY <1>1, <1>3, <2>1, <2>2
<1>6. SameBlocks(b)
  BY <1>1, <1>5 DEF SameBlocks
<1>7. WorkerOK(w)'
  BY <1>0, <1>1, <1>2, <1>3, <1>4, <1>5 DEF WorkerOK, Opens, Complete
<1>8. OrderlyOK(w)' /\ KnownOK(b)'
  <2>1. OrderlyOK(w) /\ KnownOK(b)
    BY <1>2 DEF SessionInv
  <2>2. OrderlyOK(w)'
    BY <1>1, <1>3, <1>5, <2>1 DEF OrderlyOK, Opens
  <2>3. orderly => req[w].kind = "delete"
    BY <1>1, <1>5, <2>1 DEF OrderlyOK
  <2>4. \A v \in Workers : pUe'[v] = b => v = w
    BY <1>0, <1>1, <1>2 DEF SessionInv, Exclusive
  <2> QED BY <1>1, <1>2, <1>5, <2>2, <2>3, <2>4 DEF KnownOK, Live
<1>9. AddrOK'
  <2>1. (Holds(w, b)' <=> Holds(w, b)) /\ ue'[b].addr = ue[b].addr
    BY <1>1, <1>5 DEF Holds
  <2> QED BY <1>0, <1>1, <1>2, <1>5, <1>6, <2>1, OwnStepSameAddress
<1>10. /\ b \in uePgwSessionRbt' <=> ue'[b].pgw
       /\ \A p \in Peers : <<b, p>> \in tunnelMap' <=>
                             ue'[b].tunnel = p /\ pc'[w] # "free"
  BY <1>1, <1>2, <1>5
<1> QED
  BY <1>0, <1>1, <1>2, <1>5, <1>6, <1>7, <1>8, <1>9, <1>10, OwnStep

-----------------------------------------------------------------------------
(* Creating a session *)

\* A failed assertion changes nothing else.
LEMMA AbortStep == ASSUME SessionInv, TypeOK', Abort PROVE SessionInv'
<1>1. UNCHANGED <<mem, memPool, uePgwSessionRbt, pFreePool, tunnelMap, ue, pc, pUe,
                  req, cause, peerSessions, endIp, orderly>>
  BY DEF Abort, stores
<1>2. \A w \in Workers : WorkerOK(w)' /\ OrderlyOK(w)'
  BY <1>1 DEF SessionInv, WorkerOK, OrderlyOK, Opens, Fresh, Complete
<1>3. \A b \in Blocks : BlockOK(b)' /\ KnownOK(b)'
  BY <1>1 DEF SessionInv, BlockOK, KnownOK, Live, AtRest, Complete
<1>4. Exclusive' /\ MemOK'
  BY <1>1 DEF SessionInv, Exclusive, MemOK
<1>5. AddrOK'
  <2>1. \A b \in Blocks : Holder(b)' <=> Holder(b)
    BY <1>1 DEF Holder
  <2> QED BY <1>1, <2>1, SameAddresses DEF SessionInv
<1> QED BY <1>2, <1>3, <1>4, <1>5 DEF SessionInv

\* The IMSI is registered, or found to be registered.
LEMMA RegisterStep ==
  ASSUME SessionInv, TypeOK', NEW w \in Workers, Register(w)
  PROVE  SessionInv'
<1> USE SessionAssumption
<1>0. PICK b : b = pUe[w]
  OBVIOUS
<1>1. /\ pc[w] = "register"
      /\ UNCHANGED <<mem, memPool, pFreePool, tunnelMap, pUe, req, peerSessions,
                     endIp, orderly>>
  BY DEF Register, At, world
<1>2. /\ b \in Blocks /\ b # None /\ ue[b] \in UeRecord /\ ue \in [Blocks -> UeRecord]
      /\ req[w] \in Request /\ mem[b] = "allocated"
      /\ b \in uePgwSessionRbt <=> ue[b].pgw
      /\ \A p \in Peers : <<b, p>> \in tunnelMap <=> ue[b].tunnel = p
  BY <1>0, <1>1, AtWork DEF SessionInv, TypeOK
<1>3. /\ req[w].kind = "create" /\ req[w].teid = None
      /\ ue[b].state = "INIT" /\ ue[b].imsi = req[w].imsi /\ ue[b].tunnel = None
      /\ ~ ue[b].pgw /\ ~ ue[b].uplink /\ ~ ue[b].downlink
      /\ ue[b].addr = None /\ ue[b].ebi = None /\ cause[w] = None
  BY <1>0, <1>1 DEF SessionInv, WorkerOK
<1>4. /\ SameOthers(w)
      /\ \A c \in Blocks \ {b} : /\ ue'[c] = ue[c]
                                 /\ c \in uePgwSessionRbt' <=> c \in uePgwSessionRbt
      /\ ue'[b].addr = None /\ ue'[b].ebi = None /\ ue'[b].tunnel = None
      /\ ue'[b].imsi = ue[b].imsi /\ ~ ue'[b].uplink /\ ~ ue'[b].downlink
      /\ b \in uePgwSessionRbt' <=> ue'[b].pgw
      /\ \/ /\ pc'[w] = "alloc" /\ cause'[w] = None /\ ue'[b].state = "INIT"
            /\ ue'[b].pgw
         \/ /\ pc'[w] = "respond" /\ cause'[w] = "rejected"
  <2>1. CASE Collides(b)
    <3>1. /\ ue' = [ue EXCEPT ![b].state = "END"] /\ uePgwSessionRbt' = uePgwSessionRbt
          /\ Goto(w, "respond") /\ Decide(w, "rejected")
      BY <1>0, <2>1 DEF Register, Reject
    <3> QED
      BY <1>1, <1>2, <1>3, <3>1 DEF Goto, Decide, SameOthers, UeRecord, SessionInv, TypeOK
  <2>2. CASE ~ Collides(b)
    <3>1. /\ ue' = [ue EXCEPT ![b].pgw = TRUE]
          /\ uePgwSessionRbt' = uePgwSessionRbt \cup {b}
          /\ Goto(w, "alloc") /\ cause' = cause
      BY <1>0, <2>2 DEF Register
    <3> QED
      BY <1>1, <1>2, <1>3, <3>1 DEF Goto, SameOthers, UeRecord, SessionInv, TypeOK
  <2> QED BY <2>1, <2>2
<1>5. SameBlocks(b)
  BY <1>1, <1>4 DEF SameBlocks
<1>6. WorkerOK(w)'
  BY <1>0, <1>1, <1>2, <1>3, <1>4 DEF WorkerOK, Opens
<1>7. OrderlyOK(w)' /\ KnownOK(b)'
  <2>1. OrderlyOK(w) /\ KnownOK(b)
    BY <1>2 DEF SessionInv
  <2>2. ~ (orderly /\ b \in peerSessions)
    BY <1>0, <1>1, <1>3, <2>1 DEF KnownOK
  <2>3. OrderlyOK(w)'
    BY <1>1, <1>3, <1>4, <2>1 DEF OrderlyOK, Opens
  <2> QED BY <1>1, <2>2, <2>3 DEF KnownOK
<1>8. AddrOK'
  <2>1. ~ Holds(w, b)' /\ ~ Holds(w, b)
    BY <1>3, <1>4 DEF Holds
  <2> QED BY <1>0, <1>1, <1>2, <1>4, <1>5, <2>1, OwnStepSameAddress
<1>9. \A p \in Peers : <<b, p>> \in tunnelMap' <=>
                         ue'[b].tunnel = p /\ pc'[w] # "free"
  BY <1>1, <1>2, <1>3, <1>4
<1> QED
  BY <1>0, <1>1, <1>2, <1>4, <1>5, <1>6, <1>7, <1>8, <1>9, OwnStep

\* The look at the pool, without the mutex.
LEMMA LookAtPoolStep ==
  ASSUME SessionInv, TypeOK', NEW w \in Workers, LookAtPool(w)
  PROVE  SessionInv'
<1> USE SessionAssumption
<1>0. PICK b : b = pUe[w]
  OBVIOUS
<1>1. /\ pc[w] = "alloc"
      /\ UNCHANGED <<mem, memPool, uePgwSessionRbt, pFreePool, tunnelMap, pUe, req,
                     peerSessions, endIp, orderly>>
  BY DEF LookAtPool, At, stores, world
<1>2. /\ b \in Blocks /\ b # None /\ ue[b] \in UeRecord /\ ue \in [Blocks -> UeRecord]
      /\ req[w] \in Request /\ mem[b] = "allocated"
      /\ b \in uePgwSessionRbt <=> ue[b].pgw
      /\ \A p \in Peers : <<b, p>> \in tunnelMap <=> ue[b].tunnel = p
  BY <1>0, <1>1, AtWork DEF SessionInv, TypeOK
<1>3. /\ req[w].kind = "create" /\ req[w].teid = None
      /\ ue[b].state = "INIT" /\ ue[b].imsi = req[w].imsi /\ ue[b].tunnel = None
      /\ ue[b].pgw /\ ~ ue[b].uplink /\ ~ ue[b].downlink
      /\ ue[b].addr = None /\ ue[b].ebi = None /\ cause[w] = None
  BY <1>0, <1>1 DEF SessionInv, WorkerOK
<1>4. /\ SameOthers(w)
      /\ \A c \in Blocks \ {b} : ue'[c] = ue[c]
      /\ ue'[b].addr = None /\ ue'[b].ebi = None /\ ue'[b].tunnel = None
      /\ ue'[b].imsi = ue[b].imsi /\ ~ ue'[b].uplink /\ ~ ue'[b].downlink
      /\ ue'[b].pgw
      /\ \/ /\ pc'[w] = "pop" /\ cause'[w] = None /\ ue'[b].state = "INIT"
         \/ /\ pc'[w] = "respond" /\ cause'[w] = "rejected"
  <2>1. CASE pFreePool = <<>>
    <3>1. /\ ue' = [ue EXCEPT ![b] = [@ EXCEPT !.addr = None, !.state = "END"]]
          /\ Goto(w, "respond") /\ Decide(w, "rejected")
      BY <1>0, <2>1 DEF LookAtPool, Reject
    <3> QED
      BY <1>1, <1>2, <1>3, <3>1 DEF Goto, Decide, SameOthers, UeRecord, SessionInv, TypeOK
  <2>2. CASE pFreePool # <<>>
    <3>1. Goto(w, "pop") /\ ue' = ue /\ cause' = cause
      BY <2>2 DEF LookAtPool
    <3> QED
      BY <1>1, <1>2, <1>3, <3>1 DEF Goto, SameOthers, SessionInv, TypeOK
  <2> QED BY <2>1, <2>2
<1>5. SameBlocks(b)
  BY <1>1, <1>4 DEF SameBlocks
<1>6. WorkerOK(w)'
  BY <1>0, <1>1, <1>2, <1>3, <1>4 DEF WorkerOK, Opens
<1>7. OrderlyOK(w)' /\ KnownOK(b)'
  <2>1. OrderlyOK(w) /\ KnownOK(b)
    BY <1>2 DEF SessionInv
  <2>2. ~ (orderly /\ b \in peerSessions)
    BY <1>0, <1>1, <1>3, <2>1 DEF KnownOK
  <2>3. OrderlyOK(w)'
    BY <1>1, <1>3, <1>4, <2>1 DEF OrderlyOK, Opens
  <2> QED BY <1>1, <2>2, <2>3 DEF KnownOK
<1>8. AddrOK'
  <2>1. ~ Holds(w, b)' /\ ~ Holds(w, b)
    BY <1>3, <1>4 DEF Holds
  <2> QED BY <1>0, <1>1, <1>2, <1>4, <1>5, <2>1, OwnStepSameAddress
<1>9. /\ b \in uePgwSessionRbt' <=> ue'[b].pgw
      /\ \A p \in Peers : <<b, p>> \in tunnelMap' <=>
                            ue'[b].tunnel = p /\ pc'[w] # "free"
  BY <1>1, <1>2, <1>3, <1>4
<1> QED
  BY <1>0, <1>1, <1>2, <1>4, <1>5, <1>6, <1>7, <1>8, <1>9, OwnStep

\* An address leaves the pool.
LEMMA PopAddressStep ==
  ASSUME SessionInv, TypeOK', NEW w \in Workers, PopAddress(w)
  PROVE  SessionInv'
<1> USE SessionAssumption
<1>a. CASE pFreePool = <<>>
  BY <1>a, AbortStep DEF PopAddress
<1>b. CASE pFreePool # <<>>
  <2>0. PICK b, a : b = pUe[w] /\ a = Head(pFreePool)
    OBVIOUS
  <2>1. /\ pc[w] = "pop" /\ pFreePool' = Tail(pFreePool)
        /\ UNCHANGED <<mem, memPool, uePgwSessionRbt, tunnelMap, pUe, req,
                       peerSessions, endIp, orderly>>
    BY <1>b DEF PopAddress, RestOfPool, At, world
  <2>2. /\ b \in Blocks /\ b # None /\ ue[b] \in UeRecord /\ ue \in [Blocks -> UeRecord]
        /\ req[w] \in Request /\ mem[b] = "allocated"
        /\ b \in uePgwSessionRbt <=> ue[b].pgw
        /\ \A p \in Peers : <<b, p>> \in tunnelMap <=> ue[b].tunnel = p
    BY <2>0, <2>1, AtWork DEF SessionInv, TypeOK
  <2>3. /\ req[w].kind = "create" /\ req[w].teid = None
        /\ ue[b].state = "INIT" /\ ue[b].imsi = req[w].imsi /\ ue[b].tunnel = None
        /\ ue[b].pgw /\ ~ ue[b].uplink /\ ~ ue[b].downlink
        /\ ue[b].addr = None /\ ue[b].ebi = None /\ cause[w] = None
    BY <2>0, <2>1 DEF SessionInv, WorkerOK
  <2>4. /\ a \in Addrs /\ InFreePool(a) /\ a # None
        /\ IsInjective(pFreePool')
        /\ \A x : InFreePool(x)' <=> InFreePool(x) /\ x # a
    <3>1. pFreePool \in Seq(Addrs) /\ IsInjective(pFreePool)
      BY DEF SessionInv, TypeOK, AddrOK
    <3>2. /\ a \in Addrs /\ IsInjective(Tail(pFreePool))
          /\ \E i \in DOMAIN pFreePool : pFreePool[i] = a
          /\ \A x : (\E i \in DOMAIN Tail(pFreePool) : Tail(pFreePool)[i] = x)
                      <=> (\E i \in DOMAIN pFreePool : pFreePool[i] = x) /\ x # a
      BY <1>b, <2>0, <3>1, PopList
    <3> QED BY <2>1, <3>2 DEF InFreePool
  <2>5. /\ SameOthers(w)
        /\ \A c \in Blocks \ {b} : ue'[c] = ue[c]
        /\ ue'[b].tunnel = None /\ ue'[b].imsi = ue[b].imsi
        /\ ue'[b].pgw /\ ~ ue'[b].uplink /\ ~ ue'[b].downlink
        /\ \/ /\ a \in Skipped /\ pc'[w] = "alloc" /\ cause'[w] = None
              /\ ue'[b].state = "INIT" /\ ue'[b].addr = None /\ ue'[b].ebi = None
           \/ /\ a \notin Skipped /\ pc'[w] = "uplink" /\ cause'[w] = None
              /\ ue'[b].state = "INIT" /\ ue'[b].addr = a
              /\ ue'[b].ebi = req[w].ebi /\ req[w].ebi > 4
           \/ /\ a \notin Skipped /\ pc'[w] = "respond" /\ cause'[w] = "rejected"
              /\ ue'[b].addr = a
    <3>1. CASE a \in Skipped
      <4>1. Goto(w, "alloc") /\ ue' = ue /\ cause' = cause
        BY <1>b, <2>0, <3>1 DEF PopAddress
      <4> QED
        BY <2>1, <2>2, <2>3, <3>1, <4>1 DEF Goto, SameOthers, SessionInv, TypeOK
    <3>2. CASE a \notin Skipped /\ GoodEbi(b, req[w].ebi)
      <4>1. /\ Goto(w, "uplink") /\ cause' = cause
            /\ ue' = [ue EXCEPT ![b] = [@ EXCEPT !.addr = a, !.ebi = req[w].ebi]]
        BY <1>b, <2>0, <3>2 DEF PopAddress
      <4> QED
        BY <2>1, <2>2, <2>3, <3>2, <4>1
        DEF Goto, SameOthers, UeRecord, GoodEbi, SessionInv, TypeOK
    <3>3. CASE a \notin Skipped /\ ~ GoodEbi(b, req[w].ebi)
      <4>1. /\ Goto(w, "respond") /\ Decide(w, "rejected")
            /\ ue' = [ue EXCEPT ![b] = [@ EXCEPT !.addr = a, !.state = "END"]]
        BY <1>b, <2>0, <3>3 DEF PopAddress, Reject
      <4> QED
        BY <2>1, <2>2, <2>3, <3>3, <4>1
        DEF Goto, Decide, SameOthers, UeRecord, SessionInv, TypeOK
    <3> QED BY <3>1, <3>2, <3>3
  <2>6. SameBlocks(b)
    BY <2>1, <2>5 DEF SameBlocks
  <2>7. WorkerOK(w)'
    BY <2>0, <2>1, <2>2, <2>3, <2>4, <2>5 DEF WorkerOK, Opens
  <2>8. OrderlyOK(w)' /\ KnownOK(b)'
    <3>1. OrderlyOK(w) /\ KnownOK(b)
      BY <2>2 DEF SessionInv
    <3>2. ~ (orderly /\ b \in peerSessions)
      BY <2>0, <2>1, <2>3, <3>1 DEF KnownOK
    <3>3. OrderlyOK(w)'
      BY <2>1, <2>3, <2>5, <3>1 DEF OrderlyOK, Opens
    <3> QED BY <2>1, <3>2, <3>3 DEF KnownOK
  <2>9. AddrOK'
    <3>1. \A c \in Blocks \ {b} : /\ Holder(c)' <=> Holder(c)
                                  /\ ue'[c].addr = ue[c].addr
      BY <2>0, <2>1, <2>2, <2>5, <2>6, OtherHolders
    <3>2. ~ Holder(b)
      BY <2>3 DEF Holder
    <3>3. /\ ue'[b].addr # None => ue'[b].addr = a /\ a \notin Skipped
          /\ Holder(b)' <=> ue'[b].addr # None
          /\ a \notin Skipped => ue'[b].addr = a
      BY <2>4, <2>5 DEF Holder
    <3>4. AddrOK
      BY DEF SessionInv
    <3>5. \A x \in Addrs : InFreePool(x)' => x \in StartIp .. endIp'
      BY <2>1, <2>4, <3>4 DEF AddrOK
    <3>6. \A c, d \in Blocks :
            Holder(c)' /\ Holder(d)' /\ ue'[c].addr = ue'[d].addr => c = d
      BY <2>4, <3>1, <3>2, <3>3, <3>4 DEF AddrOK
    <3>7. \A c \in Blocks : Holder(c)' =>
            ue'[c].addr \in (StartIp .. endIp') \ Skipped /\ ~ InFreePool(ue[c].addr)'
      BY <2>1, <2>4, <3>1, <3>2, <3>3, <3>4 DEF AddrOK
    <3>8. \A x \in (StartIp .. endIp') \ Skipped :
            InFreePool(x)' \/ \E c \in Blocks : Holder(c)' /\ ue'[c].addr = x
      <4> SUFFICES ASSUME NEW x \in (StartIp .. endIp) \ Skipped, ~ InFreePool(x)'
                   PROVE  \E c \in Blocks : Holder(c)' /\ ue'[c].addr = x
        BY <2>1
      <4>1. CASE x = a
        BY <4>1, <2>2, <2>4, <3>3
      <4>2. CASE x # a
        BY <4>2, <2>4, <3>1, <3>2, <3>4 DEF AddrOK
      <4> QED BY <4>1, <4>2
    <3> QED BY <2>4, <3>5, <3>6, <3>7, <3>8 DEF AddrOK
  <2>10. /\ b \in uePgwSessionRbt' <=> ue'[b].pgw
         /\ \A p \in Peers : <<b, p>> \in tunnelMap' <=>
                               ue'[b].tunnel = p /\ pc'[w] # "free"
    BY <2>1, <2>2, <2>3, <2>5
  <2> QED
    BY <2>0, <2>1, <2>2, <2>5, <2>6, <2>7, <2>8, <2>9, <2>10, OwnStep
<1> QED BY <1>a, <1>b

\* The uplink flow.
LEMMA InstallUplinkStep ==
  ASSUME SessionInv, TypeOK', NEW w \in Workers, InstallUplink(w)
  PROVE  SessionInv'
<1> USE SessionAssumption
<1>0. PICK b : b = pUe[w]
  OBVIOUS
<1>a. CASE <<b, ue[b].ebi>> \in teidMap
  BY <1>0, <1>a, AbortStep DEF InstallUplink
<1>b. CASE <<b, ue[b].ebi>> \notin teidMap
  <2>1. /\ pc[w] = "uplink" /\ Goto(w, "downlink")
        /\ ue' = [ue EXCEPT ![b].uplink = TRUE]
        /\ UNCHANGED <<mem, memPool, uePgwSessionRbt, pFreePool, tunnelMap, pUe, req,
                       cause, peerSessions, endIp, orderly>>
    BY <1>0, <1>b DEF InstallUplink, At, world
  <2>2. /\ b \in Blocks /\ b # None /\ ue[b] \in UeRecord /\ ue \in [Blocks -> UeRecord]
        /\ req[w] \in Request /\ mem[b] = "allocated"
        /\ b \in uePgwSessionRbt <=> ue[b].pgw
        /\ \A p \in Peers : <<b, p>> \in tunnelMap <=> ue[b].tunnel = p
    BY <1>0, <2>1, AtWork DEF SessionInv, TypeOK
  <2>3. /\ req[w].kind = "create" /\ req[w].teid = None
        /\ ue[b].state = "INIT" /\ ue[b].imsi = req[w].imsi /\ ue[b].tunnel = None
        /\ ue[b].pgw /\ ~ ue[b].downlink
        /\ ue[b].addr # None /\ ue[b].ebi = req[w].ebi /\ req[w].ebi > 4
        /\ cause[w] = None
    BY <1>0, <2>1 DEF SessionInv, WorkerOK
  <2>4. /\ SameOthers(w) /\ pc'[w] = "downlink" /\ cause'[w] = None
        /\ \A c \in Blocks \ {b} : ue'[c] = ue[c]
        /\ ue'[b].tunnel = None /\ ue'[b].imsi = ue[b].imsi
        /\ ue'[b].state = "INIT" /\ ue'[b].addr = ue[b].addr
        /\ ue'[b].ebi = ue[b].ebi
        /\ ue'[b].pgw /\ ue'[b].uplink /\ ~ ue'[b].downlink
    BY <2>1, <2>2, <2>3 DEF Goto, SameOthers, UeRecord, SessionInv, TypeOK
  <2>5. SameBlocks(b)
    BY <2>1, <2>4 DEF SameBlocks
  <2>6. WorkerOK(w)'
    BY <1>0, <2>1, <2>2, <2>3, <2>4 DEF WorkerOK
  <2>7. OrderlyOK(w)' /\ KnownOK(b)'
    <3>1. OrderlyOK(w) /\ KnownOK(b)
      BY <2>2 DEF SessionInv
    <3>2. ~ (orderly /\ b \in peerSessions)
      BY <1>0, <2>1, <2>3, <3>1 DEF KnownOK
    <3>3. OrderlyOK(w)'
      BY <2>1, <2>3, <2>4, <3>1 DEF OrderlyOK
    <3> QED BY <2>1, <3>2, <3>3 DEF KnownOK
  <2>8. AddrOK'
    <3>1. (Holds(w, b)' <=> Holds(w, b)) /\ ue'[b].addr = ue[b].addr
      BY <2>3, <2>4 DEF Holds
    <3> QED BY <1>0, <2>1, <2>2, <2>4, <2>5, <3>1, OwnStepSameAddress
  <2>9. /\ b \in uePgwSessionRbt' <=> ue'[b].pgw
        /\ \A p \in Peers : <<b, p>> \in tunnelMap' <=>
                              ue'[b].tunnel = p /\ pc'[w] # "free"
    BY <2>1, <2>2, <2>3, <2>4
  <2> QED
    BY <1>0, <2>1, <2>2, <2>4, <2>5, <2>6, <2>7, <2>8, <2>9, OwnStep
<1> QED BY <1>a, <1>b

\* The downlink flow: the session is created.
LEMMA InstallDownlinkStep ==
  ASSUME SessionInv, TypeOK', NEW w \in Workers, InstallDownlink(w)
  PROVE  SessionInv'
<1> USE SessionAssumption
<1>0. PICK b : b = pUe[w]
  OBVIOUS
<1>1. /\ pc[w] = "downlink" /\ Goto(w, "respond") /\ Decide(w, "accepted")
      /\ \E f \in BOOLEAN :
           ue' = [ue EXCEPT ![b] = [@ EXCEPT !.downlink = f, !.state = "CREATED"]]
      /\ UNCHANGED <<mem, memPool, uePgwSessionRbt, pFreePool, tunnelMap, pUe, req,
                     peerSessions, endIp, orderly>>
  BY <1>0 DEF InstallDownlink, At, world
<1>2. /\ b \in Blocks /\ b # None /\ ue[b] \in UeRecord /\ ue \in [Blocks -> UeRecord]
      /\ req[w] \in Request /\ mem[b] = "allocated"
      /\ b \in uePgwSessionRbt <=> ue[b].pgw
      /\ \A p \in Peers : <<b, p>> \in tunnelMap <=> ue[b].tunnel = p
  BY <1>0, <1>1, AtWork DEF SessionInv, TypeOK
<1>3. /\ req[w].kind = "create" /\ req[w].teid = None
      /\ ue[b].tunnel = None /\ ue[b].pgw /\ ue[b].addr # None
  BY <1>0, <1>1 DEF SessionInv, WorkerOK
<1>4. /\ SameOthers(w) /\ pc'[w] = "respond" /\ cause'[w] = "accepted"
      /\ \A c \in Blocks \ {b} : ue'[c] = ue[c]
      /\ ue'[b].tunnel = None /\ ue'[b].state = "CREATED"
      /\ ue'[b].addr = ue[b].addr /\ ue'[b].pgw
  BY <1>1, <1>2, <1>3 DEF Goto, Decide, SameOthers, UeRecord, SessionInv, TypeOK
<1>5. SameBlocks(b)
  BY <1>1, <1>4 DEF SameBlocks
<1>6. WorkerOK(w)'
  BY <1>0, <1>1, <1>2, <1>3, <1>4 DEF WorkerOK
<1>7. OrderlyOK(w)' /\ KnownOK(b)'
  <2>1. OrderlyOK(w) /\ KnownOK(b)
    BY <1>2 DEF SessionInv
  <2>2. ~ (orderly /\ b \in peerSessions)
    BY <1>0, <1>1, <1>3, <2>1 DEF KnownOK
  <2>3. OrderlyOK(w)'
    BY <1>0, <1>1, <1>3, <1>4, <2>1 DEF OrderlyOK
  <2> QED BY <1>1, <2>2, <2>3 DEF KnownOK
<1>8. AddrOK'
  <2>1. (Holds(w, b)' <=> Holds(w, b)) /\ ue'[b].addr = ue[b].addr
    BY <1>3, <1>4 DEF Holds
  <2> QED BY <1>0, <1>1, <1>2, <1>4, <1>5, <2>1, OwnStepSameAddress
<1>9. /\ b \in uePgwSessionRbt' <=> ue'[b].pgw
      /\ \A p \in Peers : <<b, p>> \in tunnelMap' <=>
                            ue'[b].tunnel = p /\ pc'[w] # "free"
  BY <1>1, <1>2, <1>3, <1>4
<1> QED
  BY <1>0, <1>1, <1>2, <1>4, <1>5, <1>6, <1>7, <1>8, <1>9, OwnStep

-----------------------------------------------------------------------------
(* Deleting a session *)

\* A step of a worker that only moves on.
LEMMA MoveOn ==
  ASSUME SessionInv, TypeOK', NEW w \in Workers, NEW b \in Blocks, b = pUe[w],
         NEW label, Goto(w, label),
         pc[w] \notin {"idle", "new", "freeaddr", "destroy_freeaddr", "free"},
         label \notin {"freeaddr", "destroy_freeaddr", "free"},
         UNCHANGED <<mem, memPool, uePgwSessionRbt, pFreePool, tunnelMap, ue, pUe, req,
                     cause, peerSessions, endIp, orderly>>,
         WorkerOK(w)', OrderlyOK(w)',
         orderly /\ b \in peerSessions =>
           \/ label = "tunnel"
           \/ /\ req[w].kind = "delete"
              /\ label \in {"fsm", "rmdown", "rmup", "dereg", "respond"}
  PROVE  SessionInv'
<1> USE SessionAssumption
<1>1. SameOthers(w) /\ pc'[w] = label /\ SameBlocks(b)
  BY DEF Goto, SameOthers, SameBlocks, SessionInv, TypeOK
<1>2. /\ b # None /\ mem[b] = "allocated"
      /\ b \in uePgwSessionRbt <=> ue[b].pgw
      /\ \A p \in Peers : <<b, p>> \in tunnelMap <=> ue[b].tunnel = p
  BY AtWork
<1>3. KnownOK(b)'
  <2>1. \A v \in Workers : pUe'[v] = b => v = w
    BY <1>2 DEF SessionInv, Exclusive
  <2> QED BY <1>1, <1>2, <2>1 DEF KnownOK, Live
<1>4. AddrOK'
  <2>1. (Holds(w, b)' <=> Holds(w, b)) /\ ue'[b].addr = ue[b].addr
    BY <1>1 DEF Holds
  <2> QED BY <1>1, <2>1, OwnStepSameAddress
<1> QED BY <1>1, <1>2, <1>3, <1>4, OwnStep

\* The downlink flow is removed.
LEMMA RemoveDownlinkStep ==
  ASSUME SessionInv, TypeOK', NEW w \in Workers, RemoveDownlink(w)
  PROVE  SessionInv'
<1>1. CASE Abort
  BY <1>1, AbortStep
<1>2. CASE ~ Abort
  <2>1. /\ pc[w] = "rmdown" /\ Goto(w, "rmup")
        /\ UNCHANGED <<mem, memPool, uePgwSessionRbt, pFreePool, tunnelMap, ue, pUe, req,
                       cause, peerSessions, endIp, orderly>>
    BY <1>2 DEF RemoveDownlink, At, stores, world
  <2>2. /\ pUe[w] \in Blocks /\ WorkerOK(w) /\ OrderlyOK(w)
        /\ req[w] \in Request /\ req[w].kind = "delete"
    BY <2>1, AtWork DEF WorkerOK
  <2>3. pc'[w] = "rmup"
    BY <2>1 DEF Goto, SessionInv, TypeOK
  <2>4. WorkerOK(w)'
    BY <2>1, <2>2, <2>3 DEF WorkerOK, Complete
  <2>5. OrderlyOK(w)'
    BY <2>1, <2>2, <2>3 DEF OrderlyOK
  <2> QED BY <2>1, <2>2, <2>4, <2>5, MoveOn
<1> QED BY <1>1, <1>2

\* The uplink flow is removed.
LEMMA RemoveUplinkStep ==
  ASSUME SessionInv, TypeOK', NEW w \in Workers, RemoveUplink(w)
  PROVE  SessionInv'
<1>1. CASE Abort
  BY <1>1, AbortStep
<1>2. CASE ~ Abort
  <2>1. /\ pc[w] = "rmup" /\ Goto(w, "dereg")
        /\ UNCHANGED <<mem, memPool, uePgwSessionRbt, pFreePool, tunnelMap, ue, pUe, req,
                       cause, peerSessions, endIp, orderly>>
    BY <1>2 DEF RemoveUplink, At, stores, world
  <2>2. /\ pUe[w] \in Blocks /\ WorkerOK(w) /\ OrderlyOK(w)
        /\ req[w] \in Request /\ req[w].kind = "delete"
    BY <2>1, AtWork DEF WorkerOK
  <2>3. pc'[w] = "dereg"
    BY <2>1 DEF Goto, SessionInv, TypeOK
  <2>4. WorkerOK(w)'
    BY <2>1, <2>2, <2>3 DEF WorkerOK, Complete
  <2>5. OrderlyOK(w)'
    BY <2>1, <2>2, <2>3 DEF OrderlyOK
  <2> QED BY <2>1, <2>2, <2>4, <2>5, MoveOn
<1> QED BY <1>1, <1>2

\* The UE is looked at before it is destroyed.
LEMMA DestroyStep ==
  ASSUME SessionInv, TypeOK', NEW w \in Workers, Destroy(w)
  PROVE  SessionInv'
<1>1. /\ pc[w] = "destroy"
      /\ Goto(w, IF ue[pUe[w]].pgw THEN "destroy_dereg" ELSE "deltunnel")
      /\ UNCHANGED <<mem, memPool, uePgwSessionRbt, pFreePool, tunnelMap, ue, pUe, req,
                     cause, peerSessions, endIp, orderly>>
  BY DEF Destroy, StillRegistered, At, stores, world
<1>2. /\ pUe[w] \in Blocks /\ WorkerOK(w) /\ OrderlyOK(w) /\ KnownOK(pUe[w])
      /\ req[w] \in Request
  BY <1>1, AtWork
<1>3. pc'[w] = IF ue[pUe[w]].pgw THEN "destroy_dereg" ELSE "deltunnel"
  BY <1>1 DEF Goto, SessionInv, TypeOK
<1>4. WorkerOK(w)'
  BY <1>1, <1>2, <1>3 DEF WorkerOK
<1>5. OrderlyOK(w)'
  BY <1>1, <1>2, <1>3 DEF OrderlyOK
<1>6. ~ (orderly /\ pUe[w] \in peerSessions)
  BY <1>1, <1>2 DEF KnownOK
<1> QED BY <1>1, <1>2, <1>4, <1>5, <1>6, MoveOn

\* The IMSI leaves the registry.
LEMMA DeregisterStep ==
  ASSUME SessionInv, TypeOK', NEW w \in Workers, Deregister(w)
  PROVE  SessionInv'
<1> USE SessionAssumption
<1>0. PICK b : b = pUe[w]
  OBVIOUS
<1>a. CASE b \notin uePgwSessionRbt
  BY <1>0, <1>a, AbortStep DEF Deregister
<1>b. CASE b \in uePgwSessionRbt
  <2>1. /\ pc[w] \in {"dereg", "destroy_dereg"}
        /\ Goto(w, IF pc[w] = "dereg" THEN "freeaddr" ELSE "destroy_freeaddr")
        /\ ue' = [ue EXCEPT ![b].pgw = FALSE]
        /\ uePgwSessionRbt' = uePgwSessionRbt \ {b}
        /\ UNCHANGED <<mem, memPool, pFreePool, tunnelMap, pUe, req, cause,
                       peerSessions, endIp, orderly>>
    BY <1>0, <1>b DEF Deregister, PgwAfterDeregister, At, world
  <2>2. /\ b \in Blocks /\ b # None /\ ue[b] \in UeRecord /\ ue \in [Blocks -> UeRecord]
        /\ req[w] \in Request /\ mem[b] = "allocated" /\ ue[b].pgw
        /\ \A p \in Peers : <<b, p>> \in tunnelMap <=> ue[b].tunnel = p
        /\ WorkerOK(w) /\ OrderlyOK(w) /\ KnownOK(b)
    BY <1>0, <1>b, <2>1, AtWork DEF SessionInv, TypeOK
  <2>3. /\ SameOthers(w)
        /\ pc'[w] = IF pc[w] = "dereg" THEN "freeaddr" ELSE "destroy_freeaddr"
        /\ \A c \in Blocks \ {b} : ue'[c] = ue[c]
        /\ ue'[b].tunnel = ue[b].tunnel /\ ue'[b].addr = ue[b].addr /\ ~ ue'[b].pgw
    BY <2>1, <2>2 DEF Goto, SameOthers, UeRecord, SessionInv, TypeOK
  <2>4. SameBlocks(b)
    BY <2>1, <2>3 DEF SameBlocks
  <2>5. WorkerOK(w)'
    BY <1>0, <2>1, <2>2, <2>3 DEF WorkerOK
  <2>6. OrderlyOK(w)'
    BY <1>0, <2>1, <2>2, <2>3 DEF OrderlyOK
  <2>7. KnownOK(b)'
    <3>1. \A v \in Workers : pUe'[v] = b => v = w
      BY <1>0, <2>1, <2>2 DEF SessionInv, Exclusive
    <3> QED BY <1>0, <2>1, <2>2, <2>3, <3>1 DEF KnownOK, Live
  <2>8. AddrOK'
    <3>1. (Holds(w, b)' <=> Holds(w, b)) /\ ue'[b].addr = ue[b].addr
      BY <2>1, <2>2, <2>3 DEF Holds
    <3> QED BY <1>0, <2>1, <2>2, <2>3, <2>4, <3>1, OwnStepSameAddress
  <2>9. /\ b \in uePgwSessionRbt' <=> ue'[b].pgw
        /\ \A p \in Peers : <<b, p>> \in tunnelMap' <=>
                              ue'[b].tunnel = p /\ pc'[w] # "free"
    BY <2>1, <2>2, <2>3
  <2> QED
    BY <1>0, <2>1, <2>2, <2>3, <2>4, <2>5, <2>6, <2>7, <2>8, <2>9, OwnStep
<1> QED BY <1>a, <1>b

\* The address goes back to the pool.
LEMMA FreeAddressStep ==
  ASSUME SessionInv, TypeOK', NEW w \in Workers, FreeAddress(w)
  PROVE  SessionInv'
<1> USE SessionAssumption
<1>0. PICK b, a : b = pUe[w] /\ a = ue[pUe[w]].addr
  OBVIOUS
<1>1. /\ pc[w] \in {"freeaddr", "destroy_freeaddr"}
      /\ pFreePool' = (IF a = None THEN <<>> ELSE <<a>>) \o pFreePool
      /\ UNCHANGED <<mem, memPool, uePgwSessionRbt, tunnelMap, ue, pUe, req,
                     peerSessions, endIp, orderly>>
  BY <1>0 DEF FreeAddress, Freed, At, world
<1>2. /\ b \in Blocks /\ b # None /\ ue[b] \in UeRecord
      /\ req[w] \in Request /\ mem[b] = "allocated"
      /\ b \in uePgwSessionRbt <=> ue[b].pgw
      /\ \A p \in Peers : <<b, p>> \in tunnelMap <=> ue[b].tunnel = p
      /\ WorkerOK(w) /\ OrderlyOK(w) /\ KnownOK(b)
  BY <1>0, <1>1, AtWork DEF SessionInv, TypeOK
<1>3. ~ ue[b].pgw
  BY <1>0, <1>1, <1>2 DEF WorkerOK
<1>4. /\ SameOthers(w)
      /\ \/ pc[w] = "freeaddr" /\ pc'[w] = "respond" /\ cause'[w] = "accepted"
         \/ pc[w] = "destroy_freeaddr" /\ pc'[w] = "deltunnel" /\ cause'[w] = cause[w]
  <2>1. CASE pc[w] = "freeaddr"
    BY <1>1, <2>1 DEF FreeAddress, Goto, Decide, SameOthers, SessionInv, TypeOK
  <2>2. CASE pc[w] = "destroy_freeaddr"
    BY <1>1, <2>2 DEF FreeAddress, Goto, SameOthers, SessionInv, TypeOK
  <2> QED BY <1>1, <2>1, <2>2
<1>5. SameBlocks(b)
  BY <1>1 DEF SameBlocks
<1>6. WorkerOK(w)'
  BY <1>0, <1>1, <1>2, <1>3, <1>4 DEF WorkerOK, Opens, Creates
<1>7. OrderlyOK(w)'
  BY <1>0, <1>1, <1>2, <1>4 DEF WorkerOK, OrderlyOK, Opens, Creates
<1>8. KnownOK(b)'
  <2>1. \A v \in Workers : pUe'[v] = b => v = w
    BY <1>0, <1>1, <1>2 DEF SessionInv, Exclusive
  <2> QED BY <1>0, <1>1, <1>2, <1>4, <2>1 DEF KnownOK, Live
<1>9. AddrOK'
  <2>1. \A c \in Blocks \ {b} : /\ Holder(c)' <=> Holder(c)
                                /\ ue'[c].addr = ue[c].addr
    BY <1>0, <1>1, <1>2, <1>4, <1>5, OtherHolders
  <2>2. Holder(b) <=> a # None
    BY <1>0, <1>1 DEF Holder
  <2>3. ~ Holder(b)'
    <3>1. \A v \in Workers : pUe'[v] = b => v = w
      BY <1>0, <1>1, <1>2 DEF SessionInv, Exclusive
    <3> QED BY <1>1, <1>3, <1>4, <3>1 DEF Holder
  <2>4. AddrOK
    BY DEF SessionInv
  <2>5. CASE a = None
    <3>1. pFreePool' = pFreePool
      BY <1>1, <2>5 DEF SessionInv, TypeOK
    <3>2. \A c \in Blocks : Holder(c)' <=> Holder(c)
      BY <2>1, <2>2, <2>3, <2>5
    <3> QED BY <1>1, <2>4, <3>1, <3>2, SameAddresses
  <2>6. CASE a # None
    <3>1. a \in (StartIp .. endIp) \ Skipped /\ ~ InFreePool(a) /\ a \in Addrs
      BY <1>0, <1>2, <2>2, <2>4, <2>6 DEF AddrOK, UeRecord
    <3>2. /\ IsInjective(pFreePool')
          /\ \A x : InFreePool(x)' <=> InFreePool(x) \/ x = a
      <4>0. PICK s : s = pFreePool
        OBVIOUS
      <4>1. s \in Seq(Addrs) /\ IsInjective(s) /\ ~ Occurs(a, s)
        BY <2>4, <3>1, <4>0 DEF SessionInv, TypeOK, AddrOK, InFreePool, Occurs
      <4>2. /\ IsInjective(<<a>> \o s)
            /\ \A x : Occurs(x, <<a>> \o s) <=> Occurs(x, s) \/ x = a
        <5>1. a \in Addrs
          BY <3>1
        <5> QED BY <4>1, <5>1, PushList
      <4> QED BY <1>1, <2>6, <4>0, <4>2 DEF InFreePool, Occurs
    <3>3. \A x \in Addrs : InFreePool(x)' => x \in StartIp .. endIp'
      BY <1>1, <2>4, <3>1, <3>2 DEF AddrOK
    <3>4. \A c, d \in Blocks :
            Holder(c)' /\ Holder(d)' /\ ue'[c].addr = ue'[d].addr => c = d
      BY <2>1, <2>3, <2>4 DEF AddrOK
    <3>5. \A c \in Blocks : Holder(c)' =>
            ue'[c].addr \in (StartIp .. endIp') \ Skipped /\ ~ InFreePool(ue[c].addr)'
      BY <1>0, <1>1, <1>2, <2>1, <2>2, <2>3, <2>4, <2>6, <3>2 DEF AddrOK
    <3>6. \A x \in (StartIp .. endIp') \ Skipped :
            InFreePool(x)' \/ \E c \in Blocks : Holder(c)' /\ ue'[c].addr = x
      BY <1>0, <1>1, <2>1, <2>4, <3>2 DEF AddrOK
    <3> QED BY <3>2, <3>3, <3>4, <3>5, <3>6 DEF AddrOK
  <2> QED BY <2>5, <2>6
<1>10. /\ b \in uePgwSessionRbt' <=> ue'[b].pgw
       /\ \A p \in Peers : <<b, p>> \in tunnelMap' <=>
                             ue'[b].tunnel = p /\ pc'[w] # "free"
  BY <1>1, <1>2, <1>4
<1> QED
  BY <1>0, <1>1, <1>2, <1>4, <1>5, <1>6, <1>7, <1>8, <1>9, <1>10, OwnStep

-----------------------------------------------------------------------------
(* Answering, and destroying a UE *)

\* The answer is sent.
LEMMA RespondStep ==
  ASSUME SessionInv, TypeOK', NEW w \in Workers, Respond(w)
  PROVE  SessionInv'
<1> USE SessionAssumption
<1>0. PICK b : b = pUe[w]
  OBVIOUS
<1>1. /\ pc[w] = "respond"
      /\ UNCHANGED <<mem, memPool, uePgwSessionRbt, pFreePool, tunnelMap, pUe, req,
                     cause, endIp, orderly>>
  BY DEF Respond, At, stores
<1>2. /\ b \in Blocks /\ b # None /\ ue[b] \in UeRecord /\ ue \in [Blocks -> UeRecord]
      /\ req[w] \in Request /\ mem[b] = "allocated"
      /\ b \in uePgwSessionRbt <=> ue[b].pgw
      /\ \A p \in Peers : <<b, p>> \in tunnelMap <=> ue[b].tunnel = p
      /\ WorkerOK(w) /\ OrderlyOK(w) /\ KnownOK(b)
  BY <1>0, <1>1, AtWork DEF SessionInv, TypeOK
<1>3. /\ SameOthers(w)
      /\ \A c \in Blocks \ {b} : ue'[c] = ue[c]
      /\ ue'[b].addr = ue[b].addr /\ ue'[b].tunnel = ue[b].tunnel
      /\ ue'[b].pgw <=> ue[b].pgw
      /\ \/ /\ Opens(w) /\ pc'[w] = "tunnel" /\ peerSessions' = peerSessions \cup {b}
            /\ ue'[b].state = ue[b].state
         \/ /\ ~ Opens(w) /\ pc'[w] = "destroy"
            /\ peerSessions' = IF cause[w] = "accepted" THEN peerSessions \ {b}
                               ELSE peerSessions
  <2>1. CASE Opens(w)
    <3>1. Goto(w, "tunnel") /\ ue' = ue /\ peerSessions' = peerSessions \cup {b}
      BY <1>0, <2>1 DEF Respond
    <3> QED BY <1>1, <1>2, <2>1, <3>1 DEF Goto, SameOthers, SessionInv, TypeOK
  <2>2. CASE ~ Opens(w)
    <3>1. /\ Goto(w, "destroy") /\ ue' = [ue EXCEPT ![b].state = "END"]
          /\ peerSessions' = IF cause[w] = "accepted" THEN peerSessions \ {b}
                             ELSE peerSessions
      BY <1>0, <2>2 DEF Respond
    <3> QED
      BY <1>1, <1>2, <2>2, <3>1 DEF Goto, SameOthers, UeRecord, SessionInv, TypeOK
  <2> QED BY <2>1, <2>2
<1>4. SameBlocks(b)
  BY <1>1, <1>3 DEF SameBlocks
<1>5. WorkerOK(w)'
  BY <1>0, <1>1, <1>2, <1>3 DEF WorkerOK, Opens
<1>6. OrderlyOK(w)'
  BY <1>0, <1>1, <1>2, <1>3 DEF OrderlyOK, Opens
<1>7. KnownOK(b)'
  <2>1. \A v \in Workers : pUe'[v] = b => v = w
    BY <1>0, <1>1, <1>2 DEF SessionInv, Exclusive
  <2>2. ~ Opens(w) => ~ (orderly /\ b \in peerSessions')
    BY <1>0, <1>1, <1>2, <1>3 DEF KnownOK, OrderlyOK
  <2> QED BY <1>1, <1>2, <1>3, <2>1, <2>2 DEF KnownOK, Live
<1>8. AddrOK'
  <2>1. (Holds(w, b)' <=> Holds(w, b)) /\ ue'[b].addr = ue[b].addr
    BY <1>1, <1>3 DEF Holds
  <2> QED BY <1>0, <1>1, <1>2, <1>3, <1>4, <2>1, OwnStepSameAddress
<1>9. /\ b \in uePgwSessionRbt' <=> ue'[b].pgw
      /\ \A p \in Peers : <<b, p>> \in tunnelMap' <=>
                            ue'[b].tunnel = p /\ pc'[w] # "free"
  BY <1>1, <1>2, <1>3
<1> QED
  BY <1>0, <1>1, <1>2, <1>3, <1>4, <1>5, <1>6, <1>7, <1>8, <1>9, OwnStep

\* What is known of a worker that is done.
LEMMA IdleOK ==
  ASSUME NEW w \in Workers, TypeOK, Done(w)
  PROVE  /\ SameOthers(w) /\ pUe'[w] = None /\ pc'[w] = "idle"
         /\ WorkerOK(w)' /\ OrderlyOK(w)'
<1>1. /\ SameOthers(w) /\ pUe'[w] = None /\ pc'[w] = "idle" /\ cause'[w] = None
  BY DEF Done, Goto, SameOthers, TypeOK
<1> QED BY <1>1 DEF WorkerOK, OrderlyOK

\* The control tunnel is made after the answer.
LEMMA CreateTunnelStep ==
  ASSUME SessionInv, TypeOK', NEW w \in Workers, CreateTunnel(w)
  PROVE  SessionInv'
<1> USE SessionAssumption
<1>0. PICK b, q : b = pUe[w] /\ q = req[w].peer
  OBVIOUS
<1>a. CASE <<b, q>> \in tunnelMap
  BY <1>0, <1>a, AbortStep DEF CreateTunnel
<1>b. CASE <<b, q>> \notin tunnelMap
  <2>1. /\ pc[w] = "tunnel" /\ tunnelMap' = tunnelMap \cup {<<b, q>>}
        /\ ue' = [ue EXCEPT ![b].tunnel = q]
        /\ IF ue[b].state = "END"
           THEN Goto(w, "destroy") /\ UNCHANGED <<pUe, req, cause>>
           ELSE Done(w)
        /\ UNCHANGED <<mem, memPool, uePgwSessionRbt, pFreePool, peerSessions,
                       endIp, orderly>>
    BY <1>0, <1>b DEF CreateTunnel, At, world
  <2>2. /\ b \in Blocks /\ b # None /\ ue[b] \in UeRecord /\ ue \in [Blocks -> UeRecord]
        /\ req[w] \in Request /\ mem[b] = "allocated"
        /\ b \in uePgwSessionRbt <=> ue[b].pgw
        /\ \A p \in Peers : <<b, p>> \in tunnelMap <=> ue[b].tunnel = p
        /\ WorkerOK(w) /\ OrderlyOK(w) /\ KnownOK(b)
    BY <1>0, <2>1, AtWork DEF SessionInv, TypeOK
  <2>3. q \in Peers /\ q # None
    BY <1>0, <2>2, RequestFields
  <2>4. /\ Opens(w) /\ ue[b].tunnel = None
        /\ \/ ue[b].state = "END" /\ ~ ue[b].pgw
           \/ ue[b].state = "CREATED" /\ ue[b].pgw /\ ue[b].addr # None
    BY <1>0, <2>1, <2>2 DEF WorkerOK, Opens
  <2>5. /\ \A c \in Blocks \ {b} : ue'[c] = ue[c]
        /\ ue'[b].addr = ue[b].addr /\ ue'[b].state = ue[b].state
        /\ ue'[b].pgw <=> ue[b].pgw
        /\ ue'[b].tunnel = q
    BY <2>1, <2>2, <2>3 DEF UeRecord
  <2>6. /\ SameBlocks(b)
        /\ \A p \in Peers : <<b, p>> \in tunnelMap' <=> ue'[b].tunnel = p
    BY <2>1, <2>2, <2>3, <2>4, <2>5 DEF SameBlocks
  <2>7. \A v \in Workers \ {w} : pUe[v] # b
    BY <1>0, <2>2 DEF SessionInv, Exclusive
  <2>8. CASE ue[b].state = "END"
    <3>1. /\ SameOthers(w) /\ pc'[w] = "destroy" /\ pUe'[w] = b
          /\ req'[w] = req[w] /\ cause'[w] = cause[w]
      BY <1>0, <2>1, <2>8 DEF Goto, SameOthers, SessionInv, TypeOK
    <3>2. WorkerOK(w)'
      BY <2>1, <2>2, <3>1 DEF WorkerOK
    <3>3. ~ orderly
      BY <1>0, <2>1, <2>2, <2>4, <2>8 DEF OrderlyOK
    <3>4. OrderlyOK(w)' /\ KnownOK(b)'
      BY <2>1, <3>3 DEF OrderlyOK, KnownOK
    <3>5. AddrOK'
      <4>1. (Holds(w, b)' <=> Holds(w, b)) /\ ue'[b].addr = ue[b].addr
        BY <2>1, <2>5, <3>1 DEF Holds
      <4> QED BY <1>0, <2>1, <2>2, <2>6, <3>1, <4>1, OwnStepSameAddress
    <3>6. /\ b \in uePgwSessionRbt' <=> ue'[b].pgw
          /\ \A p \in Peers : <<b, p>> \in tunnelMap' <=>
                                ue'[b].tunnel = p /\ pc'[w] # "free"
      BY <2>1, <2>2, <2>5, <2>6, <3>1
    <3> QED
      BY <1>0, <2>1, <2>2, <2>6, <3>1, <3>2, <3>4, <3>5, <3>6, OwnStep
  <2>9. CASE ue[b].state # "END"
    <3>1. Done(w)
      BY <2>1, <2>9
    <3>2. /\ SameOthers(w) /\ pUe'[w] = None /\ pc'[w] = "idle"
          /\ WorkerOK(w)' /\ OrderlyOK(w)'
      BY <3>1, IdleOK DEF SessionInv
    <3>3. /\ \A v \in Workers \ {w} : WorkerOK(v)' /\ OrderlyOK(v)'
          /\ \A c \in Blocks \ {b} : BlockOK(c)' /\ KnownOK(c)'
          /\ Exclusive'
      BY <1>0, <2>2, <2>6, <2>7, <3>2, OthersOK
    <3>4. \A v \in Workers : pUe'[v] # b
      BY <2>2, <2>7, <3>2 DEF SameOthers
    <3>5. BlockOK(b)' /\ KnownOK(b)'
      BY <2>1, <2>2, <2>3, <2>4, <2>5, <2>6, <2>9, <3>4
      DEF BlockOK, KnownOK, Live, AtRest, Complete
    <3>6. AddrOK'
      <4>1. \A c \in Blocks \ {b} : /\ Holder(c)' <=> Holder(c)
                                    /\ ue'[c].addr = ue[c].addr
        BY <1>0, <2>2, <2>6, <3>2, OtherHolders
      <4>2. Holder(b)' /\ Holder(b)
        BY <2>4, <2>5, <2>9 DEF Holder
      <4> QED BY <2>1, <2>5, <4>1, <4>2, SameAddresses DEF SessionInv
    <3>7. MemOK'
      BY <2>1 DEF SessionInv, MemOK
    <3> QED BY <3>2, <3>3, <3>5, <3>6, <3>7 DEF SessionInv
  <2> QED BY <2>8, <2>9
<1> QED BY <1>a, <1>b

\* The control tunnel is removed.
LEMMA DeleteTunnelStep ==
  ASSUME SessionInv, TypeOK', NEW w \in Workers, DeleteTunnel(w)
  PROVE  SessionInv'
<1> USE SessionAssumption
<1>0. PICK b : b = pUe[w]
  OBVIOUS
<1>a. CASE ~ (TunnelsOf(b) \subseteq tunnelMap)
  BY <1>0, <1>a, AbortStep DEF DeleteTunnel
<1>b. CASE TunnelsOf(b) \subseteq tunnelMap
  <2>1. /\ pc[w] = "deltunnel" /\ Goto(w, "free")
        /\ tunnelMap' = tunnelMap \ TunnelsOf(b)
        /\ UNCHANGED <<mem, memPool, uePgwSessionRbt, pFreePool, ue, pUe, req, cause,
                       peerSessions, endIp, orderly>>
    BY <1>0, <1>b DEF DeleteTunnel, At, world
  <2>2. /\ b \in Blocks /\ b # None /\ ue[b] \in UeRecord
        /\ req[w] \in Request /\ mem[b] = "allocated"
        /\ b \in uePgwSessionRbt <=> ue[b].pgw
        /\ \A p \in Peers : <<b, p>> \in tunnelMap <=> ue[b].tunnel = p
        /\ WorkerOK(w) /\ OrderlyOK(w) /\ KnownOK(b)
    BY <1>0, <2>1, AtWork DEF SessionInv, TypeOK
  <2>3. SameOthers(w) /\ pc'[w] = "free"
    BY <2>1 DEF Goto, SameOthers, SessionInv, TypeOK
  <2>4. /\ \A c \in Blocks \ {b}, p \in Peers : <<c, p>> \notin TunnelsOf(b)
        /\ \A p \in Peers : <<b, p>> \in TunnelsOf(b) <=> ue[b].tunnel = p
    BY DEF TunnelsOf
  <2>5. /\ SameBlocks(b)
        /\ \A p \in Peers : <<b, p>> \notin tunnelMap'
    BY <2>1, <2>2, <2>4 DEF SameBlocks
  <2>6. WorkerOK(w)'
    BY <1>0, <2>1, <2>2, <2>3 DEF WorkerOK
  <2>7. OrderlyOK(w)'
    BY <1>0, <2>1, <2>2, <2>3 DEF OrderlyOK
  <2>8. KnownOK(b)'
    BY <1>0, <2>1, <2>2 DEF KnownOK
  <2>9. AddrOK'
    <3>1. (Holds(w, b)' <=> Holds(w, b)) /\ ue'[b].addr = ue[b].addr
      BY <2>1, <2>3 DEF Holds
    <3> QED BY <1>0, <2>1, <2>2, <2>3, <2>5, <3>1, OwnStepSameAddress
  <2>10. /\ b \in uePgwSessionRbt' <=> ue'[b].pgw
         /\ \A p \in Peers : <<b, p>> \in tunnelMap' <=>
                               ue'[b].tunnel = p /\ pc'[w] # "free"
    BY <2>1, <2>2, <2>3, <2>5
  <2> QED
    BY <1>0, <2>1, <2>2, <2>3, <2>5, <2>6, <2>7, <2>8, <2>9, <2>10, OwnStep
<1> QED BY <1>a, <1>b

\* The block of the UE is freed.
LEMMA FreeUeStep ==
  ASSUME SessionInv, TypeOK', NEW w \in Workers, FreeUe(w)
  PROVE  SessionInv'
<1> USE SessionAssumption
<1>0. PICK b : b = pUe[w]
  OBVIOUS
<1>1. pc[w] = "free"
  BY DEF FreeUe, At
<1>2. /\ b \in Blocks /\ b # None /\ mem[b] = "allocated"
      /\ b \in uePgwSessionRbt <=> ue[b].pgw
      /\ \A p \in Peers : <<b, p>> \notin tunnelMap
      /\ WorkerOK(w) /\ KnownOK(b)
  BY <1>0, <1>1, AtWork
<1>3. ~ ue[b].pgw
  BY <1>0, <1>1, <1>2 DEF WorkerOK
<1>4. \A v \in Workers \ {w} : pUe[v] # b
  BY <1>0, <1>2 DEF SessionInv, Exclusive
<1>5. /\ mem' = [mem EXCEPT ![b] = "free"] /\ memPool' = <<b>> \o memPool
      /\ ue' = [ue EXCEPT ![b] = BlankUe] /\ Done(w)
      /\ UNCHANGED <<uePgwSessionRbt, pFreePool, tunnelMap, peerSessions, endIp, orderly>>
  BY <1>0, <1>2, <1>4 DEF FreeUe, ContentAfterFree, world
<1>6. /\ SameOthers(w) /\ pUe'[w] = None /\ pc'[w] = "idle"
      /\ WorkerOK(w)' /\ OrderlyOK(w)'
  BY <1>5, IdleOK DEF SessionInv
<1>7. /\ SameBlocks(b) /\ ue'[b] = BlankUe /\ mem'[b] = "free"
  BY <1>2, <1>5 DEF SameBlocks, SessionInv, TypeOK
<1>8. /\ \A v \in Workers \ {w} : WorkerOK(v)' /\ OrderlyOK(v)'
      /\ \A c \in Blocks \ {b} : BlockOK(c)' /\ KnownOK(c)'
      /\ Exclusive'
  BY <1>0, <1>2, <1>4, <1>6, <1>7, OthersOK
<1>9. BlockOK(b)'
  BY <1>2, <1>3, <1>5, <1>7 DEF BlockOK, Live, BlankUe
<1>10. KnownOK(b)'
  BY <1>0, <1>1, <1>2, <1>5 DEF KnownOK
<1>11. AddrOK'
  <2>1. \A c \in Blocks \ {b} : /\ Holder(c)' <=> Holder(c)
                                /\ ue'[c].addr = ue[c].addr
    BY <1>0, <1>2, <1>6, <1>7, OtherHolders
  <2>2. ~ Holder(b)
    BY <1>1, <1>3, <1>4 DEF Holder
  <2>3. ~ Holder(b)'
    BY <1>7 DEF Holder, BlankUe
  <2> QED BY <1>5, <2>1, <2>2, <2>3, SameAddresses DEF SessionInv
<1>12. MemOK'
  <2>1. memPool \in Seq(Blocks) /\ IsInjective(memPool) /\ MemOK
    BY DEF SessionInv, TypeOK, MemOK
  <2>2. /\ \A i \in DOMAIN memPool : memPool[i] \in Blocks
        /\ \A i \in DOMAIN memPool : memPool[i] # b
    BY <1>2, <2>1 DEF MemOK
  <2>3. /\ IsInjective(<<b>> \o memPool)
        /\ \A x : Occurs(x, <<b>> \o memPool) <=> Occurs(x, memPool) \/ x = b
    <3>1. ~ Occurs(b, memPool)
      BY <2>2 DEF Occurs
    <3> QED BY <1>2, <2>1, <3>1, PushList
  <2>4. \A i \in DOMAIN memPool : mem'[memPool[i]] = "free"
    BY <1>7, <2>1, <2>2 DEF MemOK, SameBlocks
  <2>5. ASSUME NEW i \in DOMAIN memPool' PROVE mem'[memPool'[i]] = "free"
    <3>1. (\E j \in DOMAIN memPool : memPool[j] = memPool'[i]) \/ memPool'[i] = b
      BY <1>5, <2>3
    <3> QED BY <1>7, <2>4, <3>1
  <2> QED BY <1>5, <2>3, <2>5 DEF MemOK
<1> QED BY <1>6, <1>8, <1>9, <1>10, <1>11, <1>12 DEF SessionInv

-----------------------------------------------------------------------------
(* Starting with a request *)

\* A block is taken for a UE.
LEMMA NewUeStep ==
  ASSUME SessionInv, TypeOK', NEW w \in Workers, NewUe(w)
  PROVE  SessionInv'
<1> USE SessionAssumption
<1>1. /\ pc[w] = "new" /\ Goto(w, "fsm")
      /\ UNCHANGED <<uePgwSessionRbt, pFreePool, tunnelMap, req, cause, peerSessions,
                     endIp, orderly>>
  BY DEF NewUe, At, world
<1>2. PICK b \in Blocks :
        /\ IF memPool # <<>>
           THEN b = Head(memPool) /\ memPool' = Tail(memPool)
           ELSE mem[b] = "fresh" /\ UNCHANGED memPool
        /\ mem' = [mem EXCEPT ![b] = "allocated"]
        /\ ue' = [ue EXCEPT ![b] = BlankUe]
        /\ pUe' = [pUe EXCEPT ![w] = b]
  BY DEF NewUe
<1>3. /\ b # None /\ pUe[w] = None /\ req[w] \in Request /\ req[w].teid = None
      /\ cause[w] = None /\ WorkerOK(w) /\ OrderlyOK(w) /\ BlockOK(b) /\ KnownOK(b)
  BY <1>1 DEF SessionInv, WorkerOK
<1>4. mem[b] # "allocated" /\ MemOK'
  <2>1. memPool \in Seq(Blocks) /\ IsInjective(memPool)
    BY DEF SessionInv, TypeOK, MemOK
  <2>2. CASE memPool # <<>>
    <3>1. /\ \E i \in DOMAIN memPool : memPool[i] = b
          /\ IsInjective(Tail(memPool))
          /\ \A x : (\E i \in DOMAIN Tail(memPool) : Tail(memPool)[i] = x)
                      <=> (\E i \in DOMAIN memPool : memPool[i] = x) /\ x # b
      BY <1>2, <2>1, <2>2, PopList
    <3>2. mem[b] = "free"
      BY <3>1 DEF SessionInv, MemOK
    <3>3. ASSUME NEW i \in DOMAIN memPool' PROVE mem'[memPool'[i]] = "free"
      <4>1. (\E j \in DOMAIN memPool : memPool[j] = memPool'[i]) /\ memPool'[i] # b
        BY <1>2, <2>2, <3>1
      <4>2. PICK j \in DOMAIN memPool : memPool[j] = memPool'[i]
        BY <4>1
      <4>3. mem[memPool[j]] = "free" /\ memPool[j] \in Blocks
        BY <2>1 DEF SessionInv, MemOK
      <4> QED BY <1>2, <4>1, <4>2, <4>3 DEF SessionInv, TypeOK
    <3> QED BY <1>2, <2>2, <3>1, <3>2, <3>3 DEF MemOK
  <2>3. CASE memPool = <<>>
    <3>1. mem[b] = "fresh" /\ memPool' = memPool
      BY <1>2, <2>3
    <3>2. DOMAIN memPool = {}
      BY <2>3
    <3> QED BY <3>1, <3>2 DEF MemOK, IsInjective
  <2> QED BY <2>2, <2>3
<1>5. /\ \A v \in Workers : pUe[v] # b
      /\ b \notin uePgwSessionRbt
      /\ \A p \in Peers : <<b, p>> \notin tunnelMap
      /\ ~ (orderly /\ b \in peerSessions)
      /\ ue[b] = BlankUe
  <2>1. \A v \in Workers : WorkerOK(v)
    BY DEF SessionInv
  <2>2. \A v \in Workers : pUe[v] # b
    BY <1>3, <1>4, <2>1 DEF WorkerOK
  <2> QED BY <1>3, <1>4, <2>2 DEF BlockOK, KnownOK, Live, BlankUe
<1>6. /\ SameOthers(w) /\ pc'[w] = "fsm" /\ pUe'[w] = b
      /\ SameBlocks(b) /\ ue'[b] = BlankUe /\ mem'[b] = "allocated"
  BY <1>1, <1>2 DEF Goto, SameOthers, SameBlocks, SessionInv, TypeOK
<1>7. /\ \A v \in Workers \ {w} : WorkerOK(v)' /\ OrderlyOK(v)'
      /\ \A c \in Blocks \ {b} : BlockOK(c)' /\ KnownOK(c)'
      /\ Exclusive'
  BY <1>3, <1>5, <1>6, OthersOK
<1>8. WorkerOK(w)'
  BY <1>1, <1>3, <1>6 DEF WorkerOK, Fresh, BlankUe
<1>9. OrderlyOK(w)'
  BY <1>1, <1>3, <1>6 DEF OrderlyOK
<1>10. BlockOK(b)' /\ KnownOK(b)'
  BY <1>1, <1>5, <1>6 DEF BlockOK, KnownOK, Live, AtRest, BlankUe
<1>11. AddrOK'
  <2>1. \A c \in Blocks \ {b} : /\ Holder(c)' <=> Holder(c)
                                /\ ue'[c].addr = ue[c].addr
    BY <1>3, <1>6, OtherHolders
  <2>2. ~ Holder(b)' /\ ~ Holder(b)
    BY <1>5, <1>6 DEF Holder, BlankUe
  <2> QED BY <1>1, <2>1, <2>2, SameAddresses DEF SessionInv
<1> QED BY <1>4, <1>7, <1>8, <1>9, <1>10, <1>11 DEF SessionInv

\* A request is taken for a session that no worker is at work on.
LEMMA ReceivedAtRest ==
  ASSUME SessionInv, NEW w \in Workers, NEW r \in Request, Receive(w, r),
         r.teid # None
  PROVE  /\ r.teid \in Blocks /\ Live(r.teid) /\ AtRest(r.teid)
<1> USE SessionAssumption
<1>0. PICK b : b = r.teid
  OBVIOUS
<1>1. b \in Blocks /\ b # None /\ r.peer \in Peers /\ r.peer # None
  BY <1>0, RequestFields
<1>2. <<b, r.peer>> \in tunnelMap /\ BlockOK(b) /\ KnownOK(b)
  BY <1>0, <1>1 DEF Receive, SessionInv
<1>3. /\ ue[b].tunnel = r.peer
      /\ \A v \in Workers : pUe[v] = b => pc[v] # "free"
  BY <1>1, <1>2 DEF BlockOK
<1>4. Live(b)
  BY <1>1, <1>2, <1>3 DEF BlockOK, BlankUe
<1>5. ASSUME NEW v \in Workers, pUe[v] = b PROVE FALSE
  <2>1. pc[v] \notin {"idle", "new"} /\ WorkerOK(v) /\ OrderlyOK(v)
    BY <1>1, <1>5 DEF SessionInv, WorkerOK
  <2>2. orderly /\ SentByOrderlyPeer(r)
    BY <2>1 DEF Receive
  <2>3. b \in peerSessions /\ ~ Waiting(v)
    BY <1>0, <1>1, <1>5, <2>2 DEF SentByOrderlyPeer
  <2>4. pc[v] = "tunnel"
    BY <1>2, <1>5, <2>1, <2>2, <2>3 DEF KnownOK, Waiting, WorkerOK
  <2>5. ue[b].tunnel = None
    BY <1>5, <2>1, <2>4 DEF WorkerOK, Opens
  <2> QED BY <1>1, <1>3, <2>5
<1> QED BY <1>0, <1>1, <1>4, <1>5 DEF AtRest

\* A request arrives.
LEMMA ReceiveStep ==
  ASSUME SessionInv, TypeOK', NEW w \in Workers, NEW r \in Request, Receive(w, r)
  PROVE  SessionInv'
<1> USE SessionAssumption
<1>1. /\ pc[w] = "idle" /\ pUe[w] = None
      /\ UNCHANGED <<mem, memPool, uePgwSessionRbt, pFreePool, tunnelMap, ue,
                     peerSessions, endIp, orderly>>
      /\ orderly => SentByOrderlyPeer(r)
  BY DEF Receive, At, stores, world, SessionInv, WorkerOK
<1>2. /\ SameOthers(w) /\ req'[w] = r /\ pUe'[w] = r.teid /\ cause'[w] = None
      /\ pc'[w] = IF r.teid = None THEN "new" ELSE "fsm"
  BY DEF Receive, Goto, SameOthers, SessionInv, TypeOK
<1>0. orderly => /\ r.kind \in {"create", "create_malformed", "delete"}
                 /\ r.kind = "delete" <=> r.teid # None
                 /\ r.ebi # None => r.ebi <= 5
  <2> SUFFICES ASSUME orderly
               PROVE  /\ r.kind \in {"create", "create_malformed", "delete"}
                      /\ r.kind = "delete" <=> r.teid # None
                      /\ r.ebi # None => r.ebi <= 5
    OBVIOUS
  <2>1. SentByOrderlyPeer(r)
    BY <1>1
  <2>2. r.ebi # None => r.ebi <= 5
    BY <2>1 DEF SentByOrderlyPeer, ExpectedBearer
  <2>3. /\ r.kind \in {"create", "create_malformed", "delete"}
        /\ r.teid # None => r.kind \notin Creates
        /\ r.teid = None => r.kind \in Creates
    BY <2>1 DEF SentByOrderlyPeer
  <2>4. r.kind \in Inputs
    BY RequestFields
  <2>5. r.kind \in Creates <=> r.kind # "delete"
    BY <2>3, <2>4 DEF Creates
  <2> QED BY <2>2, <2>3, <2>5
<1>3. OrderlyOK(w)'
  BY <1>0, <1>1, <1>2 DEF OrderlyOK
<1>4. MemOK'
  BY <1>1 DEF SessionInv, MemOK
<1>5. CASE r.teid # None
  <2>0. PICK b : b = r.teid
    OBVIOUS
  <2>1. b \in Blocks /\ b # None /\ Live(b) /\ AtRest(b) /\ BlockOK(b) /\ KnownOK(b)
    BY <1>5, <2>0, ReceivedAtRest DEF SessionInv
  <2>2. SameBlocks(b) /\ \A v \in Workers \ {w} : pUe[v] # b
    BY <1>1, <2>1 DEF SameBlocks, AtRest
  <2>3. /\ \A v \in Workers \ {w} : WorkerOK(v)' /\ OrderlyOK(v)'
        /\ \A c \in Blocks \ {b} : BlockOK(c)' /\ KnownOK(c)'
        /\ Exclusive'
    BY <1>1, <1>2, <2>0, <2>1, <2>2, OthersOK
  <2>4. ue[b].state = "CREATED" /\ Complete(b)
    BY <2>1 DEF BlockOK
  <2>5. WorkerOK(w)'
    BY <1>1, <1>2, <1>5, <2>0, <2>1, <2>4 DEF WorkerOK, Complete, Live
  <2>6. \A v \in Workers : pUe'[v] = b <=> v = w
    BY <1>2, <2>0, <2>2 DEF SameOthers
  <2>7. BlockOK(b)'
    BY <1>1, <1>2, <1>5, <2>1, <2>6 DEF BlockOK, Live, AtRest
  <2>8. KnownOK(b)'
    <3>1. orderly => r.kind = "delete"
      BY <1>0, <1>5
    <3> QED BY <1>1, <1>2, <1>5, <2>1, <2>6, <3>1 DEF KnownOK, Live
  <2>9. AddrOK'
    <3>1. \A c \in Blocks \ {b} : Holder(c)' <=> Holder(c)
      BY <1>1, <1>2, <2>0, <2>1, <2>2, OtherHolders
    <3>2. Holder(b)' /\ Holder(b)
      BY <1>1, <2>4 DEF Holder, Complete
    <3> QED BY <1>1, <3>1, <3>2, SameAddresses DEF SessionInv
  <2> QED BY <1>3, <1>4, <2>3, <2>5, <2>7, <2>8, <2>9 DEF SessionInv
<1>6. CASE r.teid = None
  <2>1. pUe'[w] = None /\ pc'[w] = "new"
    BY <1>2, <1>6
  <2>2. ASSUME NEW v \in Workers \ {w} PROVE WorkerOK(v)' /\ OrderlyOK(v)'
    <3>1. /\ pc'[v] = pc[v] /\ pUe'[v] = pUe[v] /\ req'[v] = req[v]
          /\ cause'[v] = cause[v]
      BY <1>2 DEF SameOthers
    <3>2. WorkerOK(v) /\ OrderlyOK(v)
      BY DEF SessionInv
    <3> QED BY <1>1, <3>1, <3>2 DEF WorkerOK, OrderlyOK, Opens, Fresh, Complete
  <2>3. WorkerOK(w)'
    BY <1>2, <1>6, <2>1 DEF WorkerOK
  <2>4. \A c \in Blocks, v \in Workers :
          /\ pUe'[v] = c <=> pUe[v] = c
          /\ pUe[v] = c => pc'[v] = pc[v] /\ req'[v] = req[v]
    BY <1>1, <1>2, <2>1 DEF SameOthers
  <2>5. ASSUME NEW c \in Blocks PROVE BlockOK(c)' /\ KnownOK(c)'
    <3>1. BlockOK(c) /\ KnownOK(c)
      BY DEF SessionInv
    <3>2. BlockOK(c)'
      BY <1>1, <2>4, <3>1 DEF BlockOK, Live, AtRest, Complete
    <3> QED BY <1>1, <2>4, <3>1, <3>2 DEF KnownOK, Live
  <2>6. Exclusive'
    BY <1>2, <2>1 DEF SessionInv, Exclusive, SameOthers
  <2>7. AddrOK'
    <3>1. \A c \in Blocks : Holder(c)' <=> Holder(c)
      BY <1>1, <2>4 DEF Holder
    <3> QED BY <1>1, <3>1, SameAddresses DEF SessionInv
  <2> QED BY <1>3, <1>4, <2>2, <2>3, <2>5, <2>6, <2>7 DEF SessionInv
<1> QED BY <1>5, <1>6

-----------------------------------------------------------------------------
(* Types, and all steps together *)

\* The updates of a UE that the steps make keep its type.
LEMMA UeFields ==
  ASSUME NEW u \in UeRecord
  PROVE  /\ \A s \in {"INIT", "CREATED", "END"} : [u EXCEPT !.state = s] \in UeRecord
         /\ \A i \in Imsis \cup {None} : [u EXCEPT !.imsi = i] \in UeRecord
         /\ \A i \in Imsis \cup {None} :
              [u EXCEPT !.imsi = i, !.state = "END"] \in UeRecord
         /\ \A g \in BOOLEAN : [u EXCEPT !.pgw = g] \in UeRecord
         /\ \A a \in Addrs \cup {None} :
              [u EXCEPT !.addr = a, !.state = "END"] \in UeRecord
         /\ \A a \in Addrs \cup {None}, e \in Ebis \cup {None} :
              [u EXCEPT !.addr = a, !.ebi = e] \in UeRecord
         /\ [u EXCEPT !.uplink = TRUE] \in UeRecord
         /\ \A d \in BOOLEAN :
              [u EXCEPT !.downlink = d, !.state = "CREATED"] \in UeRecord
         /\ \A p \in Peers \cup {None} : [u EXCEPT !.tunnel = p] \in UeRecord
BY DEF UeRecord

\* A zeroed block is a UE.
LEMMA BlankType == BlankUe \in UeRecord
BY DEF BlankUe, UeRecord

\* A failed assertion keeps the types.
LEMMA AbortType == ASSUME TypeOK, Abort PROVE TypeOK'
BY DEF TypeOK, Abort, stores

\* The types, step by step.
LEMMA StepType ==
  ASSUME SessionInv, NEW w \in Workers, Step(w)
  PROVE  TypeOK'
<1> USE SessionAssumption
<1>0. TypeOK
  BY DEF SessionInv
<1>a. \A l \in PC : Goto(w, l) => pc' \in [Workers -> PC]
  BY <1>0 DEF TypeOK, Goto
<1>b. PICK b : b = pUe[w]
  OBVIOUS
<1>c. ASSUME pc[w] \notin {"idle", "new"}
      PROVE  /\ b \in Blocks /\ ue[b] \in UeRecord /\ req[w] \in Request
             /\ req[w].imsi \in Imsis \cup {None} /\ req[w].ebi \in Ebis \cup {None}
             /\ req[w].peer \in Peers
             /\ ue[b].imsi \in Imsis \cup {None} /\ WorkerOK(w)
  BY <1>b, <1>c, AtWork, RequestFields DEF UeRecord
<1>d. Done(w) => /\ pc' \in [Workers -> PC] /\ pUe' \in [Workers -> Blocks \cup {None}]
                 /\ req' \in [Workers -> Request \cup {None}]
                 /\ cause' \in [Workers -> {None, "accepted", "rejected", "error"}]
  BY <1>0 DEF Done, Goto, PC, TypeOK
<1>e. \A c \in {"accepted", "rejected", "error"} :
        Decide(w, c) => cause' \in [Workers -> {None, "accepted", "rejected", "error"}]
  BY <1>0 DEF Decide, TypeOK
<1>f. \A u \in UeRecord : [ue EXCEPT ![b] = u] \in [Blocks -> UeRecord]
  BY <1>0 DEF TypeOK
<1>1. CASE NewUe(w)
  <2>1. PICK c \in Blocks :
          /\ IF memPool # <<>>
             THEN c = Head(memPool) /\ memPool' = Tail(memPool)
             ELSE mem[c] = "fresh" /\ UNCHANGED memPool
          /\ mem' = [mem EXCEPT ![c] = "allocated"]
          /\ ue' = [ue EXCEPT ![c] = BlankUe]
          /\ pUe' = [pUe EXCEPT ![w] = c]
    BY <1>1 DEF NewUe
  <2>2. memPool' \in Seq(Blocks)
    <3>1. memPool \in Seq(Blocks) /\ IsInjective(memPool)
      BY <1>0 DEF SessionInv, MemOK, TypeOK
    <3>2. CASE memPool # <<>>
      <4>1. Tail(memPool) \in Seq(Blocks)
        BY <3>1, <3>2, PopList
      <4> QED BY <2>1, <3>2, <4>1
    <3>3. CASE memPool = <<>>
      BY <2>1, <3>1, <3>3
    <3> QED BY <3>2, <3>3
  <2>3. /\ mem' \in [Blocks -> {"fresh", "allocated", "free"}]
        /\ ue' \in [Blocks -> UeRecord]
        /\ pUe' \in [Workers -> Blocks \cup {None}]
    BY <1>0, <2>1, BlankType DEF TypeOK
  <2>4. pc' \in [Workers -> PC]
    BY <1>a, <1>1 DEF NewUe, PC
  <2> QED BY <1>0, <1>1, <2>2, <2>3, <2>4 DEF NewUe, TypeOK, world
<1>2. CASE Unexpected(w)
  <2>1. pc' \in [Workers -> PC] /\ ue' = [ue EXCEPT ![b] = [ue[b] EXCEPT !.state = "END"]]
    BY <1>a, <1>b, <1>2 DEF Unexpected, PC
  <2>2. ue' \in [Blocks -> UeRecord]
    <3>1. pc[w] = "fsm"
      BY <1>2 DEF Unexpected, At
    <3>2. ue[b] \in UeRecord
      BY <1>c, <3>1
    <3>3. [ue[b] EXCEPT !.state = "END"] \in UeRecord
      BY <3>2, UeFields
    <3> QED BY <1>f, <2>1, <3>3
  <2> QED BY <1>0, <1>2, <2>1, <2>2 DEF Unexpected, TypeOK, stores, world
<1>3. CASE HandleCreate(w)
  <2>0. pc[w] = "fsm"
    BY <1>3 DEF HandleCreate, At
  <2>1. Handler(w) \in {"create", "create_unparsable", "create_malformed"}
    BY <1>3 DEF HandleCreate, Creates
  <2>2. /\ ue' \in [Blocks -> UeRecord]
        /\ pc' \in [Workers -> PC]
        /\ cause' \in [Workers -> {None, "accepted", "rejected", "error"}]
    <3>1. CASE Handler(w) = "create"
      <4>1. /\ ue' = [ue EXCEPT ![b] = [ue[b] EXCEPT !.imsi = req[w].imsi]]
            /\ Goto(w, "register") /\ cause' = cause
        BY <1>b, <1>3, <3>1 DEF HandleCreate
      <4>2. ue' \in [Blocks -> UeRecord]
        BY <1>c, <1>f, <2>0, <4>1, UeFields
      <4> QED BY <1>0, <1>a, <4>1, <4>2 DEF PC, TypeOK
    <3>2. CASE Handler(w) = "create_unparsable"
      <4>1. /\ \E i \in {req[w].imsi, None} :
                 ue' = [ue EXCEPT ![b] = [ue[b] EXCEPT !.imsi = i, !.state = "END"]]
            /\ Goto(w, "respond") /\ Decide(w, "accepted")
        BY <1>b, <1>3, <3>2 DEF HandleCreate, UnparsableCause
      <4>2. PICK i \in Imsis \cup {None} :
              ue' = [ue EXCEPT ![b] = [ue[b] EXCEPT !.imsi = i, !.state = "END"]]
        BY <1>c, <2>0, <4>1
      <4>3. [ue[b] EXCEPT !.imsi = i, !.state = "END"] \in UeRecord
        BY <1>c, <2>0, UeFields
      <4>4. ue' \in [Blocks -> UeRecord]
        BY <1>f, <4>2, <4>3
      <4> QED BY <1>a, <1>e, <4>1, <4>4 DEF PC
    <3>3. CASE Handler(w) = "create_malformed"
      <4>1. /\ ue' = [ue EXCEPT ![b] = [ue[b] EXCEPT !.state = "END"]]
            /\ Goto(w, "respond") /\ Decide(w, "error")
        BY <1>b, <1>3, <3>3 DEF HandleCreate
      <4>2. ue' \in [Blocks -> UeRecord]
        BY <1>c, <1>f, <2>0, <4>1, UeFields
      <4> QED BY <1>a, <1>e, <4>1, <4>2 DEF PC
    <3> QED BY <2>1, <3>1, <3>2, <3>3
  <2> QED BY <1>0, <1>3, <2>2 DEF HandleCreate, TypeOK, stores, world
<1>4. CASE HandleDelete(w)
  <2>0. pc[w] = "fsm"
    BY <1>4 DEF HandleDelete, At
  <2>1. /\ ue' \in [Blocks -> UeRecord]
        /\ pc' \in [Workers -> PC]
        /\ cause' \in [Workers -> {None, "accepted", "rejected", "error"}]
    <3>1. CASE Handler(w) = "delete"
      BY <1>0, <1>a, <1>4, <3>1 DEF HandleDelete, PC, TypeOK
    <3>2. CASE Handler(w) # "delete"
      <4>0. PICK i : i = IF req[w].imsi = None THEN ue[b].imsi ELSE req[w].imsi
        OBVIOUS
      <4>1. /\ ue' = [ue EXCEPT ![b] = [ue[b] EXCEPT !.imsi = i]]
            /\ Goto(w, "respond") /\ Decide(w, "error")
        BY <1>b, <1>4, <3>2, <4>0 DEF HandleDelete
      <4>3. i \in Imsis \cup {None}
        BY <1>c, <2>0, <4>0
      <4>2. ue' \in [Blocks -> UeRecord]
        BY <1>c, <1>f, <2>0, <4>1, <4>3, UeFields
      <4> QED BY <1>a, <1>e, <4>1, <4>2 DEF PC
    <3> QED BY <3>1, <3>2
  <2> QED BY <1>0, <1>4, <2>1 DEF HandleDelete, TypeOK, stores, world
<1>5. CASE Register(w)
  <2>0. pc[w] = "register" /\ b \in Blocks /\ ue[b] \in UeRecord
    BY <1>c, <1>5 DEF Register, At
  <2>1. /\ ue' \in [Blocks -> UeRecord] /\ uePgwSessionRbt' \subseteq Blocks
        /\ pc' \in [Workers -> PC]
        /\ cause' \in [Workers -> {None, "accepted", "rejected", "error"}]
    <3>1. CASE Collides(b)
      <4>1. /\ ue' = [ue EXCEPT ![b] = [ue[b] EXCEPT !.state = "END"]]
            /\ Goto(w, "respond") /\ Decide(w, "rejected")
            /\ uePgwSessionRbt' = uePgwSessionRbt
        BY <1>b, <1>5, <3>1 DEF Register, Reject
      <4> QED BY <1>0, <1>a, <1>e, <1>f, <2>0, <4>1, UeFields DEF PC, TypeOK
    <3>2. CASE ~ Collides(b)
      <4>1. /\ ue' = [ue EXCEPT ![b] = [ue[b] EXCEPT !.pgw = TRUE]]
            /\ Goto(w, "alloc") /\ cause' = cause
            /\ uePgwSessionRbt' = uePgwSessionRbt \cup {b}
        BY <1>b, <1>5, <3>2 DEF Register
      <4> QED BY <1>0, <1>a, <1>f, <2>0, <4>1, UeFields DEF PC, TypeOK
    <3> QED BY <3>1, <3>2
  <2> QED BY <1>0, <1>5, <2>1 DEF Register, TypeOK, world
<1>6. CASE LookAtPool(w)
  <2>0. pc[w] = "alloc" /\ b \in Blocks /\ ue[b] \in UeRecord
    BY <1>c, <1>6 DEF LookAtPool, At
  <2>1. /\ ue' \in [Blocks -> UeRecord]
        /\ pc' \in [Workers -> PC]
        /\ cause' \in [Workers -> {None, "accepted", "rejected", "error"}]
    <3>1. CASE pFreePool = <<>>
      <4>1. /\ ue' = [ue EXCEPT ![b] = [ue[b] EXCEPT !.addr = None, !.state = "END"]]
            /\ Goto(w, "respond") /\ Decide(w, "rejected")
        BY <1>b, <1>6, <3>1 DEF LookAtPool, Reject
      <4> QED BY <1>a, <1>e, <1>f, <2>0, <4>1, UeFields DEF PC
    <3>2. CASE pFreePool # <<>>
      BY <1>0, <1>a, <1>6, <3>2 DEF LookAtPool, PC, TypeOK
    <3> QED BY <3>1, <3>2
  <2> QED BY <1>0, <1>6, <2>1 DEF LookAtPool, TypeOK, stores, world
<1>7. CASE PopAddress(w)
  <2>0. pc[w] = "pop" /\ b \in Blocks /\ ue[b] \in UeRecord
        /\ req[w].ebi \in Ebis \cup {None}
    BY <1>c, <1>7 DEF PopAddress, At
  <2>1. CASE pFreePool = <<>>
    BY <1>0, <1>7, <2>1, AbortType DEF PopAddress
  <2>2. CASE pFreePool # <<>>
    <3>0. PICK a : a = Head(pFreePool)
      OBVIOUS
    <3>1. pFreePool' = Tail(pFreePool)
          /\ UNCHANGED <<mem, memPool, uePgwSessionRbt, tunnelMap, teidMap,
                         ipv4AddrMap, pUe, req, world>>
      BY <1>7, <2>2 DEF PopAddress, RestOfPool
    <3>2. a \in Addrs /\ pFreePool' \in Seq(Addrs)
      BY <1>0, <2>2, <3>0, <3>1, PopList DEF SessionInv, AddrOK, TypeOK
    <3>3. /\ ue' \in [Blocks -> UeRecord]
          /\ pc' \in [Workers -> PC]
          /\ cause' \in [Workers -> {None, "accepted", "rejected", "error"}]
      <4>1. CASE a \in Skipped
        BY <1>0, <1>a, <1>7, <2>2, <3>0, <4>1 DEF PopAddress, PC, TypeOK
      <4>2. CASE a \notin Skipped /\ GoodEbi(b, req[w].ebi)
        <5>1. /\ ue' = [ue EXCEPT ![b] = [ue[b] EXCEPT !.addr = a, !.ebi = req[w].ebi]]
              /\ Goto(w, "uplink") /\ cause' = cause
          BY <1>b, <1>7, <2>2, <3>0, <4>2 DEF PopAddress
        <5>2. [ue[b] EXCEPT !.addr = a, !.ebi = req[w].ebi] \in UeRecord
          BY <2>0, <3>2, UeFields
        <5> QED BY <1>0, <1>a, <1>f, <5>1, <5>2 DEF PC, TypeOK
      <4>3. CASE a \notin Skipped /\ ~ GoodEbi(b, req[w].ebi)
        <5>1. /\ ue' = [ue EXCEPT ![b] = [ue[b] EXCEPT !.addr = a, !.state = "END"]]
              /\ Goto(w, "respond") /\ Decide(w, "rejected")
          BY <1>b, <1>7, <2>2, <3>0, <4>3 DEF PopAddress, Reject
        <5>2. [ue[b] EXCEPT !.addr = a, !.state = "END"] \in UeRecord
          BY <2>0, <3>2, UeFields
        <5> QED BY <1>a, <1>e, <1>f, <5>1, <5>2 DEF PC
      <4> QED BY <4>1, <4>2, <4>3
    <3> QED BY <1>0, <3>1, <3>2, <3>3 DEF TypeOK, world
  <2> QED BY <2>1, <2>2
<1>8. CASE InstallUplink(w)
  <2>0. /\ pc[w] = "uplink" /\ b \in Blocks /\ ue[b] \in UeRecord
        /\ ue[b].ebi \in Ebis
    BY <1>b, <1>c, <1>8, RequestFields DEF InstallUplink, At, WorkerOK, Creates
  <2>1. CASE Abort
    BY <1>0, <2>1, AbortType
  <2>2. CASE ~ Abort
    <3>1. /\ teidMap' = teidMap \cup {<<b, ue[b].ebi>>}
          /\ ue' = [ue EXCEPT ![b] = [ue[b] EXCEPT !.uplink = TRUE]]
          /\ Goto(w, "downlink")
      BY <1>b, <1>8, <2>2 DEF InstallUplink
    <3>2. /\ ue' \in [Blocks -> UeRecord] /\ pc' \in [Workers -> PC]
          /\ teidMap' \subseteq Blocks \X Ebis
      <4>1. <<b, ue[b].ebi>> \in Blocks \X Ebis
        BY <2>0
      <4>2. teidMap' \subseteq Blocks \X Ebis
        BY <1>0, <3>1, <4>1 DEF TypeOK
      <4>3. ue' \in [Blocks -> UeRecord]
        BY <1>f, <2>0, <3>1, UeFields
      <4>4. pc' \in [Workers -> PC]
        BY <1>a, <3>1 DEF PC
      <4> QED BY <4>2, <4>3, <4>4
    <3> QED BY <1>0, <1>8, <2>2, <3>2 DEF InstallUplink, TypeOK, world
  <2> QED BY <2>1, <2>2
<1>9. CASE InstallDownlink(w)
  <2>0. /\ pc[w] = "downlink" /\ b \in Blocks /\ ue[b] \in UeRecord
        /\ ue[b].addr \in Addrs
    BY <1>b, <1>c, <1>9 DEF InstallDownlink, At, WorkerOK, UeRecord
  <2>1. /\ ipv4AddrMap' = ipv4AddrMap \cup {ue[b].addr}
        /\ ue' = [ue EXCEPT ![b] =
                    [ue[b] EXCEPT !.downlink = (ue[b].addr \notin ipv4AddrMap),
                                  !.state = "CREATED"]]
        /\ Decide(w, "accepted") /\ Goto(w, "respond")
    BY <1>b, <1>9 DEF InstallDownlink
  <2>2. /\ ue' \in [Blocks -> UeRecord] /\ ipv4AddrMap' \subseteq Addrs
    BY <1>0, <1>f, <2>0, <2>1, UeFields DEF TypeOK
  <2>3. /\ pc' \in [Workers -> PC]
        /\ cause' \in [Workers -> {None, "accepted", "rejected", "error"}]
    BY <1>a, <1>e, <2>1 DEF PC
  <2> QED BY <1>0, <1>9, <2>2, <2>3 DEF InstallDownlink, TypeOK, world
<1>10. CASE RemoveDownlink(w)
  <2>1. CASE Abort
    BY <1>0, <2>1, AbortType
  <2>2. CASE ~ Abort
    <3>1. pc' \in [Workers -> PC] /\ ipv4AddrMap' \subseteq Addrs
      BY <1>0, <1>a, <1>10, <2>2 DEF RemoveDownlink, PC, TypeOK, stores
    <3> QED BY <1>0, <1>10, <2>2, <3>1 DEF RemoveDownlink, TypeOK, stores, world
  <2> QED BY <2>1, <2>2
<1>11. CASE RemoveUplink(w)
  <2>1. CASE Abort
    BY <1>0, <2>1, AbortType
  <2>2. CASE ~ Abort
    <3>1. pc' \in [Workers -> PC] /\ teidMap' \subseteq Blocks \X Ebis
      BY <1>0, <1>a, <1>11, <2>2 DEF RemoveUplink, PC, TypeOK, stores
    <3> QED BY <1>0, <1>11, <2>2, <3>1 DEF RemoveUplink, TypeOK, stores, world
  <2> QED BY <2>1, <2>2
<1>12. CASE Deregister(w)
  <2>0. b \in Blocks /\ ue[b] \in UeRecord
    BY <1>c, <1>12 DEF Deregister, At
  <2>1. CASE Abort
    BY <1>0, <2>1, AbortType
  <2>2. CASE ~ Abort
    <3>1. /\ uePgwSessionRbt' = uePgwSessionRbt \ {b}
          /\ ue' = [ue EXCEPT ![b] = [ue[b] EXCEPT !.pgw = FALSE]]
          /\ Goto(w, IF pc[w] = "dereg" THEN "freeaddr" ELSE "destroy_freeaddr")
      BY <1>b, <1>12, <2>2 DEF Deregister, PgwAfterDeregister
    <3>2. /\ ue' \in [Blocks -> UeRecord] /\ uePgwSessionRbt' \subseteq Blocks
      BY <1>0, <1>f, <2>0, <3>1, UeFields DEF TypeOK
    <3>3. pc' \in [Workers -> PC]
      BY <1>a, <3>1 DEF PC
    <3> QED BY <1>0, <1>12, <2>2, <3>2, <3>3 DEF Deregister, TypeOK, world
  <2> QED BY <2>1, <2>2
<1>13. CASE FreeAddress(w)
  <2>0. b \in Blocks /\ ue[b] \in UeRecord
    BY <1>c, <1>13 DEF FreeAddress, At
  <2>1. Freed(ue[b].addr) \in Seq(Addrs)
    BY <2>0 DEF Freed, UeRecord
  <2>2. pFreePool' \in Seq(Addrs)
    BY <1>0, <1>b, <1>13, <2>1 DEF FreeAddress, TypeOK
  <2>3. /\ pc' \in [Workers -> PC]
        /\ cause' \in [Workers -> {None, "accepted", "rejected", "error"}]
    BY <1>0, <1>a, <1>e, <1>13 DEF FreeAddress, PC, TypeOK
  <2> QED BY <1>0, <1>13, <2>2, <2>3 DEF FreeAddress, TypeOK, world
<1>14. CASE Respond(w)
  <2>0. b \in Blocks /\ ue[b] \in UeRecord
    BY <1>c, <1>14 DEF Respond, At
  <2>1. ue' \in [Blocks -> UeRecord]
    <3>1. ue' = ue \/ ue' = [ue EXCEPT ![b] = [ue[b] EXCEPT !.state = "END"]]
      BY <1>b, <1>14 DEF Respond
    <3>2. [ue EXCEPT ![b] = [ue[b] EXCEPT !.state = "END"]] \in [Blocks -> UeRecord]
      BY <1>f, <2>0, UeFields
    <3> QED BY <1>0, <3>1, <3>2 DEF TypeOK
  <2>2. pc' \in [Workers -> PC] /\ peerSessions' \subseteq Blocks
    BY <1>0, <1>a, <1>b, <1>14, <2>0 DEF Respond, PC, TypeOK
  <2> QED BY <1>0, <1>14, <2>1, <2>2 DEF Respond, TypeOK, stores
<1>15. CASE CreateTunnel(w)
  <2>0. b \in Blocks /\ ue[b] \in UeRecord /\ req[w].peer \in Peers
    BY <1>c, <1>15 DEF CreateTunnel, At
  <2>1. CASE Abort
    BY <1>0, <2>1, AbortType
  <2>2. CASE ~ Abort
    <3>1. /\ tunnelMap' = tunnelMap \cup {<<b, req[w].peer>>}
          /\ ue' = [ue EXCEPT ![b] = [ue[b] EXCEPT !.tunnel = req[w].peer]]
      BY <1>b, <1>15, <2>2 DEF CreateTunnel
    <3>2. ue' \in [Blocks -> UeRecord] /\ tunnelMap' \subseteq Blocks \X Peers
      <4>1. <<b, req[w].peer>> \in Blocks \X Peers
        BY <2>0
      <4>2. tunnelMap' \subseteq Blocks \X Peers
        BY <1>0, <3>1, <4>1 DEF TypeOK
      <4>3. ue' \in [Blocks -> UeRecord]
        BY <1>f, <2>0, <3>1, UeFields
      <4> QED BY <4>2, <4>3
    <3>3. /\ pc' \in [Workers -> PC] /\ pUe' \in [Workers -> Blocks \cup {None}]
          /\ req' \in [Workers -> Request \cup {None}]
          /\ cause' \in [Workers -> {None, "accepted", "rejected", "error"}]
      BY <1>0, <1>a, <1>d, <1>15, <2>2 DEF CreateTunnel, PC, TypeOK
    <3> QED BY <1>0, <1>15, <2>2, <3>2, <3>3 DEF CreateTunnel, TypeOK, world
  <2> QED BY <2>1, <2>2
<1>16. CASE Destroy(w)
  <2>1. pc' \in [Workers -> PC]
    BY <1>a, <1>16 DEF Destroy, PC
  <2> QED BY <1>0, <1>16, <2>1 DEF Destroy, TypeOK, stores, world
<1>17. CASE DeleteTunnel(w)
  <2>1. CASE Abort
    BY <1>0, <2>1, AbortType
  <2>2. CASE ~ Abort
    <3>1. pc' \in [Workers -> PC] /\ tunnelMap' \subseteq Blocks \X Peers
      BY <1>0, <1>a, <1>17, <2>2 DEF DeleteTunnel, PC, TypeOK
    <3> QED BY <1>0, <1>17, <2>2, <3>1 DEF DeleteTunnel, TypeOK, world
  <2> QED BY <2>1, <2>2
<1>18. CASE FreeUe(w)
  <2>0. b \in Blocks /\ ue[b] \in UeRecord
    BY <1>c, <1>18 DEF FreeUe, At
  <2>1. CASE Abort
    BY <1>0, <2>1, AbortType
  <2>2. CASE ~ Abort
    <3>1. /\ mem' = [mem EXCEPT ![b] = "free"] /\ memPool' = <<b>> \o memPool
          /\ ue' = ContentAfterFree(w) /\ Done(w)
      BY <1>b, <1>18, <2>2 DEF FreeUe
    <3>0. ue' = ue \/ ue' = [ue EXCEPT ![b] = BlankUe]
      BY <1>b, <3>1 DEF ContentAfterFree
    <3>2. /\ mem' \in [Blocks -> {"fresh", "allocated", "free"}]
          /\ ue' \in [Blocks -> UeRecord]
      BY <1>0, <1>f, <2>0, <3>0, <3>1, BlankType DEF TypeOK
    <3>3. memPool' \in Seq(Blocks)
      BY <1>0, <2>0, <3>1 DEF TypeOK
    <3> QED BY <1>0, <1>d, <1>18, <2>2, <3>1, <3>2, <3>3 DEF FreeUe, TypeOK, world
  <2> QED BY <2>1, <2>2
<1> QED
  BY <1>1, <1>2, <1>3, <1>4, <1>5, <1>6, <1>7, <1>8, <1>9, <1>10, <1>11, <1>12, <1>13,
     <1>14, <1>15, <1>16, <1>17, <1>18 DEF Step

\* All steps together.
LEMMA StepSessionInv == SessionInv /\ [Next]_vars => SessionInv'
<1> SUFFICES ASSUME SessionInv, [Next]_vars PROVE SessionInv'
  OBVIOUS
<1>1. CASE UNCHANGED vars
  BY <1>1 DEF vars, stores, world, SessionInv, TypeOK, WorkerOK, OrderlyOK, BlockOK,
              KnownOK, Exclusive, MemOK, AddrOK, Holder, InFreePool, Live, AtRest,
              Complete, Fresh, Opens
<1>2. ASSUME NEW w \in Workers, Step(w) PROVE SessionInv'
  <2>1. TypeOK'
    BY <1>2, StepType
  <2> QED
    BY <1>2, <2>1, UnexpectedStep, HandleCreateStep, HandleDeleteStep, RegisterStep,
       LookAtPoolStep, PopAddressStep, InstallUplinkStep, InstallDownlinkStep,
       RemoveDownlinkStep, RemoveUplinkStep, DestroyStep, DeregisterStep,
       FreeAddressStep, RespondStep, CreateTunnelStep, DeleteTunnelStep, FreeUeStep,
       NewUeStep DEF Step
<1>3. ASSUME NEW w \in Workers, NEW r \in Request, Receive(w, r) PROVE SessionInv'
  <2>1. TypeOK'
    <3>1. pc' \in [Workers -> PC]
      BY <1>3 DEF Receive, Goto, PC, SessionInv, TypeOK
    <3>2. pUe' \in [Workers -> Blocks \cup {None}]
      BY <1>3, RequestFields DEF Receive, SessionInv, TypeOK
    <3> QED BY <1>3, <3>1, <3>2 DEF Receive, SessionInv, TypeOK, stores, world
  <2> QED BY <1>3, <2>1, ReceiveStep
<1> QED BY <1>1, <1>2, <1>3 DEF Next

\* The free list of a new pool has every address once.
LEMMA PoolListHas ==
  ASSUME NEW last \in 0 .. EndIp
  PROVE  /\ PoolList(last) \in Seq(Addrs)
         /\ IsInjective(PoolList(last))
         /\ \A a : (\E i \in DOMAIN PoolList(last) : PoolList(last)[i] = a)
                     <=> a \in StartIp .. last
<1> USE SessionAssumption
<1>1. PICK n : n = last + 1 - StartIp
  OBVIOUS
<1>2. n \in Int /\ PoolList(last) = [i \in 1 .. n |-> last + 1 - i]
  BY <1>1 DEF PoolList
<1>3. IsInjective(PoolList(last))
  BY <1>2 DEF IsInjective
<1>4. ASSUME NEW a
      PROVE  (\E i \in DOMAIN PoolList(last) : PoolList(last)[i] = a)
               <=> a \in StartIp .. last
  <2>1. ASSUME NEW i \in DOMAIN PoolList(last), PoolList(last)[i] = a
        PROVE  a \in StartIp .. last
    BY <1>1, <1>2, <2>1
  <2>2. ASSUME a \in StartIp .. last
        PROVE  \E i \in DOMAIN PoolList(last) : PoolList(last)[i] = a
    <3>1. last + 1 - a \in 1 .. n /\ last + 1 - (last + 1 - a) = a
      BY <1>1, <2>2
    <3> QED BY <1>2, <3>1
  <2> QED BY <2>1, <2>2
<1>5. \A i \in 1 .. n : last + 1 - i \in Addrs
  BY <1>1 DEF Addrs
<1>6. PoolList(last) \in Seq(Addrs)
  <2>1. CASE n \in Nat
    BY <1>2, <1>5, <2>1
  <2>2. CASE n \notin Nat
    <3>1. 1 .. n = 1 .. 0
      BY <1>2, <2>2
    <3>2. PoolList(last) \in [1 .. 0 -> Addrs]
      BY <1>2, <1>5, <3>1
    <3> QED BY <3>2
  <2> QED BY <2>1, <2>2
<1> QED BY <1>3, <1>4, <1>6

\* The first state.
LEMMA InitSessionInv == Init => SessionInv
<1> SUFFICES ASSUME Init PROVE SessionInv
  OBVIOUS
<1> USE SessionAssumption
<1>1. endIp \in 0 .. EndIp
  BY DEF Init
<1>2. /\ pFreePool \in Seq(Addrs) /\ IsInjective(pFreePool)
      /\ \A a : InFreePool(a) <=> a \in StartIp .. endIp
  BY <1>1, PoolListHas DEF Init, InFreePool
<1>3. TypeOK
  <2>1. memPool \in Seq(Blocks)
    BY DEF Init
  <2> QED BY <1>1, <1>2, <2>1, BlankType DEF Init, TypeOK, PC
<1>4. ASSUME NEW b \in Blocks PROVE ~ Holder(b) /\ BlockOK(b) /\ KnownOK(b)
  BY DEF Init, Holder, BlockOK, KnownOK, BlankUe, Live, AtRest, Complete
<1>5. ASSUME NEW w \in Workers PROVE WorkerOK(w) /\ OrderlyOK(w)
  BY DEF Init, WorkerOK, OrderlyOK
<1>6. Exclusive /\ MemOK
  BY DEF Init, Exclusive, MemOK, IsInjective
<1>7. AddrOK
  BY <1>2, <1>4 DEF AddrOK
<1> QED BY <1>3, <1>4, <1>5, <1>6, <1>7 DEF SessionInv

\* What the stores, the UE blocks and the workers are like in every state: the
\* invariant that the theorems below rest on.
THEOREM InvariantOfSessions == Spec => []SessionInv
BY InitSessionInv, StepSessionInv, PTL DEF Spec

-----------------------------------------------------------------------------
(* What the invariant gives *)

\* Two worker threads never have the same UE in their hands: nothing but the
\* order in which peers send requests keeps them apart, there is no lock on a UE
\* (NwSaeGwUlp.c:1263-1310).
THEOREM NoSharedUe == Spec => []Exclusive
<1>1. SessionInv => Exclusive
  BY DEF SessionInv
<1> QED BY <1>1, InvariantOfSessions, PTL

\* A UE block that no worker works on is a complete session or has left no trace
\* in the stores, whatever the peers send and however the workers interleave
\* (NwSaeGwUlp.c:1312-1367).
THEOREM SessionsAreComplete == Spec => []SessionsComplete
<1>1. SessionInv => SessionsComplete
  <2> SUFFICES ASSUME SessionInv, NEW b \in Blocks, AtRest(b)
               PROVE  IF Live(b)
                      THEN /\ ue[b].state = "CREATED" /\ ue[b].pgw
                           /\ b \in uePgwSessionRbt /\ ue[b].addr # None
                           /\ <<b, ue[b].tunnel>> \in tunnelMap
                      ELSE b \notin uePgwSessionRbt
                           /\ \A p \in Peers : <<b, p>> \notin tunnelMap
    BY DEF SessionsComplete
  <2>1. BlockOK(b) /\ ue[b] \in UeRecord
    BY DEF SessionInv, TypeOK
  <2>2. CASE Live(b)
    <3>1. /\ ue[b].state = "CREATED" /\ ue[b].pgw /\ ue[b].addr # None
          /\ ue[b].tunnel \in Peers
      BY <2>1, <2>2 DEF BlockOK, Complete, UeRecord
    <3>2. b \in uePgwSessionRbt /\ <<b, ue[b].tunnel>> \in tunnelMap
      BY <2>1, <2>2, <3>1 DEF BlockOK, AtRest
    <3> QED BY <2>2, <3>1, <3>2
  <2>3. CASE ~ Live(b)
    BY <2>1, <2>3, SessionAssumption DEF BlockOK, BlankUe
  <2> QED BY <2>2, <2>3
<1> QED BY <1>1, InvariantOfSessions, PTL

\* What an orderly peer believes of the sessions it has opened is true
\* (NwSaeGwUeStateInit.c:964-1002, NwGtpv2c.c:1033-1083).
THEOREM PeersAreRight == Spec => []PeersViewIsTrue
<1>1. SessionInv => PeersViewIsTrue
  <2> SUFFICES ASSUME SessionInv, orderly, NEW b \in peerSessions, AtRest(b)
               PROVE  Live(b) /\ b \in uePgwSessionRbt
    BY DEF PeersViewIsTrue
  <2>1. b \in Blocks /\ BlockOK(b) /\ KnownOK(b)
    BY DEF SessionInv, TypeOK
  <2> QED BY <2>1 DEF BlockOK, KnownOK, Complete
<1> QED BY <1>1, InvariantOfSessions, PTL

\* A usable address of the pool is free once or belongs to one UE, and never
\* both: none is lost and none is given twice (NwIpv4PoolMgr.c:92-126).
THEOREM AddressesAreConserved == Spec => []AddressesConserved
<1>1. SessionInv => AddressesConserved
  <2> SUFFICES ASSUME SessionInv, NEW a \in StartIp .. endIp
               PROVE  LET free == Cardinality({i \in DOMAIN pFreePool : pFreePool[i] = a})
                          held == Cardinality(Holders(a))
                      IN  IF a \in Skipped THEN free <= 1 /\ held = 0
                          ELSE free + held = 1
    BY DEF AddressesConserved
  <2> DEFINE F == {i \in DOMAIN pFreePool : pFreePool[i] = a}
  <2>1. AddrOK /\ a \in Addrs /\ a # None
    BY SessionAssumption DEF SessionInv, TypeOK, Addrs
  <2>2. \A b \in Blocks : b \in Holders(a) <=> Holder(b) /\ ue[b].addr = a
    BY <2>1 DEF Holders, Holder
  <2>3. Cardinality(F) = IF InFreePool(a) THEN 1 ELSE 0
    <3>1. CASE InFreePool(a)
      <4>1. PICK i \in DOMAIN pFreePool : pFreePool[i] = a
        BY <3>1 DEF InFreePool
      <4>2. F = {i}
        BY <2>1, <4>1 DEF AddrOK, IsInjective
      <4> QED BY <3>1, <4>2, FS_Singleton
    <3>2. CASE ~ InFreePool(a)
      <4>1. F = {}
        BY <3>2 DEF InFreePool
      <4> QED BY <3>2, <4>1, FS_EmptySet
    <3> QED BY <3>1, <3>2
  <2>4. CASE \E b \in Blocks : Holder(b) /\ ue[b].addr = a
    <3>1. PICK b \in Blocks : Holder(b) /\ ue[b].addr = a
      BY <2>4
    <3>2. a \notin Skipped /\ ~ InFreePool(a)
      BY <2>1, <3>1 DEF AddrOK
    <3>3. Holders(a) = {b}
      <4>1. \A c \in Holders(a) : c \in Blocks
        BY DEF Holders
      <4> QED BY <2>1, <2>2, <3>1, <4>1 DEF AddrOK
    <3>4. Cardinality(Holders(a)) = 1
      BY <3>3, FS_Singleton
    <3> QED BY <2>3, <3>2, <3>4
  <2>5. CASE ~ \E b \in Blocks : Holder(b) /\ ue[b].addr = a
    <3>1. Holders(a) = {}
      <4>1. \A c \in Holders(a) : c \in Blocks
        BY DEF Holders
      <4> QED BY <2>2, <2>5, <4>1
    <3>2. Cardinality(Holders(a)) = 0
      BY <3>1, FS_EmptySet
    <3>3. a \notin Skipped => InFreePool(a)
      BY <2>1, <2>5 DEF AddrOK
    <3> QED BY <2>3, <3>2, <3>3
  <2> QED BY <2>4, <2>5
<1> QED BY <1>1, InvariantOfSessions, PTL

\* A Create Session Request is turned down for one of three reasons and no other
\* (NwSaeGwUeStateInit.c:964-1002).
THEOREM RejectionsHaveReasons == Spec => RejectedForAReason
<1> DEFINE Reason(w) == \/ \E b \in uePgwSessionRbt \ {pUe[w]} : ue[b].imsi = req[w].imsi
                        \/ req[w].ebi <= 4
                        \/ pFreePool = <<>>
<1> USE SessionAssumption
<1>1. ASSUME SessionInv, NEW w \in Workers, NEW v \in Workers, Step(v),
             cause[w] = None, cause'[w] = "rejected"
      PROVE  Reason(w)
  <2>0. cause \in [Workers -> {None, "accepted", "rejected", "error"}]
    BY <1>1 DEF SessionInv, TypeOK
  <2>1. /\ \A c : Decide(v, c) => cause'[w] = cause[w] \/ (v = w /\ cause'[w] = c)
        /\ cause' # cause
        /\ ~ Done(v)
    BY <1>1, <2>0 DEF Decide, Done
  <2>2. CASE Register(v)
    <3>1. /\ pc[v] = "register" /\ Collides(pUe[v]) /\ v = w
      BY <1>1, <2>1, <2>2 DEF Register, At, Reject
    <3>2. /\ ue[pUe[w]].imsi = req[w].imsi /\ pUe[w] \notin uePgwSessionRbt
      BY <1>1, <3>1, AtWork DEF WorkerOK
    <3> QED BY <3>1, <3>2 DEF Collides
  <2>3. CASE LookAtPool(v)
    BY <2>1, <2>3 DEF LookAtPool
  <2>4. CASE PopAddress(v)
    <3>1. /\ pc[v] = "pop" /\ v = w /\ ~ GoodEbi(pUe[v], req[v].ebi)
      BY <1>1, <2>1, <2>4 DEF PopAddress, At, Reject, Abort
    <3>2. /\ ue[pUe[w]].ebi = None /\ req[w] \in Request
          /\ req[w].kind = "create" /\ req[w].teid = None
      BY <1>1, <3>1, AtWork DEF WorkerOK
    <3>3. req[w].ebi \in Ebis
      BY <3>2, RequestFields DEF Creates
    <3>4. ~ (req[w].ebi > 4)
      <4>1. req[w].ebi # None
        BY <3>3
      <4> QED BY <3>1, <3>2, <4>1 DEF GoodEbi
    <3>5. req[w].ebi \in 0 .. 15
      BY <3>3
    <3>6. req[w].ebi <= 4
      BY ONLY <3>4, <3>5
    <3> QED BY <3>6
  <2>5. ~ InstallDownlink(v)
    BY <1>1, <2>1 DEF InstallDownlink
  <2>6. ~ HandleCreate(v)
    <3>1. HandleCreate(v) => \/ cause' = cause
                             \/ \E c \in {"accepted", "error"} : Decide(v, c)
      BY DEF HandleCreate, UnparsableCause, Creates
    <3> QED BY <1>1, <2>1, <3>1
  <2>7. ~ HandleDelete(v) /\ ~ FreeAddress(v)
    <3>1. HandleDelete(v) => cause' = cause \/ Decide(v, "error")
      BY DEF HandleDelete
    <3>2. FreeAddress(v) => cause' = cause \/ Decide(v, "accepted")
      BY DEF FreeAddress
    <3> QED BY <1>1, <2>1, <3>1, <3>2
  <2>8. ~ NewUe(v) /\ ~ Unexpected(v) /\ ~ Respond(v) /\ ~ Destroy(v)
    BY <2>1 DEF NewUe, Unexpected, Respond, Destroy
  <2>9. ~ InstallUplink(v) /\ ~ RemoveDownlink(v) /\ ~ RemoveUplink(v) /\ ~ Deregister(v)
    BY <2>1 DEF InstallUplink, RemoveDownlink, RemoveUplink, Deregister, Abort
  <2>10. ~ CreateTunnel(v) /\ ~ DeleteTunnel(v) /\ ~ FreeUe(v)
    BY <2>1 DEF CreateTunnel, DeleteTunnel, FreeUe, Abort
  <2> QED
    BY <1>1, <2>2, <2>3, <2>4, <2>5, <2>6, <2>7, <2>8, <2>9, <2>10 DEF Step
<1>2. ASSUME SessionInv, NEW w \in Workers, NEW v \in Workers, NEW r \in Request,
             Receive(v, r), cause[w] = None
      PROVE  cause'[w] # "rejected"
  BY <1>2 DEF Receive, SessionInv, TypeOK
<1>3. SessionInv /\ [Next]_vars =>
        [\A w \in Workers : cause[w] = None /\ cause'[w] = "rejected" => Reason(w)]_vars
  BY <1>1, <1>2 DEF Next
<1> QED BY <1>3, InvariantOfSessions, PTL DEF Spec, RejectedForAReason

-----------------------------------------------------------------------------
(* The flows of the data plane, with orderly peers *)

\* A worker has removed the flows of the UE.
NoUplink(b) == \E w \in Workers :
  pUe[w] = b /\ req[w].kind = "delete" /\ pc[w] \notin {"fsm", "rmdown", "rmup"}

NoDownlink(b) == \E w \in Workers :
  pUe[w] = b /\ req[w].kind = "delete" /\ pc[w] \notin {"fsm", "rmdown"}

HasUplink(b) == Live(b) /\ ue[b].uplink /\ ~ NoUplink(b)

HasDownlink(b) == Live(b) /\ ue[b].downlink /\ ~ NoDownlink(b)

Flowing(b) ==
  ue[b].ebi = 5 /\ ue[b].ebi \in Ebis /\ ue[b].uplink /\ ue[b].downlink

FlowsOfWorker(w) ==
  LET b == pUe[w] IN
  /\ req[w].kind = "delete" /\ pc[w] \in {"fsm", "rmdown", "rmup"} => Flowing(b)
  /\ req[w].kind \in Creates /\ pc[w] \in {"respond", "tunnel"} /\ Opens(w) =>
       Flowing(b)
  /\ req[w].kind \in Creates
     /\ \/ pc[w] = "respond" /\ ~ Opens(w)
        \/ pc[w] \in {"destroy", "destroy_dereg", "destroy_freeaddr", "deltunnel", "free"}
     => ~ ue[b].uplink /\ ~ ue[b].downlink

FlowInv == orderly =>
  /\ \A w \in Workers : pUe[w] # None => FlowsOfWorker(w)
  /\ \A b \in Blocks : Live(b) /\ AtRest(b) => Flowing(b)
  /\ \A b \in Blocks, e \in Ebis :
       <<b, e>> \in teidMap <=> HasUplink(b) /\ ue[b].ebi = e
  /\ \A a \in Addrs :
       a \in ipv4AddrMap <=> \E b \in Blocks : HasDownlink(b) /\ ue[b].addr = a

\* What is known of the flows of a worker's UE.
LEMMA OwnFlows ==
  ASSUME SessionInv, NEW w \in Workers, NEW b \in Blocks, pUe[w] = b
  PROVE  /\ Live(b)
         /\ NoUplink(b) <=>
              req[w].kind = "delete" /\ pc[w] \notin {"fsm", "rmdown", "rmup"}
         /\ NoDownlink(b) <=>
              req[w].kind = "delete" /\ pc[w] \notin {"fsm", "rmdown"}
<1> USE SessionAssumption
<1>1. b # None /\ \A v \in Workers : pUe[v] = b => v = w
  BY DEF SessionInv, Exclusive
<1>2. Live(b)
  BY <1>1 DEF SessionInv, WorkerOK, Live
<1> QED BY <1>1, <1>2 DEF NoUplink, NoDownlink

\* A step of worker w that changes only block b, which no other works on.
LEMMA FlowStep ==
  ASSUME SessionInv, FlowInv, orderly, NEW w \in Workers, NEW b \in Blocks,
         SameOthers(w), SameBlocks(b),
         pUe[w] \in {b, None}, pUe'[w] \in {b, None},
         \A v \in Workers \ {w} : pUe[v] # b,
         pUe'[w] = b => FlowsOfWorker(w)',
         mem'[b] = "allocated" /\ pUe'[w] = None => Flowing(b)',
         \A e \in Ebis : <<b, e>> \in teidMap' <=> HasUplink(b)' /\ ue'[b].ebi = e,
         \A c \in Blocks \ {b}, e \in Ebis : <<c, e>> \in teidMap' <=> <<c, e>> \in teidMap,
         \A a \in Addrs : a \in ipv4AddrMap' <=>
           \/ \E c \in Blocks \ {b} : HasDownlink(c) /\ ue[c].addr = a
           \/ HasDownlink(b)' /\ ue'[b].addr = a
  PROVE  FlowInv'
<1> USE SessionAssumption
<1>0. orderly' = orderly /\ b # None
  BY DEF SameBlocks
<1>1. \A c \in Blocks \ {b}, v \in Workers :
        /\ pUe'[v] = c <=> pUe[v] = c
        /\ pUe[v] = c => pc'[v] = pc[v] /\ req'[v] = req[v]
  BY DEF SameOthers
<1>2. ASSUME NEW c \in Blocks \ {b}
      PROVE  /\ Live(c)' <=> Live(c)
             /\ AtRest(c)' <=> AtRest(c)
             /\ Flowing(c)' <=> Flowing(c)
             /\ HasUplink(c)' <=> HasUplink(c)
             /\ HasDownlink(c)' <=> HasDownlink(c)
             /\ ue'[c].ebi = ue[c].ebi /\ ue'[c].addr = ue[c].addr
  <2>1. ue'[c] = ue[c] /\ mem'[c] = mem[c]
    BY DEF SameBlocks
  <2>2. AtRest(c)' <=> AtRest(c)
    BY <1>1 DEF AtRest
  <2>3. NoUplink(c)' <=> NoUplink(c)
    BY <1>1 DEF NoUplink
  <2>4. NoDownlink(c)' <=> NoDownlink(c)
    BY <1>1 DEF NoDownlink
  <2> QED
    BY <2>1, <2>2, <2>3, <2>4 DEF Live, Flowing, HasUplink, HasDownlink
<1>3. ASSUME NEW v \in Workers, pUe'[v] # None PROVE FlowsOfWorker(v)'
  <2>1. CASE v = w
    BY <1>3, <2>1
  <2>2. CASE v # w
    <3>1. /\ pc'[v] = pc[v] /\ pUe'[v] = pUe[v] /\ req'[v] = req[v]
          /\ cause'[v] = cause[v]
      BY <2>2 DEF SameOthers
    <3>2. pUe[v] \in Blocks \ {b} /\ pUe[v] # None
      BY <1>3, <2>2, <3>1 DEF SessionInv, TypeOK
    <3>3. ue'[pUe'[v]] = ue[pUe[v]]
      BY <3>1, <3>2 DEF SameBlocks
    <3>4. FlowsOfWorker(v)
      BY <3>2 DEF FlowInv
    <3> QED BY <3>1, <3>3, <3>4 DEF FlowsOfWorker, Flowing, Opens
  <2> QED BY <2>1, <2>2
<1>4. ASSUME NEW c \in Blocks, Live(c)', AtRest(c)' PROVE Flowing(c)'
  <2>1. CASE c = b
    <3>1. pUe'[w] = None /\ mem'[b] = "allocated"
      BY <1>4, <2>1 DEF AtRest, Live
    <3> QED BY <2>1, <3>1
  <2>2. CASE c # b
    BY <1>2, <1>4, <2>2 DEF FlowInv
  <2> QED BY <2>1, <2>2
<1>5. ASSUME NEW c \in Blocks, NEW e \in Ebis
      PROVE  <<c, e>> \in teidMap' <=> HasUplink(c)' /\ ue'[c].ebi = e
  <2>1. CASE c = b
    BY <2>1
  <2>2. CASE c # b
    <3>1. <<c, e>> \in teidMap <=> HasUplink(c) /\ ue[c].ebi = e
      BY DEF FlowInv
    <3> QED BY <1>2, <2>2, <3>1
  <2> QED BY <2>1, <2>2
<1>6. ASSUME NEW a \in Addrs
      PROVE  a \in ipv4AddrMap' <=>
               \E c \in Blocks : HasDownlink(c)' /\ ue'[c].addr = a
  <2>1. (\E c \in Blocks \ {b} : HasDownlink(c) /\ ue[c].addr = a) <=>
        (\E c \in Blocks \ {b} : HasDownlink(c)' /\ ue'[c].addr = a)
    BY <1>2
  <2> QED BY <2>1
<1> QED BY <1>0, <1>3, <1>4, <1>5, <1>6 DEF FlowInv

\* A step of worker w on its UE that leaves the flows alone.
LEMMA QuietStep ==
  ASSUME SessionInv, SessionInv', FlowInv, orderly, NEW w \in Workers, NEW b \in Blocks,
         pUe[w] = b, SameOthers(w), SameBlocks(b),
         UNCHANGED <<pUe, req, teidMap, ipv4AddrMap>>,
         ue'[b].uplink <=> ue[b].uplink, ue'[b].downlink <=> ue[b].downlink,
         ue[b].uplink => ue'[b].ebi = ue[b].ebi,
         ue[b].downlink => ue'[b].addr = ue[b].addr,
         req[w].kind = "delete" =>
           \/ pc[w] = "fsm" /\ pc'[w] = "rmdown"
           \/ {pc[w], pc'[w]} \cap {"fsm", "rmdown", "rmup"} = {},
         FlowsOfWorker(w)'
  PROVE  FlowInv'
<1> USE SessionAssumption
<1>1. b # None /\ \A v \in Workers \ {w} : pUe[v] # b
  BY DEF SessionInv, Exclusive
<1>2. /\ Live(b)
      /\ NoUplink(b) <=>
           req[w].kind = "delete" /\ pc[w] \notin {"fsm", "rmdown", "rmup"}
      /\ NoDownlink(b) <=>
           req[w].kind = "delete" /\ pc[w] \notin {"fsm", "rmdown"}
  BY OwnFlows
<1>3. /\ Live(b)'
      /\ NoUplink(b)' <=>
           req'[w].kind = "delete" /\ pc'[w] \notin {"fsm", "rmdown", "rmup"}
      /\ NoDownlink(b)' <=>
           req'[w].kind = "delete" /\ pc'[w] \notin {"fsm", "rmdown"}
  <2>1. \A v \in Workers : pUe'[v] = b <=> v = w
    BY <1>1
  <2>2. Live(b)'
    BY <1>1 DEF SessionInv, WorkerOK, Live
  <2> QED BY <2>1, <2>2 DEF NoUplink, NoDownlink
<1>4. (HasUplink(b)' <=> HasUplink(b)) /\ (HasDownlink(b)' <=> HasDownlink(b))
  BY <1>2, <1>3 DEF HasUplink, HasDownlink
<1>5. ASSUME NEW e \in Ebis
      PROVE  <<b, e>> \in teidMap' <=> HasUplink(b)' /\ ue'[b].ebi = e
  <2>1. <<b, e>> \in teidMap <=> HasUplink(b) /\ ue[b].ebi = e
    BY DEF FlowInv
  <2> QED BY <1>4, <2>1 DEF HasUplink
<1>6. ASSUME NEW a \in Addrs
      PROVE  a \in ipv4AddrMap' <=>
               \/ \E c \in Blocks \ {b} : HasDownlink(c) /\ ue[c].addr = a
               \/ HasDownlink(b)' /\ ue'[b].addr = a
  <2>1. a \in ipv4AddrMap <=> \E c \in Blocks : HasDownlink(c) /\ ue[c].addr = a
    BY DEF FlowInv
  <2>2. HasDownlink(b) /\ ue[b].addr = a <=> HasDownlink(b)' /\ ue'[b].addr = a
    BY <1>4 DEF HasDownlink
  <2> QED BY <2>1, <2>2
<1> QED BY <1>1, <1>5, <1>6, FlowStep

\* A UE with a downlink flow has an address of the pool.
LEMMA DownlinkHolder ==
  ASSUME SessionInv, FlowInv, orderly, NEW b \in Blocks, HasDownlink(b)
  PROVE  Holder(b)
<1> USE SessionAssumption
<1>1. CASE AtRest(b)
  BY <1>1 DEF SessionInv, BlockOK, Complete, Holder, HasDownlink
<1>2. CASE ~ AtRest(b)
  <2>1. PICK w \in Workers : pUe[w] = b
    BY <1>2 DEF AtRest
  <2>2. /\ pc[w] \notin {"idle", "new"} /\ b # None /\ req[w] \in Request
        /\ WorkerOK(w) /\ OrderlyOK(w)
    BY <2>1 DEF SessionInv, WorkerOK
  <2>3. FlowsOfWorker(w)
    BY <2>1, <2>2 DEF FlowInv
  <2>4. ue[b].downlink /\ (req[w].kind = "delete" => pc[w] \in {"fsm", "rmdown"})
    BY <2>1, OwnFlows DEF HasDownlink
  <2>5. CASE req[w].kind = "delete"
    <3>1. req[w].teid # None
      BY <2>2, <2>5 DEF OrderlyOK
    <3>2. Complete(b)
      BY <2>1, <2>2, <2>4, <2>5, <3>1 DEF WorkerOK
    <3> QED BY <3>2 DEF Complete, Holder
  <2>6. CASE req[w].kind # "delete"
    <3>0. req[w].kind \in Creates /\ req[w].teid = None
      BY <2>2, <2>6, RequestFields DEF OrderlyOK, Creates
    <3>1. pc[w] \notin {"fsm", "register", "alloc", "pop", "uplink", "downlink"}
      BY <2>1, <2>2, <2>4, <3>0 DEF WorkerOK, Fresh
    <3>2. pc[w] \notin {"rmdown", "rmup", "dereg", "freeaddr"}
      BY <2>2, <2>6 DEF WorkerOK
    <3>3. pc[w] \in {"respond", "tunnel"} /\ Opens(w)
      <4>1. pc[w] \in PC
        BY DEF SessionInv, TypeOK
      <4>2. pc[w] = "tunnel" => Opens(w)
        BY <2>2 DEF WorkerOK
      <4> QED BY <2>1, <2>2, <2>3, <2>4, <3>0, <3>1, <3>2, <4>1, <4>2
              DEF FlowsOfWorker, PC
    <3>4. ue[b].state = "CREATED"
      BY <2>1, <2>2, <3>3 DEF OrderlyOK
    <3>5. ue[b].pgw /\ ue[b].addr # None
      BY <2>1, <2>2, <3>3, <3>4 DEF WorkerOK
    <3> QED BY <3>5 DEF Holder
  <2> QED BY <2>5, <2>6
<1> QED BY <1>1, <1>2

\* What an orderly peer may ask for.
LEMMA OrderlyRequest ==
  ASSUME SessionInv, orderly, NEW w \in Workers, pc[w] \notin {"idle", "new"}
  PROVE  /\ req[w].kind \in {"create", "create_malformed", "delete"}
         /\ req[w].kind \in Creates <=> req[w].kind # "delete"
         /\ req[w].kind = "delete" <=> req[w].teid # None
         /\ req[w].ebi # None => req[w].ebi <= 5
<1>1. OrderlyOK(w) /\ req[w].kind \in Inputs
  BY AtWork, RequestFields
<1> QED BY <1>1 DEF OrderlyOK, Creates

\* What a worker knows of the flows of its UE before it works on them.
LEMMA EarlyFlows ==
  ASSUME SessionInv, FlowInv, orderly, NEW w \in Workers, NEW b \in Blocks, b = pUe[w]
  PROVE  /\ FlowsOfWorker(w)
         /\ pc[w] \in {"register", "alloc", "pop", "uplink"} =>
              ~ ue[b].uplink /\ ~ ue[b].downlink
         /\ pc[w] = "fsm" /\ req[w].kind # "delete" =>
              ~ ue[b].uplink /\ ~ ue[b].downlink
<1> USE SessionAssumption
<1>1. b # None /\ WorkerOK(w) /\ FlowsOfWorker(w)
  BY DEF SessionInv, FlowInv
<1>2. pc[w] = "fsm" => req[w].teid = None <=> req[w].kind # "delete"
  BY OrderlyRequest
<1> QED BY <1>1, <1>2 DEF WorkerOK, Fresh

\* The flows when a Create Session Request is looked at ...
LEMMA FlowHandleCreate ==
  ASSUME SessionInv, SessionInv', FlowInv, orderly, NEW w \in Workers, HandleCreate(w)
  PROVE  FlowInv'
<1>0. PICK b : b = pUe[w]
  OBVIOUS
<1>1. /\ pc[w] = "fsm" /\ Handler(w) \in Creates
      /\ UNCHANGED <<mem, uePgwSessionRbt, tunnelMap, teidMap, ipv4AddrMap, pUe, req,
                     peerSessions, orderly>>
  BY DEF HandleCreate, At, stores, world
<1>2. /\ b \in Blocks /\ ue[b] \in UeRecord /\ ue \in [Blocks -> UeRecord]
      /\ req[w].kind \in {"create", "create_malformed"} /\ req[w].kind \in Creates
      /\ Handler(w) = req[w].kind
  <2>1. Handler(w) = req[w].kind
    BY <1>1 DEF Handler, Creates
  <2> QED BY <1>0, <1>1, <2>1, AtWork, OrderlyRequest DEF Creates, SessionInv, TypeOK
<1>3. ~ ue[b].uplink /\ ~ ue[b].downlink
  BY <1>0, <1>1, <1>2, EarlyFlows
<1>4. /\ SameOthers(w)
      /\ \A c \in Blocks \ {b} : ue'[c] = ue[c]
      /\ ue'[b].uplink <=> ue[b].uplink
      /\ ue'[b].downlink <=> ue[b].downlink
      /\ \/ pc'[w] = "register"
         \/ pc'[w] = "respond" /\ cause'[w] = "error"
  <2>1. CASE req[w].kind = "create"
    <3>1. /\ ue' = [ue EXCEPT ![b].imsi = req[w].imsi]
          /\ Goto(w, "register") /\ cause' = cause
      BY <1>0, <1>2, <2>1 DEF HandleCreate
    <3> QED
      BY <1>1, <1>2, <3>1 DEF Goto, SameOthers, UeRecord, SessionInv, TypeOK
  <2>2. CASE req[w].kind = "create_malformed"
    <3>1. /\ ue' = [ue EXCEPT ![b].state = "END"]
          /\ Goto(w, "respond") /\ Decide(w, "error")
      BY <1>0, <1>2, <2>2 DEF HandleCreate
    <3> QED
      BY <1>1, <1>2, <3>1 DEF Goto, Decide, SameOthers, UeRecord, SessionInv, TypeOK
  <2> QED BY <1>2, <2>1, <2>2
<1>5. SameBlocks(b)
  BY <1>1, <1>4 DEF SameBlocks
<1>6. FlowsOfWorker(w)'
  BY <1>0, <1>1, <1>2, <1>3, <1>4 DEF FlowsOfWorker, Opens
<1> QED BY <1>0, <1>1, <1>2, <1>3, <1>4, <1>5, <1>6, QuietStep

\* ... a Delete Session Request is looked at ...
LEMMA FlowHandleDelete ==
  ASSUME SessionInv, SessionInv', FlowInv, orderly, NEW w \in Workers, HandleDelete(w)
  PROVE  FlowInv'
<1>0. PICK b : b = pUe[w]
  OBVIOUS
<1>1. pc[w] = "fsm" /\ Handler(w) \in {"delete", "delete_malformed"}
  BY DEF HandleDelete, At
<1>2. Handler(w) = req[w].kind
  BY <1>1 DEF Handler, Creates
<1>3. b \in Blocks /\ req[w].kind = "delete" /\ req[w].kind \notin Creates
  BY <1>0, <1>1, <1>2, AtWork, OrderlyRequest
<1>4. /\ Goto(w, "rmdown")
      /\ UNCHANGED <<mem, uePgwSessionRbt, tunnelMap, teidMap, ipv4AddrMap, pUe, req, ue,
                     cause, peerSessions, orderly>>
  BY <1>2, <1>3 DEF HandleDelete, stores, world
<1>5. SameOthers(w) /\ SameBlocks(b) /\ pc'[w] = "rmdown"
  BY <1>4 DEF Goto, SameOthers, SameBlocks, SessionInv, TypeOK
<1>6. FlowsOfWorker(w)
  BY <1>0, <1>3, EarlyFlows
<1>7. FlowsOfWorker(w)'
  BY <1>1, <1>3, <1>4, <1>5, <1>6 DEF FlowsOfWorker, Flowing
<1> QED BY <1>0, <1>1, <1>3, <1>4, <1>5, <1>7, QuietStep

\* ... the IMSI is registered ...
LEMMA FlowRegister ==
  ASSUME SessionInv, SessionInv', FlowInv, orderly, NEW w \in Workers, Register(w)
  PROVE  FlowInv'
<1>0. PICK b : b = pUe[w]
  OBVIOUS
<1>1. /\ pc[w] = "register"
      /\ UNCHANGED <<mem, tunnelMap, teidMap, ipv4AddrMap, pUe, req, peerSessions, orderly>>
  BY DEF Register, At, world
<1>2. /\ b \in Blocks /\ ue[b] \in UeRecord /\ ue \in [Blocks -> UeRecord]
      /\ req[w].kind = "create" /\ req[w].kind \in Creates
  BY <1>0, <1>1, AtWork, OrderlyRequest DEF WorkerOK, SessionInv, TypeOK
<1>3. ~ ue[b].uplink /\ ~ ue[b].downlink
  BY <1>0, <1>1, <1>2, EarlyFlows
<1>4. /\ SameOthers(w)
      /\ \A c \in Blocks \ {b} : /\ ue'[c] = ue[c]
                                 /\ c \in uePgwSessionRbt' <=> c \in uePgwSessionRbt
      /\ ue'[b].uplink <=> ue[b].uplink
      /\ ue'[b].downlink <=> ue[b].downlink
      /\ pc'[w] = "alloc" \/ (pc'[w] = "respond" /\ cause'[w] = "rejected")
  <2>1. CASE Collides(b)
    <3>1. /\ ue' = [ue EXCEPT ![b].state = "END"]
          /\ Goto(w, "respond") /\ Decide(w, "rejected")
          /\ uePgwSessionRbt' = uePgwSessionRbt
      BY <1>0, <2>1 DEF Register, Reject
    <3> QED
      BY <1>1, <1>2, <3>1 DEF Goto, Decide, SameOthers, UeRecord, SessionInv, TypeOK
  <2>2. CASE ~ Collides(b)
    <3>1. /\ ue' = [ue EXCEPT ![b].pgw = TRUE]
          /\ Goto(w, "alloc") /\ cause' = cause
          /\ uePgwSessionRbt' = uePgwSessionRbt \cup {b}
      BY <1>0, <2>2 DEF Register
    <3> QED
      BY <1>1, <1>2, <3>1 DEF Goto, SameOthers, UeRecord, SessionInv, TypeOK
  <2> QED BY <2>1, <2>2
<1>5. SameBlocks(b)
  BY <1>1, <1>4 DEF SameBlocks
<1>6. FlowsOfWorker(w)'
  BY <1>0, <1>1, <1>2, <1>3, <1>4 DEF FlowsOfWorker, Opens
<1> QED BY <1>0, <1>1, <1>2, <1>3, <1>4, <1>5, <1>6, QuietStep

\* ... the pool is looked at ...
LEMMA FlowLookAtPool ==
  ASSUME SessionInv, SessionInv', FlowInv, orderly, NEW w \in Workers, LookAtPool(w)
  PROVE  FlowInv'
<1>0. PICK b : b = pUe[w]
  OBVIOUS
<1>1. /\ pc[w] = "alloc"
      /\ UNCHANGED <<mem, uePgwSessionRbt, tunnelMap, teidMap, ipv4AddrMap, pUe, req,
                     peerSessions, orderly>>
  BY DEF LookAtPool, At, stores, world
<1>2. /\ b \in Blocks /\ ue[b] \in UeRecord /\ ue \in [Blocks -> UeRecord]
      /\ req[w].kind = "create" /\ req[w].kind \in Creates
  BY <1>0, <1>1, AtWork, OrderlyRequest DEF WorkerOK, SessionInv, TypeOK
<1>3. ~ ue[b].uplink /\ ~ ue[b].downlink
  BY <1>0, <1>1, <1>2, EarlyFlows
<1>4. /\ SameOthers(w)
      /\ \A c \in Blocks \ {b} : ue'[c] = ue[c]
      /\ ue'[b].uplink <=> ue[b].uplink
      /\ ue'[b].downlink <=> ue[b].downlink
      /\ pc'[w] = "pop" \/ (pc'[w] = "respond" /\ cause'[w] = "rejected")
  <2>1. CASE pFreePool = <<>>
    <3>1. /\ ue' = [ue EXCEPT ![b] = [ue[b] EXCEPT !.addr = None, !.state = "END"]]
          /\ Goto(w, "respond") /\ Decide(w, "rejected")
      BY <1>0, <2>1 DEF LookAtPool, Reject
    <3> QED
      BY <1>1, <1>2, <3>1 DEF Goto, Decide, SameOthers, UeRecord, SessionInv, TypeOK
  <2>2. CASE pFreePool # <<>>
    <3>1. Goto(w, "pop") /\ ue' = ue /\ cause' = cause
      BY <2>2 DEF LookAtPool
    <3> QED
      BY <1>1, <1>2, <3>1 DEF Goto, SameOthers, SessionInv, TypeOK
  <2> QED BY <2>1, <2>2
<1>5. SameBlocks(b)
  BY <1>1, <1>4 DEF SameBlocks
<1>6. FlowsOfWorker(w)'
  BY <1>0, <1>1, <1>2, <1>3, <1>4 DEF FlowsOfWorker, Opens
<1> QED BY <1>0, <1>1, <1>2, <1>3, <1>4, <1>5, <1>6, QuietStep

\* ... an address is taken ...
LEMMA FlowPopAddress ==
  ASSUME SessionInv, SessionInv', FlowInv, orderly, NEW w \in Workers, PopAddress(w),
         pFreePool # <<>>
  PROVE  FlowInv'
<1>0. PICK b : b = pUe[w]
  OBVIOUS
<1>1. /\ pc[w] = "pop"
      /\ UNCHANGED <<mem, uePgwSessionRbt, tunnelMap, teidMap, ipv4AddrMap, pUe, req,
                     peerSessions, orderly>>
  BY DEF PopAddress, At, world
<1>2. /\ b \in Blocks /\ ue[b] \in UeRecord /\ ue \in [Blocks -> UeRecord]
      /\ req[w].kind = "create" /\ req[w].kind \in Creates
  BY <1>0, <1>1, AtWork, OrderlyRequest DEF WorkerOK, SessionInv, TypeOK
<1>3. ~ ue[b].uplink /\ ~ ue[b].downlink
  BY <1>0, <1>1, <1>2, EarlyFlows
<1>4. /\ SameOthers(w)
      /\ \A c \in Blocks \ {b} : ue'[c] = ue[c]
      /\ ue'[b].uplink <=> ue[b].uplink
      /\ ue'[b].downlink <=> ue[b].downlink
      /\ pc'[w] \in {"alloc", "uplink"} \/ (pc'[w] = "respond" /\ cause'[w] = "rejected")
  <2>0. PICK a : a = Head(pFreePool)
    OBVIOUS
  <2>1. CASE a \in Skipped
    <3>1. Goto(w, "alloc") /\ ue' = ue /\ cause' = cause
      BY <2>0, <2>1 DEF PopAddress
    <3> QED
      BY <1>1, <1>2, <3>1 DEF Goto, SameOthers, SessionInv, TypeOK
  <2>2. CASE a \notin Skipped /\ GoodEbi(b, req[w].ebi)
    <3>1. /\ ue' = [ue EXCEPT ![b] = [ue[b] EXCEPT !.addr = a, !.ebi = req[w].ebi]]
          /\ Goto(w, "uplink") /\ cause' = cause
      BY <1>0, <2>0, <2>2 DEF PopAddress
    <3> QED
      BY <1>1, <1>2, <3>1 DEF Goto, SameOthers, UeRecord, SessionInv, TypeOK
  <2>3. CASE a \notin Skipped /\ ~ GoodEbi(b, req[w].ebi)
    <3>1. /\ ue' = [ue EXCEPT ![b] = [ue[b] EXCEPT !.addr = a, !.state = "END"]]
          /\ Goto(w, "respond") /\ Decide(w, "rejected")
      BY <1>0, <2>0, <2>3 DEF PopAddress, Reject
    <3> QED
      BY <1>1, <1>2, <3>1 DEF Goto, Decide, SameOthers, UeRecord, SessionInv, TypeOK
  <2> QED BY <2>1, <2>2, <2>3
<1>5. SameBlocks(b)
  BY <1>1, <1>4 DEF SameBlocks
<1>6. FlowsOfWorker(w)'
  BY <1>0, <1>1, <1>2, <1>3, <1>4, SessionAssumption DEF FlowsOfWorker, Opens
<1> QED BY <1>0, <1>1, <1>2, <1>3, <1>4, <1>5, <1>6, QuietStep

\* ... the IMSI leaves the registry ...
LEMMA FlowDeregister ==
  ASSUME SessionInv, SessionInv', FlowInv, orderly, NEW w \in Workers, Deregister(w),
         pUe[w] \in uePgwSessionRbt
  PROVE  FlowInv'
<1>0. PICK b : b = pUe[w]
  OBVIOUS
<1>1. /\ pc[w] \in {"dereg", "destroy_dereg"}
      /\ uePgwSessionRbt' = uePgwSessionRbt \ {b}
      /\ ue' = [ue EXCEPT ![b].pgw = FALSE]
      /\ Goto(w, IF pc[w] = "dereg" THEN "freeaddr" ELSE "destroy_freeaddr")
      /\ UNCHANGED <<mem, tunnelMap, teidMap, ipv4AddrMap, pUe, req, cause,
                     peerSessions, orderly>>
  BY <1>0 DEF Deregister, At, PgwAfterDeregister, world
<1>2. /\ b \in Blocks /\ ue[b] \in UeRecord /\ ue \in [Blocks -> UeRecord]
      /\ req[w].kind \in Creates <=> req[w].kind # "delete"
      /\ pc[w] = "dereg" => req[w].kind = "delete"
      /\ FlowsOfWorker(w)
  BY <1>0, <1>1, AtWork, OrderlyRequest, EarlyFlows DEF WorkerOK, SessionInv, TypeOK
<1>4. /\ SameOthers(w)
      /\ \A c \in Blocks \ {b} : ue'[c] = ue[c]
      /\ ue'[b].ebi = ue[b].ebi /\ ue'[b].addr = ue[b].addr
      /\ ue'[b].uplink <=> ue[b].uplink
      /\ ue'[b].downlink <=> ue[b].downlink
      /\ pc'[w] = IF pc[w] = "dereg" THEN "freeaddr" ELSE "destroy_freeaddr"
  BY <1>1, <1>2 DEF Goto, SameOthers, UeRecord, SessionInv, TypeOK
<1>5. SameBlocks(b)
  BY <1>1, <1>4 DEF SameBlocks
<1>6. FlowsOfWorker(w)'
  BY <1>0, <1>1, <1>2, <1>4 DEF FlowsOfWorker
<1> QED BY <1>0, <1>1, <1>2, <1>4, <1>5, <1>6, QuietStep

\* ... the address goes back ...
LEMMA FlowFreeAddress ==
  ASSUME SessionInv, SessionInv', FlowInv, orderly, NEW w \in Workers, FreeAddress(w)
  PROVE  FlowInv'
<1>0. PICK b : b = pUe[w]
  OBVIOUS
<1>1. /\ pc[w] \in {"freeaddr", "destroy_freeaddr"}
      /\ IF pc[w] = "freeaddr" THEN Decide(w, "accepted") /\ Goto(w, "respond")
         ELSE Goto(w, "deltunnel") /\ cause' = cause
      /\ UNCHANGED <<mem, uePgwSessionRbt, tunnelMap, teidMap, ipv4AddrMap, ue, pUe, req,
                     peerSessions, orderly>>
  BY <1>0 DEF FreeAddress, At, world
<1>2. /\ b \in Blocks
      /\ req[w].kind \in Creates <=> req[w].kind # "delete"
      /\ pc[w] = "freeaddr" => req[w].kind = "delete"
      /\ FlowsOfWorker(w)
  BY <1>0, <1>1, AtWork, OrderlyRequest, EarlyFlows DEF WorkerOK
<1>4. /\ SameOthers(w)
      /\ pc'[w] = IF pc[w] = "freeaddr" THEN "respond" ELSE "deltunnel"
  BY <1>1, <1>2 DEF Goto, Decide, SameOthers, SessionInv, TypeOK
<1>5. SameBlocks(b)
  BY <1>1 DEF SameBlocks
<1>6. FlowsOfWorker(w)'
  BY <1>0, <1>1, <1>2, <1>4 DEF FlowsOfWorker
<1> QED BY <1>0, <1>1, <1>2, <1>4, <1>5, <1>6, QuietStep

\* ... the answer is sent ...
LEMMA FlowRespond ==
  ASSUME SessionInv, SessionInv', FlowInv, orderly, NEW w \in Workers, Respond(w)
  PROVE  FlowInv'
<1>0. PICK b : b = pUe[w]
  OBVIOUS
<1>1. /\ pc[w] = "respond"
      /\ UNCHANGED <<mem, uePgwSessionRbt, tunnelMap, teidMap, ipv4AddrMap, pUe, req,
                     cause, orderly>>
  BY <1>0 DEF Respond, At, stores, world
<1>2. /\ b \in Blocks /\ ue[b] \in UeRecord /\ ue \in [Blocks -> UeRecord]
      /\ req[w].kind \in Creates <=> req[w].kind # "delete"
      /\ FlowsOfWorker(w)
  BY <1>0, <1>1, AtWork, OrderlyRequest, EarlyFlows DEF SessionInv, TypeOK
<1>4. /\ SameOthers(w)
      /\ \A c \in Blocks \ {b} : /\ ue'[c] = ue[c]
                                 /\ c \in peerSessions' <=> c \in peerSessions
      /\ ue'[b].ebi = ue[b].ebi /\ ue'[b].addr = ue[b].addr
      /\ ue'[b].uplink <=> ue[b].uplink
      /\ ue'[b].downlink <=> ue[b].downlink
      /\ pc'[w] = IF Opens(w) THEN "tunnel" ELSE "destroy"
  <2>1. CASE Opens(w)
    <3>1. Goto(w, "tunnel") /\ peerSessions' = peerSessions \cup {b} /\ ue' = ue
      BY <1>0, <2>1 DEF Respond
    <3> QED BY <1>1, <2>1, <3>1 DEF Goto, SameOthers, SessionInv, TypeOK
  <2>2. CASE ~ Opens(w)
    <3>1. /\ Goto(w, "destroy") /\ ue' = [ue EXCEPT ![b].state = "END"]
          /\ peerSessions' = peerSessions \ {b} \/ peerSessions' = peerSessions
      BY <1>0, <2>2 DEF Respond
    <3> QED BY <1>1, <1>2, <2>2, <3>1 DEF Goto, SameOthers, UeRecord, SessionInv, TypeOK
  <2> QED BY <2>1, <2>2
<1>5. SameBlocks(b)
  BY <1>1, <1>4 DEF SameBlocks
<1>6. FlowsOfWorker(w)'
  BY <1>0, <1>1, <1>2, <1>4 DEF FlowsOfWorker, Flowing, Opens
<1> QED BY <1>0, <1>1, <1>2, <1>4, <1>5, <1>6, QuietStep

\* ... the UE is looked at before it is destroyed ...
LEMMA FlowDestroy ==
  ASSUME SessionInv, SessionInv', FlowInv, orderly, NEW w \in Workers, Destroy(w)
  PROVE  FlowInv'
<1>0. PICK b : b = pUe[w]
  OBVIOUS
<1>1. /\ pc[w] = "destroy"
      /\ \E label \in {"destroy_dereg", "deltunnel"} : Goto(w, label)
      /\ UNCHANGED <<mem, uePgwSessionRbt, tunnelMap, teidMap, ipv4AddrMap, ue, pUe, req,
                     cause, peerSessions, orderly>>
  BY <1>0 DEF Destroy, At, stores, world
<1>2. b \in Blocks /\ FlowsOfWorker(w)
  BY <1>0, <1>1, AtWork, EarlyFlows
<1>4. SameOthers(w) /\ pc'[w] \in {"destroy_dereg", "deltunnel"}
  BY <1>1 DEF Goto, SameOthers, SessionInv, TypeOK
<1>5. SameBlocks(b)
  BY <1>1 DEF SameBlocks
<1>6. FlowsOfWorker(w)'
  BY <1>0, <1>1, <1>2, <1>4 DEF FlowsOfWorker
<1> QED BY <1>0, <1>1, <1>2, <1>4, <1>5, <1>6, QuietStep

\* ... and the control tunnel is removed.
LEMMA FlowDeleteTunnel ==
  ASSUME SessionInv, SessionInv', FlowInv, orderly, NEW w \in Workers, DeleteTunnel(w),
         TunnelsOf(pUe[w]) \subseteq tunnelMap
  PROVE  FlowInv'
<1>0. PICK b : b = pUe[w]
  OBVIOUS
<1>1. /\ pc[w] = "deltunnel" /\ Goto(w, "free")
      /\ tunnelMap' = tunnelMap \ TunnelsOf(b)
      /\ UNCHANGED <<mem, uePgwSessionRbt, teidMap, ipv4AddrMap, ue, pUe, req,
                     cause, peerSessions, orderly>>
  BY <1>0 DEF DeleteTunnel, At, world
<1>2. b \in Blocks /\ FlowsOfWorker(w)
  BY <1>0, <1>1, AtWork, EarlyFlows
<1>4. SameOthers(w) /\ pc'[w] = "free"
  BY <1>1 DEF Goto, SameOthers, SessionInv, TypeOK
<1>5. SameBlocks(b)
  BY <1>1 DEF SameBlocks, TunnelsOf
<1>6. FlowsOfWorker(w)'
  BY <1>0, <1>1, <1>2, <1>4 DEF FlowsOfWorker
<1> QED BY <1>0, <1>1, <1>2, <1>4, <1>5, <1>6, QuietStep

\* The TEID of the uplink flow was not in use.
LEMMA FlowInstallUplink ==
  ASSUME SessionInv, SessionInv', FlowInv, orderly, NEW w \in Workers, InstallUplink(w)
  PROVE  FlowInv' /\ aborted' = aborted
<1>0. PICK b : b = pUe[w]
  OBVIOUS
<1>1. pc[w] = "uplink"
  BY DEF InstallUplink, At
<1>2. /\ b \in Blocks /\ b # None /\ ue[b] \in UeRecord /\ ue \in [Blocks -> UeRecord]
      /\ req[w].kind = "create" /\ req[w].kind \in Creates
      /\ ~ ue[b].uplink /\ ~ ue[b].downlink
      /\ req[w] \in Request /\ req[w].teid = None /\ ue[b].ebi = req[w].ebi
  BY <1>0, <1>1, AtWork, OrderlyRequest, EarlyFlows DEF WorkerOK, SessionInv, TypeOK
<1>3. ue[b].ebi \in Ebis
  BY <1>2, RequestFields
<1>4. <<b, ue[b].ebi>> \notin teidMap
  BY <1>2, <1>3 DEF FlowInv, HasUplink
<1>5. /\ teidMap' = teidMap \cup {<<b, ue[b].ebi>>}
      /\ ue' = [ue EXCEPT ![b] = [ue[b] EXCEPT !.uplink = TRUE]]
      /\ Goto(w, "downlink")
      /\ UNCHANGED <<mem, uePgwSessionRbt, tunnelMap, ipv4AddrMap, pUe, req, cause,
                     peerSessions, aborted, orderly>>
  BY <1>0, <1>4 DEF InstallUplink, world
<1>6. /\ SameOthers(w) /\ pc'[w] = "downlink"
      /\ \A c \in Blocks \ {b} : ue'[c] = ue[c]
      /\ ue'[b].uplink /\ ~ ue'[b].downlink /\ ue'[b].ebi = ue[b].ebi
  BY <1>2, <1>5 DEF Goto, SameOthers, UeRecord, SessionInv, TypeOK
<1>7. SameBlocks(b)
  BY <1>5, <1>6 DEF SameBlocks
<1>8. FlowsOfWorker(w)'
  BY <1>0, <1>2, <1>5, <1>6 DEF FlowsOfWorker
<1>9. \A v \in Workers \ {w} : pUe[v] # b
  BY <1>0, <1>2 DEF SessionInv, Exclusive
<1>10. HasUplink(b)' /\ ~ HasDownlink(b)' /\ ~ HasDownlink(b) /\ ~ HasUplink(b)
  <2>1. Live(b) /\ ~ NoUplink(b)
    BY <1>0, <1>2, OwnFlows
  <2>2. ~ NoUplink(b)'
    BY <1>0, <1>2, <1>5, <1>9 DEF NoUplink
  <2> QED BY <1>2, <1>5, <1>6, <2>1, <2>2 DEF HasUplink, HasDownlink, Live
<1>11. ASSUME NEW e \in Ebis
       PROVE  <<b, e>> \in teidMap' <=> HasUplink(b)' /\ ue'[b].ebi = e
  <2>1. <<b, e>> \notin teidMap
    BY <1>2, <1>10 DEF FlowInv
  <2> QED BY <1>5, <1>6, <1>10, <2>1
<1>12. ASSUME NEW a \in Addrs
       PROVE  a \in ipv4AddrMap' <=>
                \/ \E c \in Blocks \ {b} : HasDownlink(c) /\ ue[c].addr = a
                \/ HasDownlink(b)' /\ ue'[b].addr = a
  <2>1. a \in ipv4AddrMap <=> \E c \in Blocks : HasDownlink(c) /\ ue[c].addr = a
    BY DEF FlowInv
  <2> QED BY <1>5, <1>10, <2>1
<1>13. \A c \in Blocks \ {b}, e \in Ebis : <<c, e>> \in teidMap' <=> <<c, e>> \in teidMap
  BY <1>5
<1>14. pUe[w] = b /\ pUe'[w] = b
  BY <1>0, <1>5
<1>15. FlowInv'
  BY <1>2, <1>6, <1>7, <1>8, <1>9, <1>11, <1>12, <1>13, <1>14, FlowStep
<1> QED BY <1>5, <1>15

\* No other UE has the address of the downlink flow.
LEMMA FlowInstallDownlink ==
  ASSUME SessionInv, SessionInv', FlowInv, orderly, NEW w \in Workers, InstallDownlink(w)
  PROVE  FlowInv' /\ aborted' = aborted
<1> USE SessionAssumption
<1>0. PICK b : b = pUe[w]
  OBVIOUS
<1>1. pc[w] = "downlink"
  BY DEF InstallDownlink, At
<1>2. /\ b \in Blocks /\ b # None /\ ue[b] \in UeRecord /\ ue \in [Blocks -> UeRecord]
      /\ req[w].kind = "create" /\ req[w].kind \in Creates
      /\ WorkerOK(w) /\ req[w] \in Request
      /\ req[w].ebi # None => req[w].ebi <= 5
  BY <1>0, <1>1, AtWork, OrderlyRequest DEF WorkerOK, SessionInv, TypeOK
<1>3. /\ ue[b].uplink /\ ~ ue[b].downlink /\ ue[b].pgw
      /\ ue[b].addr # None /\ ue[b].addr \in Addrs
      /\ ue[b].ebi = req[w].ebi /\ req[w].ebi > 4 /\ req[w].teid = None
  BY <1>0, <1>1, <1>2 DEF WorkerOK, UeRecord
<1>4. ue[b].ebi = 5 /\ ue[b].ebi \in Ebis
  <2>1. req[w].ebi \in Ebis
    BY <1>2, <1>3, RequestFields
  <2>2. req[w].ebi # None /\ req[w].ebi \in 0 .. 15
    BY <2>1
  <2>3. req[w].ebi > 4 /\ req[w].ebi <= 5
    BY <1>2, <1>3, <2>2
  <2>4. req[w].ebi = 5
    BY ONLY <2>2, <2>3
  <2> QED BY <1>3, <2>1, <2>4
<1>5. ue[b].addr \notin ipv4AddrMap
  <2> SUFFICES ASSUME ue[b].addr \in ipv4AddrMap PROVE FALSE
    OBVIOUS
  <2>1. PICK c \in Blocks : HasDownlink(c) /\ ue[c].addr = ue[b].addr
    BY <1>3 DEF FlowInv
  <2>2. Holder(c) /\ Holder(b)
    BY <1>2, <1>3, <2>1, DownlinkHolder DEF Holder
  <2>3. c = b
    BY <1>2, <2>1, <2>2 DEF SessionInv, AddrOK
  <2> QED BY <1>3, <2>1, <2>3 DEF HasDownlink
<1>6. /\ ipv4AddrMap' = ipv4AddrMap \cup {ue[b].addr}
      /\ ue' = [ue EXCEPT ![b] = [ue[b] EXCEPT !.downlink = TRUE, !.state = "CREATED"]]
      /\ Decide(w, "accepted") /\ Goto(w, "respond")
      /\ UNCHANGED <<mem, uePgwSessionRbt, tunnelMap, teidMap, pUe, req,
                     peerSessions, aborted, orderly>>
  <2>1. (ue[b].addr \notin ipv4AddrMap) = TRUE
    BY <1>5
  <2> QED BY <1>0, <2>1 DEF InstallDownlink, world
<1>7. /\ SameOthers(w) /\ pc'[w] = "respond" /\ cause'[w] = "accepted"
      /\ \A c \in Blocks \ {b} : ue'[c] = ue[c]
      /\ ue'[b].uplink <=> ue[b].uplink
      /\ ue'[b].downlink
      /\ ue'[b].ebi = ue[b].ebi /\ ue'[b].addr = ue[b].addr
  BY <1>2, <1>6 DEF Goto, Decide, SameOthers, UeRecord, SessionInv, TypeOK
<1>8. SameBlocks(b)
  BY <1>6, <1>7 DEF SameBlocks
<1>9. FlowsOfWorker(w)'
  BY <1>0, <1>2, <1>3, <1>4, <1>6, <1>7 DEF FlowsOfWorker, Flowing, Opens
<1>10. \A v \in Workers \ {w} : pUe[v] # b
  BY <1>0, <1>2 DEF SessionInv, Exclusive
<1>11. HasUplink(b)' /\ HasDownlink(b)' /\ ~ HasDownlink(b) /\ HasUplink(b)
  <2>1. Live(b) /\ ~ NoUplink(b)
    BY <1>0, <1>2, OwnFlows
  <2>2. ~ NoUplink(b)' /\ ~ NoDownlink(b)'
    BY <1>0, <1>2, <1>6, <1>10 DEF NoUplink, NoDownlink
  <2> QED BY <1>3, <1>6, <1>7, <2>1, <2>2 DEF HasUplink, HasDownlink, Live
<1>12. ASSUME NEW e \in Ebis
       PROVE  <<b, e>> \in teidMap' <=> HasUplink(b)' /\ ue'[b].ebi = e
  <2>1. <<b, e>> \in teidMap <=> ue[b].ebi = e
    BY <1>2, <1>11 DEF FlowInv
  <2> QED BY <1>6, <1>7, <1>11, <2>1
<1>13. ASSUME NEW a \in Addrs
       PROVE  a \in ipv4AddrMap' <=>
                \/ \E c \in Blocks \ {b} : HasDownlink(c) /\ ue[c].addr = a
                \/ HasDownlink(b)' /\ ue'[b].addr = a
  <2>1. a \in ipv4AddrMap <=> \E c \in Blocks : HasDownlink(c) /\ ue[c].addr = a
    BY DEF FlowInv
  <2> QED BY <1>6, <1>7, <1>11, <2>1
<1>14. \A c \in Blocks \ {b}, e \in Ebis : <<c, e>> \in teidMap' <=> <<c, e>> \in teidMap
  BY <1>6
<1>15. pUe[w] = b /\ pUe'[w] = b
  BY <1>0, <1>6
<1>16. FlowInv'
  BY <1>2, <1>7, <1>8, <1>9, <1>10, <1>12, <1>13, <1>14, <1>15, FlowStep
<1> QED BY <1>6, <1>16

\* The downlink flow that is removed is there ...
LEMMA FlowRemoveDownlink ==
  ASSUME SessionInv, SessionInv', FlowInv, orderly, NEW w \in Workers, RemoveDownlink(w)
  PROVE  FlowInv' /\ aborted' = aborted
<1> USE SessionAssumption
<1>0. PICK b : b = pUe[w]
  OBVIOUS
<1>1. pc[w] = "rmdown"
  BY DEF RemoveDownlink, At
<1>2. /\ b \in Blocks /\ b # None /\ ue[b] \in UeRecord
      /\ WorkerOK(w) /\ FlowsOfWorker(w)
  BY <1>0, <1>1, AtWork, EarlyFlows
<1>3. /\ req[w].kind = "delete" /\ Flowing(b) /\ Complete(b) /\ ue[b].addr \in Addrs
      /\ req[w].kind \notin Creates
  BY <1>0, <1>1, <1>2 DEF WorkerOK, FlowsOfWorker, Complete, UeRecord, Creates
<1>4. /\ Live(b) /\ ~ NoUplink(b) /\ ~ NoDownlink(b)
  BY <1>0, <1>1, <1>2, OwnFlows
<1>5. HasUplink(b) /\ HasDownlink(b) /\ ue[b].addr \in ipv4AddrMap
  BY <1>2, <1>3, <1>4 DEF HasUplink, HasDownlink, Flowing, FlowInv
<1>6. /\ ipv4AddrMap' = ipv4AddrMap \ {ue[b].addr} /\ Goto(w, "rmup")
      /\ UNCHANGED <<mem, uePgwSessionRbt, tunnelMap, teidMap, ue, pUe, req, cause,
                     peerSessions, aborted, orderly>>
  BY <1>0, <1>3, <1>5 DEF RemoveDownlink, DeletedBearer, ExpectedBearer, Flowing, world
<1>7. SameOthers(w) /\ pc'[w] = "rmup" /\ SameBlocks(b)
  BY <1>6 DEF Goto, SameOthers, SameBlocks, SessionInv, TypeOK
<1>8. FlowsOfWorker(w)'
  BY <1>0, <1>3, <1>6, <1>7 DEF FlowsOfWorker, Flowing
<1>9. \A v \in Workers \ {w} : pUe[v] # b
  BY <1>0, <1>2 DEF SessionInv, Exclusive
<1>10. HasUplink(b)' /\ ~ HasDownlink(b)'
  <2>1. ~ NoUplink(b)' /\ NoDownlink(b)'
    BY <1>0, <1>3, <1>6, <1>7, <1>9 DEF NoUplink, NoDownlink
  <2> QED BY <1>5, <1>6, <2>1 DEF HasUplink, HasDownlink, Live
<1>11. ASSUME NEW e \in Ebis
       PROVE  <<b, e>> \in teidMap' <=> HasUplink(b)' /\ ue'[b].ebi = e
  <2>1. <<b, e>> \in teidMap <=> ue[b].ebi = e
    BY <1>2, <1>5 DEF FlowInv
  <2> QED BY <1>6, <1>10, <2>1
<1>12. \A c \in Blocks \ {b} : HasDownlink(c) => ue[c].addr # ue[b].addr
  <2> SUFFICES ASSUME NEW c \in Blocks \ {b}, HasDownlink(c), ue[c].addr = ue[b].addr
               PROVE  FALSE
    OBVIOUS
  <2>1. Holder(c) /\ Holder(b)
    BY <1>2, <1>5, DownlinkHolder
  <2> QED BY <1>2, <2>1 DEF SessionInv, AddrOK
<1>13. ASSUME NEW a \in Addrs
       PROVE  a \in ipv4AddrMap' <=>
                \/ \E c \in Blocks \ {b} : HasDownlink(c) /\ ue[c].addr = a
                \/ HasDownlink(b)' /\ ue'[b].addr = a
  <2>1. a \in ipv4AddrMap <=> \E c \in Blocks : HasDownlink(c) /\ ue[c].addr = a
    BY DEF FlowInv
  <2> QED BY <1>6, <1>10, <1>12, <2>1
<1>14. \A c \in Blocks \ {b}, e \in Ebis : <<c, e>> \in teidMap' <=> <<c, e>> \in teidMap
  BY <1>6
<1>15. pUe[w] = b /\ pUe'[w] = b
  BY <1>0, <1>6
<1>16. FlowInv'
  BY <1>2, <1>7, <1>8, <1>9, <1>11, <1>13, <1>14, <1>15, FlowStep
<1> QED BY <1>6, <1>16

\* ... and so is the uplink flow.
LEMMA FlowRemoveUplink ==
  ASSUME SessionInv, SessionInv', FlowInv, orderly, NEW w \in Workers, RemoveUplink(w)
  PROVE  FlowInv' /\ aborted' = aborted
<1> USE SessionAssumption
<1>0. PICK b : b = pUe[w]
  OBVIOUS
<1>1. pc[w] = "rmup"
  BY DEF RemoveUplink, At
<1>2. /\ b \in Blocks /\ b # None /\ ue[b] \in UeRecord
      /\ WorkerOK(w) /\ FlowsOfWorker(w)
  BY <1>0, <1>1, AtWork, EarlyFlows
<1>3. /\ req[w].kind = "delete" /\ Flowing(b) /\ ue[b].ebi \in Ebis
      /\ req[w].kind \notin Creates
  BY <1>0, <1>1, <1>2 DEF WorkerOK, FlowsOfWorker, Flowing, UeRecord, Creates
<1>4. Live(b) /\ ~ NoUplink(b) /\ NoDownlink(b)
  BY <1>0, <1>1, <1>2, <1>3, OwnFlows
<1>5. HasUplink(b) /\ ~ HasDownlink(b) /\ <<b, ue[b].ebi>> \in teidMap
  BY <1>2, <1>3, <1>4 DEF HasUplink, HasDownlink, Flowing, FlowInv
<1>6. /\ teidMap' = teidMap \ {<<b, ue[b].ebi>>} /\ Goto(w, "dereg")
      /\ UNCHANGED <<mem, uePgwSessionRbt, tunnelMap, ipv4AddrMap, ue, pUe, req, cause,
                     peerSessions, aborted, orderly>>
  BY <1>0, <1>3, <1>5 DEF RemoveUplink, DeletedBearer, ExpectedBearer, Flowing, world
<1>7. SameOthers(w) /\ pc'[w] = "dereg" /\ SameBlocks(b)
  BY <1>6 DEF Goto, SameOthers, SameBlocks, SessionInv, TypeOK
<1>8. FlowsOfWorker(w)'
  BY <1>0, <1>3, <1>6, <1>7 DEF FlowsOfWorker
<1>9. \A v \in Workers \ {w} : pUe[v] # b
  BY <1>0, <1>2 DEF SessionInv, Exclusive
<1>10. ~ HasUplink(b)' /\ ~ HasDownlink(b)'
  <2>1. NoUplink(b)' /\ NoDownlink(b)'
    BY <1>0, <1>3, <1>6, <1>7 DEF NoUplink, NoDownlink
  <2> QED BY <2>1 DEF HasUplink, HasDownlink
<1>11. ASSUME NEW e \in Ebis
       PROVE  <<b, e>> \in teidMap' <=> HasUplink(b)' /\ ue'[b].ebi = e
  <2>1. <<b, e>> \in teidMap <=> ue[b].ebi = e
    BY <1>2, <1>5 DEF FlowInv
  <2> QED BY <1>6, <1>10, <2>1
<1>12. ASSUME NEW a \in Addrs
       PROVE  a \in ipv4AddrMap' <=>
                \/ \E c \in Blocks \ {b} : HasDownlink(c) /\ ue[c].addr = a
                \/ HasDownlink(b)' /\ ue'[b].addr = a
  <2>1. a \in ipv4AddrMap <=> \E c \in Blocks : HasDownlink(c) /\ ue[c].addr = a
    BY DEF FlowInv
  <2> QED BY <1>5, <1>6, <1>10, <2>1
<1>13. \A c \in Blocks \ {b}, e \in Ebis : <<c, e>> \in teidMap' <=> <<c, e>> \in teidMap
  BY <1>6
<1>14. pUe[w] = b /\ pUe'[w] = b
  BY <1>0, <1>6
<1>15. FlowInv'
  BY <1>2, <1>7, <1>8, <1>9, <1>11, <1>12, <1>13, <1>14, FlowStep
<1> QED BY <1>6, <1>15

\* The control tunnel was not there; the session comes to rest.
LEMMA FlowCreateTunnel ==
  ASSUME SessionInv, SessionInv', FlowInv, orderly, NEW w \in Workers, CreateTunnel(w)
  PROVE  FlowInv' /\ aborted' = aborted
<1> USE SessionAssumption
<1>0. PICK b : b = pUe[w]
  OBVIOUS
<1>1. pc[w] = "tunnel"
  BY DEF CreateTunnel, At
<1>2. /\ b \in Blocks /\ b # None /\ ue[b] \in UeRecord /\ ue \in [Blocks -> UeRecord]
      /\ WorkerOK(w) /\ OrderlyOK(w) /\ FlowsOfWorker(w)
      /\ req[w].peer \in Peers
      /\ \A p \in Peers : <<b, p>> \in tunnelMap <=> ue[b].tunnel = p
  BY <1>0, <1>1, AtWork, EarlyFlows, RequestFields DEF SessionInv, TypeOK
<1>3. /\ Opens(w) /\ req[w].kind \in Creates /\ req[w].kind # "delete"
      /\ ue[b].tunnel = None /\ ue[b].state = "CREATED" /\ Flowing(b)
  BY <1>0, <1>1, <1>2, OrderlyRequest DEF WorkerOK, OrderlyOK, FlowsOfWorker, Opens
<1>4. <<b, req[w].peer>> \notin tunnelMap
  BY <1>2, <1>3
<1>5. /\ tunnelMap' = tunnelMap \cup {<<b, req[w].peer>>}
      /\ ue' = [ue EXCEPT ![b] = [ue[b] EXCEPT !.tunnel = req[w].peer]]
      /\ Done(w)
      /\ UNCHANGED <<mem, uePgwSessionRbt, teidMap, ipv4AddrMap, peerSessions, aborted,
                     orderly>>
  BY <1>0, <1>3, <1>4 DEF CreateTunnel, world
<1>6. SameOthers(w) /\ pUe'[w] = None
  BY <1>5, IdleOK DEF SessionInv
<1>7. /\ \A c \in Blocks \ {b} : ue'[c] = ue[c]
      /\ ue'[b].uplink <=> ue[b].uplink
      /\ ue'[b].downlink <=> ue[b].downlink
      /\ ue'[b].ebi = ue[b].ebi /\ ue'[b].addr = ue[b].addr
  BY <1>2, <1>5 DEF UeRecord
<1>8. SameBlocks(b)
  BY <1>5, <1>7 DEF SameBlocks
<1>9. \A v \in Workers \ {w} : pUe[v] # b
  BY <1>0, <1>2 DEF SessionInv, Exclusive
<1>10. HasUplink(b)' /\ HasUplink(b) /\ HasDownlink(b)' /\ HasDownlink(b) /\ Flowing(b)'
  <2>1. Live(b) /\ ~ NoUplink(b) /\ ~ NoDownlink(b)
    BY <1>0, <1>2, <1>3, OwnFlows
  <2>2. ~ NoUplink(b)' /\ ~ NoDownlink(b)'
    BY <1>2, <1>6, <1>9 DEF NoUplink, NoDownlink, SameOthers
  <2> QED BY <1>3, <1>5, <1>7, <2>1, <2>2 DEF HasUplink, HasDownlink, Live, Flowing
<1>11. ASSUME NEW e \in Ebis
       PROVE  <<b, e>> \in teidMap' <=> HasUplink(b)' /\ ue'[b].ebi = e
  <2>1. <<b, e>> \in teidMap <=> ue[b].ebi = e
    BY <1>2, <1>10 DEF FlowInv
  <2> QED BY <1>5, <1>7, <1>10, <2>1
<1>12. ASSUME NEW a \in Addrs
       PROVE  a \in ipv4AddrMap' <=>
                \/ \E c \in Blocks \ {b} : HasDownlink(c) /\ ue[c].addr = a
                \/ HasDownlink(b)' /\ ue'[b].addr = a
  <2>1. a \in ipv4AddrMap <=> \E c \in Blocks : HasDownlink(c) /\ ue[c].addr = a
    BY DEF FlowInv
  <2> QED BY <1>2, <1>5, <1>7, <1>10, <2>1
<1>13. \A c \in Blocks \ {b}, e \in Ebis : <<c, e>> \in teidMap' <=> <<c, e>> \in teidMap
  BY <1>5
<1>14. pUe[w] = b
  BY <1>0
<1>15. FlowInv'
  BY <1>2, <1>6, <1>8, <1>9, <1>10, <1>11, <1>12, <1>13, <1>14, FlowStep
<1> QED BY <1>5, <1>15

\* The block of a UE without flows is freed.
LEMMA FlowFreeUe ==
  ASSUME SessionInv, SessionInv', FlowInv, orderly, NEW w \in Workers, FreeUe(w)
  PROVE  FlowInv' /\ aborted' = aborted
<1> USE SessionAssumption
<1>0. PICK b : b = pUe[w]
  OBVIOUS
<1>1. pc[w] = "free"
  BY DEF FreeUe, At
<1>2. /\ b \in Blocks /\ b # None /\ mem[b] = "allocated" /\ FlowsOfWorker(w)
      /\ req[w].kind \in Creates <=> req[w].kind # "delete"
  BY <1>0, <1>1, AtWork, EarlyFlows, OrderlyRequest
<1>3. \A v \in Workers \ {w} : pUe[v] # b
  BY <1>0, <1>2 DEF SessionInv, Exclusive
<1>4. /\ mem' = [mem EXCEPT ![b] = "free"] /\ ue' = [ue EXCEPT ![b] = BlankUe]
      /\ Done(w)
      /\ UNCHANGED <<uePgwSessionRbt, tunnelMap, teidMap, ipv4AddrMap, peerSessions,
                     aborted, orderly>>
  BY <1>0, <1>2, <1>3 DEF FreeUe, ContentAfterFree, world
<1>5. SameOthers(w) /\ pUe'[w] = None
  BY <1>4, IdleOK DEF SessionInv
<1>6. SameBlocks(b) /\ mem'[b] = "free"
  BY <1>2, <1>4 DEF SameBlocks, SessionInv, TypeOK
<1>7. ~ HasUplink(b) /\ ~ HasDownlink(b)
  <2>1. CASE req[w].kind = "delete"
    <3>1. NoUplink(b) /\ NoDownlink(b)
      BY <1>0, <1>1, <1>2, <2>1, OwnFlows
    <3> QED BY <3>1 DEF HasUplink, HasDownlink
  <2>2. CASE req[w].kind # "delete"
    BY <1>0, <1>1, <1>2, <2>2 DEF FlowsOfWorker, HasUplink, HasDownlink
  <2> QED BY <2>1, <2>2
<1>8. ~ HasUplink(b)' /\ ~ HasDownlink(b)'
  BY <1>6 DEF HasUplink, HasDownlink, Live
<1>9. \A e \in Ebis : <<b, e>> \in teidMap' <=> HasUplink(b)' /\ ue'[b].ebi = e
  BY <1>2, <1>4, <1>7, <1>8 DEF FlowInv
<1>10. ASSUME NEW a \in Addrs
       PROVE  a \in ipv4AddrMap' <=>
                \/ \E c \in Blocks \ {b} : HasDownlink(c) /\ ue[c].addr = a
                \/ HasDownlink(b)' /\ ue'[b].addr = a
  <2>1. a \in ipv4AddrMap <=> \E c \in Blocks : HasDownlink(c) /\ ue[c].addr = a
    BY DEF FlowInv
  <2> QED BY <1>4, <1>7, <1>8, <2>1
<1>11. \A c \in Blocks \ {b}, e \in Ebis : <<c, e>> \in teidMap' <=> <<c, e>> \in teidMap
  BY <1>4
<1>12. pUe[w] = b
  BY <1>0
<1>13. FlowInv'
  BY <1>2, <1>3, <1>5, <1>6, <1>9, <1>10, <1>11, <1>12, FlowStep
<1> QED BY <1>4, <1>13

\* A block is taken for a UE without flows.
LEMMA FlowNewUe ==
  ASSUME SessionInv, SessionInv', FlowInv, orderly, NEW w \in Workers, NewUe(w)
  PROVE  FlowInv' /\ aborted' = aborted
<1> USE SessionAssumption
<1>1. /\ pc[w] = "new" /\ Goto(w, "fsm")
      /\ UNCHANGED <<uePgwSessionRbt, tunnelMap, teidMap, ipv4AddrMap, req, cause,
                     peerSessions, aborted, orderly>>
  BY DEF NewUe, At, world
<1>2. PICK b \in Blocks :
        /\ IF memPool # <<>>
           THEN b = Head(memPool) /\ memPool' = Tail(memPool)
           ELSE mem[b] = "fresh" /\ UNCHANGED memPool
        /\ mem' = [mem EXCEPT ![b] = "allocated"]
        /\ ue' = [ue EXCEPT ![b] = BlankUe]
        /\ pUe' = [pUe EXCEPT ![w] = b]
  BY DEF NewUe
<1>3. /\ b # None /\ pUe[w] = None /\ req[w].teid = None /\ OrderlyOK(w)
  BY <1>1 DEF SessionInv, WorkerOK
<1>4. mem[b] # "allocated"
  <2>1. memPool \in Seq(Blocks) /\ IsInjective(memPool)
    BY DEF SessionInv, TypeOK, MemOK
  <2>2. CASE memPool # <<>>
    <3>1. \E i \in DOMAIN memPool : memPool[i] = b
      BY <1>2, <2>1, <2>2, PopList
    <3> QED BY <3>1 DEF SessionInv, MemOK
  <2>3. CASE memPool = <<>>
    BY <1>2, <2>3
  <2> QED BY <2>2, <2>3
<1>5. \A v \in Workers : pUe[v] # b
  <2>1. \A v \in Workers : WorkerOK(v)
    BY DEF SessionInv
  <2> QED BY <1>3, <1>4, <2>1 DEF WorkerOK
<1>6. /\ SameOthers(w) /\ pc'[w] = "fsm" /\ pUe'[w] = b
      /\ SameBlocks(b) /\ ue'[b] = BlankUe
  BY <1>1, <1>2 DEF Goto, SameOthers, SameBlocks, SessionInv, TypeOK
<1>7. FlowsOfWorker(w)'
  <2>1. req[w].kind # "delete"
    BY <1>1, <1>3 DEF OrderlyOK
  <2> QED BY <1>1, <1>6, <2>1 DEF FlowsOfWorker
<1>8. ~ HasUplink(b)' /\ ~ HasDownlink(b)' /\ ~ HasUplink(b) /\ ~ HasDownlink(b)
  BY <1>4, <1>6 DEF HasUplink, HasDownlink, Live, BlankUe
<1>9. \A e \in Ebis : <<b, e>> \in teidMap' <=> HasUplink(b)' /\ ue'[b].ebi = e
  BY <1>1, <1>2, <1>8 DEF FlowInv
<1>10. ASSUME NEW a \in Addrs
       PROVE  a \in ipv4AddrMap' <=>
                \/ \E c \in Blocks \ {b} : HasDownlink(c) /\ ue[c].addr = a
                \/ HasDownlink(b)' /\ ue'[b].addr = a
  <2>1. a \in ipv4AddrMap <=> \E c \in Blocks : HasDownlink(c) /\ ue[c].addr = a
    BY DEF FlowInv
  <2> QED BY <1>1, <1>8, <2>1
<1>11. \A c \in Blocks \ {b}, e \in Ebis : <<c, e>> \in teidMap' <=> <<c, e>> \in teidMap
  BY <1>1
<1>12. FlowInv'
  BY <1>3, <1>5, <1>6, <1>7, <1>9, <1>10, <1>11, FlowStep
<1> QED BY <1>1, <1>12

\* A request arrives.
LEMMA FlowReceive ==
  ASSUME SessionInv, SessionInv', FlowInv, orderly, NEW w \in Workers,
         NEW r \in Request, Receive(w, r)
  PROVE  FlowInv' /\ aborted' = aborted
<1> USE SessionAssumption
<1>1. /\ pc[w] = "idle" /\ pUe[w] = None
      /\ UNCHANGED <<mem, uePgwSessionRbt, tunnelMap, teidMap, ipv4AddrMap, ue,
                     peerSessions, aborted, orderly>>
  BY DEF Receive, At, stores, world, SessionInv, WorkerOK
<1>2. /\ SameOthers(w) /\ req'[w] = r /\ pUe'[w] = r.teid /\ cause'[w] = None
      /\ pc'[w] = IF r.teid = None THEN "new" ELSE "fsm"
  BY DEF Receive, Goto, SameOthers, SessionInv, TypeOK
<1>3. CASE r.teid # None
  <2>0. PICK b : b = r.teid
    OBVIOUS
  <2>1. b \in Blocks /\ b # None /\ Live(b) /\ AtRest(b)
    BY <1>3, <2>0, ReceivedAtRest DEF SessionInv
  <2>2. SameBlocks(b) /\ \A v \in Workers : pUe[v] # b
    BY <1>1, <2>1 DEF SameBlocks, AtRest
  <2>3. Flowing(b)
    BY <2>1 DEF FlowInv
  <2>4. r.kind = "delete" /\ r.kind \notin Creates
    <3>1. OrderlyOK(w)'
      BY DEF SessionInv
    <3> QED BY <1>1, <1>2, <1>3, <3>1 DEF OrderlyOK, Creates
  <2>5. FlowsOfWorker(w)'
    BY <1>1, <1>2, <1>3, <2>0, <2>3, <2>4 DEF FlowsOfWorker, Flowing
  <2>6. HasUplink(b)' /\ HasUplink(b) /\ HasDownlink(b)' /\ HasDownlink(b)
    <3>1. ~ NoUplink(b) /\ ~ NoDownlink(b)
      BY <2>2 DEF NoUplink, NoDownlink
    <3>2. ~ NoUplink(b)' /\ ~ NoDownlink(b)'
      BY <1>2, <1>3, <2>2 DEF NoUplink, NoDownlink, SameOthers
    <3> QED BY <1>1, <2>1, <2>3, <3>1, <3>2 DEF HasUplink, HasDownlink, Live, Flowing
  <2>7. ASSUME NEW e \in Ebis
        PROVE  <<b, e>> \in teidMap' <=> HasUplink(b)' /\ ue'[b].ebi = e
    <3>1. <<b, e>> \in teidMap <=> ue[b].ebi = e
      BY <2>1, <2>6 DEF FlowInv
    <3> QED BY <1>1, <2>6, <3>1
  <2>8. ASSUME NEW a \in Addrs
        PROVE  a \in ipv4AddrMap' <=>
                 \/ \E c \in Blocks \ {b} : HasDownlink(c) /\ ue[c].addr = a
                 \/ HasDownlink(b)' /\ ue'[b].addr = a
    <3>1. a \in ipv4AddrMap <=> \E c \in Blocks : HasDownlink(c) /\ ue[c].addr = a
      BY DEF FlowInv
    <3> QED BY <1>1, <2>1, <2>6, <3>1
  <2>9. \A c \in Blocks \ {b}, e \in Ebis : <<c, e>> \in teidMap' <=> <<c, e>> \in teidMap
    BY <1>1
  <2>10. pUe'[w] = b /\ pUe'[w] # None
    BY <1>2, <2>0, <2>1
  <2>11. FlowInv'
    BY <1>1, <1>2, <2>1, <2>2, <2>5, <2>7, <2>8, <2>9, <2>10, FlowStep
  <2> QED BY <1>1, <2>11
<1>4. CASE r.teid = None
  <2>1. \A c \in Blocks, v \in Workers :
          /\ pUe'[v] = c <=> pUe[v] = c
          /\ pUe[v] = c => pc'[v] = pc[v] /\ req'[v] = req[v] /\ cause'[v] = cause[v]
    BY <1>1, <1>2, <1>4 DEF SameOthers
  <2>2. ASSUME NEW c \in Blocks
        PROVE  /\ Live(c)' <=> Live(c)
               /\ AtRest(c)' <=> AtRest(c)
               /\ Flowing(c)' <=> Flowing(c)
               /\ HasUplink(c)' <=> HasUplink(c)
               /\ HasDownlink(c)' <=> HasDownlink(c)
    BY <1>1, <2>1 DEF Live, AtRest, Flowing, HasUplink, HasDownlink, NoUplink, NoDownlink
  <2>3. ASSUME NEW v \in Workers, pUe'[v] # None PROVE FlowsOfWorker(v)'
    <3>1. v # w
      BY <1>2, <1>4, <2>3
    <3>2. /\ pc'[v] = pc[v] /\ pUe'[v] = pUe[v] /\ req'[v] = req[v]
          /\ cause'[v] = cause[v]
      BY <1>2, <3>1 DEF SameOthers
    <3>3. FlowsOfWorker(v)
      BY <2>3, <3>2 DEF FlowInv
    <3> QED BY <1>1, <3>2, <3>3 DEF FlowsOfWorker, Flowing, Opens
  <2> QED BY <1>1, <2>2, <2>3 DEF FlowInv
<1> QED BY <1>3, <1>4

\* With orderly peers no request is unexpected.
LEMMA NothingUnexpected ==
  ASSUME SessionInv, orderly, NEW w \in Workers
  PROVE  ~ Unexpected(w)
<1> SUFFICES ASSUME Unexpected(w) PROVE FALSE
  OBVIOUS
<1>1. pc[w] = "fsm" /\ Handler(w) = "unexpected"
  BY DEF Unexpected, At
<1>2. /\ req[w].kind \in {"create", "create_malformed", "delete"}
      /\ req[w].kind \in Creates <=> req[w].kind # "delete"
      /\ req[w].kind = "delete" <=> req[w].teid # None
      /\ WorkerOK(w)
  BY <1>1, AtWork, OrderlyRequest
<1>3. IF req[w].teid = None THEN ue[pUe[w]].state = "INIT" ELSE ue[pUe[w]].state = "CREATED"
  BY <1>1, <1>2 DEF WorkerOK, Fresh
<1> QED BY <1>1, <1>2, <1>3 DEF Handler

\* The two places that only the order of the workers can make fail.
LEMMA StillThere ==
  ASSUME SessionInv, orderly, NEW w \in Workers
  PROVE  /\ Deregister(w) => pUe[w] \in uePgwSessionRbt
         /\ DeleteTunnel(w) => TunnelsOf(pUe[w]) \subseteq tunnelMap
<1> USE SessionAssumption
<1>1. ASSUME Deregister(w) PROVE pUe[w] \in uePgwSessionRbt
  <2>1. pc[w] \in {"dereg", "destroy_dereg"}
    BY <1>1 DEF Deregister, At
  <2> QED BY <2>1, AtWork DEF WorkerOK, Complete
<1>2. ASSUME DeleteTunnel(w) PROVE TunnelsOf(pUe[w]) \subseteq tunnelMap
  <2>1. pc[w] = "deltunnel"
    BY <1>2 DEF DeleteTunnel, At
  <2>2. /\ ue[pUe[w]] \in UeRecord
        /\ \A p \in Peers : <<pUe[w], p>> \in tunnelMap <=> ue[pUe[w]].tunnel = p
    BY <2>1, AtWork
  <2> QED BY <2>2 DEF TunnelsOf, UeRecord
<1> QED BY <1>1, <1>2

\* An assertion fails only where a worker takes an address from an empty pool.
LEMMA FlowStepAll ==
  ASSUME SessionInv, SessionInv', FlowInv, [Next]_vars, orderly
  PROVE  /\ FlowInv'
         /\ \/ aborted' = aborted
            \/ pFreePool = <<>> /\ \E w \in Workers : pc[w] = "pop"
<1>0. ASSUME UNCHANGED <<stores, ue, pc, pUe, req, cause, peerSessions, endIp, orderly>>
      PROVE  FlowInv'
  BY <1>0 DEF stores, FlowInv, FlowsOfWorker, Flowing, Opens, HasUplink, HasDownlink,
              NoUplink, NoDownlink, Live, AtRest
<1>1. CASE UNCHANGED vars
  BY <1>0, <1>1 DEF vars, world
<1>2. ASSUME NEW w \in Workers, NEW r \in Request, Receive(w, r)
      PROVE  FlowInv' /\ aborted' = aborted
  BY <1>2, FlowReceive
<1>3. ASSUME NEW w \in Workers, Step(w)
      PROVE  /\ FlowInv'
             /\ \/ aborted' = aborted
                \/ pFreePool = <<>> /\ pc[w] = "pop"
  <2>1. CASE NewUe(w) \/ InstallUplink(w) \/ InstallDownlink(w) \/ RemoveDownlink(w)
             \/ RemoveUplink(w) \/ CreateTunnel(w) \/ FreeUe(w)
    BY <2>1, FlowNewUe, FlowInstallUplink, FlowInstallDownlink, FlowRemoveDownlink,
       FlowRemoveUplink, FlowCreateTunnel, FlowFreeUe
  <2>2. CASE HandleCreate(w) \/ HandleDelete(w) \/ Register(w) \/ LookAtPool(w)
             \/ FreeAddress(w) \/ Respond(w) \/ Destroy(w)
    <3>1. FlowInv'
      BY <2>2, FlowHandleCreate, FlowHandleDelete, FlowRegister, FlowLookAtPool,
         FlowFreeAddress, FlowRespond, FlowDestroy
    <3>2. aborted' = aborted
      BY <2>2 DEF HandleCreate, HandleDelete, Register, LookAtPool, FreeAddress, Respond,
                  Destroy, world
    <3> QED BY <3>1, <3>2
  <2>3. CASE PopAddress(w)
    <3>1. CASE pFreePool = <<>>
      BY <1>0, <2>3, <3>1 DEF PopAddress, Abort, At
    <3>2. CASE pFreePool # <<>>
      BY <2>3, <3>2, FlowPopAddress DEF PopAddress, world
    <3> QED BY <3>1, <3>2
  <2>4. CASE Deregister(w)
    BY <2>4, StillThere, FlowDeregister DEF Deregister, world
  <2>5. CASE DeleteTunnel(w)
    BY <2>5, StillThere, FlowDeleteTunnel DEF DeleteTunnel, world
  <2> QED
    BY <1>3, <2>1, <2>2, <2>3, <2>4, <2>5, NothingUnexpected DEF Step
<1> QED BY <1>1, <1>2, <1>3 DEF Next, vars, world

\* What never changes.
LEMMA ConfigurationFixed == [Next]_vars => orderly' = orderly /\ endIp' = endIp
<1>1. ASSUME NEW w \in Workers, Step(w) PROVE orderly' = orderly /\ endIp' = endIp
  BY <1>1 DEF Step, NewUe, Unexpected, HandleCreate, HandleDelete, Register,
              LookAtPool, PopAddress, InstallUplink, InstallDownlink, RemoveDownlink,
              RemoveUplink, Deregister, FreeAddress, Respond, CreateTunnel, Destroy,
              DeleteTunnel, FreeUe, Abort, world
<1>2. ASSUME NEW w \in Workers, NEW r, Receive(w, r)
      PROVE  orderly' = orderly /\ endIp' = endIp
  BY <1>2 DEF Receive, world
<1> QED BY <1>1, <1>2 DEF Next, vars, world

\* The flows, for all steps.
LEMMA StepFlowInv == SessionInv /\ SessionInv' /\ FlowInv /\ [Next]_vars => FlowInv'
<1>1. [Next]_vars => orderly' = orderly
  BY ConfigurationFixed
<1>2. CASE orderly
  BY <1>2, FlowStepAll
<1>3. CASE ~ orderly
  BY <1>1, <1>3 DEF FlowInv
<1> QED BY <1>2, <1>3

\* There are no flows in the first state.
LEMMA InitFlowInv == Init => FlowInv
BY SessionAssumption DEF Init, FlowInv, HasUplink, HasDownlink, Live

\* Where the flows of the data plane lead, with orderly peers.
THEOREM InvariantOfFlows == Spec => []FlowInv
BY InitFlowInv, StepFlowInv, InvariantOfSessions, PTL DEF Spec

-----------------------------------------------------------------------------
(* What the second invariant gives *)

\* With orderly peers, the flows of the data plane belong to live sessions, which
\* have both: the traffic of a UE never follows the tunnel of another
\* (NwSaeGwUeStatePgwSessionCreated.c:171-177).
THEOREM FlowsHaveSessions == Spec => []FlowsBelongToSessions
<1>1. SessionInv /\ FlowInv => FlowsBelongToSessions
  <2> SUFFICES ASSUME SessionInv, FlowInv, orderly PROVE FlowsBelongToSessions
    BY DEF FlowsBelongToSessions
  <2>1. ASSUME NEW e \in teidMap PROVE Live(e[1]) /\ ue[e[1]].ebi = e[2]
    <3>1. PICK b \in Blocks, i \in Ebis : e = <<b, i>>
      BY DEF SessionInv, TypeOK
    <3> QED BY <3>1 DEF FlowInv, HasUplink
  <2>2. ASSUME NEW a \in ipv4AddrMap
        PROVE  \E b \in Blocks : Live(b) /\ ue[b].addr = a /\ ue[b].downlink
    <3>1. a \in Addrs
      BY DEF SessionInv, TypeOK
    <3> QED BY <3>1 DEF FlowInv, HasDownlink
  <2>3. ASSUME NEW b \in Blocks, Live(b), AtRest(b)
        PROVE  /\ <<b, ue[b].ebi>> \in teidMap /\ ue[b].addr \in ipv4AddrMap
               /\ ue[b].downlink
    <3>1. Flowing(b) /\ Complete(b) /\ ue[b] \in UeRecord
      BY <2>3 DEF FlowInv, SessionInv, BlockOK, TypeOK
    <3>2. HasUplink(b) /\ HasDownlink(b)
      BY <2>3, <3>1 DEF HasUplink, HasDownlink, NoUplink, NoDownlink, AtRest, Flowing
    <3>3. ue[b].addr \in Addrs /\ ue[b].ebi \in Ebis
      BY <3>1 DEF Complete, UeRecord, Flowing
    <3> QED BY <3>1, <3>2, <3>3 DEF FlowInv, Flowing
  <2> QED BY <2>1, <2>2, <2>3 DEF FlowsBelongToSessions
<1> QED BY <1>1, InvariantOfSessions, InvariantOfFlows, PTL

\* No worker is about to take an address from an empty pool.
PoolHolds == \A w \in Workers : pc[w] = "pop" => pFreePool # <<>>

\* With orderly peers no assertion of the program fails and nothing that is gone
\* is removed again, but where two workers take the last address of the pool
\* (NwGtpv1u.c:327, NwMem.c:146, NwSaeGwUlp.c:1358, NwIpv4PoolMgr.c:92-103).
THEOREM AssertionsHold == Spec /\ []PoolHolds => []NoAssertionFails
<1>1. Init => NoAssertionFails
  BY DEF Init, NoAssertionFails
<1>2. SessionInv /\ SessionInv' /\ FlowInv /\ PoolHolds /\ NoAssertionFails /\ [Next]_vars
        => NoAssertionFails'
  <2> SUFFICES ASSUME SessionInv, SessionInv', FlowInv, PoolHolds, NoAssertionFails,
                      [Next]_vars, orderly'
               PROVE  ~ aborted'
    BY DEF NoAssertionFails
  <2>1. orderly
    BY ConfigurationFixed
  <2> QED BY <2>1, FlowStepAll DEF PoolHolds, NoAssertionFails
<1> QED BY <1>1, <1>2, InvariantOfSessions, InvariantOfFlows, PTL DEF Spec

\* ... and no worker can, however many there are, where the pool has a usable
\* address for every UE that can be in memory.
THEOREM LargePoolAssertionsHold ==
  ASSUME IsFiniteSet(Blocks),
         Cardinality(Blocks) <= Cardinality((StartIp .. EndIp) \ Skipped)
  PROVE  Spec => []NoAssertionFails
<1> DEFINE U == (StartIp .. EndIp) \ Skipped
           WholePool == orderly => endIp = EndIp
           OrderlyHolds == orderly => PoolHolds
           Orderly == orderly
<1>1. Init => WholePool
  BY DEF Init
<1>2. WholePool /\ [Next]_vars => WholePool'
  BY ConfigurationFixed
<1>3. ASSUME SessionInv, orderly, endIp = EndIp PROVE PoolHolds
  <2> SUFFICES ASSUME NEW w \in Workers, pc[w] = "pop", pFreePool = <<>> PROVE FALSE
    BY DEF PoolHolds
  <2>0. PICK b : b = pUe[w]
    OBVIOUS
  <2>1. b \in Blocks /\ ~ Holder(b)
    BY <1>3, <2>0, AtWork DEF WorkerOK, Holder
  <2>2. \A a \in U : \E c \in Blocks \ {b} : Holder(c) /\ ue[c].addr = a
    <3>1. \A a : ~ InFreePool(a)
      BY DEF InFreePool
    <3> QED BY <1>3, <2>1, <3>1 DEF SessionInv, AddrOK
  <2> DEFINE f == [a \in U |-> CHOOSE c \in Blocks \ {b} : Holder(c) /\ ue[c].addr = a]
  <2>3. \A a \in U : f[a] \in Blocks \ {b} /\ ue[f[a]].addr = a
    BY <2>2
  <2>4. f \in [U -> Blocks \ {b}]
    BY <2>3
  <2>5. f \in Injection(U, Blocks \ {b})
    <3> HIDE DEF f
    <3> QED BY <2>3, <2>4 DEF Injection, IsInjective
  <2>6. /\ IsFiniteSet(Blocks \ {b})
        /\ Cardinality(Blocks \ {b}) = Cardinality(Blocks) - 1
    BY <2>1, FS_RemoveElement
  <2>7. IsFiniteSet(U) /\ Cardinality(U) <= Cardinality(Blocks \ {b})
    <3> HIDE DEF f, U
    <3> QED BY <2>5, <2>6, FS_Injection
  <2>8. Cardinality(U) \in Nat /\ Cardinality(Blocks) \in Nat
    BY <2>7, FS_CardinalityType
  <2> QED BY <2>6, <2>7, <2>8
<1>4. SessionInv /\ WholePool => OrderlyHolds
  BY <1>3
<1>5. Spec => []OrderlyHolds
  BY <1>1, <1>2, <1>4, InvariantOfSessions, PTL DEF Spec
<1>6. Init => NoAssertionFails
  BY DEF Init, NoAssertionFails
<1>7. SessionInv /\ SessionInv' /\ FlowInv /\ OrderlyHolds /\ NoAssertionFails /\ [Next]_vars
        => NoAssertionFails'
  <2> SUFFICES ASSUME SessionInv, SessionInv', FlowInv, OrderlyHolds, NoAssertionFails,
                      [Next]_vars, orderly'
               PROVE  ~ aborted'
    BY DEF NoAssertionFails
  <2>1. orderly
    BY ConfigurationFixed
  <2> QED BY <2>1, FlowStepAll DEF PoolHolds, NoAssertionFails
<1> QED BY <1>5, <1>6, <1>7, InvariantOfSessions, InvariantOfFlows, PTL DEF Spec
=============================================================================
