------------------------ MODULE Gtpv2cTunnel_proofs -------------------------
(***************************************************************************)
(* Proofs about the control tunnels of the GTPv2-C stack, for any number   *)
(* of workers, sessions and chunks.  The pool has no mutex: what is proved *)
(* holds as long as no two workers are between reading its head and        *)
(* setting it, which is so for one worker.                                 *)
(***************************************************************************)
EXTENDS Gtpv2cTunnel, FiniteSetTheorems, TLAPS

\* The worker has read the head of the pool or a link, and will set the head.
Inside(w) == pc[w] \in {"next", "sethead", "giveback"}

\* What a mutex of the pool would guarantee.
OneInPool == \A v, w \in Workers : Inside(v) /\ Inside(w) => v = w

\* The chunk of the worker is not in the pool.
Out(w) == pc[w] \in {"fill", "insert", "link", "giveback"}

InPool(c) ==
  /\ c \in Chunks \ fresh
  /\ \A t \in Teids : hTunnel[t] # c
  /\ \A w \in Workers : Out(w) => pTunnel[w] # c

\* A worker that is busy has a chunk and a session, which nobody else has.
Hands ==
  /\ \A w \in Workers : pc[w] # "idle" <=> pTunnel[w] # None
  /\ \A w \in Workers : pc[w] # "idle" <=> forTeid[w] # None
  /\ \A v, w \in Workers : v # w =>
       /\ pTunnel[v] # None => pTunnel[v] # pTunnel[w]
       /\ forTeid[v] # None => forTeid[v] # forTeid[w]
  /\ \A w \in Workers : pTunnel[w] \notin fresh
  /\ \A w \in Workers : forTeid[w] # None => hTunnel[forTeid[w]] = None

\* The tunnels of the sessions are the map.
Sessions ==
  /\ \A t \in Teids : hTunnel[t] # None =>
       /\ hTunnel[t] \in tunnelMap \ fresh
       /\ teid[hTunnel[t]] = t
       /\ \A w \in Workers : pTunnel[w] # hTunnel[t]
  /\ \A c \in tunnelMap : \E t \in Teids : hTunnel[t] = c

\* Where the worker stands in making or unmaking a tunnel.
Progress ==
  \A w \in Workers :
    /\ pc[w] \in {"next", "sethead"} => pTunnel[w] = gpGtpv2cTunnelPool
    /\ pc[w] = "sethead" => tmp[w] = next[pTunnel[w]]
    /\ pc[w] = "insert" => teid[pTunnel[w]] = forTeid[w]
    /\ pc[w] = "giveback" => next[pTunnel[w]] = gpGtpv2cTunnelPool

\* The pool is closed under links, and every chunk in it is the head or the
\* successor of exactly one other.
List ==
  /\ gpGtpv2cTunnelPool # None => InPool(gpGtpv2cTunnelPool)
  /\ \A c \in Chunks : InPool(c) =>
       /\ next[c] # None => InPool(next[c])
       /\ next[c] = gpGtpv2cTunnelPool => next[c] = None
       /\ c # gpGtpv2cTunnelPool => \E d \in Chunks : InPool(d) /\ next[d] = c
  /\ \A c, d \in Chunks :
       InPool(c) /\ InPool(d) /\ next[c] = next[d] /\ next[c] # None => c = d

TunnelInv == TypeOK /\ Hands /\ Sessions /\ Progress /\ List /\ ~ aborted

-----------------------------------------------------------------------------
\* Nothing exists in the beginning.
LEMMA InitTunnelInv == Init => TunnelInv
BY TunnelAssumption
DEF Init, TunnelInv, TypeOK, PC, Hands, Sessions, Progress, List, InPool

\* Every step keeps the types.
LEMMA StepTypeOK == TypeOK /\ Hands /\ [Next]_vars => TypeOK'
<1> SUFFICES ASSUME TypeOK, Hands, [Next]_vars PROVE TypeOK'
  OBVIOUS
<1> USE TunnelAssumption DEF TypeOK, PC, At, Goto, Done, pool, map
<1>1. ASSUME NEW w \in Workers, NEW t \in Teids, ReadHead(w, t) PROVE TypeOK'
  <2>1. CASE gpGtpv2cTunnelPool # None
    <3>1. /\ pTunnel' = [pTunnel EXCEPT ![w] = gpGtpv2cTunnelPool]
          /\ pc' = [pc EXCEPT ![w] = "next"]
          /\ fresh' = fresh
      BY <1>1, <2>1 DEF ReadHead
    <3> QED BY <1>1, <2>1, <3>1 DEF ReadHead
  <2>2. CASE gpGtpv2cTunnelPool = None
    <3>1. PICK c \in fresh :
            fresh' = fresh \ {c} /\ pTunnel' = [pTunnel EXCEPT ![w] = c]
      BY <1>1, <2>2 DEF ReadHead
    <3> QED BY <1>1, <2>2, <3>1 DEF ReadHead
  <2> QED BY <2>1, <2>2
<1>2. ASSUME NEW w \in Workers, NEW t \in Teids, Remove(w, t) PROVE TypeOK'
  BY <1>2 DEF Remove
<1>3. ASSUME NEW w \in Workers, ReadNext(w) PROVE TypeOK'
  BY <1>3 DEF ReadNext, Hands
<1>4. ASSUME NEW w \in Workers, SetHead(w) PROVE TypeOK'
  BY <1>4 DEF SetHead, Remaining, Hands
<1>5. ASSUME NEW w \in Workers, Fill(w) PROVE TypeOK'
  BY <1>5 DEF Fill, Key, Hands
<1>6. ASSUME NEW w \in Workers, Insert(w) PROVE TypeOK'
  <2>1. CASE Exists(w)
    BY <1>6, <2>1 DEF Insert, Abort
  <2>2. CASE ~ Exists(w)
    <3>1. /\ tunnelMap' = tunnelMap \cup {pTunnel[w]}
          /\ hTunnel' = [hTunnel EXCEPT ![forTeid[w]] = pTunnel[w]]
          /\ Done(w)
          /\ UNCHANGED <<gpGtpv2cTunnelPool, next, fresh, teid, aborted>>
      BY <1>6, <2>2 DEF Insert
    <3>2. pTunnel[w] \in Chunks
      <4>1. pc[w] = "insert"
        BY <1>6 DEF Insert
      <4> QED BY <4>1 DEF Hands
    <3> QED BY <3>1, <3>2
  <2> QED BY <2>1, <2>2
<1>7. ASSUME NEW w \in Workers, LinkChunk(w) PROVE TypeOK'
  BY <1>7 DEF LinkChunk, Link, Hands
<1>8. ASSUME NEW w \in Workers, GiveBack(w) PROVE TypeOK'
  BY <1>8 DEF GiveBack, Hands
<1>9. CASE UNCHANGED vars
  BY <1>9 DEF vars
<1> QED BY <1>1, <1>2, <1>3, <1>4, <1>5, <1>6, <1>7, <1>8, <1>9 DEF Next

\* A worker that reads the head of the pool.
LEMMA ReadHeadStep ==
  ASSUME TunnelInv, TypeOK', OneInPool, OneInPool',
         NEW w \in Workers, NEW t \in Teids, ReadHead(w, t)
  PROVE  TunnelInv'
<1> USE TunnelAssumption
<1>1. /\ pc[w] = "idle" /\ hTunnel[t] = None
      /\ \A v \in Workers : forTeid[v] # t
      /\ UNCHANGED <<gpGtpv2cTunnelPool, next, tunnelMap, hTunnel, teid, tmp,
                     aborted>>
      /\ \A v \in Workers : forTeid'[v] = IF v = w THEN t ELSE forTeid[v]
  BY DEF ReadHead, At, Quiet, map, TunnelInv, TypeOK
<1>2. pTunnel[w] = None /\ forTeid[w] = None
  BY <1>1 DEF TunnelInv, Hands, TypeOK
<1>3. PICK c \in Chunks :
        /\ \A v \in Workers : pTunnel'[v] = IF v = w THEN c ELSE pTunnel[v]
        /\ \/ /\ c = gpGtpv2cTunnelPool
              /\ \A v \in Workers : pc'[v] = IF v = w THEN "next" ELSE pc[v]
              /\ fresh' = fresh
           \/ /\ c \in fresh
              /\ \A v \in Workers : pc'[v] = IF v = w THEN "fill" ELSE pc[v]
              /\ fresh' = fresh \ {c}
  <2>1. CASE gpGtpv2cTunnelPool # None
    BY <2>1 DEF ReadHead, Goto, TunnelInv, TypeOK
  <2>2. CASE gpGtpv2cTunnelPool = None
    <3>1. PICK c \in fresh :
            fresh' = fresh \ {c} /\ pTunnel' = [pTunnel EXCEPT ![w] = c]
      BY <2>2 DEF ReadHead
    <3> QED BY <2>2, <3>1 DEF ReadHead, Goto, TunnelInv, TypeOK
  <2> QED BY <2>1, <2>2
<1>4. c # None
  OBVIOUS
<1>5. /\ \A v \in Workers : pTunnel[v] # c
      /\ \A u \in Teids : hTunnel[u] # c
  <2>1. CASE c \in fresh
    BY <2>1, <1>4 DEF TunnelInv, Hands, Sessions
  <2>2. CASE c \notin fresh
    <3>1. c = gpGtpv2cTunnelPool /\ Inside(w)' /\ InPool(c)
      BY <2>2, <1>3, <1>4 DEF Inside, TunnelInv, List
    <3>2. ASSUME NEW v \in Workers, pTunnel[v] = c PROVE FALSE
      <4>1. v # w /\ pc[v] # "idle"
        BY <3>2, <1>2, <1>4 DEF TunnelInv, Hands
      <4>2. pc[v] \in {"next", "sethead"}
        BY <3>1, <3>2, <4>1 DEF InPool, Out, TunnelInv, TypeOK, PC
      <4>3. Inside(v)'
        BY <4>1, <4>2, <1>3 DEF Inside
      <4> QED BY <3>1, <4>1, <4>3 DEF OneInPool
    <3> QED BY <3>1, <3>2 DEF InPool
  <2> QED BY <2>1, <2>2
<1>6. Hands'
  <2>1. \A v \in Workers : pc'[v] # "idle" <=> pTunnel'[v] # None
    BY <1>1, <1>3, <1>4 DEF TunnelInv, Hands
  <2>2. \A v \in Workers : pc'[v] # "idle" <=> forTeid'[v] # None
    BY <1>1, <1>3, <1>4 DEF TunnelInv, Hands
  <2>3. \A u, v \in Workers : u # v =>
       /\ pTunnel'[u] # None => pTunnel'[u] # pTunnel'[v]
       /\ forTeid'[u] # None => forTeid'[u] # forTeid'[v]
    BY <1>1, <1>3, <1>4, <1>5 DEF TunnelInv, Hands
  <2>4. \A v \in Workers : pTunnel'[v] \notin fresh'
    BY <1>3, <1>5, <1>4 DEF TunnelInv, Hands, List, InPool
  <2>5. \A v \in Workers : forTeid'[v] # None => hTunnel'[forTeid'[v]] = None
    BY <1>1 DEF TunnelInv, Hands
  <2> QED BY <2>1, <2>2, <2>3, <2>4, <2>5 DEF Hands
<1>7. Sessions'
  BY <1>1, <1>3, <1>5 DEF TunnelInv, Sessions
<1>8. Progress'
  BY <1>1, <1>3 DEF TunnelInv, Progress
<1>9. \A d \in Chunks : InPool(d)' <=> InPool(d)
  BY <1>1, <1>2, <1>3, <1>4, <1>5 DEF InPool, Out
<1>10. List'
  BY <1>1, <1>9 DEF TunnelInv, List, TypeOK
<1> QED BY <1>1, <1>6, <1>7, <1>8, <1>10 DEF TunnelInv

\* A worker that takes the tunnel of a session out of the map.
LEMMA RemoveStep ==
  ASSUME TunnelInv, TypeOK', NEW w \in Workers, NEW t \in Teids, Remove(w, t)
  PROVE  TunnelInv'
<1> USE TunnelAssumption
<1>0. PICK c : c = hTunnel[t]
  OBVIOUS
<1>1. /\ pc[w] = "idle" /\ c \in Chunks
      /\ \A v \in Workers : forTeid[v] # t
      /\ UNCHANGED <<gpGtpv2cTunnelPool, next, fresh, teid, tmp, aborted>>
      /\ \A v \in Workers : forTeid'[v] = IF v = w THEN t ELSE forTeid[v]
      /\ \A v \in Workers : pTunnel'[v] = IF v = w THEN c ELSE pTunnel[v]
      /\ \A v \in Workers : pc'[v] = IF v = w THEN "link" ELSE pc[v]
      /\ \A u \in Teids : hTunnel'[u] = IF u = t THEN None ELSE hTunnel[u]
      /\ tunnelMap' = tunnelMap \ {c}
  BY <1>0 DEF Remove, At, Goto, Quiet, pool, TunnelInv, TypeOK
<1>2. pTunnel[w] = None /\ forTeid[w] = None
  BY <1>0, <1>1 DEF TunnelInv, Hands, TypeOK
<1>3. /\ c \notin fresh /\ c # None /\ teid[c] = t
      /\ \A v \in Workers : pTunnel[v] # c
  BY <1>0, <1>1 DEF TunnelInv, Sessions
<1>4. \A u \in Teids : u # t => hTunnel[u] # c
  BY <1>0, <1>3 DEF TunnelInv, Sessions
<1>5. Hands'
  <2>1. \A v \in Workers : pc'[v] # "idle" <=> pTunnel'[v] # None
    BY <1>0, <1>1, <1>3 DEF TunnelInv, Hands
  <2>2. \A v \in Workers : pc'[v] # "idle" <=> forTeid'[v] # None
    BY <1>0, <1>1 DEF TunnelInv, Hands
  <2>3. \A u, v \in Workers : u # v =>
       /\ pTunnel'[u] # None => pTunnel'[u] # pTunnel'[v]
       /\ forTeid'[u] # None => forTeid'[u] # forTeid'[v]
    BY <1>0, <1>1, <1>3 DEF TunnelInv, Hands
  <2>4. \A v \in Workers : pTunnel'[v] \notin fresh'
    BY <1>0, <1>1, <1>3 DEF TunnelInv, Hands
  <2>5. \A v \in Workers : forTeid'[v] # None => hTunnel'[forTeid'[v]] = None
    BY <1>0, <1>1 DEF TunnelInv, Hands, TypeOK
  <2> QED BY <2>1, <2>2, <2>3, <2>4, <2>5 DEF Hands
<1>6. Sessions'
  BY <1>0, <1>1, <1>3, <1>4 DEF TunnelInv, Sessions
<1>7. Progress'
  BY <1>0, <1>1 DEF TunnelInv, Progress
<1>8. \A d \in Chunks : InPool(d)' <=> InPool(d)
  <2>1. ASSUME NEW d \in Chunks, d # c PROVE InPool(d)' <=> InPool(d)
    <3>1. (\A u \in Teids : hTunnel'[u] # d) <=> (\A u \in Teids : hTunnel[u] # d)
      BY <1>0, <2>1, <1>1
    <3>2. \A v \in Workers : (Out(v)' => pTunnel'[v] # d) <=> (Out(v) => pTunnel[v] # d)
      BY <1>0, <2>1, <1>1, <1>2 DEF Out
    <3> QED BY <1>1, <3>1, <3>2 DEF InPool
  <2>2. ~ InPool(c)
    BY <1>0 DEF InPool
  <2>3. ~ InPool(c)'
    BY <1>0, <1>1 DEF InPool, Out
  <2> QED BY <2>1, <2>2, <2>3
<1>9. List'
  BY <1>0, <1>1, <1>8 DEF TunnelInv, List, TypeOK
<1> QED BY <1>1, <1>5, <1>6, <1>7, <1>9 DEF TunnelInv

\* A worker that reads the link of the head.
LEMMA ReadNextStep ==
  ASSUME TunnelInv, TypeOK', NEW w \in Workers, ReadNext(w)
  PROVE  TunnelInv'
<1> USE TunnelAssumption
<1>1. /\ pc[w] = "next"
      /\ UNCHANGED <<gpGtpv2cTunnelPool, next, fresh, tunnelMap, hTunnel, teid,
                     pTunnel, forTeid, aborted>>
      /\ \A v \in Workers : pc'[v] = IF v = w THEN "sethead" ELSE pc[v]
      /\ \A v \in Workers : tmp'[v] = IF v = w THEN next[pTunnel[w]] ELSE tmp[v]
  BY DEF ReadNext, At, Goto, pool, map, TunnelInv, TypeOK
<1>2. Hands'
  BY <1>1 DEF TunnelInv, Hands
<1>3. Sessions'
  BY <1>1 DEF TunnelInv, Sessions
<1>4. Progress'
  BY <1>1 DEF TunnelInv, Progress
<1>5. \A d \in Chunks : InPool(d)' <=> InPool(d)
  <2>1. \A v \in Workers : Out(v)' <=> Out(v)
    BY <1>1 DEF Out
  <2> QED BY <1>1, <2>1 DEF InPool
<1>6. List'
  BY <1>1, <1>5 DEF TunnelInv, List, TypeOK
<1> QED BY <1>1, <1>2, <1>3, <1>4, <1>6 DEF TunnelInv

\* A worker that sets the head to the link it has read: the chunk it took is
\* out of the pool, and what the pool had behind it is the pool.
LEMMA SetHeadStep ==
  ASSUME TunnelInv, TypeOK', OneInPool, NEW w \in Workers, SetHead(w)
  PROVE  TunnelInv'
<1> USE TunnelAssumption
<1>0. PICK c : c = pTunnel[w]
  OBVIOUS
<1>1. /\ pc[w] = "sethead"
      /\ UNCHANGED <<next, fresh, tunnelMap, hTunnel, teid, pTunnel, forTeid, tmp,
                     aborted>>
      /\ \A v \in Workers : pc'[v] = IF v = w THEN "fill" ELSE pc[v]
      /\ gpGtpv2cTunnelPool' = tmp[w]
  BY <1>0 DEF SetHead, Remaining, At, Goto, map, TunnelInv, TypeOK
<1>2. /\ c \in Chunks /\ c = gpGtpv2cTunnelPool /\ tmp[w] = next[c]
  <2>1. c # None
    BY <1>0, <1>1 DEF TunnelInv, Hands
  <2> QED BY <1>0, <1>1, <2>1 DEF TunnelInv, Progress, TypeOK
<1>3. InPool(c)
  BY <1>0, <1>2 DEF TunnelInv, List
<1>4. Hands'
  BY <1>0, <1>1 DEF TunnelInv, Hands
<1>5. Sessions'
  BY <1>0, <1>1 DEF TunnelInv, Sessions
<1>6. Progress'
  <2>1. ASSUME NEW v \in Workers, v # w PROVE ~ Inside(v)
    BY <1>0, <1>1, <2>1 DEF OneInPool, Inside
  <2>2. ASSUME NEW v \in Workers
        PROVE  pc'[v] \notin {"next", "sethead", "giveback"}
    BY <1>0, <1>1, <2>1 DEF Inside
  <2> QED BY <1>1, <2>2 DEF TunnelInv, Progress
<1>7. \A d \in Chunks : InPool(d)' <=> InPool(d) /\ d # c
  BY <1>0, <1>1, <1>3 DEF InPool, Out, TunnelInv, Hands
<1>8. List'
  <2>1. gpGtpv2cTunnelPool' # None => InPool(gpGtpv2cTunnelPool)'
    BY <1>0, <1>1, <1>2, <1>3, <1>7 DEF TunnelInv, List, TypeOK
  <2>2. ASSUME NEW d \in Chunks, InPool(d)'
        PROVE  /\ next'[d] # None => InPool(next[d])'
               /\ next'[d] = gpGtpv2cTunnelPool' => next'[d] = None
               /\ d # gpGtpv2cTunnelPool' => \E e \in Chunks : InPool(e)' /\ next'[e] = d
    <3>1. InPool(d) /\ d # c
      BY <1>0, <2>2, <1>7
    <3>2. next'[d] # None => InPool(next[d])'
      BY <1>0, <1>1, <1>2, <1>7, <3>1 DEF TunnelInv, List, TypeOK
    <3>3. next'[d] = gpGtpv2cTunnelPool' => next'[d] = None
      BY <1>0, <1>1, <1>2, <1>3, <3>1 DEF TunnelInv, List, TypeOK
    <3>4. d # gpGtpv2cTunnelPool' => \E e \in Chunks : InPool(e)' /\ next'[e] = d
      BY <1>0, <1>1, <1>2, <1>7, <3>1 DEF TunnelInv, List
    <3> QED BY <3>2, <3>3, <3>4
  <2>3. \A d, e \in Chunks :
          InPool(d)' /\ InPool(e)' /\ next'[d] = next'[e] /\ next'[d] # None => d = e
    BY <1>0, <1>1, <1>7 DEF TunnelInv, List
  <2> QED BY <1>1, <2>1, <2>2, <2>3 DEF List
<1> QED BY <1>1, <1>4, <1>5, <1>6, <1>8 DEF TunnelInv

\* A worker that zeroes and fills its chunk.
LEMMA FillStep ==
  ASSUME TunnelInv, TypeOK', NEW w \in Workers, Fill(w)
  PROVE  TunnelInv'
<1> USE TunnelAssumption
<1>0. PICK c : c = pTunnel[w]
  OBVIOUS
<1>1. /\ pc[w] = "fill"
      /\ UNCHANGED <<gpGtpv2cTunnelPool, fresh, tunnelMap, hTunnel, pTunnel,
                     forTeid, tmp, aborted>>
      /\ \A v \in Workers : pc'[v] = IF v = w THEN "insert" ELSE pc[v]
      /\ \A d \in Chunks : next'[d] = IF d = c THEN None ELSE next[d]
      /\ \A d \in Chunks : teid'[d] = IF d = c THEN forTeid[w] ELSE teid[d]
  BY <1>0 DEF Fill, Key, At, Goto, map, TunnelInv, TypeOK
<1>2. c \in Chunks /\ ~ InPool(c) /\ \A v \in Workers : v # w => pTunnel[v] # c
  <2>1. c # None
    BY <1>0, <1>1 DEF TunnelInv, Hands
  <2> QED BY <1>0, <1>1, <2>1 DEF TunnelInv, Hands, TypeOK, InPool, Out
<1>3. Hands'
  BY <1>0, <1>1 DEF TunnelInv, Hands
<1>4. Sessions'
  BY <1>0, <1>1 DEF TunnelInv, Sessions, TypeOK
<1>5. Progress'
  <2>1. ASSUME NEW v \in Workers, pc'[v] # "idle", v # w
        PROVE  pTunnel[v] \in Chunks /\ pTunnel[v] # c
    BY <1>0, <2>1, <1>1, <1>2 DEF TunnelInv, Hands, TypeOK
  <2>2. ASSUME NEW v \in Workers, v # w
        PROVE  /\ pc'[v] \in {"next", "sethead"} => pTunnel'[v] = gpGtpv2cTunnelPool'
               /\ pc'[v] = "sethead" => tmp'[v] = next'[pTunnel'[v]]
               /\ pc'[v] = "insert" => teid'[pTunnel'[v]] = forTeid'[v]
               /\ pc'[v] = "giveback" => next'[pTunnel'[v]] = gpGtpv2cTunnelPool'
    BY <1>0, <2>2, <1>1, <2>1 DEF TunnelInv, Progress
  <2>3. pc'[w] = "insert" /\ teid'[pTunnel'[w]] = forTeid'[w]
    BY <1>0, <1>1, <1>2
  <2> QED BY <2>2, <2>3 DEF Progress
<1>6. \A d \in Chunks : InPool(d)' <=> InPool(d)
  BY <1>0, <1>1 DEF InPool, Out
<1>7. List'
  BY <1>0, <1>1, <1>2, <1>6 DEF TunnelInv, List, TypeOK
<1> QED BY <1>1, <1>3, <1>4, <1>5, <1>7 DEF TunnelInv

\* A worker that puts its tunnel into the map: no other has its TEID.
LEMMA InsertStep ==
  ASSUME TunnelInv, TypeOK', NEW w \in Workers, Insert(w)
  PROVE  TunnelInv'
<1> USE TunnelAssumption
<1>0. PICK c, t : c = pTunnel[w] /\ t = forTeid[w]
  OBVIOUS
<1>1. pc[w] = "insert"
  BY <1>0 DEF Insert, At
<1>2. /\ c \in Chunks \ fresh /\ t \in Teids /\ hTunnel[t] = None /\ teid[c] = t
      /\ \A v \in Workers : v # w => pTunnel[v] # c /\ forTeid[v] # t
  <2>1. c # None /\ t # None
    BY <1>0, <1>1 DEF TunnelInv, Hands
  <2>2. c \in Chunks \ fresh /\ t \in Teids
    BY <1>0, <2>1 DEF TunnelInv, Hands, TypeOK
  <2>3. hTunnel[t] = None /\ teid[c] = t
    BY <1>0, <1>1, <2>1 DEF TunnelInv, Hands, Progress
  <2>4. \A v \in Workers : v # w => pTunnel[v] # c /\ forTeid[v] # t
    BY <1>0, <2>1 DEF TunnelInv, Hands
  <2> QED BY <2>2, <2>3, <2>4
<1>3. ~ Exists(w)
  <2>1. ASSUME NEW d \in tunnelMap, teid[d] = t PROVE FALSE
    <3>1. PICK u \in Teids : hTunnel[u] = d
      BY <1>0 DEF TunnelInv, Sessions
    <3>2. teid[d] = u
      BY <1>0, <3>1 DEF TunnelInv, Sessions, TypeOK
    <3> QED BY <2>1, <3>1, <3>2, <1>2 DEF TunnelInv, TypeOK
  <2> QED BY <1>0, <2>1, <1>2 DEF Exists
<1>4. \A u \in Teids : hTunnel[u] # c
  BY <1>0, <1>2 DEF TunnelInv, Sessions
<1>5. /\ UNCHANGED <<gpGtpv2cTunnelPool, next, fresh, teid, aborted>>
      /\ tunnelMap' = tunnelMap \cup {c}
      /\ \A u \in Teids : hTunnel'[u] = IF u = t THEN c ELSE hTunnel[u]
      /\ \A v \in Workers : pc'[v] = IF v = w THEN "idle" ELSE pc[v]
      /\ \A v \in Workers : pTunnel'[v] = IF v = w THEN None ELSE pTunnel[v]
      /\ \A v \in Workers : forTeid'[v] = IF v = w THEN None ELSE forTeid[v]
      /\ \A v \in Workers : tmp'[v] = IF v = w THEN None ELSE tmp[v]
  BY <1>0, <1>3, <1>2 DEF Insert, Done, Goto, pool, TunnelInv, TypeOK
<1>6. Hands'
  <2>1. \A v \in Workers : pc'[v] # "idle" <=> pTunnel'[v] # None
    BY <1>0, <1>5 DEF TunnelInv, Hands
  <2>2. \A v \in Workers : pc'[v] # "idle" <=> forTeid'[v] # None
    BY <1>0, <1>5 DEF TunnelInv, Hands
  <2>3. \A u, v \in Workers : u # v =>
       /\ pTunnel'[u] # None => pTunnel'[u] # pTunnel'[v]
       /\ forTeid'[u] # None => forTeid'[u] # forTeid'[v]
    BY <1>0, <1>5 DEF TunnelInv, Hands
  <2>4. \A v \in Workers : pTunnel'[v] \notin fresh'
    BY <1>0, <1>5 DEF TunnelInv, Hands, TypeOK
  <2>5. \A v \in Workers : forTeid'[v] # None => hTunnel'[forTeid'[v]] = None
    BY <1>0, <1>2, <1>5 DEF TunnelInv, Hands, TypeOK
  <2> QED BY <2>1, <2>2, <2>3, <2>4, <2>5 DEF Hands
<1>7. Sessions'
  BY <1>0, <1>2, <1>4, <1>5 DEF TunnelInv, Sessions, TypeOK
<1>8. Progress'
  BY <1>0, <1>5 DEF TunnelInv, Progress
<1>9. \A d \in Chunks : InPool(d)' <=> InPool(d)
  <2>1. \A d \in Chunks : (\A u \in Teids : hTunnel'[u] # d)
                            <=> (\A u \in Teids : hTunnel[u] # d) /\ d # c
    BY <1>0, <1>2, <1>5
  <2>2. \A d \in Chunks : (\A v \in Workers : Out(v) => pTunnel[v] # d)
                            <=> (\A v \in Workers : Out(v)' => pTunnel'[v] # d) /\ d # c
    BY <1>0, <1>1, <1>2, <1>5 DEF Out
  <2> QED BY <1>5, <2>1, <2>2 DEF InPool
<1>10. List'
  BY <1>0, <1>5, <1>9 DEF TunnelInv, List, TypeOK
<1> QED BY <1>5, <1>6, <1>7, <1>8, <1>10 DEF TunnelInv

\* A worker that links its chunk to the head.
LEMMA LinkChunkStep ==
  ASSUME TunnelInv, TypeOK', OneInPool', NEW w \in Workers, LinkChunk(w)
  PROVE  TunnelInv'
<1> USE TunnelAssumption
<1>0. PICK c : c = pTunnel[w]
  OBVIOUS
<1>1. /\ pc[w] = "link"
      /\ UNCHANGED <<gpGtpv2cTunnelPool, fresh, tunnelMap, hTunnel, teid, pTunnel,
                     forTeid, tmp, aborted>>
      /\ \A v \in Workers : pc'[v] = IF v = w THEN "giveback" ELSE pc[v]
      /\ \A d \in Chunks : next'[d] = IF d = c THEN gpGtpv2cTunnelPool ELSE next[d]
  BY <1>0 DEF LinkChunk, Link, At, Goto, map, TunnelInv, TypeOK
<1>2. c \in Chunks /\ ~ InPool(c)
  <2>1. c # None
    BY <1>0, <1>1 DEF TunnelInv, Hands
  <2> QED BY <1>0, <1>1, <2>1 DEF TunnelInv, TypeOK, InPool, Out
<1>3. Hands'
  <2>1. \A v \in Workers : pc'[v] # "idle" <=> pc[v] # "idle"
    BY <1>0, <1>1
  <2> QED BY <1>1, <2>1 DEF TunnelInv, Hands
<1>4. Sessions'
  BY <1>0, <1>1 DEF TunnelInv, Sessions
<1>5. Progress'
  <2>1. ASSUME NEW v \in Workers, v # w
        PROVE  pc'[v] \notin {"next", "sethead", "giveback"}
    BY <1>0, <1>1, <2>1 DEF OneInPool, Inside
  <2>2. next'[pTunnel'[w]] = gpGtpv2cTunnelPool' /\ pc'[w] = "giveback"
    BY <1>0, <1>1, <1>2
  <2>3. \A v \in Workers : pc'[v] = "insert" => teid'[pTunnel'[v]] = forTeid'[v]
    BY <1>0, <1>1 DEF TunnelInv, Progress
  <2> QED BY <2>1, <2>2, <2>3 DEF Progress
<1>6. \A d \in Chunks : InPool(d)' <=> InPool(d)
  BY <1>0, <1>1 DEF InPool, Out
<1>7. List'
  <2>1. \A d \in Chunks : InPool(d) => next'[d] = next[d]
    BY <1>0, <1>1, <1>2
  <2>2. \A d \in Chunks : InPool(d) /\ next[d] # None => InPool(next[d])
    BY <1>0 DEF TunnelInv, List
  <2> QED BY <1>0, <1>1, <1>6, <2>1, <2>2 DEF TunnelInv, List, TypeOK
<1> QED BY <1>1, <1>3, <1>4, <1>5, <1>7 DEF TunnelInv

\* A worker that makes its chunk the head: it is the pool, and what was the pool
\* is behind it.
LEMMA GiveBackStep ==
  ASSUME TunnelInv, TypeOK', OneInPool, NEW w \in Workers, GiveBack(w)
  PROVE  TunnelInv'
<1> USE TunnelAssumption
<1>0. PICK c : c = pTunnel[w]
  OBVIOUS
<1>1. /\ pc[w] = "giveback"
      /\ UNCHANGED <<next, fresh, tunnelMap, hTunnel, teid, aborted>>
      /\ gpGtpv2cTunnelPool' = c
      /\ \A v \in Workers : pc'[v] = IF v = w THEN "idle" ELSE pc[v]
      /\ \A v \in Workers : pTunnel'[v] = IF v = w THEN None ELSE pTunnel[v]
      /\ \A v \in Workers : forTeid'[v] = IF v = w THEN None ELSE forTeid[v]
      /\ \A v \in Workers : tmp'[v] = IF v = w THEN None ELSE tmp[v]
  BY <1>0 DEF GiveBack, Done, At, Goto, map, TunnelInv, TypeOK
<1>2. /\ c \in Chunks /\ ~ InPool(c) /\ next[c] = gpGtpv2cTunnelPool
      /\ c \notin fresh
      /\ \A u \in Teids : hTunnel[u] # c
      /\ \A v \in Workers : v # w => pTunnel[v] # c
  <2>1. c # None
    BY <1>0, <1>1 DEF TunnelInv, Hands
  <2>2. c \in Chunks /\ next[c] = gpGtpv2cTunnelPool /\ c \notin fresh
    BY <1>0, <1>1, <2>1 DEF TunnelInv, Hands, Progress, TypeOK
  <2>3. \A u \in Teids : hTunnel[u] # c
    BY <1>0, <2>1 DEF TunnelInv, Sessions
  <2>4. \A v \in Workers : v # w => pTunnel[v] # c
    BY <1>0, <2>1 DEF TunnelInv, Hands
  <2>5. ~ InPool(c)
    BY <1>0, <1>1 DEF InPool, Out
  <2> QED BY <2>2, <2>3, <2>4, <2>5
<1>3. \A d \in Chunks : InPool(d)' <=> InPool(d) \/ d = c
  <2>1. InPool(c)'
    <3>1. \A v \in Workers : pTunnel'[v] # c
      BY <1>0, <1>1, <1>2
    <3> QED BY <1>1, <1>2, <3>1 DEF InPool
  <2>2. ASSUME NEW d \in Chunks, d # c PROVE InPool(d)' <=> InPool(d)
    <3>1. \A v \in Workers : (Out(v)' => pTunnel'[v] # d) <=> (Out(v) => pTunnel[v] # d)
      BY <1>0, <2>2, <1>1 DEF Out
    <3> QED BY <1>1, <3>1 DEF InPool
  <2> QED BY <2>1, <2>2
<1>4. Hands'
  <2>1. \A v \in Workers : pc'[v] # "idle" <=> pTunnel'[v] # None
    BY <1>0, <1>1 DEF TunnelInv, Hands
  <2>2. \A v \in Workers : pc'[v] # "idle" <=> forTeid'[v] # None
    BY <1>0, <1>1 DEF TunnelInv, Hands
  <2>3. \A u, v \in Workers : u # v =>
       /\ pTunnel'[u] # None => pTunnel'[u] # pTunnel'[v]
       /\ forTeid'[u] # None => forTeid'[u] # forTeid'[v]
    BY <1>0, <1>1 DEF TunnelInv, Hands
  <2>4. \A v \in Workers : pTunnel'[v] \notin fresh'
    BY <1>0, <1>1 DEF TunnelInv, Hands, TypeOK
  <2>5. \A v \in Workers : forTeid'[v] # None => hTunnel'[forTeid'[v]] = None
    BY <1>0, <1>1 DEF TunnelInv, Hands
  <2> QED BY <2>1, <2>2, <2>3, <2>4, <2>5 DEF Hands
<1>5. Sessions'
  <2>1. \A v \in Workers : pTunnel'[v] \in {None, pTunnel[v]}
    BY <1>0, <1>1
  <2> QED BY <1>0, <1>1, <2>1 DEF TunnelInv, Sessions
<1>6. Progress'
  <2>1. ASSUME NEW v \in Workers
        PROVE  pc'[v] \notin {"next", "sethead", "giveback"}
    BY <1>0, <1>1 DEF OneInPool, Inside
  <2>2. \A v \in Workers : pc'[v] = "insert" => teid'[pTunnel'[v]] = forTeid'[v]
    BY <1>0, <1>1 DEF TunnelInv, Progress
  <2> QED BY <2>1, <2>2 DEF Progress
<1>7. List'
  <2>1. InPool(gpGtpv2cTunnelPool)'
    BY <1>0, <1>1, <1>2, <1>3
  <2>2. ASSUME NEW d \in Chunks, InPool(d)'
        PROVE  /\ next'[d] # None => InPool(next[d])'
               /\ next'[d] = gpGtpv2cTunnelPool' => next'[d] = None
               /\ d # gpGtpv2cTunnelPool' => \E e \in Chunks : InPool(e)' /\ next'[e] = d
    <3>1. InPool(d) \/ d = c
      BY <1>0, <2>2, <1>3
    <3>2. next[d] # None => next[d] \in Chunks /\ InPool(next[d])
      BY <1>0, <1>1, <1>2, <3>1 DEF TunnelInv, List, TypeOK
    <3>3. d # c => \E e \in Chunks : InPool(e)' /\ next'[e] = d
      BY <1>0, <1>1, <1>2, <1>3, <3>1 DEF TunnelInv, List
    <3>4. next[d] # None => next[d] # c
      BY <1>0, <1>2, <3>2
    <3> QED BY <1>1, <1>3, <3>2, <3>3, <3>4
  <2>3. ASSUME NEW d \in Chunks, NEW e \in Chunks,
               InPool(d)', InPool(e)', next'[d] = next'[e], next'[d] # None
        PROVE  d = e
    <3>1. (InPool(d) \/ d = c) /\ (InPool(e) \/ e = c) /\ next[d] = next[e]
      BY <1>0, <2>3, <1>1, <1>3
    <3>2. \A f \in Chunks : InPool(f) => ~ (next[f] # None /\ next[f] = next[c])
      BY <1>0, <1>2 DEF TunnelInv, List
    <3> QED BY <2>3, <1>1, <3>1, <3>2 DEF TunnelInv, List
  <2> QED BY <2>1, <2>2, <2>3 DEF List
<1> QED BY <1>1, <1>4, <1>5, <1>6, <1>7 DEF TunnelInv

\* Every step of one worker keeps the invariant, if it is alone in the pool.
LEMMA StepTunnelInv ==
  TunnelInv /\ [Next]_vars /\ OneInPool /\ OneInPool' => TunnelInv'
<1> SUFFICES ASSUME TunnelInv, [Next]_vars, OneInPool, OneInPool'
             PROVE  TunnelInv'
  OBVIOUS
<1>1. TypeOK'
  BY StepTypeOK DEF TunnelInv
<1>2. CASE Next
  BY <1>1, <1>2, ReadHeadStep, RemoveStep, ReadNextStep, SetHeadStep, FillStep,
     InsertStep, LinkChunkStep, GiveBackStep DEF Next
<1>3. CASE UNCHANGED vars
  <2>1. UNCHANGED <<gpGtpv2cTunnelPool, next, fresh, teid, tunnelMap, hTunnel, pc,
                    pTunnel, forTeid, tmp, aborted>>
    BY <1>3 DEF vars, pool, map
  <2>2. Hands' /\ Sessions' /\ Progress'
    BY <2>1 DEF TunnelInv, Hands, Sessions, Progress
  <2>3. \A d \in Chunks : InPool(d)' <=> InPool(d)
    BY <2>1 DEF InPool, Out
  <2>4. List'
    BY <2>1, <2>3, TunnelAssumption DEF TunnelInv, List, TypeOK
  <2> QED BY <1>1, <2>1, <2>2, <2>4 DEF TunnelInv
<1> QED BY <1>2, <1>3

\* As long as one worker at a time is in the pool, the pool, the map and the hands
\* of the workers divide the chunks among them (NwGtpv2cTunnel.c:40-82).
THEOREM InvariantOfTunnels == Spec /\ []OneInPool => []TunnelInv
<1>1. Init => TunnelInv
  BY InitTunnelInv
<1>2. TunnelInv /\ [Next]_vars /\ OneInPool /\ OneInPool' => TunnelInv'
  BY StepTunnelInv
<1> QED BY <1>1, <1>2, PTL DEF Spec

-----------------------------------------------------------------------------
\* A chunk that nobody holds is in the pool.
LEMMA UnheldInPool == ASSUME TunnelInv PROVE \A c \in Unheld : InPool(c)
BY DEF Unheld, InPool

LEMMA InvOneOwner == TunnelInv => OneOwner
<1> SUFFICES ASSUME TunnelInv PROVE OneOwner
  OBVIOUS
<1> USE TunnelAssumption
<1>1. \A v, w \in Workers : v # w /\ pTunnel[v] # None => pTunnel[v] # pTunnel[w]
  BY DEF TunnelInv, Hands
<1>2. ASSUME NEW t \in Teids, hTunnel[t] # None
      PROVE  /\ \A w \in Workers : pTunnel[w] # hTunnel[t]
             /\ \A u \in Teids \ {t} : hTunnel[u] # hTunnel[t]
             /\ gpGtpv2cTunnelPool # hTunnel[t]
             /\ \A c \in Unheld : next[c] # hTunnel[t]
  <2>1. \A w \in Workers : pTunnel[w] # hTunnel[t]
    BY <1>2 DEF TunnelInv, Sessions
  <2>2. \A u \in Teids \ {t} : hTunnel[u] # hTunnel[t]
    BY <1>2 DEF TunnelInv, Sessions
  <2>3. gpGtpv2cTunnelPool # hTunnel[t]
    BY <1>2 DEF TunnelInv, List, InPool
  <2>4. ASSUME NEW c \in Unheld PROVE next[c] # hTunnel[t]
    <3>1. next[c] # None => InPool(next[c])
      BY UnheldInPool DEF TunnelInv, List, InPool
    <3> QED BY <1>2, <3>1 DEF InPool
  <2> QED BY <2>1, <2>2, <2>3, <2>4
<1> QED BY <1>1, <1>2 DEF OneOwner

LEMMA InvTunnelsLeadHome == TunnelInv => TunnelsLeadHome
BY DEF TunnelInv, Sessions, TunnelsLeadHome

LEMMA InvNothingLeaks == TunnelInv => NothingLeaks
<1> SUFFICES ASSUME TunnelInv, \A w \in Workers : pc[w] = "idle",
                    NEW c \in Unheld
             PROVE  Cardinality({d \in Unheld : next[d] = c})
                      = IF c = gpGtpv2cTunnelPool THEN 0 ELSE 1
  BY DEF NothingLeaks
<1> USE TunnelAssumption
<1>1. c # None /\ InPool(c) /\ c \in Chunks
  BY UnheldInPool DEF Unheld
<1>2. \A d \in Chunks : InPool(d) => d \in Unheld
  <2>1. \A w \in Workers : pTunnel[w] = None
    BY DEF TunnelInv, Hands
  <2> QED BY <2>1 DEF Unheld, InPool
<1>3. CASE c = gpGtpv2cTunnelPool
  <2>1. {d \in Unheld : next[d] = c} = {}
    BY <1>1, <1>3, UnheldInPool DEF TunnelInv, List, InPool
  <2> QED BY <1>3, <2>1, FS_EmptySet
<1>4. CASE c # gpGtpv2cTunnelPool
  <2>1. PICK e \in Chunks : InPool(e) /\ next[e] = c
    BY <1>1, <1>4 DEF TunnelInv, List
  <2>2. \A d \in Unheld : next[d] = c => d = e
    BY <1>1, <2>1, UnheldInPool DEF TunnelInv, List, Unheld
  <2>3. {d \in Unheld : next[d] = c} = {e}
    BY <1>2, <2>1, <2>2
  <2> QED BY <1>4, <2>3, FS_Singleton
<1> QED BY <1>3, <1>4

\* As long as one worker at a time is in the pool, a chunk has one owner
\* (NwGtpv2cTunnel.c:55-63, 78-79).
THEOREM TunnelsHaveOneOwner == Spec /\ []OneInPool => []OneOwner
BY InvariantOfTunnels, InvOneOwner, PTL

\* As long as one worker at a time is in the pool, each chunk that is not held is
\* the head of the pool or the successor of exactly one other.
THEOREM TunnelsDoNotLeak == Spec /\ []OneInPool => []NothingLeaks
BY InvariantOfTunnels, InvNothingLeaks, PTL

\* As long as one worker at a time is in the pool, every session finds its tunnel
\* under its own TEID (NwGtpv2c.c:966-982).
THEOREM TunnelsAreFound == Spec /\ []OneInPool => []TunnelsLeadHome
BY InvariantOfTunnels, InvTunnelsLeadHome, PTL

\* As long as one worker at a time is in the pool, the assertion that a new
\* tunnel is not in the map yet never fails (NwGtpv2c.c:507-515).
THEOREM TunnelsNeverAbort == Spec /\ []OneInPool => [](~ aborted)
<1>1. TunnelInv => ~ aborted
  BY DEF TunnelInv
<1> QED BY <1>1, InvariantOfTunnels, PTL
=============================================================================
