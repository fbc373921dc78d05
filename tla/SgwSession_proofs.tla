-------------------------- MODULE SgwSession_proofs --------------------------
(***************************************************************************)
(* Proofs about the UE sessions of the SGW, for any number of UEs, waiting *)
(* requests, IMSIs, eNodeBs, addresses and faults.                         *)
(*                                                                         *)
(* Sound is what holds of the program between two handlers whatever the    *)
(* MME and the PGWs send.  Orderly is what an MME that behaves adds, which *)
(* ties the sessions to its requests and to what it knows.                 *)
(***************************************************************************)
EXTENDS SgwSession, SequenceTheorems, FiniteSetTheorems, TLAPS

InList(x, list) == \E i \in DOMAIN list : list[i] = x

\* The list of freed blocks.
MemoryOK(s) ==
  /\ IsInjective(s.memPool)
  /\ \A b \in Blocks : InList(b, s.memPool) => s.mem[b] = "free"

\* The registries and what the UEs say of themselves.
RegistryOK(s) ==
  \A b \in Blocks :
    /\ b \in s.sgwRbt <=> Live(s, b) /\ s.ue[b].sgw
    /\ b \in s.pgwRbt <=> Live(s, b) /\ s.ue[b].pgw

\* The maps of tunnels and their free list.
ChunksOK(s) ==
  /\ IsInjective(s.tunPool)
  /\ s.s11Map \cap s.s5Map = {}
  /\ \A c \in Chunks : InList(c, s.tunPool) => c \notin s.s11Map \cup s.s5Map

\* A tunnel leads to the UE that has it, a request to a PGW to a block.
TunnelsOK(s) ==
  /\ ChunksOK(s)
  /\ \A c \in s.s11Map :
       /\ s.tun[c] \in Blocks /\ Live(s, s.tun[c])
       /\ \A b \in Blocks : Live(s, b) => (s.ue[b].s11 = c <=> s.tun[c] = b)
  /\ \A c \in s.s5Map :
       /\ s.tun[c] \in Blocks /\ Live(s, s.tun[c])
       /\ \A b \in Blocks : Live(s, b) => (s.ue[b].s5 = c <=> s.tun[c] = b)
  /\ \A b \in Blocks : Live(s, b) =>
       s.ue[b].s11 \in s.s11Map \cup {None, Garbage} /\ s.ue[b].s5 \in s.s5Map \cup {None}
  /\ \A q \in s.sent : s.tun[q.chunk] \in Blocks

\* What the state of a UE says about it.  The session type decides how its
\* bearer is built, the tunnel on S5 where a Delete Session Request goes.
UeOK(s, b) ==
  LET u == s.ue[b] IN
  /\ ~ Live(s, b) => u.state \in {"INIT", "END"}
  /\ u.state \in {"WT_CREATE", "SGW_CREATED", "SGW_ESTABLISHED"} =>
       u.s5 \in s.s5Map /\ u.sgw /\ ~ u.pgw
  /\ u.state = "WT_CREATE" => u.s11 = None
  /\ u.state \in {"SAE_CREATED", "SAE_ESTABLISHED"} =>
       u.sgw /\ u.pgw /\ u.addr \in LocalPool

\* Between two handlers; b is the UE that a handler is at work on.
SoundBut(s, b) ==
  /\ MemoryOK(s) /\ RegistryOK(s) /\ TunnelsOK(s)
  /\ \A c \in Blocks \ {b} : UeOK(s, c)

Sound(s) ==
  /\ MemoryOK(s) /\ RegistryOK(s) /\ TunnelsOK(s)
  /\ \A b \in Blocks : UeOK(s, b)

SessionInv == TypeOK /\ (~ sgw.aborted => Sound(sgw))

-----------------------------------------------------------------------------
(* An MME that behaves *)

SaeStates == {"SAE_CREATED", "SAE_ESTABLISHED"}
Established == {"SAE_ESTABLISHED", "SGW_ESTABLISHED"}

\* The session has its flows.  A UE whose PGW was silent is left in memory in
\* the state of an accepted one, without a tunnel to the MME.
HasFlows(s, b) ==
  /\ Live(s, b)
  /\ s.ue[b].state \in SaeStates \cup {"SGW_CREATED", "SGW_ESTABLISHED"}
  /\ s.ue[b].s11 \in s.s11Map

\* What a session is in each state.
SessionOK(s, b) ==
  LET u == s.ue[b] IN
  /\ u.state \in States \ {"INIT", "END"}
  /\ u.imsi \in Imsis /\ u.ebi = 5
  /\ u.sgw <=> u.state # "PGW_CREATED"
  /\ u.pgw <=> u.state \in SaeStates
  /\ u.hPgw <=> u.pgw
  /\ u.s11 \in s.s11Map \/ (u.state \in {"WT_CREATE", "SGW_CREATED"} /\ u.s11 \in {None, Garbage})
  /\ IF u.pgw THEN u.s5 = None /\ u.addr \in LocalPool /\ ~ InList(u.addr, s.pool)
     ELSE u.s5 \in s.s5Map
  /\ u.pup = IF u.pgw THEN PgwUplinkAt(b, 5) ELSE None
  /\ HasFlows(s, b) => u.up = SgwUplinkAt(b, 5)
  /\ u.state \in {"WT_CREATE", "SGW_CREATED"} /\ ~ HasFlows(s, b) => u.up = None
  /\ u.state \in {"WT_CREATE", "SGW_CREATED", "SAE_CREATED"} => u.down = None
  /\ u.state = "SAE_ESTABLISHED" => u.down = UeAt(u.addr)
  /\ u.state = "SGW_ESTABLISHED" => u.down = SgwDownlinkAt(b, 5)

Ends(u) == {u.up, u.pup, u.down} \ {None}

\* The flows are those of the sessions, one for each endpoint.
FlowsOK(s) ==
  /\ \A f \in s.flows : \E b \in Blocks : HasFlows(s, b) /\ f.in \in Ends(s.ue[b])
  /\ \A b \in Blocks : HasFlows(s, b) =>
       \A e \in Ends(s.ue[b]) : \E f \in s.flows : f.in = e
  /\ \A f, g \in s.flows : f.in = g.in => f = g

\* Two UEs have neither an IMSI nor an address in common.
DistinctOK(s) ==
  /\ IsInjective(s.pool)
  /\ \A b, c \in s.sgwRbt : s.ue[b].imsi = s.ue[c].imsi => b = c
  /\ \A b, c \in s.pgwRbt : s.ue[b].addr = s.ue[c].addr => b = c

\* The request q to a PGW is for the request r of the MME.
Serves(s, q, r) ==
  LET b == s.tun[q.chunk] IN
  /\ q.chunk \in s.s5Map
  /\ r # None
  /\ r.kind = q.kind
  /\ IF q.kind = "create"
     THEN s.ue[b].state = "WT_CREATE" /\ r.imsi = s.ue[b].imsi
     ELSE s.ue[b].state = "WT_DELETE" /\ r.teid = b

ServesOK(s, asked) ==
  /\ \A q \in s.sent : Serves(s, q, asked[q.trxn])
  /\ \A p, q \in s.sent : p.trxn = q.trxn \/ p.chunk = q.chunk => p = q

\* The MME waits for the answer to a Delete Session Request.
Leaving(asked, b) ==
  \E t \in Trxns : asked[t] # None /\ asked[t].kind = "delete" /\ asked[t].teid = b

\* What the MME knows of b is so.
KnownUe(s, asked, known, b) ==
  /\ Live(s, b) /\ s.ue[b].state = "WT_DELETE" => Leaving(asked, b)
  /\ known[b] # None /\ ~ Leaving(asked, b) =>
       /\ HasFlows(s, b) /\ s.ue[b].imsi = known[b].imsi
       /\ known[b].enb # None =>
            /\ s.ue[b].state \in Established
            /\ \E f \in s.flows : f.in = s.ue[b].down /\ f.out = known[b].enb

KnownOK(s, asked, known) == \A b \in Blocks : KnownUe(s, asked, known, b)

AnsweredOK(s, asked, e) ==
  \A t \in Trxns : asked[t] # None =>
    \/ \E q \in s.sent : q.trxn = t
    \/ e = "silent" /\ asked[t].kind = "delete"

Orderly(s, asked, known, e) ==
  /\ \A b \in Blocks : Live(s, b) => SessionOK(s, b)
  /\ FlowsOK(s) /\ DistinctOK(s) /\ ServesOK(s, asked)
  /\ KnownOK(s, asked, known) /\ AnsweredOK(s, asked, e)

OrderlyInv ==
  env # "faulty" =>
    /\ ~ sgw.aborted /\ faults = 0
    /\ Orderly(sgw, open, view, env)

-----------------------------------------------------------------------------
(* Lists without repetition *)

\* Taking the first element of a list without repetition.
LEMMA PopList ==
  ASSUME NEW S, NEW s \in Seq(S), s # <<>>, IsInjective(s)
  PROVE  /\ Head(s) \in S /\ Tail(s) \in Seq(S)
         /\ IsInjective(Tail(s))
         /\ InList(Head(s), s)
         /\ \A x : InList(x, Tail(s)) <=> InList(x, s) /\ x # Head(s)
<1>1. Len(s) \in Nat /\ Len(s) >= 1 /\ DOMAIN s = 1 .. Len(s) /\ Head(s) = s[1]
  BY EmptySeq
<1>2. /\ Head(s) \in S /\ Tail(s) \in Seq(S) /\ Len(Tail(s)) = Len(s) - 1
      /\ \A i \in 1 .. Len(s) - 1 : Tail(s)[i] = s[i + 1]
      /\ DOMAIN Tail(s) = 1 .. Len(s) - 1
  BY <1>1, HeadTailProperties
<1>3. IsInjective(Tail(s))
  BY <1>1, <1>2 DEF IsInjective
<1>4. ASSUME NEW x
      PROVE  InList(x, Tail(s)) <=> InList(x, s) /\ x # Head(s)
  <2>1. ASSUME NEW i \in DOMAIN Tail(s), Tail(s)[i] = x
        PROVE  (\E j \in DOMAIN s : s[j] = x) /\ x # Head(s)
    <3>1. i + 1 \in DOMAIN s /\ s[i + 1] = x /\ i + 1 # 1
      BY <1>1, <1>2, <2>1
    <3> QED BY <1>1, <3>1 DEF IsInjective
  <2>2. ASSUME NEW i \in DOMAIN s, s[i] = x, x # Head(s)
        PROVE  \E j \in DOMAIN Tail(s) : Tail(s)[j] = x
    <3>1. i - 1 \in DOMAIN Tail(s) /\ Tail(s)[i - 1] = s[i]
      BY <1>1, <1>2, <2>2
    <3> QED BY <2>2, <3>1
  <2> QED BY <2>1, <2>2 DEF InList
<1>5. InList(Head(s), s)
  BY <1>1 DEF InList
<1> QED BY <1>1, <1>2, <1>3, <1>4, <1>5

\* Putting an element that is not in a list without repetition before it.
LEMMA PushList ==
  ASSUME NEW S, NEW s \in Seq(S), IsInjective(s), NEW a \in S, ~ InList(a, s)
  PROVE  /\ <<a>> \o s \in Seq(S)
         /\ IsInjective(<<a>> \o s)
         /\ \A x : InList(x, <<a>> \o s) <=> InList(x, s) \/ x = a
<1> DEFINE t == <<a>> \o s
<1>1. Len(s) \in Nat /\ DOMAIN s = 1 .. Len(s)
  OBVIOUS
<1>2. /\ t \in Seq(S) /\ Len(t) = Len(s) + 1 /\ DOMAIN t = 1 .. Len(s) + 1
      /\ t[1] = a /\ \A i \in 1 .. Len(s) : t[i + 1] = s[i]
  BY <1>1
<1> HIDE DEF t
<1>3. \A i \in DOMAIN t : i # 1 => i - 1 \in DOMAIN s /\ t[i] = s[i - 1]
  <2>1. ASSUME NEW i \in 1 .. Len(s) + 1, i # 1
        PROVE  i - 1 \in 1 .. Len(s) /\ t[i] = s[i - 1]
    <3>1. i - 1 \in 1 .. Len(s) /\ (i - 1) + 1 = i
      BY <1>1, <2>1
    <3>2. \A j \in 1 .. Len(s) : t[j + 1] = s[j]
      BY <1>2
    <3>3. t[(i - 1) + 1] = s[i - 1]
      BY <3>1, <3>2
    <3> QED BY <3>1, <3>3
  <2> QED BY <1>1, <1>2, <2>1
<1>0. \A i \in DOMAIN s : s[i] # a
  BY DEF InList
<1>4. IsInjective(t)
  <2> SUFFICES ASSUME NEW i \in DOMAIN t, NEW j \in DOMAIN t, t[i] = t[j]
               PROVE  i = j
    BY DEF IsInjective
  <2>1. CASE i = 1 \/ j = 1
    BY <1>0, <1>2, <1>3, <2>1
  <2>2. CASE i # 1 /\ j # 1
    <3>1. i - 1 = j - 1
      BY <1>3, <2>2 DEF IsInjective
    <3> QED BY <1>1, <1>2, <3>1
  <2> QED BY <2>1, <2>2
<1>5. ASSUME NEW x
      PROVE  InList(x, t) <=> InList(x, s) \/ x = a
  <2>1. ASSUME NEW i \in DOMAIN t, t[i] = x PROVE (\E j \in DOMAIN s : s[j] = x) \/ x = a
    BY <1>2, <1>3, <2>1
  <2>2. ASSUME NEW i \in DOMAIN s, s[i] = x PROVE \E j \in DOMAIN t : t[j] = x
    <3>1. i + 1 \in DOMAIN t /\ t[i + 1] = x
      BY <1>1, <1>2, <2>2
    <3> QED BY <3>1
  <2>3. 1 \in DOMAIN t /\ t[1] = a
    BY <1>1, <1>2
  <2> QED BY <2>1, <2>2, <2>3 DEF InList
<1> QED BY <1>2, <1>4, <1>5 DEF t

-----------------------------------------------------------------------------
(* What the operators do to the program *)

SameMemory(s, t) == t.mem = s.mem /\ t.memPool = s.memPool

SameRegistry(s, t) == t.sgwRbt = s.sgwRbt /\ t.pgwRbt = s.pgwRbt /\ t.pool = s.pool

SameTunnels(s, t) ==
  t.tun = s.tun /\ t.tunPool = s.tunPool /\ t.s11Map = s.s11Map /\ t.s5Map = s.s5Map

\* Nothing but UEs, flows and the answer.
SameBases(s, t) ==
  SameMemory(s, t) /\ SameRegistry(s, t) /\ SameTunnels(s, t) /\ t.sent = s.sent

LEMMA RequireEffect ==
  ASSUME NEW s \in Program, NEW c
  PROVE  /\ Require(s, c) \in Program
         /\ Require(s, c).aborted <=> s.aborted \/ ~ c
         /\ SameBases(s, Require(s, c))
         /\ Require(s, c).ue = s.ue
         /\ Require(s, c).flows = s.flows
         /\ Require(s, c).answer = s.answer
  BY DEF Require, Abort, Program, SameBases, SameMemory, SameRegistry, SameTunnels

\* Fields of a UE.
LEMMA GotoEffect ==
  ASSUME NEW s \in Program, NEW b \in Blocks, NEW state \in States
  PROVE  /\ Goto(s, b, state) \in Program
         /\ Goto(s, b, state).aborted = s.aborted
         /\ SameBases(s, Goto(s, b, state))
         /\ Goto(s, b, state).ue = [s.ue EXCEPT ![b].state = state]
         /\ Goto(s, b, state).flows = s.flows
         /\ Goto(s, b, state).answer = s.answer
<1>1. s.ue \in [Blocks -> UeRecord]
  BY DEF Program
<1>2. [s.ue[b] EXCEPT !.state = state] \in UeRecord
  BY <1>1 DEF UeRecord
<1>3. [s.ue EXCEPT ![b].state = state] \in [Blocks -> UeRecord]
  BY <1>1, <1>2
<1> QED BY <1>3 DEF Goto, Set, Program, SameBases, SameMemory, SameRegistry, SameTunnels

LEMMA ImsiEffect ==
  ASSUME NEW s \in Program, NEW b \in Blocks, NEW imsi \in Imsis \cup {None}
  PROVE  LET t == Set(s, b, "imsi", imsi) IN
         /\ t \in Program /\ t.aborted = s.aborted
         /\ SameBases(s, t) /\ t.flows = s.flows /\ t.answer = s.answer
         /\ t.ue = [s.ue EXCEPT ![b].imsi = imsi]
<1>1. s.ue \in [Blocks -> UeRecord]
  BY DEF Program
<1>2. [s.ue[b] EXCEPT !.imsi = imsi] \in UeRecord
  BY <1>1 DEF UeRecord
<1>3. [s.ue EXCEPT ![b].imsi = imsi] \in [Blocks -> UeRecord]
  BY <1>1, <1>2
<1> QED BY <1>3 DEF Set, Program, SameBases, SameMemory, SameRegistry, SameTunnels

LEMMA EbiEffect ==
  ASSUME NEW s \in Program, NEW b \in Blocks, NEW ebi \in Ebis
  PROVE  LET t == Set(s, b, "ebi", ebi) IN
         /\ t \in Program /\ t.aborted = s.aborted
         /\ SameBases(s, t) /\ t.flows = s.flows /\ t.answer = s.answer
         /\ t.ue = [s.ue EXCEPT ![b].ebi = ebi]
<1>1. s.ue \in [Blocks -> UeRecord]
  BY DEF Program
<1>2. [s.ue[b] EXCEPT !.ebi = ebi] \in UeRecord
  BY <1>1 DEF UeRecord
<1>3. [s.ue EXCEPT ![b].ebi = ebi] \in [Blocks -> UeRecord]
  BY <1>1, <1>2
<1> QED BY <1>3 DEF Set, Program, SameBases, SameMemory, SameRegistry, SameTunnels

LEMMA S11Effect ==
  ASSUME NEW s \in Program, NEW b \in Blocks, NEW c \in Chunks \cup {None, Garbage}
  PROVE  LET t == Set(s, b, "s11", c) IN
         /\ t \in Program /\ t.aborted = s.aborted
         /\ SameBases(s, t) /\ t.flows = s.flows /\ t.answer = s.answer
         /\ t.ue = [s.ue EXCEPT ![b].s11 = c]
<1>1. s.ue \in [Blocks -> UeRecord]
  BY DEF Program
<1>2. [s.ue[b] EXCEPT !.s11 = c] \in UeRecord
  BY <1>1 DEF UeRecord
<1>3. [s.ue EXCEPT ![b].s11 = c] \in [Blocks -> UeRecord]
  BY <1>1, <1>2
<1> QED BY <1>3 DEF Set, Program, SameBases, SameMemory, SameRegistry, SameTunnels

\* The data plane.
LEMMA GtpuFlowEffect ==
  ASSUME NEW s \in Program, NEW in \in Endpoint,
         NEW out \in ENodeBs \cup {"ip", "pgw", None, Garbage},
         NEW t, t = GtpuFlow(s, in, out)
  PROVE  /\ t \in Program /\ SameBases(s, t) /\ t.ue = s.ue /\ t.answer = s.answer
         /\ t.aborted <=> \/ s.aborted \/ out = None
                          \/ \E f \in s.flows : f.in = in
         /\ (\E f \in s.flows : f.in = in) => t.flows = s.flows
         /\ (\A f \in s.flows : f.in # in) => t.flows = s.flows \cup {[in |-> in, out |-> out]}
<1> DEFINE free == \A f \in s.flows : f.in # in
           r == Require(s, free /\ out # None)
<1>1. /\ r \in Program /\ r.flows = s.flows /\ SameBases(s, r) /\ r.ue = s.ue
      /\ r.answer = s.answer
      /\ r.aborted <=> s.aborted \/ ~ (free /\ out # None)
  BY RequireEffect
<1>2. s.flows \cup {[in |-> in, out |-> out]} \in
        SUBSET [in : Endpoint, out : ENodeBs \cup {"ip", "pgw", None, Garbage}]
  BY DEF Program
<1>3. GtpuFlow(s, in, out) =
        [r EXCEPT !.flows = IF free THEN r.flows \cup {[in |-> in, out |-> out]} ELSE r.flows]
  BY DEF GtpuFlow
<1> HIDE DEF r, free
<1>4. [r EXCEPT !.flows = IF free THEN s.flows \cup {[in |-> in, out |-> out]} ELSE s.flows]
        \in Program
  BY <1>1, <1>2 DEF Program
<1>5. QED
  BY ZenonT(60), <1>1, <1>3, <1>4
  DEF free, Program, SameBases, SameMemory, SameRegistry, SameTunnels

LEMMA DestroyFlowEffect ==
  ASSUME NEW s \in Program, NEW h \in Endpoint \cup {None}
  PROVE  LET t == DestroyFlow(s, h) IN
         /\ t \in Program
         /\ t.aborted <=> s.aborted \/ (h # None /\ \A f \in s.flows : f.in # h)
         /\ SameBases(s, t) /\ t.ue = s.ue /\ t.answer = s.answer
         /\ t.flows = {f \in s.flows : f.in # h}
<1> DEFINE found == {f \in s.flows : f.in = h}
           r == Require(s, found # {})
<1>1. /\ r \in Program /\ r.flows = s.flows /\ SameBases(s, r) /\ r.ue = s.ue
      /\ r.answer = s.answer
      /\ r.aborted <=> s.aborted \/ found = {}
  BY RequireEffect
<1>2. DestroyFlow(s, h) = IF h = None THEN s ELSE [r EXCEPT !.flows = r.flows \ found]
  BY DEF DestroyFlow
<1>3. CASE h = None
  <2>1. \A f \in s.flows : f.in \in Endpoint
    BY DEF Program
  <2>2. s.flows = {f \in s.flows : f.in # h}
    BY <1>3, <2>1, NoneAssumption
  <2> QED BY <1>2, <1>3, <2>2 DEF SameBases, SameMemory, SameRegistry, SameTunnels
<1>4. CASE h # None
  <2>1. r.flows \ found = {f \in s.flows : f.in # h}
    BY <1>1
  <2>2. found = {} <=> \A f \in s.flows : f.in # h
    OBVIOUS
  <2>3. {f \in s.flows : f.in # h} \in SUBSET s.flows
    OBVIOUS
  <2> HIDE DEF r, found
  <2>4. [r EXCEPT !.flows = {f \in s.flows : f.in # h}] \in Program
    BY <1>1, <2>3 DEF Program
  <2> QED BY ZenonT(60), <1>1, <1>2, <1>4, <2>1, <2>2, <2>4
          DEF Program, SameBases, SameMemory, SameRegistry, SameTunnels
<1> QED BY <1>3, <1>4

\* A second answer in one handler would go through a freed transaction.
LEMMA AnswerEffect ==
  ASSUME NEW s \in Program, NEW t \in Trxns, NEW b \in Blocks, NEW cause \in Causes
  PROVE  LET r == Answer(s, t, b, cause) IN
         /\ r \in Program
         /\ r.aborted <=> s.aborted \/ s.answer # None
         /\ SameBases(s, r) /\ r.ue = s.ue /\ r.flows = s.flows
         /\ r.answer = [trxn |-> t, ue |-> b, cause |-> cause]
<1> DEFINE r == Require(s, s.answer = None)
<1>1. /\ r \in Program /\ r.flows = s.flows /\ SameBases(s, r) /\ r.ue = s.ue
      /\ r.aborted <=> s.aborted \/ s.answer # None
  BY RequireEffect
<1>2. Answer(s, t, b, cause) = [r EXCEPT !.answer = [trxn |-> t, ue |-> b, cause |-> cause]]
  BY DEF Answer
<1>3. [trxn |-> t, ue |-> b, cause |-> cause] \in AnswerToMme
  BY DEF AnswerToMme
<1> HIDE DEF r
<1> QED BY ZenonT(60), <1>1, <1>2, <1>3 DEF Program, SameBases, SameMemory, SameRegistry, SameTunnels

\* The registries.
LEMMA RegisterSgwEffect ==
  ASSUME NEW s \in Program, NEW b \in Blocks
  PROVE  LET t == RegisterSgw(s, b) IN
         /\ t \in Program /\ t.aborted = s.aborted
         /\ SameMemory(s, t) /\ SameTunnels(s, t) /\ t.sent = s.sent
         /\ t.flows = s.flows /\ t.answer = s.answer
         /\ t.sgwRbt = s.sgwRbt \cup {b} /\ t.pgwRbt = s.pgwRbt /\ t.pool = s.pool
         /\ t.ue = [s.ue EXCEPT ![b].sgw = TRUE]
<1>1. s.ue \in [Blocks -> UeRecord]
  BY DEF Program
<1>2. [s.ue[b] EXCEPT !.sgw = TRUE] \in UeRecord
  BY ZenonT(60), <1>1 DEF UeRecord
<1>3. [s.ue EXCEPT ![b].sgw = TRUE] \in [Blocks -> UeRecord]
  BY <1>1, <1>2
<1> QED BY <1>3 DEF RegisterSgw, Program, SameMemory, SameTunnels

LEMMA SgwDeregisterEffect ==
  ASSUME NEW s \in Program, NEW b \in Blocks
  PROVE  LET t == SgwDeregister(s, b) IN
         /\ t \in Program
         /\ t.aborted <=> s.aborted \/ b \notin s.sgwRbt
         /\ SameMemory(s, t) /\ SameTunnels(s, t) /\ t.sent = s.sent
         /\ t.flows = s.flows /\ t.answer = s.answer
         /\ t.sgwRbt = s.sgwRbt \ {b} /\ t.pgwRbt = s.pgwRbt /\ t.pool = s.pool
         /\ t.ue = [s.ue EXCEPT ![b].sgw = FALSE]
<1> DEFINE r == Require(s, b \in s.sgwRbt)
<1>1. /\ r \in Program /\ r.flows = s.flows /\ SameBases(s, r) /\ r.ue = s.ue
      /\ r.answer = s.answer
      /\ r.aborted <=> s.aborted \/ b \notin s.sgwRbt
  BY RequireEffect
<1>2. SgwDeregister(s, b) = [r EXCEPT !.sgwRbt = r.sgwRbt \ {b}, !.ue[b].sgw = FALSE]
  BY DEF SgwDeregister
<1>3. s.ue \in [Blocks -> UeRecord]
  BY DEF Program
<1>4. [s.ue[b] EXCEPT !.sgw = FALSE] \in UeRecord
  BY ZenonT(60), <1>3 DEF UeRecord
<1>5. [s.ue EXCEPT ![b].sgw = FALSE] \in [Blocks -> UeRecord]
  BY <1>3, <1>4
<1>6. SgwDeregister(s, b) =
        [r EXCEPT !.sgwRbt = s.sgwRbt \ {b}, !.ue = [s.ue EXCEPT ![b].sgw = FALSE]]
  BY <1>1, <1>2 DEF SameBases, SameRegistry, Program
<1> HIDE DEF r
<1> QED BY ZenonT(60), <1>1, <1>5, <1>6 DEF Program, SameBases, SameMemory, SameRegistry, SameTunnels

LEMMA RegisterPgwEffect ==
  ASSUME NEW s \in Program, NEW b \in Blocks
  PROVE  LET t == RegisterPgw(s, b) 
             addr == IF s.pool = <<>> THEN None ELSE Head(s.pool) IN
         /\ t \in Program /\ t.aborted = s.aborted
         /\ SameMemory(s, t) /\ SameTunnels(s, t) /\ t.sent = s.sent
         /\ t.flows = s.flows /\ t.answer = s.answer
         /\ t.sgwRbt = s.sgwRbt /\ t.pgwRbt = s.pgwRbt \cup {b}
         /\ t.pool = IF s.pool = <<>> THEN s.pool ELSE Tail(s.pool)
         /\ t.ue = [s.ue EXCEPT ![b].pgw = TRUE, ![b].addr = addr]
         /\ addr \in LocalPool \cup {None}
<1> DEFINE addr == IF s.pool = <<>> THEN None ELSE Head(s.pool)
           pool == IF s.pool = <<>> THEN s.pool ELSE Tail(s.pool)
<1>1. s.ue \in [Blocks -> UeRecord] /\ s.pool \in Seq(LocalPool)
  BY DEF Program
<1>2. addr \in LocalPool \cup {None} /\ pool \in Seq(LocalPool)
  BY <1>1
<1> HIDE DEF addr, pool
<1>3. [s.ue[b] EXCEPT !.pgw = TRUE, !.addr = addr] \in UeRecord
  BY ZenonT(60), <1>1, <1>2 DEF UeRecord
<1>4. [s.ue EXCEPT ![b].pgw = TRUE, ![b].addr = addr] =
        [s.ue EXCEPT ![b] = [s.ue[b] EXCEPT !.pgw = TRUE, !.addr = addr]]
  BY <1>1
<1>5. [s.ue EXCEPT ![b].pgw = TRUE, ![b].addr = addr] \in [Blocks -> UeRecord]
  BY <1>1, <1>3, <1>4
<1>6. RegisterPgw(s, b) = [s EXCEPT !.pgwRbt = s.pgwRbt \cup {b}, !.pool = pool,
                                    !.ue = [s.ue EXCEPT ![b].pgw = TRUE, ![b].addr = addr]]
  BY DEF RegisterPgw, Program, addr, pool
<1>7. [s EXCEPT !.pgwRbt = s.pgwRbt \cup {b}, !.pool = pool,
                !.ue = [s.ue EXCEPT ![b].pgw = TRUE, ![b].addr = addr]] \in Program
  BY <1>2, <1>5 DEF Program
<1> DEFINE ue == [s.ue EXCEPT ![b].pgw = TRUE, ![b].addr = addr]
           t == [s EXCEPT !.pgwRbt = s.pgwRbt \cup {b}, !.pool = pool, !.ue = ue]
<1>8. t = RegisterPgw(s, b) /\ t \in Program
  BY <1>6, <1>7
<1> HIDE DEF ue
<1>9. /\ t.aborted = s.aborted /\ t.mem = s.mem /\ t.memPool = s.memPool /\ t.sent = s.sent
      /\ t.tun = s.tun /\ t.tunPool = s.tunPool /\ t.s11Map = s.s11Map /\ t.s5Map = s.s5Map
      /\ t.flows = s.flows /\ t.answer = s.answer
      /\ t.sgwRbt = s.sgwRbt /\ t.pgwRbt = s.pgwRbt \cup {b}
      /\ t.pool = pool /\ t.ue = ue
  BY DEF Program
<1> HIDE DEF t
<1>10. SameMemory(s, t) /\ SameTunnels(s, t)
  BY Zenon, <1>9 DEF SameMemory, SameTunnels
<1> QED BY ZenonT(30), <1>2, <1>8, <1>9, <1>10 DEF addr, pool, ue

LEMMA PgwDeregisterEffect ==
  ASSUME NEW s \in Program, NEW b \in Blocks
  PROVE  LET t == PgwDeregister(s, b) IN
         /\ t \in Program
         /\ t.aborted <=> s.aborted \/ ~ s.ue[b].hPgw \/ b \notin s.pgwRbt
         /\ SameMemory(s, t) /\ SameTunnels(s, t) /\ t.sent = s.sent
         /\ t.flows = s.flows /\ t.answer = s.answer
         /\ t.sgwRbt = s.sgwRbt /\ t.pgwRbt = s.pgwRbt \ {b}
         /\ t.pool = IF s.ue[b].addr = None THEN s.pool ELSE <<s.ue[b].addr>> \o s.pool
         /\ t.ue = [s.ue EXCEPT ![b].pgw = FALSE]
<1> DEFINE r == Require(s, s.ue[b].hPgw /\ b \in s.pgwRbt)
           pool == IF s.ue[b].addr = None THEN s.pool ELSE <<s.ue[b].addr>> \o s.pool
           ue == [s.ue EXCEPT ![b].pgw = FALSE]
<1>1. /\ r \in Program /\ r.flows = s.flows /\ SameBases(s, r) /\ r.ue = s.ue
      /\ r.answer = s.answer
      /\ r.aborted <=> s.aborted \/ ~ (s.ue[b].hPgw /\ b \in s.pgwRbt)
  BY RequireEffect
<1>2. s.ue \in [Blocks -> UeRecord] /\ s.pool \in Seq(LocalPool)
  BY DEF Program
<1>3. s.ue[b].addr \in LocalPool \cup {None}
  BY <1>2 DEF UeRecord
<1>4. pool \in Seq(LocalPool)
  BY <1>2, <1>3
<1>5. [s.ue[b] EXCEPT !.pgw = FALSE] \in UeRecord
  BY ZenonT(60), <1>2 DEF UeRecord
<1>6. ue \in [Blocks -> UeRecord]
  BY <1>2, <1>5
<1>7. PgwDeregister(s, b) = [r EXCEPT !.pgwRbt = s.pgwRbt \ {b}, !.ue = ue, !.pool = pool]
  BY <1>1 DEF PgwDeregister, SameBases, SameRegistry, Program
<1> HIDE DEF r, pool, ue
<1>8. [r EXCEPT !.pgwRbt = s.pgwRbt \ {b}, !.ue = ue, !.pool = pool] \in Program
  BY <1>1, <1>4, <1>6 DEF Program, SameBases, SameRegistry
<1> QED BY ZenonT(60), <1>1, <1>7, <1>8
        DEF pool, ue, Program, SameBases, SameMemory, SameRegistry, SameTunnels

\* The memory of UEs.
LEMMA NewUeEffect ==
  ASSUME NEW s \in Program, HasMemory(s), MemoryOK(s)
  PROVE  LET t == NewUe(s).state
             b == NewUe(s).block IN
         /\ t \in Program /\ t.aborted = s.aborted
         /\ b \in Blocks /\ ~ Live(s, b)
         /\ SameRegistry(s, t) /\ SameTunnels(s, t) /\ t.sent = s.sent
         /\ t.flows = s.flows /\ t.answer = s.answer
         /\ t.mem = [s.mem EXCEPT ![b] = "allocated"]
         /\ t.ue = [s.ue EXCEPT ![b] = BlankUe]
         /\ MemoryOK(t)
<1> DEFINE b == NewUe(s).block
           t == NewUe(s).state
           pool == IF s.memPool = <<>> THEN s.memPool ELSE Tail(s.memPool)
<1>1. /\ b = IF s.memPool # <<>> THEN Head(s.memPool)
             ELSE CHOOSE x \in Blocks : s.mem[x] = "fresh"
      /\ t = [s EXCEPT !.mem[b] = "allocated", !.ue[b] = BlankUe, !.memPool = pool]
  BY DEF NewUe
<1>2. /\ s.memPool \in Seq(Blocks) /\ s.ue \in [Blocks -> UeRecord]
      /\ s.mem \in [Blocks -> {"fresh", "allocated", "free"}]
  BY DEF Program
<1>3. /\ b \in Blocks /\ s.mem[b] # "allocated"
      /\ pool \in Seq(Blocks) /\ IsInjective(pool)
      /\ \A x : InList(x, pool) => InList(x, s.memPool) /\ x # b
  <2>1. CASE s.memPool # <<>>
    <3>1. /\ Head(s.memPool) \in Blocks /\ Tail(s.memPool) \in Seq(Blocks)
          /\ IsInjective(Tail(s.memPool)) /\ InList(Head(s.memPool), s.memPool)
          /\ \A x : InList(x, Tail(s.memPool)) <=> InList(x, s.memPool) /\ x # Head(s.memPool)
      BY <1>2, <2>1, PopList DEF MemoryOK
    <3>2. b = Head(s.memPool) /\ pool = Tail(s.memPool)
      BY <1>1, <2>1
    <3> QED BY <3>1, <3>2 DEF MemoryOK
  <2>2. CASE s.memPool = <<>>
    <3>1. \E x \in Blocks : s.mem[x] = "fresh"
      BY <2>2 DEF HasMemory
    <3>2. b \in Blocks /\ s.mem[b] = "fresh"
      BY <1>1, <2>2, <3>1
    <3>3. pool = s.memPool /\ \A x : ~ InList(x, pool)
      BY <2>2 DEF InList
    <3> QED BY <1>2, <3>2, <3>3 DEF MemoryOK
  <2> QED BY <2>1, <2>2
<1> HIDE DEF b, t, pool
<1>4. BlankUe \in UeRecord
  BY DEF BlankUe, UeRecord, States
<1>5. /\ [s.mem EXCEPT ![b] = "allocated"] \in [Blocks -> {"fresh", "allocated", "free"}]
      /\ [s.ue EXCEPT ![b] = BlankUe] \in [Blocks -> UeRecord]
  BY <1>2, <1>3, <1>4
<1>6. t = [s EXCEPT !.mem = [s.mem EXCEPT ![b] = "allocated"],
                    !.ue = [s.ue EXCEPT ![b] = BlankUe], !.memPool = pool]
  BY <1>1 DEF Program
<1>7. t \in Program
  BY <1>3, <1>5, <1>6 DEF Program
<1>8. /\ t.mem = [s.mem EXCEPT ![b] = "allocated"] /\ t.memPool = pool
      /\ t.ue = [s.ue EXCEPT ![b] = BlankUe]
      /\ t.aborted = s.aborted /\ SameRegistry(s, t) /\ SameTunnels(s, t)
      /\ t.sent = s.sent /\ t.flows = s.flows /\ t.answer = s.answer
  BY <1>6 DEF Program, SameRegistry, SameTunnels
<1>9. MemoryOK(t)
  BY <1>2, <1>3, <1>8 DEF MemoryOK
<1> QED BY <1>3, <1>7, <1>8, <1>9 DEF Live, b, t

LEMMA OneToOne ==
  ASSUME NEW S, NEW T, NEW g, \A x \in S : g[x] \in T, \A x, y \in S : g[x] = g[y] => x = y
  PROVE  [x \in S |-> g[x]] \in Injection(S, T)
<1> DEFINE f == [x \in S |-> g[x]]
<1>1. f \in [S -> T] /\ \A x, y \in S : f[x] = f[y] => x = y
  OBVIOUS
<1>2. f \in Injection(S, T)
  <2> HIDE DEF f
  <2> QED BY <1>1 DEF Injection, IsInjective
<1> QED BY <1>2

\* Each UE in memory has at most one tunnel in either map.
LEMMA RoomForTunnel ==
  ASSUME NEW s \in Program, TunnelsOK(s)
  PROVE  \E c \in Chunks : c \notin s.s11Map \cup s.s5Map
<1>1. /\ s.s11Map \subseteq Chunks /\ s.s5Map \subseteq Chunks
      /\ s.tun \in [Chunks -> Blocks \cup {None}]
  BY DEF Program
<1>2. IsFiniteSet(Blocks) /\ IsFiniteSet(Chunks) /\ Cardinality(Chunks) > 2 * Cardinality(Blocks)
  BY SgwAssumption
<1>3. [c \in s.s11Map |-> s.tun[c]] \in Injection(s.s11Map, Blocks)
  <2>1. \A c \in s.s11Map : s.tun[c] \in Blocks
    BY DEF TunnelsOK
  <2>2. \A c, d \in s.s11Map : s.tun[c] = s.tun[d] => c = d
    BY DEF TunnelsOK
  <2> QED BY <2>1, <2>2, OneToOne
<1>4. [c \in s.s5Map |-> s.tun[c]] \in Injection(s.s5Map, Blocks)
  <2>1. \A c \in s.s5Map : s.tun[c] \in Blocks
    BY DEF TunnelsOK
  <2>2. \A c, d \in s.s5Map : s.tun[c] = s.tun[d] => c = d
    BY DEF TunnelsOK
  <2> QED BY <2>1, <2>2, OneToOne
<1>5. IsFiniteSet(s.s11Map) /\ Cardinality(s.s11Map) <= Cardinality(Blocks)
  BY <1>2, <1>3, FS_Injection
<1>6. IsFiniteSet(s.s5Map) /\ Cardinality(s.s5Map) <= Cardinality(Blocks)
  BY <1>2, <1>4, FS_Injection
<1>7. /\ IsFiniteSet(s.s11Map \cup s.s5Map)
      /\ Cardinality(s.s11Map \cup s.s5Map) =
           Cardinality(s.s11Map) + Cardinality(s.s5Map) - Cardinality(s.s11Map \cap s.s5Map)
  BY <1>5, <1>6, FS_Union
<1>8. Cardinality(s.s11Map \cap s.s5Map) = 0
  BY FS_EmptySet DEF TunnelsOK, ChunksOK
<1>9. /\ Cardinality(Blocks) \in Nat /\ Cardinality(Chunks) \in Nat
      /\ Cardinality(s.s11Map) \in Nat /\ Cardinality(s.s5Map) \in Nat
  BY <1>2, <1>5, <1>6, FS_CardinalityType
<1>10. Cardinality(s.s11Map \cup s.s5Map) < Cardinality(Chunks)
  BY <1>2, <1>5, <1>6, <1>7, <1>8, <1>9
<1>11. s.s11Map \cup s.s5Map # Chunks
  <2> SUFFICES ASSUME s.s11Map \cup s.s5Map = Chunks PROVE FALSE
    OBVIOUS
  <2>1. Cardinality(Chunks) < Cardinality(Chunks)
    BY <1>10, Zenon
  <2> QED BY <1>9, <2>1
<1> QED BY <1>1, <1>11

\* The chunk that is taken, and what is left.
LEMMA NextChunk ==
  ASSUME NEW s \in Program, TunnelsOK(s)
  PROVE  LET c == IF s.tunPool # <<>> THEN Head(s.tunPool)
                  ELSE CHOOSE x \in Chunks : x \notin s.s11Map \cup s.s5Map
             pool == IF s.tunPool = <<>> THEN s.tunPool ELSE Tail(s.tunPool) IN
         /\ c \in Chunks /\ c \notin s.s11Map \cup s.s5Map
         /\ pool \in Seq(Chunks) /\ IsInjective(pool)
         /\ \A x : InList(x, pool) => InList(x, s.tunPool) /\ x # c
<1> DEFINE c == IF s.tunPool # <<>> THEN Head(s.tunPool)
                ELSE CHOOSE x \in Chunks : x \notin s.s11Map \cup s.s5Map
           pool == IF s.tunPool = <<>> THEN s.tunPool ELSE Tail(s.tunPool)
<1>1. s.tunPool \in Seq(Chunks) /\ IsInjective(s.tunPool)
  BY DEF Program, TunnelsOK, ChunksOK
<1>2. CASE s.tunPool # <<>>
  <2>1. /\ Head(s.tunPool) \in Chunks /\ Tail(s.tunPool) \in Seq(Chunks)
        /\ IsInjective(Tail(s.tunPool)) /\ InList(Head(s.tunPool), s.tunPool)
        /\ \A x : InList(x, Tail(s.tunPool)) <=> InList(x, s.tunPool) /\ x # Head(s.tunPool)
    BY <1>1, <1>2, PopList
  <2> QED BY <1>2, <2>1 DEF TunnelsOK, ChunksOK
<1>3. CASE s.tunPool = <<>>
  <2>1. \E x \in Chunks : x \notin s.s11Map \cup s.s5Map
    BY RoomForTunnel
  <2>2. c \in Chunks /\ c \notin s.s11Map \cup s.s5Map
    BY <1>3, <2>1
  <2>3. \A x : ~ InList(x, pool)
    BY <1>3 DEF InList
  <2> QED BY <1>1, <1>3, <2>2, <2>3
<1> QED BY <1>2, <1>3

LEMMA CreateS11Effect ==
  ASSUME NEW s \in Program, TunnelsOK(s), NEW b \in Blocks
  PROVE  LET t == CreateTunnel(s, b, "s11Map").state
             c == CreateTunnel(s, b, "s11Map").chunk IN
         /\ t \in Program
         /\ t.aborted <=> s.aborted \/ \E d \in s.s11Map : s.tun[d] = b
         /\ c \in Chunks /\ c \notin s.s11Map \cup s.s5Map
         /\ SameMemory(s, t) /\ SameRegistry(s, t) /\ t.sent = s.sent
         /\ t.ue = s.ue /\ t.flows = s.flows /\ t.answer = s.answer
         /\ t.tun = [s.tun EXCEPT ![c] = b]
         /\ t.s11Map = s.s11Map \cup {c} /\ t.s5Map = s.s5Map
         /\ IsInjective(t.tunPool)
         /\ \A x : InList(x, t.tunPool) => InList(x, s.tunPool) /\ x # c
<1> DEFINE c == IF s.tunPool # <<>> THEN Head(s.tunPool)
                ELSE CHOOSE x \in Chunks : x \notin s.s11Map \cup s.s5Map
           pool == IF s.tunPool = <<>> THEN s.tunPool ELSE Tail(s.tunPool)
           t == [s EXCEPT !.tun = [s.tun EXCEPT ![c] = b], !.tunPool = pool,
                          !.s11Map = s.s11Map \cup {c}]
           r == CreateTunnel(s, b, "s11Map")
           free == \A d \in s.s11Map : s.tun[d] # b
<1>1. /\ c \in Chunks /\ c \notin s.s11Map \cup s.s5Map
      /\ pool \in Seq(Chunks) /\ IsInjective(pool)
      /\ \A x : InList(x, pool) => InList(x, s.tunPool) /\ x # c
  BY NextChunk
<1>2. r.chunk = c
  BY DEF CreateTunnel
<1>3. r.state = Require(t, free)
  BY DEF CreateTunnel, Program
<1> HIDE DEF c, pool, r, free
<1>4. [s.tun EXCEPT ![c] = b] \in [Chunks -> Blocks \cup {None}] /\ s.s11Map \cup {c} \subseteq Chunks
  BY <1>1 DEF Program
<1>5. t \in Program
  BY <1>1, <1>4 DEF Program
<1>6. /\ t.tun = [s.tun EXCEPT ![c] = b] /\ t.tunPool = pool /\ t.s11Map = s.s11Map \cup {c}
      /\ t.s5Map = s.s5Map /\ t.aborted = s.aborted /\ t.sent = s.sent /\ t.ue = s.ue
      /\ t.flows = s.flows /\ t.answer = s.answer /\ SameMemory(s, t) /\ SameRegistry(s, t)
  BY DEF Program, SameMemory, SameRegistry
<1> HIDE DEF t
<1>7. /\ r.state \in Program
      /\ r.state.aborted <=> t.aborted \/ ~ free
      /\ SameBases(t, r.state) /\ r.state.ue = t.ue /\ r.state.flows = t.flows
      /\ r.state.answer = t.answer
  BY <1>3, <1>5, RequireEffect
<1> QED BY <1>1, <1>2, <1>6, <1>7
        DEF SameBases, SameMemory, SameRegistry, SameTunnels, r, free

LEMMA CreateS5Effect ==
  ASSUME NEW s \in Program, TunnelsOK(s), NEW b \in Blocks
  PROVE  LET t == CreateTunnel(s, b, "s5Map").state
             c == CreateTunnel(s, b, "s5Map").chunk IN
         /\ t \in Program
         /\ t.aborted <=> s.aborted \/ \E d \in s.s5Map : s.tun[d] = b
         /\ c \in Chunks /\ c \notin s.s11Map \cup s.s5Map
         /\ SameMemory(s, t) /\ SameRegistry(s, t) /\ t.sent = s.sent
         /\ t.ue = s.ue /\ t.flows = s.flows /\ t.answer = s.answer
         /\ t.tun = [s.tun EXCEPT ![c] = b]
         /\ t.s5Map = s.s5Map \cup {c} /\ t.s11Map = s.s11Map
         /\ IsInjective(t.tunPool)
         /\ \A x : InList(x, t.tunPool) => InList(x, s.tunPool) /\ x # c
<1> DEFINE c == IF s.tunPool # <<>> THEN Head(s.tunPool)
                ELSE CHOOSE x \in Chunks : x \notin s.s11Map \cup s.s5Map
           pool == IF s.tunPool = <<>> THEN s.tunPool ELSE Tail(s.tunPool)
           t == [s EXCEPT !.tun = [s.tun EXCEPT ![c] = b], !.tunPool = pool,
                          !.s5Map = s.s5Map \cup {c}]
           r == CreateTunnel(s, b, "s5Map")
           free == \A d \in s.s5Map : s.tun[d] # b
<1>1. /\ c \in Chunks /\ c \notin s.s11Map \cup s.s5Map
      /\ pool \in Seq(Chunks) /\ IsInjective(pool)
      /\ \A x : InList(x, pool) => InList(x, s.tunPool) /\ x # c
  BY NextChunk
<1>2. r.chunk = c
  BY DEF CreateTunnel
<1>3. r.state = Require(t, free)
  BY DEF CreateTunnel, Program
<1> HIDE DEF c, pool, r, free
<1>4. [s.tun EXCEPT ![c] = b] \in [Chunks -> Blocks \cup {None}] /\ s.s5Map \cup {c} \subseteq Chunks
  BY <1>1 DEF Program
<1>5. t \in Program
  BY <1>1, <1>4 DEF Program
<1>6. /\ t.tun = [s.tun EXCEPT ![c] = b] /\ t.tunPool = pool /\ t.s5Map = s.s5Map \cup {c}
      /\ t.s11Map = s.s11Map /\ t.aborted = s.aborted /\ t.sent = s.sent /\ t.ue = s.ue
      /\ t.flows = s.flows /\ t.answer = s.answer /\ SameMemory(s, t) /\ SameRegistry(s, t)
  BY DEF Program, SameMemory, SameRegistry
<1> HIDE DEF t
<1>7. /\ r.state \in Program
      /\ r.state.aborted <=> t.aborted \/ ~ free
      /\ SameBases(t, r.state) /\ r.state.ue = t.ue /\ r.state.flows = t.flows
      /\ r.state.answer = t.answer
  BY <1>3, <1>5, RequireEffect
<1> QED BY <1>1, <1>2, <1>6, <1>7
        DEF SameBases, SameMemory, SameRegistry, SameTunnels, r, free

LEMMA DeleteS11Effect ==
  ASSUME NEW s \in Program, ChunksOK(s), NEW c \in Chunks \cup {None, Garbage}
  PROVE  LET t == DeleteTunnel(s, c, "s11Map") IN
         /\ t \in Program /\ ChunksOK(t)
         /\ t.aborted <=> s.aborted \/ (c # None /\ c \notin s.s11Map)
         /\ SameMemory(s, t) /\ SameRegistry(s, t) /\ t.sent = s.sent
         /\ t.ue = s.ue /\ t.flows = s.flows /\ t.answer = s.answer
         /\ t.s11Map = s.s11Map \ {c} /\ t.s5Map = s.s5Map
         /\ \A d \in Chunks : d # c => t.tun[d] = s.tun[d]
         /\ \A q \in s.sent : t.tun[q.chunk] = s.tun[q.chunk]
<1> DEFINE tun == [s.tun EXCEPT ![c] = IF \E q \in s.sent : q.chunk = c THEN s.tun[c] ELSE None]
           pool == <<c>> \o s.tunPool
           r == DeleteTunnel(s, c, "s11Map")
<1>1. /\ s.tun \in [Chunks -> Blocks \cup {None}] /\ s.s11Map \subseteq Chunks
      /\ s.tunPool \in Seq(Chunks) /\ s.sent \subseteq S5Request
      /\ None \notin Chunks /\ Garbage \notin Chunks
  BY SgwAssumption, NoneAssumption DEF Program
<1>2. CASE c = None
  <2>1. r = s
    BY <1>2 DEF DeleteTunnel
  <2>2. s.s11Map \ {c} = s.s11Map
    BY <1>1, <1>2
  <2> QED BY <1>2, <2>1, <2>2 DEF SameMemory, SameRegistry
<1>3. CASE c \in s.s11Map
  <2>1. c \in Chunks /\ c # None
    BY <1>1, <1>3
  <2>2. r = [s EXCEPT !.s11Map = s.s11Map \ {c}, !.tunPool = pool, !.tun = tun]
    BY Zenon, <1>3, <2>1 DEF DeleteTunnel, Program
  <2>3. ~ InList(c, s.tunPool)
    BY <1>3, <2>1 DEF ChunksOK
  <2>4. /\ pool \in Seq(Chunks) /\ IsInjective(pool)
        /\ \A x : InList(x, pool) <=> InList(x, s.tunPool) \/ x = c
    BY <1>1, <2>1, <2>3, PushList DEF ChunksOK
  <2>5. tun \in [Chunks -> Blocks \cup {None}]
    BY <1>1, <2>1
  <2>6. /\ \A d \in Chunks : d # c => tun[d] = s.tun[d]
        /\ \A q \in s.sent : tun[q.chunk] = s.tun[q.chunk]
    BY <1>1 DEF S5Request
  <2> HIDE DEF pool, tun, r
  <2>7. r \in Program
    BY <1>1, <2>2, <2>4, <2>5 DEF Program
  <2>8. /\ r.s11Map = s.s11Map \ {c} /\ r.tunPool = pool /\ r.tun = tun /\ r.s5Map = s.s5Map
        /\ r.aborted = s.aborted /\ r.sent = s.sent /\ r.ue = s.ue /\ r.flows = s.flows
        /\ r.answer = s.answer /\ SameMemory(s, r) /\ SameRegistry(s, r)
    BY <2>2 DEF Program, SameMemory, SameRegistry
  <2>9. ChunksOK(r)
    BY <1>3, <2>4, <2>8 DEF ChunksOK
  <2> QED BY <1>3, <2>6, <2>7, <2>8, <2>9 DEF r
<1>4. CASE c # None /\ c \notin s.s11Map
  <2>1. r = [s EXCEPT !.aborted = TRUE]
    BY <1>4 DEF DeleteTunnel, Abort
  <2>2. s.s11Map \ {c} = s.s11Map
    BY <1>4
  <2> HIDE DEF r
  <2>3. /\ r \in Program /\ r.aborted /\ r.s11Map = s.s11Map /\ r.tunPool = s.tunPool
        /\ r.tun = s.tun /\ r.s5Map = s.s5Map
        /\ r.sent = s.sent /\ r.ue = s.ue /\ r.flows = s.flows
        /\ r.answer = s.answer /\ SameMemory(s, r) /\ SameRegistry(s, r)
    BY <2>1 DEF Program, SameMemory, SameRegistry
  <2>4. ChunksOK(r)
    BY <2>3 DEF ChunksOK
  <2> QED BY <1>4, <2>2, <2>3, <2>4 DEF r
<1> QED BY <1>2, <1>3, <1>4

LEMMA DeleteS5Effect ==
  ASSUME NEW s \in Program, ChunksOK(s), NEW c \in Chunks \cup {None, Garbage}
  PROVE  LET t == DeleteTunnel(s, c, "s5Map") IN
         /\ t \in Program /\ ChunksOK(t)
         /\ t.aborted <=> s.aborted \/ (c # None /\ c \notin s.s5Map)
         /\ SameMemory(s, t) /\ SameRegistry(s, t) /\ t.sent = s.sent
         /\ t.ue = s.ue /\ t.flows = s.flows /\ t.answer = s.answer
         /\ t.s5Map = s.s5Map \ {c} /\ t.s11Map = s.s11Map
         /\ \A d \in Chunks : d # c => t.tun[d] = s.tun[d]
         /\ \A q \in s.sent : t.tun[q.chunk] = s.tun[q.chunk]
<1> DEFINE tun == [s.tun EXCEPT ![c] = IF \E q \in s.sent : q.chunk = c THEN s.tun[c] ELSE None]
           pool == <<c>> \o s.tunPool
           r == DeleteTunnel(s, c, "s5Map")
<1>1. /\ s.tun \in [Chunks -> Blocks \cup {None}] /\ s.s5Map \subseteq Chunks
      /\ s.tunPool \in Seq(Chunks) /\ s.sent \subseteq S5Request
      /\ None \notin Chunks /\ Garbage \notin Chunks
  BY SgwAssumption, NoneAssumption DEF Program
<1>2. CASE c = None
  <2>1. r = s
    BY <1>2 DEF DeleteTunnel
  <2>2. s.s5Map \ {c} = s.s5Map
    BY <1>1, <1>2
  <2> QED BY <1>2, <2>1, <2>2 DEF SameMemory, SameRegistry
<1>3. CASE c \in s.s5Map
  <2>1. c \in Chunks /\ c # None
    BY <1>1, <1>3
  <2>2. r = [s EXCEPT !.s5Map = s.s5Map \ {c}, !.tunPool = pool, !.tun = tun]
    BY Zenon, <1>3, <2>1 DEF DeleteTunnel, Program
  <2>3. ~ InList(c, s.tunPool)
    BY <1>3, <2>1 DEF ChunksOK
  <2>4. /\ pool \in Seq(Chunks) /\ IsInjective(pool)
        /\ \A x : InList(x, pool) <=> InList(x, s.tunPool) \/ x = c
    BY <1>1, <2>1, <2>3, PushList DEF ChunksOK
  <2>5. tun \in [Chunks -> Blocks \cup {None}]
    BY <1>1, <2>1
  <2>6. /\ \A d \in Chunks : d # c => tun[d] = s.tun[d]
        /\ \A q \in s.sent : tun[q.chunk] = s.tun[q.chunk]
    BY <1>1 DEF S5Request
  <2> HIDE DEF pool, tun, r
  <2>7. r \in Program
    BY <1>1, <2>2, <2>4, <2>5 DEF Program
  <2>8. /\ r.s5Map = s.s5Map \ {c} /\ r.tunPool = pool /\ r.tun = tun /\ r.s11Map = s.s11Map
        /\ r.aborted = s.aborted /\ r.sent = s.sent /\ r.ue = s.ue /\ r.flows = s.flows
        /\ r.answer = s.answer /\ SameMemory(s, r) /\ SameRegistry(s, r)
    BY <2>2 DEF Program, SameMemory, SameRegistry
  <2>9. ChunksOK(r)
    BY <1>3, <2>4, <2>8 DEF ChunksOK
  <2> QED BY <1>3, <2>6, <2>7, <2>8, <2>9 DEF r
<1>4. CASE c # None /\ c \notin s.s5Map
  <2>1. r = [s EXCEPT !.aborted = TRUE]
    BY <1>4 DEF DeleteTunnel, Abort
  <2>2. s.s5Map \ {c} = s.s5Map
    BY <1>4
  <2> HIDE DEF r
  <2>3. /\ r \in Program /\ r.aborted /\ r.s5Map = s.s5Map /\ r.tunPool = s.tunPool
        /\ r.tun = s.tun /\ r.s11Map = s.s11Map
        /\ r.sent = s.sent /\ r.ue = s.ue /\ r.flows = s.flows
        /\ r.answer = s.answer /\ SameMemory(s, r) /\ SameRegistry(s, r)
    BY <2>1 DEF Program, SameMemory, SameRegistry
  <2>4. ChunksOK(r)
    BY <2>3 DEF ChunksOK
  <2> QED BY <1>4, <2>2, <2>3, <2>4 DEF r
<1> QED BY <1>2, <1>3, <1>4

LEMMA DeleteUeEffect ==
  ASSUME NEW s \in Program, ChunksOK(s), NEW b \in Blocks
  PROVE  LET t == DeleteUe(s, b)
             u == s.ue[b] IN
         /\ t \in Program /\ ChunksOK(t)
         /\ t.aborted <=> \/ s.aborted \/ ~ Live(s, b)
                          \/ u.s11 # None /\ u.s11 \notin s.s11Map
                          \/ u.s5 # None /\ u.s5 \notin s.s5Map
         /\ SameRegistry(s, t) /\ t.sent = s.sent /\ t.flows = s.flows /\ t.answer = s.answer
         /\ t.mem = [s.mem EXCEPT ![b] = "free"]
         /\ t.memPool = <<b>> \o s.memPool
         /\ \A c \in Blocks \ {b} : t.ue[c] = s.ue[c]
         /\ t.ue[b] \in {s.ue[b], BlankUe}
         /\ t.s11Map = s.s11Map \ {u.s11} /\ t.s5Map = s.s5Map \ {u.s5}
         /\ \A d \in Chunks : d \notin {u.s11, u.s5} => t.tun[d] = s.tun[d]
         /\ \A q \in s.sent : t.tun[q.chunk] = s.tun[q.chunk]
<1> DEFINE u == s.ue[b]
           v == DeleteTunnel(s, u.s11, "s11Map")
           w == DeleteTunnel(v, u.s5, "s5Map")
           x == Require(w, Live(s, b))
           t == DeleteUe(s, b)
           mem == [s.mem EXCEPT ![b] = "free"]
           ue == [s.ue EXCEPT ![b] = IF Awaited(s, b) THEN s.ue[b] ELSE BlankUe]
<1>1. /\ s.ue \in [Blocks -> UeRecord] /\ s.mem \in [Blocks -> {"fresh", "allocated", "free"}]
      /\ s.memPool \in Seq(Blocks)
  BY DEF Program
<1>2. u.s11 \in Chunks \cup {None, Garbage} /\ u.s5 \in Chunks \cup {None}
  BY <1>1 DEF UeRecord
<1> HIDE DEF u, v, w
<1>3. /\ v \in Program /\ ChunksOK(v)
      /\ v.aborted <=> s.aborted \/ (u.s11 # None /\ u.s11 \notin s.s11Map)
      /\ SameMemory(s, v) /\ SameRegistry(s, v) /\ v.sent = s.sent
      /\ v.ue = s.ue /\ v.flows = s.flows /\ v.answer = s.answer
      /\ v.s11Map = s.s11Map \ {u.s11} /\ v.s5Map = s.s5Map
      /\ \A d \in Chunks : d # u.s11 => v.tun[d] = s.tun[d]
      /\ \A q \in s.sent : v.tun[q.chunk] = s.tun[q.chunk]
  BY <1>2, DeleteS11Effect DEF v
<1>4. /\ w \in Program /\ ChunksOK(w)
      /\ w.aborted <=> v.aborted \/ (u.s5 # None /\ u.s5 \notin v.s5Map)
      /\ SameMemory(v, w) /\ SameRegistry(v, w) /\ w.sent = v.sent
      /\ w.ue = v.ue /\ w.flows = v.flows /\ w.answer = v.answer
      /\ w.s5Map = v.s5Map \ {u.s5} /\ w.s11Map = v.s11Map
      /\ \A d \in Chunks : d # u.s5 => w.tun[d] = v.tun[d]
      /\ \A q \in v.sent : w.tun[q.chunk] = v.tun[q.chunk]
  BY <1>2, <1>3, DeleteS5Effect DEF w
<1>5. /\ x \in Program /\ x.flows = w.flows /\ SameBases(w, x) /\ x.ue = w.ue
      /\ x.answer = w.answer
      /\ x.aborted <=> w.aborted \/ ~ Live(s, b)
  BY <1>4, RequireEffect
<1>6. x.mem = s.mem /\ x.memPool = s.memPool /\ x.ue = s.ue
  BY <1>3, <1>4, <1>5 DEF SameBases, SameMemory
<1> HIDE DEF x
<1>7. t = [x EXCEPT !.mem = mem, !.memPool = <<b>> \o s.memPool, !.ue = ue]
  <2>1. t = [x EXCEPT !.mem[b] = "free", !.memPool = <<b>> \o x.memPool,
                      !.ue[b] = IF Awaited(s, b) THEN x.ue[b] ELSE BlankUe]
    BY DEF DeleteUe, u, v, w, x
  <2> QED BY <1>5, <1>6, <2>1 DEF Program
<1>8. BlankUe \in UeRecord
  BY DEF BlankUe, UeRecord, States
<1>9. /\ mem \in [Blocks -> {"fresh", "allocated", "free"}] /\ ue \in [Blocks -> UeRecord]
      /\ <<b>> \o s.memPool \in Seq(Blocks)
  BY <1>1, <1>8
<1>10. /\ \A c \in Blocks \ {b} : ue[c] = s.ue[c]
       /\ ue[b] \in {s.ue[b], BlankUe}
  BY <1>1
<1> HIDE DEF t, mem, ue
<1>11. t \in Program
  BY <1>5, <1>7, <1>9 DEF Program
<1>12. /\ t.mem = mem /\ t.memPool = <<b>> \o s.memPool /\ t.ue = ue
       /\ t.aborted = x.aborted /\ SameRegistry(x, t) /\ SameTunnels(x, t)
       /\ t.sent = x.sent /\ t.flows = x.flows /\ t.answer = x.answer
  BY <1>5, <1>7 DEF Program, SameRegistry, SameTunnels
<1>13. /\ t.s11Map = w.s11Map /\ t.s5Map = w.s5Map /\ t.tun = w.tun /\ t.tunPool = w.tunPool
       /\ SameRegistry(s, t) /\ t.sent = s.sent /\ t.flows = s.flows /\ t.answer = s.answer
  BY <1>3, <1>4, <1>5, <1>12 DEF SameBases, SameRegistry, SameTunnels
<1>14. ChunksOK(t)
  BY <1>4, <1>13 DEF ChunksOK
<1>15. /\ t.s11Map = s.s11Map \ {u.s11} /\ t.s5Map = s.s5Map \ {u.s5}
       /\ \A d \in Chunks : d \notin {u.s11, u.s5} => t.tun[d] = s.tun[d]
       /\ \A q \in s.sent : t.tun[q.chunk] = s.tun[q.chunk]
  BY <1>3, <1>4, <1>13
<1>16. t.aborted <=> \/ s.aborted \/ ~ Live(s, b)
                     \/ u.s11 # None /\ u.s11 \notin s.s11Map
                     \/ u.s5 # None /\ u.s5 \notin s.s5Map
  BY <1>3, <1>4, <1>5, <1>12
<1> QED BY <1>10, <1>11, <1>12, <1>13, <1>14, <1>15, <1>16 DEF t, u, mem, ue

-----------------------------------------------------------------------------
(* What the operators preserve *)

\* A handler is at work on b, or the program has failed an assertion.
Going(s, b) ==
  s \in Program /\ ChunksOK(s) /\ (~ s.aborted => SoundBut(s, b))

Settled(s) ==
  s \in Program /\ ChunksOK(s) /\ (~ s.aborted => Sound(s))

\* Whatever does not touch memory, registries and tunnels.
LEMMA GoingOn ==
  ASSUME NEW s, NEW t, NEW b \in Blocks, Going(s, b), t \in Program, SameBases(s, t),
         s.aborted => t.aborted,
         \A c \in Blocks \ {b} : t.ue[c] = s.ue[c],
         /\ t.ue[b].sgw = s.ue[b].sgw /\ t.ue[b].pgw = s.ue[b].pgw
         /\ t.ue[b].s11 = s.ue[b].s11 /\ t.ue[b].s5 = s.ue[b].s5
  PROVE  Going(t, b)
<1>1. ChunksOK(t)
  BY DEF Going, ChunksOK, SameBases, SameTunnels
<1>2. SUFFICES ASSUME ~ t.aborted PROVE SoundBut(t, b)
  BY <1>1 DEF Going
<1>3. SoundBut(s, b)
  BY <1>2 DEF Going
<1>4. \A c \in Blocks : /\ Live(t, c) <=> Live(s, c)
                        /\ t.ue[c].sgw = s.ue[c].sgw /\ t.ue[c].pgw = s.ue[c].pgw
                        /\ t.ue[c].s11 = s.ue[c].s11 /\ t.ue[c].s5 = s.ue[c].s5
  BY DEF Live, SameBases, SameMemory
<1>5. MemoryOK(t)
  BY <1>3 DEF SoundBut, MemoryOK, SameBases, SameMemory
<1>6. RegistryOK(t)
  BY <1>3, <1>4 DEF SoundBut, RegistryOK, SameBases, SameRegistry
<1>7. TunnelsOK(t)
  BY <1>1, <1>3, <1>4 DEF SoundBut, TunnelsOK, SameBases, SameTunnels
<1>8. \A c \in Blocks \ {b} : UeOK(t, c)
  BY <1>3, <1>4 DEF SoundBut, UeOK, SameBases, SameTunnels
<1> QED BY <1>5, <1>6, <1>7, <1>8 DEF SoundBut

\* The registries change with the type that the UE says it has.
LEMMA GoingRegistered ==
  ASSUME NEW s, NEW t, NEW b \in Blocks, Going(s, b), t \in Program,
         SameMemory(s, t), SameTunnels(s, t), t.sent = s.sent,
         s.aborted => t.aborted,
         t.sgwRbt \ {b} = s.sgwRbt \ {b}, t.pgwRbt \ {b} = s.pgwRbt \ {b},
         ~ t.aborted => /\ b \in t.sgwRbt <=> Live(s, b) /\ t.ue[b].sgw
                        /\ b \in t.pgwRbt <=> Live(s, b) /\ t.ue[b].pgw,
         \A c \in Blocks \ {b} : t.ue[c] = s.ue[c],
         t.ue[b].s11 = s.ue[b].s11 /\ t.ue[b].s5 = s.ue[b].s5
  PROVE  Going(t, b)
<1>1. ChunksOK(t)
  BY DEF Going, ChunksOK, SameTunnels
<1>2. SUFFICES ASSUME ~ t.aborted PROVE SoundBut(t, b)
  BY <1>1 DEF Going
<1>3. SoundBut(s, b)
  BY <1>2 DEF Going
<1>4. \A c \in Blocks : /\ Live(t, c) <=> Live(s, c)
                        /\ t.ue[c].s11 = s.ue[c].s11 /\ t.ue[c].s5 = s.ue[c].s5
  BY DEF Live, SameMemory
<1>5. MemoryOK(t)
  BY <1>3 DEF SoundBut, MemoryOK, SameMemory
<1>6. RegistryOK(t)
  <2> SUFFICES ASSUME NEW c \in Blocks
               PROVE  /\ c \in t.sgwRbt <=> Live(t, c) /\ t.ue[c].sgw
                      /\ c \in t.pgwRbt <=> Live(t, c) /\ t.ue[c].pgw
    BY DEF RegistryOK
  <2>1. CASE c = b
    BY <1>2, <1>4, <2>1
  <2>2. CASE c # b
    <3>1. (c \in t.sgwRbt <=> c \in s.sgwRbt) /\ (c \in t.pgwRbt <=> c \in s.pgwRbt)
      BY <2>2
    <3> QED BY <1>3, <1>4, <2>2, <3>1 DEF SoundBut, RegistryOK
  <2> QED BY <2>1, <2>2
<1>7. TunnelsOK(t)
  BY <1>1, <1>3, <1>4 DEF SoundBut, TunnelsOK, SameTunnels
<1>8. \A c \in Blocks \ {b} : UeOK(t, c)
  BY <1>3, <1>4 DEF SoundBut, UeOK, SameTunnels
<1> QED BY <1>5, <1>6, <1>7, <1>8 DEF SoundBut

\* A new UE owns nothing yet.
LEMMA GoingNewUe ==
  ASSUME NEW s \in Program, Sound(s), HasMemory(s)
  PROVE  LET b == NewUe(s).block
             t == NewUe(s).state IN
         b \in Blocks /\ Going(t, b) /\ Live(t, b) /\ t.ue[b] = BlankUe /\ TunnelsOK(t)
<1> DEFINE b == NewUe(s).block
           t == NewUe(s).state
<1>1. MemoryOK(s) /\ RegistryOK(s) /\ TunnelsOK(s) /\ \A c \in Blocks : UeOK(s, c)
  BY DEF Sound
<1>2. /\ t \in Program /\ t.aborted = s.aborted
      /\ b \in Blocks /\ ~ Live(s, b)
      /\ SameRegistry(s, t) /\ SameTunnels(s, t) /\ t.sent = s.sent
      /\ t.mem = [s.mem EXCEPT ![b] = "allocated"]
      /\ t.ue = [s.ue EXCEPT ![b] = BlankUe]
      /\ MemoryOK(t)
  BY <1>1, NewUeEffect
<1> HIDE DEF b, t
<1>3. /\ s.mem \in [Blocks -> {"fresh", "allocated", "free"}] /\ s.ue \in [Blocks -> UeRecord]
      /\ s.s11Map \subseteq Chunks /\ s.s5Map \subseteq Chunks
      /\ s.sgwRbt \subseteq Blocks /\ s.pgwRbt \subseteq Blocks
  BY DEF Program
<1>4. /\ Live(t, b) /\ t.ue[b] = BlankUe
      /\ \A c \in Blocks \ {b} : t.ue[c] = s.ue[c] /\ (Live(t, c) <=> Live(s, c))
  BY <1>2, <1>3 DEF Live
<1>5. ~ BlankUe.sgw /\ ~ BlankUe.pgw /\ BlankUe.s11 = None /\ BlankUe.s5 = None
  BY DEF BlankUe
<1>6. b \notin s.sgwRbt /\ b \notin s.pgwRbt
  BY <1>1, <1>2 DEF RegistryOK
<1>7. RegistryOK(t)
  BY <1>1, <1>2, <1>4, <1>5, <1>6 DEF RegistryOK, SameRegistry
<1>8. ChunksOK(t)
  BY <1>1, <1>2 DEF TunnelsOK, ChunksOK, SameTunnels
<1>9. TunnelsOK(t)
  <2>1. None \notin Chunks
    BY NoneAssumption
  <2>2. ASSUME NEW c \in s.s11Map
        PROVE  /\ t.tun[c] \in Blocks /\ Live(t, t.tun[c])
               /\ \A d \in Blocks : Live(t, d) => (t.ue[d].s11 = c <=> t.tun[c] = d)
    <3>1. /\ s.tun[c] \in Blocks /\ Live(s, s.tun[c]) /\ c # None
          /\ \A d \in Blocks : Live(s, d) => (s.ue[d].s11 = c <=> s.tun[c] = d)
      BY <1>1, <1>3, <2>1, <2>2 DEF TunnelsOK
    <3>2. s.tun[c] # b /\ t.tun[c] = s.tun[c]
      BY <1>2, <3>1 DEF SameTunnels
    <3> QED BY <1>4, <1>5, <3>1, <3>2
  <2>3. ASSUME NEW c \in s.s5Map
        PROVE  /\ t.tun[c] \in Blocks /\ Live(t, t.tun[c])
               /\ \A d \in Blocks : Live(t, d) => (t.ue[d].s5 = c <=> t.tun[c] = d)
    <3>1. /\ s.tun[c] \in Blocks /\ Live(s, s.tun[c]) /\ c # None
          /\ \A d \in Blocks : Live(s, d) => (s.ue[d].s5 = c <=> s.tun[c] = d)
      BY <1>1, <1>3, <2>1, <2>3 DEF TunnelsOK
    <3>2. s.tun[c] # b /\ t.tun[c] = s.tun[c]
      BY <1>2, <3>1 DEF SameTunnels
    <3> QED BY <1>4, <1>5, <3>1, <3>2
  <2>4. \A q \in t.sent : t.tun[q.chunk] \in Blocks
    BY <1>1, <1>2 DEF TunnelsOK, SameTunnels
  <2>5. \A d \in Blocks : Live(t, d) =>
          t.ue[d].s11 \in t.s11Map \cup {None, Garbage} /\ t.ue[d].s5 \in t.s5Map \cup {None}
    BY <1>1, <1>2, <1>4, <1>5 DEF TunnelsOK, SameTunnels
  <2> QED BY <1>2, <1>8, <2>2, <2>3, <2>4, <2>5 DEF TunnelsOK, SameTunnels
<1>10. \A c \in Blocks \ {b} : UeOK(t, c)
  BY <1>1, <1>2, <1>4 DEF UeOK, SameTunnels
<1> QED BY <1>2, <1>4, <1>7, <1>8, <1>9, <1>10 DEF Going, SoundBut, b, t

\* The UE b gets the tunnel c on S11, on S5.
NewS11(s, t, b, c) ==
  /\ c \in Chunks /\ c \notin s.s11Map \cup s.s5Map
  /\ t.ue[b] = [s.ue[b] EXCEPT !.s11 = c] /\ \A d \in Blocks \ {b} : t.ue[d] = s.ue[d]
  /\ t.tun[c] = b /\ \A d \in Chunks \ {c} : t.tun[d] = s.tun[d]
  /\ t.s11Map = s.s11Map \cup {c} /\ t.s5Map = s.s5Map
  /\ SameMemory(s, t) /\ SameRegistry(s, t) /\ t.sent = s.sent /\ t.flows = s.flows

NewS5(s, t, b, c, x) ==
  /\ c \in Chunks /\ c \notin s.s11Map \cup s.s5Map
  /\ t.ue[b] = [s.ue[b] EXCEPT !.s5 = c] /\ \A d \in Blocks \ {b} : t.ue[d] = s.ue[d]
  /\ t.tun[c] = b /\ \A d \in Chunks \ {c} : t.tun[d] = s.tun[d]
  /\ t.s5Map = s.s5Map \cup {c} /\ t.s11Map = s.s11Map
  /\ t.sent = s.sent \cup {[kind |-> "create", chunk |-> c, trxn |-> x]}
  /\ SameMemory(s, t) /\ SameRegistry(s, t) /\ t.flows = s.flows

\* A tunnel that is made and noted in the UE that did not have one.
LEMMA GoingS11 ==
  ASSUME NEW s, NEW b \in Blocks, Going(s, b), TunnelsOK(s), s.ue[b].s11 \notin Chunks, 
         ~ s.aborted => Live(s, b),
         NEW t, t = Set(CreateTunnel(s, b, "s11Map").state, b, "s11",
                        CreateTunnel(s, b, "s11Map").chunk)
  PROVE  /\ Going(t, b)
         /\ t.aborted <=> s.aborted \/ \E d \in s.s11Map : s.tun[d] = b
         /\ \E c : NewS11(s, t, b, c)
         /\ t.answer = s.answer
<1> DEFINE c == CreateTunnel(s, b, "s11Map").chunk
           r == CreateTunnel(s, b, "s11Map").state
<1>1. s \in Program
  BY DEF Going
<1>2. /\ r \in Program
      /\ r.aborted <=> s.aborted \/ \E d \in s.s11Map : s.tun[d] = b
      /\ c \in Chunks /\ c \notin s.s11Map \cup s.s5Map
      /\ SameMemory(s, r) /\ SameRegistry(s, r) /\ r.sent = s.sent
      /\ r.ue = s.ue /\ r.flows = s.flows /\ r.answer = s.answer
      /\ r.tun = [s.tun EXCEPT ![c] = b]
      /\ r.s11Map = s.s11Map \cup {c} /\ r.s5Map = s.s5Map
      /\ IsInjective(r.tunPool)
      /\ \A x : InList(x, r.tunPool) => InList(x, s.tunPool) /\ x # c
  BY <1>1, CreateS11Effect
<1> HIDE DEF c, r
<1>3. /\ t \in Program /\ t.aborted = r.aborted
      /\ SameBases(r, t) /\ t.flows = r.flows /\ t.answer = r.answer
      /\ t.ue = [r.ue EXCEPT ![b].s11 = c]
  BY SMTT(60), <1>2, S11Effect DEF r, c
<1>4. /\ t.tun = [s.tun EXCEPT ![c] = b] /\ t.tunPool = r.tunPool
      /\ t.s11Map = s.s11Map \cup {c} /\ t.s5Map = s.s5Map
      /\ SameMemory(s, t) /\ SameRegistry(s, t) /\ t.sent = s.sent
      /\ t.ue = [s.ue EXCEPT ![b].s11 = c]
      /\ t.aborted <=> s.aborted \/ \E d \in s.s11Map : s.tun[d] = b
  BY <1>2, <1>3 DEF SameBases, SameMemory, SameRegistry, SameTunnels
<1>5. ChunksOK(t)
  BY <1>2, <1>4 DEF TunnelsOK, ChunksOK
<1>6. ASSUME ~ t.aborted PROVE SoundBut(t, b)
  <2>1. ~ s.aborted /\ SoundBut(s, b) /\ Live(s, b) /\ \A d \in s.s11Map : s.tun[d] # b
    BY <1>4, <1>6 DEF Going
  <2>2. /\ s.ue \in [Blocks -> UeRecord] /\ s.tun \in [Chunks -> Blocks \cup {None}]
        /\ s.s11Map \subseteq Chunks /\ s.s5Map \subseteq Chunks /\ s.sent \subseteq S5Request
    BY <1>1 DEF Program
  <2>3. /\ t.ue[b].s11 = c /\ \A d \in Blocks \ {b} : t.ue[d] = s.ue[d]
        /\ t.ue[b].s5 = s.ue[b].s5 /\ t.ue[b].sgw = s.ue[b].sgw /\ t.ue[b].pgw = s.ue[b].pgw
    BY <1>4, <2>2 DEF UeRecord
  <2>4. \A d \in Blocks : Live(t, d) <=> Live(s, d)
    BY <1>4 DEF Live, SameMemory
  <2>5. /\ t.tun[c] = b /\ \A d \in Chunks \ {c} : t.tun[d] = s.tun[d]
    BY <1>2, <1>4, <2>2
  <2>6. MemoryOK(t) /\ RegistryOK(t)
    <3>1. MemoryOK(s) /\ RegistryOK(s)
      BY <2>1 DEF SoundBut
    <3>2. MemoryOK(t)
      BY <1>4, <3>1 DEF MemoryOK, SameMemory
    <3>3. \A d \in Blocks : t.ue[d].sgw = s.ue[d].sgw /\ t.ue[d].pgw = s.ue[d].pgw
      BY <2>3
    <3>4. t.sgwRbt = s.sgwRbt /\ t.pgwRbt = s.pgwRbt
      BY <1>4 DEF SameRegistry
    <3>5. RegistryOK(t)
      BY <2>4, <3>1, <3>3, <3>4 DEF RegistryOK
    <3> QED BY <3>2, <3>5
  <2>7. /\ None \notin Chunks /\ Garbage \notin Chunks
        /\ \A d \in Blocks : Live(s, d) => s.ue[d].s11 # c
    BY <1>2, <2>2, SgwAssumption, NoneAssumption DEF TunnelsOK
  <2>8. ASSUME NEW d \in t.s11Map
        PROVE  /\ t.tun[d] \in Blocks /\ Live(t, t.tun[d])
               /\ \A e \in Blocks : Live(t, e) => (t.ue[e].s11 = d <=> t.tun[d] = e)
    <3>1. CASE d = c
      BY <2>1, <2>3, <2>4, <2>5, <2>7, <3>1
    <3>2. CASE d # c
      <4>1. /\ d \in s.s11Map /\ d \in Chunks /\ t.tun[d] = s.tun[d] /\ s.tun[d] # b
            /\ s.tun[d] \in Blocks /\ Live(s, s.tun[d])
            /\ \A e \in Blocks : Live(s, e) => (s.ue[e].s11 = d <=> s.tun[d] = e)
        BY <1>4, <2>1, <2>2, <2>5, <3>2 DEF TunnelsOK
      <4> QED BY <2>3, <2>4, <3>2, <4>1
    <3> QED BY <3>1, <3>2
  <2>9. ASSUME NEW d \in t.s5Map
        PROVE  /\ t.tun[d] \in Blocks /\ Live(t, t.tun[d])
               /\ \A e \in Blocks : Live(t, e) => (t.ue[e].s5 = d <=> t.tun[d] = e)
    <3>1. /\ d \in s.s5Map /\ d \in Chunks /\ d # c
          /\ s.tun[d] \in Blocks /\ Live(s, s.tun[d])
          /\ \A e \in Blocks : Live(s, e) => (s.ue[e].s5 = d <=> s.tun[d] = e)
      BY <1>2, <1>4, <2>2 DEF TunnelsOK
    <3> QED BY <2>3, <2>4, <2>5, <3>1
  <2>10. \A d \in Blocks : Live(t, d) =>
           t.ue[d].s11 \in t.s11Map \cup {None, Garbage} /\ t.ue[d].s5 \in t.s5Map \cup {None}
    BY <1>4, <2>3, <2>4 DEF TunnelsOK
  <2>11. \A q \in t.sent : t.tun[q.chunk] \in Blocks
    BY <1>4, <2>2, <2>5 DEF TunnelsOK, S5Request
  <2>12. TunnelsOK(t)
    BY <1>5, <2>8, <2>9, <2>10, <2>11 DEF TunnelsOK
  <2>13. \A d \in Blocks \ {b} : UeOK(t, d)
    BY SMTT(60), <1>4, <2>1, <2>3, <2>4 DEF SoundBut, UeOK
  <2> QED BY <2>6, <2>12, <2>13 DEF SoundBut
<1>7. NewS11(s, t, b, c)
  <2>1. s.ue \in [Blocks -> UeRecord] /\ s.tun \in [Chunks -> Blocks \cup {None}]
    BY <1>1 DEF Program
  <2> QED BY <1>2, <1>3, <1>4, <2>1 DEF NewS11
<1> QED BY <1>2, <1>3, <1>4, <1>5, <1>6, <1>7 DEF Going

LEMMA GoingSendCreate ==
  ASSUME NEW s, NEW b \in Blocks, NEW x \in Trxns, Going(s, b), TunnelsOK(s),
         s.ue[b].s5 \notin Chunks, ~ s.aborted => Live(s, b),
         NEW t, t = SendCreateToPgw(s, x, b)
  PROVE  /\ Going(t, b)
         /\ t.aborted <=> s.aborted \/ s.ue[b].ebi # 5 \/ \E d \in s.s5Map : s.tun[d] = b
         /\ \E c : NewS5(s, t, b, c, x)
         /\ t.answer = s.answer
<1> DEFINE c == CreateTunnel(s, b, "s5Map").chunk
           r == CreateTunnel(s, b, "s5Map").state
           q == [kind |-> "create", chunk |-> c, trxn |-> x]
           v == Require(r, s.ue[b].ebi = 5)
<1>1. s \in Program /\ s.ue \in [Blocks -> UeRecord] /\ s.sent \subseteq S5Request
  BY DEF Going, Program
<1>2. /\ r \in Program
      /\ r.aborted <=> s.aborted \/ \E d \in s.s5Map : s.tun[d] = b
      /\ c \in Chunks /\ c \notin s.s11Map \cup s.s5Map
      /\ SameMemory(s, r) /\ SameRegistry(s, r) /\ r.sent = s.sent
      /\ r.ue = s.ue /\ r.flows = s.flows /\ r.answer = s.answer
      /\ r.tun = [s.tun EXCEPT ![c] = b]
      /\ r.s5Map = s.s5Map \cup {c} /\ r.s11Map = s.s11Map
      /\ IsInjective(r.tunPool)
      /\ \A y : InList(y, r.tunPool) => InList(y, s.tunPool) /\ y # c
  BY <1>1, CreateS5Effect
<1> HIDE DEF c, r
<1>3. /\ v \in Program /\ (v.aborted <=> r.aborted \/ s.ue[b].ebi # 5)
      /\ SameBases(r, v) /\ v.flows = r.flows /\ v.answer = r.answer /\ v.ue = r.ue
  BY <1>2, RequireEffect
<1>4. t = [v EXCEPT !.ue[b].s5 = c, !.sent = v.sent \cup {q}]
  BY DEF SendCreateToPgw, c, r, v, q
<1> HIDE DEF v
<1>5. t = [v EXCEPT !.ue = [s.ue EXCEPT ![b].s5 = c], !.sent = s.sent \cup {q}]
  BY <1>2, <1>3, <1>4 DEF Program, SameBases
<1>6. q \in S5Request
  BY <1>2 DEF S5Request
<1> HIDE DEF q
<1>7. [s.ue[b] EXCEPT !.s5 = c] \in UeRecord
  BY <1>1, <1>2 DEF UeRecord
<1>8. [s.ue EXCEPT ![b].s5 = c] \in [Blocks -> UeRecord]
  BY <1>1, <1>7
<1>9. t \in Program
  <2> DEFINE sent == s.sent \cup {q}
             ue == [s.ue EXCEPT ![b].s5 = c]
  <2>1. sent \in SUBSET S5Request /\ ue \in [Blocks -> UeRecord]
    BY <1>1, <1>6, <1>8
  <2>2. t = [v EXCEPT !.ue = ue, !.sent = sent]
    BY <1>5
  <2> HIDE DEF sent, ue
  <2> QED BY <1>3, <2>1, <2>2 DEF Program
<1>10. /\ t.ue = [s.ue EXCEPT ![b].s5 = c] /\ t.sent = s.sent \cup {q}
       /\ SameMemory(v, t) /\ SameRegistry(v, t) /\ SameTunnels(v, t) /\ t.aborted = v.aborted
       /\ t.flows = v.flows /\ t.answer = v.answer
  BY <1>3, <1>5 DEF Program, SameMemory, SameRegistry, SameTunnels
<1>11. /\ t.tun = [s.tun EXCEPT ![c] = b] /\ t.tunPool = r.tunPool
       /\ t.s5Map = s.s5Map \cup {c} /\ t.s11Map = s.s11Map
       /\ SameMemory(s, t) /\ SameRegistry(s, t)
       /\ t.flows = s.flows /\ t.answer = s.answer
       /\ t.aborted <=> s.aborted \/ s.ue[b].ebi # 5 \/ \E d \in s.s5Map : s.tun[d] = b
  BY <1>2, <1>3, <1>10 DEF SameBases, SameMemory, SameRegistry, SameTunnels
<1>12. ChunksOK(t)
  BY <1>2, <1>11 DEF TunnelsOK, ChunksOK
<1>13. ASSUME ~ t.aborted PROVE SoundBut(t, b)
  <2>1. ~ s.aborted /\ SoundBut(s, b) /\ Live(s, b) /\ \A d \in s.s5Map : s.tun[d] # b
    BY <1>11, <1>13 DEF Going
  <2>2. /\ s.tun \in [Chunks -> Blocks \cup {None}]
        /\ s.s11Map \subseteq Chunks /\ s.s5Map \subseteq Chunks
    BY <1>1 DEF Program
  <2>3. /\ t.ue[b].s5 = c /\ \A d \in Blocks \ {b} : t.ue[d] = s.ue[d]
        /\ t.ue[b].s11 = s.ue[b].s11 /\ t.ue[b].sgw = s.ue[b].sgw /\ t.ue[b].pgw = s.ue[b].pgw
    BY <1>1, <1>10 DEF UeRecord
  <2>4. \A d \in Blocks : Live(t, d) <=> Live(s, d)
    BY <1>11 DEF Live, SameMemory
  <2>5. /\ t.tun[c] = b /\ \A d \in Chunks \ {c} : t.tun[d] = s.tun[d]
    BY <1>2, <1>11, <2>2
  <2>6. MemoryOK(t) /\ RegistryOK(t)
    BY <1>11, <2>1, <2>3, <2>4
    DEF SoundBut, MemoryOK, RegistryOK, SameMemory, SameRegistry
  <2>7. /\ None \notin Chunks
        /\ \A d \in Blocks : Live(s, d) => s.ue[d].s5 # c
    BY <1>2, <2>2, NoneAssumption DEF TunnelsOK
  <2>8. ASSUME NEW d \in t.s5Map
        PROVE  /\ t.tun[d] \in Blocks /\ Live(t, t.tun[d])
               /\ \A e \in Blocks : Live(t, e) => (t.ue[e].s5 = d <=> t.tun[d] = e)
    <3>1. CASE d = c
      BY <2>1, <2>3, <2>4, <2>5, <2>7, <3>1
    <3>2. CASE d # c
      <4>1. /\ d \in s.s5Map /\ d \in Chunks /\ t.tun[d] = s.tun[d] /\ s.tun[d] # b
            /\ s.tun[d] \in Blocks /\ Live(s, s.tun[d])
            /\ \A e \in Blocks : Live(s, e) => (s.ue[e].s5 = d <=> s.tun[d] = e)
        BY <1>11, <2>1, <2>2, <2>5, <3>2 DEF TunnelsOK
      <4> QED BY <2>3, <2>4, <3>2, <4>1
    <3> QED BY <3>1, <3>2
  <2>9. ASSUME NEW d \in t.s11Map
        PROVE  /\ t.tun[d] \in Blocks /\ Live(t, t.tun[d])
               /\ \A e \in Blocks : Live(t, e) => (t.ue[e].s11 = d <=> t.tun[d] = e)
    <3>1. /\ d \in s.s11Map /\ d \in Chunks /\ d # c
          /\ s.tun[d] \in Blocks /\ Live(s, s.tun[d])
          /\ \A e \in Blocks : Live(s, e) => (s.ue[e].s11 = d <=> s.tun[d] = e)
      BY <1>2, <1>11, <2>2 DEF TunnelsOK
    <3> QED BY <2>3, <2>4, <2>5, <3>1
  <2>10. \A d \in Blocks : Live(t, d) =>
           t.ue[d].s11 \in t.s11Map \cup {None, Garbage} /\ t.ue[d].s5 \in t.s5Map \cup {None}
    BY <1>11, <2>3, <2>4 DEF TunnelsOK
  <2>11. \A p \in t.sent : t.tun[p.chunk] \in Blocks
    <3>1. q.chunk = c
      BY DEF q
    <3>2. \A p \in s.sent : p.chunk \in Chunks /\ s.tun[p.chunk] \in Blocks
      BY <1>1 DEF TunnelsOK, S5Request
    <3> QED BY <1>10, <2>5, <3>1, <3>2
  <2>12. TunnelsOK(t)
    BY <1>12, <2>8, <2>9, <2>10, <2>11 DEF TunnelsOK
  <2>13. \A d \in Blocks \ {b} : UeOK(t, d)
    BY <1>11, <2>1, <2>3, <2>4 DEF SoundBut, UeOK
  <2> QED BY <2>6, <2>12, <2>13 DEF SoundBut
<1>14. NewS5(s, t, b, c, x)
  <2>1. s.ue \in [Blocks -> UeRecord] /\ s.tun \in [Chunks -> Blocks \cup {None}]
    BY <1>1 DEF Program
  <2> QED BY <1>2, <1>10, <1>11, <2>1 DEF NewS5, q
<1> QED BY <1>2, <1>9, <1>11, <1>12, <1>13, <1>14 DEF Going

\* The UE leaves memory, tunnels and all.
LEMMA SettledDeleteUe ==
  ASSUME NEW s, NEW b \in Blocks, Going(s, b),
         ~ s.aborted => ~ s.ue[b].sgw /\ ~ s.ue[b].pgw /\ s.ue[b].state = "END"
  PROVE  Settled(DeleteUe(s, b))
<1> DEFINE t == DeleteUe(s, b)
           u == s.ue[b]
<1>1. s \in Program /\ ChunksOK(s)
  BY DEF Going
<1>2. /\ t \in Program /\ ChunksOK(t)
      /\ t.aborted <=> \/ s.aborted \/ ~ Live(s, b)
                       \/ u.s11 # None /\ u.s11 \notin s.s11Map
                       \/ u.s5 # None /\ u.s5 \notin s.s5Map
      /\ SameRegistry(s, t) /\ t.sent = s.sent
      /\ t.mem = [s.mem EXCEPT ![b] = "free"]
      /\ t.memPool = <<b>> \o s.memPool
      /\ \A c \in Blocks \ {b} : t.ue[c] = s.ue[c]
      /\ t.ue[b] \in {s.ue[b], BlankUe}
      /\ t.s11Map = s.s11Map \ {u.s11} /\ t.s5Map = s.s5Map \ {u.s5}
      /\ \A d \in Chunks : d \notin {u.s11, u.s5} => t.tun[d] = s.tun[d]
      /\ \A q \in s.sent : t.tun[q.chunk] = s.tun[q.chunk]
  BY SMTT(60), <1>1, DeleteUeEffect
<1> HIDE DEF t
<1>3. ASSUME ~ t.aborted PROVE Sound(t)
  <2>1. ~ s.aborted /\ SoundBut(s, b) /\ Live(s, b) /\ ~ u.sgw /\ ~ u.pgw /\ u.state = "END"
    BY <1>2, <1>3 DEF Going
  <2>2. /\ s.mem \in [Blocks -> {"fresh", "allocated", "free"}] /\ s.memPool \in Seq(Blocks)
        /\ s.s11Map \subseteq Chunks /\ s.s5Map \subseteq Chunks
    BY <1>1 DEF Program
  <2>3. /\ ~ Live(t, b) /\ \A c \in Blocks \ {b} : Live(t, c) <=> Live(s, c)
    BY <1>2, <2>2 DEF Live
  <2>4. MemoryOK(t)
    <3>1. ~ InList(b, s.memPool) /\ IsInjective(s.memPool)
      BY <2>1 DEF SoundBut, MemoryOK, Live
    <3>2. /\ IsInjective(t.memPool)
          /\ \A x : InList(x, t.memPool) <=> InList(x, s.memPool) \/ x = b
      BY <1>2, <2>2, <3>1, PushList
    <3> QED BY <1>2, <2>1, <2>2, <3>2 DEF SoundBut, MemoryOK
  <2>5. RegistryOK(t)
    BY <1>2, <2>1, <2>3 DEF SoundBut, RegistryOK, SameRegistry
  <2>6. TunnelsOK(s)
    BY <2>1 DEF SoundBut
  <2>7. ASSUME NEW d \in t.s11Map
        PROVE  /\ t.tun[d] \in Blocks /\ Live(t, t.tun[d])
               /\ \A e \in Blocks : Live(t, e) => (t.ue[e].s11 = d <=> t.tun[d] = e)
    <3>1. /\ d \in s.s11Map /\ d \in Chunks /\ d # u.s11
          /\ s.tun[d] \in Blocks /\ Live(s, s.tun[d])
          /\ \A e \in Blocks : Live(s, e) => (s.ue[e].s11 = d <=> s.tun[d] = e)
      BY <1>2, <2>2, <2>6, <2>7 DEF TunnelsOK
    <3>2. s.tun[d] # b
      BY <2>1, <3>1
    <3>3. d # u.s5
      <4>1. u.s5 \in s.s5Map \cup {None} /\ None \notin Chunks
        BY <2>1, <2>6, NoneAssumption DEF TunnelsOK
      <4> QED BY <3>1, <4>1, <2>6 DEF TunnelsOK, ChunksOK
    <3>4. t.tun[d] = s.tun[d]
      BY <1>2, <3>1, <3>3
    <3> QED BY <1>2, <2>3, <3>1, <3>2, <3>4
  <2>8. ASSUME NEW d \in t.s5Map
        PROVE  /\ t.tun[d] \in Blocks /\ Live(t, t.tun[d])
               /\ \A e \in Blocks : Live(t, e) => (t.ue[e].s5 = d <=> t.tun[d] = e)
    <3>1. /\ d \in s.s5Map /\ d \in Chunks /\ d # u.s5
          /\ s.tun[d] \in Blocks /\ Live(s, s.tun[d])
          /\ \A e \in Blocks : Live(s, e) => (s.ue[e].s5 = d <=> s.tun[d] = e)
      BY <1>2, <2>2, <2>6, <2>8 DEF TunnelsOK
    <3>2. s.tun[d] # b
      BY <2>1, <3>1
    <3>3. d # u.s11
      <4>1. u.s11 \in s.s11Map \cup {None, Garbage} /\ None \notin Chunks /\ Garbage \notin Chunks
        BY <2>1, <2>6, NoneAssumption, SgwAssumption DEF TunnelsOK
      <4> QED BY <3>1, <4>1, <2>6 DEF TunnelsOK, ChunksOK
    <3>4. t.tun[d] = s.tun[d]
      BY <1>2, <3>1, <3>3
    <3> QED BY <1>2, <2>3, <3>1, <3>2, <3>4
  <2>9. ASSUME NEW c \in Blocks, Live(t, c)
        PROVE  t.ue[c].s11 \in t.s11Map \cup {None, Garbage} /\ t.ue[c].s5 \in t.s5Map \cup {None}
    <3>1. c # b /\ Live(s, c) /\ t.ue[c] = s.ue[c]
      BY <1>2, <2>3, <2>9
    <3>2. /\ s.ue[c].s11 \in s.s11Map \cup {None, Garbage} /\ s.ue[c].s5 \in s.s5Map \cup {None}
      BY <2>6, <3>1 DEF TunnelsOK
    <3>3. s.ue[c].s11 \in s.s11Map => s.ue[c].s11 # u.s11
      BY <2>1, <2>6, <3>1 DEF TunnelsOK
    <3>4. s.ue[c].s5 \in s.s5Map => s.ue[c].s5 # u.s5
      BY <2>1, <2>6, <3>1 DEF TunnelsOK
    <3> QED BY <1>2, <3>1, <3>2, <3>3, <3>4
  <2>10. TunnelsOK(t)
    BY <1>2, <2>6, <2>7, <2>8, <2>9 DEF TunnelsOK
  <2>11. UeOK(t, b)
    <3>1. BlankUe.state = "INIT"
      BY DEF BlankUe
    <3> QED BY <1>2, <2>1, <3>1 DEF UeOK
  <2>12. ASSUME NEW c \in Blocks \ {b} PROVE UeOK(t, c)
    <3>1. UeOK(s, c) /\ t.ue[c] = s.ue[c] /\ (Live(t, c) <=> Live(s, c))
      BY <1>2, <2>1, <2>3 DEF SoundBut
    <3>2. ASSUME s.ue[c].state \in {"WT_CREATE", "SGW_CREATED", "SGW_ESTABLISHED"}
          PROVE  s.ue[c].s5 \in t.s5Map
      <4>1. s.ue[c].s5 \in s.s5Map /\ Live(s, c)
        BY <3>1, <3>2 DEF UeOK
      <4>2. s.ue[c].s5 # u.s5
        BY <2>1, <2>6, <4>1 DEF TunnelsOK
      <4> QED BY <1>2, <4>1, <4>2
    <3> QED BY <3>1, <3>2 DEF UeOK
  <2> QED BY <2>4, <2>5, <2>10, <2>11, <2>12 DEF Sound
<1> QED BY <1>2, <1>3 DEF Settled, t

LEMMA GoingPgwDeregister ==
  ASSUME NEW s, NEW b \in Blocks, Going(s, b)
  PROVE  Going(PgwDeregister(s, b), b)
<1> DEFINE t == PgwDeregister(s, b)
<1>1. s \in Program /\ s.ue \in [Blocks -> UeRecord]
  BY DEF Going, Program
<1>2. /\ t \in Program
      /\ t.aborted <=> s.aborted \/ ~ s.ue[b].hPgw \/ b \notin s.pgwRbt
      /\ SameMemory(s, t) /\ SameTunnels(s, t) /\ t.sent = s.sent
      /\ t.sgwRbt = s.sgwRbt /\ t.pgwRbt = s.pgwRbt \ {b}
      /\ t.ue = [s.ue EXCEPT ![b].pgw = FALSE]
  BY <1>1, PgwDeregisterEffect
<1> HIDE DEF t
<1>3. /\ \A c \in Blocks \ {b} : t.ue[c] = s.ue[c]
      /\ ~ t.ue[b].pgw /\ t.ue[b].sgw = s.ue[b].sgw
      /\ t.ue[b].s11 = s.ue[b].s11 /\ t.ue[b].s5 = s.ue[b].s5
  BY <1>1, <1>2 DEF UeRecord
<1>4. ~ t.aborted => (b \in t.sgwRbt <=> Live(s, b) /\ t.ue[b].sgw)
  BY <1>2, <1>3 DEF Going, SoundBut, RegistryOK
<1> QED BY <1>2, <1>3, <1>4, GoingRegistered DEF t

LEMMA GoingSgwDeregister ==
  ASSUME NEW s, NEW b \in Blocks, Going(s, b)
  PROVE  Going(SgwDeregister(s, b), b)
<1> DEFINE t == SgwDeregister(s, b)
<1>1. s \in Program /\ s.ue \in [Blocks -> UeRecord]
  BY DEF Going, Program
<1>2. /\ t \in Program
      /\ t.aborted <=> s.aborted \/ b \notin s.sgwRbt
      /\ SameMemory(s, t) /\ SameTunnels(s, t) /\ t.sent = s.sent
      /\ t.sgwRbt = s.sgwRbt \ {b} /\ t.pgwRbt = s.pgwRbt
      /\ t.ue = [s.ue EXCEPT ![b].sgw = FALSE]
  BY <1>1, SgwDeregisterEffect
<1> HIDE DEF t
<1>3. /\ \A c \in Blocks \ {b} : t.ue[c] = s.ue[c]
      /\ ~ t.ue[b].sgw /\ t.ue[b].pgw = s.ue[b].pgw
      /\ t.ue[b].s11 = s.ue[b].s11 /\ t.ue[b].s5 = s.ue[b].s5
  BY <1>1, <1>2 DEF UeRecord
<1>4. ~ t.aborted => (b \in t.pgwRbt <=> Live(s, b) /\ t.ue[b].pgw)
  BY <1>2, <1>3 DEF Going, SoundBut, RegistryOK
<1> QED BY <1>2, <1>3, <1>4, GoingRegistered DEF t

\* A session that has ended leaves registries, tunnels and memory.
LEMMA SettledDestroy ==
  ASSUME NEW s, NEW b \in Blocks, Going(s, b), ~ s.aborted => s.ue[b].state = "END"
  PROVE  Settled(DestroySession(s, b))
<1> DEFINE t == IF s.ue[b].pgw THEN PgwDeregister(s, b) ELSE s
           v == IF t.ue[b].sgw THEN SgwDeregister(t, b) ELSE t
<1>1. s \in Program /\ s.ue \in [Blocks -> UeRecord]
  BY DEF Going, Program
<1>2. /\ Going(t, b) /\ (s.aborted => t.aborted)
      /\ ~ t.ue[b].pgw /\ t.ue[b].state = s.ue[b].state
  <2>1. CASE s.ue[b].pgw
    <3>1. t = PgwDeregister(s, b)
      BY <2>1
    <3>2. Going(t, b)
      BY <3>1, GoingPgwDeregister
    <3> HIDE DEF t
    <3>3. t.ue = [s.ue EXCEPT ![b].pgw = FALSE] /\ (s.aborted => t.aborted)
      BY <1>1, <3>1, PgwDeregisterEffect
    <3> QED BY <1>1, <3>2, <3>3 DEF UeRecord
  <2>2. CASE ~ s.ue[b].pgw
    BY <1>1, <2>2
  <2> QED BY <2>1, <2>2
<1> HIDE DEF t
<1>3. t \in Program /\ t.ue \in [Blocks -> UeRecord]
  BY <1>2 DEF Going, Program
<1>4. /\ Going(v, b) /\ (t.aborted => v.aborted)
      /\ ~ v.ue[b].pgw /\ ~ v.ue[b].sgw /\ v.ue[b].state = t.ue[b].state
  <2>1. CASE t.ue[b].sgw
    <3>1. v = SgwDeregister(t, b)
      BY <2>1
    <3>2. Going(v, b)
      BY <1>2, <3>1, GoingSgwDeregister
    <3> HIDE DEF v
    <3>3. v.ue = [t.ue EXCEPT ![b].sgw = FALSE] /\ (t.aborted => v.aborted)
      BY <1>3, <3>1, SgwDeregisterEffect
    <3> QED BY <1>2, <1>3, <3>2, <3>3 DEF UeRecord
  <2>2. CASE ~ t.ue[b].sgw
    BY <1>2, <1>3, <2>2
  <2> QED BY <2>1, <2>2
<1>5. DestroySession(s, b) = DeleteUe(v, b)
  BY DEF DestroySession, t, v
<1> HIDE DEF v
<1>6. Settled(DeleteUe(v, b))
  BY <1>2, <1>4, SettledDeleteUe
<1> QED BY <1>5, <1>6

\* What a handler may leave behind: a session that has ended, or one that is in order.
LEMMA SettledPurge ==
  ASSUME NEW s, NEW b \in Blocks, Going(s, b),
         ~ s.aborted /\ s.ue[b].state # "END" => UeOK(s, b)
  PROVE  Settled(Purge(s, b))
<1>1. CASE s.ue[b].state = "END"
  BY <1>1, SettledDestroy DEF Purge
<1>2. CASE s.ue[b].state # "END"
  BY <1>2 DEF Purge, Going, Settled, SoundBut, Sound
<1> QED BY <1>1, <1>2

-----------------------------------------------------------------------------
(* Flows of a UE: functions of the five for bearers *)

\* A step of a handler of b that leaves its place in registries and tunnels alone.
Plain(s, t, b) ==
  /\ t \in Program /\ SameBases(s, t) /\ (s.aborted => t.aborted)
  /\ \A c \in Blocks \ {b} : t.ue[c] = s.ue[c]
  /\ t.ue[b].sgw = s.ue[b].sgw /\ t.ue[b].pgw = s.ue[b].pgw
  /\ t.ue[b].s11 = s.ue[b].s11 /\ t.ue[b].s5 = s.ue[b].s5
  /\ t.ue[b].hPgw = s.ue[b].hPgw /\ t.ue[b].addr = s.ue[b].addr

LEMMA PlainGoing ==
  ASSUME NEW s, NEW t, NEW b \in Blocks, Going(s, b), Plain(s, t, b)
  PROVE  Going(t, b) /\ (TunnelsOK(s) => TunnelsOK(t))
<1>1. Going(t, b)
  BY GoingOn DEF Plain
<1>2. ASSUME TunnelsOK(s) PROVE TunnelsOK(t)
  <2>1. \A c \in Blocks : /\ Live(t, c) <=> Live(s, c)
                          /\ t.ue[c].s11 = s.ue[c].s11 /\ t.ue[c].s5 = s.ue[c].s5
    BY DEF Plain, Live, SameBases, SameMemory
  <2> QED BY <1>1, <1>2, <2>1 DEF Going, TunnelsOK, Plain, SameBases, SameTunnels
<1> QED BY <1>1, <1>2

LEMMA PlainTwice ==
  ASSUME NEW r, NEW s, NEW t, NEW b \in Blocks, Plain(r, s, b), Plain(s, t, b)
  PROVE  Plain(r, t, b)
  BY DEF Plain, SameBases, SameMemory, SameRegistry, SameTunnels

ToPdn(in1, in2) == {[in |-> in1, out |-> "ip"], [in |-> in2, out |-> "ip"]}

WithUplinks(u, up, pup) == [u EXCEPT !.up = up, !.pup = pup]

\* The uplink of a session with the collocated PGW.
LEMMA SaeUplinkEffect ==
  ASSUME NEW s \in Program, NEW b \in Blocks, NEW ebi \in Ebis, NEW peer, IsSae(s.ue[b]),
         NEW in1, in1 = SgwUplinkAt(b, ebi), NEW in2, in2 = PgwUplinkAt(b, ebi),
         NEW t, t = InstallUplink(s, b, ebi, peer)
  PROVE  /\ Plain(s, t, b) /\ t.answer = s.answer
         /\ t.ue[b] = WithUplinks(s.ue[b], in1, in2)
         /\ in1 \in Endpoint /\ in2 \in Endpoint
         /\ (\A f \in s.flows : f.in # in1 /\ f.in # in2) =>
              /\ t.aborted = s.aborted
              /\ t.flows = s.flows \cup ToPdn(in1, in2)
<1> DEFINE v == GtpuFlow(s, in1, "ip")
           w == GtpuFlow(v, in2, "ip")
           u == WithUplinks(s.ue[b], in1, in2)
           ue == [s.ue EXCEPT ![b] = u]
<1>1. in1 \in Endpoint /\ in2 \in Endpoint /\ in1 # in2
  BY DEF Endpoint, SgwUplinkAt, PgwUplinkAt
<1>2. "ip" # None /\ "ip" \in ENodeBs \cup {"ip", "pgw", None, Garbage}
  BY NoneAssumption
<1>3. t = [w EXCEPT !.ue[b].up = in1, !.ue[b].pup = in2]
  BY DEF InstallUplink
<1>4. /\ v \in Program /\ SameBases(s, v) /\ v.ue = s.ue /\ v.answer = s.answer
      /\ v.aborted <=> \/ s.aborted \/ "ip" = None
                       \/ \E f \in s.flows : f.in = in1
      /\ (\E f \in s.flows : f.in = in1) => v.flows = s.flows
      /\ (\A f \in s.flows : f.in # in1) => v.flows = s.flows \cup {[in |-> in1, out |-> "ip"]}
  BY <1>1, <1>2, GtpuFlowEffect
<1> HIDE DEF v
<1>5. /\ w \in Program /\ SameBases(v, w) /\ w.ue = v.ue /\ w.answer = v.answer
      /\ w.aborted <=> \/ v.aborted \/ "ip" = None
                       \/ \E f \in v.flows : f.in = in2
      /\ (\E f \in v.flows : f.in = in2) => w.flows = v.flows
      /\ (\A f \in v.flows : f.in # in2) => w.flows = v.flows \cup {[in |-> in2, out |-> "ip"]}
  BY <1>1, <1>2, <1>4, GtpuFlowEffect
<1> HIDE DEF w
<1>6. s.ue \in [Blocks -> UeRecord]
  BY DEF Program
<1>7. u \in UeRecord
  <2>1. s.ue[b] \in UeRecord
    BY <1>6
  <2> QED BY ZenonT(60), <1>1, <2>1 DEF UeRecord, WithUplinks
<1>8. ue \in [Blocks -> UeRecord]
  BY <1>6, <1>7
<1>9. t = [w EXCEPT !.ue = ue]
  <2>1. w.ue = s.ue
    BY <1>4, <1>5
  <2>2. [s.ue EXCEPT ![b].up = in1, ![b].pup = in2] = ue
    BY <1>6 DEF WithUplinks
  <2>3. t = [w EXCEPT !.ue = [w.ue EXCEPT ![b].up = in1, ![b].pup = in2]]
    BY <1>3, <1>5 DEF Program
  <2> QED BY <2>1, <2>2, <2>3
<1>0. ue[b] = u /\ \A c \in Blocks \ {b} : ue[c] = s.ue[c]
  BY <1>6
<1> HIDE DEF ue
<1>10. /\ t \in Program /\ SameBases(w, t) /\ t.answer = w.answer /\ t.aborted = w.aborted
       /\ t.flows = w.flows /\ t.ue = ue
  BY <1>5, <1>8, <1>9 DEF Program, SameBases, SameMemory, SameRegistry, SameTunnels
<1>11. ASSUME \A f \in s.flows : f.in # in1 /\ f.in # in2
       PROVE  /\ t.aborted = s.aborted
              /\ t.flows = s.flows \cup ToPdn(in1, in2)
  <2>1. v.flows = s.flows \cup {[in |-> in1, out |-> "ip"]} /\ (v.aborted <=> s.aborted)
    BY <1>2, <1>4, <1>11
  <2>2. \A f \in v.flows : f.in # in2
    BY <1>1, <1>11, <2>1
  <2>3. w.flows = v.flows \cup {[in |-> in2, out |-> "ip"]} /\ (w.aborted <=> v.aborted)
    BY <1>2, <1>5, <2>2
  <2>4. s.aborted \in BOOLEAN /\ t.aborted \in BOOLEAN
    BY <1>10 DEF Program
  <2> QED BY <1>10, <2>1, <2>3, <2>4 DEF ToPdn
<1>12. SameBases(s, t)
  BY <1>4, <1>5, <1>10 DEF SameBases, SameMemory, SameRegistry, SameTunnels
<1>13. Plain(s, t, b) /\ t.ue[b] = u
  <2>1. s.ue[b] \in UeRecord
    BY <1>6
  <2> QED BY <1>0, <1>4, <1>5, <1>10, <1>12, <2>1 DEF Plain, UeRecord, WithUplinks
<1> QED BY <1>1, <1>4, <1>5, <1>10, <1>11, <1>13

\* The uplink of a session with another PGW.
LEMMA SgwUplinkEffect ==
  ASSUME NEW s \in Program, NEW b \in Blocks, NEW ebi \in Ebis,
         NEW peer \in {"pgw", None, Garbage}, ~ IsSae(s.ue[b]),
         NEW in, in = SgwUplinkAt(b, ebi), NEW t, t = InstallUplink(s, b, ebi, peer)
  PROVE  /\ Plain(s, t, b) /\ t.answer = s.answer
         /\ t.ue[b] = WithUplinks(s.ue[b], in, s.ue[b].pup)
         /\ in \in Endpoint
         /\ (\A f \in s.flows : f.in # in) /\ peer # None =>
              /\ t.aborted = s.aborted
              /\ t.flows = s.flows \cup {[in |-> in, out |-> peer]}
<1> DEFINE v == GtpuFlow(s, in, peer)
           u == WithUplinks(s.ue[b], in, s.ue[b].pup)
           ue == [s.ue EXCEPT ![b] = u]
<1>1. in \in Endpoint /\ peer \in ENodeBs \cup {"ip", "pgw", None, Garbage}
  BY DEF Endpoint, SgwUplinkAt
<1>2. t = [v EXCEPT !.ue[b].up = in]
  BY DEF InstallUplink
<1>3. /\ v \in Program /\ SameBases(s, v) /\ v.ue = s.ue /\ v.answer = s.answer
      /\ v.aborted <=> \/ s.aborted \/ peer = None
                       \/ \E f \in s.flows : f.in = in
      /\ (\E f \in s.flows : f.in = in) => v.flows = s.flows
      /\ (\A f \in s.flows : f.in # in) => v.flows = s.flows \cup {[in |-> in, out |-> peer]}
  BY <1>1, GtpuFlowEffect
<1> HIDE DEF v
<1>4. s.ue \in [Blocks -> UeRecord]
  BY DEF Program
<1>5. u \in UeRecord /\ u = [s.ue[b] EXCEPT !.up = in]
  <2>1. s.ue[b] \in UeRecord
    BY <1>4
  <2> QED BY ZenonT(60), <1>1, <2>1 DEF UeRecord, WithUplinks
<1> HIDE DEF u
<1>6. ue \in [Blocks -> UeRecord]
  BY <1>4, <1>5
<1>7. t = [v EXCEPT !.ue = ue]
  BY <1>2, <1>3, <1>4, <1>5 DEF Program
<1>0. ue[b] = u /\ \A c \in Blocks \ {b} : ue[c] = s.ue[c]
  BY <1>4
<1> HIDE DEF ue
<1>8. /\ t \in Program /\ SameBases(v, t) /\ t.answer = v.answer /\ t.aborted = v.aborted
      /\ t.flows = v.flows /\ t.ue = ue
  BY <1>3, <1>6, <1>7 DEF Program, SameBases, SameMemory, SameRegistry, SameTunnels
<1>9. SameBases(s, t)
  BY <1>3, <1>8 DEF SameBases, SameMemory, SameRegistry, SameTunnels
<1>10. Plain(s, t, b) /\ t.ue[b] = u
  <2>1. s.ue[b] \in UeRecord
    BY <1>4
  <2> QED BY <1>0, <1>3, <1>5, <1>8, <1>9, <2>1 DEF Plain, UeRecord
<1>11. s.aborted \in BOOLEAN /\ t.aborted \in BOOLEAN
  BY <1>8 DEF Program
<1> QED BY <1>1, <1>3, <1>8, <1>10, <1>11 DEF u

\* Where the traffic to the UE comes in.
DownlinkAt(u, b, ebi) == IF IsSae(u) THEN UeAt(u.addr) ELSE SgwDownlinkAt(b, ebi)

WithDown(u, down) == [u EXCEPT !.down = down]

LEMMA DownlinkEffect ==
  ASSUME NEW s \in Program, NEW b \in Blocks, NEW ebi \in Ebis, NEW enb \in ENodeBs,
         IsSae(s.ue[b]) => s.ue[b].addr \in LocalPool,
         NEW in, in = DownlinkAt(s.ue[b], b, ebi),
         NEW t, t = DownlinkFlow(s, b, ebi, enb)
  PROVE  /\ t \in Program /\ SameBases(s, t) /\ t.answer = s.answer
         /\ in \in Endpoint
         /\ (\A f \in s.flows : f.in # in) =>
              /\ t.aborted = s.aborted
              /\ t.ue = [s.ue EXCEPT ![b] = WithDown(s.ue[b], in)]
              /\ t.flows = s.flows \cup {[in |-> in, out |-> enb]}
         /\ s.aborted => t.aborted
         /\ \A c \in Blocks \ {b} : t.ue[c] = s.ue[c]
         /\ \E down : t.ue[b] = WithDown(s.ue[b], down)
<1> DEFINE taken == \E f \in s.flows : f.in = in
           v == GtpuFlow(s, in, enb)
           w == IF IsSae(s.ue[b]) /\ taken THEN s ELSE v
           down == IF IsSae(s.ue[b]) /\ taken THEN None ELSE in
           u == WithDown(s.ue[b], down)
           ue == [s.ue EXCEPT ![b] = u]
<1>1. in \in Endpoint
  BY DEF Endpoint, DownlinkAt, SgwDownlinkAt, UeAt
<1>2. enb # None /\ enb \in ENodeBs \cup {"ip", "pgw", None, Garbage}
  BY NoneAssumption
<1>3. t = [w EXCEPT !.ue[b].down = down]
  BY Zenon DEF DownlinkFlow, DownlinkAt
<1>4. /\ v \in Program /\ SameBases(s, v) /\ v.ue = s.ue /\ v.answer = s.answer
      /\ v.aborted <=> \/ s.aborted \/ enb = None
                       \/ \E f \in s.flows : f.in = in
      /\ (\E f \in s.flows : f.in = in) => v.flows = s.flows
      /\ (\A f \in s.flows : f.in # in) => v.flows = s.flows \cup {[in |-> in, out |-> enb]}
  BY <1>1, <1>2, GtpuFlowEffect
<1> HIDE DEF v
<1>5. ~ taken <=> \A f \in s.flows : f.in # in
  OBVIOUS
<1>50. /\ v.aborted <=> s.aborted \/ taken
       /\ v.flows = IF taken THEN s.flows ELSE s.flows \cup {[in |-> in, out |-> enb]}
  BY <1>2, <1>4
<1> HIDE DEF taken
<1>6. /\ w \in Program /\ SameBases(s, w) /\ w.ue = s.ue /\ w.answer = s.answer
      /\ w.aborted <=> s.aborted \/ (~ IsSae(s.ue[b]) /\ taken)
      /\ w.flows = IF taken THEN s.flows ELSE s.flows \cup {[in |-> in, out |-> enb]}
  BY <1>4, <1>50 DEF SameBases, SameMemory, SameRegistry, SameTunnels
<1>7. /\ s.ue \in [Blocks -> UeRecord] /\ down \in Endpoint \cup {None}
      /\ ~ taken => down = in
  BY <1>1 DEF Program
<1> HIDE DEF w, down
<1>8. u \in UeRecord
  BY <1>7 DEF UeRecord, WithDown
<1>9. ue \in [Blocks -> UeRecord]
  BY <1>7, <1>8
<1>10. t = [w EXCEPT !.ue = ue]
  BY <1>3, <1>6, <1>7 DEF Program, WithDown
<1>11. ue[b] = u /\ \A c \in Blocks \ {b} : ue[c] = s.ue[c]
  BY <1>7
<1> HIDE DEF ue
<1>12. /\ t \in Program /\ SameBases(w, t) /\ t.answer = w.answer /\ t.aborted = w.aborted
       /\ t.flows = w.flows /\ t.ue = ue
  BY <1>6, <1>9, <1>10 DEF Program, SameBases, SameMemory, SameRegistry, SameTunnels
<1>13. SameBases(s, t)
  BY <1>6, <1>12 DEF SameBases, SameMemory, SameRegistry, SameTunnels
<1>14. ASSUME \A f \in s.flows : f.in # in
       PROVE  /\ t.aborted = s.aborted
              /\ t.ue = [s.ue EXCEPT ![b] = WithDown(s.ue[b], in)]
              /\ t.flows = s.flows \cup {[in |-> in, out |-> enb]}
  <2>1. ~ taken /\ (t.aborted <=> s.aborted) /\ t.flows = s.flows \cup {[in |-> in, out |-> enb]}
    BY <1>5, <1>6, <1>12, <1>14
  <2>2. t.aborted \in BOOLEAN /\ s.aborted \in BOOLEAN
    BY <1>12 DEF Program
  <2>3. t.ue = [s.ue EXCEPT ![b] = WithDown(s.ue[b], in)]
    BY <1>7, <1>12, <2>1 DEF ue
  <2> QED BY <2>1, <2>2, <2>3
<1>15. /\ s.aborted => t.aborted
       /\ \A c \in Blocks \ {b} : t.ue[c] = s.ue[c]
       /\ t.ue[b] = WithDown(s.ue[b], down)
  BY <1>6, <1>11, <1>12
<1> QED BY <1>1, <1>6, <1>12, <1>13, <1>14, <1>15

\* The first Modify Bearer Request of a session.
LEMMA InstallDownlinkEffect ==
  ASSUME NEW s \in Program, NEW b \in Blocks, NEW ebi \in Ebis, NEW enb \in ENodeBs,
         IsSae(s.ue[b]) => s.ue[b].addr \in LocalPool,
         NEW in, in = DownlinkAt(s.ue[b], b, ebi),
         NEW t, t = InstallDownlink(s, b, ebi, enb)
  PROVE  /\ Plain(s, t, b) /\ t.answer = s.answer /\ t.ue[b].state = s.ue[b].state
         /\ in \in Endpoint
         /\ s.ue[b].down = None /\ (\A f \in s.flows : f.in # in) =>
              /\ t.aborted = s.aborted
              /\ t.ue = [s.ue EXCEPT ![b] = WithDown(s.ue[b], in)]
              /\ t.flows = s.flows \cup {[in |-> in, out |-> enb]}
<1> DEFINE none == s.ue[b].down = None
           v == Require(s, none)
<1>1. t = DownlinkFlow(v, b, ebi, enb)
  BY DEF InstallDownlink
<1> HIDE DEF none
<1>2. /\ v \in Program /\ SameBases(s, v) /\ v.ue = s.ue /\ v.flows = s.flows
      /\ v.answer = s.answer /\ (v.aborted <=> s.aborted \/ ~ none)
  BY RequireEffect
<1> HIDE DEF v
<1>3. in = DownlinkAt(v.ue[b], b, ebi) /\ (IsSae(v.ue[b]) => v.ue[b].addr \in LocalPool)
  BY <1>2
<1>4. /\ t \in Program /\ SameBases(v, t) /\ t.answer = v.answer
      /\ in \in Endpoint
      /\ (\A f \in v.flows : f.in # in) =>
           /\ t.aborted = v.aborted
           /\ t.ue = [v.ue EXCEPT ![b] = WithDown(v.ue[b], in)]
           /\ t.flows = v.flows \cup {[in |-> in, out |-> enb]}
      /\ v.aborted => t.aborted
      /\ \A c \in Blocks \ {b} : t.ue[c] = v.ue[c]
      /\ \E down : t.ue[b] = WithDown(v.ue[b], down)
  BY <1>1, <1>2, <1>3, DownlinkEffect
<1>5. s.ue[b] \in UeRecord /\ s.aborted \in BOOLEAN /\ v.aborted \in BOOLEAN
  BY <1>2 DEF Program
<1>6. SameBases(s, t)
  BY <1>2, <1>4 DEF SameBases, SameMemory, SameRegistry, SameTunnels
<1>7. Plain(s, t, b) /\ t.ue[b].state = s.ue[b].state
  BY <1>2, <1>4, <1>5, <1>6 DEF Plain, UeRecord, WithDown
<1> QED BY <1>2, <1>4, <1>5, <1>7 DEF none

\* A later one: the flow that the UE holds is replaced.
LEMMA ModifyDownlinkEffect ==
  ASSUME NEW s \in Program, NEW b \in Blocks, NEW ebi \in Ebis, NEW enb \in ENodeBs,
         IsSae(s.ue[b]) => s.ue[b].addr \in LocalPool,
         NEW in, in = DownlinkAt(s.ue[b], b, ebi),
         NEW t, t = ModifyDownlink(s, b, ebi, enb)
  PROVE  /\ Plain(s, t, b) /\ t.answer = s.answer /\ t.ue[b].state = s.ue[b].state
         /\ in \in Endpoint
         /\ s.ue[b].down = in /\ (\E f \in s.flows : f.in = in) =>
              /\ t.aborted = s.aborted
              /\ t.ue = [s.ue EXCEPT ![b] = WithDown(s.ue[b], in)]
              /\ t.flows = {f \in s.flows : f.in # in} \cup {[in |-> in, out |-> enb]}
<1> DEFINE h == s.ue[b].down
           v == DestroyFlow(s, h)
<1>1. s.ue[b] \in UeRecord /\ h \in Endpoint \cup {None} /\ s.aborted \in BOOLEAN
  BY DEF Program, UeRecord
<1>2. t = DownlinkFlow(v, b, ebi, enb)
  BY DEF ModifyDownlink
<1> HIDE DEF h
<1>3. /\ v \in Program /\ SameBases(s, v) /\ v.ue = s.ue
      /\ v.flows = {f \in s.flows : f.in # h}
      /\ v.answer = s.answer
      /\ v.aborted <=> s.aborted \/ (h # None /\ \A f \in s.flows : f.in # h)
  BY <1>1, DestroyFlowEffect
<1> HIDE DEF v
<1>4. in = DownlinkAt(v.ue[b], b, ebi) /\ (IsSae(v.ue[b]) => v.ue[b].addr \in LocalPool)
  BY <1>3
<1>5. /\ t \in Program /\ SameBases(v, t) /\ t.answer = v.answer
      /\ in \in Endpoint
      /\ (\A f \in v.flows : f.in # in) =>
           /\ t.aborted = v.aborted
           /\ t.ue = [v.ue EXCEPT ![b] = WithDown(v.ue[b], in)]
           /\ t.flows = v.flows \cup {[in |-> in, out |-> enb]}
      /\ v.aborted => t.aborted
      /\ \A c \in Blocks \ {b} : t.ue[c] = v.ue[c]
      /\ \E down : t.ue[b] = WithDown(v.ue[b], down)
  BY <1>2, <1>3, <1>4, DownlinkEffect
<1>6. v.aborted \in BOOLEAN
  BY <1>3 DEF Program
<1>7. SameBases(s, t)
  BY <1>3, <1>5 DEF SameBases, SameMemory, SameRegistry, SameTunnels
<1>8. Plain(s, t, b) /\ t.ue[b].state = s.ue[b].state
  BY <1>1, <1>3, <1>5, <1>7 DEF Plain, UeRecord, WithDown
<1>9. ASSUME h = in, \E f \in s.flows : f.in = in
      PROVE  /\ t.aborted = s.aborted
             /\ t.ue = [s.ue EXCEPT ![b] = WithDown(s.ue[b], in)]
             /\ t.flows = {f \in s.flows : f.in # in} \cup {[in |-> in, out |-> enb]}
  <2>1. \A f \in v.flows : f.in # in
    BY <1>3, <1>9
  <2>2. v.aborted <=> s.aborted
    BY <1>3, <1>9
  <2> QED BY <1>1, <1>3, <1>5, <1>6, <1>9, <2>1, <2>2
<1> QED BY <1>3, <1>5, <1>8, <1>9 DEF h

\* No uplink is that of a bearer that only the PGW has named.
UplinkOwned(u) == u.up # None => u.up.ebi = 5

\* The flows of the bearer 5.
LEMMA RemoveFlowsEffect ==
  ASSUME NEW s \in Program, NEW b \in Blocks
  PROVE  LET t == RemoveFlows(s, b)
             u == s.ue[b] IN
         /\ Plain(s, t, b) /\ t.answer = s.answer /\ t.ue = s.ue
         /\ u.ebi = 5 /\ UplinkOwned(u)
              /\ (\A e, g \in {"up", "pup", "down"} : u[e] = u[g] => e = g \/ u[e] = None)
              => /\ t.aborted <=> s.aborted \/ \E e \in Ends(u) : \A f \in s.flows : f.in # e
                 /\ t.flows = {f \in s.flows : f.in \notin Ends(u)}
<1> DEFINE u == s.ue[b]
           x == DestroyFlow(s, u.down)
           y == DestroyFlow(x, u.up)
           z == DestroyFlow(y, u.pup)
           t == RemoveFlows(s, b)
<1>1. /\ s.ue \in [Blocks -> UeRecord] /\ u.down \in Endpoint \cup {None}
      /\ u.up \in Endpoint \cup {None} /\ u.pup \in Endpoint \cup {None}
  BY DEF Program, UeRecord
<1> HIDE DEF u
<1>2. /\ x \in Program /\ SameBases(s, x) /\ x.ue = s.ue /\ x.answer = s.answer
      /\ x.aborted <=> s.aborted \/ (u.down # None /\ \A f \in s.flows : f.in # u.down)
      /\ x.flows = {f \in s.flows : f.in # u.down}
  BY ZenonT(60), <1>1, DestroyFlowEffect
<1> HIDE DEF x
<1>3. /\ y \in Program /\ SameBases(x, y) /\ y.ue = x.ue /\ y.answer = x.answer
      /\ y.aborted <=> x.aborted \/ (u.up # None /\ \A f \in x.flows : f.in # u.up)
      /\ y.flows = {f \in x.flows : f.in # u.up}
  BY <1>1, <1>2, DestroyFlowEffect
<1> HIDE DEF y
<1>4. /\ z \in Program /\ SameBases(y, z) /\ z.ue = y.ue /\ z.answer = y.answer
      /\ z.aborted <=> y.aborted \/ (u.pup # None /\ \A f \in y.flows : f.in # u.pup)
      /\ z.flows = {f \in y.flows : f.in # u.pup}
  BY <1>1, <1>3, DestroyFlowEffect
<1> HIDE DEF z
<1>5. SameBases(s, z)
  BY <1>2, <1>3, <1>4 DEF SameBases, SameMemory, SameRegistry, SameTunnels
<1>6. /\ u.ebi # 5 => t = s
      /\ u.ebi = 5 /\ ~ UplinkOwned(u) => t = x
      /\ u.ebi = 5 /\ UplinkOwned(u) => t = z
  <2>1. RemoveDownlink(s, b, 5) = IF u.ebi # 5 THEN s ELSE x
    BY DEF RemoveDownlink, x, u
  <2>2. t = RemoveUplink(IF u.ebi # 5 THEN s ELSE x, b, 5)
    BY <2>1 DEF RemoveFlows
  <2>3. \A p : p.ue = s.ue =>
          RemoveUplink(p, b, 5) = IF u.ebi # 5 \/ ~ UplinkOwned(u) THEN p
                                  ELSE DestroyFlow(DestroyFlow(p, u.up), u.pup)
    BY DEF RemoveUplink, UplinkOwned, u
  <2> QED BY <1>2, <2>2, <2>3 DEF y, z
<1> HIDE DEF t
<1>7. Plain(s, t, b) /\ t.answer = s.answer /\ t.ue = s.ue
  <2>1. t = s \/ t = x \/ t = z
    BY <1>6
  <2> QED BY <1>1, <1>2, <1>3, <1>4, <1>5, <2>1
          DEF Plain, SameBases, SameMemory, SameRegistry, SameTunnels
<1>8. ASSUME u.ebi = 5, UplinkOwned(u),
             \A e, g \in {"up", "pup", "down"} : u[e] = u[g] => e = g \/ u[e] = None
      PROVE  /\ t.aborted <=> s.aborted \/ \E e \in Ends(u) : \A f \in s.flows : f.in # e
             /\ t.flows = {f \in s.flows : f.in \notin Ends(u)}
  <2>1. \A f \in s.flows : f.in \in Endpoint /\ f.in # None
    BY NoneAssumption DEF Program
  <2>2. \A f \in s.flows : f.in \in Ends(u) <=> f.in \in {u.up, u.pup, u.down}
    BY <2>1 DEF Ends
  <2>3. t = z
    BY <1>6, <1>8
  <2>4. t.flows = {f \in s.flows : f.in \notin Ends(u)}
    BY <1>2, <1>3, <1>4, <2>2, <2>3
  <2>5. /\ u.up # None => u.up # u.down
        /\ u.pup # None => u.pup # u.down /\ u.pup # u.up
    BY <1>8
  <2>6. u.up # None => ((\A f \in x.flows : f.in # u.up) <=> \A f \in s.flows : f.in # u.up)
    BY <1>2, <2>5
  <2>7. u.pup # None => ((\A f \in y.flows : f.in # u.pup) <=> \A f \in s.flows : f.in # u.pup)
    BY <1>2, <1>3, <2>5
  <2>8. t.aborted <=> \/ s.aborted
                      \/ u.down # None /\ \A f \in s.flows : f.in # u.down
                      \/ u.up # None /\ \A f \in s.flows : f.in # u.up
                      \/ u.pup # None /\ \A f \in s.flows : f.in # u.pup
    BY <1>2, <1>3, <1>4, <2>3, <2>6, <2>7
  <2>9. (\E e \in Ends(u) : \A f \in s.flows : f.in # e) <=>
           \/ u.down # None /\ \A f \in s.flows : f.in # u.down
           \/ u.up # None /\ \A f \in s.flows : f.in # u.up
           \/ u.pup # None /\ \A f \in s.flows : f.in # u.pup
    BY DEF Ends
  <2> QED BY <2>4, <2>8, <2>9
<1> QED BY <1>7, <1>8 DEF t, u

-----------------------------------------------------------------------------
(* What handlers leave behind *)

\* A handler of b is over: its session has ended, or is in order.
Done(s, b) ==
  Going(s, b) /\ (~ s.aborted /\ s.ue[b].state # "END" => UeOK(s, b))

\* Only what the MME is told and what b says of itself is new.
LEMMA EndEffect ==
  ASSUME NEW s \in Program, NEW x \in Trxns, NEW b \in Blocks, NEW cause \in Causes
  PROVE  LET t == End(s, x, b, cause) IN
         /\ Plain(s, t, b) /\ t.ue[b].state = "END"
         /\ t.aborted <=> s.aborted \/ s.answer # None
         /\ t.ue = [s.ue EXCEPT ![b].state = "END"] /\ t.flows = s.flows
         /\ t.answer = [trxn |-> x, ue |-> b, cause |-> cause]
<1> DEFINE v == Answer(s, x, b, cause)
           t == Goto(v, b, "END")
<1>1. /\ v \in Program /\ (v.aborted <=> s.aborted \/ s.answer # None)
      /\ SameBases(s, v) /\ v.ue = s.ue /\ v.flows = s.flows
      /\ v.answer = [trxn |-> x, ue |-> b, cause |-> cause]
  BY AnswerEffect
<1> HIDE DEF v
<1>2. "END" \in States
  BY DEF States
<1>3. /\ t \in Program /\ t.aborted = v.aborted /\ SameBases(v, t)
      /\ t.ue = [v.ue EXCEPT ![b].state = "END"]
      /\ t.flows = v.flows /\ t.answer = v.answer
  BY <1>1, <1>2, GotoEffect
<1> HIDE DEF t
<1>4. s.ue \in [Blocks -> UeRecord]
  BY DEF Program
<1>5. SameBases(s, t)
  BY <1>1, <1>3 DEF SameBases, SameMemory, SameRegistry, SameTunnels
<1>6. Plain(s, t, b) /\ t.ue[b].state = "END"
  BY <1>1, <1>3, <1>4, <1>5 DEF Plain, UeRecord
<1>7. End(s, x, b, cause) = t
  BY DEF End, t, v
<1> QED BY <1>1, <1>3, <1>6, <1>7

LEMMA EndDone ==
  ASSUME NEW s, NEW x \in Trxns, NEW b \in Blocks, NEW cause \in Causes, Going(s, b)
  PROVE  Done(End(s, x, b, cause), b)
<1> DEFINE t == End(s, x, b, cause)
<1>1. s \in Program
  BY DEF Going
<1>2. Plain(s, t, b) /\ t.ue[b].state = "END"
  BY <1>1, EndEffect
<1> HIDE DEF t
<1> QED BY <1>2, PlainGoing DEF Done, t

LEMMA GotoPlain ==
  ASSUME NEW s \in Program, NEW b \in Blocks, NEW state \in States
  PROVE  Plain(s, Goto(s, b, state), b) /\ Goto(s, b, state).ue[b].state = state
<1> DEFINE t == Goto(s, b, state)
<1>1. /\ t \in Program /\ t.aborted = s.aborted /\ SameBases(s, t)
      /\ t.ue = [s.ue EXCEPT ![b].state = state]
  BY GotoEffect
<1> HIDE DEF t
<1>2. s.ue \in [Blocks -> UeRecord]
  BY DEF Program
<1> QED BY <1>1, <1>2 DEF Plain, UeRecord, t

LEMMA UnexpectedDone ==
  ASSUME NEW s, NEW b \in Blocks, Going(s, b)
  PROVE  Done(Unexpected(s, b), b)
<1>1. "END" \in States /\ s \in Program
  BY DEF States, Going
<1>2. Plain(s, Goto(s, b, "END"), b) /\ Goto(s, b, "END").ue[b].state = "END"
  BY <1>1, GotoPlain
<1> QED BY <1>2, PlainGoing DEF Done, Unexpected

LEMMA AnswerPlain ==
  ASSUME NEW s \in Program, NEW x \in Trxns, NEW b \in Blocks, NEW cause \in Causes
  PROVE  Plain(s, Answer(s, x, b, cause), b)
<1> DEFINE v == Answer(s, x, b, cause)
<1>1. /\ v \in Program /\ (v.aborted <=> s.aborted \/ s.answer # None)
      /\ SameBases(s, v) /\ v.ue = s.ue /\ v.flows = s.flows
      /\ v.answer = [trxn |-> x, ue |-> b, cause |-> cause]
  BY AnswerEffect
<1> HIDE DEF v
<1> QED BY <1>1 DEF Plain, v

LEMMA CopyImsiEffect ==
  ASSUME NEW s \in Program, NEW b \in Blocks, NEW r, r.imsi \in Imsis \cup {None}
  PROVE  LET t == CopyImsi(s, b, r) IN
         /\ Plain(s, t, b) /\ t.aborted = s.aborted
         /\ t.flows = s.flows /\ t.answer = s.answer
         /\ t.ue = IF r.imsi = None THEN s.ue ELSE [s.ue EXCEPT ![b].imsi = r.imsi]
         /\ t.ue[b].state = s.ue[b].state
<1> DEFINE imsi == r.imsi
           v == Set(s, b, "imsi", imsi)
           t == CopyImsi(s, b, r)
<1>1. s.ue \in [Blocks -> UeRecord]
  BY DEF Program
<1>2. t = IF imsi = None THEN s ELSE v
  BY DEF CopyImsi
<1> HIDE DEF imsi
<1>3. /\ v \in Program /\ v.aborted = s.aborted
      /\ SameBases(s, v) /\ v.flows = s.flows /\ v.answer = s.answer
      /\ v.ue = [s.ue EXCEPT ![b].imsi = imsi]
  BY ImsiEffect DEF imsi
<1> HIDE DEF v, t
<1>4. Plain(s, v, b) /\ v.ue[b].state = s.ue[b].state
  BY <1>1, <1>3 DEF Plain, UeRecord
<1>5. Plain(s, s, b)
  BY DEF Plain, SameBases, SameMemory, SameRegistry, SameTunnels
<1> QED BY <1>2, <1>3, <1>4, <1>5 DEF t, imsi

\* UEs keep their tunnels.
LEMMA TunnelsKept ==
  ASSUME NEW s, NEW t, TunnelsOK(s), SameMemory(s, t), SameTunnels(s, t), t.sent = s.sent,
         \A c \in Blocks : t.ue[c].s11 = s.ue[c].s11 /\ t.ue[c].s5 = s.ue[c].s5
  PROVE  TunnelsOK(t)
<1>1. \A c \in Blocks : Live(t, c) <=> Live(s, c)
  BY DEF Live, SameMemory
<1>2. ChunksOK(t)
  BY DEF TunnelsOK, ChunksOK, SameTunnels
<1> QED BY <1>1, <1>2 DEF TunnelsOK, SameTunnels

LEMMA GoingRegisterSgw ==
  ASSUME NEW s, NEW b \in Blocks, Going(s, b), TunnelsOK(s), ~ s.aborted => Live(s, b)
  PROVE  Going(RegisterSgw(s, b), b) /\ TunnelsOK(RegisterSgw(s, b))
<1> DEFINE t == RegisterSgw(s, b)
<1>1. s \in Program /\ s.ue \in [Blocks -> UeRecord]
  BY DEF Going, Program
<1>2. /\ t \in Program /\ t.aborted = s.aborted
      /\ SameMemory(s, t) /\ SameTunnels(s, t) /\ t.sent = s.sent
      /\ t.sgwRbt = s.sgwRbt \cup {b} /\ t.pgwRbt = s.pgwRbt
      /\ t.ue = [s.ue EXCEPT ![b].sgw = TRUE]
  BY <1>1, RegisterSgwEffect
<1> HIDE DEF t
<1>3. /\ \A c \in Blocks \ {b} : t.ue[c] = s.ue[c]
      /\ t.ue[b].sgw /\ t.ue[b].pgw = s.ue[b].pgw
      /\ t.ue[b].s11 = s.ue[b].s11 /\ t.ue[b].s5 = s.ue[b].s5
  BY <1>1, <1>2 DEF UeRecord
<1>4. ~ t.aborted => (b \in t.pgwRbt <=> Live(s, b) /\ t.ue[b].pgw)
  BY <1>2, <1>3 DEF Going, SoundBut, RegistryOK
<1>5. ~ t.aborted => (b \in t.sgwRbt <=> Live(s, b) /\ t.ue[b].sgw)
  BY <1>2, <1>3
<1>6. t.sgwRbt \ {b} = s.sgwRbt \ {b} /\ t.pgwRbt \ {b} = s.pgwRbt \ {b}
  BY <1>2
<1>7. Going(t, b)
  BY <1>2, <1>3, <1>4, <1>5, <1>6, GoingRegistered
<1>8. TunnelsOK(t)
  BY <1>2, <1>3, TunnelsKept
<1> QED BY <1>7, <1>8 DEF t

LEMMA GoingRegisterPgw ==
  ASSUME NEW s, NEW b \in Blocks, Going(s, b), TunnelsOK(s), ~ s.aborted => Live(s, b)
  PROVE  Going(RegisterPgw(s, b), b) /\ TunnelsOK(RegisterPgw(s, b))
<1> DEFINE t == RegisterPgw(s, b)
           addr == IF s.pool = <<>> THEN None ELSE Head(s.pool)
<1>1. s \in Program /\ s.ue \in [Blocks -> UeRecord]
  BY DEF Going, Program
<1>2. /\ t \in Program /\ t.aborted = s.aborted
      /\ SameMemory(s, t) /\ SameTunnels(s, t) /\ t.sent = s.sent
      /\ t.sgwRbt = s.sgwRbt /\ t.pgwRbt = s.pgwRbt \cup {b}
      /\ t.ue = [s.ue EXCEPT ![b].pgw = TRUE, ![b].addr = addr]
  BY <1>1, RegisterPgwEffect
<1> HIDE DEF t, addr
<1>3. /\ \A c \in Blocks \ {b} : t.ue[c] = s.ue[c]
      /\ t.ue[b].pgw /\ t.ue[b].sgw = s.ue[b].sgw
      /\ t.ue[b].s11 = s.ue[b].s11 /\ t.ue[b].s5 = s.ue[b].s5
  BY <1>1, <1>2 DEF UeRecord
<1>4. ~ t.aborted => (b \in t.sgwRbt <=> Live(s, b) /\ t.ue[b].sgw)
  BY <1>2, <1>3 DEF Going, SoundBut, RegistryOK
<1>5. ~ t.aborted => (b \in t.pgwRbt <=> Live(s, b) /\ t.ue[b].pgw)
  BY <1>2, <1>3
<1>6. t.sgwRbt \ {b} = s.sgwRbt \ {b} /\ t.pgwRbt \ {b} = s.pgwRbt \ {b}
  BY <1>2
<1>7. Going(t, b)
  BY <1>2, <1>3, <1>4, <1>5, <1>6, GoingRegistered
<1>8. TunnelsOK(t)
  BY <1>2, <1>3, TunnelsKept
<1> QED BY <1>7, <1>8 DEF t

-----------------------------------------------------------------------------
(* Create Session Request *)

-----------------------------------------------------------------------------
(* Create Session Request *)

LEMMA AcceptEffect ==
  ASSUME NEW s, NEW x \in Trxns, NEW b \in Blocks, Going(s, b), TunnelsOK(s),
         s.ue[b].s11 \notin Chunks, ~ s.aborted => Live(s, b),
         NEW t, t = CreateAnswer(s, x, b, "accepted")
  PROVE  /\ Going(t, b)
         /\ t.aborted <=> s.aborted \/ s.answer # None
         /\ \E c : NewS11(s, t, b, c)
         /\ t.answer = [trxn |-> x, ue |-> b, cause |-> "accepted"]
<1> DEFINE v == Answer(s, x, b, "accepted")
<1>1. s \in Program /\ "accepted" \in Causes
  BY DEF Going, Causes
<1>2. /\ v \in Program /\ (v.aborted <=> s.aborted \/ s.answer # None)
      /\ SameBases(s, v) /\ v.ue = s.ue /\ v.flows = s.flows
      /\ v.answer = [trxn |-> x, ue |-> b, cause |-> "accepted"]
  BY <1>1, AnswerEffect
<1>3. Plain(s, v, b)
  BY <1>1, AnswerPlain
<1>4. t = Set(CreateTunnel(v, b, "s11Map").state, b, "s11", CreateTunnel(v, b, "s11Map").chunk)
  BY DEF CreateAnswer
<1> HIDE DEF v
<1>5. Going(v, b) /\ TunnelsOK(v)
  BY <1>3, PlainGoing
<1>6. v.ue[b].s11 \notin Chunks /\ (~ v.aborted => Live(v, b))
  BY <1>2 DEF Live, SameBases, SameMemory
<1>7. /\ Going(t, b)
      /\ t.aborted <=> v.aborted \/ \E d \in v.s11Map : v.tun[d] = b
      /\ \E c : NewS11(v, t, b, c)
      /\ t.answer = v.answer
  BY <1>4, <1>5, <1>6, GoingS11
<1>8. ASSUME ~ v.aborted PROVE \A d \in v.s11Map : v.tun[d] # b
  <2>1. Live(v, b) /\ v.s11Map \subseteq Chunks
    BY <1>2, <1>6, <1>8 DEF Program
  <2> QED BY <1>5, <1>6, <2>1 DEF TunnelsOK
<1>9. \E c : NewS11(s, t, b, c)
  <2>1. PICK c : NewS11(v, t, b, c)
    BY <1>7
  <2>2. NewS11(s, t, b, c)
    BY <1>2, <2>1 DEF NewS11, SameBases, SameMemory, SameRegistry, SameTunnels
  <2> QED BY <2>2
<1> QED BY <1>2, <1>7, <1>8, <1>9

\* The record of a UE whose session with the collocated PGW is accepted.
Accepted(u, b, ebi, addr, c) ==
  [u EXCEPT !.pgw = TRUE, !.addr = addr, !.hPgw = TRUE, !.state = "SAE_CREATED",
            !.up = SgwUplinkAt(b, ebi), !.pup = PgwUplinkAt(b, ebi), !.s11 = c]

\* What is new when the session of b is accepted.
CreatedLocally(s, t, x, b, ebi, c) ==
  /\ c \in Chunks /\ c \notin s.s11Map \cup s.s5Map
  /\ t.ue[b] = Accepted(s.ue[b], b, ebi, Head(s.pool), c)
  /\ \A d \in Blocks \ {b} : t.ue[d] = s.ue[d]
  /\ t.tun[c] = b /\ \A d \in Chunks \ {c} : t.tun[d] = s.tun[d]
  /\ t.s11Map = s.s11Map \cup {c} /\ t.s5Map = s.s5Map
  /\ SameMemory(s, t) /\ t.sent = s.sent
  /\ t.sgwRbt = s.sgwRbt /\ t.pgwRbt = s.pgwRbt \cup {b} /\ t.pool = Tail(s.pool)
  /\ t.flows = s.flows \cup ToPdn(SgwUplinkAt(b, ebi), PgwUplinkAt(b, ebi))
  /\ t.answer = [trxn |-> x, ue |-> b, cause |-> "accepted"]

\* With the collocated PGW.
LEMMA CreateLocallyEffect ==
  ASSUME NEW s, NEW x \in Trxns, NEW b \in Blocks, NEW ebi \in Ebis, Going(s, b), TunnelsOK(s),
         s.ue[b].s11 \notin Chunks, s.ue[b].sgw, ~ s.aborted => Live(s, b),
         NEW t, t = CreateLocally(s, x, b, ebi)
  PROVE  /\ Done(t, b)
         /\ /\ ~ s.aborted /\ s.answer = None /\ s.pool # <<>>
            /\ \A f \in s.flows : f.in # SgwUplinkAt(b, ebi) /\ f.in # PgwUplinkAt(b, ebi)
            => ~ t.aborted /\ \E c : CreatedLocally(s, t, x, b, ebi, c)
<1> DEFINE p == RegisterPgw(s, b)
           addr == IF s.pool = <<>> THEN None ELSE Head(s.pool)
           u == [p.ue[b] EXCEPT !.hPgw = TRUE, !.state = "SAE_CREATED"]
           q == [p EXCEPT !.ue = [p.ue EXCEPT ![b] = u]]
           v == InstallUplink(q, b, ebi, None)
           in1 == SgwUplinkAt(b, ebi)
           in2 == PgwUplinkAt(b, ebi)
<1>1. s \in Program /\ s.ue \in [Blocks -> UeRecord]
  BY DEF Going, Program
<1>2. /\ p \in Program /\ p.aborted = s.aborted
      /\ SameMemory(s, p) /\ SameTunnels(s, p) /\ p.sent = s.sent
      /\ p.flows = s.flows /\ p.answer = s.answer
      /\ p.sgwRbt = s.sgwRbt /\ p.pgwRbt = s.pgwRbt \cup {b}
      /\ p.pool = IF s.pool = <<>> THEN s.pool ELSE Tail(s.pool)
      /\ p.ue = [s.ue EXCEPT ![b].pgw = TRUE, ![b].addr = addr]
      /\ addr \in LocalPool \cup {None}
  BY <1>1, RegisterPgwEffect
<1>3. Going(p, b) /\ TunnelsOK(p)
  BY GoingRegisterPgw
<1>4. t = IF p.ue[b].addr = None THEN End(SgwDeregister(p, b), x, b, "rejected")
          ELSE CreateAnswer(v, x, b, "accepted")
  <2>1. [p EXCEPT !.ue[b].hPgw = TRUE, !.ue[b].state = "SAE_CREATED"] = q
    <3>1. p.ue \in [Blocks -> UeRecord]
      BY <1>2 DEF Program
    <3>2. [p.ue EXCEPT ![b].hPgw = TRUE, ![b].state = "SAE_CREATED"] = [p.ue EXCEPT ![b] = u]
      BY <3>1
    <3>3. [p EXCEPT !.ue[b].hPgw = TRUE, !.ue[b].state = "SAE_CREATED"]
            = [p EXCEPT !.ue = [p.ue EXCEPT ![b].hPgw = TRUE, ![b].state = "SAE_CREATED"]]
      BY <1>2 DEF Program
    <3> QED BY <3>2, <3>3
  <2> QED BY <2>1 DEF CreateLocally
<1>5. v = InstallUplink(q, b, ebi, None) /\ in1 = SgwUplinkAt(b, ebi) /\ in2 = PgwUplinkAt(b, ebi)
  OBVIOUS
<1> HIDE DEF p, addr, v
<1>6. p.ue[b].addr = addr
  BY <1>1, <1>2 DEF UeRecord
<1>7. CASE p.ue[b].addr = None
  <2>1. Going(SgwDeregister(p, b), b) /\ "rejected" \in Causes
    BY <1>3, GoingSgwDeregister DEF Causes
  <2>2. Done(t, b)
    BY <1>4, <1>7, <2>1, EndDone
  <2>3. s.pool = <<>>
    <3> SUFFICES ASSUME s.pool # <<>> PROVE FALSE
      OBVIOUS
    <3>1. Head(s.pool) \in LocalPool
      BY <1>1, HeadTailProperties DEF Program
    <3> QED BY <1>6, <1>7, <3>1, NoneAssumption DEF addr
  <2> QED BY <2>2, <2>3
<1>8. CASE p.ue[b].addr # None
  <2>1. p.ue \in [Blocks -> UeRecord] /\ "SAE_CREATED" \in States
    BY <1>2 DEF Program, States
  <2>2. /\ u \in UeRecord /\ u.sgw /\ u.pgw /\ u.s11 = s.ue[b].s11 /\ u.s5 = s.ue[b].s5
        /\ u.state = "SAE_CREATED" /\ u.addr = addr
        /\ u = [s.ue[b] EXCEPT !.pgw = TRUE, !.addr = addr, !.hPgw = TRUE, !.state = "SAE_CREATED"]
    <3>1. p.ue[b] = [s.ue[b] EXCEPT !.pgw = TRUE, !.addr = addr]
      BY <1>1, <1>2
    <3>2. p.ue[b] \in UeRecord /\ s.ue[b] \in UeRecord
      BY <1>1, <2>1
    <3>3. /\ u \in UeRecord /\ u.sgw = p.ue[b].sgw /\ u.pgw = p.ue[b].pgw
          /\ u.s11 = p.ue[b].s11 /\ u.s5 = p.ue[b].s5 /\ u.addr = p.ue[b].addr
          /\ u.state = "SAE_CREATED"
      BY ZenonT(60), <2>1, <3>2 DEF UeRecord
    <3>4. /\ p.ue[b].sgw /\ p.ue[b].pgw /\ p.ue[b].s11 = s.ue[b].s11
          /\ p.ue[b].s5 = s.ue[b].s5 /\ p.ue[b].addr = addr
      BY <3>1, <3>2 DEF UeRecord
    <3>5. u = [s.ue[b] EXCEPT !.pgw = TRUE, !.addr = addr, !.hPgw = TRUE, !.state = "SAE_CREATED"]
      BY <3>1, <3>2 DEF UeRecord
    <3> QED BY <3>3, <3>4, <3>5
  <2>20. /\ p.ue[b].sgw = u.sgw /\ p.ue[b].pgw = u.pgw
         /\ p.ue[b].s11 = u.s11 /\ p.ue[b].s5 = u.s5
    BY <2>1 DEF UeRecord
  <2> HIDE DEF u
  <2>3. /\ [p.ue EXCEPT ![b] = u] \in [Blocks -> UeRecord]
        /\ \A c \in Blocks \ {b} : p.ue[c] = s.ue[c]
    BY <1>1, <1>2, <2>1, <2>2
  <2>4. /\ q \in Program /\ SameBases(p, q) /\ q.aborted = p.aborted
        /\ q.ue = [p.ue EXCEPT ![b] = u]
        /\ q.flows = p.flows /\ q.answer = p.answer
    BY <1>2, <2>3 DEF Program, SameBases, SameMemory, SameRegistry, SameTunnels
  <2> HIDE DEF q
  <2>5. q.ue[b] = u /\ \A c \in Blocks \ {b} : q.ue[c] = p.ue[c]
    BY <2>1, <2>4
  <2>6. /\ p.ue[b].sgw = u.sgw /\ p.ue[b].pgw = u.pgw
        /\ p.ue[b].s11 = u.s11 /\ p.ue[b].s5 = u.s5
    BY <2>20
  <2>7. Going(q, b)
    BY <1>3, <2>4, <2>5, <2>6, GoingOn
  <2>8. TunnelsOK(q)
    <3>1. \A c \in Blocks : q.ue[c].s11 = p.ue[c].s11 /\ q.ue[c].s5 = p.ue[c].s5
      BY <2>5, <2>6
    <3> QED BY <1>3, <2>4, <3>1, TunnelsKept DEF SameBases
  <2>9. IsSae(q.ue[b])
    BY <2>2, <2>5 DEF IsSae
  <2>10. /\ Plain(q, v, b) /\ v.answer = q.answer
         /\ v.ue[b] = WithUplinks(q.ue[b], in1, in2)
         /\ in1 \in Endpoint /\ in2 \in Endpoint
         /\ (\A f \in q.flows : f.in # in1 /\ f.in # in2) =>
              /\ v.aborted = q.aborted
              /\ v.flows = q.flows \cup ToPdn(in1, in2)
    <3> HIDE DEF in1, in2
    <3>1. q \in Program
      BY <2>4
    <3> QED BY <1>5, <2>9, <3>1, SaeUplinkEffect
  <2> HIDE DEF in1, in2
  <2>11. /\ v.ue[b] = WithUplinks(u, in1, in2)
         /\ \A c \in Blocks \ {b} : v.ue[c] = s.ue[c]
    BY <2>3, <2>5, <2>10 DEF Plain
  <2>12. v.ue[b].state = "SAE_CREATED" /\ v.ue[b].addr = addr
         /\ v.ue[b].sgw /\ v.ue[b].pgw /\ v.ue[b].s11 \notin Chunks
    BY <2>2, <2>11 DEF WithUplinks, UeRecord
  <2>13. Going(v, b) /\ TunnelsOK(v)
    BY <2>7, <2>8, <2>10, PlainGoing
  <2>14. ~ v.aborted => Live(v, b)
    BY <1>2, <2>4, <2>10 DEF Plain, Live, SameBases, SameMemory
  <2>15. t = CreateAnswer(v, x, b, "accepted")
    BY <1>4, <1>8
  <2>16. /\ Going(t, b)
         /\ t.aborted <=> v.aborted \/ v.answer # None
         /\ \E c : NewS11(v, t, b, c)
         /\ t.answer = [trxn |-> x, ue |-> b, cause |-> "accepted"]
    BY <2>12, <2>13, <2>14, <2>15, AcceptEffect
  <2>17. PICK c : NewS11(v, t, b, c)
    BY <2>16
  <2>18. v.ue[b] \in UeRecord
    BY <2>10 DEF Plain, Program
  <2>19. /\ t.ue[b] = [v.ue[b] EXCEPT !.s11 = c] /\ \A d \in Blocks \ {b} : t.ue[d] = s.ue[d]
         /\ t.ue[b].state = "SAE_CREATED" /\ t.ue[b].addr = addr /\ t.ue[b].sgw /\ t.ue[b].pgw
    BY <2>11, <2>12, <2>17, <2>18 DEF UeRecord, NewS11
  <2>21. Done(t, b)
    <3>1. ASSUME ~ t.aborted PROVE UeOK(t, b)
      <4>1. Live(t, b)
        BY <2>14, <2>16, <2>17, <3>1 DEF NewS11, Live, SameMemory
      <4>2. addr \in LocalPool
        BY <1>2, <1>6, <1>8
      <4> QED BY <2>19, <4>1, <4>2 DEF UeOK
    <3> QED BY <2>16, <3>1 DEF Done
  <2>22. ASSUME ~ s.aborted, s.answer = None, s.pool # <<>>,
                \A f \in s.flows : f.in # in1 /\ f.in # in2
         PROVE  ~ t.aborted /\ CreatedLocally(s, t, x, b, ebi, c)
    <3>1. addr = Head(s.pool) /\ p.pool = Tail(s.pool)
      BY <1>2, <2>22 DEF addr
    <3>2. v.aborted = q.aborted
          /\ v.flows = s.flows \cup ToPdn(in1, in2)
      BY <1>2, <2>4, <2>10, <2>22
    <3>3. ~ t.aborted
      BY <1>2, <2>4, <2>10, <2>16, <2>22, <3>2
    <3>4. [v.ue[b] EXCEPT !.s11 = c] = Accepted(s.ue[b], b, ebi, Head(s.pool), c)
      BY <1>1, <2>2, <2>11, <3>1 DEF Accepted, WithUplinks, in1, in2, UeRecord
    <3>5. /\ SameMemory(s, t) /\ t.sent = s.sent /\ t.flows = v.flows
          /\ v.tun = s.tun /\ v.s11Map = s.s11Map /\ v.s5Map = s.s5Map
      BY <1>2, <2>4, <2>10, <2>17 DEF NewS11, Plain, SameBases, SameMemory, SameTunnels
    <3>6. t.sgwRbt = s.sgwRbt /\ t.pgwRbt = s.pgwRbt \cup {b} /\ t.pool = Tail(s.pool)
      BY <1>2, <2>4, <2>10, <2>17, <3>1 DEF NewS11, Plain, SameBases, SameRegistry
    <3> QED BY <2>16, <2>17, <2>19, <3>2, <3>3, <3>4, <3>5, <3>6
            DEF NewS11, CreatedLocally, in1, in2
  <2> QED BY <2>21, <2>22 DEF in1, in2
<1> QED BY <1>7, <1>8

\* A new UE after its Create Session Request r.
LocalUe(u, b, r, addr, c) ==
  /\ u.state = "SAE_CREATED" /\ u.imsi = r.imsi /\ u.ebi = r.ebi
  /\ u.sgw /\ u.pgw /\ u.hPgw /\ u.addr = addr
  /\ u.up = SgwUplinkAt(b, r.ebi) /\ u.pup = PgwUplinkAt(b, r.ebi) /\ u.down = None
  /\ u.s11 = c /\ u.s5 = None

RemoteUe(u, r, c) ==
  /\ u.state = "WT_CREATE" /\ u.imsi = r.imsi /\ u.ebi = r.ebi
  /\ u.sgw /\ ~ u.pgw /\ ~ u.hPgw /\ u.addr = None
  /\ u.up = None /\ u.pup = None /\ u.down = None
  /\ u.s11 = None /\ u.s5 = c

LocalCreate(s, t, x, b, r, c) ==
  /\ c \in Chunks /\ c \notin s.s11Map \cup s.s5Map
  /\ LocalUe(t.ue[b], b, r, Head(s.pool), c) /\ \A d \in Blocks \ {b} : t.ue[d] = s.ue[d]
  /\ t.tun[c] = b /\ \A d \in Chunks \ {c} : t.tun[d] = s.tun[d]
  /\ t.s11Map = s.s11Map \cup {c} /\ t.s5Map = s.s5Map
  /\ SameMemory(s, t) /\ t.sent = s.sent
  /\ t.sgwRbt = s.sgwRbt \cup {b} /\ t.pgwRbt = s.pgwRbt \cup {b} /\ t.pool = Tail(s.pool)
  /\ t.flows = s.flows \cup ToPdn(SgwUplinkAt(b, r.ebi), PgwUplinkAt(b, r.ebi))
  /\ t.answer = [trxn |-> x, ue |-> b, cause |-> "accepted"]

RemoteCreate(s, t, x, b, r, c) ==
  /\ c \in Chunks /\ c \notin s.s11Map \cup s.s5Map
  /\ RemoteUe(t.ue[b], r, c) /\ \A d \in Blocks \ {b} : t.ue[d] = s.ue[d]
  /\ t.tun[c] = b /\ \A d \in Chunks \ {c} : t.tun[d] = s.tun[d]
  /\ t.s5Map = s.s5Map \cup {c} /\ t.s11Map = s.s11Map
  /\ SameMemory(s, t) /\ t.sent = s.sent \cup {[kind |-> "create", chunk |-> c, trxn |-> x]}
  /\ t.sgwRbt = s.sgwRbt \cup {b} /\ t.pgwRbt = s.pgwRbt /\ t.pool = s.pool
  /\ t.flows = s.flows /\ t.answer = s.answer

RefusedCreate(s, t, x, b) ==
  /\ Plain(s, t, b) /\ t.ue[b].state = "END" /\ t.flows = s.flows
  /\ t.answer = [trxn |-> x, ue |-> b, cause |-> "rejected"]

\* The UE takes its name from the request.
NamedUe(u, r) ==
  /\ u.state = "INIT" /\ u.imsi = r.imsi /\ u.ebi = r.ebi
  /\ ~ u.sgw /\ ~ u.pgw /\ ~ u.hPgw /\ u.addr = None
  /\ u.up = None /\ u.pup = None /\ u.down = None
  /\ u.s11 = None /\ u.s5 = None

LEMMA NameEffect ==
  ASSUME NEW s \in Program, NEW b \in Blocks, NEW r \in CreateRequest, s.ue[b] = BlankUe,
         NEW v, v = Set(CopyImsi(s, b, r), b, "ebi", r.ebi)
  PROVE  /\ Plain(s, v, b) /\ v.aborted = s.aborted
         /\ v.flows = s.flows /\ v.answer = s.answer
         /\ v.ue[b].state = "INIT"
         /\ r.imsi # None => NamedUe(v.ue[b], r)
<1> DEFINE u == CopyImsi(s, b, r)
           ebi == r.ebi
<1>1. s.ue \in [Blocks -> UeRecord] /\ BlankUe \in UeRecord
  BY DEF Program, BlankUe, UeRecord, States
<1>2. r.imsi \in Imsis \cup {None} /\ ebi \in Ebis
  BY SgwAssumption DEF CreateRequest
<1>3. /\ Plain(s, u, b) /\ u.aborted = s.aborted
      /\ u.flows = s.flows /\ u.answer = s.answer
      /\ u.ue = IF r.imsi = None THEN s.ue ELSE [s.ue EXCEPT ![b].imsi = r.imsi]
      /\ u.ue[b].state = s.ue[b].state
  BY <1>2, CopyImsiEffect
<1>4. v = Set(u, b, "ebi", ebi)
  OBVIOUS
<1> HIDE DEF u, ebi
<1>5. u \in Program
  BY <1>3 DEF Plain
<1>6. /\ v \in Program /\ v.aborted = u.aborted
      /\ SameBases(u, v) /\ v.flows = u.flows /\ v.answer = u.answer
      /\ v.ue = [u.ue EXCEPT ![b].ebi = ebi]
  BY <1>2, <1>4, <1>5, EbiEffect
<1>7. u.ue \in [Blocks -> UeRecord]
  BY <1>5 DEF Program
<1>8. Plain(u, v, b) /\ v.ue[b].state = u.ue[b].state
  BY <1>6, <1>7 DEF Plain, UeRecord
<1>9. Plain(s, v, b)
  BY <1>3, <1>8, PlainTwice
<1>10. v.ue[b].state = "INIT"
  BY <1>3, <1>8 DEF BlankUe
<1>11. ASSUME r.imsi # None PROVE NamedUe(v.ue[b], r)
  <2>1. u.ue[b] = [BlankUe EXCEPT !.imsi = r.imsi]
    BY <1>1, <1>3, <1>11
  <2>2. v.ue[b] = [u.ue[b] EXCEPT !.ebi = ebi]
    BY <1>6, <1>7
  <2>3. u.ue[b] \in UeRecord
    BY <1>7
  <2>4. /\ u.ue[b].imsi = r.imsi
        /\ u.ue[b].s11 = BlankUe.s11 /\ u.ue[b].s5 = BlankUe.s5 /\ u.ue[b].up = BlankUe.up
        /\ u.ue[b].pup = BlankUe.pup /\ u.ue[b].down = BlankUe.down /\ u.ue[b].addr = BlankUe.addr
        /\ u.ue[b].sgw = BlankUe.sgw /\ u.ue[b].pgw = BlankUe.pgw /\ u.ue[b].hPgw = BlankUe.hPgw
        /\ u.ue[b].state = BlankUe.state
    BY <1>1, <2>1 DEF UeRecord
  <2>5. /\ v.ue[b].ebi = ebi /\ v.ue[b].imsi = u.ue[b].imsi
        /\ v.ue[b].s11 = u.ue[b].s11 /\ v.ue[b].s5 = u.ue[b].s5 /\ v.ue[b].up = u.ue[b].up
        /\ v.ue[b].pup = u.ue[b].pup /\ v.ue[b].down = u.ue[b].down /\ v.ue[b].addr = u.ue[b].addr
        /\ v.ue[b].sgw = u.ue[b].sgw /\ v.ue[b].pgw = u.ue[b].pgw /\ v.ue[b].hPgw = u.ue[b].hPgw
        /\ v.ue[b].state = u.ue[b].state
    BY <2>2, <2>3 DEF UeRecord
  <2> QED BY <2>4, <2>5 DEF NamedUe, BlankUe, ebi
<1> QED BY <1>3, <1>6, <1>9, <1>10, <1>11

LEMMA HandleCreateEffect ==
  ASSUME NEW s, NEW x \in Trxns, NEW b \in Blocks, NEW r \in CreateRequest,
         Going(s, b), ~ s.aborted, Live(s, b), s.ue[b] = BlankUe, s.answer = None,
         NEW t, t = HandleCreate(s, x, b, r)
  PROVE  /\ Done(t, b)
         /\ r.flaw = "none" /\ r.ebi = 5
            /\ (r.local => s.pool # <<>>)
            /\ (\A f \in s.flows : f.in # SgwUplinkAt(b, 5) /\ f.in # PgwUplinkAt(b, 5))
            => /\ ~ t.aborted
               /\ \/ RefusedCreate(s, t, x, b)
                  \/ /\ \A c \in s.sgwRbt : s.ue[c].imsi # r.imsi
                     /\ IF r.local THEN \E c : LocalCreate(s, t, x, b, r, c)
                                   ELSE \E c : RemoteCreate(s, t, x, b, r, c)
<1> DEFINE u == CopyImsi(s, b, r)
           v == Set(u, b, "ebi", r.ebi)
           w == RegisterSgw(v, b)
<1>1. /\ s \in Program /\ TunnelsOK(s) /\ s.ue \in [Blocks -> UeRecord]
      /\ s.sgwRbt \subseteq Blocks
  BY DEF Going, SoundBut, Program
<1>2. r.imsi \in Imsis \cup {None} /\ r.ebi \in Ebis /\ None \notin Imsis
  BY SgwAssumption, NoneAssumption DEF CreateRequest
<1>3. Plain(s, u, b) /\ u.aborted = s.aborted
  BY ZenonT(60), <1>1, <1>2, CopyImsiEffect
<1>4. Going(u, b)
  BY <1>3, PlainGoing
<1>5. /\ Plain(s, v, b) /\ v.aborted = s.aborted
      /\ v.flows = s.flows /\ v.answer = s.answer
      /\ v.ue[b].state = "INIT"
      /\ r.imsi # None => NamedUe(v.ue[b], r)
  BY <1>1, NameEffect
<1>6. /\ (r.flaw = "none" <=> ParseCreate(r) = "ok" /\ r.flaw # "stack")
      /\ r.flaw # "stack" => ParseCreate(r) \in {"ok", "incorrect", "missing", "unknown"}
      /\ r.flaw \in {"none", "stack", "FTEID", "BEARER", "PAA", "IMSI"}
      /\ r.flaw = "none" => r.imsi # None
  BY <1>2 DEF CreateRequest, ParseCreate
<1>7. {"error", "incorrect", "missing", "unknown", "rejected"} \subseteq Causes
  BY DEF Causes
<1>8. CASE r.flaw # "none"
  <2>1. \E cause \in Causes : t = End(u, x, b, cause)
    <3>1. CASE r.flaw = "stack"
      <4>1. t = End(u, x, b, "error")
        BY <3>1 DEF HandleCreate
      <4> QED BY <1>7, <4>1
    <3>2. CASE r.flaw # "stack"
      <4>1. ParseCreate(r) # "ok" /\ ParseCreate(r) \in Causes
        BY <1>6, <1>7, <1>8, <3>2
      <4>2. t = End(u, x, b, ParseCreate(r))
        BY <1>8, <3>2, <4>1 DEF HandleCreate
      <4> QED BY <4>1, <4>2
    <3> QED BY <3>1, <3>2
  <2> QED BY <1>4, <1>8, <2>1, EndDone
<1>9. CASE r.flaw = "none" /\ EbiTaken(s.ue[b], r.ebi)
  <2>1. t = End(u, x, b, "rejected")
    BY <1>6, <1>9 DEF HandleCreate
  <2>2. Done(t, b)
    BY <1>4, <1>7, <2>1, EndDone
  <2>3. r.ebi # 5
    <3>1. s.ue[b].ebi = None /\ 5 # None
      BY SgwAssumption, NoneAssumption DEF BlankUe
    <3> QED BY <1>9, <3>1 DEF EbiTaken
  <2> QED BY <2>2, <2>3
<1>10. CASE r.flaw = "none" /\ ~ EbiTaken(s.ue[b], r.ebi)
  <2>1. /\ Collides(v, b) => t = End(v, x, b, "rejected")
        /\ ~ Collides(v, b) /\ r.local => t = CreateLocally(w, x, b, r.ebi)
        /\ ~ Collides(v, b) /\ ~ r.local =>
              t = SendCreateToPgw(Goto(w, b, "WT_CREATE"), x, b)
    BY <1>6, <1>10 DEF HandleCreate
  <2> HIDE DEF u, v, w
  <2>2. Going(v, b) /\ TunnelsOK(v) /\ v \in Program
    BY <1>1, <1>5, PlainGoing DEF Plain
  <2>3. CASE Collides(v, b)
    <3>1. t = End(v, x, b, "rejected") /\ "rejected" \in Causes
      BY <1>7, <2>1, <2>3
    <3>2. Done(t, b)
      BY <2>2, <3>1, EndDone
    <3>3. /\ Plain(v, t, b) /\ t.ue[b].state = "END"
          /\ t.aborted <=> v.aborted \/ v.answer # None
          /\ t.ue = [v.ue EXCEPT ![b].state = "END"] /\ t.flows = v.flows
          /\ t.answer = [trxn |-> x, ue |-> b, cause |-> "rejected"]
      BY <2>2, <3>1, EndEffect
    <3>4. RefusedCreate(s, t, x, b)
      <4>1. Plain(s, t, b)
        BY <1>5, <3>3, PlainTwice
      <4> QED BY <1>5, <3>3, <4>1 DEF RefusedCreate
    <3> QED BY <1>5, <3>2, <3>3, <3>4
  <2>4. CASE ~ Collides(v, b)
    <3>1. NamedUe(v.ue[b], r)
      BY <1>5, <1>6, <1>10
    <3>2. Live(v, b) /\ ~ v.aborted
      BY <1>5 DEF Plain, Live, SameBases, SameMemory
    <3>3. Going(w, b) /\ TunnelsOK(w)
      BY <2>2, <3>2, GoingRegisterSgw DEF w
    <3>4. /\ w \in Program /\ w.aborted = v.aborted
          /\ SameMemory(v, w) /\ SameTunnels(v, w) /\ w.sent = v.sent
          /\ w.flows = v.flows /\ w.answer = v.answer
          /\ w.sgwRbt = v.sgwRbt \cup {b} /\ w.pgwRbt = v.pgwRbt /\ w.pool = v.pool
          /\ w.ue = [v.ue EXCEPT ![b].sgw = TRUE]
      BY <2>2, RegisterSgwEffect DEF w
    <3>5. /\ w.ue[b] = [v.ue[b] EXCEPT !.sgw = TRUE]
          /\ \A d \in Blocks \ {b} : w.ue[d] = s.ue[d]
      <4>1. v.ue \in [Blocks -> UeRecord]
        BY <2>2 DEF Program
      <4> QED BY <1>5, <3>4, <4>1 DEF Plain
    <3>60. /\ w.ue[b].state = "INIT" /\ w.ue[b].imsi = r.imsi /\ w.ue[b].ebi = r.ebi
           /\ w.ue[b].sgw /\ ~ w.ue[b].pgw /\ ~ w.ue[b].hPgw /\ w.ue[b].addr = None
           /\ w.ue[b].up = None /\ w.ue[b].pup = None /\ w.ue[b].down = None
           /\ w.ue[b].s11 = None /\ w.ue[b].s5 = None /\ w.ue[b] \in UeRecord
      <4>1. v.ue[b] \in UeRecord /\ w.ue[b] \in UeRecord
        BY <2>2, <3>4 DEF Program
      <4> QED BY <3>1, <3>5, <4>1 DEF NamedUe, UeRecord
    <3>6. /\ w.ue[b].sgw /\ ~ w.ue[b].pgw /\ w.ue[b].s11 = None /\ w.ue[b].s5 = None
          /\ w.ue[b].ebi = r.ebi
      BY <3>60
    <3>7. None \notin Chunks
      BY NoneAssumption
    <3>8. Live(w, b) /\ ~ w.aborted /\ w.answer = None
      BY <1>5, <3>2, <3>4 DEF Live, SameMemory
    <3>9. \A c \in s.sgwRbt : s.ue[c].imsi # r.imsi
      <4>1. v.ue[b].imsi = r.imsi /\ v.sgwRbt = s.sgwRbt
        BY <1>5, <3>1 DEF NamedUe, Plain, SameBases, SameRegistry
      <4>2. b \notin s.sgwRbt
        <5>1. ~ s.ue[b].sgw
          BY DEF BlankUe
        <5> QED BY <5>1 DEF Going, SoundBut, RegistryOK
      <4> QED BY <1>1, <1>5, <2>4, <4>1, <4>2 DEF Collides, Plain
    <3>10. SameMemory(s, w) /\ SameTunnels(s, w) /\ w.sent = s.sent /\ w.flows = s.flows
           /\ w.sgwRbt = s.sgwRbt \cup {b} /\ w.pgwRbt = s.pgwRbt /\ w.pool = s.pool
      BY <1>5, <3>4 DEF Plain, SameBases, SameMemory, SameTunnels, SameRegistry
    <3>11. CASE r.local
      <4>1. t = CreateLocally(w, x, b, r.ebi)
        BY <2>1, <2>4, <3>11
      <4>2. /\ Done(t, b)
            /\ /\ ~ w.aborted /\ w.answer = None /\ w.pool # <<>>
               /\ \A f \in w.flows : f.in # SgwUplinkAt(b, r.ebi) /\ f.in # PgwUplinkAt(b, r.ebi)
               => ~ t.aborted /\ \E c : CreatedLocally(w, t, x, b, r.ebi, c)
        BY <1>2, <3>3, <3>6, <3>7, <3>8, <4>1, CreateLocallyEffect
      <4>3. ASSUME NEW c, CreatedLocally(w, t, x, b, r.ebi, c) PROVE LocalCreate(s, t, x, b, r, c)
        <5>1. LocalUe(Accepted(w.ue[b], b, r.ebi, Head(s.pool), c), b, r, Head(s.pool), c)
          BY <3>60 DEF Accepted, LocalUe, UeRecord
        <5> QED BY <3>5, <3>10, <4>3, <5>1
                DEF CreatedLocally, LocalCreate, SameMemory, SameTunnels
      <4> QED BY <3>8, <3>9, <3>10, <3>11, <4>2, <4>3
    <3>12. CASE ~ r.local
      <4> DEFINE g == Goto(w, b, "WT_CREATE")
      <4>1. t = SendCreateToPgw(g, x, b)
        BY <2>1, <2>4, <3>12
      <4>2. "WT_CREATE" \in States
        BY DEF States
      <4>3. /\ g \in Program /\ g.aborted = w.aborted /\ SameBases(w, g)
            /\ g.ue = [w.ue EXCEPT ![b].state = "WT_CREATE"]
            /\ g.flows = w.flows /\ g.answer = w.answer
        <5>1. w \in Program
          BY <3>4
        <5> QED BY <4>2, <5>1, GotoEffect
      <4>4. Plain(w, g, b)
        BY <3>4, <4>2, GotoPlain
      <4> HIDE DEF g
      <4>5. Going(g, b) /\ TunnelsOK(g)
        BY <3>3, <4>4, PlainGoing
      <4>6. /\ g.ue[b] = [w.ue[b] EXCEPT !.state = "WT_CREATE"]
            /\ \A d \in Blocks \ {b} : g.ue[d] = s.ue[d]
        BY ZenonT(60), <3>4, <3>5, <4>3 DEF Program
      <4>7. /\ g.ue[b].s5 = None /\ g.ue[b].ebi = r.ebi /\ g.ue[b].s11 = None
            /\ g.ue[b].sgw /\ ~ g.ue[b].pgw /\ g.ue[b].state = "WT_CREATE"
        BY <3>60, <4>6 DEF UeRecord
      <4>8. Live(g, b) /\ ~ g.aborted
        BY <3>8, <4>3 DEF Live, SameBases, SameMemory
      <4>9. g.ue[b].s5 \notin Chunks
        BY <3>7, <4>7
      <4>10. /\ Going(t, b)
             /\ t.aborted <=> g.aborted \/ g.ue[b].ebi # 5 \/ \E d \in g.s5Map : g.tun[d] = b
             /\ \E c : NewS5(g, t, b, c, x)
             /\ t.answer = g.answer
        BY <4>1, <4>5, <4>8, <4>9, GoingSendCreate
      <4>11. \A d \in g.s5Map : g.tun[d] # b
        <5>1. g.s5Map \subseteq Chunks
          BY <4>3 DEF Program
        <5> QED BY <4>5, <4>8, <4>9, <5>1 DEF TunnelsOK
      <4>12. PICK c : NewS5(g, t, b, c, x)
        BY <4>10
      <4>13. /\ t.ue[b] = [g.ue[b] EXCEPT !.s5 = c] /\ c \in t.s5Map /\ Live(t, b)
        BY <4>8, <4>12 DEF NewS5, Live, SameMemory
      <4>130. g.ue[b] \in UeRecord
        BY <4>3 DEF Program
      <4>14. UeOK(t, b)
        <5>1. /\ t.ue[b].s5 = c /\ t.ue[b].sgw /\ ~ t.ue[b].pgw /\ t.ue[b].s11 = None
              /\ t.ue[b].state = "WT_CREATE"
          BY <3>60, <4>6, <4>13, <4>130 DEF UeRecord
        <5> QED BY <4>13, <5>1 DEF UeOK
      <4>15. RemoteCreate(s, t, x, b, r, c)
        <5>1. RemoteUe(t.ue[b], r, c)
          BY <3>60, <4>6, <4>13, <4>130 DEF RemoteUe, UeRecord
        <5>2. /\ SameMemory(s, g) /\ SameTunnels(s, g) /\ g.sent = s.sent /\ g.flows = s.flows
              /\ g.sgwRbt = s.sgwRbt \cup {b} /\ g.pgwRbt = s.pgwRbt /\ g.pool = s.pool
              /\ g.answer = s.answer
          BY <1>5, <3>4, <3>10, <4>3 DEF SameBases, SameMemory, SameTunnels, SameRegistry
        <5> QED BY <4>6, <4>10, <4>12, <5>1, <5>2
                DEF NewS5, RemoteCreate, SameMemory, SameTunnels, SameRegistry
      <4> QED BY <3>9, <3>12, <4>7, <4>8, <4>10, <4>11, <4>14, <4>15 DEF Done
    <3> QED BY <3>11, <3>12
  <2> QED BY <2>3, <2>4
<1> QED BY <1>6, <1>8, <1>9, <1>10

-----------------------------------------------------------------------------
(* Modify Bearer Request *)

LEMMA UeOKKept ==
  ASSUME NEW s, NEW t, NEW b \in Blocks, UeOK(s, b), Plain(s, t, b),
         t.ue[b].state = s.ue[b].state
  PROVE  UeOK(t, b)
<1>1. (Live(t, b) <=> Live(s, b)) /\ t.s5Map = s.s5Map
  BY DEF Live, Plain, SameBases, SameMemory, SameTunnels
<1> QED BY <1>1 DEF UeOK, Plain

LEMMA HandleModifyEffect ==
  ASSUME NEW s, NEW x \in Trxns, NEW b \in Blocks, NEW r \in ModifyRequest,
         Going(s, b), NEW v, Plain(s, v, b), ~ v.aborted => UeOK(v, b),
         NEW t, t = HandleModify(s, x, b, r, v)
  PROVE  /\ Done(t, b)
         /\ r.flaw = "none" /\ r.ebi = 5 /\ s.ue[b].ebi = 5 => t = Answer(v, x, b, "accepted")
<1>1. {"error", "accepted"} \subseteq Causes /\ s \in Program /\ v \in Program
  BY DEF Causes, Going, Plain
<1>2. r.imsi \in Imsis \cup {None} /\ r.flaw \in {"none", "BEARER", "stack"}
  BY DEF ModifyRequest
<1>3. CASE r.flaw = "stack"
  <2>1. Plain(s, CopyImsi(s, b, r), b)
    BY <1>1, <1>2, CopyImsiEffect
  <2>2. Going(CopyImsi(s, b, r), b)
    BY <2>1, PlainGoing
  <2>3. t = End(CopyImsi(s, b, r), x, b, "error")
    BY <1>3 DEF HandleModify
  <2> QED BY <1>1, <1>3, <2>2, <2>3, EndDone
<1>4. CASE r.flaw = "BEARER" \/ (r.flaw = "none" /\ (r.ebi < 4 \/ s.ue[b].ebi # r.ebi))
  <2>1. t = End(s, x, b, "accepted")
    BY <1>4 DEF HandleModify
  <2> QED BY <1>1, <1>4, <2>1, EndDone
<1>5. CASE r.flaw = "none" /\ ~ (r.ebi < 4) /\ s.ue[b].ebi = r.ebi
  <2>1. t = Answer(v, x, b, "accepted")
    BY <1>5 DEF HandleModify
  <2>2. /\ t \in Program /\ (t.aborted <=> v.aborted \/ v.answer # None)
        /\ SameBases(v, t) /\ t.ue = v.ue /\ t.flows = v.flows
        /\ t.answer = [trxn |-> x, ue |-> b, cause |-> "accepted"]
    BY <1>1, <2>1, AnswerEffect
  <2>3. Plain(v, t, b)
    BY <1>1, <2>1, AnswerPlain
  <2>4. Going(t, b)
    BY <2>3, PlainGoing
  <2>5. ~ t.aborted => UeOK(t, b)
    BY <2>2, <2>3, UeOKKept
  <2> QED BY <2>1, <2>4, <2>5 DEF Done
<1> QED BY <1>2, <1>3, <1>4, <1>5

\* The name of the session and where its traffic comes in from the eNodeB.
SameName(u, w) == w.imsi = u.imsi /\ w.ebi = u.ebi /\ w.up = u.up /\ w.pup = u.pup

\* The traffic to the UE goes to enb.
Modified(s, t, x, b, in, enb, state) ==
  /\ Plain(s, t, b) /\ t.aborted = s.aborted
  /\ SameName(s.ue[b], t.ue[b]) /\ t.ue[b].down = in /\ t.ue[b].state = state
  /\ t.flows = {f \in s.flows : f.in # in} \cup {[in |-> in, out |-> enb]}
  /\ t.answer = [trxn |-> x, ue |-> b, cause |-> "accepted"]

LEMMA SaeAddress ==
  ASSUME NEW s, NEW b \in Blocks, UeOK(s, b),
         s.ue[b].state \in {"SAE_CREATED", "SGW_CREATED", "SAE_ESTABLISHED", "SGW_ESTABLISHED"}
  PROVE  /\ Live(s, b)
         /\ IsSae(s.ue[b]) <=> s.ue[b].state \in SaeStates
         /\ IsSae(s.ue[b]) => s.ue[b].addr \in LocalPool
  BY DEF UeOK, IsSae, SaeStates

LEMMA AnswerModified ==
  ASSUME NEW s, NEW x \in Trxns, NEW b \in Blocks, NEW in, NEW enb, NEW state,
         NEW v, Plain(s, v, b), v.aborted = s.aborted, v.answer = None,
         SameName(s.ue[b], v.ue[b]), v.ue[b].down = in, v.ue[b].state = state,
         v.flows = {f \in s.flows : f.in # in} \cup {[in |-> in, out |-> enb]},
         NEW t, t = Answer(v, x, b, "accepted")
  PROVE  Modified(s, t, x, b, in, enb, state)
<1>1. "accepted" \in Causes /\ v \in Program
  BY DEF Causes, Plain
<1>2. /\ t \in Program /\ (t.aborted <=> v.aborted \/ v.answer # None)
      /\ SameBases(v, t) /\ t.ue = v.ue /\ t.flows = v.flows
      /\ t.answer = [trxn |-> x, ue |-> b, cause |-> "accepted"]
  BY <1>1, AnswerEffect
<1>3. Plain(v, t, b)
  BY <1>1, AnswerPlain
<1>4. Plain(s, t, b)
  BY <1>3, PlainTwice
<1>5. t.aborted = v.aborted
  BY <1>1, <1>2 DEF Program
<1> QED BY <1>2, <1>4, <1>5 DEF Modified

\* The first one, in the states SAE_CREATED and SGW_CREATED.
LEMMA FirstModifyEffect ==
  ASSUME NEW s, NEW x \in Trxns, NEW b \in Blocks, NEW r \in ModifyRequest,
         Going(s, b), UeOK(s, b), s.answer = None,
         s.ue[b].state \in {"SAE_CREATED", "SGW_CREATED"},
         NEW t, t = SaeCreatedModify(s, x, b, r),
         NEW in, in = DownlinkAt(s.ue[b], b, 5)
  PROVE  /\ Done(t, b)
         /\ r.flaw = "none" /\ r.ebi = 5 /\ s.ue[b].ebi = 5 /\ s.ue[b].down = None
            /\ (\A f \in s.flows : f.in # in)
            => Modified(s, t, x, b, in, r.enb,
                        IF IsSae(s.ue[b]) THEN "SAE_ESTABLISHED" ELSE "SGW_ESTABLISHED")
<1> DEFINE v == InstallDownlink(s, b, r.ebi, r.enb)
           state == IF IsSae(s.ue[b]) THEN "SAE_ESTABLISHED" ELSE "SGW_ESTABLISHED"
           w == Goto(v, b, state)
           at == DownlinkAt(s.ue[b], b, r.ebi)
<1>1. s \in Program /\ s.ue[b] \in UeRecord
  BY DEF Going, Program
<1>2. r.ebi \in Ebis /\ r.enb \in ENodeBs /\ state \in States
  BY SgwAssumption DEF ModifyRequest, States
<1>3. /\ Live(s, b) /\ (IsSae(s.ue[b]) <=> s.ue[b].state \in SaeStates)
      /\ IsSae(s.ue[b]) => s.ue[b].addr \in LocalPool
  BY SaeAddress
<1>4. t = HandleModify(s, x, b, r, w)
  BY DEF SaeCreatedModify
<1> HIDE DEF state, at
<1>5. /\ Plain(s, v, b) /\ v.answer = s.answer /\ v.ue[b].state = s.ue[b].state
      /\ at \in Endpoint
      /\ s.ue[b].down = None /\ (\A f \in s.flows : f.in # at) =>
           /\ v.aborted = s.aborted
           /\ v.ue = [s.ue EXCEPT ![b] = WithDown(s.ue[b], at)]
           /\ v.flows = s.flows \cup {[in |-> at, out |-> r.enb]}
  BY <1>1, <1>2, <1>3, InstallDownlinkEffect DEF at
<1> HIDE DEF v
<1>6. v \in Program
  BY <1>5 DEF Plain
<1>7. /\ Plain(v, w, b) /\ w.ue[b].state = state
  BY <1>2, <1>6, GotoPlain
<1>8. /\ w \in Program /\ w.aborted = v.aborted /\ SameBases(v, w)
      /\ w.ue = [v.ue EXCEPT ![b].state = state]
      /\ w.flows = v.flows /\ w.answer = v.answer
  BY <1>2, <1>6, GotoEffect
<1> HIDE DEF w
<1>9. Plain(s, w, b)
  BY <1>5, <1>7, PlainTwice
<1>10. ASSUME ~ w.aborted PROVE UeOK(w, b)
  <2>1. Live(w, b) /\ w.s5Map = s.s5Map
    BY <1>3, <1>9 DEF Live, Plain, SameBases, SameMemory, SameTunnels
  <2>2. /\ w.ue[b].sgw = s.ue[b].sgw /\ w.ue[b].pgw = s.ue[b].pgw
        /\ w.ue[b].s5 = s.ue[b].s5 /\ w.ue[b].addr = s.ue[b].addr
    BY <1>9 DEF Plain
  <2>3. CASE IsSae(s.ue[b])
    BY <1>3, <1>7, <2>1, <2>2, <2>3 DEF state, UeOK, IsSae
  <2>4. CASE ~ IsSae(s.ue[b])
    <3>1. s.ue[b].state = "SGW_CREATED"
      BY <1>3, <2>4 DEF SaeStates
    <3>2. s.ue[b].s5 \in s.s5Map /\ s.ue[b].sgw /\ ~ s.ue[b].pgw
      BY <3>1 DEF UeOK
    <3> QED BY <1>7, <2>1, <2>2, <2>4, <3>2 DEF state, UeOK
  <2> QED BY <2>3, <2>4
<1>11. /\ Done(t, b)
       /\ r.flaw = "none" /\ r.ebi = 5 /\ s.ue[b].ebi = 5 => t = Answer(w, x, b, "accepted")
  BY <1>4, <1>9, <1>10, HandleModifyEffect
<1>12. ASSUME r.flaw = "none", r.ebi = 5, s.ue[b].ebi = 5, s.ue[b].down = None,
              \A f \in s.flows : f.in # in
       PROVE  Modified(s, t, x, b, in, r.enb, state)
  <2>1. at = in
    BY <1>12 DEF at
  <2>2. /\ v.aborted = s.aborted
        /\ v.ue = [s.ue EXCEPT ![b] = WithDown(s.ue[b], in)]
        /\ v.flows = s.flows \cup {[in |-> in, out |-> r.enb]}
    BY <1>5, <1>12, <2>1
  <2>3. {f \in s.flows : f.in # in} = s.flows
    BY <1>12
  <2>4. s.ue \in [Blocks -> UeRecord] /\ v.ue \in [Blocks -> UeRecord]
    BY <1>1, <1>6 DEF Program
  <2>5. v.ue[b] = WithDown(s.ue[b], in)
    BY <2>2, <2>4
  <2>6. SameName(s.ue[b], v.ue[b]) /\ v.ue[b].down = in
    BY <1>1, <2>5 DEF SameName, WithDown, UeRecord
  <2>7. w.ue[b] = [v.ue[b] EXCEPT !.state = state] /\ v.ue[b] \in UeRecord
    BY <1>8, <2>4
  <2>8. SameName(s.ue[b], w.ue[b]) /\ w.ue[b].down = in
    BY <2>6, <2>7 DEF SameName, UeRecord
  <2>9. t = Answer(w, x, b, "accepted")
    BY <1>11, <1>12
  <2>10. /\ w.flows = {f \in s.flows : f.in # in} \cup {[in |-> in, out |-> r.enb]}
         /\ w.aborted = s.aborted /\ w.answer = None /\ w.ue[b].state = state
    BY <1>5, <1>7, <1>8, <2>2, <2>3
  <2> QED BY <1>9, <2>8, <2>9, <2>10, AnswerModified
<1> QED BY <1>11, <1>12 DEF state

\* A later one, in the states SAE_ESTABLISHED and SGW_ESTABLISHED.
LEMMA LaterModifyEffect ==
  ASSUME NEW s, NEW x \in Trxns, NEW b \in Blocks, NEW r \in ModifyRequest,
         Going(s, b), UeOK(s, b), s.answer = None,
         s.ue[b].state \in {"SAE_ESTABLISHED", "SGW_ESTABLISHED"},
         NEW t, t = HandleModify(s, x, b, r, ModifyDownlink(s, b, r.ebi, r.enb)),
         NEW in, in = DownlinkAt(s.ue[b], b, 5)
  PROVE  /\ Done(t, b)
         /\ r.flaw = "none" /\ r.ebi = 5 /\ s.ue[b].ebi = 5 /\ s.ue[b].down = in
            /\ (\E f \in s.flows : f.in = in)
            => Modified(s, t, x, b, in, r.enb, s.ue[b].state)
<1> DEFINE v == ModifyDownlink(s, b, r.ebi, r.enb)
           at == DownlinkAt(s.ue[b], b, r.ebi)
<1>1. s \in Program /\ s.ue[b] \in UeRecord
  BY DEF Going, Program
<1>2. r.ebi \in Ebis /\ r.enb \in ENodeBs
  BY SgwAssumption DEF ModifyRequest
<1>3. /\ Live(s, b) /\ (IsSae(s.ue[b]) <=> s.ue[b].state \in SaeStates)
      /\ IsSae(s.ue[b]) => s.ue[b].addr \in LocalPool
  BY SaeAddress
<1> HIDE DEF at
<1>5. /\ Plain(s, v, b) /\ v.answer = s.answer /\ v.ue[b].state = s.ue[b].state
      /\ at \in Endpoint
      /\ s.ue[b].down = at /\ (\E f \in s.flows : f.in = at) =>
           /\ v.aborted = s.aborted
           /\ v.ue = [s.ue EXCEPT ![b] = WithDown(s.ue[b], at)]
           /\ v.flows = {f \in s.flows : f.in # at} \cup {[in |-> at, out |-> r.enb]}
  BY <1>1, <1>2, <1>3, ModifyDownlinkEffect DEF at
<1> HIDE DEF v
<1>6. UeOK(v, b)
  BY <1>5, UeOKKept
<1>7. /\ Done(t, b)
      /\ r.flaw = "none" /\ r.ebi = 5 /\ s.ue[b].ebi = 5 => t = Answer(v, x, b, "accepted")
  BY <1>5, <1>6, HandleModifyEffect DEF v
<1>8. ASSUME r.flaw = "none", r.ebi = 5, s.ue[b].ebi = 5, s.ue[b].down = in,
             \E f \in s.flows : f.in = in
      PROVE  Modified(s, t, x, b, in, r.enb, s.ue[b].state)
  <2>1. at = in
    BY <1>8 DEF at
  <2>2. /\ v.aborted = s.aborted
        /\ v.ue = [s.ue EXCEPT ![b] = WithDown(s.ue[b], in)]
        /\ v.flows = {f \in s.flows : f.in # in} \cup {[in |-> in, out |-> r.enb]}
    BY <1>5, <1>8, <2>1
  <2>3. v.ue[b] = WithDown(s.ue[b], in)
    BY <1>1, <2>2 DEF Program
  <2>4. SameName(s.ue[b], v.ue[b]) /\ v.ue[b].down = in
    BY <1>1, <2>3 DEF SameName, WithDown, UeRecord
  <2> QED BY <1>5, <1>7, <1>8, <2>2, <2>4, AnswerModified
<1> QED BY <1>7, <1>8

-----------------------------------------------------------------------------
(* Delete Session Request *)

\* The session loses its flows.
LEMMA RemoveFlowsKept ==
  ASSUME NEW s, NEW b \in Blocks, Going(s, b), NEW t, t = RemoveFlows(s, b)
  PROVE  Going(t, b) /\ Plain(s, t, b) /\ t.ue = s.ue /\ t.answer = s.answer
<1>1. s \in Program
  BY DEF Going
<1>2. Plain(s, t, b) /\ t.ue = s.ue /\ t.answer = s.answer
  BY <1>1, RemoveFlowsEffect
<1> QED BY <1>2, PlainGoing

\* The PGW is asked to delete the session.
Asked(s, t, x, b) ==
  /\ t.ue[b] = [s.ue[b] EXCEPT !.state = "WT_DELETE"]
  /\ \A d \in Blocks \ {b} : t.ue[d] = s.ue[d]
  /\ SameMemory(s, t) /\ SameRegistry(s, t) /\ SameTunnels(s, t)
  /\ t.flows = s.flows /\ t.answer = s.answer
  /\ t.sent = s.sent \cup {[kind |-> "delete", chunk |-> s.ue[b].s5, trxn |-> x]}

LEMMA AwaitDeleteEffect ==
  ASSUME NEW s, NEW x \in Trxns, NEW b \in Blocks, Going(s, b),
         ~ s.aborted => Live(s, b),
         s.ue[b].s5 \in s.s5Map, NEW t, t = EnterAwaitDelete(s, x, b)
  PROVE  Done(t, b) /\ t.aborted = s.aborted /\ Asked(s, t, x, b)
<1> DEFINE g == Goto(s, b, "WT_DELETE")
           q == [kind |-> "delete", chunk |-> s.ue[b].s5, trxn |-> x]
<1>1. s \in Program /\ "WT_DELETE" \in States
  BY DEF Going, States
<1>2. /\ g \in Program /\ g.aborted = s.aborted /\ SameBases(s, g)
      /\ g.ue = [s.ue EXCEPT ![b].state = "WT_DELETE"]
      /\ g.flows = s.flows /\ g.answer = s.answer
  BY <1>1, GotoEffect
<1>3. Plain(s, g, b)
  BY <1>1, GotoPlain
<1>4. Going(g, b)
  BY <1>3, PlainGoing
<1>5. q \in S5Request
  <2>1. s.s5Map \subseteq Chunks
    BY <1>1 DEF Program
  <2> QED BY <2>1 DEF S5Request
<1>6. t = [g EXCEPT !.sent = s.sent \cup {q}]
  BY <1>2 DEF EnterAwaitDelete, SameBases
<1>7. s.sent \cup {q} \in SUBSET S5Request
  BY <1>1, <1>5 DEF Program
<1>8. q.chunk = s.ue[b].s5
  OBVIOUS
<1> HIDE DEF g, q
<1>9. t \in Program
  BY <1>2, <1>6, <1>7 DEF Program
<1>10. /\ t.mem = g.mem /\ t.memPool = g.memPool /\ t.sgwRbt = g.sgwRbt
       /\ t.pgwRbt = g.pgwRbt /\ t.pool = g.pool /\ t.tun = g.tun /\ t.tunPool = g.tunPool
       /\ t.s11Map = g.s11Map /\ t.s5Map = g.s5Map /\ t.ue = g.ue /\ t.flows = g.flows
       /\ t.answer = g.answer /\ t.aborted = g.aborted /\ t.sent = s.sent \cup {q}
  BY <1>2, <1>6 DEF Program
<1>11. ASSUME ~ t.aborted PROVE SoundBut(t, b)
  <2>1. SoundBut(g, b) /\ Live(s, b)
    BY <1>2, <1>4, <1>10, <1>11 DEF Going
  <2>2. MemoryOK(t) /\ RegistryOK(t)
    BY <1>10, <2>1 DEF SoundBut, MemoryOK, RegistryOK, Live
  <2>3. t.tun[q.chunk] \in Blocks
    <3>1. TunnelsOK(g) /\ g.s5Map = s.s5Map
      BY <1>2, <2>1 DEF SoundBut, SameBases, SameTunnels
    <3> QED BY <1>8, <1>10, <3>1 DEF TunnelsOK
  <2>4. TunnelsOK(t)
    <3>1. TunnelsOK(g) /\ g.sent = s.sent
      BY <1>2, <2>1 DEF SoundBut, SameBases
    <3> QED BY <1>10, <2>3, <3>1 DEF TunnelsOK, ChunksOK, Live
  <2>5. \A c \in Blocks \ {b} : UeOK(t, c)
    BY <1>10, <2>1 DEF SoundBut, UeOK, Live
  <2> QED BY <2>2, <2>4, <2>5 DEF SoundBut
<1>12. Going(t, b)
  BY <1>4, <1>9, <1>10, <1>11 DEF Going, ChunksOK
<1>13. /\ t.ue[b] = [s.ue[b] EXCEPT !.state = "WT_DELETE"]
       /\ \A d \in Blocks \ {b} : t.ue[d] = s.ue[d]
  BY <1>1, <1>2, <1>10 DEF Program
<1>14. t.ue[b].state = "WT_DELETE"
  BY <1>1, <1>13 DEF Program, UeRecord
<1>15. ASSUME ~ t.aborted PROVE UeOK(t, b)
  <2>1. Live(t, b)
    BY <1>2, <1>10, <1>15 DEF Live, SameBases, SameMemory
  <2> QED BY <1>14, <2>1 DEF UeOK
<1>16. Asked(s, t, x, b)
  BY <1>2, <1>10, <1>13 DEF Asked, q, SameBases, SameMemory, SameRegistry, SameTunnels
<1> QED BY <1>2, <1>10, <1>12, <1>15, <1>16 DEF Done

\* The flows that the UE holds are there to be removed.
FlowsReady(s, b) ==
  LET u == s.ue[b] IN
  /\ u.ebi = 5 /\ UplinkOwned(u)
  /\ \A e, g \in {"up", "pup", "down"} : u[e] = u[g] => e = g \/ u[e] = None
  /\ \A e \in Ends(u) : \E f \in s.flows : f.in = e

FlowsBut(s, b) == {f \in s.flows : f.in \notin Ends(s.ue[b])}

LEMMA RemoveFlowsReady ==
  ASSUME NEW s \in Program, NEW b \in Blocks, FlowsReady(s, b), NEW t, t = RemoveFlows(s, b)
  PROVE  t.aborted = s.aborted /\ t.flows = FlowsBut(s, b)
<1>1. /\ t \in Program
      /\ t.aborted <=> s.aborted \/ \E e \in Ends(s.ue[b]) : \A f \in s.flows : f.in # e
      /\ t.flows = {f \in s.flows : f.in \notin Ends(s.ue[b])}
  BY RemoveFlowsEffect DEF FlowsReady, Plain
<1>2. t.aborted \in BOOLEAN /\ s.aborted \in BOOLEAN
  BY <1>1 DEF Program
<1> QED BY <1>1, <1>2 DEF FlowsReady, FlowsBut

\* The session with the collocated PGW is over.
SaeReleased(s, t, x, b) ==
  /\ t.ue[b].state = "END" /\ ~ t.ue[b].sgw /\ ~ t.ue[b].pgw
  /\ t.ue[b].s11 = s.ue[b].s11 /\ t.ue[b].s5 = s.ue[b].s5
  /\ \A d \in Blocks \ {b} : t.ue[d] = s.ue[d]
  /\ SameMemory(s, t) /\ SameTunnels(s, t) /\ t.sent = s.sent
  /\ t.sgwRbt = s.sgwRbt \ {b} /\ t.pgwRbt = s.pgwRbt \ {b}
  /\ t.pool = <<s.ue[b].addr>> \o s.pool
  /\ t.flows = FlowsBut(s, b)
  /\ t.answer = [trxn |-> x, ue |-> b, cause |-> "accepted"]

LEMMA SaeDeleteEffect ==
  ASSUME NEW s, NEW x \in Trxns, NEW b \in Blocks, NEW r \in DeleteRequest,
         Going(s, b), NEW t, t = SaeDelete(s, x, b, r)
  PROVE  /\ Done(t, b)
         /\ /\ ~ s.aborted /\ s.answer = None /\ r.flaw = "none" /\ FlowsReady(s, b)
            /\ s.ue[b].hPgw /\ s.ue[b].addr \in LocalPool /\ b \in s.sgwRbt /\ b \in s.pgwRbt
            => ~ t.aborted /\ SaeReleased(s, t, x, b)
<1> DEFINE w == RemoveFlows(s, b)
           v == SgwDeregister(w, b)
           p == PgwDeregister(v, b)
           e == IF v.ue[b].hPgw THEN p ELSE v
<1>1. {"error", "accepted"} \subseteq Causes /\ s \in Program /\ r.imsi \in Imsis \cup {None}
  BY DEF Causes, Going, DeleteRequest
<1>2. CASE r.flaw = "stack"
  <2>1. Plain(s, CopyImsi(s, b, r), b)
    BY <1>1, CopyImsiEffect
  <2>2. Going(CopyImsi(s, b, r), b)
    BY <2>1, PlainGoing
  <2>3. t = End(CopyImsi(s, b, r), x, b, "error")
    BY <1>2 DEF SaeDelete
  <2> QED BY <1>1, <1>2, <2>2, <2>3, EndDone
<1>3. CASE r.flaw # "stack"
  <2>1. t = End(e, x, b, "accepted")
    BY <1>3 DEF SaeDelete
  <2>2. Going(w, b) /\ Plain(s, w, b) /\ w.ue = s.ue /\ w.answer = s.answer
    BY RemoveFlowsKept
  <2>3. FlowsReady(s, b) => w.aborted = s.aborted /\ w.flows = FlowsBut(s, b)
    BY <1>1, RemoveFlowsReady
  <2> HIDE DEF w
  <2>4. Going(v, b)
    BY <2>2, GoingSgwDeregister
  <2>5. w \in Program /\ v \in Program
    BY <2>2, <2>4 DEF Going
  <2>6. /\ v.aborted <=> w.aborted \/ b \notin w.sgwRbt
        /\ SameMemory(w, v) /\ SameTunnels(w, v) /\ v.sent = w.sent
        /\ v.flows = w.flows /\ v.answer = w.answer
        /\ v.sgwRbt = w.sgwRbt \ {b} /\ v.pgwRbt = w.pgwRbt /\ v.pool = w.pool
        /\ v.ue = [w.ue EXCEPT ![b].sgw = FALSE]
    BY SMTT(60), <2>5, SgwDeregisterEffect
  <2> HIDE DEF v
  <2>7. Going(p, b)
    BY <2>4, GoingPgwDeregister
  <2>8. /\ p \in Program
        /\ p.aborted <=> v.aborted \/ ~ v.ue[b].hPgw \/ b \notin v.pgwRbt
        /\ SameMemory(v, p) /\ SameTunnels(v, p) /\ p.sent = v.sent
        /\ p.flows = v.flows /\ p.answer = v.answer
        /\ p.sgwRbt = v.sgwRbt /\ p.pgwRbt = v.pgwRbt \ {b}
        /\ p.pool = IF v.ue[b].addr = None THEN v.pool ELSE <<v.ue[b].addr>> \o v.pool
        /\ p.ue = [v.ue EXCEPT ![b].pgw = FALSE]
    BY <2>5, PgwDeregisterEffect
  <2> HIDE DEF p
  <2>9. Done(t, b)
    BY <1>1, <2>1, <2>4, <2>7, EndDone
  <2>10. ASSUME ~ s.aborted, s.answer = None, FlowsReady(s, b), s.ue[b].hPgw,
                s.ue[b].addr \in LocalPool, b \in s.sgwRbt, b \in s.pgwRbt
         PROVE  ~ t.aborted /\ SaeReleased(s, t, x, b)
    <3>1. w.aborted = s.aborted /\ w.flows = FlowsBut(s, b)
      BY <2>3, <2>10
    <3>2. SameMemory(s, w) /\ SameRegistry(s, w) /\ SameTunnels(s, w) /\ w.sent = s.sent
      BY <2>2 DEF Plain, SameBases
    <3>3. s.ue[b] \in UeRecord /\ w.ue \in [Blocks -> UeRecord] /\ v.ue \in [Blocks -> UeRecord]
      BY <1>1, <2>5 DEF Program
    <3>4. v.ue[b] = [s.ue[b] EXCEPT !.sgw = FALSE] /\ v.ue[b] \in UeRecord
      BY <2>2, <2>6, <3>3
    <3>5. p.ue[b] = [v.ue[b] EXCEPT !.pgw = FALSE] /\ p.ue[b] \in UeRecord
      BY <2>8, <3>3 DEF Program
    <3>6. /\ v.ue[b].hPgw = s.ue[b].hPgw /\ v.ue[b].addr = s.ue[b].addr /\ ~ v.ue[b].sgw
          /\ v.ue[b].s11 = s.ue[b].s11 /\ v.ue[b].s5 = s.ue[b].s5
      BY <3>3, <3>4 DEF UeRecord
    <3>7. /\ ~ p.ue[b].sgw /\ ~ p.ue[b].pgw
          /\ p.ue[b].s11 = s.ue[b].s11 /\ p.ue[b].s5 = s.ue[b].s5
      BY <3>4, <3>5, <3>6 DEF UeRecord
    <3>8. \A d \in Blocks \ {b} : p.ue[d] = s.ue[d]
      BY <2>2, <2>6, <2>8, <3>3
    <3>9. ~ p.aborted /\ p.answer = None
      BY <2>2, <2>6, <2>8, <2>10, <3>1, <3>2, <3>6 DEF SameRegistry
    <3>10. p.pool = <<s.ue[b].addr>> \o s.pool
      BY <2>6, <2>8, <2>10, <3>2, <3>6, NoneAssumption DEF SameRegistry
    <3>11. t = End(p, x, b, "accepted")
      BY <2>1, <2>10, <3>6
    <3>12. /\ Plain(p, t, b) /\ t.ue[b].state = "END"
           /\ t.aborted <=> p.aborted \/ p.answer # None
           /\ t.ue = [p.ue EXCEPT ![b].state = "END"] /\ t.flows = p.flows
           /\ t.answer = [trxn |-> x, ue |-> b, cause |-> "accepted"]
      <4>1. p \in Program /\ "accepted" \in Causes
        BY <1>1, <2>8
      <4> QED BY <3>11, <4>1, EndEffect
    <3>13. /\ SameMemory(s, t) /\ SameTunnels(s, t) /\ t.sent = s.sent
           /\ t.sgwRbt = s.sgwRbt \ {b} /\ t.pgwRbt = s.pgwRbt \ {b}
           /\ t.pool = p.pool
      <4>1. SameMemory(p, t) /\ SameRegistry(p, t) /\ SameTunnels(p, t) /\ t.sent = p.sent
        BY <3>12 DEF Plain, SameBases
      <4>2. SameMemory(s, t)
        BY <2>6, <2>8, <3>2, <4>1 DEF SameMemory
      <4>3. SameTunnels(s, t)
        BY <2>6, <2>8, <3>2, <4>1 DEF SameTunnels
      <4>4. t.sgwRbt = p.sgwRbt /\ t.pgwRbt = p.pgwRbt /\ t.pool = p.pool
        BY <4>1 DEF SameRegistry
      <4>5. w.sgwRbt = s.sgwRbt /\ w.pgwRbt = s.pgwRbt
        BY <3>2 DEF SameRegistry
      <4>6. t.sgwRbt = s.sgwRbt \ {b} /\ t.pgwRbt = s.pgwRbt \ {b}
        BY <2>6, <2>8, <4>4, <4>5
      <4>7. t.sent = s.sent
        BY <2>6, <2>8, <3>2, <4>1
      <4> QED BY <4>2, <4>3, <4>4, <4>6, <4>7
    <3>14. /\ t.ue[b].s11 = s.ue[b].s11 /\ t.ue[b].s5 = s.ue[b].s5
           /\ ~ t.ue[b].sgw /\ ~ t.ue[b].pgw
           /\ \A d \in Blocks \ {b} : t.ue[d] = s.ue[d]
      BY <3>7, <3>8, <3>12 DEF Plain
    <3>15. t.flows = FlowsBut(s, b)
      BY <2>6, <2>8, <3>1, <3>12
    <3> QED BY <3>9, <3>10, <3>12, <3>13, <3>14, <3>15 DEF SaeReleased
  <2> QED BY <2>9, <2>10
<1> QED BY <1>2, <1>3

\* The PGW is asked to delete the session, which has lost its flows.
SgwReleasing(s, t, x, b) ==
  /\ t.ue[b] = [s.ue[b] EXCEPT !.state = "WT_DELETE"]
  /\ \A d \in Blocks \ {b} : t.ue[d] = s.ue[d]
  /\ SameMemory(s, t) /\ SameRegistry(s, t) /\ SameTunnels(s, t)
  /\ t.flows = FlowsBut(s, b) /\ t.answer = s.answer
  /\ t.sent = s.sent \cup {[kind |-> "delete", chunk |-> s.ue[b].s5, trxn |-> x]}

LEMMA ReleasingEffect ==
  ASSUME NEW s, NEW x \in Trxns, NEW b \in Blocks, Going(s, b), Live(s, b),
         s.ue[b].s5 \in s.s5Map, NEW t, t = EnterAwaitDelete(RemoveFlows(s, b), x, b)
  PROVE  /\ Done(t, b)
         /\ FlowsReady(s, b) => t.aborted = s.aborted /\ SgwReleasing(s, t, x, b)
<1> DEFINE w == RemoveFlows(s, b)
<1>1. s \in Program
  BY DEF Going
<1>2. Going(w, b) /\ Plain(s, w, b) /\ w.ue = s.ue /\ w.answer = s.answer
  BY RemoveFlowsKept
<1>3. FlowsReady(s, b) => w.aborted = s.aborted /\ w.flows = FlowsBut(s, b)
  BY <1>1, RemoveFlowsReady
<1>4. t = EnterAwaitDelete(w, x, b)
  OBVIOUS
<1> HIDE DEF w
<1>5. SameMemory(s, w) /\ SameRegistry(s, w) /\ SameTunnels(s, w) /\ w.sent = s.sent
  BY <1>2 DEF Plain, SameBases
<1>6. Live(w, b) /\ w.ue[b].s5 \in w.s5Map
  BY <1>2, <1>5 DEF Live, SameMemory, SameTunnels
<1>7. Done(t, b) /\ t.aborted = w.aborted /\ Asked(w, t, x, b)
  BY <1>2, <1>4, <1>6, AwaitDeleteEffect
<1>8. ASSUME FlowsReady(s, b) PROVE SgwReleasing(s, t, x, b)
  BY <1>2, <1>3, <1>5, <1>7, <1>8
  DEF Asked, SgwReleasing, SameMemory, SameRegistry, SameTunnels
<1> QED BY <1>3, <1>7, <1>8

LEMMA SgwCreatedDeleteEffect ==
  ASSUME NEW s, NEW x \in Trxns, NEW b \in Blocks, NEW r \in DeleteRequest,
         Going(s, b), Live(s, b), s.ue[b].s5 \in s.s5Map,
         NEW t, t = SgwCreatedDelete(s, x, b, r)
  PROVE  /\ Done(t, b)
         /\ r.flaw = "none" /\ FlowsReady(s, b)
            => t.aborted = s.aborted /\ SgwReleasing(s, t, x, b)
<1>1. CASE r.flaw = "stack"
  <2>1. t = End(s, x, b, "error") /\ "error" \in Causes
    BY <1>1 DEF SgwCreatedDelete, Causes
  <2> QED BY <1>1, <2>1, EndDone
<1>2. CASE r.flaw # "stack"
  <2>1. t = EnterAwaitDelete(RemoveFlows(s, b), x, b)
    BY <1>2 DEF SgwCreatedDelete
  <2> QED BY <2>1, ReleasingEffect
<1> QED BY <1>1, <1>2

\* The session of the SGW is over; that of the PGW stays, and the UE with it.
SgwLeft(s, t, x, b) ==
  /\ SameName(s.ue[b], t.ue[b]) /\ t.ue[b].down = s.ue[b].down
  /\ t.ue[b].state = "PGW_CREATED" /\ ~ t.ue[b].sgw
  /\ t.ue[b].pgw = s.ue[b].pgw /\ t.ue[b].hPgw = s.ue[b].hPgw
  /\ t.ue[b].s11 = s.ue[b].s11 /\ t.ue[b].s5 = s.ue[b].s5
  /\ \A d \in Blocks \ {b} : t.ue[d] = s.ue[d]
  /\ SameMemory(s, t) /\ SameTunnels(s, t) /\ t.sent = s.sent
  /\ t.sgwRbt = s.sgwRbt \ {b} /\ t.pgwRbt = s.pgwRbt /\ t.pool = s.pool
  /\ t.flows = FlowsBut(s, b)
  /\ t.answer = [trxn |-> x, ue |-> b, cause |-> "accepted"]

LEMMA SgwEstablishedDeleteEffect ==
  ASSUME NEW s, NEW x \in Trxns, NEW b \in Blocks, NEW r \in DeleteRequest,
         Going(s, b), Live(s, b), s.ue[b].s5 \in s.s5Map,
         NEW t, t = SgwEstablishedDelete(s, x, b, r)
  PROVE  /\ Done(t, b)
         /\ /\ ~ s.aborted /\ s.answer = None /\ r.flaw = "none" /\ FlowsReady(s, b)
            /\ b \in s.sgwRbt
            => /\ ~ t.aborted
               /\ IF r.oi THEN SgwReleasing(s, t, x, b) ELSE SgwLeft(s, t, x, b)
<1>1. {"error", "accepted"} \subseteq Causes /\ s \in Program /\ "PGW_CREATED" \in States
  BY DEF Causes, Going, States
<1>2. CASE r.flaw = "stack"
  <2>1. t = End(s, x, b, "error") /\ "error" \in Causes
    BY <1>2 DEF SgwEstablishedDelete, Causes
  <2> QED BY <1>2, <2>1, EndDone
<1>3. CASE r.flaw = "none" /\ r.oi
  <2>1. t = EnterAwaitDelete(RemoveFlows(s, b), x, b)
    BY <1>3 DEF SgwEstablishedDelete
  <2> QED BY <1>3, <2>1, ReleasingEffect
<1>4. CASE r.flaw # "stack" /\ ~ (r.flaw = "none" /\ r.oi)
  <2> DEFINE w == RemoveFlows(s, b)
             v == SgwDeregister(w, b)
             a == Answer(v, x, b, "accepted")
  <2>1. t = Goto(a, b, StateAfterDeregister(a.ue[b]))
    BY <1>4 DEF SgwEstablishedDelete
  <2>2. Going(w, b) /\ Plain(s, w, b) /\ w.ue = s.ue /\ w.answer = s.answer
    BY RemoveFlowsKept
  <2>3. FlowsReady(s, b) => w.aborted = s.aborted /\ w.flows = FlowsBut(s, b)
    BY <1>1, RemoveFlowsReady
  <2> HIDE DEF w
  <2>4. Going(v, b)
    BY <2>2, GoingSgwDeregister
  <2>5. w \in Program /\ v \in Program
    BY <2>2, <2>4 DEF Going
  <2>6. /\ v.aborted <=> w.aborted \/ b \notin w.sgwRbt
        /\ SameMemory(w, v) /\ SameTunnels(w, v) /\ v.sent = w.sent
        /\ v.flows = w.flows /\ v.answer = w.answer
        /\ v.sgwRbt = w.sgwRbt \ {b} /\ v.pgwRbt = w.pgwRbt /\ v.pool = w.pool
        /\ v.ue = [w.ue EXCEPT ![b].sgw = FALSE]
    BY SMTT(60), <2>5, SgwDeregisterEffect
  <2> HIDE DEF v
  <2>7. "accepted" \in Causes
    BY <1>1
  <2>8. /\ a \in Program
        /\ a.aborted <=> v.aborted \/ v.answer # None
        /\ SameBases(v, a) /\ a.ue = v.ue /\ a.flows = v.flows
        /\ a.answer = [trxn |-> x, ue |-> b, cause |-> "accepted"]
    BY <2>5, <2>7, AnswerEffect
  <2>9. Plain(v, a, b)
    BY <2>5, <2>7, AnswerPlain
  <2> HIDE DEF a
  <2>10. s.ue[b] \in UeRecord /\ w.ue \in [Blocks -> UeRecord] /\ v.ue \in [Blocks -> UeRecord]
    BY <1>1, <2>5 DEF Program
  <2>11. v.ue[b] = [s.ue[b] EXCEPT !.sgw = FALSE] /\ v.ue[b] \in UeRecord
    BY <2>2, <2>6, <2>10
  <2>12. /\ SameName(s.ue[b], v.ue[b]) /\ v.ue[b].down = s.ue[b].down /\ ~ v.ue[b].sgw
         /\ v.ue[b].pgw = s.ue[b].pgw /\ v.ue[b].hPgw = s.ue[b].hPgw
         /\ v.ue[b].s11 = s.ue[b].s11 /\ v.ue[b].s5 = s.ue[b].s5
    BY <2>10, <2>11 DEF SameName, UeRecord
  <2>13. t = Goto(a, b, "PGW_CREATED")
    BY <2>1, <2>8, <2>12 DEF StateAfterDeregister
  <2>14. /\ t \in Program /\ t.aborted = a.aborted /\ SameBases(a, t)
         /\ t.ue = [a.ue EXCEPT ![b].state = "PGW_CREATED"]
         /\ t.flows = a.flows /\ t.answer = a.answer
    BY <1>1, <2>8, <2>13, GotoEffect
  <2>15. Plain(a, t, b) /\ t.ue[b].state = "PGW_CREATED"
    BY <1>1, <2>8, <2>13, GotoPlain
  <2>16. Going(t, b)
    BY <2>4, <2>9, <2>15, PlainGoing
  <2>17. Live(t, b)
    BY <2>2, <2>6, <2>8, <2>14 DEF Live, Plain, SameBases, SameMemory
  <2>18. Done(t, b)
    BY <2>15, <2>16, <2>17 DEF Done, UeOK
  <2>19. ASSUME ~ s.aborted, s.answer = None, FlowsReady(s, b), b \in s.sgwRbt
         PROVE  ~ t.aborted /\ SgwLeft(s, t, x, b)
    <3>1. w.aborted = s.aborted /\ w.flows = FlowsBut(s, b)
      BY <2>3, <2>19
    <3>2. SameMemory(s, w) /\ SameRegistry(s, w) /\ SameTunnels(s, w) /\ w.sent = s.sent
      BY <2>2 DEF Plain, SameBases
    <3>3. ~ t.aborted
      BY <2>2, <2>6, <2>8, <2>14, <2>19, <3>1, <3>2 DEF SameRegistry
    <3>4. t.ue[b] = [v.ue[b] EXCEPT !.state = "PGW_CREATED"]
      BY <2>8, <2>10, <2>14
    <3>5. /\ SameName(s.ue[b], t.ue[b]) /\ t.ue[b].down = s.ue[b].down /\ ~ t.ue[b].sgw
          /\ t.ue[b].pgw = s.ue[b].pgw /\ t.ue[b].hPgw = s.ue[b].hPgw
          /\ t.ue[b].s11 = s.ue[b].s11 /\ t.ue[b].s5 = s.ue[b].s5
      BY <2>11, <2>12, <3>4 DEF SameName, UeRecord
    <3>6. \A d \in Blocks \ {b} : t.ue[d] = s.ue[d]
      BY <2>2, <2>6, <2>8, <2>10, <2>14
    <3>7. /\ SameMemory(s, t) /\ SameTunnels(s, t) /\ t.sent = s.sent
          /\ t.sgwRbt = s.sgwRbt \ {b} /\ t.pgwRbt = s.pgwRbt /\ t.pool = s.pool
      BY <2>6, <2>8, <2>14, <3>2 DEF SameBases, SameMemory, SameTunnels, SameRegistry
    <3>8. t.flows = FlowsBut(s, b) /\ t.answer = [trxn |-> x, ue |-> b, cause |-> "accepted"]
      BY <2>6, <2>8, <2>14, <3>1
    <3> QED BY <2>15, <3>3, <3>5, <3>6, <3>7, <3>8 DEF SgwLeft
  <2> QED BY <1>4, <2>18, <2>19
<1>5. r.flaw \in {"none", "stack"}
  BY DEF DeleteRequest
<1> QED BY <1>2, <1>3, <1>4, <1>5

-----------------------------------------------------------------------------
(* Answers of the PGW *)

\* A request to a PGW is over.
LEMMA SentEffect ==
  ASSUME NEW s \in Program, Sound(s), NEW q, NEW t, t = [s EXCEPT !.sent = s.sent \ {q}]
  PROVE  /\ t \in Program /\ Sound(t) /\ t.aborted = s.aborted
         /\ SameMemory(s, t) /\ SameRegistry(s, t) /\ SameTunnels(s, t)
         /\ t.sent = s.sent \ {q} /\ t.ue = s.ue /\ t.flows = s.flows /\ t.answer = s.answer
<1>1. s.sent \ {q} \in SUBSET S5Request
  BY DEF Program
<1>2. /\ t \in Program /\ t.aborted = s.aborted
      /\ SameMemory(s, t) /\ SameRegistry(s, t) /\ SameTunnels(s, t)
      /\ t.sent = s.sent \ {q} /\ t.ue = s.ue /\ t.flows = s.flows /\ t.answer = s.answer
  BY <1>1 DEF Program, SameMemory, SameRegistry, SameTunnels
<1>3. MemoryOK(t) /\ RegistryOK(t)
  BY <1>2 DEF Sound, MemoryOK, RegistryOK, Live, SameMemory, SameRegistry
<1>4. TunnelsOK(t)
  BY <1>2 DEF Sound, TunnelsOK, ChunksOK, Live, SameMemory, SameTunnels
<1>5. \A b \in Blocks : UeOK(t, b)
  BY <1>2 DEF Sound, UeOK, Live, SameMemory, SameTunnels
<1> QED BY <1>2, <1>3, <1>4, <1>5 DEF Sound

LEMMA SoundGoing ==
  ASSUME NEW s \in Program, Sound(s), NEW b \in Blocks
  PROVE  Going(s, b)
  BY DEF Sound, Going, SoundBut, TunnelsOK

\* What the UE is after the answer that its session is accepted.
SgwUe(u, w, b, c) ==
  /\ w.imsi = u.imsi /\ w.ebi = u.ebi /\ w.sgw = u.sgw /\ w.pgw = u.pgw
  /\ w.hPgw = u.hPgw /\ w.addr = u.addr /\ w.s5 = u.s5 /\ w.s11 = c
  /\ w.up = SgwUplinkAt(b, 5) /\ w.pup = u.pup /\ w.down = u.down
  /\ w.state = "SGW_CREATED"

SgwAccepted(s, t, x, b, c, peer) ==
  /\ c \in Chunks /\ c \notin s.s11Map \cup s.s5Map
  /\ SgwUe(s.ue[b], t.ue[b], b, c) /\ \A d \in Blocks \ {b} : t.ue[d] = s.ue[d]
  /\ t.tun[c] = b /\ \A d \in Chunks \ {c} : t.tun[d] = s.tun[d]
  /\ t.s11Map = s.s11Map \cup {c} /\ t.s5Map = s.s5Map
  /\ SameMemory(s, t) /\ SameRegistry(s, t) /\ t.sent = s.sent
  /\ t.flows = s.flows \cup {[in |-> SgwUplinkAt(b, 5), out |-> peer]}
  /\ t.answer = [trxn |-> x, ue |-> b, cause |-> "accepted"]

LEMMA CreateAnswerEffect ==
  ASSUME NEW s, NEW x \in Trxns, NEW b \in Blocks, Going(s, b), TunnelsOK(s),
         UeOK(s, b), s.ue[b].state = "WT_CREATE",
         NEW peer \in {"pgw", None, Garbage}, NEW ebi \in Ebis, NEW stack,
         NEW t, t = RelayedCreateAnswer(InstallUplink(s, b, ebi, peer), x, b, "accepted", stack)
  PROVE  /\ Done(t, b)
         /\ /\ ~ s.aborted /\ s.answer = None /\ peer # None /\ ebi = 5
            /\ \A f \in s.flows : f.in # SgwUplinkAt(b, 5)
            => ~ t.aborted /\ \E c : SgwAccepted(s, t, x, b, c, peer)
<1> DEFINE in == SgwUplinkAt(b, ebi)
           v == InstallUplink(s, b, ebi, peer)
           a == CreateAnswer(v, x, b, "accepted")
<1>1. s \in Program /\ "SGW_CREATED" \in States
  BY DEF Going, States
<1>2. /\ Live(s, b) /\ s.ue[b].sgw /\ ~ s.ue[b].pgw /\ s.ue[b].s5 \in s.s5Map
      /\ s.ue[b].s11 = None /\ ~ IsSae(s.ue[b])
  BY DEF UeOK, IsSae
<1>3. t = Goto(a, b, "SGW_CREATED")
  BY DEF RelayedCreateAnswer
<1> HIDE DEF in
<1>4. /\ Plain(s, v, b) /\ v.answer = s.answer
      /\ v.ue[b] = WithUplinks(s.ue[b], in, s.ue[b].pup)
      /\ in \in Endpoint
      /\ (\A f \in s.flows : f.in # in) /\ peer # None =>
           /\ v.aborted = s.aborted
           /\ v.flows = s.flows \cup {[in |-> in, out |-> peer]}
  BY <1>1, <1>2, SgwUplinkEffect DEF in
<1> HIDE DEF v
<1>5. Going(v, b) /\ TunnelsOK(v)
  BY <1>4, PlainGoing
<1>6. /\ SameMemory(s, v) /\ SameRegistry(s, v) /\ SameTunnels(s, v) /\ v.sent = s.sent
      /\ v \in Program
  BY <1>4 DEF Plain, SameBases
<1>7. v.ue[b].s11 \notin Chunks /\ Live(v, b)
  BY <1>2, <1>4, <1>6, NoneAssumption DEF Plain, Live, SameMemory
<1>8. /\ Going(a, b)
      /\ a.aborted <=> v.aborted \/ v.answer # None
      /\ \E c : NewS11(v, a, b, c)
      /\ a.answer = [trxn |-> x, ue |-> b, cause |-> "accepted"]
  BY <1>5, <1>7, AcceptEffect
<1> HIDE DEF a
<1>9. PICK c : NewS11(v, a, b, c)
  BY <1>8
<1>10. a \in Program
  BY <1>8 DEF Going
<1>11. /\ t \in Program /\ t.aborted = a.aborted /\ SameBases(a, t)
       /\ t.ue = [a.ue EXCEPT ![b].state = "SGW_CREATED"]
       /\ t.flows = a.flows /\ t.answer = a.answer
  BY <1>1, <1>3, <1>10, GotoEffect
<1>12. Plain(a, t, b) /\ t.ue[b].state = "SGW_CREATED"
  BY <1>1, <1>3, <1>10, GotoPlain
<1>13. Going(t, b)
  BY <1>8, <1>12, PlainGoing
<1>14. s.ue[b] \in UeRecord /\ v.ue[b] \in UeRecord /\ a.ue[b] \in UeRecord
  BY <1>1, <1>6, <1>10 DEF Program
<1>15. a.ue[b] = [v.ue[b] EXCEPT !.s11 = c] /\ \A d \in Blocks \ {b} : a.ue[d] = v.ue[d]
  BY <1>9 DEF NewS11
<1>16. t.ue[b] = [a.ue[b] EXCEPT !.state = "SGW_CREATED"] /\ \A d \in Blocks \ {b} : t.ue[d] = a.ue[d]
  BY <1>10, <1>11 DEF Program
<1>17. /\ t.ue[b].sgw = s.ue[b].sgw /\ t.ue[b].pgw = s.ue[b].pgw
       /\ t.ue[b].s5 = s.ue[b].s5
       /\ ebi = 5 => SgwUe(s.ue[b], t.ue[b], b, c)
  <2>1. /\ v.ue[b].imsi = s.ue[b].imsi /\ v.ue[b].ebi = s.ue[b].ebi
        /\ v.ue[b].sgw = s.ue[b].sgw /\ v.ue[b].pgw = s.ue[b].pgw
        /\ v.ue[b].hPgw = s.ue[b].hPgw /\ v.ue[b].addr = s.ue[b].addr
        /\ v.ue[b].s5 = s.ue[b].s5 /\ v.ue[b].up = in /\ v.ue[b].pup = s.ue[b].pup
        /\ v.ue[b].down = s.ue[b].down
    BY <1>4, <1>14 DEF WithUplinks, UeRecord
  <2>2. /\ a.ue[b].imsi = s.ue[b].imsi /\ a.ue[b].ebi = s.ue[b].ebi
        /\ a.ue[b].sgw = s.ue[b].sgw /\ a.ue[b].pgw = s.ue[b].pgw
        /\ a.ue[b].hPgw = s.ue[b].hPgw /\ a.ue[b].addr = s.ue[b].addr
        /\ a.ue[b].s5 = s.ue[b].s5 /\ a.ue[b].up = in /\ a.ue[b].pup = s.ue[b].pup
        /\ a.ue[b].down = s.ue[b].down /\ a.ue[b].s11 = c
    BY <1>14, <1>15, <2>1 DEF UeRecord
  <2> QED BY <1>14, <1>16, <2>2 DEF in, SgwUe, UeRecord
<1>18. ASSUME ~ t.aborted PROVE UeOK(t, b)
  <2>1. t.s5Map = s.s5Map /\ Live(t, b)
    BY <1>2, <1>6, <1>9, <1>11 DEF NewS11, SameBases, SameTunnels, SameMemory, Live
  <2> QED BY <1>2, <1>12, <1>17, <2>1 DEF UeOK
<1>19. ASSUME ~ s.aborted, s.answer = None, peer # None, ebi = 5, \A f \in s.flows : f.in # in
       PROVE  ~ t.aborted /\ SgwAccepted(s, t, x, b, c, peer)
  <2>1. /\ v.aborted = s.aborted /\ v.answer = None
        /\ v.flows = s.flows \cup {[in |-> in, out |-> peer]}
    BY <1>4, <1>19
  <2>2. ~ t.aborted /\ t.answer = [trxn |-> x, ue |-> b, cause |-> "accepted"]
    BY <1>8, <1>11, <1>19, <2>1
  <2>3. \A d \in Blocks \ {b} : t.ue[d] = s.ue[d]
    BY <1>4, <1>15, <1>16 DEF Plain
  <2>4. /\ c \in Chunks /\ c \notin s.s11Map \cup s.s5Map
        /\ t.tun[c] = b /\ \A d \in Chunks \ {c} : t.tun[d] = s.tun[d]
        /\ t.s11Map = s.s11Map \cup {c} /\ t.s5Map = s.s5Map
        /\ SameMemory(s, t) /\ SameRegistry(s, t) /\ t.sent = s.sent
    BY <1>6, <1>9, <1>11 DEF NewS11, SameBases, SameTunnels, SameMemory, SameRegistry
  <2>5. t.flows = s.flows \cup {[in |-> SgwUplinkAt(b, 5), out |-> peer]}
    BY <1>9, <1>11, <1>19, <2>1 DEF NewS11, in
  <2> QED BY <1>17, <1>19, <2>2, <2>3, <2>4, <2>5 DEF SgwAccepted
<1> QED BY <1>13, <1>18, <1>19 DEF Done, in

\* The UE whose PGW is silent, and what its request structure held.
SilentUe(u, w, stack) ==
  /\ SameName(u, w) /\ w.down = u.down /\ w.sgw = u.sgw /\ w.pgw = u.pgw
  /\ w.hPgw = u.hPgw /\ w.addr = u.addr /\ w.s5 = u.s5 /\ w.s11 = stack
  /\ w.state = "SGW_CREATED"

Silenced(s, t, x, b, stack) ==
  /\ SilentUe(s.ue[b], t.ue[b], stack) /\ \A d \in Blocks \ {b} : t.ue[d] = s.ue[d]
  /\ SameBases(s, t) /\ t.flows = s.flows
  /\ t.answer = [trxn |-> x, ue |-> b, cause |-> "no answer"]

LEMMA CreateNackEffect ==
  ASSUME NEW s, NEW x \in Trxns, NEW b \in Blocks, Going(s, b),
         UeOK(s, b), s.ue[b].state = "WT_CREATE", NEW stack \in {None, Garbage},
         NEW t, t = HandleCreateNack(s, x, b, stack)
  PROVE  /\ Done(t, b)
         /\ ~ s.aborted /\ s.answer = None => ~ t.aborted /\ Silenced(s, t, x, b, stack)
<1> DEFINE told == "no answer"
           a == Answer(s, x, b, told)
           v == Set(a, b, "s11", stack)
<1>1. s \in Program /\ "SGW_CREATED" \in States /\ told \in Causes
  BY DEF Going, States, Causes
<1>2. /\ Live(s, b) /\ s.ue[b].sgw /\ ~ s.ue[b].pgw /\ s.ue[b].s5 \in s.s5Map
      /\ s.ue[b].s11 = None
  BY DEF UeOK
<1>3. t = Goto(v, b, "SGW_CREATED")
  BY Zenon DEF HandleCreateNack, RelayedCreateAnswer
<1>4. /\ a \in Program
      /\ a.aborted <=> s.aborted \/ s.answer # None
      /\ SameBases(s, a) /\ a.ue = s.ue /\ a.flows = s.flows
      /\ a.answer = [trxn |-> x, ue |-> b, cause |-> told]
  <2>1. s \in Program /\ told \in Causes
    BY Zenon, <1>1
  <2> HIDE DEF told
  <2> QED BY <2>1, AnswerEffect
<1>5. Plain(s, a, b)
  <2>1. s \in Program /\ told \in Causes
    BY Zenon, <1>1
  <2> HIDE DEF told
  <2> QED BY <2>1, AnswerPlain
<1> HIDE DEF a
<1>6. Going(a, b)
  BY <1>5, PlainGoing
<1>7. /\ v \in Program /\ v.aborted = a.aborted
      /\ SameBases(a, v) /\ v.flows = a.flows /\ v.answer = a.answer
      /\ v.ue = [a.ue EXCEPT ![b].s11 = stack]
  <2>1. a \in Program /\ stack \in Chunks \cup {None, Garbage}
    BY Zenon, <1>4
  <2> QED BY <2>1, S11Effect
<1> HIDE DEF v
<1>8. /\ t \in Program /\ t.aborted = v.aborted /\ SameBases(v, t)
      /\ t.ue = [v.ue EXCEPT ![b].state = "SGW_CREATED"]
      /\ t.flows = v.flows /\ t.answer = v.answer
  <2>1. v \in Program /\ "SGW_CREATED" \in States
    BY Zenon, <1>1, <1>7
  <2> QED BY <1>3, <2>1, GotoEffect
<1>9. Plain(v, t, b) /\ t.ue[b].state = "SGW_CREATED"
  <2>1. v \in Program /\ "SGW_CREATED" \in States
    BY Zenon, <1>1, <1>7
  <2> QED BY <1>3, <2>1, GotoPlain
<1>10. /\ v.ue[b] = [s.ue[b] EXCEPT !.s11 = stack] /\ v.ue[b] \in UeRecord
       /\ s.ue[b] \in UeRecord
       /\ \A d \in Blocks \ {b} : v.ue[d] = s.ue[d]
  BY ZenonT(60), <1>1, <1>4, <1>7 DEF Program
<1>11. SilentUe(s.ue[b], [v.ue[b] EXCEPT !.state = "SGW_CREATED"], stack)
  <2>1. /\ SameName(s.ue[b], v.ue[b]) /\ v.ue[b].down = s.ue[b].down
        /\ v.ue[b].sgw = s.ue[b].sgw /\ v.ue[b].pgw = s.ue[b].pgw
        /\ v.ue[b].hPgw = s.ue[b].hPgw /\ v.ue[b].addr = s.ue[b].addr
        /\ v.ue[b].s5 = s.ue[b].s5 /\ v.ue[b].s11 = stack
    BY <1>10 DEF SameName, UeRecord
  <2> QED BY <1>10, <2>1 DEF SilentUe, SameName, UeRecord
<1>12. t.ue[b] = [v.ue[b] EXCEPT !.state = "SGW_CREATED"] /\ \A d \in Blocks \ {b} : t.ue[d] = s.ue[d]
  BY <1>7, <1>8, <1>10 DEF Program
<1>13. SilentUe(s.ue[b], t.ue[b], stack)
  BY <1>11, <1>12
<1>14. SameBases(s, t)
  BY ZenonT(60), <1>4, <1>7, <1>8 DEF SameBases, SameMemory, SameRegistry, SameTunnels
<1>15. ASSUME ~ t.aborted PROVE SoundBut(t, b)
  <2>1. SoundBut(s, b)
    BY Zenon, <1>4, <1>7, <1>8, <1>15 DEF Going
  <2>2. t.ue[b].sgw = s.ue[b].sgw /\ t.ue[b].pgw = s.ue[b].pgw
    BY <1>13 DEF SilentUe
  <2>3. MemoryOK(t) /\ RegistryOK(t)
    <3>1. /\ t.mem = s.mem /\ t.memPool = s.memPool
          /\ t.sgwRbt = s.sgwRbt /\ t.pgwRbt = s.pgwRbt
      BY <1>14 DEF SameBases, SameMemory, SameRegistry
    <3>2. \A d \in Blocks : t.ue[d].sgw = s.ue[d].sgw /\ t.ue[d].pgw = s.ue[d].pgw
      BY <1>12, <2>2
    <3> QED BY <2>1, <3>1, <3>2 DEF SoundBut, MemoryOK, RegistryOK, Live
  <2>4. TunnelsOK(t)
    <3>1. TunnelsOK(s)
      BY <2>1 DEF SoundBut
    <3>2. /\ t.mem = s.mem /\ t.tun = s.tun /\ t.tunPool = s.tunPool /\ t.s11Map = s.s11Map
          /\ t.s5Map = s.s5Map /\ t.sent = s.sent
      BY <1>14 DEF SameBases, SameMemory, SameTunnels
    <3>3. /\ t.ue[b].s5 = s.ue[b].s5 /\ t.ue[b].s11 = stack /\ stack \notin Chunks
      BY <1>13, NoneAssumption, SgwAssumption DEF SilentUe
    <3>4. s.ue[b].s11 \notin Chunks
      BY <1>2, NoneAssumption
    <3>5. s.s11Map \subseteq Chunks /\ s.s5Map \subseteq Chunks
      BY Zenon, <1>1 DEF Program
    <3>6. \A c \in s.s11Map : \A d \in Blocks : t.ue[d].s11 = c <=> s.ue[d].s11 = c
      BY <1>12, <3>3, <3>4, <3>5
    <3>7. \A d \in Blocks : t.ue[d].s5 = s.ue[d].s5
      BY <1>12, <3>3
    <3>8. \A d \in Blocks : Live(s, d) => t.ue[d].s11 \in s.s11Map \cup {None, Garbage}
      BY <1>12, <3>1, <3>3 DEF TunnelsOK
    <3> QED BY <3>1, <3>2, <3>6, <3>7, <3>8 DEF TunnelsOK, ChunksOK, Live
  <2>5. \A c \in Blocks \ {b} : UeOK(t, c)
    BY <1>12, <1>14, <2>1 DEF SoundBut, UeOK, Live, SameBases, SameMemory, SameTunnels
  <2> QED BY <2>3, <2>4, <2>5 DEF SoundBut
<1>16. Going(t, b)
  <2>1. ChunksOK(t)
    BY <1>14 DEF Going, ChunksOK, SameBases, SameTunnels
  <2> QED BY <1>8, <1>15, <2>1 DEF Going
<1>17. UeOK(t, b)
  <2>1. Live(t, b) /\ t.s5Map = s.s5Map
    BY <1>2, <1>14 DEF Live, SameBases, SameMemory, SameTunnels
  <2> QED BY <1>2, <1>13, <2>1 DEF SilentUe, UeOK
<1>18. ASSUME ~ s.aborted, s.answer = None PROVE ~ t.aborted /\ Silenced(s, t, x, b, stack)
  BY Zenon, <1>4, <1>7, <1>8, <1>12, <1>13, <1>14, <1>18 DEF Silenced
<1> QED BY <1>16, <1>17, <1>18 DEF Done

\* The session of the SGW is over, whose PGW has answered.
SgwReleased(s, t, x, b) ==
  /\ t.ue[b].state = "END" /\ ~ t.ue[b].sgw /\ t.ue[b].pgw = s.ue[b].pgw
  /\ t.ue[b].s11 = s.ue[b].s11 /\ t.ue[b].s5 = s.ue[b].s5
  /\ \A d \in Blocks \ {b} : t.ue[d] = s.ue[d]
  /\ SameMemory(s, t) /\ SameTunnels(s, t) /\ t.sent = s.sent
  /\ t.sgwRbt = s.sgwRbt \ {b} /\ t.pgwRbt = s.pgwRbt /\ t.pool = s.pool
  /\ t.flows = s.flows
  /\ t.answer = [trxn |-> x, ue |-> b, cause |-> "accepted"]

LEMMA DeleteAnswerEffect ==
  ASSUME NEW s, NEW x \in Trxns, NEW b \in Blocks, Going(s, b), NEW cause,
         NEW t, t = HandleDeleteAnswer(s, x, b, cause)
  PROVE  /\ Done(t, b)
         /\ /\ ~ s.aborted /\ s.answer = None /\ b \in s.sgwRbt /\ cause # "unreadable"
            => ~ t.aborted /\ SgwReleased(s, t, x, b)
<1> DEFINE v == SgwDeregister(s, b)
           told == IF cause = "unreadable" THEN "error" ELSE "accepted"
<1>1. s \in Program /\ told \in Causes
  BY DEF Going, Causes
<1>2. t = End(v, x, b, told)
  BY DEF HandleDeleteAnswer
<1>3. Going(v, b)
  BY GoingSgwDeregister
<1>4. /\ v.aborted <=> s.aborted \/ b \notin s.sgwRbt
      /\ SameMemory(s, v) /\ SameTunnels(s, v) /\ v.sent = s.sent
      /\ v.flows = s.flows /\ v.answer = s.answer
      /\ v.sgwRbt = s.sgwRbt \ {b} /\ v.pgwRbt = s.pgwRbt /\ v.pool = s.pool
      /\ v.ue = [s.ue EXCEPT ![b].sgw = FALSE]
  BY <1>1, SgwDeregisterEffect
<1>5. v \in Program
  BY <1>3 DEF Going
<1> HIDE DEF v, told
<1>6. Done(t, b)
  BY <1>1, <1>2, <1>3, EndDone
<1>7. ASSUME ~ s.aborted, s.answer = None, b \in s.sgwRbt, cause # "unreadable"
      PROVE  ~ t.aborted /\ SgwReleased(s, t, x, b)
  <2>1. /\ Plain(v, t, b) /\ t.ue[b].state = "END"
        /\ t.aborted <=> v.aborted \/ v.answer # None
        /\ t.ue = [v.ue EXCEPT ![b].state = "END"] /\ t.flows = v.flows
        /\ t.answer = [trxn |-> x, ue |-> b, cause |-> told]
    BY <1>1, <1>2, <1>5, EndEffect
  <2>2. told = "accepted"
    BY <1>7 DEF told
  <2>3. v.ue[b] = [s.ue[b] EXCEPT !.sgw = FALSE] /\ \A d \in Blocks \ {b} : v.ue[d] = s.ue[d]
    BY ZenonT(60), <1>1, <1>4 DEF Program
  <2>4. /\ ~ v.ue[b].sgw /\ v.ue[b].pgw = s.ue[b].pgw
        /\ v.ue[b].s11 = s.ue[b].s11 /\ v.ue[b].s5 = s.ue[b].s5
    <3>1. s.ue[b] \in UeRecord
      BY <1>1 DEF Program
    <3> QED BY <2>3, <3>1 DEF UeRecord
  <2>5. /\ ~ t.ue[b].sgw /\ t.ue[b].pgw = s.ue[b].pgw
        /\ t.ue[b].s11 = s.ue[b].s11 /\ t.ue[b].s5 = s.ue[b].s5
        /\ \A d \in Blocks \ {b} : t.ue[d] = s.ue[d]
    BY <2>1, <2>3, <2>4 DEF Plain
  <2>6. /\ SameMemory(s, t) /\ SameTunnels(s, t) /\ t.sent = s.sent
        /\ t.sgwRbt = s.sgwRbt \ {b} /\ t.pgwRbt = s.pgwRbt /\ t.pool = s.pool
    BY <1>4, <2>1 DEF Plain, SameBases, SameMemory, SameTunnels, SameRegistry
  <2>7. ~ t.aborted
    BY <1>4, <1>7, <2>1
  <2> QED BY <1>4, <2>1, <2>2, <2>5, <2>6, <2>7 DEF SgwReleased
<1> QED BY <1>6, <1>7

-----------------------------------------------------------------------------
(* Whatever the MME and the PGWs send *)

\* The event map of the state of the UE, for a request that a session gets.
LEMMA OnS11Done ==
  ASSUME NEW s, NEW x \in Trxns, NEW b \in Blocks, NEW r \in SessionRequest,
         Going(s, b), UeOK(s, b), s.answer = None, NEW t, t = OnS11(s, x, b, r)
  PROVE  Done(t, b)
<1> DEFINE state == s.ue[b].state
<1>1. CASE state \in {"SAE_CREATED", "SGW_CREATED"} /\ r.kind = "modify"
  <2>1. t = SaeCreatedModify(s, x, b, r)
    BY <1>1 DEF OnS11
  <2>2. r \in ModifyRequest
    BY <1>1 DEF SessionRequest, DeleteRequest
  <2> QED BY <1>1, <2>1, <2>2, FirstModifyEffect
<1>2. CASE state \in {"SAE_ESTABLISHED", "SGW_ESTABLISHED"} /\ r.kind = "modify"
  <2>1. t = HandleModify(s, x, b, r, ModifyDownlink(s, b, r.ebi, r.enb))
    BY <1>2 DEF OnS11, SaeEstablishedModify, SgwEstablishedModify
  <2>2. r \in ModifyRequest
    BY <1>2 DEF SessionRequest, DeleteRequest
  <2> QED BY <1>2, <2>1, <2>2, LaterModifyEffect
<1>3. CASE state \in {"SAE_CREATED", "SAE_ESTABLISHED"} /\ r.kind = "delete"
  <2>1. t = SaeDelete(s, x, b, r)
    BY <1>3 DEF OnS11, SaeCreatedDelete, SaeEstablishedDelete
  <2>2. r \in DeleteRequest
    BY <1>3 DEF SessionRequest, ModifyRequest
  <2> QED BY <2>1, <2>2, SaeDeleteEffect
<1>4. CASE state \in {"SGW_CREATED", "SGW_ESTABLISHED"} /\ r.kind = "delete"
  <2>1. r \in DeleteRequest
    BY <1>4 DEF SessionRequest, ModifyRequest
  <2>2. Live(s, b) /\ s.ue[b].s5 \in s.s5Map
    BY <1>4 DEF UeOK
  <2>3. CASE state = "SGW_CREATED"
    <3>1. t = SgwCreatedDelete(s, x, b, r)
      BY <1>4, <2>3 DEF OnS11
    <3> QED BY <2>1, <2>2, <3>1, SgwCreatedDeleteEffect
  <2>4. CASE state = "SGW_ESTABLISHED"
    <3>1. t = SgwEstablishedDelete(s, x, b, r)
      BY <1>4, <2>4 DEF OnS11
    <3> QED BY <2>1, <2>2, <3>1, SgwEstablishedDeleteEffect
  <2> QED BY <1>4, <2>3, <2>4
<1>5. CASE ~ (/\ state \in {"SAE_CREATED", "SGW_CREATED", "SAE_ESTABLISHED", "SGW_ESTABLISHED"}
              /\ r.kind \in {"modify", "delete"})
  <2>1. r.kind # "create"
    BY DEF SessionRequest, ModifyRequest, DeleteRequest
  <2>2. t = Unexpected(s, b)
    BY <1>5, <2>1 DEF OnS11
  <2> QED BY <2>2, UnexpectedDone
<1> QED BY <1>1, <1>2, <1>3, <1>4, <1>5

\* ... and for an answer of a PGW, or its silence.
LEMMA OnS5Done ==
  ASSUME NEW s, NEW x \in Trxns, NEW b \in Blocks, NEW kind, NEW cause \in PgwAnswers,
         NEW ebi \in Ebis, NEW stack \in {None, Garbage}, Going(s, b), TunnelsOK(s), UeOK(s, b),
         NEW t, t = OnS5(s, x, b, kind, cause, ebi, stack)
  PROVE  Done(t, b)
<1> DEFINE state == s.ue[b].state
<1>1. CASE state = "WT_CREATE" /\ cause = "silence"
  <2>1. t = HandleCreateNack(s, x, b, stack)
    BY <1>1 DEF OnS5
  <2> QED BY <1>1, <2>1, CreateNackEffect
<1>2. CASE state = "WT_CREATE" /\ kind = "create" /\ cause # "silence"
  <2>1. t = HandleCreateAnswer(s, x, b, cause, ebi, stack)
    BY <1>2 DEF OnS5
  <2>2. CASE cause = "unreadable"
    BY <2>1, <2>2 DEF HandleCreateAnswer, Done
  <2>3. CASE cause # "unreadable"
    <3> DEFINE peer == IF cause = "accepted" THEN "pgw" ELSE stack
    <3>1. t = RelayedCreateAnswer(InstallUplink(s, b, ebi, peer), x, b, "accepted", None)
      BY <1>2, <2>1, <2>3 DEF HandleCreateAnswer, PgwAnswers
    <3>2. peer \in {"pgw", None, Garbage}
      OBVIOUS
    <3> HIDE DEF peer
    <3> QED BY <1>2, <3>1, <3>2, CreateAnswerEffect
  <2> QED BY <2>2, <2>3
<1>3. CASE state = "WT_DELETE" /\ kind = "delete" /\ cause # "silence"
  <2>1. t = HandleDeleteAnswer(s, x, b, cause)
    BY <1>3 DEF OnS5
  <2> QED BY <2>1, DeleteAnswerEffect
<1>4. CASE /\ ~ (state = "WT_CREATE" /\ cause = "silence")
           /\ ~ (state = "WT_CREATE" /\ kind = "create" /\ cause # "silence")
           /\ ~ (state = "WT_DELETE" /\ kind = "delete" /\ cause # "silence")
  <2>1. t = Unexpected(s, b)
    BY <1>4 DEF OnS5
  <2> QED BY <2>1, UnexpectedDone
<1> QED BY <1>1, <1>2, <1>3, <1>4

LEMMA DonePurge ==
  ASSUME NEW s, NEW b \in Blocks, Done(s, b)
  PROVE  Settled(Purge(s, b))
  BY SettledPurge DEF Done

Request == CreateRequest \cup SessionRequest

Known == [imsi : Imsis \cup {None}, enb : ENodeBs \cup {None}]

LEMMA ToldType ==
  ASSUME NEW known \in Known \cup {None}, NEW r \in Request, NEW cause
  PROVE  Told(known, r, cause) \in Known \cup {None}
<1>1. CASE cause # "accepted"
  BY <1>1 DEF Told
<1>2. CASE cause = "accepted" /\ r.kind = "create"
  <2>1. r \in CreateRequest
    BY <1>2 DEF Request, SessionRequest, ModifyRequest, DeleteRequest
  <2>2. r.imsi \in Imsis \cup {None}
    BY <2>1 DEF CreateRequest
  <2> QED BY <1>2, <2>2 DEF Told, Known
<1>3. CASE cause = "accepted" /\ r.kind = "modify" /\ known # None
  <2>1. r \in ModifyRequest
    BY <1>3 DEF Request, SessionRequest, CreateRequest, DeleteRequest
  <2>2. r.enb \in ENodeBs
    BY <2>1 DEF ModifyRequest
  <2>3. Told(known, r, cause) = [known EXCEPT !.enb = r.enb]
    BY <1>3 DEF Told
  <2> QED BY <1>3, <2>2, <2>3 DEF Known
<1>4. CASE ~ (cause = "accepted" /\ r.kind = "modify" /\ known # None)
           /\ cause = "accepted" /\ r.kind # "create"
  BY <1>4 DEF Told
<1> QED BY <1>1, <1>2, <1>3, <1>4

\* A handler ends.
LEMMA CommitSound ==
  ASSUME NEW s, Settled(s), NEW asked \in [Trxns -> Request \cup {None}],
         view \in [Blocks -> Known \cup {None}], Commit(s, asked)
  PROVE  /\ sgw' \in Program /\ sgw'.answer = None
         /\ ~ sgw'.aborted => Sound(sgw')
         /\ open' \in [Trxns -> Request \cup {None}]
         /\ view' \in [Blocks -> Known \cup {None}]
<1>1. s \in Program /\ (~ s.aborted => Sound(s))
  BY DEF Settled
<1>2. CASE s.answer = None
  BY <1>1, <1>2 DEF Commit
<1>3. CASE s.answer # None
  <2> DEFINE a == s.answer
             v == Require(s, asked[a.trxn] # None)
  <2>1. a.trxn \in Trxns /\ a.ue \in Blocks
    BY <1>1, <1>3 DEF Program, AnswerToMme
  <2>2. /\ sgw' = [v EXCEPT !.answer = None]
        /\ open' = [asked EXCEPT ![a.trxn] = None]
        /\ view' = IF asked[a.trxn] = None THEN view
                   ELSE [view EXCEPT ![a.ue] = Told(view[a.ue], asked[a.trxn], a.cause)]
    BY <1>3 DEF Commit
  <2>3. /\ v \in Program /\ (v.aborted <=> s.aborted \/ ~ (asked[a.trxn] # None))
        /\ SameBases(s, v) /\ v.ue = s.ue /\ v.flows = s.flows
    BY <1>1, RequireEffect
  <2>4. view' \in [Blocks -> Known \cup {None}]
    <3>1. CASE asked[a.trxn] = None
      BY <2>2, <3>1
    <3>2. CASE asked[a.trxn] # None
      <4>1. asked[a.trxn] \in Request /\ view[a.ue] \in Known \cup {None}
        BY <2>1, <3>2
      <4>2. Told(view[a.ue], asked[a.trxn], a.cause) \in Known \cup {None}
        BY <4>1, ToldType
      <4> QED BY <2>2, <3>2, <4>2
    <3> QED BY <3>1, <3>2
  <2> HIDE DEF v
  <2>5. /\ sgw' \in Program /\ sgw'.answer = None /\ sgw'.aborted = v.aborted
        /\ SameBases(v, sgw') /\ sgw'.ue = v.ue
    BY <2>2, <2>3 DEF Program, SameBases, SameMemory, SameRegistry, SameTunnels
  <2>6. ASSUME ~ sgw'.aborted PROVE Sound(sgw')
    <3>1. Sound(s)
      BY <1>1, <2>3, <2>5, <2>6
    <3>2. SameBases(s, sgw') /\ sgw'.ue = s.ue
      BY <2>3, <2>5 DEF SameBases, SameMemory, SameRegistry, SameTunnels
    <3> QED BY <3>1, <3>2
            DEF Sound, MemoryOK, RegistryOK, TunnelsOK, ChunksOK, UeOK, Live,
                SameBases, SameMemory, SameRegistry, SameTunnels
  <2>7. open' \in [Trxns -> Request \cup {None}]
    BY <2>1, <2>2
  <2> QED BY <2>4, <2>5, <2>6, <2>7
<1> QED BY <1>2, <1>3

LEMMA InitSessionInv ==
  ASSUME Init
  PROVE  SessionInv
<1>1. PICK list \in [1 .. Cardinality(LocalPool) -> LocalPool] :
        sgw = [mem |-> [b \in Blocks |-> "fresh"], memPool |-> <<>>,
               ue |-> [b \in Blocks |-> BlankUe],
               sgwRbt |-> {}, pgwRbt |-> {}, pool |-> list,
               tun |-> [c \in Chunks |-> None], tunPool |-> <<>>,
               s11Map |-> {}, s5Map |-> {}, flows |-> {}, sent |-> {},
               answer |-> None, aborted |-> FALSE]
  BY DEF Init
<1>2. Cardinality(LocalPool) \in Nat
  BY FS_CardinalityType, SgwAssumption
<1>3. list \in Seq(LocalPool)
  BY <1>2
<1>4. BlankUe \in UeRecord
  BY DEF BlankUe, UeRecord, States
<1>5. sgw \in Program
  <2>1. /\ [b \in Blocks |-> BlankUe] \in [Blocks -> UeRecord]
        /\ <<>> \in Seq(Blocks) /\ <<>> \in Seq(Chunks)
    BY <1>4
  <2> QED BY <1>1, <1>3, <2>1 DEF Program
<1>6. /\ sgw.mem = [b \in Blocks |-> "fresh"] /\ sgw.memPool = <<>> /\ sgw.tunPool = <<>>
      /\ sgw.ue = [b \in Blocks |-> BlankUe] /\ sgw.sgwRbt = {} /\ sgw.pgwRbt = {}
      /\ sgw.s11Map = {} /\ sgw.s5Map = {} /\ sgw.sent = {} /\ sgw.answer = None
  BY <1>1
<1>7. TypeOK
  <2>1. open \in [Trxns -> CreateRequest \cup SessionRequest \cup {None}]
    BY DEF Init
  <2>2. view \in [Blocks -> [imsi : Imsis \cup {None}, enb : ENodeBs \cup {None}] \cup {None}]
    BY DEF Init
  <2>3. env \in Environments /\ faults \in 0 .. MaxFaults
    BY SgwAssumption DEF Init
  <2> QED BY <1>5, <1>6, <2>1, <2>2, <2>3 DEF TypeOK
<1>8. \A x : ~ InList(x, <<>>)
  BY DEF InList
<1>9. MemoryOK(sgw) /\ ChunksOK(sgw)
  BY <1>6, <1>8 DEF MemoryOK, ChunksOK, IsInjective
<1>10. RegistryOK(sgw)
  BY <1>6 DEF RegistryOK, Live
<1>11. TunnelsOK(sgw)
  BY <1>6, <1>9 DEF TunnelsOK, Live
<1>12. \A b \in Blocks : sgw.ue[b].state = "INIT"
  BY <1>6 DEF BlankUe
<1>13. \A b \in Blocks : UeOK(sgw, b)
  BY <1>12 DEF UeOK
<1> QED BY <1>7, <1>9, <1>10, <1>11, <1>13 DEF SessionInv, Sound

\* A request of the MME, to a session or for a new one.
LEMMA MmeRequestSettled ==
  ASSUME SessionInv, NEW t \in Trxns, NEW r \in Request, MmeRequest(t, r)
  PROVE  \E s : Settled(s) /\ Commit(s, [open EXCEPT ![t] = r])
<1>1. sgw \in Program /\ sgw.answer = None /\ ~ sgw.aborted /\ Sound(sgw)
  BY DEF SessionInv, TypeOK, MmeRequest
<1>2. CASE r.kind = "create"
  <2> DEFINE b == NewUe(sgw).block
             n == NewUe(sgw).state
             w == OnS11(n, t, b, r)
  <2>1. r \in CreateRequest
    BY <1>2 DEF Request, SessionRequest, ModifyRequest, DeleteRequest
  <2>2. HasMemory(sgw) /\ Commit(Purge(w, b), [open EXCEPT ![t] = r])
    BY <1>2 DEF MmeRequest
  <2>3. b \in Blocks /\ Going(n, b) /\ Live(n, b) /\ n.ue[b] = BlankUe
    BY <1>1, <2>2, GoingNewUe
  <2>4. n.aborted = sgw.aborted /\ n.answer = sgw.answer
    <3>1. MemoryOK(sgw)
      BY <1>1 DEF Sound
    <3> QED BY <1>1, <2>2, <3>1, NewUeEffect
  <2> HIDE DEF b, n
  <2>5. w = HandleCreate(n, t, b, r)
    BY <1>2, <2>3 DEF OnS11, BlankUe
  <2> HIDE DEF w
  <2>6. ~ n.aborted /\ n.answer = None
    BY <1>1, <2>4
  <2>7. Done(w, b)
    BY <2>1, <2>3, <2>5, <2>6, HandleCreateEffect
  <2> QED BY <2>2, <2>3, <2>7, DonePurge
<1>3. CASE r.kind # "create"
  <2> DEFINE w == OnS11(sgw, t, r.teid, r)
  <2>1. r \in SessionRequest
    BY <1>3 DEF Request, CreateRequest
  <2>2. r.teid \in Blocks
    BY <2>1 DEF SessionRequest, ModifyRequest, DeleteRequest
  <2>3. Commit(Purge(w, r.teid), [open EXCEPT ![t] = r])
    BY <1>3 DEF MmeRequest
  <2>4. Going(sgw, r.teid) /\ UeOK(sgw, r.teid)
    BY <1>1, <2>2, SoundGoing DEF Sound
  <2>5. Done(w, r.teid)
    BY <1>1, <2>1, <2>2, <2>4, OnS11Done
  <2> HIDE DEF w
  <2> QED BY <2>2, <2>3, <2>5, DonePurge
<1> QED BY <1>2, <1>3

LEMMA PgwAnswerSettled ==
  ASSUME SessionInv, NEW q \in sgw.sent, NEW cause \in PgwAnswers,
         NEW ebi \in Ebis, NEW stack \in {None, Garbage}, PgwAnswer(q, cause, ebi, stack)
  PROVE  \E s : Settled(s) /\ Commit(s, open)
<1> DEFINE b == sgw.tun[q.chunk]
           v == [sgw EXCEPT !.sent = sgw.sent \ {q}]
           w == OnS5(v, q.trxn, b, q.kind, cause, ebi, stack)
<1>1. sgw \in Program /\ ~ sgw.aborted /\ Sound(sgw)
  BY DEF SessionInv, TypeOK, PgwAnswer
<1>2. b \in Blocks /\ q.trxn \in Trxns
  BY <1>1 DEF Sound, TunnelsOK, Program, S5Request
<1>3. Commit(Purge(w, b), open)
  BY DEF PgwAnswer
<1>4. v \in Program /\ Sound(v)
  BY <1>1, SentEffect
<1> HIDE DEF b, v
<1>5. Going(v, b) /\ TunnelsOK(v) /\ UeOK(v, b)
  BY <1>2, <1>4, SoundGoing DEF Sound
<1>6. Done(w, b)
  BY <1>2, <1>5, OnS5Done
<1> HIDE DEF w
<1> QED BY <1>2, <1>3, <1>6, DonePurge

LEMMA PgwRequestSettled ==
  ASSUME SessionInv, PgwRequest
  PROVE  \E s : Settled(s) /\ Commit(s, open)
<1>1. sgw \in Program /\ ~ sgw.aborted /\ Sound(sgw)
  BY DEF SessionInv, TypeOK, PgwRequest
<1>2. ASSUME NEW c \in sgw.s5Map, NEW b, b = sgw.tun[c], Commit(Purge(Unexpected(sgw, b), b), open)
      PROVE  \E s : Settled(s) /\ Commit(s, open)
  <2>1. b \in Blocks
    BY <1>1, <1>2 DEF Sound, TunnelsOK
  <2>2. Going(sgw, b)
    BY <1>1, <2>1, SoundGoing
  <2> QED BY <1>2, <2>1, <2>2, UnexpectedDone, DonePurge
<1>3. ASSUME HasMemory(sgw), NEW n, n = NewUe(sgw).state, NEW b, b = NewUe(sgw).block,
             Commit(Purge(Unexpected(n, b), b), open)
      PROVE  \E s : Settled(s) /\ Commit(s, open)
  <2>1. b \in Blocks /\ Going(n, b)
    BY <1>1, <1>3, GoingNewUe
  <2> QED BY <1>3, <2>1, UnexpectedDone, DonePurge
<1> QED BY <1>2, <1>3 DEF PgwRequest

LEMMA NextSessionInv ==
  ASSUME SessionInv, [Next]_vars
  PROVE  SessionInv'
<1>1. /\ open \in [Trxns -> Request \cup {None}] /\ view \in [Blocks -> Known \cup {None}]
      /\ env \in Environments /\ faults \in 0 .. MaxFaults
  BY DEF SessionInv, TypeOK, Request, Known
<1>2. ASSUME NEW s, Settled(s), NEW asked \in [Trxns -> Request \cup {None}], Commit(s, asked),
             env' = env, NEW proper, Behaves(proper)
      PROVE  SessionInv'
  <2>1. faults' \in 0 .. MaxFaults
    BY <1>1, <1>2, SgwAssumption DEF Behaves
  <2>2. /\ sgw' \in Program /\ sgw'.answer = None /\ (~ sgw'.aborted => Sound(sgw'))
        /\ open' \in [Trxns -> Request \cup {None}]
        /\ view' \in [Blocks -> Known \cup {None}]
    BY <1>1, <1>2, CommitSound
  <2>3. TypeOK'
    BY <1>1, <1>2, <2>1, <2>2 DEF TypeOK, Request, Known
  <2> QED BY <2>2, <2>3 DEF SessionInv
<1>3. ASSUME NEW t \in Trxns, NEW r \in Request, MmeRequest(t, r)
      PROVE  SessionInv'
  <2>1. env' = env /\ Behaves(SentByOrderlyMme(r))
    BY <1>3 DEF MmeRequest
  <2>2. [open EXCEPT ![t] = r] \in [Trxns -> Request \cup {None}]
    BY <1>1
  <2> QED BY <1>2, <1>3, <2>1, <2>2, MmeRequestSettled
<1>4. ASSUME NEW q \in sgw.sent, NEW cause \in PgwAnswers, NEW ebi \in Ebis,
             NEW stack \in {None, Garbage}, PgwAnswer(q, cause, ebi, stack)
      PROVE  SessionInv'
  <2>1. /\ env' = env
        /\ Behaves((cause = "accepted" /\ ebi = 5) \/ (cause = "silence" /\ env # "orderly"))
    BY <1>4 DEF PgwAnswer
  <2> QED BY <1>1, <1>2, <1>4, <2>1, PgwAnswerSettled
<1>5. ASSUME PgwRequest
      PROVE  SessionInv'
  <2>1. env' = env /\ Behaves(FALSE)
    BY <1>5 DEF PgwRequest
  <2> QED BY <1>1, <1>2, <1>5, <2>1, PgwRequestSettled
<1>6. ASSUME UNCHANGED vars
      PROVE  SessionInv'
  BY <1>6 DEF vars, SessionInv, TypeOK, Sound, MemoryOK, RegistryOK, TunnelsOK, ChunksOK, UeOK, Live
<1> QED BY <1>3, <1>4, <1>5, <1>6 DEF Next, Request

\* Whatever arrives, the UEs are of their types, and between two handlers the
\* lists of free memory, the registries, the tunnels and the states of the UEs
\* agree (NwSaeGwUlp.c:1276-1367), until an assertion fails.
THEOREM SessionsAreSound == Spec => []SessionInv
<1>1. Init => SessionInv
  BY InitSessionInv
<1>2. SessionInv /\ [Next]_vars => SessionInv'
  BY NextSessionInv
<1> QED BY <1>1, <1>2, PTL DEF Spec

\* The program, the requests of the MME and what it knows are of their types in
\* every state (NwSaeGwUe.h).
THEOREM TypeCorrect == Spec => []TypeOK
<1>1. SessionInv => TypeOK
  BY DEF SessionInv
<1> QED BY <1>1, SessionsAreSound, PTL

\* The trees of the registry hold the UEs in memory that say they are
\* registered, and no freed one (NwSaeGwUlp.c:1276-1367).
THEOREM RegistriesAgree == Spec => []RegistryAgrees
<1>1. SessionInv => RegistryAgrees
  BY DEF SessionInv, Sound, RegistryOK, RegistryAgrees
<1> QED BY <1>1, SessionsAreSound, PTL

-----------------------------------------------------------------------------
(* While the MME behaves, a step changes one session *)

\* Where the flows of b come in, whose address is addr.
Mine(b, addr) ==
  {SgwUplinkAt(b, 5), PgwUplinkAt(b, 5), SgwDownlinkAt(b, 5), UeAt(addr)}

LEMMA SessionEnds ==
  ASSUME NEW s \in Program, NEW b \in Blocks, SessionOK(s, b), HasFlows(s, b)
  PROVE  /\ Ends(s.ue[b]) \subseteq Mine(b, s.ue[b].addr)
         /\ UeAt(s.ue[b].addr) \in Ends(s.ue[b]) => s.ue[b].pgw
         /\ s.ue[b].up \in Ends(s.ue[b])
         /\ s.ue[b].state \in Established => s.ue[b].down \in Ends(s.ue[b])
<1> DEFINE u == s.ue[b]
<1>1. u \in UeRecord
  BY DEF Program
<1>2. /\ u.up = SgwUplinkAt(b, 5)
      /\ u.pup \in {PgwUplinkAt(b, 5), None}
      /\ \/ u.down = None
         \/ u.down = UeAt(u.addr) /\ u.state = "SAE_ESTABLISHED" /\ u.pgw /\ u.addr \in LocalPool
         \/ u.down = SgwDownlinkAt(b, 5)
      /\ u.state \in Established => u.down \in {UeAt(u.addr), SgwDownlinkAt(b, 5)}
      /\ u.state = "SAE_ESTABLISHED" => u.addr \in LocalPool
      /\ u.state \in Established /\ u.state # "SAE_ESTABLISHED" => u.down = SgwDownlinkAt(b, 5)
  BY DEF SessionOK, HasFlows, SaeStates, Established
<1>3. /\ SgwUplinkAt(b, 5) \in Endpoint /\ PgwUplinkAt(b, 5) \in Endpoint
      /\ SgwDownlinkAt(b, 5) \in Endpoint
      /\ u.addr \in LocalPool => UeAt(u.addr) \in Endpoint
  BY SgwAssumption DEF Endpoint, SgwUplinkAt, PgwUplinkAt, SgwDownlinkAt, UeAt
<1>4. None \notin Endpoint
  BY NoneAssumption
<1>5. /\ UeAt(u.addr) # SgwUplinkAt(b, 5) /\ UeAt(u.addr) # PgwUplinkAt(b, 5)
      /\ UeAt(u.addr) # SgwDownlinkAt(b, 5)
  BY DEF SgwUplinkAt, PgwUplinkAt, SgwDownlinkAt, UeAt
<1>6. Ends(u) \subseteq Mine(b, u.addr)
  BY <1>2 DEF Ends, Mine
<1>7. UeAt(u.addr) \in Ends(u) => u.pgw
  BY <1>2, <1>5 DEF Ends
<1>8. u.up \in Ends(u)
  BY <1>2, <1>3, <1>4 DEF Ends
<1>9. u.state \in Established => u.down \in Ends(u)
  BY <1>2, <1>3, <1>4 DEF Ends
<1> QED BY <1>6, <1>7, <1>8, <1>9

LEMMA EndsApart ==
  ASSUME NEW s \in Program, NEW d \in Blocks, SessionOK(s, d), HasFlows(s, d),
         NEW b, b # d, NEW addr, s.ue[d].pgw => s.ue[d].addr # addr,
         NEW e \in Ends(s.ue[d])
  PROVE  e \notin Mine(b, addr)
<1>1. /\ e \in Mine(d, s.ue[d].addr)
      /\ e = UeAt(s.ue[d].addr) => s.ue[d].addr # addr
  BY SessionEnds
<1> QED BY <1>1 DEF Mine, SgwUplinkAt, PgwUplinkAt, SgwDownlinkAt, UeAt

\* What a step from s to t leaves alone: all but b, and the endpoints of b.
OthersKept(s, t, b, addr, asked, asked2, known, known2) ==
  /\ \A d \in Blocks \ {b} :
       /\ t.ue[d] = s.ue[d] /\ t.mem[d] = s.mem[d] /\ known2[d] = known[d]
       /\ Leaving(asked2, d) <=> Leaving(asked, d)
       /\ Live(s, d) =>
            /\ s.ue[d].s11 \in t.s11Map <=> s.ue[d].s11 \in s.s11Map
            /\ s.ue[d].s5 \in s.s5Map => s.ue[d].s5 \in t.s5Map
            /\ s.ue[d].pgw => s.ue[d].addr # addr /\ ~ InList(s.ue[d].addr, t.pool)
  /\ t.sgwRbt \ {b} = s.sgwRbt \ {b} /\ t.pgwRbt \ {b} = s.pgwRbt \ {b}
  /\ {f \in t.flows : f.in \notin Mine(b, addr)} = {f \in s.flows : f.in \notin Mine(b, addr)}
  /\ \A q \in t.sent : t.tun[q.chunk] # b =>
       /\ q \in s.sent /\ s.tun[q.chunk] \in Blocks /\ t.tun[q.chunk] = s.tun[q.chunk]
       /\ q.chunk \in t.s5Map /\ asked2[q.trxn] = asked[q.trxn]

\* What it must see to: b.
OwnFlows(t, b, addr) ==
  /\ \A f \in t.flows : f.in \in Mine(b, addr) => HasFlows(t, b) /\ f.in \in Ends(t.ue[b])
  /\ HasFlows(t, b) =>
       \A e \in Ends(t.ue[b]) : e \in Mine(b, addr) /\ \E f \in t.flows : f.in = e
  /\ \A f, g \in t.flows : f.in \in Mine(b, addr) /\ f.in = g.in => f = g

OwnRegistry(t, b) ==
  /\ IsInjective(t.pool)
  /\ b \in t.sgwRbt => \A d \in t.sgwRbt \ {b} : t.ue[d].imsi # t.ue[b].imsi
  /\ b \in t.pgwRbt => \A d \in t.pgwRbt \ {b} : t.ue[d].addr # t.ue[b].addr

OwnSent(t, b, asked2) ==
  \A q \in t.sent : t.tun[q.chunk] = b =>
    /\ Serves(t, q, asked2[q.trxn])
    /\ \A p \in t.sent : p.trxn = q.trxn \/ p.chunk = q.chunk => p = q

LEMMA OrderlyStep ==
  ASSUME NEW s \in Program, NEW t \in Program, NEW b \in Blocks, NEW addr,
         NEW asked, NEW asked2, NEW known, NEW known2, NEW e, Orderly(s, asked, known, e),
         HasFlows(s, b) => Ends(s.ue[b]) \subseteq Mine(b, addr),
         OthersKept(s, t, b, addr, asked, asked2, known, known2),
         Live(t, b) => SessionOK(t, b),
         OwnFlows(t, b, addr), OwnRegistry(t, b), OwnSent(t, b, asked2),
         KnownUe(t, asked2, known2, b), AnsweredOK(t, asked2, e)
  PROVE  Orderly(t, asked2, known2, e)
<1>1. \A d \in Blocks \ {b} : /\ t.ue[d] = s.ue[d] /\ (Live(t, d) <=> Live(s, d))
                              /\ HasFlows(t, d) <=> HasFlows(s, d)
  BY DEF OthersKept, Live, HasFlows
<1>2. ASSUME NEW d \in Blocks, Live(t, d) PROVE SessionOK(t, d)
  <2>1. CASE d = b
    BY <1>2, <2>1
  <2>2. CASE d # b
    <3>1. /\ SessionOK(s, d) /\ Live(s, d) /\ t.ue[d] = s.ue[d]
          /\ HasFlows(t, d) <=> HasFlows(s, d)
      BY <1>1, <1>2, <2>2 DEF Orderly
    <3>2. /\ s.ue[d].s11 \in t.s11Map <=> s.ue[d].s11 \in s.s11Map
          /\ s.ue[d].s5 \in s.s5Map => s.ue[d].s5 \in t.s5Map
          /\ s.ue[d].pgw => ~ InList(s.ue[d].addr, t.pool)
      BY <2>2, <3>1 DEF OthersKept
    <3> QED BY <3>1, <3>2 DEF SessionOK
  <2> QED BY <2>1, <2>2
<1>3. ASSUME NEW d \in Blocks, d # b, HasFlows(s, d), NEW h \in Ends(s.ue[d])
      PROVE  h \notin Mine(b, addr)
  <2>1. Live(s, d) /\ SessionOK(s, d)
    BY <1>3 DEF HasFlows, Orderly
  <2>2. s.ue[d].pgw => s.ue[d].addr # addr
    BY <1>3, <2>1 DEF OthersKept
  <2> QED BY <1>3, <2>1, <2>2, EndsApart
<1>4. \A f : f.in \notin Mine(b, addr) => (f \in t.flows <=> f \in s.flows)
  BY DEF OthersKept
<1>5. FlowsOK(t)
  <2>1. ASSUME NEW f \in t.flows
        PROVE  \E d \in Blocks : HasFlows(t, d) /\ f.in \in Ends(t.ue[d])
    <3>1. CASE f.in \in Mine(b, addr)
      BY <3>1 DEF OwnFlows
    <3>2. CASE f.in \notin Mine(b, addr)
      <4>1. PICK d \in Blocks : HasFlows(s, d) /\ f.in \in Ends(s.ue[d])
        BY <1>4, <3>2 DEF Orderly, FlowsOK
      <4>2. d # b
        BY <3>2, <4>1
      <4> QED BY <1>1, <4>1, <4>2
    <3> QED BY <3>1, <3>2
  <2>2. ASSUME NEW d \in Blocks, HasFlows(t, d), NEW h \in Ends(t.ue[d])
        PROVE  \E f \in t.flows : f.in = h
    <3>1. CASE d = b
      BY <2>2, <3>1 DEF OwnFlows
    <3>2. CASE d # b
      <4>1. HasFlows(s, d) /\ h \in Ends(s.ue[d])
        BY <1>1, <2>2, <3>2
      <4>2. h \notin Mine(b, addr)
        BY <1>3, <3>2, <4>1
      <4>3. PICK f \in s.flows : f.in = h
        BY <4>1 DEF Orderly, FlowsOK
      <4> QED BY <1>4, <4>2, <4>3
    <3> QED BY <3>1, <3>2
  <2>3. ASSUME NEW f \in t.flows, NEW g \in t.flows, f.in = g.in PROVE f = g
    <3>1. CASE f.in \in Mine(b, addr)
      BY <2>3, <3>1 DEF OwnFlows
    <3>2. CASE f.in \notin Mine(b, addr)
      BY <1>4, <2>3, <3>2 DEF Orderly, FlowsOK
    <3> QED BY <3>1, <3>2
  <2> QED BY <2>1, <2>2, <2>3 DEF FlowsOK
<1>6. DistinctOK(t)
  <2>1. s.sgwRbt \subseteq Blocks /\ s.pgwRbt \subseteq Blocks
        /\ t.sgwRbt \subseteq Blocks /\ t.pgwRbt \subseteq Blocks
    BY DEF Program
  <2>2. ASSUME NEW c \in t.sgwRbt, NEW d \in t.sgwRbt, t.ue[c].imsi = t.ue[d].imsi PROVE c = d
    <3>1. CASE c = b \/ d = b
      BY <2>2, <3>1 DEF OwnRegistry
    <3>2. CASE c # b /\ d # b
      <4>1. c \in s.sgwRbt /\ d \in s.sgwRbt
        BY <3>2 DEF OthersKept
      <4> QED BY <1>1, <2>1, <2>2, <3>2, <4>1 DEF Orderly, DistinctOK
    <3> QED BY <3>1, <3>2
  <2>3. ASSUME NEW c \in t.pgwRbt, NEW d \in t.pgwRbt, t.ue[c].addr = t.ue[d].addr PROVE c = d
    <3>1. CASE c = b \/ d = b
      BY <2>3, <3>1 DEF OwnRegistry
    <3>2. CASE c # b /\ d # b
      <4>1. c \in s.pgwRbt /\ d \in s.pgwRbt
        BY <3>2 DEF OthersKept
      <4> QED BY <1>1, <2>1, <2>3, <3>2, <4>1 DEF Orderly, DistinctOK
    <3> QED BY <3>1, <3>2
  <2> QED BY <2>2, <2>3 DEF DistinctOK, OwnRegistry
<1>7. ServesOK(t, asked2)
  <2>1. ASSUME NEW q \in t.sent, t.tun[q.chunk] # b
        PROVE  q \in s.sent /\ Serves(t, q, asked2[q.trxn])
    <3>1. /\ q \in s.sent /\ s.tun[q.chunk] \in Blocks /\ t.tun[q.chunk] = s.tun[q.chunk]
          /\ q.chunk \in t.s5Map /\ asked2[q.trxn] = asked[q.trxn]
      BY <2>1 DEF OthersKept
    <3>2. Serves(s, q, asked[q.trxn])
      BY <3>1 DEF Orderly, ServesOK
    <3>3. t.ue[s.tun[q.chunk]] = s.ue[s.tun[q.chunk]]
      BY <1>1, <2>1, <3>1
    <3> QED BY <3>1, <3>2, <3>3 DEF Serves
  <2>2. ASSUME NEW p \in t.sent, NEW q \in t.sent, p.trxn = q.trxn \/ p.chunk = q.chunk
        PROVE  p = q
    <3>1. CASE t.tun[q.chunk] = b
      BY <2>2, <3>1 DEF OwnSent
    <3>2. CASE t.tun[p.chunk] = b
      BY <2>2, <3>2 DEF OwnSent
    <3>3. CASE t.tun[p.chunk] # b /\ t.tun[q.chunk] # b
      BY <2>1, <2>2, <3>3 DEF Orderly, ServesOK
    <3> QED BY <3>1, <3>2, <3>3
  <2> QED BY <2>1, <2>2 DEF ServesOK, OwnSent
<1>8. ASSUME NEW d \in Blocks PROVE KnownUe(t, asked2, known2, d)
  <2>1. CASE d = b
    BY <2>1
  <2>2. CASE d # b
    <3>1. /\ t.ue[d] = s.ue[d] /\ (Live(t, d) <=> Live(s, d))
          /\ HasFlows(t, d) <=> HasFlows(s, d)
      BY <1>1, <2>2
    <3>2. known2[d] = known[d] /\ (Leaving(asked2, d) <=> Leaving(asked, d))
      BY <2>2 DEF OthersKept
    <3>3. KnownUe(s, asked, known, d)
      BY DEF Orderly, KnownOK
    <3>4. ASSUME HasFlows(s, d), s.ue[d].state \in Established,
                 NEW f \in s.flows, f.in = s.ue[d].down
          PROVE  f \in t.flows
      <4>1. SessionOK(s, d)
        BY <3>4 DEF HasFlows, Orderly
      <4>2. s.ue[d].down \in Ends(s.ue[d])
        BY <3>4, <4>1, SessionEnds
      <4> QED BY <1>3, <1>4, <2>2, <3>4, <4>2
    <3> QED BY <3>1, <3>2, <3>3, <3>4 DEF KnownUe
  <2> QED BY <2>1, <2>2
<1> QED BY <1>2, <1>5, <1>6, <1>7, <1>8 DEF Orderly, KnownOK

\* The session of b, which has ended, is gone.
Removed(s, t, b) ==
  /\ ~ Live(t, b) /\ \A d \in Blocks \ {b} : t.mem[d] = s.mem[d] /\ t.ue[d] = s.ue[d]
  /\ t.sgwRbt = s.sgwRbt \ {b} /\ t.pgwRbt = s.pgwRbt /\ t.pool = s.pool
  /\ t.s11Map = s.s11Map \ {s.ue[b].s11} /\ t.s5Map = s.s5Map \ {s.ue[b].s5}
  /\ \A q \in s.sent : t.tun[q.chunk] = s.tun[q.chunk]
  /\ t.sent = s.sent /\ t.flows = s.flows /\ t.answer = s.answer

LEMMA PurgeEffect ==
  ASSUME NEW s, NEW b \in Blocks, Going(s, b), ~ s.aborted, s.ue[b].state = "END",
         Live(s, b), ~ s.ue[b].pgw, s.ue[b].s11 \in s.s11Map \cup {None},
         s.ue[b].s5 \in s.s5Map \cup {None}, NEW t, t = Purge(s, b)
  PROVE  t \in Program /\ ~ t.aborted /\ Removed(s, t, b)
<1> DEFINE v == IF s.ue[b].sgw THEN SgwDeregister(s, b) ELSE s
<1>1. s \in Program /\ RegistryOK(s)
  BY DEF Going, SoundBut
<1>2. t = DeleteUe(v, b)
  BY DEF Purge, DestroySession
<1>3. v \in Program /\ ChunksOK(v)
  BY GoingSgwDeregister DEF Going
<1>4. /\ ~ v.aborted /\ v.sgwRbt = s.sgwRbt \ {b} /\ v.pgwRbt = s.pgwRbt /\ v.pool = s.pool
      /\ SameMemory(s, v) /\ SameTunnels(s, v) /\ v.sent = s.sent
      /\ v.flows = s.flows /\ v.answer = s.answer
      /\ v.ue[b].s11 = s.ue[b].s11 /\ v.ue[b].s5 = s.ue[b].s5
      /\ \A d \in Blocks \ {b} : v.ue[d] = s.ue[d]
  <2>1. CASE s.ue[b].sgw
    <3>1. b \in s.sgwRbt
      BY <1>1, <2>1 DEF RegistryOK
    <3>2. v = SgwDeregister(s, b)
      BY <2>1
    <3> HIDE DEF v
    <3>3. /\ v \in Program
          /\ v.aborted <=> s.aborted \/ b \notin s.sgwRbt
          /\ SameMemory(s, v) /\ SameTunnels(s, v) /\ v.sent = s.sent
          /\ v.flows = s.flows /\ v.answer = s.answer
          /\ v.sgwRbt = s.sgwRbt \ {b} /\ v.pgwRbt = s.pgwRbt /\ v.pool = s.pool
          /\ v.ue = [s.ue EXCEPT ![b].sgw = FALSE]
      BY <1>1, <3>2, SgwDeregisterEffect
    <3>4. v.ue[b] = [s.ue[b] EXCEPT !.sgw = FALSE] /\ \A d \in Blocks \ {b} : v.ue[d] = s.ue[d]
      BY <1>1, <3>3 DEF Program
    <3>5. s.ue[b] \in UeRecord
      BY <1>1 DEF Program
    <3>6. v.ue[b].s11 = s.ue[b].s11 /\ v.ue[b].s5 = s.ue[b].s5
      BY <3>4, <3>5 DEF UeRecord
    <3> QED BY <3>1, <3>3, <3>4, <3>6
  <2>2. CASE ~ s.ue[b].sgw
    <3>1. b \notin s.sgwRbt
      BY <1>1, <2>2 DEF RegistryOK
    <3> QED BY <2>2, <3>1 DEF SameMemory, SameTunnels
  <2> QED BY <2>1, <2>2
<1> HIDE DEF v
<1>5. /\ t \in Program /\ ChunksOK(t)
      /\ t.aborted <=> \/ v.aborted \/ ~ Live(v, b)
                       \/ v.ue[b].s11 # None /\ v.ue[b].s11 \notin v.s11Map
                       \/ v.ue[b].s5 # None /\ v.ue[b].s5 \notin v.s5Map
      /\ SameRegistry(v, t) /\ t.sent = v.sent /\ t.flows = v.flows /\ t.answer = v.answer
      /\ t.mem = [v.mem EXCEPT ![b] = "free"]
      /\ t.memPool = <<b>> \o v.memPool
      /\ \A c \in Blocks \ {b} : t.ue[c] = v.ue[c]
      /\ t.ue[b] \in {v.ue[b], BlankUe}
      /\ t.s11Map = v.s11Map \ {v.ue[b].s11} /\ t.s5Map = v.s5Map \ {v.ue[b].s5}
      /\ \A d \in Chunks : d \notin {v.ue[b].s11, v.ue[b].s5} => t.tun[d] = v.tun[d]
      /\ \A q \in v.sent : t.tun[q.chunk] = v.tun[q.chunk]
  BY SMTT(60), <1>2, <1>3, DeleteUeEffect
<1>6. ~ t.aborted
  BY <1>4, <1>5 DEF Live, SameMemory, SameTunnels
<1>7. ~ Live(t, b) /\ \A d \in Blocks \ {b} : t.mem[d] = s.mem[d] /\ t.ue[d] = s.ue[d]
  <2>1. v.mem \in [Blocks -> {"fresh", "allocated", "free"}]
    BY <1>3 DEF Program
  <2> QED BY <1>4, <1>5, <2>1 DEF Live, SameMemory
<1> QED BY <1>4, <1>5, <1>6, <1>7 DEF Removed, SameRegistry, SameTunnels

\* The tunnels of the others.
LEMMA OtherTunnels ==
  ASSUME NEW s \in Program, TunnelsOK(s), NEW b \in Blocks, NEW d \in Blocks \ {b},
         Live(s, b), Live(s, d)
  PROVE  /\ s.ue[d].s11 \in s.s11Map => s.ue[d].s11 # s.ue[b].s11
         /\ s.ue[d].s5 \in s.s5Map => s.ue[d].s5 # s.ue[b].s5
  BY DEF TunnelsOK

LEMMA FreshTunnel ==
  ASSUME NEW s \in Program, TunnelsOK(s), NEW d \in Blocks, Live(s, d),
         NEW c \in Chunks, c \notin s.s11Map \cup s.s5Map
  PROVE  s.ue[d].s11 # c /\ s.ue[d].s5 # c
  BY NoneAssumption, SgwAssumption DEF TunnelsOK

\* The addresses of the others.
LEMMA OtherAddress ==
  ASSUME NEW s \in Program, Sound(s), NEW asked, NEW known, NEW e, Orderly(s, asked, known, e),
         NEW b \in Blocks, NEW d \in Blocks \ {b}, Live(s, d), s.ue[d].pgw
  PROVE  /\ s.ue[d].addr \in LocalPool /\ s.ue[d].addr # None
         /\ ~ InList(s.ue[d].addr, s.pool)
         /\ b \in s.pgwRbt => s.ue[d].addr # s.ue[b].addr
<1>1. SessionOK(s, d) /\ DistinctOK(s) /\ RegistryOK(s)
  BY DEF Orderly, Sound
<1>2. d \in s.pgwRbt
  BY <1>1 DEF RegistryOK
<1> QED BY <1>1, <1>2, NoneAssumption DEF SessionOK, DistinctOK

\* A request to a PGW waits for the UE that has its tunnel.
LEMMA SentTo ==
  ASSUME NEW s \in Program, Sound(s), NEW asked, ServesOK(s, asked), NEW q \in s.sent
  PROVE  LET b == s.tun[q.chunk] IN
         /\ b \in Blocks /\ Live(s, b) /\ s.ue[b].s5 = q.chunk /\ q.chunk \in s.s5Map
         /\ s.ue[b].state \in {"WT_CREATE", "WT_DELETE"}
         /\ q.trxn \in Trxns /\ q.chunk \in Chunks
<1>1. TunnelsOK(s) /\ Serves(s, q, asked[q.trxn]) /\ q \in S5Request
  BY DEF Sound, ServesOK, Program
<1> QED BY <1>1 DEF TunnelsOK, Serves, S5Request

\* A session without flows has none, and one with flows has them ready.
LEMMA NoFlows ==
  ASSUME NEW s \in Program, NEW asked, NEW known, NEW e, Orderly(s, asked, known, e),
         NEW b \in Blocks, ~ HasFlows(s, b), NEW addr,
         \A d \in Blocks \ {b} : Live(s, d) /\ s.ue[d].pgw => s.ue[d].addr # addr
  PROVE  \A f \in s.flows : f.in \notin Mine(b, addr)
<1> SUFFICES ASSUME NEW f \in s.flows PROVE f.in \notin Mine(b, addr)
  OBVIOUS
<1>1. PICK d \in Blocks : HasFlows(s, d) /\ f.in \in Ends(s.ue[d])
  BY DEF Orderly, FlowsOK
<1>2. d # b /\ Live(s, d) /\ SessionOK(s, d)
  BY <1>1 DEF HasFlows, Orderly
<1>3. s.ue[d].pgw => s.ue[d].addr # addr
  BY <1>2
<1> QED BY <1>1, <1>2, <1>3, EndsApart

\* The address of its flow.
AddressOf(u) == IF u.pgw THEN u.addr ELSE None

LEMMA OwnEnds ==
  ASSUME NEW s \in Program, Sound(s), NEW asked, NEW known, NEW e, Orderly(s, asked, known, e),
         NEW b \in Blocks, HasFlows(s, b), NEW addr, addr = AddressOf(s.ue[b])
  PROVE  /\ FlowsReady(s, b) /\ Ends(s.ue[b]) \subseteq Mine(b, addr)
         /\ \A f \in s.flows : f.in \in Mine(b, addr) <=> f.in \in Ends(s.ue[b])
         /\ \A d \in Blocks \ {b} : Live(s, d) /\ s.ue[d].pgw =>
              s.ue[d].addr # addr /\ ~ InList(s.ue[d].addr, s.pool)
         /\ \A q \in s.sent : s.tun[q.chunk] # b
<1>1. Live(s, b) /\ SessionOK(s, b) /\ FlowsOK(s)
  BY DEF HasFlows, Orderly
<1>2. Ends(s.ue[b]) \subseteq Mine(b, addr)
  <2>1. /\ Ends(s.ue[b]) \subseteq Mine(b, s.ue[b].addr)
        /\ UeAt(s.ue[b].addr) \in Ends(s.ue[b]) => s.ue[b].pgw
    BY <1>1, SessionEnds
  <2> QED BY <2>1 DEF Mine, AddressOf
<1>20. \A d \in Blocks \ {b} : Live(s, d) /\ s.ue[d].pgw =>
         s.ue[d].addr # addr /\ ~ InList(s.ue[d].addr, s.pool)
  <2>1. s.ue[b].pgw => b \in s.pgwRbt
    BY <1>1 DEF Sound, RegistryOK
  <2> QED BY <2>1, OtherAddress DEF AddressOf
<1>21. \A q \in s.sent : s.tun[q.chunk] # b
  <2>1. s.ue[b].state \notin {"WT_CREATE", "WT_DELETE"}
    BY DEF HasFlows, SaeStates
  <2>2. ServesOK(s, asked)
    BY DEF Orderly
  <2> QED BY <2>1, <2>2, SentTo
<1>3. ASSUME NEW f \in s.flows, f.in \in Mine(b, addr) PROVE f.in \in Ends(s.ue[b])
  <2>1. PICK d \in Blocks : HasFlows(s, d) /\ f.in \in Ends(s.ue[d])
    BY <1>1 DEF FlowsOK
  <2>2. CASE d = b
    BY <2>1, <2>2
  <2>3. CASE d # b
    <3>1. Live(s, d) /\ SessionOK(s, d)
      BY <2>1 DEF HasFlows, Orderly
    <3>2. s.ue[d].pgw => s.ue[d].addr # addr
      BY <1>20, <2>3, <3>1
    <3> QED BY <1>3, <2>1, <2>3, <3>1, <3>2, EndsApart
  <2> QED BY <2>2, <2>3
<1>4. FlowsReady(s, b)
  <2> DEFINE u == s.ue[b]
  <2>1. u.ebi = 5 /\ \A h \in Ends(u) : \E f \in s.flows : f.in = h
    BY <1>1 DEF SessionOK, FlowsOK
  <2>2. /\ u.up = SgwUplinkAt(b, 5)
        /\ u.pup \in {PgwUplinkAt(b, 5), None}
        /\ u.down \in {None, UeAt(u.addr), SgwDownlinkAt(b, 5)}
    BY <1>1 DEF SessionOK, HasFlows, SaeStates
  <2>3. u.up # u.pup \/ u.pup = None
    BY <2>2 DEF SgwUplinkAt, PgwUplinkAt
  <2>4. u.up # u.down \/ u.down = None
    BY <2>2 DEF SgwUplinkAt, SgwDownlinkAt, UeAt
  <2>5. u.pup # u.down \/ u.down = None
    <3>1. CASE u.pup = None
      BY <3>1
    <3>2. CASE u.pup = PgwUplinkAt(b, 5)
      BY <2>2, <3>2 DEF PgwUplinkAt, SgwDownlinkAt, UeAt
    <3> QED BY <2>2, <3>1, <3>2
  <2>6. \A h, g \in {"up", "pup", "down"} : u[h] = u[g] => h = g \/ u[h] = None
    BY <2>3, <2>4, <2>5
  <2>7. UplinkOwned(u)
    BY <2>2 DEF UplinkOwned, SgwUplinkAt
  <2> QED BY <2>1, <2>6, <2>7 DEF FlowsReady
<1> QED BY <1>2, <1>20, <1>21, <1>3, <1>4

\* Requests of the MME to delete the session of b.
LEMMA LeavingSame ==
  ASSUME NEW d, NEW asked, NEW asked2, NEW x,
         \A y \in Trxns : y # x => asked2[y] = asked[y],
         ~ (asked[x] # None /\ asked[x].kind = "delete" /\ asked[x].teid = d),
         ~ (asked2[x] # None /\ asked2[x].kind = "delete" /\ asked2[x].teid = d)
  PROVE  Leaving(asked2, d) <=> Leaving(asked, d)
  BY DEF Leaving

-----------------------------------------------------------------------------
(* While the MME behaves: Create Session Request *)

\* The UE b has been made.
NewBlock(s, n, b) ==
  /\ b \in Blocks /\ ~ Live(s, b) /\ Live(n, b) /\ n.ue[b] = BlankUe
  /\ \A d \in Blocks \ {b} : n.mem[d] = s.mem[d] /\ n.ue[d] = s.ue[d]
  /\ SameRegistry(s, n) /\ SameTunnels(s, n) /\ n.sent = s.sent
  /\ n.flows = s.flows /\ n.answer = s.answer

LEMMA NewBlockEffect ==
  ASSUME NEW s \in Program, HasMemory(s), MemoryOK(s),
         NEW n, n = NewUe(s).state, NEW b, b = NewUe(s).block
  PROVE  NewBlock(s, n, b)
<1>1. /\ n \in Program /\ n.aborted = s.aborted
      /\ b \in Blocks /\ ~ Live(s, b)
      /\ SameRegistry(s, n) /\ SameTunnels(s, n) /\ n.sent = s.sent
      /\ n.flows = s.flows /\ n.answer = s.answer
      /\ n.mem = [s.mem EXCEPT ![b] = "allocated"]
      /\ n.ue = [s.ue EXCEPT ![b] = BlankUe]
      /\ MemoryOK(n)
  BY NewUeEffect
<1>2. s.mem \in [Blocks -> {"fresh", "allocated", "free"}] /\ s.ue \in [Blocks -> UeRecord]
  BY DEF Program
<1> QED BY <1>1, <1>2 DEF NewBlock, Live

\* No request leads to a block that is not in use, and no registry has it.
LEMMA Unused ==
  ASSUME NEW s \in Program, Sound(s), NEW b \in Blocks, ~ Live(s, b)
  PROVE  /\ b \notin s.sgwRbt /\ b \notin s.pgwRbt
         /\ \A c \in s.s11Map \cup s.s5Map : s.tun[c] # b
  BY DEF Sound, RegistryOK, TunnelsOK

\* The session is refused, and the UE is no more.
LEMMA OrderlyRefused ==
  ASSUME NEW s \in Program, Sound(s), NEW asked, NEW known, NEW e, Orderly(s, asked, known, e),
         NEW b \in Blocks, ~ Live(s, b), NEW t \in Program, ~ Live(t, b),
         \A d \in Blocks \ {b} : t.mem[d] = s.mem[d] /\ t.ue[d] = s.ue[d],
         t.sgwRbt = s.sgwRbt, t.pgwRbt = s.pgwRbt, t.pool = s.pool,
         t.s11Map = s.s11Map, t.s5Map = s.s5Map, t.sent = s.sent, t.flows = s.flows,
         \A q \in s.sent : t.tun[q.chunk] = s.tun[q.chunk]
  PROVE  Orderly(t, asked, known, e)
<1>1. \A d \in Blocks \ {b} : Live(s, d) /\ s.ue[d].pgw => s.ue[d].addr # None
  BY OtherAddress
<1>2. ~ HasFlows(s, b) /\ ~ HasFlows(t, b)
  BY DEF HasFlows
<1>3. \A f \in s.flows : f.in \notin Mine(b, None)
  BY <1>1, <1>2, NoFlows
<1>4. /\ b \notin s.sgwRbt /\ b \notin s.pgwRbt
      /\ \A c \in s.s11Map \cup s.s5Map : s.tun[c] # b
  BY Unused
<1>5. ServesOK(s, asked) /\ DistinctOK(s) /\ KnownUe(s, asked, known, b) /\ AnsweredOK(s, asked, e)
  BY DEF Orderly, KnownOK
<1>6. \A q \in s.sent : s.tun[q.chunk] \in Blocks /\ q.chunk \in s.s5Map
  BY <1>5, SentTo
<1>7. OthersKept(s, t, b, None, asked, asked, known, known)
  <2>1. \A d \in Blocks \ {b} : Live(s, d) /\ s.ue[d].pgw => ~ InList(s.ue[d].addr, t.pool)
    BY OtherAddress
  <2> QED BY <1>1, <1>6, <2>1 DEF OthersKept
<1>8. OwnFlows(t, b, None)
  BY <1>2, <1>3 DEF OwnFlows
<1>9. OwnRegistry(t, b)
  BY <1>4, <1>5 DEF OwnRegistry, DistinctOK
<1>10. OwnSent(t, b, asked)
  BY <1>4, <1>6 DEF OwnSent
<1>11. KnownUe(t, asked, known, b)
  BY <1>2, <1>5 DEF KnownUe
<1>12. AnsweredOK(t, asked, e)
  BY <1>5 DEF AnsweredOK
<1> QED BY <1>2, <1>7, <1>8, <1>9, <1>10, <1>11, <1>12, OrderlyStep

\* The session is accepted by the collocated PGW.
LEMMA OrderlyLocal ==
  ASSUME NEW s \in Program, Sound(s), NEW asked, NEW known, NEW e, Orderly(s, asked, known, e),
         NEW n, NEW b, NewBlock(s, n, b), NEW t \in Program, NEW x, NEW c,
         NEW r \in CreateRequest, r.flaw = "none", r.ebi = 5, s.pool # <<>>,
         \A d \in n.sgwRbt : n.ue[d].imsi # r.imsi, LocalCreate(n, t, x, b, r, c),
         NEW known2, known2[b] = [imsi |-> r.imsi, enb |-> None],
         \A d \in Blocks \ {b} : known2[d] = known[d]
  PROVE  Orderly(t, asked, known2, e)
<1> DEFINE addr == Head(s.pool)
<1>1. /\ b \in Blocks /\ ~ Live(s, b) /\ Live(t, b)
      /\ \A d \in Blocks \ {b} : t.mem[d] = s.mem[d] /\ t.ue[d] = s.ue[d]
      /\ c \in Chunks /\ c \notin s.s11Map \cup s.s5Map
      /\ t.tun[c] = b /\ \A d \in Chunks \ {c} : t.tun[d] = s.tun[d]
      /\ t.s11Map = s.s11Map \cup {c} /\ t.s5Map = s.s5Map /\ t.sent = s.sent
      /\ t.sgwRbt = s.sgwRbt \cup {b} /\ t.pgwRbt = s.pgwRbt \cup {b} /\ t.pool = Tail(s.pool)
      /\ t.flows = s.flows \cup ToPdn(SgwUplinkAt(b, 5), PgwUplinkAt(b, 5))
      /\ LocalUe(t.ue[b], b, r, addr, c)
  BY DEF NewBlock, LocalCreate, SameRegistry, SameTunnels, SameMemory, Live
<1>2. /\ ServesOK(s, asked) /\ DistinctOK(s) /\ KnownUe(s, asked, known, b)
      /\ AnsweredOK(s, asked, e) /\ TunnelsOK(s)
  BY <1>1 DEF Orderly, KnownOK, Sound
<1>3. /\ addr \in LocalPool /\ Tail(s.pool) \in Seq(LocalPool)
      /\ IsInjective(Tail(s.pool)) /\ InList(addr, s.pool)
      /\ \A y : InList(y, Tail(s.pool)) <=> InList(y, s.pool) /\ y # addr
  <2>1. s.pool \in Seq(LocalPool) /\ IsInjective(s.pool)
    BY <1>2 DEF Program, DistinctOK
  <2> QED BY <2>1, PopList
<1> HIDE DEF addr
<1>4. \A d \in Blocks \ {b} : Live(s, d) /\ s.ue[d].pgw =>
        s.ue[d].addr # addr /\ ~ InList(s.ue[d].addr, s.pool)
  BY <1>1, <1>3, OtherAddress
<1>5. /\ ~ HasFlows(s, b) /\ HasFlows(t, b)
  BY <1>1 DEF HasFlows, LocalUe, SaeStates
<1>6. \A f \in s.flows : f.in \notin Mine(b, addr)
  BY <1>1, <1>4, <1>5, NoFlows
<1>7. /\ b \notin s.sgwRbt /\ b \notin s.pgwRbt
      /\ \A d \in s.s11Map \cup s.s5Map : s.tun[d] # b
  BY <1>1, Unused
<1>8. \A q \in s.sent : s.tun[q.chunk] \in Blocks /\ q.chunk \in s.s5Map /\ q.chunk \in Chunks
  BY <1>2, SentTo
<1>9. Ends(t.ue[b]) = {SgwUplinkAt(b, 5), PgwUplinkAt(b, 5)}
  <2>1. SgwUplinkAt(b, 5) # None /\ PgwUplinkAt(b, 5) # None
    <3>1. SgwUplinkAt(b, 5) \in Endpoint /\ PgwUplinkAt(b, 5) \in Endpoint
      BY <1>1, SgwAssumption DEF Endpoint, SgwUplinkAt, PgwUplinkAt
    <3> QED BY <3>1, NoneAssumption
  <2> QED BY <1>1, <2>1 DEF LocalUe, Ends
<1>10. OthersKept(s, t, b, addr, asked, asked, known, known2)
  <2>1. ASSUME NEW d \in Blocks \ {b}, Live(s, d)
        PROVE  /\ s.ue[d].s11 \in t.s11Map <=> s.ue[d].s11 \in s.s11Map
               /\ s.ue[d].s5 \in s.s5Map => s.ue[d].s5 \in t.s5Map
    BY <1>1, <1>2, <2>1, FreshTunnel
  <2>2. \A d \in Blocks \ {b} : Live(s, d) /\ s.ue[d].pgw =>
          s.ue[d].addr # addr /\ ~ InList(s.ue[d].addr, t.pool)
    BY <1>1, <1>3, <1>4
  <2>3. {f \in t.flows : f.in \notin Mine(b, addr)} = {f \in s.flows : f.in \notin Mine(b, addr)}
    BY <1>1 DEF ToPdn, Mine
  <2>4. \A q \in s.sent : t.tun[q.chunk] = s.tun[q.chunk]
    BY <1>1, <1>8
  <2> QED BY <1>1, <1>8, <2>1, <2>2, <2>3, <2>4 DEF OthersKept
<1>11. OwnFlows(t, b, addr)
  <2>1. \A f \in t.flows : f.in \in Mine(b, addr) => f \in ToPdn(SgwUplinkAt(b, 5), PgwUplinkAt(b, 5))
    BY <1>1, <1>6
  <2>2. SgwUplinkAt(b, 5) # PgwUplinkAt(b, 5)
    BY DEF SgwUplinkAt, PgwUplinkAt
  <2>3. \A f \in ToPdn(SgwUplinkAt(b, 5), PgwUplinkAt(b, 5)) :
          f.in \in {SgwUplinkAt(b, 5), PgwUplinkAt(b, 5)} /\ f.out = "ip"
    BY DEF ToPdn
  <2>4. \A h \in Ends(t.ue[b]) : h \in Mine(b, addr) /\ \E f \in t.flows : f.in = h
    <3>1. /\ [in |-> SgwUplinkAt(b, 5), out |-> "ip"] \in t.flows
          /\ [in |-> PgwUplinkAt(b, 5), out |-> "ip"] \in t.flows
      BY <1>1 DEF ToPdn
    <3>2. \E f \in t.flows : f.in = SgwUplinkAt(b, 5)
      BY <3>1
    <3>3. \E f \in t.flows : f.in = PgwUplinkAt(b, 5)
      BY <3>1
    <3> QED BY <1>9, <3>2, <3>3 DEF Mine
  <2>5. \A f, g \in ToPdn(SgwUplinkAt(b, 5), PgwUplinkAt(b, 5)) : f.in = g.in => f = g
    BY <2>2 DEF ToPdn
  <2>6. \A f, g \in t.flows : f.in \in Mine(b, addr) /\ f.in = g.in => f = g
    BY <2>1, <2>5
  <2>7. \A f \in t.flows : f.in \in Mine(b, addr) => f.in \in Ends(t.ue[b])
    BY <1>9, <2>1, <2>3
  <2> QED BY <1>5, <2>4, <2>6, <2>7 DEF OwnFlows
<1>12. OwnRegistry(t, b)
  <2>1. t.ue[b].imsi = r.imsi /\ t.ue[b].addr = addr
    BY <1>1 DEF LocalUe
  <2>2. s.sgwRbt \subseteq Blocks /\ s.pgwRbt \subseteq Blocks
    BY DEF Program
  <2>3. \A d \in t.sgwRbt \ {b} : t.ue[d].imsi # r.imsi
    <3>1. n.sgwRbt = s.sgwRbt /\ \A d \in Blocks \ {b} : n.ue[d] = s.ue[d]
      BY DEF NewBlock, SameRegistry
    <3> QED BY <1>1, <2>2, <3>1
  <2>4. \A d \in t.pgwRbt \ {b} : t.ue[d].addr # addr
    <3>1. \A d \in s.pgwRbt : Live(s, d) /\ s.ue[d].pgw
      BY <2>2 DEF Sound, RegistryOK
    <3> QED BY <1>1, <1>4, <2>2, <3>1
  <2> QED BY <1>1, <1>3, <2>1, <2>3, <2>4 DEF OwnRegistry
<1>13. OwnSent(t, b, asked)
  BY <1>1, <1>7, <1>8 DEF OwnSent
<1>14. SessionOK(t, b)
  <2>1. r.imsi \in Imsis
    BY DEF CreateRequest
  <2>2. ~ InList(addr, t.pool)
    BY <1>1, <1>3
  <2> QED BY <1>1, <1>3, <2>1, <2>2 DEF LocalUe, SessionOK, SaeStates, States, HasFlows
<1>15. KnownUe(t, asked, known2, b)
  <2>1. known2[b].imsi = r.imsi /\ known2[b].enb = None
    OBVIOUS
  <2> QED BY <1>1, <1>5, <2>1 DEF KnownUe, LocalUe
<1>16. AnsweredOK(t, asked, e)
  BY <1>1, <1>2 DEF AnsweredOK
<1> QED BY <1>1, <1>5, <1>10, <1>11, <1>12, <1>13, <1>14, <1>15, <1>16, OrderlyStep

\* Another PGW is asked.
LEMMA OrderlyRemote ==
  ASSUME NEW s \in Program, Sound(s), NEW asked, NEW known, NEW e, Orderly(s, asked, known, e),
         NEW n, NEW b, NewBlock(s, n, b), NEW t \in Program, NEW x \in Trxns, NEW c,
         NEW r \in CreateRequest, r.flaw = "none", r.ebi = 5,
         \A d \in n.sgwRbt : n.ue[d].imsi # r.imsi, RemoteCreate(n, t, x, b, r, c),
         asked[x] = None, NEW asked2, asked2[x] = r, \A y \in Trxns : y # x => asked2[y] = asked[y]
  PROVE  Orderly(t, asked2, known, e)
<1> DEFINE new == [kind |-> "create", chunk |-> c, trxn |-> x]
<1>1. /\ b \in Blocks /\ ~ Live(s, b) /\ Live(t, b)
      /\ \A d \in Blocks \ {b} : t.mem[d] = s.mem[d] /\ t.ue[d] = s.ue[d]
      /\ c \in Chunks /\ c \notin s.s11Map \cup s.s5Map
      /\ t.tun[c] = b /\ \A d \in Chunks \ {c} : t.tun[d] = s.tun[d]
      /\ t.s11Map = s.s11Map /\ t.s5Map = s.s5Map \cup {c} /\ t.sent = s.sent \cup {new}
      /\ t.sgwRbt = s.sgwRbt \cup {b} /\ t.pgwRbt = s.pgwRbt /\ t.pool = s.pool
      /\ t.flows = s.flows /\ RemoteUe(t.ue[b], r, c)
  BY DEF NewBlock, RemoteCreate, SameRegistry, SameTunnels, SameMemory, Live
<1>2. /\ ServesOK(s, asked) /\ DistinctOK(s) /\ KnownUe(s, asked, known, b)
      /\ AnsweredOK(s, asked, e) /\ TunnelsOK(s)
  BY <1>1 DEF Orderly, KnownOK, Sound
<1>3. /\ new.kind = "create" /\ new.chunk = c /\ new.trxn = x
  OBVIOUS
<1> HIDE DEF new
<1>4. \A d \in Blocks \ {b} : Live(s, d) /\ s.ue[d].pgw =>
        s.ue[d].addr # None /\ ~ InList(s.ue[d].addr, s.pool)
  BY <1>1, OtherAddress
<1>5. ~ HasFlows(s, b) /\ ~ HasFlows(t, b)
  BY <1>1 DEF HasFlows, RemoteUe, SaeStates
<1>6. \A f \in s.flows : f.in \notin Mine(b, None)
  BY <1>1, <1>4, <1>5, NoFlows
<1>7. /\ b \notin s.sgwRbt /\ b \notin s.pgwRbt
      /\ \A d \in s.s11Map \cup s.s5Map : s.tun[d] # b
  BY <1>1, Unused
<1>8. \A q \in s.sent : s.tun[q.chunk] \in Blocks /\ q.chunk \in s.s5Map /\ q.chunk \in Chunks
                        /\ q.trxn \in Trxns /\ q.trxn # x
  <2>1. \A q \in s.sent : asked[q.trxn] # None
    BY <1>2 DEF ServesOK, Serves
  <2> QED BY <1>2, <2>1, SentTo
<1>9. \A d : Leaving(asked2, d) <=> Leaving(asked, d)
  <2>1. r.kind = "create"
    BY DEF CreateRequest
  <2> QED BY <2>1, LeavingSame
<1>10. OthersKept(s, t, b, None, asked, asked2, known, known)
  <2>1. ASSUME NEW d \in Blocks \ {b}, Live(s, d)
        PROVE  /\ s.ue[d].s11 \in t.s11Map <=> s.ue[d].s11 \in s.s11Map
               /\ s.ue[d].s5 \in s.s5Map => s.ue[d].s5 \in t.s5Map
    BY <1>1
  <2>2. ASSUME NEW q \in t.sent, t.tun[q.chunk] # b
        PROVE  /\ q \in s.sent /\ s.tun[q.chunk] \in Blocks /\ t.tun[q.chunk] = s.tun[q.chunk]
               /\ q.chunk \in t.s5Map /\ asked2[q.trxn] = asked[q.trxn]
    BY <1>1, <1>3, <1>8, <2>2
  <2> QED BY <1>1, <1>4, <1>9, <2>1, <2>2 DEF OthersKept
<1>11. OwnFlows(t, b, None)
  BY <1>1, <1>5, <1>6 DEF OwnFlows
<1>12. OwnRegistry(t, b)
  <2>1. t.ue[b].imsi = r.imsi
    BY <1>1 DEF RemoteUe
  <2>2. s.sgwRbt \subseteq Blocks
    BY DEF Program
  <2>3. \A d \in t.sgwRbt \ {b} : t.ue[d].imsi # r.imsi
    <3>1. n.sgwRbt = s.sgwRbt /\ \A d \in Blocks \ {b} : n.ue[d] = s.ue[d]
      BY DEF NewBlock, SameRegistry
    <3> QED BY <1>1, <2>2, <3>1
  <2> QED BY <1>1, <1>2, <1>7, <2>1, <2>3 DEF OwnRegistry, DistinctOK
<1>13. OwnSent(t, b, asked2)
  <2>1. \A q \in s.sent : t.tun[q.chunk] # b /\ q.chunk # c
    BY <1>1, <1>7, <1>8
  <2>2. Serves(t, new, r)
    <3>1. r.kind = "create" /\ r # None
      BY NoneAssumption DEF CreateRequest
    <3> QED BY <1>1, <1>3, <3>1 DEF Serves, RemoteUe
  <2> QED BY <1>1, <1>3, <1>8, <2>1, <2>2 DEF OwnSent
<1>14. SessionOK(t, b)
  <2>1. r.imsi \in Imsis
    BY DEF CreateRequest
  <2>2. b \in Blocks /\ t.ue[b].s5 \in t.s5Map
    BY <1>1 DEF RemoteUe
  <2> QED BY <1>1, <1>5, <2>1, <2>2 DEF RemoteUe, SessionOK, SaeStates, States
<1>15. KnownUe(t, asked2, known, b)
  BY <1>1, <1>2, <1>5, <1>9 DEF KnownUe, RemoteUe, HasFlows
<1>16. AnsweredOK(t, asked2, e)
  BY <1>1, <1>2, <1>3 DEF AnsweredOK
<1> QED BY <1>1, <1>5, <1>10, <1>11, <1>12, <1>13, <1>14, <1>15, <1>16, OrderlyStep

-----------------------------------------------------------------------------
(* While the MME behaves: Modify Bearer and Delete Session Request *)

StateModified(u) == IF u.pgw THEN "SAE_ESTABLISHED" ELSE "SGW_ESTABLISHED"

\* Traffic to the UE follows the request.
LEMMA OrderlyModified ==
  ASSUME NEW s \in Program, Sound(s), NEW asked, NEW known, NEW e, Orderly(s, asked, known, e),
         NEW b \in Blocks, HasFlows(s, b), NEW t, NEW x, NEW in, NEW enb, NEW state,
         in = DownlinkAt(s.ue[b], b, 5), s.ue[b].down \in {None, in},
         Modified(s, t, x, b, in, enb, state),
         state = StateModified(s.ue[b]),
         ~ Leaving(asked, b), NEW known2, known[b] # None,
         known2[b].imsi = known[b].imsi, known2[b].enb = enb,
         \A d \in Blocks \ {b} : known2[d] = known[d]
  PROVE  Orderly(t, asked, known2, e)
<1> DEFINE addr == AddressOf(s.ue[b])
           new == [in |-> in, out |-> enb]
           u == s.ue[b]
           w == t.ue[b]
<1>1. /\ FlowsReady(s, b) /\ Ends(s.ue[b]) \subseteq Mine(b, addr)
      /\ \A f \in s.flows : f.in \in Mine(b, addr) <=> f.in \in Ends(s.ue[b])
      /\ \A d \in Blocks \ {b} : Live(s, d) /\ s.ue[d].pgw =>
           s.ue[d].addr # addr /\ ~ InList(s.ue[d].addr, s.pool)
      /\ \A q \in s.sent : s.tun[q.chunk] # b
  BY OwnEnds
<1>2. /\ Live(s, b) /\ SessionOK(s, b) /\ ServesOK(s, asked) /\ DistinctOK(s)
      /\ KnownUe(s, asked, known, b) /\ AnsweredOK(s, asked, e)
  BY DEF HasFlows, Orderly, KnownOK
<1>3. /\ Plain(s, t, b) /\ t.flows = {f \in s.flows : f.in # in} \cup {new}
      /\ w.imsi = u.imsi /\ w.ebi = u.ebi /\ w.up = u.up /\ w.pup = u.pup
      /\ w.down = in /\ w.state = state
  BY DEF Modified, SameName
<1>4. /\ t \in Program /\ \A c \in Blocks \ {b} : t.ue[c] = s.ue[c]
      /\ w.sgw = u.sgw /\ w.pgw = u.pgw /\ w.s11 = u.s11 /\ w.s5 = u.s5
      /\ w.hPgw = u.hPgw /\ w.addr = u.addr
      /\ t.mem = s.mem /\ t.sgwRbt = s.sgwRbt /\ t.pgwRbt = s.pgwRbt /\ t.pool = s.pool
      /\ t.tun = s.tun /\ t.s11Map = s.s11Map /\ t.s5Map = s.s5Map /\ t.sent = s.sent
  BY <1>3 DEF Plain, SameBases, SameMemory, SameRegistry, SameTunnels
<1>5. new.in = in /\ new.out = enb
  OBVIOUS
<1> HIDE DEF new
<1>6. /\ u.sgw /\ (IsSae(u) <=> u.pgw) /\ u.up = SgwUplinkAt(b, 5)
      /\ u.pup \in {PgwUplinkAt(b, 5), None} /\ u.s11 \in s.s11Map
      /\ u.pgw => u.addr \in LocalPool
  BY <1>2 DEF SessionOK, HasFlows, IsSae, SaeStates
<1>7. /\ in = IF u.pgw THEN UeAt(u.addr) ELSE SgwDownlinkAt(b, 5)
      /\ in \in Mine(b, addr)
  BY <1>6 DEF DownlinkAt, Mine, AddressOf
<1>8. in \in Endpoint /\ in # None
  <2>1. in \in Endpoint
    BY <1>6, <1>7, SgwAssumption DEF Endpoint, UeAt, SgwDownlinkAt
  <2> QED BY <2>1, NoneAssumption
<1>9. u.up # in /\ u.pup # in
  <2>1. SgwUplinkAt(b, 5) # in /\ PgwUplinkAt(b, 5) # in
    BY <1>7 DEF SgwUplinkAt, PgwUplinkAt, SgwDownlinkAt, UeAt
  <2> QED BY <1>6, <1>8, <2>1
<1>10. /\ Ends(w) = (Ends(u) \ {in}) \cup {in}
       /\ HasFlows(t, b)
  <2>1. Ends(w) = (Ends(u) \ {in}) \cup {in}
    BY <1>3, <1>8, <1>9 DEF Ends
  <2> QED BY <1>2, <1>3, <1>4, <1>6, <2>1 DEF HasFlows, SaeStates, Live, StateModified
<1>11. OthersKept(s, t, b, addr, asked, asked, known, known2)
  <2>1. {f \in t.flows : f.in \notin Mine(b, addr)} = {f \in s.flows : f.in \notin Mine(b, addr)}
    BY <1>3, <1>5, <1>7
  <2>2. \A q \in s.sent : s.tun[q.chunk] \in Blocks /\ q.chunk \in s.s5Map
    BY <1>2, SentTo
  <2> HIDE DEF addr
  <2> QED BY <1>1, <1>4, <2>1, <2>2 DEF OthersKept
<1>12. OwnFlows(t, b, addr)
  <2>1. \A f \in t.flows : f = new \/ (f \in s.flows /\ f.in # in)
    BY <1>3
  <2>2. \A f \in t.flows : f.in \in Mine(b, addr) => f.in \in Ends(w)
    BY <1>1, <1>5, <1>10, <2>1
  <2>3. ASSUME NEW h \in Ends(w) PROVE h \in Mine(b, addr) /\ \E f \in t.flows : f.in = h
    <3>1. CASE h = in
      BY <1>3, <1>5, <1>7, <3>1
    <3>2. CASE h # in
      <4>1. h \in Ends(u)
        BY <1>10, <3>2
      <4>2. PICK f \in s.flows : f.in = h
        BY <1>1, <4>1 DEF FlowsReady
      <4> QED BY <1>1, <1>3, <3>2, <4>1, <4>2
    <3> QED BY <3>1, <3>2
  <2>4. ASSUME NEW f \in t.flows, NEW g \in t.flows, f.in = g.in PROVE f = g
    <3>1. \A m, n \in s.flows : m.in = n.in => m = n
      BY DEF Orderly, FlowsOK
    <3> QED BY <1>5, <2>1, <2>4, <3>1
  <2> HIDE DEF addr, w
  <2> QED BY <1>10, <2>2, <2>3, <2>4 DEF OwnFlows, w
<1>13. OwnRegistry(t, b)
  <2>1. s.sgwRbt \subseteq Blocks /\ s.pgwRbt \subseteq Blocks
    BY DEF Program
  <2> QED BY <1>2, <1>3, <1>4, <2>1 DEF OwnRegistry, DistinctOK
<1>14. OwnSent(t, b, asked)
  BY <1>1, <1>4 DEF OwnSent
<1>15. SessionOK(t, b)
  <2>1. u.imsi \in Imsis /\ u.ebi = 5 /\ (u.hPgw <=> u.pgw)
    BY <1>2 DEF SessionOK
  <2>2. IF u.pgw THEN u.s5 = None /\ u.addr \in LocalPool /\ ~ InList(u.addr, s.pool)
        ELSE u.s5 \in s.s5Map
    BY <1>2 DEF SessionOK
  <2>3. u.pup = IF u.pgw THEN PgwUplinkAt(b, 5) ELSE None
    BY <1>2 DEF SessionOK
  <2>4. state \in {"SAE_ESTABLISHED", "SGW_ESTABLISHED"} /\ (state = "SAE_ESTABLISHED" <=> u.pgw)
    BY DEF StateModified
  <2> HIDE DEF u, w
  <2> QED BY <1>3, <1>4, <1>6, <1>7, <1>10, <2>1, <2>2, <2>3, <2>4
          DEF SessionOK, SaeStates, States, w
<1>16. KnownUe(t, asked, known2, b)
  <2>1. u.imsi = known[b].imsi
    BY <1>2 DEF KnownUe
  <2>2. \E f \in t.flows : f.in = w.down /\ f.out = known2[b].enb
    BY <1>3, <1>5
  <2>3. state \in Established /\ state # "WT_DELETE"
    BY DEF Established, StateModified
  <2> QED BY <1>3, <1>10, <2>1, <2>2, <2>3 DEF KnownUe
<1>17. AnsweredOK(t, asked, e)
  BY <1>2, <1>4 DEF AnsweredOK
<1> HIDE DEF addr
<1> QED BY <1>1, <1>4, <1>11, <1>12, <1>13, <1>14, <1>15, <1>16, <1>17, OrderlyStep

\* The session with the collocated PGW is over, and the UE is no more.
LEMMA OrderlySaeGone ==
  ASSUME NEW s \in Program, Sound(s), NEW asked, NEW known, NEW e, Orderly(s, asked, known, e),
         NEW b \in Blocks, HasFlows(s, b), s.ue[b].pgw, NEW v, NEW x, SaeReleased(s, v, x, b),
         NEW t \in Program, Removed(v, t, b), NEW known2, known2[b] = None,
         \A d \in Blocks \ {b} : known2[d] = known[d]
  PROVE  Orderly(t, asked, known2, e)
<1> DEFINE addr == AddressOf(s.ue[b])
<1>1. /\ FlowsReady(s, b) /\ Ends(s.ue[b]) \subseteq Mine(b, addr)
      /\ \A f \in s.flows : f.in \in Mine(b, addr) <=> f.in \in Ends(s.ue[b])
      /\ \A d \in Blocks \ {b} : Live(s, d) /\ s.ue[d].pgw =>
           s.ue[d].addr # addr /\ ~ InList(s.ue[d].addr, s.pool)
      /\ \A q \in s.sent : s.tun[q.chunk] # b
  BY OwnEnds
<1>2. /\ Live(s, b) /\ SessionOK(s, b) /\ ServesOK(s, asked) /\ DistinctOK(s)
      /\ AnsweredOK(s, asked, e) /\ TunnelsOK(s)
  BY DEF HasFlows, Orderly, Sound
<1>3. /\ ~ Live(t, b) /\ \A d \in Blocks \ {b} : t.mem[d] = s.mem[d] /\ t.ue[d] = s.ue[d]
      /\ t.sgwRbt = s.sgwRbt \ {b} /\ t.pgwRbt = s.pgwRbt \ {b}
      /\ t.pool = <<s.ue[b].addr>> \o s.pool
      /\ t.s11Map = s.s11Map \ {s.ue[b].s11} /\ t.s5Map = s.s5Map \ {s.ue[b].s5}
      /\ \A q \in s.sent : t.tun[q.chunk] = s.tun[q.chunk]
      /\ t.sent = s.sent /\ t.flows = FlowsBut(s, b)
  BY DEF SaeReleased, Removed, SameMemory, SameTunnels
<1>4. addr = s.ue[b].addr /\ addr \in LocalPool /\ ~ InList(addr, s.pool)
  BY <1>2 DEF AddressOf, SessionOK
<1> HIDE DEF addr
<1>5. /\ IsInjective(t.pool)
      /\ \A y : InList(y, t.pool) <=> InList(y, s.pool) \/ y = addr
  <2>1. s.pool \in Seq(LocalPool) /\ IsInjective(s.pool)
    BY <1>2 DEF Program, DistinctOK
  <2> QED BY <1>3, <1>4, <2>1, PushList
<1>6. \A f \in t.flows : f \in s.flows /\ f.in \notin Mine(b, addr)
  BY <1>1, <1>3 DEF FlowsBut
<1>7. ~ HasFlows(t, b)
  BY <1>3 DEF HasFlows
<1>8. OthersKept(s, t, b, addr, asked, asked, known, known2)
  <2>1. ASSUME NEW d \in Blocks \ {b}, Live(s, d)
        PROVE  /\ s.ue[d].s11 \in t.s11Map <=> s.ue[d].s11 \in s.s11Map
               /\ s.ue[d].s5 \in s.s5Map => s.ue[d].s5 \in t.s5Map
    BY <1>2, <1>3, <2>1, OtherTunnels
  <2>2. {f \in t.flows : f.in \notin Mine(b, addr)} = {f \in s.flows : f.in \notin Mine(b, addr)}
    BY <1>1, <1>3 DEF FlowsBut
  <2>3. \A q \in s.sent : /\ s.tun[q.chunk] \in Blocks /\ q.chunk \in s.s5Map
                          /\ q.chunk # s.ue[b].s5
    <3>1. ASSUME NEW q \in s.sent
          PROVE  s.tun[q.chunk] \in Blocks /\ q.chunk \in s.s5Map /\ q.chunk # s.ue[b].s5
      <4>1. s.tun[q.chunk] \in Blocks /\ q.chunk \in s.s5Map /\ s.tun[q.chunk] # b
        BY <1>1, <1>2, SentTo
      <4> QED BY <1>2, <4>1 DEF TunnelsOK
    <3> QED BY <3>1
  <2>4. \A d \in Blocks \ {b} : Live(s, d) /\ s.ue[d].pgw =>
          s.ue[d].addr # addr /\ ~ InList(s.ue[d].addr, t.pool)
    BY <1>1, <1>5
  <2>5. \A d \in Blocks \ {b} : Live(s, d) =>
            /\ s.ue[d].s11 \in t.s11Map <=> s.ue[d].s11 \in s.s11Map
            /\ s.ue[d].s5 \in s.s5Map => s.ue[d].s5 \in t.s5Map
    BY <2>1
  <2>6. \A q \in t.sent :
          /\ q \in s.sent /\ s.tun[q.chunk] \in Blocks /\ t.tun[q.chunk] = s.tun[q.chunk]
          /\ q.chunk \in t.s5Map
    BY <1>3, <2>3
  <2>7. \A d \in Blocks \ {b} : t.ue[d] = s.ue[d] /\ t.mem[d] = s.mem[d] /\ known2[d] = known[d]
    BY <1>3
  <2>8. t.sgwRbt \ {b} = s.sgwRbt \ {b} /\ t.pgwRbt \ {b} = s.pgwRbt \ {b}
    BY <1>3
  <2> QED BY <2>2, <2>4, <2>5, <2>6, <2>7, <2>8 DEF OthersKept
<1>9. OwnFlows(t, b, addr)
  BY <1>6, <1>7 DEF OwnFlows
<1>10. OwnRegistry(t, b)
  BY <1>3, <1>5 DEF OwnRegistry
<1>11. OwnSent(t, b, asked)
  BY <1>1, <1>3 DEF OwnSent
<1>12. KnownUe(t, asked, known2, b)
  BY <1>3 DEF KnownUe
<1>13. AnsweredOK(t, asked, e)
  BY <1>2, <1>3 DEF AnsweredOK
<1> QED BY <1>1, <1>3, <1>8, <1>9, <1>10, <1>11, <1>12, <1>13, OrderlyStep

\* What the session of b and its flows are to others, when they lose them.
LEMMA OthersReleased ==
  ASSUME NEW s \in Program, Sound(s), NEW asked, NEW known, NEW e, Orderly(s, asked, known, e),
         NEW b \in Blocks, HasFlows(s, b), ~ s.ue[b].pgw, NEW t, NEW asked2, NEW known2,
         \A d \in Blocks \ {b} : t.ue[d] = s.ue[d] /\ known2[d] = known[d],
         SameMemory(s, t), SameTunnels(s, t),
         t.sgwRbt \ {b} = s.sgwRbt \ {b}, t.pgwRbt = s.pgwRbt, t.pool = s.pool,
         t.flows = FlowsBut(s, b),
         \A d \in Blocks \ {b} : Leaving(asked2, d) <=> Leaving(asked, d),
         \A q \in t.sent : s.tun[q.chunk] # b => q \in s.sent /\ asked2[q.trxn] = asked[q.trxn]
  PROVE  /\ OthersKept(s, t, b, None, asked, asked2, known, known2)
         /\ Ends(s.ue[b]) \subseteq Mine(b, None)
         /\ \A f \in t.flows : f.in \notin Mine(b, None)
         /\ \A q \in s.sent : s.tun[q.chunk] # b
<1> DEFINE addr == AddressOf(s.ue[b])
<1>1. /\ FlowsReady(s, b) /\ Ends(s.ue[b]) \subseteq Mine(b, addr)
      /\ \A f \in s.flows : f.in \in Mine(b, addr) <=> f.in \in Ends(s.ue[b])
      /\ \A d \in Blocks \ {b} : Live(s, d) /\ s.ue[d].pgw =>
           s.ue[d].addr # addr /\ ~ InList(s.ue[d].addr, s.pool)
      /\ \A q \in s.sent : s.tun[q.chunk] # b
  BY OwnEnds
<1>2. addr = None
  BY DEF AddressOf
<1>3. ServesOK(s, asked)
  BY DEF Orderly
<1>4. \A q \in s.sent : s.tun[q.chunk] \in Blocks /\ q.chunk \in s.s5Map
  BY <1>3, SentTo
<1> HIDE DEF addr
<1>5. {f \in t.flows : f.in \notin Mine(b, None)} = {f \in s.flows : f.in \notin Mine(b, None)}
  BY <1>1, <1>2 DEF FlowsBut
<1>6. \A f \in t.flows : f.in \notin Mine(b, None)
  BY <1>1, <1>2 DEF FlowsBut
<1>7. /\ t.mem = s.mem /\ t.tun = s.tun /\ t.s11Map = s.s11Map /\ t.s5Map = s.s5Map
  BY DEF SameMemory, SameTunnels
<1>8. \A d \in Blocks \ {b} : Live(s, d) =>
            /\ s.ue[d].s11 \in t.s11Map <=> s.ue[d].s11 \in s.s11Map
            /\ s.ue[d].s5 \in s.s5Map => s.ue[d].s5 \in t.s5Map
            /\ s.ue[d].pgw => s.ue[d].addr # None /\ ~ InList(s.ue[d].addr, t.pool)
  BY <1>1, <1>2, <1>7
<1>9. \A q \in t.sent : t.tun[q.chunk] # b =>
       /\ q \in s.sent /\ s.tun[q.chunk] \in Blocks /\ t.tun[q.chunk] = s.tun[q.chunk]
       /\ q.chunk \in t.s5Map /\ asked2[q.trxn] = asked[q.trxn]
  BY <1>4, <1>7
<1>10. OthersKept(s, t, b, None, asked, asked2, known, known2)
  BY <1>5, <1>7, <1>8, <1>9 DEF OthersKept
<1> QED BY <1>1, <1>2, <1>6, <1>10

\* A session without the collocated PGW.
LEMMA SgwOnly ==
  ASSUME NEW s \in Program, NEW b \in Blocks, SessionOK(s, b), HasFlows(s, b), ~ s.ue[b].pgw
  PROVE  /\ s.ue[b].imsi \in Imsis /\ s.ue[b].ebi = 5 /\ s.ue[b].sgw /\ ~ s.ue[b].hPgw
         /\ s.ue[b].s11 \in s.s11Map /\ s.ue[b].s5 \in s.s5Map /\ s.ue[b].pup = None
         /\ s.ue[b].state \in {"SGW_CREATED", "SGW_ESTABLISHED"} /\ Live(s, b)
  BY DEF SessionOK, HasFlows, SaeStates

\* The PGW is asked to delete the session.
LEMMA OrderlyReleasing ==
  ASSUME NEW s \in Program, Sound(s), NEW asked, NEW known, NEW e, Orderly(s, asked, known, e),
         NEW b \in Blocks, HasFlows(s, b), ~ s.ue[b].pgw, NEW t \in Program, NEW x \in Trxns,
         SgwReleasing(s, t, x, b), NEW r \in DeleteRequest, r.teid = b,
         asked[x] = None, NEW asked2, asked2[x] = r, \A y \in Trxns : y # x => asked2[y] = asked[y]
  PROVE  Orderly(t, asked2, known, e)
<1> DEFINE new == [kind |-> "delete", chunk |-> s.ue[b].s5, trxn |-> x]
           u == s.ue[b]
           w == t.ue[b]
<1>1. /\ Live(s, b) /\ SessionOK(s, b) /\ ServesOK(s, asked) /\ DistinctOK(s)
      /\ AnsweredOK(s, asked, e) /\ TunnelsOK(s)
  BY DEF HasFlows, Orderly, Sound
<1>2. /\ u.imsi \in Imsis /\ u.ebi = 5 /\ u.sgw /\ ~ u.hPgw
      /\ u.s11 \in s.s11Map /\ u.s5 \in s.s5Map /\ u.pup = None
      /\ u.state \in {"SGW_CREATED", "SGW_ESTABLISHED"}
  BY <1>1, SgwOnly
<1>3. /\ w = [u EXCEPT !.state = "WT_DELETE"] /\ \A d \in Blocks \ {b} : t.ue[d] = s.ue[d]
      /\ SameMemory(s, t) /\ SameRegistry(s, t) /\ SameTunnels(s, t)
      /\ t.flows = FlowsBut(s, b) /\ t.sent = s.sent \cup {new}
  BY DEF SgwReleasing
<1>4. /\ new.kind = "delete" /\ new.chunk = u.s5 /\ new.trxn = x
  OBVIOUS
<1> HIDE DEF new
<1>5. /\ w.state = "WT_DELETE" /\ w.imsi = u.imsi /\ w.ebi = u.ebi /\ w.sgw = u.sgw
      /\ w.pgw = u.pgw /\ w.hPgw = u.hPgw /\ w.s11 = u.s11 /\ w.s5 = u.s5 /\ w.pup = u.pup
  <2>1. u \in UeRecord
    BY DEF Program
  <2> QED BY <1>3, <2>1 DEF UeRecord
<1>6. /\ t.mem = s.mem /\ t.tun = s.tun /\ t.s11Map = s.s11Map /\ t.s5Map = s.s5Map
      /\ t.sgwRbt = s.sgwRbt /\ t.pgwRbt = s.pgwRbt /\ t.pool = s.pool
  BY <1>3 DEF SameMemory, SameTunnels, SameRegistry
<1>7. s.tun[u.s5] = b
  BY <1>1, <1>2 DEF TunnelsOK
<1>8. r.kind = "delete" /\ r # None
  <2>1. None \notin SessionRequest /\ r \in SessionRequest
    BY NoneAssumption DEF SessionRequest
  <2> QED BY <2>1 DEF DeleteRequest
<1>9. \A q \in s.sent : asked[q.trxn] # None /\ q.trxn # x /\ q.trxn \in Trxns
  <2>1. \A q \in s.sent : asked[q.trxn] # None
    BY <1>1 DEF ServesOK, Serves
  <2> QED BY <1>1, <2>1, SentTo
<1>10. \A d \in Blocks \ {b} : Leaving(asked2, d) <=> Leaving(asked, d)
  BY LeavingSame
<1>11. /\ OthersKept(s, t, b, None, asked, asked2, known, known)
       /\ Ends(s.ue[b]) \subseteq Mine(b, None)
       /\ \A f \in t.flows : f.in \notin Mine(b, None)
       /\ \A q \in s.sent : s.tun[q.chunk] # b
  <2>1. \A q \in t.sent : s.tun[q.chunk] # b => q \in s.sent /\ asked2[q.trxn] = asked[q.trxn]
    BY <1>3, <1>4, <1>7, <1>9
  <2> DEFINE known2 == known
  <2>2. \A d \in Blocks \ {b} : t.ue[d] = s.ue[d] /\ known2[d] = known[d]
    BY <1>3
  <2>3. t.sgwRbt \ {b} = s.sgwRbt \ {b} /\ t.pgwRbt = s.pgwRbt /\ t.pool = s.pool
    BY <1>6
  <2>4. SameMemory(s, t) /\ SameTunnels(s, t) /\ t.flows = FlowsBut(s, b)
    BY <1>3
  <2> HIDE DEF u, w, known2
  <2>5. /\ OthersKept(s, t, b, None, asked, asked2, known, known2)
        /\ Ends(s.ue[b]) \subseteq Mine(b, None)
        /\ \A f \in t.flows : f.in \notin Mine(b, None)
        /\ \A q \in s.sent : s.tun[q.chunk] # b
    BY SMTT(60), <1>10, <2>1, <2>2, <2>3, <2>4, OthersReleased
  <2> QED BY <2>5 DEF known2
<1>12. ~ HasFlows(t, b)
  BY <1>5 DEF HasFlows, SaeStates
<1>13. OwnFlows(t, b, None)
  BY <1>11, <1>12 DEF OwnFlows
<1>14. OwnRegistry(t, b)
  <2>1. s.sgwRbt \subseteq Blocks /\ s.pgwRbt \subseteq Blocks
    BY DEF Program
  <2>2. b \notin s.pgwRbt
    BY DEF Sound, RegistryOK
  <2> QED BY <1>1, <1>3, <1>5, <1>6, <2>1, <2>2 DEF OwnRegistry, DistinctOK
<1>15. OwnSent(t, b, asked2)
  <2>1. \A q \in s.sent : q.chunk # u.s5
    BY <1>7, <1>11
  <2>2. Serves(t, new, r)
    BY <1>2, <1>4, <1>5, <1>6, <1>7, <1>8 DEF Serves
  <2> HIDE DEF u, w
  <2> QED BY <1>3, <1>4, <1>6, <1>9, <1>11, <2>1, <2>2 DEF OwnSent
<1>16. SessionOK(t, b)
  <2> HIDE DEF u
  <2> QED BY <1>2, <1>5, <1>6, <1>12 DEF SessionOK, SaeStates, States, u
<1>17. KnownUe(t, asked2, known, b)
  <2>1. Leaving(asked2, b)
    BY <1>8 DEF Leaving
  <2> QED BY <2>1 DEF KnownUe
<1>18. AnsweredOK(t, asked2, e)
  BY <1>1, <1>3, <1>4 DEF AnsweredOK
<1> QED BY <1>11, <1>13, <1>14, <1>15, <1>16, <1>17, <1>18, OrderlyStep

\* The session of the SGW is over.
LEMMA OrderlyLeft ==
  ASSUME NEW s \in Program, Sound(s), NEW asked, NEW known, NEW e, Orderly(s, asked, known, e),
         NEW b \in Blocks, HasFlows(s, b), ~ s.ue[b].pgw, NEW t \in Program, NEW x,
         SgwLeft(s, t, x, b), NEW known2, known2[b] = None,
         \A d \in Blocks \ {b} : known2[d] = known[d]
  PROVE  Orderly(t, asked, known2, e)
<1> DEFINE u == s.ue[b]
           w == t.ue[b]
<1>1. /\ Live(s, b) /\ SessionOK(s, b) /\ ServesOK(s, asked) /\ DistinctOK(s)
      /\ AnsweredOK(s, asked, e)
  BY DEF HasFlows, Orderly
<1>2. /\ u.imsi \in Imsis /\ u.ebi = 5 /\ u.sgw /\ ~ u.hPgw
      /\ u.s11 \in s.s11Map /\ u.s5 \in s.s5Map /\ u.pup = None
  BY <1>1, SgwOnly
<1>3. /\ w.imsi = u.imsi /\ w.ebi = u.ebi /\ w.pup = u.pup
      /\ w.state = "PGW_CREATED" /\ ~ w.sgw /\ w.pgw = u.pgw /\ w.hPgw = u.hPgw
      /\ w.s11 = u.s11 /\ w.s5 = u.s5
      /\ \A d \in Blocks \ {b} : t.ue[d] = s.ue[d]
      /\ SameMemory(s, t) /\ SameTunnels(s, t) /\ t.sent = s.sent
      /\ t.sgwRbt = s.sgwRbt \ {b} /\ t.pgwRbt = s.pgwRbt /\ t.pool = s.pool
      /\ t.flows = FlowsBut(s, b)
  BY DEF SgwLeft, SameName
<1>4. t.mem = s.mem /\ t.tun = s.tun /\ t.s11Map = s.s11Map /\ t.s5Map = s.s5Map
  BY <1>3 DEF SameMemory, SameTunnels
<1>5. /\ OthersKept(s, t, b, None, asked, asked, known, known2)
      /\ Ends(s.ue[b]) \subseteq Mine(b, None)
      /\ \A f \in t.flows : f.in \notin Mine(b, None)
      /\ \A q \in s.sent : s.tun[q.chunk] # b
  <2>1. \A d \in Blocks \ {b} : t.ue[d] = s.ue[d] /\ known2[d] = known[d]
    BY <1>3
  <2>2. t.sgwRbt \ {b} = s.sgwRbt \ {b}
    BY <1>3
  <2>3. /\ SameMemory(s, t) /\ SameTunnels(s, t) /\ t.sent = s.sent
        /\ t.pgwRbt = s.pgwRbt /\ t.pool = s.pool /\ t.flows = FlowsBut(s, b)
    BY <1>3
  <2>4. \A q \in t.sent : q \in s.sent
    BY <2>3
  <2> HIDE DEF u, w
  <2> QED BY <2>1, <2>2, <2>3, <2>4, OthersReleased
<1>6. ~ HasFlows(t, b)
  BY <1>3 DEF HasFlows, SaeStates
<1>7. OwnFlows(t, b, None)
  BY <1>5, <1>6 DEF OwnFlows
<1>8. OwnRegistry(t, b)
  <2>1. b \notin s.pgwRbt
    BY DEF Sound, RegistryOK
  <2> QED BY <1>1, <1>3, <2>1 DEF OwnRegistry, DistinctOK
<1>9. OwnSent(t, b, asked)
  BY <1>3, <1>4, <1>5 DEF OwnSent
<1>10. SessionOK(t, b)
  <2> HIDE DEF u
  <2> QED BY <1>2, <1>3, <1>4, <1>6 DEF SessionOK, SaeStates, States, u
<1>11. KnownUe(t, asked, known2, b)
  BY <1>3 DEF KnownUe
<1>12. AnsweredOK(t, asked, e)
  BY <1>1, <1>3 DEF AnsweredOK
<1> QED BY <1>5, <1>7, <1>8, <1>9, <1>10, <1>11, <1>12, OrderlyStep

-----------------------------------------------------------------------------
(* While the MME behaves: a PGW answers, or is silent *)

\* The request q to a PGW is no more, nor is the request of the MME it serves.
Answered(s, v, q, asked, asked2) ==
  /\ SameMemory(s, v) /\ SameRegistry(s, v) /\ SameTunnels(s, v)
  /\ v.sent = s.sent \ {q} /\ v.ue = s.ue /\ v.flows = s.flows
  /\ \A y \in Trxns : y # q.trxn => asked2[y] = asked[y]

LEMMA AnsweredRequest ==
  ASSUME NEW s \in Program, Sound(s), NEW asked, NEW known, NEW e, Orderly(s, asked, known, e),
         NEW q \in s.sent, NEW v, NEW asked2, Answered(s, v, q, asked, asked2),
         NEW b, b = s.tun[q.chunk]
  PROVE  /\ b \in Blocks /\ Live(s, b) /\ SessionOK(s, b) /\ ~ HasFlows(s, b)
         /\ s.ue[b].s5 = q.chunk /\ Serves(s, q, asked[q.trxn])
         /\ \A f \in s.flows : f.in \notin Mine(b, None)
         /\ \A d \in Blocks \ {b} : Live(s, d) /\ s.ue[d].pgw =>
              s.ue[d].addr # None /\ ~ InList(s.ue[d].addr, s.pool)
         /\ \A p \in v.sent :
              /\ p \in s.sent /\ s.tun[p.chunk] \in Blocks /\ s.tun[p.chunk] # b
              /\ p.chunk \in s.s5Map /\ p.chunk \in Chunks /\ p.chunk # q.chunk
              /\ asked2[p.trxn] = asked[p.trxn]
         /\ asked2[q.trxn] \in {None, asked[q.trxn]} =>
              \A d \in Blocks \ {b} : Leaving(asked2, d) <=> Leaving(asked, d)
         /\ asked2[q.trxn] = None => AnsweredOK(v, asked2, e)
<1>1. /\ ServesOK(s, asked) /\ AnsweredOK(s, asked, e) /\ TunnelsOK(s)
      /\ \A d \in Blocks : Live(s, d) => SessionOK(s, d)
  BY DEF Orderly, Sound
<1>2. /\ b \in Blocks /\ Live(s, b) /\ s.ue[b].s5 = q.chunk
      /\ s.ue[b].state \in {"WT_CREATE", "WT_DELETE"} /\ q.trxn \in Trxns
  BY <1>1, SentTo
<1>3. Serves(s, q, asked[q.trxn]) /\ SessionOK(s, b)
  BY <1>1, <1>2 DEF ServesOK
<1>4. ~ HasFlows(s, b)
  BY <1>2 DEF HasFlows, SaeStates
<1>5. \A d \in Blocks \ {b} : Live(s, d) /\ s.ue[d].pgw =>
        s.ue[d].addr # None /\ ~ InList(s.ue[d].addr, s.pool)
  BY <1>2, OtherAddress
<1>6. \A f \in s.flows : f.in \notin Mine(b, None)
  BY <1>2, <1>4, <1>5, NoFlows
<1>7. ASSUME NEW p \in v.sent
      PROVE  /\ p \in s.sent /\ s.tun[p.chunk] \in Blocks /\ s.tun[p.chunk] # b
             /\ p.chunk \in s.s5Map /\ p.chunk \in Chunks /\ p.chunk # q.chunk
             /\ asked2[p.trxn] = asked[p.trxn]
  <2>1. p \in s.sent /\ p # q
    BY DEF Answered
  <2>2. p.trxn # q.trxn /\ p.chunk # q.chunk
    BY <1>1, <2>1 DEF ServesOK
  <2>3. LET d == s.tun[p.chunk] IN
        /\ d \in Blocks /\ Live(s, d) /\ s.ue[d].s5 = p.chunk /\ p.chunk \in s.s5Map
        /\ s.ue[d].state \in {"WT_CREATE", "WT_DELETE"}
        /\ p.trxn \in Trxns /\ p.chunk \in Chunks
    BY <1>1, <2>1, SentTo
  <2>4. s.tun[p.chunk] # b
    BY <1>2, <2>2, <2>3
  <2>5. asked2[p.trxn] = asked[p.trxn]
    BY <2>2, <2>3 DEF Answered
  <2> QED BY <2>1, <2>2, <2>3, <2>4, <2>5
<1>8. ASSUME asked2[q.trxn] \in {None, asked[q.trxn]}, NEW d \in Blocks \ {b}
      PROVE  Leaving(asked2, d) <=> Leaving(asked, d)
  <2>1. ~ (asked[q.trxn] # None /\ asked[q.trxn].kind = "delete" /\ asked[q.trxn].teid = d)
    BY <1>3 DEF Serves
  <2>2. ~ (asked2[q.trxn] # None /\ asked2[q.trxn].kind = "delete" /\ asked2[q.trxn].teid = d)
    BY <1>8, <2>1
  <2>3. \A y \in Trxns : y # q.trxn => asked2[y] = asked[y]
    BY DEF Answered
  <2> QED BY <2>1, <2>2, <2>3, LeavingSame
<1>9. ASSUME asked2[q.trxn] = None PROVE AnsweredOK(v, asked2, e)
  BY <1>1, <1>9 DEF AnsweredOK, Answered
<1> QED BY <1>2, <1>3, <1>4, <1>5, <1>6, <1>7, <1>8, <1>9

\* The MME has learnt of the session of b by the answer to its request r.
Learnt(known, known2, b, r) ==
  /\ known2[b].imsi = r.imsi /\ known2[b].enb = None
  /\ \A d \in Blocks \ {b} : known2[d] = known[d]

\* A PGW has accepted the session.
LEMMA OrderlyAccepted ==
  ASSUME NEW s \in Program, Sound(s), NEW asked, NEW known, NEW e, Orderly(s, asked, known, e),
         NEW q \in s.sent, q.kind = "create", NEW v, NEW asked2, Answered(s, v, q, asked, asked2),
         asked2[q.trxn] = None, NEW b, b = s.tun[q.chunk], NEW t \in Program, NEW x, NEW c, NEW peer,
         SgwAccepted(v, t, x, b, c, peer), NEW known2,
         Learnt(known, known2, b, asked[q.trxn])
  PROVE  Orderly(t, asked2, known2, e)
<1> DEFINE in == SgwUplinkAt(b, 5)
           new == [in |-> in, out |-> peer]
           u == s.ue[b]
           w == t.ue[b]
<1>1. /\ b \in Blocks /\ Live(s, b) /\ SessionOK(s, b) /\ ~ HasFlows(s, b)
      /\ s.ue[b].s5 = q.chunk /\ Serves(s, q, asked[q.trxn])
      /\ \A f \in s.flows : f.in \notin Mine(b, None)
      /\ \A d \in Blocks \ {b} : Live(s, d) /\ s.ue[d].pgw =>
           s.ue[d].addr # None /\ ~ InList(s.ue[d].addr, s.pool)
      /\ \A p \in v.sent :
           /\ p \in s.sent /\ s.tun[p.chunk] \in Blocks /\ s.tun[p.chunk] # b
           /\ p.chunk \in s.s5Map /\ p.chunk \in Chunks /\ p.chunk # q.chunk
           /\ asked2[p.trxn] = asked[p.trxn]
      /\ asked2[q.trxn] \in {None, asked[q.trxn]} =>
           \A d \in Blocks \ {b} : Leaving(asked2, d) <=> Leaving(asked, d)
      /\ asked2[q.trxn] = None => AnsweredOK(v, asked2, e)
  BY AnsweredRequest
<1>2. DistinctOK(s) /\ TunnelsOK(s)
  BY DEF Orderly, Sound
<1>3. /\ w.imsi = u.imsi /\ w.ebi = u.ebi /\ w.sgw = u.sgw /\ w.pgw = u.pgw
      /\ w.hPgw = u.hPgw /\ w.addr = u.addr /\ w.s5 = u.s5 /\ w.s11 = c
      /\ w.up = in /\ w.pup = u.pup /\ w.down = u.down /\ w.state = "SGW_CREATED"
      /\ \A d \in Blocks \ {b} : t.ue[d] = s.ue[d]
  <2>1. SgwUe(v.ue[b], w, b, c) /\ v.ue = s.ue /\ \A d \in Blocks \ {b} : t.ue[d] = v.ue[d]
    BY DEF SgwAccepted, Answered
  <2>2. SgwUe(u, w, b, c)
    BY <2>1
  <2> HIDE DEF u, w
  <2> QED BY <2>1, <2>2 DEF SgwUe
<1>20. /\ c \in Chunks /\ c \notin s.s11Map \cup s.s5Map
       /\ t.tun[c] = b /\ \A d \in Chunks \ {c} : t.tun[d] = s.tun[d]
       /\ t.s11Map = s.s11Map \cup {c} /\ t.s5Map = s.s5Map
  BY DEF SgwAccepted, Answered, SameTunnels
<1>21. /\ t.mem = s.mem /\ t.sgwRbt = s.sgwRbt /\ t.pgwRbt = s.pgwRbt /\ t.pool = s.pool
       /\ t.sent = v.sent
  BY DEF SgwAccepted, Answered, SameMemory, SameRegistry
<1>22. t.flows = s.flows \cup {new}
  BY DEF SgwAccepted, Answered
<1>23. \A p \in t.sent :
           /\ p \in s.sent /\ s.tun[p.chunk] \in Blocks /\ s.tun[p.chunk] # b
           /\ p.chunk \in t.s5Map /\ t.tun[p.chunk] = s.tun[p.chunk]
           /\ asked2[p.trxn] = asked[p.trxn]
  BY <1>1, <1>20, <1>21
<1>4. new.in = in /\ new.out = peer
  OBVIOUS
<1> HIDE DEF new
<1>5. u.state = "WT_CREATE" /\ asked[q.trxn].imsi = u.imsi
  BY <1>1 DEF Serves
<1>6. /\ u.imsi \in Imsis /\ u.ebi = 5 /\ u.sgw /\ ~ u.pgw /\ ~ u.hPgw
      /\ u.s5 \in s.s5Map /\ u.pup = None /\ u.down = None
  BY <1>1, <1>5 DEF SessionOK, SaeStates
<1>7. HasFlows(t, b) /\ Live(t, b)
  BY Zenon, <1>1, <1>3, <1>20, <1>21 DEF HasFlows, Live
<1>8. in \in Mine(b, None) /\ in # None
  <2>1. in \in Endpoint
    BY <1>1, SgwAssumption DEF Endpoint, SgwUplinkAt
  <2> QED BY <2>1, NoneAssumption DEF Mine
<1>9. Ends(w) = {in}
  <2> HIDE DEF in, u, w
  <2> QED BY <1>3, <1>6, <1>8 DEF Ends
<1>10. OthersKept(s, t, b, None, asked, asked2, known, known2)
  <2>1. ASSUME NEW d \in Blocks \ {b}, Live(s, d)
        PROVE  s.ue[d].s11 \in t.s11Map <=> s.ue[d].s11 \in s.s11Map
    <3>1. s.ue[d].s11 # c
      BY <1>2, <1>20, <2>1, FreshTunnel
    <3> QED BY <1>20, <3>1
  <2>2. {f \in t.flows : f.in \notin Mine(b, None)} = {f \in s.flows : f.in \notin Mine(b, None)}
    BY <1>4, <1>8, <1>22
  <2>3. \A d \in Blocks \ {b} : Leaving(asked2, d) <=> Leaving(asked, d)
    BY <1>1
  <2>4. \A d \in Blocks \ {b} : t.ue[d] = s.ue[d] /\ t.mem[d] = s.mem[d] /\ known2[d] = known[d]
    BY <1>3, <1>21 DEF Learnt
  <2>5. \A d \in Blocks \ {b} : Live(s, d) /\ s.ue[d].pgw =>
          s.ue[d].addr # None /\ ~ InList(s.ue[d].addr, t.pool)
    BY <1>1, <1>21
  <2> HIDE DEF in, u, w
  <2> QED BY <1>20, <1>21, <1>23, <2>1, <2>2, <2>3, <2>4, <2>5 DEF OthersKept
<1>11. OwnFlows(t, b, None)
  <2>1. \A f \in t.flows : f.in \in Mine(b, None) => f = new
    BY <1>1, <1>22
  <2>2. \E f \in t.flows : f.in = in
    BY <1>4, <1>22
  <2> HIDE DEF in, u, w
  <2> QED BY <1>4, <1>7, <1>8, <1>9, <2>1, <2>2 DEF OwnFlows, w
<1>12. OwnRegistry(t, b)
  <2>1. s.sgwRbt \subseteq Blocks /\ s.pgwRbt \subseteq Blocks
    BY DEF Program
  <2>2. \A d \in Blocks : t.ue[d].imsi = s.ue[d].imsi /\ t.ue[d].addr = s.ue[d].addr
    BY <1>3
  <2> QED BY <1>2, <1>21, <2>1, <2>2 DEF OwnRegistry, DistinctOK
<1>13. OwnSent(t, b, asked2)
  BY <1>23 DEF OwnSent
<1>14. SessionOK(t, b)
  <2> HIDE DEF u, w
  <2> QED BY <1>3, <1>6, <1>7, <1>20 DEF SessionOK, SaeStates, States, w, in
<1>15. KnownUe(t, asked2, known2, b)
  <2>1. known2[b].imsi = u.imsi /\ known2[b].enb = None
    BY <1>5 DEF Learnt
  <2> QED BY <1>3, <1>7, <2>1 DEF KnownUe
<1>16. AnsweredOK(t, asked2, e)
  BY <1>1, <1>21 DEF AnsweredOK
<1> HIDE DEF in, u, w
<1> QED BY <1>1, <1>7, <1>10, <1>11, <1>12, <1>13, <1>14, <1>15, <1>16, OrderlyStep

\* A PGW is silent: the session stays as one the MME does not know.
LEMMA OrderlySilenced ==
  ASSUME NEW s \in Program, Sound(s), NEW asked, NEW known, NEW e, Orderly(s, asked, known, e),
         NEW q \in s.sent, q.kind = "create", NEW v, NEW asked2, Answered(s, v, q, asked, asked2),
         asked2[q.trxn] = None, NEW b, b = s.tun[q.chunk], NEW t \in Program, NEW x,
         NEW stack \in {None, Garbage}, Silenced(v, t, x, b, stack)
  PROVE  Orderly(t, asked2, known, e)
<1> DEFINE u == s.ue[b]
           w == t.ue[b]
<1>1. /\ b \in Blocks /\ Live(s, b) /\ SessionOK(s, b) /\ ~ HasFlows(s, b)
      /\ s.ue[b].s5 = q.chunk /\ Serves(s, q, asked[q.trxn])
      /\ \A f \in s.flows : f.in \notin Mine(b, None)
      /\ \A d \in Blocks \ {b} : Live(s, d) /\ s.ue[d].pgw =>
           s.ue[d].addr # None /\ ~ InList(s.ue[d].addr, s.pool)
      /\ \A p \in v.sent :
           /\ p \in s.sent /\ s.tun[p.chunk] \in Blocks /\ s.tun[p.chunk] # b
           /\ p.chunk \in s.s5Map /\ p.chunk \in Chunks /\ p.chunk # q.chunk
           /\ asked2[p.trxn] = asked[p.trxn]
      /\ asked2[q.trxn] \in {None, asked[q.trxn]} =>
           \A d \in Blocks \ {b} : Leaving(asked2, d) <=> Leaving(asked, d)
      /\ asked2[q.trxn] = None => AnsweredOK(v, asked2, e)
  BY AnsweredRequest
<1>2. DistinctOK(s) /\ TunnelsOK(s) /\ KnownUe(s, asked, known, b)
  BY <1>1 DEF Orderly, Sound, KnownOK
<1>3. /\ w.imsi = u.imsi /\ w.ebi = u.ebi /\ w.sgw = u.sgw /\ w.pgw = u.pgw
      /\ w.hPgw = u.hPgw /\ w.addr = u.addr /\ w.s5 = u.s5 /\ w.s11 = stack
      /\ w.up = u.up /\ w.pup = u.pup /\ w.down = u.down /\ w.state = "SGW_CREATED"
      /\ \A d \in Blocks \ {b} : t.ue[d] = s.ue[d]
      /\ t.tun = s.tun /\ t.s11Map = s.s11Map /\ t.s5Map = s.s5Map
      /\ t.mem = s.mem /\ t.sgwRbt = s.sgwRbt /\ t.pgwRbt = s.pgwRbt /\ t.pool = s.pool
      /\ t.sent = v.sent /\ t.flows = s.flows
  BY ZenonT(60) DEF Silenced, SilentUe, SameName, SameBases, Answered, SameMemory, SameRegistry,
               SameTunnels
<1>4. u.state = "WT_CREATE" /\ asked[q.trxn].kind = "create"
  BY <1>1 DEF Serves
<1>5. /\ u.imsi \in Imsis /\ u.ebi = 5 /\ u.sgw /\ ~ u.pgw /\ ~ u.hPgw
      /\ u.s5 \in s.s5Map /\ u.pup = None /\ u.down = None /\ u.up = None
  BY <1>1, <1>4 DEF SessionOK, SaeStates
<1>6. stack \notin t.s11Map
  <2>1. s.s11Map \subseteq Chunks
    BY DEF Program
  <2> QED BY <1>3, <2>1, SgwAssumption, NoneAssumption
<1>7. ~ HasFlows(t, b) /\ Live(t, b)
  BY Zenon, <1>1, <1>3, <1>6 DEF HasFlows, Live
<1>8. OthersKept(s, t, b, None, asked, asked2, known, known)
  <2>1. \A p \in t.sent :
          /\ p \in s.sent /\ s.tun[p.chunk] \in Blocks /\ t.tun[p.chunk] = s.tun[p.chunk]
          /\ p.chunk \in t.s5Map /\ asked2[p.trxn] = asked[p.trxn]
    BY Zenon, <1>1, <1>3
  <2>2. \A d \in Blocks \ {b} : t.ue[d] = s.ue[d] /\ t.mem[d] = s.mem[d]
    BY <1>3
  <2>3. /\ t.s5Map = s.s5Map /\ t.s11Map = s.s11Map /\ t.sgwRbt = s.sgwRbt
        /\ t.pgwRbt = s.pgwRbt /\ t.pool = s.pool /\ t.flows = s.flows
    BY <1>3
  <2> HIDE DEF u, w
  <2> QED BY <1>1, <2>1, <2>2, <2>3 DEF OthersKept
<1>9. OwnFlows(t, b, None)
  BY Zenon, <1>1, <1>3, <1>7 DEF OwnFlows
<1>10. OwnRegistry(t, b)
  <2>1. s.sgwRbt \subseteq Blocks /\ s.pgwRbt \subseteq Blocks
    BY DEF Program
  <2>2. \A d \in Blocks : t.ue[d].imsi = s.ue[d].imsi /\ t.ue[d].addr = s.ue[d].addr
    BY <1>3
  <2>3. t.sgwRbt = s.sgwRbt /\ t.pgwRbt = s.pgwRbt /\ t.pool = s.pool
    BY <1>3
  <2> QED BY <1>2, <2>1, <2>2, <2>3 DEF OwnRegistry, DistinctOK
<1>11. OwnSent(t, b, asked2)
  <2>1. \A p \in v.sent : s.tun[p.chunk] # b
    BY Zenon, <1>1
  <2>2. t.sent = v.sent /\ t.tun = s.tun
    BY Zenon, <1>3
  <2>3. \A p \in t.sent : t.tun[p.chunk] # b
    BY Zenon, <2>1, <2>2
  <2> QED BY Zenon, <2>3 DEF OwnSent
<1>12. SessionOK(t, b)
  <2> HIDE DEF u, w
  <2> QED BY <1>3, <1>5, <1>7 DEF SessionOK, SaeStates, States, w
<1>13. KnownUe(t, asked2, known, b)
  <2>1. Leaving(asked2, b) <=> Leaving(asked, b)
    <3>1. \A y \in Trxns : y # q.trxn => asked2[y] = asked[y]
      BY DEF Answered
    <3> QED BY <1>4, <3>1, LeavingSame
  <2> QED BY Zenon, <1>1, <1>2, <1>3, <2>1 DEF KnownUe
<1>14. AnsweredOK(t, asked2, e)
  BY ZenonT(60), <1>1, <1>3 DEF AnsweredOK
<1> HIDE DEF u, w
<1> QED BY <1>1, <1>7, <1>8, <1>9, <1>10, <1>11, <1>12, <1>13, <1>14, OrderlyStep

\* The session that waits for the PGW to delete it is over.
LEMMA OrderlyGone ==
  ASSUME NEW s \in Program, Sound(s), NEW asked, NEW known, NEW e, Orderly(s, asked, known, e),
         NEW q \in s.sent, NEW v, NEW asked2, Answered(s, v, q, asked, asked2),
         asked2[q.trxn] \in {None, asked[q.trxn]}, NEW b, b = s.tun[q.chunk],
         NEW t \in Program, ~ Live(t, b),
         \A d \in Blocks \ {b} : t.mem[d] = s.mem[d] /\ t.ue[d] = s.ue[d],
         t.sgwRbt = s.sgwRbt \ {b}, t.pgwRbt = s.pgwRbt, t.pool = s.pool,
         t.s11Map = s.s11Map \ {s.ue[b].s11}, t.s5Map = s.s5Map \ {s.ue[b].s5},
         t.sent = v.sent, t.flows = s.flows, \A p \in v.sent : t.tun[p.chunk] = s.tun[p.chunk],
         NEW known2, known2[b] = None \/ Leaving(asked2, b),
         \A d \in Blocks \ {b} : known2[d] = known[d], AnsweredOK(t, asked2, e)
  PROVE  Orderly(t, asked2, known2, e)
<1>1. /\ b \in Blocks /\ Live(s, b) /\ SessionOK(s, b) /\ ~ HasFlows(s, b)
      /\ s.ue[b].s5 = q.chunk /\ Serves(s, q, asked[q.trxn])
      /\ \A f \in s.flows : f.in \notin Mine(b, None)
      /\ \A d \in Blocks \ {b} : Live(s, d) /\ s.ue[d].pgw =>
           s.ue[d].addr # None /\ ~ InList(s.ue[d].addr, s.pool)
      /\ \A p \in v.sent :
           /\ p \in s.sent /\ s.tun[p.chunk] \in Blocks /\ s.tun[p.chunk] # b
           /\ p.chunk \in s.s5Map /\ p.chunk \in Chunks /\ p.chunk # q.chunk
           /\ asked2[p.trxn] = asked[p.trxn]
      /\ asked2[q.trxn] \in {None, asked[q.trxn]} =>
           \A d \in Blocks \ {b} : Leaving(asked2, d) <=> Leaving(asked, d)
      /\ asked2[q.trxn] = None => AnsweredOK(v, asked2, e)
  BY AnsweredRequest
<1>2. DistinctOK(s) /\ TunnelsOK(s) /\ RegistryOK(s)
  BY DEF Orderly, Sound
<1>3. ~ HasFlows(t, b)
  BY DEF HasFlows
<1>4. b \notin s.pgwRbt
  <2>1. s.ue[b].state = "WT_CREATE" \/ s.ue[b].state = "WT_DELETE"
    BY <1>1 DEF Serves
  <2> QED BY Zenon, <1>1, <1>2, <2>1 DEF SessionOK, SaeStates, RegistryOK
<1>5. OthersKept(s, t, b, None, asked, asked2, known, known2)
  <2>1. ASSUME NEW d \in Blocks \ {b}, Live(s, d)
        PROVE  /\ s.ue[d].s11 \in t.s11Map <=> s.ue[d].s11 \in s.s11Map
               /\ s.ue[d].s5 \in s.s5Map => s.ue[d].s5 \in t.s5Map
    BY ZenonT(60), <1>1, <1>2, <2>1, OtherTunnels
  <2>2. \A p \in t.sent :
          /\ p \in s.sent /\ s.tun[p.chunk] \in Blocks /\ t.tun[p.chunk] = s.tun[p.chunk]
          /\ p.chunk \in t.s5Map /\ asked2[p.trxn] = asked[p.trxn]
    BY <1>1
  <2>3. \A d \in Blocks \ {b} : Leaving(asked2, d) <=> Leaving(asked, d)
    BY <1>1
  <2>4. \A d \in Blocks \ {b} : Live(s, d) /\ s.ue[d].pgw =>
          s.ue[d].addr # None /\ ~ InList(s.ue[d].addr, t.pool)
    BY <1>1
  <2>5. t.sgwRbt \ {b} = s.sgwRbt \ {b}
    OBVIOUS
  <2> QED BY Zenon, <2>1, <2>2, <2>3, <2>4, <2>5 DEF OthersKept
<1>6. OwnFlows(t, b, None)
  BY <1>1, <1>3 DEF OwnFlows
<1>7. OwnRegistry(t, b)
  BY <1>2, <1>4 DEF OwnRegistry, DistinctOK
<1>8. OwnSent(t, b, asked2)
  BY <1>1 DEF OwnSent
<1>9. KnownUe(t, asked2, known2, b)
  BY DEF KnownUe
<1> QED BY <1>1, <1>5, <1>6, <1>7, <1>8, <1>9, OrderlyStep

\* The PGW answers a Delete Session Request.
LEMMA OrderlyReleased ==
  ASSUME NEW s \in Program, Sound(s), NEW asked, NEW known, NEW e, Orderly(s, asked, known, e),
         NEW q \in s.sent, NEW v, NEW asked2, Answered(s, v, q, asked, asked2),
         asked2[q.trxn] = None, NEW b, b = s.tun[q.chunk], NEW n, NEW x, SgwReleased(v, n, x, b),
         NEW t \in Program, Removed(n, t, b), NEW known2, known2[b] = None,
         \A d \in Blocks \ {b} : known2[d] = known[d]
  PROVE  Orderly(t, asked2, known2, e)
<1>1. /\ ~ Live(t, b) /\ \A d \in Blocks \ {b} : t.mem[d] = s.mem[d] /\ t.ue[d] = s.ue[d]
      /\ t.sgwRbt = s.sgwRbt \ {b} /\ t.pgwRbt = s.pgwRbt /\ t.pool = s.pool
      /\ t.s11Map = s.s11Map \ {s.ue[b].s11} /\ t.s5Map = s.s5Map \ {s.ue[b].s5}
      /\ t.sent = v.sent /\ t.flows = s.flows
      /\ \A p \in v.sent : t.tun[p.chunk] = s.tun[p.chunk]
  <2>1. v.ue = s.ue /\ v.mem = s.mem
    BY DEF Answered, SameMemory
  <2>2. /\ v.sgwRbt = s.sgwRbt /\ v.pgwRbt = s.pgwRbt /\ v.pool = s.pool
        /\ v.flows = s.flows
    BY DEF Answered, SameRegistry
  <2>3. v.tun = s.tun /\ v.s11Map = s.s11Map /\ v.s5Map = s.s5Map
    BY DEF Answered, SameTunnels
  <2>4. n.mem = v.mem /\ \A d \in Blocks \ {b} : n.ue[d] = v.ue[d]
    BY DEF SgwReleased, SameMemory, SameTunnels
  <2>5. /\ n.sgwRbt = v.sgwRbt \ {b} /\ n.pgwRbt = v.pgwRbt /\ n.pool = v.pool
        /\ n.sent = v.sent /\ n.flows = v.flows
    BY DEF SgwReleased, SameMemory, SameTunnels
  <2>6. /\ n.tun = v.tun /\ n.s11Map = v.s11Map /\ n.s5Map = v.s5Map /\ n.sent = v.sent
        /\ n.ue[b].s11 = v.ue[b].s11 /\ n.ue[b].s5 = v.ue[b].s5
    BY DEF SgwReleased, SameMemory, SameTunnels
  <2>7. ~ Live(t, b) /\ \A d \in Blocks \ {b} : t.mem[d] = n.mem[d] /\ t.ue[d] = n.ue[d]
    BY DEF Removed
  <2>8. /\ t.sgwRbt = n.sgwRbt \ {b} /\ t.pgwRbt = n.pgwRbt /\ t.pool = n.pool
        /\ t.sent = n.sent /\ t.flows = n.flows
    BY DEF Removed
  <2>9. /\ t.s11Map = n.s11Map \ {n.ue[b].s11} /\ t.s5Map = n.s5Map \ {n.ue[b].s5}
        /\ \A p \in n.sent : t.tun[p.chunk] = n.tun[p.chunk]
    BY DEF Removed
  <2>10. \A d \in Blocks \ {b} : t.mem[d] = s.mem[d] /\ t.ue[d] = s.ue[d]
    BY <2>1, <2>4, <2>7
  <2>11. /\ t.sgwRbt = s.sgwRbt \ {b} /\ t.pgwRbt = s.pgwRbt /\ t.pool = s.pool
         /\ t.sent = v.sent /\ t.flows = s.flows
    <3>1. (s.sgwRbt \ {b}) \ {b} = s.sgwRbt \ {b}
      OBVIOUS
    <3> QED BY Zenon, <2>2, <2>5, <2>8, <3>1
  <2>12. t.s11Map = s.s11Map \ {s.ue[b].s11} /\ t.s5Map = s.s5Map \ {s.ue[b].s5}
    <3>1. n.s11Map = s.s11Map /\ n.s5Map = s.s5Map
      BY Zenon, <2>3, <2>6
    <3>2. n.ue[b].s11 = s.ue[b].s11 /\ n.ue[b].s5 = s.ue[b].s5
      BY Zenon, <2>1, <2>6
    <3> QED BY Zenon, <2>9, <3>1, <3>2
  <2>13. \A p \in v.sent : t.tun[p.chunk] = s.tun[p.chunk]
    <3>1. n.tun = s.tun /\ n.sent = v.sent
      BY Zenon, <2>3, <2>6
    <3>2. ASSUME NEW p \in v.sent PROVE t.tun[p.chunk] = s.tun[p.chunk]
      <4>1. p \in n.sent
        BY Zenon, <3>1, <3>2
      <4>2. t.tun[p.chunk] = n.tun[p.chunk]
        BY Zenon, <2>9, <4>1
      <4> QED BY Zenon, <3>1, <4>2
    <3> QED BY Zenon, <3>2
  <2> QED BY Zenon, <2>7, <2>10, <2>11, <2>12, <2>13
<1>2. AnsweredOK(v, asked2, e)
  BY AnsweredRequest
<1>3. AnsweredOK(t, asked2, e)
  BY <1>1, <1>2 DEF AnsweredOK
<1>4. asked2[q.trxn] \in {None, asked[q.trxn]}
  OBVIOUS
<1> QED BY <1>1, <1>3, <1>4, OrderlyGone

\* The PGW is silent on a Delete Session Request: the MME is told nothing.
LEMMA Unanswered ==
  ASSUME NEW s \in Program, Sound(s), NEW asked, NEW known, NEW e, Orderly(s, asked, known, e),
         e = "silent", NEW q \in s.sent, q.kind = "delete", NEW v, v.sent = s.sent \ {q}
  PROVE  Leaving(asked, s.tun[q.chunk]) /\ AnsweredOK(v, asked, e)
<1>1. Serves(s, q, asked[q.trxn]) /\ AnsweredOK(s, asked, e) /\ q.trxn \in Trxns
  <2>1. ServesOK(s, asked)
    BY DEF Orderly
  <2> QED BY <2>1, SentTo DEF Orderly, ServesOK
<1>2. /\ asked[q.trxn] # None /\ asked[q.trxn].kind = "delete"
      /\ asked[q.trxn].teid = s.tun[q.chunk]
  BY <1>1 DEF Serves
<1>3. Leaving(asked, s.tun[q.chunk])
  BY <1>1, <1>2 DEF Leaving
<1>4. AnsweredOK(v, asked, e)
  BY <1>1, <1>2 DEF AnsweredOK
<1> QED BY <1>3, <1>4

LEMMA OrderlyForgotten ==
  ASSUME NEW s \in Program, Sound(s), NEW asked, NEW known, NEW e, Orderly(s, asked, known, e),
         NEW q \in s.sent, NEW v, NEW asked2, Answered(s, v, q, asked, asked2),
         asked2[q.trxn] \in {None, asked[q.trxn]}, NEW b, b = s.tun[q.chunk],
         Leaving(asked2, b), AnsweredOK(v, asked2, e),
         NEW n, Plain(v, n, b), n.flows = v.flows, NEW t \in Program, Removed(n, t, b),
         NEW known2, \A d \in Blocks \ {b} : known2[d] = known[d]
  PROVE  Orderly(t, asked2, known2, e)
<1>1. /\ ~ Live(t, b) /\ \A d \in Blocks \ {b} : t.mem[d] = s.mem[d] /\ t.ue[d] = s.ue[d]
      /\ t.sgwRbt = s.sgwRbt \ {b} /\ t.pgwRbt = s.pgwRbt /\ t.pool = s.pool
      /\ t.s11Map = s.s11Map \ {s.ue[b].s11} /\ t.s5Map = s.s5Map \ {s.ue[b].s5}
      /\ t.sent = v.sent /\ t.flows = s.flows
      /\ \A p \in v.sent : t.tun[p.chunk] = s.tun[p.chunk]
  <2>1. v.ue = s.ue /\ v.mem = s.mem
    BY DEF Answered, SameMemory
  <2>2. /\ v.sgwRbt = s.sgwRbt /\ v.pgwRbt = s.pgwRbt /\ v.pool = s.pool
        /\ v.flows = s.flows
    BY DEF Answered, SameRegistry
  <2>3. v.tun = s.tun /\ v.s11Map = s.s11Map /\ v.s5Map = s.s5Map
    BY DEF Answered, SameTunnels
  <2>4. n.mem = v.mem /\ \A d \in Blocks \ {b} : n.ue[d] = v.ue[d]
    BY DEF Plain, SameBases, SameMemory, SameTunnels, SameRegistry
  <2>5. /\ n.sgwRbt = v.sgwRbt /\ n.pgwRbt = v.pgwRbt /\ n.pool = v.pool
        /\ n.sent = v.sent /\ n.flows = v.flows
    BY DEF Plain, SameBases, SameMemory, SameTunnels, SameRegistry
  <2>6. /\ n.tun = v.tun /\ n.s11Map = v.s11Map /\ n.s5Map = v.s5Map /\ n.sent = v.sent
        /\ n.ue[b].s11 = v.ue[b].s11 /\ n.ue[b].s5 = v.ue[b].s5
    BY DEF Plain, SameBases, SameMemory, SameTunnels, SameRegistry
  <2>7. ~ Live(t, b) /\ \A d \in Blocks \ {b} : t.mem[d] = n.mem[d] /\ t.ue[d] = n.ue[d]
    BY DEF Removed
  <2>8. /\ t.sgwRbt = n.sgwRbt \ {b} /\ t.pgwRbt = n.pgwRbt /\ t.pool = n.pool
        /\ t.sent = n.sent /\ t.flows = n.flows
    BY DEF Removed
  <2>9. /\ t.s11Map = n.s11Map \ {n.ue[b].s11} /\ t.s5Map = n.s5Map \ {n.ue[b].s5}
        /\ \A p \in n.sent : t.tun[p.chunk] = n.tun[p.chunk]
    BY DEF Removed
  <2>10. \A d \in Blocks \ {b} : t.mem[d] = s.mem[d] /\ t.ue[d] = s.ue[d]
    BY <2>1, <2>4, <2>7
  <2>11. /\ t.sgwRbt = s.sgwRbt \ {b} /\ t.pgwRbt = s.pgwRbt /\ t.pool = s.pool
         /\ t.sent = v.sent /\ t.flows = s.flows
    BY Zenon, <2>2, <2>5, <2>8
  <2>12. t.s11Map = s.s11Map \ {s.ue[b].s11} /\ t.s5Map = s.s5Map \ {s.ue[b].s5}
    <3>1. n.s11Map = s.s11Map /\ n.s5Map = s.s5Map
      BY Zenon, <2>3, <2>6
    <3>2. n.ue[b].s11 = s.ue[b].s11 /\ n.ue[b].s5 = s.ue[b].s5
      BY Zenon, <2>1, <2>6
    <3> QED BY Zenon, <2>9, <3>1, <3>2
  <2>13. \A p \in v.sent : t.tun[p.chunk] = s.tun[p.chunk]
    <3>1. n.tun = s.tun /\ n.sent = v.sent
      BY Zenon, <2>3, <2>6
    <3>2. ASSUME NEW p \in v.sent PROVE t.tun[p.chunk] = s.tun[p.chunk]
      <4>1. p \in n.sent
        BY Zenon, <3>1, <3>2
      <4>2. t.tun[p.chunk] = n.tun[p.chunk]
        BY Zenon, <2>9, <4>1
      <4> QED BY Zenon, <3>1, <4>2
    <3> QED BY Zenon, <3>2
  <2> QED BY Zenon, <2>7, <2>10, <2>11, <2>12, <2>13
<1>2. AnsweredOK(t, asked2, e)
  BY <1>1 DEF AnsweredOK
<1> QED BY <1>1, <1>2, OrderlyGone

-----------------------------------------------------------------------------
(* While the MME behaves: every step *)

\* Nothing but the answer differs.
Alike(s, t) == SameBases(s, t) /\ t.ue = s.ue /\ t.flows = s.flows

LEMMA OrderlyAlike ==
  ASSUME NEW s, NEW t, Alike(s, t), NEW asked, NEW known, NEW e, Orderly(s, asked, known, e)
  PROVE  Orderly(t, asked, known, e)
<1>1. /\ t.ue = s.ue /\ t.flows = s.flows /\ t.sent = s.sent /\ t.mem = s.mem
      /\ t.sgwRbt = s.sgwRbt /\ t.pgwRbt = s.pgwRbt /\ t.pool = s.pool
      /\ t.tun = s.tun /\ t.s11Map = s.s11Map /\ t.s5Map = s.s5Map
  BY DEF Alike, SameBases, SameMemory, SameRegistry, SameTunnels
<1>2. \A b : HasFlows(t, b) <=> HasFlows(s, b)
  BY <1>1 DEF HasFlows, Live
<1>3. \A b \in Blocks : Live(t, b) => SessionOK(t, b)
  BY <1>1, <1>2 DEF Orderly, SessionOK, Live
<1>4. FlowsOK(t)
  BY <1>1, <1>2 DEF Orderly, FlowsOK
<1>5. DistinctOK(t)
  BY <1>1 DEF Orderly, DistinctOK
<1>6. ServesOK(t, asked)
  BY <1>1 DEF Orderly, ServesOK, Serves
<1>7. KnownOK(t, asked, known)
  BY <1>1, <1>2 DEF Orderly, KnownOK, KnownUe, Live
<1>8. AnsweredOK(t, asked, e)
  BY <1>1 DEF Orderly, AnsweredOK
<1> QED BY <1>3, <1>4, <1>5, <1>6, <1>7, <1>8 DEF Orderly

\* A handler has not answered.
LEMMA CommitQuiet ==
  ASSUME NEW s, s.answer = None, NEW asked, Commit(s, asked)
  PROVE  sgw' = s /\ open' = asked /\ view' = view
  BY DEF Commit

AnswerOf(x, b, cause) == [trxn |-> x, ue |-> b, cause |-> cause]

\* A handler has answered the request x, which is about b.
LEMMA CommitAnswer ==
  ASSUME NEW s \in Program, ~ s.aborted, NEW asked \in [Trxns -> Request \cup {None}],
         view \in [Blocks -> Known \cup {None}], Commit(s, asked),
         NEW x \in Trxns, NEW b \in Blocks, NEW cause \in Causes, s.answer = AnswerOf(x, b, cause),
         asked[x] # None
  PROVE  /\ ~ sgw'.aborted /\ Alike(s, sgw')
         /\ open'[x] = None /\ \A y \in Trxns : y # x => open'[y] = asked[y]
         /\ open' \in [Trxns -> Request \cup {None}]
         /\ view'[b] = Told(view[b], asked[x], cause)
         /\ \A d \in Blocks \ {b} : view'[d] = view[d]
         /\ view' \in [Blocks -> Known \cup {None}]
<1> DEFINE a == s.answer
           v == Require(s, asked[a.trxn] # None)
<1>1. a # None /\ a.trxn = x /\ a.ue = b /\ a.cause = cause
  <2>1. AnswerOf(x, b, cause) \in AnswerToMme
    BY DEF AnswerToMme, AnswerOf
  <2> QED BY <2>1, NoneAssumption DEF AnswerOf
<1> HIDE DEF a
<1>2. /\ sgw' = [v EXCEPT !.answer = None]
      /\ open' = [asked EXCEPT ![x] = None]
      /\ view' = [view EXCEPT ![b] = Told(view[b], asked[x], cause)]
  BY <1>1 DEF Commit, a
<1>3. /\ v \in Program /\ (v.aborted <=> s.aborted \/ ~ (asked[a.trxn] # None))
      /\ SameBases(s, v) /\ v.ue = s.ue /\ v.flows = s.flows
  BY RequireEffect
<1> HIDE DEF v
<1>4. ~ v.aborted
  BY <1>1, <1>3
<1>5. /\ sgw'.aborted = v.aborted /\ SameBases(v, sgw')
      /\ sgw'.ue = v.ue /\ sgw'.flows = v.flows
  BY <1>2, <1>3 DEF Program, SameBases, SameMemory, SameRegistry, SameTunnels
<1>6. ~ sgw'.aborted /\ Alike(s, sgw')
  BY <1>3, <1>4, <1>5 DEF Alike, SameBases, SameMemory, SameRegistry, SameTunnels
<1>7. Told(view[b], asked[x], cause) \in Known \cup {None}
  <2>1. view[b] \in Known \cup {None} /\ asked[x] \in Request
    OBVIOUS
  <2> QED BY <2>1, ToldType
<1>8. /\ view'[b] = Told(view[b], asked[x], cause)
      /\ \A d \in Blocks \ {b} : view'[d] = view[d]
      /\ view' \in [Blocks -> Known \cup {None}]
  BY <1>2, <1>7
<1>9. /\ open'[x] = None /\ \A y \in Trxns : y # x => open'[y] = asked[y]
      /\ open' \in [Trxns -> Request \cup {None}]
  BY <1>2
<1> QED BY <1>6, <1>8, <1>9

\* Between two handlers, while the MME behaves.
InOrder ==
  /\ sgw \in Program /\ sgw.answer = None /\ ~ sgw.aborted /\ Sound(sgw)
  /\ open \in [Trxns -> Request \cup {None}] /\ view \in [Blocks -> Known \cup {None}]
  /\ Orderly(sgw, open, view, env)

\* A request that is answered by the handler it starts.
LEMMA AnsweredAtOnce ==
  ASSUME InOrder, NEW x \in Trxns, open[x] = None,
         NEW asked, \A y \in Trxns : y # x => asked[y] = open[y],
         open'[x] = None, \A y \in Trxns : y # x => open'[y] = asked[y],
         open' \in [Trxns -> Request \cup {None}]
  PROVE  open' = open
<1>1. \A y \in Trxns : open'[y] = open[y]
  OBVIOUS
<1> QED BY <1>1 DEF InOrder

\* What the MME is told.
LEMMA ToldNothing ==
  ASSUME NEW known, NEW r, NEW cause, cause # "accepted"
  PROVE  Told(known, r, cause) = known
  BY DEF Told

LEMMA ToldSo ==
  ASSUME NEW known, NEW r
  PROVE  /\ r \in CreateRequest => Told(known, r, "accepted") = [imsi |-> r.imsi, enb |-> None]
         /\ r \in DeleteRequest => Told(known, r, "accepted") = None
         /\ r \in ModifyRequest /\ known \in Known /\ known # None =>
              /\ Told(known, r, "accepted").imsi = known.imsi
              /\ Told(known, r, "accepted").enb = r.enb
<1>1. ASSUME r \in CreateRequest
      PROVE  Told(known, r, "accepted") = [imsi |-> r.imsi, enb |-> None]
  <2>1. r.kind = "create"
    BY <1>1 DEF CreateRequest
  <2> QED BY <2>1 DEF Told
<1>2. ASSUME r \in DeleteRequest PROVE Told(known, r, "accepted") = None
  <2>1. r.kind = "delete"
    BY <1>2 DEF DeleteRequest
  <2> QED BY <2>1 DEF Told
<1>3. ASSUME r \in ModifyRequest, known \in Known, known # None
      PROVE  /\ Told(known, r, "accepted").imsi = known.imsi
             /\ Told(known, r, "accepted").enb = r.enb
  <2>1. r.kind = "modify"
    BY <1>3 DEF ModifyRequest
  <2>2. Told(known, r, "accepted") = [known EXCEPT !.enb = r.enb]
    BY <1>3, <2>1 DEF Told
  <2> QED BY <1>3, <2>2 DEF Known
<1> QED BY <1>1, <1>2, <1>3

LEMMA CreateInOrder ==
  ASSUME InOrder, NEW x \in Trxns, NEW r \in CreateRequest, r.flaw = "none", r.ebi = 5,
         r.local => sgw.pool # <<>>, HasMemory(sgw), open[x] = None,
         NEW n, n = NewUe(sgw).state, NEW b, b = NewUe(sgw).block,
         NEW asked \in [Trxns -> Request \cup {None}],
         asked[x] = r, \A y \in Trxns : y # x => asked[y] = open[y],
         Commit(Purge(HandleCreate(n, x, b, r), b), asked)
  PROVE  ~ sgw'.aborted /\ Orderly(sgw', open', view', env)
<1> DEFINE w == HandleCreate(n, x, b, r)
           t == Purge(w, b)
<1>1. /\ sgw \in Program /\ sgw.answer = None /\ ~ sgw.aborted /\ Sound(sgw)
      /\ open \in [Trxns -> Request \cup {None}] /\ view \in [Blocks -> Known \cup {None}]
      /\ Orderly(sgw, open, view, env) /\ MemoryOK(sgw) /\ r \in Request
  BY DEF InOrder, Sound, Request
<1>2. NewBlock(sgw, n, b)
  BY <1>1, NewBlockEffect
<1>3. b \in Blocks /\ Going(n, b) /\ Live(n, b) /\ n.ue[b] = BlankUe
  BY <1>1, GoingNewUe
<1>4. n.aborted = sgw.aborted /\ n.answer = None
  BY <1>1, NewUeEffect
<1>5. ~ Live(sgw, b) /\ n.flows = sgw.flows /\ n.pool = sgw.pool
  BY <1>2 DEF NewBlock, SameRegistry
<1>6. \A f \in n.flows : f.in # SgwUplinkAt(b, 5) /\ f.in # PgwUplinkAt(b, 5)
  <2>1. \A d \in Blocks \ {b} : Live(sgw, d) /\ sgw.ue[d].pgw => sgw.ue[d].addr # None
    BY <1>1, <1>3, OtherAddress
  <2>2. ~ HasFlows(sgw, b)
    BY <1>5 DEF HasFlows
  <2>3. \A f \in sgw.flows : f.in \notin Mine(b, None)
    BY <1>1, <1>3, <2>1, <2>2, NoFlows
  <2> QED BY <1>5, <2>3 DEF Mine
<1>7. Commit(t, asked)
  OBVIOUS
<1> HIDE DEF w
<1>8. /\ Done(w, b)
      /\ ~ w.aborted
      /\ \/ RefusedCreate(n, w, x, b)
         \/ /\ \A c \in n.sgwRbt : n.ue[c].imsi # r.imsi
            /\ IF r.local THEN \E c : LocalCreate(n, w, x, b, r, c)
                          ELSE \E c : RemoteCreate(n, w, x, b, r, c)
  <2>1. ~ n.aborted /\ (r.local => n.pool # <<>>)
    BY <1>1, <1>4, <1>5
  <2> QED BY <1>3, <1>4, <1>6, <2>1, HandleCreateEffect DEF w
<1>9. w \in Program /\ Going(w, b)
  BY <1>8 DEF Done, Going
<1>10. CASE RefusedCreate(n, w, x, b)
  <2>1. /\ w.ue[b].state = "END" /\ Live(w, b) /\ ~ w.ue[b].pgw
        /\ w.ue[b].s11 = None /\ w.ue[b].s5 = None
        /\ w.answer = AnswerOf(x, b, "rejected")
    BY <1>3, <1>10 DEF RefusedCreate, Plain, SameBases, SameMemory, Live, BlankUe, AnswerOf
  <2>2. w.ue[b].s11 \in w.s11Map \cup {None} /\ w.ue[b].s5 \in w.s5Map \cup {None}
    BY <2>1
  <2>3. t \in Program /\ ~ t.aborted /\ Removed(w, t, b)
    BY <1>3, <1>8, <1>9, <2>1, <2>2, PurgeEffect
  <2> HIDE DEF t
  <2>4. /\ ~ Live(t, b) /\ \A d \in Blocks \ {b} : t.mem[d] = sgw.mem[d] /\ t.ue[d] = sgw.ue[d]
        /\ t.sgwRbt = sgw.sgwRbt /\ t.pgwRbt = sgw.pgwRbt /\ t.pool = sgw.pool
        /\ t.s11Map = sgw.s11Map /\ t.s5Map = sgw.s5Map
        /\ t.sent = sgw.sent /\ t.flows = sgw.flows
        /\ \A q \in sgw.sent : t.tun[q.chunk] = sgw.tun[q.chunk]
    <3>1. /\ \A d \in Blocks \ {b} : w.mem[d] = sgw.mem[d] /\ w.ue[d] = sgw.ue[d]
          /\ w.sgwRbt = sgw.sgwRbt /\ w.pgwRbt = sgw.pgwRbt /\ w.pool = sgw.pool
          /\ w.s11Map = sgw.s11Map /\ w.s5Map = sgw.s5Map /\ w.tun = sgw.tun
          /\ w.sent = sgw.sent /\ w.flows = sgw.flows
      BY <1>2, <1>10 DEF RefusedCreate, Plain, SameBases, SameMemory, SameRegistry, SameTunnels,
                         NewBlock
    <3>2. b \notin sgw.sgwRbt
      BY <1>1, <1>3, <1>5, Unused
    <3>3. None \notin sgw.s11Map /\ None \notin sgw.s5Map
      BY <1>1, NoneAssumption DEF Program
    <3> QED BY <2>1, <2>3, <3>1, <3>2, <3>3 DEF Removed
  <2>5. Orderly(t, open, view, env)
    BY <1>1, <1>3, <1>5, <2>3, <2>4, OrderlyRefused
  <2> DEFINE told == "rejected"
  <2>6. t.answer = AnswerOf(x, b, told) /\ told \in Causes /\ told # "accepted"
    BY <2>1, <2>3 DEF Removed, Causes
  <2>7. asked[x] # None
    BY <1>1, NoneAssumption DEF Request
  <2> HIDE DEF told
  <2>8. /\ ~ sgw'.aborted /\ Alike(t, sgw')
        /\ open'[x] = None /\ \A y \in Trxns : y # x => open'[y] = asked[y]
        /\ open' \in [Trxns -> Request \cup {None}]
        /\ view'[b] = Told(view[b], asked[x], told)
        /\ \A d \in Blocks \ {b} : view'[d] = view[d]
        /\ view' \in [Blocks -> Known \cup {None}]
    BY <1>1, <1>3, <1>7, <2>3, <2>6, <2>7, CommitAnswer
  <2>9. open' = open
    BY <2>8, AnsweredAtOnce
  <2>10. view' = view
    <3>1. view'[b] = view[b]
      <4>1. Told(view[b], asked[x], told) = view[b]
        BY <2>6, ToldNothing
      <4>2. view'[b] = Told(view[b], asked[x], told)
        BY <2>8
      <4> QED BY <4>1, <4>2
    <3>2. \A d \in Blocks : view'[d] = view[d]
      BY <2>8, <3>1
    <3> QED BY <1>1, <2>8, <3>2
  <2> QED BY <2>5, <2>8, <2>9, <2>10, OrderlyAlike
<1>11. ASSUME r.local, \A c \in n.sgwRbt : n.ue[c].imsi # r.imsi, NEW c, LocalCreate(n, w, x, b, r, c)
       PROVE  ~ sgw'.aborted /\ Orderly(sgw', open', view', env)
  <2> DEFINE told == "accepted"
  <2>1. w.ue[b].state # "END" /\ w.answer = AnswerOf(x, b, told) /\ told \in Causes
    BY <1>11 DEF LocalCreate, LocalUe, Causes, AnswerOf
  <2>2. t = w
    BY <2>1 DEF Purge
  <2>3. asked[x] # None
    BY <1>1, NoneAssumption DEF Request
  <2> HIDE DEF t, told
  <2>10. Commit(w, asked)
    BY <1>7, <2>2
  <2>4. /\ ~ sgw'.aborted /\ Alike(w, sgw')
        /\ open'[x] = None /\ \A y \in Trxns : y # x => open'[y] = asked[y]
        /\ open' \in [Trxns -> Request \cup {None}]
        /\ view'[b] = Told(view[b], asked[x], told)
        /\ \A d \in Blocks \ {b} : view'[d] = view[d]
    BY <1>1, <1>3, <1>8, <1>9, <2>1, <2>3, <2>10, CommitAnswer
  <2>5. open' = open
    BY <2>4, AnsweredAtOnce
  <2>6. view'[b] = [imsi |-> r.imsi, enb |-> None]
    <3>1. Told(view[b], r, "accepted") = [imsi |-> r.imsi, enb |-> None]
      BY ToldSo
    <3>2. view'[b] = Told(view[b], r, told)
      BY <2>4
    <3> QED BY <3>1, <3>2 DEF told
  <2>7. sgw.pool # <<>>
    BY <1>11
  <2>8. Orderly(w, open, view', env)
    BY <1>1, <1>2, <1>9, <1>11, <2>4, <2>6, <2>7, OrderlyLocal
  <2> QED BY <2>4, <2>5, <2>8, OrderlyAlike
<1>12. ASSUME \A c \in n.sgwRbt : n.ue[c].imsi # r.imsi, NEW c, RemoteCreate(n, w, x, b, r, c)
       PROVE  ~ sgw'.aborted /\ Orderly(sgw', open', view', env)
  <2>1. w.ue[b].state # "END" /\ w.answer = None
    BY <1>4, <1>12 DEF RemoteCreate, RemoteUe
  <2>2. t = w
    BY <2>1 DEF Purge
  <2> HIDE DEF t
  <2>3. sgw' = w /\ open' = asked /\ view' = view
    BY <1>7, <2>1, <2>2, CommitQuiet
  <2>5. Orderly(w, asked, view, env)
    BY <1>1, <1>2, <1>9, <1>12, OrderlyRemote
  <2> QED BY <1>8, <2>3, <2>5
<1> QED BY <1>8, <1>10, <1>11, <1>12

\* What a request that an MME that behaves sends to a session finds.
LEMMA AddressedSession ==
  ASSUME InOrder, NEW b \in Blocks, view[b] # None, ~ Leaving(open, b)
  PROVE  /\ HasFlows(sgw, b) /\ Live(sgw, b) /\ SessionOK(sgw, b) /\ FlowsReady(sgw, b)
         /\ Going(sgw, b) /\ UeOK(sgw, b)
         /\ sgw.ue[b].ebi = 5 /\ sgw.ue[b].sgw /\ b \in sgw.sgwRbt
         /\ IsSae(sgw.ue[b]) <=> sgw.ue[b].pgw
         /\ sgw.ue[b].pgw <=> sgw.ue[b].state \in SaeStates
         /\ sgw.ue[b].state \in {"SAE_CREATED", "SAE_ESTABLISHED", "SGW_CREATED", "SGW_ESTABLISHED"}
         /\ sgw.ue[b].s11 \in sgw.s11Map
<1>1. /\ sgw \in Program /\ Sound(sgw) /\ Orderly(sgw, open, view, env)
  BY DEF InOrder
<1>2. HasFlows(sgw, b)
  BY <1>1 DEF Orderly, KnownOK, KnownUe
<1>3. Live(sgw, b) /\ SessionOK(sgw, b)
  BY <1>1, <1>2 DEF HasFlows, Orderly
<1>4. FlowsReady(sgw, b)
  BY <1>1, <1>2, OwnEnds
<1>5. Going(sgw, b) /\ UeOK(sgw, b) /\ RegistryOK(sgw)
  BY <1>1, SoundGoing DEF Sound
<1>6. /\ sgw.ue[b].state \in {"SAE_CREATED", "SAE_ESTABLISHED", "SGW_CREATED", "SGW_ESTABLISHED"}
      /\ sgw.ue[b].s11 \in sgw.s11Map
  BY <1>2 DEF HasFlows, SaeStates
<1>7. /\ sgw.ue[b].ebi = 5 /\ sgw.ue[b].sgw
      /\ sgw.ue[b].pgw <=> sgw.ue[b].state \in SaeStates
  BY <1>3, <1>6 DEF SessionOK
<1>8. b \in sgw.sgwRbt
  BY <1>3, <1>5, <1>7 DEF RegistryOK
<1> QED BY <1>2, <1>3, <1>4, <1>5, <1>6, <1>7, <1>8 DEF IsSae

\* What a Modify Bearer Request finds of the traffic to the UE.
LEMMA ModifyReady ==
  ASSUME InOrder, NEW b \in Blocks, view[b] # None, ~ Leaving(open, b),
         NEW in, in = DownlinkAt(sgw.ue[b], b, 5)
  PROVE  /\ sgw.ue[b].state \in {"SAE_CREATED", "SGW_CREATED"} =>
              sgw.ue[b].down = None /\ \A f \in sgw.flows : f.in # in
         /\ sgw.ue[b].state \in Established =>
              sgw.ue[b].down = in /\ \E f \in sgw.flows : f.in = in
<1> DEFINE u == sgw.ue[b]
           addr == AddressOf(u)
<1>1. /\ HasFlows(sgw, b) /\ Live(sgw, b) /\ SessionOK(sgw, b) /\ FlowsReady(sgw, b)
      /\ IsSae(u) <=> u.pgw
      /\ u.pgw <=> u.state \in SaeStates
  BY AddressedSession
<1>2. sgw \in Program /\ Sound(sgw) /\ Orderly(sgw, open, view, env)
  BY DEF InOrder
<1>3. \A f \in sgw.flows : f.in \in Mine(b, addr) <=> f.in \in Ends(u)
  BY <1>1, <1>2, OwnEnds
<1>4. in = (IF u.pgw THEN UeAt(u.addr) ELSE SgwDownlinkAt(b, 5)) /\ in \in Mine(b, addr)
  BY <1>1 DEF DownlinkAt, Mine, AddressOf
<1>5. ASSUME u.state \in {"SAE_CREATED", "SGW_CREATED"}
      PROVE  u.down = None /\ \A f \in sgw.flows : f.in # in
  <2>1. u.down = None /\ u.up = SgwUplinkAt(b, 5) /\ u.pup \in {PgwUplinkAt(b, 5), None}
    BY <1>1, <1>5 DEF SessionOK
  <2>2. SgwUplinkAt(b, 5) # in /\ PgwUplinkAt(b, 5) # in
    BY <1>4 DEF SgwUplinkAt, PgwUplinkAt, SgwDownlinkAt, UeAt
  <2>3. in \notin Ends(u)
    BY <2>1, <2>2 DEF Ends
  <2> QED BY <1>3, <1>4, <2>1, <2>3
<1>6. ASSUME u.state \in Established
      PROVE  u.down = in /\ \E f \in sgw.flows : f.in = in
  <2>1. u.down = in
    BY <1>1, <1>4, <1>6 DEF SessionOK, Established, SaeStates
  <2>2. u.down \in Ends(u)
    BY <1>1, <1>2, <1>6, SessionEnds
  <2>3. \A h \in Ends(u) : \E f \in sgw.flows : f.in = h
    BY <1>1 DEF FlowsReady
  <2> QED BY <2>1, <2>2, <2>3
<1> QED BY <1>5, <1>6

\* The same for the program as the MME sees it.
LEMMA ModifiedInOrder ==
  ASSUME InOrder, NEW b \in Blocks, HasFlows(sgw, b), view[b] # None, ~ Leaving(open, b),
         NEW w, NEW x, NEW in, NEW enb, NEW state,
         in = DownlinkAt(sgw.ue[b], b, 5), sgw.ue[b].down \in {None, in},
         state = StateModified(sgw.ue[b]),
         Modified(sgw, w, x, b, in, enb, state), NEW known2,
         known2[b].imsi = view[b].imsi, known2[b].enb = enb,
         \A d \in Blocks \ {b} : known2[d] = view[d]
  PROVE  Orderly(w, open, known2, env)
<1>1. sgw \in Program /\ Sound(sgw) /\ Orderly(sgw, open, view, env)
  BY DEF InOrder
<1> QED BY <1>1, OrderlyModified

LEMMA ModifyInOrder ==
  ASSUME InOrder, NEW x \in Trxns, NEW r \in ModifyRequest, r.flaw = "none", r.ebi = 5,
         NEW b \in Blocks, view[b] # None, ~ Leaving(open, b), open[x] = None,
         NEW asked \in [Trxns -> Request \cup {None}],
         asked[x] = r, \A y \in Trxns : y # x => asked[y] = open[y],
         Commit(Purge(OnS11(sgw, x, b, r), b), asked)
  PROVE  ~ sgw'.aborted /\ Orderly(sgw', open', view', env)
<1> DEFINE w == OnS11(sgw, x, b, r)
           u == sgw.ue[b]
           in == DownlinkAt(u, b, 5)
           state == IF u.pgw THEN "SAE_ESTABLISHED" ELSE "SGW_ESTABLISHED"
           told == "accepted"
<1>1. /\ sgw \in Program /\ sgw.answer = None /\ ~ sgw.aborted /\ Sound(sgw)
      /\ open \in [Trxns -> Request \cup {None}] /\ view \in [Blocks -> Known \cup {None}]
      /\ Orderly(sgw, open, view, env)
  BY DEF InOrder
<1>2. /\ HasFlows(sgw, b) /\ Going(sgw, b) /\ UeOK(sgw, b) /\ u.ebi = 5
      /\ IsSae(u) <=> u.pgw
      /\ u.pgw <=> u.state \in SaeStates
      /\ u.state \in {"SAE_CREATED", "SAE_ESTABLISHED", "SGW_CREATED", "SGW_ESTABLISHED"}
  BY AddressedSession
<1>3. /\ u.state \in {"SAE_CREATED", "SGW_CREATED"} =>
              u.down = None /\ \A f \in sgw.flows : f.in # in
      /\ u.state \in Established => u.down = in /\ \E f \in sgw.flows : f.in = in
  BY ModifyReady
<1>4. r.kind = "modify"
  BY DEF ModifyRequest
<1>5. Commit(Purge(w, b), asked)
  OBVIOUS
<1>6. Done(w, b) /\ Modified(sgw, w, x, b, in, r.enb, state)
  <2>1. CASE u.state \in {"SAE_CREATED", "SGW_CREATED"}
    <3>1. w = SaeCreatedModify(sgw, x, b, r)
      BY <1>4, <2>1 DEF OnS11
    <3>2. state = IF IsSae(u) THEN "SAE_ESTABLISHED" ELSE "SGW_ESTABLISHED"
      BY <1>2
    <3> HIDE DEF w, in, state
    <3>3. in = DownlinkAt(u, b, 5)
      BY DEF in
    <3> QED BY <1>1, <1>2, <1>3, <2>1, <3>1, <3>2, <3>3, FirstModifyEffect
  <2>2. CASE u.state \in {"SAE_ESTABLISHED", "SGW_ESTABLISHED"}
    <3>1. w = HandleModify(sgw, x, b, r, ModifyDownlink(sgw, b, r.ebi, r.enb))
      BY <1>4, <2>2 DEF OnS11, SaeEstablishedModify, SgwEstablishedModify
    <3>2. state = u.state
      BY <1>2, <2>2 DEF SaeStates
    <3>3. u.state \in Established
      BY <2>2 DEF Established
    <3> HIDE DEF w, in, state
    <3>4. in = DownlinkAt(u, b, 5)
      BY DEF in
    <3> QED BY <1>1, <1>2, <1>3, <2>2, <3>1, <3>2, <3>3, <3>4, LaterModifyEffect
  <2> QED BY <1>2, <2>1, <2>2
<1> HIDE DEF w
<1>7. /\ w \in Program /\ ~ w.aborted /\ w.ue[b].state # "END"
      /\ w.answer = AnswerOf(x, b, told) /\ told \in Causes
  BY <1>1, <1>6 DEF Modified, Plain, AnswerOf, Causes
<1>8. Purge(w, b) = w
  BY <1>7 DEF Purge
<1>9. Commit(w, asked)
  BY <1>5, <1>8
<1>10. asked[x] # None
  BY NoneAssumption DEF SessionRequest
<1> HIDE DEF told, in, state, u
<1>11. /\ ~ sgw'.aborted /\ Alike(w, sgw')
       /\ open'[x] = None /\ \A y \in Trxns : y # x => open'[y] = asked[y]
       /\ open' \in [Trxns -> Request \cup {None}]
       /\ view'[b] = Told(view[b], asked[x], told)
       /\ \A d \in Blocks \ {b} : view'[d] = view[d]
  BY <1>1, <1>7, <1>9, <1>10, CommitAnswer
<1>12. open' = open
  BY <1>11, AnsweredAtOnce
<1>13. view'[b].imsi = view[b].imsi /\ view'[b].enb = r.enb
  <2>1. view[b] \in Known
    BY <1>1
  <2>2. /\ Told(view[b], r, "accepted").imsi = view[b].imsi
        /\ Told(view[b], r, "accepted").enb = r.enb
    BY <2>1, ToldSo
  <2>3. view'[b] = Told(view[b], r, told)
    BY <1>11
  <2> QED BY <2>2, <2>3 DEF told
<1>14. in = DownlinkAt(sgw.ue[b], b, 5) /\ sgw.ue[b].down \in {None, in}
  BY <1>2, <1>3 DEF in, u, Established
<1>15. state = StateModified(sgw.ue[b])
  BY DEF state, u, StateModified
<1>16. \A d \in Blocks \ {b} : view'[d] = view[d]
  BY <1>11
<1>17. Orderly(w, open, view', env)
  <2> DEFINE enb == r.enb
             known2 == view'
  <2>1. Modified(sgw, w, x, b, in, enb, state) /\ HasFlows(sgw, b)
    BY <1>2, <1>6
  <2>2. known2[b].imsi = view[b].imsi /\ known2[b].enb = enb
    BY <1>13
  <2>3. \A d \in Blocks \ {b} : known2[d] = view[d]
    BY <1>16
  <2> HIDE DEF enb, known2
  <2>4. Orderly(w, open, known2, env)
    BY <1>14, <1>15, <2>1, <2>2, <2>3, ModifiedInOrder
  <2> QED BY <2>4 DEF known2
<1> QED BY <1>11, <1>12, <1>17, OrderlyAlike

LEMMA DeleteInOrder ==
  ASSUME InOrder, NEW x \in Trxns, NEW r \in DeleteRequest, r.flaw = "none",
         NEW b \in Blocks, b = r.teid, view[b] # None, ~ Leaving(open, b), open[x] = None,
         NEW asked \in [Trxns -> Request \cup {None}],
         asked[x] = r, \A y \in Trxns : y # x => asked[y] = open[y],
         Commit(Purge(OnS11(sgw, x, b, r), b), asked)
  PROVE  ~ sgw'.aborted /\ Orderly(sgw', open', view', env)
<1> DEFINE w == OnS11(sgw, x, b, r)
           t == Purge(w, b)
           u == sgw.ue[b]
           told == "accepted"
<1>1. /\ sgw \in Program /\ sgw.answer = None /\ ~ sgw.aborted /\ Sound(sgw)
      /\ open \in [Trxns -> Request \cup {None}] /\ view \in [Blocks -> Known \cup {None}]
      /\ Orderly(sgw, open, view, env)
  BY DEF InOrder
<1>2. /\ HasFlows(sgw, b) /\ Live(sgw, b) /\ SessionOK(sgw, b) /\ FlowsReady(sgw, b)
      /\ Going(sgw, b) /\ UeOK(sgw, b) /\ b \in sgw.sgwRbt
      /\ u.pgw <=> u.state \in SaeStates
      /\ u.state \in {"SAE_CREATED", "SAE_ESTABLISHED", "SGW_CREATED", "SGW_ESTABLISHED"}
      /\ u.s11 \in sgw.s11Map
  BY AddressedSession
<1>3. r.kind = "delete"
  BY DEF DeleteRequest
<1>4. Commit(t, asked)
  OBVIOUS
<1>5. asked[x] # None
  BY NoneAssumption DEF SessionRequest
<1>6. told \in Causes
  BY DEF Causes
<1> HIDE DEF told
<1>7. ASSUME NEW s \in Program, ~ s.aborted, s.answer = AnswerOf(x, b, told), Commit(s, asked)
      PROVE  /\ ~ sgw'.aborted /\ Alike(s, sgw') /\ open' = open
             /\ view'[b] = None /\ \A d \in Blocks \ {b} : view'[d] = view[d]
  <2>1. /\ ~ sgw'.aborted /\ Alike(s, sgw')
        /\ open'[x] = None /\ \A y \in Trxns : y # x => open'[y] = asked[y]
        /\ open' \in [Trxns -> Request \cup {None}]
        /\ view'[b] = Told(view[b], asked[x], told)
        /\ \A d \in Blocks \ {b} : view'[d] = view[d]
    BY <1>1, <1>5, <1>6, <1>7, CommitAnswer
  <2>2. open' = open
    BY <2>1, AnsweredAtOnce
  <2>3. Told(view[b], r, "accepted") = None
    BY ToldSo
  <2>4. view'[b] = Told(view[b], r, told)
    BY <2>1
  <2> QED BY <2>1, <2>2, <2>3, <2>4 DEF told
<1>8. CASE u.state \in {"SAE_CREATED", "SAE_ESTABLISHED"}
  <2>1. w = SaeDelete(sgw, x, b, r)
    BY <1>3, <1>8 DEF OnS11, SaeCreatedDelete, SaeEstablishedDelete
  <2>2. u.pgw /\ u.hPgw /\ u.addr \in LocalPool /\ u.s5 = None
    BY <1>2, <1>8 DEF SaeStates, SessionOK
  <2>3. b \in sgw.pgwRbt
    BY <1>1, <1>2, <2>2 DEF Sound, RegistryOK
  <2> HIDE DEF w
  <2>4. Done(w, b) /\ ~ w.aborted /\ SaeReleased(sgw, w, x, b)
    BY <1>1, <1>2, <2>1, <2>2, <2>3, SaeDeleteEffect
  <2>5. /\ w.ue[b].state = "END" /\ Live(w, b) /\ ~ w.ue[b].pgw
        /\ w.ue[b].s11 \in w.s11Map \cup {None} /\ w.ue[b].s5 \in w.s5Map \cup {None}
        /\ w.answer = AnswerOf(x, b, told)
    BY <1>2, <2>2, <2>4 DEF SaeReleased, SameMemory, SameTunnels, Live, AnswerOf, told
  <2>6. t \in Program /\ ~ t.aborted /\ Removed(w, t, b)
    BY <2>4, <2>5, PurgeEffect DEF Done
  <2> HIDE DEF t
  <2>7. t.answer = AnswerOf(x, b, told)
    BY <2>5, <2>6 DEF Removed
  <2>8. /\ ~ sgw'.aborted /\ Alike(t, sgw') /\ open' = open
        /\ view'[b] = None /\ \A d \in Blocks \ {b} : view'[d] = view[d]
    BY <1>4, <1>7, <2>6, <2>7
  <2>9. Orderly(t, open, view', env)
    BY <1>1, <1>2, <2>2, <2>4, <2>6, <2>8, OrderlySaeGone
  <2> QED BY <2>8, <2>9, OrderlyAlike
<1>9. CASE u.state \in {"SGW_CREATED", "SGW_ESTABLISHED"}
  <2>1. ~ u.pgw
    BY <1>2, <1>9 DEF SaeStates
  <2>2. u.s5 \in sgw.s5Map
    BY <1>2, <2>1 DEF SessionOK
  <2>3. /\ Done(w, b) /\ ~ w.aborted
        /\ SgwReleasing(sgw, w, x, b) \/ SgwLeft(sgw, w, x, b)
    <3>1. CASE u.state = "SGW_CREATED"
      <4>1. w = SgwCreatedDelete(sgw, x, b, r)
        BY <1>3, <3>1 DEF OnS11
      <4> HIDE DEF w
      <4>2. Done(w, b) /\ w.aborted = sgw.aborted /\ SgwReleasing(sgw, w, x, b)
        BY <1>2, <2>2, <4>1, SgwCreatedDeleteEffect
      <4> QED BY <1>1, <4>2
    <3>2. CASE u.state = "SGW_ESTABLISHED"
      <4>1. w = SgwEstablishedDelete(sgw, x, b, r)
        BY <1>3, <3>2 DEF OnS11
      <4> HIDE DEF w
      <4> QED BY <1>1, <1>2, <2>2, <4>1, SgwEstablishedDeleteEffect
    <3> QED BY <1>9, <3>1, <3>2
  <2> HIDE DEF w
  <2>4. w \in Program
    BY <2>3 DEF Done, Going
  <2>5. CASE SgwReleasing(sgw, w, x, b)
    <3>1. w.ue[b].state # "END" /\ w.answer = None
      <4>1. u \in UeRecord
        BY <1>1 DEF Program
      <4> QED BY <1>1, <2>5, <4>1 DEF SgwReleasing, UeRecord
    <3>2. t = w
      BY <3>1 DEF Purge
    <3> HIDE DEF t
    <3>3. sgw' = w /\ open' = asked /\ view' = view
      BY <1>4, <3>1, <3>2, CommitQuiet
    <3>4. Orderly(w, asked, view, env)
      BY <1>1, <1>2, <2>1, <2>4, <2>5, OrderlyReleasing
    <3> QED BY <2>3, <3>3, <3>4
  <2>6. CASE SgwLeft(sgw, w, x, b)
    <3>1. w.ue[b].state # "END" /\ w.answer = AnswerOf(x, b, told)
      BY <2>6 DEF SgwLeft, AnswerOf, told
    <3>2. t = w
      BY <3>1 DEF Purge
    <3> HIDE DEF t
    <3>3. Commit(w, asked)
      BY <1>4, <3>2
    <3>4. /\ ~ sgw'.aborted /\ Alike(w, sgw') /\ open' = open
          /\ view'[b] = None /\ \A d \in Blocks \ {b} : view'[d] = view[d]
      BY <1>7, <2>3, <2>4, <3>1, <3>3
    <3>5. Orderly(w, open, view', env)
      BY <1>1, <1>2, <2>1, <2>4, <2>6, <3>4, OrderlyLeft
    <3> QED BY <3>4, <3>5, OrderlyAlike
  <2> QED BY <2>3, <2>5, <2>6
<1> QED BY <1>2, <1>8, <1>9

\* The request q to a PGW is no more.
Taken(s, q) == [s EXCEPT !.sent = s.sent \ {q}]

\* What the answer of a PGW, or its silence, finds.
LEMMA AnsweredSession ==
  ASSUME InOrder, NEW q \in sgw.sent, NEW v, v = Taken(sgw, q), NEW b, b = sgw.tun[q.chunk]
  PROVE  /\ v \in Program /\ ~ v.aborted /\ v.answer = None /\ b \in Blocks
         /\ Going(v, b) /\ TunnelsOK(v) /\ UeOK(v, b) /\ Live(v, b)
         /\ b \in v.sgwRbt /\ ~ v.ue[b].pgw /\ v.ue[b].s5 \in v.s5Map \cup {None}
         /\ v.sent = sgw.sent \ {q} /\ q.trxn \in Trxns
         /\ open[q.trxn] \in Request /\ open[q.trxn] # None
         /\ \/ /\ q.kind = "create" /\ v.ue[b].state = "WT_CREATE"
               /\ open[q.trxn] \in CreateRequest
               /\ \A f \in v.flows : f.in # SgwUplinkAt(b, 5)
            \/ /\ q.kind = "delete" /\ v.ue[b].state = "WT_DELETE"
               /\ open[q.trxn] \in DeleteRequest /\ v.ue[b].s11 \in v.s11Map \cup {None}
         /\ \A asked2 : (\A y \in Trxns : y # q.trxn => asked2[y] = open[y])
                          => Answered(sgw, v, q, open, asked2)
<1>1. /\ sgw \in Program /\ sgw.answer = None /\ ~ sgw.aborted /\ Sound(sgw)
      /\ open \in [Trxns -> Request \cup {None}] /\ Orderly(sgw, open, view, env)
  BY DEF InOrder
<1>2. /\ v \in Program /\ Sound(v) /\ v.aborted = sgw.aborted
      /\ SameMemory(sgw, v) /\ SameRegistry(sgw, v) /\ SameTunnels(sgw, v)
      /\ v.sent = sgw.sent \ {q} /\ v.ue = sgw.ue /\ v.flows = sgw.flows
      /\ v.answer = sgw.answer
  BY <1>1, SentEffect DEF Taken
<1>3. \A asked2 : (\A y \in Trxns : y # q.trxn => asked2[y] = open[y])
                    => Answered(sgw, v, q, open, asked2)
  BY <1>2 DEF Answered
<1>4. Answered(sgw, v, q, open, open)
  BY <1>3
<1>5. /\ b \in Blocks /\ Live(sgw, b) /\ SessionOK(sgw, b)
      /\ Serves(sgw, q, open[q.trxn])
      /\ \A f \in sgw.flows : f.in \notin Mine(b, None)
  <2> DEFINE asked2 == open
  <2>1. Answered(sgw, v, q, open, asked2)
    BY <1>4
  <2> HIDE DEF asked2
  <2> QED BY <1>1, <2>1, AnsweredRequest
<1>6. Going(v, b) /\ TunnelsOK(v) /\ UeOK(v, b)
  BY <1>2, <1>5, SoundGoing DEF Sound
<1>7. q.trxn \in Trxns /\ open[q.trxn] \in Request /\ open[q.trxn] # None
      /\ open[q.trxn].kind = q.kind
  <2>1. q.trxn \in Trxns
    BY <1>1 DEF Program, S5Request
  <2> QED BY <1>1, <1>5, <2>1 DEF Serves
<1>8. /\ v.mem = sgw.mem /\ v.sgwRbt = sgw.sgwRbt /\ v.s11Map = sgw.s11Map
      /\ v.s5Map = sgw.s5Map /\ Live(v, b)
  BY <1>2, <1>5 DEF SameMemory, SameRegistry, SameTunnels, Live
<1>9. CASE q.kind = "create"
  <2>1. v.ue[b].state = "WT_CREATE"
    BY <1>2, <1>5, <1>9 DEF Serves
  <2>2. open[q.trxn] \in CreateRequest
    BY <1>7, <1>9 DEF Request, SessionRequest, ModifyRequest, DeleteRequest
  <2>3. \A f \in v.flows : f.in # SgwUplinkAt(b, 5)
    BY <1>2, <1>5 DEF Mine
  <2>4. v.ue[b].sgw /\ ~ v.ue[b].pgw /\ v.ue[b].s5 \in v.s5Map
    BY <1>6, <2>1 DEF UeOK
  <2>5. b \in v.sgwRbt
    BY <1>1, <1>2, <1>5, <1>8, <2>4 DEF Sound, RegistryOK
  <2> QED BY <1>1, <1>2, <1>3, <1>5, <1>6, <1>7, <1>8, <1>9, <2>1, <2>2, <2>3, <2>4, <2>5
<1>10. CASE q.kind = "delete"
  <2>1. v.ue[b].state = "WT_DELETE"
    BY <1>2, <1>5, <1>10 DEF Serves
  <2>2. open[q.trxn] \in DeleteRequest
    BY <1>7, <1>10 DEF Request, SessionRequest, ModifyRequest, CreateRequest
  <2>3. /\ v.ue[b].sgw /\ ~ v.ue[b].pgw /\ v.ue[b].s5 \in v.s5Map
        /\ v.ue[b].s11 \in v.s11Map
    BY <1>2, <1>5, <1>8, <2>1 DEF SessionOK, SaeStates
  <2>4. b \in v.sgwRbt
    BY <1>1, <1>2, <1>5, <1>8, <2>3 DEF Sound, RegistryOK
  <2> QED BY <1>1, <1>2, <1>3, <1>5, <1>6, <1>7, <1>8, <1>10, <2>1, <2>2, <2>3, <2>4
<1>11. q.kind \in {"create", "delete"}
  BY <1>1 DEF Program, S5Request
<1> QED BY <1>9, <1>10, <1>11

\* A handler answers the request that the PGW has been asked for.
LEMMA CommitPgwAnswer ==
  ASSUME InOrder, NEW x \in Trxns, open[x] # None, NEW s \in Program, ~ s.aborted,
         NEW b \in Blocks, NEW cause \in Causes, s.answer = AnswerOf(x, b, cause),
         Commit(s, open)
  PROVE  /\ ~ sgw'.aborted /\ Alike(s, sgw')
         /\ open'[x] = None /\ \A y \in Trxns : y # x => open'[y] = open[y]
         /\ view'[b] = Told(view[b], open[x], cause)
         /\ \A d \in Blocks \ {b} : view'[d] = view[d]
         /\ view' \in [Blocks -> Known \cup {None}]
<1> DEFINE asked == open
<1>1. /\ open \in [Trxns -> Request \cup {None}] /\ view \in [Blocks -> Known \cup {None}]
      /\ asked \in [Trxns -> Request \cup {None}] /\ asked[x] # None /\ Commit(s, asked)
  BY DEF InOrder
<1> HIDE DEF asked
<1>2. /\ ~ sgw'.aborted /\ Alike(s, sgw')
      /\ open'[x] = None /\ \A y \in Trxns : y # x => open'[y] = asked[y]
      /\ view'[b] = Told(view[b], asked[x], cause)
      /\ \A d \in Blocks \ {b} : view'[d] = view[d]
      /\ view' \in [Blocks -> Known \cup {None}]
  BY <1>1, CommitAnswer
<1> QED BY <1>2 DEF asked

\* The same for the program as the MME sees it.
LEMMA AcceptedHere ==
  ASSUME InOrder, NEW q \in sgw.sent, q.kind = "create", NEW v, NEW asked2,
         Answered(sgw, v, q, open, asked2), asked2[q.trxn] = None,
         NEW b, b = sgw.tun[q.chunk], NEW w \in Program, NEW x, NEW c, NEW peer,
         SgwAccepted(v, w, x, b, c, peer), NEW known2,
         Learnt(view, known2, b, open[q.trxn])
  PROVE  Orderly(w, asked2, known2, env)
<1>1. sgw \in Program /\ Sound(sgw) /\ Orderly(sgw, open, view, env)
  BY DEF InOrder
<1> QED BY <1>1, OrderlyAccepted

LEMMA ReleasedHere ==
  ASSUME InOrder, NEW q \in sgw.sent, NEW v, NEW asked2,
         Answered(sgw, v, q, open, asked2), asked2[q.trxn] = None,
         NEW b, b = sgw.tun[q.chunk], NEW w, NEW x, SgwReleased(v, w, x, b),
         NEW t \in Program, Removed(w, t, b), NEW known2, known2[b] = None,
         \A d \in Blocks \ {b} : known2[d] = view[d]
  PROVE  Orderly(t, asked2, known2, env)
<1>1. sgw \in Program /\ Sound(sgw) /\ Orderly(sgw, open, view, env)
  BY DEF InOrder
<1> QED BY <1>1, OrderlyReleased

\* A PGW accepts a session.
LEMMA AcceptedInOrder ==
  ASSUME InOrder, NEW q \in sgw.sent, q.kind = "create", NEW v, v = Taken(sgw, q),
         NEW b, b = sgw.tun[q.chunk], NEW stack, NEW told, told = "accepted",
         Commit(Purge(OnS5(v, q.trxn, b, q.kind, told, 5, stack), b), open)
  PROVE  ~ sgw'.aborted /\ Orderly(sgw', open', view', env)
<1> DEFINE w == OnS5(v, q.trxn, b, q.kind, told, 5, stack)
           x == q.trxn
<1>1. /\ v \in Program /\ ~ v.aborted /\ v.answer = None /\ b \in Blocks
      /\ Going(v, b) /\ TunnelsOK(v) /\ UeOK(v, b) /\ Live(v, b)
      /\ x \in Trxns /\ open[x] \in Request /\ open[x] # None
      /\ v.ue[b].state = "WT_CREATE" /\ open[x] \in CreateRequest
      /\ \A f \in v.flows : f.in # SgwUplinkAt(b, 5)
      /\ \A asked2 : (\A y \in Trxns : y # x => asked2[y] = open[y])
                       => Answered(sgw, v, q, open, asked2)
  BY AnsweredSession
<1>2. /\ sgw \in Program /\ Sound(sgw) /\ Orderly(sgw, open, view, env)
  BY DEF InOrder
<1>3. w = RelayedCreateAnswer(InstallUplink(v, b, 5, "pgw"), x, b, "accepted", None)
  BY <1>1 DEF OnS5, HandleCreateAnswer
<1>4. Commit(Purge(w, b), open)
  OBVIOUS
<1> HIDE DEF w
<1>5. Done(w, b) /\ ~ w.aborted /\ \E c : SgwAccepted(v, w, x, b, c, "pgw")
  <2>1. "pgw" # None /\ 5 \in Ebis
    BY NoneAssumption, SgwAssumption
  <2> QED BY <1>1, <1>3, <2>1, CreateAnswerEffect
<1>6. PICK c : SgwAccepted(v, w, x, b, c, "pgw")
  BY <1>5
<1>7. w \in Program /\ w.ue[b].state # "END" /\ w.answer = AnswerOf(x, b, told) /\ told \in Causes
  BY Zenon, <1>5, <1>6 DEF Done, Going, SgwAccepted, SgwUe, AnswerOf, Causes
<1>8. Commit(w, open)
  <2>1. Purge(w, b) = w
    BY <1>7 DEF Purge
  <2> QED BY <1>4, <2>1
<1> HIDE DEF x
<1>9. /\ ~ sgw'.aborted /\ Alike(w, sgw')
      /\ open'[x] = None /\ \A y \in Trxns : y # x => open'[y] = open[y]
      /\ view'[b] = Told(view[b], open[x], told)
      /\ \A d \in Blocks \ {b} : view'[d] = view[d]
  BY <1>1, <1>5, <1>7, <1>8, CommitPgwAnswer
<1>10. view'[b] = [imsi |-> open[x].imsi, enb |-> None]
  <2>1. Told(view[b], open[x], "accepted") = [imsi |-> open[x].imsi, enb |-> None]
    BY <1>1, ToldSo
  <2> QED BY <1>9, <2>1
<1>11. Answered(sgw, v, q, open, open')
  BY <1>1, <1>9
<1>12. Orderly(w, open', view', env)
  <2> DEFINE asked2 == open'
             known2 == view'
             peer == "pgw"
  <2>1. Answered(sgw, v, q, open, asked2) /\ asked2[q.trxn] = None
    BY <1>9, <1>11 DEF x
  <2>2. w \in Program /\ SgwAccepted(v, w, x, b, c, peer)
    BY <1>6, <1>7
  <2>3. Learnt(view, known2, b, open[q.trxn])
    BY <1>9, <1>10 DEF x, Learnt
  <2> HIDE DEF asked2, known2, peer
  <2>4. Orderly(w, asked2, known2, env)
    BY <2>1, <2>2, <2>3, AcceptedHere
  <2> QED BY <2>4 DEF asked2, known2
<1> QED BY <1>9, <1>12, OrderlyAlike

LEMMA SilencedInOrder ==
  ASSUME InOrder, NEW q \in sgw.sent, q.kind = "create", NEW v, v = Taken(sgw, q),
         NEW b, b = sgw.tun[q.chunk], NEW ebi, NEW stack \in {None, Garbage},
         NEW cause, cause = "silence",
         Commit(Purge(OnS5(v, q.trxn, b, q.kind, cause, ebi, stack), b), open)
  PROVE  ~ sgw'.aborted /\ Orderly(sgw', open', view', env)
<1> DEFINE w == OnS5(v, q.trxn, b, q.kind, cause, ebi, stack)
           x == q.trxn
           told == "no answer"
<1>1. /\ v \in Program /\ ~ v.aborted /\ v.answer = None /\ b \in Blocks
      /\ Going(v, b) /\ TunnelsOK(v) /\ UeOK(v, b) /\ Live(v, b)
      /\ x \in Trxns /\ open[x] \in Request /\ open[x] # None
      /\ v.ue[b].state = "WT_CREATE"
      /\ \A asked2 : (\A y \in Trxns : y # x => asked2[y] = open[y])
                       => Answered(sgw, v, q, open, asked2)
  BY AnsweredSession
<1>2. /\ sgw \in Program /\ Sound(sgw) /\ Orderly(sgw, open, view, env)
      /\ view \in [Blocks -> Known \cup {None}]
  BY DEF InOrder
<1>3. w = HandleCreateNack(v, x, b, stack)
  BY <1>1 DEF OnS5
<1>4. Commit(Purge(w, b), open)
  OBVIOUS
<1> HIDE DEF w
<1>5. Done(w, b) /\ ~ w.aborted /\ Silenced(v, w, x, b, stack)
  <2>1. /\ ~ v.aborted /\ v.answer = None /\ b \in Blocks /\ x \in Trxns
        /\ Going(v, b) /\ UeOK(v, b) /\ v.ue[b].state = "WT_CREATE"
    BY <1>1
  <2> HIDE DEF x
  <2> QED BY <1>3, <2>1, CreateNackEffect
<1>6. /\ w \in Program /\ w.ue[b].state # "END" /\ w.answer = AnswerOf(x, b, told)
      /\ told \in Causes /\ told # "accepted"
  BY Zenon, <1>5 DEF Done, Going, Silenced, SilentUe, AnswerOf, Causes
<1>7. Commit(w, open)
  <2>1. Purge(w, b) = w
    BY Zenon, <1>6 DEF Purge
  <2> QED BY <1>4, <2>1
<1> HIDE DEF x, told
<1>8. /\ ~ sgw'.aborted /\ Alike(w, sgw')
      /\ open'[x] = None /\ \A y \in Trxns : y # x => open'[y] = open[y]
      /\ view'[b] = Told(view[b], open[x], told)
      /\ \A d \in Blocks \ {b} : view'[d] = view[d]
      /\ view' \in [Blocks -> Known \cup {None}]
  BY <1>1, <1>5, <1>6, <1>7, CommitPgwAnswer
<1>9. view' = view
  <2>1. Told(view[b], open[x], told) = view[b]
    BY <1>6, ToldNothing
  <2>2. \A d \in Blocks : view'[d] = view[d]
    BY <1>8, <2>1
  <2> QED BY <1>2, <1>8, <2>2
<1>10. Answered(sgw, v, q, open, open')
  BY <1>1, <1>8
<1>11. Orderly(w, open', view, env)
  BY <1>2, <1>5, <1>6, <1>8, <1>10, OrderlySilenced DEF x
<1>12. Orderly(w, open', view', env)
  BY <1>9, <1>11
<1> QED BY <1>8, <1>12, OrderlyAlike

LEMMA ReleasedInOrder ==
  ASSUME InOrder, NEW q \in sgw.sent, q.kind = "delete", NEW v, v = Taken(sgw, q),
         NEW b, b = sgw.tun[q.chunk], NEW ebi, NEW stack, NEW told, told = "accepted",
         Commit(Purge(OnS5(v, q.trxn, b, q.kind, told, ebi, stack), b), open)
  PROVE  ~ sgw'.aborted /\ Orderly(sgw', open', view', env)
<1> DEFINE w == OnS5(v, q.trxn, b, q.kind, told, ebi, stack)
           t == Purge(w, b)
           x == q.trxn
<1>1. /\ v \in Program /\ ~ v.aborted /\ v.answer = None /\ b \in Blocks
      /\ Going(v, b) /\ Live(v, b) /\ b \in v.sgwRbt /\ ~ v.ue[b].pgw
      /\ v.ue[b].s5 \in v.s5Map \cup {None} /\ v.ue[b].s11 \in v.s11Map \cup {None}
      /\ x \in Trxns /\ open[x] \in Request /\ open[x] # None
      /\ v.ue[b].state = "WT_DELETE" /\ open[x] \in DeleteRequest
      /\ \A asked2 : (\A y \in Trxns : y # x => asked2[y] = open[y])
                       => Answered(sgw, v, q, open, asked2)
  BY AnsweredSession
<1>2. /\ sgw \in Program /\ Sound(sgw) /\ Orderly(sgw, open, view, env)
  BY DEF InOrder
<1>3. w = HandleDeleteAnswer(v, x, b, told)
  BY <1>1 DEF OnS5
<1>4. Commit(t, open)
  OBVIOUS
<1> HIDE DEF w
<1>5. Done(w, b) /\ ~ w.aborted /\ SgwReleased(v, w, x, b)
  <2>1. told # "unreadable"
    OBVIOUS
  <2> QED BY <1>1, <1>3, <2>1, DeleteAnswerEffect
<1>6. /\ w.ue[b].state = "END" /\ Live(w, b) /\ ~ w.ue[b].pgw
      /\ w.ue[b].s11 \in w.s11Map \cup {None} /\ w.ue[b].s5 \in w.s5Map \cup {None}
      /\ w.answer = AnswerOf(x, b, told) /\ told \in Causes
  BY <1>1, <1>5 DEF SgwReleased, SameMemory, SameTunnels, Live, AnswerOf, Causes
<1>7. t \in Program /\ ~ t.aborted /\ Removed(w, t, b)
  BY <1>1, <1>5, <1>6, PurgeEffect DEF Done
<1> HIDE DEF t
<1>8. t.answer = AnswerOf(x, b, told)
  BY <1>6, <1>7 DEF Removed
<1> HIDE DEF x
<1>9. /\ ~ sgw'.aborted /\ Alike(t, sgw')
      /\ open'[x] = None /\ \A y \in Trxns : y # x => open'[y] = open[y]
      /\ view'[b] = Told(view[b], open[x], told)
      /\ \A d \in Blocks \ {b} : view'[d] = view[d]
  <2>1. x \in Trxns /\ open[x] # None /\ b \in Blocks
    BY <1>1
  <2>2. t \in Program /\ ~ t.aborted /\ told \in Causes
    BY <1>6, <1>7
  <2> QED BY <1>4, <1>8, <2>1, <2>2, CommitPgwAnswer
<1>10. view'[b] = None
  <2>1. Told(view[b], open[x], "accepted") = None
    BY <1>1, ToldSo
  <2> QED BY <1>9, <2>1
<1>11. Answered(sgw, v, q, open, open')
  BY <1>1, <1>9
<1>12. Orderly(t, open', view', env)
  <2> DEFINE asked2 == open'
             known2 == view'
  <2>1. Answered(sgw, v, q, open, asked2) /\ asked2[q.trxn] = None
    BY <1>9, <1>11 DEF x
  <2>2. t \in Program /\ SgwReleased(v, w, x, b) /\ Removed(w, t, b)
    BY <1>5, <1>7
  <2>3. known2[b] = None /\ \A d \in Blocks \ {b} : known2[d] = view[d]
    BY <1>9, <1>10
  <2> HIDE DEF asked2, known2
  <2>4. Orderly(t, asked2, known2, env)
    BY <2>1, <2>2, <2>3, ReleasedHere
  <2> QED BY <2>4 DEF asked2, known2
<1> QED BY <1>9, <1>12, OrderlyAlike

LEMMA ForgottenInOrder ==
  ASSUME InOrder, env = "silent", NEW q \in sgw.sent, q.kind = "delete",
         NEW v, v = Taken(sgw, q), NEW b, b = sgw.tun[q.chunk],
         NEW ebi, NEW stack, NEW cause, cause = "silence",
         Commit(Purge(OnS5(v, q.trxn, b, q.kind, cause, ebi, stack), b), open)
  PROVE  ~ sgw'.aborted /\ Orderly(sgw', open', view', env)
<1> DEFINE w == OnS5(v, q.trxn, b, q.kind, cause, ebi, stack)
           t == Purge(w, b)
<1>1. /\ v \in Program /\ ~ v.aborted /\ v.answer = None /\ b \in Blocks
      /\ Going(v, b) /\ Live(v, b) /\ ~ v.ue[b].pgw /\ v.sent = sgw.sent \ {q}
      /\ v.ue[b].s5 \in v.s5Map \cup {None} /\ v.ue[b].s11 \in v.s11Map \cup {None}
      /\ v.ue[b].state = "WT_DELETE"
      /\ \A asked2 : (\A y \in Trxns : y # q.trxn => asked2[y] = open[y])
                       => Answered(sgw, v, q, open, asked2)
  BY AnsweredSession
<1>2. /\ sgw \in Program /\ Sound(sgw) /\ Orderly(sgw, open, view, env)
  BY DEF InOrder
<1>3. w = Goto(v, b, "END")
  BY <1>1 DEF OnS5, Unexpected
<1>4. Commit(t, open)
  OBVIOUS
<1> HIDE DEF w
<1>5. /\ Plain(v, w, b) /\ w.ue[b].state = "END" /\ w.aborted = v.aborted
      /\ w.flows = v.flows /\ w.answer = v.answer
  <2>1. "END" \in States
    BY DEF States
  <2>2. Plain(v, w, b) /\ w.ue[b].state = "END"
    BY <1>1, <1>3, <2>1, GotoPlain
  <2>3. v \in Program /\ b \in Blocks
    BY <1>1
  <2>4. w.aborted = v.aborted /\ w.flows = v.flows /\ w.answer = v.answer
    BY ZenonT(60), <1>3, <2>1, <2>3, GotoEffect
  <2> QED BY <2>2, <2>4
<1>6. Going(w, b)
  BY <1>1, <1>5, PlainGoing
<1>7. /\ Live(w, b) /\ ~ w.ue[b].pgw /\ ~ w.aborted
      /\ w.ue[b].s11 \in w.s11Map \cup {None} /\ w.ue[b].s5 \in w.s5Map \cup {None}
  BY <1>1, <1>5 DEF Plain, SameBases, SameMemory, SameTunnels, Live
<1>8. t \in Program /\ ~ t.aborted /\ Removed(w, t, b)
  BY <1>1, <1>5, <1>6, <1>7, PurgeEffect
<1> HIDE DEF t
<1>9. t.answer = None
  BY <1>1, <1>5, <1>8 DEF Removed
<1>10. sgw' = t /\ open' = open /\ view' = view
  BY <1>4, <1>9, CommitQuiet
<1>11. Leaving(open, b) /\ AnsweredOK(v, open, env)
  BY <1>1, <1>2, Unanswered
<1>12. Orderly(t, open, view, env)
  <2> DEFINE asked2 == open
             known2 == view
  <2>1. /\ Answered(sgw, v, q, open, asked2) /\ asked2[q.trxn] \in {None, open[q.trxn]}
        /\ Leaving(asked2, b) /\ AnsweredOK(v, asked2, env)
        /\ \A d \in Blocks \ {b} : known2[d] = view[d]
    BY <1>1, <1>11
  <2> HIDE DEF asked2, known2
  <2>2. Orderly(t, asked2, known2, env)
    BY <1>2, <1>5, <1>8, <2>1, OrderlyForgotten
  <2> QED BY <2>2 DEF asked2, known2
<1> QED BY <1>8, <1>10, <1>12

\* A request of an MME that behaves.
LEMMA MmeRequestInOrder ==
  ASSUME InOrder, faults = 0, NEW x \in Trxns, NEW r \in Request, MmeRequest(x, r)
  PROVE  ~ sgw'.aborted /\ Orderly(sgw', open', view', env)
<1> DEFINE asked == [open EXCEPT ![x] = r]
<1>1. /\ sgw \in Program /\ Sound(sgw) /\ open \in [Trxns -> Request \cup {None}]
  BY DEF InOrder
<1>2. open[x] = None /\ SentByOrderlyMme(r)
  BY DEF MmeRequest, Behaves
<1>3. /\ asked \in [Trxns -> Request \cup {None}] /\ asked[x] = r
      /\ \A y \in Trxns : y # x => asked[y] = open[y]
  BY <1>1
<1>4. r.flaw = "none" /\ (r.kind # "delete" => r.ebi = 5)
  BY <1>2 DEF SentByOrderlyMme
<1>5. CASE r.kind = "create"
  <2> DEFINE b == NewUe(sgw).block
             n == NewUe(sgw).state
  <2>1. r \in CreateRequest
    BY <1>5 DEF Request, SessionRequest, ModifyRequest, DeleteRequest
  <2>2. HasMemory(sgw) /\ Commit(Purge(OnS11(n, x, b, r), b), asked)
    BY <1>5 DEF MmeRequest
  <2> HIDE DEF asked
  <2>3. n.ue[b] = BlankUe
    BY <1>1, <2>2, GoingNewUe
  <2>4. OnS11(n, x, b, r) = HandleCreate(n, x, b, r)
    BY <1>5, <2>3 DEF OnS11, BlankUe
  <2>5. r.local => sgw.pool # <<>>
    BY <1>2, <1>5 DEF SentByOrderlyMme
  <2>6. Commit(Purge(HandleCreate(n, x, b, r), b), asked)
    BY <2>2, <2>4
  <2> QED BY <1>2, <1>3, <1>4, <1>5, <2>1, <2>2, <2>5, <2>6, CreateInOrder
<1>6. CASE r.kind # "create"
  <2> DEFINE b == r.teid
  <2>1. r \in ModifyRequest \/ r \in DeleteRequest
    BY <1>6 DEF Request, SessionRequest, CreateRequest
  <2>2. b \in Blocks
    BY <2>1 DEF ModifyRequest, DeleteRequest
  <2>3. Commit(Purge(OnS11(sgw, x, b, r), b), asked)
    BY <1>6 DEF MmeRequest
  <2>4. view[b] # None
    BY <1>2, <1>6 DEF SentByOrderlyMme
  <2>5. ~ Leaving(open, b)
    BY <1>2, <1>6 DEF SentByOrderlyMme, Leaving
  <2> HIDE DEF asked
  <2>6. CASE r \in ModifyRequest
    <3>1. r.ebi = 5
      BY <1>4, <2>6 DEF ModifyRequest
    <3> QED BY <1>2, <1>3, <1>4, <2>2, <2>3, <2>4, <2>5, <2>6, <3>1, ModifyInOrder
  <2>7. CASE r \in DeleteRequest
    BY <1>2, <1>3, <1>4, <2>2, <2>3, <2>4, <2>5, <2>7, DeleteInOrder
  <2> QED BY <2>1, <2>6, <2>7
<1> QED BY <1>5, <1>6

\* An answer of a PGW that accepts every request, or is silent.
LEMMA PgwAnswerInOrder ==
  ASSUME InOrder, env \in {"orderly", "silent"}, faults = 0, NEW q \in sgw.sent,
         NEW cause \in PgwAnswers, NEW ebi \in Ebis, NEW stack \in {None, Garbage},
         PgwAnswer(q, cause, ebi, stack)
  PROVE  ~ sgw'.aborted /\ Orderly(sgw', open', view', env)
<1> DEFINE v == Taken(sgw, q)
           b == sgw.tun[q.chunk]
<1>1. Commit(Purge(OnS5(v, q.trxn, b, q.kind, cause, ebi, stack), b), open)
  BY DEF PgwAnswer, Taken
<1>2. (cause = "accepted" /\ ebi = 5) \/ (cause = "silence" /\ env = "silent")
  BY DEF PgwAnswer, Behaves
<1>3. q.kind \in {"create", "delete"}
  BY DEF InOrder, Program, S5Request
<1> HIDE DEF v, b
<1>4. v = Taken(sgw, q) /\ b = sgw.tun[q.chunk]
  BY DEF v, b
<1>5. CASE cause = "accepted" /\ ebi = 5 /\ q.kind = "create"
  BY <1>1, <1>4, <1>5, AcceptedInOrder
<1>6. CASE cause = "accepted" /\ q.kind = "delete"
  BY <1>1, <1>4, <1>6, ReleasedInOrder
<1>7. CASE cause = "silence" /\ q.kind = "create"
  BY <1>1, <1>4, <1>7, SilencedInOrder
<1>8. CASE cause = "silence" /\ q.kind = "delete"
  BY <1>1, <1>2, <1>4, <1>8, ForgottenInOrder
<1> QED BY <1>2, <1>3, <1>5, <1>6, <1>7, <1>8

LEMMA InitOrderlyInv ==
  ASSUME Init
  PROVE  OrderlyInv
<1>1. PICK list \in [1 .. Cardinality(LocalPool) -> LocalPool] :
        /\ IsInjective(list)
        /\ sgw = [mem |-> [b \in Blocks |-> "fresh"], memPool |-> <<>>,
                  ue |-> [b \in Blocks |-> BlankUe],
                  sgwRbt |-> {}, pgwRbt |-> {}, pool |-> list,
                  tun |-> [c \in Chunks |-> None], tunPool |-> <<>>,
                  s11Map |-> {}, s5Map |-> {}, flows |-> {}, sent |-> {},
                  answer |-> None, aborted |-> FALSE]
  BY DEF Init
<1>2. /\ sgw.mem = [b \in Blocks |-> "fresh"] /\ sgw.sgwRbt = {} /\ sgw.pgwRbt = {}
      /\ sgw.flows = {} /\ sgw.sent = {} /\ ~ sgw.aborted /\ IsInjective(sgw.pool)
  BY <1>1
<1>3. /\ open = [t \in Trxns |-> None] /\ view = [b \in Blocks |-> None]
      /\ (env # "faulty" => faults = 0)
  BY DEF Init
<1>4. \A b \in Blocks : ~ Live(sgw, b) /\ ~ HasFlows(sgw, b)
  BY <1>2 DEF Live, HasFlows
<1>5. FlowsOK(sgw) /\ DistinctOK(sgw) /\ ServesOK(sgw, open)
  BY <1>2, <1>4 DEF FlowsOK, DistinctOK, ServesOK
<1>6. KnownOK(sgw, open, view)
  BY <1>3, <1>4 DEF KnownOK, KnownUe
<1>7. AnsweredOK(sgw, open, env)
  BY <1>3 DEF AnsweredOK
<1> QED BY <1>2, <1>3, <1>4, <1>5, <1>6, <1>7 DEF OrderlyInv, Orderly

LEMMA NextOrderlyInv ==
  ASSUME SessionInv, OrderlyInv, [Next]_vars
  PROVE  OrderlyInv'
<1> SUFFICES ASSUME env' # "faulty"
             PROVE  ~ sgw'.aborted /\ faults' = 0 /\ Orderly(sgw', open', view', env')
  BY DEF OrderlyInv
<1>1. env' = env
  BY DEF Next, MmeRequest, PgwAnswer, PgwRequest, vars
<1>2. ~ sgw.aborted /\ faults = 0 /\ Orderly(sgw, open, view, env)
  BY <1>1 DEF OrderlyInv
<1>3. InOrder /\ env \in {"orderly", "silent"}
  BY <1>1, <1>2 DEF SessionInv, TypeOK, InOrder, Request, Known, Environments
<1>4. faults' = 0
  <2>1. \A proper : Behaves(proper) => faults' = 0
    BY <1>2 DEF Behaves
  <2>2. (\E proper : Behaves(proper)) \/ UNCHANGED vars
    BY DEF Next, MmeRequest, PgwAnswer, PgwRequest
  <2> QED BY <1>2, <2>1, <2>2 DEF vars
<1>5. ASSUME NEW x \in Trxns, NEW r \in Request, MmeRequest(x, r)
      PROVE  ~ sgw'.aborted /\ Orderly(sgw', open', view', env)
  BY <1>2, <1>3, <1>5, MmeRequestInOrder
<1>6. ASSUME NEW q \in sgw.sent, NEW cause \in PgwAnswers, NEW ebi \in Ebis,
             NEW stack \in {None, Garbage}, PgwAnswer(q, cause, ebi, stack)
      PROVE  ~ sgw'.aborted /\ Orderly(sgw', open', view', env)
  BY <1>2, <1>3, <1>6, PgwAnswerInOrder
<1>7. ~ PgwRequest
  BY <1>2 DEF PgwRequest, Behaves
<1>8. ASSUME UNCHANGED vars
      PROVE  ~ sgw'.aborted /\ Orderly(sgw', open', view', env)
  <2>1. sgw' = sgw /\ open' = open /\ view' = view
    BY <1>8 DEF vars
  <2> QED BY <1>2, <2>1
<1>9. ~ sgw'.aborted /\ Orderly(sgw', open', view', env)
  BY <1>5, <1>6, <1>7, <1>8 DEF Next, Request
<1> QED BY <1>1, <1>4, <1>9

-----------------------------------------------------------------------------
(* Theorems about an MME that behaves *)

\* While the MME behaves, and PGWs accept every request or are silent, no
\* assertion fails, the sessions are as their states say, the flows of the data
\* plane are theirs, and each agrees with what the MME knows and has asked
\* (NwSaeGwUlp.c:1276-1635).
THEOREM SessionsAreOrderly == Spec => []OrderlyInv
<1>1. Init => SessionInv /\ OrderlyInv
  BY InitSessionInv, InitOrderlyInv
<1>2. (SessionInv /\ OrderlyInv) /\ [Next]_vars => (SessionInv /\ OrderlyInv)'
  BY NextSessionInv, NextOrderlyInv
<1>3. SessionInv /\ OrderlyInv => OrderlyInv
  OBVIOUS
<1> QED BY <1>1, <1>2, <1>3, PTL DEF Spec

\* Two sessions never have the same IMSI, and no assertion of the data plane,
\* of the registry or of the memory manager fails, while the MME behaves
\* (NwSaeGwUlp.c:1286, NwSaeGwUlp.c:1345, NwGtpv1u.c:327, NwMem.c:146).
THEOREM SessionsAreDistinct == Spec => []OneSessionPerImsi
<1>1. OrderlyInv => OneSessionPerImsi
  BY DEF OrderlyInv, Orderly, DistinctOK, OneSessionPerImsi
<1> QED BY <1>1, SessionsAreOrderly, PTL

\* What the MME has been told of a session is so: it is registered and reachable
\* over S11, and its traffic has flows that follow the last Modify Bearer
\* Request (NwSaeGwUlp.c:1561-1635).
THEOREM MmeIsTold == Spec => []MmeViewIsTrue
<1>1. ASSUME SessionInv, OrderlyInv, env # "faulty", NEW b \in Blocks, view[b] # None,
             ~ Leaving(open, b)
      PROVE  /\ b \in sgw.sgwRbt /\ sgw.ue[b].imsi = view[b].imsi
             /\ \E c \in sgw.s11Map : sgw.tun[c] = b
             /\ \E f \in sgw.flows : f.in = SgwUplinkAt(b, 5)
             /\ view[b].enb # None =>
                  \E f \in sgw.flows : f.in = sgw.ue[b].down /\ f.out = view[b].enb
  <2>1. /\ InOrder /\ Orderly(sgw, open, view, env) /\ TunnelsOK(sgw)
    BY <1>1 DEF OrderlyInv, InOrder, SessionInv, TypeOK, Request, Known, Sound
  <2>2. /\ HasFlows(sgw, b) /\ Live(sgw, b) /\ SessionOK(sgw, b) /\ FlowsReady(sgw, b)
        /\ b \in sgw.sgwRbt /\ sgw.ue[b].s11 \in sgw.s11Map
    BY <1>1, <2>1, AddressedSession
  <2>3. sgw.ue[b].imsi = view[b].imsi
        /\ (view[b].enb # None =>
             \E f \in sgw.flows : f.in = sgw.ue[b].down /\ f.out = view[b].enb)
    BY <1>1, <2>1 DEF Orderly, KnownOK, KnownUe
  <2>4. sgw.tun[sgw.ue[b].s11] = b
    BY <2>1, <2>2 DEF TunnelsOK
  <2>5. \E f \in sgw.flows : f.in = SgwUplinkAt(b, 5)
    <3>1. sgw.ue[b].up \in Ends(sgw.ue[b])
      BY <2>1, <2>2, SessionEnds DEF InOrder
    <3>2. sgw.ue[b].up = SgwUplinkAt(b, 5)
      BY <2>2 DEF SessionOK
    <3> QED BY <2>2, <3>1, <3>2 DEF FlowsReady
  <2> QED BY <2>2, <2>3, <2>4, <2>5
<1>2. SessionInv /\ OrderlyInv => MmeViewIsTrue
  BY <1>1 DEF MmeViewIsTrue, Leaving
<1> QED BY <1>2, SessionsAreSound, SessionsAreOrderly, PTL

\* A request that waits for its answer is being served by a PGW; only a Delete
\* Session Request on which the PGW was silent is forgotten
\* (NwSaeGwUeStateAwaitPgwDeleteSessionRsp.c:178).
THEOREM RequestsAreServed == Spec => []NoRequestForgotten
<1>1. OrderlyInv => NoRequestForgotten
  BY DEF OrderlyInv, Orderly, AnsweredOK, NoRequestForgotten
<1> QED BY <1>1, SessionsAreOrderly, PTL
=============================================================================
