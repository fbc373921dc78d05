----------------------------- MODULE PgwSession -----------------------------
(***************************************************************************)
(* UE sessions of the PGW: what the worker threads do with the requests    *)
(* that the GTPv2-C stack indicates (nwSaeGwUlpPgwS5GtpcStackIndication),  *)
(* through the UE state machine, the IMSI registry, the address pool, the  *)
(* control tunnels of the stack and the flows of the data plane.           *)
(*                                                                         *)
(* A step is what a worker does under one mutex, or one unlocked look at   *)
(* shared state; everything a worker does between two such points touches  *)
(* only its own UE and request and goes with the step before it.  With one *)
(* worker the steps are the sequential program.                            *)
(*                                                                         *)
(* UEs live in blocks of the memory manager, which hands out the block     *)
(* freed last; a block keeps its content after it is freed.  The address   *)
(* of a block is the control TEID of its session, and of a field of it the *)
(* TEID of its bearer.                                                     *)
(***************************************************************************)
EXTENDS Naturals, Sequences, FiniteSets

CONSTANTS
  Workers,    \* UDP worker threads
  Blocks,     \* memory blocks for UEs; bound: as many as can be in use
  Imsis,
  Peers,      \* addresses of SGWs
  Ebis,       \* EPS bearer identities that requests carry
  StartIp,    \* first address of the address pool
  EndIp,      \* last address of the largest pool
  Inputs,     \* the kinds of request that arrive, a subset of RequestKinds
  None

RequestKinds ==
  {"create",              \* Create Session Request
   "create_unparsable",   \* ... a conditional IE is missing or incorrect
   "create_malformed",    \* ... the stack already found an error in it
   "delete",              \* Delete Session Request
   "delete_malformed",    \* ... the stack already found an error in it
   "other"}               \* Modify Bearer Request and the like

Addrs == StartIp .. EndIp

ASSUME SessionAssumption ==
  /\ StartIp \in Nat \ {0} /\ EndIp \in Nat
  /\ Ebis \subseteq 0 .. 15
  /\ Inputs \subseteq RequestKinds
  /\ None \notin Blocks \cup Imsis \cup Peers \cup Ebis \cup Addrs
  /\ None \notin {"accepted", "rejected", "error"}

\* The free list that nwIpv4PoolMgrNew builds: the last address comes first.
PoolList(last) == [i \in 1 .. last + 1 - StartIp |-> last + 1 - i]

\* Addresses ending in .0 or .255, which are never given to a UE.
Skipped == {a \in Addrs : a % 256 \in {0, 255}}

VARIABLES
  mem,              \* status of each block: fresh, allocated or free
  memPool,          \* the freed blocks, last freed first
  ue,               \* the content of each block
  uePgwSessionRbt,  \* registry: blocks of the registered UEs, by IMSI
  pFreePool,        \* free list of the address pool
  tunnelMap,        \* control tunnels: pairs of local TEID and remote address
  teidMap,          \* GTP-U endpoints, by TEID
  ipv4AddrMap,      \* IPv4 endpoints, by UE address
  pc, pUe, req,     \* per worker: where it is, its UE, its request
  cause,            \* per worker: the cause it sends, None before
  peerSessions,     \* sessions the peers know to be open
  aborted,          \* an NW_ASSERT has failed, the process is gone
  endIp,            \* last address of the pool, as configured
  orderly           \* never changes; TRUE: peers send a request for a session
                    \* only when they have seen it opened, and wait for an
                    \* answer before the next; FALSE: they send any request,
                    \* one at a time

stores == <<mem, memPool, uePgwSessionRbt, pFreePool, tunnelMap, teidMap,
            ipv4AddrMap>>
world  == <<peerSessions, aborted, endIp, orderly>>
vars   == <<stores, ue, pc, pUe, req, cause, world>>

BlankUe == [state |-> "INIT", imsi |-> None, pgw |-> FALSE, addr |-> None,
            ebi |-> None, uplink |-> FALSE, downlink |-> FALSE, tunnel |-> None]

UeRecord ==
  [state : {"INIT", "CREATED", "END"}, imsi : Imsis \cup {None},
   pgw : BOOLEAN,                  \* sessionType has the PGW bit
   addr : Addrs \cup {None},       \* paa.ipv4Addr, None is 0
   ebi : Ebis \cup {None},         \* the valid bearer
   uplink : BOOLEAN,               \* its uplink flow has an endpoint
   downlink : BOOLEAN,             \* its downlink flow has an endpoint
   tunnel : Peers \cup {None}]     \* hPgwLocalTunnel

Creates == Inputs \cap {"create", "create_unparsable", "create_malformed"}

\* A request: teid is the control TEID it is addressed to, None for 0; imsi
\* and ebi are None where the program does not look at them.
Request ==
  [kind : Creates, imsi : Imsis, ebi : Ebis, peer : Peers, teid : {None}]
    \cup
  [kind : Inputs \ Creates, imsi : {None}, ebi : {None}, peer : Peers,
   teid : Blocks \cup {None}]
    \cup
  [kind : Creates, imsi : {None}, ebi : {None}, peer : Peers, teid : Blocks]
    \cup
  [kind : Inputs \cap {"delete_malformed"}, imsi : Imsis, ebi : {None},
   peer : Peers, teid : Blocks]

PC == {"idle", "new", "fsm", "register", "alloc", "pop", "uplink", "downlink",
       "rmdown", "rmup", "dereg", "freeaddr", "respond", "tunnel", "destroy",
       "destroy_dereg", "destroy_freeaddr", "deltunnel", "free"}

\* The pool of orderly peers, whose requests interleave, has an address for every
\* UE: two workers that take the last one at once end in a null dereference.
Init ==
  /\ orderly \in BOOLEAN
  /\ endIp \in IF orderly THEN {EndIp} ELSE StartIp .. EndIp
  /\ mem = [b \in Blocks |-> "fresh"]
  /\ memPool = <<>>
  /\ ue = [b \in Blocks |-> BlankUe]
  /\ uePgwSessionRbt = {}
  /\ pFreePool = PoolList(endIp)
  /\ tunnelMap = {} /\ teidMap = {} /\ ipv4AddrMap = {}
  /\ pc = [w \in Workers |-> "idle"]
  /\ pUe = [w \in Workers |-> None]
  /\ req = [w \in Workers |-> None]
  /\ cause = [w \in Workers |-> None]
  /\ peerSessions = {}
  /\ aborted = FALSE

TypeOK ==
  /\ mem \in [Blocks -> {"fresh", "allocated", "free"}]
  /\ memPool \in Seq(Blocks)
  /\ ue \in [Blocks -> UeRecord]
  /\ uePgwSessionRbt \subseteq Blocks
  /\ pFreePool \in Seq(Addrs)
  /\ tunnelMap \subseteq Blocks \X Peers
  /\ teidMap \subseteq Blocks \X Ebis
  /\ ipv4AddrMap \subseteq Addrs
  /\ pc \in [Workers -> PC]
  /\ pUe \in [Workers -> Blocks \cup {None}]
  /\ req \in [Workers -> Request \cup {None}]
  /\ cause \in [Workers -> {None, "accepted", "rejected", "error"}]
  /\ peerSessions \subseteq Blocks
  /\ aborted \in BOOLEAN
  /\ endIp \in 0 .. EndIp
  /\ orderly \in BOOLEAN

-----------------------------------------------------------------------------
At(w, label) == pc[w] = label /\ ~ aborted

Goto(w, label) == pc' = [pc EXCEPT ![w] = label]

\* An NW_ASSERT fails, or freed memory is used in a way that corrupts a tree or
\* a list: the process is gone or may as well be.
Abort ==
  /\ aborted' = TRUE
  /\ UNCHANGED <<stores, ue, pc, pUe, req, cause, peerSessions, endIp, orderly>>

-----------------------------------------------------------------------------
(* The request arrives. *)

\* The IMSI that the request of worker w is about.
ImsiOf(w) == IF req[w].teid = None THEN req[w].imsi ELSE ue[req[w].teid].imsi

\* The request of worker w has not been answered yet.
Waiting(w) == pc[w] # "idle" /\ (cause[w] = None \/ pc[w] = "respond")

ExpectedBearer == 5

\* An orderly peer knows the session it addresses, asks for no default bearer
\* above the one that the PGW will remove, opens a session
\* for an IMSI only when no other request for that IMSI waits for its answer, and
\* sends one request at a time for a session.
SentByOrderlyPeer(r) ==
  /\ r.kind \in {"create", "create_malformed", "delete"}
  /\ r.ebi # None => r.ebi <= ExpectedBearer
  /\ r.teid # None => r.teid \in peerSessions /\ r.kind \notin Creates
  /\ r.teid = None => r.kind \in Creates
  /\ \A w \in Workers :
       Waiting(w) =>
         IF r.teid = None THEN ImsiOf(w) # r.imsi ELSE pUe[w] # r.teid

\* nwGtpv2cHandleInitialReq: a request to a TEID goes to the session of its
\* tunnel, or is discarded; a request to TEID 0 goes to a new session.
Receive(w, r) ==
  /\ At(w, "idle")
  /\ IF orderly THEN SentByOrderlyPeer(r) ELSE \A v \in Workers : pc[v] = "idle"
  /\ r.teid # None => <<r.teid, r.peer>> \in tunnelMap
  /\ req' = [req EXCEPT ![w] = r]
  /\ pUe' = [pUe EXCEPT ![w] = r.teid]
  /\ cause' = [cause EXCEPT ![w] = None]
  /\ Goto(w, IF r.teid = None THEN "new" ELSE "fsm")
  /\ UNCHANGED <<stores, ue, world>>

\* nwSaeGwUlpCreateUeSession, nwSaeGwUeNew: a zeroed block.
NewUe(w) ==
  /\ At(w, "new")
  /\ \E b \in Blocks :
       /\ IF memPool # <<>>
          THEN b = Head(memPool) /\ memPool' = Tail(memPool)
          ELSE mem[b] = "fresh" /\ UNCHANGED memPool
       /\ mem' = [mem EXCEPT ![b] = "allocated"]
       /\ ue' = [ue EXCEPT ![b] = BlankUe]
       /\ pUe' = [pUe EXCEPT ![w] = b]
  /\ Goto(w, "fsm")
  /\ UNCHANGED <<uePgwSessionRbt, pFreePool, tunnelMap, teidMap, ipv4AddrMap,
                 req, cause, world>>

-----------------------------------------------------------------------------
(* nwSaeGwUeFsmRun: the handler of the event in the state of the UE. *)

Handler(w) ==
  LET state == ue[pUe[w]].state
      kind  == req[w].kind
  IN  CASE state = "INIT" /\ kind \in Creates -> kind
        [] state = "CREATED" /\ kind \in {"delete", "delete_malformed"} -> kind
        [] OTHER -> "unexpected"

Decide(w, c) == cause' = [cause EXCEPT ![w] = c]

\* The error answer to a request with a bad conditional IE carries the cause
\* the stack put in the indication, which is "accepted", and not the one the
\* handler has just computed.
UnparsableCause == "accepted"

\* nwSaeGwUeUnexpectedEvent: no answer.
Unexpected(w) ==
  /\ At(w, "fsm") /\ Handler(w) = "unexpected"
  /\ ue' = [ue EXCEPT ![pUe[w]].state = "END"]
  /\ Goto(w, "destroy")
  /\ UNCHANGED <<stores, pUe, req, cause, world>>

\* nwSaeGwUeHandlePgwS5CreateSessionRequest, up to the registration.
HandleCreate(w) ==
  /\ At(w, "fsm") /\ Handler(w) \in Creates
  /\ CASE Handler(w) = "create" ->
             /\ ue' = [ue EXCEPT ![pUe[w]].imsi = req[w].imsi]
             /\ Goto(w, "register")
             /\ UNCHANGED cause
       [] Handler(w) = "create_unparsable" ->
             /\ \E i \in {req[w].imsi, None} :
                  ue' = [ue EXCEPT ![pUe[w]] =
                           [@ EXCEPT !.imsi = i, !.state = "END"]]
             /\ Decide(w, UnparsableCause)
             /\ Goto(w, "respond")
       [] Handler(w) = "create_malformed" ->
             /\ ue' = [ue EXCEPT ![pUe[w]].state = "END"]
             /\ Decide(w, "error")
             /\ Goto(w, "respond")
  /\ UNCHANGED <<stores, pUe, req, world>>

\* nwSaeGwUeHandlePgwS5DeleteSessionRequest, up to the data plane.  A request
\* with an error overwrites the IMSI of the UE if it carries one.
HandleDelete(w) ==
  /\ At(w, "fsm") /\ Handler(w) \in {"delete", "delete_malformed"}
  /\ IF Handler(w) = "delete"
     THEN Goto(w, "rmdown") /\ UNCHANGED <<ue, cause>>
     ELSE /\ ue' = [ue EXCEPT ![pUe[w]].imsi =
                      IF req[w].imsi = None THEN @ ELSE req[w].imsi]
          /\ Decide(w, "error")
          /\ Goto(w, "respond")
  /\ UNCHANGED <<stores, pUe, req, world>>

-----------------------------------------------------------------------------
(* Creating a session: nwSaeGwUlpRegisterPgwUeSession, the bearer. *)

\* The registry finds another UE with the same IMSI.
Collides(b) == \E c \in uePgwSessionRbt : ue[c].imsi = ue[b].imsi

FaultyReject(w) == Decide(w, "accepted") /\ Goto(w, "respond")

Reject(w) == Decide(w, "rejected") /\ Goto(w, "respond")

Register(w) ==
  /\ At(w, "register")
  /\ IF Collides(pUe[w])
     THEN /\ ue' = [ue EXCEPT ![pUe[w]].state = "END"]
          /\ Reject(w)
          /\ UNCHANGED uePgwSessionRbt
     ELSE /\ uePgwSessionRbt' = uePgwSessionRbt \cup {pUe[w]}
          /\ ue' = [ue EXCEPT ![pUe[w]].pgw = TRUE]
          /\ Goto(w, "alloc")
          /\ UNCHANGED cause
  /\ UNCHANGED <<mem, memPool, pFreePool, tunnelMap, teidMap, ipv4AddrMap, pUe,
                 req, world>>

\* nwIpv4PoolMgrAlloc looks whether the pool is empty without the mutex.
LookAtPool(w) ==
  /\ At(w, "alloc")
  /\ IF pFreePool = <<>>
     THEN /\ ue' = [ue EXCEPT ![pUe[w]] =
                      [@ EXCEPT !.addr = None, !.state = "END"]]
          /\ Reject(w)
     ELSE Goto(w, "pop") /\ UNCHANGED <<ue, cause>>
  /\ UNCHANGED <<stores, pUe, req, world>>

FaultyGoodEbi(b, ebi) == ebi > 5 /\ ue[b].ebi # ebi   \* off by one

GoodEbi(b, ebi) == ebi > 4 /\ ue[b].ebi # ebi

RestOfPool == Tail(pFreePool)

\* ... and takes the head of the free list under it: a null dereference if the
\* list has become empty.  An address ending in .0 or .255 is dropped.
PopAddress(w) ==
  /\ At(w, "pop")
  /\ IF pFreePool = <<>> THEN Abort ELSE
     LET a == Head(pFreePool) IN
       /\ pFreePool' = RestOfPool
       /\ CASE a \in Skipped ->
                  Goto(w, "alloc") /\ UNCHANGED <<ue, cause>>
            [] a \notin Skipped /\ GoodEbi(pUe[w], req[w].ebi) ->
                  /\ ue' = [ue EXCEPT ![pUe[w]] =
                              [@ EXCEPT !.addr = a, !.ebi = req[w].ebi]]
                  /\ Goto(w, "uplink")
                  /\ UNCHANGED cause
            [] OTHER ->
                  /\ ue' = [ue EXCEPT ![pUe[w]] =
                              [@ EXCEPT !.addr = a, !.state = "END"]]
                  /\ Reject(w)
       /\ UNCHANGED <<mem, memPool, uePgwSessionRbt, tunnelMap, teidMap,
                      ipv4AddrMap, pUe, req, world>>

\* nwSaeGwUlpInstallUplinkEpsBearer: the TEID is the address of a field of the
\* UE.  NwGtpv1uCreateTunnelEndPoint asserts that it is not in use.
InstallUplink(w) ==
  /\ At(w, "uplink")
  /\ LET endpoint == <<pUe[w], ue[pUe[w]].ebi>> IN
     IF endpoint \in teidMap THEN Abort ELSE
       /\ teidMap' = teidMap \cup {endpoint}
       /\ ue' = [ue EXCEPT ![pUe[w]].uplink = TRUE]
       /\ Goto(w, "downlink")
       /\ UNCHANGED <<mem, memPool, uePgwSessionRbt, pFreePool, tunnelMap,
                      ipv4AddrMap, pUe, req, cause, world>>

\* nwSaeGwUlpInstallDownlinkEpsBearer: if the address already has an endpoint,
\* NwIpv4CreateTunnelEndPoint fails and nwSdpCreateFlowEndPoint ignores it.
InstallDownlink(w) ==
  /\ At(w, "downlink")
  /\ LET a == ue[pUe[w]].addr IN
       /\ ipv4AddrMap' = ipv4AddrMap \cup {a}
       /\ ue' = [ue EXCEPT ![pUe[w]] =
                   [@ EXCEPT !.downlink = (a \notin ipv4AddrMap),
                             !.state = "CREATED"]]
  /\ Decide(w, "accepted")
  /\ Goto(w, "respond")
  /\ UNCHANGED <<mem, memPool, uePgwSessionRbt, pFreePool, tunnelMap, teidMap,
                 pUe, req, world>>

-----------------------------------------------------------------------------
(* Deleting a session. *)

FaultyDeletedBearer(w) == 6

\* The bearer whose flows are removed is not looked up.
DeletedBearer(w) == ExpectedBearer

\* nwSaeGwUlpRemoveDownlinkEpsBearer, nwSaeGwUlpRemoveUplinkEpsBearer: nothing
\* is removed if the bearer is not valid or its flow has no endpoint.
RemoveDownlink(w) ==
  /\ At(w, "rmdown")
  /\ LET u == ue[pUe[w]] IN
     IF u.ebi = DeletedBearer(w) /\ u.downlink
     THEN IF u.addr \in ipv4AddrMap
          THEN /\ ipv4AddrMap' = ipv4AddrMap \ {u.addr}
               /\ Goto(w, "rmup")
               /\ UNCHANGED <<mem, memPool, uePgwSessionRbt, pFreePool, tunnelMap,
                              teidMap, ue, pUe, req, cause, world>>
          ELSE Abort
     ELSE /\ Goto(w, "rmup")
          /\ UNCHANGED <<stores, ue, pUe, req, cause, world>>

RemoveUplink(w) ==
  /\ At(w, "rmup")
  /\ LET u == ue[pUe[w]] IN
     IF u.ebi = DeletedBearer(w) /\ u.uplink
     THEN IF <<pUe[w], u.ebi>> \in teidMap
          THEN /\ teidMap' = teidMap \ {<<pUe[w], u.ebi>>}
               /\ Goto(w, "dereg")
               /\ UNCHANGED <<mem, memPool, uePgwSessionRbt, pFreePool, tunnelMap,
                              ipv4AddrMap, ue, pUe, req, cause, world>>
          ELSE Abort
     ELSE /\ Goto(w, "dereg")
          /\ UNCHANGED <<stores, ue, pUe, req, cause, world>>

FaultyPgwAfterDeregister(b) == ue[b].pgw   \* the session type is not cleared

PgwAfterDeregister(b) == FALSE

\* nwSaeGwUlpPgwDeregisterUeSession, for a Delete Session Request or for a UE
\* that is destroyed while still registered.
Deregister(w) ==
  /\ At(w, "dereg") \/ At(w, "destroy_dereg")
  /\ IF pUe[w] \notin uePgwSessionRbt THEN Abort ELSE
       /\ uePgwSessionRbt' = uePgwSessionRbt \ {pUe[w]}
       /\ ue' = [ue EXCEPT ![pUe[w]].pgw = PgwAfterDeregister(pUe[w])]
       /\ Goto(w, IF pc[w] = "dereg" THEN "freeaddr" ELSE "destroy_freeaddr")
       /\ UNCHANGED <<mem, memPool, pFreePool, tunnelMap, teidMap, ipv4AddrMap,
                      pUe, req, cause, world>>

FaultyFreed(a) == <<>>   \* the address never goes back

Freed(a) == IF a = None THEN <<>> ELSE <<a>>

\* nwIpv4PoolMgrFree.
FreeAddress(w) ==
  /\ At(w, "freeaddr") \/ At(w, "destroy_freeaddr")
  /\ pFreePool' = Freed(ue[pUe[w]].addr) \o pFreePool
  /\ IF pc[w] = "freeaddr"
     THEN Decide(w, "accepted") /\ Goto(w, "respond")
     ELSE Goto(w, "deltunnel") /\ UNCHANGED cause
  /\ UNCHANGED <<mem, memPool, uePgwSessionRbt, tunnelMap, teidMap, ipv4AddrMap,
                 ue, pUe, req, world>>

-----------------------------------------------------------------------------
(* Answering, and destroying a UE whose state machine has ended. *)

Opens(w) == req[w].kind \in Creates /\ cause[w] = "accepted"

\* nwGtpv2cHandleUlpTriggeredRsp, up to the control tunnel: the answer is sent
\* before the tunnel exists.
Respond(w) ==
  /\ At(w, "respond")
  /\ IF Opens(w)
     THEN /\ Goto(w, "tunnel")
          /\ peerSessions' = peerSessions \cup {pUe[w]}
          /\ UNCHANGED ue
     ELSE /\ ue' = [ue EXCEPT ![pUe[w]].state = "END"]
          /\ Goto(w, "destroy")
          /\ peerSessions' = IF cause[w] = "accepted" THEN peerSessions \ {pUe[w]}
                             ELSE peerSessions
  /\ UNCHANGED <<stores, pUe, req, cause, aborted, endIp, orderly>>

\* Back to the receive queue.
Done(w) ==
  /\ Goto(w, "idle")
  /\ pUe' = [pUe EXCEPT ![w] = None]
  /\ req' = [req EXCEPT ![w] = None]
  /\ cause' = [cause EXCEPT ![w] = None]

\* nwGtpv2cCreateLocalTunnel: its TEID is the address of the UE.
CreateTunnel(w) ==
  /\ At(w, "tunnel")
  /\ LET tunnel == <<pUe[w], req[w].peer>> IN
     IF tunnel \in tunnelMap THEN Abort ELSE
       /\ tunnelMap' = tunnelMap \cup {tunnel}
       /\ ue' = [ue EXCEPT ![pUe[w]].tunnel = req[w].peer]
       /\ IF ue[pUe[w]].state = "END"
          THEN Goto(w, "destroy") /\ UNCHANGED <<pUe, req, cause>>
          ELSE Done(w)
       /\ UNCHANGED <<mem, memPool, uePgwSessionRbt, pFreePool, teidMap,
                      ipv4AddrMap, world>>

FaultyStillRegistered(b) == FALSE   \* destroyed without deregistering

StillRegistered(b) == ue[b].pgw

\* nwSaeGwUlpDestroyUeSession.
Destroy(w) ==
  /\ At(w, "destroy")
  /\ Goto(w, IF StillRegistered(pUe[w]) THEN "destroy_dereg" ELSE "deltunnel")
  /\ UNCHANGED <<stores, ue, pUe, req, cause, world>>

TunnelsOf(b) == IF ue[b].tunnel = None THEN {} ELSE {<<b, ue[b].tunnel>>}

\* nwSaeGwUeDelete, nwGtpv2cDeleteLocalTunnel.
DeleteTunnel(w) ==
  /\ At(w, "deltunnel")
  /\ IF TunnelsOf(pUe[w]) \subseteq tunnelMap
     THEN /\ tunnelMap' = tunnelMap \ TunnelsOf(pUe[w])
          /\ Goto(w, "free")
          /\ UNCHANGED <<mem, memPool, uePgwSessionRbt, pFreePool, teidMap,
                         ipv4AddrMap, ue, pUe, req, cause, world>>
     ELSE Abort

\* The content of a freed block stays, but nothing reads it except a worker
\* that still works on the UE: without one it is forgotten here, which only
\* makes states equal.
ContentAfterFree(w) ==
  IF \E v \in Workers \ {w} : pUe[v] = pUe[w] THEN ue
  ELSE [ue EXCEPT ![pUe[w]] = BlankUe]

\* nwMemDelete asserts that the block is allocated.
FreeUe(w) ==
  /\ At(w, "free")
  /\ IF mem[pUe[w]] # "allocated" THEN Abort ELSE
       /\ mem' = [mem EXCEPT ![pUe[w]] = "free"]
       /\ memPool' = <<pUe[w]>> \o memPool
       /\ ue' = ContentAfterFree(w)
       /\ Done(w)
       /\ UNCHANGED <<uePgwSessionRbt, pFreePool, tunnelMap, teidMap, ipv4AddrMap,
                      world>>

Step(w) ==
  \/ NewUe(w) \/ Unexpected(w) \/ HandleCreate(w) \/ HandleDelete(w)
  \/ Register(w) \/ LookAtPool(w) \/ PopAddress(w)
  \/ InstallUplink(w) \/ InstallDownlink(w)
  \/ RemoveDownlink(w) \/ RemoveUplink(w) \/ Deregister(w) \/ FreeAddress(w)
  \/ Respond(w) \/ CreateTunnel(w) \/ Destroy(w) \/ DeleteTunnel(w) \/ FreeUe(w)

Next == \E w \in Workers : Step(w) \/ \E r \in Request : Receive(w, r)

Spec == Init /\ [][Next]_vars

-----------------------------------------------------------------------------
(* Properties *)

Live(b) == mem[b] = "allocated"

AtRest(b) == \A w \in Workers : pUe[w] # b

\* A UE block that no worker works on is either a session, complete in every
\* store (registry, addresses, control tunnel), or has left no trace in them.
\* A half-created or half-deleted session could never be opened again
\* (NwSaeGwUlp.c:1319) or never be deleted.
SessionsComplete ==
  \A b \in Blocks : AtRest(b) =>
    IF Live(b)
    THEN /\ ue[b].state = "CREATED" /\ ue[b].pgw /\ b \in uePgwSessionRbt
         /\ ue[b].addr # None
         /\ <<b, ue[b].tunnel>> \in tunnelMap
    ELSE b \notin uePgwSessionRbt /\ \A p \in Peers : <<b, p>> \notin tunnelMap

\* The UEs that an address belongs to.
Holders(a) ==
  {b \in Blocks : ue[b].addr = a
                  /\ (ue[b].pgw \/ \E w \in Workers :
                        pUe[w] = b /\ pc[w] \in {"freeaddr", "destroy_freeaddr"})}

\* A usable address of the pool is free, or belongs to one UE, and never both;
\* none is lost (NwIpv4PoolMgr.c:92-126, NwSaeGwUlp.c:1312-1367).
AddressesConserved ==
  \A a \in StartIp .. endIp :
    LET free == Cardinality({i \in DOMAIN pFreePool : pFreePool[i] = a})
        held == Cardinality(Holders(a))
    IN  IF a \in Skipped THEN free <= 1 /\ held = 0 ELSE free + held = 1

\* The flows of the data plane belong to live sessions, which have both.
\* Otherwise the traffic of a new UE follows the tunnel of an old one
\* (NwSaeGwUeStatePgwSessionCreated.c:171-177).
FlowsBelongToSessions == orderly =>
  /\ \A e \in teidMap : Live(e[1]) /\ ue[e[1]].ebi = e[2]
  /\ \A a \in ipv4AddrMap :
       \E b \in Blocks : Live(b) /\ ue[b].addr = a /\ ue[b].downlink
  /\ \A b \in Blocks : Live(b) /\ AtRest(b) =>
       <<b, ue[b].ebi>> \in teidMap /\ ue[b].addr \in ipv4AddrMap /\ ue[b].downlink

\* What the peers believe of the sessions they have opened is true, but for the
\* moment in which their request is worked on.
PeersViewIsTrue == orderly =>
  \A b \in peerSessions : AtRest(b) => Live(b) /\ b \in uePgwSessionRbt

\* A Create Session Request is turned down only if another session has the
\* IMSI, the bearer identity is reserved or the pool has run out
\* (NwSaeGwUeStateInit.c:964-1002).
RejectedForAReason ==
  [][\A w \in Workers :
       cause[w] = None /\ cause'[w] = "rejected" =>
         \/ \E b \in uePgwSessionRbt \ {pUe[w]} : ue[b].imsi = req[w].imsi
         \/ req[w].ebi <= 4
         \/ pFreePool = <<>>]_vars

\* A Create Session Request that the PGW could not serve is answered with an
\* error: "Send an error response message." (NwSaeGwUeStateInit.c:956).
ErrorsAreAnswered ==
  \A w \in Workers :
    pc[w] = "respond" /\ req[w].kind \in Creates /\ ue[pUe[w]].state = "END" =>
      cause[w] # "accepted"

\* No assertion of the program fails, and no freed memory is freed again
\* (NwGtpv1u.c:327, NwMem.c:146, NwSaeGwUlp.c:1358).
NoAssertionFails == orderly => ~ aborted

=============================================================================
