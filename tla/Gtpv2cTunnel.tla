---------------------------- MODULE Gtpv2cTunnel ----------------------------
(***************************************************************************)
(* The control tunnels of the GTPv2-C stack: the map that leads from a     *)
(* TEID to a session, which has a mutex, and the pool that tunnel chunks   *)
(* are taken from and given back to, which has none. The pool is a list    *)
(* linked through the chunks: its head and its links are read and written  *)
(* in steps of their own.                                                  *)
(*                                                                         *)
(* TEIDs are addresses of session blocks, so no two sessions have the same *)
(* one.                                                                    *)
(***************************************************************************)
EXTENDS Naturals, FiniteSets

CONSTANTS
  Workers,   \* UDP worker threads
  Chunks,    \* memory for tunnels; bound: at least one for each TEID
  Teids,     \* the sessions that exist at the same time, at most
  None

ASSUME TunnelAssumption == None \notin Workers \cup Chunks \cup Teids

VARIABLES
  gpGtpv2cTunnelPool,   \* head of the pool, or None
  next,                 \* per chunk: its successor in the pool
  fresh,                \* chunks that have not been allocated yet
  teid,                 \* per chunk: the TEID of its tunnel
  tunnelMap,            \* the chunks in the map
  hTunnel,              \* per TEID: the handle that its session holds
  pc, pTunnel, forTeid, \* per worker: where it is, its chunk, its session
  tmp,                  \* per worker: what it has read
  aborted               \* an NW_ASSERT has failed, the process is gone

pool == <<gpGtpv2cTunnelPool, next, fresh>>
map  == <<tunnelMap, hTunnel>>
vars == <<pool, map, teid, pc, pTunnel, forTeid, tmp, aborted>>

PC == {"idle", "next", "sethead", "fill", "insert", "link", "giveback"}

TypeOK ==
  /\ gpGtpv2cTunnelPool \in Chunks \cup {None}
  /\ next \in [Chunks -> Chunks \cup {None}]
  /\ fresh \subseteq Chunks
  /\ teid \in [Chunks -> Teids \cup {None}]
  /\ tunnelMap \subseteq Chunks
  /\ hTunnel \in [Teids -> Chunks \cup {None}]
  /\ pc \in [Workers -> PC]
  /\ pTunnel \in [Workers -> Chunks \cup {None}]
  /\ forTeid \in [Workers -> Teids \cup {None}]
  /\ tmp \in [Workers -> Chunks \cup {None}]
  /\ aborted \in BOOLEAN

Init ==
  /\ gpGtpv2cTunnelPool = None
  /\ next = [c \in Chunks |-> None]
  /\ fresh = Chunks
  /\ teid = [c \in Chunks |-> None]
  /\ tunnelMap = {}
  /\ hTunnel = [t \in Teids |-> None]
  /\ pc = [w \in Workers |-> "idle"]
  /\ pTunnel = [w \in Workers |-> None]
  /\ forTeid = [w \in Workers |-> None]
  /\ tmp = [w \in Workers |-> None]
  /\ aborted = FALSE

-----------------------------------------------------------------------------
At(w, label) == pc[w] = label /\ ~ aborted

Goto(w, label) == pc' = [pc EXCEPT ![w] = label]

Abort == aborted' = TRUE /\ UNCHANGED <<pool, map, teid, pc, pTunnel, forTeid, tmp>>

\* Nobody works on session t.
Quiet(t) == \A w \in Workers : forTeid[w] # t

Done(w) ==
  /\ Goto(w, "idle")
  /\ pTunnel' = [pTunnel EXCEPT ![w] = None]
  /\ forTeid' = [forTeid EXCEPT ![w] = None]
  /\ tmp' = [tmp EXCEPT ![w] = None]

(* nwGtpv2cTunnelNew *)

\* A session without a tunnel gets one.  The compiled code (-O2) reads the head
\* of the pool once; if it is empty, a new chunk is allocated.
ReadHead(w, t) ==
  /\ At(w, "idle") /\ Quiet(t) /\ hTunnel[t] = None
  /\ forTeid' = [forTeid EXCEPT ![w] = t]
  /\ \/ /\ gpGtpv2cTunnelPool # None
        /\ pTunnel' = [pTunnel EXCEPT ![w] = gpGtpv2cTunnelPool]
        /\ Goto(w, "next")
        /\ UNCHANGED fresh
     \/ /\ gpGtpv2cTunnelPool = None
        /\ \E c \in fresh :
             /\ fresh' = fresh \ {c}
             /\ pTunnel' = [pTunnel EXCEPT ![w] = c]
        /\ Goto(w, "fill")
  /\ UNCHANGED <<gpGtpv2cTunnelPool, next, map, teid, tmp, aborted>>

ReadNext(w) ==
  /\ At(w, "next")
  /\ tmp' = [tmp EXCEPT ![w] = next[pTunnel[w]]]
  /\ Goto(w, "sethead")
  /\ UNCHANGED <<pool, map, teid, pTunnel, forTeid, aborted>>

FaultyRemaining(w) == pTunnel[w]   \* the chunk stays in the pool

\* What is left in the pool, as the worker has read it.
Remaining(w) == tmp[w]

SetHead(w) ==
  /\ At(w, "sethead")
  /\ gpGtpv2cTunnelPool' = Remaining(w)
  /\ Goto(w, "fill")
  /\ UNCHANGED <<next, fresh, map, teid, pTunnel, forTeid, tmp, aborted>>

Key(w) == forTeid[w]

\* The chunk is zeroed, with its link, and filled.
Fill(w) ==
  /\ At(w, "fill")
  /\ next' = [next EXCEPT ![pTunnel[w]] = None]
  /\ teid' = [teid EXCEPT ![pTunnel[w]] = Key(w)]
  /\ Goto(w, "insert")
  /\ UNCHANGED <<gpGtpv2cTunnelPool, fresh, map, pTunnel, forTeid, tmp, aborted>>

-----------------------------------------------------------------------------
(* The map, under tunnelMap_mutex. *)

\* The map has a tunnel with the TEID of the chunk of worker w.
Exists(w) == \E c \in tunnelMap : teid[c] = teid[pTunnel[w]]

Insert(w) ==
  /\ At(w, "insert")
  /\ IF Exists(w) THEN Abort ELSE
       /\ tunnelMap' = tunnelMap \cup {pTunnel[w]}
       /\ hTunnel' = [hTunnel EXCEPT ![forTeid[w]] = pTunnel[w]]
       /\ Done(w)
       /\ UNCHANGED <<pool, teid, aborted>>

\* The session of t ends: nwGtpv2cDeleteLocalTunnel.
Remove(w, t) ==
  /\ At(w, "idle") /\ Quiet(t) /\ hTunnel[t] # None
  /\ forTeid' = [forTeid EXCEPT ![w] = t]
  /\ pTunnel' = [pTunnel EXCEPT ![w] = hTunnel[t]]
  /\ tunnelMap' = tunnelMap \ {hTunnel[t]}
  /\ hTunnel' = [hTunnel EXCEPT ![t] = None]
  /\ Goto(w, "link")
  /\ UNCHANGED <<pool, teid, tmp, aborted>>

(* nwGtpv2cTunnelDelete *)

FaultyLink(w) == None   \* the rest of the pool is forgotten

Link(w) == gpGtpv2cTunnelPool

LinkChunk(w) ==
  /\ At(w, "link")
  /\ next' = [next EXCEPT ![pTunnel[w]] = Link(w)]
  /\ Goto(w, "giveback")
  /\ UNCHANGED <<gpGtpv2cTunnelPool, fresh, map, teid, pTunnel, forTeid, tmp,
                 aborted>>

GiveBack(w) ==
  /\ At(w, "giveback")
  /\ gpGtpv2cTunnelPool' = pTunnel[w]
  /\ Done(w)
  /\ UNCHANGED <<next, fresh, map, teid, aborted>>

Next ==
  \E w \in Workers :
    \/ \E t \in Teids : ReadHead(w, t) \/ Remove(w, t)
    \/ ReadNext(w) \/ SetHead(w) \/ Fill(w) \/ Insert(w)
    \/ LinkChunk(w) \/ GiveBack(w)

Spec == Init /\ [][Next]_vars

-----------------------------------------------------------------------------
(* Properties *)

\* The chunks that no session and no worker holds, and that have been allocated.
Unheld ==
  Chunks \ (fresh \cup {hTunnel[t] : t \in Teids} \cup {pTunnel[w] : w \in Workers})

\* A chunk has one owner: the pool, a worker that makes or unmakes a tunnel of
\* it, or a session (NwGtpv2cTunnel.c:55-63, 78-79).  A chunk in the hand of a
\* worker may have a stale link until it is zeroed; nobody follows it.
OneOwner ==
  /\ \A v, w \in Workers : v # w /\ pTunnel[v] # None => pTunnel[v] # pTunnel[w]
  /\ \A t \in Teids : hTunnel[t] # None =>
       /\ \A w \in Workers : pTunnel[w] # hTunnel[t]
       /\ \A u \in Teids \ {t} : hTunnel[u] # hTunnel[t]
       /\ gpGtpv2cTunnelPool # hTunnel[t]
       /\ \A c \in Unheld : next[c] # hTunnel[t]

\* No chunk is lost: while nobody is at work on the pool, each chunk that is not
\* held is its head or the successor of exactly one other.
NothingLeaks ==
  (\A w \in Workers : pc[w] = "idle") =>
    \A c \in Unheld :
      Cardinality({d \in Unheld : next[d] = c})
        = IF c = gpGtpv2cTunnelPool THEN 0 ELSE 1

\* Every session finds its tunnel under its own TEID: requests for one session
\* are never handed to another (NwGtpv2c.c:966-982).
TunnelsLeadHome ==
  \A t \in Teids :
    hTunnel[t] # None => hTunnel[t] \in tunnelMap /\ teid[hTunnel[t]] = t

=============================================================================
