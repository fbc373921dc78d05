----------------------------- MODULE SgwSession -----------------------------
(***************************************************************************)
(* UE sessions of the SGW: what it does with the requests of an MME (S11), *)
(* the answers and silences of PGWs (S5), and the requests that PGWs send, *)
(* through the states of the UE.  The code is compiled into the gateway;   *)
(* NwSaeGwMain.c starts a PGW only, so nothing runs it concurrently and a  *)
(* handler is one step.                                                    *)
(*                                                                         *)
(* A handler is an operator from states to states: "sgw" is the state of   *)
(* the program, and Commit delivers the answer that a handler has given.   *)
(* Blocks of UEs, control tunnels and flows are as in PgwSession: memory   *)
(* freed last is used first and keeps its content, the address of a block  *)
(* is the TEID of its control tunnels, and of its fields those of its      *)
(* bearers.                                                                *)
(***************************************************************************)
EXTENDS Naturals, Sequences, FiniteSets, Functions

CONSTANTS
  Blocks,     \* memory for UEs; bound: as many as can be in use
  Chunks,     \* memory for control tunnels: two for each block, and one for an
              \* insertion that fails
  Trxns,      \* requests of the MME that can wait for an answer at once
  Imsis, ENodeBs,
  Ebis,       \* EPS bearer identities that requests carry
  LocalPool,  \* addresses the collocated PGW gives to UEs
  None,
  Garbage,    \* what an uninitialised variable holds
  MaxFaults   \* bound: what a faulty environment does wrong in a behaviour

ASSUME SgwAssumption ==
  /\ IsFiniteSet(Blocks) /\ IsFiniteSet(Chunks) /\ IsFiniteSet(LocalPool)
  /\ Cardinality(Chunks) > 2 * Cardinality(Blocks)
  /\ Ebis \subseteq 0 .. 15 /\ 5 \in Ebis /\ MaxFaults \in Nat
  /\ Garbage \notin Chunks \cup {None}

Environments ==
  {"orderly",  \* an MME that behaves, PGWs that accept every request
   "silent",   \* ... or PGWs that may not answer
   "faulty"}   \* ... or that send anything the program can be sent, a few times

VARIABLES
  sgw,   \* the program
  open,  \* MME: its requests that wait for an answer
  view,  \* MME: the sessions it knows: their IMSI and eNodeB, by TEID
  env,
  faults \* how often a faulty environment may still misbehave

vars == <<sgw, open, view, env, faults>>

States == {"INIT", "WT_CREATE", "WT_DELETE", "SAE_CREATED", "SAE_ESTABLISHED",
           "SGW_CREATED", "SGW_ESTABLISHED", "PGW_CREATED", "END"}

BlankUe ==
  [state |-> "INIT", imsi |-> None, sgw |-> FALSE, pgw |-> FALSE, hPgw |-> FALSE,
   addr |-> None, ebi |-> None, up |-> None, pup |-> None, down |-> None,
   s11 |-> None, s5 |-> None]

\* up, pup and down are hSgwUplink, hPgwUplink and hSgwDownlink: the endpoint
\* where the flow comes in.  A UE has one valid bearer, ebi, and these are its
\* handles; but the PGW names the bearer of up, which may be another one.
Endpoint == [kind : {"s1u", "s5u", "pgw"}, at : Blocks, ebi : Ebis]
              \cup [kind : {"ip"}, at : LocalPool, ebi : {None}]

UeRecord ==
  [state : States, imsi : Imsis \cup {None}, sgw : BOOLEAN, pgw : BOOLEAN,
   hPgw : BOOLEAN, addr : LocalPool \cup {None}, ebi : Ebis \cup {None},
   up : Endpoint \cup {None}, pup : Endpoint \cup {None},
   down : Endpoint \cup {None},
   s11 : Chunks \cup {None, Garbage}, s5 : Chunks \cup {None}]

\* Requests of the MME.  flaw says what is wrong with one: "stack" for an error
\* that the stack has found, else the IE that the handler misses.  A request
\* with an error may have an IMSI that can be read; otherwise only a Create
\* Session Request has one.  The model has no request with the indication flag
\* OI, by which an MME moves a session to another SGW: the branch of the handler
\* for it ends in a state that waits for a Modify Bearer Response.
CreateRequest ==
  [kind : {"create"}, imsi : Imsis, ebi : Ebis, local : BOOLEAN,
   flaw : {"none", "FTEID", "BEARER", "PAA"}]
    \cup
  [kind : {"create"}, imsi : Imsis \cup {None}, ebi : {5}, local : {FALSE},
   flaw : {"stack"}]
    \cup
  [kind : {"create"}, imsi : {None}, ebi : {5}, local : {FALSE}, flaw : {"IMSI"}]

ModifyRequest ==
  [kind : {"modify"}, teid : Blocks, imsi : {None}, ebi : Ebis, enb : ENodeBs,
   flaw : {"none", "BEARER"}]
    \cup
  [kind : {"modify"}, teid : Blocks, imsi : Imsis \cup {None}, ebi : {5},
   enb : ENodeBs, flaw : {"stack"}]

DeleteRequest ==
  [kind : {"delete"}, teid : Blocks, imsi : {None}, oi : BOOLEAN, flaw : {"none"}]
    \cup
  [kind : {"delete"}, teid : Blocks, imsi : Imsis \cup {None}, oi : {FALSE},
   flaw : {"stack"}]

SessionRequest == ModifyRequest \cup DeleteRequest

\* What a handler tells the MME: the request, the UE and the cause.
Causes == {"accepted", "rejected", "error", "incorrect", "missing", "unknown", "no answer"}

AnswerToMme == [trxn : Trxns, ue : Blocks, cause : Causes]

\* None is nothing else.
ASSUME NoneAssumption ==
  /\ None \notin Blocks \cup Chunks \cup Imsis \cup ENodeBs \cup LocalPool
  /\ None \notin Ebis /\ None \notin {"ip", "pgw"} /\ None \notin Endpoint
  /\ None \notin CreateRequest \cup SessionRequest /\ None \notin AnswerToMme

\* A request that the SGW has sent to a PGW: the chunk of its tunnel, and the
\* request of the MME that it serves.
S5Request == [kind : {"create", "delete"}, chunk : Chunks, trxn : Trxns]

Init ==
  /\ \E list \in [1 .. Cardinality(LocalPool) -> LocalPool] :
       /\ IsInjective(list)
       /\ sgw = [mem |-> [b \in Blocks |-> "fresh"], memPool |-> <<>>,
                 ue |-> [b \in Blocks |-> BlankUe],
                 sgwRbt |-> {}, pgwRbt |-> {}, pool |-> list,
                 tun |-> [c \in Chunks |-> None], tunPool |-> <<>>,
                 s11Map |-> {}, s5Map |-> {}, flows |-> {}, sent |-> {},
                 answer |-> None, aborted |-> FALSE]
  /\ open = [t \in Trxns |-> None]
  /\ view = [b \in Blocks |-> None]
  /\ env \in Environments
  /\ faults = IF env = "faulty" THEN MaxFaults ELSE 0

Program ==
  [mem : [Blocks -> {"fresh", "allocated", "free"}], memPool : Seq(Blocks),
   ue : [Blocks -> UeRecord],
   sgwRbt : SUBSET Blocks, pgwRbt : SUBSET Blocks, pool : Seq(LocalPool),
   tun : [Chunks -> Blocks \cup {None}], tunPool : Seq(Chunks),
   s11Map : SUBSET Chunks, s5Map : SUBSET Chunks,
   flows : SUBSET [in : Endpoint, out : ENodeBs \cup {"ip", "pgw", None, Garbage}],
   sent : SUBSET S5Request,
   answer : AnswerToMme \cup {None},
   aborted : BOOLEAN]

TypeOK ==
  /\ sgw \in Program /\ sgw.answer = None
  /\ open \in [Trxns -> CreateRequest \cup SessionRequest \cup {None}]
  /\ view \in [Blocks -> [imsi : Imsis \cup {None}, enb : ENodeBs \cup {None}]
                         \cup {None}]
  /\ env \in Environments /\ faults \in 0 .. MaxFaults

-----------------------------------------------------------------------------
(* Helpers. *)

Abort(s) == [s EXCEPT !.aborted = TRUE]

Require(s, condition) == IF condition THEN s ELSE Abort(s)

Set(s, b, field, value) == [s EXCEPT !.ue[b][field] = value]

Goto(s, b, state) == Set(s, b, "state", state)

Live(s, b) == s.mem[b] = "allocated"

\* nwSaeGwDpeCreateGtpuIpv4Flow, nwSaeGwDpeCreateGtpuGtpuFlow: an endpoint for
\* a TEID in use is an assertion failure, and so is TEID 0 beyond the flow.
GtpuFlow(s, in, out) ==
  LET free == \A f \in s.flows : f.in # in
  IN  [Require(s, free /\ out # None) EXCEPT
         !.flows = IF free THEN @ \cup {[in |-> in, out |-> out]} ELSE @]

\* nwSaeGwDpeDestroyFlow of the handle that the UE holds.
DestroyFlow(s, h) ==
  LET found == {f \in s.flows : f.in = h}
  IN  IF h = None THEN s
      ELSE [Require(s, found # {}) EXCEPT !.flows = @ \ found]

\* nwGtpv2cCreateLocalTunnel: a tunnel whose TEID is the address of the UE.
CreateTunnel(s, b, map) ==
  LET c == IF s.tunPool # <<>> THEN Head(s.tunPool)
           ELSE CHOOSE x \in Chunks : x \notin s.s11Map \cup s.s5Map
      t == [s EXCEPT !.tun[c] = b,
                     !.tunPool = IF @ = <<>> THEN @ ELSE Tail(@),
                     ![map] = @ \cup {c}]
  IN  [state |-> Require(t, \A d \in s[map] : s.tun[d] # b), chunk |-> c]

\* A request on its way to a PGW leads to its UE through the chunk, freed or not.
\* What nothing leads to is forgotten, which only makes states equal.
DeleteTunnel(s, c, map) ==
  CASE c = None -> s
    [] c # None /\ c \in s[map] ->
         [s EXCEPT ![map] = @ \ {c}, !.tunPool = <<c>> \o @,
                   !.tun[c] = IF \E q \in s.sent : q.chunk = c THEN @ ELSE None]
    [] OTHER -> Abort(s)

-----------------------------------------------------------------------------
(* The life of a UE: nwSaeGwUlpCreateUeSession, nwSaeGwUeNew and their      *)
(* counterparts, the registries, the local pool.                           *)

NewUe(s) ==
  LET b == IF s.memPool # <<>> THEN Head(s.memPool)
           ELSE CHOOSE x \in Blocks : s.mem[x] = "fresh"
  IN  [state |-> [s EXCEPT !.mem[b] = "allocated", !.ue[b] = BlankUe,
                           !.memPool = IF @ = <<>> THEN @ ELSE Tail(@)],
       block |-> b]

HasMemory(s) == s.memPool # <<>> \/ \E b \in Blocks : s.mem[b] = "fresh"

\* A request on its way to a PGW still leads to the UE.
Awaited(s, b) == \E q \in s.sent : s.tun[q.chunk] = b

\* nwSaeGwUeDelete.  The content of the block stays; if nothing leads to it any
\* more it is forgotten here, which only makes states equal.
DeleteUe(s, b) ==
  LET u == s.ue[b]
      t == DeleteTunnel(DeleteTunnel(s, u.s11, "s11Map"), u.s5, "s5Map")
  IN  [Require(t, Live(s, b)) EXCEPT
         !.mem[b] = "free", !.memPool = <<b>> \o @,
         !.ue[b] = IF Awaited(s, b) THEN @ ELSE BlankUe]

FaultyCollides(s, b) == FALSE

Collides(s, b) == \E c \in s.sgwRbt : s.ue[c].imsi = s.ue[b].imsi

\* nwSaeGwUlpRegisterSgwUeSession, when the IMSI is free.
RegisterSgw(s, b) == [s EXCEPT !.sgwRbt = @ \cup {b}, !.ue[b].sgw = TRUE]

\* nwSaeGwUlpRegisterPgwUeSession; an exhausted pool leaves the UE registered.
RegisterPgw(s, b) ==
  [s EXCEPT !.pgwRbt = @ \cup {b}, !.ue[b].pgw = TRUE,
            !.ue[b].addr = IF s.pool = <<>> THEN None ELSE Head(s.pool),
            !.pool = IF @ = <<>> THEN @ ELSE Tail(@)]

SgwDeregister(s, b) ==
  [Require(s, b \in s.sgwRbt) EXCEPT !.sgwRbt = @ \ {b}, !.ue[b].sgw = FALSE]

\* hPgw is the collocated PGW; without one the call goes through a null handle.
PgwDeregister(s, b) ==
  [Require(s, s.ue[b].hPgw /\ b \in s.pgwRbt) EXCEPT
     !.pgwRbt = @ \ {b}, !.ue[b].pgw = FALSE,
     !.pool = IF s.ue[b].addr = None THEN @ ELSE <<s.ue[b].addr>> \o @]

FaultyDestroySession(s, b) ==   \* forgets the registry of the SGW
  DeleteUe(IF s.ue[b].pgw THEN PgwDeregister(s, b) ELSE s, b)

\* nwSaeGwUlpDestroyUeSession.
DestroySession(s, b) ==
  LET t == IF s.ue[b].pgw THEN PgwDeregister(s, b) ELSE s
      v == IF t.ue[b].sgw THEN SgwDeregister(t, b) ELSE t
  IN  DeleteUe(v, b)

-----------------------------------------------------------------------------
(* Bearers: the five functions of NwSaeGwUlp.c, by the type of session. *)

IsSae(u) == u.sgw /\ u.pgw

\* nwSaeGwUlpAllocateTeidOrGreKeys: where flows of the bearer come in.
SgwUplinkAt(b, ebi)   == [kind |-> "s1u", at |-> b, ebi |-> ebi]
SgwDownlinkAt(b, ebi) == [kind |-> "s5u", at |-> b, ebi |-> ebi]
PgwUplinkAt(b, ebi)   == [kind |-> "pgw", at |-> b, ebi |-> ebi]
UeAt(addr)            == [kind |-> "ip", at |-> addr, ebi |-> None]

\* peer is the tunnel endpoint of a remote PGW.
InstallUplink(s, b, ebi, peer) ==
  IF IsSae(s.ue[b])
  THEN [GtpuFlow(GtpuFlow(s, SgwUplinkAt(b, ebi), "ip"),
                 PgwUplinkAt(b, ebi), "ip")
          EXCEPT !.ue[b].up = SgwUplinkAt(b, ebi),
                 !.ue[b].pup = PgwUplinkAt(b, ebi)]
  ELSE [GtpuFlow(s, SgwUplinkAt(b, ebi), peer)
          EXCEPT !.ue[b].up = SgwUplinkAt(b, ebi)]

\* The handles are those of the bearer: one that the PGW has named is not found.
RemoveUplink(s, b, ebi) ==
  LET u == s.ue[b]
  IN  IF u.ebi # ebi \/ (u.up # None /\ u.up.ebi # ebi) THEN s
      ELSE DestroyFlow(DestroyFlow(s, u.up), u.pup)

\* A flow for an address that has one fails, which is not noticed.
DownlinkFlow(s, b, ebi, enb) ==
  LET u  == s.ue[b]
      in == IF IsSae(u) THEN UeAt(u.addr) ELSE SgwDownlinkAt(b, ebi)
  IN  IF IsSae(u) /\ \E f \in s.flows : f.in = in
      THEN [s EXCEPT !.ue[b].down = None]
      ELSE [GtpuFlow(s, in, enb) EXCEPT !.ue[b].down = in]

InstallDownlink(s, b, ebi, enb) ==
  DownlinkFlow(Require(s, s.ue[b].down = None), b, ebi, enb)

FaultyModifyDownlink(s, b, ebi, enb) == DownlinkFlow(s, b, ebi, enb)   \* the old flow stays

ModifyDownlink(s, b, ebi, enb) ==
  DownlinkFlow(DestroyFlow(s, s.ue[b].down), b, ebi, enb)

RemoveDownlink(s, b, ebi) ==
  IF s.ue[b].ebi # ebi THEN s ELSE DestroyFlow(s, s.ue[b].down)

\* The bearer whose flows a Delete Session Request removes is not looked up.
RemoveFlows(s, b) == RemoveUplink(RemoveDownlink(s, b, 5), b, 5)

-----------------------------------------------------------------------------
(* Answers to the MME. *)

\* A triggered response.
Answer(s, t, b, cause) ==
  [Require(s, s.answer = None) EXCEPT
     !.answer = [trxn |-> t, ue |-> b, cause |-> cause]]

\* nwSaeGwUeSgwSendCreateSessionResponseToMme in state INIT: an accepted session
\* gets its control tunnel on S11.
CreateAnswer(s, t, b, cause) ==
  LET r == CreateTunnel(Answer(s, t, b, cause), b, "s11Map")
  IN  IF cause = "accepted" THEN Set(r.state, b, "s11", r.chunk)
      ELSE Answer(s, t, b, cause)

\* ... in the state that waits for the PGW: hTunnel of the request structure is
\* only written when a tunnel is made, and copied in any case.
RelayedCreateAnswer(s, t, b, cause, stack) ==
  Goto(IF cause = "accepted" THEN CreateAnswer(s, t, b, cause)
       ELSE Set(Answer(s, t, b, cause), b, "s11", stack),
       b, "SGW_CREATED")

End(s, t, b, cause) == Goto(Answer(s, t, b, cause), b, "END")

\* The IMSI of the request, if it can be read, becomes that of the UE.
CopyImsi(s, b, r) == IF r.imsi = None THEN s ELSE Set(s, b, "imsi", r.imsi)

\* nwSaeGwUeUnexpectedEvent.
Unexpected(s, b) == Goto(s, b, "END")

-----------------------------------------------------------------------------
(* State INIT: Create Session Request. *)

\* nwSaeGwUeSgwParseCreateSessionRequest, with the bearer context and the PAA.
ParseCreate(r) ==
  CASE r.flaw = "none" -> "ok"
    [] r.flaw \in {"IMSI", "BEARER"} -> "incorrect"
    [] r.flaw = "FTEID" -> "missing"
    [] r.flaw = "PAA" -> "unknown"

\* nwSaeGwUeSgwSendCreateSessionRequestToPgw.  It names the bearer 5.
SendCreateToPgw(s, t, b) ==
  LET r == CreateTunnel(s, b, "s5Map")
  IN  [Require(r.state, s.ue[b].ebi = 5) EXCEPT
         !.ue[b].s5 = r.chunk,
         !.sent = @ \cup {[kind |-> "create", chunk |-> r.chunk, trxn |-> t]}]

\* The PGW is in this process: it is called, not sent a request.
CreateLocally(s, t, b, ebi) ==
  LET p == RegisterPgw(s, b)
  IN  IF p.ue[b].addr = None
      THEN End(SgwDeregister(p, b), t, b, "rejected")
      ELSE CreateAnswer(
             InstallUplink([p EXCEPT !.ue[b].hPgw = TRUE,
                                     !.ue[b].state = "SAE_CREATED"], b, ebi, None),
             t, b, "accepted")

EbiTaken(u, ebi) == ebi < 4 \/ u.ebi = ebi

\* nwSaeGwUeHandleSgwS11CreateSessionRequest.
HandleCreate(s, t, b, r) ==
  CASE r.flaw = "stack" ->
         End(CopyImsi(s, b, r), t, b, "error")
    [] r.flaw # "stack" /\ ParseCreate(r) # "ok" ->
         End(CopyImsi(s, b, r), t, b, ParseCreate(r))
    [] r.flaw = "none" /\ EbiTaken(s.ue[b], r.ebi) ->
         End(CopyImsi(s, b, r), t, b, "rejected")
    [] OTHER ->
         LET v == Set(CopyImsi(s, b, r), b, "ebi", r.ebi)
         IN  CASE Collides(v, b) -> End(v, t, b, "rejected")
               [] ~ Collides(v, b) /\ r.local ->
                    CreateLocally(RegisterSgw(v, b), t, b, r.ebi)
               [] OTHER ->
                    SendCreateToPgw(Goto(RegisterSgw(v, b), b, "WT_CREATE"), t, b)

-----------------------------------------------------------------------------
(* Modify Bearer Request.  Three states have their own copy of the handler. *)

\* What the states share: a request with an error ends the session, whatever
\* the MME is told, and the MME is told what the stack has found; change is
\* what the state does with a good request.
HandleModify(s, t, b, r, change) ==
  CASE r.flaw = "stack" ->
         End(CopyImsi(s, b, r), t, b, "error")
    [] r.flaw = "BEARER" \/ (r.flaw = "none" /\ (r.ebi < 4 \/ s.ue[b].ebi # r.ebi)) ->
         End(s, t, b, "accepted")
    [] OTHER -> Answer(change, t, b, "accepted")

SaeCreatedModify(s, t, b, r) ==
  HandleModify(s, t, b, r,
    Goto(InstallDownlink(s, b, r.ebi, r.enb), b,
         IF IsSae(s.ue[b]) THEN "SAE_ESTABLISHED" ELSE "SGW_ESTABLISHED"))

SaeEstablishedModify(s, t, b, r) ==
  HandleModify(s, t, b, r, ModifyDownlink(s, b, r.ebi, r.enb))

SgwEstablishedModify(s, t, b, r) ==
  HandleModify(s, t, b, r, ModifyDownlink(s, b, r.ebi, r.enb))

-----------------------------------------------------------------------------
(* Delete Session Request.  Four states have their own copy. *)

SaeDelete(s, t, b, r) ==
  IF r.flaw = "stack" THEN End(CopyImsi(s, b, r), t, b, "error")
  ELSE LET v == SgwDeregister(RemoveFlows(s, b), b)
       IN  End(IF v.ue[b].hPgw THEN PgwDeregister(v, b) ELSE v, t, b, "accepted")

SaeCreatedDelete(s, t, b, r)     == SaeDelete(s, t, b, r)
SaeEstablishedDelete(s, t, b, r) == SaeDelete(s, t, b, r)

\* The entry action of WT_DELETE: Delete Session Request to the PGW.
EnterAwaitDelete(s, t, b) ==
  LET c == s.ue[b].s5
  IN  [Goto(s, b, "WT_DELETE") EXCEPT
         !.sent = @ \cup {[kind |-> "delete", chunk |-> c, trxn |-> t]}]

SgwCreatedDelete(s, t, b, r) ==
  IF r.flaw = "stack" THEN End(s, t, b, "error")
  ELSE EnterAwaitDelete(RemoveFlows(s, b), t, b)

\* The session type is compared after the registration is undone, which has
\* cleared it.
StateAfterDeregister(u) == IF u.sgw /\ ~ u.pgw THEN "END" ELSE "PGW_CREATED"

SgwEstablishedDelete(s, t, b, r) ==
  CASE r.flaw = "stack" -> End(s, t, b, "error")
    [] r.flaw = "none" /\ r.oi -> EnterAwaitDelete(RemoveFlows(s, b), t, b)
    [] OTHER ->
         LET v == Answer(SgwDeregister(RemoveFlows(s, b), b), t, b, "accepted")
         IN  Goto(v, b, StateAfterDeregister(v.ue[b]))

-----------------------------------------------------------------------------
(* Answers of the PGW. *)

\* nwSaeGwUeHandlePgwCreateSessionResponse.  "unreadable": the stack or the
\* handler misses an IE; this program's own PGW sends no bearer context when it
\* rejects a request, which makes its rejections unreadable.  "rejected": a
\* rejection with a bearer context, whose parsing stops before the F-TEIDs:
\* the endpoint of the PGW is what the stack of the handler holds.  The bearer is
\* the one that the PGW names, whichever was asked for; one that the UE has no
\* room for is left out.
HandleCreateAnswer(s, t, b, cause, ebi, stack) ==
  CASE cause = "unreadable" -> s
    [] cause \in {"accepted", "rejected"} ->
         RelayedCreateAnswer(
           InstallUplink(s, b, ebi, IF cause = "accepted" THEN "pgw" ELSE stack),
           t, b, "accepted", None)

FaultyHandleCreateNack(s, t, b, stack) == s   \* the handler is not set

\* nwSaeGwUeHandlePgwCreateSessionResponseNack.
HandleCreateNack(s, t, b, stack) ==
  RelayedCreateAnswer(s, t, b, "no answer", stack)

\* nwSaeGwUeHandleSgwS5DeleteSessionResponse: the cause of the PGW's answer is
\* not looked at; the MME is told what the stack found in the message.
HandleDeleteAnswer(s, t, b, cause) ==
  End(SgwDeregister(s, b), t, b,
      IF cause = "unreadable" THEN "error" ELSE "accepted")

-----------------------------------------------------------------------------
(* nwSaeGwUeFsmRun with the event maps: the handler of the state, or of its  *)
(* parent (SAE_CREATED for SGW_CREATED), or nwSaeGwUeUnexpectedEvent.        *)

OnS11(s, t, b, r) ==
  LET state == s.ue[b].state IN
  CASE state = "INIT" /\ r.kind = "create" -> HandleCreate(s, t, b, r)
    [] state \in {"SAE_CREATED", "SGW_CREATED"} /\ r.kind = "modify" ->
         SaeCreatedModify(s, t, b, r)
    [] state = "SAE_ESTABLISHED" /\ r.kind = "modify" ->
         SaeEstablishedModify(s, t, b, r)
    [] state = "SGW_ESTABLISHED" /\ r.kind = "modify" ->
         SgwEstablishedModify(s, t, b, r)
    [] state = "SAE_CREATED" /\ r.kind = "delete" -> SaeCreatedDelete(s, t, b, r)
    [] state = "SAE_ESTABLISHED" /\ r.kind = "delete" ->
         SaeEstablishedDelete(s, t, b, r)
    [] state = "SGW_CREATED" /\ r.kind = "delete" -> SgwCreatedDelete(s, t, b, r)
    [] state = "SGW_ESTABLISHED" /\ r.kind = "delete" ->
         SgwEstablishedDelete(s, t, b, r)
    [] OTHER -> Unexpected(s, b)

OnS5(s, t, b, kind, cause, ebi, stack) ==
  LET state == s.ue[b].state IN
  CASE state = "WT_CREATE" /\ cause = "silence" -> HandleCreateNack(s, t, b, stack)
    [] state = "WT_CREATE" /\ kind = "create" /\ cause # "silence" ->
         HandleCreateAnswer(s, t, b, cause, ebi, stack)
    [] state = "WT_DELETE" /\ kind = "delete" /\ cause # "silence" ->
         HandleDeleteAnswer(s, t, b, cause)
    [] OTHER -> Unexpected(s, b)

\* nwSaeGwUlpSgwS11GtpcStackIndication, nwSaeGwUlpSgwS5GtpcStackIndication: a
\* session whose state machine has ended is destroyed.
Purge(s, b) == IF s.ue[b].state = "END" THEN DestroySession(s, b) ELSE s

\* What the MME knows of a session after the answer to its request r.
Told(known, r, cause) ==
  CASE cause # "accepted" -> known
    [] cause = "accepted" /\ r.kind = "create" -> [imsi |-> r.imsi, enb |-> None]
    [] cause = "accepted" /\ r.kind = "modify" /\ known # None ->
         [known EXCEPT !.enb = r.enb]
    [] OTHER -> None

\* A handler ends, and its answer reaches the MME, whose requests are asked.  An
\* answer goes to a transaction of the stack, which forgets it: a second one
\* would go through freed memory.
Commit(s, asked) ==
  LET a == s.answer
  IN  IF a = None
      THEN sgw' = s /\ open' = asked /\ UNCHANGED view
      ELSE /\ sgw' = [Require(s, asked[a.trxn] # None) EXCEPT !.answer = None]
           /\ open' = [asked EXCEPT ![a.trxn] = None]
           /\ view' = IF asked[a.trxn] = None THEN view
                      ELSE [view EXCEPT ![a.ue] = Told(@, asked[a.trxn], a.cause)]

-----------------------------------------------------------------------------
(* The MME and the PGWs. *)

\* An MME that behaves knows the session it addresses, asks for a new one only
\* for an IMSI without one, and has one request at a time for each.  It numbers
\* the default bearer 5.
SentByOrderlyMme(r) ==
  /\ r.flaw = "none"
  /\ r.kind # "delete" => r.ebi = 5
  /\ r.kind = "create" =>
       /\ r.local => sgw.pool # <<>>
       /\ \A b \in Blocks : view[b] # None => view[b].imsi # r.imsi
       /\ \A t \in Trxns : open[t] # None => open[t].imsi # r.imsi
  /\ r.kind # "create" =>
       /\ view[r.teid] # None
       /\ \A t \in Trxns :
            open[t] # None /\ open[t].kind # "create" => open[t].teid # r.teid

\* What the MME or a PGW does is proper, or a fault of a faulty environment.
Behaves(proper) ==
  IF proper THEN UNCHANGED faults ELSE faults > 0 /\ faults' = faults - 1

\* nwGtpv2cHandleInitialReq on S11: TEID 0 leads to a new UE, another one to the
\* UE of its tunnel, or the message is discarded.
MmeRequest(t, r) ==
  /\ ~ sgw.aborted /\ open[t] = None
  /\ Behaves(SentByOrderlyMme(r))
  /\ LET asked == [open EXCEPT ![t] = r]
     IN  IF r.kind = "create"
         THEN /\ HasMemory(sgw)
              /\ LET n == NewUe(sgw)
                 IN  Commit(Purge(OnS11(n.state, t, n.block, r), n.block), asked)
         ELSE /\ \E c \in sgw.s11Map : sgw.tun[c] = r.teid
              /\ Commit(Purge(OnS11(sgw, t, r.teid, r), r.teid), asked)
  /\ UNCHANGED env

PgwAnswers == {"accepted", "silence", "rejected", "unreadable"}

\* nwGtpv2cHandleTriggeredRsp, or the retransmissions of the request are over:
\* the UE is read from the chunk of its tunnel, which may have been freed.  A
\* PGW that behaves names the bearer it was asked for.
PgwAnswer(q, cause, ebi, stack) ==
  /\ ~ sgw.aborted
  /\ Behaves((cause = "accepted" /\ ebi = 5) \/ (cause = "silence" /\ env # "orderly"))
  /\ LET b == sgw.tun[q.chunk]
         s == [sgw EXCEPT !.sent = @ \ {q}]
     IN  Commit(Purge(OnS5(s, q.trxn, b, q.kind, cause, ebi, stack), b), open)
  /\ UNCHANGED env

\* A PGW sends a request, to a session or to TEID 0.  No state has a handler.
PgwRequest ==
  /\ ~ sgw.aborted /\ Behaves(FALSE)
  /\ \/ \E c \in sgw.s5Map :
          LET b == sgw.tun[c] IN Commit(Purge(Unexpected(sgw, b), b), open)
     \/ /\ HasMemory(sgw)
        /\ LET n == NewUe(sgw)
           IN  Commit(Purge(Unexpected(n.state, n.block), n.block), open)
  /\ UNCHANGED env

Next ==
  \/ \E t \in Trxns, r \in CreateRequest \cup SessionRequest : MmeRequest(t, r)
  \/ \E q \in sgw.sent, cause \in PgwAnswers, ebi \in Ebis, stack \in {None, Garbage} :
       PgwAnswer(q, cause, ebi, stack)
  \/ PgwRequest

Spec == Init /\ [][Next]_vars

-----------------------------------------------------------------------------
(* Properties *)

\* The registry of the SGW and the session types agree, in every state that a
\* handler leaves behind: a UE that is registered is in memory and says so, and
\* no freed UE is left in a tree (NwSaeGwUlp.c:1276-1367).
RegistryAgrees ==
  ~ sgw.aborted =>
    \A b \in Blocks :
      /\ b \in sgw.sgwRbt <=> Live(sgw, b) /\ sgw.ue[b].sgw
      /\ b \in sgw.pgwRbt <=> Live(sgw, b) /\ sgw.ue[b].pgw

\* Two sessions never have the same IMSI while the MME behaves
\* (NwSaeGwUlp.c:1286), and an MME that behaves never meets an assertion of the
\* data plane, the registry or the memory manager (NwGtpv1u.c:327,
\* NwSaeGwUlp.c:1345, NwMem.c:146).
OneSessionPerImsi ==
  env # "faulty" =>
    /\ ~ sgw.aborted
    /\ \A b, c \in sgw.sgwRbt : sgw.ue[b].imsi = sgw.ue[c].imsi => b = c

\* What the MME has been told is so: its sessions are registered and reachable
\* over S11, traffic from the eNodeB has a flow, and traffic to the UE follows
\* the last Modify Bearer Request and not an earlier one
\* (NwSaeGwUlp.c:1561-1635).
MmeViewIsTrue ==
  env # "faulty" =>
    \A b \in Blocks : view[b] # None /\ ~ (\E t \in Trxns :
                        open[t] # None /\ open[t].kind = "delete" /\ open[t].teid = b) =>
      /\ b \in sgw.sgwRbt /\ sgw.ue[b].imsi = view[b].imsi
      /\ \E c \in sgw.s11Map : sgw.tun[c] = b
      /\ \E f \in sgw.flows : f.in = SgwUplinkAt(b, 5)
      /\ view[b].enb # None =>
           \E f \in sgw.flows : f.in = sgw.ue[b].down /\ f.out = view[b].enb

\* A request of the MME that is not answered yet is being served: a request to
\* the PGW is on its way for it.  Only a Delete Session Request is forgotten,
\* when the PGW is silent (NwSaeGwUeStateAwaitPgwDeleteSessionRsp.c:178).
NoRequestForgotten ==
  env # "faulty" =>
    \A t \in Trxns : open[t] # None =>
      \/ \E q \in sgw.sent : q.trxn = t
      \/ env = "silent" /\ open[t].kind = "delete"

=============================================================================
