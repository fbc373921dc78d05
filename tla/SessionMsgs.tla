----------------------------- MODULE SessionMsgs -----------------------------
(***************************************************************************)
(* The GTPv2-C messages of the gateway: what its states write into them,   *)
(* and what the states that receive them read.  Every message travels      *)
(* through the blocks, the network and the parser of Gtpv2cMsg.  The MME   *)
(* is another implementation: its requests are right, or have IEs that are *)
(* missing, repeated, unexpected or too short.                             *)
(***************************************************************************)
EXTENDS Gtpv2cMsg

LOCAL INSTANCE SequencesExt

CONSTANTS
  Teids,     \* TEIDs of UEs and bearers
  Ebis       \* identities of the bearer that a Create Session Request names

\* 0 is the TEID of no tunnel.
ASSUME SessionAssumption == Teids \subseteq Nat \ {0} /\ Ebis \subseteq 0 .. 15

\* What messages are about: the UE and a tunnel of its bearer by their TEIDs, a
\* bearer, and a cause.  Addresses are never 0 and otherwise all the same.
Subject ==
  {x \in [ue : Teids, tunnel : Teids, ebi : Ebis, cause : {Accepted, Rejected}] :
     x.ue # x.tunnel}
Addr == 1
IPv4 == 1   \* PDN type

-----------------------------------------------------------------------------
(* What the gateway sends. *)

Bearer(items) == <<GroupedIeStart(BearerContext, 0)>> \o items \o <<GroupedIeEnd>>

FaultyCreateSessionRequestToPgw(x) ==   \* the instance of an eNodeB's F-TEID
  <<AddIe(Imsi, 8, 0, <<x.ue>>), AddIe(Msisdn, 8, 0, <<>>), AddIe(Mei, 8, 0, <<>>),
    AddIeTV1(RatType, 0, <<>>), AddIe(ServingNetwork, 3, 0, <<>>),
    AddIeFteid(0, x.ue, Addr), AddIeTV1(SelectionMode, 0, <<2>>),
    AddIeTV1(PdnType, 0, <<IPv4>>), AddIe(Paa, 5, 0, <<IPv4>>),
    AddIe(Apn, 4, 0, <<>>), AddIeTV1(ApnRestriction, 0, <<>>)>>
  \o Bearer(<<AddIeTV1(Ebi, 0, <<5>>), AddIeFteid(0, x.tunnel, Addr),
              AddIe(BearerQos, 22, 0, <<>>)>>)

\* nwSaeGwUeSgwSendCreateSessionRequestToPgw: the bearer is always 5, and its
\* quality of service is made up (22 octets).  The length of the APN is that of
\* the MME's.
CreateSessionRequestToPgw(x) ==
  <<AddIe(Imsi, 8, 0, <<x.ue>>), AddIe(Msisdn, 8, 0, <<>>), AddIe(Mei, 8, 0, <<>>),
    AddIeTV1(RatType, 0, <<>>), AddIe(ServingNetwork, 3, 0, <<>>),
    AddIeFteid(0, x.ue, Addr), AddIeTV1(SelectionMode, 0, <<2>>),
    AddIeTV1(PdnType, 0, <<IPv4>>), AddIe(Paa, 5, 0, <<IPv4>>),
    AddIe(Apn, 4, 0, <<>>), AddIeTV1(ApnRestriction, 0, <<>>)>>
  \o Bearer(<<AddIeTV1(Ebi, 0, <<5>>), AddIeFteid(2, x.tunnel, Addr),
              AddIe(BearerQos, 22, 0, <<>>)>>)

FaultyCreateSessionResponseToSgw(x) ==   \* the instance of the SGW's F-TEID
  <<AddIeCause(0, x.cause, 0)>>
  \o (IF x.cause # Accepted THEN <<>> ELSE
       <<AddIe(Paa, 5, 0, <<IPv4>>), AddIeTV1(ApnRestriction, 0, <<>>),
         AddIeFteid(0, x.ue, Addr)>>
       \o Bearer(<<AddIeTV1(Ebi, 0, <<x.ebi>>), AddIeCause(0, x.cause, 0),
                   AddIeFteid(2, x.tunnel, Addr)>>))

\* nwSaeGwUePgwSendCreateSessionResponseToSgw
CreateSessionResponseToSgw(x) ==
  <<AddIeCause(0, x.cause, 0)>>
  \o (IF x.cause # Accepted THEN <<>> ELSE
       <<AddIe(Paa, 5, 0, <<IPv4>>), AddIeTV1(ApnRestriction, 0, <<>>),
         AddIeFteid(1, x.ue, Addr)>>
       \o Bearer(<<AddIeTV1(Ebi, 0, <<x.ebi>>), AddIeCause(0, x.cause, 0),
                   AddIeFteid(2, x.tunnel, Addr)>>))

\* nwSaeGwUeSgwSendCreateSessionResponseToMme, in state INIT
CreateSessionResponseToMme(x) ==
  <<AddIeCause(0, x.cause, 0)>>
  \o (IF x.cause # Accepted THEN <<>> ELSE
       <<AddIe(Paa, 5, 0, <<IPv4>>), AddIeFteid(0, x.ue, Addr), AddIeFteid(1, x.ue, Addr)>>
       \o Bearer(<<AddIeTV1(Ebi, 0, <<5>>), AddIeCause(0, x.cause, 0),
                   AddIeFteid(0, x.tunnel, Addr), AddIeFteid(2, x.tunnel, Addr)>>))

\* ... and after the answer of a PGW
RelayedCreateSessionResponse(x) ==
  <<AddIeCause(0, x.cause, 0)>>
  \o (IF x.cause # Accepted THEN <<>> ELSE
       <<AddIe(Paa, 5, 0, <<IPv4>>), AddIeFteid(0, x.ue, Addr), AddIeFteid(1, x.ue, Addr),
         AddIeTV1(ApnRestriction, 0, <<>>)>>
       \o Bearer(<<AddIeTV1(Ebi, 0, <<5>>), AddIeCause(0, x.cause, 0),
                   AddIeFteid(0, x.tunnel, Addr), AddIeFteid(2, x.tunnel, Addr)>>))

\* nwSaeGwUeSgwSendModifyBearerResponseToMme, the same in three states: the
\* bearer is always 0, its tunnel that of the bearer of the request.
ModifyBearerResponse(x) ==
  <<AddIeCause(0, x.cause, 0)>>
  \o (IF x.cause # Accepted THEN <<>> ELSE
       Bearer(<<AddIeTV1(Ebi, 0, <<0>>), AddIeCause(0, x.cause, 0),
                AddIeFteid(0, x.tunnel, Addr)>>))

SaeCreatedModifyResponse(x)     == ModifyBearerResponse(x)
SaeEstablishedModifyResponse(x) == ModifyBearerResponse(x)
SgwEstablishedModifyResponse(x) == ModifyBearerResponse(x)

\* The entry action of WT_DELETE
DeleteSessionRequestToPgw(x) == <<AddIeTV1(Ebi, 0, <<0>>)>>

\* nwSaeGwUeSgwSendDeleteSessionResponseToMme, the same in five states, and
\* nwSaeGwUePgwSendDeleteSessionResponseToSgw
DeleteSessionResponse(x) == <<AddIeCause(0, x.cause, IF x.cause = Accepted THEN 0 ELSE Ebi)>>

SaeCreatedDeleteResponse(x)     == DeleteSessionResponse(x)
SaeEstablishedDeleteResponse(x) == DeleteSessionResponse(x)
SgwCreatedDeleteResponse(x)     == DeleteSessionResponse(x)
SgwEstablishedDeleteResponse(x) == DeleteSessionResponse(x)
RelayedDeleteResponse(x)        == DeleteSessionResponse(x)
PgwDeleteResponse(x)            == DeleteSessionResponse(x)

\* nwGtpv2cHandleEchoReq
EchoResponse(x) == <<AddIeTV1(Recovery, 0, <<>>)>>

\* A message that the gateway sends, by the function that does: its type, TEID
\* and items.
Own(name, x) ==
  CASE name = "create"      -> [type |-> CreateReq, items |-> CreateSessionRequestToPgw(x)]
    [] name = "pgwCreate"   -> [type |-> CreateRsp, items |-> CreateSessionResponseToSgw(x)]
    [] name = "sgwCreate"   -> [type |-> CreateRsp, items |-> CreateSessionResponseToMme(x)]
    [] name = "relayCreate" -> [type |-> CreateRsp, items |-> RelayedCreateSessionResponse(x)]
    [] name = "modify1"     -> [type |-> ModifyRsp, items |-> SaeCreatedModifyResponse(x)]
    [] name = "modify2"     -> [type |-> ModifyRsp, items |-> SaeEstablishedModifyResponse(x)]
    [] name = "modify3"     -> [type |-> ModifyRsp, items |-> SgwEstablishedModifyResponse(x)]
    [] name = "delete"      -> [type |-> DeleteReq, items |-> DeleteSessionRequestToPgw(x)]
    [] name = "deleted1"    -> [type |-> DeleteRsp, items |-> SaeCreatedDeleteResponse(x)]
    [] name = "deleted2"    -> [type |-> DeleteRsp, items |-> SaeEstablishedDeleteResponse(x)]
    [] name = "deleted3"    -> [type |-> DeleteRsp, items |-> SgwCreatedDeleteResponse(x)]
    [] name = "deleted4"    -> [type |-> DeleteRsp, items |-> SgwEstablishedDeleteResponse(x)]
    [] name = "deleted5"    -> [type |-> DeleteRsp, items |-> RelayedDeleteResponse(x)]
    [] name = "pgwDeleted"  -> [type |-> DeleteRsp, items |-> PgwDeleteResponse(x)]
    [] name = "echo"        -> [type |-> EchoRsp, items |-> EchoResponse(x)]

OwnNames ==
  {"create", "pgwCreate", "sgwCreate", "relayCreate", "modify1", "modify2", "modify3",
   "delete", "deleted1", "deleted2", "deleted3", "deleted4", "deleted5", "pgwDeleted",
   "echo"}

\* A PGW that rejects a request sends no bearer context, which the table for its
\* answer has as mandatory.  The SGW answers the MME in the same way.
RejectsCreate(name, x) ==
  name \in {"pgwCreate", "sgwCreate", "relayCreate"} /\ x.cause # Accepted

\* The MME is not part of the program: its requests as they should be, ...
MmeCreate(x) ==
  <<AddIe(Imsi, 8, 0, <<x.ue>>), AddIe(Msisdn, 8, 0, <<>>), AddIe(Mei, 8, 0, <<>>),
    AddIe(ServingNetwork, 3, 0, <<>>), AddIeTV1(RatType, 0, <<>>),
    AddIeTV2(Indication, 0, <<>>), AddIeFteid(0, x.ue, Addr), AddIeFteid(1, 0, Addr),
    AddIe(Apn, 4, 0, <<>>), AddIeTV1(SelectionMode, 0, <<>>),
    AddIeTV1(PdnType, 0, <<IPv4>>), AddIe(Paa, 5, 0, <<IPv4>>),
    AddIeTV1(ApnRestriction, 0, <<>>)>>
  \o Bearer(<<AddIeTV1(Ebi, 0, <<x.ebi>>), AddIe(BearerQos, 22, 0, <<>>)>>)

MmeModify(x) ==
  Bearer(<<AddIeTV1(Ebi, 0, <<x.ebi>>), AddIeFteid(0, x.tunnel, Addr)>>)

MmeDelete(x) == <<AddIeTV1(Ebi, 0, <<x.ebi>>), AddIeTV2(Indication, 0, <<>>)>>

\* ... and one with IEs in any order.  A member of a group is at its depth.
OddIes ==
  {AddIe(BearerContext, 5, 0, <<>>), AddIe(Fteid, 5, 0, <<1, 0>>),
   AddIeFteid(0, 1, Addr), AddIe(Fteid, 21, 0, <<2, 0>>),
   AddIe(PrivateExtension, 0, 0, <<>>), AddIe(Imsi, 8, 0, <<>>)}

-----------------------------------------------------------------------------
(* What the gateway reads. *)

\* The value an F-TEID has at an instance in a group, 0 if there is none.
TunnelIn(ies, i) ==
  LET found == SelectSeq(ies, LAMBDA e : e.t = Fteid /\ e.i = i)
  IN  IF found = <<>> THEN 0 ELSE Last(found).v[1]

EbiIn(ies) ==
  LET found == SelectSeq(ies, LAMBDA e : e.t = Ebi)
  IN  IF found = <<>> THEN None ELSE Last(found).v[1]

Has(ies, t) == \E k \in DOMAIN ies : ies[k].t = t

\* nwSaeGwDecodeBearerContextToBeCreated, in state INIT
DecodeBearer(m) ==
  LET g == Members(m, BearerContext, 0)
  IN  IF g.rc = "ok" /\ ~ (Has(g.ies, Ebi) /\ Has(g.ies, BearerQos))
      THEN [g EXCEPT !.rc = "incorrect"] ELSE g

\* ... while the SGW waits for a PGW
DecodeCreatedBearer(m) ==
  LET g == Members(m, BearerContext, 0)
  IN  IF g.rc = "ok" /\ ~ Has(g.ies, Ebi) THEN [g EXCEPT !.rc = "incorrect"] ELSE g

\* ... and, with its own copy in each of three states, of a Modify Bearer Request,
\* which need no IE.
SaeCreatedBearer(m)     == Members(m, BearerContext, 0)
SaeEstablishedBearer(m) == Members(m, BearerContext, 0)
SgwEstablishedBearer(m) == Members(m, BearerContext, 0)

\* nwSaeGwDecodeBearerContextToBeRemoved: in the states that receive requests it
\* reads the context of the bearer to be created, whose members are g.
DecodeRemovedBearer(g) == IF g.rc = "ok" /\ ~ Has(g.ies, Ebi) THEN "missing" ELSE g.rc

SaeCreatedRemovedBearer(m)     == DecodeRemovedBearer(SaeCreatedBearer(m))
SaeEstablishedRemovedBearer(m) == DecodeRemovedBearer(SaeEstablishedBearer(m))
SgwEstablishedRemovedBearer(m) == DecodeRemovedBearer(SgwEstablishedBearer(m))

\* nwSaeGwDecodePaa
DecodePaa(m) ==
  CASE GetIeTlvP(m, Paa, 0) # "ok" -> "missing"
    [] GetIeTlvP(m, Paa, 0) = "ok" /\ Value(m, Paa, 0) # IPv4 -> "unknown"
    [] OTHER -> "ok"

FirstError(results) ==
  LET bad == SelectSeq(results, LAMBDA rc : rc # "ok")
  IN  IF bad = <<>> THEN "ok" ELSE Head(bad)

Removed(m, rc) == IF Present(m, BearerContext, 1) THEN rc ELSE "ok"

\* nwSaeGwUePgwParseCreateSessionRequest
PgwParseCreate(m) ==
  LET g == DecodeBearer(m)
  IN  [rc |-> FirstError(
         <<GetIeTlv(m, Imsi, 0, 8), GetIeFteid(m, 0), g.rc, Removed(m, DecodeRemovedBearer(g)),
           GetIeTlv(m, Msisdn, 0, 8), GetIeTlv(m, Mei, 0, 8),
           GetIeTlv(m, ServingNetwork, 0, 3), GetIeTV(m, RatType, 0, 1),
           GetIeTV(m, SelectionMode, 0, 1), GetIeTV(m, PdnType, 0, 1), DecodePaa(m),
           GetIeTlv(m, Apn, 0, 256), GetIeTV(m, ApnRestriction, 0, 1)>>),
       ue |-> Value(m, Fteid, 0), tunnel |-> TunnelIn(g.ies, 2), ebi |-> EbiIn(g.ies)]

\* nwSaeGwUeSgwParseCreateSessionRequest: MSISDN and MEI may be missing.
SgwParseCreate(m) ==
  LET g == DecodeBearer(m)
  IN  [rc |-> IF GetIeTlv(m, Imsi, 0, 8) # "ok" THEN "incorrect" ELSE FirstError(
         <<GetIeFteid(m, 0), GetIeFteid(m, 1), g.rc,
           Removed(m, DecodeRemovedBearer(g)), GetIeTV(m, RatType, 0, 1), GetIeTlv(m, ServingNetwork, 0, 3),
           GetIeTV(m, SelectionMode, 0, 1), GetIeTV(m, PdnType, 0, 1), DecodePaa(m),
           GetIeTlv(m, Apn, 0, 256), GetIeTV(m, ApnRestriction, 0, 1)>>),
       ue |-> Value(m, Fteid, 0), tunnel |-> TunnelIn(g.ies, 0), ebi |-> EbiIn(g.ies)]

\* nwSaeGwUeSgwParseCreateSessionResponse
SgwParseCreated(m) ==
  LET g == DecodeCreatedBearer(m)
  IN  [rc |-> FirstError(<<GetIeCause(m, 0), g.rc>>
                \o IF Value(m, Cause, 0) # Accepted THEN <<>>
                   ELSE <<GetIeFteid(m, 1), DecodePaa(m)>>),
       ue |-> Value(m, Fteid, 1), tunnel |-> TunnelIn(g.ies, 2), ebi |-> EbiIn(g.ies)]

\* nwSaeGwUeSgwParseModifyBearerRequest, with its own copy in each of three states
ParseModify(m, g, removed) ==
  [rc |-> FirstError(<<g.rc, Removed(m, removed)>>),
   ue |-> 0, tunnel |-> TunnelIn(g.ies, 0), ebi |-> EbiIn(g.ies)]

SaeCreatedParseModify(m) ==
  ParseModify(m, SaeCreatedBearer(m), SaeCreatedRemovedBearer(m))

SaeEstablishedParseModify(m) ==
  ParseModify(m, SaeEstablishedBearer(m), SaeEstablishedRemovedBearer(m))

SgwEstablishedParseModify(m) ==
  ParseModify(m, SgwEstablishedBearer(m), SgwEstablishedRemovedBearer(m))

\* nwSaeGwUeSgwParseDeleteSessionRequest in state SGW_ESTABLISHED: the indication.
ParseDelete(m) ==
  [rc |-> GetIeTV(m, Indication, 0, 2), ue |-> None, tunnel |-> None, ebi |-> None]

-----------------------------------------------------------------------------
Means(name, x) == [name |-> name, x |-> x]

SendOwn(name, x) ==
  /\ name \in {"create", "delete", "echo"} => x.cause = Accepted
  /\ LET msg == Own(name, x) IN Send(msg.type, x.ue, msg.items, Means(name, x))

MmeSends(x) ==
  /\ x.cause = Accepted
  /\ \/ PeerSends(CreateReq, 0, MmeCreate(x), Means("mmeCreate", x))
     \/ PeerSends(ModifyReq, x.ue, MmeModify(x), Means("mmeModify", x))
     \/ PeerSends(DeleteReq, x.ue, MmeDelete(x), Means("mmeDelete", x))

PeerIsOdd == \E s \in SeqOf(OddIes, 2) : PeerSends(ModifyReq, 1, s, None)

Next ==
  \/ \E name \in OwnNames, x \in Subject : SendOwn(name, x)
  \/ \E x \in Subject : MmeSends(x)
  \/ PeerIsOdd
  \/ \E b \in Blocks : Release(b)
  \/ \E d \in DOMAIN wire, part \in {0, 2, 5} :
       \E k \in DOMAIN wire[d].buf : Cut(d, k, part)
  \/ \E d \in DOMAIN wire, assertion \in BOOLEAN : Receive(d, assertion)
  \/ Delete

Spec == Init /\ [][Next]_msgVars

-----------------------------------------------------------------------------
(* Properties *)

\* What the states that may receive a message make of it.
Readings(name, m) ==
  CASE name = "create"    -> {PgwParseCreate(m)}
    [] name = "pgwCreate" -> {SgwParseCreated(m)}
    [] name = "mmeCreate" -> {SgwParseCreate(m)}
    [] name = "mmeModify" -> {SaeCreatedParseModify(m), SaeEstablishedParseModify(m),
                              SgwEstablishedParseModify(m)}
    [] name = "mmeDelete" -> {ParseDelete(m)}
    [] OTHER -> {}

\* What this program sends it understands: every message passes the table of
\* the IEs of its type, and the state that waits for it reads all it needs
\* (NwGtpv2cMsgIeParseInfo.c:89-186, NwSaeGwUeStateInit.c:618-905).  A rejected
\* session is the exception: its answer has no bearer context.
MessagesUnderstood ==
  rx # None /\ rx.sent # None =>
    LET name == rx.sent.name
    IN  IF RejectsCreate(name, rx.sent.x)
        THEN rx.error = Error(IeMissing, BearerContext, 0)
        ELSE /\ rx.error.cause = Accepted
             /\ \A read \in Readings(name, block[rx.block]) : read.rc = "ok"

\* The TEIDs and the bearer that a receiver reads are those that the sender
\* meant, so that its tunnels lead to the sender and belong to the bearer
\* (NwSaeGwUeStateInit.c:104-194, NwSaeGwUeStateAwaitPgwCreateSessionRsp.c:453-505).
FieldsArrive ==
  rx # None /\ rx.sent # None /\ rx.error.cause = Accepted =>
    LET name == rx.sent.name
        x    == rx.sent.x
    IN  \A read \in Readings(name, block[rx.block]) :
          /\ name \in {"create", "pgwCreate", "mmeCreate"} => read.ue = x.ue
          /\ name \in {"create", "pgwCreate", "mmeModify"} => read.tunnel = x.tunnel
          /\ name # "mmeDelete" => read.ebi = IF name = "create" THEN 5 ELSE x.ebi
=============================================================================
