------------------------------ MODULE Gtpv2cMsg ------------------------------
(***************************************************************************)
(* GTPv2-C messages: how NwGtpv2cMsg.c writes information elements (IEs)   *)
(* into a message, what the table-driven NwGtpv2cMsgIeParseInfo.c finds in *)
(* one that was received, and what the functions that read IEs return.     *)
(* Messages live in blocks that come from a pool, last freed first used,   *)
(* and keep what the last parsing left in them.                            *)
(*                                                                         *)
(* A buffer is the sequence of the IE headers written into it, with the    *)
(* octet where each starts; the members of a grouped IE follow its header. *)
(* Readers do not see entries but walk the octets by the lengths they      *)
(* find: where no header starts they read junk.                            *)
(***************************************************************************)
EXTENDS Naturals, Sequences, FiniteSets

LOCAL INSTANCE TLC
LOCAL INSTANCE SequencesExt
LOCAL INSTANCE FiniteSetsExt

CONSTANTS
  Blocks,    \* memory for messages; bound: as many as are in use at once
  MaxWire,   \* bound: datagrams in the network at once
  MaxCuts,   \* bound: how often the network delivers a part of a datagram
  None

ASSUME MsgAssumption == MaxWire \in Nat \ {0} /\ MaxCuts \in Nat

VARIABLES
  pool,   \* gpGtpv2cMsgPool: freed blocks, a stack
  block,  \* the content of every block
  held,   \* blocks of messages sent, which their transactions may send again
  wire,   \* datagrams on their way
  rx,     \* the message being handled: its block, what was sent, the parser's error
  cuts,
  aborted

msgVars == <<pool, block, held, wire, rx, cuts, aborted>>

\* NwGtpv2cIe.h, NwGtpv2cMsg.h
Imsi == 1
Cause == 2
Recovery == 3
Apn == 71
Ebi == 73
Mei == 75
Msisdn == 76
Indication == 77
Pco == 78
Paa == 79
BearerQos == 80
RatType == 82
ServingNetwork == 83
Uli == 86
Fteid == 87
BearerContext == 93
PdnType == 99
ApnRestriction == 127
SelectionMode == 128
PrivateExtension == 255

EchoRsp == 2
CreateReq == 32
CreateRsp == 33
ModifyReq == 34
ModifyRsp == 35
DeleteReq == 36
DeleteRsp == 37

Accepted == 16
InvalidLength == 67
IeIncorrect == 69
IeMissing == 70
Rejected == 94

MaximumInstance == 4

\* ieParseInfo, isIeValid and pIe are arrays [256][4] indexed by type and
\* instance: instance 4 of a type is instance 0 of the next one.
Slot(t, i) == 4 * t + i

-----------------------------------------------------------------------------
(* Building a message.  Items are the calls of the functions that add to it. *)

\* nwGtpv2cMsgNew: what the last message left in the block stays.
Blank(m, type, teid) ==
  [m EXCEPT !.type = type, !.teid = teid, !.len = 0, !.buf = <<>>, !.open = <<>>]

\* nwGtpv2cMsgAddIe
AddIe(t, l, i, v) == [call |-> "ie", t |-> t, i |-> i, l |-> l, v |-> v]

AddIeTV1(t, i, v) == AddIe(t, 1, i, v)
AddIeTV2(t, i, v) == AddIe(t, 2, i, v)
AddIeTV4(t, i, v) == AddIe(t, 4, i, v)

\* The IE that is to blame is only written if there is one.
AddIeCause(i, cause, offending) ==
  AddIe(Cause, IF offending # 0 THEN 6 ELSE 2, i, <<cause, offending>>)

\* An IPv4 address of 0 is left out, and no caller has an IPv6 address.
AddIeFteid(i, teid, addr) ==
  AddIe(Fteid, 5 + (IF addr # 0 THEN 4 ELSE 0), i, <<teid, addr>>)

GroupedIeStart(t, i) == [call |-> "start", t |-> t, i |-> i, l |-> 0, v |-> <<>>]
GroupedIeEnd == [call |-> "end", t |-> 0, i |-> 0, l |-> 0, v |-> <<>>]

Entry(m, call, l) ==
  [t |-> call.t, i |-> call.i, l |-> l, v |-> call.v, at |-> m.len, depth |-> Len(m.open)]

\* The length of the message where its members begin is kept in the header.
StartGroup(m, call) ==
  [m EXCEPT !.buf = Append(@, Entry(m, call, m.len + 4)),
            !.len = @ + 4, !.open = Append(@, Len(m.buf) + 1)]

EndGroup(m) ==
  [m EXCEPT !.buf[Last(m.open)].l = m.len - @, !.open = Front(@)]

Write(m, call) ==
  CASE call.call = "ie" ->
         [m EXCEPT !.buf = Append(@, Entry(m, call, call.l)),
                   !.len = @ + 4 + call.l]
    [] call.call = "start" -> StartGroup(m, call)
    [] call.call = "end" -> EndGroup(m)

Build(m, type, teid, items) == FoldLeft(Write, Blank(m, type, teid), items)

-----------------------------------------------------------------------------
(* Parsing: tables of the IEs of each type of message. *)

Mandatory(t, i, min)   == [t |-> t, i |-> i, min |-> min, presence |-> "mandatory"]
Conditional(t, i, min) == [t |-> t, i |-> i, min |-> min, presence |-> "conditional"]
Optional(t, i, min)    == [t |-> t, i |-> i, min |-> min, presence |-> "optional"]

echoRspIeInfoTbl == {Mandatory(Recovery, 0, 1)}

createSessionReqIeInfoTbl ==
  {Conditional(Imsi, 0, 8), Conditional(Msisdn, 0, 0), Conditional(Mei, 0, 0),
   Mandatory(Fteid, 0, 9), Conditional(Fteid, 1, 9), Mandatory(RatType, 0, 1),
   Mandatory(Apn, 0, 0), Mandatory(ApnRestriction, 0, 0),
   Mandatory(SelectionMode, 0, 0), Mandatory(PdnType, 0, 0), Mandatory(Paa, 0, 5),
   Mandatory(BearerContext, 0, 0), Conditional(BearerContext, 1, 0),
   Mandatory(ServingNetwork, 0, 3), Conditional(Recovery, 0, 0)}

modifyBearerReqIeInfoTbl ==
  {Conditional(Mei, 0, 0), Conditional(ServingNetwork, 0, 3), Conditional(Uli, 0, 0),
   Conditional(RatType, 0, 1), Conditional(Indication, 0, 0),
   Conditional(Fteid, 0, 9), Mandatory(BearerContext, 0, 0),
   Conditional(BearerContext, 1, 0), Optional(PrivateExtension, 0, 0)}

deleteSessionReqIeInfoTbl ==
  {Conditional(Cause, 0, 0), Conditional(Ebi, 0, 0), Conditional(Uli, 0, 0),
   Conditional(Indication, 0, 0), Conditional(Pco, 1, 0),
   Conditional(Recovery, 0, 1), Optional(PrivateExtension, 0, 0)}

createSessionRspIeInfoTbl ==
  {Mandatory(Cause, 0, 0), Conditional(Paa, 0, 5), Conditional(ApnRestriction, 0, 0),
   Conditional(Fteid, 0, 9), Conditional(Fteid, 1, 9), Mandatory(BearerContext, 0, 0),
   Conditional(BearerContext, 1, 0), Conditional(Recovery, 0, 1),
   Optional(PrivateExtension, 0, 0)}

modifyBearerRspIeInfoTbl ==
  {Mandatory(Cause, 0, 0), Conditional(Paa, 0, 5), Conditional(ApnRestriction, 0, 0),
   Conditional(Fteid, 0, 9), Conditional(BearerContext, 0, 0),
   Conditional(Recovery, 0, 1), Optional(PrivateExtension, 0, 0)}

deleteSessionRspIeInfoTbl ==
  {Mandatory(Cause, 0, 0), Conditional(Recovery, 0, 1), Conditional(Pco, 0, 0),
   Optional(PrivateExtension, 0, 0)}

\* nwGtpv2cMsgIeParseInfoNew: other types of message have no table.
IeInfo ==
  [type \in {EchoRsp, CreateReq, CreateRsp, ModifyReq, ModifyRsp, DeleteReq, DeleteRsp} |->
     CASE type = EchoRsp   -> echoRspIeInfoTbl
       [] type = CreateReq -> createSessionReqIeInfoTbl
       [] type = CreateRsp -> createSessionRspIeInfoTbl
       [] type = ModifyReq -> modifyBearerReqIeInfoTbl
       [] type = ModifyRsp -> modifyBearerRspIeInfoTbl
       [] type = DeleteReq -> deleteSessionReqIeInfoTbl
       [] type = DeleteRsp -> deleteSessionRspIeInfoTbl]

Expected(type, slot) == {x \in IeInfo[type] : Slot(x.t, x.i) = slot}
MandatorySlots(type) ==
  {Slot(x.t, x.i) : x \in {y \in IeInfo[type] : y.presence = "mandatory"}}

\* The entry whose header is at an offset, 0 where there is none.
EntryAt(m, offset) ==
  LET found == {k \in DOMAIN m.buf : m.buf[k].at = offset}
  IN  IF found = {} THEN 0 ELSE CHOOSE k \in found : TRUE

Error(cause, t, i) == [cause |-> cause, t |-> t, i |-> i]

TooShort(m, e) == \E x \in Expected(m.type, Slot(e.t, e.i)) : e.l < x.min

Repeated(p, s) == s \in p.valid

\* One turn of the loop of nwGtpv2cMsgIeParse.  A header that the end of the
\* message cuts off is completed by what the buffer held before: its length goes
\* beyond the end in any case, but its instance may be any.
ParseIe(m, p) ==
  LET k == EntryAt(m, p.offset)
      e == m.buf[k]
      s == Slot(e.t, e.i)
      skip == [p EXCEPT !.offset = @ + 4 + e.l]
  IN  CASE p.offset >= m.len \/ p.error # None -> p
        [] p.offset < m.len /\ p.error = None /\ (k = 0 \/ p.offset + 4 > m.len) ->
             [p EXCEPT !.error = Error(InvalidLength, 0, 0), !.junk = TRUE]
        [] OTHER ->
             IF p.offset + 4 + e.l > m.len
             THEN [p EXCEPT !.error = Error(InvalidLength, e.t, e.i)]
             ELSE IF TooShort(m, e) /\ \A x \in Expected(m.type, s) : x.presence # "optional"
             THEN [p EXCEPT !.error = Error(IeIncorrect, e.t, e.i)]
             ELSE IF Expected(m.type, s) = {} \/ TooShort(m, e) \/ Repeated(p, s)
             THEN skip
             ELSE [skip EXCEPT !.valid = @ \cup {s}, !.at = s :> p.offset @@ @]

FaultyForget(m) == m.valid   \* the memset of isIeValid is left out, as that of pIe is

Forget(m) == {}

\* nwGtpv2cMsgIeParse.  Each turn uses up an entry or ends the loop.  The pointers
\* to IEs that are not valid stay in the code, where nothing looks at them.
Parse(m) ==
  LET start == [offset |-> 0, valid |-> Forget(m), at |-> m.at, error |-> None,
                junk |-> FALSE]
      p == FoldLeft(LAMBDA q, e : ParseIe(m, q), start, m.buf)
      missing == MandatorySlots(m.type) \ p.valid
  IN  [p EXCEPT !.at = [s \in p.valid |-> @[s]], !.error =
         CASE @ # None -> @
           [] @ = None /\ missing = {} -> Error(Accepted, 0, 0)
           [] OTHER -> Error(IeMissing, Min(missing) \div 4, Min(missing) % 4)]

-----------------------------------------------------------------------------
(* Reading IEs of a parsed message: "ok", "missing", "incorrect", or "junk". *)

Found(m, t, i) == m.buf[EntryAt(m, m.at[Slot(t, i)])]

Present(m, t, i) == Slot(t, i) \in m.valid

\* What a reader gets; it leaves its variable alone if the IE is missing.
Value(m, t, i) == IF Present(m, t, i) THEN Found(m, t, i).v[1] ELSE None

\* nwGtpv2cMsgGetIeTV1, TV2, TV4, TV8
GetIeTV(m, t, i, octets) ==
  CASE ~ Present(m, t, i) -> "missing"
    [] Present(m, t, i) /\ Found(m, t, i).l # octets -> "incorrect"
    [] OTHER -> "ok"

\* nwGtpv2cMsgGetIeTlv: what does not fit is missing.
GetIeTlv(m, t, i, max) ==
  IF Present(m, t, i) /\ Found(m, t, i).l <= max THEN "ok" ELSE "missing"

\* nwGtpv2cMsgGetIeTlvP, nwGtpv2cMsgGetIeCause, nwGtpv2cMsgGetIeFteid
GetIeTlvP(m, t, i)  == IF Present(m, t, i) THEN "ok" ELSE "missing"
GetIeCause(m, i)    == GetIeTlvP(m, Cause, i)
GetIeFteid(m, i)    == GetIeTlvP(m, Fteid, i)

\* The members of a grouped IE as the decoders of the gateway find them: the
\* length of a member is kept in 8 bits.
Members(m, t, i) ==
  LET first == m.at[Slot(t, i)] + 4
      end   == first + Found(m, t, i).l
      member(p) == m.buf[EntryAt(m, p.offset)]
      turn(p, x) ==
        CASE p.offset >= end \/ p.rc # "ok" -> p
          [] p.offset < end /\ p.rc = "ok" /\ EntryAt(m, p.offset) = 0 ->
               [p EXCEPT !.rc = "junk"]
          [] OTHER ->
               IF member(p).l % 256 > end - first + 4
               THEN [p EXCEPT !.rc = "incorrect"]
               ELSE [p EXCEPT !.ies = Append(@, member(p)),
                              !.offset = @ + 4 + (member(p).l % 256)]
  IN  FoldLeft(turn, [offset |-> first, ies |-> <<>>, rc |-> "ok"], m.buf)

-----------------------------------------------------------------------------
(* The life of a message. *)

EmptyMsg == [type |-> 0, teid |-> 0, buf |-> <<>>, len |-> 0, open |-> <<>>,
             valid |-> {}, at |-> [s \in {} |-> 0]]

Init ==
  /\ pool = <<>>
  /\ block = [b \in Blocks |-> EmptyMsg]
  /\ held = {} /\ wire = <<>> /\ rx = None
  /\ cuts = MaxCuts /\ aborted = FALSE

InUse == held \cup (IF rx = None THEN {} ELSE {rx.block})
InPool == {pool[k] : k \in DOMAIN pool}
Fresh == Blocks \ (InUse \cup InPool)

\* The block that nwGtpv2cMsgNew and nwGtpv2cMsgFromBufferNew take.
TakesBlock(b) ==
  /\ b = IF pool # <<>> THEN Head(pool) ELSE CHOOSE x \in Fresh : TRUE
  /\ pool' = IF pool = <<>> THEN pool ELSE Tail(pool)

HasBlock == pool # <<>> \/ Fresh # {}

Datagram(b, sent) ==
  [type |-> block'[b].type, teid |-> block'[b].teid, buf |-> block'[b].buf,
   len |-> block'[b].len, sent |-> sent]

\* A message is built, handed to the stack and sent.  "sent" says what it means.
Send(type, teid, items, sent) ==
  /\ ~ aborted /\ HasBlock /\ Len(wire) < MaxWire
  /\ \E b \in Blocks :
       /\ TakesBlock(b)
       /\ block' = [block EXCEPT ![b] = Build(@, type, teid, items)]
       /\ held' = held \cup {b}
       /\ wire' = Append(wire, Datagram(b, sent))
  /\ UNCHANGED <<rx, cuts, aborted>>

\* A datagram of another implementation.
PeerSends(type, teid, items, sent) ==
  /\ ~ aborted /\ Len(wire) < MaxWire
  /\ LET m == Build(EmptyMsg, type, teid, items)
     IN  wire' = Append(wire, [type |-> type, teid |-> teid, buf |-> m.buf,
                               len |-> m.len, sent |-> sent])
  /\ UNCHANGED <<pool, block, held, rx, cuts, aborted>>

\* nwGtpv2cMsgDelete.  The octets stay, and are written over before they are read
\* again: to forget them here only makes states equal.
Deleted(m) == [m EXCEPT !.type = 0, !.teid = 0, !.buf = <<>>, !.len = 0]

\* The transaction of a sent message is over.
Release(b) ==
  /\ ~ aborted /\ b \in held
  /\ held' = held \ {b} /\ pool' = <<b>> \o pool
  /\ block' = [block EXCEPT ![b] = Deleted(@)]
  /\ UNCHANGED <<wire, rx, cuts, aborted>>

\* The network delivers the first octets of a datagram only: up to an IE, or with
\* a part of its header or of its value.
Cut(d, k, part) ==
  /\ ~ aborted /\ cuts > 0
  /\ LET octets == wire[d].buf[k].at + part IN
       octets < wire[d].len
         /\ wire' = [wire EXCEPT ![d].len = octets, ![d].sent = None]
  /\ cuts' = cuts - 1
  /\ UNCHANGED <<pool, block, held, rx, aborted>>

\* nwGtpv2cMsgFromBufferNew and nwGtpv2cMsgIeParse, as nwGtpv2cHandleInitialReq
\* and nwGtpv2cHandleTriggeredRsp call them.
Receive(d, assertion) ==
  /\ ~ aborted /\ rx = None /\ HasBlock /\ d \in DOMAIN wire
  /\ \E b \in Blocks :
       /\ TakesBlock(b)
       /\ LET m == [block[b] EXCEPT !.type = wire[d].type, !.teid = wire[d].teid,
                                    !.buf = wire[d].buf, !.len = wire[d].len]
              p == Parse(m)
          IN  /\ block' = [block EXCEPT ![b] = [m EXCEPT !.valid = p.valid, !.at = p.at]]
              /\ rx' = [block |-> b, sent |-> wire[d].sent, error |-> p.error]
              /\ assertion => p.junk
              /\ aborted' = assertion
  /\ wire' = RemoveAt(wire, d)
  /\ UNCHANGED <<held, cuts>>

\* The handler has returned.
Delete ==
  /\ ~ aborted /\ rx # None
  /\ pool' = <<rx.block>> \o pool
  /\ block' = [block EXCEPT ![rx.block] = Deleted(@)]
  /\ rx' = None
  /\ UNCHANGED <<held, wire, cuts, aborted>>

-----------------------------------------------------------------------------
(* Properties *)

\* What the parser finds is what the message says: of the IEs at its top, up to
\* the first that is wrong, the first of each kind that the table has; and it
\* reports the first error there is, or the first missing IE
\* (NwGtpv2cMsgIeParseInfo.c:318-445).
ParseIsReference ==
  rx # None =>
    LET m     == block[rx.block]
        tops  == {k \in DOMAIN m.buf : m.buf[k].depth = 0 /\ m.buf[k].at < m.len}
        info(k) == Expected(m.type, Slot(m.buf[k].t, m.buf[k].i))
        short(k) == \E x \in info(k) : m.buf[k].l < x.min
        first(k) == \A j \in tops : (j < k /\ ~ short(j)) => info(j) # info(k)
        lost(k) == m.buf[k].at + 4 + m.buf[k].l > m.len
        wrong == {k \in tops : \/ lost(k)
                               \/ short(k) /\ \A x \in info(k) : x.presence # "optional"}
        good  == {k \in tops : (\A j \in wrong : k < j) /\ info(k) # {} /\ ~ short(k)}
        found == {Slot(m.buf[k].t, m.buf[k].i) : k \in good}
        missing == {x \in IeInfo[m.type] :
                      x.presence = "mandatory" /\ Slot(x.t, x.i) \notin found}
    IN  /\ m.valid = found
        /\ \A k \in good : first(k) =>
             m.at[Slot(m.buf[k].t, m.buf[k].i)] = m.buf[k].at
        /\ CASE wrong # {} ->
                  rx.error.cause = IF lost(Min(wrong)) THEN InvalidLength ELSE IeIncorrect
             [] wrong = {} /\ missing # {} ->
                  \E x \in missing :
                    /\ rx.error = Error(IeMissing, x.t, x.i)
                    /\ \A y \in missing : Slot(x.t, x.i) <= Slot(y.t, y.i)
             [] OTHER -> rx.error.cause = Accepted

=============================================================================
