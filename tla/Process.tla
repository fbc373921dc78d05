------------------------------ MODULE Process ------------------------------
(***************************************************************************)
(* A program from its start: it puts its parts together (module Startup),  *)
(* enters the event loop, and serves events.  The gateway's loop is the    *)
(* event engine of the repository (module EventEngine) with the events     *)
(* that start-up has added; the loop of the test programs is libevent's,   *)
(* and those of the GTPv2-C stack are followed into it (module             *)
(* GtpcPrograms), the others up to their first event.                      *)
(***************************************************************************)
EXTENDS Startup, EventEngine, GtpcPrograms

CONSTANT GtpcFd  \* the descriptor of the GTP-C socket

ASSUME ProcessAssumption == GtpcFd \in Fds

vars == <<startVars, engineVars, testVars>>

Init == StartInit /\ EngineInit /\ TestInit(program)

\* NW_EVENT_ADD of the GTP-C socket, nothing else in the gateway is added.
AddsGtpc == program = "gateway" /\ GtpcEventAdded \in Head(todo).sets

\* A step of main, or of what main has led to.
MainStep ==
  /\ DoStep
  /\ IF AddsGtpc THEN Add(GtpcFd) ELSE UNCHANGED engineVars
  /\ UNCHANGED testVars

Exits == Refused /\ UNCHANGED <<engineVars, testVars>>

\* The test programs enter it with their first request sent.
Loops ==
  /\ EnterLoop
  /\ IF program = "gateway"
     THEN phase' = "select" /\ UNCHANGED <<gInstance, readable, selected, calling>>
     ELSE UNCHANGED engineVars
  /\ IF program \in GtpcProgram THEN FirstEcho ELSE UNCHANGED testVars

\* The loop, after the steps that serving its first event takes.
Serving == stage = "loop" /\ todo = <<>>

Gateway(A) == Serving /\ program = "gateway" /\ A /\ UNCHANGED <<startVars, testVars>>

LoopRuns == Gateway(Loop)
Callbacks == Gateway(Use)
TimeGoesOn == Gateway(TimePasses)
Datagram(f) == Gateway(Arrive(f))

TestProgramRuns ==
  /\ Serving /\ program \in GtpcProgram
  /\ TestRuns(program)
  /\ UNCHANGED <<startVars, engineVars>>

TestProgramAborts ==
  /\ Serving /\ SendFails(program)
  /\ stage' = "exited"
  /\ UNCHANGED <<program, options, todo, fields, unset, engineVars>>

Done ==
  /\ stage = "exited" \/ (Serving /\ program \notin GtpcProgram \cup {"gateway"})
  /\ UNCHANGED vars

Next ==
  \/ MainStep \/ Exits \/ Loops
  \/ LoopRuns \/ Callbacks \/ TimeGoesOn \/ \E f \in Fds : Datagram(f)
  \/ TestProgramRuns \/ TestProgramAborts
  \/ Done

\* The program runs; what happens outside need not.
FairSpec == Init /\ [][Next]_vars /\ WF_vars(MainStep) /\ WF_vars(Loops) /\ WF_vars(LoopRuns)

---------------------------------------------------------------------------
\* egtping neither stops nor storms: until its pings are used up, one request is
\* under way and no more, whatever the network does to answers, late or
\* repeated ones included (NwMiniUlpEntity.c:164-217 of nw-egtping,
\* NwGtpv2c.c:1041-1078, NwGtpv2cTrxn.c:87-127).
PingGoesOn ==
  Serving /\ program = "egtping" =>
    LET underWay == {s \in DOMAIN outstandingTxSeqNumMap : outstandingTxSeqNumMap[s] # None}
    IN  \/ Cardinality(underWay) = 1
        \/ underWay = {} /\ pingCount = 0
=============================================================================
