------------------------------ MODULE Startup ------------------------------
(***************************************************************************)
(* How the programs of the repository are put together: the gateway and    *)
(* the test programs of the four stacks.  A function that constructs or    *)
(* configures something is the sequence of its steps, and a step says      *)
(* which fields it reads and which it sets; a field is a pair of the thing *)
(* it belongs to and its name in the code.  What has been allocated with   *)
(* malloc and not cleared has no field set.  The last steps of a program   *)
(* are the ones that its first event makes from the event loop.            *)
(*                                                                         *)
(* The hello-world program of the data plane is left out: it does not      *)
(* compile against NwSdp.h, whose functions it calls with other arguments. *)
(* So are the fields that are only printed, and the log level from the     *)
(* environment.                                                            *)
(***************************************************************************)
EXTENDS Sequences

Step(reads, sets) == [reads |-> reads, sets |-> sets, fallible |-> FALSE]

\* A step that asks the operating system, and ends the program if it refuses.
Ask(reads, sets) == [Step(reads, sets) EXCEPT !.fallible = TRUE]

Fields(thing, names) == {<<thing, n>> : n \in names}
New(thing, names) == Step({}, {<<thing, "handle">>} \cup Fields(thing, names))
Set(thing, name) == Step({<<thing, "handle">>}, {<<thing, name>>})
SetFrom(source, thing, name) == Step({<<thing, "handle">>, <<source, name>>}, {<<thing, name>>})

---------------------------------------------------------------------------
\* The stacks: their constructors and their Set functions.

Entities == {"ulp", "udp", "tmrMgr", "logMgr", "logLevel", "memMgr"}

\* nwGtpv2cInitialize clears the stack.
GtpcInitialize ==
  <<New("gtpc", Entities \cup {"tunnelMap", "outstandingTxSeqNumMap", "outstandingRxSeqNumMap",
                               "activeTimerList", "hTmrMinHeap", "pGtpv2cMsgIeParseInfo"})>>

GtpcSet(name) == Set("gtpc", name)

GtpuInitialize == <<New("gtpu", {"outstandingTxSeqNumMap", "outstandingRxSeqNumMap"})>>

GtpuSet(name) == Set("gtpu", name)
GtpuSetFromSdp(name) == SetFrom("sdp", "gtpu", name)

Ipv4Initialize == <<New("ipv4", {"mode", "ipv4AddrMap"})>>

Ipv4Set(name) == Set("ipv4", name)
Ipv4SetFromSdp(name) == SetFrom("sdp", "ipv4", name)

GreInitialize == <<New("gre", {"outstandingTxSeqNumMap", "outstandingRxSeqNumMap"})>>

GreSet(name) == Set("gre", name)

\* nwSdpInitialize
SdpInitialize == <<New("sdp", {})>>

SdpSet(name) == Set("sdp", name)

---------------------------------------------------------------------------
\* The services of the data plane.

SdpCreateGtpuService ==
  GtpuInitialize \o
  <<Set("sdp", "hGtpv1uStack"),
    GtpuSetFromSdp("memMgr"), GtpuSetFromSdp("tmrMgr"), GtpuSetFromSdp("logMgr"),
    GtpuSetFromSdp("logLevel"),
    GtpuSet("ulp"), Step({<<"gtpu", "handle">>, <<"gtpuIf", "hSocket">>}, {<<"gtpu", "udp">>})>>

SdpCreateIpv4Service ==
  Ipv4Initialize \o
  <<Set("sdp", "hIpv4Stack"),
    Ipv4Set("mode"),
    Ipv4SetFromSdp("memMgr"), Ipv4SetFromSdp("tmrMgr"), Ipv4SetFromSdp("logMgr"),
    Ipv4SetFromSdp("logLevel"),
    Ipv4Set("ulp"), Step({<<"ipv4", "handle">>, <<"ipv4If", "hwAddr">>}, {<<"ipv4", "llp">>})>>

\* nwGtpv1uIfInitialize: socket and bind
GtpuIfInitialize ==
  <<Ask({}, {}), Ask({<<"sdp", "handle">>}, {<<"gtpuIf", "hSocket">>})>>

\* nwIpv4IfInitialize: the sockets that receive IPv4 and ARP and the one that sends
Ipv4IfInitialize ==
  <<Ask({}, {<<"ipv4If", "hwAddr">>}),
    Ask({<<"sdp", "handle">>}, {<<"ipv4If", "hRecvSocketIpv4">>}),
    Ask({}, {<<"ipv4If", "hRecvSocketArp">>}),
    Ask({}, {<<"ipv4If", "hSendSocket">>})>>

DpeCreateGtpuService == GtpuIfInitialize \o SdpCreateGtpuService \o <<Set("dpe", "hGtpu")>>

DpeCreateIpv4Service == Ipv4IfInitialize \o SdpCreateIpv4Service \o <<Set("dpe", "hIpv4")>>

---------------------------------------------------------------------------
\* The gateway.

\* nwMemNew takes memPool_mutex.
MemNew(thing, names) ==
  Step({<<"memPool", "heads">>, <<"memPool_mutex", "init">>},
       {<<thing, "handle">>} \cup Fields(thing, names))

FaultyDpeInitialize ==
  <<MemNew("dpe", {})>> \o SdpInitialize \o
  <<SdpSet("memMgr"), SdpSet("logMgr"), SetFrom("log", "sdp", "logLevel")>>

DpeInitialize ==
  <<MemNew("dpe", {})>> \o SdpInitialize \o
  <<SdpSet("memMgr"), SdpSet("logMgr"), SetFrom("log", "sdp", "logLevel"),
    SdpSet("tmrMgr")>>

\* nwSaeGwUlpCreateGtpv2cStackInstance
UlpCreateGtpv2cStackInstance ==
  GtpcInitialize \o
  <<GtpcSet("logMgr"), Step({<<"log", "logLevel">>}, {<<"gtpc", "logLevel">>}),
    GtpcSet("tmrMgr"), GtpcSet("memMgr")>>

\* nwSaeGwUlpNew, with the states of NwSaeGwUeFsmNew
UlpNew == <<MemNew("pgw", {}), MemNew("fsm", {"pUeState"}), Set("pgw", "pUeFsm")>>

\* nwGtpv2cIfInitialize: socket, bind and the size of the receive buffer
GtpcIfInitialize ==
  <<Ask({}, {}), Ask({}, {}), Ask({<<"gtpc", "handle">>}, {<<"udpIf", "hSocket">>})>>

GtpcEventAdded == <<"udpIf", "ev">>

\* nwSaeGwUlpInitialize for a PGW; it copies the addresses of an SGW that the
\* configuration leaves unset.
UlpInitialize ==
  <<Step({<<"pgw", "handle">>, <<"dpe", "handle">>, <<"cfg", "sgwAddresses">>}, {<<"pgw", "pDpe">>})>>
  \o UlpCreateGtpv2cStackInstance \o GtpcIfInitialize \o
  <<Step({<<"event", "handle">>, <<"udpIf", "hSocket">>}, {GtpcEventAdded}),
    GtpcSet("udp"), GtpcSet("ulp"),
    MemNew("hIpv4Pool", {"free"}),
    Set("pgw", "uePgwSessionRbt")>>

Given(a, option, steps) == IF option \in a THEN steps ELSE <<>>

\* nwSaeGwInitialize with the options a
SaeGwInitialize(a) ==
  DpeInitialize \o Given(a, "pgw-s5-ip", UlpNew \o UlpInitialize)
  \o Given(a, "gtpu-ip", DpeCreateGtpuService)
  \o Given(a, "sgi-if", DpeCreateIpv4Service)

MemInitialize == <<Step({}, {<<"memPool", "heads">>})>>

\* The log file's directory is made and the file is opened.
LogMgrInit == <<Step({}, {<<"log", "logLevel">>, <<"log", "fp">>})>>

\* init_queue and init_mutex_queue
QueueInitialize ==
  <<Step({}, {<<"gtpv2_queue", "status">>}), Step({}, {<<"gtpv2_queue", "queue_mutex">>})>>

\* pgw_thread_mutex_create, linkerPthreadpoolInit and the first two workers
ThreadsCreate ==
  <<Step({}, Fields("memPool_mutex", {"init"}) \cup Fields("mutexes", {"init"})),
    Step({}, {<<"pgw_pthreads_udp", "client">>}),
    Step({<<"pgw_pthreads_udp", "client">>, <<"gtpv2_queue", "queue_mutex">>},
         {<<"pgw_pthreads_udp", "childNum">>})>>

\* A Create Session Request: the loop puts it into a queue, a worker takes it
\* and makes the session with its flows, and the answer is sent.
ServeSession ==
  <<Step({<<"udpIf", "hSocket">>, <<"gtpv2_queue", "status">>, <<"gtpv2_queue", "queue_mutex">>,
          <<"pgw_pthreads_udp", "childNum">>}, {}),
    Step(Fields("gtpc", Entities \cup {"pGtpv2cMsgIeParseInfo", "outstandingRxSeqNumMap"})
         \cup {<<"mutexes", "init">>, <<"memPool_mutex", "init">>}, {}),
    Step(Fields("pgw", {"pUeFsm", "uePgwSessionRbt", "pDpe"}) \cup {<<"hIpv4Pool", "free">>}, {}),
    Step(Fields("sdp", {"memMgr", "hGtpv1uStack", "hIpv4Stack"}), {})>>

ServeGtpuEndPoint == <<Step(Fields("gtpu", {"memMgr", "teidMap", "logMgr", "logLevel"}), {})>>
ServeIpv4EndPoint == <<Step(Fields("ipv4", {"ipv4AddrMap", "logMgr", "logLevel", "llp"}), {})>>

\* main of NwSaeGwMain.c; an unknown option ends it.
GatewayMain(a) ==
  <<Ask({}, {}), New("event", {})>> \o MemInitialize \o LogMgrInit
  \o SaeGwInitialize(a) \o QueueInitialize \o ThreadsCreate

GatewayServes(a) ==
  Given(a, "pgw-s5-ip",
        ServeSession \o Given(a, "gtpu-ip", ServeGtpuEndPoint) \o Given(a, "sgi-if", ServeIpv4EndPoint))

---------------------------------------------------------------------------
\* The test programs.  Their events are libevent's.

\* nwMiniLogMgrInit
MiniLogMgrInit == <<Step({}, {<<"miniLog", "logLevel">>})>>

\* A mini UDP or link layer entity: socket and bind, and its event is added.
MiniUdpInit(stack) ==
  <<Ask({}, {}), Ask({}, {}),
    Step({<<"event", "handle">>, <<stack, "handle">>}, {<<"miniUdp", "hSocket">>, <<"miniUdp", "ev">>})>>

MiniUlpInit(stack) == <<Step({<<stack, "handle">>}, {<<"miniUlp", "hStack">>})>>

\* nwTimerStart
TimerStarts == {<<"event", "handle">>, <<"miniLog", "logLevel">>}

\* A request that a stack sends: a message, a transaction and its timer.
Requests(stack) ==
  <<Step(Fields(stack, {"memMgr", "logMgr", "logLevel"}) \cup {<<"miniUlp", "hStack">>}, {}),
    Step(Fields(stack, {"udp"}) \cup {<<"miniUdp", "hSocket">>}, {}),
    Step(Fields(stack, {"tmrMgr", "outstandingTxSeqNumMap"}) \cup TimerStarts, {})>>

\* nwMiniUlpCreateConn: a tunnel end point, a socket to read and one to send
CreateConn(stack, map) ==
  <<Step(Fields(stack, map \cup {"logMgr", "logLevel"}) \cup {<<"miniUlp", "hStack">>}, {}),
    Ask({}, {}), Ask({}, {}),
    Step({<<"event", "handle">>}, {<<"miniUlp", "ev">>}),
    Ask({}, {<<"miniUlp", "hSocket">>})>>

\* It ends with an assertion if its first request cannot be sent.
GtpcHelloMain ==
  <<Ask({}, {}), New("event", {})>> \o MiniLogMgrInit \o GtpcInitialize \o <<GtpcSet("logLevel")>>
  \o MiniUlpInit("gtpc") \o <<GtpcSet("ulp")>> \o MiniUdpInit("gtpc") \o <<GtpcSet("udp")>>
  \o <<GtpcSet("tmrMgr"), GtpcSet("logMgr")>> \o Requests("gtpc") \o <<Ask({}, {})>>

\* The socket of egtping also asks for the errors that the network reports.
EgtPingUdpInit == <<Ask({}, {})>> \o MiniUdpInit("gtpc")

\* nwGtpv2cUlpCreatePeerContext: the local tunnel to the peer
CreatePeerContext == <<Step(Fields("gtpc", {"memMgr", "tunnelMap"}), {<<"peer", "hTunnel">>})>>

\* nwGtpv2cUlpPing
Ping == CreatePeerContext \o <<Step({<<"peer", "hTunnel">>}, {})>> \o Requests("gtpc")

EgtPingMain ==
  <<Ask({}, {}), New("event", {})>> \o MiniLogMgrInit \o GtpcInitialize \o <<GtpcSet("logLevel")>>
  \o MiniUlpInit("gtpc") \o <<GtpcSet("ulp")>> \o EgtPingUdpInit \o <<GtpcSet("udp")>>
  \o <<GtpcSet("tmrMgr"), GtpcSet("logMgr")>> \o Ping

GtpuHelloMain ==
  <<Ask({}, {}), New("event", {})>> \o MiniLogMgrInit \o GtpuInitialize
  \o MiniUlpInit("gtpu") \o <<GtpuSet("ulp")>> \o MiniUdpInit("gtpu") \o <<GtpuSet("udp")>>
  \o <<GtpuSet("tmrMgr"), GtpuSet("logMgr"), GtpuSet("logLevel")>> \o Requests("gtpu")

GreHelloMain ==
  <<Ask({}, {}), New("event", {})>> \o MiniLogMgrInit \o GreInitialize
  \o MiniUlpInit("gre") \o <<GreSet("ulp")>> \o MiniUdpInit("gre") \o <<GreSet("udp")>>
  \o <<GreSet("tmrMgr"), GreSet("logMgr"), GreSet("logLevel")>>
  \o CreateConn("gre", {"memMgr", "teidMap"})

\* The IPv4 stack allocates with malloc.
Ipv4HelloMain ==
  <<Ask({}, {}), New("event", {})>> \o MiniLogMgrInit \o Ipv4Initialize
  \o MiniUlpInit("ipv4") \o <<Ipv4Set("ulp")>> \o MiniUdpInit("ipv4") \o <<Ipv4Set("llp")>>
  \o <<Ipv4Set("tmrMgr"), Ipv4Set("logMgr"), Ipv4Set("logLevel")>>
  \o CreateConn("ipv4", {"ipv4AddrMap"})

\* A datagram that a mini UDP entity reads and its stack hands on.
MiniServes(stack) ==
  <<Step({<<"miniUdp", "hSocket">>, <<stack, "handle">>}, {}),
    Step(Fields(stack, {"ulp", "logMgr", "logLevel"}), {})>>

---------------------------------------------------------------------------
\* The programs.

Programs == {"gateway", "egtping", "gtpcHello", "gtpuHello", "greHello", "ipv4Hello"}
Options == {"pgw-s5-ip", "gtpu-ip", "sgi-if"}

Main(p, a) ==
  CASE p = "gateway" -> GatewayMain(a)
    [] p = "egtping" -> EgtPingMain
    [] p = "gtpcHello" -> GtpcHelloMain
    [] p = "gtpuHello" -> GtpuHelloMain
    [] p = "greHello" -> GreHelloMain
    [] p = "ipv4Hello" -> Ipv4HelloMain

StackOf == [p \in Programs \ {"gateway"} |->
  CASE p \in {"egtping", "gtpcHello"} -> "gtpc"
    [] p = "gtpuHello" -> "gtpu"
    [] p = "greHello" -> "gre"
    [] p = "ipv4Hello" -> "ipv4"]

Serves(p, a) == IF p = "gateway" THEN GatewayServes(a) ELSE MiniServes(StackOf[p])

VARIABLES
  program,
  options,  \* the options that the gateway is given
  stage,    \* "main", "loop" or "exited"
  todo,     \* the steps to come in this stage
  fields,   \* the fields that have been set
  unset     \* the fields that were read before they were set

startVars == <<program, options, stage, todo, fields, unset>>

StartInit ==
  /\ program \in Programs
  /\ options \in SUBSET Options
  /\ program # "gateway" => options = {}
  /\ stage = "main"
  /\ todo = Main(program, options)
  /\ fields = {} /\ unset = {}

DoStep ==
  /\ todo # <<>>
  /\ fields' = fields \cup Head(todo).sets
  /\ unset' = unset \cup (Head(todo).reads \ fields)
  /\ todo' = Tail(todo)
  /\ UNCHANGED <<program, options, stage>>

\* exit or a failing NW_ASSERT
Refused ==
  /\ todo # <<>>
  /\ Head(todo).fallible
  /\ stage' = "exited" /\ todo' = <<>>
  /\ UNCHANGED <<program, options, fields, unset>>

\* NW_EVT_LOOP
EnterLoop ==
  /\ stage = "main" /\ todo = <<>>
  /\ stage' = "loop" /\ todo' = Serves(program, options)
  /\ UNCHANGED <<program, options, fields, unset>>

---------------------------------------------------------------------------
\* The fields that the code forgets, and reads before they are set; it works
\* as long as malloc returns cleared memory and a cleared mutex is a free one.
Forgotten ==
  CASE program = "gateway" ->
         {<<"memPool_mutex", "init">>, <<"cfg", "sgwAddresses">>, <<"gtpu", "teidMap">>}
         \cup (IF "gtpu-ip" \in options THEN {} ELSE {<<"sdp", "hGtpv1uStack">>})
         \cup (IF "sgi-if" \in options THEN {} ELSE {<<"sdp", "hIpv4Stack">>})
    [] program = "gtpuHello" -> {<<"gtpu", "memMgr">>}
    [] program = "greHello" -> {<<"gre", "memMgr">>, <<"gre", "teidMap">>}
    [] OTHER -> {}

\* From the first line of main to the first event served, no manager, callback,
\* socket, map or pool is used before the program has set it, but for those
\* that the code forgets (NwSaeGwMain.c:221-345, NwSdp.c:693, NwGtpv1u.c:576).
NothingElseUnset == unset \subseteq Forgotten
=============================================================================
