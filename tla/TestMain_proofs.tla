--------------------------- MODULE TestMain_proofs --------------------------
(***************************************************************************)
(* Proofs about the program, for every number of callers and strangers,    *)
(* any poll limit, and system calls that fail or not.                      *)
(*                                                                         *)
(* Each step of the running program is a step of ServerTCP, so ServerInv   *)
(* holds by ServerTCP_proofs; what remains is what main() and its callers  *)
(* add to it, and the steps that end the process.                          *)
(***************************************************************************)
EXTENDS TestMain, ServerTCP_proofs, FiniteSetTheorems

-----------------------------------------------------------------------------
(* The steps of the program. *)

\* What quit_server() does to its connection an arbitrary client may do.
LEMMA CallIsClient ==
    ASSUME SystemInv, NEW c \in Callers, ClientNext(c), UNCHANGED server
    PROVE  UNCHANGED vars \/ PeerConnect(c) \/ PeerSend(c) \/ PeerHangup(c)
  <1>1. CASE Acquire(c) \/ AcquireFails(c) \/ ConnectFails(c)
    BY <1>1 DEF Acquire, AcquireFails, ConnectFails, vars
  <1>2. CASE Connect(c)
    BY <1>2 DEF Connect, PeerConnect
  <1>3. CASE SendQuit(c)
    <2>1. inq[c] = <<>>
      BY <1>3 DEF SendQuit, Step, SystemInv, CallsKnown
    <2>2. Len(<<>> \o <<"Q">>) <= MaxUnread
      BY MainAssumption
    <2>3. TcpSend(c, <<"Q">>) /\ <<"Q">> \in Messages
      BY <1>3, MainAssumption DEF SendQuit
    <2>. QED BY <2>1, <2>2, <2>3 DEF PeerSend
  <1>4. CASE SendFails(c) \/ Shutdown(c)
    BY <1>4 DEF SendFails, Shutdown, LeaveConnected, PeerHangup
  <1>. QED BY <1>1, <1>2, <1>3, <1>4 DEF ClientNext

\* A step of main() constructs the server, ends the process, or leaves the
\* server and its connections alone.
LEMMA MainStep ==
    ASSUME SystemInv, MainNext
    PROVE  /\ UNCHANGED <<server, cl>>
           /\ \/ Construct
              \/ TcpStop /\ main' = "left" /\ ~Running'
              \/ UNCHANGED tcp /\ main' # "left" /\ proc' = proc
  <1>. USE DEF Goto, EndProcess, Running, server, tcp
  <1>1. CASE Construct
    BY <1>1 DEF Construct
  <1>2. CASE ConstructFails \/ SpawnFails \/ GiveUp \/ QuitThrew
    BY <1>2 DEF ConstructFails, SpawnFails, GiveUp, QuitThrew, ExitFailure
  <1>3. CASE Join
    BY <1>3 DEF Join
  <1>4. CASE Spawn \/ RunTests \/ QuitSent
    BY <1>4 DEF Spawn, RunTests, QuitSent
  <1>5. CASE PollReady
    BY <1>5 DEF PollReady
  <1>6. CASE PollAgain
    BY <1>6 DEF PollAgain
  <1>. QED BY <1>1, <1>2, <1>3, <1>4, <1>5, <1>6 DEF MainNext

\* Every step belongs to the server and its clients, constructs the server,
\* ends the process, or happens after its end.
LEMMA ProgramStep ==
    ASSUME SystemInv, [MainSystemNext]_allvars
    PROVE  \/ [Next]_vars
           \/ Construct /\ UNCHANGED server
           \/ TcpStop /\ UNCHANGED server /\ ~Running'
  <1>1. CASE MainNext
    BY <1>1, MainStep DEF vars, server
  <1>2. CASE ThreadNext
    <2>1. CASE UncaughtException
      BY <2>1 DEF UncaughtException, EndProcess, Running
    <2>2. CASE ServerNext
      BY <2>2 DEF Next
    <2>. QED BY <1>2, <2>1, <2>2 DEF ThreadNext
  <1>3. ASSUME NEW c \in Callers, CallNext(c) PROVE [Next]_vars
    BY <1>3, CallIsClient DEF CallNext, Callers, Next
  <1>4. ASSUME NEW c \in Strangers, StrangerNext(c) PROVE [Next]_vars
    BY <1>4, MainAssumption DEF StrangerNext, Next
  <1>5. CASE Finished \/ UNCHANGED allvars
    BY <1>5 DEF Finished, allvars, vars
  <1>. QED BY <1>1, <1>2, <1>3, <1>4, <1>5 DEF MainSystemNext

\* Only a running program makes it to a step after which it runs.
LEMMA RanBefore == ASSUME [MainSystemNext]_allvars, Running' PROVE Running
  <1>1. MainNext => Running
    BY DEF MainNext, Construct, ConstructFails, Spawn, SpawnFails, PollReady,
           PollAgain, GiveUp, RunTests, QuitSent, QuitThrew, Join, Goto
  <1>2. ThreadNext => Running
    BY DEF ThreadNext, UncaughtException
  <1>3. ~(MainNext \/ ThreadNext) => proc' = proc
    BY DEF MainSystemNext, CallNext, StrangerNext, Finished, mainvars, allvars
  <1>. QED BY <1>1, <1>2, <1>3 DEF Running

\* While the process lives, the invariant of run() holds in it.
LEMMA ServerInvKept ==
    ASSUME SystemInv, [MainSystemNext]_allvars, Running'
    PROVE  ServerInv'
  <1>1. Running
    BY RanBefore
  <1>2. ServerInv
    BY <1>1 DEF SystemInv
  <1>3. CASE [Next]_vars
    BY <1>2, <1>3, ServerInvStep
  <1>4. CASE Construct /\ UNCHANGED server
    BY <1>2, <1>4
       DEF Construct, server, ServerInv, TypeOK, TcpTypeOK, ServerTypeOK,
           NoConnectionLeft, OneAtATime, QueueOrder, ReadBounds, QuitAsRead,
           QuitReceived
  <1>. QED BY <1>3, <1>4, ProgramStep

\* The types of the connections survive the end of the process.
LEMMA TypesKept ==
    ASSUME SystemInv, [MainSystemNext]_allvars PROVE TypeOK'
  <1>. TypeOK
    BY DEF SystemInv, SystemTypeOK, TypeOK
  <1>. USE DEF TypeOK
  <1>1. CASE Running'
    BY <1>1, ServerInvKept DEF ServerInv
  <1>2. CASE TcpStop /\ UNCHANGED server
    <2>1. <<>> \in Seq(Clients) /\ <<>> \in Seq(Bytes)
      OBVIOUS
    <2>2. TcpTypeOK'
      BY <1>2, <2>1 DEF TcpStop, TcpTypeOK
    <2>. QED BY <1>2, <2>2 DEF ServerTypeOK, server
  <1>3. ASSUME NEW c \in Clients,
               UNCHANGED vars \/ PeerConnect(c) \/ PeerSend(c) \/ PeerHangup(c)
        PROVE  TypeOK'
    <2>1. CASE PeerConnect(c)
      BY <2>1 DEF PeerConnect, TcpConnect, TcpTypeOK, ServerTypeOK, server
    <2>2. CASE PeerSend(c)
      <3>1. PICK m \in Messages : TcpSend(c, m) /\ UNCHANGED server
        BY <2>2 DEF PeerSend
      <3>2. inq[c] \o m \in Seq(Bytes)
        BY ServerAssumption DEF TcpTypeOK
      <3>. QED BY <3>1, <3>2 DEF TcpSend, TcpTypeOK, ServerTypeOK, server
    <2>3. CASE PeerHangup(c)
      BY <2>3 DEF PeerHangup, TcpHangup, TcpTypeOK, ServerTypeOK, server
    <2>4. CASE UNCHANGED vars
      BY <2>4 DEF vars, tcp, server, TcpTypeOK, ServerTypeOK
    <2>. QED BY <1>3, <2>1, <2>2, <2>3, <2>4
  <1>4. CASE ~Running /\ ~Running'
    <2>1. CASE \E c \in Callers : CallNext(c)
      BY <1>3, <2>1, CallIsClient DEF CallNext, Callers
    <2>2. CASE \E c \in Strangers : StrangerNext(c)
      BY <1>3, <2>2, MainAssumption DEF StrangerNext
    <2>3. CASE Finished \/ UNCHANGED allvars
      BY <2>3 DEF Finished, allvars, tcp, server, TcpTypeOK, ServerTypeOK
    <2>. QED BY <1>4, <2>1, <2>2, <2>3
             DEF MainSystemNext, MainNext, ThreadNext, UncaughtException, Construct,
                 ConstructFails, Spawn, SpawnFails, PollReady, PollAgain, GiveUp,
                 RunTests, QuitSent, QuitThrew, Join, Goto
  <1>5. CASE Running /\ ~Running'
    <2>1. CASE MainNext
      BY <1>2, <1>5, <2>1, MainStep DEF Construct, Running
    <2>2. CASE UncaughtException
      BY <1>2, <2>2 DEF UncaughtException, EndProcess
    <2>3. ~MainNext /\ ~UncaughtException => proc' = proc
      BY DEF MainSystemNext, ThreadNext, CallNext, StrangerNext, Finished,
             mainvars, allvars
    <2>. QED BY <1>5, <2>1, <2>2, <2>3 DEF Running
  <1>. QED BY <1>1, <1>4, <1>5
-----------------------------------------------------------------------------
(* What is known of the calls of quit_server(). *)

\* What a step without a client may change in the connections.
OnlyServerMoves ==
    /\ \A c \in Clients : link'[c] = "none" <=> link[c] = "none"
    /\ \A c \in Clients : inq[c] = <<>> => inq'[c] = <<>>
    /\ UNCHANGED <<peer, cl>>

\* run() accepts what is queued and closes what it accepted.
LEMMA ServerMoves ==
    ASSUME SystemInv, Running, ServerNext, UNCHANGED cl PROVE OnlyServerMoves
  <1>. USE DEF OnlyServerMoves, tcp
  <1>. /\ ServerInv /\ TypeOK
    BY DEF SystemInv, ServerInv
  <1>. USE DEF TypeOK, TcpTypeOK
  <1>1. CASE Accept
    <2>1. Len(queue) \in Nat \ {0} /\ Head(queue) = queue[1] /\ Head(queue) \in Clients
      BY <1>1 DEF Accept, TcpAccept
    <2>2. link[Head(queue)] = "queued"
      BY <2>1 DEF ServerInv, QueueOrder
    <2>. QED BY <1>1, <2>1, <2>2 DEF Accept, TcpAccept
  <1>2. CASE Recv
    BY <1>2 DEF Recv, TcpRead
  <1>3. CASE Hangup
    <2>1. accept_sfd \in Clients /\ link[accept_sfd] = "accepted"
      BY <1>3 DEF Hangup, ServerInv, NoConnectionLeft, OneAtATime, ServerTypeOK
    <2>. QED BY <1>3, <2>1 DEF Hangup, TcpClose
  <1>4. CASE SetReady \/ AcceptFails \/ RecvNothing \/ RecvFails \/ CheckRead \/ Leave
    BY <1>4 DEF SetReady, AcceptFails, RecvNothing, RecvFails, CheckRead, Leave
  <1>. QED BY <1>1, <1>2, <1>3, <1>4 DEF ServerNext

LEMMA StopMoves ==
    ASSUME SystemInv, TcpStop, UNCHANGED cl PROVE OnlyServerMoves
  BY DEF TcpStop, OnlyServerMoves, SystemInv, SystemTypeOK, TcpTypeOK

\* Such a step keeps what is known of the calls.
LEMMA CallsKeep ==
    ASSUME SystemInv, OnlyServerMoves
    PROVE  CallsKnown' /\ NoConnectionAbandoned' /\ ClientTypeOK'
  BY DEF SystemInv, SystemTypeOK, CallsKnown, NoConnectionAbandoned, ClientTypeOK,
         OnlyServerMoves, Callers

\* A step of a call concerns that call only.
LEMMA CallStep ==
    ASSUME SystemInv, NEW c \in Callers, ClientNext(c)
    PROVE  CallsKnown' /\ NoConnectionAbandoned' /\ ClientTypeOK'
  <1>. /\ c \in Clients /\ c \notin Strangers
       /\ TcpTypeOK /\ ClientTypeOK /\ CallsKnown /\ NoConnectionAbandoned
    BY DEF Callers, SystemInv, SystemTypeOK
  <1>. USE DEF CallsKnown, NoConnectionAbandoned, ClientTypeOK, TcpTypeOK, Step,
               Callers, tcp
  <1>1. CASE Acquire(c)
    BY <1>1 DEF Acquire
  <1>2. CASE AcquireFails(c)
    BY <1>2 DEF AcquireFails
  <1>3. CASE Connect(c)
    BY <1>3 DEF Connect, TcpConnect
  <1>4. CASE ConnectFails(c)
    BY <1>4 DEF ConnectFails
  <1>5. CASE SendQuit(c)
    BY <1>5 DEF SendQuit, TcpSend
  <1>6. CASE SendFails(c)
    BY <1>6 DEF SendFails, LeaveConnected, TcpHangup
  <1>7. CASE Shutdown(c)
    BY <1>7 DEF Shutdown, LeaveConnected, TcpHangup
  <1>. QED BY <1>1, <1>2, <1>3, <1>4, <1>5, <1>6, <1>7 DEF ClientNext

\* Strangers open, use and close their own connections only.
LEMMA StrangerStep ==
    ASSUME SystemInv, NEW c \in Strangers, StrangerNext(c)
    PROVE  CallsKnown' /\ NoConnectionAbandoned' /\ ClientTypeOK'
  <1>. /\ c \in Clients /\ c \notin Callers
       /\ TcpTypeOK /\ ClientTypeOK /\ CallsKnown /\ NoConnectionAbandoned
    BY MainAssumption DEF Callers, SystemInv, SystemTypeOK
  <1>. USE DEF CallsKnown, NoConnectionAbandoned, ClientTypeOK, TcpTypeOK,
               Callers, tcp
  <1>. cl' = cl /\ cl[c] = "idle"
    BY DEF StrangerNext
  <1>1. CASE PeerConnect(c)
    BY <1>1 DEF PeerConnect, TcpConnect
  <1>2. CASE PeerSend(c)
    BY <1>2 DEF PeerSend, TcpSend
  <1>3. CASE PeerHangup(c)
    BY <1>3 DEF PeerHangup, TcpHangup
  <1>. QED BY <1>1, <1>2, <1>3 DEF StrangerNext

LEMMA CallsKnownKept ==
    ASSUME SystemInv, [MainSystemNext]_allvars
    PROVE  CallsKnown' /\ NoConnectionAbandoned' /\ ClientTypeOK'
  <1>1. CASE MainNext
    <2>1. OnlyServerMoves
      BY <1>1, MainStep, StopMoves DEF OnlyServerMoves, Construct, tcp
    <2>. QED BY <2>1, CallsKeep
  <1>2. CASE ThreadNext
    <2>1. OnlyServerMoves
      BY <1>2, ServerMoves, StopMoves DEF ThreadNext, UncaughtException, EndProcess
    <2>. QED BY <2>1, CallsKeep
  <1>3. CASE \E c \in Callers : CallNext(c)
    BY <1>3, CallStep DEF CallNext
  <1>4. CASE \E c \in Strangers : StrangerNext(c)
    BY <1>4, StrangerStep
  <1>5. CASE Finished \/ UNCHANGED allvars
    <2>1. OnlyServerMoves
      BY <1>5 DEF OnlyServerMoves, Finished, allvars, tcp
    <2>. QED BY <2>1, CallsKeep
  <1>. QED BY <1>1, <1>2, <1>3, <1>4, <1>5 DEF MainSystemNext
-----------------------------------------------------------------------------
(* What is known of main(). *)

HowItEnds == ReturnMeansServerQuit /\ ExitFailureOnlyWithoutThread

\* The steps of main() itself.
LEMMA MainKeeps ==
    ASSUME SystemInv, MainNext PROVE MainTypeOK' /\ MainKnown' /\ HowItEnds'
  <1>. /\ MainTypeOK /\ MainKnown /\ HowItEnds /\ Running
       /\ proc = "running" /\ main # "left" /\ UNCHANGED <<server, cl>>
    BY MainStep
       DEF SystemInv, SystemTypeOK, HowItEnds, Running, Goto, MainNext, Construct,
           ConstructFails, Spawn, SpawnFails, PollReady, PollAgain, GiveUp,
           RunTests, QuitSent, QuitThrew, Join
  <1>. USE MainAssumption
       DEF MainTypeOK, MainKnown, HowItEnds, ReturnMeansServerQuit,
           ExitFailureOnlyWithoutThread, Running, Goto, server
  <1>1. CASE Construct \/ Spawn \/ RunTests
    BY <1>1 DEF Construct, Spawn, RunTests
  <1>2. CASE ConstructFails \/ SpawnFails \/ GiveUp \/ QuitThrew
    BY <1>2 DEF ConstructFails, SpawnFails, GiveUp, QuitThrew, ExitFailure,
                EndProcess, ThreadStarted
  <1>3. CASE PollReady
    BY <1>3 DEF PollReady
  <1>4. CASE PollAgain
    BY <1>4 DEF PollAgain
  <1>5. CASE QuitSent
    BY <1>5 DEF QuitSent
  <1>6. CASE Join
    BY <1>6 DEF Join, EndProcess
  <1>. QED BY <1>1, <1>2, <1>3, <1>4, <1>5, <1>6 DEF MainNext

\* The steps of others: a call that ended stays as it is, and the server moves
\* only after its thread was started.
LEMMA MainKnownKept ==
    ASSUME SystemInv, [MainSystemNext]_allvars
    PROVE  MainTypeOK' /\ MainKnown' /\ HowItEnds'
  <1>. MainTypeOK /\ MainKnown /\ HowItEnds
    BY DEF SystemInv, SystemTypeOK, HowItEnds
  <1>. USE DEF MainTypeOK, MainKnown, HowItEnds, ReturnMeansServerQuit,
               ExitFailureOnlyWithoutThread, Running, ThreadStarted, mainvars, server
  <1>1. CASE UncaughtException
    BY <1>1 DEF UncaughtException, EndProcess, Failed
  <1>2. CASE Running /\ ThreadStarted /\ ServerNext /\ UNCHANGED <<cl, mainvars>>
    BY <1>2
  <1>3. ASSUME NEW c \in Callers, CallNext(c)
        PROVE  MainTypeOK' /\ MainKnown' /\ HowItEnds'
    <2>1. cl[Main] = "done" => cl'[Main] = "done"
      BY <1>3, MainAssumption
         DEF CallNext, ClientNext, Acquire, AcquireFails, Connect, ConnectFails,
             SendQuit, SendFails, Shutdown, Step, SystemInv, SystemTypeOK,
             ClientTypeOK, Callers
    <2>. QED BY <1>3, <2>1 DEF CallNext
  <1>4. ASSUME NEW c \in Strangers, StrangerNext(c)
        PROVE  MainTypeOK' /\ MainKnown' /\ HowItEnds'
    BY <1>4 DEF StrangerNext, PeerConnect, PeerSend, PeerHangup
  <1>5. CASE Finished \/ UNCHANGED allvars
    BY <1>5 DEF Finished, allvars
  <1>. QED BY <1>1, <1>2, <1>3, <1>4, <1>5, MainKeeps
           DEF MainSystemNext, ThreadNext
-----------------------------------------------------------------------------
(* The theorems. *)

LEMMA InitSystemInv == MainInit => SystemInv
  <1>. SUFFICES ASSUME MainInit PROVE SystemInv
    OBVIOUS
  <1>1. ServerInv
    BY InitServerInv DEF MainInit
  <1>2. SystemTypeOK
    BY <1>1, MainAssumption
       DEF ServerInv, TypeOK, SystemTypeOK, ClientTypeOK, MainTypeOK, MainInit,
           ClientInit
  <1>3. CallsKnown /\ NoConnectionAbandoned
    BY MainAssumption
       DEF MainInit, TcpInit, ClientInit, CallsKnown, NoConnectionAbandoned, Callers
  <1>4. MainKnown /\ HowItEnds
    BY MainAssumption
       DEF MainInit, ServerInit, MainKnown, HowItEnds, Running,
           ReturnMeansServerQuit, ExitFailureOnlyWithoutThread
  <1>. QED BY <1>1, <1>2, <1>3, <1>4 DEF SystemInv, HowItEnds

LEMMA SystemInvStep == SystemInv /\ [MainSystemNext]_allvars => SystemInv'
  BY ServerInvKept, TypesKept, CallsKnownKept, MainKnownKept
     DEF SystemInv, SystemTypeOK, TypeOK, HowItEnds

\* The whole program, test_client-server-tcp.cpp:487-534 with run() and all
\* calls of quit_server(): its invariant holds in every reachable state.
THEOREM SystemInvHolds == SystemSpec => []SystemInv
  BY InitSystemInv, SystemInvStep, PTL DEF SystemSpec

\* Type correctness of the program.
THEOREM SystemTypeCorrect == SystemSpec => []SystemTypeOK
  <1>1. SystemInv => SystemTypeOK
    BY DEF SystemInv
  <1>. QED BY SystemInvHolds, <1>1, PTL

\* client-tcp.cpp:33-65: quit_server() leaves no silent connection behind.
THEOREM CallsHangUp == SystemSpec => []NoConnectionAbandoned
  <1>1. SystemInv => NoConnectionAbandoned
    BY DEF SystemInv
  <1>. QED BY SystemInvHolds, <1>1, PTL

\* test_client-server-tcp.cpp:524-533: the result of the tests is returned only
\* by a program whose server has quit normally.
THEOREM ReturnAfterQuit == SystemSpec => []ReturnMeansServerQuit
  <1>1. SystemInv => ReturnMeansServerQuit
    BY DEF SystemInv
  <1>. QED BY SystemInvHolds, <1>1, PTL

\* test_client-server-tcp.cpp:503, 517, 529: EXIT_FAILURE is not seen once the
\* thread was started.
THEOREM ExitFailureMeansNoThread == SystemSpec => []ExitFailureOnlyWithoutThread
  <1>1. SystemInv => ExitFailureOnlyWithoutThread
    BY DEF SystemInv
  <1>. QED BY SystemInvHolds, <1>1, PTL

\* The program composes run() with main() and the calls of quit_server() so that
\* the running program is a behaviour of ServerTCP (server-tcp.cpp:56-105).
THEOREM ProgramIsServer == SystemSpec => ProgramRunsServer
  <1>1. SystemInv /\ [MainSystemNext]_allvars
            => [proc' = "running" /\ main # "construct" => [Next]_vars]_allvars
    BY ProgramStep DEF Construct, Goto, Running
  <1>. QED BY SystemInvHolds, <1>1, PTL DEF SystemSpec, ProgramRunsServer

\* For as long as it runs the program does what QuitService promises: no caller,
\* stranger, poll or failing call makes it handle a connection twice, or serve
\* anybody after a quit request (test_client-server-tcp.cpp:487-534).
THEOREM ProgramServes ==
    SystemSpec => /\ Service!ServiceInit
                  /\ [][Running' => [Service!ServiceNext]_(Service!service)]_allvars
  <1>1. MainInit => Service!ServiceInit
    BY DEF MainInit, TcpInit, ServerInit, Service!ServiceInit, PhaseOf, HandledBy,
           VerdictOf, QuitReceived, Serving, Failed
  <1>2. SystemInv /\ [MainSystemNext]_allvars
            => [Running' => [Service!ServiceNext]_(Service!service)]_allvars
    <2>1. SUFFICES ASSUME SystemInv, [MainSystemNext]_allvars, Running'
                   PROVE  [Service!ServiceNext]_(Service!service)
      OBVIOUS
    <2>2. ServerInv
      BY <2>1, RanBefore DEF SystemInv
    <2>3. CASE [Next]_vars
      BY <2>2, <2>3, StepRefines
    <2>4. CASE Construct /\ UNCHANGED server
      BY <2>4 DEF Construct, server, Service!service, PhaseOf, HandledBy, VerdictOf,
                  QuitReceived
    <2>. QED BY <2>1, <2>3, <2>4, ProgramStep
  <1>. QED BY SystemInvHolds, <1>1, <1>2, PTL DEF SystemSpec
-----------------------------------------------------------------------------
(* No quit request is lost. *)

RequestsKnown == NobodyForgotten /\ RequestsKept

\* Where the program is in join(), in a recv() or in a call, and what that says
\* about the connections.
LEMMA ProgramKnown ==
    ASSUME SystemInv, Running
    PROVE  /\ ServerInv /\ TcpTypeOK /\ ServerTypeOK /\ ClientTypeOK /\ MainTypeOK
           /\ CallsKnown /\ MainKnown /\ NoConnectionAbandoned
           /\ NoConnectionLeft /\ OneAtATime /\ QueueOrder /\ QuitAsRead
  BY DEF SystemInv, SystemTypeOK, ServerInv

\* accept() takes the first of the queue, connect() joins it at its end, nobody
\* else touches it.
LEMMA QueueKept ==
    ASSUME SystemInv, Running, NobodyForgotten, [Next]_vars PROVE NobodyForgotten'
  <1>. /\ TcpTypeOK /\ ServerInv /\ QueueOrder /\ NoConnectionLeft /\ OneAtATime
       /\ ServerTypeOK
    BY ProgramKnown
  <1>. USE DEF NobodyForgotten
  <1>1. CASE Accept
    <2>1. /\ Len(queue) \in Nat \ {0} /\ Head(queue) = queue[1] /\ Head(queue) \in Clients
          /\ queue' = Tail(queue) /\ link' = [link EXCEPT ![Head(queue)] = "accepted"]
      BY <1>1 DEF Accept, TcpAccept, TcpTypeOK
    <2>2. SUFFICES ASSUME NEW c \in Clients, link'[c] = "queued"
                   PROVE  \E i \in 1 .. Len(queue') : queue'[i] = c
      OBVIOUS
    <2>3. link[c] = "queued" /\ c # queue[1]
      BY <2>1, <2>2 DEF TcpTypeOK
    <2>4. PICK i \in 1 .. Len(queue) : queue[i] = c
      BY <2>3
    <2>5. i - 1 \in 1 .. Len(Tail(queue)) /\ Tail(queue)[i - 1] = c
      BY <2>1, <2>3, <2>4 DEF TcpTypeOK
    <2>. QED BY <2>1, <2>5
  <1>2. ASSUME NEW d \in Clients, PeerConnect(d) PROVE NobodyForgotten'
    <2>1. /\ queue' = Append(queue, d) /\ link' = [link EXCEPT ![d] = "queued"]
          /\ Len(queue) \in Nat
      BY <1>2 DEF PeerConnect, TcpConnect, TcpTypeOK
    <2>2. /\ Len(queue') = Len(queue) + 1 /\ queue'[Len(queue) + 1] = d
          /\ \A i \in 1 .. Len(queue) : queue'[i] = queue[i]
      BY <2>1 DEF TcpTypeOK
    <2>3. ASSUME NEW c \in Clients, link'[c] = "queued"
          PROVE  \E i \in 1 .. Len(queue') : queue'[i] = c
      <3>1. CASE c = d
        BY <2>1, <2>2, <3>1
      <3>2. CASE c # d
        <4>1. PICK i \in 1 .. Len(queue) : queue[i] = c
          BY <2>1, <2>3, <3>2 DEF TcpTypeOK
        <4>. QED BY <2>1, <2>2, <4>1
      <3>. QED BY <3>1, <3>2
    <2>. QED BY <2>3
  <1>3. CASE Hangup
    <2>1. UNCHANGED queue /\ link' = [link EXCEPT ![accept_sfd] = "closed"]
      BY <1>3 DEF Hangup, TcpClose
    <2>. QED BY <2>1 DEF TcpTypeOK
  <1>4. CASE UNCHANGED <<queue, link>>
    BY <1>4
  <1>5. CASE SetReady \/ AcceptFails \/ Recv \/ RecvNothing \/ RecvFails \/ CheckRead \/ Leave
    BY <1>4, <1>5 DEF SetReady, AcceptFails, Recv, TcpRead, RecvNothing, RecvFails,
                      CheckRead, Leave, tcp
  <1>6. ASSUME NEW d \in Clients, PeerSend(d) \/ PeerHangup(d) PROVE NobodyForgotten'
    BY <1>4, <1>6 DEF PeerSend, TcpSend, PeerHangup, TcpHangup
  <1>7. CASE UNCHANGED vars
    BY <1>4, <1>7 DEF vars, tcp
  <1>. QED BY <1>1, <1>2, <1>3, <1>5, <1>6, <1>7 DEF Next, ServerNext

\* run() reads what a call has sent, and waits for it in recv() until it has or
\* recv() fails.
LEMMA ServerKeepsRequests ==
    ASSUME SystemInv, Running, RequestsKept, ServerNext, UNCHANGED cl
    PROVE  RequestsKept'
  <1>a. /\ TcpTypeOK /\ ServerTypeOK /\ CallsKnown /\ NoConnectionAbandoned
        /\ NoConnectionLeft /\ OneAtATime /\ QueueOrder /\ QuitAsRead
    BY ProgramKnown
  <1>. USE <1>a DEF RequestsKept, ToCome, LeftOver, RecvFailed, Ended, Failed, Callers
  <1>1. CASE Accept
    <2>1. /\ Len(queue) \in Nat \ {0} /\ Head(queue) = queue[1] /\ Head(queue) \in Clients
      BY <1>1 DEF Accept, TcpAccept, TcpTypeOK
    <2>2. /\ svr = "loop" /\ svr' = "recv" /\ accept_sfd' = Head(queue)
          /\ link' = [link EXCEPT ![Head(queue)] = "accepted"]
          /\ UNCHANGED <<peer, inq, got>>
      BY <1>1 DEF Accept, TcpAccept
    <2>. QED BY <2>1, <2>2 DEF TcpTypeOK
  <1>2. CASE Recv
    <2>1. accept_sfd \in Clients /\ svr = "recv" /\ inq[accept_sfd] # <<>>
      BY <1>2 DEF Recv, OneAtATime, ServerTypeOK
    <2>2. PICK n \in 1 .. ReadLimit :
            /\ n <= Len(inq[accept_sfd])
            /\ got' = [got EXCEPT ![accept_sfd] = SubSeq(inq[accept_sfd], 1, n)]
            /\ TcpRead(accept_sfd, n)
      BY <1>2 DEF Recv
    <2>3. /\ UNCHANGED <<link, peer>>
          /\ \A c \in Clients \ {accept_sfd} : inq'[c] = inq[c] /\ got'[c] = got[c]
      BY <2>2 DEF TcpRead, TcpTypeOK, ServerTypeOK
    <2>4. link[accept_sfd] = "accepted" /\ got[accept_sfd] # <<"Q">>
      BY <2>1 DEF NoConnectionLeft, QuitAsRead
    <2>5. ASSUME inq[accept_sfd] = <<"Q">> PROVE got'[accept_sfd] = <<"Q">>
      <3>1. Len(<<"Q">>) = 1 /\ SubSeq(<<"Q">>, 1, 1) = <<"Q">>
        <4>1. <<"Q">> \in Seq(Bytes) /\ <<"Q">> # <<>> /\ Head(<<"Q">>) = "Q"
          BY DEF Bytes
        <4>. QED BY <4>1, OneBytePrefix
      <3>2. n = 1
        BY <2>2, <2>5, <3>1 DEF ReadLimit
      <3>. QED BY <2>1, <2>2, <2>5, <3>1, <3>2 DEF ServerTypeOK
    <2>6. accept_sfd \in Callers /\ cl[accept_sfd] = "send" => inq[accept_sfd] = <<>>
      BY DEF CallsKnown
    <2>. QED BY <2>1, <2>3, <2>4, <2>5, <2>6
  <1>3. CASE RecvNothing
    <2>1. /\ accept_sfd \in Clients /\ svr = "recv" /\ inq[accept_sfd] = <<>>
          /\ peer[accept_sfd] = "fin"
      BY <1>3 DEF RecvNothing, OneAtATime, ServerTypeOK
    <2>2. link[accept_sfd] = "accepted" /\ got[accept_sfd] # <<"Q">>
      BY <2>1 DEF NoConnectionLeft, QuitAsRead
    <2>3. accept_sfd \in Callers => cl[accept_sfd] \notin {"send", "shutdown", "done"}
      BY <2>1, <2>2 DEF CallsKnown
    <2>. QED BY <1>3, <2>3 DEF RecvNothing, tcp
  <1>4. CASE RecvFails
    <2>1. /\ svr = "recv" /\ svr' = "hangup" /\ valread' = SOCKET_ERROR
          /\ UNCHANGED <<link, peer, inq, accept_sfd, got>>
      BY <1>4 DEF RecvFails, tcp
    <2>. QED BY <2>1
  <1>5. CASE Hangup
    <2>1. /\ svr = "hangup" /\ svr' = "check"
          /\ accept_sfd \in Clients /\ link[accept_sfd] = "accepted"
          /\ link' = [link EXCEPT ![accept_sfd] = "closed"]
          /\ inq' = [inq EXCEPT ![accept_sfd] = <<>>]
          /\ UNCHANGED <<peer, got, valread>>
      BY <1>5 DEF Hangup, TcpClose, OneAtATime, NoConnectionLeft, ServerTypeOK
    <2>. QED BY <2>1 DEF TcpTypeOK
  <1>6. CASE SetReady \/ AcceptFails \/ CheckRead \/ Leave
    BY <1>6 DEF SetReady, AcceptFails, CheckRead, Leave, tcp
  <1>. QED BY <1>1, <1>2, <1>3, <1>4, <1>5, <1>6 DEF ServerNext

\* A call sends to a server that has not begun to close its connection.
LEMMA CallKeepsRequests ==
    ASSUME SystemInv, Running, RequestsKept, NEW c \in Callers, ClientNext(c),
           UNCHANGED server
    PROVE  RequestsKept'
  <1>a. /\ TcpTypeOK /\ ServerTypeOK /\ ClientTypeOK /\ CallsKnown
        /\ NoConnectionLeft
    BY ProgramKnown
  <1>. c \in Clients
    BY DEF Callers
  <1>. USE <1>a DEF RequestsKept, ToCome, LeftOver, RecvFailed, Callers, Step, TcpTypeOK,
                    ClientTypeOK, server
  <1>1. CASE Acquire(c) \/ AcquireFails(c) \/ ConnectFails(c)
    BY <1>1 DEF Acquire, AcquireFails, ConnectFails, tcp
  <1>2. CASE Connect(c)
    BY <1>2 DEF Connect, TcpConnect
  <1>3. CASE SendQuit(c)
    <2>1. /\ cl[c] = "send" /\ cl' = [cl EXCEPT ![c] = "shutdown"]
          /\ inq' = [inq EXCEPT ![c] = IF link[c] = "closed" THEN @ ELSE @ \o <<"Q">>]
          /\ UNCHANGED <<link, peer>>
      BY <1>3 DEF SendQuit, TcpSend
    <2>2. inq[c] = <<>> /\ (ToCome(c) \/ LeftOver(c) \/ RecvFailed(c))
      BY <2>1 DEF CallsKnown
    <2>3. CASE RecvFailed(c)
      BY <1>3, <2>1, <2>2, <2>3 DEF SendQuit
    <2>4. CASE ToCome(c) \/ LeftOver(c)
      <3>1. <<>> \o <<"Q">> = <<"Q">>
        OBVIOUS
      <3>2. link[c] # "closed"
        BY <2>4 DEF NoConnectionLeft
      <3>3. inq'[c] = <<"Q">>
        BY <2>1, <2>2, <3>1, <3>2
      <3>. QED BY <1>3, <2>1, <2>2, <2>4, <3>3 DEF SendQuit
    <2>. QED BY <2>2, <2>3, <2>4
  <1>4. CASE SendFails(c) \/ Shutdown(c)
    BY <1>4 DEF SendFails, Shutdown, LeaveConnected, TcpHangup
  <1>. QED BY <1>1, <1>2, <1>3, <1>4 DEF ClientNext

\* A stranger has no request in the connections of others.
LEMMA StrangerKeepsRequests ==
    ASSUME SystemInv, Running, RequestsKept, NEW c \in Strangers, StrangerNext(c)
    PROVE  RequestsKept'
  <1>. c \notin Callers /\ TcpTypeOK
    BY ProgramKnown DEF Callers
  <1>. USE DEF RequestsKept, ToCome, LeftOver, RecvFailed, Callers, TcpTypeOK, server
  <1>1. CASE PeerConnect(c)
    BY <1>1 DEF StrangerNext, PeerConnect, TcpConnect
  <1>2. CASE PeerSend(c)
    BY <1>2 DEF StrangerNext, PeerSend, TcpSend
  <1>3. CASE PeerHangup(c)
    BY <1>3 DEF StrangerNext, PeerHangup, TcpHangup
  <1>. QED BY <1>1, <1>2, <1>3 DEF StrangerNext

LEMMA RequestStep == RequestInv /\ [MainSystemNext]_allvars => RequestInv'
  <1>1. SUFFICES ASSUME RequestInv, [MainSystemNext]_allvars, Running'
                 PROVE  NobodyForgotten' /\ RequestsKept'
    BY SystemInvStep DEF RequestInv
  <1>2. SystemInv /\ Running /\ NobodyForgotten /\ RequestsKept
    BY <1>1, RanBefore DEF RequestInv
  <1>3. NobodyForgotten'
    <2>1. CASE Construct
      BY <1>2, <2>1 DEF Construct, NobodyForgotten
    <2>2. CASE [Next]_vars
      BY <1>2, <2>2, QueueKept
    <2>. QED BY <1>1, <1>2, <2>1, <2>2, ProgramStep
  <1>. SUFFICES RequestsKept'
    BY <1>3
  <1>4. CASE MainNext
    <2>1. UNCHANGED <<link, peer, inq, server, cl>>
      BY <1>1, <1>2, <1>4, MainStep DEF Construct, tcp
    <2>. QED BY <1>2, <2>1 DEF RequestsKept, ToCome, LeftOver, RecvFailed, server
  <1>5. CASE ThreadNext
    BY <1>1, <1>2, <1>5, ServerKeepsRequests
       DEF ThreadNext, UncaughtException, EndProcess, Running, Failed
  <1>6. CASE \E c \in Callers : CallNext(c)
    BY <1>2, <1>6, CallKeepsRequests DEF CallNext
  <1>7. CASE \E c \in Strangers : StrangerNext(c)
    BY <1>2, <1>7, StrangerKeepsRequests
  <1>8. CASE Finished \/ UNCHANGED allvars
    BY <1>2, <1>8 DEF Finished, allvars, tcp, server, RequestsKept, ToCome, LeftOver,
                      RecvFailed
  <1>. QED BY <1>1, <1>4, <1>5, <1>6, <1>7, <1>8 DEF MainSystemNext

\* client-tcp.cpp:33-63 with server-tcp.cpp:72-99: as long as the program runs a
\* quit request of any caller is read as one, or run() will still come to it, or
\* run() ended before it did, or a recv() that failed on it ends run().
THEOREM NoRequestLost == SystemSpec => []RequestInv
  <1>1. MainInit => RequestInv
    BY InitSystemInv
       DEF RequestInv, NobodyForgotten, RequestsKept, MainInit, TcpInit, ClientInit, Callers
  <1>. QED BY <1>1, RequestStep, PTL DEF SystemSpec

\* test_client-server-tcp.cpp:532: join() waits for a server that has something
\* to do, or for a stranger.
THEOREM JoinIsNotInVain == SystemSpec => []JoinIsAnswered
  <1>1. RequestInv => JoinIsAnswered
    <2>1. SUFFICES ASSUME RequestInv, Running, main = "join" PROVE JoinIsAnswered
      BY DEF JoinIsAnswered
    <2>2. /\ SystemInv /\ NobodyForgotten /\ RequestsKept
          /\ TcpTypeOK /\ ServerTypeOK /\ ClientTypeOK /\ CallsKnown /\ MainKnown
          /\ NoConnectionLeft /\ OneAtATime /\ QuitAsRead /\ NoConnectionAbandoned
      BY <2>1, ProgramKnown DEF RequestInv
    <2>3. Main \in Callers /\ Main \in Clients /\ cl[Main] = "done"
      BY <2>1, <2>2, MainAssumption DEF MainKnown, Callers
    <2>4. ASSUME svr = "loop" PROVE QuitReceived \/ queue # <<>>
      <3>1. CASE got[Main] = <<"Q">>
        BY <2>2, <2>3, <3>1 DEF QuitAsRead
      <3>2. CASE link[Main] = "queued"
        <4>1. PICK i \in 1 .. Len(queue) : queue[i] = Main
          BY <2>2, <2>3, <3>2 DEF NobodyForgotten
        <4>. QED BY <4>1
      <3>. QED BY <2>2, <2>3, <2>4, <3>1, <3>2
               DEF RequestsKept, ToCome, LeftOver, RecvFailed, Ended, Failed
    <2>5. ASSUME svr = "recv", inq[accept_sfd] = <<>>, peer[accept_sfd] = "open",
                 accept_sfd \notin Strangers
          PROVE  cl[accept_sfd] = "send"
      <3>1. accept_sfd \in Callers /\ link[accept_sfd] = "accepted"
        BY <2>2, <2>5 DEF OneAtATime, NoConnectionLeft, ServerTypeOK, Callers
      <3>2. got[accept_sfd] # <<"Q">>
        BY <2>2, <2>5, <3>1 DEF QuitAsRead, Callers
      <3>3. cl[accept_sfd] \notin {"idle", "connect", "done", "threw", "shutdown"}
        BY <2>2, <2>5, <3>1, <3>2
           DEF CallsKnown, NoConnectionAbandoned, RequestsKept, ToCome, LeftOver,
               RecvFailed, Ended, Failed, Callers
      <3>. QED BY <2>2, <3>1, <3>3 DEF ClientTypeOK, Callers
    <2>. QED BY <2>4, <2>5 DEF JoinIsAnswered
  <1>. QED BY NoRequestLost, <1>1, PTL
-----------------------------------------------------------------------------
(* The program comes to its end. *)

\* A part of a finite set is smaller than the set, unless it is all of it.
LEMMA PartIsSmaller ==
    ASSUME NEW S, IsFiniteSet(S), NEW T \in SUBSET S
    PROVE  /\ Cardinality(S) \in Nat /\ Cardinality(T) \in Nat
           /\ Cardinality(T) <= Cardinality(S)
           /\ T # S => Cardinality(T) < Cardinality(S)
  <1>1. IsFiniteSet(T) /\ Cardinality(T) <= Cardinality(S)
    BY FS_Subset
  <1>2. Cardinality(S) \in Nat /\ Cardinality(T) \in Nat
    BY <1>1, FS_CardinalityType
  <1>3. Cardinality(S) = Cardinality(T) => S = T
    BY FS_Subset
  <1>. QED BY <1>1, <1>2, <1>3

NotClosed == {c \in Clients : link[c] # "closed"}
CallSteps == {w \in Callers \X (1 .. 4) : w[2] <= CallStepsLeft(w[1])}

LEMMA FiniteProduct ==
    ASSUME IsFiniteSet(Clients) PROVE IsFiniteSet(Callers \X (1 .. 4))
  <1>1. IsFiniteSet(Callers)
    BY FS_Subset DEF Callers
  <1>2. \A a, b \in Int : IsFiniteSet(a .. b)
    BY FS_Interval
  <1>3. IsFiniteSet(1 .. 4)
    BY <1>2
  <1>. QED BY <1>1, <1>3, FS_Product

LEMMA FiniteParts ==
    ASSUME IsFiniteSet(Clients)
    PROVE  /\ IsFiniteSet(NotClosed) /\ IsFiniteSet(CallSteps)
           /\ Cardinality(NotClosed) \in Nat /\ Cardinality(CallSteps) \in Nat
  <1>1. IsFiniteSet(NotClosed) /\ IsFiniteSet(CallSteps)
    BY FiniteProduct, FS_Subset DEF NotClosed, CallSteps
  <1>. QED BY <1>1, FS_CardinalityType

\* Each of the three numbers is one, before and after a step.
LEMMA StepsAreNumbers ==
    ASSUME IsFiniteSet(Clients), SystemInv, SystemInv'
    PROVE  /\ MainLeft \in Nat /\ MainLeft' \in Nat
           /\ ThreadLeft = 4 * Cardinality(NotClosed) + RoundLeft
           /\ ThreadLeft' = 4 * Cardinality(NotClosed') + RoundLeft'
           /\ RoundLeft \in 0 .. 4 /\ RoundLeft' \in 0 .. 4
           /\ Cardinality(NotClosed) \in Nat /\ Cardinality(NotClosed') \in Nat
           /\ CallsLeft = Cardinality(CallSteps) /\ CallsLeft' = Cardinality(CallSteps')
           /\ CallsLeft \in Nat /\ CallsLeft' \in Nat
  <1>1. MainTypeOK /\ MainTypeOK' /\ MainKnown
    BY DEF SystemInv, SystemTypeOK
  <1>2. MainLeft \in Nat /\ MainLeft' \in Nat
    BY <1>1, MainAssumption DEF MainTypeOK, MainLeft
  <1>3. RoundLeft \in 0 .. 4 /\ RoundLeft' \in 0 .. 4
    BY DEF RoundLeft
  <1>4. Cardinality(NotClosed) \in Nat /\ Cardinality(CallSteps) \in Nat
    BY FiniteParts
  <1>5. IsFiniteSet(NotClosed') /\ IsFiniteSet(CallSteps')
    BY FiniteProduct, FS_Subset DEF NotClosed, CallSteps
  <1>6. Cardinality(NotClosed') \in Nat /\ Cardinality(CallSteps') \in Nat
    BY <1>5, FS_CardinalityType
  <1>. QED BY <1>2, <1>3, <1>4, <1>6
           DEF ThreadLeft, NotClosed, CallsLeft, CallSteps

\* A connection that is closed stays closed.
LEMMA ThreadDoesNotGainWork ==
    ASSUME IsFiniteSet(Clients), SystemInv, SystemInv', UNCHANGED svr,
           \A c \in Clients : link[c] = "closed" => link'[c] = "closed"
    PROVE  ThreadLeft' <= ThreadLeft
  <1>1. NotClosed' \in SUBSET NotClosed
    BY DEF NotClosed
  <1>2. Cardinality(NotClosed') <= Cardinality(NotClosed)
    BY <1>1, FiniteParts, PartIsSmaller
  <1>3. RoundLeft' = RoundLeft
    BY DEF RoundLeft
  <1>. QED BY <1>2, <1>3, StepsAreNumbers

\* run() goes once through its loop for a connection, and closes it then.
LEMMA ThreadAdvances ==
    ASSUME IsFiniteSet(Clients), SystemInv, SystemInv', Running, ServerNext
    PROVE  ThreadLeft' < ThreadLeft
  <1>. /\ TcpTypeOK /\ ServerTypeOK /\ NoConnectionLeft /\ OneAtATime /\ QueueOrder
    BY ProgramKnown
  <1>1. CASE Hangup
    <2>1. /\ accept_sfd \in Clients /\ link[accept_sfd] = "accepted"
          /\ link' = [link EXCEPT ![accept_sfd] = "closed"]
          /\ svr = "hangup" /\ svr' = "check"
      BY <1>1 DEF Hangup, TcpClose, OneAtATime, NoConnectionLeft, ServerTypeOK
    <2>2. NotClosed' \in SUBSET NotClosed /\ NotClosed' # NotClosed
      BY <2>1 DEF NotClosed, TcpTypeOK
    <2>3. Cardinality(NotClosed') < Cardinality(NotClosed)
      BY <2>2, FiniteParts, PartIsSmaller
    <2>4. RoundLeft = 1 /\ RoundLeft' = 4
      BY <2>1 DEF RoundLeft
    <2>. QED BY <2>3, <2>4, StepsAreNumbers
  <1>2. CASE Accept
    <2>1. /\ Len(queue) \in Nat \ {0} /\ Head(queue) = queue[1] /\ Head(queue) \in Clients
          /\ link' = [link EXCEPT ![Head(queue)] = "accepted"]
          /\ svr = "loop" /\ svr' = "recv"
      BY <1>2 DEF Accept, TcpAccept, TcpTypeOK
    <2>2. link[Head(queue)] = "queued"
      BY <2>1 DEF QueueOrder
    <2>3. NotClosed' = NotClosed
      BY <2>1, <2>2 DEF NotClosed, TcpTypeOK
    <2>4. RoundLeft = 3 /\ RoundLeft' = 2
      BY <2>1 DEF RoundLeft
    <2>. QED BY <2>3, <2>4, StepsAreNumbers
  <1>3. CASE SetReady \/ AcceptFails \/ Recv \/ RecvNothing \/ RecvFails \/ CheckRead \/ Leave
    <2>1. UNCHANGED link
      BY <1>3 DEF SetReady, AcceptFails, Recv, TcpRead, RecvNothing, RecvFails,
                  CheckRead, Leave, tcp
    <2>2. RoundLeft' < RoundLeft
      BY <1>3 DEF SetReady, AcceptFails, Recv, RecvNothing, RecvFails, CheckRead, Leave,
                  RoundLeft
    <2>3. NotClosed' = NotClosed
      BY <2>1 DEF NotClosed
    <2>. QED BY <2>2, <2>3, StepsAreNumbers
  <1>. QED BY <1>1, <1>2, <1>3 DEF ServerNext

\* main() never goes back, except to poll again, and counts then.
LEMMA MainAdvances ==
    ASSUME SystemInv, MainNext PROVE MainLeft' < MainLeft
  <1>. Running /\ MainTypeOK /\ MainKnown
    BY DEF SystemInv, SystemTypeOK, MainNext, Construct, ConstructFails, Spawn, SpawnFails,
           PollReady, PollAgain, GiveUp, RunTests, QuitSent, QuitThrew, Join, Goto
  <1>. USE MainAssumption DEF MainTypeOK, MainKnown, MainLeft, Goto, EndProcess
  <1>1. CASE Construct \/ Spawn \/ RunTests \/ QuitSent
    BY <1>1 DEF Construct, Spawn, RunTests, QuitSent
  <1>2. CASE ConstructFails \/ SpawnFails \/ GiveUp \/ QuitThrew
    BY <1>2 DEF ConstructFails, SpawnFails, GiveUp, QuitThrew, ExitFailure
  <1>3. CASE PollReady
    BY <1>3 DEF PollReady
  <1>4. CASE PollAgain
    BY <1>4 DEF PollAgain
  <1>5. CASE Join
    BY <1>5 DEF Join
  <1>. QED BY <1>1, <1>2, <1>3, <1>4, <1>5 DEF MainNext

\* A call makes at most four steps.
LEMMA CallAdvances ==
    ASSUME IsFiniteSet(Clients), SystemInv, SystemInv', NEW c \in Callers, ClientNext(c)
    PROVE  CallsLeft' < CallsLeft
  <1>1. ClientTypeOK /\ c \in Clients
    BY DEF SystemInv, SystemTypeOK, Callers
  <1>2. /\ \A d \in Clients \ {c} : cl'[d] = cl[d]
        /\ CallStepsLeft(c) \in 1 .. 4 /\ CallStepsLeft(c)' \in 0 .. 4
        /\ CallStepsLeft(c)' < CallStepsLeft(c)
    BY <1>1 DEF ClientNext, Acquire, AcquireFails, Connect, ConnectFails, SendQuit,
                SendFails, Shutdown, Step, ClientTypeOK, CallStepsLeft
  <1>3. \A d \in Callers \ {c} : CallStepsLeft(d)' = CallStepsLeft(d)
    BY <1>2 DEF CallStepsLeft, Callers
  <1>4. CallSteps' \in SUBSET CallSteps
    <2>1. ASSUME NEW d \in Callers, NEW n \in 1 .. 4, n <= CallStepsLeft(d)'
          PROVE  n <= CallStepsLeft(d)
      BY <1>2, <1>3, <2>1
    <2>. QED BY <2>1 DEF CallSteps
  <1>5. /\ <<c, CallStepsLeft(c)>> \in CallSteps
        /\ <<c, CallStepsLeft(c)>> \notin CallSteps'
    BY <1>2 DEF CallSteps
  <1>6. Cardinality(CallSteps') < Cardinality(CallSteps)
    BY <1>4, <1>5, FiniteParts, PartIsSmaller
  <1>. QED BY <1>6, StepsAreNumbers

\* A step of the program proper.
LEMMA StepAdvances ==
    ASSUME IsFiniteSet(Clients), SystemInv, SystemInv', [MainSystemNext]_allvars,
           MainNext \/ ThreadNext \/ \E c \in Callers : CallNext(c)
    PROVE  StepsLeft' < StepsLeft
  <1>. USE StepsAreNumbers DEF StepsLeft
  <1>a. ASSUME TcpStop PROVE \A c \in Clients : link[c] = "closed" => link'[c] = "closed"
    BY <1>a DEF TcpStop
  <1>b. UNCHANGED cl => CallsLeft' = CallsLeft
    BY DEF CallsLeft, CallStepsLeft
  <1>c. UNCHANGED mainvars => MainLeft' = MainLeft
    BY DEF MainLeft, mainvars
  <1>1. CASE MainNext
    <2>1. ThreadLeft' <= ThreadLeft
      BY <1>1, <1>a, MainStep, ThreadDoesNotGainWork DEF Construct, server, tcp
    <2>. QED BY <1>1, <1>b, <2>1, MainAdvances, MainStep
  <1>2. CASE Running /\ ThreadStarted /\ ServerNext /\ UNCHANGED <<cl, mainvars>>
    BY <1>2, <1>b, <1>c, ThreadAdvances
  <1>3. CASE UncaughtException
    <2>1. MainLeft' < MainLeft
      BY <1>3, MainAssumption
         DEF UncaughtException, MainLeft, ThreadStarted, Running, SystemInv, SystemTypeOK,
             MainTypeOK, MainKnown
    <2>2. ThreadLeft' <= ThreadLeft
      BY <1>3, <1>a, ThreadDoesNotGainWork DEF UncaughtException, EndProcess, server
    <2>. QED BY <1>3, <1>b, <2>1, <2>2 DEF UncaughtException, EndProcess
  <1>4. ASSUME NEW c \in Callers, CallNext(c) PROVE StepsLeft' < StepsLeft
    <2>1. \A d \in Clients : link[d] = "closed" => link'[d] = "closed"
      BY <1>4 DEF CallNext, ClientNext, Acquire, AcquireFails, Connect, ConnectFails,
                  SendQuit, SendFails, Shutdown, LeaveConnected, TcpConnect, TcpSend,
                  TcpHangup, tcp, SystemInv, SystemTypeOK, TcpTypeOK
    <2>2. ThreadLeft' <= ThreadLeft
      BY <1>4, <2>1, ThreadDoesNotGainWork DEF CallNext, server
    <2>3. CallsLeft' < CallsLeft
      BY <1>4, CallAdvances DEF CallNext
    <2>. QED BY <1>4, <1>c, <2>2, <2>3 DEF CallNext
  <1>. QED BY <1>1, <1>2, <1>3, <1>4 DEF ThreadNext

\* A step of a stranger.
LEMMA StrangersDoNotDelay ==
    ASSUME IsFiniteSet(Clients), SystemInv, SystemInv', [MainSystemNext]_allvars,
           ~(MainNext \/ ThreadNext \/ \E c \in Callers : CallNext(c))
    PROVE  StepsLeft' <= StepsLeft
  <1>1. UNCHANGED <<mainvars, cl, svr>>
    BY DEF MainSystemNext, StrangerNext, PeerConnect, PeerSend, PeerHangup, Finished,
           allvars, server
  <1>2. \A d \in Clients : link[d] = "closed" => link'[d] = "closed"
    BY DEF MainSystemNext, StrangerNext, PeerConnect, PeerSend, PeerHangup, TcpConnect,
           TcpSend, TcpHangup, Finished, allvars, tcp, SystemInv, SystemTypeOK, TcpTypeOK
  <1>3. ThreadLeft' <= ThreadLeft
    BY <1>1, <1>2, ThreadDoesNotGainWork
  <1>4. MainLeft' = MainLeft /\ CallsLeft' = CallsLeft
    BY <1>1 DEF MainLeft, CallsLeft, CallStepsLeft, mainvars
  <1>. QED BY <1>3, <1>4, StepsAreNumbers DEF StepsLeft

\* The program has a bounded number of steps to make, however many failures and
\* clients there are (test_client-server-tcp.cpp:487-534, server-tcp.cpp:78-102).
\* With JoinIsNotInVain this is why it ends.
THEOREM ProgramIsFinite ==
    ASSUME IsFiniteSet(Clients) PROVE SystemSpec => ProgramAdvances
  <1>1. SystemInv /\ SystemInv' /\ [MainSystemNext]_allvars
            => [/\ StepsLeft' <= StepsLeft
                /\ MainNext \/ ThreadNext \/ (\E c \in Callers : CallNext(c))
                      => StepsLeft' < StepsLeft]_allvars
    <2>1. SUFFICES ASSUME SystemInv, SystemInv', [MainSystemNext]_allvars
                   PROVE  /\ StepsLeft' <= StepsLeft
                          /\ MainNext \/ ThreadNext \/ (\E c \in Callers : CallNext(c))
                                => StepsLeft' < StepsLeft
      OBVIOUS
    <2>2. StepsLeft \in Nat /\ StepsLeft' \in Nat
      BY <2>1, StepsAreNumbers DEF StepsLeft
    <2>. QED BY <2>1, <2>2, StepAdvances, StrangersDoNotDelay
  <1>. QED BY SystemInvHolds, <1>1, PTL DEF SystemSpec, ProgramAdvances
=============================================================================
