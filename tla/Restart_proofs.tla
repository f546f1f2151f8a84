--------------------------- MODULE Restart_proofs ---------------------------
(***************************************************************************)
(* Proofs about a program that is started again and again: nothing of an   *)
(* earlier program, and no caller that outlived it, gets in the way of     *)
(* what TestMain_proofs shows of a single one.                             *)
(***************************************************************************)
EXTENDS Restart, TestMain_proofs

-----------------------------------------------------------------------------
(* What is left when a program has ended. *)

\* The server's end of nothing.
NothingLeftBehind ==
    /\ ~listening /\ queue = <<>>
    /\ \A c \in Clients : link[c] \in {"none", "closed"} /\ inq[c] = <<>>

\* The invariant of a program, for a sequence of them.
RestartInv == SystemInv /\ (~Running => NothingLeftBehind)

\* The end of the process takes everything of the server with it.
LEMMA StopLeavesNothing ==
    ASSUME SystemInv, TcpStop PROVE NothingLeftBehind'
  BY DEF TcpStop, NothingLeftBehind, SystemInv, SystemTypeOK, TcpTypeOK

\* A process ends by closing its sockets.
LEMMA EndIsStop ==
    ASSUME SystemInv, Running, ~Running', [MainSystemNext]_allvars PROVE TcpStop
  <1>1. CASE MainNext
    BY <1>1, MainStep DEF Construct, Running
  <1>2. CASE UncaughtException
    BY <1>2 DEF UncaughtException, EndProcess
  <1>3. ~MainNext /\ ~UncaughtException => proc' = proc
    BY DEF MainSystemNext, ThreadNext, CallNext, StrangerNext, Finished, mainvars, allvars
  <1>. QED BY <1>1, <1>2, <1>3 DEF Running

\* Others connect to nobody, and what they send is dropped.
LEMMA NothingCanCome ==
    ASSUME SystemInv, NothingLeftBehind, NEW c \in Clients,
           UNCHANGED vars \/ PeerConnect(c) \/ PeerSend(c) \/ PeerHangup(c)
    PROVE  NothingLeftBehind'
  <1>. TcpTypeOK
    BY DEF SystemInv, SystemTypeOK
  <1>. USE DEF NothingLeftBehind, TcpTypeOK
  <1>1. ~PeerConnect(c)
    BY DEF PeerConnect, TcpConnect
  <1>2. CASE PeerSend(c)
    BY <1>2 DEF PeerSend, TcpSend
  <1>3. CASE PeerHangup(c)
    BY <1>3 DEF PeerHangup, TcpHangup
  <1>4. CASE UNCHANGED vars
    BY <1>4 DEF vars, tcp
  <1>. QED BY <1>1, <1>2, <1>3, <1>4

LEMMA NothingStaysBehind ==
    ASSUME SystemInv, ~Running => NothingLeftBehind, [MainSystemNext]_allvars, ~Running'
    PROVE  NothingLeftBehind'
  <1>1. CASE Running
    BY <1>1, EndIsStop, StopLeavesNothing
  <1>2. CASE ~Running
    <2>1. CASE \E c \in Callers : CallNext(c)
      BY <1>2, <2>1, CallIsClient, NothingCanCome DEF CallNext, Callers
    <2>2. CASE \E c \in Strangers : StrangerNext(c)
      BY <1>2, <2>2, MainAssumption, NothingCanCome DEF StrangerNext
    <2>3. CASE Finished \/ UNCHANGED allvars
      BY <1>2, <2>3 DEF Finished, allvars, tcp, NothingLeftBehind
    <2>. QED BY <1>2, <2>1, <2>2, <2>3
             DEF MainSystemNext, MainNext, ThreadNext, UncaughtException, Construct,
                 ConstructFails, Spawn, SpawnFails, PollReady, PollAgain, GiveUp,
                 RunTests, QuitSent, QuitThrew, Join, Goto
  <1>. QED BY <1>1, <1>2
-----------------------------------------------------------------------------
(* The steps between programs. *)

\* A refused bind() ends the program before its thread was started.
LEMMA RefusedStep ==
    ASSUME SystemInv, BindRefused PROVE SystemInv' /\ ~Running' /\ NothingLeftBehind'
  <1>1. /\ main = "construct" /\ main' = "left" /\ Running
        /\ proc' = "exit_failure" /\ TcpStop /\ UNCHANGED <<server, cl, polls>>
    BY DEF BindRefused, Goto, ExitFailure, EndProcess, ThreadStarted
  <1>2. TcpTypeOK'
    <2>1. <<>> \in Seq(Clients) /\ <<>> \in Seq(Bytes)
      OBVIOUS
    <2>. QED BY <1>1, <2>1 DEF TcpStop, SystemInv, SystemTypeOK, TcpTypeOK
  <1>3. ServerTypeOK'
    BY <1>1 DEF server, SystemInv, SystemTypeOK, ServerTypeOK
  <1>4. CallsKnown' /\ NoConnectionAbandoned' /\ ClientTypeOK'
    BY <1>1, StopMoves, CallsKeep
  <1>5. MainTypeOK' /\ MainKnown' /\ HowItEnds' /\ ~Running'
    BY <1>1 DEF SystemInv, SystemTypeOK, MainTypeOK, MainKnown, HowItEnds,
                ReturnMeansServerQuit, ExitFailureOnlyWithoutThread, Running, server
  <1>. QED BY <1>1, <1>2, <1>3, <1>4, <1>5, StopLeavesNothing
           DEF SystemInv, SystemTypeOK, HowItEnds

\* The next program starts where run() and main() start, although there may be
\* connections of the last one whose other end is still open.
LEMMA AgainStarts ==
    ASSUME SystemInv, NothingLeftBehind, Again PROVE SystemInv' /\ Running'
  <1>. /\ TcpTypeOK /\ ServerTypeOK /\ ClientTypeOK /\ CallsKnown /\ NoConnectionAbandoned
       /\ Main \in Clients /\ Main \notin Strangers
    BY MainAssumption DEF SystemInv, SystemTypeOK, Callers
  <1>1. TcpTypeOK'
    BY DEF Again, TcpTypeOK
  <1>2. ServerTypeOK'
    <2>1. got' \in [Clients -> Seq(Bytes)]
      <3>1. <<>> \in Seq(Bytes)
        OBVIOUS
      <3>. QED BY <3>1 DEF Again
    <2>2. valread' \in -1 .. BufSize
      BY ServerAssumption DEF Again
    <2>. QED BY <2>1, <2>2 DEF Again, ServerTypeOK
  <1>3. NoConnectionLeft' /\ OneAtATime'
    BY ServerAssumption
       DEF Again, NothingLeftBehind, NoConnectionLeft, OneAtATime, TcpTypeOK
  <1>4. QueueOrder'
    BY DEF Again, NothingLeftBehind, QueueOrder
  <1>5. ReadBounds' /\ QuitAsRead'
    BY ServerAssumption
       DEF Again, ReadBounds, ReadLimit, QuitAsRead, QuitReceived
  <1>6. ClientTypeOK' /\ CallsKnown' /\ NoConnectionAbandoned'
    BY DEF Again, NothingLeftBehind, ClientTypeOK, CallsKnown, NoConnectionAbandoned,
           TcpTypeOK, Callers
  <1>7. MainTypeOK' /\ MainKnown' /\ HowItEnds' /\ Running'
    BY MainAssumption
       DEF Again, MainTypeOK, MainKnown, HowItEnds, ReturnMeansServerQuit,
           ExitFailureOnlyWithoutThread, Running
  <1>. QED BY <1>1, <1>2, <1>3, <1>4, <1>5, <1>6, <1>7
           DEF SystemInv, SystemTypeOK, ServerInv, TypeOK, HowItEnds

LEMMA RestartStep == RestartInv /\ [RestartNext]_restartvars => RestartInv'
  <1>. SUFFICES ASSUME RestartInv, [RestartNext]_restartvars PROVE RestartInv'
    OBVIOUS
  <1>. USE DEF RestartInv
  <1>1. CASE [MainSystemNext]_allvars
    BY <1>1, SystemInvStep, NothingStaysBehind
  <1>2. CASE BindRefused
    BY <1>2, RefusedStep
  <1>3. CASE Again
    BY <1>3, AgainStarts DEF Again
  <1>. QED BY <1>1, <1>2, <1>3 DEF RestartNext, Run, Expire, restartvars
-----------------------------------------------------------------------------
(* The theorems. *)

\* The invariant of the program holds in every program of any sequence of them,
\* and none leaves anything of its server behind
\* (test_client-server-tcp.cpp:487-534, server-tcp.cpp:25-54).
THEOREM RestartInvHolds == RestartSpec => []RestartInv
  <1>1. RestartInit => RestartInv
    BY InitSystemInv DEF RestartInit, RestartInv, MainInit, Running
  <1>. QED BY <1>1, RestartStep, PTL DEF RestartSpec

\* Whatever happened before: main() returns the result of the tests only after
\* its own quit request, the exit status EXIT_FAILURE means that no thread ran,
\* and no call of quit_server() leaves a silent connection behind
\* (test_client-server-tcp.cpp:499-533, client-tcp.cpp:33-65).
THEOREM EveryProgramIsSafe ==
    RestartSpec => [](/\ ReturnMeansServerQuit /\ ExitFailureOnlyWithoutThread
                      /\ NoConnectionAbandoned)
  <1>1. RestartInv => /\ ReturnMeansServerQuit /\ ExitFailureOnlyWithoutThread
                      /\ NoConnectionAbandoned
    BY DEF RestartInv, SystemInv
  <1>. QED BY <1>1, RestartInvHolds, PTL

\* And every program does what QuitService promises, from its own start on: it
\* starts as if nothing had been asked, and what an earlier one handled stays
\* handled (server-tcp.cpp:56-105).
THEOREM EveryProgramServes ==
    RestartSpec =>
        [][/\ Again => PhaseOf' = "starting" /\ VerdictOf' = "more"
           /\ Running /\ Running' => [Service!ServiceNext]_(Service!service)
          ]_restartvars
  <1>1. ASSUME RestartInv, [RestartNext]_restartvars, Running, Running'
        PROVE  [Service!ServiceNext]_(Service!service)
    <2>1. [MainSystemNext]_allvars
      BY <1>1, RefusedStep DEF RestartInv, RestartNext, Run, Expire, Again, restartvars
    <2>2. ServerInv /\ SystemInv
      BY <1>1 DEF RestartInv, SystemInv
    <2>3. CASE [Next]_vars
      BY <2>2, <2>3, StepRefines
    <2>4. CASE Construct /\ UNCHANGED server
      BY <2>4 DEF Construct, server, Service!service, PhaseOf, HandledBy, VerdictOf,
                  QuitReceived
    <2>. QED BY <1>1, <2>1, <2>2, <2>3, <2>4, ProgramStep
  <1>2. ASSUME Again PROVE PhaseOf' = "starting" /\ VerdictOf' = "more"
    BY <1>2 DEF Again, PhaseOf, VerdictOf, QuitReceived, Serving, Failed
  <1>. QED BY <1>1, <1>2, RestartInvHolds, PTL DEF RestartSpec

\* Only a new start gives the program more to do: each program, one that is
\* refused its port included, has a bounded number of steps left whatever those
\* before it left undone (test_client-server-tcp.cpp:487-534).
THEOREM EveryProgramIsFinite ==
    ASSUME IsFiniteSet(Clients)
    PROVE  RestartSpec =>
               [][~Again =>
                    /\ StepsLeft' <= StepsLeft
                    /\ \/ BindRefused \/ MainNext \/ ThreadNext
                       \/ \E c \in Callers : CallNext(c)
                       => StepsLeft' < StepsLeft]_restartvars
  <1>1. ASSUME RestartInv, RestartInv', [RestartNext]_restartvars, ~Again
        PROVE  /\ StepsLeft' <= StepsLeft
               /\ \/ BindRefused \/ MainNext \/ ThreadNext
                  \/ \E c \in Callers : CallNext(c)
                  => StepsLeft' < StepsLeft
    <2>1. SystemInv /\ SystemInv'
      BY <1>1 DEF RestartInv
    <2>2. StepsLeft \in Nat /\ StepsLeft' \in Nat
      BY <1>1, <2>1, StepsAreNumbers DEF StepsLeft
    <2>3. CASE BindRefused
      <3>1. /\ main = "construct" /\ main' = "left" /\ UNCHANGED <<server, cl>>
            /\ \A c \in Clients : link[c] = "closed" => link'[c] = "closed"
        BY <2>3 DEF BindRefused, Goto, ExitFailure, EndProcess, TcpStop
      <3>2. MainLeft' < MainLeft /\ CallsLeft' = CallsLeft
        BY <3>1, MainAssumption DEF MainLeft, CallsLeft, CallStepsLeft
      <3>3. ThreadLeft' <= ThreadLeft
        BY <1>1, <2>1, <3>1, ThreadDoesNotGainWork DEF server
      <3>. QED BY <1>1, <2>1, <2>2, <3>2, <3>3, StepsAreNumbers DEF StepsLeft
    <2>4. CASE ~BindRefused
      <3>1. [MainSystemNext]_allvars
        BY <1>1, <2>4 DEF RestartNext, Run, Expire, restartvars
      <3>. QED BY <1>1, <2>1, <2>2, <2>4, <3>1, StepAdvances, StrangersDoNotDelay
    <2>. QED BY <2>3, <2>4
  <1>2. RestartInv /\ RestartInv' /\ [RestartNext]_restartvars
            => [~Again =>
                    /\ StepsLeft' <= StepsLeft
                    /\ \/ BindRefused \/ MainNext \/ ThreadNext
                       \/ \E c \in Callers : CallNext(c)
                       => StepsLeft' < StepsLeft]_restartvars
    BY <1>1
  <1>. QED BY <1>2, RestartInvHolds, PTL DEF RestartSpec
=============================================================================
