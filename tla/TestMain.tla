------------------------------ MODULE TestMain ------------------------------
(***************************************************************************)
(* The program: main() of test_client-server-tcp.cpp:487-534 runs the      *)
(* server in a thread, waits until it is ready, runs the unit tests, asks  *)
(* the server to quit and joins the thread.  Other calls of quit_server()  *)
(* may come from other processes at any time, and so may strangers: TCP    *)
(* clients that do with their connection what they like.                   *)
(***************************************************************************)
EXTENDS ServerTCP, ClientTCP, FiniteSets

CONSTANTS Main,        \* main()'s own call of quit_server()
          Strangers,   \* clients that are not calls of quit_server()
          PollLimit    \* "limit", 10 in the code

Callers == Clients \ Strangers

ASSUME MainAssumption ==
    /\ Main \in Callers /\ Strangers \subseteq Clients
    /\ PollLimit \in Nat \ {0}
    /\ <<"Q">> \in Messages /\ MaxUnread \in Nat \ {0}

VARIABLES main,        \* where main() is
          polls,       \* the loop counter i
          proc         \* how the process ended, or "running"

mainvars == <<main, polls, proc>>
allvars == <<tcp, server, cl, mainvars>>

MainInit ==
    /\ listening = FALSE
    /\ TcpInit /\ ServerInit /\ ClientInit
    /\ main = "construct" /\ polls = 0 /\ proc = "running"

Running == proc = "running"
ThreadStarted == main \notin {"construct", "spawn"}

Goto(from, to) == Running /\ main = from /\ main' = to

\* The process ends: the sockets it holds are closed by the system.
EndProcess(how) == proc' = how /\ TcpStop /\ UNCHANGED <<server, cl, polls>>

\* Mutant: the exit status is taken to be EXIT_FAILURE in every case.
ExitFailureAlways == EndProcess("exit_failure")

\* std::exit() destructs the static std::thread object if there is one; it is
\* joinable until main() joined it, and then its destructor calls terminate.
ExitFailure == EndProcess(IF ThreadStarted THEN "terminated" ELSE "exit_failure")

Construct ==
    /\ Goto("construct", "spawn")
    /\ listening' = TRUE
    /\ UNCHANGED <<queue, link, peer, inq, server, cl, polls, proc>>

ConstructFails == Faults /\ Goto("construct", "left") /\ ExitFailure

Spawn == Goto("spawn", "poll") /\ UNCHANGED <<tcp, server, cl, polls, proc>>

SpawnFails == Faults /\ Goto("spawn", "left") /\ ExitFailure

\* m_ready is read without synchronisation: the reader may still see FALSE.
ReadReady(r) == r \in {FALSE, m_ready}

\* ready(): the first read decides whether to sleep.  A read that saw TRUE is
\* never followed by one that sees FALSE.
PollReady ==
    \E r \in BOOLEAN :
        /\ ReadReady(r)
        /\ Goto("poll", IF r THEN "tests" ELSE "slept")
        /\ UNCHANGED <<tcp, server, cl, polls, proc>>

\* Mutant: the retries are compared with > instead of >=.
PollAgainOnceMore ==
    \E r \in BOOLEAN :
        /\ ReadReady(r)
        /\ polls' = IF r THEN polls ELSE polls + 1
        /\ Goto("slept", IF r THEN "tests"
                         ELSE IF polls' > PollLimit THEN "gave_up" ELSE "poll")
        /\ UNCHANGED <<tcp, server, cl, proc>>

\* ready(): the second read, after sleep_for(), is what it returns.
PollAgain ==
    \E r \in BOOLEAN :
        /\ ReadReady(r)
        /\ polls' = IF r THEN polls ELSE polls + 1
        /\ Goto("slept", IF r THEN "tests"
                         ELSE IF polls' >= PollLimit THEN "gave_up" ELSE "poll")
        /\ UNCHANGED <<tcp, server, cl, proc>>

GiveUp == Goto("gave_up", "left") /\ ExitFailure

RunTests == Goto("tests", "quit") /\ UNCHANGED <<tcp, server, cl, polls, proc>>

QuitSent ==
    /\ cl[Main] = "done"
    /\ Goto("quit", "join")
    /\ UNCHANGED <<tcp, server, cl, polls, proc>>

QuitThrew == cl[Main] = "threw" /\ Goto("quit", "left") /\ ExitFailure

\* Mutant: the thread is detached instead of joined.
JoinAtOnce == Goto("join", "left") /\ EndProcess("returned")

\* join() returns when run() has returned; then main() returns gtest_rc.
Join == svr = "returned" /\ Goto("join", "left") /\ EndProcess("returned")

MainNext ==
    \/ Construct \/ ConstructFails \/ Spawn \/ SpawnFails
    \/ PollReady \/ PollAgain \/ GiveUp
    \/ RunTests \/ QuitSent \/ QuitThrew \/ Join

\* An exception that leaves run() leaves the thread: std::terminate().
UncaughtException ==
    /\ Running /\ ThreadStarted /\ svr \in Failed
    /\ EndProcess("terminated")
    /\ main' = "left"

ThreadNext ==
    \/ Running /\ ThreadStarted /\ ServerNext /\ UNCHANGED <<cl, mainvars>>
    \/ UncaughtException

CallNext(c) ==
    /\ c = Main => Running /\ main = "quit"
    /\ ClientNext(c)
    /\ UNCHANGED <<server, mainvars>>

StrangerNext(c) ==
    (PeerConnect(c) \/ PeerSend(c) \/ PeerHangup(c)) /\ UNCHANGED <<cl, mainvars>>

\* Nothing is left to do.
Finished ==
    /\ ~Running
    /\ \A c \in Callers : cl[c] \in {"done", "threw"} \/ c = Main
    /\ UNCHANGED allvars

MainSystemNext ==
    \/ MainNext \/ ThreadNext
    \/ \E c \in Callers : CallNext(c)
    \/ \E c \in Strangers : StrangerNext(c)
    \/ Finished

SystemSpec == MainInit /\ [][MainSystemNext]_allvars

\* The server thread waits in accept() for a connection and in recv() for bytes
\* or the client's end; a call that waits may fail, but need not.
Unblocked ==
    /\ svr = "loop" => QuitReceived \/ queue # <<>>
    /\ svr = "recv" => inq[accept_sfd] # <<>> \/ peer[accept_sfd] # "open"

(* Both threads are scheduled, and so is every caller of quit_server();    *)
(* strangers owe nothing to anybody, and no call is owed a failure.        *)
Fairness ==
    /\ WF_allvars(MainNext)
    /\ WF_allvars(Unblocked /\ ThreadNext)
    /\ \A c \in Callers : WF_allvars(CallNext(c))

FairSystemSpec == SystemSpec /\ Fairness
-----------------------------------------------------------------------------
(* Properties. *)

MainTypeOK ==
    /\ main \in {"construct", "spawn", "poll", "slept", "gave_up", "tests",
                 "quit", "join", "left"}
    /\ polls \in 0 .. PollLimit
    /\ proc \in {"running", "returned", "exit_failure", "terminated"}

\* Every variable of the program has its type.
SystemTypeOK == TcpTypeOK /\ ServerTypeOK /\ ClientTypeOK /\ MainTypeOK

\* main() returns the result of the tests only after its own quit request was
\* sent and run() returned normally, so never with the server thread running or
\* after the server failed (test_client-server-tcp.cpp:524-533).
ReturnMeansServerQuit ==
    proc = "returned" => svr = "returned" /\ cl[Main] = "done"

\* The exit status EXIT_FAILURE is seen only when the thread never ran: once it
\* was started every failing path of main() destructs a joinable thread and
\* the process is terminated instead (test_client-server-tcp.cpp:499, 517, 529).
ExitFailureOnlyWithoutThread ==
    proc = "exit_failure" => svr = "run" /\ ~m_ready /\ polls = 0

\* While the program runs each of its steps, those of main(), of quit_server()
\* and of strangers, is a step of run() or of one of its arbitrary clients: what
\* is shown of run() alone holds in the program (client-tcp.cpp:33-63).
ProgramRunsServer ==
    [][proc' = "running" /\ main # "construct" => [Next]_vars]_allvars

\* The invariant that makes these inductive.  What is known of a call: it opens
\* its connection once, sends once and is the one that hangs up;
CallsKnown ==
    /\ \A c \in Strangers : cl[c] = "idle"
    /\ \A c \in Clients : link[c] = "none" => inq[c] = <<>> /\ peer[c] = "open"
    /\ \A c \in Callers :
          /\ cl[c] \in {"idle", "connect"} => link[c] = "none"
          /\ cl[c] \in {"send", "shutdown"} => link[c] # "none" /\ peer[c] = "open"
          /\ cl[c] = "send" => inq[c] = <<>>

\* and of main(): nothing has run before the thread, polling stops at the
\* limit, and joining comes after the quit request.
MainKnown ==
    /\ Running <=> main # "left"
    /\ main \in {"construct", "spawn"} => svr = "run" /\ ~m_ready /\ polls = 0
    /\ main \in {"poll", "slept"} => polls < PollLimit
    /\ main = "join" => cl[Main] = "done"

\* At every step of the program, failing or not (test file, 487-534).
SystemInv ==
    /\ SystemTypeOK /\ (Running => ServerInv) /\ CallsKnown /\ MainKnown
    /\ NoConnectionAbandoned /\ ReturnMeansServerQuit /\ ExitFailureOnlyWithoutThread

\* What is known of requests: the accept queue loses no connection,
NobodyForgotten ==
    \A c \in Clients : link[c] = "queued" => \E i \in 1 .. Len(queue) : queue[i] = c

\* and a request that was sent was read as one, or it lies unread with the byte
\* it was sent with: run() will still come to it, is about to read it, or ended
\* before it came to it.  Or recv() failed on it, and then it is gone and run()
\* is about to throw or has thrown.
ToCome(c) == svr \notin Ended /\ (link[c] = "queued" \/ (svr = "recv" /\ accept_sfd = c))
LeftOver(c) == svr \in Ended /\ link[c] = "queued"
RecvFailed(c) ==
    /\ valread = SOCKET_ERROR
    /\ \/ svr = "hangup" /\ accept_sfd = c
       \/ svr \in {"check", "MSG1024"} /\ link[c] = "closed"
RequestsKept ==
    \A c \in Callers :
        /\ peer[c] # "rst"
        /\ cl[c] = "send" => ToCome(c) \/ LeftOver(c) \/ RecvFailed(c)
        /\ cl[c] \in {"shutdown", "done"} =>
               \/ got[c] = <<"Q">>
               \/ (ToCome(c) \/ LeftOver(c)) /\ inq[c] = <<"Q">>
               \/ RecvFailed(c)

\* While the program runs a quit request is lost only by a failing recv(), which
\* run() reports: not in the queue, not in the buffer of its connection and not by
\* a server that hangs up on a call before it has sent.  A request may be left
\* over when another one, or a failure, ended run() before
\* (client-tcp.cpp:33-63, server-tcp.cpp:72-99).
RequestInv == SystemInv /\ (Running => NobodyForgotten /\ RequestsKept)

\* main() does not wait in vain: while it is in join(), accept() finds somebody
\* in the queue, and recv() waits for nobody but a call that is about to send,
\* or a stranger (test_client-server-tcp.cpp:532, server-tcp.cpp:79-86).
JoinIsAnswered ==
    Running /\ main = "join" =>
        /\ svr = "loop" => QuitReceived \/ queue # <<>>
        /\ svr = "recv" => \/ inq[accept_sfd] # <<>> \/ peer[accept_sfd] # "open"
                          \/ accept_sfd \in Strangers \/ cl[accept_sfd] = "send"

\* How many steps of the program are left at most: of main(), whose polls are
\* counted; of the server thread, four for every connection it may still close;
\* and of the calls of quit_server().
MainLeft ==
    CASE main = "construct"         -> 2 * PollLimit + 8
      [] main = "spawn"             -> 2 * PollLimit + 7
      [] main = "poll"              -> 2 * (PollLimit - polls) + 6
      [] main = "slept"             -> 2 * (PollLimit - polls) + 5
      [] main = "tests"             -> 4
      [] main = "quit"              -> 3
      [] main \in {"join", "gave_up"} -> 2
      [] OTHER                      -> 0

RoundLeft ==
    CASE svr \in {"run", "check"} -> 4
      [] svr = "loop"             -> 3
      [] svr = "recv"             -> 2
      [] svr = "hangup"           -> 1
      [] OTHER                    -> 0

ThreadLeft == 4 * Cardinality({c \in Clients : link[c] # "closed"}) + RoundLeft

CallStepsLeft(c) ==
    CASE cl[c] = "idle"     -> 4
      [] cl[c] = "connect"  -> 3
      [] cl[c] = "send"     -> 2
      [] cl[c] = "shutdown" -> 1
      [] OTHER              -> 0

CallsLeft == Cardinality({w \in Callers \X (1 .. 4) : w[2] <= CallStepsLeft(w[1])})

StepsLeft == MainLeft + ThreadLeft + CallsLeft

\* The program cannot go on for ever: whatever fails, whatever is read of the
\* flag and whatever strangers do, each step of main(), of the server thread and
\* of a call brings the end nearer (test_client-server-tcp.cpp:487-534,
\* server-tcp.cpp:78-102).
ProgramAdvances ==
    [][/\ StepsLeft' <= StepsLeft
       /\ MainNext \/ ThreadNext \/ (\E c \in Callers : CallNext(c))
              => StepsLeft' < StepsLeft]_allvars

\* The program ends whatever fails: no system call, no early quit request of
\* another process, no full queue and no stranger leaves main() in join() for
\* good, with one exception: a stranger the server accepted and who neither
\* sends nor hangs up, as recv() waits without a timeout
\* (test_client-server-tcp.cpp:532, server-tcp.cpp:86).
Silent(c) == accept_sfd = c /\ inq[c] = <<>> /\ peer[c] = "open"
ProgramEnds == <>(proc # "running") \/ \E c \in Strangers : <>[]Silent(c)

\* When no system call fails and the queue has room for all callers, a program
\* that got to its tests always returns their result, although others may make
\* the server quit before main() asks it to (test_client-server-tcp.cpp:520-533).
TestsAreReported == main = "tests" ~> proc = "returned"

\* A request queued before the server thread first calls accept() is not lost
\* (the question in server-tcp.cpp:72-75): the server reads it, unless another
\* request made it quit before or main() gave up on the server.
EarlyRequestServed ==
    \A c \in Clients :
        link[c] = "queued" /\ ~m_ready
            ~> got[c] = <<"Q">> \/ svr = "returned" \/ polls = PollLimit
=============================================================================
