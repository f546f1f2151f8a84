----------------------------- MODULE ClientTCP ------------------------------
(***************************************************************************)
(* quit_server() (client-tcp.cpp:14-65): every client of this module is    *)
(* one call of it, from whatever thread or process.                        *)
(*                                                                         *)
(* The socket and the address information are local objects, so every way  *)
(* out of the function, by return or by exception, destructs them.         *)
(***************************************************************************)
EXTENDS Loopback

CONSTANT Faults        \* system calls may fail for want of resources

ASSUME FaultsAssumption == Faults \in BOOLEAN

VARIABLE cl            \* where each call of quit_server() is

ClientInit == cl = [c \in Clients |-> "idle"]

Step(c, from, to) == cl[c] = from /\ cl' = [cl EXCEPT ![c] = to]

\* The destructors of sock and ai on the way out of a connected call.
LeaveConnected(c) == TcpHangup(c, "fin")

\* Construct sock and ai; either constructor may throw, then nothing is left.
Acquire(c) == Step(c, "idle", "connect") /\ UNCHANGED tcp
AcquireFails(c) == Faults /\ Step(c, "idle", "threw") /\ UNCHANGED tcp

Connect(c) == Step(c, "connect", "send") /\ TcpConnect(c)

\* MSG1019: nobody listens, the queue stayed full until the attempt timed out,
\* or the first address offered does not fit the AF_INET6 socket.
ConnectFails(c) ==
    /\ ~listening \/ QueueFull \/ Faults
    /\ Step(c, "connect", "threw")
    /\ UNCHANGED tcp

\* Mutant: the request is sent with its terminating NUL.
SendQuitWithNul(c) == Step(c, "send", "shutdown") /\ TcpSend(c, <<"Q", "x">>)

\* ::send() may also succeed when the server's end is gone already.
SendQuit(c) == Step(c, "send", "shutdown") /\ TcpSend(c, <<"Q">>)

\* Mutant: the throwing path does not close the socket.
SendFailsLeaks(c) ==
    /\ link[c] = "closed" \/ Faults
    /\ Step(c, "send", "threw")
    /\ UNCHANGED tcp

\* MSG1021: the server's end is gone.
SendFails(c) ==
    /\ link[c] = "closed" \/ Faults
    /\ Step(c, "send", "threw")
    /\ LeaveConnected(c)

Shutdown(c) == Step(c, "shutdown", "done") /\ LeaveConnected(c)

ClientNext(c) ==
    \/ Acquire(c) \/ AcquireFails(c) \/ Connect(c) \/ ConnectFails(c)
    \/ SendQuit(c) \/ SendFails(c) \/ Shutdown(c)
-----------------------------------------------------------------------------
(* Properties. *)

\* Every call is at one of the points of quit_server().
ClientTypeOK ==
    cl \in [Clients -> {"idle", "connect", "send", "shutdown", "done", "threw"}]

\* However quit_server() ends, the server is never left with a connection whose
\* client neither sends nor closes: it would block in recv() on it for good
\* (client-tcp.cpp:33-65, the destructor of sock).
NoConnectionAbandoned ==
    \A c \in Clients :
        cl[c] \in {"done", "threw"} /\ link[c] # "none" => peer[c] = "fin"
=============================================================================
