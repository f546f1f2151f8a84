------------------------------ MODULE Lifetimes -----------------------------
(***************************************************************************)
(* The objects behind a CServerTCP and behind a call of quit_server(), on  *)
(* Windows, where sockets work only between WSAStartup() and the matching  *)
(* WSACleanup(), which the process counts.                                 *)
(*                                                                         *)
(* Both hold a CWSAStartup, then a CSocket, then a CAddrinfo: the members  *)
(* of the class (server-tcp.hpp:49-51) and the local of its constructor,   *)
(* resp. the locals of the function.  A step constructs or destructs one   *)
(* of them or makes one call; any may throw, and then what was constructed *)
(* is destructed in reverse order.                                         *)
(***************************************************************************)
EXTENDS Integers, Sequences, FiniteSets

CONSTANTS Servers,     \* CServerTCP objects
          Calls        \* calls of quit_server()

Scopes == Servers \cup Calls

ASSUME ScopesAssumption == Servers \cap Calls = {} /\ IsFiniteSet(Scopes)

VARIABLES at,          \* where the constructor, destructor or call is
          built,       \* how many of its objects exist
          started,     \* WSAStartup() calls without their WSACleanup()
          kernel,      \* the system's side of the socket
          lists        \* who holds an address list

vars == <<at, built, started, kernel, lists>>

Order == <<"winsock_init", "socket", "ai">>

Holds(s, obj) == \E i \in 1 .. built[s] : Order[i] = obj

Init ==
    /\ at = [s \in Scopes |-> "none"]
    /\ built = [s \in Scopes |-> 0]
    /\ started = 0
    /\ kernel = [s \in Scopes |-> "none"]
    /\ lists = {}

Goto(s, from, to) == at[s] = from /\ at' = [at EXCEPT ![s] = to]

Begin(s) == Goto(s, "none", "build") /\ UNCHANGED <<built, started, kernel, lists>>
-----------------------------------------------------------------------------
(* Constructing the objects, in order. *)

Body(s) == IF s \in Servers THEN "bind" ELSE "connect"

\* obj is the next one; behind the last one the body begins.
Add(s, obj) ==
    /\ built[s] < Len(Order) /\ Order[built[s] + 1] = obj
    /\ built' = [built EXCEPT ![s] = @ + 1]
    /\ Goto(s, "build", IF built'[s] = Len(Order) THEN Body(s) ELSE "build")

\* Mutant: WSAStartup() is called only when the sockets are not started yet.
StartWinsockOnce(s) ==
    /\ Add(s, "winsock_init")
    /\ started' = 1
    /\ UNCHANGED <<kernel, lists>>

StartWinsock(s) ==
    /\ Add(s, "winsock_init")
    /\ started' = started + 1
    /\ UNCHANGED <<kernel, lists>>

\* ::socket() and ::getaddrinfo() work only in between.
GetSocket(s) ==
    /\ Add(s, "socket")
    /\ started > 0
    /\ kernel' = [kernel EXCEPT ![s] = "open"]
    /\ UNCHANGED <<started, lists>>

LookUp(s) ==
    /\ Add(s, "ai")
    /\ started > 0
    /\ lists' = lists \cup {s}
    /\ UNCHANGED <<started, kernel>>
-----------------------------------------------------------------------------
(* The bodies. *)

Socket(s, from, to, state) ==
    /\ Goto(s, from, to)
    /\ kernel' = [kernel EXCEPT ![s] = state]
    /\ UNCHANGED <<built, started, lists>>

\* Mutant: nobody looks whether ::listen() failed.
ListenUnchecked(s) ==
    Socket(s, "listen", "constructed", "listening") \/ Socket(s, "listen", "constructed", "bound")

Bind(s) == Socket(s, "bind", "listen", "bound")
Listen(s) == Socket(s, "listen", "constructed", "listening")
Connect(s) == Socket(s, "connect", "send", "connected")
Send(s) == Goto(s, "send", "shutdown") /\ UNCHANGED <<built, started, kernel, lists>>

\* ::shutdown() is not checked: it cannot throw.
Shutdown(s) == Socket(s, "shutdown", "leaving", "shut")

\* Mutant: winsock_init is not an object, so nothing undoes it when the socket
\* cannot be had.
ThrowForgetsStart(s) ==
    /\ at[s] \in {"build", "bind", "listen", "connect", "send"}
    /\ at' = [at EXCEPT ![s] = IF built[s] <= 1 THEN "none" ELSE "leaving"]
    /\ built' = [built EXCEPT ![s] = IF @ = 1 THEN 0 ELSE @]
    /\ UNCHANGED <<started, kernel, lists>>

\* MSG1001, 1002-1005, 1025 from the objects, 1007-1010 and 1018-1021 from the
\* bodies: whatever throws, the objects built so far are destructed.
Throw(s) ==
    /\ at[s] \in {"build", "bind", "listen", "connect", "send"}
    /\ at' = [at EXCEPT ![s] = IF built[s] = 0 THEN "none" ELSE "leaving"]
    /\ UNCHANGED <<built, started, kernel, lists>>

Destroy(s) == Goto(s, "alive", "leaving") /\ UNCHANGED <<built, started, kernel, lists>>
-----------------------------------------------------------------------------
(* Destructing the objects, in reverse order. *)

Remove(s, obj) ==
    /\ built[s] > 0 /\ Order[built[s]] = obj
    /\ built' = [built EXCEPT ![s] = @ - 1]

Leaving(s) == Goto(s, "leaving", IF built[s] = 1 THEN "none" ELSE "leaving")

\* The address list lives until the end of the constructor or of the call.
FreeList(s) ==
    /\ Remove(s, "ai")
    /\ Leaving(s) \/ Goto(s, "constructed", "alive")
    /\ lists' = lists \ {s}
    /\ UNCHANGED <<started, kernel>>

CloseSocket(s) ==
    /\ Remove(s, "socket") /\ Leaving(s)
    /\ kernel' = [kernel EXCEPT ![s] = "none"]
    /\ UNCHANGED <<started, lists>>

\* The last WSACleanup() takes away every socket of the process.
CleanupWinsock(s) ==
    /\ Remove(s, "winsock_init") /\ Leaving(s)
    /\ started' = started - 1
    /\ kernel' = IF started = 1 THEN [t \in Scopes |-> "none"] ELSE kernel
    /\ UNCHANGED lists

Building(s) == Begin(s) \/ StartWinsock(s) \/ GetSocket(s) \/ LookUp(s)
Working(s) ==
    \/ Bind(s) \/ Listen(s) \/ Connect(s) \/ Send(s) \/ Shutdown(s)
    \/ Throw(s) \/ Destroy(s)
Dropping(s) == FreeList(s) \/ CloseSocket(s) \/ CleanupWinsock(s)

Next == \E s \in Scopes : Building(s) \/ Working(s) \/ Dropping(s)

Spec == Init /\ [][Next]_vars

\* Getters of a constructed server, which ask its socket; get_port() throws for a
\* socket that is not there and for one that is not bound.
is_listen(s) == kernel[s] = "listening"
get_port(s) ==
    CASE kernel[s] = "none"                     -> "MSG1011"
      [] kernel[s] \in {"bound", "listening"} -> "port"
      [] OTHER                                  -> "MSG1012"
-----------------------------------------------------------------------------
(* Properties. *)

\* Every variable has its type.
TypeOK ==
    /\ at \in [Scopes -> {"none", "build", "bind", "listen", "constructed", "alive",
                          "connect", "send", "shutdown", "leaving"}]
    /\ built \in [Scopes -> 0 .. Len(Order)]
    /\ started \in Nat
    /\ kernel \in [Scopes -> {"none", "open", "bound", "listening", "connected", "shut"}]
    /\ lists \subseteq Scopes

\* No socket is pulled away from the object that owns it: while anybody holds a
\* CSocket the Windows sockets stay started, whoever comes, throws and goes in
\* the meantime, and its destructor closes it before the last WSACleanup()
\* (server-tcp.hpp:49-51, client-tcp.cpp:16-28, socket.cpp:14-28).
SocketsStayUsable ==
    \A s \in Scopes : Holds(s, "socket") => started > 0 /\ kernel[s] # "none"

\* A constructor or call that is over, by whatever exception, has left nothing:
\* no socket, no address list, and no start-up when it was the last
\* (server-tcp.cpp:28-53, client-tcp.cpp:14-65).
NothingLeft ==
    /\ \A s \in Scopes : at[s] = "none" => kernel[s] = "none" /\ s \notin lists
    /\ (\A s \in Scopes : at[s] = "none") => started = 0

\* A server that could be constructed listens and answers with its port for all
\* of its life, and the address list it was bound with is freed by then
\* (server-tcp.hpp:38-46, server-tcp.cpp:28-53, 124-132).
AliveServerListens ==
    \A s \in Servers :
        at[s] = "alive" => is_listen(s) /\ get_port(s) = "port" /\ s \notin lists

\* What makes these inductive: the start-ups are those of the objects alive, and
\* what exists of a scope follows from where it is.
StartsCounted == started = Cardinality({s \in Scopes : built[s] > 0})

StagesKnown ==
    \A s \in Scopes :
        /\ at[s] = "none" => built[s] = 0
        /\ at[s] = "build" => built[s] < 3
        /\ at[s] \in {"bind", "listen", "constructed", "connect", "send", "shutdown"}
               => built[s] = 3
        /\ at[s] = "alive" => built[s] = 2
        /\ at[s] \in {"constructed", "alive"} => kernel[s] = "listening"
        /\ at[s] = "leaving" => built[s] > 0
        /\ kernel[s] # "none" <=> built[s] >= 2
        /\ s \in lists <=> built[s] = 3

\* At every step of every constructor, call and destructor.
LifeInv == TypeOK /\ StartsCounted /\ StagesKnown
=============================================================================
