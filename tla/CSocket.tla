------------------------------ MODULE CSocket -------------------------------
(***************************************************************************)
(* class CSocket (socket.cpp, socket.hpp): objects that own a socket file  *)
(* descriptor, used by several threads, over the descriptor table of the   *)
(* process.                                                                *)
(*                                                                         *)
(* A step is a system call, taking a mutex, or one access to a member that *)
(* no mutex protects: a call that passes m_sfd to the system reads it in   *)
(* one step and is in the system in a later one, on whatever the number    *)
(* means by then.  Every call ends in "return" with its result or the      *)
(* message it throws.                                                      *)
(***************************************************************************)
EXTENDS Integers

CONSTANTS Vars,        \* storage for CSocket objects of the program
          Threads,
          Fds,         \* descriptors the process may have open
          Kinds,       \* <<domain, type>> pairs sockets are made of
          Ports,       \* ports an address can name
          SharedMoves, \* may an object be moved while others use it?
          RawOptions,  \* options the program sets on the raw descriptor
          None

INVALID_SOCKET == -1
Domains == {"AF_INET", "AF_INET6"}
Types == {"SOCK_STREAM", "SOCK_DGRAM"}
Unbound == "unbound"
Ephemeral == "ephemeral"   \* a port the system chose

ASSUME CSocketAssumption ==
    /\ Fds \subseteq Nat
    /\ Kinds \subseteq Domains \X Types
    /\ SharedMoves \in BOOLEAN
    /\ RawOptions \subseteq {"reuse", "v6only"}
    /\ Vars \cap Threads = {} /\ None \notin Vars \cup Threads
    /\ Unbound \notin Ports /\ Ephemeral \notin Ports

\* The by-value parameter of operator=() lives on the stack of its thread: the
\* slot named like the thread.
Slots == Vars \cup Threads

VARIABLES kernel,      \* the descriptor table: an open socket or None
          live,        \* the slots that hold a constructed object
          m_sfd, m_af, m_bound, m_listen,     \* data members, per slot
          m_bound_mutex, m_listen_mutex,      \* holder, or None
          pc, this, that,                     \* per thread: the running call
          sfd,         \* the constructor's local descriptor
          fd,          \* the m_sfd that was read for a system call
          port,        \* the port of bind()'s argument
          ret          \* result of the call

objects == <<live, m_sfd, m_af, m_bound, m_listen>>
locks == <<m_bound_mutex, m_listen_mutex>>
call == <<pc, this, that>>
local == <<sfd, fd, port, ret>>
vars == <<kernel, objects, locks, call, local>>

Socket == [af : Domains, type : Types, addr : Ports \cup {Unbound, Ephemeral},
           lis : BOOLEAN, reuse : BOOLEAN, v6only : BOOLEAN]

ASSUME NoneAssumption == None \notin Socket \cup Domains

Init ==
    /\ kernel = [f \in Fds |-> None]
    /\ live = {}
    /\ m_sfd = [o \in Slots |-> INVALID_SOCKET]
    /\ m_af = [o \in Slots |-> None]
    /\ m_bound = [o \in Slots |-> FALSE]
    /\ m_listen = [o \in Slots |-> FALSE]
    /\ m_bound_mutex = [o \in Slots |-> None]
    /\ m_listen_mutex = [o \in Slots |-> None]
    /\ pc = [t \in Threads |-> "idle"]
    /\ this = [t \in Threads |-> None]
    /\ that = [t \in Threads |-> None]
    /\ sfd = [t \in Threads |-> INVALID_SOCKET]
    /\ fd = [t \in Threads |-> INVALID_SOCKET]
    /\ port = [t \in Threads |-> None]
    /\ ret = [t \in Threads |-> None]
-----------------------------------------------------------------------------
(* Calls and who may make them. *)

Enter(t, o, p, to) ==
    /\ pc[t] = "idle"
    /\ pc' = [pc EXCEPT ![t] = to]
    /\ this' = [this EXCEPT ![t] = o]
    /\ that' = [that EXCEPT ![t] = p]

Goto(t, from, to) ==
    /\ pc[t] = from
    /\ pc' = [pc EXCEPT ![t] = to]
    /\ UNCHANGED <<this, that>>

Result(t, r) == ret' = [ret EXCEPT ![t] = r] /\ UNCHANGED <<sfd, fd, port>>

\* m_sfd of object o becomes the argument of a system call.
Load(t, o) == fd' = [fd EXCEPT ![t] = m_sfd[o]] /\ UNCHANGED <<sfd, port, ret>>

Return(t) ==
    /\ pc[t] = "return"
    /\ pc' = [pc EXCEPT ![t] = "idle"]
    /\ this' = [this EXCEPT ![t] = None]
    /\ that' = [that EXCEPT ![t] = None]
    /\ ret' = [ret EXCEPT ![t] = None]
    /\ fd' = [fd EXCEPT ![t] = INVALID_SOCKET]
    /\ UNCHANGED <<kernel, objects, locks, sfd, port>>

InUse(o) == \E t \in Threads : pc[t] # "idle" /\ o \in {this[t], that[t]}

\* Steps of a call that constructs, moves, assigns or destructs.
Changing == {"ctor_reuse", "ctor_v6only", "move_sfd", "move_flags",
             "assign_sfd", "assign_flags", "swap_sfd", "swap_af", "swap_flags",
             "drop_param"}

BeingChanged(o) ==
    \E t \in Threads : pc[t] \in Changing /\ o \in {this[t], that[t]}

\* The mutexes make bind(), listen() and the getters callable from any thread.
MayCall(o) == o \in live \cap Vars /\ (SharedMoves \/ ~BeingChanged(o))

\* To move from or assign to an object the caller must have it for itself,
\* unless SharedMoves asks what happens if it trusts in the mutexes.
MayMove(o) ==
    o \in live \cap Vars /\ IF SharedMoves THEN ~BeingChanged(o) ELSE ~InUse(o)

MayConstruct(o) == o \in Vars \ live /\ ~InUse(o)

MayDestruct(o) == o \in live \cap Vars /\ ~InUse(o)
-----------------------------------------------------------------------------
(* The descriptor table.  ::socket() returns the lowest free descriptor.   *)

Open(f) == f \in Fds /\ kernel[f] # None

LowestFree(f) ==
    f \in Fds /\ ~Open(f) /\ \A g \in Fds : ~Open(g) => f <= g

\* CLOSE_SOCKET_P on a variable that holds f; ::close(-1) has no effect.
Closed(f) == IF Open(f) THEN [kernel EXCEPT ![f] = None] ELSE kernel

\* Sockets share an address only if both have SO_REUSEADDR set and the one
\* that has it does not listen.
Conflict(s, r, ai) ==
    /\ s.af = ai.af /\ s.type = r.type /\ s.addr = ai.port
    /\ ~(s.reuse /\ r.reuse /\ ~s.lis)

\* ::bind() is refused for a bound socket, for an address of another family
\* and for one that is taken.
BindAllowed(f, ai) ==
    /\ Open(f) /\ kernel[f].addr = Unbound /\ kernel[f].af = ai.af
    /\ \A g \in Fds : Open(g) => ~Conflict(kernel[g], kernel[f], ai)

\* ::listen() gives an unbound socket a port of the system's choice.
ListenAllowed(f) == Open(f) /\ kernel[f].type = "SOCK_STREAM"
Listening(s) ==
    [s EXCEPT !.lis = TRUE, !.addr = IF @ = Unbound THEN Ephemeral ELSE @]
-----------------------------------------------------------------------------
(* Constructors and destructor. *)

\* CSocket(): an empty object.
Empty(t, o) ==
    /\ MayConstruct(o)
    /\ Enter(t, o, None, "return")
    /\ live' = live \cup {o}
    /\ Result(t, "ok")
    /\ UNCHANGED <<kernel, m_sfd, m_af, m_bound, m_listen, locks>>

\* The system's defaults for the two options are unknown.
CtorSocket(t, o) ==
    /\ MayConstruct(o)
    /\ Enter(t, o, None, "ctor_reuse")
    /\ \E k \in Kinds, f \in Fds, r, v \in BOOLEAN :
          /\ LowestFree(f)
          /\ v => k[1] = "AF_INET6"
          /\ kernel' = [kernel EXCEPT ![f] =
                 [af |-> k[1], type |-> k[2], addr |-> Unbound, lis |-> FALSE,
                  reuse |-> r, v6only |-> v]]
          /\ sfd' = [sfd EXCEPT ![t] = f]
    /\ UNCHANGED <<objects, locks, fd, port, ret>>

CtorSocketFails(t, o) ==
    /\ MayConstruct(o)
    /\ Enter(t, o, None, "return")
    /\ Result(t, "MSG1002")
    /\ UNCHANGED <<kernel, objects, locks>>

\* ::setsockopt(SO_REUSEADDR) to 0; an IPv4 object is complete then.
CtorReuse(t) ==
    LET f == sfd[t]
        o == this[t]
    IN  /\ pc[t] = "ctor_reuse"
        /\ kernel' = [kernel EXCEPT ![f].reuse = FALSE]
        /\ \/ /\ kernel[f].af = "AF_INET6"
              /\ Goto(t, "ctor_reuse", "ctor_v6only")
              /\ UNCHANGED <<objects, local>>
           \/ /\ kernel[f].af # "AF_INET6"
              /\ Goto(t, "ctor_reuse", "return")
              /\ live' = live \cup {o}
              /\ m_sfd' = [m_sfd EXCEPT ![o] = f]
              /\ m_af' = [m_af EXCEPT ![o] = kernel[f].af]
              /\ sfd' = [sfd EXCEPT ![t] = INVALID_SOCKET]
              /\ ret' = [ret EXCEPT ![t] = "ok"]
              /\ UNCHANGED <<m_bound, m_listen, fd, port>>
        /\ UNCHANGED locks

\* ::setsockopt(IPV6_V6ONLY) to 0, then the members are stored.
CtorV6only(t) ==
    LET f == sfd[t]
        o == this[t]
    IN  /\ Goto(t, "ctor_v6only", "return")
        /\ kernel' = [kernel EXCEPT ![f].v6only = FALSE]
        /\ live' = live \cup {o}
        /\ m_sfd' = [m_sfd EXCEPT ![o] = f]
        /\ m_af' = [m_af EXCEPT ![o] = kernel[f].af]
        /\ sfd' = [sfd EXCEPT ![t] = INVALID_SOCKET]
        /\ ret' = [ret EXCEPT ![t] = "ok"]
        /\ UNCHANGED <<m_bound, m_listen, locks, fd, port>>

\* Mutant: the throwing paths of the constructor do not close the descriptor.
CtorOptionFailsLeaks(t) ==
    /\ \/ Goto(t, "ctor_reuse", "return") /\ ret' = [ret EXCEPT ![t] = "MSG1003"]
       \/ Goto(t, "ctor_v6only", "return") /\ ret' = [ret EXCEPT ![t] = "MSG1005"]
    /\ sfd' = [sfd EXCEPT ![t] = INVALID_SOCKET]
    /\ UNCHANGED <<kernel, objects, locks, fd, port>>

\* A setsockopt() fails: close the descriptor and throw; no object exists.
CtorOptionFails(t) ==
    /\ \/ Goto(t, "ctor_reuse", "return") /\ ret' = [ret EXCEPT ![t] = "MSG1003"]
       \/ Goto(t, "ctor_v6only", "return") /\ ret' = [ret EXCEPT ![t] = "MSG1005"]
    /\ kernel' = Closed(sfd[t])
    /\ sfd' = [sfd EXCEPT ![t] = INVALID_SOCKET]
    /\ UNCHANGED <<objects, locks, fd, port>>

\* The descriptor is closed; the members of a dead object mean nothing.
Destruct(o) ==
    /\ kernel' = Closed(m_sfd[o])
    /\ live' = live \ {o}
    /\ m_sfd' = [m_sfd EXCEPT ![o] = INVALID_SOCKET]
    /\ m_af' = [m_af EXCEPT ![o] = None]
    /\ m_bound' = [m_bound EXCEPT ![o] = FALSE]
    /\ m_listen' = [m_listen EXCEPT ![o] = FALSE]

Dtor(t, o) ==
    /\ MayDestruct(o)
    /\ Enter(t, o, None, "return")
    /\ Destruct(o)
    /\ Result(t, "ok")
    /\ UNCHANGED locks
-----------------------------------------------------------------------------
(* Move and assignment. *)

\* The move constructor of object o takes the members of p one by one, the
\* first two without a mutex.  Reading a member of p and clearing it is one
\* step: nobody sees o yet, and no other thread writes these members of p.
TakeAf(o, p) == m_af' = [m_af EXCEPT ![o] = m_af[p], ![p] = None]

\* Mutants: the moved-from object keeps its descriptor; it is left with
\* descriptor 0.
TakeSfdCopies(o, p) == m_sfd' = [m_sfd EXCEPT ![o] = m_sfd[p]]
TakeSfdLeavesZero(o, p) == m_sfd' = [m_sfd EXCEPT ![o] = m_sfd[p], ![p] = 0]

TakeSfd(o, p) == m_sfd' = [m_sfd EXCEPT ![o] = m_sfd[p], ![p] = INVALID_SOCKET]

\* Then it takes the flags of p, holding the mutexes of the new object o.
TakeFlags(o, p) ==
    /\ m_bound_mutex[o] = None /\ m_listen_mutex[o] = None
    /\ m_bound' = [m_bound EXCEPT ![o] = m_bound[p], ![p] = FALSE]
    /\ m_listen' = [m_listen EXCEPT ![o] = m_listen[p], ![p] = FALSE]
    /\ live' = live \cup {o}

\* CSocket o = std::move(p);
Move(t, o, p) ==
    /\ MayConstruct(o) /\ MayMove(p)
    /\ Enter(t, o, p, "move_sfd")
    /\ TakeAf(o, p)
    /\ UNCHANGED <<kernel, live, m_sfd, m_bound, m_listen, locks, local>>

MoveSfd(t) ==
    /\ Goto(t, "move_sfd", "move_flags")
    /\ TakeSfd(this[t], that[t])
    /\ UNCHANGED <<kernel, live, m_af, m_bound, m_listen, locks, local>>

MoveFlags(t) ==
    /\ Goto(t, "move_flags", "return")
    /\ TakeFlags(this[t], that[t])
    /\ Result(t, "ok")
    /\ UNCHANGED <<kernel, m_sfd, m_af, locks>>

\* o = std::move(p); the parameter, slot t, is move constructed from p.
Assign(t, o, p) ==
    /\ MayMove(o) /\ MayMove(p)
    /\ Enter(t, o, p, "assign_sfd")
    /\ TakeAf(t, p)
    /\ UNCHANGED <<kernel, live, m_sfd, m_bound, m_listen, locks, local>>

AssignSfd(t) ==
    /\ Goto(t, "assign_sfd", "assign_flags")
    /\ TakeSfd(t, that[t])
    /\ UNCHANGED <<kernel, live, m_af, m_bound, m_listen, locks, local>>

AssignFlags(t) ==
    /\ pc[t] = "assign_flags"
    /\ pc' = [pc EXCEPT ![t] = "swap_sfd"]
    /\ that' = [that EXCEPT ![t] = None]
    /\ TakeFlags(t, that[t])
    /\ UNCHANGED <<kernel, m_sfd, m_af, locks, this, local>>

\* operator=() swaps the members with the parameter, two of them without a
\* mutex.
SwapSfd(t) ==
    LET o == this[t]
    IN  /\ Goto(t, "swap_sfd", "swap_af")
        /\ m_sfd' = [m_sfd EXCEPT ![o] = m_sfd[t], ![t] = m_sfd[o]]
        /\ UNCHANGED <<kernel, live, m_af, m_bound, m_listen, locks, local>>

\* Mutant: the assignment forgets the family.
SwapAfNot(t) ==
    /\ Goto(t, "swap_af", "swap_flags")
    /\ UNCHANGED <<kernel, objects, locks, local>>

SwapAf(t) ==
    LET o == this[t]
    IN  /\ Goto(t, "swap_af", "swap_flags")
        /\ m_af' = [m_af EXCEPT ![o] = m_af[t], ![t] = m_af[o]]
        /\ UNCHANGED <<kernel, live, m_sfd, m_bound, m_listen, locks, local>>

\* Mutant: the assignment forgets one of the flags.
SwapFlagsBound(t) ==
    LET o == this[t]
    IN  /\ Goto(t, "swap_flags", "drop_param")
        /\ m_bound_mutex[o] = None
        /\ m_bound' = [m_bound EXCEPT ![o] = m_bound[t], ![t] = m_bound[o]]
        /\ UNCHANGED <<kernel, live, m_sfd, m_af, m_listen, locks, local>>

\* and the flags holding both mutexes of *this.
SwapFlags(t) ==
    LET o == this[t]
    IN  /\ Goto(t, "swap_flags", "drop_param")
        /\ m_bound_mutex[o] = None /\ m_listen_mutex[o] = None
        /\ m_bound' = [m_bound EXCEPT ![o] = m_bound[t], ![t] = m_bound[o]]
        /\ m_listen' = [m_listen EXCEPT ![o] = m_listen[t], ![t] = m_listen[o]]
        /\ UNCHANGED <<kernel, live, m_sfd, m_af, locks, local>>

\* The parameter is destructed with what *this held before.
DropParam(t) ==
    /\ Goto(t, "drop_param", "return")
    /\ Destruct(t)
    /\ Result(t, "ok")
    /\ UNCHANGED locks
-----------------------------------------------------------------------------
(* bind() and listen(). *)

\* bind() reads m_sfd to ask for the type of the socket.
Bind(t, o, ai) ==
    /\ MayCall(o)
    /\ Enter(t, o, None, "bind_type")
    /\ fd' = [fd EXCEPT ![t] = m_sfd[o]]
    /\ port' = [port EXCEPT ![t] = ai]
    /\ UNCHANGED <<kernel, objects, locks, sfd, ret>>

BindEnds(t, r) ==
    /\ port' = [port EXCEPT ![t] = None]
    /\ ret' = [ret EXCEPT ![t] = r]
    /\ UNCHANGED <<sfd, fd>>

\* The type is checked before the mutex is taken.
BindType(t) ==
    /\ pc[t] = "bind_type"
    /\ \/ /\ ~Open(fd[t])
          /\ Goto(t, "bind_type", "return") /\ BindEnds(t, "MSG1007")
       \/ /\ Open(fd[t]) /\ kernel[fd[t]].type # port[t].type
          /\ Goto(t, "bind_type", "return") /\ BindEnds(t, "MSG1008")
       \/ /\ Open(fd[t]) /\ kernel[fd[t]].type = port[t].type
          /\ Goto(t, "bind_type", "bind_lock") /\ UNCHANGED local
    /\ UNCHANGED <<kernel, objects, locks>>

\* With the mutex held m_sfd is read again.
BindLock(t) ==
    /\ Goto(t, "bind_lock", "bind_call")
    /\ m_bound_mutex[this[t]] = None
    /\ m_bound_mutex' = [m_bound_mutex EXCEPT ![this[t]] = t]
    /\ Load(t, this[t])
    /\ UNCHANGED <<kernel, objects, m_listen_mutex>>

UnlockBound(t) ==
    /\ m_bound_mutex' = [m_bound_mutex EXCEPT ![this[t]] = None]
    /\ UNCHANGED m_listen_mutex

BindCall(t) ==
    /\ Goto(t, "bind_call", "bind_store")
    /\ BindAllowed(fd[t], port[t])
    /\ kernel' = [kernel EXCEPT ![fd[t]].addr = port[t].port]
    /\ UNCHANGED <<objects, locks, local>>

\* Mutant: the throwing path leaves the mutex locked.
BindCallFailsLocked(t) ==
    /\ Goto(t, "bind_call", "return")
    /\ BindEnds(t, "MSG1009")
    /\ UNCHANGED <<kernel, objects, locks>>

\* MSG1009; the system may refuse an address for other reasons too.
BindCallFails(t) ==
    /\ Goto(t, "bind_call", "return")
    /\ UnlockBound(t)
    /\ BindEnds(t, "MSG1009")
    /\ UNCHANGED <<kernel, objects>>

BindStore(t) ==
    /\ Goto(t, "bind_store", "return")
    /\ m_bound' = [m_bound EXCEPT ![this[t]] = TRUE]
    /\ UnlockBound(t)
    /\ BindEnds(t, "ok")
    /\ UNCHANGED <<kernel, live, m_sfd, m_af, m_listen>>

Listen(t, o) ==
    /\ MayCall(o)
    /\ Enter(t, o, None, "listen_lock")
    /\ UNCHANGED <<kernel, objects, locks, local>>

ListenLock(t) ==
    /\ Goto(t, "listen_lock", "listen_call")
    /\ m_listen_mutex[this[t]] = None
    /\ m_listen_mutex' = [m_listen_mutex EXCEPT ![this[t]] = t]
    /\ Load(t, this[t])
    /\ UNCHANGED <<kernel, objects, m_bound_mutex>>

UnlockListen(t) ==
    /\ m_listen_mutex' = [m_listen_mutex EXCEPT ![this[t]] = None]
    /\ UNCHANGED m_bound_mutex

ListenCall(t) ==
    /\ Goto(t, "listen_call", "listen_store")
    /\ ListenAllowed(fd[t])
    /\ kernel' = [kernel EXCEPT ![fd[t]] = Listening(@)]
    /\ UNCHANGED <<objects, locks, local>>

ListenCallFails(t) ==
    /\ Goto(t, "listen_call", "return")
    /\ UnlockListen(t)
    /\ Result(t, "MSG1010")
    /\ UNCHANGED <<kernel, objects>>

ListenStore(t) ==
    /\ Goto(t, "listen_store", "return")
    /\ m_listen' = [m_listen EXCEPT ![this[t]] = TRUE]
    /\ UnlockListen(t)
    /\ Result(t, "ok")
    /\ UNCHANGED <<kernel, live, m_sfd, m_af, m_bound>>
-----------------------------------------------------------------------------
(* operator SOCKET&(): the program reads m_sfd and sets an option itself.  *)

SetOption(t, o) ==
    /\ MayCall(o)
    /\ Enter(t, o, None, "set_option")
    /\ Load(t, o)
    /\ UNCHANGED <<kernel, objects, locks>>

WithOption(s, so, v) ==
    IF so = "reuse" THEN [s EXCEPT !.reuse = v] ELSE [s EXCEPT !.v6only = v]

\* ::setsockopt() on the descriptor that was read.
Setsockopt(t) ==
    /\ Goto(t, "set_option", "return")
    /\ Open(fd[t])
    /\ \E so \in RawOptions, v \in BOOLEAN :
          /\ so = "v6only" => kernel[fd[t]].af = "AF_INET6"
          /\ kernel' = [kernel EXCEPT ![fd[t]] = WithOption(@, so, v)]
    /\ Result(t, "ok")
    /\ UNCHANGED <<objects, locks>>

SetsockoptFails(t) ==
    /\ Goto(t, "set_option", "return")
    /\ Result(t, "SOCKET_ERROR")
    /\ UNCHANGED <<kernel, objects, locks>>
-----------------------------------------------------------------------------
(* Getters: each checks for INVALID_SOCKET first and takes the mutex then. *)

Check(t, o, to, msg) ==
    /\ MayCall(o)
    /\ \/ m_sfd[o] = INVALID_SOCKET /\ Enter(t, o, None, "return") /\ Result(t, msg)
       \/ m_sfd[o] # INVALID_SOCKET /\ Enter(t, o, None, to) /\ UNCHANGED local
    /\ UNCHANGED <<kernel, objects, locks>>

Bool(b) == IF b THEN "true" ELSE "false"

\* Mutant: is_bind() reads the flag without taking the mutex.
IsBindReadUnlocked(t) ==
    /\ Goto(t, "is_bind", "return")
    /\ Result(t, Bool(m_bound[this[t]]))
    /\ UNCHANGED <<kernel, objects, locks>>

IsBind(t, o) == Check(t, o, "is_bind", "MSG1015")
IsBindRead(t) ==
    /\ Goto(t, "is_bind", "return")
    /\ m_bound_mutex[this[t]] = None
    /\ Result(t, Bool(m_bound[this[t]]))
    /\ UNCHANGED <<kernel, objects, locks>>

IsListen(t, o) == Check(t, o, "is_listen", "MSG1016")
IsListenRead(t) ==
    /\ Goto(t, "is_listen", "return")
    /\ m_listen_mutex[this[t]] = None
    /\ Result(t, Bool(m_listen[this[t]]))
    /\ UNCHANGED <<kernel, objects, locks>>

\* get_port() asks is_bind(), which checks for INVALID_SOCKET again, and then
\* the system for the name of the socket.
GetPort(t, o) == Check(t, o, "port_is_bind", "MSG1011")
GetPortIsBind(t) ==
    /\ pc[t] = "port_is_bind"
    /\ \/ /\ m_sfd[this[t]] = INVALID_SOCKET
          /\ Goto(t, "port_is_bind", "return") /\ Result(t, "MSG1015")
       \/ /\ m_sfd[this[t]] # INVALID_SOCKET
          /\ Goto(t, "port_is_bind", "port_read") /\ UNCHANGED local
    /\ UNCHANGED <<kernel, objects, locks>>
\* Mutant: get_port() does not ask whether the socket is bound.
GetPortReadNot(t) ==
    /\ Goto(t, "port_read", "port_name")
    /\ UNCHANGED <<kernel, objects, locks, local>>
GetPortRead(t) ==
    /\ pc[t] = "port_read"
    /\ m_bound_mutex[this[t]] = None
    /\ \/ /\ m_bound[this[t]]
          /\ Goto(t, "port_read", "port_name") /\ UNCHANGED local
       \/ /\ ~m_bound[this[t]]
          /\ Goto(t, "port_read", "return") /\ Result(t, "MSG1012")
    /\ UNCHANGED <<kernel, objects, locks>>
GetPortName(t) ==
    /\ Goto(t, "port_name", "port_call")
    /\ Load(t, this[t])
    /\ UNCHANGED <<kernel, objects, locks>>
Getsockname(t) ==
    /\ Goto(t, "port_call", "return")
    /\ Result(t, IF Open(fd[t]) THEN kernel[fd[t]].addr ELSE "MSG1013")
    /\ UNCHANGED <<kernel, objects, locks>>

\* getsockopt_int() reads m_sfd and asks the system, which refuses a socket
\* that is not there.
getsockopt_int(t, from, so_option) ==
    /\ Goto(t, from, "return")
    /\ Result(t, IF Open(fd[t]) THEN so_option ELSE "MSG1017")
    /\ UNCHANGED <<kernel, objects, locks>>

\* get_sockerr() and is_reuse_addr() leave the check to it.
Unchecked(t, o, to) ==
    /\ MayCall(o)
    /\ Enter(t, o, None, to)
    /\ Load(t, o)
    /\ UNCHANGED <<kernel, objects, locks>>

GetSockerr(t, o) == Unchecked(t, o, "sockerr")
IsReuseAddr(t, o) == Unchecked(t, o, "reuse_addr")
SockerrOption(t) == getsockopt_int(t, "sockerr", "errno")
ReuseOption(t) == getsockopt_int(t, "reuse_addr", Bool(kernel[fd[t]].reuse))

\* is_v6only() asks the system about IPv6 sockets only.
IsV6only(t, o) == Check(t, o, "v6only_af", "MSG1014")
V6onlyFamily(t) ==
    /\ pc[t] = "v6only_af"
    /\ \/ /\ m_af[this[t]] = "AF_INET6"
          /\ Goto(t, "v6only_af", "v6only") /\ UNCHANGED local
       \/ /\ m_af[this[t]] # "AF_INET6"
          /\ Goto(t, "v6only_af", "return") /\ Result(t, "false")
    /\ UNCHANGED <<kernel, objects, locks>>
V6onlySfd(t) ==
    /\ Goto(t, "v6only", "v6only_call")
    /\ Load(t, this[t])
    /\ UNCHANGED <<kernel, objects, locks>>
V6onlyOption(t) == getsockopt_int(t, "v6only_call", Bool(kernel[fd[t]].v6only))
-----------------------------------------------------------------------------
Addrinfos == [af : {k[1] : k \in Kinds}, type : {k[2] : k \in Kinds}, port : Ports]

Construct(t) ==
    \E o \in Vars : Empty(t, o) \/ CtorSocket(t, o) \/ CtorSocketFails(t, o) \/ Dtor(t, o)

Constructing(t) == CtorReuse(t) \/ CtorV6only(t) \/ CtorOptionFails(t)

Moving(t) ==
    \/ \E o, p \in Vars : Move(t, o, p) \/ Assign(t, o, p)
    \/ MoveSfd(t) \/ MoveFlags(t) \/ AssignSfd(t) \/ AssignFlags(t)
    \/ SwapSfd(t) \/ SwapAf(t) \/ SwapFlags(t) \/ DropParam(t)

Setting(t) ==
    \/ \E o \in Vars : \/ \E ai \in Addrinfos : Bind(t, o, ai)
                     \/ Listen(t, o) \/ SetOption(t, o)
    \/ BindType(t) \/ BindLock(t) \/ BindCall(t) \/ BindCallFails(t) \/ BindStore(t)
    \/ ListenLock(t) \/ ListenCall(t) \/ ListenCallFails(t) \/ ListenStore(t)
    \/ Setsockopt(t) \/ SetsockoptFails(t)

Getting(t) ==
    \/ \E o \in Vars : \/ IsBind(t, o) \/ IsListen(t, o) \/ GetPort(t, o)
                     \/ GetSockerr(t, o) \/ IsReuseAddr(t, o) \/ IsV6only(t, o)
    \/ IsBindRead(t) \/ IsListenRead(t)
    \/ GetPortIsBind(t) \/ GetPortRead(t) \/ GetPortName(t) \/ Getsockname(t)
    \/ SockerrOption(t) \/ ReuseOption(t)
    \/ V6onlyFamily(t) \/ V6onlySfd(t) \/ V6onlyOption(t)

Next ==
    \E t \in Threads :
        \/ Construct(t) \/ Constructing(t) \/ Moving(t)
        \/ Setting(t) \/ Getting(t) \/ Return(t)

Spec == Init /\ [][Next]_vars
-----------------------------------------------------------------------------
(* Properties. *)

Pcs == Changing \cup {"idle", "return", "bind_type", "bind_lock", "bind_call",
    "bind_store", "listen_lock", "listen_call", "listen_store", "set_option",
    "is_bind", "is_listen", "port_is_bind", "port_read", "port_name", "port_call",
    "sockerr", "reuse_addr", "v6only_af", "v6only", "v6only_call"}
Messages == {"ok", "true", "false", "errno", "SOCKET_ERROR", "MSG1002", "MSG1003",
    "MSG1005", "MSG1007", "MSG1008", "MSG1009", "MSG1010", "MSG1011", "MSG1012",
    "MSG1013", "MSG1014", "MSG1015", "MSG1016", "MSG1017"}

\* Every variable has its type.
TypeOK ==
    /\ kernel \in [Fds -> Socket \cup {None}]
    /\ live \subseteq Slots
    /\ m_sfd \in [Slots -> Fds \cup {INVALID_SOCKET}]
    /\ m_af \in [Slots -> Domains \cup {None}]
    /\ m_bound \in [Slots -> BOOLEAN] /\ m_listen \in [Slots -> BOOLEAN]
    /\ m_bound_mutex \in [Slots -> Threads \cup {None}]
    /\ m_listen_mutex \in [Slots -> Threads \cup {None}]
    /\ pc \in [Threads -> Pcs]
    /\ this \in [Threads -> Vars \cup {None}]
    /\ that \in [Threads -> Vars \cup {None}]
    /\ sfd \in [Threads -> Fds \cup {INVALID_SOCKET}]
    /\ fd \in [Threads -> Fds \cup {INVALID_SOCKET}]
    /\ port \in [Threads -> Addrinfos \cup {None}]
    /\ ret \in [Threads -> Messages \cup Ports \cup {Unbound, Ephemeral, None}]

\* Who holds descriptor f: objects, and constructors that have not stored it.
Holders(f) == {<<"object", o>> : o \in {x \in Slots : m_sfd[x] = f}} \cup
              {<<"constructor", t>> : t \in {x \in Threads : sfd[x] = f}}

\* An open descriptor has exactly one holder and a closed one has none: moves,
\* assignments, failing constructors and destructors by any threads neither
\* lose a descriptor, nor keep one that is closed, nor close it twice
\* (socket.cpp:69, 95, 102, 111, 125, 139).
SoleOwner ==
    /\ \A f \in Fds : Open(f) => \E h \in Holders(f) : Holders(f) = {h}
    /\ \A f \in Fds : ~Open(f) => Holders(f) = {}
    /\ \A o \in Slots \ live : \/ m_sfd[o] = INVALID_SOCKET
                               \/ BeingChanged(o)
                               \/ o \in Threads /\ pc[o] \in Changing

Settled(o) == o \in live /\ ~BeingChanged(o)

\* The flags are a cache of what the system knows (socket.hpp:87): whenever
\* their mutex is free they say whether bind() named the socket and whether it
\* listens, and an object without a socket, empty or moved from, has no flag
\* set, whatever calls of other threads are under way.
CacheAgrees ==
    \A o \in live \cap Vars : Settled(o) =>
        /\ m_bound_mutex[o] = None =>
              (m_bound[o] <=> Open(m_sfd[o]) /\ kernel[m_sfd[o]].addr \in Ports)
        /\ m_listen_mutex[o] = None =>
              (m_listen[o] <=> Open(m_sfd[o]) /\ kernel[m_sfd[o]].lis)

\* The family is a cache too: an object remembers the one of the socket it
\* holds, and none without a socket, through moves and assignments that carry
\* the two along one after the other.  is_v6only() decides by it whether it may
\* ask for an option that only an IPv6 socket has (socket.cpp:109-112, 125-126,
\* 242-245).
FamilyAgrees ==
    \A o \in live \cap Vars : Settled(o) =>
        m_af[o] = IF Open(m_sfd[o]) THEN kernel[m_sfd[o]].af ELSE None

\* A mutex is held exactly by the call that is between its system call and the
\* return, so an exception cannot leave it locked (socket.cpp:183-189, 197-204).
MutexHeldByCall ==
    \A o \in Slots, t \in Threads :
        /\ m_bound_mutex[o] = t <=> this[t] = o /\ pc[t] \in {"bind_call", "bind_store"}
        /\ m_listen_mutex[o] = t <=> this[t] = o /\ pc[t] \in {"listen_call", "listen_store"}

\* The invariants that make ownership inductive.  A call in progress knows its
\* object and, where a later step uses them, its other arguments;
ArgumentsKnown ==
    \A t \in Threads :
        /\ pc[t] = "idle" <=> this[t] = None
        /\ pc[t] = "idle" => that[t] = None
        /\ pc[t] \in {"move_sfd", "move_flags", "assign_sfd", "assign_flags"}
               => that[t] \in Vars
        /\ pc[t] \in {"bind_type", "bind_lock", "bind_call", "bind_store"}
               => port[t] \in Addrinfos

\* an object under construction belongs to its constructor alone, and every
\* other call works on an object that lives until it returns;
Constructors == {"ctor_reuse", "ctor_v6only", "move_sfd", "move_flags"}
LifetimeRespected ==
    \A t \in Threads :
        /\ pc[t] \in Constructors =>
              /\ this[t] \notin live \cup {that[t]}
              /\ \A s \in Threads \ {t} : this[t] \notin {this[s], that[s]}
        /\ pc[t] \notin Constructors \cup {"idle", "return"} => this[t] \in live

\* a descriptor is outside of a living object only while it moves or is made;
NoStrayDescriptor ==
    /\ \A o \in Vars \ live : m_sfd[o] # INVALID_SOCKET
           => \E t \in Threads : pc[t] = "move_flags" /\ this[t] = o
    /\ \A t \in Threads : m_sfd[t] # INVALID_SOCKET
           => pc[t] \in {"assign_flags", "swap_sfd", "swap_af", "swap_flags", "drop_param"}
    /\ \A t \in Threads : sfd[t] # INVALID_SOCKET
           <=> pc[t] \in {"ctor_reuse", "ctor_v6only"}

\* no two hold the same descriptor, held ones are open and open ones are held.
DescriptorsOwned ==
    /\ \A o, p \in Slots : m_sfd[o] = m_sfd[p] /\ m_sfd[o] # INVALID_SOCKET => o = p
    /\ \A s, t \in Threads : sfd[s] = sfd[t] /\ sfd[s] # INVALID_SOCKET => s = t
    /\ \A o \in Slots, t \in Threads : m_sfd[o] = sfd[t] => m_sfd[o] = INVALID_SOCKET
    /\ \A o \in Slots : m_sfd[o] # INVALID_SOCKET => Open(m_sfd[o])
    /\ \A t \in Threads : sfd[t] # INVALID_SOCKET => Open(sfd[t])
    /\ \A f \in Fds : Open(f) => \/ \E o \in Slots : m_sfd[o] = f
                                 \/ \E t \in Threads : sfd[t] = f

\* Ownership and locking at every step of every call (socket.cpp:48-205).
SocketInv ==
    /\ TypeOK /\ ArgumentsKnown /\ MutexHeldByCall
    /\ LifetimeRespected /\ NoStrayDescriptor /\ DescriptorsOwned

Answers(t, from) == pc[t] = from /\ pc'[t] = "return"

\* What a getter answers is so at that moment, while other threads are inside
\* bind(), listen() or a ::setsockopt() of the same object: is_bind() answers
\* true for a socket that has the address of a bind(), and false for one that
\* has none or one that listen() gave it; is_listen() and is_v6only() answer
\* what the system has noted, also where is_v6only() does not ask, and
\* is_reuse_addr() fails without a socket only (socket.cpp:232-270).
GettersTellTheTruth ==
    [][\A t \in Threads :
        LET s == kernel[m_sfd[this[t]]]
        IN  /\ Answers(t, "is_bind") =>
                   IF ret'[t] = "true" THEN s.addr \in Ports
                   ELSE s.addr = Unbound \/ (s.addr = Ephemeral /\ s.lis)
            /\ Answers(t, "is_listen") => (ret'[t] = "true" <=> s.lis)
            /\ Answers(t, "v6only_af") => ~s.v6only
            /\ Answers(t, "v6only_call") => ret'[t] = Bool(s.v6only)
            /\ Answers(t, "reuse_addr") =>
                   ret'[t] = IF m_sfd[this[t]] = INVALID_SOCKET THEN "MSG1017"
                             ELSE Bool(s.reuse)]_vars

\* get_port() checks, asks is_bind(), which locks and unlocks, and then asks
\* the system: when it returns at all, it returns the port given to bind()
\* (socket.cpp:210-224).
GetPortNamesBind ==
    [][\A t \in Threads : Answers(t, "port_call") => ret'[t] \in Ports]_vars

\* What MSG1012 says (socket.cpp:217): the socket is "not bound to an address".
MSG1012MeansUnbound ==
    [][\A t \in Threads :
        Answers(t, "port_read") /\ ret'[t] = "MSG1012"
            => kernel[m_sfd[this[t]]].addr = Unbound]_vars

Held == [o \in Slots |-> IF m_sfd[o] = INVALID_SOCKET THEN None ELSE kernel[m_sfd[o]]]
Making == [t \in Threads |-> IF sfd[t] = INVALID_SOCKET THEN None ELSE kernel[sfd[t]]]

\* The object whose bind(), listen() or raw descriptor a thread is busy with.
Setters == {"bind_type", "bind_lock", "bind_call", "bind_store",
            "listen_lock", "listen_call", "listen_store", "set_option"}
Busy == [t \in Threads |-> IF pc[t] \in Setters THEN this[t] ELSE None]
Value == INSTANCE SocketValue WITH held <- Held, making <- Making, setting <- Busy

\* For objects that are not moved while others use them it is as if each object
\* were its socket: no call ever reaches the socket of another object through a
\* descriptor that it has read, that was closed and given out again, and an
\* object comes into being complete or not at all (socket.cpp:48-205).
ImplementsSocketValue == Value!ValueSpec
=============================================================================
