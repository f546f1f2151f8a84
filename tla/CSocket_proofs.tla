--------------------------- MODULE CSocket_proofs ---------------------------
(***************************************************************************)
(* Proofs about CSocket for every number of objects, threads, descriptors  *)
(* and ports, and for objects that are moved while others use them as well *)
(* as for those that are not.                                              *)
(*                                                                         *)
(* SocketInv is shown to be inductive, one conjunct at a time; that every  *)
(* descriptor has exactly one owner follows.                               *)
(***************************************************************************)
EXTENDS CSocket, TLAPS

\* The object slots, the threads and the values that stand for nothing differ.
LEMMA Distinct ==
    /\ Vars \cap Threads = {} /\ None \notin Vars /\ None \notin Threads
    /\ None \notin Socket /\ None \notin Domains
    /\ INVALID_SOCKET \notin Fds /\ Slots = Vars \cup Threads
  BY CSocketAssumption, NoneAssumption DEF INVALID_SOCKET, Slots
-----------------------------------------------------------------------------
(* Types. *)

\* The types a step needs to know of the state it starts from.
LEMMA StateTypes ==
    ASSUME TypeOK
    PROVE  /\ kernel \in [Fds -> Socket \cup {None}] /\ live \subseteq Slots
           /\ m_sfd \in [Slots -> Fds \cup {INVALID_SOCKET}]
           /\ m_af \in [Slots -> Domains \cup {None}]
           /\ m_bound \in [Slots -> BOOLEAN] /\ m_listen \in [Slots -> BOOLEAN]
           /\ m_bound_mutex \in [Slots -> Threads \cup {None}]
           /\ m_listen_mutex \in [Slots -> Threads \cup {None}]
           /\ pc \in [Threads -> Pcs]
           /\ this \in [Threads -> Vars \cup {None}]
           /\ that \in [Threads -> Vars \cup {None}]
           /\ sfd \in [Threads -> Fds \cup {INVALID_SOCKET}]
           /\ fd \in [Threads -> Fds \cup {INVALID_SOCKET}]
           /\ port \in [Threads -> Addrinfos \cup {None}]
  BY DEF TypeOK

\* Closing a descriptor, or changing a field of its socket, keeps the table.
LEMMA KernelUpdates ==
    ASSUME kernel \in [Fds -> Socket \cup {None}],
           NEW f \in Fds \cup {INVALID_SOCKET}
    PROVE  /\ Closed(f) \in [Fds -> Socket \cup {None}]
           /\ Open(f) => kernel[f] \in Socket
           /\ \A s \in Socket : Open(f) => [kernel EXCEPT ![f] = s] \in [Fds -> Socket \cup {None}]
  BY Distinct DEF Closed, Open

\* A socket stays one when its options, its address or its listening change.
LEMMA SocketUpdates ==
    ASSUME NEW s \in Socket
    PROVE  /\ s.af \in Domains /\ s.addr \in Ports \cup {Unbound, Ephemeral}
           /\ [s EXCEPT !.reuse = FALSE] \in Socket
           /\ [s EXCEPT !.v6only = FALSE] \in Socket
           /\ \A p \in Ports : [s EXCEPT !.addr = p] \in Socket
           /\ Listening(s) \in Socket
           /\ \A so \in {"reuse", "v6only"}, v \in BOOLEAN : WithOption(s, so, v) \in Socket
  BY DEF Socket, Listening, WithOption

\* A function keeps its type when it is changed at two places.
LEMMA TwoUpdates ==
    ASSUME NEW S, NEW T, NEW f \in [S -> T], NEW a \in S, NEW b \in S,
           NEW x \in T, NEW y \in T
    PROVE  [f EXCEPT ![a] = x, ![b] = y] \in [S -> T]
  OBVIOUS

\* A call in progress has its arguments, and each slot is one.
LEMMA Arguments ==
    ASSUME TypeOK, ArgumentsKnown, NoStrayDescriptor, NEW t \in Threads
    PROVE  /\ pc[t] # "idle" => this[t] \in Vars /\ this[t] \in Slots
           /\ t \in Slots /\ Vars \subseteq Slots
           /\ pc[t] \in {"move_sfd", "move_flags", "assign_sfd", "assign_flags"}
                  => that[t] \in Vars
           /\ pc[t] \in {"bind_type", "bind_lock", "bind_call", "bind_store"}
                  => port[t] \in Addrinfos
           /\ pc[t] \in {"ctor_reuse", "ctor_v6only"} => sfd[t] \in Fds
  BY StateTypes, Distinct DEF ArgumentsKnown, NoStrayDescriptor

\* Every step keeps every variable in its type.
LEMMA TypeStep ==
    ASSUME SocketInv, Next PROVE TypeOK'
  <1>a. TypeOK /\ ArgumentsKnown /\ NoStrayDescriptor /\ DescriptorsOwned
    BY DEF SocketInv
  <1>. SUFFICES ASSUME NEW t \in Threads,
                       \/ Construct(t) \/ Constructing(t) \/ Moving(t)
                       \/ Setting(t) \/ Getting(t) \/ Return(t)
                PROVE  TypeOK'
    BY DEF Next
  <1>. USE <1>a, Distinct, StateTypes, Arguments
           DEF TypeOK, Pcs, Changing, Messages, objects, locks, call, local
  <1>1. CASE Return(t)
    BY <1>1 DEF Return
  <1>2. CASE \E o \in Vars : Empty(t, o) \/ CtorSocketFails(t, o)
    BY <1>2, SMTT(30) DEF Empty, CtorSocketFails, MayConstruct, Enter, Result
  <1>3. ASSUME NEW o \in Vars, CtorSocket(t, o) PROVE TypeOK'
    <2>1. kernel' \in [Fds -> Socket \cup {None}] /\ sfd' \in [Threads -> Fds \cup {INVALID_SOCKET}]
      <3>1. PICK k \in Kinds, f \in Fds, r \in BOOLEAN, v \in BOOLEAN :
              /\ kernel' = [kernel EXCEPT ![f] =
                    [af |-> k[1], type |-> k[2], addr |-> Unbound, lis |-> FALSE,
                     reuse |-> r, v6only |-> v]]
              /\ sfd' = [sfd EXCEPT ![t] = f]
        BY <1>3 DEF CtorSocket
      <3>2. k[1] \in Domains /\ k[2] \in Types
        BY CSocketAssumption
      <3>3. [af |-> k[1], type |-> k[2], addr |-> Unbound, lis |-> FALSE,
             reuse |-> r, v6only |-> v] \in Socket
        BY <3>2 DEF Socket
      <3>. QED BY <3>1, <3>3
    <2>. QED BY <1>3, <2>1 DEF CtorSocket, MayConstruct, Enter
  <1>4. ASSUME NEW o \in Vars, Dtor(t, o) PROVE TypeOK'
    BY <1>4, KernelUpdates DEF Dtor, MayDestruct, Destruct, Enter, Result
  <1>5. CASE CtorReuse(t)
    <2>1. kernel' = [kernel EXCEPT ![sfd[t]] = [kernel[sfd[t]] EXCEPT !.reuse = FALSE]]
          /\ sfd[t] \in Fds /\ Open(sfd[t]) /\ this[t] \in Slots
      BY <1>5 DEF CtorReuse, DescriptorsOwned
    <2>2. kernel[sfd[t]] \in Socket
      BY <2>1, KernelUpdates
    <2>3. kernel' \in [Fds -> Socket \cup {None}] /\ kernel[sfd[t]].af \in Domains
      BY <2>1, <2>2, KernelUpdates, SocketUpdates
    <2>4. CASE Goto(t, "ctor_reuse", "ctor_v6only")
      BY <1>5, <2>3, <2>4 DEF CtorReuse, Goto
    <2>5. CASE Goto(t, "ctor_reuse", "return")
      <3>1. /\ live' = live \cup {this[t]} /\ m_sfd' = [m_sfd EXCEPT ![this[t]] = sfd[t]]
            /\ m_af' = [m_af EXCEPT ![this[t]] = kernel[sfd[t]].af]
            /\ sfd' = [sfd EXCEPT ![t] = INVALID_SOCKET]
            /\ ret' = [ret EXCEPT ![t] = "ok"]
            /\ UNCHANGED <<m_bound, m_listen, locks, fd, port>>
        BY <1>5, <2>5 DEF CtorReuse, Goto
      <3>. QED BY <2>1, <2>3, <2>5, <3>1 DEF Goto
    <2>. QED BY <1>5, <2>4, <2>5 DEF CtorReuse
  <1>6. CASE CtorV6only(t)
    <2>1. pc[t] = "ctor_v6only" /\ kernel' = [kernel EXCEPT ![sfd[t]] = [kernel[sfd[t]] EXCEPT !.v6only = FALSE]]
      BY <1>6 DEF CtorV6only, Goto
    <2>2. sfd[t] \in Fds /\ Open(sfd[t]) /\ this[t] \in Slots
      BY <2>1 DEF DescriptorsOwned
    <2>3. kernel[sfd[t]] \in Socket
      BY <2>2, KernelUpdates
    <2>4. kernel' \in [Fds -> Socket \cup {None}] /\ kernel[sfd[t]].af \in Domains
      BY <2>1, <2>2, <2>3, KernelUpdates, SocketUpdates
    <2>. QED BY <1>6, <2>2, <2>4 DEF CtorV6only, Goto
  <1>7. CASE CtorOptionFails(t)
    <2>1. kernel' \in [Fds -> Socket \cup {None}]
      BY <1>7, KernelUpdates DEF CtorOptionFails
    <2>2. pc' \in [Threads -> Pcs] /\ UNCHANGED <<this, that>>
      BY <1>7 DEF CtorOptionFails, Goto
    <2>3. /\ sfd' = [sfd EXCEPT ![t] = INVALID_SOCKET]
          /\ UNCHANGED <<objects, locks, fd, port>>
          /\ \E r \in Messages : ret' = [ret EXCEPT ![t] = r]
      BY <1>7 DEF CtorOptionFails
    <2>. QED BY <2>1, <2>2, <2>3
  <1>8. ASSUME NEW o \in Vars, NEW p \in Vars, Move(t, o, p) \/ Assign(t, o, p)
        PROVE  TypeOK'
    <2>1. PICK q \in Slots : TakeAf(q, p)
      BY <1>8 DEF Move, Assign
    <2>2. m_af' \in [Slots -> Domains \cup {None}]
      BY <2>1, TwoUpdates DEF TakeAf
    <2>3. CASE Move(t, o, p)
      BY <2>3, <2>2 DEF Move, Enter
    <2>4. CASE Assign(t, o, p)
      BY <2>4, <2>2 DEF Assign, Enter
    <2>. QED BY <1>8, <2>3, <2>4
  <1>22. CASE MoveSfd(t) \/ AssignSfd(t)
    <2>1. PICK q \in Slots : TakeSfd(q, that[t]) /\ that[t] \in Slots
      BY <1>22 DEF MoveSfd, AssignSfd, Goto
    <2>2. m_sfd' \in [Slots -> Fds \cup {INVALID_SOCKET}]
      <3>1. m_sfd' = [m_sfd EXCEPT ![q] = m_sfd[that[t]], ![that[t]] = INVALID_SOCKET]
        BY <2>1 DEF TakeSfd
      <3>2. m_sfd[that[t]] \in Fds \cup {INVALID_SOCKET}
        BY <2>1
      <3>. QED BY <2>1, <3>1, <3>2, TwoUpdates
    <2>3. CASE MoveSfd(t)
      BY <2>3, <2>2 DEF MoveSfd, Goto
    <2>4. CASE AssignSfd(t)
      BY <2>4, <2>2 DEF AssignSfd, Goto
    <2>. QED BY <1>22, <2>3, <2>4
  <1>9. CASE MoveFlags(t) \/ AssignFlags(t)
    <2>1. PICK q \in Slots : TakeFlags(q, that[t]) /\ that[t] \in Slots
      BY <1>9 DEF MoveFlags, AssignFlags, Goto
    <2>2. /\ m_bound' \in [Slots -> BOOLEAN] /\ m_listen' \in [Slots -> BOOLEAN]
          /\ live' \subseteq Slots
      <3>1. m_bound[that[t]] \in BOOLEAN /\ m_listen[that[t]] \in BOOLEAN /\ FALSE \in BOOLEAN
        BY <2>1
      <3>2. /\ m_bound' = [m_bound EXCEPT ![q] = m_bound[that[t]], ![that[t]] = FALSE]
            /\ m_listen' = [m_listen EXCEPT ![q] = m_listen[that[t]], ![that[t]] = FALSE]
            /\ live' = live \cup {q}
        BY <2>1 DEF TakeFlags
      <3>3. live' \subseteq Slots
        BY <2>1, <3>2
      <3>4. m_bound' \in [Slots -> BOOLEAN]
        BY <2>1, <3>1, <3>2, TwoUpdates, Zenon
      <3>5. m_listen' \in [Slots -> BOOLEAN]
        BY <2>1, <3>1, <3>2, TwoUpdates, Zenon
      <3>. QED BY <3>3, <3>4, <3>5
    <2>3. CASE MoveFlags(t)
      BY <2>3, <2>2 DEF MoveFlags, Goto, Result
    <2>4. CASE AssignFlags(t)
      BY <2>4, <2>2 DEF AssignFlags
    <2>. QED BY <1>9, <2>3, <2>4
  <1>10. CASE SwapSfd(t)
    <2>1. this[t] \in Slots
      BY <1>10 DEF SwapSfd, Goto
    <2>2. m_sfd[t] \in Fds \cup {INVALID_SOCKET} /\ m_sfd[this[t]] \in Fds \cup {INVALID_SOCKET}
      BY <2>1
    <2>3. m_sfd' = [m_sfd EXCEPT ![this[t]] = m_sfd[t], ![t] = m_sfd[this[t]]]
      BY <1>10 DEF SwapSfd
    <2>4. m_sfd' \in [Slots -> Fds \cup {INVALID_SOCKET}]
      BY <2>1, <2>2, <2>3, TwoUpdates
    <2>. QED BY <1>10, <2>4 DEF SwapSfd, Goto
  <1>23. CASE SwapAf(t)
    <2>1. this[t] \in Slots
      BY <1>23 DEF SwapAf, Goto
    <2>2. m_af[t] \in Domains \cup {None} /\ m_af[this[t]] \in Domains \cup {None}
      BY <2>1
    <2>3. m_af' = [m_af EXCEPT ![this[t]] = m_af[t], ![t] = m_af[this[t]]]
      BY <1>23 DEF SwapAf
    <2>4. m_af' \in [Slots -> Domains \cup {None}]
      BY <2>1, <2>2, <2>3, TwoUpdates
    <2>. QED BY <1>23, <2>4 DEF SwapAf, Goto
  <1>11. CASE SwapFlags(t)
    BY <1>11 DEF SwapFlags, Goto
  <1>12. CASE DropParam(t)
    BY <1>12, KernelUpdates DEF DropParam, Destruct, Goto, Result
  <1>13. ASSUME NEW o \in Vars, NEW ai \in Addrinfos, Bind(t, o, ai) PROVE TypeOK'
    BY <1>13, SMTT(30) DEF Bind, Enter
  <1>14. CASE BindType(t) \/ BindLock(t) \/ BindCallFails(t) \/ BindStore(t)
    <2>1. CASE BindLock(t)
      BY <2>1 DEF BindLock, Load, Goto
    <2>2. CASE BindCallFails(t)
      BY <2>2 DEF BindCallFails, UnlockBound, BindEnds, Goto
    <2>3. CASE BindStore(t)
      BY <2>3 DEF BindStore, UnlockBound, BindEnds, Goto
    <2>4. CASE BindType(t)
      BY <2>4 DEF BindType, BindEnds, Goto
    <2>. QED BY <1>14, <2>1, <2>2, <2>3, <2>4
  <1>15. CASE BindCall(t)
    <2>1. /\ pc[t] = "bind_call" /\ Open(fd[t])
          /\ kernel' = [kernel EXCEPT ![fd[t]] = [kernel[fd[t]] EXCEPT !.addr = port[t].port]]
      BY <1>15 DEF BindCall, BindAllowed, Goto
    <2>2. port[t].port \in Ports
      BY <2>1 DEF Addrinfos
    <2>4. kernel' \in [Fds -> Socket \cup {None}]
      BY <2>1, <2>2, KernelUpdates, SocketUpdates
    <2>. QED BY <1>15, <2>4 DEF BindCall, Goto
  <1>16. CASE ListenLock(t) \/ ListenCallFails(t) \/ ListenStore(t)
    <2>1. CASE ListenLock(t)
      BY <2>1 DEF ListenLock, Load, Goto
    <2>2. CASE ListenCallFails(t)
      BY <2>2 DEF ListenCallFails, UnlockListen, Goto, Result
    <2>3. CASE ListenStore(t)
      BY <2>3 DEF ListenStore, UnlockListen, Goto, Result
    <2>. QED BY <1>16, <2>1, <2>2, <2>3
  <1>17. CASE ListenCall(t)
    <2>1. /\ pc[t] = "listen_call" /\ Open(fd[t])
          /\ kernel' = [kernel EXCEPT ![fd[t]] = Listening(kernel[fd[t]])]
      BY <1>17 DEF ListenCall, ListenAllowed, Goto
    <2>3. kernel' \in [Fds -> Socket \cup {None}]
      BY <2>1, KernelUpdates, SocketUpdates
    <2>. QED BY <1>17, <2>3 DEF ListenCall, Goto
  <1>24. CASE Setsockopt(t)
    <2>1. PICK so \in {"reuse", "v6only"}, v \in BOOLEAN :
            kernel' = [kernel EXCEPT ![fd[t]] = WithOption(kernel[fd[t]], so, v)]
      BY <1>24, CSocketAssumption DEF Setsockopt
    <2>2. Open(fd[t])
      BY <1>24 DEF Setsockopt
    <2>3. kernel' \in [Fds -> Socket \cup {None}]
      BY <2>1, <2>2, KernelUpdates, SocketUpdates
    <2>. QED BY <1>24, <2>3 DEF Setsockopt, Goto, Result
  <1>25. CASE SetsockoptFails(t)
    BY <1>25 DEF SetsockoptFails, Goto, Result
  <1>18. ASSUME NEW o \in Vars, \/ Listen(t, o) \/ IsBind(t, o) \/ IsListen(t, o)
                               \/ GetPort(t, o) \/ IsV6only(t, o)
         PROVE  TypeOK'
    BY <1>18, SMTT(30) DEF Listen, IsBind, IsListen, GetPort, IsV6only, Check, Enter, Result
  <1>26. ASSUME NEW o \in Vars, SetOption(t, o) \/ GetSockerr(t, o) \/ IsReuseAddr(t, o)
         PROVE  TypeOK'
    BY <1>26, SMTT(30) DEF SetOption, GetSockerr, IsReuseAddr, Unchecked, Load, Enter
  <1>19. CASE IsBindRead(t) \/ IsListenRead(t) \/ GetPortIsBind(t) \/ GetPortRead(t)
    BY <1>19 DEF IsBindRead, IsListenRead, GetPortIsBind, GetPortRead, Goto, Result, Bool
  <1>20. CASE Getsockname(t)
    <2>1. pc[t] = "port_call" /\ fd[t] \in Fds \cup {INVALID_SOCKET}
      BY <1>20 DEF Getsockname, Goto
    <2>2. Open(fd[t]) => kernel[fd[t]].addr \in Ports \cup {Unbound, Ephemeral}
      BY <2>1, KernelUpdates, SocketUpdates
    <2>. QED BY <1>20, <2>2 DEF Getsockname, Goto, Result
  <1>27. CASE GetPortName(t) \/ V6onlySfd(t)
    BY <1>27 DEF GetPortName, V6onlySfd, Load, Goto
  <1>21. CASE SockerrOption(t) \/ ReuseOption(t) \/ V6onlyFamily(t) \/ V6onlyOption(t)
    BY <1>21 DEF SockerrOption, ReuseOption, V6onlyFamily, V6onlyOption,
                 getsockopt_int, Bool, Goto, Result
  <1>. QED BY <1>1, <1>2, <1>3, <1>4, <1>5, <1>6, <1>7, <1>8, <1>9, <1>10, <1>11,
              <1>12, <1>13, <1>14, <1>15, <1>16, <1>17, <1>18, <1>19, <1>20, <1>21,
              <1>22, <1>23, <1>24, <1>25, <1>26, <1>27
           DEF Construct, Constructing, Moving, Setting, Getting
-----------------------------------------------------------------------------
(* Steps that leave objects and descriptors where they are. *)

Plain == Pcs \ (Changing \cup {"idle"})

\* bind(), listen(), the getters and the return from a call move no descriptor
\* and change no object's life; they enter on a living object.
LEMMA PlainStep ==
    ASSUME SocketInv, NEW t \in Threads, Setting(t) \/ Getting(t) \/ Return(t)
    PROVE  /\ UNCHANGED <<live, m_sfd, sfd>>
           /\ \A f : Open(f)' <=> Open(f)
           /\ \/ /\ pc[t] = "idle"
                 /\ \E to \in Plain : pc' = [pc EXCEPT ![t] = to]
                 /\ \E o \in live \cap Vars : this' = [this EXCEPT ![t] = o]
                 /\ that' = [that EXCEPT ![t] = None]
              \/ /\ pc[t] \in Plain
                 /\ \E to \in Plain : pc' = [pc EXCEPT ![t] = to]
                 /\ pc[t] # "return" /\ UNCHANGED <<this, that>>
              \/ /\ pc[t] = "return" /\ pc' = [pc EXCEPT ![t] = "idle"]
                 /\ this' = [this EXCEPT ![t] = None]
                 /\ that' = [that EXCEPT ![t] = None]
  <1>a. TypeOK /\ kernel \in [Fds -> Socket \cup {None}]
    BY StateTypes DEF SocketInv
  <1>. USE DEF Plain, Pcs, Changing, objects, locks, local
  <1>1. CASE Return(t)
    BY <1>1 DEF Return, Open
  <1>2. ASSUME NEW o \in Vars, NEW ai \in Addrinfos, Bind(t, o, ai)
        PROVE  /\ UNCHANGED <<kernel, live, m_sfd, sfd>> /\ pc[t] = "idle"
               /\ \E to \in Plain : pc' = [pc EXCEPT ![t] = to]
               /\ o \in live /\ this' = [this EXCEPT ![t] = o]
               /\ that' = [that EXCEPT ![t] = None]
    BY <1>2 DEF Bind, MayCall, Enter
  <1>3. ASSUME NEW o \in Vars,
               \/ Listen(t, o) \/ SetOption(t, o) \/ IsBind(t, o) \/ IsListen(t, o) \/ GetPort(t, o)
               \/ GetSockerr(t, o) \/ IsReuseAddr(t, o) \/ IsV6only(t, o)
        PROVE  /\ UNCHANGED <<kernel, live, m_sfd, sfd>> /\ pc[t] = "idle"
               /\ \E to \in Plain : pc' = [pc EXCEPT ![t] = to]
               /\ o \in live /\ this' = [this EXCEPT ![t] = o]
               /\ that' = [that EXCEPT ![t] = None]
    BY <1>3 DEF Listen, SetOption, IsBind, IsListen, GetPort, GetSockerr, IsReuseAddr,
                IsV6only, Unchecked, Check, MayCall, Load, Enter, Result
  <1>4. CASE BindCall(t)
    <2>1. /\ UNCHANGED <<live, m_sfd, sfd, this, that>> /\ pc[t] = "bind_call"
          /\ pc' = [pc EXCEPT ![t] = "bind_store"]
      BY <1>4 DEF BindCall, Goto
    <2>2. PICK g \in Fds : /\ Open(g)
                           /\ kernel' = [kernel EXCEPT ![g].addr = port[t].port]
      BY <1>4 DEF BindCall, BindAllowed, Open
    <2>3. [kernel[g] EXCEPT !.addr = port[t].port] # None
      <3>1. kernel[g] \in Socket /\ pc[t] = "bind_call"
        BY <1>a, <2>1, <2>2 DEF Open
      <3>2. port[t] \in Addrinfos
        BY <3>1 DEF SocketInv, ArgumentsKnown
      <3>. QED BY <3>1, <3>2, SocketUpdates, Distinct DEF Addrinfos
    <2>4. \A f : Open(f)' <=> Open(f)
      BY <1>a, <2>2, <2>3 DEF Open
    <2>. QED BY <2>1, <2>4
  <1>5. CASE ListenCall(t)
    <2>1. /\ UNCHANGED <<live, m_sfd, sfd, this, that>> /\ pc[t] = "listen_call"
          /\ pc' = [pc EXCEPT ![t] = "listen_store"]
      BY <1>5 DEF ListenCall, Goto
    <2>2. PICK g \in Fds : Open(g) /\ kernel' = [kernel EXCEPT ![g] = Listening(kernel[g])]
      BY <1>5 DEF ListenCall, ListenAllowed, Open
    <2>3. Listening(kernel[g]) # None
      BY <1>a, <2>2, SocketUpdates, Distinct DEF Open
    <2>4. \A f : Open(f)' <=> Open(f)
      BY <1>a, <2>2, <2>3 DEF Open
    <2>. QED BY <2>1, <2>4
  <1>9. CASE Setsockopt(t)
    <2>1. /\ UNCHANGED <<live, m_sfd, sfd, this, that>> /\ pc[t] = "set_option"
          /\ pc' = [pc EXCEPT ![t] = "return"]
      BY <1>9 DEF Setsockopt, Goto, Result
    <2>2. PICK g \in Fds, so \in {"reuse", "v6only"}, v \in BOOLEAN :
            Open(g) /\ kernel' = [kernel EXCEPT ![g] = WithOption(kernel[g], so, v)]
      BY <1>9, CSocketAssumption DEF Setsockopt, Open
    <2>3. WithOption(kernel[g], so, v) # None
      BY <1>a, <2>2, SocketUpdates, Distinct DEF Open
    <2>4. \A f : Open(f)' <=> Open(f)
      BY <1>a, <2>2, <2>3 DEF Open
    <2>. QED BY <2>1, <2>4
  <1>6. CASE \/ BindType(t) \/ BindLock(t) \/ BindCallFails(t) \/ BindStore(t)
             \/ ListenLock(t) \/ ListenCallFails(t) \/ ListenStore(t)
             \/ SetsockoptFails(t)
    <2>1. /\ UNCHANGED <<kernel, live, m_sfd, sfd, this, that>>
          /\ pc[t] \in Plain \ {"return"} /\ \E to \in Plain : pc' = [pc EXCEPT ![t] = to]
      <3>1. CASE BindType(t)
        BY <3>1 DEF BindType, BindEnds, Goto
      <3>2. CASE BindLock(t) \/ BindCallFails(t) \/ BindStore(t)
        BY <3>2 DEF BindLock, BindCallFails, BindStore, BindEnds, Load, Goto
      <3>3. CASE ListenLock(t) \/ ListenCallFails(t) \/ ListenStore(t) \/ SetsockoptFails(t)
        BY <3>3 DEF ListenLock, ListenCallFails, ListenStore, SetsockoptFails, Load,
                    Goto, Result
      <3>. QED BY <1>6, <3>1, <3>2, <3>3
    <2>. QED BY <2>1 DEF Open
  <1>7. CASE \/ IsBindRead(t) \/ IsListenRead(t)
             \/ GetPortIsBind(t) \/ GetPortRead(t) \/ GetPortName(t) \/ Getsockname(t)
             \/ SockerrOption(t) \/ ReuseOption(t) \/ V6onlyFamily(t) \/ V6onlySfd(t)
             \/ V6onlyOption(t)
    <2>1. /\ UNCHANGED <<kernel, live, m_sfd, sfd, this, that>>
          /\ pc[t] \in Plain \ {"return"} /\ \E to \in Plain : pc' = [pc EXCEPT ![t] = to]
      BY <1>7 DEF IsBindRead, IsListenRead, GetPortIsBind, GetPortRead, GetPortName,
                  Getsockname, SockerrOption, ReuseOption, V6onlyFamily, V6onlySfd,
                  V6onlyOption, getsockopt_int, Load, Goto, Result
    <2>. QED BY <2>1 DEF Open
  <1>8. UNCHANGED kernel => \A f : Open(f)' <=> Open(f)
    BY DEF Open
  <1>. QED BY <1>1, <1>2, <1>3, <1>4, <1>5, <1>6, <1>7, <1>8, <1>9
           DEF Setting, Getting
-----------------------------------------------------------------------------
(* Arguments, mutexes and lifetimes. *)

\* A step of thread t leaves the call of every other thread alone.
LEMMA OthersKeep ==
    ASSUME TypeOK, NEW t \in Threads, NEW s \in Threads, s # t,
           \/ Construct(t) \/ Constructing(t) \/ Moving(t)
           \/ Setting(t) \/ Getting(t) \/ Return(t)
    PROVE  /\ pc'[s] = pc[s] /\ this'[s] = this[s] /\ that'[s] = that[s]
           /\ sfd'[s] = sfd[s] /\ fd'[s] = fd[s] /\ port'[s] = port[s]
  <1>. USE StateTypes DEF local, Enter, Goto, Result, Load
  <1>1. CASE Construct(t)
    BY <1>1 DEF Construct, Empty, CtorSocket, CtorSocketFails, Dtor
  <1>2. CASE Constructing(t)
    BY <1>2 DEF Constructing, CtorReuse, CtorV6only, CtorOptionFails
  <1>3. CASE Moving(t)
    BY <1>3 DEF Moving, Move, Assign, MoveSfd, AssignSfd, MoveFlags, AssignFlags,
                SwapSfd, SwapAf, SwapFlags, DropParam
  <1>4. CASE Setting(t)
    <2>1. CASE \E o \in Vars : \/ \E ai \in Addrinfos : Bind(t, o, ai)
                              \/ Listen(t, o) \/ SetOption(t, o)
      BY <2>1 DEF Bind, Listen, SetOption
    <2>2. CASE BindLock(t) \/ BindCall(t) \/ BindCallFails(t) \/ BindStore(t)
      BY <2>2 DEF BindLock, BindCall, BindCallFails, BindStore, BindEnds
    <2>3. CASE ListenLock(t) \/ ListenCall(t) \/ ListenCallFails(t) \/ ListenStore(t)
      BY <2>3 DEF ListenLock, ListenCall, ListenCallFails, ListenStore
    <2>4. CASE BindType(t) \/ Setsockopt(t) \/ SetsockoptFails(t)
      BY <2>4 DEF BindType, BindEnds, Setsockopt, SetsockoptFails
    <2>. QED BY <1>4, <2>1, <2>2, <2>3, <2>4 DEF Setting
  <1>5. CASE Getting(t)
    BY <1>5 DEF Getting, IsBind, IsListen, GetPort, Check, IsBindRead, IsListenRead,
                GetPortIsBind, GetPortRead, GetPortName, Getsockname,
                GetSockerr, IsReuseAddr, IsV6only, Unchecked,
                SockerrOption, ReuseOption, V6onlyFamily, V6onlySfd, V6onlyOption,
                getsockopt_int
  <1>6. CASE Return(t)
    BY <1>6 DEF Return
  <1>. QED BY <1>1, <1>2, <1>3, <1>4, <1>5, <1>6

\* A call keeps its arguments as long as a later step of it uses them.
LEMMA ArgumentsStep ==
    ASSUME SocketInv, Next PROVE ArgumentsKnown'
  <1>a. TypeOK /\ ArgumentsKnown
    BY DEF SocketInv
  <1>. SUFFICES ASSUME NEW t \in Threads,
                       \/ Construct(t) \/ Constructing(t) \/ Moving(t)
                       \/ Setting(t) \/ Getting(t) \/ Return(t)
                PROVE  ArgumentsKnown'
    BY DEF Next
  <1>b. SUFFICES
          /\ pc'[t] = "idle" <=> this'[t] = None
          /\ pc'[t] = "idle" => that'[t] = None
          /\ pc'[t] \in {"move_sfd", "move_flags", "assign_sfd", "assign_flags"}
                 => that'[t] \in Vars
          /\ pc'[t] \in {"bind_type", "bind_lock", "bind_call", "bind_store"}
                 => port'[t] \in Addrinfos
    BY <1>a, OthersKeep DEF ArgumentsKnown
  <1>. USE <1>a, StateTypes, Distinct DEF ArgumentsKnown, local, Enter, Goto, Result, Load
  <1>1. CASE Construct(t)
    BY <1>1 DEF Construct, Empty, CtorSocket, CtorSocketFails, Dtor
  <1>2. CASE Constructing(t)
    BY <1>2 DEF Constructing, CtorReuse, CtorV6only, CtorOptionFails
  <1>3. CASE Moving(t)
    BY <1>3 DEF Moving, Move, Assign, MoveSfd, AssignSfd, MoveFlags, AssignFlags,
                SwapSfd, SwapAf, SwapFlags, DropParam
  <1>4. CASE Setting(t)
    <2>1. ASSUME NEW o \in Vars, \/ \E ai \in Addrinfos : Bind(t, o, ai)
                                 \/ Listen(t, o) \/ SetOption(t, o)
          PROVE  /\ this'[t] = o /\ pc'[t] \in {"bind_type", "listen_lock", "set_option"}
                 /\ pc'[t] = "bind_type" => port'[t] \in Addrinfos
      BY <2>1 DEF Bind, Listen, SetOption
    <2>2. CASE BindType(t) \/ BindLock(t) \/ BindCall(t)
      BY <2>2 DEF BindType, BindLock, BindCall
    <2>3. CASE BindCallFails(t) \/ BindStore(t) \/ Setsockopt(t) \/ SetsockoptFails(t)
      BY <2>3 DEF BindCallFails, BindStore, BindEnds, Setsockopt, SetsockoptFails
    <2>4. CASE ListenLock(t) \/ ListenCall(t) \/ ListenCallFails(t) \/ ListenStore(t)
      BY <2>4 DEF ListenLock, ListenCall, ListenCallFails, ListenStore
    <2>. QED BY <1>4, <2>1, <2>2, <2>3, <2>4 DEF Setting
  <1>5. CASE Getting(t)
    <2>1. CASE \E o \in Vars : \/ IsBind(t, o) \/ IsListen(t, o) \/ GetPort(t, o)
                              \/ GetSockerr(t, o) \/ IsReuseAddr(t, o) \/ IsV6only(t, o)
      BY <2>1 DEF IsBind, IsListen, GetPort, Check, GetSockerr, IsReuseAddr, IsV6only,
                  Unchecked
    <2>2. CASE IsBindRead(t) \/ IsListenRead(t) \/ GetPortIsBind(t) \/ GetPortRead(t)
      BY <2>2 DEF IsBindRead, IsListenRead, GetPortIsBind, GetPortRead
    <2>3. CASE GetPortName(t) \/ Getsockname(t) \/ SockerrOption(t) \/ ReuseOption(t)
               \/ V6onlyFamily(t) \/ V6onlySfd(t) \/ V6onlyOption(t)
      BY <2>3 DEF GetPortName, Getsockname, SockerrOption, ReuseOption, V6onlyFamily,
                  V6onlySfd, V6onlyOption, getsockopt_int
    <2>. QED BY <1>5, <2>1, <2>2, <2>3 DEF Getting
  <1>6. CASE Return(t)
    BY <1>6 DEF Return
  <1>. QED BY <1>1, <1>2, <1>3, <1>4, <1>5, <1>6

\* The points of a call between lock and unlock.
Holding == {"bind_call", "bind_store", "listen_call", "listen_store"}

\* Mutexes are held by the calls that took them.
LEMMA MutexStep ==
    ASSUME SocketInv, Next PROVE MutexHeldByCall'
  <1>a. TypeOK /\ ArgumentsKnown /\ MutexHeldByCall /\ NoStrayDescriptor
    BY DEF SocketInv
  <1>. SUFFICES ASSUME NEW t \in Threads,
                       \/ Construct(t) \/ Constructing(t) \/ Moving(t)
                       \/ Setting(t) \/ Getting(t) \/ Return(t)
                PROVE  MutexHeldByCall'
    BY DEF Next
  <1>b. \A s \in Threads \ {t} : pc'[s] = pc[s] /\ this'[s] = this[s]
    BY <1>a, OthersKeep
  <1>c. ASSUME UNCHANGED locks, pc[t] \notin Holding, pc'[t] \notin Holding
        PROVE  MutexHeldByCall'
    BY <1>a, <1>b, <1>c DEF MutexHeldByCall, locks, Holding
  <1>. USE <1>a, StateTypes, Distinct DEF Enter, Goto, Result, Load, local, Holding
  <1>1. CASE Construct(t)
    <2>1. UNCHANGED locks /\ pc[t] \notin Holding /\ pc'[t] \notin Holding
      BY <1>1 DEF Construct, Empty, CtorSocket, CtorSocketFails, Dtor
    <2>. QED BY <1>c, <2>1
  <1>2. CASE Constructing(t)
    <2>1. UNCHANGED locks /\ pc[t] \notin Holding /\ pc'[t] \notin Holding
      BY <1>2 DEF Constructing, CtorReuse, CtorV6only, CtorOptionFails
    <2>. QED BY <1>c, <2>1
  <1>3. CASE Moving(t)
    <2>1. UNCHANGED locks /\ pc[t] \notin Holding /\ pc'[t] \notin Holding
      BY <1>3 DEF Moving, Move, Assign, MoveSfd, AssignSfd, MoveFlags, AssignFlags,
                  SwapSfd, SwapAf, SwapFlags, DropParam
    <2>. QED BY <1>c, <2>1
  <1>4. CASE \E o \in Vars : \/ \E ai \in Addrinfos : Bind(t, o, ai)
                            \/ Listen(t, o) \/ SetOption(t, o)
    <2>1. UNCHANGED locks /\ pc[t] \notin Holding /\ pc'[t] \notin Holding
      BY <1>4 DEF Bind, Listen, SetOption
    <2>. QED BY <1>c, <2>1
  <1>9. CASE BindType(t) \/ Setsockopt(t) \/ SetsockoptFails(t)
    <2>1. UNCHANGED locks /\ pc[t] \notin Holding /\ pc'[t] \notin Holding
      BY <1>9 DEF BindType, Setsockopt, SetsockoptFails
    <2>. QED BY <1>c, <2>1
  <1>5. CASE BindCall(t) \/ ListenCall(t)
    BY <1>5, <1>b DEF BindCall, ListenCall, MutexHeldByCall, locks
  <1>6. CASE Getting(t)
    <2>1. UNCHANGED locks /\ pc[t] \notin Holding /\ pc'[t] \notin Holding
      <3>1. CASE \E o \in Vars : \/ IsBind(t, o) \/ IsListen(t, o) \/ GetPort(t, o)
                                \/ GetSockerr(t, o) \/ IsReuseAddr(t, o) \/ IsV6only(t, o)
        BY <3>1 DEF IsBind, IsListen, GetPort, Check, GetSockerr, IsReuseAddr, IsV6only,
                    Unchecked
      <3>2. CASE IsBindRead(t) \/ IsListenRead(t) \/ GetPortIsBind(t) \/ GetPortRead(t)
        BY <3>2 DEF IsBindRead, IsListenRead, GetPortIsBind, GetPortRead
      <3>3. CASE GetPortName(t) \/ Getsockname(t) \/ SockerrOption(t) \/ ReuseOption(t)
                 \/ V6onlyFamily(t) \/ V6onlySfd(t) \/ V6onlyOption(t)
        BY <3>3 DEF GetPortName, Getsockname, SockerrOption, ReuseOption, V6onlyFamily,
                    V6onlySfd, V6onlyOption, getsockopt_int
      <3>. QED BY <1>6, <3>1, <3>2, <3>3 DEF Getting
    <2>. QED BY <1>c, <2>1
  <1>7. CASE Return(t)
    <2>1. UNCHANGED locks /\ pc[t] \notin Holding /\ pc'[t] \notin Holding
      BY <1>7 DEF Return
    <2>. QED BY <1>c, <2>1
  <1>8. CASE \/ BindLock(t) \/ BindCallFails(t) \/ BindStore(t)
             \/ ListenLock(t) \/ ListenCallFails(t) \/ ListenStore(t)
    <2>1. \A s \in Threads \ {t} : pc'[s] = pc[s] /\ this'[s] = this[s]
      BY <1>b
    <2>2. this[t] \in Slots /\ this'[t] = this[t]
      BY <1>8, Arguments DEF BindLock, BindCallFails, BindStore, ListenLock,
                             ListenCallFails, ListenStore
    <2>3. CASE BindLock(t)
      BY <2>1, <2>2, <2>3 DEF BindLock, MutexHeldByCall
    <2>4. CASE BindCallFails(t) \/ BindStore(t)
      BY <2>1, <2>2, <2>4 DEF BindCallFails, BindStore, UnlockBound, MutexHeldByCall
    <2>5. CASE ListenLock(t)
      BY <2>1, <2>2, <2>5 DEF ListenLock, MutexHeldByCall
    <2>6. CASE ListenCallFails(t) \/ ListenStore(t)
      BY <2>1, <2>2, <2>6 DEF ListenCallFails, ListenStore, UnlockListen, MutexHeldByCall
    <2>. QED BY <1>8, <2>3, <2>4, <2>5, <2>6
  <1>. QED BY <1>1, <1>2, <1>3, <1>4, <1>5, <1>6, <1>7, <1>8, <1>9 DEF Setting

\* No call works on an object that is not there, or that another constructs.
LEMMA LifetimeStep ==
    ASSUME SocketInv, Next PROVE LifetimeRespected'
  <1>a. TypeOK /\ ArgumentsKnown /\ NoStrayDescriptor /\ LifetimeRespected
    BY DEF SocketInv
  <1>. SUFFICES ASSUME NEW t \in Threads,
                       \/ Construct(t) \/ Constructing(t) \/ Moving(t)
                       \/ Setting(t) \/ Getting(t) \/ Return(t)
                PROVE  LifetimeRespected'
    BY DEF Next
  <1>b. \A s \in Threads \ {t} :
            pc'[s] = pc[s] /\ this'[s] = this[s] /\ that'[s] = that[s]
    BY <1>a, OthersKeep
  <1>c. \A s \in Threads : pc[s] # "idle" => this[s] \in Vars
    BY <1>a, Arguments
  <1>d. \A s \in Threads : pc[s] = "idle" => this[s] = None /\ that[s] = None
    BY <1>a DEF ArgumentsKnown
  <1>. USE StateTypes, Distinct DEF Constructors
  <1>1. CASE Setting(t) \/ Getting(t) \/ Return(t)
    BY <1>a, <1>b, <1>c, <1>1, PlainStep DEF LifetimeRespected, Plain, Pcs, Changing
  <1>2. ASSUME NEW o \in Vars, Empty(t, o) \/ CtorSocket(t, o) \/ CtorSocketFails(t, o)
        PROVE  LifetimeRespected'
    <2>1. /\ o \notin live /\ ~InUse(o) /\ live' \in {live, live \cup {o}}
          /\ pc[t] = "idle" /\ this'[t] = o /\ pc'[t] \in {"return", "ctor_reuse"}
          /\ pc'[t] = "ctor_reuse" => live' = live
      BY <1>a, <1>2 DEF Empty, CtorSocket, CtorSocketFails, MayConstruct, Enter, objects
    <2>2. \A s \in Threads : o \notin {this[s], that[s]}
      BY <1>d, <2>1 DEF InUse
    <2>3. that'[t] = None
      BY <1>a, <1>2 DEF Empty, CtorSocket, CtorSocketFails, Enter
    <2>. QED BY <1>a, <1>b, <1>c, <2>1, <2>2, <2>3 DEF LifetimeRespected
  <1>3. ASSUME NEW o \in Vars, Dtor(t, o) PROVE LifetimeRespected'
    <2>1. /\ o \in live /\ ~InUse(o) /\ live' = live \ {o}
          /\ pc[t] = "idle" /\ this'[t] = o /\ pc'[t] = "return" /\ that'[t] = None
      BY <1>a, <1>3 DEF Dtor, Destruct, MayDestruct, Enter
    <2>. QED BY <1>a, <1>b, <1>c, <2>1 DEF LifetimeRespected, InUse
  <1>4. CASE CtorReuse(t) \/ CtorV6only(t) \/ MoveSfd(t) \/ MoveFlags(t)
    <2>1. /\ live' \in {live, live \cup {this[t]}} /\ UNCHANGED <<this, that>>
          /\ pc[t] \in Constructors /\ pc'[t] \in {"ctor_v6only", "move_flags", "return"}
          /\ pc'[t] # "return" => live' = live
      <3>1. CASE CtorReuse(t)
        BY <1>a, <3>1 DEF CtorReuse, Goto, objects
      <3>2. CASE CtorV6only(t)
        BY <1>a, <3>2 DEF CtorV6only, Goto
      <3>3. CASE MoveFlags(t)
        BY <1>a, <3>3 DEF MoveFlags, TakeFlags, Goto
      <3>4. CASE MoveSfd(t)
        BY <1>a, <3>4 DEF MoveSfd, Goto
      <3>. QED BY <1>4, <3>1, <3>2, <3>3, <3>4
    <2>. QED BY <1>a, <1>b, <1>c, <2>1 DEF LifetimeRespected
  <1>5. CASE CtorOptionFails(t)
    <2>1. live' = live /\ UNCHANGED <<this, that>> /\ pc'[t] = "return"
      BY <1>a, <1>5 DEF CtorOptionFails, Goto, objects
    <2>. QED BY <1>a, <1>b, <2>1 DEF LifetimeRespected
  <1>6. ASSUME NEW o \in Vars, NEW p \in Vars, Move(t, o, p) PROVE LifetimeRespected'
    <2>1. /\ o \notin live /\ ~InUse(o) /\ p \in live /\ live' = live
          /\ pc[t] = "idle" /\ this'[t] = o /\ that'[t] = p /\ pc'[t] = "move_sfd"
      BY <1>a, <1>6 DEF Move, MayConstruct, MayMove, Enter
    <2>2. \A s \in Threads : o \notin {this[s], that[s]}
      BY <1>d, <2>1 DEF InUse
    <2>. QED BY <1>a, <1>b, <1>c, <2>1, <2>2 DEF LifetimeRespected
  <1>7. ASSUME NEW o \in Vars, NEW p \in Vars, Assign(t, o, p) PROVE LifetimeRespected'
    <2>1. /\ o \in live /\ p \in live /\ live' = live
          /\ this'[t] = o /\ that'[t] = p /\ pc'[t] = "assign_sfd"
      BY <1>a, <1>7 DEF Assign, MayMove, Enter
    <2>. QED BY <1>a, <1>b, <1>c, <2>1 DEF LifetimeRespected
  <1>8. CASE \/ AssignSfd(t) \/ AssignFlags(t) \/ SwapSfd(t) \/ SwapAf(t) \/ SwapFlags(t)
             \/ DropParam(t)
    <2>1. /\ live' \in {live, live \cup {t}, live \ {t}} /\ this' = this
          /\ that'[t] \in {that[t], None}
          /\ pc[t] \in {"assign_sfd", "assign_flags", "swap_sfd", "swap_af",
                        "swap_flags", "drop_param"}
          /\ pc'[t] \in {"assign_flags", "swap_sfd", "swap_af", "swap_flags",
                         "drop_param", "return"}
      <3>1. CASE AssignFlags(t)
        BY <1>a, <3>1 DEF AssignFlags, TakeFlags
      <3>2. CASE AssignSfd(t) \/ SwapSfd(t) \/ SwapAf(t) \/ SwapFlags(t) \/ DropParam(t)
        BY <1>a, <3>2 DEF AssignSfd, SwapSfd, SwapAf, SwapFlags, DropParam, Destruct, Goto
      <3>. QED BY <1>8, <3>1, <3>2
    <2>. QED BY <1>a, <1>b, <1>c, <2>1 DEF LifetimeRespected
  <1>. QED BY <1>1, <1>2, <1>3, <1>4, <1>5, <1>6, <1>7, <1>8
           DEF Construct, Constructing, Moving
-----------------------------------------------------------------------------
(* Ownership of descriptors. *)

\* A descriptor leaves a living object only for a call that will put it back.
LEMMA StrayStep ==
    ASSUME SocketInv, Next PROVE NoStrayDescriptor'
  <1>a. TypeOK /\ ArgumentsKnown /\ NoStrayDescriptor /\ LifetimeRespected
    BY DEF SocketInv
  <1>. SUFFICES ASSUME NEW t \in Threads,
                       \/ Construct(t) \/ Constructing(t) \/ Moving(t)
                       \/ Setting(t) \/ Getting(t) \/ Return(t)
                PROVE  NoStrayDescriptor'
    BY DEF Next
  <1>b. \A s \in Threads \ {t} :
            pc'[s] = pc[s] /\ this'[s] = this[s] /\ sfd'[s] = sfd[s]
    BY <1>a, OthersKeep
  <1>c. /\ \A s \in Threads : pc[s] # "idle" => this[s] \in Vars
        /\ \A s \in Threads : s \in Slots /\ s \notin Vars
        /\ \A o \in Vars : o \in Slots
    BY <1>a, Arguments, Distinct
  <1>d. \A s \in Threads : pc[s] \in {"ctor_reuse", "ctor_v6only"} => sfd[s] \in Fds
    BY <1>a, Arguments
  <1>. USE StateTypes, Distinct DEF objects, local
  <1>1. CASE Setting(t) \/ Getting(t) \/ Return(t)
    BY <1>a, <1>b, <1>c, <1>1, PlainStep, SMTT(30) DEF NoStrayDescriptor, Plain, Pcs, Changing
  <1>2. ASSUME NEW o \in Vars, Empty(t, o) \/ CtorSocketFails(t, o)
        PROVE  NoStrayDescriptor'
    <2>1. /\ live \subseteq live' /\ m_sfd' = m_sfd /\ sfd' = sfd
          /\ pc[t] = "idle" /\ pc'[t] = "return"
      BY <1>a, <1>2 DEF Empty, CtorSocketFails, Enter, Result
    <2>. QED BY <1>a, <1>b, <1>c, <2>1 DEF NoStrayDescriptor
  <1>3. ASSUME NEW o \in Vars, CtorSocket(t, o) PROVE NoStrayDescriptor'
    <2>1. /\ live' = live /\ m_sfd' = m_sfd
          /\ \E f \in Fds : sfd' = [sfd EXCEPT ![t] = f]
          /\ pc[t] = "idle" /\ pc'[t] = "ctor_reuse"
      BY <1>a, <1>3 DEF CtorSocket, Enter
    <2>. QED BY <1>a, <1>b, <1>c, <2>1 DEF NoStrayDescriptor
  <1>4. ASSUME NEW o \in Vars, Dtor(t, o) PROVE NoStrayDescriptor'
    <2>1. /\ live' = live \ {o} /\ m_sfd' = [m_sfd EXCEPT ![o] = INVALID_SOCKET]
          /\ sfd' = sfd /\ pc[t] = "idle" /\ pc'[t] = "return"
      BY <1>a, <1>4 DEF Dtor, Destruct, Enter, Result
    <2>. QED BY <1>a, <1>b, <1>c, <2>1 DEF NoStrayDescriptor
  <1>5. CASE CtorReuse(t) /\ pc'[t] = "ctor_v6only"
    <2>1. UNCHANGED <<live, m_sfd, sfd>> /\ pc[t] = "ctor_reuse"
      BY <1>a, <1>5 DEF CtorReuse, Goto
    <2>. QED BY <1>a, <1>b, <1>5, <2>1 DEF NoStrayDescriptor
  <1>6. CASE (CtorReuse(t) /\ pc'[t] # "ctor_v6only") \/ CtorV6only(t)
    <2>1. /\ live' = live \cup {this[t]} /\ m_sfd' = [m_sfd EXCEPT ![this[t]] = sfd[t]]
          /\ sfd' = [sfd EXCEPT ![t] = INVALID_SOCKET]
          /\ pc[t] \in {"ctor_reuse", "ctor_v6only"} /\ pc'[t] = "return"
      BY <1>a, <1>6 DEF CtorReuse, CtorV6only, Goto
    <2>. QED BY <1>a, <1>b, <1>c, <2>1 DEF NoStrayDescriptor
  <1>7. CASE CtorOptionFails(t)
    <2>1. /\ UNCHANGED <<live, m_sfd>> /\ sfd' = [sfd EXCEPT ![t] = INVALID_SOCKET]
          /\ pc[t] \in {"ctor_reuse", "ctor_v6only"} /\ pc'[t] = "return"
      BY <1>a, <1>7 DEF CtorOptionFails, Goto
    <2>. QED BY <1>a, <1>b, <1>c, <2>1 DEF NoStrayDescriptor
  <1>8. ASSUME NEW o \in Vars, NEW p \in Vars, Move(t, o, p) \/ Assign(t, o, p)
        PROVE  NoStrayDescriptor'
    <2>1. /\ UNCHANGED <<live, m_sfd, sfd>>
          /\ pc[t] = "idle" /\ pc'[t] \in {"move_sfd", "assign_sfd"}
      BY <1>a, <1>8 DEF Move, Assign, Enter
    <2>. QED BY <1>a, <1>b, <1>c, <2>1 DEF NoStrayDescriptor
  <1>15. CASE MoveSfd(t)
    <2>1. /\ UNCHANGED <<live, sfd, this>>
          /\ m_sfd' = [m_sfd EXCEPT ![this[t]] = m_sfd[that[t]], ![that[t]] = INVALID_SOCKET]
          /\ pc[t] = "move_sfd" /\ pc'[t] = "move_flags"
      BY <1>a, <1>15 DEF MoveSfd, TakeSfd, Goto
    <2>2. \A x \in Slots \ {this[t]} : m_sfd'[x] # INVALID_SOCKET => m_sfd'[x] = m_sfd[x]
      BY <1>a, <1>c, <2>1, Arguments
    <2>3. ASSUME NEW x \in Vars \ live, m_sfd'[x] # INVALID_SOCKET
          PROVE  \E u \in Threads : pc'[u] = "move_flags" /\ this'[u] = x
      <3>1. CASE x = this[t]
        BY <1>a, <2>1, <3>1
      <3>2. CASE x # this[t]
        <4>1. PICK u \in Threads : pc[u] = "move_flags" /\ this[u] = x
          BY <1>a, <1>c, <2>2, <2>3, <3>2 DEF NoStrayDescriptor
        <4>. QED BY <1>b, <2>1, <4>1
      <3>. QED BY <3>1, <3>2
    <2>4. \A u \in Threads : m_sfd'[u] # INVALID_SOCKET
              => pc'[u] \in {"assign_flags", "swap_sfd", "swap_af", "swap_flags", "drop_param"}
      BY <1>a, <1>b, <1>c, <2>1, <2>2 DEF NoStrayDescriptor
    <2>5. \A u \in Threads : sfd'[u] # INVALID_SOCKET
              <=> pc'[u] \in {"ctor_reuse", "ctor_v6only"}
      BY <1>a, <1>b, <2>1 DEF NoStrayDescriptor
    <2>. QED BY <2>1, <2>3, <2>4, <2>5 DEF NoStrayDescriptor
  <1>9. CASE AssignSfd(t)
    <2>1. /\ UNCHANGED <<live, sfd, this>>
          /\ m_sfd' = [m_sfd EXCEPT ![t] = m_sfd[that[t]], ![that[t]] = INVALID_SOCKET]
          /\ pc[t] = "assign_sfd" /\ pc'[t] = "assign_flags" /\ that[t] \in Vars
      BY <1>a, <1>9, Arguments DEF AssignSfd, TakeSfd, Goto
    <2>. QED BY <1>a, <1>b, <1>c, <2>1, SMTT(30) DEF NoStrayDescriptor
  <1>10. CASE MoveFlags(t)
    <2>1. /\ UNCHANGED <<m_sfd, sfd, this>> /\ live' = live \cup {this[t]}
          /\ pc[t] = "move_flags" /\ pc'[t] = "return"
      BY <1>a, <1>10 DEF MoveFlags, TakeFlags, Goto, Result
    <2>. QED BY <1>a, <1>b, <1>c, <2>1 DEF NoStrayDescriptor
  <1>11. CASE AssignFlags(t)
    <2>1. /\ UNCHANGED <<m_sfd, sfd, this>> /\ live' = live \cup {t}
          /\ pc[t] = "assign_flags" /\ pc'[t] = "swap_sfd"
      BY <1>a, <1>11 DEF AssignFlags, TakeFlags
    <2>. QED BY <1>a, <1>b, <1>c, <2>1 DEF NoStrayDescriptor
  <1>12. CASE SwapSfd(t)
    <2>1. /\ UNCHANGED <<live, sfd, this>>
          /\ m_sfd' = [m_sfd EXCEPT ![this[t]] = m_sfd[t], ![t] = m_sfd[this[t]]]
          /\ pc[t] = "swap_sfd" /\ pc'[t] = "swap_af"
      BY <1>a, <1>12 DEF SwapSfd, Goto
    <2>2. this[t] \in live /\ this[t] \in Vars
      BY <1>a, <1>c, <2>1 DEF LifetimeRespected, Constructors
    <2>. QED BY <1>a, <1>b, <1>c, <2>1, <2>2, SMTT(30) DEF NoStrayDescriptor
  <1>13. CASE SwapAf(t) \/ SwapFlags(t)
    <2>1. /\ UNCHANGED <<live, m_sfd, sfd, this>>
          /\ pc[t] \in {"swap_af", "swap_flags"} /\ pc'[t] \in {"swap_flags", "drop_param"}
      BY <1>a, <1>13 DEF SwapAf, SwapFlags, Goto
    <2>. QED BY <1>a, <1>b, <1>c, <2>1 DEF NoStrayDescriptor
  <1>14. CASE DropParam(t)
    <2>1. /\ live' = live \ {t} /\ m_sfd' = [m_sfd EXCEPT ![t] = INVALID_SOCKET]
          /\ UNCHANGED <<sfd, this>> /\ pc[t] = "drop_param" /\ pc'[t] = "return"
      BY <1>a, <1>14 DEF DropParam, Destruct, Goto, Result
    <2>. QED BY <1>a, <1>b, <1>c, <2>1 DEF NoStrayDescriptor
  <1>. QED BY <1>1, <1>2, <1>3, <1>4, <1>5, <1>6, <1>7, <1>8, <1>9, <1>10, <1>11,
              <1>12, <1>13, <1>14, <1>15
           DEF Construct, Constructing, Moving

\* Storage without an object and without a constructor holds no descriptor.
LEMMA FreeSlots ==
    ASSUME SocketInv
    PROVE  /\ \A o \in Vars : MayConstruct(o) => m_sfd[o] = INVALID_SOCKET
           /\ \A t \in Threads : pc[t] = "idle" => m_sfd[t] = INVALID_SOCKET
           /\ \A t \in Threads : pc[t] \in {"ctor_reuse", "ctor_v6only", "move_sfd"}
                  => m_sfd[this[t]] = INVALID_SOCKET
           /\ \A t \in Threads : pc[t] = "assign_sfd" => m_sfd[t] = INVALID_SOCKET
  <1>a. TypeOK /\ ArgumentsKnown /\ NoStrayDescriptor /\ LifetimeRespected
    BY DEF SocketInv
  <1>1. \A o \in Vars : MayConstruct(o) => m_sfd[o] = INVALID_SOCKET
    BY <1>a DEF MayConstruct, InUse, NoStrayDescriptor
  <1>2. \A t \in Threads : pc[t] \in {"idle", "assign_sfd"} => m_sfd[t] = INVALID_SOCKET
    BY <1>a DEF NoStrayDescriptor
  <1>3. ASSUME NEW t \in Threads, pc[t] \in {"ctor_reuse", "ctor_v6only", "move_sfd"}
        PROVE  m_sfd[this[t]] = INVALID_SOCKET
    <2>1. this[t] \in Vars \ live
      BY <1>a, <1>3, Arguments DEF LifetimeRespected, Constructors
    <2>2. \A s \in Threads : pc[s] = "move_flags" => this[s] # this[t]
      BY <1>a, <1>3 DEF LifetimeRespected, Constructors
    <2>. QED BY <1>a, <2>1, <2>2 DEF NoStrayDescriptor
  <1>. QED BY <1>1, <1>2, <1>3

\* Every step keeps one holder for every open descriptor.
LEMMA OwnedStep ==
    ASSUME SocketInv, Next PROVE DescriptorsOwned'
  <1>a. /\ TypeOK /\ ArgumentsKnown /\ NoStrayDescriptor /\ LifetimeRespected
        /\ DescriptorsOwned
    BY DEF SocketInv
  <1>. SUFFICES ASSUME NEW t \in Threads,
                       \/ Construct(t) \/ Constructing(t) \/ Moving(t)
                       \/ Setting(t) \/ Getting(t) \/ Return(t)
                PROVE  DescriptorsOwned'
    BY DEF Next
  <1>b. /\ m_sfd \in [Slots -> Fds \cup {INVALID_SOCKET}]
        /\ sfd \in [Threads -> Fds \cup {INVALID_SOCKET}]
        /\ kernel \in [Fds -> Socket \cup {None}] /\ None \notin Socket
        /\ INVALID_SOCKET \notin Fds
        /\ t \in Slots /\ t \notin Vars /\ \A o \in Vars : o \in Slots
        /\ pc[t] # "idle" => this[t] \in Vars
    BY <1>a, StateTypes, Distinct, Arguments
  <1>c. /\ \A o \in Vars : MayConstruct(o) => m_sfd[o] = INVALID_SOCKET
        /\ pc[t] = "idle" => m_sfd[t] = INVALID_SOCKET
        /\ pc[t] \in {"ctor_reuse", "ctor_v6only"} =>
               m_sfd[this[t]] = INVALID_SOCKET /\ sfd[t] \in Fds
        /\ pc[t] = "move_sfd" => m_sfd[this[t]] = INVALID_SOCKET
        /\ pc[t] = "assign_sfd" => m_sfd[t] = INVALID_SOCKET
        /\ pc[t] \in {"move_sfd", "assign_sfd"} => that[t] \in Vars
    BY <1>a, FreeSlots, Arguments
  \* The ways in which a step can change the table and the holders.
  <1>d. ASSUME UNCHANGED <<m_sfd, sfd>>, \A f \in Fds : Open(f)' <=> Open(f)
        PROVE  DescriptorsOwned'
    BY <1>a, <1>b, <1>d DEF DescriptorsOwned
  <1>e. ASSUME NEW o \in Slots, UNCHANGED sfd, kernel' = Closed(m_sfd[o]),
               m_sfd' = [m_sfd EXCEPT ![o] = INVALID_SOCKET]
        PROVE  DescriptorsOwned'
    BY <1>a, <1>b, <1>e DEF DescriptorsOwned, Closed, Open
  <1>f. ASSUME NEW o \in Slots, NEW p \in Slots, o # p, UNCHANGED <<kernel, sfd>>,
               m_sfd' = [m_sfd EXCEPT ![o] = m_sfd[p], ![p] = m_sfd[o]]
        PROVE  DescriptorsOwned'
    BY <1>a, <1>b, <1>f DEF DescriptorsOwned, Open
  <1>g. ASSUME NEW o \in Slots, m_sfd[o] = INVALID_SOCKET,
               \A f \in Fds : Open(f)' <=> Open(f),
               m_sfd' = [m_sfd EXCEPT ![o] = sfd[t]],
               sfd' = [sfd EXCEPT ![t] = INVALID_SOCKET]
        PROVE  DescriptorsOwned'
    BY <1>a, <1>b, <1>g DEF DescriptorsOwned
  <1>. USE DEF objects, local
  <1>1. CASE Setting(t) \/ Getting(t) \/ Return(t)
    BY <1>1, <1>d, PlainStep
  <1>2. ASSUME NEW o \in Vars, Empty(t, o) \/ CtorSocketFails(t, o)
        PROVE  DescriptorsOwned'
    <2>1. UNCHANGED <<kernel, m_sfd, sfd>>
      BY <1>2 DEF Empty, CtorSocketFails, Result
    <2>. QED BY <1>d, <2>1 DEF Open
  <1>3. ASSUME NEW o \in Vars, CtorSocket(t, o) PROVE DescriptorsOwned'
    <2>1. PICK f \in Fds, s \in Socket :
            /\ ~Open(f) /\ kernel' = [kernel EXCEPT ![f] = s]
            /\ sfd' = [sfd EXCEPT ![t] = f] /\ m_sfd' = m_sfd
      <3>1. PICK k \in Kinds, f \in Fds, r \in BOOLEAN, v \in BOOLEAN :
              /\ LowestFree(f) /\ sfd' = [sfd EXCEPT ![t] = f]
              /\ kernel' = [kernel EXCEPT ![f] =
                    [af |-> k[1], type |-> k[2], addr |-> Unbound, lis |-> FALSE,
                     reuse |-> r, v6only |-> v]]
        BY <1>3 DEF CtorSocket
      <3>2. k[1] \in Domains /\ k[2] \in Types
        BY CSocketAssumption
      <3>3. [af |-> k[1], type |-> k[2], addr |-> Unbound, lis |-> FALSE,
             reuse |-> r, v6only |-> v] \in Socket
        BY <3>2 DEF Socket
      <3>. QED BY <1>3, <3>1, <3>3 DEF CtorSocket, LowestFree
    <2>2. sfd[t] = INVALID_SOCKET
      BY <1>a, <1>b, <1>3 DEF CtorSocket, Enter, NoStrayDescriptor
    <2>3. \A g \in Fds : Open(g)' <=> (Open(g) \/ g = f)
      BY <1>b, <2>1 DEF Open
    <2>. QED BY <1>a, <1>b, <2>1, <2>2, <2>3 DEF DescriptorsOwned
  <1>4. ASSUME NEW o \in Vars, Dtor(t, o) PROVE DescriptorsOwned'
    BY <1>b, <1>4, <1>e DEF Dtor, Destruct, Result
  <1>5. CASE CtorReuse(t) \/ CtorV6only(t)
    <2>1. sfd[t] \in Fds /\ Open(sfd[t]) /\ kernel[sfd[t]] \in Socket
      BY <1>a, <1>b, <1>c, <1>5 DEF CtorReuse, CtorV6only, Goto, DescriptorsOwned, Open
    <2>2. PICK s \in Socket : kernel' = [kernel EXCEPT ![sfd[t]] = s]
      BY <1>5, <2>1, SocketUpdates DEF CtorReuse, CtorV6only
    <2>3. \A f \in Fds : Open(f)' <=> Open(f)
      BY <1>b, <2>1, <2>2 DEF Open
    <2>4. \/ UNCHANGED <<m_sfd, sfd>>
          \/ /\ m_sfd' = [m_sfd EXCEPT ![this[t]] = sfd[t]]
             /\ sfd' = [sfd EXCEPT ![t] = INVALID_SOCKET]
      BY <1>5 DEF CtorReuse, CtorV6only
    <2>5. this[t] \in Slots /\ m_sfd[this[t]] = INVALID_SOCKET
      BY <1>b, <1>c, <1>5 DEF CtorReuse, CtorV6only, Goto
    <2>. QED BY <1>d, <1>g, <2>3, <2>4, <2>5
  <1>6. CASE CtorOptionFails(t)
    <2>1. /\ sfd[t] \in Fds /\ kernel' = Closed(sfd[t]) /\ m_sfd' = m_sfd
          /\ sfd' = [sfd EXCEPT ![t] = INVALID_SOCKET]
      BY <1>c, <1>6 DEF CtorOptionFails, Goto
    <2>2. \A g \in Fds : Open(g)' <=> (Open(g) /\ g # sfd[t])
      BY <1>b, <2>1 DEF Open, Closed
    <2>. QED BY <1>a, <1>b, <2>1, <2>2 DEF DescriptorsOwned
  <1>7. CASE MoveSfd(t)
    <2>1. /\ m_sfd[this[t]] = INVALID_SOCKET /\ UNCHANGED <<kernel, sfd>>
          /\ m_sfd' = [m_sfd EXCEPT ![this[t]] = m_sfd[that[t]], ![that[t]] = INVALID_SOCKET]
          /\ this[t] \in Slots /\ that[t] \in Slots
      BY <1>b, <1>c, <1>7 DEF MoveSfd, TakeSfd, Goto
    <2>2. this[t] # that[t]
      BY <1>a, <1>7 DEF MoveSfd, Goto, LifetimeRespected, Constructors
    <2>. QED BY <1>b, <1>f, <2>1, <2>2
  <1>8. CASE AssignSfd(t)
    <2>1. /\ m_sfd[t] = INVALID_SOCKET /\ UNCHANGED <<kernel, sfd>>
          /\ m_sfd' = [m_sfd EXCEPT ![t] = m_sfd[that[t]], ![that[t]] = INVALID_SOCKET]
          /\ that[t] \in Slots /\ t # that[t]
      BY <1>b, <1>c, <1>8 DEF AssignSfd, TakeSfd, Goto
    <2>. QED BY <1>b, <1>f, <2>1
  <1>9. ASSUME \/ \E o, p \in Vars : Move(t, o, p) \/ Assign(t, o, p)
               \/ MoveFlags(t) \/ AssignFlags(t) \/ SwapAf(t) \/ SwapFlags(t)
        PROVE  DescriptorsOwned'
    <2>1. UNCHANGED <<kernel, m_sfd, sfd>>
      BY <1>9 DEF Move, Assign, MoveFlags, AssignFlags, SwapAf, SwapFlags, Result
    <2>. QED BY <1>d, <2>1 DEF Open
  <1>10. CASE SwapSfd(t)
    <2>1. /\ this[t] \in Slots /\ this[t] # t /\ UNCHANGED <<kernel, sfd>>
          /\ m_sfd' = [m_sfd EXCEPT ![this[t]] = m_sfd[t], ![t] = m_sfd[this[t]]]
      BY <1>b, <1>10 DEF SwapSfd, Goto
    <2>. QED BY <1>b, <1>f, <2>1
  <1>11. CASE DropParam(t)
    BY <1>b, <1>11, <1>e DEF DropParam, Destruct, Result
  <1>. QED BY <1>1, <1>2, <1>3, <1>4, <1>5, <1>6, <1>7, <1>8, <1>9, <1>10, <1>11
           DEF Construct, Constructing, Moving
-----------------------------------------------------------------------------
(* The theorems. *)

\* The program starts without objects, descriptors and calls.
LEMMA InitSocketInv ==
    Init => SocketInv
  <1>1. SUFFICES ASSUME Init PROVE SocketInv
    OBVIOUS
  <1>. USE <1>1, Distinct DEF Init
  <1>2. TypeOK
    BY DEF TypeOK, Pcs
  <1>3. ArgumentsKnown /\ LifetimeRespected /\ NoStrayDescriptor
    BY DEF ArgumentsKnown, LifetimeRespected, Constructors, NoStrayDescriptor
  <1>4. MutexHeldByCall
    BY DEF MutexHeldByCall
  <1>5. DescriptorsOwned
    BY DEF DescriptorsOwned, Open
  <1>. QED BY <1>2, <1>3, <1>4, <1>5 DEF SocketInv

\* A step of no thread is no step.
LEMMA SocketInvStutters ==
    ASSUME SocketInv, UNCHANGED vars PROVE SocketInv'
  BY DEF SocketInv, TypeOK, ArgumentsKnown, MutexHeldByCall, LifetimeRespected,
         NoStrayDescriptor, DescriptorsOwned, Open, vars, objects, locks, call, local

\* Ownership and locking hold at every step of every call, however many
\* threads use the objects (socket.cpp:48-205).
THEOREM SocketInvHolds == Spec => []SocketInv
  <1>1. SocketInv /\ [Next]_vars => SocketInv'
    BY TypeStep, ArgumentsStep, MutexStep, LifetimeStep, StrayStep, OwnedStep,
       SocketInvStutters DEF SocketInv
  <1>. QED BY <1>1, InitSocketInv, PTL DEF Spec

\* Every variable of the class and of its calls keeps its type.
THEOREM SocketTypeCorrect == Spec => []TypeOK
  <1>1. SocketInv => TypeOK
    BY DEF SocketInv
  <1>. QED BY <1>1, SocketInvHolds, PTL

\* The invariant gives each descriptor its one owner.
LEMMA OneOwner ==
    ASSUME SocketInv PROVE SoleOwner
  <1>a. TypeOK /\ ArgumentsKnown /\ NoStrayDescriptor /\ DescriptorsOwned
    BY DEF SocketInv
  <1>b. INVALID_SOCKET \notin Fds /\ Slots = Vars \cup Threads
    BY Distinct
  <1>1. ASSUME NEW f \in Fds, Open(f)
        PROVE  \E h \in Holders(f) : Holders(f) = {h}
    <2>1. CASE \E o \in Slots : m_sfd[o] = f
      <3>1. PICK o \in Slots : m_sfd[o] = f
        BY <2>1
      <3>2. \A x \in Slots : m_sfd[x] = f => x = o
        BY <1>a, <1>b, <3>1 DEF DescriptorsOwned
      <3>3. \A x \in Threads : sfd[x] # f
        BY <1>a, <1>b, <3>1 DEF DescriptorsOwned
      <3>. QED BY <3>1, <3>2, <3>3 DEF Holders
    <2>2. CASE ~ \E o \in Slots : m_sfd[o] = f
      <3>1. PICK t \in Threads : sfd[t] = f
        BY <1>a, <1>1, <2>2 DEF DescriptorsOwned
      <3>2. \A x \in Threads : sfd[x] = f => x = t
        BY <1>a, <1>b, <3>1 DEF DescriptorsOwned
      <3>. QED BY <2>2, <3>1, <3>2 DEF Holders
    <2>. QED BY <2>1, <2>2
  <1>2. ASSUME NEW f \in Fds, ~Open(f) PROVE Holders(f) = {}
    BY <1>a, <1>b, <1>2 DEF Holders, DescriptorsOwned
  <1>3. ASSUME NEW o \in Slots \ live
        PROVE  \/ m_sfd[o] = INVALID_SOCKET \/ BeingChanged(o)
               \/ o \in Threads /\ pc[o] \in Changing
    BY <1>a, <1>b DEF NoStrayDescriptor, BeingChanged, Changing
  <1>. QED BY <1>1, <1>2, <1>3 DEF SoleOwner

\* Constructors, moves, assignments and destructors lose no descriptor, keep
\* none that is closed and close none twice (socket.cpp:69, 95, 102, 111, 125, 139).
THEOREM DescriptorsHaveOneOwner == Spec => []SoleOwner
  BY OneOwner, SocketInvHolds, PTL

\* Every mutex is held by the call that is between its lock and its unlock,
\* and by no call that has thrown (socket.cpp:183-189, 197-204).
THEOREM MutexesReleased == Spec => []MutexHeldByCall
  <1>1. SocketInv => MutexHeldByCall
    BY DEF SocketInv
  <1>. QED BY <1>1, SocketInvHolds, PTL
-----------------------------------------------------------------------------
(* Who uses what.                                                          *)

Step(t) ==
    \/ Construct(t) \/ Constructing(t) \/ Moving(t)
    \/ Setting(t) \/ Getting(t) \/ Return(t)

\* Slots hold sockets of their own, none of which is still being made.
LEMMA Holding1 ==
    ASSUME SocketInv
    PROVE  /\ \A o \in Slots : m_sfd[o] # INVALID_SOCKET =>
                  m_sfd[o] \in Fds /\ Open(m_sfd[o]) /\ kernel[m_sfd[o]] \in Socket
           /\ \A t \in Threads : sfd[t] # INVALID_SOCKET =>
                  sfd[t] \in Fds /\ Open(sfd[t]) /\ kernel[sfd[t]] \in Socket
           /\ \A o \in Slots, t \in Threads :
                  m_sfd[o] # INVALID_SOCKET => m_sfd[o] # sfd[t]
           /\ \A o, p \in Slots : m_sfd[o] = m_sfd[p] /\ m_sfd[o] # INVALID_SOCKET => o = p
           /\ \A s, t \in Threads : sfd[s] = sfd[t] /\ sfd[s] # INVALID_SOCKET => s = t
           /\ ~Open(INVALID_SOCKET)
  BY StateTypes, Distinct DEF SocketInv, DescriptorsOwned, Open

\* A step that changes one socket changes nothing for the holders of others.
LEMMA OneSocket ==
    ASSUME TypeOK, NEW f, NEW x, kernel' = [kernel EXCEPT ![f] = x]
    PROVE  \A g \in Fds : g # f => kernel'[g] = kernel[g]
  BY StateTypes

\* What a thread constructs, moves or assigns, no other thread does,
Apart(s, t) ==
    /\ this[s] \notin {this[t], that[t]}
    /\ that[s] # None => that[s] \notin {this[t], that[t]}

ChangesApart ==
    \A s, t \in Threads : s # t /\ pc[s] \in Changing /\ pc[t] \in Changing => Apart(s, t)

\* and no other thread uses it at all, unless moved objects are shared.
Exclusive ==
    \A s, t \in Threads : s # t /\ pc[s] \in Changing /\ pc[t] # "idle" => Apart(s, t)

\* Then the descriptor that was read for a system call stays the object's.
Calls == {"bind_call", "listen_call", "set_option", "port_call", "sockerr",
          "reuse_addr", "v6only_call"}
Loaded == \A t \in Threads : pc[t] \in Calls => fd[t] = m_sfd[this[t]]

\* A call begins on objects it may use, goes on with them, or ends.
LEMMA CallShape ==
    ASSUME SocketInv, NEW t \in Threads, Step(t)
    PROVE  \/ /\ pc[t] = "idle" /\ this'[t] \in Vars /\ that'[t] \in Vars \cup {None}
              /\ ~BeingChanged(this'[t]) /\ (that'[t] \in Vars => ~BeingChanged(that'[t]))
              /\ ~SharedMoves =>
                    ~InUse(this'[t]) /\ (that'[t] \in Vars => ~InUse(that'[t]))
           \/ /\ pc[t] = "idle" /\ pc'[t] \notin Changing /\ that'[t] = None
              /\ this'[t] \in Vars /\ (~SharedMoves => ~BeingChanged(this'[t]))
           \/ /\ pc[t] # "idle" /\ this'[t] = this[t] /\ that'[t] \in {that[t], None}
              /\ pc'[t] \in Changing => pc[t] \in Changing
           \/ pc'[t] = "idle"
  <1>. TypeOK
    BY DEF SocketInv
  <1>. USE StateTypes, Distinct DEF Enter, Goto
  <1>0. \A o : ~InUse(o) => ~BeingChanged(o)
    BY DEF InUse, BeingChanged, Changing
  <1>1. CASE Setting(t) \/ Getting(t)
    <2>1. ASSUME NEW o \in Vars,
                 \/ \E ai \in Addrinfos : Bind(t, o, ai)
                 \/ Listen(t, o) \/ SetOption(t, o)
                 \/ IsBind(t, o) \/ IsListen(t, o) \/ GetPort(t, o)
                 \/ GetSockerr(t, o) \/ IsReuseAddr(t, o) \/ IsV6only(t, o)
          PROVE  /\ pc[t] = "idle" /\ pc'[t] \notin Changing /\ that'[t] = None
                 /\ this'[t] = o /\ (~SharedMoves => ~BeingChanged(o))
      BY <2>1 DEF Bind, Listen, SetOption, IsBind, IsListen, GetPort, GetSockerr,
                  IsReuseAddr, IsV6only, Unchecked, Check, MayCall, Changing
    <2>2. CASE pc[t] # "idle"
      BY <1>1, <2>2, PlainStep DEF Plain, Changing
    <2>3. CASE pc[t] = "idle" /\ Setting(t)
      BY <2>1, <2>3 DEF Setting, BindType, BindLock, BindCall, BindCallFails, BindStore,
                        ListenLock, ListenCall, ListenCallFails, ListenStore,
                        Setsockopt, SetsockoptFails
    <2>4. CASE pc[t] = "idle" /\ Getting(t)
      BY <2>1, <2>4 DEF Getting, IsBindRead, IsListenRead, GetPortIsBind, GetPortRead,
                        GetPortName, Getsockname, SockerrOption, ReuseOption,
                        V6onlyFamily, V6onlySfd, V6onlyOption, getsockopt_int
    <2>. QED BY <1>1, <2>2, <2>3, <2>4
  <1>2. CASE Construct(t)
    BY <1>0, <1>2 DEF Construct, Empty, CtorSocket, CtorSocketFails, Dtor,
                      MayConstruct, MayDestruct
  <1>3. CASE Constructing(t)
    BY <1>3 DEF Constructing, CtorReuse, CtorV6only, CtorOptionFails, Changing
  <1>4. CASE Moving(t)
    <2>1. ASSUME NEW o \in Vars, NEW p \in Vars, Move(t, o, p) \/ Assign(t, o, p)
          PROVE  /\ pc[t] = "idle" /\ this'[t] = o /\ that'[t] = p
                 /\ ~BeingChanged(o) /\ ~BeingChanged(p)
                 /\ ~SharedMoves => ~InUse(o) /\ ~InUse(p)
      BY <1>0, <2>1 DEF Move, Assign, MayConstruct, MayMove
    <2>. QED BY <1>4, <2>1 DEF Moving, MoveSfd, MoveFlags, AssignSfd, AssignFlags,
                               SwapSfd, SwapAf, SwapFlags, DropParam, Changing
  <1>5. CASE Return(t)
    BY <1>5 DEF Return
  <1>. QED BY <1>1, <1>2, <1>3, <1>4, <1>5 DEF Step

\* Nobody else comes to change what a thread changes,
LEMMA ApartStep ==
    ASSUME SocketInv, ChangesApart, NEW t \in Threads, Step(t)
    PROVE  ChangesApart'
  <1>a. TypeOK /\ ArgumentsKnown
    BY DEF SocketInv
  <1>b. \A s \in Threads \ {t} :
            pc'[s] = pc[s] /\ this'[s] = this[s] /\ that'[s] = that[s]
    BY <1>a, OthersKeep DEF Step
  <1>c. \A s \in Threads : pc[s] # "idle" => this[s] \in Vars
    BY <1>a, Arguments DEF SocketInv
  <1>d. None \notin Vars /\ "idle" \notin Changing
        /\ \A s \in Threads : that[s] \in Vars \cup {None} /\ this[s] \in Vars \cup {None}
    BY <1>a, StateTypes, Distinct DEF Changing
  <1>1. SUFFICES ASSUME NEW s \in Threads \ {t}, pc'[s] \in Changing, pc'[t] \in Changing
                 PROVE  Apart(s, t)' /\ Apart(t, s)'
    BY <1>b DEF ChangesApart, Apart
  <1>2. CASE /\ pc[t] = "idle" /\ this'[t] \in Vars /\ that'[t] \in Vars \cup {None}
             /\ ~BeingChanged(this'[t]) /\ (that'[t] \in Vars => ~BeingChanged(that'[t]))
    BY <1>b, <1>c, <1>d, <1>1, <1>2 DEF BeingChanged, Apart
  <1>3. CASE /\ pc[t] # "idle" /\ this'[t] = this[t] /\ that'[t] \in {that[t], None}
             /\ pc'[t] \in Changing => pc[t] \in Changing
    BY <1>b, <1>c, <1>d, <1>1, <1>3 DEF ChangesApart, Apart
  <1>. QED BY <1>1, <1>d, <1>2, <1>3, CallShape

\* or to use it.
LEMMA ExclusiveStep ==
    ASSUME SocketInv, Exclusive, ~SharedMoves, NEW t \in Threads, Step(t)
    PROVE  Exclusive'
  <1>a. TypeOK /\ ArgumentsKnown
    BY DEF SocketInv
  <1>b. \A s \in Threads \ {t} :
            pc'[s] = pc[s] /\ this'[s] = this[s] /\ that'[s] = that[s]
    BY <1>a, OthersKeep DEF Step
  <1>c. \A s \in Threads : pc[s] # "idle" => this[s] \in Vars
    BY <1>a, Arguments DEF SocketInv
  <1>d. None \notin Vars /\ "idle" \notin Changing
        /\ \A s \in Threads : that[s] \in Vars \cup {None} /\ this[s] \in Vars \cup {None}
    BY <1>a, StateTypes, Distinct DEF Changing
  <1>1. SUFFICES ASSUME NEW s \in Threads \ {t}
                 PROVE  /\ pc'[s] \in Changing /\ pc'[t] # "idle" => Apart(s, t)'
                        /\ pc'[t] \in Changing /\ pc'[s] # "idle" => Apart(t, s)'
    BY <1>b DEF Exclusive, Apart
  <1>2. CASE /\ pc[t] = "idle" /\ this'[t] \in Vars /\ ~InUse(this'[t])
             /\ that'[t] \in Vars => ~InUse(that'[t])
             /\ that'[t] \in Vars \cup {None}
    BY <1>b, <1>c, <1>d, <1>2 DEF InUse, Apart
  <1>3. CASE /\ pc[t] = "idle" /\ pc'[t] \notin Changing /\ that'[t] = None
             /\ this'[t] \in Vars /\ ~BeingChanged(this'[t])
    BY <1>b, <1>c, <1>d, <1>3 DEF BeingChanged, Apart
  <1>4. CASE /\ pc[t] # "idle" /\ this'[t] = this[t] /\ that'[t] \in {that[t], None}
             /\ pc'[t] \in Changing => pc[t] \in Changing
    BY <1>b, <1>c, <1>d, <1>4 DEF Exclusive, Apart
  <1>5. CASE pc'[t] = "idle"
    BY <1>b, <1>d, <1>5
  <1>. QED BY <1>2, <1>3, <1>4, <1>5, CallShape

\* Nobody else takes the socket of an object that a call works on,
LEMMA SocketsStay ==
    ASSUME SocketInv, Exclusive, NEW t \in Threads, Step(t),
           NEW s \in Threads \ {t}, pc[s] # "idle"
    PROVE  m_sfd'[this[s]] = m_sfd[this[s]]
  <1>a. TypeOK /\ LifetimeRespected /\ this[s] \in Vars /\ this[s] \in Slots
    BY Arguments DEF SocketInv
  <1>b. /\ this[s] \in Slots /\ this[s] # t
        /\ m_sfd \in [Slots -> Fds \cup {INVALID_SOCKET}]
    BY <1>a, StateTypes, Distinct
  <1>c. pc[t] \in Changing => this[s] # this[t] /\ this[s] # that[t]
    BY <1>a, Distinct DEF Exclusive, Apart
  <1>1. CASE Setting(t) \/ Getting(t) \/ Return(t)
    BY <1>1, PlainStep
  <1>2. CASE Construct(t)
    <2>1. ASSUME NEW o \in Vars, Dtor(t, o) PROVE m_sfd'[this[s]] = m_sfd[this[s]]
      BY <1>b, <2>1 DEF Dtor, MayDestruct, InUse, Destruct
    <2>. QED BY <1>2, <2>1 DEF Construct, Empty, CtorSocket, CtorSocketFails, objects
  <1>3. CASE Constructing(t)
    BY <1>b, <1>c, <1>3 DEF Constructing, CtorReuse, CtorV6only, CtorOptionFails, Goto,
                            Changing, objects
  <1>4. CASE MoveSfd(t) \/ AssignSfd(t) \/ SwapSfd(t)
    BY <1>b, <1>c, <1>4 DEF MoveSfd, AssignSfd, SwapSfd, TakeSfd, Goto, Changing
  <1>5. CASE DropParam(t)
    BY <1>b, <1>5 DEF DropParam, Destruct
  <1>6. CASE Moving(t) /\ ~(MoveSfd(t) \/ AssignSfd(t) \/ SwapSfd(t) \/ DropParam(t))
    BY <1>6 DEF Moving, Move, Assign, MoveFlags, AssignFlags, SwapAf, SwapFlags
  <1>. QED BY <1>1, <1>2, <1>3, <1>4, <1>5, <1>6 DEF Step

\* and a call passes on what it has just read.
LEMMA LoadedStep ==
    ASSUME SocketInv, Exclusive, Loaded, NEW t \in Threads, Step(t)
    PROVE  Loaded'
  <1>a. TypeOK
    BY DEF SocketInv
  <1>1. ASSUME NEW s \in Threads \ {t}, pc'[s] \in Calls
        PROVE  fd'[s] = m_sfd'[this'[s]]
    <2>1. pc'[s] = pc[s] /\ this'[s] = this[s] /\ fd'[s] = fd[s]
      BY <1>a, OthersKeep DEF Step
    <2>2. pc[s] # "idle"
      BY <1>1, <2>1 DEF Calls
    <2>. QED BY <1>1, <2>1, <2>2, SocketsStay DEF Loaded
  <1>2. ASSUME pc'[t] \in Calls PROVE fd'[t] = m_sfd'[this'[t]]
    <2>. USE <1>a, StateTypes DEF Enter, Goto, Load, objects
    <2>1. CASE Setting(t)
      BY <1>2, <2>1 DEF Setting, Bind, Listen, SetOption, BindType, BindLock, BindCall,
           BindCallFails, BindStore, ListenLock, ListenCall, ListenCallFails, ListenStore,
           Setsockopt, SetsockoptFails, Calls
    <2>2. CASE Getting(t)
      BY <1>2, <2>2 DEF Getting, IsBind, IsListen, GetPort, GetSockerr, IsReuseAddr,
           IsV6only, Check, Unchecked, IsBindRead, IsListenRead, GetPortIsBind,
           GetPortRead, GetPortName, Getsockname, SockerrOption, ReuseOption,
           V6onlyFamily, V6onlySfd, V6onlyOption, getsockopt_int, Calls
    <2>3. CASE Construct(t) \/ Constructing(t) \/ Moving(t) \/ Return(t)
      BY <1>2, <2>3 DEF Construct, Empty, CtorSocket, CtorSocketFails, Dtor, Constructing,
           CtorReuse, CtorV6only, CtorOptionFails, Moving, Move, Assign, MoveSfd,
           MoveFlags, AssignSfd, AssignFlags, SwapSfd, SwapAf, SwapFlags, DropParam,
           Return, Calls
    <2>. QED BY <2>1, <2>2, <2>3 DEF Step
  <1>. QED BY <1>1, <1>2 DEF Loaded

\* No two threads construct, move or assign one object, whether or not others
\* use it.
THEOREM ChangesStayApart == Spec => []ChangesApart
  <1>1. Init => ChangesApart
    BY DEF Init, ChangesApart, Changing
  <1>2. SocketInv /\ ChangesApart /\ [Next]_vars => ChangesApart'
    <2>1. SUFFICES ASSUME SocketInv, ChangesApart, [Next]_vars PROVE ChangesApart'
      OBVIOUS
    <2>2. CASE Next
      BY <2>1, <2>2, ApartStep DEF Next, Step
    <2>3. CASE UNCHANGED vars
      BY <2>1, <2>3 DEF ChangesApart, Apart, vars, call
    <2>. QED BY <2>1, <2>2, <2>3
  <1>. QED BY <1>1, <1>2, SocketInvHolds, PTL DEF Spec

\* A descriptor that was read for a system call is the object's when the call is
\* made, unless objects are moved while others use them (socket.cpp:168-278).
THEOREM CallsUseTheirSocket ==
    ASSUME ~SharedMoves PROVE Spec => [](Exclusive /\ Loaded)
  <1>1. Init => Exclusive /\ Loaded
    BY DEF Init, Exclusive, Loaded, Changing, Calls
  <1>2. SocketInv /\ (Exclusive /\ Loaded) /\ [Next]_vars => (Exclusive /\ Loaded)'
    <2>1. SUFFICES ASSUME SocketInv, Exclusive, Loaded, [Next]_vars
                   PROVE  Exclusive' /\ Loaded'
      OBVIOUS
    <2>2. CASE Next
      BY <2>1, <2>2, ExclusiveStep, LoadedStep DEF Next, Step
    <2>3. CASE UNCHANGED vars
      BY <2>1, <2>3 DEF Exclusive, Apart, Loaded, vars, objects, call, local
    <2>. QED BY <2>1, <2>2, <2>3
  <1>. QED BY <1>1, <1>2, SocketInvHolds, PTL DEF Spec
-----------------------------------------------------------------------------
(* Sockets.                                                                *)

\* Only an IPv6 socket has IPV6_V6ONLY set, and only listen() makes the system
\* choose a port.
Sane(s) == (s.v6only => s.af = "AF_INET6") /\ (s.addr = Ephemeral => s.lis)
SystemSane == \A f \in Fds : Open(f) => Sane(kernel[f])

\* A step does one thing to the system, and never changes a socket's family.
LEMMA SystemShape ==
    ASSUME SocketInv, SystemSane, NEW t \in Threads, Step(t)
    PROVE  \/ UNCHANGED kernel
           \/ \E f \in Fds \cup {INVALID_SOCKET} : kernel' = Closed(f)
           \/ \E f \in Fds, s \in Socket :
                 /\ kernel' = [kernel EXCEPT ![f] = s] /\ Sane(s)
                 /\ Open(f) => s.af = kernel[f].af
  <1>a. /\ TypeOK /\ ArgumentsKnown /\ kernel \in [Fds -> Socket \cup {None}]
        /\ pc[t] \in {"ctor_reuse", "ctor_v6only"} =>
               sfd[t] \in Fds /\ kernel[sfd[t]] \in Socket /\ Sane(kernel[sfd[t]])
        /\ Open(fd[t]) => fd[t] \in Fds /\ kernel[fd[t]] \in Socket /\ Sane(kernel[fd[t]])
        /\ m_sfd \in [Slots -> Fds \cup {INVALID_SOCKET}]
    <2>1. pc[t] \in {"ctor_reuse", "ctor_v6only"} =>
              sfd[t] \in Fds /\ Open(sfd[t]) /\ kernel[sfd[t]] \in Socket
      BY Arguments, Holding1, Distinct DEF SocketInv
    <2>2. Open(fd[t]) => fd[t] \in Fds /\ kernel[fd[t]] \in Socket
      BY StateTypes DEF SocketInv, Open
    <2>. QED BY <2>1, <2>2, StateTypes DEF SocketInv, SystemSane
  <1>1. CASE Construct(t)
    <2>1. ASSUME NEW o \in Vars, CtorSocket(t, o)
          PROVE  \E f \in Fds, s \in Socket :
                    /\ kernel' = [kernel EXCEPT ![f] = s] /\ Sane(s)
                    /\ Open(f) => s.af = kernel[f].af
      <3>1. PICK k \in Kinds, f \in Fds, r \in BOOLEAN, v \in BOOLEAN :
              /\ LowestFree(f) /\ (v => k[1] = "AF_INET6")
              /\ kernel' = [kernel EXCEPT ![f] =
                    [af |-> k[1], type |-> k[2], addr |-> Unbound, lis |-> FALSE,
                     reuse |-> r, v6only |-> v]]
        BY <2>1 DEF CtorSocket
      <3>. DEFINE s == [af |-> k[1], type |-> k[2], addr |-> Unbound, lis |-> FALSE,
                        reuse |-> r, v6only |-> v]
      <3>2. k[1] \in Domains /\ k[2] \in Types
        BY CSocketAssumption
      <3>3. s \in Socket /\ Sane(s)
        BY <3>1, <3>2 DEF Socket, Sane, Unbound, Ephemeral
      <3>. QED BY <3>1, <3>3 DEF LowestFree
    <2>2. ASSUME NEW o \in Vars, Dtor(t, o)
          PROVE  \E f \in Fds \cup {INVALID_SOCKET} : kernel' = Closed(f)
      BY <1>a, <2>2, Distinct DEF Dtor, Destruct
    <2>. QED BY <1>1, <2>1, <2>2 DEF Construct, Empty, CtorSocketFails
  <1>2. CASE CtorReuse(t)
    <2>1. PICK s : s = [kernel[sfd[t]] EXCEPT !.reuse = FALSE]
      OBVIOUS
    <2>2. kernel' = [kernel EXCEPT ![sfd[t]] = s] /\ pc[t] = "ctor_reuse"
      BY <1>2, <2>1 DEF CtorReuse
    <2>3. s \in Socket /\ Sane(s) /\ s.af = kernel[sfd[t]].af
      BY <1>a, <2>1, <2>2 DEF Socket, Sane
    <2>. QED BY <1>a, <2>2, <2>3
  <1>3. CASE CtorV6only(t)
    <2>1. PICK s : s = [kernel[sfd[t]] EXCEPT !.v6only = FALSE]
      OBVIOUS
    <2>2. kernel' = [kernel EXCEPT ![sfd[t]] = s] /\ pc[t] = "ctor_v6only"
      BY <1>3, <2>1 DEF CtorV6only, Goto
    <2>3. s \in Socket /\ Sane(s) /\ s.af = kernel[sfd[t]].af
      BY <1>a, <2>1, <2>2 DEF Socket, Sane
    <2>. QED BY <1>a, <2>2, <2>3
  <1>4. CASE CtorOptionFails(t)
    BY <1>a, <1>4 DEF CtorOptionFails, Goto
  <1>5. CASE Moving(t)
    <2>1. CASE DropParam(t)
      BY <1>a, <2>1, Distinct DEF DropParam, Destruct
    <2>. QED BY <1>5, <2>1 DEF Moving, Move, Assign, MoveSfd, MoveFlags, AssignSfd,
                               AssignFlags, SwapSfd, SwapAf, SwapFlags
  <1>6. CASE BindCall(t)
    <2>1. PICK s : s = [kernel[fd[t]] EXCEPT !.addr = port[t].port]
      OBVIOUS
    <2>2. kernel' = [kernel EXCEPT ![fd[t]] = s] /\ pc[t] = "bind_call" /\ Open(fd[t])
      BY <1>6, <2>1 DEF BindCall, BindAllowed, Goto
    <2>3. port[t].port \in Ports
      BY <1>a, <2>2 DEF ArgumentsKnown, Addrinfos
    <2>4. s \in Socket /\ Sane(s) /\ s.af = kernel[fd[t]].af
      BY <1>a, <2>1, <2>2, <2>3, CSocketAssumption DEF Socket, Sane
    <2>. QED BY <1>a, <2>2, <2>4
  <1>7. CASE ListenCall(t)
    <2>1. PICK s : s = Listening(kernel[fd[t]])
      OBVIOUS
    <2>2. kernel' = [kernel EXCEPT ![fd[t]] = s] /\ Open(fd[t])
      BY <1>7, <2>1 DEF ListenCall, ListenAllowed
    <2>3. s \in Socket
      BY <1>a, <2>1, <2>2, SocketUpdates
    <2>4. Sane(s) /\ s.af = kernel[fd[t]].af
      BY <1>a, <2>1, <2>2 DEF Socket, Sane, Listening
    <2>. QED BY <1>a, <2>2, <2>3, <2>4
  <1>8. CASE Setsockopt(t)
    <2>1. PICK so \in {"reuse", "v6only"}, v \in BOOLEAN :
            /\ so = "v6only" => kernel[fd[t]].af = "AF_INET6"
            /\ kernel' = [kernel EXCEPT ![fd[t]] = WithOption(kernel[fd[t]], so, v)]
      BY <1>8, CSocketAssumption DEF Setsockopt
    <2>2. Open(fd[t])
      BY <1>8 DEF Setsockopt
    <2>3. PICK s : s = WithOption(kernel[fd[t]], so, v)
      OBVIOUS
    <2>4. s \in Socket
      BY <1>a, <2>2, <2>3, SocketUpdates
    <2>5. Sane(s) /\ s.af = kernel[fd[t]].af
      BY <1>a, <2>1, <2>2, <2>3 DEF Socket, Sane, WithOption
    <2>. QED BY <1>a, <2>1, <2>2, <2>3, <2>4, <2>5
  <1>9. CASE Setting(t) /\ ~(BindCall(t) \/ ListenCall(t) \/ Setsockopt(t))
    BY <1>9 DEF Setting, Bind, Listen, SetOption, BindType, BindLock, BindCallFails,
                BindStore, ListenLock, ListenCallFails, ListenStore, SetsockoptFails
  <1>10. CASE Getting(t) \/ Return(t)
    BY <1>10 DEF Getting, IsBind, IsListen, GetPort, GetSockerr, IsReuseAddr, IsV6only,
                 Check, Unchecked, IsBindRead, IsListenRead, GetPortIsBind, GetPortRead,
                 GetPortName, Getsockname, SockerrOption, ReuseOption, V6onlyFamily,
                 V6onlySfd, V6onlyOption, getsockopt_int, Return
  <1>. QED BY <1>1, <1>2, <1>3, <1>4, <1>5, <1>6, <1>7, <1>8, <1>9, <1>10
           DEF Step, Constructing

\* What is so of all sockets stays so; the family of each stays.
LEMMA SystemStep ==
    ASSUME SocketInv, SystemSane, NEW t \in Threads, Step(t)
    PROVE  /\ SystemSane'
           /\ \A f \in Fds : Open(f) /\ Open(f)' => kernel'[f].af = kernel[f].af
  <1>a. kernel \in [Fds -> Socket \cup {None}]
    BY StateTypes DEF SocketInv
  <1>1. CASE UNCHANGED kernel
    BY <1>1 DEF SystemSane, Open
  <1>2. ASSUME NEW f \in Fds \cup {INVALID_SOCKET}, kernel' = Closed(f)
        PROVE  /\ SystemSane'
               /\ \A g \in Fds : Open(g) /\ Open(g)' => kernel'[g].af = kernel[g].af
    BY <1>a, <1>2 DEF SystemSane, Open, Closed
  <1>3. ASSUME NEW f \in Fds, NEW s \in Socket,
               kernel' = [kernel EXCEPT ![f] = s], Sane(s),
               Open(f) => s.af = kernel[f].af
        PROVE  /\ SystemSane'
               /\ \A g \in Fds : Open(g) /\ Open(g)' => kernel'[g].af = kernel[g].af
    BY <1>a, <1>3 DEF SystemSane, Open
  <1>. QED BY <1>1, <1>2, <1>3, SystemShape

\* Whatever descriptors calls pass to the system, the sockets there are sane.
THEOREM SystemStaysSane == Spec => []SystemSane
  <1>1. Init => SystemSane
    BY DEF Init, SystemSane, Open
  <1>2. SocketInv /\ SystemSane /\ [Next]_vars => SystemSane'
    <2>1. SUFFICES ASSUME SocketInv, SystemSane, [Next]_vars PROVE SystemSane'
      OBVIOUS
    <2>2. CASE Next
      BY <2>1, <2>2, SystemStep DEF Next, Step
    <2>3. CASE UNCHANGED vars
      BY <2>1, <2>3 DEF SystemSane, Open, vars
    <2>. QED BY <2>1, <2>2, <2>3
  <1>. QED BY <1>1, <1>2, SocketInvHolds, PTL DEF Spec

\* Nobody but its constructor touches a new socket.
LEMMA NewAlone ==
    ASSUME SocketInv, Loaded, NEW t \in Threads, Step(t),
           NEW s \in Threads \ {t}, sfd[s] # INVALID_SOCKET
    PROVE  kernel'[sfd[s]] = kernel[sfd[s]]
  <1>a. /\ TypeOK /\ kernel \in [Fds -> Socket \cup {None}]
        /\ sfd[s] \in Fds /\ Open(sfd[s]) /\ sfd[s] # sfd[t]
        /\ \A o \in Slots : m_sfd[o] # sfd[s]
        /\ pc[t] # "idle" => this[t] \in Slots
        /\ t \in Slots
    <2>1. \A o \in Slots : m_sfd[o] # sfd[s]
      BY Holding1
    <2>. QED BY <2>1, Holding1, StateTypes, Arguments, Distinct DEF SocketInv
  <1>1. CASE Construct(t)
    <2>1. ASSUME NEW o \in Vars, CtorSocket(t, o) PROVE kernel'[sfd[s]] = kernel[sfd[s]]
      <3>1. PICK f \in Fds : ~Open(f) /\ \E x : kernel' = [kernel EXCEPT ![f] = x]
        BY <2>1 DEF CtorSocket, LowestFree
      <3>. QED BY <1>a, <3>1
    <2>2. ASSUME NEW o \in Vars, Dtor(t, o) PROVE kernel'[sfd[s]] = kernel[sfd[s]]
      BY <1>a, <2>2, Distinct DEF Dtor, Destruct, Closed
    <2>. QED BY <1>1, <2>1, <2>2 DEF Construct, Empty, CtorSocketFails
  <1>2. CASE Constructing(t)
    BY <1>a, <1>2 DEF Constructing, CtorReuse, CtorV6only, CtorOptionFails, Closed
  <1>3. CASE Moving(t)
    <2>1. CASE DropParam(t)
      BY <1>a, <2>1 DEF DropParam, Destruct, Closed
    <2>. QED BY <1>3, <2>1 DEF Moving, Move, Assign, MoveSfd, MoveFlags, AssignSfd,
                               AssignFlags, SwapSfd, SwapAf, SwapFlags
  <1>4. CASE BindCall(t) \/ ListenCall(t) \/ Setsockopt(t)
    <2>1. pc[t] \in Calls
      BY <1>4 DEF BindCall, ListenCall, Setsockopt, Goto, Calls
    <2>2. fd[t] # sfd[s]
      BY <1>a, <2>1 DEF Loaded, Calls
    <2>. QED BY <1>a, <1>4, <2>2 DEF BindCall, ListenCall, Setsockopt
  <1>5. CASE Setting(t) /\ ~(BindCall(t) \/ ListenCall(t) \/ Setsockopt(t))
    BY <1>5 DEF Setting, Bind, Listen, SetOption, BindType, BindLock, BindCallFails,
                BindStore, ListenLock, ListenCallFails, ListenStore, SetsockoptFails
  <1>6. CASE Getting(t) \/ Return(t)
    BY <1>6 DEF Getting, IsBind, IsListen, GetPort, GetSockerr, IsReuseAddr, IsV6only,
                Check, Unchecked, IsBindRead, IsListenRead, GetPortIsBind, GetPortRead,
                GetPortName, Getsockname, SockerrOption, ReuseOption, V6onlyFamily,
                V6onlySfd, V6onlyOption, getsockopt_int, Return
  <1>. QED BY <1>1, <1>2, <1>3, <1>4, <1>5, <1>6 DEF Step
=============================================================================
