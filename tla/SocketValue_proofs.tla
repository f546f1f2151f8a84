------------------------- MODULE SocketValue_proofs -------------------------
(***************************************************************************)
(* Proof that CSocket implements SocketValue, for every number of objects, *)
(* threads, descriptors and ports, for objects that are not moved while    *)
(* others use them.                                                        *)
(*                                                                         *)
(* It rests on SocketInv: because no two hold the same descriptor, what a  *)
(* step does to the descriptor table it does to the socket of one holder;  *)
(* and on Loaded: the descriptor a call has read is still its object's     *)
(* when the call reaches the system.                                       *)
(***************************************************************************)
EXTENDS CSocket_proofs

\* A socket under construction has SO_REUSEADDR reset before IPV6_V6ONLY.
OptionsOnTheWay ==
    \A t \in Threads : pc[t] = "ctor_v6only" => ~kernel[sfd[t]].reuse
-----------------------------------------------------------------------------
(* Holders and their sockets. *)

\* Who holds a descriptor holds an open one, and an open one is held.
LEMMA Holders2 ==
    ASSUME SocketInv
    PROVE  /\ m_sfd \in [Slots -> Fds \cup {INVALID_SOCKET}]
           /\ sfd \in [Threads -> Fds \cup {INVALID_SOCKET}]
           /\ kernel \in [Fds -> Socket \cup {None}]
           /\ INVALID_SOCKET \notin Fds /\ None \notin Socket
           /\ \A o \in Slots : m_sfd[o] # INVALID_SOCKET =>
                  m_sfd[o] \in Fds /\ Held[o] = kernel[m_sfd[o]] /\ Held[o] \in Socket
           /\ \A o \in Slots : m_sfd[o] = INVALID_SOCKET => Held[o] = None
           /\ \A t \in Threads : sfd[t] # INVALID_SOCKET =>
                  sfd[t] \in Fds /\ Making[t] = kernel[sfd[t]] /\ Making[t] \in Socket
           /\ \A t \in Threads : sfd[t] = INVALID_SOCKET => Making[t] = None
           /\ \A o, p \in Slots : m_sfd[o] = m_sfd[p] /\ m_sfd[o] # INVALID_SOCKET => o = p
           /\ \A s, t \in Threads : sfd[s] = sfd[t] /\ sfd[s] # INVALID_SOCKET => s = t
           /\ \A o \in Slots, t \in Threads : m_sfd[o] = sfd[t] => m_sfd[o] = INVALID_SOCKET
  <1>1. TypeOK /\ DescriptorsOwned
    BY DEF SocketInv
  <1>2. /\ m_sfd \in [Slots -> Fds \cup {INVALID_SOCKET}]
        /\ sfd \in [Threads -> Fds \cup {INVALID_SOCKET}]
        /\ kernel \in [Fds -> Socket \cup {None}]
        /\ INVALID_SOCKET \notin Fds /\ None \notin Socket
    BY <1>1, StateTypes, Distinct
  <1>3. /\ \A o \in Slots : m_sfd[o] # INVALID_SOCKET => Open(m_sfd[o])
        /\ \A t \in Threads : sfd[t] # INVALID_SOCKET => Open(sfd[t])
    BY <1>1 DEF DescriptorsOwned
  <1>4. \A o \in Slots : m_sfd[o] # INVALID_SOCKET =>
            m_sfd[o] \in Fds /\ Held[o] = kernel[m_sfd[o]] /\ Held[o] \in Socket
    BY <1>2, <1>3 DEF Held, Open
  <1>5. \A t \in Threads : sfd[t] # INVALID_SOCKET =>
            sfd[t] \in Fds /\ Making[t] = kernel[sfd[t]] /\ Making[t] \in Socket
    BY <1>2, <1>3 DEF Making, Open
  <1>6. /\ \A o \in Slots : m_sfd[o] = INVALID_SOCKET => Held[o] = None
        /\ \A t \in Threads : sfd[t] = INVALID_SOCKET => Making[t] = None
    BY DEF Held, Making
  <1>. QED BY <1>1, <1>2, <1>4, <1>5, <1>6 DEF DescriptorsOwned

\* What is said of each holder is said of all.
LEMMA Tables ==
    /\ Held = [o \in Slots |-> Held[o]] /\ Held' = [o \in Slots |-> Held'[o]]
    /\ Making = [t \in Threads |-> Making[t]] /\ Making' = [t \in Threads |-> Making'[t]]
    /\ Busy = [t \in Threads |-> Busy[t]] /\ Busy' = [t \in Threads |-> Busy'[t]]
  BY DEF Held, Making, Busy

\* A step that leaves descriptors alone is not seen.
LEMMA NothingSeen ==
    UNCHANGED <<kernel, m_sfd, sfd>> => Held' = Held /\ Making' = Making
  BY DEF Held, Making

\* A system call on the descriptor of an object changes the socket of that
\* object and no other.
LEMMA CallOnObject ==
    ASSUME SocketInv, UNCHANGED <<m_sfd, sfd>>, NEW o \in Slots,
           m_sfd[o] # INVALID_SOCKET, NEW s, kernel' = [kernel EXCEPT ![m_sfd[o]] = s]
    PROVE  Held' = [Held EXCEPT ![o] = s] /\ Making' = Making
  <1>1. \A x \in Slots : Held'[x] = IF x = o THEN s ELSE Held[x]
    BY Holders2 DEF Held
  <1>2. \A t \in Threads : Making'[t] = Making[t]
    BY Holders2 DEF Making
  <1>. QED BY <1>1, <1>2, Tables

\* One on the descriptor of a constructor changes the socket it makes.
LEMMA CallOnNew ==
    ASSUME SocketInv, UNCHANGED <<m_sfd, sfd>>, NEW t \in Threads,
           sfd[t] # INVALID_SOCKET, NEW s, kernel' = [kernel EXCEPT ![sfd[t]] = s]
    PROVE  Held' = Held /\ Making' = [Making EXCEPT ![t] = s]
  <1>1. \A x \in Slots : Held'[x] = Held[x]
    BY Holders2 DEF Held
  <1>2. \A u \in Threads : Making'[u] = IF u = t THEN s ELSE Making[u]
    BY Holders2 DEF Making
  <1>. QED BY <1>1, <1>2, Tables

\* The constructor stores what it made.
LEMMA Stored ==
    ASSUME SocketInv, NEW t \in Threads, sfd[t] # INVALID_SOCKET, NEW o \in Slots,
           m_sfd[o] = INVALID_SOCKET, NEW s, kernel' = [kernel EXCEPT ![sfd[t]] = s],
           m_sfd' = [m_sfd EXCEPT ![o] = sfd[t]],
           sfd' = [sfd EXCEPT ![t] = INVALID_SOCKET]
    PROVE  /\ Held' = [Held EXCEPT ![o] = s]
           /\ Making' = [Making EXCEPT ![t] = None]
  <1>1. \A x \in Slots : Held'[x] = IF x = o THEN s ELSE Held[x]
    BY Holders2 DEF Held
  <1>2. \A u \in Threads : Making'[u] = IF u = t THEN None ELSE Making[u]
    BY Holders2 DEF Making
  <1>. QED BY <1>1, <1>2, Tables

\* Closing the descriptor of an object, or of a constructor, takes the socket
\* from that one only.
LEMMA ClosedByObject ==
    ASSUME SocketInv, NEW o \in Slots, kernel' = Closed(m_sfd[o]), UNCHANGED sfd,
           m_sfd' = [m_sfd EXCEPT ![o] = INVALID_SOCKET]
    PROVE  Held' = [Held EXCEPT ![o] = None] /\ Making' = Making
  <1>1. \A x \in Slots : Held'[x] = IF x = o THEN None ELSE Held[x]
    BY Holders2 DEF Held, Closed, Open
  <1>2. \A t \in Threads : Making'[t] = Making[t]
    BY Holders2 DEF Making, Closed, Open
  <1>. QED BY <1>1, <1>2, Tables

LEMMA ClosedByConstructor ==
    ASSUME SocketInv, NEW t \in Threads, kernel' = Closed(sfd[t]), UNCHANGED m_sfd,
           sfd' = [sfd EXCEPT ![t] = INVALID_SOCKET]
    PROVE  Held' = Held /\ Making' = [Making EXCEPT ![t] = None]
  <1>1. \A x \in Slots : Held'[x] = Held[x]
    BY Holders2 DEF Held, Closed, Open
  <1>2. \A u \in Threads : Making'[u] = IF u = t THEN None ELSE Making[u]
    BY Holders2 DEF Making, Closed, Open
  <1>. QED BY <1>1, <1>2, Tables

\* Exchanging descriptors exchanges sockets.
LEMMA Exchanged ==
    ASSUME SocketInv, UNCHANGED <<kernel, sfd>>, NEW o \in Slots, NEW p \in Slots, o # p,
           m_sfd' = [m_sfd EXCEPT ![o] = m_sfd[p], ![p] = m_sfd[o]]
    PROVE  Held' = [Held EXCEPT ![o] = Held[p], ![p] = Held[o]] /\ Making' = Making
  <1>1. \A x \in Slots : Held'[x] = IF x = o THEN Held[p] ELSE IF x = p THEN Held[o]
                                    ELSE Held[x]
    BY Holders2 DEF Held
  <1>2. \A t \in Threads : Making'[t] = Making[t]
    BY DEF Making
  <1>. QED BY <1>1, <1>2, Tables
-----------------------------------------------------------------------------
(* The object a call is busy with. *)

\* A step makes only its own thread busy.
LEMMA BusyStep ==
    ASSUME SocketInv, NEW t \in Threads, Step(t)
    PROVE  Busy' = [Busy EXCEPT ![t] = Busy'[t]]
  <1>1. \A u \in Threads \ {t} : pc'[u] = pc[u] /\ this'[u] = this[u]
    BY OthersKeep DEF Step, SocketInv
  <1>2. \A u \in Threads \ {t} : Busy'[u] = Busy[u]
    BY <1>1 DEF Busy
  <1>. QED BY <1>2, Tables

LEMMA NotBusy ==
    ASSUME SocketInv, NEW t \in Threads, Step(t), pc[t] \notin Setters, pc'[t] \notin Setters
    PROVE  Busy' = Busy
  <1>1. Busy[t] = None /\ Busy'[t] = None
    BY DEF Busy
  <1>. QED BY <1>1, BusyStep, Tables

\* Constructors, moves and getters are busy with none.
LEMMA OthersNotBusy ==
    ASSUME SocketInv, NEW t \in Threads,
           Construct(t) \/ Constructing(t) \/ Moving(t) \/ Getting(t) \/ Return(t)
    PROVE  Busy' = Busy
  <1>. USE DEF Enter, Goto, Setters
  <1>a. Step(t) /\ pc \in [Threads -> Pcs]
    BY StateTypes DEF SocketInv, Step
  <1>1. CASE Construct(t) \/ Constructing(t)
    BY <1>a, <1>1, NotBusy DEF Construct, Empty, CtorSocket, CtorSocketFails, Dtor,
       Constructing, CtorReuse, CtorV6only, CtorOptionFails
  <1>2. CASE Moving(t)
    BY <1>a, <1>2, NotBusy DEF Moving, Move, Assign, MoveSfd, MoveFlags, AssignSfd,
       AssignFlags, SwapSfd, SwapAf, SwapFlags, DropParam
  <1>3. CASE Getting(t) \/ Return(t)
    BY <1>a, <1>3, NotBusy
       DEF Getting, IsBind, IsListen, GetPort, Check, IsBindRead, IsListenRead,
           GetPortIsBind, GetPortRead, GetPortName, Getsockname, GetSockerr,
           IsReuseAddr, IsV6only, Unchecked, SockerrOption, ReuseOption, V6onlyFamily,
           V6onlySfd, V6onlyOption, getsockopt_int, Return
  <1>. QED BY <1>1, <1>2, <1>3

\* Nobody is busy with what a thread moves, assigns or drops,
LEMMA Resting ==
    ASSUME SocketInv, Exclusive, NEW t \in Threads, pc[t] \in Changing,
           NEW q \in Slots, q \in {t, this[t], that[t]}
    PROVE  Value!AtRest(q)
  <1>1. None \notin Slots /\ t \notin Vars /\ q # None
    BY Distinct
  <1>2. SUFFICES ASSUME NEW u \in Threads, pc[u] \in Setters PROVE this[u] # q
    BY <1>1 DEF Value!AtRest, Busy
  <1>3. u # t /\ pc[u] # "idle" /\ this[u] \in Vars
    BY <1>2, Arguments DEF SocketInv, Setters, Changing
  <1>4. this[u] # this[t] /\ this[u] # that[t]
    BY <1>3, Distinct DEF Exclusive, Apart
  <1>. QED BY <1>1, <1>3, <1>4

\* or with an object nobody uses.
LEMMA UnusedRests ==
    ASSUME SocketInv, NEW o \in Vars, ~InUse(o) PROVE Value!AtRest(o)
  BY Distinct DEF InUse, Value!AtRest, Busy, Setters
-----------------------------------------------------------------------------
(* The steps. *)

\* What a call of thread t works on.
LEMMA Working ==
    ASSUME SocketInv, NEW t \in Threads
    PROVE  /\ t \in Slots /\ t \notin Vars /\ \A o \in Vars : o \in Slots
           /\ pc[t] # "idle" => this[t] \in Vars /\ this[t] \in Slots
           /\ pc[t] = "idle" => m_sfd[t] = INVALID_SOCKET /\ sfd[t] = INVALID_SOCKET
           /\ pc[t] \in {"ctor_reuse", "ctor_v6only"} =>
                  /\ sfd[t] # INVALID_SOCKET /\ sfd[t] \in Fds
                  /\ m_sfd[this[t]] = INVALID_SOCKET
           /\ pc[t] = "bind_call" => port[t] \in Addrinfos
           /\ \A o \in Vars : MayConstruct(o) => m_sfd[o] = INVALID_SOCKET
  <1>1. TypeOK /\ ArgumentsKnown /\ NoStrayDescriptor
    BY DEF SocketInv
  <1>2. pc[t] = "idle" => sfd[t] = INVALID_SOCKET
    BY <1>1 DEF NoStrayDescriptor
  <1>3. pc[t] \in {"ctor_reuse", "ctor_v6only"} => sfd[t] # INVALID_SOCKET
    BY <1>1 DEF NoStrayDescriptor
  <1>. QED BY <1>1, <1>2, <1>3, Arguments, FreeSlots, Distinct

\* Constructors.
LEMMA MakeStep ==
    ASSUME SocketInv, NEW t \in Threads, NEW o \in Vars, CtorSocket(t, o),
           Busy' = Busy
    PROVE  Value!Make(t)
  <1>1. PICK k \in Kinds, f \in Fds, r \in BOOLEAN, v \in BOOLEAN :
          /\ LowestFree(f) /\ sfd' = [sfd EXCEPT ![t] = f]
          /\ kernel' = [kernel EXCEPT ![f] =
                [af |-> k[1], type |-> k[2], addr |-> Unbound, lis |-> FALSE,
                 reuse |-> r, v6only |-> v]]
    BY DEF CtorSocket
  <1>. DEFINE s == [af |-> k[1], type |-> k[2], addr |-> Unbound, lis |-> FALSE,
                    reuse |-> r, v6only |-> v]
  <1>2. s \in Socket /\ s.addr = Unbound /\ ~s.lis
    <2>1. k[1] \in Domains /\ k[2] \in Types
      BY CSocketAssumption
    <2>. QED BY <2>1 DEF Socket
  <1>3. sfd[t] = INVALID_SOCKET /\ m_sfd' = m_sfd /\ ~Open(f)
    BY <1>1, Working DEF CtorSocket, Enter, objects, LowestFree
  <1>4. kernel' = [kernel EXCEPT ![f] = s]
    BY <1>1
  <1>. HIDE DEF s
  <1>5. /\ \A x \in Slots : m_sfd[x] # f
        /\ \A u \in Threads : sfd[u] # f
    BY <1>3, Holders2 DEF Open, SocketInv, DescriptorsOwned
  <1>6. \A x \in Slots : Held'[x] = Held[x]
    BY <1>3, <1>4, <1>5, Holders2 DEF Held
  <1>7. \A u \in Threads : Making'[u] = IF u = t THEN s ELSE Making[u]
    <2>1. f # INVALID_SOCKET /\ kernel'[f] = s /\ sfd'[t] = f
      BY <1>1, <1>4, Holders2
    <2>2. \A u \in Threads \ {t} : sfd'[u] = sfd[u]
      BY <1>1, Holders2
    <2>3. \A u \in Threads : sfd[u] # INVALID_SOCKET => kernel'[sfd[u]] = kernel[sfd[u]]
      BY <1>4, <1>5, Holders2
    <2>. QED BY <2>1, <2>2, <2>3 DEF Making
  <1>8. Held' = Held /\ Making' = [Making EXCEPT ![t] = s] /\ Making[t] = None
    BY <1>3, <1>6, <1>7, Tables, Holders2
  <1>. QED BY <1>2, <1>8 DEF Value!Make

LEMMA PrepareStep ==
    ASSUME SocketInv, NEW t \in Threads, CtorReuse(t), kernel[sfd[t]].af = "AF_INET6",
           Busy' = Busy
    PROVE  Value!Prepare(t)
  <1>1. /\ sfd[t] # INVALID_SOCKET /\ UNCHANGED <<m_sfd, sfd>>
        /\ kernel' = [kernel EXCEPT ![sfd[t]] = [kernel[sfd[t]] EXCEPT !.reuse = FALSE]]
    BY Working DEF CtorReuse, objects, local
  <1>2. Making[t] = kernel[sfd[t]] /\ Making[t] # None
    BY <1>1, Holders2
  <1>. QED BY <1>1, <1>2, CallOnNew DEF Value!Prepare

LEMMA FinishStep ==
    ASSUME SocketInv, SystemSane, OptionsOnTheWay, NEW t \in Threads, Busy' = Busy,
           \/ CtorReuse(t) /\ kernel[sfd[t]].af # "AF_INET6"
           \/ CtorV6only(t)
    PROVE  Value!Finish(t, this[t])
  <1>. DEFINE s == [kernel[sfd[t]] EXCEPT !.reuse = FALSE, !.v6only = FALSE]
  <1>1. /\ pc[t] \in {"ctor_reuse", "ctor_v6only"}
        /\ m_sfd' = [m_sfd EXCEPT ![this[t]] = sfd[t]]
        /\ sfd' = [sfd EXCEPT ![t] = INVALID_SOCKET]
    BY DEF CtorReuse, CtorV6only, Goto
  <1>2. /\ sfd[t] # INVALID_SOCKET /\ sfd[t] \in Fds /\ kernel[sfd[t]] \in Socket
        /\ Making[t] = kernel[sfd[t]] /\ Making[t] # None
        /\ this[t] \in Slots /\ m_sfd[this[t]] = INVALID_SOCKET
        /\ Held[this[t]] = None
    BY <1>1, Working, Holders2
  <1>3. kernel' = [kernel EXCEPT ![sfd[t]] = s]
    <2>1. CASE CtorReuse(t) /\ kernel[sfd[t]].af # "AF_INET6"
      <3>1. kernel[sfd[t]].v6only = FALSE
        BY <1>2, <2>1, Holding1 DEF SystemSane, Sane, Socket
      <3>2. [kernel[sfd[t]] EXCEPT !.reuse = FALSE] = s
        BY <1>2, <3>1 DEF Socket
      <3>. QED BY <2>1, <3>2 DEF CtorReuse
    <2>2. CASE CtorV6only(t)
      <3>1. kernel[sfd[t]].reuse = FALSE
        BY <1>2, <2>2 DEF OptionsOnTheWay, Socket, CtorV6only, Goto
      <3>2. [kernel[sfd[t]] EXCEPT !.v6only = FALSE] = s
        BY <1>2, <3>1 DEF Socket
      <3>. QED BY <2>2, <3>2 DEF CtorV6only
    <2>. QED BY <2>1, <2>2
  <1>4. s = [Making[t] EXCEPT !.reuse = FALSE, !.v6only = FALSE]
    BY <1>2
  <1>. HIDE DEF s
  <1>5. Held' = [Held EXCEPT ![this[t]] = s] /\ Making' = [Making EXCEPT ![t] = None]
    BY <1>1, <1>2, <1>3, Stored
  <1>. QED BY <1>2, <1>4, <1>5 DEF Value!Finish

LEMMA AbandonStep ==
    ASSUME SocketInv, NEW t \in Threads, CtorOptionFails(t), Busy' = Busy
    PROVE  Value!Abandon(t)
  <1>1. /\ pc[t] \in {"ctor_reuse", "ctor_v6only"} /\ kernel' = Closed(sfd[t])
        /\ m_sfd' = m_sfd /\ sfd' = [sfd EXCEPT ![t] = INVALID_SOCKET]
    BY DEF CtorOptionFails, Goto, objects
  <1>2. Making[t] # None
    BY <1>1, Working, Holders2
  <1>. QED BY <1>1, <1>2, ClosedByConstructor DEF Value!Abandon

\* bind() and listen() name and open the socket of their object,
LEMMA NameStep ==
    ASSUME SocketInv, Loaded, NEW t \in Threads, BindCall(t)
    PROVE  Value!Name(t, port[t].port) /\ port[t].port \in Ports
  <1>. DEFINE f == m_sfd[this[t]]
              a == port[t].port
              r == kernel[f]
  <1>1. /\ this[t] \in Slots /\ port[t] \in Addrinfos /\ a \in Ports
        /\ UNCHANGED <<m_sfd, sfd, this>> /\ BindAllowed(f, port[t])
        /\ kernel' = [kernel EXCEPT ![f] = [kernel[f] EXCEPT !.addr = a]]
        /\ pc[t] = "bind_call" /\ pc'[t] = "bind_store"
    <2>1. fd[t] = f
      BY DEF Loaded, BindCall, Goto, Calls
    <2>2. pc \in [Threads -> Pcs]
      BY StateTypes DEF SocketInv
    <2>. QED BY <2>1, <2>2, Working DEF BindCall, Goto, objects, local, Addrinfos
  <1>2. f # INVALID_SOCKET /\ Held[this[t]] = r /\ r \in Socket /\ r # None
    BY <1>1, Holders2 DEF BindAllowed, Open
  <1>3. /\ r.addr = Unbound /\ r.af = port[t].af
        /\ \A g \in Fds : kernel[g] # None =>
               ~(/\ kernel[g].af = r.af /\ kernel[g].type = r.type /\ kernel[g].addr = a
                 /\ ~(kernel[g].reuse /\ r.reuse /\ ~kernel[g].lis))
    BY <1>1, <1>2 DEF BindAllowed, Open, Conflict
  <1>. HIDE DEF r
  <1>4. ~Value!Taken(r, a)
    <2>1. \A x \in Slots : Held[x] # None => \E g \in Fds : Held[x] = kernel[g]
      BY Holders2
    <2>2. \A u \in Threads : Making[u] # None => \E g \in Fds : Making[u] = kernel[g]
      BY Holders2
    <2>. QED BY <1>3, <2>1, <2>2 DEF Value!Taken, Value!Conflict
  <1>5. Held' = [Held EXCEPT ![this[t]] = [r EXCEPT !.addr = a]] /\ Making' = Making
    BY <1>1, <1>2, CallOnObject DEF r
  <1>6. Busy[t] = this[t] /\ Busy'[t] = Busy[t] /\ Busy[t] # None
    BY <1>1, Distinct DEF Busy, Setters
  <1>7. Busy' = Busy
    BY <1>6, BusyStep, Tables DEF Step, Setting
  <1>. QED BY <1>1, <1>2, <1>3, <1>4, <1>5, <1>6, <1>7 DEF Value!Name, Value!Change

LEMMA ListenStep ==
    ASSUME SocketInv, Loaded, NEW t \in Threads, ListenCall(t)
    PROVE  Value!Listen(t)
  <1>. DEFINE f == m_sfd[this[t]]
              r == kernel[f]
  <1>1. /\ this[t] \in Slots /\ UNCHANGED <<m_sfd, sfd, this>> /\ ListenAllowed(f)
        /\ kernel' = [kernel EXCEPT ![f] = Listening(r)]
        /\ pc[t] = "listen_call" /\ pc'[t] = "listen_store"
    <2>1. fd[t] = f
      BY DEF Loaded, ListenCall, Goto, Calls
    <2>2. pc \in [Threads -> Pcs]
      BY StateTypes DEF SocketInv
    <2>. QED BY <2>1, <2>2, Working DEF ListenCall, Goto, objects, local
  <1>2. /\ f # INVALID_SOCKET /\ Held[this[t]] = r /\ r \in Socket /\ r # None
        /\ r.type = "SOCK_STREAM"
    BY <1>1, Holders2 DEF ListenAllowed, Open
  <1>. HIDE DEF r
  <1>3. Held' = [Held EXCEPT ![this[t]] = Listening(r)] /\ Making' = Making
    BY <1>1, <1>2, CallOnObject
  <1>4. Listening(r) = [r EXCEPT !.lis = TRUE,
                                 !.addr = IF r.addr = Unbound THEN Ephemeral ELSE r.addr]
    BY <1>2 DEF Listening, Socket
  <1>5. Busy[t] = this[t] /\ Busy'[t] = Busy[t] /\ Busy[t] # None
    BY <1>1, Distinct DEF Busy, Setters
  <1>6. Busy' = Busy
    BY <1>5, BusyStep, Tables DEF Step, Setting
  <1>. QED BY <1>1, <1>2, <1>3, <1>4, <1>5, <1>6 DEF Value!Listen, Value!Change

\* and a raw ::setsockopt() sets an option of it.
LEMMA SetOptionStep ==
    ASSUME SocketInv, Loaded, NEW t \in Threads, Setsockopt(t)
    PROVE  \E v \in BOOLEAN : Value!SetOption(t, v)
  <1>. DEFINE f == m_sfd[this[t]]
              r == kernel[f]
  <1>1. PICK so \in {"reuse", "v6only"}, v \in BOOLEAN :
          /\ this[t] \in Slots /\ UNCHANGED <<m_sfd, sfd>> /\ Open(f)
          /\ so = "v6only" => r.af = "AF_INET6"
          /\ kernel' = [kernel EXCEPT ![f] = WithOption(r, so, v)]
          /\ pc[t] = "set_option" /\ pc'[t] = "return"
    <2>1. fd[t] = f
      BY DEF Loaded, Setsockopt, Goto, Calls
    <2>2. pc \in [Threads -> Pcs]
      BY StateTypes DEF SocketInv
    <2>3. \E so \in {"reuse", "v6only"}, v \in BOOLEAN :
             /\ so = "v6only" => r.af = "AF_INET6"
             /\ kernel' = [kernel EXCEPT ![f] = WithOption(r, so, v)]
      BY <2>1, CSocketAssumption DEF Setsockopt
    <2>. QED BY <2>1, <2>2, <2>3, Working DEF Setsockopt, Goto, objects, Result
  <1>2. f # INVALID_SOCKET /\ Held[this[t]] = r /\ r # None
    BY <1>1, Holders2 DEF Open
  <1>. HIDE DEF r
  <1>3. Held' = [Held EXCEPT ![this[t]] = WithOption(r, so, v)] /\ Making' = Making
    BY <1>1, <1>2, CallOnObject
  <1>4. Busy[t] = this[t] /\ Busy[t] # None /\ Busy'[t] = None
    BY <1>1, Distinct DEF Busy, Setters
  <1>5. Busy' = [Busy EXCEPT ![t] = None]
    BY <1>4, BusyStep DEF Step, Setting
  <1>6. \/ WithOption(r, so, v) = [r EXCEPT !.reuse = v]
        \/ r.af = "AF_INET6" /\ WithOption(r, so, v) = [r EXCEPT !.v6only = v]
    BY <1>1 DEF WithOption
  <1>. QED BY <1>1, <1>2, <1>3, <1>4, <1>5, <1>6 DEF Value!SetOption, Value!Change

\* The other steps of these calls begin one, end one, or are not seen.
LEMMA CallStep ==
    ASSUME SocketInv, NEW t \in Threads, Setting(t),
           ~BindCall(t), ~ListenCall(t), ~Setsockopt(t)
    PROVE  (\E o \in Slots : Value!Begin(t, o)) \/ Value!End(t) \/ UNCHANGED Value!value
  <1>a. pc \in [Threads -> Pcs] /\ this \in [Threads -> Vars \cup {None}]
    BY StateTypes DEF SocketInv
  <1>. USE DEF Enter, Goto, objects, local, Result, Load, BindEnds
  <1>1. ASSUME NEW o \in Vars,
               (\E ai \in Addrinfos : Bind(t, o, ai)) \/ Listen(t, o) \/ SetOption(t, o)
        PROVE  /\ UNCHANGED <<kernel, m_sfd, sfd>>
               /\ pc[t] = "idle" /\ pc'[t] \in Setters /\ this'[t] = o
    BY <1>a, <1>1 DEF Bind, Listen, SetOption, Setters
  <1>2. ASSUME \A o \in Vars : ~( \/ \E ai \in Addrinfos : Bind(t, o, ai)
                                  \/ Listen(t, o) \/ SetOption(t, o) )
        PROVE  /\ UNCHANGED <<kernel, m_sfd, sfd>> /\ this' = this
               /\ pc[t] \in Setters /\ pc'[t] \in Setters \cup {"return"}
    BY <1>a, <1>2
       DEF Setting, BindType, BindLock, BindCallFails, BindStore, ListenLock,
           ListenCallFails, ListenStore, SetsockoptFails, Setters
  <1>3. Step(t)
    BY DEF Step
  <1>4. ASSUME NEW o \in Vars,
               (\E ai \in Addrinfos : Bind(t, o, ai)) \/ Listen(t, o) \/ SetOption(t, o)
        PROVE  \E x \in Slots : Value!Begin(t, x)
    <2>1. Busy[t] = None /\ Busy'[t] = o /\ o \in Slots
      BY <1>1, <1>4, Working DEF Busy, Setters
    <2>2. Busy' = [Busy EXCEPT ![t] = o]
      BY <1>3, <2>1, BusyStep
    <2>. QED BY <1>1, <1>4, <2>1, <2>2, NothingSeen DEF Value!Begin
  <1>5. ASSUME \A o \in Vars : ~( \/ \E ai \in Addrinfos : Bind(t, o, ai)
                                  \/ Listen(t, o) \/ SetOption(t, o) )
        PROVE  Value!End(t) \/ UNCHANGED Value!value
    <2>1. Held' = Held /\ Making' = Making /\ Busy'[t] \in {Busy[t], None}
      BY <1>2, <1>5, NothingSeen DEF Busy
    <2>2. CASE Busy'[t] = None
      <3>1. Busy' = [Busy EXCEPT ![t] = None]
        BY <1>3, <2>2, BusyStep
      <3>. QED BY <2>1, <3>1 DEF Value!End
    <2>3. CASE Busy'[t] = Busy[t]
      <3>1. Busy' = Busy
        BY <1>3, <2>3, BusyStep, Tables
      <3>. QED BY <2>1, <3>1 DEF Value!value
    <2>. QED BY <2>1, <2>2, <2>3
  <1>. QED BY <1>4, <1>5

\* Moves, assignments and destructors.
LEMMA TakeStep ==
    ASSUME SocketInv, Exclusive, NEW t \in Threads, MoveSfd(t) \/ AssignSfd(t), Busy' = Busy
    PROVE  \E x, y \in Slots : Value!Take(x, y)
  <1>0. /\ LifetimeRespected /\ pc[t] \in {"move_sfd", "assign_sfd"} /\ pc[t] \in Changing
        /\ that[t] \in Vars /\ that[t] \in Slots /\ TypeOK
    BY Arguments, Distinct DEF SocketInv, MoveSfd, AssignSfd, Goto, Changing
  <1>1. PICK x \in Slots, p \in Slots :
            /\ x # p /\ m_sfd[x] = INVALID_SOCKET /\ UNCHANGED <<kernel, sfd>>
            /\ m_sfd' = [m_sfd EXCEPT ![x] = m_sfd[p], ![p] = INVALID_SOCKET]
            /\ x \in {t, this[t], that[t]} /\ p \in {t, this[t], that[t]}
    <2>1. CASE MoveSfd(t)
      <3>1. this[t] # that[t] /\ m_sfd[this[t]] = INVALID_SOCKET /\ this[t] \in Slots
        BY <1>0, <2>1, Working, FreeSlots
           DEF MoveSfd, Goto, LifetimeRespected, Constructors
      <3>. QED BY <1>0, <2>1, <3>1 DEF MoveSfd, TakeSfd, local
    <2>2. CASE AssignSfd(t)
      <3>1. m_sfd[t] = INVALID_SOCKET /\ t # that[t] /\ t \in Slots
        BY <1>0, <2>2, Working, FreeSlots DEF AssignSfd, Goto
      <3>. QED BY <1>0, <2>2, <3>1 DEF AssignSfd, TakeSfd, local
    <2>. QED BY <2>1, <2>2
  <1>2. Held[x] = None /\ Value!AtRest(x) /\ Value!AtRest(p)
    BY <1>0, <1>1, Holders2, Resting
  <1>3. Held' = [Held EXCEPT ![x] = Held[p], ![p] = Held[x]] /\ Making' = Making
    BY <1>1, <1>2, Exchanged
  <1>. QED BY <1>1, <1>2, <1>3 DEF Value!Take

LEMMA ExchangeStep ==
    ASSUME SocketInv, Exclusive, NEW t \in Threads, SwapSfd(t), Busy' = Busy
    PROVE  Value!Exchange(this[t], t) /\ this[t] \in Slots /\ t \in Slots
  <1>1. /\ this[t] \in Slots /\ t \in Slots /\ this[t] # t /\ UNCHANGED <<kernel, sfd>>
        /\ m_sfd' = [m_sfd EXCEPT ![this[t]] = m_sfd[t], ![t] = m_sfd[this[t]]]
        /\ pc[t] \in Changing
    BY Working DEF SwapSfd, Goto, local, Changing
  <1>. QED BY <1>1, Exchanged, Resting DEF Value!Exchange

LEMMA DiscardStep ==
    ASSUME SocketInv, NEW o \in Slots, Destruct(o), UNCHANGED sfd, Value!AtRest(o),
           Busy' = Busy
    PROVE  Value!Discard(o)
  BY ClosedByObject DEF Destruct, Value!Discard

\* Every step of every call is one of the above, or one nobody sees.
LEMMA ValueStep ==
    ASSUME SocketInv, SystemSane, Exclusive, Loaded, OptionsOnTheWay,
           NEW t \in Threads, Step(t)
    PROVE  [Value!ValueNext]_(Value!value)
  <1>. USE DEF Value!ValueNext
  <1>a. UNCHANGED <<kernel, m_sfd, sfd>> /\ Busy' = Busy => UNCHANGED Value!value
    BY NothingSeen DEF Value!value
  <1>b. t \in Slots /\ \A o \in Vars : o \in Slots
    BY Working
  <1>c. Construct(t) \/ Constructing(t) \/ Moving(t) \/ Getting(t) \/ Return(t)
            => Busy' = Busy
    BY OthersNotBusy
  <1>1. CASE Getting(t) \/ Return(t)
    BY <1>1, <1>a, <1>c
       DEF Getting, IsBind, IsListen, GetPort, Check, IsBindRead, IsListenRead,
           GetPortIsBind, GetPortRead, GetPortName, Getsockname, GetSockerr,
           IsReuseAddr, IsV6only, Unchecked, Load, SockerrOption, ReuseOption,
           V6onlyFamily, V6onlySfd, V6onlyOption, getsockopt_int, Return, Result,
           objects, local
  <1>2. CASE Setting(t)
    <2>1. CASE BindCall(t)
      BY <2>1, NameStep
    <2>2. CASE ListenCall(t)
      BY <2>2, ListenStep
    <2>3. CASE Setsockopt(t)
      BY <2>3, SetOptionStep
    <2>4. CASE ~BindCall(t) /\ ~ListenCall(t) /\ ~Setsockopt(t)
      BY <1>2, <2>4, CallStep
    <2>. QED BY <2>1, <2>2, <2>3, <2>4
  <1>3. CASE Construct(t)
    <2>1. ASSUME NEW o \in Vars, Empty(t, o) \/ CtorSocketFails(t, o)
          PROVE  UNCHANGED Value!value
      BY <1>3, <1>a, <1>c, <2>1 DEF Empty, CtorSocketFails, Result, objects
    <2>2. ASSUME NEW o \in Vars, CtorSocket(t, o) PROVE Value!Make(t)
      BY <1>3, <1>c, <2>2, MakeStep
    <2>3. ASSUME NEW o \in Vars, Dtor(t, o) PROVE Value!Discard(o)
      BY <1>3, <1>b, <1>c, <2>3, DiscardStep, UnusedRests DEF Dtor, MayDestruct, Result
    <2>. QED BY <1>3, <1>b, <2>1, <2>2, <2>3 DEF Construct
  <1>4. CASE Constructing(t)
    <2>1. CASE CtorReuse(t) /\ kernel[sfd[t]].af = "AF_INET6"
      BY <1>4, <1>c, <2>1, PrepareStep
    <2>2. CASE (CtorReuse(t) /\ kernel[sfd[t]].af # "AF_INET6") \/ CtorV6only(t)
      <3>1. this[t] \in Slots
        BY <2>2, Working DEF CtorReuse, CtorV6only, Goto
      <3>. QED BY <1>4, <1>c, <2>2, <3>1, FinishStep
    <2>3. CASE CtorOptionFails(t)
      BY <1>4, <1>c, <2>3, AbandonStep
    <2>. QED BY <1>4, <2>1, <2>2, <2>3 DEF Constructing
  <1>5. CASE Moving(t)
    <2>1. CASE MoveSfd(t) \/ AssignSfd(t)
      BY <1>5, <1>c, <2>1, TakeStep
    <2>2. CASE \/ \E o, p \in Vars : Move(t, o, p) \/ Assign(t, o, p)
               \/ MoveFlags(t) \/ AssignFlags(t) \/ SwapAf(t) \/ SwapFlags(t)
      BY <1>5, <1>a, <1>c, <2>2
         DEF Move, Assign, MoveFlags, AssignFlags, SwapAf, SwapFlags, Result, local
    <2>3. CASE SwapSfd(t)
      BY <1>5, <1>c, <2>3, ExchangeStep
    <2>4. CASE DropParam(t)
      <3>1. Value!AtRest(t)
        BY <1>b, <2>4, Resting DEF DropParam, Goto, Changing
      <3>. QED BY <1>5, <1>b, <1>c, <2>4, <3>1, DiscardStep DEF DropParam, Result
    <2>. QED BY <1>5, <2>1, <2>2, <2>3, <2>4 DEF Moving
  <1>. QED BY <1>1, <1>2, <1>3, <1>4, <1>5 DEF Step

\* SO_REUSEADDR of a new socket stays reset.
LEMMA OptionsStep ==
    ASSUME SocketInv, SocketInv', Loaded, OptionsOnTheWay, NEW t \in Threads, Step(t)
    PROVE  OptionsOnTheWay'
  <1>1. ASSUME NEW u \in Threads \ {t}, pc'[u] = "ctor_v6only"
        PROVE  ~kernel'[sfd'[u]].reuse
    <2>1. pc'[u] = pc[u] /\ sfd'[u] = sfd[u]
      BY OthersKeep DEF Step, SocketInv
    <2>2. sfd[u] # INVALID_SOCKET
      BY <1>1, <2>1, Working
    <2>. QED BY <1>1, <2>1, <2>2, NewAlone DEF OptionsOnTheWay
  <1>2. ASSUME pc'[t] = "ctor_v6only" PROVE ~kernel'[sfd'[t]].reuse
    <2>1. CASE CtorReuse(t)
      <3>1. /\ sfd[t] \in Fds /\ sfd' = sfd
            /\ kernel' = [kernel EXCEPT ![sfd[t]] = [kernel[sfd[t]] EXCEPT !.reuse = FALSE]]
            /\ kernel[sfd[t]] \in Socket
        <4>1. pc \in [Threads -> Pcs] /\ pc[t] = "ctor_reuse"
          BY <2>1, StateTypes DEF SocketInv, CtorReuse
        <4>2. sfd[t] \in Fds /\ kernel[sfd[t]] \in Socket
          BY <4>1, Working, Holding1
        <4>. QED BY <1>2, <2>1, <4>1, <4>2 DEF CtorReuse, local, Goto
      <3>2. kernel'[sfd'[t]] = [kernel[sfd[t]] EXCEPT !.reuse = FALSE]
        BY <3>1, Holders2
      <3>. QED BY <3>1, <3>2 DEF Socket
    <2>2. CtorReuse(t)
      <3>. pc \in [Threads -> Pcs]
        BY StateTypes DEF SocketInv
      <3>1. ~(Setting(t) \/ Getting(t) \/ Return(t))
        BY <1>2, PlainStep DEF Plain, Changing
      <3>2. ~Moving(t) /\ ~Construct(t)
        BY <1>2 DEF Construct, Empty, CtorSocket, CtorSocketFails, Dtor, Moving, Move,
           Assign, MoveSfd, MoveFlags, AssignSfd, AssignFlags, SwapSfd, SwapAf,
           SwapFlags, DropParam, Enter, Goto
      <3>3. ~CtorV6only(t) /\ ~CtorOptionFails(t)
        BY <1>2 DEF CtorV6only, CtorOptionFails, Goto
      <3>. QED BY <3>1, <3>2, <3>3 DEF Step, Constructing
    <2>. QED BY <2>1, <2>2
  <1>. QED BY <1>1, <1>2 DEF OptionsOnTheWay
-----------------------------------------------------------------------------
(* The theorem. *)

\* Unless objects are moved while others use them, CSocket hides its descriptors
\* perfectly: each call acts on the socket its object holds, also when its
\* descriptor was read long before and other threads open and close sockets, and
\* every socket is where one move, one assignment or one destructor has put it
\* (socket.cpp:48-205).
THEOREM SocketsAreValues == ASSUME ~SharedMoves PROVE Spec => ImplementsSocketValue
  <1>1. Init => Value!ValueInit /\ OptionsOnTheWay
    BY DEF Init, Held, Making, Busy, Setters, Value!ValueInit, OptionsOnTheWay
  <1>2. SocketInv /\ SocketInv' /\ SystemSane /\ (Exclusive /\ Loaded) /\ OptionsOnTheWay
            /\ [Next]_vars
            => [Value!ValueNext]_(Value!value) /\ OptionsOnTheWay'
    <2>1. SUFFICES ASSUME SocketInv, SocketInv', SystemSane, Exclusive, Loaded,
                          OptionsOnTheWay, [Next]_vars
                   PROVE  [Value!ValueNext]_(Value!value) /\ OptionsOnTheWay'
      OBVIOUS
    <2>2. CASE Next
      <3>1. PICK t \in Threads : Step(t)
        BY <2>2 DEF Next, Step
      <3>. QED BY <2>1, <3>1, ValueStep, OptionsStep
    <2>3. CASE UNCHANGED vars
      <3>1. UNCHANGED <<kernel, m_sfd, sfd, pc, this>>
        BY <2>3 DEF vars, objects, call, local
      <3>2. Busy' = Busy
        BY <3>1 DEF Busy
      <3>3. UNCHANGED Value!value
        BY <3>1, <3>2, NothingSeen DEF Value!value
      <3>. QED BY <2>1, <3>1, <3>3 DEF OptionsOnTheWay
    <2>. QED BY <2>1, <2>2, <2>3
  <1>. QED BY SocketInvHolds, SystemStaysSane, CallsUseTheirSocket, <1>1, <1>2, PTL
           DEF Spec, ImplementsSocketValue, Value!ValueSpec
=============================================================================
