-------------------------- MODULE Lifetimes_proofs --------------------------
(***************************************************************************)
(* Proofs about Lifetimes for any finite number of servers and calls.      *)
(***************************************************************************)
EXTENDS Lifetimes, FiniteSetTheorems, TLAPS

Started(f) == {s \in Scopes : f[s] > 0}

\* The number of scopes that hold something is a number, and 0 only if none does.
LEMMA CountStarted ==
    ASSUME NEW f \in [Scopes -> 0 .. 3]
    PROVE  /\ IsFiniteSet(Started(f)) /\ Cardinality(Started(f)) \in Nat
           /\ (\E s \in Scopes : f[s] > 0) => Cardinality(Started(f)) > 0
  <1>1. IsFiniteSet(Started(f))
    BY ScopesAssumption, FS_Subset, Started(f) \subseteq Scopes DEF Started
  <1>2. Cardinality(Started(f)) \in Nat
    BY <1>1, FS_CardinalityType
  <1>3. Cardinality(Started(f)) = 0 <=> Started(f) = {}
    BY <1>1, FS_EmptySet
  <1>. QED BY <1>1, <1>2, <1>3 DEF Started

\* The first object of a scope adds one to that number, the last one takes it.
LEMMA CountChange ==
    ASSUME NEW f \in [Scopes -> 0 .. 3], NEW s \in Scopes, NEW n \in 0 .. 3,
           NEW g, g = [f EXCEPT ![s] = n]
    PROVE  /\ f[s] = 0 /\ n > 0 => Cardinality(Started(g)) = Cardinality(Started(f)) + 1
           /\ f[s] > 0 /\ n > 0 => Started(g) = Started(f)
           /\ f[s] > 0 /\ n = 0 => Cardinality(Started(g)) = Cardinality(Started(f)) - 1
  <1>1. f[s] = 0 /\ n > 0 => Started(g) = Started(f) \cup {s} /\ s \notin Started(f)
    BY DEF Started
  <1>2. f[s] > 0 /\ n > 0 => Started(g) = Started(f)
    BY DEF Started
  <1>3. f[s] > 0 /\ n = 0 => Started(g) = Started(f) \ {s} /\ s \in Started(f)
    BY DEF Started
  <1>4. IsFiniteSet(Started(f))
    BY CountStarted
  <1>5. s \notin Started(f) => Cardinality(Started(f) \cup {s}) = Cardinality(Started(f)) + 1
    BY <1>4, FS_AddElement
  <1>6. s \in Started(f) => Cardinality(Started(f) \ {s}) = Cardinality(Started(f)) - 1
    BY <1>4, FS_RemoveElement
  <1>. QED BY <1>1, <1>2, <1>3, <1>5, <1>6

\* With one start-up outstanding there is one scope that holds anything.
LEMMA OnlyOneStarted ==
    ASSUME LifeInv, started = 1, NEW s \in Scopes, NEW t \in Scopes,
           built[s] > 0, built[t] > 0
    PROVE  s = t
  <1>1. built \in [Scopes -> 0 .. 3] /\ Cardinality(Started(built)) = 1
    BY DEF LifeInv, TypeOK, StartsCounted, Started, Order
  <1>2. IsFiniteSet(Started(built))
    BY <1>1, CountStarted
  <1>3. PICK x : Started(built) = {x}
    BY <1>1, <1>2, FS_Singleton
  <1>. QED BY <1>3 DEF Started
-----------------------------------------------------------------------------
(* The steps. *)

\* The three objects of a scope, in order.
LEMMA OrderKnown ==
    /\ Len(Order) = 3
    /\ Order[1] = "winsock_init" /\ Order[2] = "socket" /\ Order[3] = "ai"
  BY DEF Order

\* Which of its objects a scope adds or removes, by the number it has.
LEMMA Positions ==
    ASSUME LifeInv, NEW s \in Scopes
    PROVE  /\ Add(s, "winsock_init") => built[s] = 0
           /\ Add(s, "socket") => built[s] = 1
           /\ Add(s, "ai") => built[s] = 2
           /\ Remove(s, "winsock_init") => built[s] = 1
           /\ Remove(s, "socket") => built[s] = 2
           /\ Remove(s, "ai") => built[s] = 3
  <1>1. built[s] \in 0 .. 3
    BY OrderKnown DEF LifeInv, TypeOK
  <1>2. built[s] < 3 => built[s] + 1 \in {1, 2, 3}
    BY <1>1
  <1>. QED BY <1>1, <1>2, OrderKnown DEF Add, Remove

\* The invariant in the terms the steps are about.
LEMMA State ==
    ASSUME LifeInv
    PROVE  /\ at \in [Scopes -> {"none", "build", "bind", "listen", "constructed", "alive",
                                 "connect", "send", "shutdown", "leaving"}]
           /\ built \in [Scopes -> 0 .. 3] /\ lists \subseteq Scopes
           /\ kernel \in [Scopes -> {"none", "open", "bound", "listening",
                                     "connected", "shut"}]
           /\ started \in Nat /\ started = Cardinality(Started(built))
  BY OrderKnown DEF LifeInv, TypeOK, StartsCounted, Started

\* Counting goes on from there.
LEMMA StartsKept ==
    ASSUME LifeInv, NEW s \in Scopes, NEW n \in 0 .. 3,
           built' = [built EXCEPT ![s] = n],
           \/ built[s] > 0 /\ n > 0 /\ started' = started
           \/ built[s] = 0 /\ n > 0 /\ started' = started + 1
           \/ built[s] > 0 /\ n = 0 /\ started' = started - 1
    PROVE  StartsCounted' /\ started' \in Nat
  <1>1. built \in [Scopes -> 0 .. 3] /\ started = Cardinality(Started(built))
    BY State
  <1>2. built' \in [Scopes -> 0 .. 3] /\ built[s] \in 0 .. 3
    BY <1>1
  <1>3. /\ built[s] = 0 /\ n > 0 => Cardinality(Started(built')) = Cardinality(Started(built)) + 1
        /\ built[s] > 0 /\ n > 0 => Started(built') = Started(built)
        /\ built[s] > 0 /\ n = 0 => Cardinality(Started(built')) = Cardinality(Started(built)) - 1
    BY <1>1, CountChange
  <1>4. started' = Cardinality(Started(built'))
    BY <1>1, <1>2, <1>3
  <1>5. Cardinality(Started(built')) \in Nat
    BY <1>2, CountStarted
  <1>6. Started(built') = {x \in Scopes : built'[x] > 0}
    BY DEF Started
  <1>. QED BY <1>4, <1>5, <1>6 DEF StartsCounted

LEMMA BuildingStep ==
    ASSUME LifeInv, NEW s \in Scopes, Building(s) PROVE LifeInv'
  <1>0. StagesKnown /\ StartsCounted
    BY DEF LifeInv
  <1>1. CASE Begin(s)
    BY <1>0, <1>1, State, OrderKnown
    DEF Begin, Goto, LifeInv, TypeOK, StagesKnown, StartsCounted
  <1>2. CASE StartWinsock(s)
    <2>1. Add(s, "winsock_init") /\ started' = started + 1 /\ UNCHANGED <<kernel, lists>>
      BY <1>2 DEF StartWinsock
    <2>2. built[s] = 0 /\ built' = [built EXCEPT ![s] = 1]
      <3>1. built[s] = 0
        BY <2>1, Positions, Zenon
      <3>. QED BY <2>1, <3>1 DEF Add
    <2>3. at[s] = "build" /\ at' = [at EXCEPT ![s] = "build"]
      <3>1. at[s] = "build" /\ at' = [at EXCEPT ![s] = IF built'[s] = 3 THEN Body(s) ELSE "build"]
        BY <2>1, OrderKnown DEF Add, Goto
      <3>2. built'[s] = 1
        BY <2>2, State
      <3>. QED BY <3>1, <3>2
    <2>4. StartsCounted' /\ started' \in Nat
      <3>1. 1 \in 0 .. 3 /\ 1 > 0 /\ built[s] = 0
        BY <2>2
      <3>. QED BY <2>1, <2>2, <3>1, StartsKept, Zenon
    <2>5. TypeOK'
      BY <2>1, <2>2, <2>3, <2>4, State, OrderKnown DEF TypeOK, Body
    <2>6. StagesKnown'
      BY <1>0, <2>1, <2>2, <2>3, State DEF StagesKnown, Body
    <2>. QED BY <2>4, <2>5, <2>6 DEF LifeInv
  <1>3. CASE GetSocket(s)
    <2>1. Add(s, "socket") /\ kernel' = [kernel EXCEPT ![s] = "open"]
          /\ UNCHANGED <<started, lists>>
      BY <1>3 DEF GetSocket
    <2>2. built[s] = 1 /\ built' = [built EXCEPT ![s] = 2]
      <3>1. built[s] = 1
        BY <2>1, Positions, Zenon
      <3>. QED BY <2>1, <3>1 DEF Add
    <2>3. at[s] = "build" /\ at' = [at EXCEPT ![s] = "build"]
      <3>1. at[s] = "build" /\ at' = [at EXCEPT ![s] = IF built'[s] = 3 THEN Body(s) ELSE "build"]
        BY <2>1, OrderKnown DEF Add, Goto
      <3>2. built'[s] = 2
        BY <2>2, State
      <3>. QED BY <3>1, <3>2
    <2>4. StartsCounted' /\ started' \in Nat
      <3>1. 2 \in 0 .. 3 /\ 2 > 0 /\ built[s] > 0
        BY <2>2
      <3>. QED BY <2>1, <2>2, <3>1, StartsKept, Zenon
    <2>5. TypeOK'
      BY <2>1, <2>2, <2>3, <2>4, State, OrderKnown DEF TypeOK, Body
    <2>6. StagesKnown'
      BY <1>0, <2>1, <2>2, <2>3, State DEF StagesKnown, Body
    <2>. QED BY <2>4, <2>5, <2>6 DEF LifeInv
  <1>4. CASE LookUp(s)
    <2>1. Add(s, "ai") /\ lists' = lists \cup {s} /\ UNCHANGED <<started, kernel>>
      BY <1>4 DEF LookUp
    <2>2. built[s] = 2 /\ built' = [built EXCEPT ![s] = 3]
      <3>1. built[s] = 2
        BY <2>1, Positions, Zenon
      <3>. QED BY <2>1, <3>1 DEF Add
    <2>3. at[s] = "build" /\ at' = [at EXCEPT ![s] = Body(s)]
      <3>1. at[s] = "build" /\ at' = [at EXCEPT ![s] = IF built'[s] = 3 THEN Body(s) ELSE "build"]
        BY <2>1, OrderKnown DEF Add, Goto
      <3>2. built'[s] = 3
        BY <2>2, State
      <3>. QED BY <3>1, <3>2
    <2>4. StartsCounted' /\ started' \in Nat
      <3>1. 3 \in 0 .. 3 /\ 3 > 0 /\ built[s] > 0
        BY <2>2
      <3>. QED BY <2>1, <2>2, <3>1, StartsKept, Zenon
    <2>5. TypeOK'
      BY <2>1, <2>2, <2>3, <2>4, State, OrderKnown DEF TypeOK, Body
    <2>6. StagesKnown'
      BY <1>0, <2>1, <2>2, <2>3, State DEF StagesKnown, Body
    <2>. QED BY <2>4, <2>5, <2>6 DEF LifeInv
  <1>. QED BY <1>1, <1>2, <1>3, <1>4 DEF Building

LEMMA WorkingStep ==
    ASSUME LifeInv, NEW s \in Scopes, Working(s) PROVE LifeInv'
  <1>0. StagesKnown /\ StartsCounted
    BY DEF LifeInv
  <1>. USE <1>0, State, OrderKnown
       DEF LifeInv, TypeOK, StartsCounted, StagesKnown, Goto, Socket
  <1>1. CASE Bind(s)
    BY <1>1 DEF Bind
  <1>2. CASE Listen(s)
    BY <1>2 DEF Listen
  <1>3. CASE Connect(s)
    BY <1>3 DEF Connect
  <1>4. CASE Send(s)
    BY <1>4 DEF Send
  <1>5. CASE Shutdown(s)
    BY <1>5 DEF Shutdown
  <1>6. CASE Throw(s)
    BY <1>6 DEF Throw
  <1>7. CASE Destroy(s)
    BY <1>7 DEF Destroy
  <1>. QED BY <1>1, <1>2, <1>3, <1>4, <1>5, <1>6, <1>7 DEF Working

LEMMA DroppingStep ==
    ASSUME LifeInv, NEW s \in Scopes, Dropping(s) PROVE LifeInv'
  <1>0. StagesKnown /\ StartsCounted
    BY DEF LifeInv
  <1>1. CASE FreeList(s)
    <2>1. Remove(s, "ai") /\ lists' = lists \ {s} /\ UNCHANGED <<started, kernel>>
      BY <1>1 DEF FreeList
    <2>2. built[s] = 3 /\ built' = [built EXCEPT ![s] = 2]
      <3>1. built[s] = 3
        BY <2>1, Positions, Zenon
      <3>. QED BY <2>1, <3>1 DEF Remove
    <2>3. \/ at[s] = "leaving" /\ at' = [at EXCEPT ![s] = "leaving"]
          \/ at[s] = "constructed" /\ at' = [at EXCEPT ![s] = "alive"]
      BY <1>1, <2>2 DEF FreeList, Leaving, Goto
    <2>4. StartsCounted' /\ started' \in Nat
      <3>1. 2 \in 0 .. 3 /\ 2 > 0 /\ built[s] > 0
        BY <2>2
      <3>. QED BY <2>1, <2>2, <3>1, StartsKept, Zenon
    <2>5. TypeOK'
      BY <2>1, <2>2, <2>3, <2>4, State, OrderKnown DEF TypeOK, Body
    <2>6. StagesKnown'
      BY <1>0, <2>1, <2>2, <2>3, State DEF StagesKnown, Body
    <2>. QED BY <2>4, <2>5, <2>6 DEF LifeInv
  <1>2. CASE CloseSocket(s)
    <2>1. Remove(s, "socket") /\ kernel' = [kernel EXCEPT ![s] = "none"]
          /\ UNCHANGED <<started, lists>>
      BY <1>2 DEF CloseSocket
    <2>2. built[s] = 2 /\ built' = [built EXCEPT ![s] = 1]
      <3>1. built[s] = 2
        BY <2>1, Positions, Zenon
      <3>. QED BY <2>1, <3>1 DEF Remove
    <2>3. at[s] = "leaving" /\ at' = [at EXCEPT ![s] = "leaving"]
      BY <1>2, <2>2 DEF CloseSocket, Leaving, Goto
    <2>4. StartsCounted' /\ started' \in Nat
      <3>1. 1 \in 0 .. 3 /\ 1 > 0 /\ built[s] > 0
        BY <2>2
      <3>. QED BY <2>1, <2>2, <3>1, StartsKept, Zenon
    <2>5. TypeOK'
      BY <2>1, <2>2, <2>3, <2>4, State, OrderKnown DEF TypeOK, Body
    <2>6. StagesKnown'
      BY <1>0, <2>1, <2>2, <2>3, State DEF StagesKnown, Body
    <2>. QED BY <2>4, <2>5, <2>6 DEF LifeInv
  <1>3. CASE CleanupWinsock(s)
    <2>1. Remove(s, "winsock_init") /\ started' = started - 1 /\ UNCHANGED lists
      BY <1>3 DEF CleanupWinsock
    <2>2. built[s] = 1 /\ built' = [built EXCEPT ![s] = 0]
      <3>1. built[s] = 1
        BY <2>1, Positions, Zenon
      <3>. QED BY <2>1, <3>1 DEF Remove
    <2>3. at[s] = "leaving" /\ at' = [at EXCEPT ![s] = "none"]
      BY <1>3, <2>2 DEF CleanupWinsock, Leaving, Goto
    <2>4. StartsCounted' /\ started' \in Nat
      <3>1. 0 \in 0 .. 3 /\ built[s] > 0
        BY <2>2
      <3>. QED BY <2>1, <2>2, <3>1, StartsKept, Zenon
    <2>7. kernel' = kernel
      <3>1. CASE started = 1
        <4>1. \A t \in Scopes : built[t] > 0 => t = s
          BY <2>2, <3>1, OnlyOneStarted
        <4>2. \A t \in Scopes : kernel[t] = "none"
          BY <1>0, <2>2, <4>1, State DEF StagesKnown
        <4>. QED BY <1>3, <3>1, <4>2, State DEF CleanupWinsock
      <3>. QED BY <1>3, <3>1 DEF CleanupWinsock
    <2>5. TypeOK'
      BY <2>1, <2>2, <2>3, <2>4, <2>7, State, OrderKnown DEF TypeOK, Body
    <2>6. StagesKnown'
      BY <1>0, <2>1, <2>2, <2>3, <2>7, State DEF StagesKnown, Body
    <2>. QED BY <2>4, <2>5, <2>6 DEF LifeInv
  <1>. QED BY <1>1, <1>2, <1>3 DEF Dropping
-----------------------------------------------------------------------------
(* The theorems. *)

\* server-tcp.cpp:28-53, client-tcp.cpp:14-65: the invariant of the objects holds
\* whatever is constructed, throws and is destructed meanwhile.
THEOREM LifeInvHolds == Spec => []LifeInv
  <1>1. Init => LifeInv
    <2>1. SUFFICES ASSUME Init PROVE LifeInv
      OBVIOUS
    <2>2. {s \in Scopes : built[s] > 0} = {}
      BY <2>1 DEF Init
    <2>. QED BY <2>1, <2>2, FS_EmptySet
             DEF Init, LifeInv, TypeOK, StartsCounted, StagesKnown, Order
  <1>2. LifeInv /\ [Next]_vars => LifeInv'
    <2>1. LifeInv /\ UNCHANGED vars => LifeInv'
      BY DEF vars, LifeInv, TypeOK, StartsCounted, StagesKnown
    <2>. QED BY <2>1, BuildingStep, WorkingStep, DroppingStep DEF Next
  <1>. QED BY <1>1, <1>2, PTL DEF Spec

\* server-tcp.hpp:49-51, socket.cpp:14-28: no WSACleanup() comes before the last
\* socket is closed.
THEOREM SocketsUsable == Spec => []SocketsStayUsable
  <1>1. ASSUME LifeInv PROVE SocketsStayUsable
    <2>1. built \in [Scopes -> 0 .. 3] /\ started = Cardinality(Started(built))
      BY <1>1 DEF LifeInv, TypeOK, StartsCounted, Started, Order
    <2>2. \A s \in Scopes : Holds(s, "socket") => built[s] >= 2
      BY <2>1 DEF Holds, Order
    <2>3. \A s \in Scopes : built[s] >= 2 => started > 0
      BY <2>1, CountStarted
    <2>. QED BY <1>1, <2>2, <2>3 DEF SocketsStayUsable, LifeInv, StagesKnown
  <1>. QED BY LifeInvHolds, <1>1, PTL

\* No exception leaks a socket, an address list or a start-up.
THEOREM NothingIsLeft == Spec => []NothingLeft
  <1>1. ASSUME LifeInv PROVE NothingLeft
    <2>1. (\A s \in Scopes : at[s] = "none") => {s \in Scopes : built[s] > 0} = {}
      BY <1>1 DEF LifeInv, StagesKnown
    <2>2. (\A s \in Scopes : at[s] = "none") => started = 0
      BY <1>1, <2>1, FS_EmptySet DEF LifeInv, StartsCounted
    <2>3. \A s \in Scopes : at[s] = "none" => kernel[s] = "none" /\ s \notin lists
      BY <1>1 DEF LifeInv, StagesKnown
    <2>. QED BY <2>2, <2>3 DEF NothingLeft
  <1>. QED BY LifeInvHolds, <1>1, PTL

\* server-tcp.cpp:28-53: a constructed server listens and answers with its port.
THEOREM ConstructedServerListens == Spec => []AliveServerListens
  <1>1. LifeInv => AliveServerListens
    BY DEF LifeInv, TypeOK, StagesKnown, AliveServerListens, is_listen, get_port,
           Scopes
  <1>. QED BY LifeInvHolds, <1>1, PTL
=============================================================================
