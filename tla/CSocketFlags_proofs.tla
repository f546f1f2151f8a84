------------------------ MODULE CSocketFlags_proofs -------------------------
(***************************************************************************)
(* Proofs that the members of a CSocket tell the truth about its socket,   *)
(* for every number of objects, threads, descriptors and ports.            *)
(*                                                                         *)
(* The family is right however objects are moved.  The flags are right as  *)
(* long as an object is moved or assigned only while nobody else uses it:  *)
(* the run socket_shared_moves shows that without this they are not.       *)
(*                                                                         *)
(* Between the steps of a move or a swap two slots have one member         *)
(* exchanged and another not yet; FamilyKnown and FlagInv say which, and   *)
(* FlagInv that nobody looks at the flags then.                            *)
(***************************************************************************)
EXTENDS CSocket_proofs
-----------------------------------------------------------------------------
(* The family. *)

\* The steps before which one of m_af and m_sfd is exchanged and the other not,
\* and the two slots it is about.
Halves == {"move_sfd", "assign_sfd", "swap_af"}
One(t) == IF pc[t] = "assign_sfd" THEN t ELSE this[t]
Other(t) == IF pc[t] = "swap_af" THEN t ELSE that[t]
InHalf(o) == \E t \in Threads : pc[t] \in Halves /\ o \in {One(t), Other(t)}

\* The family of the socket a slot holds.
Fam(o) == IF m_sfd[o] = INVALID_SOCKET THEN None ELSE kernel[m_sfd[o]].af

Crossed(t) == m_af[One(t)] = Fam(Other(t)) /\ m_af[Other(t)] = Fam(One(t))

FamilyKnown ==
    /\ \A t \in Threads : pc[t] \in Halves => Crossed(t)
    /\ \A o \in Slots : InHalf(o) \/ m_af[o] = Fam(o)

\* What a thread changes in the slots of P, no other thread changes there.
Mine(t, P) ==
    \A s \in Threads \ {t} : pc[s] \in Changing => {s, this[s], that[s]} \cap P = {}

LEMMA NotTheirs ==
    ASSUME SocketInv, NEW t \in Threads, NEW P \in SUBSET Slots,
           \A x \in P : x # t => /\ x \in Vars
                                 /\ \A s \in Threads \ {t} :
                                       pc[s] \in Changing => x \notin {this[s], that[s]}
    PROVE  Mine(t, P)
  <1>1. SUFFICES ASSUME NEW s \in Threads \ {t}, pc[s] \in Changing
                 PROVE  {s, this[s], that[s]} \cap P = {}
    BY DEF Mine
  <1>2. s \notin Vars /\ s # t /\ t \notin Vars
    BY <1>1, Distinct
  <1>3. this[s] \in Vars /\ that[s] \in Vars \cup {None} /\ None \notin Slots
    BY <1>1, Arguments, StateTypes, Distinct DEF SocketInv, Changing
  <1>. QED BY <1>1, <1>2, <1>3

\* The slots of a half-done exchange.
LEMMA HalfSlots ==
    ASSUME SocketInv, NEW s \in Threads, pc[s] \in Halves
    PROVE  /\ One(s) \in {s, this[s]} /\ Other(s) \in {s, that[s]}
           /\ One(s) \in Slots /\ Other(s) \in Slots /\ pc[s] \in Changing
  BY Arguments, Distinct DEF SocketInv, Halves, One, Other, Changing

\* A slot that keeps its descriptor keeps the family of its socket.
LEMMA FamStays ==
    ASSUME SocketInv, SocketInv', SystemSane, NEW t \in Threads, Step(t),
           NEW o \in Slots, m_sfd'[o] = m_sfd[o]
    PROVE  Fam(o)' = Fam(o)
  <1>1. m_sfd[o] # INVALID_SOCKET => m_sfd[o] \in Fds /\ Open(m_sfd[o]) /\ Open(m_sfd[o])'
    BY Holding1 DEF SocketInv, DescriptorsOwned
  <1>. QED BY <1>1, SystemStep DEF Fam

\* Families are kept where a step touches nothing, if they are right where it
\* does.
LEMMA FamilyKept ==
    ASSUME SocketInv, SocketInv', SystemSane, FamilyKnown, NEW t \in Threads, Step(t),
           NEW P \in SUBSET Slots, Mine(t, P),
           \A o \in Slots \ P : m_sfd'[o] = m_sfd[o] /\ m_af'[o] = m_af[o],
           pc[t] \in Halves => One(t) \in P /\ Other(t) \in P,
           pc'[t] \in Halves => Crossed(t)',
           \A o \in P : m_af'[o] = Fam(o)' \/ (pc'[t] \in Halves /\ o \in {One(t)', Other(t)'})
    PROVE  FamilyKnown'
  <1>1. \A s \in Threads \ {t} :
            pc'[s] = pc[s] /\ this'[s] = this[s] /\ that'[s] = that[s]
    BY OthersKeep DEF Step, SocketInv
  <1>2. \A o \in Slots \ P : Fam(o)' = Fam(o)
    BY FamStays
  <1>3. ASSUME NEW s \in Threads, pc'[s] \in Halves PROVE Crossed(s)'
    <2>1. CASE s # t
      <3>1. Crossed(s) /\ One(s) \in Slots \ P /\ Other(s) \in Slots \ P
        BY <1>1, <1>3, <2>1, HalfSlots DEF FamilyKnown, Mine
      <3>2. One(s)' = One(s) /\ Other(s)' = Other(s)
        BY <1>1, <2>1 DEF One, Other
      <3>3. Fam(One(s))' = Fam(One(s)) /\ Fam(Other(s))' = Fam(Other(s))
        <4>1. PICK x \in Slots \ P, y \in Slots \ P : x = One(s) /\ y = Other(s)
          BY <3>1
        <4>2. Fam(x)' = Fam(x) /\ Fam(y)' = Fam(y)
          BY <1>2
        <4>. QED BY <3>2, <4>1, <4>2 DEF Fam
      <3>4. m_af'[One(s)] = m_af[One(s)] /\ m_af'[Other(s)] = m_af[Other(s)]
        BY <3>1
      <3>. QED BY <3>1, <3>2, <3>3, <3>4 DEF Crossed
    <2>. QED BY <1>3, <2>1
  <1>4. ASSUME NEW o \in Slots, ~InHalf(o)' PROVE m_af'[o] = Fam(o)'
    <2>1. CASE o \notin P
      <3>1. ~InHalf(o)
        BY <1>1, <1>4, <2>1 DEF InHalf, One, Other
      <3>. QED BY <1>2, <2>1, <3>1 DEF FamilyKnown
    <2>2. CASE o \in P
      BY <1>4, <2>2 DEF InHalf
    <2>. QED BY <2>1, <2>2
  <1>. QED BY <1>3, <1>4 DEF FamilyKnown

\* Slots that nobody else changes.
LEMMA MineAlready ==
    ASSUME SocketInv, ChangesApart, NEW t \in Threads, pc[t] \in Changing,
           NEW P \in SUBSET Slots, P \subseteq {t, this[t], that[t]}
    PROVE  Mine(t, P)
  <1>1. ASSUME NEW x \in P, x # t
        PROVE  /\ x \in Vars
               /\ \A s \in Threads \ {t} : pc[s] \in Changing => x \notin {this[s], that[s]}
    <2>1. x \in Vars /\ x # None /\ x \in {this[t], that[t]}
      BY <1>1, StateTypes, Distinct DEF SocketInv
    <2>. QED BY <2>1 DEF ChangesApart, Apart
  <1>. QED BY <1>1, NotTheirs

LEMMA MineNow ==
    ASSUME SocketInv, NEW t \in Threads, NEW P \in SUBSET Slots,
           \A x \in P \ {t} : x \in Vars /\ ~BeingChanged(x)
    PROVE  Mine(t, P)
  <1>1. \A x \in P : x # t =>
            /\ x \in Vars
            /\ \A s \in Threads \ {t} : pc[s] \in Changing => x \notin {this[s], that[s]}
    BY DEF BeingChanged
  <1>. QED BY <1>1, NotTheirs

\* Slots that are in no exchange have the family of their socket.
LEMMA MineWhole ==
    ASSUME SocketInv, FamilyKnown, NEW t \in Threads, NEW P \in SUBSET Slots, Mine(t, P),
           pc[t] \notin Halves, NEW o \in P
    PROVE  m_af[o] = Fam(o)
  BY HalfSlots DEF FamilyKnown, InHalf, Mine

\* A step that changes no slot, and one that ends the object in one.
LEMMA FamilyQuiet ==
    ASSUME SocketInv, SocketInv', SystemSane, FamilyKnown, NEW t \in Threads, Step(t),
           UNCHANGED <<m_sfd, m_af>>, pc[t] \notin Halves, pc'[t] \notin Halves
    PROVE  FamilyKnown'
  <1>1. {} \in SUBSET Slots /\ Mine(t, {})
    BY DEF Mine
  <1>. QED BY <1>1, FamilyKept

LEMMA FamilyDropped ==
    ASSUME SocketInv, SocketInv', SystemSane, FamilyKnown, NEW t \in Threads, Step(t),
           NEW o \in Slots, Destruct(o), Mine(t, {o}),
           pc[t] \notin Halves, pc'[t] \notin Halves
    PROVE  FamilyKnown'
  <1>1. /\ m_sfd'[o] = INVALID_SOCKET /\ m_af'[o] = None
        /\ \A x \in Slots \ {o} : m_sfd'[x] = m_sfd[x] /\ m_af'[x] = m_af[x]
    BY StateTypes DEF SocketInv, Destruct
  <1>2. m_af'[o] = Fam(o)'
    BY <1>1 DEF Fam
  <1>. QED BY <1>1, <1>2, FamilyKept

\* A step that exchanges one of the two members between two slots.
LEMMA FamilyOpens ==
    ASSUME SocketInv, SocketInv', SystemSane, FamilyKnown, NEW t \in Threads, Step(t),
           NEW q \in Slots, NEW p \in Slots, q # p, Mine(t, {q, p}), UNCHANGED kernel,
           \/ /\ m_af' = [m_af EXCEPT ![q] = m_af[p], ![p] = m_af[q]] /\ m_sfd' = m_sfd
           \/ /\ m_sfd' = [m_sfd EXCEPT ![q] = m_sfd[p], ![p] = m_sfd[q]] /\ m_af' = m_af,
           pc[t] \notin Halves, pc'[t] \in Halves, One(t)' = q, Other(t)' = p
    PROVE  FamilyKnown'
  <1>1. m_af[q] = Fam(q) /\ m_af[p] = Fam(p)
    BY MineWhole
  <1>2. /\ \A x \in Slots \ {q, p} : m_sfd'[x] = m_sfd[x] /\ m_af'[x] = m_af[x]
        /\ \/ m_af'[q] = m_af[p] /\ m_af'[p] = m_af[q] /\ m_sfd' = m_sfd
           \/ m_sfd'[q] = m_sfd[p] /\ m_sfd'[p] = m_sfd[q] /\ m_af' = m_af
    BY StateTypes DEF SocketInv
  <1>3. m_af'[q] = Fam(p)' /\ m_af'[p] = Fam(q)'
    BY <1>1, <1>2 DEF Fam
  <1>4. Crossed(t)'
    BY <1>3 DEF Crossed, Fam
  <1>. QED BY <1>2, <1>4, FamilyKept

\* The step that exchanges the other one.
LEMMA FamilyCloses ==
    ASSUME SocketInv, SocketInv', SystemSane, FamilyKnown, NEW t \in Threads, Step(t),
           NEW q \in Slots, NEW p \in Slots, q # p, Mine(t, {q, p}), UNCHANGED kernel,
           \/ /\ m_af' = [m_af EXCEPT ![q] = m_af[p], ![p] = m_af[q]] /\ m_sfd' = m_sfd
           \/ /\ m_sfd' = [m_sfd EXCEPT ![q] = m_sfd[p], ![p] = m_sfd[q]] /\ m_af' = m_af,
           pc[t] \in Halves, pc'[t] \notin Halves, One(t) = q, Other(t) = p
    PROVE  FamilyKnown'
  <1>1. m_af[q] = Fam(p) /\ m_af[p] = Fam(q)
    BY DEF FamilyKnown, Crossed
  <1>2. /\ \A x \in Slots \ {q, p} : m_sfd'[x] = m_sfd[x] /\ m_af'[x] = m_af[x]
        /\ \/ m_af'[q] = m_af[p] /\ m_af'[p] = m_af[q] /\ m_sfd' = m_sfd
           \/ m_sfd'[q] = m_sfd[p] /\ m_sfd'[p] = m_sfd[q] /\ m_af' = m_af
    BY StateTypes DEF SocketInv
  <1>3. m_af'[q] = Fam(q)' /\ m_af'[p] = Fam(p)'
    BY <1>1, <1>2 DEF Fam
  <1>. QED BY <1>2, <1>3, FamilyKept

\* Every step keeps the family of every slot known.
LEMMA FamilyStep ==
    ASSUME SocketInv, SocketInv', SystemSane, ChangesApart, FamilyKnown,
           NEW t \in Threads, Step(t)
    PROVE  FamilyKnown'
  <1>a. /\ TypeOK /\ LifetimeRespected /\ t \in Slots /\ t \notin Vars
        /\ \A o \in Vars : o \in Slots
        /\ pc[t] # "idle" => this[t] \in Vars
        /\ pc[t] \in {"move_sfd", "assign_sfd"} => that[t] \in Vars
        /\ pc \in [Threads -> Pcs] /\ this \in [Threads -> Vars \cup {None}]
        /\ that \in [Threads -> Vars \cup {None}]
    BY StateTypes, Distinct, Arguments DEF SocketInv
  <1>b. \A o : ~InUse(o) => ~BeingChanged(o)
    BY DEF InUse, BeingChanged, Changing
  <1>. USE DEF objects, local
  <1>1. CASE Setting(t) \/ Getting(t) \/ Return(t)
    <2>1. m_af' = m_af
      BY <1>1 DEF Setting, Bind, Listen, SetOption, BindType, BindLock, BindCall,
         BindCallFails, BindStore, ListenLock, ListenCall, ListenCallFails, ListenStore,
         Setsockopt, SetsockoptFails, Getting, IsBind, IsListen, GetPort, GetSockerr,
         IsReuseAddr, IsV6only, Check, Unchecked, IsBindRead, IsListenRead,
         GetPortIsBind, GetPortRead, GetPortName, Getsockname, SockerrOption,
         ReuseOption, V6onlyFamily, V6onlySfd, V6onlyOption, getsockopt_int, Return
    <2>2. m_sfd' = m_sfd /\ pc[t] \notin Halves /\ pc'[t] \notin Halves
      BY <1>a, <1>1, PlainStep DEF Plain, Changing, Halves
    <2>. QED BY <2>1, <2>2, FamilyQuiet
  <1>2. CASE \E o \in Vars : Empty(t, o) \/ CtorSocket(t, o) \/ CtorSocketFails(t, o)
    BY <1>a, <1>2, FamilyQuiet DEF Empty, CtorSocket, CtorSocketFails, Enter, Halves
  <1>3. ASSUME NEW o \in Vars, Dtor(t, o) PROVE FamilyKnown'
    <2>1. /\ Destruct(o) /\ ~InUse(o) /\ pc[t] = "idle" /\ pc'[t] = "return"
      BY <1>a, <1>3 DEF Dtor, MayDestruct, Enter
    <2>2. {o} \in SUBSET Slots /\ Mine(t, {o})
      BY <1>a, <1>b, <2>1, MineNow
    <2>. QED BY <1>a, <2>1, <2>2, FamilyDropped DEF Halves
  <1>4. CASE CtorReuse(t) \/ CtorV6only(t)
    <2>1. CASE UNCHANGED <<m_sfd, m_af>>
      BY <1>a, <1>4, <2>1, FamilyQuiet DEF CtorReuse, CtorV6only, Goto, Halves
    <2>2. CASE ~UNCHANGED <<m_sfd, m_af>>
      <3>1. PICK o \in Vars, f \in Fds :
              /\ o = this[t] /\ f = sfd[t] /\ Open(f) /\ f # INVALID_SOCKET
              /\ pc[t] \in {"ctor_reuse", "ctor_v6only"} /\ pc'[t] = "return"
              /\ m_sfd' = [m_sfd EXCEPT ![o] = f]
              /\ m_af' = [m_af EXCEPT ![o] = kernel[f].af]
        <4>1. /\ pc[t] \in {"ctor_reuse", "ctor_v6only"} /\ pc'[t] = "return"
              /\ m_sfd' = [m_sfd EXCEPT ![this[t]] = sfd[t]]
              /\ m_af' = [m_af EXCEPT ![this[t]] = kernel[sfd[t]].af]
          BY <1>a, <1>4, <2>2 DEF CtorReuse, CtorV6only, Goto
        <4>2. sfd[t] \in Fds /\ Open(sfd[t]) /\ sfd[t] # INVALID_SOCKET
          BY <1>a, <4>1, Arguments, Holding1, Distinct DEF SocketInv
        <4>. QED BY <1>a, <4>1, <4>2
      <3>2. /\ m_sfd'[o] = f /\ m_af'[o] = kernel[f].af
            /\ \A x \in Slots \ {o} : m_sfd'[x] = m_sfd[x] /\ m_af'[x] = m_af[x]
        BY <1>a, <3>1, StateTypes
      <3>3. Open(f)'
        BY <1>a, <3>1, <3>2 DEF SocketInv, DescriptorsOwned
      <3>4. m_af'[o] = Fam(o)'
        BY <3>1, <3>2, <3>3, SystemStep DEF Fam
      <3>5. {o} \in SUBSET Slots /\ Mine(t, {o})
        BY <1>a, <3>1, MineAlready DEF Changing
      <3>. QED BY <3>1, <3>2, <3>4, <3>5, FamilyKept DEF Halves
    <2>. QED BY <2>1, <2>2
  <1>5. CASE CtorOptionFails(t) \/ MoveFlags(t) \/ AssignFlags(t) \/ SwapFlags(t)
    BY <1>a, <1>5, FamilyQuiet DEF CtorOptionFails, MoveFlags, AssignFlags, SwapFlags, Goto,
                                   Halves
  <1>6. ASSUME NEW o \in Vars, NEW p \in Vars, Move(t, o, p) \/ Assign(t, o, p)
        PROVE  FamilyKnown'
    <2>1. PICK q \in {o, t} :
            /\ TakeAf(q, p) /\ q # p /\ m_sfd[q] = INVALID_SOCKET
            /\ q = o => ~BeingChanged(o) /\ pc'[t] = "move_sfd"
            /\ q = t => pc'[t] = "assign_sfd"
      <3>1. CASE Move(t, o, p)
        <4>1. MayConstruct(o) /\ MayMove(p) /\ TakeAf(o, p) /\ pc'[t] = "move_sfd"
          BY <1>a, <3>1 DEF Move, Enter
        <4>2. m_sfd[o] = INVALID_SOCKET /\ ~BeingChanged(o) /\ o # p /\ o # t
          BY <1>a, <1>b, <4>1, FreeSlots DEF MayConstruct, MayMove
        <4>. QED BY <4>1, <4>2
      <3>2. CASE Assign(t, o, p)
        <4>1. TakeAf(t, p) /\ pc[t] = "idle" /\ pc'[t] = "assign_sfd"
          BY <1>a, <3>2 DEF Assign, Enter
        <4>2. m_sfd[t] = INVALID_SOCKET /\ t # p /\ t # o
          BY <1>a, <4>1, FreeSlots
        <4>. QED BY <4>1, <4>2
      <3>. QED BY <1>6, <3>1, <3>2
    <2>2. /\ ~BeingChanged(p) /\ pc[t] = "idle" /\ this'[t] = o /\ that'[t] = p
          /\ UNCHANGED <<kernel, m_sfd>>
      <3>1. MayMove(p) /\ Enter(t, o, p, pc'[t]) /\ UNCHANGED <<kernel, m_sfd>>
        BY <1>a, <1>6 DEF Move, Assign, Enter
      <3>. QED BY <1>a, <1>b, <3>1 DEF MayMove, Enter
    <2>3. {q, p} \in SUBSET Slots /\ Mine(t, {q, p})
      BY <1>a, <2>1, <2>2, MineNow
    <2>4. m_af[q] = None
      BY <2>1, <2>2, <2>3, MineWhole DEF Halves, Fam
    <2>5. m_af' = [m_af EXCEPT ![q] = m_af[p], ![p] = m_af[q]]
      BY <2>1, <2>4 DEF TakeAf
    <2>6. One(t)' = q /\ Other(t)' = p /\ pc'[t] \in Halves
      BY <1>a, <2>1, <2>2 DEF One, Other, Halves
    <2>. QED BY <2>1, <2>2, <2>3, <2>5, <2>6, FamilyOpens DEF Halves
  <1>7. CASE MoveSfd(t) \/ AssignSfd(t)
    <2>1. PICK q \in {this[t], t} :
            /\ TakeSfd(q, that[t]) /\ q # that[t] /\ m_sfd[q] = INVALID_SOCKET
            /\ q = One(t) /\ that[t] = Other(t) /\ q \in Slots
      <3>1. CASE MoveSfd(t)
        BY <1>a, <3>1, FreeSlots DEF MoveSfd, Goto, One, Other, LifetimeRespected, Constructors
      <3>2. CASE AssignSfd(t)
        BY <1>a, <3>2, FreeSlots DEF AssignSfd, Goto, One, Other
      <3>. QED BY <1>7, <3>1, <3>2
    <2>2. /\ pc[t] \in {"move_sfd", "assign_sfd"} /\ pc'[t] \notin Halves /\ that[t] \in Slots
          /\ UNCHANGED <<kernel, m_af>>
      BY <1>a, <1>7 DEF MoveSfd, AssignSfd, Goto, Halves
    <2>3. {q, that[t]} \in SUBSET Slots /\ Mine(t, {q, that[t]})
      BY <2>1, <2>2, MineAlready DEF Changing
    <2>4. m_sfd' = [m_sfd EXCEPT ![q] = m_sfd[that[t]], ![that[t]] = m_sfd[q]]
      BY <2>1 DEF TakeSfd
    <2>. QED BY <2>1, <2>2, <2>3, <2>4, FamilyCloses DEF Halves
  <1>8. CASE SwapSfd(t)
    <2>1. /\ pc[t] = "swap_sfd" /\ pc'[t] = "swap_af" /\ this' = this
          /\ UNCHANGED <<kernel, m_af>> /\ this[t] \in Slots /\ this[t] # t
          /\ m_sfd' = [m_sfd EXCEPT ![this[t]] = m_sfd[t], ![t] = m_sfd[this[t]]]
      BY <1>a, <1>8 DEF SwapSfd, Goto
    <2>2. {this[t], t} \in SUBSET Slots /\ Mine(t, {this[t], t})
      BY <1>a, <2>1, MineAlready DEF Changing
    <2>3. One(t)' = this[t] /\ Other(t)' = t
      BY <2>1 DEF One, Other
    <2>. QED BY <1>a, <2>1, <2>2, <2>3, FamilyOpens DEF Halves
  <1>9. CASE SwapAf(t)
    <2>1. /\ pc[t] = "swap_af" /\ pc'[t] = "swap_flags"
          /\ UNCHANGED <<kernel, m_sfd>> /\ this[t] \in Slots /\ this[t] # t
          /\ m_af' = [m_af EXCEPT ![this[t]] = m_af[t], ![t] = m_af[this[t]]]
      BY <1>a, <1>9 DEF SwapAf, Goto
    <2>2. {this[t], t} \in SUBSET Slots /\ Mine(t, {this[t], t})
      BY <1>a, <2>1, MineAlready DEF Changing
    <2>3. One(t) = this[t] /\ Other(t) = t
      BY <2>1 DEF One, Other
    <2>. QED BY <1>a, <2>1, <2>2, <2>3, FamilyCloses DEF Halves
  <1>10. CASE DropParam(t)
    <2>1. Destruct(t) /\ pc[t] = "drop_param" /\ pc'[t] = "return"
      BY <1>a, <1>10 DEF DropParam, Goto
    <2>2. {t} \in SUBSET Slots /\ Mine(t, {t})
      BY <1>a, <2>1, MineAlready DEF Changing
    <2>. QED BY <1>a, <2>1, <2>2, FamilyDropped DEF Halves
  <1>. QED BY <1>1, <1>2, <1>3, <1>4, <1>5, <1>6, <1>7, <1>8, <1>9, <1>10
           DEF Step, Construct, Constructing, Moving

\* A settled object is in no half-done exchange.
LEMMA FamilySettled ==
    ASSUME SocketInv, FamilyKnown PROVE FamilyAgrees
  <1>1. SUFFICES ASSUME NEW o \in live \cap Vars, Settled(o)
                 PROVE  m_af[o] = IF Open(m_sfd[o]) THEN kernel[m_sfd[o]].af ELSE None
    BY DEF FamilyAgrees
  <1>2. o \in Slots /\ o \notin Threads
    BY Distinct
  <1>3. ~InHalf(o)
    BY <1>1, <1>2, HalfSlots DEF InHalf, Settled, BeingChanged
  <1>4. Open(m_sfd[o]) <=> m_sfd[o] # INVALID_SOCKET
    BY <1>2, Holding1
  <1>. QED BY <1>2, <1>3, <1>4 DEF FamilyKnown, Fam

\* In every slot the family is that of the socket, or it is known which two slots
\* have exchanged one of the two members, however objects are moved.
THEOREM FamilyKnownHolds == Spec => []FamilyKnown
  <1>1. Init => FamilyKnown
    BY DEF Init, FamilyKnown, Halves, Fam
  <1>2. SocketInv /\ SocketInv' /\ SystemSane /\ ChangesApart /\ FamilyKnown /\ [Next]_vars
            => FamilyKnown'
    <2>1. SUFFICES ASSUME SocketInv, SocketInv', SystemSane, ChangesApart, FamilyKnown,
                          [Next]_vars
                   PROVE  FamilyKnown'
      OBVIOUS
    <2>2. CASE Next
      BY <2>1, <2>2, FamilyStep DEF Next, Step
    <2>3. CASE UNCHANGED vars
      BY <2>1, <2>3 DEF FamilyKnown, Crossed, InHalf, One, Other, Fam, vars, objects, call
    <2>. QED BY <2>1, <2>2, <2>3
  <1>. QED BY <1>1, <1>2, SocketInvHolds, SystemStaysSane, ChangesStayApart, PTL DEF Spec

\* Every settled object remembers the family of the socket it holds, also when
\* objects are moved while others use them (socket.cpp:109-112, 125-126).
THEOREM FamilyIsCached == Spec => []FamilyAgrees
  <1>1. SocketInv /\ FamilyKnown => FamilyAgrees
    BY FamilySettled
  <1>. QED BY <1>1, SocketInvHolds, FamilyKnownHolds, PTL
-----------------------------------------------------------------------------
(* Flags. *)

Named(f) == Open(f) /\ kernel[f].addr \in Ports
Passive(f) == Open(f) /\ kernel[f].lis

\* The steps before which descriptors are exchanged already and flags not yet,
\* and the two slots it is about.
Splits == {"move_flags", "assign_flags", "swap_af", "swap_flags"}
First(t) == IF pc[t] = "assign_flags" THEN t ELSE this[t]
Second(t) == IF pc[t] \in {"swap_af", "swap_flags"} THEN t ELSE that[t]
Whole(o) == \A t \in Threads : pc[t] \in Splits => o # First(t) /\ o # Second(t)

\* The flags of slot p describe the socket of slot o.
Describes(p, o) == (m_bound[p] <=> Named(m_sfd[o])) /\ (m_listen[p] <=> Passive(m_sfd[o]))

SwappedAt(t) ==
    /\ First(t) # Second(t)
    /\ Describes(First(t), Second(t)) /\ Describes(Second(t), First(t))
    /\ pc[t] \in {"move_flags", "assign_flags"} => m_sfd[that[t]] = INVALID_SOCKET

FlagsSwapped == \A t \in Threads : pc[t] \in Splits => SwappedAt(t)

\* bind() and listen() store a flag after the system has done it.
Storing(at, o) == \E t \in Threads : pc[t] = at /\ this[t] = o

WholeAt(o) ==
    /\ Storing("bind_store", o) \/ (m_bound[o] <=> Named(m_sfd[o]))
    /\ Storing("listen_store", o) \/ (m_listen[o] <=> Passive(m_sfd[o]))

FlagsWhole == \A o \in Slots : Whole(o) => WholeAt(o)

\* What a call has found out stays so until it answers.
Checked == {"is_bind", "is_listen", "v6only_af", "v6only", "v6only_call"}
Trusting == Checked \cup {"bind_store", "listen_store", "port_name", "port_call"}

TrueAt(t) ==
    /\ pc[t] \in {"bind_store", "port_name", "port_call"} => Named(m_sfd[this[t]])
    /\ pc[t] = "listen_store" => Passive(m_sfd[this[t]])
    /\ pc[t] \in Checked => m_sfd[this[t]] # INVALID_SOCKET

StillTrue == \A t \in Threads : TrueAt(t)

\* A socket under construction is new.
Fresh == \A t \in Threads : sfd[t] # INVALID_SOCKET => ~Named(sfd[t]) /\ ~Passive(sfd[t])

FlagInv == FlagsSwapped /\ FlagsWhole /\ StillTrue /\ Fresh

\* The steps of t outside of the slots in P.
Untouched(P) ==
    \A o \in Slots \ P :
        /\ m_sfd'[o] = m_sfd[o] /\ m_bound'[o] = m_bound[o] /\ m_listen'[o] = m_listen[o]
        /\ Named(m_sfd[o])' <=> Named(m_sfd[o])
        /\ Passive(m_sfd[o])' <=> Passive(m_sfd[o])

\* No other thread exchanges flags of a slot in P.
Elsewhere(t, P) ==
    \A s \in Threads \ {t} : pc[s] \in Splits => First(s) \notin P /\ Second(s) \notin P

\* The two slots of an exchange.
LEMMA SplitSlots ==
    ASSUME SocketInv, NEW s \in Threads, pc[s] \in Splits
    PROVE  /\ First(s) \in {s, this[s]} /\ Second(s) \in {s, that[s]}
           /\ this[s] \in Vars
           /\ pc[s] \in {"move_flags", "assign_flags"} => that[s] \in Vars
           /\ First(s) \in Slots /\ Second(s) \in Slots /\ pc[s] \in Changing
           /\ Second(s) = s \/ that[s] \in Vars
  BY Arguments, Distinct DEF SocketInv, Splits, First, Second, Changing

\* Slots that no other thread changes exchange flags with none of theirs.
LEMMA MineElsewhere ==
    ASSUME SocketInv, NEW t \in Threads, NEW P \in SUBSET Slots, Mine(t, P)
    PROVE  Elsewhere(t, P)
  BY SplitSlots DEF Elsewhere, Mine

\* Flags are kept where a step touches nothing, if they are right where it does.
LEMMA FlagsKept ==
    ASSUME SocketInv, FlagsSwapped, FlagsWhole, NEW t \in Threads, Step(t),
           NEW P \in SUBSET Slots, Untouched(P), Elsewhere(t, P),
           pc[t] \in Splits => First(t) \in P /\ Second(t) \in P,
           pc[t] \in {"bind_store", "listen_store"} => this[t] \in P,
           pc'[t] \in Splits => SwappedAt(t)',
           \A o \in P : WholeAt(o)' \/ (pc'[t] \in Splits /\ o \in {First(t)', Second(t)'})
    PROVE  FlagsSwapped' /\ FlagsWhole'
  <1>1. \A s \in Threads \ {t} :
            pc'[s] = pc[s] /\ this'[s] = this[s] /\ that'[s] = that[s]
    BY OthersKeep DEF Step, SocketInv
  <1>2. ASSUME NEW s \in Threads, pc'[s] \in Splits PROVE SwappedAt(s)'
    <2>1. CASE s # t
      <3>1. SwappedAt(s) /\ First(s) \in Slots \ P /\ Second(s) \in Slots \ P
        BY <1>1, <1>2, <2>1, SplitSlots DEF FlagsSwapped, Elsewhere
      <3>2. First(s)' = First(s) /\ Second(s)' = Second(s)
        BY <1>1, <2>1 DEF First, Second
      <3>3. pc[s] \in {"move_flags", "assign_flags"} => that[s] = Second(s)
        BY DEF Second
      <3>. QED BY <1>1, <2>1, <3>1, <3>2, <3>3 DEF SwappedAt, Describes, Untouched
    <2>. QED BY <1>2, <2>1
  <1>3. ASSUME NEW o \in Slots, Whole(o)' PROVE WholeAt(o)'
    <2>1. CASE o \notin P
      <3>1. Whole(o)
        BY <1>1, <1>3, <2>1 DEF Whole, First, Second
      <3>2. /\ Storing("bind_store", o) => Storing("bind_store", o)'
            /\ Storing("listen_store", o) => Storing("listen_store", o)'
        BY <1>1, <2>1 DEF Storing
      <3>. QED BY <2>1, <3>1, <3>2 DEF FlagsWhole, WholeAt, Untouched
    <2>2. CASE o \in P
      BY <1>3, <2>2 DEF Whole
    <2>. QED BY <2>1, <2>2
  <1>. QED BY <1>2, <1>3 DEF FlagsSwapped, FlagsWhole

\* What other threads trust in they may trust in further.
LEMMA TrueKept ==
    ASSUME SocketInv, StillTrue, NEW t \in Threads, Step(t), TrueAt(t)',
           \A s \in Threads \ {t} : pc[s] \in Trusting =>
               /\ m_sfd'[this[s]] = m_sfd[this[s]]
               /\ Named(m_sfd[this[s]]) => Named(m_sfd[this[s]])'
               /\ Passive(m_sfd[this[s]]) => Passive(m_sfd[this[s]])'
    PROVE  StillTrue'
  <1>1. SUFFICES ASSUME NEW s \in Threads \ {t} PROVE TrueAt(s)'
    BY DEF StillTrue
  <1>2. pc'[s] = pc[s] /\ this'[s] = this[s] /\ TrueAt(s)
    BY OthersKeep DEF Step, SocketInv, StillTrue
  <1>. QED BY <1>2 DEF TrueAt, Trusting, Checked

\* A step that changes no flag, no descriptor of a slot and no name.
LEMMA Quiet ==
    ASSUME SocketInv, FlagsSwapped, FlagsWhole, StillTrue, NEW t \in Threads, Step(t),
           UNCHANGED <<m_sfd, m_bound, m_listen>>,
           \A o \in Slots : /\ Named(m_sfd[o])' <=> Named(m_sfd[o])
                            /\ Passive(m_sfd[o])' <=> Passive(m_sfd[o]),
           pc[t] \notin Splits \cup {"bind_store", "listen_store"},
           pc'[t] \notin Splits, TrueAt(t)'
    PROVE  FlagsSwapped' /\ FlagsWhole' /\ StillTrue'
  <1>2. Untouched({}) /\ Elsewhere(t, {}) /\ {} \in SUBSET Slots
    BY DEF Untouched, Elsewhere
  <1>3. FlagsSwapped' /\ FlagsWhole'
    BY <1>2, FlagsKept
  <1>4. \A s \in Threads : pc[s] \in Trusting => this[s] \in Slots
    BY Arguments DEF SocketInv, Trusting, Checked
  <1>5. \A s \in Threads \ {t} : this'[s] = this[s]
    BY OthersKeep DEF Step, SocketInv
  <1>6. ASSUME NEW s \in Threads \ {t}, pc[s] \in Trusting
        PROVE  /\ m_sfd'[this[s]] = m_sfd[this[s]]
               /\ Named(m_sfd[this[s]]) => Named(m_sfd[this[s]])'
               /\ Passive(m_sfd[this[s]]) => Passive(m_sfd[this[s]])'
    BY <1>4, <1>5, <1>6
  <1>7. StillTrue'
    BY <1>6, TrueKept
  <1>. QED BY <1>3, <1>7

\* Sockets that stay as they are keep their names.
LEMMA NamesStay ==
    ASSUME SocketInv, UNCHANGED m_sfd, NEW o \in Slots,
           m_sfd[o] # INVALID_SOCKET => kernel'[m_sfd[o]] = kernel[m_sfd[o]]
    PROVE  /\ Named(m_sfd[o])' <=> Named(m_sfd[o])
           /\ Passive(m_sfd[o])' <=> Passive(m_sfd[o])
  BY Holding1, Distinct DEF Named, Passive, Open

\* Nobody exchanges the flags of an object in a call that changes none.
LEMMA CallSees ==
    ASSUME SocketInv, Exclusive, FlagsWhole, NEW t \in Threads, pc[t] # "idle",
           pc[t] \notin Splits
    PROVE  /\ Elsewhere(t, {this[t], t}) /\ Elsewhere(t, {this[t]}) /\ this[t] \in Slots
           /\ WholeAt(this[t]) /\ WholeAt(t)
  <1>1. this[t] \in Vars /\ this[t] \in Slots /\ t \in Slots
    BY Arguments DEF SocketInv
  <1>2. \A s \in Threads \ {t} : pc[s] \in Changing => this[t] \notin {this[s], that[s]}
    BY <1>1, Distinct DEF Exclusive, Apart
  <1>3. {this[t], t} \in SUBSET Slots
    BY <1>1
  <1>4. Elsewhere(t, {this[t], t})
    BY <1>1, <1>2, <1>3, NotTheirs, MineElsewhere
  <1>5. Whole(this[t]) /\ Whole(t)
    BY <1>4 DEF Whole, Elsewhere
  <1>6. Elsewhere(t, {this[t]})
    BY <1>4 DEF Elsewhere
  <1>. QED BY <1>1, <1>4, <1>5, <1>6 DEF FlagsWhole

\* Calls that take or give back a mutex, ask or answer.
LEMMA QuietCalls ==
    ASSUME SocketInv, Exclusive, FlagsWhole, StillTrue, NEW t \in Threads,
           Setting(t) \/ Getting(t) \/ Return(t),
           ~BindCall(t), ~ListenCall(t), ~BindStore(t), ~ListenStore(t), ~Setsockopt(t)
    PROVE  /\ UNCHANGED <<kernel, m_sfd, m_bound, m_listen>>
           /\ pc[t] \notin {"bind_store", "listen_store"}
           /\ TrueAt(t)'
  <1>a. TypeOK /\ MutexHeldByCall
    BY DEF SocketInv
  <1>. USE StateTypes DEF Enter, Goto, objects
  <1>1. ASSUME NEW o \in Vars,
               \/ \E ai \in Addrinfos : Bind(t, o, ai)
               \/ Listen(t, o) \/ SetOption(t, o)
               \/ GetPort(t, o) \/ GetSockerr(t, o) \/ IsReuseAddr(t, o)
        PROVE  /\ UNCHANGED <<kernel, m_sfd, m_bound, m_listen>>
               /\ pc[t] = "idle" /\ pc'[t] \notin Trusting
    BY <1>a, <1>1 DEF Bind, Listen, SetOption, GetPort, GetSockerr, IsReuseAddr,
                      Unchecked, Check, Trusting, Checked
  <1>2. ASSUME NEW o \in Vars, IsBind(t, o) \/ IsListen(t, o) \/ IsV6only(t, o)
        PROVE  /\ UNCHANGED <<kernel, m_sfd, m_bound, m_listen>>
               /\ pc[t] = "idle"
               /\ \/ pc'[t] = "return"
                  \/ pc'[t] \in Checked /\ m_sfd'[this'[t]] # INVALID_SOCKET
    BY <1>a, <1>2 DEF IsBind, IsListen, IsV6only, Check, Checked
  <1>3. CASE \/ BindType(t) \/ BindLock(t) \/ BindCallFails(t)
             \/ ListenLock(t) \/ ListenCallFails(t) \/ SetsockoptFails(t)
             \/ IsBindRead(t) \/ IsListenRead(t) \/ GetPortIsBind(t) \/ Getsockname(t)
             \/ SockerrOption(t) \/ ReuseOption(t) \/ V6onlyOption(t) \/ Return(t)
    <2>1. /\ UNCHANGED <<kernel, m_sfd, m_bound, m_listen>>
          /\ pc[t] \notin {"bind_store", "listen_store"} /\ pc'[t] \notin Trusting
      BY <1>a, <1>3 DEF BindType, BindLock, BindCallFails, ListenLock, ListenCallFails,
           SetsockoptFails, IsBindRead, IsListenRead, GetPortIsBind, Getsockname,
           SockerrOption, ReuseOption, V6onlyOption, getsockopt_int, Return, Trusting,
           Checked
    <2>. QED BY <2>1 DEF TrueAt, Trusting
  <1>4. CASE V6onlyFamily(t) \/ V6onlySfd(t)
    <2>1. /\ UNCHANGED <<kernel, m_sfd, m_bound, m_listen, this>>
          /\ pc[t] \in {"v6only_af", "v6only"} /\ pc'[t] \in {"v6only", "v6only_call", "return"}
      BY <1>a, <1>4 DEF V6onlyFamily, V6onlySfd
    <2>. QED BY <2>1 DEF StillTrue, TrueAt, Checked
  <1>5. CASE GetPortRead(t)
    <2>1. /\ UNCHANGED <<kernel, m_sfd, m_bound, m_listen, this>> /\ pc[t] = "port_read"
          /\ pc'[t] \in {"return", "port_name"}
          /\ pc'[t] = "port_name" => m_bound[this[t]]
          /\ m_bound_mutex[this[t]] = None
      BY <1>a, <1>5 DEF GetPortRead
    <2>2. WholeAt(this[t]) /\ this[t] \in Slots
      BY <2>1, CallSees DEF Splits
    <2>3. ~Storing("bind_store", this[t])
      BY <1>a, <2>1, <2>2, Distinct DEF MutexHeldByCall, Storing
    <2>4. pc'[t] = "port_name" => Named(m_sfd[this[t]])
      BY <2>1, <2>2, <2>3 DEF WholeAt
    <2>5. Named(m_sfd[this[t]])' <=> Named(m_sfd[this[t]])
      BY <2>1 DEF Named, Open
    <2>. QED BY <2>1, <2>4, <2>5 DEF TrueAt, Checked
  <1>8. CASE GetPortName(t)
    <2>1. /\ UNCHANGED <<kernel, m_sfd, m_bound, m_listen, this>>
          /\ pc[t] = "port_name" /\ pc'[t] = "port_call"
      BY <1>a, <1>8 DEF GetPortName
    <2>2. Named(m_sfd[this[t]])' <=> Named(m_sfd[this[t]])
      BY <2>1 DEF Named, Open
    <2>. QED BY <2>1, <2>2 DEF StillTrue, TrueAt, Checked
  <1>6. ASSUME pc'[t] \notin Trusting PROVE TrueAt(t)'
    BY <1>6 DEF TrueAt, Trusting
  <1>7. ASSUME pc'[t] \in Checked, m_sfd'[this'[t]] # INVALID_SOCKET PROVE TrueAt(t)'
    BY <1>7 DEF TrueAt, Checked
  <1>. QED BY <1>1, <1>2, <1>3, <1>4, <1>5, <1>6, <1>7, <1>8
           DEF Setting, Getting, Trusting, Checked

\* An option set through the raw descriptor names nothing.
LEMMA OptionSet ==
    ASSUME SocketInv, FlagsSwapped, FlagsWhole, StillTrue, NEW t \in Threads, Setsockopt(t)
    PROVE  FlagsSwapped' /\ FlagsWhole' /\ StillTrue'
  <1>a. Step(t) /\ TypeOK /\ pc \in [Threads -> Pcs] /\ kernel \in [Fds -> Socket \cup {None}]
    BY StateTypes DEF SocketInv, Step, Setting
  <1>0. PICK f \in Fds, so \in {"reuse", "v6only"}, v \in BOOLEAN :
          /\ f = fd[t] /\ Open(f) /\ kernel[f] \in Socket
          /\ kernel' = [kernel EXCEPT ![f] = WithOption(kernel[f], so, v)]
    <2>1. Open(fd[t]) /\ fd[t] \in Fds /\ kernel[fd[t]] \in Socket
      BY <1>a DEF Setsockopt, Open
    <2>2. \E so \in {"reuse", "v6only"}, v \in BOOLEAN :
             kernel' = [kernel EXCEPT ![fd[t]] = WithOption(kernel[fd[t]], so, v)]
      BY CSocketAssumption DEF Setsockopt
    <2>. QED BY <2>1, <2>2
  <1>1. PICK s : s = WithOption(kernel[f], so, v) /\ kernel' = [kernel EXCEPT ![f] = s]
    BY <1>0
  <1>2. /\ UNCHANGED <<m_sfd, m_bound, m_listen>>
        /\ pc[t] = "set_option" /\ pc'[t] = "return"
    BY <1>a DEF Setsockopt, Goto, objects
  <1>3. s \in Socket /\ s.addr = kernel[f].addr /\ s.lis = kernel[f].lis
    BY <1>0, <1>1, SocketUpdates DEF WithOption, Socket
  <1>4. \A g \in Fds : /\ Open(g)' <=> Open(g)
                       /\ Open(g) => /\ kernel'[g].addr = kernel[g].addr
                                     /\ kernel'[g].lis = kernel[g].lis
    BY <1>a, <1>0, <1>1, <1>3, Distinct DEF Open
  <1>5. \A o \in Slots : /\ Named(m_sfd[o])' <=> Named(m_sfd[o])
                         /\ Passive(m_sfd[o])' <=> Passive(m_sfd[o])
    BY <1>2, <1>4, Holding1 DEF Named, Passive, Open
  <1>6. TrueAt(t)' /\ pc[t] \notin Splits \cup {"bind_store", "listen_store"}
        /\ pc'[t] \notin Splits
    BY <1>2 DEF TrueAt, Checked, Splits
  <1>. QED BY <1>a, <1>2, <1>5, <1>6, Quiet

\* A system call names a socket or makes it listen; the flag is stored later.
LEMMA SystemCall ==
    ASSUME SocketInv, Exclusive, Loaded, FlagsSwapped, FlagsWhole, StillTrue,
           NEW t \in Threads, BindCall(t) \/ ListenCall(t)
    PROVE  FlagsSwapped' /\ FlagsWhole' /\ StillTrue'
  <1>. DEFINE o == this[t]
              f == m_sfd[o]
  <1>a. TypeOK /\ Step(t)
    BY DEF SocketInv, Step, Setting
  <1>b. /\ UNCHANGED <<m_sfd, m_bound, m_listen, this>>
        /\ f \in Fds /\ Open(f)
        /\ \/ pc[t] = "bind_call" /\ pc'[t] = "bind_store"
           \/ pc[t] = "listen_call" /\ pc'[t] = "listen_store"
        /\ pc[t] = "bind_call" => kernel' = [kernel EXCEPT ![f].addr = port[t].port]
        /\ pc[t] = "listen_call" => kernel' = [kernel EXCEPT ![f] = Listening(@)]
    <2>1. CASE BindCall(t)
      <3>1. fd[t] = f
        BY <2>1 DEF BindCall, Goto, Loaded, Calls
      <3>. QED BY <1>a, <2>1, <3>1, StateTypes DEF BindCall, BindAllowed, Goto, Open, objects
    <2>2. CASE ListenCall(t)
      <3>1. fd[t] = f
        BY <2>2 DEF ListenCall, Goto, Loaded, Calls
      <3>. QED BY <1>a, <2>2, <3>1, StateTypes
               DEF ListenCall, ListenAllowed, Goto, Open, objects
    <2>. QED BY <2>1, <2>2
  <1>c. /\ o \in Slots /\ WholeAt(o) /\ Elsewhere(t, {o}) /\ kernel[f] \in Socket
        /\ kernel \in [Fds -> Socket \cup {None}]
        /\ pc[t] = "bind_call" => port[t].port \in Ports
    <2>1. o \in Slots /\ WholeAt(o) /\ Elsewhere(t, {o})
      BY <1>b, CallSees DEF Splits
    <2>2. kernel[f] \in Socket /\ kernel \in [Fds -> Socket \cup {None}]
      BY <1>a, <1>b, <2>1, Holding1, StateTypes, Distinct
    <2>3. pc[t] = "bind_call" => port[t].port \in Ports
      BY <1>a, Arguments DEF SocketInv, Addrinfos
    <2>. QED BY <2>1, <2>2, <2>3
  <1>1. \A g \in Fds : g # f => kernel'[g] = kernel[g]
    BY <1>b, <1>c
  <1>2. /\ kernel'[f] \in Socket
        /\ pc[t] = "bind_call" => kernel'[f].addr \in Ports /\ kernel'[f].lis = kernel[f].lis
        /\ pc[t] = "listen_call" =>
              /\ kernel'[f].lis
              /\ kernel'[f].addr \in Ports <=> kernel[f].addr \in Ports
    <2>1. CASE pc[t] = "bind_call"
      BY <1>b, <1>c, <2>1, SocketUpdates DEF Socket
    <2>2. CASE pc[t] = "listen_call"
      <3>1. kernel'[f] = Listening(kernel[f])
        BY <1>b, <1>c, <2>2
      <3>2. kernel'[f] \in Socket
        BY <1>c, <3>1, SocketUpdates
      <3>3. /\ kernel'[f].lis
            /\ kernel'[f].addr = IF kernel[f].addr = Unbound THEN Ephemeral ELSE kernel[f].addr
        BY <1>c, <3>1 DEF Socket, Listening
      <3>. QED BY <2>2, <3>2, <3>3, CSocketAssumption
    <2>. QED BY <1>b, <2>1, <2>2
  <1>3. /\ pc[t] = "bind_call" => Named(f)' /\ (Passive(f)' <=> Passive(f))
        /\ pc[t] = "listen_call" => Passive(f)' /\ (Named(f)' <=> Named(f))
    BY <1>b, <1>c, <1>2, Distinct DEF Named, Passive, Open
  <1>4. ASSUME NEW p \in Slots, p # o
        PROVE  /\ Named(m_sfd[p])' <=> Named(m_sfd[p])
               /\ Passive(m_sfd[p])' <=> Passive(m_sfd[p])
    <2>1. m_sfd[p] # INVALID_SOCKET => m_sfd[p] \in Fds /\ m_sfd[p] # f
      BY <1>b, <1>c, <1>4, Holding1
    <2>. QED BY <1>1, <1>b, <2>1, Distinct DEF Named, Passive, Open
  <1>5. Untouched({o}) /\ {o} \in SUBSET Slots
    BY <1>b, <1>c, <1>4 DEF Untouched
  <1>6. \A s \in Threads \ {t} : pc'[s] = pc[s] /\ this'[s] = this[s]
    BY <1>a, OthersKeep DEF Step
  <1>7. WholeAt(o)'
    BY <1>b, <1>c, <1>3, <1>6 DEF WholeAt, Storing
  <1>8. FlagsSwapped' /\ FlagsWhole'
    <2>1. o \in {o} /\ pc[t] \notin Splits /\ pc'[t] \notin Splits
      BY <1>b DEF Splits
    <2>2. \A p \in {o} : WholeAt(p)'
      BY <1>7, <1>b
    <2>. QED BY <1>a, <1>5, <1>b, <1>c, <2>1, <2>2, FlagsKept
  <1>9. TrueAt(t)'
    BY <1>b, <1>3 DEF TrueAt, Checked
  <1>10. ASSUME NEW s \in Threads \ {t}, pc[s] \in Trusting
         PROVE  /\ m_sfd'[this[s]] = m_sfd[this[s]]
                /\ Named(m_sfd[this[s]]) => Named(m_sfd[this[s]])'
                /\ Passive(m_sfd[this[s]]) => Passive(m_sfd[this[s]])'
    <2>1. this[s] \in Slots
      BY <1>10, Arguments DEF SocketInv, Trusting, Checked
    <2>. QED BY <1>b, <1>3, <1>4, <1>6, <2>1
  <1>11. StillTrue'
    BY <1>a, <1>9, <1>10, TrueKept
  <1>. QED BY <1>8, <1>11

\* Then the flag says what the system has done.
LEMMA FlagStored ==
    ASSUME SocketInv, Exclusive, FlagsSwapped, FlagsWhole, StillTrue,
           NEW t \in Threads, BindStore(t) \/ ListenStore(t)
    PROVE  FlagsSwapped' /\ FlagsWhole' /\ StillTrue'
  <1>. DEFINE o == this[t]
  <1>a. TypeOK /\ Step(t)
    BY DEF SocketInv, Step, Setting
  <1>b. /\ UNCHANGED <<kernel, m_sfd, this>> /\ pc'[t] = "return"
        /\ pc[t] \in {"bind_store", "listen_store"}
        /\ pc[t] = "bind_store" =>
              m_bound' = [m_bound EXCEPT ![o] = TRUE] /\ m_listen' = m_listen
        /\ pc[t] = "listen_store" =>
              m_listen' = [m_listen EXCEPT ![o] = TRUE] /\ m_bound' = m_bound
    BY <1>a, StateTypes DEF BindStore, ListenStore, Goto
  <1>c. o \in Slots /\ WholeAt(o) /\ Elsewhere(t, {o})
    BY <1>b, CallSees DEF Splits
  <1>1. /\ \A p \in Slots \ {o} : m_bound'[p] = m_bound[p] /\ m_listen'[p] = m_listen[p]
        /\ pc[t] = "bind_store" => m_bound'[o] = TRUE /\ m_listen'[o] = m_listen[o]
        /\ pc[t] = "listen_store" => m_listen'[o] = TRUE /\ m_bound'[o] = m_bound[o]
    BY <1>a, <1>b, <1>c, StateTypes
  <1>2. \A p \in Slots : /\ Named(m_sfd[p])' <=> Named(m_sfd[p])
                         /\ Passive(m_sfd[p])' <=> Passive(m_sfd[p])
    BY <1>b DEF Named, Passive, Open
  <1>3. Untouched({o}) /\ {o} \in SUBSET Slots
    BY <1>b, <1>c, <1>1, <1>2 DEF Untouched
  <1>4. \A s \in Threads \ {t} : pc'[s] = pc[s] /\ this'[s] = this[s]
    BY <1>a, OthersKeep DEF Step
  <1>5. /\ pc[t] = "bind_store" => Named(m_sfd[o])
        /\ pc[t] = "listen_store" => Passive(m_sfd[o])
    BY DEF StillTrue, TrueAt
  <1>6. WholeAt(o)'
    BY <1>b, <1>c, <1>1, <1>2, <1>4, <1>5 DEF WholeAt, Storing
  <1>7. FlagsSwapped' /\ FlagsWhole'
    <2>1. o \in {o} /\ pc[t] \notin Splits /\ pc'[t] \notin Splits
      BY <1>b DEF Splits
    <2>2. \A p \in {o} : WholeAt(p)'
      BY <1>6, <1>b
    <2>. QED BY <1>a, <1>3, <1>c, <2>1, <2>2, FlagsKept
  <1>8. TrueAt(t)'
    BY <1>b DEF TrueAt, Checked
  <1>9. ASSUME NEW s \in Threads \ {t}, pc[s] \in Trusting
        PROVE  /\ m_sfd'[this[s]] = m_sfd[this[s]]
               /\ Named(m_sfd[this[s]]) => Named(m_sfd[this[s]])'
               /\ Passive(m_sfd[this[s]]) => Passive(m_sfd[this[s]])'
    <2>1. this[s] \in Slots
      BY <1>9, Arguments DEF SocketInv, Trusting, Checked
    <2>. QED BY <1>b, <1>2, <2>1
  <1>10. StillTrue'
    BY <1>a, <1>8, <1>9, TrueKept
  <1>. QED BY <1>7, <1>10

\* A slot whose socket is closed has no flag set.
LEMMA FlagsDropped ==
    ASSUME SocketInv, FlagsSwapped, FlagsWhole, StillTrue, NEW t \in Threads, Step(t),
           NEW o \in Slots, Destruct(o), Elsewhere(t, {o}), pc'[t] = "return",
           pc[t] \notin Splits \cup {"bind_store", "listen_store"},
           \A s \in Threads \ {t} : pc[s] \in Trusting => this[s] # o
    PROVE  FlagsSwapped' /\ FlagsWhole' /\ StillTrue'
  <1>1. /\ \A p \in Slots \ {o} : /\ m_sfd'[p] = m_sfd[p] /\ m_bound'[p] = m_bound[p]
                                  /\ m_listen'[p] = m_listen[p]
        /\ m_sfd'[o] = INVALID_SOCKET /\ m_bound'[o] = FALSE /\ m_listen'[o] = FALSE
    BY StateTypes DEF Destruct, SocketInv
  <1>2. ASSUME NEW p \in Slots, p # o
        PROVE  /\ Named(m_sfd[p])' <=> Named(m_sfd[p])
               /\ Passive(m_sfd[p])' <=> Passive(m_sfd[p])
    <2>1. m_sfd[p] # INVALID_SOCKET => m_sfd[p] \in Fds /\ m_sfd[p] # m_sfd[o]
      BY <1>2, Holding1
    <2>2. m_sfd[p] # INVALID_SOCKET => kernel'[m_sfd[p]] = kernel[m_sfd[p]]
      BY <2>1, StateTypes DEF Destruct, Closed, SocketInv
    <2>. QED BY <1>1, <1>2, <2>2, Distinct DEF Named, Passive, Open
  <1>3. Untouched({o}) /\ {o} \in SUBSET Slots
    BY <1>1, <1>2 DEF Untouched
  <1>4. WholeAt(o)'
    BY <1>1, Distinct DEF WholeAt, Named, Passive, Open
  <1>5. FlagsSwapped' /\ FlagsWhole'
    <2>1. pc'[t] \notin Splits
      BY DEF Splits
    <2>2. \A p \in {o} : WholeAt(p)'
      BY <1>4
    <2>. QED BY <1>3, <2>1, <2>2, FlagsKept
  <1>6. TrueAt(t)'
    BY DEF TrueAt, Checked
  <1>7. ASSUME NEW s \in Threads \ {t}, pc[s] \in Trusting
        PROVE  /\ m_sfd'[this[s]] = m_sfd[this[s]]
               /\ Named(m_sfd[this[s]]) => Named(m_sfd[this[s]])'
               /\ Passive(m_sfd[this[s]]) => Passive(m_sfd[this[s]])'
    <2>1. this[s] \in Slots /\ this[s] # o
      BY <1>7, Arguments DEF SocketInv, Trusting, Checked
    <2>2. this'[s] = this[s]
      BY OthersKeep DEF Step, SocketInv
    <2>. QED BY <1>1, <1>2, <2>1, <2>2
  <1>8. StillTrue'
    BY <1>6, <1>7, TrueKept
  <1>. QED BY <1>5, <1>8

\* A new socket arrives in a slot without flags.
LEMMA FlagsArrive ==
    ASSUME SocketInv, FlagsSwapped, FlagsWhole, StillTrue, Fresh,
           NEW t \in Threads, Step(t), pc[t] \in {"ctor_reuse", "ctor_v6only"},
           pc'[t] = "return", UNCHANGED <<m_bound, m_listen>>,
           NEW o \in Slots, this[t] = o, m_sfd' = [m_sfd EXCEPT ![o] = sfd[t]],
           \A g \in Fds : g # sfd[t] => kernel'[g] = kernel[g],
           kernel'[sfd[t]].addr = kernel[sfd[t]].addr,
           kernel'[sfd[t]].lis = kernel[sfd[t]].lis
    PROVE  FlagsSwapped' /\ FlagsWhole' /\ StillTrue'
  <1>a. TypeOK /\ LifetimeRespected /\ ArgumentsKnown /\ NoStrayDescriptor
    BY DEF SocketInv
  <1>b. /\ o \in Vars /\ o \in Slots /\ m_sfd[o] = INVALID_SOCKET /\ sfd[t] \in Fds
        /\ \A s \in Threads \ {t} : o \notin {this[s], that[s]}
        /\ Open(sfd[t]) /\ m_sfd \in [Slots -> Fds \cup {INVALID_SOCKET}]
    <2>1. /\ o \in Vars /\ o \in Slots /\ sfd[t] \in Fds /\ m_sfd[o] = INVALID_SOCKET
      BY <1>a, Arguments, FreeSlots
    <2>2. \A s \in Threads \ {t} : o \notin {this[s], that[s]}
      BY <1>a DEF LifetimeRespected, Constructors
    <2>. QED BY <1>a, <2>1, <2>2, Holding1, Distinct, StateTypes
  <1>c. Elsewhere(t, {o}) /\ WholeAt(o)
    <2>1. {o} \in SUBSET Slots
      BY <1>b
    <2>2. Elsewhere(t, {o})
      BY <1>b, <2>1, NotTheirs, MineElsewhere
    <2>3. Whole(o)
      BY <2>2 DEF Whole, Elsewhere, Splits
    <2>. QED BY <1>b, <2>2, <2>3 DEF FlagsWhole
  <1>1. ~m_bound[o] /\ ~m_listen[o]
    <2>1. ~Storing("bind_store", o) /\ ~Storing("listen_store", o)
      BY <1>b DEF Storing
    <2>. QED BY <1>b, <1>c, <2>1, Distinct DEF WholeAt, Named, Passive, Open
  <1>2. /\ m_sfd'[o] = sfd[t] /\ \A p \in Slots : p # o => m_sfd'[p] = m_sfd[p]
    BY <1>b
  <1>3. ~Named(m_sfd[o])' /\ ~Passive(m_sfd[o])'
    <2>1. ~Named(sfd[t]) /\ ~Passive(sfd[t])
      BY <1>b, Distinct DEF Fresh
    <2>2. sfd[t] \in Fds => kernel[sfd[t]].addr \notin Ports /\ ~kernel[sfd[t]].lis
      BY <1>b, <2>1 DEF Named, Passive
    <2>. QED BY <1>2, <2>2, <1>b DEF Named, Passive
  <1>4. ASSUME NEW p \in Slots, p # o
        PROVE  /\ Named(m_sfd[p])' <=> Named(m_sfd[p])
               /\ Passive(m_sfd[p])' <=> Passive(m_sfd[p])
    <2>1. m_sfd[p] # INVALID_SOCKET => m_sfd[p] \in Fds /\ m_sfd[p] # sfd[t]
      BY Holding1
    <2>2. m_sfd[p] # INVALID_SOCKET => kernel'[m_sfd[p]] = kernel[m_sfd[p]]
      BY <2>1
    <2>. QED BY <1>2, <1>4, <2>2, Distinct DEF Named, Passive, Open
  <1>5. Untouched({o}) /\ {o} \in SUBSET Slots
    BY <1>2, <1>4 DEF Untouched
  <1>6. WholeAt(o)'
    BY <1>1, <1>3 DEF WholeAt
  <1>7. FlagsSwapped' /\ FlagsWhole'
    <2>1. pc[t] \notin Splits \cup {"bind_store", "listen_store"} /\ pc'[t] \notin Splits
      BY DEF Splits
    <2>2. \A p \in {o} : WholeAt(p)'
      BY <1>6
    <2>. QED BY <1>5, <1>c, <2>1, <2>2, FlagsKept
  <1>8. TrueAt(t)'
    BY DEF TrueAt, Checked
  <1>9. ASSUME NEW s \in Threads \ {t}, pc[s] \in Trusting
        PROVE  /\ m_sfd'[this[s]] = m_sfd[this[s]]
               /\ Named(m_sfd[this[s]]) => Named(m_sfd[this[s]])'
               /\ Passive(m_sfd[this[s]]) => Passive(m_sfd[this[s]])'
    <2>1. this[s] \in Slots /\ this[s] # o
      BY <1>9, <1>b, Arguments DEF SocketInv, Trusting, Checked
    <2>2. this'[s] = this[s]
      BY <1>a, OthersKeep DEF Step
    <2>. QED BY <1>2, <1>4, <2>1, <2>2
  <1>10. StillTrue'
    BY <1>8, <1>9, TrueKept
  <1>. QED BY <1>7, <1>10

\* What nobody uses nobody exchanges flags of.
LEMMA UnusedApart ==
    ASSUME SocketInv, NEW t \in Threads, NEW o \in Vars, ~InUse(o)
    PROVE  /\ Elsewhere(t, {o}) /\ Elsewhere(t, {o, t})
           /\ \A s \in Threads : pc[s] # "idle" => o \notin {this[s], that[s]}
  <1>1. \A s \in Threads : pc[s] # "idle" => o \notin {this[s], that[s]}
    BY DEF InUse
  <1>2. {o} \in SUBSET Slots /\ {o, t} \in SUBSET Slots
    BY Distinct
  <1>3. \A s \in Threads : pc[s] \in Changing => o \notin {this[s], that[s]}
    BY <1>1 DEF Changing
  <1>4. Elsewhere(t, {o})
    BY <1>2, <1>3, NotTheirs, MineElsewhere
  <1>5. Elsewhere(t, {o, t})
    BY <1>2, <1>3, NotTheirs, MineElsewhere
  <1>. QED BY <1>1, <1>4, <1>5

\* Constructors and the destructor keep the flags right.
LEMMA ConstructFlags ==
    ASSUME SocketInv, FlagsSwapped, FlagsWhole, StillTrue, Fresh,
           NEW t \in Threads, Construct(t) \/ Constructing(t)
    PROVE  FlagsSwapped' /\ FlagsWhole' /\ StillTrue'
  <1>a. TypeOK /\ Step(t)
    BY DEF SocketInv, Step
  <1>b. /\ kernel \in [Fds -> Socket \cup {None}] /\ pc \in [Threads -> Pcs]
        /\ pc[t] \in {"ctor_reuse", "ctor_v6only"} => sfd[t] \in Fds /\ this[t] \in Slots
    BY <1>a, StateTypes, Arguments DEF SocketInv
  <1>c. ASSUME UNCHANGED <<m_sfd, m_bound, m_listen>>,
               \A o \in Slots : m_sfd[o] # INVALID_SOCKET =>
                   kernel'[m_sfd[o]] = kernel[m_sfd[o]],
               pc[t] \in {"idle", "ctor_reuse", "ctor_v6only"},
               pc'[t] \in {"return", "ctor_reuse", "ctor_v6only"}
        PROVE  FlagsSwapped' /\ FlagsWhole' /\ StillTrue'
    <2>1. TrueAt(t)'
      BY <1>c DEF TrueAt, Checked
    <2>2. pc[t] \notin Splits \cup {"bind_store", "listen_store"} /\ pc'[t] \notin Splits
      BY <1>c DEF Splits
    <2>3. \A o \in Slots : /\ Named(m_sfd[o])' <=> Named(m_sfd[o])
                           /\ Passive(m_sfd[o])' <=> Passive(m_sfd[o])
      BY <1>c, NamesStay
    <2>. QED BY <1>a, <1>c, <2>1, <2>2, <2>3, Quiet
  <1>. USE DEF objects
  <1>1. ASSUME NEW o \in Vars, Empty(t, o) \/ CtorSocketFails(t, o)
        PROVE  FlagsSwapped' /\ FlagsWhole' /\ StillTrue'
    BY <1>b, <1>c, <1>1 DEF Empty, CtorSocketFails, Enter
  <1>2. ASSUME NEW o \in Vars, CtorSocket(t, o)
        PROVE  FlagsSwapped' /\ FlagsWhole' /\ StillTrue'
    <2>1. PICK f \in Fds : ~Open(f) /\ \E x : kernel' = [kernel EXCEPT ![f] = x]
      BY <1>2 DEF CtorSocket, LowestFree
    <2>2. \A o1 \in Slots : m_sfd[o1] # INVALID_SOCKET =>
              m_sfd[o1] \in Fds /\ m_sfd[o1] # f
      BY <2>1, Holding1
    <2>3. \A o1 \in Slots : m_sfd[o1] # INVALID_SOCKET =>
              kernel'[m_sfd[o1]] = kernel[m_sfd[o1]]
      BY <1>b, <2>1, <2>2
    <2>4. /\ UNCHANGED <<m_sfd, m_bound, m_listen>> /\ pc[t] = "idle"
          /\ pc'[t] = "ctor_reuse"
      BY <1>2, <1>b DEF CtorSocket, Enter
    <2>. QED BY <1>c, <2>3, <2>4
  <1>3. ASSUME NEW o \in Vars, Dtor(t, o)
        PROVE  FlagsSwapped' /\ FlagsWhole' /\ StillTrue'
    <2>1. Destruct(o) /\ ~InUse(o) /\ pc[t] = "idle" /\ pc'[t] = "return"
      BY <1>3, <1>b DEF Dtor, MayDestruct, Enter
    <2>2. Elsewhere(t, {o}) /\ \A s \in Threads \ {t} : pc[s] \in Trusting => this[s] # o
      BY <2>1, UnusedApart DEF Trusting, Checked
    <2>3. o \in Slots /\ pc[t] \notin Splits \cup {"bind_store", "listen_store"}
      BY <2>1, Distinct DEF Splits
    <2>. QED BY <1>a, <2>1, <2>2, <2>3, FlagsDropped
  <1>4. CASE CtorReuse(t) \/ CtorV6only(t)
    <2>1. sfd[t] \in Fds /\ kernel[sfd[t]] \in Socket /\ this[t] \in Slots
      BY <1>4, <1>b, Holding1, Distinct DEF CtorReuse, CtorV6only, Goto
    <2>2. \A g \in Fds : g # sfd[t] => kernel'[g] = kernel[g]
      BY <1>4, <1>b, <2>1 DEF CtorReuse, CtorV6only
    <2>3. kernel'[sfd[t]].addr = kernel[sfd[t]].addr /\ kernel'[sfd[t]].lis = kernel[sfd[t]].lis
      <3>1. CASE CtorReuse(t)
        BY <1>b, <2>1, <3>1 DEF CtorReuse, Socket
      <3>2. CASE CtorV6only(t)
        BY <1>b, <2>1, <3>2 DEF CtorV6only, Socket
      <3>. QED BY <1>4, <3>1, <3>2
    <2>4. UNCHANGED <<m_bound, m_listen>> /\ pc[t] \in {"ctor_reuse", "ctor_v6only"}
      BY <1>4 DEF CtorReuse, CtorV6only, Goto
    <2>5. \/ pc'[t] = "ctor_v6only" /\ m_sfd' = m_sfd
          \/ pc'[t] = "return" /\ m_sfd' = [m_sfd EXCEPT ![this[t]] = sfd[t]]
      BY <1>4, <1>b DEF CtorReuse, CtorV6only, Goto
    <2>6. CASE pc'[t] = "ctor_v6only" /\ m_sfd' = m_sfd
      <3>1. \A o \in Slots : m_sfd[o] # INVALID_SOCKET =>
                kernel'[m_sfd[o]] = kernel[m_sfd[o]]
        BY <2>2, Holding1
      <3>. QED BY <1>c, <2>4, <2>6, <3>1
    <2>7. CASE pc'[t] = "return" /\ m_sfd' = [m_sfd EXCEPT ![this[t]] = sfd[t]]
      BY <1>a, <2>1, <2>2, <2>3, <2>4, <2>7, FlagsArrive
    <2>. QED BY <2>5, <2>6, <2>7
  <1>5. CASE CtorOptionFails(t)
    <2>1. /\ UNCHANGED <<m_sfd, m_bound, m_listen>> /\ kernel' = Closed(sfd[t])
          /\ pc[t] \in {"ctor_reuse", "ctor_v6only"} /\ pc'[t] = "return"
      BY <1>5, <1>b DEF CtorOptionFails, Goto
    <2>2. \A o \in Slots : m_sfd[o] # INVALID_SOCKET =>
              m_sfd[o] \in Fds /\ m_sfd[o] # sfd[t]
      BY Holding1
    <2>3. \A o \in Slots : m_sfd[o] # INVALID_SOCKET =>
              kernel'[m_sfd[o]] = kernel[m_sfd[o]]
      BY <1>b, <2>1, <2>2 DEF Closed
    <2>. QED BY <1>c, <2>1, <2>3
  <1>. QED BY <1>1, <1>2, <1>3, <1>4, <1>5 DEF Construct, Constructing

\* A call stores a flag of no object that another call moves.
LEMMA NotStoring ==
    ASSUME SocketInv, NEW t \in Threads, NEW o, pc[t] \notin {"bind_store", "listen_store"},
           \A s \in Threads \ {t} : pc[s] # "idle" => this[s] # o
    PROVE  /\ ~Storing("bind_store", o) /\ ~Storing("listen_store", o)
           /\ \A s \in Threads \ {t} : pc[s] \in Trusting => this[s] # o
  BY DEF Storing, Trusting, Checked

\* Nobody uses, or exchanges flags of, what a thread changes.
LEMMA ChangesElsewhere ==
    ASSUME SocketInv, Exclusive, NEW t \in Threads, pc[t] \in Changing,
           NEW q \in Slots, NEW p \in Slots,
           q \in {t, this[t], that[t]}, p \in {t, this[t], that[t]}
    PROVE  /\ Elsewhere(t, {q, p}) /\ {q, p} \in SUBSET Slots
           /\ \A s \in Threads \ {t} : pc[s] # "idle" => this[s] # q /\ this[s] # p
  <1>1. ChangesApart
    BY DEF ChangesApart, Exclusive, Changing
  <1>2. {q, p} \in SUBSET Slots
    OBVIOUS
  <1>3. Elsewhere(t, {q, p})
    BY <1>1, <1>2, MineAlready, MineElsewhere
  <1>4. ASSUME NEW s \in Threads \ {t}, pc[s] # "idle" PROVE this[s] # q /\ this[s] # p
    <2>1. this[s] \in Vars /\ t \notin Vars /\ None \notin Vars
      BY <1>4, Arguments, Distinct DEF SocketInv
    <2>2. this[s] # this[t] /\ this[s] # that[t]
      BY <1>4, <2>1 DEF Exclusive, Apart
    <2>. QED BY <2>1, <2>2
  <1>. QED BY <1>2, <1>3, <1>4

\* The descriptor goes before the flags, so those of two slots are exchanged:
\* in the move constructor, and in the swap of operator=().
LEMMA FlagsCross ==
    ASSUME SocketInv, Exclusive, FlagsSwapped, FlagsWhole, StillTrue, NEW t \in Threads,
           Step(t), pc[t] \in {"move_sfd", "assign_sfd", "swap_sfd"},
           NEW q \in Slots, NEW p \in Slots, q # p,
           q \in {t, this[t], that[t]}, p \in {t, this[t], that[t]},
           m_sfd' = [m_sfd EXCEPT ![q] = m_sfd[p], ![p] = m_sfd[q]],
           UNCHANGED <<kernel, m_bound, m_listen>>,
           pc'[t] \in {"move_flags", "assign_flags", "swap_af"},
           First(t)' = q, Second(t)' = p,
           pc'[t] \in {"move_flags", "assign_flags"} =>
               m_sfd[q] = INVALID_SOCKET /\ that'[t] = p
    PROVE  FlagsSwapped' /\ FlagsWhole' /\ StillTrue'
  <1>a. TypeOK /\ pc[t] \in Changing
    BY DEF SocketInv, Changing
  <1>b. /\ Elsewhere(t, {q, p}) /\ {q, p} \in SUBSET Slots
        /\ \A s \in Threads \ {t} : pc[s] # "idle" => this[s] # q /\ this[s] # p
    BY <1>a, ChangesElsewhere
  <1>1. Describes(q, q) /\ Describes(p, p)
    <2>1. Whole(q) /\ Whole(p)
      BY <1>b DEF Whole, Elsewhere, Splits
    <2>2. /\ ~Storing("bind_store", p) /\ ~Storing("listen_store", p)
          /\ ~Storing("bind_store", q) /\ ~Storing("listen_store", q)
      BY <1>b, NotStoring
    <2>. QED BY <2>1, <2>2 DEF FlagsWhole, WholeAt, Describes
  <1>2. /\ m_sfd'[q] = m_sfd[p] /\ m_sfd'[p] = m_sfd[q]
        /\ \A x \in Slots \ {q, p} : m_sfd'[x] = m_sfd[x]
    BY <1>a, StateTypes
  <1>3. SwappedAt(t)'
    <2>1. Describes(q, p)' /\ Describes(p, q)'
      BY <1>1, <1>2 DEF Describes, Named, Passive, Open
    <2>. QED BY <1>2, <2>1 DEF SwappedAt, Describes
  <1>4. Untouched({q, p})
    BY <1>2 DEF Untouched, Named, Passive, Open
  <1>5. FlagsSwapped' /\ FlagsWhole'
    <2>1. pc[t] \notin Splits \cup {"bind_store", "listen_store"} /\ pc'[t] \in Splits
      BY DEF Splits
    <2>2. \A x \in {q, p} : x \in {First(t)', Second(t)'}
      OBVIOUS
    <2>. QED BY <1>3, <1>4, <1>b, <2>1, <2>2, FlagsKept
  <1>6. TrueAt(t)'
    BY DEF TrueAt, Checked
  <1>7. ASSUME NEW s \in Threads \ {t}, pc[s] \in Trusting
        PROVE  /\ m_sfd'[this[s]] = m_sfd[this[s]]
               /\ Named(m_sfd[this[s]]) => Named(m_sfd[this[s]])'
               /\ Passive(m_sfd[this[s]]) => Passive(m_sfd[this[s]])'
    <2>1. this[s] \in Slots /\ this[s] \notin {q, p}
      BY <1>b, <1>7, Arguments DEF SocketInv, Trusting, Checked
    <2>2. this'[s] = this[s]
      BY <1>a, OthersKeep DEF Step
    <2>3. m_sfd'[this[s]] = m_sfd[this[s]] /\ m_sfd'[this'[s]] = m_sfd[this[s]]
      BY <1>2, <2>1, <2>2
    <2>. QED BY <2>3 DEF Named, Passive, Open
  <1>8. StillTrue'
    BY <1>6, <1>7, TrueKept
  <1>. QED BY <1>5, <1>8

LEMMA FlagsTaken ==
    ASSUME SocketInv, Exclusive, FlagsSwapped, FlagsWhole, StillTrue, NEW t \in Threads,
           MoveSfd(t) \/ AssignSfd(t) \/ SwapSfd(t)
    PROVE  FlagsSwapped' /\ FlagsWhole' /\ StillTrue'
  <1>a. /\ TypeOK /\ LifetimeRespected /\ Step(t) /\ t \in Slots /\ t \notin Vars
        /\ \A o \in Vars : o \in Slots
        /\ pc[t] # "idle" => this[t] \in Vars
        /\ pc[t] \in {"move_sfd", "assign_sfd"} => that[t] \in Vars
        /\ pc \in [Threads -> Pcs]
    BY StateTypes, Distinct, Arguments DEF SocketInv, Step, Moving
  <1>1. CASE MoveSfd(t) \/ AssignSfd(t)
    <2>1. PICK q \in {this[t], t} :
            /\ TakeSfd(q, that[t]) /\ q # that[t] /\ m_sfd[q] = INVALID_SOCKET
            /\ q = this[t] => pc'[t] = "move_flags"
            /\ q = t => pc'[t] = "assign_flags"
      <3>1. CASE MoveSfd(t)
        BY <1>a, <3>1, FreeSlots DEF MoveSfd, Goto, LifetimeRespected, Constructors
      <3>2. CASE AssignSfd(t)
        BY <1>a, <3>2, FreeSlots DEF AssignSfd, Goto
      <3>. QED BY <1>1, <3>1, <3>2
    <2>2. /\ pc[t] \in {"move_sfd", "assign_sfd"} /\ UNCHANGED <<this, that>>
          /\ UNCHANGED <<kernel, m_bound, m_listen>>
      BY <1>1 DEF MoveSfd, AssignSfd, Goto
    <2>3. m_sfd' = [m_sfd EXCEPT ![q] = m_sfd[that[t]], ![that[t]] = m_sfd[q]]
      BY <2>1 DEF TakeSfd
    <2>4. First(t)' = q /\ Second(t)' = that[t] /\ q \in Slots /\ that[t] \in Slots
      BY <1>a, <2>1, <2>2 DEF First, Second
    <2>. QED BY <1>a, <2>1, <2>2, <2>3, <2>4, FlagsCross
  <1>2. CASE SwapSfd(t)
    <2>1. /\ pc[t] = "swap_sfd" /\ pc'[t] = "swap_af" /\ this' = this
          /\ this[t] \in Slots /\ this[t] # t
          /\ UNCHANGED <<kernel, m_bound, m_listen>>
          /\ m_sfd' = [m_sfd EXCEPT ![this[t]] = m_sfd[t], ![t] = m_sfd[this[t]]]
      BY <1>a, <1>2 DEF SwapSfd, Goto
    <2>2. First(t)' = this[t] /\ Second(t)' = t
      BY <2>1 DEF First, Second
    <2>. QED BY <1>a, <2>1, <2>2, FlagsCross
  <1>. QED BY <1>1, <1>2

\* The family is swapped while the flags wait.
LEMMA FlagsWait ==
    ASSUME SocketInv, Exclusive, FlagsSwapped, FlagsWhole, StillTrue, NEW t \in Threads,
           SwapAf(t)
    PROVE  FlagsSwapped' /\ FlagsWhole' /\ StillTrue'
  <1>a. TypeOK /\ Step(t) /\ t \in Slots /\ this[t] \in Vars /\ this[t] \in Slots
    BY Arguments DEF SocketInv, Step, Moving, SwapAf, Goto
  <1>b. /\ pc[t] = "swap_af" /\ pc'[t] = "swap_flags"
        /\ UNCHANGED <<kernel, m_sfd, m_bound, m_listen, this>>
    BY <1>a, StateTypes DEF SwapAf, Goto
  <1>c. PICK o \in Slots : o = this[t]
    BY <1>a
  <1>1. First(t) = o /\ Second(t) = t /\ First(t)' = o /\ Second(t)' = t
    BY <1>b, <1>c DEF First, Second
  <1>2. \A x : (Named(m_sfd[x])' <=> Named(m_sfd[x])) /\ (Passive(m_sfd[x])' <=> Passive(m_sfd[x]))
    BY <1>b DEF Named, Passive, Open
  <1>3. SwappedAt(t)'
    <2>1. o # t /\ Describes(o, t) /\ Describes(t, o)
      BY <1>b, <1>1 DEF FlagsSwapped, SwappedAt, Splits
    <2>2. Describes(o, t)' /\ Describes(t, o)'
      BY <1>b, <1>2, <2>1 DEF Describes
    <2>. QED BY <1>b, <1>1, <2>1, <2>2 DEF SwappedAt, Describes
  <1>4. Untouched({o, t})
    BY <1>b, <1>2 DEF Untouched
  <1>5. Elsewhere(t, {o, t}) /\ {o, t} \in SUBSET Slots
    BY <1>a, <1>b, <1>c, ChangesElsewhere DEF Changing
  <1>6. FlagsSwapped' /\ FlagsWhole'
    <2>1. /\ pc[t] \notin {"bind_store", "listen_store"} /\ pc'[t] \in Splits
          /\ First(t) \in {o, t} /\ Second(t) \in {o, t}
          /\ \A x \in {o, t} : x \in {First(t)', Second(t)'}
      BY <1>b, <1>1 DEF Splits
    <2>. QED BY <1>a, <1>3, <1>4, <1>5, <2>1, FlagsKept
  <1>7. TrueAt(t)'
    BY <1>b DEF TrueAt, Checked
  <1>8. StillTrue'
    BY <1>a, <1>b, <1>2, <1>7, TrueKept
  <1>. QED BY <1>6, <1>8

\* and come right when the flags follow.
LEMMA FlagsFollow ==
    ASSUME SocketInv, Exclusive, FlagsSwapped, FlagsWhole, StillTrue, NEW t \in Threads,
           MoveFlags(t) \/ AssignFlags(t) \/ SwapFlags(t)
    PROVE  FlagsSwapped' /\ FlagsWhole' /\ StillTrue'
  <1>a. TypeOK /\ Step(t) /\ t \notin Vars /\ t \in Slots
    BY Distinct DEF SocketInv, Step, Moving
  <1>b. /\ pc[t] \in Splits /\ pc'[t] \in {"return", "swap_sfd", "drop_param"}
        /\ UNCHANGED <<kernel, m_sfd>>
    BY <1>a, StateTypes DEF MoveFlags, AssignFlags, SwapFlags, Goto, Splits
  <1>c. PICK q \in Slots, p \in Slots : First(t) = q /\ Second(t) = p
    BY <1>b, SplitSlots
  <1>d. /\ Describes(q, p) /\ Describes(p, q) /\ q # p
        /\ pc[t] \in {"move_flags", "assign_flags"} => m_sfd[p] = INVALID_SOCKET /\ p = that[t]
    BY <1>b, <1>c DEF FlagsSwapped, SwappedAt, Second
  <1>1. /\ m_bound'[q] = m_bound[p] /\ m_listen'[q] = m_listen[p]
        /\ m_bound'[p] <=> Named(m_sfd[p])
        /\ m_listen'[p] <=> Passive(m_sfd[p])
        /\ \A x \in Slots \ {q, p} : m_bound'[x] = m_bound[x] /\ m_listen'[x] = m_listen[x]
    <2>1. CASE MoveFlags(t) \/ AssignFlags(t)
      <3>1. TakeFlags(q, p) /\ m_sfd[p] = INVALID_SOCKET
        BY <2>1, <1>c, <1>d DEF MoveFlags, AssignFlags, Goto, First
      <3>2. ~Named(m_sfd[p]) /\ ~Passive(m_sfd[p])
        BY <3>1, Distinct DEF Named, Passive, Open
      <3>. QED BY <1>a, <1>d, <3>1, <3>2, StateTypes DEF TakeFlags
    <2>2. CASE SwapFlags(t)
      <3>1. /\ q = this[t] /\ p = t
            /\ m_bound' = [m_bound EXCEPT ![q] = m_bound[p], ![p] = m_bound[q]]
            /\ m_listen' = [m_listen EXCEPT ![q] = m_listen[p], ![p] = m_listen[q]]
        BY <2>2, <1>c DEF SwapFlags, Goto, First, Second
      <3>. QED BY <1>a, <1>d, <3>1, StateTypes DEF Describes
    <2>. QED BY <2>1, <2>2
  <1>2. \A x \in Slots : /\ Named(m_sfd[x])' <=> Named(m_sfd[x])
                         /\ Passive(m_sfd[x])' <=> Passive(m_sfd[x])
    BY <1>b DEF Named, Passive, Open
  <1>3. WholeAt(q)' /\ WholeAt(p)'
    BY <1>1, <1>2, <1>d DEF WholeAt, Describes
  <1>4. Untouched({q, p}) /\ {q, p} \in SUBSET Slots
    BY <1>1, <1>2, <1>b DEF Untouched
  <1>5. Elsewhere(t, {q, p})
    BY <1>b, <1>c, <1>4, SplitSlots, ChangesElsewhere
  <1>6. FlagsSwapped' /\ FlagsWhole'
    <2>1. pc[t] \notin {"bind_store", "listen_store"} /\ pc'[t] \notin Splits
      BY <1>b DEF Splits
    <2>2. \A x \in {q, p} : WholeAt(x)'
      BY <1>3
    <2>3. First(t) \in {q, p} /\ Second(t) \in {q, p}
      BY <1>c
    <2>. QED BY <1>a, <1>4, <1>5, <2>1, <2>2, <2>3, FlagsKept
  <1>7. TrueAt(t)'
    BY <1>b DEF TrueAt, Checked
  <1>8. ASSUME NEW s \in Threads \ {t}, pc[s] \in Trusting
        PROVE  /\ m_sfd'[this[s]] = m_sfd[this[s]]
               /\ Named(m_sfd[this[s]]) => Named(m_sfd[this[s]])'
               /\ Passive(m_sfd[this[s]]) => Passive(m_sfd[this[s]])'
    <2>1. this'[s] = this[s]
      BY <1>a, OthersKeep DEF Step
    <2>. QED BY <1>b, <2>1 DEF Named, Passive, Open
  <1>9. StillTrue'
    BY <1>a, <1>7, <1>8, TrueKept
  <1>. QED BY <1>6, <1>9

\* A new socket has no name and does not listen until it is handed over.
LEMMA FreshStep ==
    ASSUME SocketInv, Loaded, Fresh, NEW t \in Threads, Step(t)
    PROVE  Fresh'
  <1>a. /\ TypeOK /\ kernel \in [Fds -> Socket \cup {None}]
        /\ sfd \in [Threads -> Fds \cup {INVALID_SOCKET}]
    BY StateTypes DEF SocketInv
  <1>1. ASSUME NEW s \in Threads \ {t}, sfd'[s] # INVALID_SOCKET
        PROVE  ~Named(sfd[s])' /\ ~Passive(sfd[s])'
    <2>1. sfd'[s] = sfd[s]
      BY <1>a, OthersKeep DEF Step
    <2>. QED BY <1>1, <2>1, NewAlone DEF Fresh, Named, Passive, Open
  <1>2. ASSUME sfd'[t] # INVALID_SOCKET PROVE ~Named(sfd[t])' /\ ~Passive(sfd[t])'
    <2>1. ASSUME NEW f \in Fds, sfd'[t] = f, kernel'[f].addr \notin Ports, ~kernel'[f].lis
          PROVE  ~Named(sfd[t])' /\ ~Passive(sfd[t])'
      BY <2>1 DEF Named, Passive
    <2>2. ASSUME NEW o \in Vars, CtorSocket(t, o) PROVE ~Named(sfd[t])' /\ ~Passive(sfd[t])'
      <3>1. PICK f \in Fds :
              /\ sfd' = [sfd EXCEPT ![t] = f]
              /\ \E k \in Kinds, r, v \in BOOLEAN : kernel' = [kernel EXCEPT ![f] =
                    [af |-> k[1], type |-> k[2], addr |-> Unbound, lis |-> FALSE,
                     reuse |-> r, v6only |-> v]]
        BY <2>2 DEF CtorSocket
      <3>2. sfd'[t] = f /\ kernel'[f].addr = Unbound /\ kernel'[f].lis = FALSE
        BY <1>a, <3>1
      <3>. QED BY <2>1, <3>2, CSocketAssumption
    <2>3. CASE CtorReuse(t)
      <3>1. sfd'[t] = sfd[t] /\ sfd[t] \in Fds
        BY <1>a, <1>2, <2>3 DEF CtorReuse, local
      <3>2. Open(sfd[t]) /\ ~Named(sfd[t]) /\ ~Passive(sfd[t]) /\ kernel[sfd[t]] \in Socket
        BY <1>2, <3>1, Holding1 DEF Fresh
      <3>3. PICK s : s = [kernel[sfd[t]] EXCEPT !.reuse = FALSE]
        OBVIOUS
      <3>4. kernel'[sfd[t]] = s
        BY <1>a, <2>3, <3>1, <3>3 DEF CtorReuse
      <3>5. s.addr = kernel[sfd[t]].addr /\ s.lis = kernel[sfd[t]].lis
        BY <3>2, <3>3 DEF Socket
      <3>. QED BY <2>1, <3>1, <3>2, <3>4, <3>5 DEF Named, Passive
    <2>4. sfd'[t] = sfd[t] => pc[t] \in {"ctor_reuse", "ctor_v6only"}
      BY <1>2, Arguments DEF SocketInv, NoStrayDescriptor
    <2>. USE <1>a DEF local, Result, Load, BindEnds, Enter, Goto
    <2>5. CASE CtorV6only(t) \/ CtorOptionFails(t)
      BY <1>2, <2>5 DEF CtorV6only, CtorOptionFails
    <2>6. CASE Construct(t) /\ ~(\E o \in Vars : CtorSocket(t, o))
      BY <2>4, <2>6 DEF Construct, Empty, CtorSocketFails, Dtor
    <2>7. CASE Moving(t)
      BY <2>4, <2>7 DEF Moving, Move, Assign, MoveSfd, MoveFlags, AssignSfd, AssignFlags,
           SwapSfd, SwapAf, SwapFlags, DropParam
    <2>8. CASE Setting(t) \/ Getting(t) \/ Return(t)
      <3>1. sfd'[t] = sfd[t] /\ pc[t] \in {"ctor_reuse", "ctor_v6only"}
        BY <2>4, <2>8, PlainStep
      <3>2. pc[t] \in Plain \cup {"idle"}
        BY <2>8, PlainStep DEF Plain, Pcs, Changing
      <3>. QED BY <3>1, <3>2 DEF Plain, Pcs, Changing
    <2>. QED BY <2>2, <2>3, <2>5, <2>6, <2>7, <2>8 DEF Step, Constructing
  <1>. QED BY <1>1, <1>2 DEF Fresh, Named, Passive, Open

\* All of it, step by step.
LEMMA FlagStep ==
    ASSUME SocketInv, Exclusive, Loaded, FlagInv, NEW t \in Threads, Step(t)
    PROVE  FlagInv'
  <1>a. FlagsSwapped /\ FlagsWhole /\ StillTrue /\ Fresh
    BY DEF FlagInv
  <1>b. Fresh'
    BY <1>a, FreshStep
  <1>0. SUFFICES FlagsSwapped' /\ FlagsWhole' /\ StillTrue'
    BY <1>b DEF FlagInv
  <1>1. CASE Construct(t) \/ Constructing(t)
    BY <1>a, <1>1, ConstructFlags
  <1>2. CASE \E o, p \in Vars : Move(t, o, p) \/ Assign(t, o, p)
    <2>1. /\ UNCHANGED <<kernel, m_sfd, m_bound, m_listen>>
          /\ pc[t] = "idle" /\ pc'[t] \in {"move_sfd", "assign_sfd"}
      BY <1>2, StateTypes DEF Move, Assign, Enter, SocketInv
    <2>2. TrueAt(t)' /\ pc[t] \notin Splits \cup {"bind_store", "listen_store"}
          /\ pc'[t] \notin Splits
      BY <2>1 DEF TrueAt, Checked, Splits
    <2>3. \A o \in Slots : /\ Named(m_sfd[o])' <=> Named(m_sfd[o])
                           /\ Passive(m_sfd[o])' <=> Passive(m_sfd[o])
      BY <2>1, NamesStay
    <2>. QED BY <1>a, <2>1, <2>2, <2>3, Quiet
  <1>3. CASE MoveSfd(t) \/ AssignSfd(t) \/ SwapSfd(t)
    BY <1>a, <1>3, FlagsTaken
  <1>4. CASE MoveFlags(t) \/ AssignFlags(t) \/ SwapFlags(t)
    BY <1>a, <1>4, FlagsFollow
  <1>5. CASE SwapAf(t)
    BY <1>a, <1>5, FlagsWait
  <1>6. CASE DropParam(t)
    <2>1. /\ Destruct(t) /\ t \in Slots /\ {t} \in SUBSET Slots /\ pc'[t] = "return"
          /\ pc[t] \notin Splits \cup {"bind_store", "listen_store"}
      BY <1>6, StateTypes, Distinct DEF DropParam, Goto, Splits, SocketInv
    <2>2. Elsewhere(t, {t})
      BY <2>1, NotTheirs, MineElsewhere
    <2>3. \A s \in Threads \ {t} : pc[s] \in Trusting => this[s] # t
      BY Arguments, Distinct DEF SocketInv, Trusting, Checked
    <2>. QED BY <1>a, <2>1, <2>2, <2>3, FlagsDropped
  <1>7. CASE BindCall(t) \/ ListenCall(t)
    BY <1>a, <1>7, SystemCall
  <1>8. CASE BindStore(t) \/ ListenStore(t)
    BY <1>a, <1>8, FlagStored
  <1>9. CASE Setsockopt(t)
    BY <1>a, <1>9, OptionSet
  <1>10. CASE /\ Setting(t) \/ Getting(t) \/ Return(t)
              /\ ~BindCall(t) /\ ~ListenCall(t) /\ ~BindStore(t) /\ ~ListenStore(t)
              /\ ~Setsockopt(t)
    <2>1. /\ UNCHANGED <<kernel, m_sfd, m_bound, m_listen>>
          /\ pc[t] \notin {"bind_store", "listen_store"} /\ TrueAt(t)'
      BY <1>a, <1>10, QuietCalls
    <2>2. pc[t] \notin Splits /\ pc'[t] \notin Splits
      BY <1>10, PlainStep, StateTypes DEF Plain, Changing, Splits, SocketInv
    <2>3. \A o \in Slots : /\ Named(m_sfd[o])' <=> Named(m_sfd[o])
                           /\ Passive(m_sfd[o])' <=> Passive(m_sfd[o])
      BY <2>1, NamesStay
    <2>. QED BY <1>a, <2>1, <2>2, <2>3, Quiet
  <1>. QED BY <1>1, <1>2, <1>3, <1>4, <1>5, <1>6, <1>7, <1>8, <1>9, <1>10
           DEF Step, Moving, Setting
-----------------------------------------------------------------------------
(* What the invariant says of the members and of the answers. *)

\* Between calls, or with its mutex free, a member agrees with the system.
LEMMA FlagsAgree ==
    ASSUME SocketInv, FlagInv PROVE CacheAgrees
  <1>1. SUFFICES ASSUME NEW o \in live \cap Vars, Settled(o)
                 PROVE  /\ m_bound_mutex[o] = None =>
                              (m_bound[o] <=> Open(m_sfd[o]) /\ kernel[m_sfd[o]].addr \in Ports)
                        /\ m_listen_mutex[o] = None =>
                              (m_listen[o] <=> Open(m_sfd[o]) /\ kernel[m_sfd[o]].lis)
    BY DEF CacheAgrees
  <1>2. o \in Slots /\ o \notin Threads
    BY Distinct
  <1>3. \A s \in Threads : pc[s] \in Splits => o # First(s) /\ o # Second(s)
    BY <1>1, <1>2, SplitSlots DEF Settled, BeingChanged
  <1>4. WholeAt(o)
    BY <1>2, <1>3 DEF Whole, FlagInv, FlagsWhole
  <1>5. /\ m_bound_mutex[o] = None => ~Storing("bind_store", o)
        /\ m_listen_mutex[o] = None => ~Storing("listen_store", o)
    BY <1>2, Distinct DEF SocketInv, MutexHeldByCall, Storing
  <1>. QED BY <1>4, <1>5 DEF WholeAt, Named, Passive

\* At every step of every call the flags are those of the socket, or it is known
\* which two slots exchange theirs (socket.cpp:106-140, 163-205).
THEOREM FlagInvHolds ==
    ASSUME ~SharedMoves PROVE Spec => []FlagInv
  <1>1. Init => FlagInv
    BY Distinct DEF Init, FlagInv, FlagsSwapped, FlagsWhole, StillTrue, Fresh, Splits,
        Whole, WholeAt, Storing, Named, Passive, Open, TrueAt, Checked, INVALID_SOCKET
  <1>2. FlagInv /\ SocketInv /\ (Exclusive /\ Loaded) /\ [Next]_vars => FlagInv'
    <2>1. SUFFICES ASSUME FlagInv, SocketInv, Exclusive, Loaded, [Next]_vars PROVE FlagInv'
      OBVIOUS
    <2>2. CASE Next
      BY <2>1, <2>2, FlagStep DEF Next, Step
    <2>3. CASE UNCHANGED vars
      BY <2>1, <2>3, SMTT(30) DEF FlagInv, FlagsSwapped, FlagsWhole, StillTrue, Fresh,
         Whole, First, Second, SwappedAt, Describes, WholeAt, Storing, Named, Passive,
         Open, TrueAt, vars, objects, call, local
    <2>. QED BY <2>1, <2>2, <2>3
  <1>. QED BY <1>1, <1>2, SocketInvHolds, CallsUseTheirSocket, PTL DEF Spec

\* The flags cache what the system knows (socket.hpp:87).
THEOREM FlagsCacheTheSystem ==
    ASSUME ~SharedMoves PROVE Spec => []CacheAgrees
  <1>1. SocketInv /\ FlagInv => CacheAgrees
    BY FlagsAgree
  <1>. QED BY <1>1, SocketInvHolds, FlagInvHolds, PTL

\* What the answer of each getter says of the socket of its object.
Truth(t) ==
    LET s == kernel[m_sfd[this[t]]]
    IN  /\ Answers(t, "is_bind") =>
               IF ret'[t] = "true" THEN s.addr \in Ports
               ELSE s.addr = Unbound \/ (s.addr = Ephemeral /\ s.lis)
        /\ Answers(t, "is_listen") => (ret'[t] = "true" <=> s.lis)
        /\ Answers(t, "v6only_af") => ~s.v6only
        /\ Answers(t, "v6only_call") => ret'[t] = Bool(s.v6only)
        /\ Answers(t, "reuse_addr") =>
               ret'[t] = IF m_sfd[this[t]] = INVALID_SOCKET THEN "MSG1017"
                         ELSE Bool(s.reuse)

\* A getter that answers, answers the truth.
LEMMA AnswersTrue ==
    ASSUME SocketInv, SystemSane, Exclusive, Loaded, FamilyKnown, FlagInv,
           NEW t \in Threads, NEW s \in Threads, Step(s),
           pc[t] \in Checked \cup {"reuse_addr", "port_call"}, pc'[t] = "return"
    PROVE  Truth(t) /\ (pc[t] = "port_call" => ret'[t] \in Ports)
  <1>. DEFINE f == m_sfd[this[t]]
  <1>a. /\ TypeOK /\ MutexHeldByCall /\ s = t /\ this[t] \in Slots /\ this[t] \in Vars
        /\ ret \in [Threads -> Messages \cup Ports \cup {Unbound, Ephemeral, None}]
        /\ pc[t] \in {"reuse_addr", "port_call", "v6only_call"} => fd[t] = f
    <2>1. s = t
      BY OthersKeep DEF SocketInv, Step, Checked
    <2>. QED BY <2>1, Arguments DEF SocketInv, Checked, TypeOK, Loaded, Calls
  <1>b. /\ FlagsWhole /\ TrueAt(t)
        /\ f # INVALID_SOCKET =>
              /\ f \in Fds /\ Open(f) /\ kernel[f] \in Socket /\ Sane(kernel[f])
              /\ kernel[f].addr \in Ports \cup {Unbound, Ephemeral}
        /\ Open(f) => f # INVALID_SOCKET
        /\ pc[t] \in Checked => f # INVALID_SOCKET
    <2>1. f # INVALID_SOCKET => f \in Fds /\ Open(f) /\ kernel[f] \in Socket
      BY <1>a, Holding1
    <2>2. /\ FlagsWhole /\ TrueAt(t)
      BY DEF FlagInv, StillTrue
    <2>3. Open(f) => f # INVALID_SOCKET
      BY Holding1
    <2>. QED BY <2>1, <2>2, <2>3, SocketUpdates DEF SystemSane, TrueAt
  <1>c. WholeAt(this[t])
    BY <1>b, CallSees DEF Splits, Checked
  <1>. USE DEF Enter, Goto, Result, Bool
  <1>d. CASE Getting(t)
    <2>0. pc[t] # "idle"
      BY DEF Checked
    <2>1. CASE IsBindRead(t)
      <3>1. pc[t] = "is_bind" /\ ret'[t] = Bool(m_bound[this[t]]) /\ m_bound_mutex[this[t]] = None
        BY <1>a, <2>1 DEF IsBindRead
      <3>2. ~Storing("bind_store", this[t])
        BY <1>a, <3>1, Distinct DEF MutexHeldByCall, Storing
      <3>3. m_bound[this[t]] <=> kernel[f].addr \in Ports
        BY <1>b, <1>c, <3>1, <3>2 DEF WholeAt, Named, Checked
      <3>4. kernel[f].addr \notin Ports =>
               kernel[f].addr = Unbound \/ (kernel[f].addr = Ephemeral /\ kernel[f].lis)
        BY <1>b, <3>1 DEF Sane, Checked
      <3>. QED BY <3>1, <3>3, <3>4 DEF Truth, Answers
    <2>2. CASE IsListenRead(t)
      <3>1. pc[t] = "is_listen" /\ ret'[t] = Bool(m_listen[this[t]]) /\ m_listen_mutex[this[t]] = None
        BY <1>a, <2>2 DEF IsListenRead
      <3>2. ~Storing("listen_store", this[t])
        BY <1>a, <3>1, Distinct DEF MutexHeldByCall, Storing
      <3>3. m_listen[this[t]] <=> kernel[f].lis
        BY <1>b, <1>c, <3>1, <3>2 DEF WholeAt, Passive, Checked
      <3>. QED BY <3>1, <3>3 DEF Truth, Answers
    <2>3. CASE Getsockname(t)
      <3>1. /\ pc[t] = "port_call"
            /\ ret'[t] = IF Open(f) THEN kernel[f].addr ELSE "MSG1013"
        BY <1>a, <2>3 DEF Getsockname
      <3>2. Open(f) /\ kernel[f].addr \in Ports
        BY <1>b, <3>1 DEF TrueAt, Named
      <3>. QED BY <3>1, <3>2 DEF Truth, Answers
    <2>4. CASE V6onlyFamily(t)
      <3>1. pc[t] = "v6only_af" /\ m_af[this[t]] # "AF_INET6"
        BY <1>a, <2>4, StateTypes DEF V6onlyFamily
      <3>2. ~InHalf(this[t])
        <4>1. SUFFICES ASSUME NEW x \in Threads, pc[x] \in Halves
                       PROVE  this[t] \notin {One(x), Other(x)}
          BY DEF InHalf
        <4>2. x # t
          BY <3>1, <4>1 DEF Halves
        <4>3. /\ One(x) \in {x, this[x]} /\ Other(x) \in {x, that[x]} /\ pc[x] \in Changing
              /\ this[t] # x
          BY <1>a, <4>1, HalfSlots, Distinct
        <4>4. this[t] # this[x] /\ this[t] # that[x]
          BY <1>a, <3>1, <4>2, <4>3, Distinct DEF Exclusive, Apart
        <4>. QED BY <4>3, <4>4
      <3>3. m_af[this[t]] = kernel[f].af
        BY <1>a, <1>b, <3>1, <3>2 DEF FamilyKnown, Fam, Checked
      <3>4. ~kernel[f].v6only
        BY <1>b, <3>1, <3>3 DEF Sane, Checked
      <3>. QED BY <3>1, <3>4 DEF Truth, Answers
    <2>5. CASE V6onlyOption(t)
      BY <1>a, <1>b, <2>5 DEF V6onlyOption, getsockopt_int, Checked, Truth, Answers
    <2>6. CASE ReuseOption(t)
      BY <1>a, <1>b, <2>6 DEF ReuseOption, getsockopt_int, Truth, Answers
    <2>7. ~(\/ GetPortIsBind(t) \/ GetPortRead(t) \/ GetPortName(t) \/ SockerrOption(t)
            \/ V6onlySfd(t))
      BY <1>a, StateTypes DEF GetPortIsBind, GetPortRead, GetPortName, SockerrOption,
         V6onlySfd, getsockopt_int, Checked
    <2>8. ASSUME NEW o \in Vars
          PROVE  ~ (\/ IsBind(t, o) \/ IsListen(t, o) \/ GetPort(t, o)
                    \/ GetSockerr(t, o) \/ IsReuseAddr(t, o) \/ IsV6only(t, o))
      BY <2>0 DEF IsBind, IsListen, GetPort, GetSockerr, IsReuseAddr, IsV6only, Check,
                  Unchecked
    <2>. QED BY <1>d, <2>1, <2>2, <2>3, <2>4, <2>5, <2>6, <2>7, <2>8 DEF Getting
  <1>e. Getting(t)
    BY <1>a DEF Step, Construct, Empty, CtorSocket, CtorSocketFails, Dtor, Constructing,
       CtorReuse, CtorV6only, CtorOptionFails, Moving, Move, Assign, MoveSfd, MoveFlags,
       AssignSfd, AssignFlags, SwapSfd, SwapAf, SwapFlags, DropParam, Setting, Bind,
       Listen, SetOption, BindType, BindLock, BindCall, BindCallFails, BindStore,
       ListenLock, ListenCall, ListenCallFails, ListenStore, Setsockopt, SetsockoptFails,
       Return, Checked
  <1>. QED BY <1>d, <1>e

\* What a getter answers is so in the system at that moment, whatever bind(),
\* listen() and ::setsockopt() of other threads are under way
\* (socket.cpp:232-270).
THEOREM GettersAnswerTheTruth ==
    ASSUME ~SharedMoves PROVE Spec => GettersTellTheTruth
  <1>. DEFINE Told == \A t \in Threads : Truth(t)
  <1>1. SocketInv /\ SystemSane /\ (Exclusive /\ Loaded) /\ FamilyKnown /\ FlagInv
            /\ [Next]_vars => [Told]_vars
    <2>1. SUFFICES ASSUME SocketInv, SystemSane, Exclusive, Loaded, FamilyKnown, FlagInv,
                          [Next]_vars, ~UNCHANGED vars, NEW t \in Threads
                   PROVE  Truth(t)
      BY DEF Told
    <2>2. CASE pc[t] \in Checked \cup {"reuse_addr"} /\ pc'[t] = "return"
      BY <2>1, <2>2, AnswersTrue DEF Next, Step
    <2>3. CASE ~(pc[t] \in Checked \cup {"reuse_addr"} /\ pc'[t] = "return")
      BY <2>3 DEF Truth, Answers, Checked
    <2>. QED BY <2>2, <2>3
  <1>. QED BY <1>1, SocketInvHolds, SystemStaysSane, CallsUseTheirSocket, FamilyKnownHolds,
              FlagInvHolds, PTL DEF Spec, GettersTellTheTruth, Truth

\* When get_port() returns, it returns the port given to bind()
\* (socket.cpp:210-224).
THEOREM GetPortNamesTheBind ==
    ASSUME ~SharedMoves PROVE Spec => GetPortNamesBind
  <1>. DEFINE Named1 == \A t \in Threads : Answers(t, "port_call") => ret'[t] \in Ports
  <1>1. SocketInv /\ SystemSane /\ (Exclusive /\ Loaded) /\ FamilyKnown /\ FlagInv
            /\ [Next]_vars => [Named1]_vars
    <2>1. SUFFICES ASSUME SocketInv, SystemSane, Exclusive, Loaded, FamilyKnown, FlagInv,
                          [Next]_vars, ~UNCHANGED vars, NEW t \in Threads,
                          Answers(t, "port_call")
                   PROVE  ret'[t] \in Ports
      BY DEF Named1
    <2>. QED BY <2>1, AnswersTrue DEF Next, Step, Answers
  <1>. QED BY <1>1, SocketInvHolds, SystemStaysSane, CallsUseTheirSocket, FamilyKnownHolds,
              FlagInvHolds, PTL DEF Spec, GetPortNamesBind
=============================================================================
