-------------------------- MODULE CAddrinfo_proofs --------------------------
(***************************************************************************)
(* Proofs about CAddrinfo for every number of objects, names, requests and *)
(* blocks of memory, and for a resolver that answers as it likes.          *)
(***************************************************************************)
EXTENDS CAddrinfo, TLAPS

\* The parameter of an assignment and the null pointer are things of their own.
LEMMA Distinct ==
    /\ that \notin Vars /\ Slots = Vars \cup {that}
    /\ None \notin Blocks /\ None \notin Vars /\ None \notin Entry
    /\ None \notin Visible
  BY CAddrinfoAssumption, EntryAssumption DEF Slots

\* What get_new_addrinfo() returns is an entry that answers the request.
LEMMA RequestedAnswers ==
    ASSUME NEW n \in Names, NEW h \in Requests, NEW e \in Found(n, h)
    PROVE  /\ Requested(e, h) \in Entry
           /\ Requested(e, h).name = n
           /\ Requested(e, h).protocol = h.protocol
           /\ Requested(e, h).flags = h.flags
           /\ h.af \in {"AF_UNSPEC", Requested(e, h).addr.af}
  <1>1. /\ e \in Entry /\ e.name = n /\ h.af \in {"AF_UNSPEC", e.addr.af}
        /\ h.protocol \in Protocols /\ h.flags \in Flags
    BY DEF Found, Protocols, Flags
  <1>. QED BY <1>1 DEF Requested, Entry

\* A lookup gives an object that did not exist a list of its own.
LEMMA LookupKeepsInv ==
    ASSUME AddrinfoInv, NEW o \in Slots, o \notin live,
           NEW n \in Names, NEW h \in Requests, Lookup(o, n, h)
    PROVE  /\ heap' \in [Blocks -> Entry \cup {None}]
           /\ live' = live \cup {o} /\ live' \subseteq Slots
           /\ m_name' \in [Slots -> Names \cup {None}]
           /\ m_hints' \in [Slots -> Requests \cup {None}]
           /\ m_res' \in [Slots -> Blocks \cup {None}]
           /\ \A x \in live' : m_name'[x] \in Names /\ m_hints'[x] \in Requests
           /\ ListsOwned' /\ AnswersRequest'
  <1>a. TypeOK /\ ListsOwned /\ AnswersRequest
    BY DEF AddrinfoInv
  <1>1. PICK b \in Blocks, e \in Found(n, h) :
          /\ heap[b] = None /\ heap' = [heap EXCEPT ![b] = Requested(e, h)]
          /\ live' = live \cup {o}
          /\ m_name' = [m_name EXCEPT ![o] = n]
          /\ m_hints' = [m_hints EXCEPT ![o] = h]
          /\ m_res' = [m_res EXCEPT ![o] = b]
    BY DEF Lookup
  <1>2. /\ Requested(e, h) \in Entry /\ Requested(e, h) # None
        /\ Requested(e, h).name = n
        /\ Requested(e, h).protocol = h.protocol
        /\ Requested(e, h).flags = h.flags
        /\ h.af \in {"AF_UNSPEC", Requested(e, h).addr.af}
    BY RequestedAnswers, Distinct
  <1>3. \A x \in live : x # o /\ m_res[x] # b /\ m_res'[x] = m_res[x] /\ x \in Slots
    BY <1>a, <1>1 DEF TypeOK, ListsOwned
  <1>4. m_res'[o] = b /\ heap'[b] = Requested(e, h)
        /\ \A c \in Blocks \ {b} : heap'[c] = heap[c]
    BY <1>a, <1>1 DEF TypeOK
  <1>5. ListsOwned'
    BY <1>a, <1>1, <1>2, <1>3, <1>4 DEF ListsOwned
  <1>6. AnswersRequest'
    <2>1. \A x \in live : /\ heap'[m_res'[x]] = heap[m_res[x]]
                          /\ m_name'[x] = m_name[x] /\ m_hints'[x] = m_hints[x]
      BY <1>a, <1>1, <1>3, <1>4 DEF TypeOK, ListsOwned
    <2>2. m_name'[o] = n /\ m_hints'[o] = h
      BY <1>a, <1>1 DEF TypeOK
    <2>. QED BY <1>a, <1>1, <1>2, <1>4, <2>1, <2>2 DEF AnswersRequest
  <1>. QED BY <1>a, <1>1, <1>2, <1>3, <1>5, <1>6 DEF TypeOK

\* Destructing an object frees its list and no other.
LEMMA DestructKeepsInv ==
    ASSUME AddrinfoInv, NEW o \in live, Destruct(o)
    PROVE  /\ heap' \in [Blocks -> Entry \cup {None}]
           /\ live' = live \ {o} /\ live' \subseteq Slots
           /\ m_name' \in [Slots -> Names \cup {None}]
           /\ m_hints' \in [Slots -> Requests \cup {None}]
           /\ m_res' \in [Slots -> Blocks \cup {None}]
           /\ \A x \in live' : m_name'[x] \in Names /\ m_hints'[x] \in Requests
           /\ \A x \in live' : m_res'[x] = m_res[x] /\ heap'[m_res'[x]] = heap[m_res[x]]
           /\ ListsOwned' /\ AnswersRequest'
  <1>a. TypeOK /\ ListsOwned /\ AnswersRequest
    BY DEF AddrinfoInv
  <1>1. /\ o \in Slots /\ m_res[o] \in Blocks
        /\ heap' = [heap EXCEPT ![m_res[o]] = None]
        /\ live' = live \ {o}
        /\ m_res' = [m_res EXCEPT ![o] = None]
        /\ m_name' = [m_name EXCEPT ![o] = None]
        /\ m_hints' = [m_hints EXCEPT ![o] = None]
    BY <1>a DEF Destruct, TypeOK, ListsOwned
  <1>2. \A x \in live \ {o} :
          /\ m_res'[x] = m_res[x] /\ m_res[x] # m_res[o]
          /\ m_name'[x] = m_name[x] /\ m_hints'[x] = m_hints[x]
          /\ heap'[m_res[x]] = heap[m_res[x]]
    BY <1>a, <1>1 DEF TypeOK, ListsOwned
  <1>3. ListsOwned'
    BY <1>a, <1>1, <1>2 DEF ListsOwned, TypeOK
  <1>4. AnswersRequest'
    BY <1>a, <1>1, <1>2 DEF AnswersRequest
  <1>. QED BY <1>a, <1>1, <1>2, <1>3, <1>4 DEF TypeOK

\* The swap exchanges the whole of two objects.
LEMMA SwapKeepsInv ==
    ASSUME AddrinfoInv, Swap PROVE AddrinfoInv'
  <1>a. TypeOK /\ ListsOwned /\ AnswersRequest
    BY DEF AddrinfoInv
  <1>1. /\ target \in live /\ target \in Vars /\ that \in live /\ target # that
        /\ heap' = heap /\ live' = live
        /\ target \in Slots /\ that \in Slots
    BY <1>a, Distinct DEF Swap, TypeOK
  <1>2. /\ \A x \in live \ {target, that} :
             m_res'[x] = m_res[x] /\ m_name'[x] = m_name[x] /\ m_hints'[x] = m_hints[x]
        /\ m_res'[target] = m_res[that] /\ m_res'[that] = m_res[target]
        /\ m_name'[target] = m_name[that] /\ m_name'[that] = m_name[target]
        /\ m_hints'[target] = m_hints[that] /\ m_hints'[that] = m_hints[target]
    BY <1>a, <1>1 DEF Swap, TypeOK
  <1>3. TypeOK'
    <2>1. /\ m_name' \in [Slots -> Names \cup {None}]
          /\ m_hints' \in [Slots -> Requests \cup {None}]
          /\ m_res' \in [Slots -> Blocks \cup {None}]
      BY <1>a, <1>1 DEF Swap, TypeOK
    <2>2. \A o \in live' : m_name'[o] \in Names /\ m_hints'[o] \in Requests
      BY <1>a, <1>1, <1>2 DEF TypeOK
    <2>. QED BY <1>a, <1>1, <2>1, <2>2 DEF Swap, TypeOK
  <1>4. ListsOwned'
    BY <1>a, <1>1, <1>2 DEF ListsOwned
  <1>5. AnswersRequest'
    BY <1>a, <1>1, <1>2 DEF AnswersRequest
  <1>. QED BY <1>3, <1>4, <1>5 DEF AddrinfoInv, ParamIsCopy, Swap

\* Every step of the class, and of the resolver, keeps the invariant.
LEMMA AddrinfoStep ==
    ASSUME AddrinfoInv, [Next]_vars PROVE AddrinfoInv'
  <1>a. TypeOK
    BY DEF AddrinfoInv
  <1>. USE Distinct
  <1>1. ASSUME UNCHANGED <<heap, object, pc, target>>, ret' \in Exceptions \cup {"ok"},
               dns' \in [Names -> SUBSET Addresses]
        PROVE  AddrinfoInv'
    BY <1>1 DEF AddrinfoInv, TypeOK, ListsOwned, AnswersRequest, ParamIsCopy, object
  <1>2. CASE UNCHANGED vars
    BY <1>1, <1>2, <1>a DEF vars, TypeOK
  <1>3. CASE \E o, p \in Vars : ConstructThrows(o) \/ CopyThrows(o, p) \/ AssignThrows(o, p)
    BY <1>1, <1>3, <1>a DEF ConstructThrows, CopyThrows, AssignThrows, Throws, TypeOK
  <1>4. CASE DnsChanges
    <2>1. dns' \in [Names -> SUBSET Addresses]
      <3>1. PICK n \in Names, as \in SUBSET Addresses : dns' = [dns EXCEPT ![n] = as]
        BY <1>4 DEF DnsChanges
      <3>2. dns \in [Names -> SUBSET Addresses]
        BY <1>a DEF TypeOK
      <3>. QED BY <3>1, <3>2, Zenon
    <2>2. ret' \in Exceptions \cup {"ok"} /\ UNCHANGED <<heap, object, pc, target>>
      BY <1>4, <1>a DEF DnsChanges, TypeOK
    <2>. QED BY <1>1, <2>1, <2>2
  <1>5. CASE Swap
    BY <1>5, SwapKeepsInv
  <1>6. CASE DropParam
    BY <1>6, <1>a, DestructKeepsInv DEF DropParam, TypeOK, AddrinfoInv, ParamIsCopy
  <1>7. ASSUME NEW o \in Vars, Dtor(o) PROVE AddrinfoInv'
    BY <1>7, <1>a, DestructKeepsInv DEF Dtor, TypeOK, AddrinfoInv, ParamIsCopy
  <1>8. ASSUME NEW o \in Vars, NEW n \in Names, NEW r \in Requests, Construct(o, n, r)
        PROVE  AddrinfoInv'
    BY <1>8, <1>a, LookupKeepsInv DEF Construct, TypeOK, AddrinfoInv, ParamIsCopy
  <1>9. ASSUME NEW o \in Vars, NEW p \in Vars, Copy(o, p) PROVE AddrinfoInv'
    <2>1. m_name[p] \in Names /\ m_hints[p] \in Requests
      BY <1>9, <1>a DEF Copy, TypeOK
    <2>. QED BY <1>9, <1>a, <2>1, LookupKeepsInv DEF Copy, TypeOK, AddrinfoInv, ParamIsCopy
  <1>10. ASSUME NEW o \in Vars, NEW p \in Vars, Assign(o, p) PROVE AddrinfoInv'
    <2>1. m_name[p] \in Names /\ m_hints[p] \in Requests
      BY <1>10, <1>a DEF Assign, TypeOK
    <2>2. that \in Slots /\ that \notin live /\ p \in live /\ p # that
      BY <1>10, <1>a DEF Assign, TypeOK
    <2>3. TypeOK' /\ ListsOwned' /\ AnswersRequest'
      BY <1>10, <1>a, <2>1, <2>2, LookupKeepsInv DEF Assign, TypeOK
    <2>4. ParamIsCopy'
      <3>1. /\ m_name'[that] = m_name[p] /\ m_name'[p] = m_name[p]
            /\ m_hints'[that] = m_hints[p] /\ m_hints'[p] = m_hints[p]
            /\ p \in live'
        BY <1>10, <1>a, <2>2 DEF Assign, Lookup, TypeOK
      <3>. QED BY <3>1 DEF ParamIsCopy
    <2>. QED BY <2>3, <2>4 DEF AddrinfoInv
  <1>. QED BY <1>2, <1>3, <1>4, <1>5, <1>6, <1>7, <1>8, <1>9, <1>10 DEF Next

\* The invariant holds always: each object has its own list, and that list is
\* an answer to what the object remembers (addrinfo.cpp:27-87).
THEOREM AddrinfoInvHolds == Spec => []AddrinfoInv
  <1>1. Init => AddrinfoInv
    BY Distinct DEF Init, AddrinfoInv, TypeOK, ListsOwned, AnswersRequest, ParamIsCopy
  <1>. QED BY <1>1, AddrinfoStep, PTL DEF Spec

\* No list leaks, none is shared and none is freed twice (addrinfo.cpp:32-57).
THEOREM ListsHaveOneOwner == Spec => []ListsOwned
  <1>1. AddrinfoInv => ListsOwned
    BY DEF AddrinfoInv
  <1>. QED BY <1>1, AddrinfoInvHolds, PTL

\* What an object shows answers what it asked for (addrinfo.cpp:80-83).
THEOREM EntriesAnswer == Spec => []AnswersRequest
  <1>1. AddrinfoInv => AnswersRequest
    BY DEF AddrinfoInv
  <1>. QED BY <1>1, AddrinfoInvHolds, PTL
-----------------------------------------------------------------------------
(* Refinement of AddrinfoValue. *)

\* The abstract value of each object, as ImplementsValue maps it.
value == [o \in Vars |-> IF o \in live THEN Shown(o) ELSE None]

\* A lookup shows what was asked for, and leaves what other objects show.
LEMMA LookupShows ==
    ASSUME AddrinfoInv, NEW o \in Slots, o \notin live,
           NEW n \in Names, NEW h \in Requests, Lookup(o, n, h)
    PROVE  /\ Shown(o)' = [name |-> n, protocol |-> h.protocol, flags |-> h.flags]
           /\ \A x \in live : Shown(x)' = Shown(x)
  <1>a. TypeOK /\ ListsOwned
    BY DEF AddrinfoInv
  <1>1. PICK b \in Blocks, e \in Found(n, h) :
          /\ heap[b] = None /\ heap' = [heap EXCEPT ![b] = Requested(e, h)]
          /\ m_res' = [m_res EXCEPT ![o] = b]
    BY DEF Lookup
  <1>2. heap'[m_res'[o]] = Requested(e, h)
    BY <1>a, <1>1 DEF TypeOK
  <1>3. \A x \in live : heap'[m_res'[x]] = heap[m_res[x]]
    BY <1>a, <1>1 DEF TypeOK, ListsOwned
  <1>. QED BY <1>2, <1>3, RequestedAnswers DEF Shown

\* An object that is alive shows a value.
LEMMA ShownIsSomething ==
    ASSUME AddrinfoInv, NEW o \in live
    PROVE  /\ Shown(o) # None /\ Shown(o) \in Visible
           /\ Shown(o) = [name |-> m_name[o], protocol |-> m_hints[o].protocol,
                          flags |-> m_hints[o].flags]
  <1>1. m_name[o] \in Names /\ m_hints[o] \in Requests
    BY DEF AddrinfoInv, TypeOK
  <1>2. Shown(o) = [name |-> m_name[o], protocol |-> m_hints[o].protocol,
                    flags |-> m_hints[o].flags]
    BY DEF AddrinfoInv, AnswersRequest, Shown
  <1>3. Shown(o) \in Visible
    BY <1>1, <1>2 DEF Visible, Protocols, Flags
  <1>. QED BY <1>2, <1>3, Distinct

\* Every step is a step of AddrinfoValue or hidden from it: an assignment takes
\* effect when it swaps.
LEMMA ValueStep ==
    ASSUME AddrinfoInv, AddrinfoInv', [Next]_vars
    PROVE  [Value!ValueNext]_<<value, ret>>
  <1>a. TypeOK /\ TypeOK'
    BY DEF AddrinfoInv
  <1>. USE Distinct
  <1>b. ASSUME NEW o \in Vars, NEW w, \A x \in Vars \ {o} : value'[x] = value[x],
               value'[o] = w
        PROVE  value' = [value EXCEPT ![o] = w]
    BY <1>b DEF value
  <1>c. ASSUME UNCHANGED <<heap, live, m_res>> PROVE value' = value
    BY <1>c DEF value, Shown
  <1>d. \A o \in live \cap Vars : value[o] = Shown(o) /\ value[o] # None
    BY ShownIsSomething DEF value
  <1>e. ASSUME NEW o \in Vars, NEW n \in Names, NEW h \in Requests,
               o \notin live, Lookup(o, n, h)
        PROVE  /\ value[o] = None
               /\ value' = [value EXCEPT ![o] = [name |-> n, protocol |-> h.protocol,
                                                 flags |-> h.flags]]
    <2>1. live' = live \cup {o}
      BY <1>e DEF Lookup
    <2>2. /\ Shown(o)' = [name |-> n, protocol |-> h.protocol, flags |-> h.flags]
          /\ \A x \in live : Shown(x)' = Shown(x)
      BY <1>e, LookupShows DEF Slots
    <2>. QED BY <1>b, <1>e, <2>1, <2>2 DEF value
  <1>1. CASE UNCHANGED vars
    BY <1>1, <1>c DEF vars, object
  <1>2. CASE DnsChanges
    BY <1>2, <1>c DEF DnsChanges, object
  <1>3. CASE \E o, p \in Vars : ConstructThrows(o) \/ CopyThrows(o, p) \/ AssignThrows(o, p)
    BY <1>3, <1>c DEF ConstructThrows, CopyThrows, AssignThrows, Throws, object,
                      Value!ValueNext, Value!Throw, value
  <1>4. ASSUME NEW o \in Vars, NEW n \in Names, NEW r \in Requests, Construct(o, n, r)
        PROVE  Value!ValueNext
    <2>1. [name |-> n, protocol |-> r.protocol, flags |-> r.flags] \in Visible
      BY DEF Visible, Protocols, Flags
    <2>2. ret' = "ok" /\ o \notin live /\ Lookup(o, n, r)
      BY <1>4 DEF Construct
    <2>. QED BY <1>e, <2>1, <2>2 DEF Value!ValueNext, Value!Request, value
  <1>5. ASSUME NEW o \in Vars, NEW p \in Vars, Copy(o, p) PROVE Value!ValueNext
    <2>1. /\ p \in live /\ o \notin live /\ ret' = "ok" /\ Lookup(o, m_name[p], m_hints[p])
          /\ m_name[p] \in Names /\ m_hints[p] \in Requests
      BY <1>5, <1>a DEF Copy, TypeOK
    <2>2. value[p] = [name |-> m_name[p], protocol |-> m_hints[p].protocol,
                      flags |-> m_hints[p].flags]
      BY <2>1, <1>d, ShownIsSomething
    <2>3. value[p] # None /\ value' = [value EXCEPT ![o] = value[p]]
      BY <1>d, <1>e, <2>1, <2>2
    <2>. QED BY <2>1, <2>3 DEF Value!ValueNext, Value!TakeValue, value
  <1>6. ASSUME NEW o \in Vars, NEW p \in Vars, Assign(o, p)
        PROVE  UNCHANGED <<value, ret>>
    <2>1. /\ that \notin live /\ ret' = ret /\ Lookup(that, m_name[p], m_hints[p])
          /\ m_name[p] \in Names /\ m_hints[p] \in Requests
      BY <1>6, <1>a DEF Assign, TypeOK
    <2>2. live' = live \cup {that} /\ that \in Slots
      BY <2>1 DEF Lookup
    <2>3. \A x \in live : Shown(x)' = Shown(x)
      BY <2>1, <2>2, LookupShows
    <2>. QED BY <2>1, <2>2, <2>3 DEF value
  <1>7. CASE DropParam
    <2>1. live' = live \ {that} /\ ret' = ret /\ that \in live
      BY <1>7, <1>a DEF DropParam, Destruct, TypeOK
    <2>2. \A x \in live' : m_res'[x] = m_res[x] /\ heap'[m_res'[x]] = heap[m_res[x]]
      BY <1>7, <2>1, DestructKeepsInv DEF DropParam
    <2>. QED BY <2>1, <2>2 DEF value, Shown
  <1>8. ASSUME NEW o \in Vars, Dtor(o) PROVE Value!ValueNext
    <2>1. live' = live \ {o} /\ ret' = "ok" /\ o \in live
      BY <1>8 DEF Dtor, Destruct
    <2>2. \A x \in live' : m_res'[x] = m_res[x] /\ heap'[m_res'[x]] = heap[m_res[x]]
      BY <1>8, <2>1, DestructKeepsInv DEF Dtor
    <2>3. value' = [value EXCEPT ![o] = None]
      BY <1>b, <2>1, <2>2 DEF value, Shown
    <2>. QED BY <1>d, <2>1, <2>3 DEF Value!ValueNext, Value!Discard, value
  <1>9. CASE Swap
    <2>1. /\ target \in live /\ target \in Vars /\ that \in live /\ ret' = "ok"
          /\ heap' = heap /\ live' = live
      BY <1>9, <1>a DEF Swap, TypeOK
    <2>2. /\ \A x \in live \ {target, that} : m_res'[x] = m_res[x]
          /\ m_res'[target] = m_res[that]
      BY <1>9, <1>a, <2>1 DEF Swap, TypeOK
    <2>3. /\ value' = [value EXCEPT ![target] = Shown(that)]
      BY <1>b, <2>1, <2>2 DEF value, Shown
    <2>4. PICK p \in live \cap Vars : m_name[that] = m_name[p] /\ m_hints[that] = m_hints[p]
      BY <1>9 DEF AddrinfoInv, ParamIsCopy, Swap
    <2>5. value[p] = Shown(that) /\ value[p] # None
      BY <1>d, <2>1, <2>4, ShownIsSomething
    <2>. QED BY <2>1, <2>3, <2>4, <2>5 DEF Value!ValueNext, Value!TakeValue, value
  <1>. QED BY <1>1, <1>2, <1>3, <1>4, <1>5, <1>6, <1>7, <1>8, <1>9 DEF Next

\* CAddrinfo objects are values with the strong exception guarantee
\* (addrinfo.hpp:27-37, 73): its steps are those of AddrinfoValue.
THEOREM CAddrinfoImplementsValue == Spec => ImplementsValue
  <1>1. Init => Value!ValueInit
    BY DEF Init, Value!ValueInit
  <1>2. AddrinfoInv /\ AddrinfoInv' /\ [Next]_vars => [Value!ValueNext]_<<value, ret>>
    BY ValueStep
  <1>3. [Value!ValueNext]_<<value, ret>> =>
            [Value!ValueNext]_<<[o \in Vars |-> IF o \in live THEN Shown(o) ELSE None], ret>>
    BY DEF value
  <1>. QED BY <1>1, <1>2, <1>3, AddrinfoInvHolds, PTL
       DEF Spec, ImplementsValue, Value!ValueSpec
=============================================================================
