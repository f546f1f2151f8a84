----------------------------- MODULE CAddrinfo ------------------------------
(***************************************************************************)
(* class CAddrinfo (addrinfo.cpp, addrinfo.hpp): objects that own a list   *)
(* from ::getaddrinfo() and remember what it was looked up with, because a *)
(* copy has to look it up again.                                           *)
(*                                                                         *)
(* The resolver is not under the program's control: its addresses for a    *)
(* name change at any time and every lookup may fail.  The class has no    *)
(* mutex, so the calls are those of one thread.                            *)
(***************************************************************************)
CONSTANTS Vars,        \* storage for CAddrinfo objects of the program
          Names,       \* pairs of node and service
          Addresses,   \* records with a family, af, and more
          Requests,    \* hints: a family, a protocol and flags
          Blocks,      \* memory for lists
          None         \* also the null pointer

that == "that"         \* the by-value parameter of operator=()
Slots == Vars \cup {that}

Protocols == {r.protocol : r \in Requests}
Flags == {r.flags : r \in Requests}

ASSUME CAddrinfoAssumption ==
    /\ that \notin Vars
    /\ \A a \in Addresses : a.af \in {"AF_INET", "AF_INET6"}
    /\ Requests \subseteq [af : {"AF_INET", "AF_INET6", "AF_UNSPEC"},
                           protocol : Protocols, flags : Flags]
    /\ None \notin Blocks \cup Vars

VARIABLES dns,         \* the addresses the resolver has for each name
          heap,        \* the lists that are allocated: their first entry
          live,        \* the slots that hold a constructed object
          m_name, m_hints, m_res,   \* members; m_name is m_node and m_service
          pc, target,  \* the assignment that is under way and its object
          ret          \* how the last call ended

object == <<live, m_name, m_hints, m_res>>
vars == <<dns, heap, object, pc, target, ret>>

\* What operator->(), addr_str() and port() read.
Entry == [name : Names, addr : Addresses, protocol : Protocols, flags : Flags]

\* What of it the resolver cannot change.
Visible == [name : Names, protocol : Protocols, flags : Flags]

ASSUME EntryAssumption == None \notin Entry \cup Visible

Init ==
    /\ dns \in [Names -> SUBSET Addresses]
    /\ heap = [b \in Blocks |-> None]
    /\ live = {}
    /\ m_name = [o \in Slots |-> None]
    /\ m_hints = [o \in Slots |-> None]
    /\ m_res = [o \in Slots |-> None]
    /\ pc = "idle" /\ target = None /\ ret = "ok"
-----------------------------------------------------------------------------
\* What ::getaddrinfo() may put first: an address of the family asked for, with
\* protocol and flags as the platform fills them in.
Found(name, hints) ==
    {e \in Entry : /\ e.name = name /\ e.addr \in dns[name]
                   /\ hints.af \in {"AF_UNSPEC", e.addr.af}}

\* Mutant: the members of the hints are mixed up.
RequestedMixed(e, hints) ==
    [e EXCEPT !.protocol = hints.flags, !.flags = hints.flags]

\* Protocol and flags are overwritten with what the user asked for.
Requested(e, hints) ==
    [e EXCEPT !.protocol = hints.protocol, !.flags = hints.flags]

\* get_new_addrinfo() for the object o with these members.
Lookup(o, name, hints) ==
    \E b \in Blocks, e \in Found(name, hints) :
        /\ heap[b] = None
        /\ heap' = [heap EXCEPT ![b] = Requested(e, hints)]
        /\ live' = live \cup {o}
        /\ m_name' = [m_name EXCEPT ![o] = name]
        /\ m_hints' = [m_hints EXCEPT ![o] = hints]
        /\ m_res' = [m_res EXCEPT ![o] = b]

\* The lookup fails, or memory for a copied string is missing before it starts.
Exceptions == {"MSG1025", "bad_alloc"}
Throws == ret' \in Exceptions /\ UNCHANGED <<dns, heap, object, pc, target>>

Destruct(o) ==
    /\ heap' = [heap EXCEPT ![m_res[o]] = None]
    /\ live' = live \ {o}
    /\ m_res' = [m_res EXCEPT ![o] = None]
    /\ m_name' = [m_name EXCEPT ![o] = None]
    /\ m_hints' = [m_hints EXCEPT ![o] = None]

Construct(o, name, hints) ==
    /\ pc = "idle" /\ o \in Vars \ live
    /\ Lookup(o, name, hints)
    /\ ret' = "ok" /\ UNCHANGED <<dns, pc, target>>

ConstructThrows(o) == pc = "idle" /\ o \in Vars \ live /\ Throws

\* Mutant: the copy shares the list of its original.
CopyShares(o, p) ==
    /\ pc = "idle" /\ o \in Vars \ live /\ p \in live
    /\ live' = live \cup {o}
    /\ m_name' = [m_name EXCEPT ![o] = m_name[p]]
    /\ m_hints' = [m_hints EXCEPT ![o] = m_hints[p]]
    /\ m_res' = [m_res EXCEPT ![o] = m_res[p]]
    /\ ret' = "ok" /\ UNCHANGED <<dns, heap, pc, target>>

Copy(o, p) ==
    /\ pc = "idle" /\ o \in Vars \ live /\ p \in live
    /\ Lookup(o, m_name[p], m_hints[p])
    /\ ret' = "ok" /\ UNCHANGED <<dns, pc, target>>

CopyThrows(o, p) == pc = "idle" /\ o \in Vars \ live /\ p \in live /\ Throws

\* o = p; o and p may be the same.  The parameter is a copy of p.
Assign(o, p) ==
    /\ pc = "idle" /\ o \in live /\ p \in live
    /\ Lookup(that, m_name[p], m_hints[p])
    /\ pc' = "swap" /\ target' = o
    /\ UNCHANGED <<dns, ret>>

\* Mutant: *this is changed before the lookup that may fail.
AssignThrowsLate(o, p) ==
    /\ pc = "idle" /\ o \in live /\ p \in live
    /\ Destruct(o)
    /\ ret' = "MSG1025" /\ UNCHANGED <<dns, pc, target>>

AssignThrows(o, p) == pc = "idle" /\ o \in live /\ p \in live /\ Throws

\* Mutant: the hints are not swapped.
SwapNoHints ==
    /\ pc = "swap" /\ pc' = "drop"
    /\ m_name' = [m_name EXCEPT ![target] = m_name[that], ![that] = m_name[target]]
    /\ m_res' = [m_res EXCEPT ![target] = m_res[that], ![that] = m_res[target]]
    /\ ret' = "ok" /\ UNCHANGED <<dns, heap, live, m_hints, target>>

\* From here on nothing can throw.
Swap ==
    /\ pc = "swap" /\ pc' = "drop"
    /\ m_name' = [m_name EXCEPT ![target] = m_name[that], ![that] = m_name[target]]
    /\ m_hints' = [m_hints EXCEPT ![target] = m_hints[that], ![that] = m_hints[target]]
    /\ m_res' = [m_res EXCEPT ![target] = m_res[that], ![that] = m_res[target]]
    /\ ret' = "ok" /\ UNCHANGED <<dns, heap, live, target>>

\* The parameter is destructed with the list *this had before.
DropParam ==
    /\ pc = "drop" /\ pc' = "idle"
    /\ Destruct(that)
    /\ target' = None /\ UNCHANGED <<dns, ret>>

Dtor(o) ==
    /\ pc = "idle" /\ o \in live
    /\ Destruct(o)
    /\ ret' = "ok" /\ UNCHANGED <<dns, pc, target>>

\* A record of the resolver changes.
DnsChanges ==
    /\ \E n \in Names, as \in SUBSET Addresses : dns' = [dns EXCEPT ![n] = as]
    /\ UNCHANGED <<heap, object, pc, target, ret>>

Next ==
    \/ \E o \in Vars :
          \/ \E n \in Names, r \in Requests : Construct(o, n, r)
          \/ ConstructThrows(o) \/ Dtor(o)
          \/ \E p \in Vars : \/ Copy(o, p) \/ CopyThrows(o, p)
                             \/ Assign(o, p) \/ AssignThrows(o, p)
    \/ Swap \/ DropParam \/ DnsChanges

Spec == Init /\ [][Next]_vars
-----------------------------------------------------------------------------
(* Properties. *)

\* Every variable has its type, and the parameter lives during an assignment.
TypeOK ==
    /\ dns \in [Names -> SUBSET Addresses]
    /\ heap \in [Blocks -> Entry \cup {None}]
    /\ live \subseteq Slots
    /\ m_name \in [Slots -> Names \cup {None}]
    /\ m_hints \in [Slots -> Requests \cup {None}]
    /\ m_res \in [Slots -> Blocks \cup {None}]
    /\ \A o \in live : m_name[o] \in Names /\ m_hints[o] \in Requests
    /\ pc \in {"idle", "swap", "drop"} /\ target \in Vars \cup {None}
    /\ ret \in Exceptions \cup {"ok"}
    /\ pc # "idle" <=> that \in live
    /\ pc # "idle" => target \in live \cap Vars

\* Every object has a list of its own and every list has its object: copies
\* share none, no path of an assignment or of a throwing constructor leaks one
\* and none is freed twice (addrinfo.cpp:32, 41, 57, addrinfo.hpp:54-56).
ListsOwned ==
    /\ \A o \in live : m_res[o] \in Blocks /\ heap[m_res[o]] # None
    /\ \A o, p \in live : m_res[o] = m_res[p] => o = p
    /\ \A b \in Blocks : heap[b] # None => \E o \in live : m_res[o] = b

\* What an object shows is an answer to what it remembers to have asked, so the
\* next copy of it asks for the same: also for the parameter in the middle
\* of an assignment (addrinfo.cpp:41-48, 80-83).
AnswersRequest ==
    \A o \in live :
        LET e == heap[m_res[o]]
        IN  /\ e.name = m_name[o]
            /\ e.protocol = m_hints[o].protocol /\ e.flags = m_hints[o].flags
            /\ m_hints[o].af \in {"AF_UNSPEC", e.addr.af}

\* Before the swap the parameter remembers what the object it was copied from
\* still remembers.
ParamIsCopy ==
    pc = "swap" => \E p \in live \cap Vars :
        m_name[that] = m_name[p] /\ m_hints[that] = m_hints[p]

\* The invariant of the class: its lists, their contents and the parameter of
\* an assignment under way (addrinfo.cpp:27-87).
AddrinfoInv == TypeOK /\ ListsOwned /\ AnswersRequest /\ ParamIsCopy

Shown(o) ==
    LET e == heap[m_res[o]]
    IN  [name |-> e.name, protocol |-> e.protocol, flags |-> e.flags]

Value == INSTANCE AddrinfoValue
         WITH Objects <- Vars,
              Values <- Visible,
              Nothing <- None, outcome <- ret,
              value <- [o \in Vars |-> IF o \in live THEN Shown(o) ELSE None]

\* CAddrinfo objects are values: construction, copy and assignment take effect
\* at once or, if they throw, not at all ("strong exception guarantee",
\* addrinfo.hpp:35, 73), and destructing a copy never disturbs its original.
ImplementsValue == Value!ValueSpec

\* addrinfo.hpp:65-66: "Because we always use the same cached hints we also get
\* the same information": a copy shows what its original shows.
CopyShowsTheSame ==
    [][\A o, p \in Vars : Copy(o, p) => heap'[m_res'[o]] = heap[m_res[p]]]_vars
=============================================================================
