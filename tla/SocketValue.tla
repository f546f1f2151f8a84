---------------------------- MODULE SocketValue -----------------------------
(***************************************************************************)
(* What class CSocket promises to a program that does not move an object   *)
(* while others use it: an object is the socket it holds.  There are no    *)
(* descriptors here that could be lost, shared, closed twice or used after *)
(* they were closed: a call changes the socket of the object it was called *)
(* on, and none but the object, or the constructor, that has a socket      *)
(* hands it on or gives it back (socket.hpp:29-33, socket.cpp:48-205).     *)
(***************************************************************************)
CONSTANTS Slots,       \* the objects
          Threads,     \* each may run one call
          Socket,      \* what a socket can look like
          Ports, Unbound, Ephemeral, None

VARIABLES held,        \* the socket of each object, None of an empty one
          making,      \* the socket each constructor is working on
          setting      \* the object whose socket each thread is changing

value == <<held, making, setting>>

ValueInit ==
    /\ held = [o \in Slots |-> None]
    /\ making = [t \in Threads |-> None]
    /\ setting = [t \in Threads |-> None]

\* A new socket has no address yet, and options as the system likes.
Make(t) ==
    /\ making[t] = None
    /\ \E s \in Socket :
           /\ s.addr = Unbound /\ ~s.lis
           /\ making' = [making EXCEPT ![t] = s]
    /\ UNCHANGED <<held, setting>>

Prepare(t) ==
    /\ making[t] # None
    /\ making' = [making EXCEPT ![t].reuse = FALSE]
    /\ UNCHANGED <<held, setting>>

\* The object comes into being with both options off, or not at all.
Finish(t, o) ==
    /\ making[t] # None /\ held[o] = None
    /\ held' = [held EXCEPT ![o] = [making[t] EXCEPT !.reuse = FALSE, !.v6only = FALSE]]
    /\ making' = [making EXCEPT ![t] = None]
    /\ UNCHANGED setting

Abandon(t) ==
    /\ making[t] # None
    /\ making' = [making EXCEPT ![t] = None]
    /\ UNCHANGED <<held, setting>>

\* A call that changes a socket is made on one object,
Begin(t, o) ==
    /\ setting[t] = None
    /\ setting' = [setting EXCEPT ![t] = o]
    /\ UNCHANGED <<held, making>>

End(t) ==
    /\ setting' = [setting EXCEPT ![t] = None]
    /\ UNCHANGED <<held, making>>

\* which nobody empties, fills or destroys meanwhile.
AtRest(o) == \A t \in Threads : setting[t] # o

\* Move construction empties the other object; assignment exchanges two.
Take(o, p) ==
    /\ o # p /\ held[o] = None /\ AtRest(o) /\ AtRest(p)
    /\ held' = [held EXCEPT ![o] = held[p], ![p] = None]
    /\ UNCHANGED <<making, setting>>

Exchange(o, p) ==
    /\ AtRest(o) /\ AtRest(p)
    /\ held' = [held EXCEPT ![o] = held[p], ![p] = held[o]]
    /\ UNCHANGED <<making, setting>>

Discard(o) ==
    /\ AtRest(o)
    /\ held' = [held EXCEPT ![o] = None]
    /\ UNCHANGED <<making, setting>>

\* A port goes to one socket of a family and type, and for good, unless all
\* that have it reuse addresses and do not listen.
Conflict(s, r, a) ==
    /\ s # None /\ s.af = r.af /\ s.type = r.type /\ s.addr = a
    /\ ~(s.reuse /\ r.reuse /\ ~s.lis)

Taken(r, a) == \/ \E o \in Slots : Conflict(held[o], r, a)
               \/ \E t \in Threads : Conflict(making[t], r, a)

\* The call changes the socket that its object holds, and no other.
Change(t, s) ==
    /\ held' = [held EXCEPT ![setting[t]] = s]
    /\ UNCHANGED making

Name(t, a) ==
    LET s == held[setting[t]]
    IN  /\ setting[t] # None
        /\ s # None /\ s.addr = Unbound /\ ~Taken(s, a)
        /\ Change(t, [s EXCEPT !.addr = a])
        /\ UNCHANGED setting

Listen(t) ==
    LET s == held[setting[t]]
    IN  /\ setting[t] # None
        /\ s # None /\ s.type = "SOCK_STREAM"
        /\ Change(t, [s EXCEPT !.lis = TRUE,
                               !.addr = IF s.addr = Unbound THEN Ephemeral ELSE s.addr])
        /\ UNCHANGED setting

SetOption(t, v) ==
    LET s == held[setting[t]]
    IN  /\ setting[t] # None
        /\ s # None
        /\ \/ Change(t, [s EXCEPT !.reuse = v])
           \/ s.af = "AF_INET6" /\ Change(t, [s EXCEPT !.v6only = v])
        /\ setting' = [setting EXCEPT ![t] = None]

ValueNext ==
    \/ \E t \in Threads :
          \/ Make(t) \/ Prepare(t) \/ Abandon(t) \/ Listen(t) \/ End(t)
          \/ \E o \in Slots : Finish(t, o) \/ Begin(t, o)
          \/ \E a \in Ports : Name(t, a)
          \/ \E v \in BOOLEAN : SetOption(t, v)
    \/ \E o, p \in Slots : Take(o, p) \/ Exchange(o, p)
    \/ \E o \in Slots : Discard(o)

ValueSpec == ValueInit /\ [][ValueNext]_value
=============================================================================
