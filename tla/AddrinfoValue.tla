--------------------------- MODULE AddrinfoValue ----------------------------
(***************************************************************************)
(* What class CAddrinfo promises: its objects are values.  An object shows *)
(* what was requested for it, a copy shows the same as its original, and a *)
(* call that throws has changed nothing (addrinfo.hpp:27-37, 73).          *)
(***************************************************************************)
CONSTANTS Objects, Values, Nothing, Exceptions

VARIABLES value,       \* what each object shows; Nothing where there is none
          outcome      \* how the last call ended: "ok" or an exception

ValueInit == value = [o \in Objects |-> Nothing] /\ outcome = "ok"

Request(o, v) ==
    /\ value[o] = Nothing
    /\ value' = [value EXCEPT ![o] = v]
    /\ outcome' = "ok"

\* A copy, or an assignment, which replaces the whole value at once.
TakeValue(o, p) ==
    /\ value[p] # Nothing
    /\ value' = [value EXCEPT ![o] = value[p]]
    /\ outcome' = "ok"

Throw == outcome' \in Exceptions /\ UNCHANGED value

Discard(o) ==
    /\ value[o] # Nothing
    /\ value' = [value EXCEPT ![o] = Nothing]
    /\ outcome' = "ok"

ValueNext ==
    \/ \E o \in Objects :
          \/ \E v \in Values : Request(o, v)
          \/ \E p \in Objects : TakeValue(o, p)
          \/ Discard(o)
    \/ Throw

ValueSpec == ValueInit /\ [][ValueNext]_<<value, outcome>>
=============================================================================
