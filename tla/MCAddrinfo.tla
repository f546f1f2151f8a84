----------------------------- MODULE MCAddrinfo -----------------------------
(***************************************************************************)
(* Small instances of CAddrinfo: two objects and the parameter of an       *)
(* assignment, with just enough memory for their lists; two names, each    *)
(* with at most one address of either family; a request for any family and *)
(* one for IPv6.                                                           *)
(***************************************************************************)
EXTENDS CAddrinfo, TLC

MCAddresses == {[af |-> "AF_INET"], [af |-> "AF_INET6"]}
MCRequests == {[af |-> "AF_UNSPEC", protocol |-> 0, flags |-> 1],
               [af |-> "AF_INET6", protocol |-> 6, flags |-> 0]}
MCSymmetry == Permutations(Vars) \cup Permutations(Names) \cup Permutations(Blocks)
=============================================================================
