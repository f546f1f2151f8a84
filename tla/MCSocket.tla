------------------------------- MODULE MCSocket ------------------------------
(***************************************************************************)
(* Small instances of CSocket: two objects, two threads and a descriptor   *)
(* table with room for both.  An IPv6 stream and an IPv4 datagram socket   *)
(* are enough for every branch on family and type.                         *)
(***************************************************************************)
EXTENDS CSocket, TLC

MCFds == {3, 4}
MCKinds == {<<"AF_INET6", "SOCK_STREAM">>, <<"AF_INET", "SOCK_DGRAM">>}
MCKindStream == {<<"AF_INET6", "SOCK_STREAM">>}
MCSymmetry == Permutations(Vars) \cup Permutations(Threads)
==============================================================================
