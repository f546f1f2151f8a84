---------------------------- MODULE MCLifetimes -----------------------------
(***************************************************************************)
(* Two servers, as main() and a unit test have them, and two calls.        *)
(***************************************************************************)
EXTENDS Lifetimes, TLC

MCSymmetry == Permutations(Servers) \cup Permutations(Calls)
=============================================================================
