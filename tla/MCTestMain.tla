----------------------------- MODULE MCTestMain -----------------------------
(***************************************************************************)
(* The program on small instances.  Two connections fill a queue of        *)
(* Backlog + 1 = 2, a third one overflows it.                              *)
(***************************************************************************)
EXTENDS TestMain

MCMessages == {<<"Q">>, <<"x">>}
=============================================================================
