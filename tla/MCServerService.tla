--------------------------- MODULE MCServerService --------------------------
(***************************************************************************)
(* ServerService on a small instance: a buffer of three bytes stands for   *)
(* the 1024 of the code, so that a message can be shorter than, as long as *)
(* and longer than one recv() takes.                                       *)
(***************************************************************************)
EXTENDS ServerService, TLC

MCMessages == {<<"Q">>, <<"x">>, <<"Q", "x">>}
ClientSymmetry == Permutations(Clients)
=============================================================================
