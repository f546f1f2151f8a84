----------------------------- MODULE MCRestart ------------------------------
(***************************************************************************)
(* The program and one foreign call of quit_server(), started repeatedly.  *)
(***************************************************************************)
EXTENDS Restart

MCMessages == {<<"Q">>}
=============================================================================
