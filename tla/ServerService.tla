--------------------------- MODULE ServerService ----------------------------
(***************************************************************************)
(* CServerTCP::run() implements QuitService.                               *)
(*                                                                         *)
(* A connection counts as handled from the moment the server closes it,    *)
(* because only then can the loop go on or end; the verdict is what the    *)
(* loop condition and the switch will make of valread and buffer[0].       *)
(***************************************************************************)
EXTENDS ServerTCP

PhaseOf ==
    CASE svr = "run"      -> "starting"
      [] svr \in Serving  -> "serving"
      [] svr = "returned" -> "quit"
      [] svr \in Failed   -> "failed"

HandledBy == {c \in Clients : link[c] = "closed"}

VerdictOf ==
    IF svr \in {"recv", "hangup"} THEN "more"
    ELSE IF QuitReceived THEN "quit"
    ELSE IF svr \in {"check", "MSG1023", "MSG1024"} /\ valread <= 0 THEN "unreadable"
    ELSE "more"

Service == INSTANCE QuitService
           WITH phase <- PhaseOf, handled <- HandledBy, verdict <- VerdictOf

\* Every behaviour of run() (server-tcp.cpp:56-105) is one QuitService allows:
\* no connection is handled twice, none after a quit request or an unreadable
\* one, and the loop ends normally for no other reason than a quit request.
ImplementsService == Service!ServiceSpec
=============================================================================
