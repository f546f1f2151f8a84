---------------------------- MODULE QuitService -----------------------------
(***************************************************************************)
(* What CServerTCP::run() promises, without saying how: once started it    *)
(* handles requests one by one, each connection at most once and as a      *)
(* whole; a quit request is the last one handled and ends the service      *)
(* normally; a request that cannot be read is the last one too and ends it *)
(* with a failure.  Otherwise the service fails only between two requests. *)
(***************************************************************************)
CONSTANT Clients

VARIABLES phase,       \* "starting", "serving", "quit" or "failed"
          handled,     \* the connections that were handled
          verdict      \* what the last one asked for

service == <<phase, handled, verdict>>

ServiceInit == phase = "starting" /\ handled = {} /\ verdict = "more"

Start == phase = "starting" /\ phase' = "serving" /\ UNCHANGED <<handled, verdict>>

Handle(c) ==
    /\ phase = "serving" /\ verdict = "more" /\ c \notin handled
    /\ handled' = handled \cup {c}
    /\ verdict' \in {"more", "quit", "unreadable"}
    /\ UNCHANGED phase

Quit ==
    /\ phase = "serving" /\ verdict = "quit"
    /\ phase' = "quit"
    /\ UNCHANGED <<handled, verdict>>

Fail ==
    /\ phase = "serving" /\ verdict # "quit"
    /\ phase' = "failed"
    /\ UNCHANGED <<handled, verdict>>

ServiceNext == Start \/ (\E c \in Clients : Handle(c)) \/ Quit \/ Fail

ServiceSpec == ServiceInit /\ [][ServiceNext]_service
=============================================================================
