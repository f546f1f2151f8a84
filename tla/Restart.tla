------------------------------- MODULE Restart ------------------------------
(***************************************************************************)
(* The program is started again after it has ended.  A connection that the *)
(* server closed before its client did keeps the server's port busy for a  *)
(* while (TIME_WAIT), and bind() is refused then: CSocket resets           *)
(* SO_REUSEADDR and CServerTCP ignores a_reuse_addr.                       *)
(***************************************************************************)
EXTENDS TestMain

VARIABLE time_wait     \* the port is busy because of an earlier connection

restartvars == <<allvars, time_wait>>

RestartInit == MainInit /\ time_wait = FALSE

\* The server's end, or the end of its process, was first to close c.  A
\* connection with unread bytes is reset instead and leaves nothing behind.
ClosedFirst(c) ==
    link[c] = "accepted" /\ link'[c] = "closed" /\ peer[c] = "open" /\ inq[c] = <<>>

Run ==
    /\ MainSystemNext
    /\ Construct => ~time_wait
    /\ time_wait' = (time_wait \/ \E c \in Clients : ClosedFirst(c))

\* MSG1009 in the constructor of the server: main() exits.
BindRefused ==
    /\ time_wait
    /\ Goto("construct", "left") /\ ExitFailure
    /\ UNCHANGED time_wait

Expire == time_wait /\ time_wait' = FALSE /\ UNCHANGED allvars

\* A new process: its state is new, that of the other processes stays.
Again ==
    /\ ~Running
    /\ main' = "construct" /\ polls' = 0 /\ proc' = "running"
    /\ svr' = "run" /\ m_ready' = FALSE
    /\ accept_sfd' = INVALID_SOCKET /\ buffer0' = "NUL" /\ valread' = 0
    /\ errno' = "0" /\ got' = [c \in Clients |-> <<>>]
    /\ cl' = [cl EXCEPT ![Main] = "idle"]
    /\ link' = [link EXCEPT ![Main] = "none"]
    /\ peer' = [peer EXCEPT ![Main] = "open"]
    /\ UNCHANGED <<listening, queue, inq, time_wait>>

RestartNext == Run \/ BindRefused \/ Expire \/ Again

RestartSpec == RestartInit /\ [][RestartNext]_restartvars

\* The scheduling of TestMain, for every program; nobody has to start another.
RestartFairness ==
    /\ WF_restartvars(Run /\ MainNext)
    /\ WF_restartvars(Run /\ Unblocked /\ ThreadNext)
    /\ \A c \in Callers : WF_restartvars(Run /\ CallNext(c))

FairRestartSpec == RestartSpec /\ RestartFairness
-----------------------------------------------------------------------------
=============================================================================
