------------------------------ MODULE Loopback ------------------------------
(***************************************************************************)
(* The TCP stack under the server and its clients, as far as the socket    *)
(* calls of src/ can observe it.  It is code of the operating system, not  *)
(* of the repository: every operator is the part of one system call that   *)
(* server-tcp.cpp or client-tcp.cpp relies on.                             *)
(*                                                                         *)
(* A connection is named by the client that opens it; a client opens one.  *)
(***************************************************************************)
EXTENDS Integers, Sequences

CONSTANTS Clients,     \* everything that may connect to the server's port
          Backlog      \* second argument of ::listen() (socket.cpp:201)

ASSUME BacklogAssumption == Backlog \in Nat

VARIABLES listening,   \* the server's socket accepts connections
          queue,       \* established connections nobody has accepted yet
          link,        \* the server's end of each connection
          peer,        \* what the client's end has done to the connection
          inq          \* bytes that arrived and were not read

tcp == <<listening, queue, link, peer, inq>>

Bytes == {"Q", "x"}    \* the byte the server looks for, and any other byte

TcpTypeOK ==
    /\ listening \in BOOLEAN
    /\ queue \in Seq(Clients)
    /\ link \in [Clients -> {"none", "queued", "accepted", "closed"}]
    /\ peer \in [Clients -> {"open", "fin", "rst"}]
    /\ inq \in [Clients -> Seq(Bytes)]

TcpInit ==
    /\ queue = <<>>
    /\ link = [c \in Clients |-> "none"]
    /\ peer = [c \in Clients |-> "open"]
    /\ inq = [c \in Clients |-> <<>>]

\* The accept queue holds Backlog + 1 connections; a further ::connect() blocks.
QueueFull == Len(queue) > Backlog

\* ::connect() succeeds as soon as the connection is queued, accepted or not.
TcpConnect(c) ==
    /\ listening /\ ~QueueFull /\ link[c] = "none"
    /\ link' = [link EXCEPT ![c] = "queued"]
    /\ queue' = Append(queue, c)
    /\ UNCHANGED <<listening, peer, inq>>

\* ::send() succeeds: the bytes arrive in order while the server's end is open
\* and are dropped when it is closed.
TcpSend(c, bytes) ==
    /\ link[c] # "none" /\ peer[c] = "open"
    /\ inq' = [inq EXCEPT ![c] = IF link[c] = "closed" THEN @ ELSE @ \o bytes]
    /\ UNCHANGED <<listening, queue, link, peer>>

\* The client ends the connection: in order (::shutdown(), ::close()) or by a
\* reset (a connection lost or aborted).
TcpHangup(c, how) ==
    /\ link[c] # "none" /\ peer[c] = "open"
    /\ peer' = [peer EXCEPT ![c] = how]
    /\ UNCHANGED <<listening, queue, link, inq>>

\* ::accept() takes the oldest queued connection.
TcpAccept ==
    /\ queue # <<>>
    /\ link' = [link EXCEPT ![Head(queue)] = "accepted"]
    /\ queue' = Tail(queue)
    /\ UNCHANGED <<listening, peer, inq>>

\* ::recv() consumes the first n bytes.
TcpRead(c, n) ==
    /\ inq' = [inq EXCEPT ![c] = SubSeq(@, n + 1, Len(@))]
    /\ UNCHANGED <<listening, queue, link, peer>>

\* ::close() of the accepted connection; what was not read is lost.
TcpClose(c) ==
    /\ link' = [link EXCEPT ![c] = "closed"]
    /\ inq' = [inq EXCEPT ![c] = <<>>]
    /\ UNCHANGED <<listening, queue, peer>>

\* The listening socket is closed, or its process ends: every connection the
\* server still held is closed with it.
TcpStop ==
    /\ listening' = FALSE
    /\ queue' = <<>>
    /\ link' = [c \in Clients |-> IF link[c] = "none" THEN "none" ELSE "closed"]
    /\ inq' = [c \in Clients |-> <<>>]
    /\ UNCHANGED peer
=============================================================================
