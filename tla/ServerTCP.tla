----------------------------- MODULE ServerTCP ------------------------------
(***************************************************************************)
(* CServerTCP::run() (server-tcp.cpp:56-105) against arbitrary clients.    *)
(*                                                                         *)
(* run() serves one connection at a time: accept, one recv(), shutdown and *)
(* close, and only then looks at what recv() returned.  It returns when    *)
(* the last message was the single byte Q and throws on every other        *)
(* failure.  Each system call that can block or race with a client is a    *)
(* step of its own.                                                        *)
(***************************************************************************)
EXTENDS Loopback

CONSTANTS BufSize,     \* sizeof(buffer), 1024 in the code
          AcceptErrors, \* errno values ::accept() may fail with
          RecvErrors,  \* errno values ::recv() may fail with, besides a reset
          Messages,    \* byte strings one ::send() of a client may carry
          MaxUnread    \* bound: bytes of one client waiting to be read

ASSUME ServerAssumption ==
    /\ BufSize \in Nat /\ BufSize >= 2
    /\ Messages \subseteq Seq(Bytes)
    /\ -1 \notin Clients  \* no client is INVALID_SOCKET

VARIABLES svr,         \* where the thread is in run(); MSG10xx: it threw that
          m_ready,     \* CServerTCP::m_ready
          accept_sfd,  \* the accepted connection or INVALID_SOCKET
          buffer0,     \* buffer[0], the only byte run() looks at
          valread,     \* result of the last ::recv()
          errno,       \* the server thread's errno
          got          \* history: what ::recv() handed out per connection

server == <<svr, m_ready, accept_sfd, buffer0, valread, errno, got>>
vars == <<tcp, server>>

INVALID_SOCKET == -1
SOCKET_ERROR == -1

Serving == {"loop", "recv", "hangup", "check"}
Failed == {"MSG1022", "MSG1023", "MSG1024"}
Ended == Failed \cup {"returned"}

ServerInit ==
    /\ svr = "run"
    /\ m_ready = FALSE
    /\ accept_sfd = INVALID_SOCKET
    /\ buffer0 = "NUL"
    /\ valread = 0
    /\ errno = "0"
    /\ got = [c \in Clients |-> <<>>]

\* The constructor has bound and listened before run() can be called.
Init == listening = TRUE /\ TcpInit /\ ServerInit

SetReady ==
    /\ svr = "run"
    /\ m_ready' = TRUE
    /\ svr' = "loop"
    /\ UNCHANGED <<tcp, accept_sfd, buffer0, valread, errno, got>>

\* Mutants: the loop condition without its length check, and with one that
\* expects the terminating NUL of "Q" in the message.
QuitReceivedLong == buffer0 = "Q"
QuitReceivedWithNul == buffer0 = "Q" /\ valread = 2

\* The condition that ends the while loop.
QuitReceived == buffer0 = "Q" /\ valread = 1

Accept ==
    /\ svr = "loop" /\ ~QuitReceived
    /\ TcpAccept
    /\ accept_sfd' = Head(queue)
    /\ svr' = "recv"
    /\ UNCHANGED <<m_ready, buffer0, valread, errno, got>>

AcceptFails ==
    /\ svr = "loop" /\ ~QuitReceived
    /\ \E e \in AcceptErrors : errno' = e
    /\ svr' = "MSG1022"
    /\ UNCHANGED <<tcp, m_ready, accept_sfd, buffer0, valread, got>>

\* Mutant: the length handed to ::recv() is sizeof(buffer).
WholeBuffer == BufSize

ReadLimit == BufSize - 1

\* One ::recv() returns some of what has arrived, at most sizeof(buffer) - 1
\* bytes; the rest is lost when the connection is closed.
Recv ==
    /\ svr = "recv" /\ inq[accept_sfd] # <<>>
    /\ \E n \in 1 .. ReadLimit :
           /\ n <= Len(inq[accept_sfd])
           /\ valread' = n
           /\ got' = [got EXCEPT ![accept_sfd] = SubSeq(inq[accept_sfd], 1, n)]
           /\ TcpRead(accept_sfd, n)
    /\ buffer0' = Head(inq[accept_sfd])
    /\ svr' = "hangup"
    /\ UNCHANGED <<m_ready, accept_sfd, errno>>

\* Mutants: the empty message is refused before the connection is closed, and
\* ::recv() does not wait for the client.
RecvNothingThrows ==
    /\ svr = "recv" /\ inq[accept_sfd] = <<>> /\ peer[accept_sfd] = "fin"
    /\ valread' = 0
    /\ svr' = "MSG1023"
    /\ UNCHANGED <<tcp, m_ready, accept_sfd, buffer0, errno, got>>
RecvNothingAtOnce ==
    /\ svr = "recv" /\ inq[accept_sfd] = <<>>
    /\ valread' = 0
    /\ svr' = "hangup"
    /\ UNCHANGED <<tcp, m_ready, accept_sfd, buffer0, errno, got>>

\* The client closed without (further) data: recv() returns 0, errno is kept.
RecvNothing ==
    /\ svr = "recv" /\ inq[accept_sfd] = <<>> /\ peer[accept_sfd] = "fin"
    /\ valread' = 0
    /\ svr' = "hangup"
    /\ UNCHANGED <<tcp, m_ready, accept_sfd, buffer0, errno, got>>

\* What ::recv() may fail with: a lack of resources or an interruption at any
\* time, and the reset of the connection.  Whether data that came before the
\* reset can still be read depends on the platform, so Recv is possible too.
RecvErrno == RecvErrors \cup (IF peer[accept_sfd] = "rst" THEN {"ECONNRESET"} ELSE {})

\* Mutant: after a failure the connection is read again.
RecvFailsRetries ==
    /\ svr = "recv"
    /\ \E e \in RecvErrno : errno' = e
    /\ valread' = SOCKET_ERROR
    /\ UNCHANGED <<tcp, svr, m_ready, accept_sfd, buffer0, got>>

\* The connection is closed like any other, with whatever was sent on it.
RecvFails ==
    /\ svr = "recv"
    /\ \E e \in RecvErrno : errno' = e
    /\ valread' = SOCKET_ERROR
    /\ svr' = "hangup"
    /\ UNCHANGED <<tcp, m_ready, accept_sfd, buffer0, got>>

\* Mutant: the closed variable is reset to 0, which is a descriptor.
HangupToZero ==
    /\ svr = "hangup"
    /\ TcpClose(accept_sfd)
    /\ accept_sfd' = 0
    /\ svr' = "check"
    /\ UNCHANGED <<m_ready, buffer0, valread, errno, got>>

\* ::shutdown() and CLOSE_SOCKET_P.  shutdown() of a connection that was reset
\* fails and stores its own error number.
Hangup ==
    /\ svr = "hangup"
    /\ errno' = IF peer[accept_sfd] = "rst" THEN "ENOTCONN" ELSE errno
    /\ TcpClose(accept_sfd)
    /\ accept_sfd' = INVALID_SOCKET
    /\ svr' = "check"
    /\ UNCHANGED <<m_ready, buffer0, valread, got>>

\* Mutant: the switch has no case for SOCKET_ERROR.
CheckReadZeroOnly ==
    /\ svr = "check"
    /\ svr' = IF valread = 0 THEN "MSG1023" ELSE "loop"
    /\ UNCHANGED <<tcp, m_ready, accept_sfd, buffer0, valread, errno, got>>

CheckRead ==
    /\ svr = "check"
    /\ svr' = CASE valread = 0            -> "MSG1023"
                [] valread = SOCKET_ERROR -> "MSG1024"
                [] OTHER                  -> "loop"
    /\ UNCHANGED <<tcp, m_ready, accept_sfd, buffer0, valread, errno, got>>

Leave ==
    /\ svr = "loop" /\ QuitReceived
    /\ svr' = "returned"
    /\ UNCHANGED <<tcp, m_ready, accept_sfd, buffer0, valread, errno, got>>

ServerNext ==
    \/ SetReady \/ Accept \/ AcceptFails
    \/ Recv \/ RecvNothing \/ RecvFails
    \/ Hangup \/ CheckRead \/ Leave

\* Arbitrary TCP clients: connect, send in any pieces, close or reset.
PeerConnect(c) == TcpConnect(c) /\ UNCHANGED server
PeerSend(c) ==
    \E m \in Messages :
        /\ Len(inq[c] \o m) <= MaxUnread
        /\ TcpSend(c, m) /\ UNCHANGED server
PeerHangup(c) == \E how \in {"fin", "rst"} : TcpHangup(c, how) /\ UNCHANGED server

Next ==
    \/ ServerNext
    \/ \E c \in Clients : PeerConnect(c) \/ PeerSend(c) \/ PeerHangup(c)

Spec == Init /\ [][Next]_vars
-----------------------------------------------------------------------------
(* Properties. *)

ServerTypeOK ==
    /\ svr \in Serving \cup Ended \cup {"run"}
    /\ m_ready \in BOOLEAN
    /\ accept_sfd \in Clients \cup {INVALID_SOCKET}
    /\ buffer0 \in Bytes \cup {"NUL"}
    /\ valread \in -1 .. BufSize
    /\ errno \in {"0", "ECONNRESET", "ENOTCONN"} \cup AcceptErrors \cup RecvErrors
    /\ got \in [Clients -> Seq(Bytes)]

\* Every variable of run() and of the TCP stack under it has its type.
TypeOK == TcpTypeOK /\ ServerTypeOK

\* run() never holds more than the one connection it is working on, and once
\* it is past CLOSE_SOCKET_P, by return or by any of its exceptions, no
\* accepted connection is open (server-tcp.cpp:79-99).
NoConnectionLeft ==
    \A c \in Clients :
        link[c] = "accepted" <=> accept_sfd = c /\ svr \in {"recv", "hangup"}

\* The loop ends normally only because one recv() returned the single byte Q:
\* not for a longer message that begins with Q, not for another single byte,
\* not for a Q that an earlier message left in the buffer while a later one
\* failed (server-tcp.cpp:78, buffer and valread outlive the iteration).
QuitOnlyOnSingleQ ==
    svr = "returned" => \E c \in Clients : got[c] = <<"Q">> /\ link[c] = "closed"

\* Back at the loop condition the terminating NUL has been written at
\* buffer[valread] (server-tcp.cpp:101): the index is inside the buffer, for
\* a message of any length and after a failed recv().
NulInsideBuffer == svr = "loop" => valread \in 0 .. BufSize - 1

\* Once a message was the single byte Q no other connection is accepted:
\* whoever is queued behind the quit request is not served
\* (server-tcp.cpp:78-79).
NothingServedAfterQuit ==
    [][(\E c \in Clients : got[c] = <<"Q">>)
           => accept_sfd' \in {accept_sfd, INVALID_SOCKET}]_vars

\* The invariant that makes the above inductive, in named parts.  A connection
\* is held exactly while it is read and closed;
OneAtATime == svr \in {"recv", "hangup"} <=> accept_sfd # INVALID_SOCKET

\* the accept queue holds each waiting connection once;
QueueOrder ==
    \A i \in 1 .. Len(queue) :
        /\ link[queue[i]] = "queued"
        /\ \A j \in 1 .. Len(queue) : queue[i] = queue[j] => i = j

\* valread is a length that fits the buffer, or the error that run() throws;
ReadBounds ==
    /\ valread \in -1 .. ReadLimit
    /\ svr \in {"run", "loop"} => valread >= 0

\* and the quit condition over the reused buffer and valread is true exactly
\* from the moment a recv() returned the single Q on.
QuitAsRead ==
    /\ svr \in {"run", "recv"} => ~QuitReceived
    /\ svr = "returned" => QuitReceived
    /\ svr = "hangup" /\ QuitReceived => got[accept_sfd] = <<"Q">>
    /\ svr \in {"check", "loop", "returned"} /\ QuitReceived
           => \E c \in Clients : got[c] = <<"Q">> /\ link[c] = "closed"
    /\ (\E c \in Clients : got[c] = <<"Q">>)
           => svr \in {"hangup", "check", "loop", "returned"} /\ QuitReceived

\* Between any two system calls of run(): one connection at most, an orderly
\* queue, bounds for the terminating NUL, and a loop condition that tells the
\* truth about the last message (server-tcp.cpp:68-102).
ServerInv ==
    /\ TypeOK /\ NoConnectionLeft
    /\ OneAtATime /\ QueueOrder /\ ReadBounds /\ QuitAsRead

\* server-tcp.cpp:14 says errno gives the details of the error: the exception
\* for a failed recv() should carry recv()'s error number.
ErrnoIsOfRecv == svr = "MSG1024" => errno \in {"ECONNRESET"} \cup RecvErrors

\* server-tcp.hpp:26 says ready() returns whether the server is ready to run: a
\* ready server is one whose loop still accepts.
ReadyMeansServing == m_ready => svr \in Serving
=============================================================================
