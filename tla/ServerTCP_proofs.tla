-------------------------- MODULE ServerTCP_proofs --------------------------
(***************************************************************************)
(* Proofs about CServerTCP::run() for every number of clients, every       *)
(* backlog, buffer size, set of messages and set of errors.                *)
(*                                                                         *)
(* ServerInv is shown to be inductive one conjunct at a time; the          *)
(* properties of ServerTCP and the refinement of QuitService follow.       *)
(***************************************************************************)
EXTENDS ServerService, SequenceTheorems, TLAPS

-----------------------------------------------------------------------------
(* Sequences. *)

\* A one-byte prefix is the byte Q exactly if the first byte is.
LEMMA OneBytePrefix ==
    ASSUME NEW s \in Seq(Bytes), s # <<>>
    PROVE  SubSeq(s, 1, 1) = <<"Q">> <=> Head(s) = "Q"
  <1>1. Len(s) \in Nat \ {0} /\ s[1] = Head(s)
    OBVIOUS
  <1>2. \A i \in 1 .. 1 : s[i] \in Bytes
    BY <1>1
  <1>3. /\ SubSeq(s, 1, 1) \in Seq(Bytes) /\ Len(SubSeq(s, 1, 1)) = 1
        /\ SubSeq(s, 1, 1)[1] = s[1]
    BY <1>2, SubSeqProperties
  <1>4. <<s[1]>> \in Seq(Bytes) /\ Len(<<s[1]>>) = 1 /\ <<s[1]>>[1] = s[1]
    BY <1>2
  <1>5. SubSeq(s, 1, 1) = <<s[1]>>
    <2>1. \A i \in 1 .. Len(SubSeq(s, 1, 1)) : SubSeq(s, 1, 1)[i] = <<s[1]>>[i]
      BY <1>3, <1>4
    <2>. QED BY <1>3, <1>4, <2>1, SeqEqual
  <1>. QED BY <1>1, <1>5

\* A prefix that is the single byte Q has length one.
LEMMA PrefixLength ==
    ASSUME NEW s \in Seq(Bytes), NEW n \in 1 .. Len(s), SubSeq(s, 1, n) = <<"Q">>
    PROVE  n = 1
  <1>1. Len(SubSeq(s, 1, n)) = n
    OBVIOUS
  <1>2. Len(<<"Q">>) = 1
    OBVIOUS
  <1>. QED BY <1>1, <1>2
-----------------------------------------------------------------------------
(* The conjuncts of ServerInv are preserved. *)

\* A step of the server or of a client keeps every variable in its type.
LEMMA TypeStep ==
    ASSUME ServerInv, [Next]_vars PROVE TypeOK'
  <1>. USE BacklogAssumption, ServerAssumption
           DEF ServerInv, TypeOK, TcpTypeOK, ServerTypeOK, Serving, Ended, Failed,
               INVALID_SOCKET, SOCKET_ERROR, vars, server, tcp
  <1>1. CASE SetReady
    BY <1>1 DEF SetReady
  <1>2. CASE Accept
    BY <1>2 DEF Accept, TcpAccept
  <1>3. CASE AcceptFails
    BY <1>3 DEF AcceptFails
  <1>4. CASE Recv
    <2>1. accept_sfd \in Clients
      BY <1>4 DEF Recv, OneAtATime
    <2>2. PICK n \in 1 .. ReadLimit :
            /\ n <= Len(inq[accept_sfd])
            /\ valread' = n
            /\ got' = [got EXCEPT ![accept_sfd] = SubSeq(inq[accept_sfd], 1, n)]
            /\ TcpRead(accept_sfd, n)
      BY <1>4 DEF Recv
    <2>3. inq[accept_sfd] \in Seq(Bytes) /\ n \in Nat /\ n <= BufSize
      BY <2>1, <2>2 DEF ReadLimit
    <2>4. SubSeq(inq[accept_sfd], 1, n) \in Seq(Bytes)
      BY <2>2, <2>3
    <2>5. SubSeq(inq[accept_sfd], n + 1, Len(inq[accept_sfd])) \in Seq(Bytes)
      BY <2>2, <2>3
    <2>6. Head(inq[accept_sfd]) \in Bytes
      BY <1>4, <2>3 DEF Recv
    <2>7. got' \in [Clients -> Seq(Bytes)]
      BY <2>2, <2>4
    <2>8. inq' \in [Clients -> Seq(Bytes)] /\ UNCHANGED <<listening, queue, link, peer>>
      BY <2>2, <2>5 DEF TcpRead
    <2>. QED BY <1>4, <2>2, <2>3, <2>6, <2>7, <2>8 DEF Recv
  <1>5. CASE RecvNothing
    BY <1>5 DEF RecvNothing
  <1>6. CASE RecvFails
    BY <1>6 DEF RecvFails, RecvErrno
  <1>7. CASE Hangup
    <2>1. <<>> \in Seq(Bytes)
      OBVIOUS
    <2>2. errno' \in {"0", "ECONNRESET", "ENOTCONN"} \cup AcceptErrors \cup RecvErrors
      BY <1>7 DEF Hangup
    <2>3. link' \in [Clients -> {"none", "queued", "accepted", "closed"}]
      BY <1>7 DEF Hangup, TcpClose
    <2>4. inq' \in [Clients -> Seq(Bytes)]
      BY <1>7, <2>1 DEF Hangup, TcpClose
    <2>. QED BY <1>7, <2>2, <2>3, <2>4 DEF Hangup, TcpClose
  <1>8. CASE CheckRead
    BY <1>8 DEF CheckRead
  <1>9. CASE Leave
    BY <1>9 DEF Leave
  <1>10. ASSUME NEW c \in Clients, PeerConnect(c) PROVE TypeOK'
    BY <1>10 DEF PeerConnect, TcpConnect
  <1>11. ASSUME NEW c \in Clients, PeerSend(c) PROVE TypeOK'
    <2>1. PICK m \in Messages : TcpSend(c, m) /\ UNCHANGED server
      BY <1>11 DEF PeerSend
    <2>2. inq[c] \o m \in Seq(Bytes)
      BY <2>1
    <2>. QED BY <2>1, <2>2 DEF TcpSend
  <1>12. ASSUME NEW c \in Clients, PeerHangup(c) PROVE TypeOK'
    BY <1>12 DEF PeerHangup, TcpHangup
  <1>13. CASE UNCHANGED vars
    BY <1>13
  <1>. QED BY <1>1, <1>2, <1>3, <1>4, <1>5, <1>6, <1>7, <1>8, <1>9, <1>10,
              <1>11, <1>12, <1>13 DEF Next, ServerNext

\* Only accept() takes a connection and only run() itself closes one.
LEMMA ConnectionStep ==
    ASSUME ServerInv, [Next]_vars PROVE NoConnectionLeft' /\ OneAtATime'
  <1>. USE ServerAssumption
           DEF ServerInv, TypeOK, TcpTypeOK, ServerTypeOK, NoConnectionLeft,
               OneAtATime, INVALID_SOCKET, vars, server, tcp
  <1>1. CASE SetReady
    BY <1>1 DEF SetReady
  <1>2. CASE Accept
    BY <1>2 DEF Accept, TcpAccept
  <1>3. CASE AcceptFails
    BY <1>3 DEF AcceptFails
  <1>4. CASE Recv
    BY <1>4 DEF Recv, TcpRead
  <1>5. CASE RecvNothing
    BY <1>5 DEF RecvNothing
  <1>6. CASE RecvFails
    BY <1>6 DEF RecvFails, RecvErrno
  <1>7. CASE Hangup
    BY <1>7 DEF Hangup, TcpClose
  <1>8. CASE CheckRead
    BY <1>8 DEF CheckRead
  <1>9. CASE Leave
    BY <1>9 DEF Leave
  <1>10. ASSUME NEW c \in Clients, PeerConnect(c) \/ PeerSend(c) \/ PeerHangup(c)
         PROVE  NoConnectionLeft' /\ OneAtATime'
    BY <1>10 DEF PeerConnect, TcpConnect, PeerSend, TcpSend, PeerHangup, TcpHangup
  <1>11. CASE UNCHANGED vars
    BY <1>11
  <1>. QED BY <1>1, <1>2, <1>3, <1>4, <1>5, <1>6, <1>7, <1>8, <1>9, <1>10,
              <1>11 DEF Next, ServerNext

\* The queue changes by an accept() at its head and a connect() at its end.
LEMMA QueueStep ==
    ASSUME ServerInv, [Next]_vars PROVE QueueOrder'
  <1>a. /\ queue \in Seq(Clients)
        /\ link \in [Clients -> {"none", "queued", "accepted", "closed"}]
        /\ QueueOrder
    BY DEF ServerInv, TypeOK, TcpTypeOK
  <1>b. Len(queue) \in Nat /\ \A i \in 1 .. Len(queue) : queue[i] \in Clients
    BY <1>a
  <1>1. CASE Accept
    <2>1. queue # <<>> /\ queue' = Tail(queue) /\ link' = [link EXCEPT ![queue[1]] = "accepted"]
      BY <1>1, <1>a DEF Accept, TcpAccept
    <2>2. /\ Len(queue') = Len(queue) - 1
          /\ \A i \in 1 .. Len(queue') : queue'[i] = queue[i + 1]
      BY <1>a, <2>1, HeadTailProperties
    <2>3. \A i \in 1 .. Len(queue') : i + 1 \in 1 .. Len(queue) /\ i + 1 # 1
      BY <1>b, <2>2
    <2>4. 1 \in 1 .. Len(queue)
      BY <1>a, <2>1
    <2>5. SUFFICES ASSUME NEW i \in 1 .. Len(queue')
                   PROVE  /\ link'[queue'[i]] = "queued"
                          /\ \A j \in 1 .. Len(queue') : queue'[i] = queue'[j] => i = j
      BY DEF QueueOrder
    <2>6. link'[queue'[i]] = "queued"
      BY <1>a, <1>b, <2>1, <2>2, <2>3, <2>4 DEF QueueOrder
    <2>7. ASSUME NEW j \in 1 .. Len(queue'), queue'[i] = queue'[j] PROVE i = j
      <3>1. i + 1 = j + 1
        BY <1>a, <2>2, <2>3, <2>7 DEF QueueOrder
      <3>. QED BY <3>1
    <2>. QED BY <2>6, <2>7
  <1>2. ASSUME NEW c \in Clients, PeerConnect(c) PROVE QueueOrder'
    <2>1. /\ link[c] = "none" /\ queue' = Append(queue, c)
          /\ link' = [link EXCEPT ![c] = "queued"]
      BY <1>2 DEF PeerConnect, TcpConnect
    <2>2. /\ Len(queue') = Len(queue) + 1
          /\ queue'[Len(queue) + 1] = c
          /\ \A i \in 1 .. Len(queue) : queue'[i] = queue[i]
      BY <1>a, <2>1, AppendProperties
    <2>3. \A i \in 1 .. Len(queue') : i \in 1 .. Len(queue) \/ i = Len(queue) + 1
      BY <1>b, <2>2
    <2>4. \A i \in 1 .. Len(queue) : queue[i] # c
      BY <1>a, <2>1 DEF QueueOrder
    <2>5. \A i \in 1 .. Len(queue') : link'[queue'[i]] = "queued"
      BY <1>a, <1>b, <2>1, <2>2, <2>3, <2>4 DEF QueueOrder
    <2>6. \A i, j \in 1 .. Len(queue') : queue'[i] = queue'[j] => i = j
      BY <1>a, <2>2, <2>3, <2>4 DEF QueueOrder
    <2>. QED BY <2>5, <2>6 DEF QueueOrder
  <1>3. CASE Hangup
    <2>1. link[accept_sfd] = "accepted" /\ link' = [link EXCEPT ![accept_sfd] = "closed"]
      BY <1>3 DEF Hangup, TcpClose, ServerInv, TypeOK, ServerTypeOK, OneAtATime,
                  NoConnectionLeft
    <2>2. \A i \in 1 .. Len(queue) : queue[i] # accept_sfd
      BY <1>a, <2>1 DEF QueueOrder
    <2>3. queue' = queue
      BY <1>3 DEF Hangup, TcpClose
    <2>. QED BY <1>a, <1>b, <2>1, <2>2, <2>3 DEF QueueOrder
  <1>4. CASE UNCHANGED <<queue, link>>
    BY <1>a, <1>4 DEF QueueOrder
  <1>5. SetReady \/ AcceptFails \/ Recv \/ RecvNothing \/ RecvFails \/ CheckRead \/ Leave
            => UNCHANGED <<queue, link>>
    BY DEF SetReady, AcceptFails, Recv, TcpRead, RecvNothing, RecvFails, CheckRead,
           Leave, tcp
  <1>6. ASSUME NEW c \in Clients
        PROVE  PeerSend(c) \/ PeerHangup(c) => UNCHANGED <<queue, link>>
    BY DEF PeerSend, TcpSend, PeerHangup, TcpHangup
  <1>7. UNCHANGED vars => UNCHANGED <<queue, link>>
    BY DEF vars, tcp
  <1>. QED BY <1>1, <1>2, <1>3, <1>4, <1>5, <1>6, <1>7 DEF Next, ServerNext

\* recv() cannot return more than it was given room for, and the two other
\* results never get back to the loop.
LEMMA BoundsStep ==
    ASSUME ServerInv, [Next]_vars PROVE ReadBounds'
  <1>. USE ServerAssumption
           DEF ServerInv, ReadBounds, ReadLimit, SOCKET_ERROR, vars, server
  <1>1. CASE SetReady \/ Accept \/ AcceptFails \/ Hangup \/ Leave
    BY <1>1 DEF SetReady, Accept, AcceptFails, Hangup, Leave
  <1>2. CASE Recv
    BY <1>2 DEF Recv
  <1>3. CASE RecvNothing \/ RecvFails
    BY <1>3 DEF RecvNothing, RecvFails
  <1>4. CASE CheckRead
    BY <1>4 DEF CheckRead
  <1>5. ASSUME NEW c \in Clients, PeerConnect(c) \/ PeerSend(c) \/ PeerHangup(c)
        PROVE  ReadBounds'
    BY <1>5 DEF PeerConnect, PeerSend, PeerHangup
  <1>6. CASE UNCHANGED vars
    BY <1>6
  <1>. QED BY <1>1, <1>2, <1>3, <1>4, <1>5, <1>6 DEF Next, ServerNext

\* The loop condition over the reused buffer and valread becomes true by the
\* recv() of a single Q only, and no later step is taken that could hide it.
LEMMA QuitStep ==
    ASSUME ServerInv, [Next]_vars PROVE QuitAsRead'
  <1>a. /\ accept_sfd \in Clients \cup {INVALID_SOCKET} /\ valread \in Int
        /\ link \in [Clients -> {"none", "queued", "accepted", "closed"}]
        /\ got \in [Clients -> Seq(Bytes)] /\ inq \in [Clients -> Seq(Bytes)]
        /\ QuitAsRead /\ NoConnectionLeft /\ OneAtATime
    BY DEF ServerInv, TypeOK, TcpTypeOK, ServerTypeOK, INVALID_SOCKET
  <1>1. CASE SetReady
    BY <1>a, <1>1 DEF SetReady, QuitAsRead, QuitReceived, tcp
  <1>2. CASE Accept
    BY <1>a, <1>2 DEF Accept, TcpAccept, QuitAsRead, QuitReceived
  <1>3. CASE AcceptFails
    BY <1>a, <1>3 DEF AcceptFails, QuitAsRead, QuitReceived, tcp
  <1>4. CASE Recv
    <2>1. accept_sfd \in Clients /\ inq[accept_sfd] \in Seq(Bytes) /\ inq[accept_sfd] # <<>>
      BY <1>a, <1>4 DEF Recv, OneAtATime
    <2>2. PICK n \in 1 .. ReadLimit :
            /\ n <= Len(inq[accept_sfd]) /\ valread' = n
            /\ got' = [got EXCEPT ![accept_sfd] = SubSeq(inq[accept_sfd], 1, n)]
      BY <1>4 DEF Recv
    <2>3. n \in 1 .. Len(inq[accept_sfd])
      BY <2>1, <2>2, ServerAssumption DEF ReadLimit
    <2>4. SubSeq(inq[accept_sfd], 1, n) = <<"Q">> <=> QuitReceived'
      <3>1. SubSeq(inq[accept_sfd], 1, n) = <<"Q">> => n = 1
        BY <2>1, <2>3, PrefixLength
      <3>2. SubSeq(inq[accept_sfd], 1, 1) = <<"Q">> <=> Head(inq[accept_sfd]) = "Q"
        BY <2>1, OneBytePrefix
      <3>. QED BY <1>4, <2>2, <3>1, <3>2 DEF Recv, QuitReceived
    <2>5. /\ svr = "recv" /\ svr' = "hangup" /\ accept_sfd' = accept_sfd
      BY <1>4 DEF Recv
    <2>6. \A c \in Clients : got[c] # <<"Q">>
      BY <1>a, <2>5 DEF QuitAsRead
    <2>7. \A c \in Clients : got'[c] = IF c = accept_sfd
                                       THEN SubSeq(inq[accept_sfd], 1, n) ELSE got[c]
      BY <1>a, <2>2
    <2>. QED BY <2>1, <2>4, <2>5, <2>6, <2>7 DEF QuitAsRead
  <1>5. CASE RecvNothing \/ RecvFails
    <2>1. \A c \in Clients : got'[c] # <<"Q">>
      BY <1>a, <1>5 DEF RecvNothing, RecvFails, QuitAsRead
    <2>2. valread' # 1 /\ svr' = "hangup"
      BY <1>5 DEF RecvNothing, RecvFails, SOCKET_ERROR
    <2>. QED BY <2>1, <2>2 DEF QuitAsRead, QuitReceived
  <1>6. CASE Hangup
    <2>1. accept_sfd \in Clients /\ link'[accept_sfd] = "closed"
      BY <1>a, <1>6 DEF Hangup, TcpClose, OneAtATime
    <2>2. /\ svr = "hangup" /\ svr' = "check" /\ got' = got
          /\ QuitReceived' <=> QuitReceived
      BY <1>6 DEF Hangup, QuitReceived
    <2>. QED BY <1>a, <2>1, <2>2 DEF QuitAsRead
  <1>7. CASE CheckRead
    BY <1>a, <1>7 DEF CheckRead, QuitAsRead, QuitReceived, SOCKET_ERROR, tcp
  <1>8. CASE Leave
    BY <1>a, <1>8 DEF Leave, QuitAsRead, QuitReceived, tcp
  <1>9. ASSUME NEW c \in Clients, PeerConnect(c) \/ PeerSend(c) \/ PeerHangup(c)
        PROVE  QuitAsRead'
    <2>1. \A d \in Clients : link[d] = "closed" => link'[d] = "closed"
      BY <1>a, <1>9 DEF PeerConnect, TcpConnect, PeerSend, TcpSend, PeerHangup, TcpHangup
    <2>2. UNCHANGED server
      BY <1>9 DEF PeerConnect, PeerSend, PeerHangup
    <2>. QED BY <1>a, <2>1, <2>2 DEF QuitAsRead, QuitReceived, server
  <1>10. CASE UNCHANGED vars
    BY <1>a, <1>10 DEF QuitAsRead, QuitReceived, vars, tcp, server
  <1>. QED BY <1>1, <1>2, <1>3, <1>4, <1>5, <1>6, <1>7, <1>8, <1>9, <1>10
           DEF Next, ServerNext
-----------------------------------------------------------------------------
(* The theorems. *)

\* The state in which run() is called satisfies the invariant, and so does a
\* program that has not constructed its server yet.
LEMMA InitServerInv ==
    ASSUME listening \in BOOLEAN, TcpInit, ServerInit PROVE ServerInv
  <1>. USE ServerAssumption DEF TcpInit, ServerInit, INVALID_SOCKET
  <1>1. TypeOK
    <2>1. <<>> \in Seq(Clients) /\ <<>> \in Seq(Bytes)
      OBVIOUS
    <2>2. TcpTypeOK
      BY <2>1 DEF TcpTypeOK
    <2>3. 0 \in -1 .. BufSize
      OBVIOUS
    <2>4. ServerTypeOK
      BY <2>1, <2>3 DEF ServerTypeOK
    <2>. QED BY <2>2, <2>4 DEF TypeOK
  <1>2. NoConnectionLeft /\ OneAtATime /\ QueueOrder
    BY DEF NoConnectionLeft, OneAtATime, QueueOrder
  <1>3. ReadBounds
    BY DEF ReadBounds, ReadLimit
  <1>4. QuitAsRead
    <2>1. <<>> # <<"Q">>
      OBVIOUS
    <2>2. \A c \in Clients : got[c] # <<"Q">>
      BY <2>1
    <2>3. svr = "run" /\ ~QuitReceived
      BY DEF QuitReceived
    <2>. QED BY <2>2, <2>3 DEF QuitAsRead
  <1>. QED BY <1>1, <1>2, <1>3, <1>4 DEF ServerInv

\* Every step of the server or of a client keeps the invariant.
LEMMA ServerInvStep == ServerInv /\ [Next]_vars => ServerInv'
  BY TypeStep, ConnectionStep, QueueStep, BoundsStep, QuitStep DEF ServerInv

\* server-tcp.cpp:68-102: the invariant of run() holds in every reachable
\* state, whatever the clients do.
THEOREM ServerInvHolds == Spec => []ServerInv
  <1>1. Init => ServerInv
    BY InitServerInv DEF Init
  <1>. QED BY <1>1, ServerInvStep, PTL DEF Spec

\* Type correctness of run() and the TCP stack under it.
THEOREM TypeCorrect == Spec => []TypeOK
  <1>1. ServerInv => TypeOK
    BY DEF ServerInv
  <1>. QED BY ServerInvHolds, <1>1, PTL

\* server-tcp.cpp:79-99: no way out of the loop leaks an accepted connection.
THEOREM ConnectionsAreClosed == Spec => []NoConnectionLeft
  <1>1. ServerInv => NoConnectionLeft
    BY DEF ServerInv
  <1>. QED BY ServerInvHolds, <1>1, PTL

\* server-tcp.cpp:78, 91-101: run() returns only after a message that is Q.
THEOREM QuitNeedsSingleQ == Spec => []QuitOnlyOnSingleQ
  <1>1. ServerInv => QuitOnlyOnSingleQ
    BY DEF ServerInv, QuitAsRead, QuitOnlyOnSingleQ
  <1>. QED BY ServerInvHolds, <1>1, PTL

\* server-tcp.cpp:86, 101: buffer[valread] is inside the buffer of any size.
THEOREM NulFits == Spec => []NulInsideBuffer
  <1>1. ServerInv => NulInsideBuffer
    BY ServerAssumption DEF ServerInv, ReadBounds, ReadLimit, NulInsideBuffer
  <1>. QED BY ServerInvHolds, <1>1, PTL

\* server-tcp.cpp:78-79: no connection is accepted after a quit request.
THEOREM QuitIsLast == Spec => NothingServedAfterQuit
  <1> DEFINE Asked == \E c \in Clients : got[c] = <<"Q">>
  <1>1. ServerInv /\ [Next]_vars
            => (Asked => accept_sfd' \in {accept_sfd, INVALID_SOCKET})
    <2>1. ServerInv /\ Asked => ~Accept
      BY DEF ServerInv, QuitAsRead, Accept
    <2>2. ASSUME Next, ~Accept PROVE accept_sfd' \in {accept_sfd, INVALID_SOCKET}
      BY <2>2 DEF Next, ServerNext, SetReady, AcceptFails, Recv, RecvNothing,
                  RecvFails, Hangup, CheckRead, Leave, PeerConnect, PeerSend,
                  PeerHangup, server
    <2>3. CASE UNCHANGED vars
      BY <2>3 DEF vars, server
    <2>. QED BY <2>1, <2>2, <2>3
  <1>2. ServerInv /\ [Next]_vars
            => [Asked => accept_sfd' \in {accept_sfd, INVALID_SOCKET}]_vars
    BY <1>1
  <1>. QED BY ServerInvHolds, <1>2, PTL DEF Spec, NothingServedAfterQuit
-----------------------------------------------------------------------------
(* run() implements QuitService. *)

\* run() starts as a service that has handled nothing.
LEMMA InitRefines == Init => Service!ServiceInit
  BY DEF Init, TcpInit, ServerInit, Service!ServiceInit, PhaseOf, HandledBy,
         VerdictOf, QuitReceived, Serving, Failed

\* The closing of a connection is the handling of its request.
LEMMA HangupRefines ==
    ASSUME ServerInv, Hangup PROVE Service!ServiceNext
  <1>1. /\ accept_sfd \in Clients /\ link[accept_sfd] = "accepted"
        /\ link \in [Clients -> {"none", "queued", "accepted", "closed"}]
    BY DEF ServerInv, OneAtATime, NoConnectionLeft, TypeOK, TcpTypeOK,
           ServerTypeOK, Hangup
  <1>2. PhaseOf = "serving" /\ PhaseOf' = PhaseOf /\ VerdictOf = "more"
    BY DEF Hangup, PhaseOf, VerdictOf, Serving, Failed
  <1>3. VerdictOf' \in {"more", "quit", "unreadable"}
    BY DEF VerdictOf
  <1>4. accept_sfd \notin HandledBy /\ HandledBy' = HandledBy \cup {accept_sfd}
    BY <1>1 DEF Hangup, TcpClose, HandledBy
  <1>5. Service!Handle(accept_sfd)
    BY <1>2, <1>3, <1>4 DEF Service!Handle
  <1>. QED BY <1>1, <1>5 DEF Service!ServiceNext

\* Every step of run() or of a client is a step of the service or hidden.
LEMMA StepRefines ==
    ASSUME ServerInv, [Next]_vars PROVE [Service!ServiceNext]_(Service!service)
  <1>a. /\ queue \in Seq(Clients) /\ valread \in Int
        /\ link \in [Clients -> {"none", "queued", "accepted", "closed"}]
        /\ QueueOrder /\ QuitAsRead /\ ReadBounds
    BY DEF ServerInv, TypeOK, TcpTypeOK, ServerTypeOK
  <1>b. UNCHANGED link => HandledBy' = HandledBy
    BY DEF HandledBy
  <1>1. CASE SetReady
    BY <1>1, <1>a, <1>b DEF SetReady, tcp, Service!ServiceNext, Service!Start, PhaseOf,
       VerdictOf, Serving, Failed, QuitReceived, QuitAsRead
  <1>2. CASE Accept
    <2>1. link' = [link EXCEPT ![queue[1]] = "accepted"] /\ 1 \in 1 .. Len(queue)
      BY <1>2, <1>a DEF Accept, TcpAccept
    <2>2. link[queue[1]] = "queued"
      BY <1>a, <2>1 DEF QueueOrder
    <2>3. HandledBy' = HandledBy
      BY <1>a, <2>1, <2>2 DEF HandledBy
    <2>4. PhaseOf' = PhaseOf /\ VerdictOf' = VerdictOf
      BY <1>2 DEF Accept, PhaseOf, VerdictOf, Serving, Failed
    <2>. QED BY <2>3, <2>4 DEF Service!service
  <1>3. CASE AcceptFails
    BY <1>3, <1>b DEF AcceptFails, tcp, Service!ServiceNext, Service!Fail, PhaseOf,
       VerdictOf, Serving, Failed, QuitReceived
  <1>4. CASE Recv \/ RecvNothing \/ RecvFails
    <2>1. svr = "recv" /\ svr' = "hangup" /\ UNCHANGED link
      BY <1>4 DEF Recv, TcpRead, RecvNothing, RecvFails, tcp
    <2>2. PhaseOf' = PhaseOf /\ VerdictOf' = VerdictOf
      BY <2>1 DEF PhaseOf, VerdictOf, Serving, Failed
    <2>. QED BY <1>b, <2>1, <2>2 DEF Service!service
  <1>5. CASE Hangup
    BY <1>5, HangupRefines
  <1>6. CASE CheckRead
    <2>1. /\ svr = "check" /\ UNCHANGED <<link, buffer0, valread>>
          /\ (QuitReceived' <=> QuitReceived)
      BY <1>6 DEF CheckRead, tcp, QuitReceived
    <2>2. PhaseOf = "serving"
      BY <2>1 DEF PhaseOf, Serving, Failed
    <2>3. CASE valread \in {0, SOCKET_ERROR}
      <3>1. svr' \in {"MSG1023", "MSG1024"} /\ ~QuitReceived /\ valread <= 0
        BY <1>6, <2>3 DEF CheckRead, QuitReceived, SOCKET_ERROR
      <3>2. VerdictOf = "unreadable" /\ VerdictOf' = "unreadable" /\ PhaseOf' = "failed"
        BY <2>1, <3>1 DEF VerdictOf, PhaseOf, Serving, Failed
      <3>. QED BY <1>b, <2>1, <2>2, <3>2 DEF Service!ServiceNext, Service!Fail
    <2>4. CASE valread \notin {0, SOCKET_ERROR}
      <3>1. svr' = "loop" /\ valread > 0
        BY <1>6, <1>a, <2>4 DEF CheckRead, SOCKET_ERROR, ReadBounds
      <3>2. VerdictOf' = VerdictOf /\ PhaseOf' = PhaseOf
        BY <1>a, <2>1, <3>1 DEF VerdictOf, PhaseOf, Serving, Failed
      <3>. QED BY <1>b, <2>1, <3>2 DEF Service!service
    <2>. QED BY <2>3, <2>4
  <1>7. CASE Leave
    BY <1>7, <1>b DEF Leave, tcp, Service!ServiceNext, Service!Quit, PhaseOf,
       VerdictOf, Serving, Failed, QuitReceived
  <1>8. ASSUME NEW c \in Clients, PeerConnect(c) \/ PeerSend(c) \/ PeerHangup(c)
        PROVE  UNCHANGED Service!service
    <2>1. HandledBy' = HandledBy
      BY <1>a, <1>8 DEF HandledBy, PeerConnect, TcpConnect, PeerSend, TcpSend,
                        PeerHangup, TcpHangup
    <2>2. PhaseOf' = PhaseOf /\ VerdictOf' = VerdictOf
      BY <1>8 DEF PeerConnect, PeerSend, PeerHangup, server, PhaseOf, VerdictOf,
                  QuitReceived
    <2>. QED BY <2>1, <2>2 DEF Service!service
  <1>9. CASE UNCHANGED vars
    BY <1>9, <1>b DEF vars, tcp, server, Service!service, PhaseOf, VerdictOf, QuitReceived
  <1>. QED BY <1>1, <1>2, <1>3, <1>4, <1>5, <1>6, <1>7, <1>8, <1>9
           DEF Next, ServerNext

\* server-tcp.cpp:56-105: run() does what QuitService promises.
THEOREM RunImplementsService == Spec => ImplementsService
  <1>1. ServerInv /\ [Next]_vars => [Service!ServiceNext]_(Service!service)
    BY StepRefines
  <1>. QED BY ServerInvHolds, InitRefines, <1>1, PTL
           DEF Spec, ImplementsService, Service!ServiceSpec
=============================================================================
