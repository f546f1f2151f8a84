# Verification of client-server-tcp

TLA+ models, TLC runs and TLAPS proofs for the small TCP client/server library of
this repository: a server class that answers one request after the other until it is
told to quit, the function that tells it, a class that owns a socket, and the test
program that runs the server in a thread.

## The system

| Part | Source | State | Operations |
|---|---|---|---|
| `CServerTCP::run()` | `server-tcp.cpp:56-105` | the accepted descriptor, `buffer`, `valread`, `m_ready`, errno of its thread | accept, one recv, shutdown + close, decide |
| `CServerTCP` object | `server-tcp.cpp:28-53, 107-132` | `m_listen_sfd` (a `CSocket`), `m_ready` | constructor binds and listens; `ready()`; getters |
| `quit_server()` | `client-tcp.cpp:14-65` | a local `CSocket` and `CAddrinfo` | connect, send "Q", shutdown |
| `CSocket` | `socket.cpp`, `socket.hpp` | `m_sfd`, `m_af`, `m_bound` and `m_listen` with a mutex each | construct, move, assign, destruct, `bind`, `listen`, getters, the raw descriptor |
| `CAddrinfo` | `addrinfo.cpp`, `addrinfo.hpp` | the list `m_res` and what it was looked up from | construct, copy, assign, destruct, read |
| `main()` | `test_client-server-tcp.cpp:487-534` | server object, thread, poll counter | start, poll, test, quit, join |
| `CWSAStartup` | `socket.cpp:10-29`, `socket.hpp:15-24` | Windows' start-up count | construct, destruct |

`main()` constructs the server, starts `run()` in a thread and polls `m_ready`, a plain
`bool`, without synchronisation. The tests and `quit_server()` talk to `run()` through
the TCP stack only. `run()`, the getters and `main()` share the `CServerTCP` object;
`CSocket` has mutexes for that. Errors are exceptions everywhere; one that leaves
`run()` leaves its thread and terminates the process, and so does `std::exit()` while
the static thread object is joinable.

What is hard here: blocking calls that depend on the other side (accept, recv, join);
requests that arrive before the server accepts, or behind a quit request; every failing
system call between two that acquire and release a descriptor; the reused buffer; the
unsynchronised flag; the accept queue of two; clients that owe the server nothing;
objects that are used, moved and assigned by several threads; objects that depend on a
count of the whole process; and a port that outlives its program. `PROJECT.json` lists
each hazard at its line.

## The modules

| Module | Models |
|---|---|
| `Loopback` | the TCP stack as the code observes it (external): accept queue, both ends of each connection, bytes not yet read |
| `ServerTCP` | `run()`, one action per system call, against arbitrary clients that send, close or reset at any time |
| `QuitService` | what `run()` promises, with three variables and no TCP |
| `ServerService` | the refinement mapping from `ServerTCP` to `QuitService` |
| `ServerTCP_proofs` | theorems about `run()` |
| `ClientTCP` | `quit_server()`: any number of concurrent calls of it |
| `TestMain` | the program: `ServerTCP` and `ClientTCP` composed over one TCP stack and driven by `main()`, with strangers as further clients |
| `TestMain_proofs` | theorems about the program, on top of those about `run()` |
| `Restart` | `TestMain` started again after its end, while its port may be in TIME_WAIT |
| `Restart_proofs` | theorems about every program of a sequence, on top of those about one |
| `Lifetimes` | the objects of a `CServerTCP` and of a `quit_server()` call, constructed, unwound and destructed over Windows' start-up count |
| `Lifetimes_proofs` | theorems about `Lifetimes` |
| `CSocket` | objects of the class, used by several threads, over the descriptor table of the process |
| `CSocket_proofs` | theorems about `CSocket`: ownership and locking |
| `CSocketFlags_proofs` | theorems about `CSocket`: members and getters tell the truth |
| `SocketValue` | what the class promises to a program that moves objects only while nobody uses them: an object is the socket it holds, and there are no descriptors |
| `SocketValue_proofs` | `CSocket` implements `SocketValue` |
| `CAddrinfo` | objects of the class over the memory and a resolver that changes its answers |
| `AddrinfoValue` | what the class promises: objects are values, and a call that throws changes nothing |
| `CAddrinfo_proofs` | theorems about `CAddrinfo` |
| `MCServerService`, `MCTestMain`, `MCRestart`, `MCLifetimes`, `MCSocket`, `MCAddrinfo` | small instances for TLC |

Variables have the names of the members and locals they stand for. `svr`, `cl[c]`,
`main` and `pc[t]` say where a thread is; `svr = "MSG1023"` means that `run()` ended
with this message. `got` is a history variable: what the last `recv()` of each
connection returned. Definitions headed *Mutant* are not part of the model: each is a
plausible mistake in the definition that follows, and shows that some property depends
on it.

### Abstractions

- A byte is `"Q"` or `"x"`. `run()` looks at the first byte and the number of bytes
  only; `buffer0` is `buffer[0]`. The NUL written at `buffer[valread]` cannot change
  byte 0 because 0 and -1 have thrown before.
- `recv()` may return any nonempty part of what has arrived, so a message split into
  segments is included. `QuitOnlyOnSingleQ` is therefore about what a `recv()`
  returned: the first segment `Q` of a longer message does quit the server, and the
  code has no means to tell.
- After a reset, data that arrived before can be read or is lost; both happen. Besides a
  reset `recv()` may fail at any time with one of `RecvErrors`, also while a request
  lies unread in the connection.
- A client of `TestMain` is a call of `quit_server()` or a stranger, who connects, sends
  and closes at any time or never: the actions of the arbitrary clients of `ServerTCP`.
- `Restart` keeps of TIME_WAIT that it begins when the server's end closes first, ends
  at some time, and makes `bind()` fail in between. A second program starts when the
  first has ended; foreign callers live on.
- `Lifetimes` keeps of an object that it exists, and of a socket what its owner was told
  by the system. Any step that can throw may do so; the last `WSACleanup()` takes the
  sockets away. On POSIX the same steps happen without the count.
- A client is one connection. `Loopback` lets a connection be accepted, half closed
  and closed; retransmission and handshake are below what the calls return.
- `ready()` reads `m_ready` twice without synchronisation. A read that races with the
  write may return either value; what is assumed is that after a read that saw `TRUE`
  the flag stays `TRUE` for the same thread.
- The unit tests between start and quit are one step: those that talk to this server
  are calls of its getters, which change nothing.
- In `CSocket` a step is a system call, taking a mutex, or an access to members that no
  mutex protects. A call that passes `m_sfd` to the system reads it into `fd[t]` in one
  step and is in the system in a later one, on whatever that number means by then. A
  move constructor takes family, descriptor and flags in three steps, an assignment
  swaps them in three more. Within such a step a member of the source is read and
  cleared at once: nobody else can reach the new object yet, and moves of the same
  object do not overlap. For the flags, which `bind()` and `listen()` of the source may
  be about to store (`SharedMoves`), this leaves out a store that falls exactly between
  the two and is overwritten; it is lost like the one after them, which the run
  `socket_shared_moves` shows. The by-value parameter of `operator=` is an object of its
  own, in the slot named like its thread. A lock of both mutexes is one step, as
  `std::scoped_lock` takes both or none. A member that is read while another thread
  writes it (`SharedMoves`) is read as the old or the new value. `getsockopt()` fails
  for a descriptor that is not open and otherwise answers the option the system holds;
  the value of `SO_ERROR` is left open.
- The program may set options through `operator SOCKET&()` at any time, as the unit test
  `check_af_inet6_v6only` does: `SetOption` reads the descriptor, `Setsockopt` hands it
  to the system. `RawOptions` says which.
- `bind()` is given any family, type and port; why the system refuses a matching,
  free address is left open (`BindCallFails` is always possible).
- In `CAddrinfo` a list is its first entry, the only one the class reads; node and
  service are one name; the socket type, which is passed through like the protocol, is
  left out. A lookup finds any address of the family asked for and may always fail.
  The class has no mutex, so one thread is modelled; the swap of the members and the
  destruction of the parameter are separate steps, in which only the resolver moves.
- Sleeping times, texts and logging are left out; message numbers are kept.

## The runs

| Run | Instance | Shows |
|---|---|---|
| `server_safety` | 3 arbitrary clients, accept queue of 2, buffer of 3, failing accept and recv | the safety of `run()`, the inductive invariant of the proofs, and that `run()` implements `QuitService` |
| `main_faults` | `main()`, 2 further callers of `quit_server()` and a stranger, every call may fail | how the program ends, that it ends unless a stranger is served who stays silent, and why: no quit request is lost except by a failing `recv()`, which ends `run()`, `main()` is never in `join()` in vain, and every step lowers a bound on the steps left; that it is a behaviour of `run()` throughout, and the inductive invariants of the proofs; deadlock is checked |
| `main_nofaults` | program after program, each with `main()` and 1 further caller, nothing fails but a start during TIME_WAIT | test results are reported and early requests are served, in every program |
| `socket_safety` | 2 objects, 2 threads, IPv6 stream and IPv4 datagram sockets, `IPV6_V6ONLY` set on the raw descriptor at any time (334,738 states) | ownership of descriptors and its inductive invariant, truth of the cached members and of every getter, mutexes released; implements `SocketValue` |
| `object_lifetimes` | 2 servers and 2 calls of `quit_server()`, every step may throw | no socket is pulled away by a `WSACleanup()`, nothing leaks, a constructed server listens |
| `addrinfo_safety` | 2 objects and an assignment parameter, 2 names, 2 requests, 3 blocks of memory | lists are owned and answer the request; implements `AddrinfoValue` |

Runs that end in a counterexample, each a disagreement between code and comment:

| Run | What the code says of itself | What happens |
|---|---|---|
| `server_errno` | `server-tcp.cpp:14` errno "is used to specify details of the error" | MSG1024 reports the errno of `shutdown()`, called between `recv()` and the throw |
| `server_ready` | `server-tcp.hpp:26` "Return if the server is ready to run" | still true after `run()` has ended |
| `main_restarts` | `server-tcp.hpp:36` "server will wait until TIME_WAIT has expired before reuse" | nothing waits: after a served quit request the next start is refused by `bind()` and the program exits |
| `socket_shared_moves` | `socket.cpp:114`, `socket.hpp:90` "Protected by mutex" | the move constructor locks the new object's mutexes, not those of the object it reads; a `bind()` under way leaves its `m_bound` behind |
| `socket_autobind` | `socket.cpp:217` "not bound to an address" | `listen()` of an unbound socket names it; `m_bound` does not know |
| `addrinfo_copies` | `addrinfo.hpp:65` "we also get the same information" | a copy asks the resolver again and may get another address |

### Bounds

- `Clients`: three arbitrary clients (in `main_faults` four connections, one of them a
  stranger's) overflow the queue of two (`Backlog` is 1 in
  `socket.cpp:201`; the system keeps one more) while a fourth place, the connection
  being served, is taken. In `main_nofaults` two clients fill the queue without
  overflowing it, as the property requires.
- `BufSize` 3 for 1024, `MaxUnread` 3: one `recv()` takes at most 2 bytes, so messages
  shorter than, equal to and longer than one `recv()` occur. The proofs hold for every
  size.
- `PollLimit` 2 for 10: the first and the last poll differ, and that is all `main()`
  distinguishes.
- Two objects and two descriptors: with both storages in use no third descriptor can be
  opened, so ownership cannot go wrong in a larger table in a way it cannot in this
  one. Two threads: an object is changed by one and observed by another.
- Two `CAddrinfo` objects and the parameter occupy three blocks; with two requests and
  two names each member that an assignment could leave behind is told apart. An address
  is its family: a name has none, one or two.
- One port: it can be free or taken.
- `RawOptions`: in `socket_safety` the one option that a test sets. With
  `SO_REUSEADDR` as well there are four times as many states and nothing else to see: the
  theorems hold for every set of options.
- `MaxUnread` is 1 in the runs of the program: callers send one byte, and a stranger's
  longer messages are in `server_safety`.
- In `object_lifetimes` two scopes of each kind: the count goes up to four, and one of
  each kind can come and go while another one stays.
- `CHECK_DEADLOCK FALSE` in the runs of `ServerTCP`: `run()` ends, and it may wait for
  clients for ever. In `main_nofaults`: a program may have ended and its callers with it,
  and nobody has to start another.

### Fairness

`FairSystemSpec` assumes weak fairness for `main()`, for the server thread and for every
caller of `quit_server()`: each is a thread of its own that the operating system
schedules. A call that waits may fail, but nothing owes it a failure: the server thread
is owed a step only when it is not waiting in `accept()` for a connection or in `recv()`
for bytes or the client's end (`Unblocked`). Nothing is assumed about who connects first or about
when a poll sees `m_ready`. A `connect()` to a full queue is not assumed to
succeed. Strangers get no fairness: one who is accepted and neither sends nor closes
keeps the program from ending, since `run()` sets no timeout, and `ProgramEnds` says
that this is the only way. `FairRestartSpec` assumes the same scheduling for every
program of a sequence; nobody has to start a program, and TIME_WAIT need not end. No
fairness is assumed in `ServerTCP`, `CSocket` and `Lifetimes`: clients and callers are
arbitrary, and `std::mutex` promises no order.

## The proofs

`ServerTCP_proofs`, for every set of clients, backlog, buffer size of at least 2, set of
messages and sets of errors of accept and recv (`BacklogAssumption`, `ServerAssumption`):

- `ServerInvHolds`: `Spec => []ServerInv`. `NoConnectionLeft` and `QuitOnlyOnSingleQ`
  are not inductive: they need to know when `accept_sfd` is set (`OneAtATime`), that a
  connection is queued once (`QueueOrder`), that `valread` fits the buffer and is not
  negative where the loop condition reads it (`ReadBounds`), and what the loop
  condition means at each point (`QuitAsRead`). `ServerInv` is their conjunction with
  the type invariant; each conjunct has a lemma with one case per action.
- From it: `TypeCorrect`, `ConnectionsAreClosed`, `QuitNeedsSingleQ`, `NulFits` and the
  action property `QuitIsLast`.
- `RunImplementsService`: the initial state maps to the initial state of `QuitService`,
  `SetReady`, `Hangup`, `Leave` and the failing steps map to its steps, all others are
  hidden.

`TestMain_proofs`, for every set of callers and strangers, poll limit and bound of
`ServerTCP`, with and without failing calls (`MainAssumption`, `FaultsAssumption` and
those above):

- `SystemInvHolds`: `SystemSpec => []SystemInv`. While the program runs each step is
  one of `ServerTCP` (`ProgramStep`), because a call of `quit_server()` does to its
  connection what an arbitrary client may do (`CallIsClient`); so `ServerInv` is kept by
  `ServerTCP_proofs`. It is not claimed after the end, when the system closes
  connections behind the server's back. `CallsKnown` (a call sends once, on a connection
  it opened itself) makes that step inductive, `MainKnown` (where `main()` is tells what
  has run) the properties about the end.
- From it: `SystemTypeCorrect`, `CallsHangUp`, `ReturnAfterQuit`,
  `ExitFailureMeansNoThread`, and `ProgramIsServer`, by which the theorems about
  `run()` hold in the program. `ProgramServes` says it with the promise itself: the
  running program does what `QuitService` allows, and nothing else.
- Why the program ends, up to scheduling, in three theorems. `NoRequestLost`:
  `SystemSpec => []RequestInv`. `JoinIsAnswered` is not inductive: that `main()`'s own
  request is in the queue, or was read, depends on where every call is and what became
  of its connection. `RequestsKept` says so for every call: a byte that was sent was
  read as `"Q"`, or it is unread in a connection that `run()` will come to or is reading
  (`ToCome`), or it was left in the queue when `run()` ended for another reason
  (`LeftOver`), or `recv()` has failed on it and `run()` is on its way to throw MSG1024
  (`RecvFailed`); and its connection is never reset. `NobodyForgotten` says that a
  connection waiting to be accepted is in the queue. A call may still be between
  `connect()` and `send()`; the same four cases say that `run()` has not hung up on it
  silently. `JoinIsNotInVain` follows: while `main()` is in `join()` the
  server finds somebody in the queue unless it read a quit request, and `recv()` waits
  for nobody but a call about to send or a stranger. `ProgramIsFinite`, for a finite set of
  clients: `StepsLeft` counts what is left to do for `main()`, for the server thread
  (a round for each connection it may still close) and for the calls; no step raises
  it and every step of these threads lowers it. What remains for `ProgramEnds` is that
  a thread which can take a step takes it: weak fairness and ENABLED, which are TLC's.

`Restart_proofs`, for the same constants:

- `RestartInvHolds`, on which the others rest: `RestartSpec => []RestartInv`, an invariant
  of the proofs only. `SystemInv` is claimed for whichever
  program runs, and needs `NothingLeftBehind` to survive a new start: no queue, no
  listener, and no connection that is not closed at the end of its program
  (`NothingStaysBehind`). Callers of an earlier program may be anywhere in
  `quit_server()` meanwhile.
- From it: `EveryProgramIsSafe` (the properties about the end of the program),
  `EveryProgramServes` (`QuitService` from each start on) and, for a finite set of
  clients, `EveryProgramIsFinite` (only a new start gives more to do, a start refused
  by `bind()` included). `RequestInv` is claimed of the first program only: a call that
  has outlived its program goes on with a connection that was closed with it, and its
  request is lost to the next one, as it should be.

`Lifetimes_proofs`, for every finite set of servers and of calls (`ScopesAssumption`):

- `LifeInvHolds`: `Spec => []LifeInv`. Nobody's socket is safe by what its owner does:
  the count must cover all scopes, so the invariant counts them (`StartsCounted`), and
  says what exists at each point of a scope (`StagesKnown`).
- From it: `SocketsUsable`, `NothingIsLeft`, `ConstructedServerListens`.

`CSocket_proofs`, for every number of objects, threads, descriptors, kinds of sockets and
ports, and for both values of `SharedMoves` (`CSocketAssumption`, `NoneAssumption`):

- `SocketInvHolds`: `Spec => []SocketInv`. `SoleOwner` is not inductive. A move
  constructor may overwrite the descriptor of the new object only because storage
  without an object holds none (`NoStrayDescriptor`); that stays so because nobody else
  works on an object under construction (`LifetimeRespected`) and a call knows its
  object (`ArgumentsKnown`); and `DescriptorsOwned` says without sets what
  `SoleOwner` says with them, for objects, assignment parameters and constructors
  together. `MutexHeldByCall` is inductive beside them. In `OwnedStep` the steps come
  down to four ways of changing the holders: not at all, closing one, swapping two,
  and a constructor handing over to its object.
- From it: `SocketTypeCorrect`, `DescriptorsHaveOneOwner`, `MutexesReleased`. As
  `SharedMoves` may be true, ownership does not depend on any mutex: each step of a move
  or assignment hands a descriptor on whole, and moves of the same object do not
  overlap.
- `ChangesStayApart`, also for both values: no two moves, assignments or constructors
  under way share a slot (`ChangesApart`). `CallsUseTheirSocket`, for `SharedMoves`
  false: while an object is being changed no other call has it (`Exclusive`), and the
  descriptor that a call has read is that of its object until it is over (`Loaded`).
  `SystemStaysSane`: only an IPv6 socket has `IPV6_V6ONLY` set, and only `listen()` makes
  the system choose a port.

`SocketValue_proofs`, for the same constants with `SharedMoves` false:

- `SocketsAreValues`: `Spec => ImplementsSocketValue`. An object maps to what the system
  holds under its descriptor, a constructor to what it is working on, and a `bind()`,
  `listen()` or `::setsockopt()` under way to the object it was called on. Nothing in
  `SocketValue` can be lost, shared or closed twice, and such a call changes the socket
  that its object holds, which nobody takes away meanwhile. So each step of `CSocket`
  has to be a step on one socket, or an exchange, and every system call has to reach the
  socket of its own object although it read the descriptor in an earlier step:
  `SocketInv` and `CallsUseTheirSocket` make it so, with `OptionsOnTheWay`, which says
  what the constructor has already reset. Without the assumption it is false:
  a `bind()` that has read `m_sfd` of an object that is then moved and destructed
  reaches the socket that has the number by then.

`CSocketFlags_proofs`, for the same constants:

- `FamilyIsCached`: `Spec => []FamilyAgrees`, for both values of `SharedMoves`. Between
  the steps of a move or swap the descriptor has gone over and the family has not, or
  the reverse. `FamilyKnown` says which: it is inductive because changes stay apart.
- `FlagInvHolds`: `Spec => []FlagInv`, with `SharedMoves` false, which the run
  `socket_shared_moves` shows to be needed. Between the steps of a move or swap the
  descriptors of two slots are exchanged and their flags are not: `FlagsSwapped` says
  then that the flags of each describe the socket of the other, `FlagsWhole` that those
  of every other slot describe its own, except the one a `bind()` or `listen()` is
  about to store. `StillTrue` says that what a call found out holds until it answers,
  `Fresh` that a socket in the making has no name. `FlagsKept` proves the two about
  flags for any step from what it does to the slots it touches; each operation has a
  lemma that says which.
- From it, again with `SharedMoves` false: `FlagsCacheTheSystem`,
  `GettersAnswerTheTruth` (with `FamilyIsCached` for `is_v6only()`) and
  `GetPortNamesTheBind`.

`CAddrinfo_proofs`, for every set of objects, names, addresses, requests and blocks
(`CAddrinfoAssumption`, `EntryAssumption`):

- `AddrinfoInvHolds`: `Spec => []AddrinfoInv`. `LookupKeepsInv`, `DestructKeepsInv` and
  `SwapKeepsInv` say what the three ways of changing an object do to the invariant; the
  operations are put together from them. `ListsHaveOneOwner` and `EntriesAnswer` follow.
- `CAddrinfoImplementsValue`: an assignment takes effect at the swap. The abstract step
  has to name the object the value was taken from; `ParamIsCopy` is in the invariant
  because the parameter must still agree with that object then.

Only model-checked: the liveness of the program (`ProgramEnds`, `TestsAreReported`,
`EarlyRequestServed`), since fairness and ENABLED are beyond the prover; what of
`ProgramEnds` can be proved is above. Every invariant and every other action property of
a passing run is proved, and so is every refinement. `StepsLeft` is built from
cardinalities rather than from a recursive sum, because induction over data is beyond
the prover as well.

## Not modelled

- The unit tests, build and CI files: they have no behaviour of their own that the
  library depends on. What tests and comments say about the code was read as
  statements to check.
- The portability macros of `port.hpp` and `port_sock.hpp`; where `CLOSE_SOCKET_P` is
  used it is modelled. Windows-only branches that differ in an error function, and
  the constructor's further option `SO_EXCLUSIVEADDRUSE` there (MSG1004), a third step
  that fails like the two others.
- Overwriting `m_sfd` through `operator SOCKET&()`, which casts const away, or calling
  `::bind()`, `::listen()` or `::close()` on what it returns: no code of the repository
  does. Options set through it are modelled.
- The value of `SO_ERROR` that `get_sockerr()` returns: an error queue of the system
  that the code neither fills nor interprets.
- The texts of messages and the formatting of addresses in `CAddrinfo`'s callers.
