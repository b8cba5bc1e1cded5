---------------------------- MODULE SocketCalls ----------------------------
(***************************************************************************)
(* The syscall wrappers of Socket (socket.hpp) and SocketIO (io.hpp):      *)
(* bind, listen, connect, shutdown, local_addr, peer_addr, the data calls *)
(* (read, write, their vectored forms, send, send_to, recv) and            *)
(* SocketIO::build_listener.                                               *)
(*                                                                         *)
(* The kernel's socket is its open flag, its local address, whether it     *)
(* listens and its peer. Each call sets two results: `sys`, what the       *)
(* syscall did to this socket by the kernel's rules, and `ret`, the        *)
(* Result the wrapper returns. Two wrappers of Socket have undefined       *)
(* behaviour. shutdown() falls off the end when the syscall succeeds, and  *)
(* local_addr()/peer_addr() pass an uninitialized socklen_t. The outcomes  *)
(* the build can produce are the constants ShutdownGarbage and LenGarbage. *)
(*                                                                         *)
(* An address is a sequence of AddrSize bytes. The wrapper's buffer holds  *)
(* AddrStorage bytes. getsockname copies min(len, AddrSize) bytes into a   *)
(* zeroed buffer and returns the full size in len.                         *)
(*                                                                         *)
(* The data calls are abstracted to success or error; the bytes are the    *)
(* WriteAll module's concern. A stream write that fails with EPIPE raises  *)
(* SIGPIPE unless the call passes MSG_NOSIGNAL. Whether the process        *)
(* ignores SIGPIPE is not in src/ nor in spec.md: it is SigpipeIgnored.    *)
(* When it does not, the signal ends the process and the caller never      *)
(* gets its Result.                                                        *)
(*                                                                         *)
(* `told` is the caller's side: the addresses its successful bind and      *)
(* connect were given, and whether a shutdown of the write side returned  *)
(* Ok.  `op` names the last call.                                          *)
(***************************************************************************)
EXTENDS Integers, Sequences

CONSTANTS
    Impls,            \* the classes whose object is checked
    FdOpen,           \* whether the object's fd may be open or closed
    Addrs,            \* addresses a caller binds to or connects to
    InUse,            \* addresses another socket already holds
    Refusing,         \* addresses where nobody listens
    Ephemeral,        \* the address the kernel picks for an autobind
    AddrSize,         \* the real length of an address
    AddrStorage,      \* sizeof(addr) in SocketIO::local_addr
    ShutdownGarbage,  \* errors Socket::shutdown may return after success
    LenGarbage,       \* values the uninitialized socklen_t may hold, as the
                      \* int the kernel reads (socklen_t 2^31 and up is < 0)
    SigpipeIgnored    \* the process ignores SIGPIPE

ASSUME Impls \subseteq {"Socket", "SocketIO"} /\ Impls # {}
ASSUME FdOpen \subseteq BOOLEAN /\ FdOpen # {}
ASSUME InUse \cup Refusing \subseteq Addrs
ASSUME \A a \in Addrs \cup {Ephemeral} : Len(a) = AddrSize
ASSUME AddrStorage \in Nat /\ AddrStorage >= AddrSize
ASSUME ShutdownGarbage \subseteq 0..200
ASSUME LenGarbage \subseteq -2147483647..2147483647
ASSUME SigpipeIgnored \in BOOLEAN

EBADF        == 9
EMFILE       == 24
EINVAL       == 22
EADDRINUSE   == 98
EISCONN      == 106
ENOTCONN     == 107
ECONNREFUSED == 111
EPIPE        == 32
ECONNRESET   == 104
MSG_NOSIGNAL == 16384

\* SHUT_RD, SHUT_WR, SHUT_RDWR and the directions each one shuts.
Hows    == {0, 1, 2}
\* The enumerators of SHUTDOWN_OPTION.
Options == {"READ", "WRITE", "READ_WRITE"}
Dirs(h) == CASE h = 0 -> {"rd"} [] h = 1 -> {"wr"} [] OTHER -> {"rd", "wr"}

\* The address getsockname reports on an unbound socket, and "no peer".
Zero   == [i \in 1..AddrSize |-> 0]
NoAddr == <<>>

\* Result<T>: a value or an error code.
Ok(v)  == [ok |-> TRUE, val |-> v, err |-> 0]
Err(e) == [ok |-> FALSE, val |-> NoAddr, err |-> e]
None   == [ok |-> FALSE, val |-> NoAddr, err |-> -1]

VARIABLES
    impl,       \* the class of the checked object
    open,       \* its fd is open in the kernel
    bound,      \* the kernel's local address, NoAddr when unbound
    listening,  \* the socket is in the listen state
    peer,       \* the kernel's peer address, NoAddr when unconnected
    peerUp,     \* the peer has not closed the connection
    shut,       \* the directions shutdown() has shut
    alive,      \* the process has not been ended by a signal
    sys,        \* what the last syscall did, by the kernel's rules
    ret,        \* the Result the last wrapper returned
    op,         \* the last call: "bind", "local", "out", ...
    told,       \* what the caller learnt from Ok results (see above)
    lsock,      \* the socket of the listener build_listener returned
    lret,       \* the Result build_listener returned
    lfds        \* fds build_listener opened and nobody has closed

vars == <<impl, open, bound, listening, peer, peerUp, shut, alive, sys, ret,
          op, told, lsock, lret, lfds>>

\* The bytes an address buffer can hold, and the Results a call returns.
Bytes   == {0} \cup {a[i] : a \in Addrs \cup {Ephemeral}, i \in 1..AddrSize}
Results == [ok : BOOLEAN, val : [1..AddrSize -> Bytes] \cup {NoAddr},
            err : 0..200 \cup {-1}]

Closed == [open |-> FALSE, bound |-> NoAddr, listening |-> FALSE]

Init ==
    /\ impl \in Impls
    /\ open \in FdOpen
    /\ bound = NoAddr
    /\ listening = FALSE
    /\ peer = NoAddr
    /\ peerUp = FALSE
    /\ shut = {}
    /\ alive = TRUE
    /\ sys = None
    /\ ret = None
    /\ op = "none"
    /\ told = [local |-> NoAddr, peer |-> NoAddr, wrShut |-> FALSE]
    /\ lsock = Closed
    /\ lret = None
    /\ lfds = 0

\* The bytes a getsockname/getpeername with buffer length n leaves in the
\* zero-initialised storage: the first min(n, AddrSize) bytes of a.
Truncate(a, n) == [i \in 1..AddrSize |-> IF i <= n THEN a[i] ELSE 0]

\* `if (::call(...) == -1) return std::unexpected{make_sys_error(errno)};`
\* with the result r of the syscall.
WrapNegated(r) == IF r.ok THEN r ELSE Err(-r.err)

Wrap(r) == IF r.ok THEN r ELSE Err(r.err)

-----------------------------------------------------------------------------
(* bind(addr): both classes. The kernel refuses a closed fd, a second      *)
(* bind and an address in use.                                             *)
Bind(a) ==
    /\ LET r == CASE ~open            -> Err(EBADF)
                  [] bound # NoAddr   -> Err(EINVAL)
                  [] a \in InUse      -> Err(EADDRINUSE)
                  [] OTHER            -> Ok(NoAddr)
       IN /\ sys' = r
          /\ ret' = Wrap(r)
          /\ bound' = IF r.ok THEN a ELSE bound
          /\ told' = IF r.ok THEN [told EXCEPT !.local = a] ELSE told
    /\ op' = "bind"
    /\ UNCHANGED <<impl, open, listening, peer, peerUp, shut, alive, lsock, lret, lfds>>

\* SocketIO::bind is the same code over its own fd.
IoBind(a) == Bind(a)

(* listen(n): a connected socket cannot listen; an unbound one is bound to *)
(* an ephemeral address.                                                   *)
Listen ==
    /\ LET r == CASE ~open          -> Err(EBADF)
                  [] peer # NoAddr  -> Err(EINVAL)
                  [] OTHER          -> Ok(NoAddr)
       IN /\ sys' = r
          /\ ret' = Wrap(r)
          /\ listening' = (listening \/ r.ok)
          /\ bound' = IF r.ok /\ bound = NoAddr THEN Ephemeral ELSE bound
    /\ op' = "listen"
    /\ UNCHANGED <<impl, open, peer, peerUp, shut, alive, told, lsock, lret, lfds>>

\* SocketIO::listen is the same code over its own fd.
IoListen == Listen

(* connect(addr): Socket hands it to async::connect, SocketIO to           *)
(* io::Connect; both awaiters return the kernel's result (Awaiter models   *)
(* them). A listening or connected socket gets EISCONN.                    *)
Connect(a) ==
    /\ LET r == CASE ~open                     -> Err(EBADF)
                  [] listening \/ peer # NoAddr -> Err(EISCONN)
                  [] a \in Refusing            -> Err(ECONNREFUSED)
                  [] OTHER                     -> Ok(NoAddr)
       IN /\ sys' = r
          /\ ret' = r
          /\ peer' = IF r.ok THEN a ELSE peer
          /\ peerUp' = (peerUp \/ r.ok)
          /\ bound' = IF r.ok /\ bound = NoAddr THEN Ephemeral ELSE bound
          /\ told' = IF r.ok THEN [told EXCEPT !.peer = a, !.wrShut = FALSE] ELSE told
    /\ op' = "connect"
    /\ UNCHANGED <<impl, open, listening, shut, alive, lsock, lret, lfds>>

\* SocketIO::connect returns io::Connect over the same fd and address.
IoConnect(a) == Connect(a)

\* What ::shutdown does: ENOTCONN unless connected or listening.
ShutdownSys ==
    CASE ~open                          -> Err(EBADF)
      [] peer = NoAddr /\ ~listening    -> Err(ENOTCONN)
      [] OTHER                          -> Ok(NoAddr)

\* A successful ::shutdown(how) shuts the directions of how; on a listening
\* socket a read direction disconnects it instead (inet_shutdown), leaving
\* it neither listening nor shut.
Shut(how) ==
    IF sys'.ok /\ listening /\ "rd" \in Dirs(how)
    THEN listening' = FALSE /\ shut' = {}
    ELSE listening' = listening /\ shut' = IF sys'.ok THEN shut \cup Dirs(how) ELSE shut

\* The caller learns that writing is shut when shutdown of the directions
\* dirs returned Ok.
ToldShut(dirs) ==
    told' = IF ret'.ok /\ "wr" \in dirs THEN [told EXCEPT !.wrShut = TRUE] ELSE told

\* Mutant of HowOf: READ and WRITE given each other's value.
HowOfSwapped(opt) == CASE opt = "READ" -> 1 [] opt = "WRITE" -> 0 [] OTHER -> 2

\* SHUTDOWN_OPTION: READ = SHUT_RD, WRITE = SHUT_WR, READ_WRITE = SHUT_RDWR.
HowOf(opt) == CASE opt = "READ" -> 0 [] opt = "WRITE" -> 1 [] OTHER -> 2

\* The directions the caller asked for with opt.
Asked(opt) == CASE opt = "READ" -> {"rd"} [] opt = "WRITE" -> {"wr"} [] OTHER -> {"rd", "wr"}

(* Socket::shutdown(opt): ::shutdown(fd_, static_cast<int>(opt)), with no  *)
(* return statement after a successful syscall: the caller reads whatever  *)
(* the return slot holds, Ok or an error.                                  *)
shutdown(opt) ==
    /\ impl = "Socket"
    /\ sys' = ShutdownSys
    /\ Shut(HowOf(opt))
    /\ \/ ~sys'.ok /\ ret' = sys'
       \/ sys'.ok /\ ret' \in {Ok(NoAddr)} \cup {Err(e) : e \in ShutdownGarbage}
    /\ ToldShut(Asked(opt))
    /\ op' = "shutdown"
    /\ UNCHANGED <<impl, open, bound, peer, peerUp, alive, lsock, lret, lfds>>

(* SocketIO::shutdown(how) returns the io::Shutdown awaiter, which returns *)
(* the kernel's result.                                                    *)
IoShutdown(how) ==
    /\ impl = "SocketIO"
    /\ sys' = ShutdownSys
    /\ Shut(how)
    /\ ret' = sys'
    /\ ToldShut(Dirs(how))
    /\ op' = "shutdown"
    /\ UNCHANGED <<impl, open, bound, peer, peerUp, alive, lsock, lret, lfds>>

\* What getsockname (local) or getpeername (peer) reports with enough room.
AddrSys(which) ==
    CASE ~open                              -> Err(EBADF)
      [] which = "local" /\ bound = NoAddr   -> Ok(Zero)
      [] which = "local"                     -> Ok(bound)
      [] peer = NoAddr                       -> Err(ENOTCONN)
      [] OTHER                               -> Ok(peer)

\* What the same call leaves in the caller's buffer when it passes len:
\* the kernel reads len as an int, so a negative one is EINVAL.
AddrWithLen(which, len) ==
    LET r == AddrSys(which) IN
    CASE ~r.ok              -> Wrap(r)
      [] len < 0            -> Err(EINVAL)
      [] OTHER              -> Ok(Truncate(r.val, len))

(* Socket::local_addr/peer_addr: `socklen_t len;` is never initialised.    *)
(* The Addr is then built from the length the kernel writes back, which is *)
(* the full size, over a buffer holding only what len allowed.             *)
addr(which) ==
    /\ impl = "Socket"
    /\ sys' = AddrSys(which)
    /\ \E len \in LenGarbage : ret' = AddrWithLen(which, len)
    /\ op' = which
    /\ UNCHANGED <<impl, open, bound, listening, peer, peerUp, shut, alive, told, lsock, lret, lfds>>

\* socklen_t len{sizeof(addr)} in SocketIO::local_addr/peer_addr.
IoAddrLenShort == AddrSize - 1

IoAddrLen == AddrStorage

(* SocketIO::local_addr/peer_addr: len starts as the buffer's size.        *)
IoAddr(which) ==
    /\ impl = "SocketIO"
    /\ sys' = AddrSys(which)
    /\ ret' = AddrWithLen(which, IoAddrLen)
    /\ op' = which
    /\ UNCHANGED <<impl, open, bound, listening, peer, peerUp, shut, alive, told, lsock, lret, lfds>>
-----------------------------------------------------------------------------
(* Data calls. Each hands its arguments to an io_uring awaiter (io/, not   *)
(* under src/) that returns the kernel's result.                           *)

\* What a receive does: data or end of file are both a count >= 0.  After
\* the peer has gone, a reset may be reported instead.
InSys ==
    CASE ~open          -> {Err(EBADF)}
      [] peer = NoAddr  -> {Err(ENOTCONN)}
      [] ~peerUp        -> {Ok(NoAddr), Err(ECONNRESET)}
      [] OTHER          -> {Ok(NoAddr)}

\* What a send does on a stream: EPIPE when it is not connected or its
\* write side is shut; after the peer has gone, the first write may still
\* be accepted, and a reset or EPIPE follows.
OutSys ==
    CASE ~open                        -> {Err(EBADF)}
      [] peer = NoAddr \/ "wr" \in shut -> {Err(EPIPE)}
      [] ~peerUp                      -> {Ok(NoAddr), Err(ECONNRESET), Err(EPIPE)}
      [] OTHER                        -> {Ok(NoAddr)}

\* The kernel sends SIGPIPE for EPIPE unless the flags hold MSG_NOSIGNAL.
Sigpipe(flags, r) == r = Err(EPIPE) /\ flags # MSG_NOSIGNAL

DataIn ==
    /\ sys' \in InSys
    /\ ret' = sys'
    /\ op' = "in"
    /\ UNCHANGED <<impl, open, bound, listening, peer, peerUp, shut, alive, told, lsock, lret, lfds>>

\* A send with these flags: a SIGPIPE nobody ignores ends the process, and
\* the caller never resumes.
DataOut(flags) ==
    /\ sys' \in OutSys
    /\ IF Sigpipe(flags, sys') /\ ~SigpipeIgnored
       THEN alive' = FALSE /\ ret' = None
       ELSE alive' = alive /\ ret' = sys'
    /\ op' = "out"
    /\ UNCHANGED <<impl, open, bound, listening, peer, peerUp, shut, told, lsock, lret, lfds>>

\* Socket::read(buf, len) and read(span): async::read(fd_, buf, len, 0).
read == DataIn
\* Socket::read_vectored: async::readv over the iovecs of the buffers.
read_vectored == DataIn
\* Socket::recv(buf) is this->read(buf).
recv == read
\* Socket::write(buf, len) and write(span): async::write(fd_, buf, len, 0).
write == DataOut(0)
\* Socket::write_vectored: async::writev(fd_, iovecs, nr_vecs, 0).
write_vectored == DataOut(0)
\* Socket::send: async::send(fd_, ..., MSG_NOSIGNAL).
send == DataOut(MSG_NOSIGNAL)
\* Socket::send_to: async::sendto(fd_, ..., MSG_NOSIGNAL, addr); a connected
\* stream ignores the address.
send_to == DataOut(MSG_NOSIGNAL)
\* SocketIO::send and send_to: io::Send / SendTo with MSG_NOSIGNAL.
IoSend == DataOut(MSG_NOSIGNAL)
IoSendTo == DataOut(MSG_NOSIGNAL)
\* SocketIO::recv(buf, flags): io::Recv.
IoRecv == DataIn

\* The peer closes its end of the connection.
PeerClose ==
    /\ peerUp
    /\ peerUp' = FALSE
    /\ op' = "peerclose"
    /\ UNCHANGED <<impl, open, bound, listening, peer, shut, alive, sys, ret, told, lsock, lret, lfds>>

-----------------------------------------------------------------------------
\* io::IO's destructor closes an fd it still holds (spec.md 5: the facade
\* object owns its fd).
IoDtorCloses == TRUE

\* build_listener with the listen result left unchecked.
ListenerResultNoListenCheck(a, sockR, bindR, listenR) ==
    CASE ~sockR.ok -> sockR [] ~bindR.ok -> bindR [] OTHER -> Ok(a)

\* What build_listener returns: the first failing step's error, else the
\* Listener at a.
ListenerResult(a, sockR, bindR, listenR) ==
    CASE ~sockR.ok -> sockR [] ~bindR.ok -> bindR [] ~listenR.ok -> listenR [] OTHER -> Ok(a)

(* SocketIO::build_listener(addr): build_socket, bind(addr),               *)
(* listen(SOMAXCONN). The first failure is returned, and the SocketIO `io` *)
(* is destroyed on the way out, closing its fd. Listen on a freshly bound  *)
(* socket fails only in a port-reuse race, so its outcome is free.         *)
BuildListener(a) ==
    /\ ~lsock.open
    /\ \E sockR \in {Ok(NoAddr), Err(EMFILE)}, listenR \in {Ok(NoAddr), Err(EADDRINUSE)} :
        LET bindR == IF a \in InUse THEN Err(EADDRINUSE) ELSE Ok(NoAddr)
            s == [open |-> TRUE, bound |-> IF bindR.ok THEN a ELSE NoAddr,
                  listening |-> bindR.ok /\ listenR.ok]
            r == ListenerResult(a, sockR, bindR, listenR)
        IN /\ lret' = r
           /\ lsock' = IF r.ok THEN s ELSE Closed
           /\ lfds' = lfds + (IF sockR.ok /\ ~(~r.ok /\ IoDtorCloses) THEN 1 ELSE 0)
    /\ op' = "listener"
    /\ UNCHANGED <<impl, open, bound, listening, peer, peerUp, shut, alive, sys, ret, told>>

\* The caller drops the Result holding the Listener; the destructor closes
\* the fd.
DropListener ==
    /\ lsock.open
    /\ lsock' = Closed
    /\ lret' = None
    /\ lfds' = lfds - (IF IoDtorCloses THEN 1 ELSE 0)
    /\ op' = "listener"
    /\ UNCHANGED <<impl, open, bound, listening, peer, peerUp, shut, alive, sys, ret, told>>

\* Every step needs a live process.
Next ==
    \/ alive /\ impl = "Socket" /\ (Listen \/ \E a \in Addrs : Bind(a) \/ Connect(a))
    \/ alive /\ impl = "SocketIO" /\ (IoListen \/ \E a \in Addrs : IoBind(a) \/ IoConnect(a))
    \/ alive /\ \E a \in Addrs : BuildListener(a)
    \/ alive /\ \E opt \in Options : shutdown(opt)
    \/ alive /\ \E how \in Hows : IoShutdown(how)
    \/ alive /\ \E which \in {"local", "peer"} : addr(which) \/ IoAddr(which)
    \/ alive /\ impl = "Socket" /\ (read \/ read_vectored \/ recv)
    \/ alive /\ impl = "Socket" /\ (write \/ write_vectored \/ send \/ send_to)
    \/ alive /\ impl = "SocketIO" /\ (IoSend \/ IoSendTo \/ IoRecv)
    \/ alive /\ PeerClose
    \/ alive /\ DropListener

Spec == Init /\ [][Next]_vars

-----------------------------------------------------------------------------
TypeOK ==
    /\ impl \in Impls
    /\ open \in BOOLEAN /\ listening \in BOOLEAN
    /\ bound \in Addrs \cup {Ephemeral, NoAddr}
    /\ peer \in Addrs \cup {NoAddr}
    /\ peerUp \in BOOLEAN /\ shut \subseteq {"rd", "wr"} /\ alive \in BOOLEAN
    /\ sys \in Results /\ ret \in Results /\ lret \in Results
    /\ lsock \in [open : BOOLEAN, bound : Addrs \cup {NoAddr}, listening : BOOLEAN]
    /\ lfds \in 0..1
    /\ told \in [local : Addrs \cup {NoAddr}, peer : Addrs \cup {NoAddr}, wrShut : BOOLEAN]

(* Every wrapper returns what its syscall did: the same error, or success  *)
(* with the address the kernel holds for the socket. This fails when       *)
(* Socket::shutdown reports an error after a successful ::shutdown, when   *)
(* local_addr/peer_addr return a truncated address or EINVAL because of    *)
(* the length they pass, and when a write without MSG_NOSIGNAL hits EPIPE  *)
(* in a process that does not ignore SIGPIPE (the caller never resumes).   *)
CallsFaithful == ret = sys

(* What a call returns agrees with what earlier calls told the caller:     *)
(* local_addr after a successful bind(a) and peer_addr after a successful  *)
(* connect(a) return a, whole; and once shutdown of the write side (WRITE, *)
(* READ_WRITE) has returned Ok, no write or send succeeds until a new      *)
(* connect (a listener disconnected by shutdown(READ) may connect again).  This takes the *)
(* SHUTDOWN_OPTION values, the length each getter passes and the flags of  *)
(* the data calls together, over any sequence of calls.                   *)
AnswersMatchHistory ==
    [][/\ op' = "local" /\ ret'.ok /\ told.local # NoAddr => ret'.val = told.local
       /\ op' = "peer" /\ ret'.ok => ret'.val = told.peer
       /\ op' = "out" /\ told.wrShut => ~ret'.ok]_vars

(* build_listener returns a Listener only when the socket is bound to the  *)
(* requested address and listening, and every fd it opened is either the  *)
(* Listener's or closed again: an error path leaks no fd.                  *)
ListenerFaithful ==
    /\ lret.ok => lsock.open /\ lsock.bound = lret.val /\ lsock.listening
    /\ lfds = IF lsock.open THEN 1 ELSE 0
=============================================================================
