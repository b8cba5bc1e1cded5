------------------------------ MODULE SocketFd ------------------------------
(***************************************************************************)
(* File-descriptor ownership of net::Socket (src/zedio/net/socket.hpp).    *)
(* A Socket owns the int fd_ it holds: build() and from_fd() give it one,  *)
(* the move constructor and move assignment hand it over and leave -1      *)
(* behind, close() hands it to an asynchronous close operation, and the    *)
(* destructor and move assignment close it with sync_close(), a retry loop *)
(* over ::close().                                                         *)
(*                                                                         *)
(* Each Socket object is used by one thread at a time, different objects   *)
(* by different threads, so the steps of different objects interleave on   *)
(* the one kernel fd table.  The kernel hands out the lowest free number   *)
(* and releases the number on every close() of an open fd, whatever it    *)
(* returns (Linux), so a number may be reused at once by another thread.   *)
(* Other code of the program (accept, another socket()) opens and closes   *)
(* raw fds too.  A ghost file identity per open records which open a       *)
(* number currently stands for.                                            *)
(***************************************************************************)
EXTENDS Integers, FiniteSets

CONSTANTS
  Sockets,   \* Socket objects (storage that may hold a constructed Socket)
  Fds,       \* fd numbers the kernel may hand out, e.g. 3..4
  MaxOpens   \* bound: number of successful opens in a behaviour

ASSUME Fds \subseteq Nat /\ MaxOpens \in Nat

\* errno values and ::close() results as the code sees them.
EINTR == 4
EIO   == 5
EBADF == 9
Files == 0..MaxOpens   \* ghost file identities; 0 = the number is free

VARIABLES
  alive,     \* alive[s]: a Socket is constructed in s
  fd,        \* fd[s]: Socket::fd_ (-1 when it owns nothing)
  file,      \* ghost: file[s] is the open fd_ stands for
  table,     \* kernel fd table: table[f] is the open f stands for, 0 if free
  opens,     \* ghost: opens so far
  raw,       \* fds open by other code of the program, owned by no Socket
  closing,   \* pending async close operations made by Socket::close()
  sc,        \* sc[s]: the sync_close(fd) frame running for s, or NoFrame
  lastErrno  \* ghost: errno of the last ::close() of s's sync_close (0: none)

vars == <<alive, fd, file, table, opens, raw, closing, sc, lastErrno>>

NoFrame == [fd |-> -1, file |-> 0, cnt |-> 0, then |-> "none"]
Frames  == [fd : Fds, file : Files, cnt : -1..3,
            then : {"destroy"} \cup Sockets]   \* caller: ~Socket, or operator= from

Init ==
  /\ alive = [s \in Sockets |-> FALSE]
  /\ fd = [s \in Sockets |-> -1]
  /\ file = [s \in Sockets |-> 0]
  /\ table = [f \in Fds |-> 0]
  /\ opens = 0
  /\ raw = {}
  /\ closing = {}
  /\ sc = [s \in Sockets |-> NoFrame]
  /\ lastErrno = [s \in Sockets |-> 0]

Free == {f \in Fds : table[f] = 0}
Lowest(S) == CHOOSE f \in S : \A g \in S : f <= g

\* The kernel's open: the lowest free number now stands for a new file.
KernelOpen(f) ==
  /\ opens < MaxOpens /\ Free # {} /\ f = Lowest(Free)
  /\ opens' = opens + 1
  /\ table' = [table EXCEPT ![f] = opens + 1]

\* The kernel's ::close(f): an open number is released whatever the result.
\* Its results are <<ret, errno>>: 0, or -1 with EINTR or EIO (the number
\* is gone all the same), or -1 with EBADF on a number that is not open.
CloseResults(f) ==
  IF table[f] # 0 THEN {<<0, 0>>, <<-1, EINTR>>, <<-1, EIO>>} ELSE {<<-1, EBADF>>}
KernelClose(f) == table' = [table EXCEPT ![f] = 0]

Idle(s) == sc[s] = NoFrame
\* No thread is inside an operation on s: neither s's own sync_close nor a
\* move assignment that takes s as its source.
Quiet(s) == Idle(s) /\ \A x \in Sockets : sc[x].then # s

----------------------------------------------------------------------------
(* Socket operations                                                       *)

\* Socket::build(): ::socket() succeeds and the fd is wrapped in a Socket.
\* (When it fails nothing is constructed and nothing changes.)
Build(s) ==
  /\ ~alive[s]
  /\ \E f \in Fds :
       /\ KernelOpen(f)
       /\ alive' = [alive EXCEPT ![s] = TRUE]
       /\ fd' = [fd EXCEPT ![s] = f]
       /\ file' = [file EXCEPT ![s] = opens + 1]
  /\ UNCHANGED <<raw, closing, sc, lastErrno>>

\* Other code opens a raw fd (accept, a socket of SocketIO, a file).
OpenRaw ==
  /\ \E f \in Fds : KernelOpen(f) /\ raw' = raw \cup {f}
  /\ UNCHANGED <<alive, fd, file, closing, sc, lastErrno>>

\* Other code closes a raw fd it still owns.
CloseRaw(f) ==
  /\ f \in raw
  /\ raw' = raw \ {f}
  /\ KernelClose(f)
  /\ UNCHANGED <<alive, fd, file, opens, closing, sc, lastErrno>>

\* Socket::from_fd(fd): adopt a raw fd.
FromFd(s, f) ==
  /\ ~alive[s] /\ f \in raw
  /\ raw' = raw \ {f}
  /\ alive' = [alive EXCEPT ![s] = TRUE]
  /\ fd' = [fd EXCEPT ![s] = f]
  /\ file' = [file EXCEPT ![s] = table[f]]
  /\ UNCHANGED <<table, opens, closing, sc, lastErrno>>

\* Mutant of MoveConstruct: other.fd_ is not reset to -1.
MoveConstructNoReset(t, s) ==
  /\ ~alive[t] /\ alive[s] /\ Quiet(s)
  /\ alive' = [alive EXCEPT ![t] = TRUE]
  /\ fd' = [fd EXCEPT ![t] = fd[s]]
  /\ file' = [file EXCEPT ![t] = file[s]]
  /\ UNCHANGED <<table, opens, raw, closing, sc, lastErrno>>

\* Socket(Socket &&other): take other's fd, leave -1 in other.
MoveConstruct(t, s) ==
  /\ ~alive[t] /\ alive[s] /\ Quiet(s)
  /\ alive' = [alive EXCEPT ![t] = TRUE]
  /\ fd' = [fd EXCEPT ![t] = fd[s], ![s] = -1]
  /\ file' = [file EXCEPT ![t] = file[s], ![s] = 0]
  /\ UNCHANGED <<table, opens, raw, closing, sc, lastErrno>>

\* operator=(Socket &&other), first part: if fd_ >= 0, sync_close(fd_).
\* t = s is a self-move.
MoveAssign(t, s) ==
  /\ alive[t] /\ alive[s] /\ Quiet(t) /\ Quiet(s)
  /\ IF fd[t] >= 0
     THEN /\ sc' = [sc EXCEPT ![t] = [fd |-> fd[t], file |-> file[t], cnt |-> 3,
                                      then |-> s]]
          /\ UNCHANGED <<fd, file>>
     ELSE /\ fd' = [fd EXCEPT ![t] = fd[s], ![s] = -1]
          /\ file' = [file EXCEPT ![t] = file[s], ![s] = 0]
          /\ UNCHANGED sc
  /\ UNCHANGED <<alive, table, opens, raw, closing, lastErrno>>

\* Mutant of Destroy: sync_close(fd_) without the fd_ >= 0 test.
DestroyNoCheck(s) ==
  /\ alive[s] /\ Quiet(s)
  /\ sc' = [sc EXCEPT ![s] = [fd |-> fd[s], file |-> file[s], cnt |-> 3,
                               then |-> "destroy"]]
  /\ UNCHANGED <<alive, fd, file, table, opens, raw, closing, lastErrno>>

\* ~Socket(): if fd_ >= 0, sync_close(fd_); the object is gone after it.
Destroy(s) ==
  /\ alive[s] /\ Quiet(s)
  /\ IF fd[s] >= 0
     THEN /\ sc' = [sc EXCEPT ![s] = [fd |-> fd[s], file |-> file[s], cnt |-> 3,
                                      then |-> "destroy"]]
          /\ UNCHANGED <<alive, fd, file>>
     ELSE /\ alive' = [alive EXCEPT ![s] = FALSE]
          /\ UNCHANGED <<fd, file, sc>>
  /\ UNCHANGED <<table, opens, raw, closing, lastErrno>>

\* What runs after sync_close returns to its caller.
AfterSyncClose(s) ==
  LET k == sc[s].then IN
  /\ sc' = [sc EXCEPT ![s] = NoFrame]
  /\ IF k = "destroy"
     THEN /\ alive' = [alive EXCEPT ![s] = FALSE]
          /\ fd' = [fd EXCEPT ![s] = -1]
          /\ file' = [file EXCEPT ![s] = 0]
     ELSE /\ fd' = [fd EXCEPT ![s] = fd[k], ![k] = -1]
          /\ file' = [file EXCEPT ![s] = file[k], ![k] = 0]
          /\ UNCHANGED alive

\* One iteration of sync_close's loop:
\*   if (ret = ::close(fd); ret == 0) return;  } while (ret == EINTR && cnt--);
\* ret is the return value of ::close(), 0 or -1, never EINTR.
\* Mutant of SyncCloseRetry: the loop tests errno, as the log line and
\* spec.md 7 intend, so a close that failed with EINTR is issued again.
SyncCloseRetryErrno(ret, errno, cnt) == errno = EINTR /\ cnt # 0
SyncCloseRetry(ret, errno, cnt) == ret = EINTR /\ cnt # 0
SyncCloseStep(s) ==
  /\ ~Idle(s)
  /\ LET f == sc[s].fd IN
     \E r \in CloseResults(f) :
       /\ IF table[f] # 0 THEN KernelClose(f) ELSE UNCHANGED table
       /\ IF r[1] # 0 /\ SyncCloseRetry(r[1], r[2], sc[s].cnt)
          THEN /\ sc' = [sc EXCEPT ![s].cnt = @ - 1]
               /\ UNCHANGED <<alive, fd, file>>
          ELSE AfterSyncClose(s)
       /\ lastErrno' = [lastErrno EXCEPT ![s] = r[2]]
  /\ UNCHANGED <<opens, raw, closing>>

\* Socket::close(): fd_ = -1, and the fd, -1 included, goes to an async
\* close operation that the caller awaits (async::close(fd)).
Close(s) ==
  /\ alive[s] /\ Quiet(s)
  /\ fd' = [fd EXCEPT ![s] = -1]
  /\ file' = [file EXCEPT ![s] = 0]
  /\ closing' = closing \cup {[fd |-> fd[s], file |-> file[s]]}
  /\ UNCHANGED <<alive, table, opens, raw, sc, lastErrno>>

\* The io_uring close operation of a Socket::close() runs in the kernel
\* (-EBADF, and nothing released, for -1 or a number that is not open).
AsyncCloseDone(op) ==
  /\ op \in closing
  /\ closing' = closing \ {op}
  /\ IF op.fd \in Fds /\ table[op.fd] # 0 THEN KernelClose(op.fd) ELSE UNCHANGED table
  /\ UNCHANGED <<alive, fd, file, opens, raw, sc, lastErrno>>

Next ==
  \/ \E s \in Sockets : Build(s) \/ Destroy(s) \/ Close(s) \/ SyncCloseStep(s)
  \/ \E s, t \in Sockets : MoveConstruct(t, s) \/ MoveAssign(t, s)
  \/ \E s \in Sockets, f \in Fds : FromFd(s, f)
  \/ OpenRaw
  \/ \E f \in Fds : CloseRaw(f)
  \/ \E op \in closing : AsyncCloseDone(op)

Spec == Init /\ [][Next]_vars

----------------------------------------------------------------------------
(* Properties                                                              *)

TypeOK ==
  /\ alive \in [Sockets -> BOOLEAN]
  /\ fd \in [Sockets -> Fds \cup {-1}]
  /\ file \in [Sockets -> Files]
  /\ table \in [Fds -> Files]
  /\ opens \in 0..MaxOpens
  /\ raw \subseteq Fds
  /\ closing \subseteq [fd : Fds \cup {-1}, file : Files]
  /\ sc \in [Sockets -> Frames \cup {NoFrame}]
  /\ lastErrno \in [Sockets -> {0, EINTR, EIO, EBADF}]

\* Who holds number f: a Socket (through fd_ or its running sync_close),
\* a pending async close, or other code.
Holders(f) ==
  Cardinality({s \in Sockets : alive[s] /\ (fd[s] = f \/ sc[s].fd = f)})
    + Cardinality({op \in closing : op.fd = f})
    + (IF f \in raw THEN 1 ELSE 0)

\* Every open fd has exactly one holder (nothing leaks, nothing is shared),
\* and the fd_ of every Socket is open and stands for the file that Socket
\* opened or adopted.  Breaks if a move leaves the fd in both objects, if a
\* move assignment drops the old fd without closing it, or if a Socket
\* keeps a number that was released and handed to someone else.
FdOwnedOnce ==
  /\ \A f \in Fds : table[f] # 0 => Holders(f) = 1
  /\ \A s \in Sockets : alive[s] /\ fd[s] >= 0 => table[fd[s]] = file[s]

\* A Socket's sync_close or async close only ever releases the file that
\* Socket owned: it never closes a number that another thread has been
\* handed since.  Breaks if sync_close calls ::close() again on a number
\* the kernel already released.
NoForeignClose ==
  [][\A f \in Fds :
       (table[f] # 0 /\ table'[f] = 0 /\ f \notin raw) =>
          \/ \E s \in Sockets : sc[s].fd = f /\ sc[s].file = table[f]
          \/ \E op \in closing : op.fd = f /\ op.file = table[f]]_vars

\* spec.md 7: the sync close used during Socket destruction retries on
\* EINTR, up to 3 times: a ::close() that fails with EINTR is followed by
\* another ::close() of the same fd in the same sync_close.
RetriedOnEINTR ==
  [][\A s \in Sockets :
       ~(~Idle(s) /\ sc'[s] = NoFrame /\ lastErrno'[s] = EINTR /\ sc[s].cnt > 0)]_vars
=============================================================================
