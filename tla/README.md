# TLA+ models of zedio

This directory holds TLA+ models of the zedio coroutine runtime and its socket
layer. It also holds the TLC configurations that check them.

- `spec.md` describes the whole system.
- `src/` holds only part of the code:
  - the socket facade (`src/zedio/net/socket.hpp`, `src/zedio/net/io.hpp`);
  - one I/O awaiter (`src/zedio/io/awaiter/fsetxattr.hpp`);
  - the runtime configuration (`src/zedio/async/config.hpp`).

The runtime core itself (workers, queues, poller, tasks) is not in `src/`. Its
model is translated from `spec.md`. In `PROJECT.json` every such definition is
marked `spec_modelled`.

## The system and how its parts interact

- **Runtime and Workers** (spec.md 4.6, 4.7).
  - N worker threads each run the main loop:
    1. every `check_io_interval_` ticks, drain one completion;
    2. every `check_global_interval_` ticks, pull one task from the global queue;
    3. pop the local queue, else take a batch from the global queue, else steal
       half of a peer's queue;
    4. poll the task;
    5. if nothing was found, park on the completion ring.
  - `spawn` pushes locally when called from a worker. Otherwise it pushes to the
    global queue and unparks a worker.
- **LocalQueue** (4.4): bounded, one per worker. When full it overflows its older
  half into the **GlobalQueue** (4.5). Peers steal half of it.
- **Poller and OperationDescriptor** (4.2, 4.3): one io_uring per worker. An
  awaiter submits an operation and suspends. The kernel completes it.
  `drain_completions` writes the raw result into the descriptor and wakes the
  task. `await_resume` then turns the raw result into a `Result`: a negative
  value is an error (spec.md 6).
- **Socket** (socket.hpp) owns an fd. `build`/`from_fd` give it one, moves hand
  it over, and `close()`, the destructor and move assignment close it. The
  destructor and move assignment use `sync_close`, a loop over `::close()`.
  `write_all` loops over io_uring writes. The option getters and setters call
  `fcntl` or `setsockopt`/`getsockopt`.
- **SocketIO** (io.hpp) provides the awaiters `accept` and `build_stream`
  (Connect). Connect creates its socket inside `await_suspend`.
- **Syscall wrappers** of both classes: `bind`, `listen`, `shutdown`,
  `local_addr` and `peer_addr` call the syscall directly and turn -1 into
  `make_sys_error(errno)`. `connect` returns an io_uring awaiter.
  `SocketIO::build_listener` chains `build_socket`, `bind` and
  `listen(SOMAXCONN)`, and returns the first error. The `SocketIO` it built is
  destroyed on that return, which closes its fd.

## Modules

| Module | Models | State and actions |
|---|---|---|
| `TaskLifecycle` | spec.md 4.1, abstract | `status`, `cancelReq`. Spawn/Start/Suspend/Wake/Complete/Abort/Cancel. |
| `Scheduler` | spec.md 4.2–4.7 (spec_modelled), config.hpp 12–15 | Local queues, global queue, task states, in-flight ops, completion queues, worker `pc`, tick (modulo the product of the two intervals), unpark flags. Steps 1 and 2 test `IoCheckDue` and `GlobalCheckDue`, one per Config interval. Details below. |
| `SocketFd` | socket.hpp 26–51, 415–439 | Socket objects (`alive`, `fd`), the kernel fd table, raw fds of other code, pending async closes, `sync_close` frames. Actions: Build, FromFd, MoveConstruct, MoveAssign, Destroy, SyncCloseStep, Close, AsyncCloseDone, OpenRaw, CloseRaw. |
| `Awaiter` | io.hpp 41–69, 283–330; fsetxattr.hpp | Per awaiter: kind, pc, `cb_.result_`, Connect's `io_`, and what `await_resume` returned. Actions: ConnectSuspend, Submit, Complete, Resume (with `MoveOut`, Connect's `std::move(io_)` into the Stream), Destroy (the awaiter dies and `io_` closes the fd it still holds). |
| `WriteAll` | socket.hpp 100–112 | Per writer: `has_written_bytes`, `remaining_bytes`, pc, result. One byte stream the peer reads. Actions: LoopTest, WriteOk (short writes), WriteErr. `write_all` takes no lock, so the chunks of two callers interleave in the stream. The errnos are those that raise no signal; EPIPE, which raises SIGPIPE, is in `SocketCalls`. |
| `SocketOptions` | socket.hpp 211–413; io.hpp 120–279, 350–366 | The options of a `Socket` or a `SocketIO` (`impl`), with an fd that is open or closed. The fd's status flags are an integer (Bitwise). `fcntl` actions: `set_nodelay`, `set_nonblocking`, `nodelay`, `nonblocking`. The kernel keeps a value for each setsockopt option. Setters convert their argument, and the kernel stores it by its own rules: bool 0/1, TTL 1..255, buffer sizes doubled with a minimum, SO_MARK only with CAP_NET_ADMIN. The kernel caps SO_RCVBUF/SO_SNDBUF at rmem_max/wmem_max as an unsigned value, so a negative `int` size gets the cap (`KernelBuf`). Getters convert back, each class with its own operators (`Value`, `IoValue`). Socket's bool getters test `== 1` and SocketIO's test `!= 0`. `want` records what each setter last set, and `seen` records what the last getter returned. |
| `SocketCalls` | socket.hpp 53–209; io.hpp 13–118, 332–347 | One socket's kernel state: `open`, `bound`, `listening`, `peer`, whether the peer is still up (`peerUp`), the directions shut (`shut`), and whether the process is `alive`. Each call sets `sys`, what the syscall did by the kernel's rules, and `ret`, what the wrapper returned. Two history variables record what the caller was told: `told` (the address a successful `bind` and `connect` named, and whether `shutdown` of the write side returned Ok), and `op` (the last call). Actions: `Bind`/`IoBind`, `Listen`/`IoListen` (autobinds), `Connect`/`IoConnect`, `shutdown(opt)` (with `SHUTDOWN_OPTION` translated by `HowOf`)/`IoShutdown(how)` (a `shutdown(READ)` of a listening socket disconnects it, as the kernel's `tcp_disconnect` does), `addr`/`IoAddr` for local and peer; the data calls `read`, `read_vectored`, `recv`, `write`, `write_vectored`, `send`, `send_to` and `IoSend`/`IoSendTo`/`IoRecv`, each with the flags it passes; `PeerClose`, the peer going away. A write that meets EPIPE without MSG_NOSIGNAL raises SIGPIPE, which ends the process unless `SigpipeIgnored`. `BuildListener` and `DropListener` act on the listener `lsock`, its result `lret`, and `lfds`, the fds it opened that are still open. |

The Scheduler's actions per worker are:

- `CheckIO` for step 1 and `CheckGlobal` for step 2.
- `PopLocal`, `PopGlobalBatch` and `StealHalf` for step 3. `PopGlobalBatch` takes ceil(len/N). `StealHalf` takes (len+1)/2 from the victim's back.
- `FindNothing` when step 3 finds nothing.
- `Poll` for step 4. It goes to Completed, to Cancelled if the flag is set, or submits an I/O op and suspends.
- `Park`, `WakeUp` and `Timeout` for step 5, then `Drain` and `DrainDone`.

The environment's actions are:

- `SpawnLocal` and `SpawnGlobal`.
- `Cancel`, which submits a cancel op when the task is suspended.
- `KernelComplete`. The kernel completes ops in any order, and a cancel op also completes its target.

Each worker step touches one shared structure, so steps of different workers
interleave as they do in the code. `Scheduler` is shown to implement
`TaskLifecycle` through `Lifecycle == INSTANCE TaskLifecycle WITH status <-
state, cancelReq <- cancelled`, and `LifecycleRefined` is checked as a property.

The MC modules (`MCScheduler`, `MCSocketFd`, `MCAwaiter`, `MCWriteAll`,
`MCSocketCalls`, `MCSocketOptions`) declare model values and the small sets
built from them. The cfg parser does not accept tuples or negative numbers, so
`MCSocketCalls` defines the addresses and the garbage lengths, and
`MCSocketOptions` the buffer sizes. The nodelay run checks `SocketOptions`
directly.

**Undefined behaviour as a choice.** Two functions of `Socket` have undefined
behaviour:

- `shutdown()` has no return statement after a successful syscall;
- `local_addr()`/`peer_addr()` pass an uninitialized `socklen_t`.

`SocketCalls` turns each into a nondeterministic choice over a cfg constant:

- `ShutdownGarbage` holds the errors the unreturned `Result` may hold;
- `LenGarbage` holds the values the length may hold. It is written as the `int`
  the kernel reads, so a negative value stands for a `socklen_t` of 2^31 or more.

The SIGPIPE disposition is set by no code under `src/` and by nothing in
spec.md, so it is the boolean constant `SigpipeIgnored`.

Both shipped SocketCalls runs take the benign outcomes: `ShutdownGarbage = {}`
and `LenGarbage = {128}`. The passing run also ignores SIGPIPE, and the
`socketcalls_sigpipe` run leaves it at its default. The other outcomes are
reproduced by changing one constant of `MCSocketCalls.cfg`:

- `ShutdownGarbage = {0}`: TLC reports `Listen`, then `shutdown` returning
  `Err(0)` (`CallsFaithful`);
- `LenGarbage <- MCLenGarbageUB`: TLC reports `local_addr` returning EINVAL
  (`CallsFaithful`), or `bind` of a 2-byte address, then `local_addr`
  returning one byte of it (`AnswersMatchHistory`).

spec.md 9 already records both as fixes, so they are known undefined
behaviour rather than findings of this project.

## Runs

| Run | cfg | Expect | What it shows |
|---|---|---|---|
| sched_safety | MCScheduler.cfg | pass | 2 workers, 3 tasks and LocalCapacity 2, so overflow happens. Every task is in at most one queue, frame or op, and exactly in the one its state says (`TaskInOnePlace`). The scheduler refines TaskLifecycle. |
| sched_noloss | MCSchedulerLive.cfg | pass | Under weak fairness, every spawned task terminates (`NoLoss`) when parks may time out. |
| sched_lost_wakeup | MCSchedulerLostWakeup.cfg | violation | Without a park timeout, a spawn that comes while every worker is between its empty sweep and its park wakes nobody, and the task never runs. |
| socketfd | MCSocketFd.cfg | pass | 2 Sockets, fds {3,4} and raw opens by other code. Every open fd has exactly one holder (`FdOwnedOnce`), and a Socket never closes a number that was handed to someone else (`NoForeignClose`). |
| socketfd_retry | MCSocketFdRetry.cfg | violation | `sync_close` never retries EINTR (`RetriedOnEINTR`), although spec.md 7 says it does. |
| awaiter | MCAwaiter.cfg | pass | Accept, Connect and Fsetxattr return success exactly when the operation succeeded, with the right fd (`ResultFaithful`). Every open fd has exactly one holder: a Connect's `io_`, a returned Stream, or an accept completion not yet resumed (`FdsHeldOnce`). A connect that fails closes its socket when the awaiter dies, and fds are reused across awaiters. |
| awaiter_socket_fails | MCAwaiterSocketFails.cfg | violation | When `::socket()` fails inside Connect, the awaiter returns success with fd -1. |
| writeall | MCWriteAll.cfg | pass | With 2 writers, 3-byte buffers, short writes and ECONNRESET, each writer's bytes reach the peer in its own order without gaps, although the two writers' chunks interleave. A writer that returns an error has sent less than its whole buffer, and one that returns Ok has sent all of it (`PeerGetsBuffer`). `write_all` always returns (`WriteAllReturns`). |
| socketoptions | MCSocketOptions.cfg | pass | Both classes, with fds open and closed. A setsockopt getter reports what its setter last set successfully (`GetterReportsSetting`). A buffer size reports at least the size set, or twice the cap when the size was above rmem_max or negative. The fcntl setters keep the access mode and O_APPEND (`OtherFlagsKept`). |
| socketoptions_nodelay | MCSocketOptionsNodelay.cfg | violation | `nodelay()` reads O_NONBLOCK, so it does not report what `set_nodelay` set (`OptionReportsSetting`). |
| socketcalls | MCSocketCalls.cfg | pass | Across any sequence of calls on either class, the answers agree with what earlier calls told the caller (`AnswersMatchHistory`): after a successful `bind(a)`, `local_addr` returns `a` whole; after a successful `connect(a)`, `peer_addr` returns `a`; once `shutdown` of the write side returned Ok, no write or send succeeds until a new connect. Shutdowns in every direction, listeners disconnected by `shutdown(READ)` and the peer closing at any point are explored, with the UB at its benign outcome and SIGPIPE ignored. `build_listener` returns a Listener only when it is bound and listening, and leaks no fd on any failing step (`ListenerFaithful`). |
| socketcalls_sigpipe | MCSocketCallsUB.cfg | violation | With SIGPIPE at its default, a `write` (flags 0) on a socket that is not connected meets EPIPE and the process dies instead of returning the error (`CallsFaithful`). TLC reports it after a single unrelated call such as `listen`. |

`PROJECT.json` lists a mutant for every property of the passing runs. Each
mutant is a plausible bug in the mapped code, and TLC finds it under the run's
own cfg. Examples:

- a steal that leaves the tasks in the victim's queue;
- a poll that ignores the cancel flag;
- a completion whose wake-up loses the push;
- a move constructor that does not reset `other.fd_`;
- `sync_close` testing errno;
- `result_ > 0` as the success test;
- a write restarted from the buffer's start;
- a loop test of `>= 0`;
- a swapped linger branch;
- `+`/`-` or plain assignment instead of `|`/`&~` on the flags;
- `-errno` in `make_sys_error`;
- `SHUTDOWN_OPTION`'s READ and WRITE swapped;
- `build_listener` not checking `listen`;
- Connect's `io_` copied instead of moved into the Stream.

## Findings

1. **spec gap, lost wakeup.**
   - spec.md 4.5 unparks only a worker that is already parked, and 4.6 step 5 blocks "until completion, unpark, or shutdown".
   - A global spawn that comes after both workers found nothing, but before they park, is never seen.
   - Only the `timeout` of `Poller::park(timeout)` (4.3) rescues it.
   - Run: sched_lost_wakeup.
2. **code bug, socket.hpp:422.**
   - `while (ret == EINTR && cnt--)` compares the return value of `::close()` (0 or -1) with EINTR, so it never retries.
   - On Linux a retry would be worse. The mutant that retries on errno breaks `NoForeignClose`, because it closes another thread's fd.
   - Run: socketfd_retry.
3. **code bug, io.hpp:307.**
   - `this->cb_.result_ = ret.error().value()` stores a positive errno, and `await_resume` reads it as success.
   - Run: awaiter_socket_fails.
4. **code bug, socket.hpp:350–371.**
   - `O_NDELAY` is `O_NONBLOCK` on Linux, so `set_nodelay(false)` makes the socket blocking.
   - `nodelay()` is true on every socket from `build_socket`.
   - Run: socketoptions_nodelay.
5. **spec gap, socket.hpp:91 (and 116).**
   - `write` and `write_vectored` pass flags 0 to the io_uring write. `send`, `send_to` and `SocketIO::send` pass `MSG_NOSIGNAL`.
   - A write that meets EPIPE raises SIGPIPE. That happens when the socket was never connected, after `shutdown(WRITE)`, or after the peer went away. SIGPIPE's default action ends the process, so the caller never sees the error that spec.md 7 says is propagated. `write_all` loops over `write` and inherits this.
   - Neither `src/` nor spec.md ignores SIGPIPE.
   - Run: socketcalls_sigpipe. With `SigpipeIgnored = FALSE` and the benign UB outcomes, TLC reports a `write` on a socket that is not connected.

## Bounds, and why they are enough

- **Scheduler.** 2 workers are enough for stealing and for unpark races. 3 tasks with LocalCapacity 2 make the local queue overflow (cap 256 in Config). Both intervals 1 make steps 1 and 2 run every tick in the safety run. In the liveness run `check_io_interval_` is 2 and `check_global_interval_` 1, so the two checks are out of phase and ticks that skip the drain occur. Intervals 2 and 3 were tried for liveness and took over 6 minutes. MaxIO 1 gives each task one suspension. Liveness uses 2 tasks to keep the graph small.
- **SocketFd.** 2 Sockets, 2 fd numbers and 4 opens. This is enough for a number to be released and handed out again while a move or a `sync_close` is in progress.
- **Awaiter.** 3 awaiters over 3 fds, with one operation errno. A destroyed Connect frees its fd, which a later accept or connect then gets.
- **WriteAll.** 2 writers with 3 bytes each, and one errno (ECONNRESET, 104). Every split into short writes happens. The peer buffer is bounded at 6 bytes.
- **Options.** Values on both sides of each kernel rule: TTL 64 and 300, buffer sizes below the minimum, above rmem_max and negative (1000, 300000, -1), one boolean option (all take one path), linger off and 5 s, marks 0 and 7 without CAP_NET_ADMIN. Both classes, with the fd open and closed.
- **SocketCalls.**
  - There are three 2-byte addresses. One is free, one is in use and one refuses connections. Every error branch of bind and connect therefore happens.
  - The buffer has 4 bytes. The benign garbage length is 128, and the bad ones (`MCLenGarbageUB`) are 1 and 2^32-1.
  - Two bytes are enough for a truncation that keeps one byte. Both classes run with the fd open and closed.
  - The data calls carry no bytes here: only whether a call succeeds matters to the properties. Every shutdown direction and a peer close at any point are explored. Byte counts and short writes are checked in `WriteAll`.

## Fairness

- **Scheduler.**
  - Each worker is a thread that always takes its next step: WF on each worker's step.
  - The kernel eventually completes every submitted operation: WF per in-flight op.
  - Spawning and cancelling are left without fairness, because they are the environment.
- **WriteAll.** The writer task is resumed when its write completes, and the kernel completes a write that has room: WF on LoopTest and WriteOk. A failing write is not forced.

## Not modelled, and why

- The LocalQueue's ring buffer, with head and tail as wrapping indices, and the two-phase steal CAS of 4.4. The queues are sequences with atomic operations.
- Runtime shutdown.
- The submission ring being full.
- The bytes the data calls carry, in `SocketCalls`. Their results are modelled there, and the byte stream of `write_all` is modelled in `WriteAll`.
- The LocalQueue ring. spec.md 4.4 does not say which index the owner moves and which the stealers move, and that code is not under `src/`. A ring would be invented, not translated.
- Concurrent fcntl setters on one fd. Each setter does F_GETFL, then F_SETFL, and touches only the O_NONBLOCK bit. It writes that bit as a constant and every other bit as it read it. Any interleaving of two setters therefore ends like the serial order of their F_SETFLs, so the model keeps each setter atomic. F_GETFL returns -1 only on a closed fd, where F_SETFL fails too.
- The kernel's address families. An address is a short byte sequence, and its family does not matter to the wrappers.
- Formatting and logging (`LOG_ERROR`).
- `Config::ring_entries_`, `io_uring_flags_` and `FIXED_FILES_NUM`. The model's submission ring is never full, and nothing under `src/` registers fixed files.
- The narrowing of `set_linger`'s 64-bit count into the `int` `l_linger`. TLC's integers are 32-bit, so a count that does not fit cannot be written.

## Plan for later sittings

1. Shutdown (4.7): the flag seen at step 5, draining, cancelling outstanding tasks, and the exit of every worker.
2. Compose `Awaiter` with `Scheduler`, so that the raw result travels from the completion to `await_resume` through the wake-up.
