------------------------------ MODULE WriteAll ------------------------------
(***************************************************************************)
(* Socket::write_all (src/zedio/net/socket.hpp): a loop of write()s, each  *)
(* an io_uring write of the bytes not yet written, until nothing remains   *)
(* or a write fails.  The kernel may write fewer bytes than asked (a short *)
(* write) and blocks a write while the peer's receive buffer is full.      *)
(* Several tasks may call write_all on the same socket; the kernel appends *)
(* each write's bytes atomically to the one byte stream the peer reads;   *)
(* write_all takes no lock, so the chunks of two callers interleave.      *)
(* A failed write's error is returned to the caller: the errnos are those  *)
(* that raise no signal (an EPIPE raises SIGPIPE, see SocketCalls).        *)
(***************************************************************************)
EXTENDS Integers, Sequences

CONSTANTS
  Writers,     \* tasks calling write_all on the socket
  Size,        \* bytes in each writer's buffer
  Errnos,      \* errnos a write may complete with
  PeerBuffer   \* bytes the peer's receive buffer holds (never drained here)

ASSUME Size \in Nat \ {0} /\ PeerBuffer \in Nat /\ Errnos \subseteq Nat \ {0}

\* Writer w's buffer: its bytes are told apart by writer and position.
Buf(w) == [i \in 1..Size |-> <<w, i>>]

VARIABLES
  written,    \* written[w]: has_written_bytes
  remaining,  \* remaining[w]: remaining_bytes
  pc,         \* pc[w]: "loop" (at the while test), "await" (write in flight), "done"
  out,        \* out[w]: the Result write_all returned: 0 for Ok, the errno
              \* for an error, -1 while it runs
  stream      \* the bytes the peer receives, in order

vars == <<written, remaining, pc, out, stream>>

Init ==
  /\ written = [w \in Writers |-> 0]
  /\ remaining = [w \in Writers |-> Size]
  /\ pc = [w \in Writers |-> "loop"]
  /\ out = [w \in Writers |-> -1]
  /\ stream = <<>>

\* Mutant of LoopTest: the loop runs while remaining_bytes >= 0.
LoopTestNonStrict(w) ==
  /\ pc[w] = "loop"
  /\ IF remaining[w] >= 0
     THEN pc' = [pc EXCEPT ![w] = "await"] /\ UNCHANGED out
     ELSE /\ pc' = [pc EXCEPT ![w] = "done"]
          /\ out' = [out EXCEPT ![w] = 0]
  /\ UNCHANGED <<written, remaining, stream>>

\* while (remaining_bytes > 0) { co_await write(buf + has_written, remaining) }
\* co_return Result<void>{} once nothing remains.
LoopTest(w) ==
  /\ pc[w] = "loop"
  /\ IF remaining[w] > 0
     THEN pc' = [pc EXCEPT ![w] = "await"] /\ UNCHANGED out
     ELSE /\ pc' = [pc EXCEPT ![w] = "done"]
          /\ out' = [out EXCEPT ![w] = 0]
  /\ UNCHANGED <<written, remaining, stream>>

\* Mutant of Chunk: the write always starts at buf.data().
ChunkFromStart(w, n) == SubSeq(Buf(w), 1, n)

\* The bytes the write in flight asks for: from buf + has_written_bytes,
\* remaining_bytes of them.
Chunk(w, n) == SubSeq(Buf(w), written[w] + 1, written[w] + n)

\* Mutant of Advance: remaining_bytes grows by what was written.
AdvanceSignFlip(w, n) ==
  /\ written' = [written EXCEPT ![w] = @ + n]
  /\ remaining' = [remaining EXCEPT ![w] = @ + n]

\* has_written_bytes += ret.value(); remaining_bytes -= ret.value();
Advance(w, n) ==
  /\ written' = [written EXCEPT ![w] = @ + n]
  /\ remaining' = [remaining EXCEPT ![w] = @ - n]

\* The write completes having written n of the bytes, 1 <= n <= remaining,
\* as many as the peer's buffer has room for, and write_all resumes.
WriteOk(w) ==
  /\ pc[w] = "await"
  /\ \E n \in 1..remaining[w] :
       /\ Len(stream) + n <= PeerBuffer
       /\ stream' = stream \o Chunk(w, n)
       /\ Advance(w, n)
  /\ pc' = [pc EXCEPT ![w] = "loop"]
  /\ UNCHANGED out

\* The write fails: co_return std::unexpected{ret.error()}.
WriteErr(w) ==
  /\ pc[w] = "await"
  /\ \E e \in Errnos : out' = [out EXCEPT ![w] = e]
  /\ pc' = [pc EXCEPT ![w] = "done"]
  /\ UNCHANGED <<written, remaining, stream>>

Next == \E w \in Writers : LoopTest(w) \/ WriteOk(w) \/ WriteErr(w)

\* The task is resumed whenever its write completes; the kernel completes a
\* write that has room in the peer's buffer.
Fairness == \A w \in Writers : WF_vars(LoopTest(w)) /\ WF_vars(WriteOk(w))

Spec == Init /\ [][Next]_vars /\ Fairness

----------------------------------------------------------------------------

TypeOK ==
  /\ written \in [Writers -> 0..Size]
  /\ remaining \in [Writers -> 0..Size]
  /\ pc \in [Writers -> {"loop", "await", "done"}]
  /\ out \in [Writers -> {-1, 0} \cup Errnos]
  /\ stream \in Seq(Writers \X (1..Size))

\* The bytes of writer w in the stream, in stream order.
Sent(w) == SelectSeq(stream, LAMBDA b : b[1] = w)

\* The peer receives each writer's buffer in order, without gaps or
\* repeats: what it got from w so far is the first has_written_bytes bytes
\* of w's buffer, has_written + remaining is the buffer's size, and when
\* write_all returns Ok the whole buffer has arrived, and when it returns an
\* error (after any number of short writes) part of the buffer has not.
\* Other callers' chunks may sit between w's: only w's own order is
\* promised.
PeerGetsBuffer ==
  \A w \in Writers :
    /\ Sent(w) = SubSeq(Buf(w), 1, written[w])
    /\ written[w] + remaining[w] = Size
    /\ out[w] = 0 => Sent(w) = Buf(w)
    /\ out[w] \in Errnos => Len(Sent(w)) < Size

\* write_all returns (Ok or an error) in every execution where the kernel
\* completes its writes.
WriteAllReturns == \A w \in Writers : <>(pc[w] = "done")
=============================================================================
