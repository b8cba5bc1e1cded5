------------------------------ MODULE Awaiter ------------------------------
(***************************************************************************)
(* The operation-descriptor contract (spec.md 4.2, 6) as the awaiters of   *)
(* src/ implement it: SocketIO::accept's Accept and SocketIO::build_stream's *)
(* Connect (src/zedio/net/io.hpp) and io::Fsetxattr                        *)
(* (src/zedio/io/awaiter/fsetxattr.hpp).  Each awaiter is co_awaited by    *)
(* its own task:                                                           *)
(*   await_suspend  Connect first creates its socket (build_socket); if    *)
(*                  that fails it stores the error in cb_.result_ and      *)
(*                  returns false (resume at once); otherwise, like every  *)
(*                  awaiter, IORegistrator::await_suspend submits the op   *)
(*   the kernel     completes the op: cb_.result_ = fd or 0, or -errno     *)
(*   await_resume   result_ >= 0 is success, else error -result_; Connect *)
(*                  moves io_ into the Stream it returns                    *)
(*   destruction    the awaiter, a temporary of the co_await expression,   *)
(*                  dies; Connect's io_ member closes the fd it still holds *)
(*                  (io::IO's destructor, not under src/: spec.md 5)        *)
(* IORegistrator (the base class) is not under src/: its submit step is    *)
(* modelled from spec.md 4.2.  fds come from the one kernel fd table, so   *)
(* awaiters of different tasks interleave on it.                           *)
(***************************************************************************)
EXTENDS Integers, FiniteSets

CONSTANTS
  Awaiters,      \* awaiters, each being co_awaited by its own task
  Kinds,         \* the awaiter types: "accept", "connect", "fsetxattr"
  Fds,           \* fd numbers the kernel may hand out
  SocketErrnos,  \* errnos ::socket() may fail with in build_socket
  OpErrnos       \* errnos the kernel may complete an operation with

ASSUME Kinds \subseteq {"accept", "connect", "fsetxattr"} /\ Fds \subseteq Nat
ASSUME SocketErrnos \subseteq Nat \ {0} /\ OpErrnos \subseteq Nat \ {0}

VARIABLES
  kind,     \* kind[a]: the awaiter type of a
  pc,       \* pc[a]: "init", "submitted", "resumed", "done", "gone"
  result,   \* result[a]: cb_.result_
  io,       \* io[a]: Connect::io_.fd() (-1 until build_socket succeeds)
  open,     \* the kernel's open fd numbers
  out,      \* out[a]: what await_resume returned
  truth     \* ghost: truth[a]: how the operation really ended

vars == <<kind, pc, result, io, open, out, truth>>

\* A Result: ok with an fd (-1 when the value holds none) or an error code.
Ok(f)      == [ok |-> TRUE, fd |-> f, err |-> 0]
Err(e)     == [ok |-> FALSE, fd |-> -1, err |-> e]
NoResult   == [ok |-> FALSE, fd |-> -1, err |-> 0]
Results    == [ok : BOOLEAN, fd : Fds \cup {-1}, err : {0} \cup SocketErrnos \cup OpErrnos]

Init ==
  /\ kind \in [Awaiters -> Kinds]
  /\ pc = [a \in Awaiters |-> "init"]
  /\ result = [a \in Awaiters |-> 0]
  /\ io = [a \in Awaiters |-> -1]
  /\ open = {}
  /\ out = [a \in Awaiters |-> NoResult]
  /\ truth = [a \in Awaiters |-> NoResult]

Lowest(S) == CHOOSE f \in S : \A g \in S : f <= g

\* SocketIO::build_socket: ::socket(domain, type | SOCK_NONBLOCK, protocol);
\* the lowest free fd, or make_sys_error(errno).  The set of outcomes.
BuildSocket ==
  (IF Fds \ open # {} THEN {Ok(Lowest(Fds \ open))} ELSE {})
    \cup {Err(e) : e \in SocketErrnos}

----------------------------------------------------------------------------

\* Connect::await_suspend: build the socket; on failure store the error in
\* cb_.result_ and return false; else record the fd and submit the connect.
ConnectSuspend(a) ==
  /\ pc[a] = "init" /\ kind[a] = "connect"
  /\ \E r \in BuildSocket :
       IF ~r.ok
       THEN /\ result' = [result EXCEPT ![a] = r.err]
            /\ truth' = [truth EXCEPT ![a] = Err(r.err)]
            /\ pc' = [pc EXCEPT ![a] = "resumed"]
            /\ UNCHANGED <<io, open>>
       ELSE /\ io' = [io EXCEPT ![a] = r.fd]
            /\ open' = open \cup {r.fd}
            /\ pc' = [pc EXCEPT ![a] = "submitted"]
            /\ UNCHANGED <<result, truth>>
  /\ UNCHANGED <<kind, out>>

\* IORegistrator::await_suspend (spec.md 4.2): prep the SQE and suspend.
Submit(a) ==
  /\ pc[a] = "init" /\ kind[a] # "connect"
  /\ pc' = [pc EXCEPT ![a] = "submitted"]
  /\ UNCHANGED <<kind, result, io, open, out, truth>>

\* The kernel completes the operation and the Poller stores its result.
\* accept yields a new fd, connect and fsetxattr yield 0; or -errno.
Complete(a) ==
  /\ pc[a] = "submitted"
  /\ \/ /\ kind[a] = "accept" /\ Fds \ open # {}
        /\ LET f == Lowest(Fds \ open) IN
           /\ result' = [result EXCEPT ![a] = f]
           /\ open' = open \cup {f}
           /\ truth' = [truth EXCEPT ![a] = Ok(f)]
     \/ /\ kind[a] # "accept"
        /\ result' = [result EXCEPT ![a] = 0]
        /\ truth' = [truth EXCEPT ![a] = Ok(IF kind[a] = "connect" THEN io[a] ELSE -1)]
        /\ UNCHANGED open
     \/ \E e \in OpErrnos :
        /\ result' = [result EXCEPT ![a] = -e]
        /\ truth' = [truth EXCEPT ![a] = Err(e)]
        /\ UNCHANGED open
  /\ pc' = [pc EXCEPT ![a] = "resumed"]
  /\ UNCHANGED <<kind, io, out>>

\* Mutant of IsSuccess: a zero result (connect, fsetxattr, fd 0) is taken
\* for an error.
IsSuccessPositive(r) == r > 0

\* await_resume of the three awaiters: result_ >= 0 is success.
\* Accept: the new stream on fd result_; Connect: the stream owning io_;
\* Fsetxattr: an empty Result<size_t>.
IsSuccess(r) == r >= 0
\* Mutant of ResumeAccept: the error is built from result_ without negating it.
ResumeAcceptNoNegate(a) == IF IsSuccess(result[a]) THEN Ok(result[a]) ELSE Err(result[a])
ResumeAccept(a)    == IF IsSuccess(result[a]) THEN Ok(result[a]) ELSE Err(-result[a])
ResumeConnect(a)   == IF IsSuccess(result[a]) THEN Ok(io[a]) ELSE Err(-result[a])
ResumeFsetxattr(a) == IF IsSuccess(result[a]) THEN Ok(-1) ELSE Err(-result[a])

\* Mutant of MoveOut: the Stream is built from a copy of io_, which keeps
\* its fd.
MoveOutCopy(a) == io' = io
\* Stream{std::move(io_)}: on success io_ is left holding -1.
MoveOut(a) ==
  io' = IF kind[a] = "connect" /\ IsSuccess(result[a]) THEN [io EXCEPT ![a] = -1] ELSE io

Resume(a) ==
  /\ pc[a] = "resumed"
  /\ out' = [out EXCEPT ![a] = CASE kind[a] = "accept"  -> ResumeAccept(a)
                                 [] kind[a] = "connect" -> ResumeConnect(a)
                                 [] OTHER               -> ResumeFsetxattr(a)]
  /\ MoveOut(a)
  /\ pc' = [pc EXCEPT ![a] = "done"]
  /\ UNCHANGED <<kind, result, open, truth>>

\* The awaiter is destroyed after await_resume; Connect's SocketIO io_
\* member closes the fd it still holds (none after a move or a failed
\* build_socket).
Destroy(a) ==
  /\ pc[a] = "done"
  /\ pc' = [pc EXCEPT ![a] = "gone"]
  /\ open' = open \ {io[a]}
  /\ io' = [io EXCEPT ![a] = -1]
  /\ UNCHANGED <<kind, result, out, truth>>

Next == \E a \in Awaiters :
          ConnectSuspend(a) \/ Submit(a) \/ Complete(a) \/ Resume(a) \/ Destroy(a)

Spec == Init /\ [][Next]_vars

----------------------------------------------------------------------------

TypeOK ==
  /\ kind \in [Awaiters -> Kinds]
  /\ pc \in [Awaiters -> {"init", "submitted", "resumed", "done", "gone"}]
  /\ result \in [Awaiters -> Int]
  /\ io \in [Awaiters -> Fds \cup {-1}]
  /\ open \subseteq Fds
  /\ out \in [Awaiters -> Results]
  /\ truth \in [Awaiters -> Results]

\* spec.md 6: raw >= 0 is success(raw), raw < 0 is failure(-raw).  What an
\* awaiter returns is success exactly when its operation (and, for Connect,
\* the socket it creates first) succeeded; a returned stream holds the fd
\* the kernel handed out; an error carries the errno that caused it.
ResultFaithful ==
  \A a \in Awaiters : pc[a] \in {"done", "gone"} => out[a] = truth[a]

\* Who holds fd f: a Connect's io_, a Stream an awaiter returned, or an
\* accept's completion whose fd await_resume has not yet taken.
Holders(f) ==
  {<<"io_", a>> : a \in {b \in Awaiters : io[b] = f}}
    \cup {<<"stream", a>> : a \in {b \in Awaiters : pc[b] \in {"done", "gone"}
                                                    /\ out[b].ok /\ out[b].fd = f}}
    \cup {<<"cqe", a>> : a \in {b \in Awaiters : kind[b] = "accept" /\ pc[b] = "resumed"
                                                 /\ result[b] = f}}

\* Every fd the kernel has open is held by exactly one owner, and no owner
\* holds a closed fd: a Connect whose operation failed after build_socket
\* closes its socket when the awaiter dies, and one that succeeded hands
\* the socket to the Stream without closing it under the Stream.
FdsHeldOnce ==
  \A f \in Fds : Cardinality(Holders(f)) = IF f \in open THEN 1 ELSE 0

=============================================================================
