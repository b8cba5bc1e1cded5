----------------------------- MODULE Scheduler -----------------------------
(***************************************************************************)
(* The runtime core of spec.md 4.1-4.7: N workers, each with a bounded     *)
(* LocalQueue and a Poller (an io_uring ring pair), one shared GlobalQueue *)
(* and the task state machine.  The code of the core is not under src/;    *)
(* every definition here is modelled from spec.md (spec_modelled).         *)
(*                                                                         *)
(* A worker runs the main loop of 4.6 as a sequence of atomic steps, one   *)
(* per shared structure it touches, named by pc[w]:                        *)
(*   "io"      step 1: every check_io_interval_ ticks, drain a completion  *)
(*   "global"  step 2: every check_global_interval_ ticks, pull one task   *)
(*   "acquire" step 3: pop local, else a global batch, else steal half     *)
(*   "run"     step 4: poll the task to suspension or completion           *)
(*   "park"    step 5: nothing found; about to block on the ring           *)
(*   "parked"  blocked until a completion, an unpark or a timeout          *)
(*   "drain"   after waking: drain every completion, then step 6 (tick++)  *)
(* The kernel completes submitted operations in any order.  Tasks are      *)
(* spawned from a running task (local push) or from outside (global push  *)
(* and unpark), and cancelled through their JoinHandle.                    *)
(***************************************************************************)
EXTENDS Integers, Sequences, FiniteSets, FiniteSetsExt

CONSTANTS
  Workers,        \* worker threads
  Worker0,        \* the thread that called block_on
  Tasks,          \* tasks, Root included
  Root,           \* the task handed to block_on
  LocalCapacity,  \* Config::LOCAL_QUEUE_CAPACITY
  check_io_interval_,      \* Config::check_io_interval_
  check_global_interval_,  \* Config::check_global_interval_
  MaxIO,          \* bound: I/O operations a task issues before it completes
  ParkTimeout,    \* TRUE: a parked worker also wakes on a timeout (4.3 park)
  None

ASSUME /\ Worker0 \in Workers /\ Root \in Tasks /\ None \notin Tasks
       /\ LocalCapacity \in Nat /\ LocalCapacity >= 2 /\ LocalCapacity % 2 = 0
       /\ check_io_interval_ \in Nat \ {0} /\ check_global_interval_ \in Nat \ {0}
       /\ MaxIO \in Nat /\ ParkTimeout \in BOOLEAN

VARIABLES
  local,      \* local[w]: worker w's LocalQueue, Head = next task to pop
  global,     \* the GlobalQueue, FIFO
  state,      \* state[t]: lifecycle state of task t
  ioLeft,     \* ioLeft[t]: I/O operations task t still issues
  cancelled,  \* cancelled[t]: the cancellation flag set by cancel()
  running,    \* running[w]: the task in worker w's current frame, or None
  pc,         \* pc[w]: the step of the main loop worker w is at
  tick,       \* tick[w]: worker w's tick counter modulo TickPeriod
  inflight,   \* operations submitted to the kernel, not yet completed
  cq,         \* cq[w]: completions posted on worker w's ring, not drained
  unparked    \* unparked[w]: an unpark nudge (eventfd) is pending for w

vars == <<local, global, state, ioLeft, cancelled, running, pc, tick,
          inflight, cq, unparked>>

Terminal == {"Completed", "Cancelled"}
Kinds    == {"io", "cancel"}   \* a task's own operation, or its cancel op
Ops      == [task : Tasks, kind : Kinds, ring : Workers]
Cqes     == [task : Tasks, kind : Kinds]
Pcs      == {"io", "global", "acquire", "run", "park", "parked", "drain"}

Init ==
  /\ local = [w \in Workers |-> IF w = Worker0 THEN <<Root>> ELSE <<>>]
  /\ global = <<>>
  /\ state = [t \in Tasks |-> IF t = Root THEN "Scheduled" ELSE "Idle"]
  /\ ioLeft \in [Tasks -> 0..MaxIO]
  /\ cancelled = [t \in Tasks |-> FALSE]
  /\ running = [w \in Workers |-> None]
  /\ pc = [w \in Workers |-> "io"]
  /\ tick = [w \in Workers |-> 0]
  /\ inflight = {}
  /\ cq = [w \in Workers |-> {}]
  /\ unparked = [w \in Workers |-> FALSE]

----------------------------------------------------------------------------
(* Queue operations (4.4, 4.5)                                             *)

\* Mutant of PushBack: the full test is off by one.
PushBackOffByOne(q, g, t) ==
  IF Len(q) <= LocalCapacity
  THEN <<Append(q, t), g>>
  ELSE <<Append(SubSeq(q, LocalCapacity \div 2 + 1, Len(q)), t),
         g \o SubSeq(q, 1, LocalCapacity \div 2)>>

\* LocalQueue::push_back: when the queue is full, the older half moves to
\* the end of the global queue, then the task is pushed.  <<local, global>>.
PushBack(q, g, t) ==
  IF Len(q) < LocalCapacity
  THEN <<Append(q, t), g>>
  ELSE <<Append(SubSeq(q, LocalCapacity \div 2 + 1, Len(q)), t),
         g \o SubSeq(q, 1, LocalCapacity \div 2)>>

\* push_back of every task of s in order.
RECURSIVE PushAll(_, _, _)
PushAll(q, g, s) ==
  IF s = <<>> THEN <<q, g>>
  ELSE LET r == PushBack(q, g, Head(s)) IN PushAll(r[1], r[2], Tail(s))

\* GlobalQueue enqueue wakes one parked worker, if there is one (4.5).
NotifyParked(grew) ==
  IF grew /\ \E p \in Workers : pc[p] = "parked"
  THEN \E p \in {q \in Workers : pc[q] = "parked"} :
         unparked' = [unparked EXCEPT ![p] = TRUE]
  ELSE UNCHANGED unparked

\* Push t on worker w's local queue, overflowing into the global queue.
Enqueue(w, t) ==
  LET r == PushBack(local[w], global, t)
  IN /\ local' = [local EXCEPT ![w] = r[1]]
     /\ global' = r[2]
     /\ NotifyParked(Len(r[2]) > Len(global))

\* Mutant of Dispatch: the waker marks the task Scheduled but the push onto
\* the local queue is lost.
DispatchNoEnqueue(w, c) ==
  /\ cq' = [cq EXCEPT ![w] = @ \ {c}]
  /\ IF c.kind = "io" /\ state[c.task] = "Suspended"
     THEN state' = [state EXCEPT ![c.task] = "Scheduled"]
     ELSE UNCHANGED state
  /\ UNCHANGED <<local, global, unparked>>

\* Poller::drain_completions for one completion c on worker w's ring: the
\* waker of an I/O completion moves its task SuspendedOnIO -> Scheduled on
\* this (its home) worker; wake() is idempotent; a cancel op has no waker.
Dispatch(w, c) ==
  /\ cq' = [cq EXCEPT ![w] = @ \ {c}]
  /\ IF c.kind = "io" /\ state[c.task] = "Suspended"
     THEN /\ state' = [state EXCEPT ![c.task] = "Scheduled"]
          /\ Enqueue(w, c.task)
     ELSE UNCHANGED <<state, local, global, unparked>>

\* Worker w starts running task t (4.6 step 4).
StartRunning(w, t) ==
  /\ running' = [running EXCEPT ![w] = t]
  /\ state' = [state EXCEPT ![t] = "Running"]
  /\ pc' = [pc EXCEPT ![w] = "run"]

\* Both checks depend on the tick only modulo the product of the intervals.
TickPeriod == check_io_interval_ * check_global_interval_
NextTick(w) == tick' = [tick EXCEPT ![w] = (@ + 1) % TickPeriod]
\* tick % check_io_interval_ == 0: step 1 polls finished I/O this tick.
IoCheckDue(w) == tick[w] % check_io_interval_ = 0
\* tick % check_global_interval_ == 0: step 2 pops the global queue.
GlobalCheckDue(w) == tick[w] % check_global_interval_ = 0

----------------------------------------------------------------------------
(* Worker main loop (4.6)                                                  *)

\* Step 1: every check_io_interval_ ticks, drain one completion without
\* blocking.
CheckIO(w) ==
  /\ pc[w] = "io"
  /\ \/ /\ IoCheckDue(w) /\ cq[w] # {}
        /\ \E c \in cq[w] : Dispatch(w, c)
     \/ /\ ~IoCheckDue(w) \/ cq[w] = {}
        /\ UNCHANGED <<cq, state, local, global, unparked>>
  /\ pc' = [pc EXCEPT ![w] = "global"]
  /\ UNCHANGED <<ioLeft, cancelled, running, tick, inflight>>

\* Step 2: every check_global_interval_ ticks, pull one task from the global
\* queue.
CheckGlobal(w) ==
  /\ pc[w] = "global"
  /\ IF GlobalCheckDue(w) /\ global # <<>>
     THEN LET r == PushBack(local[w], Tail(global), Head(global))
          IN /\ local' = [local EXCEPT ![w] = r[1]]
             /\ global' = r[2]
             /\ NotifyParked(Len(r[2]) >= Len(global))
     ELSE UNCHANGED <<local, global, unparked>>
  /\ pc' = [pc EXCEPT ![w] = "acquire"]
  /\ UNCHANGED <<state, ioLeft, cancelled, running, tick, inflight, cq>>

\* Step 3, first choice: LocalQueue::pop_front.
PopLocal(w) ==
  /\ pc[w] = "acquire" /\ local[w] # <<>>
  /\ local' = [local EXCEPT ![w] = Tail(@)]
  /\ StartRunning(w, Head(local[w]))
  /\ UNCHANGED <<global, ioLeft, cancelled, tick, inflight, cq, unparked>>

\* Step 3, local miss: take ceil(len / N) tasks from the global queue, run
\* the first and push the rest on the local queue.
PopGlobalBatch(w) ==
  /\ pc[w] = "acquire" /\ local[w] = <<>> /\ global # <<>>
  /\ LET n     == (Len(global) + Cardinality(Workers) - 1) \div Cardinality(Workers)
         batch == SubSeq(global, 1, n)
         r     == PushAll(<<>>, SubSeq(global, n + 1, Len(global)), Tail(batch))
     IN /\ local' = [local EXCEPT ![w] = r[1]]
        /\ global' = r[2]
        /\ StartRunning(w, Head(batch))
  /\ UNCHANGED <<ioLeft, cancelled, tick, inflight, cq, unparked>>

\* Mutant of StealHalf: the thief copies the tasks but the victim's tail
\* is never advanced, so the victim keeps them.
StealHalfKeepVictim(w) ==
  /\ pc[w] = "acquire" /\ local[w] = <<>> /\ global = <<>>
  /\ \E v \in Workers \ {w} :
       /\ local[v] # <<>>
       /\ LET k      == (Len(local[v]) + 1) \div 2
              stolen == SubSeq(local[v], Len(local[v]) - k + 1, Len(local[v]))
          IN /\ local' = [local EXCEPT ![w] = Tail(stolen)]
             /\ StartRunning(w, Head(stolen))
  /\ UNCHANGED <<global, ioLeft, cancelled, tick, inflight, cq, unparked>>

\* Step 3, global miss: steal_half from a peer, taking (len+1)/2 tasks from
\* the back of its queue into this worker's queue, then pop one.
StealHalf(w) ==
  /\ pc[w] = "acquire" /\ local[w] = <<>> /\ global = <<>>
  /\ \E v \in Workers \ {w} :
       /\ local[v] # <<>>
       /\ LET k      == (Len(local[v]) + 1) \div 2
              keep   == Len(local[v]) - k
              stolen == SubSeq(local[v], keep + 1, Len(local[v]))
          IN /\ local' = [local EXCEPT ![v] = SubSeq(@, 1, keep),
                                       ![w] = Tail(stolen)]
             /\ StartRunning(w, Head(stolen))
  /\ UNCHANGED <<global, ioLeft, cancelled, tick, inflight, cq, unparked>>

\* Step 3 finds nothing anywhere: go to step 5.
FindNothing(w) ==
  /\ pc[w] = "acquire" /\ local[w] = <<>> /\ global = <<>>
  /\ \A v \in Workers : local[v] = <<>>
  /\ pc' = [pc EXCEPT ![w] = "park"]
  /\ UNCHANGED <<local, global, state, ioLeft, cancelled, running, tick,
                 inflight, cq, unparked>>

\* Mutant of Poll: the flag set by cancel() is never looked at.
PollIgnoringCancel(w) ==
  /\ pc[w] = "run"
  /\ LET t == running[w] IN
     \/ /\ ioLeft[t] > 0
        /\ state' = [state EXCEPT ![t] = "Suspended"]
        /\ inflight' = inflight \cup {[task |-> t, kind |-> "io", ring |-> w]}
        /\ ioLeft' = [ioLeft EXCEPT ![t] = @ - 1]
     \/ /\ ioLeft[t] = 0
        /\ state' = [state EXCEPT ![t] = "Completed"]
        /\ UNCHANGED <<inflight, ioLeft>>
  /\ running' = [running EXCEPT ![w] = None]
  /\ pc' = [pc EXCEPT ![w] = "io"]
  /\ NextTick(w)
  /\ UNCHANGED <<local, global, cancelled, cq, unparked>>

\* Step 4: poll() the running task once.  A task whose flag is set
\* short-circuits to Cancelled; a task with I/O left suspends on a new
\* operation submitted to this worker's Poller; otherwise it completes.
Poll(w) ==
  /\ pc[w] = "run"
  /\ LET t == running[w] IN
     \/ /\ cancelled[t]
        /\ state' = [state EXCEPT ![t] = "Cancelled"]
        /\ UNCHANGED <<inflight, ioLeft>>
     \/ /\ ~cancelled[t] /\ ioLeft[t] > 0
        /\ state' = [state EXCEPT ![t] = "Suspended"]
        /\ inflight' = inflight \cup {[task |-> t, kind |-> "io", ring |-> w]}
        /\ ioLeft' = [ioLeft EXCEPT ![t] = @ - 1]
     \/ /\ ~cancelled[t] /\ ioLeft[t] = 0
        /\ state' = [state EXCEPT ![t] = "Completed"]
        /\ UNCHANGED <<inflight, ioLeft>>
  /\ running' = [running EXCEPT ![w] = None]
  /\ pc' = [pc EXCEPT ![w] = "io"]
  /\ NextTick(w)
  /\ UNCHANGED <<local, global, cancelled, cq, unparked>>

\* Step 5: flush submissions and block on the completion ring.
Park(w) ==
  /\ pc[w] = "park"
  /\ pc' = [pc EXCEPT ![w] = "parked"]
  /\ UNCHANGED <<local, global, state, ioLeft, cancelled, running, tick,
                 inflight, cq, unparked>>

\* The ring has a completion, or an unpark nudge arrived: stop blocking.
WakeUp(w) ==
  /\ pc[w] = "parked" /\ (cq[w] # {} \/ unparked[w])
  /\ pc' = [pc EXCEPT ![w] = "drain"]
  /\ unparked' = [unparked EXCEPT ![w] = FALSE]
  /\ UNCHANGED <<local, global, state, ioLeft, cancelled, running, tick,
                 inflight, cq>>

\* park(timeout): the timeout elapses (only where the park has one).
Timeout(w) ==
  /\ ParkTimeout /\ pc[w] = "parked"
  /\ pc' = [pc EXCEPT ![w] = "drain"]
  /\ UNCHANGED <<local, global, state, ioLeft, cancelled, running, tick,
                 inflight, cq, unparked>>

\* On the park path the drain budget is unbounded: one completion per step.
Drain(w) ==
  /\ pc[w] = "drain" /\ cq[w] # {}
  /\ \E c \in cq[w] : Dispatch(w, c)
  /\ UNCHANGED <<ioLeft, cancelled, running, pc, tick, inflight>>

\* Step 6 after the park path: increment tick and loop.
DrainDone(w) ==
  /\ pc[w] = "drain" /\ cq[w] = {}
  /\ pc' = [pc EXCEPT ![w] = "io"]
  /\ NextTick(w)
  /\ UNCHANGED <<local, global, state, ioLeft, cancelled, running, inflight,
                 cq, unparked>>

----------------------------------------------------------------------------
(* Task API (4.1, 4.7) and the kernel                                      *)

\* spawn() from the task running on worker w: enqueue locally.
SpawnLocal(w, t) ==
  /\ pc[w] = "run" /\ state[t] = "Idle"
  /\ state' = [state EXCEPT ![t] = "Scheduled"]
  /\ Enqueue(w, t)
  /\ UNCHANGED <<ioLeft, cancelled, running, pc, tick, inflight, cq>>

\* spawn() with no worker context: enqueue globally and unpark one worker.
SpawnGlobal(t) ==
  /\ state[t] = "Idle"
  /\ state' = [state EXCEPT ![t] = "Scheduled"]
  /\ global' = Append(global, t)
  /\ NotifyParked(TRUE)
  /\ UNCHANGED <<local, ioLeft, cancelled, running, pc, tick, inflight, cq>>

\* The ring holding task t's pending I/O operation (inflight or posted).
RingOf(t) ==
  CHOOSE w \in Workers :
    \/ [task |-> t, kind |-> "io", ring |-> w] \in inflight
    \/ [task |-> t, kind |-> "io"] \in cq[w]

\* JoinHandle::cancel(): set the flag; a task suspended on I/O also gets a
\* cancel operation for its tag submitted on the operation's ring.
Cancel(t) ==
  /\ state[t] \notin {"Idle"} \cup Terminal /\ ~cancelled[t]
  /\ cancelled' = [cancelled EXCEPT ![t] = TRUE]
  /\ inflight' = IF state[t] = "Suspended"
                 THEN inflight \cup {[task |-> t, kind |-> "cancel", ring |-> RingOf(t)]}
                 ELSE inflight
  /\ UNCHANGED <<local, global, state, ioLeft, running, pc, tick, cq, unparked>>

\* The kernel posts the completion of op.  A cancel op also terminates the
\* I/O operation it targets if that is still in flight (-ECANCELED).
KernelComplete(op) ==
  LET done == IF op.kind = "cancel"
              THEN {o \in inflight : o.task = op.task /\ o.ring = op.ring}
              ELSE {op}
  IN /\ inflight' = inflight \ done
     /\ cq' = [w \in Workers |->
                 cq[w] \cup {[task |-> o.task, kind |-> o.kind] : o \in {x \in done : x.ring = w}}]
     /\ UNCHANGED <<local, global, state, ioLeft, cancelled, running, pc, tick, unparked>>

WorkerStep(w) ==
  \/ CheckIO(w) \/ CheckGlobal(w) \/ PopLocal(w) \/ PopGlobalBatch(w)
  \/ StealHalf(w) \/ FindNothing(w) \/ Poll(w) \/ Park(w) \/ WakeUp(w)
  \/ Timeout(w) \/ Drain(w) \/ DrainDone(w)

Next ==
  \/ \E w \in Workers : WorkerStep(w)
  \/ \E w \in Workers, t \in Tasks : SpawnLocal(w, t)
  \/ \E t \in Tasks : SpawnGlobal(t) \/ Cancel(t)
  \/ \E op \in inflight : KernelComplete(op)

\* Worker threads are scheduled by the OS and never stop on their own; the
\* kernel completes every submitted operation (the spec's assumption for
\* No-loss).  Spawning and cancelling are up to the application: not fair.
Fairness ==
  /\ \A w \in Workers : WF_vars(WorkerStep(w))
  /\ \A op \in Ops : WF_vars(op \in inflight /\ KernelComplete(op))

Spec == Init /\ [][Next]_vars /\ Fairness

----------------------------------------------------------------------------
(* Properties                                                              *)

TypeOK ==
  /\ local \in [Workers -> Seq(Tasks)]
  /\ \A w \in Workers : Len(local[w]) <= LocalCapacity
  /\ global \in Seq(Tasks)
  /\ state \in [Tasks -> {"Idle", "Scheduled", "Running", "Suspended"} \cup Terminal]
  /\ ioLeft \in [Tasks -> 0..MaxIO]
  /\ cancelled \in [Tasks -> BOOLEAN]
  /\ running \in [Workers -> Tasks \cup {None}]
  /\ pc \in [Workers -> Pcs]
  /\ tick \in [Workers -> 0..(TickPeriod - 1)]
  /\ inflight \subseteq Ops
  /\ cq \in [Workers -> SUBSET Cqes]
  /\ unparked \in [Workers -> BOOLEAN]

Count(s, t) == Len(SelectSeq(s, LAMBDA x : x = t))
\* Queue entries of t, counted with multiplicity over every queue.
QueueRefs(t) == Count(global, t) + MapThenSumSet(LAMBDA w : Count(local[w], t), Workers)
RunRefs(t)   == Cardinality({w \in Workers : running[w] = t})
IORefs(t)    == Cardinality({o \in inflight : o.task = t /\ o.kind = "io"})
                  + Cardinality({w \in Workers : [task |-> t, kind |-> "io"] \in cq[w]})

\* Spec 4.1 / property 3: a task is referenced by exactly one of {a queue
\* entry, a pending I/O operation (the Poller's waker slot), a worker's
\* running frame}, the one its state names; Idle and terminal tasks by
\* none.  Breaks if a steal, an overflow or a batch pull duplicates or drops
\* a task, or a completion wakes a task a second time.
TaskInOnePlace ==
  \A t \in Tasks :
    <<QueueRefs(t), RunRefs(t), IORefs(t)>> =
      CASE state[t] = "Scheduled" -> <<1, 0, 0>>
        [] state[t] = "Running"   -> <<0, 1, 0>>
        [] state[t] = "Suspended" -> <<0, 0, 1>>
        [] OTHER                  -> <<0, 0, 0>>

\* Spec property 1 (No-loss): every spawned task eventually completes or is
\* cancelled, given that its I/O completes.  Breaks if a worker parks while
\* a task waits in a queue and nothing ever unparks it.
NoLoss == \A t \in Tasks : state[t] # "Idle" ~> state[t] \in Terminal

\* The lifecycle promised by spec 4.1 (module TaskLifecycle): every task
\* step is a legal transition, terminal states are final, and a task ends
\* Cancelled exactly when its JoinHandle was cancelled.
Lifecycle == INSTANCE TaskLifecycle WITH status <- state, cancelReq <- cancelled
LifecycleRefined == Lifecycle!Spec
=============================================================================
