--------------------------- MODULE TaskLifecycle ---------------------------
(***************************************************************************)
(* What the runtime promises about one task (spec.md 4.1): the state       *)
(* machine                                                                 *)
(*   Idle -spawn-> Scheduled -pop-> Running -suspend-> SuspendedOnIO       *)
(*   SuspendedOnIO -wake-> Scheduled,  Running -> Completed | Cancelled    *)
(* with at most one step of one task at a time, a terminal state that      *)
(* never changes, and Cancelled reached exactly when cancel() was called   *)
(* on the task's JoinHandle.  Scheduler refines this specification.        *)
(***************************************************************************)
CONSTANTS Tasks,  \* all tasks
          Root    \* the task handed to block_on, scheduled from the start

VARIABLES status,     \* status[t]: the lifecycle state of task t
          cancelReq   \* cancelReq[t]: cancel() was called on t's JoinHandle

States   == {"Idle", "Scheduled", "Running", "Suspended", "Completed", "Cancelled"}
Terminal == {"Completed", "Cancelled"}

Init == /\ status = [t \in Tasks |-> IF t = Root THEN "Scheduled" ELSE "Idle"]
        /\ cancelReq = [t \in Tasks |-> FALSE]

Move(t, from, to) == /\ status[t] = from
                     /\ status' = [status EXCEPT ![t] = to]
                     /\ UNCHANGED cancelReq

Spawn(t)    == Move(t, "Idle", "Scheduled")
Start(t)    == Move(t, "Scheduled", "Running")
Suspend(t)  == Move(t, "Running", "Suspended")
Wake(t)     == Move(t, "Suspended", "Scheduled")
Complete(t) == ~cancelReq[t] /\ Move(t, "Running", "Completed")
Abort(t)    == cancelReq[t] /\ Move(t, "Running", "Cancelled")

Cancel(t) == /\ status[t] \notin {"Idle"} \cup Terminal
             /\ ~cancelReq[t]
             /\ cancelReq' = [cancelReq EXCEPT ![t] = TRUE]
             /\ UNCHANGED status

Next == \E t \in Tasks :
          \/ Spawn(t) \/ Start(t) \/ Suspend(t) \/ Wake(t)
          \/ Complete(t) \/ Abort(t) \/ Cancel(t)

Spec == Init /\ [][Next]_<<status, cancelReq>>
=============================================================================
