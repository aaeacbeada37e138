--------------------------- MODULE ExecutionWorker ---------------------------
(***************************************************************************)
(* ExecutionWorker (app/workers/execution_worker.py): the pool of one      *)
(* thread in which every trading call, private-stream event and recovery   *)
(* runs, on top of IdempotentOrderService.                                 *)
(*                                                                         *)
(* Tasks run one at a time.  A task alternates calls of the service with   *)
(* steps of its own, which the modules that extend this one define for     *)
(* the opening and the closing plans; between any two steps the exchange   *)
(* may act and the process may end.                                        *)
(***************************************************************************)
EXTENDS OrderService

CONSTANTS
    Plan,           \* the operation: a position_id
    Pool,           \* the thread of the worker's pool
    LateEvents,     \* whether private events still arrive after a final result
    StreamsFail     \* whether a private stream may be down when a leg is due

ASSUME WorkerAssumption ==
    /\ Ops = {Plan} /\ Threads = {Pool}
    /\ LateEvents \in BOOLEAN /\ StreamsFail \in BOOLEAN

VARIABLES
    task,       \* what the pool is executing
    recovery    \* recover_pending and the recovery monitor

worker == <<task, recovery>>

\* confirm: confirm_deferred; defer: defer_not_ready; restoring: the monitor
\* waits for the task.
Task(stage, leg, confirm, defer, restoring) ==
    [stage |-> stage, leg |-> leg, confirm |-> confirm, defer |-> defer,
     restoring |-> restoring]
NoTask == Task("free", "none", FALSE, FALSE, FALSE)

\* _recovering_ids holds the plan; "stuck": for good.
Recovering == recovery \in {"restore", "leave", "stuck"}

\* _require_recovery_complete: something of an earlier operation is pending.
RecoveryComplete == /\ \A k \in Keys : submitted[k] = NoRequest
                    /\ \A o \in Ops : contexts[o] = NoContext

-----------------------------------------------------------------------------
(* How a task goes on and ends *)

Free == task.stage = "free" /\ call[Pool].phase = "idle"
At(stage) == task.stage = stage /\ call[Pool].phase = "idle"

\* The service has answered: the caller takes the answer and goes on.
After(stage) == task.stage = stage /\ call[Pool].phase = "done" /\ Return(Pool)
Answer == call[Pool].result

GoTo(stage, leg) == /\ task' = [task EXCEPT !.stage = stage, !.leg = leg]
                    /\ UNCHANGED recovery

\* The task returns a result: a monitor that waited for it leaves the plan.
Finish == /\ task' = NoTask
          /\ recovery' = IF task.restoring THEN "leave" ELSE recovery
\* An exception leaves the task: a monitor that waited for it gives up.
Raise == /\ task' = NoTask
         /\ recovery' = IF task.restoring THEN "stuck" ELSE recovery
\* LiveReadinessError leaves the task: a monitor tries the plan again later.
RaiseNotReady == /\ task' = NoTask
                 /\ UNCHANGED recovery

\* The service call a task has begun; a call inside the service goes on alone.
InService == /\ \/ CreateSend(Pool) \/ CreateReturned(Pool) \/ CreateMismatched(Pool)
                \/ CreateUnreadable(Pool) \/ CreateRefused(Pool) \/ CreateUnclear(Pool)
                \/ QuerySend(Pool) \/ QueryReturned(Pool) \/ QueryMismatched(Pool)
                \/ QueryFailed(Pool)
             /\ UNCHANGED worker

\* OrderReconciler.apply for order snapshots: a snapshot that takes back fills
\* or a terminal status is out of order; so is one whose time is before that of
\* the order held, as after an acknowledgement stamped by a clock ahead.
Reconciled(held, incoming) ==
    IF held # NoOrder /\ \/ incoming.filled < held.filled
                         \/ IsTerminal(held) /\ incoming.status # held.status
    THEN {held}
    ELSE {incoming} \cup ({held} \ {NoOrder})

-----------------------------------------------------------------------------
(* Recovery after a restart *)

\* recover_pending, first task of the new process; then the monitor starts,
\* unless an exception of the query ends the recovery.
Monitored == IF contexts[Plan] = NoContext THEN "none" ELSE "restore"

RecoverStart ==
    /\ Free /\ recovery = "query"
    /\ IF \E k \in Keys : submitted[k] # NoRequest
       THEN /\ RecoverPending(Pool)
            /\ task' = Task("querying", "none", FALSE, FALSE, FALSE)
            /\ UNCHANGED recovery
       ELSE recovery' = Monitored /\ UNCHANGED <<vars, task>>

RecoverEnd ==
    /\ After("querying")
    /\ task' = NoTask
    /\ recovery' = IF Answer \in {"oserror", "invalid"} THEN "none" ELSE Monitored

\* The monitor thread takes the plan out of _recovering_ids.
MonitorLeaves == /\ recovery = "leave"
                 /\ recovery' = "none"
                 /\ UNCHANGED <<vars, task>>

Recover == RecoverStart \/ RecoverEnd \/ MonitorLeaves

WorkerRestart ==
    /\ Restart
    /\ task' = NoTask
    /\ recovery' = IF \/ \E k \in Keys : journal.orders[k] # NoRequest
                      \/ journal.contexts[Plan] # NoContext
                   THEN "query" ELSE "none"

WorkerInit == Init /\ task = NoTask /\ recovery = "none"
=============================================================================
