--------------------------- MODULE RecoveryMonitor ---------------------------
(***************************************************************************)
(* ExecutionWorker (app/workers/execution_worker.py) with several plans:   *)
(* the queue of its one-thread pool, the recovery monitor that restores    *)
(* the plans of the journal, and shutdown.  A plan is no more here than    *)
(* what its coordinator answers; ExecutionWorker and OpenCoordinator have  *)
(* its legs and orders.                                                    *)
(***************************************************************************)
EXTENDS Naturals, Sequences, SequencesExt

CONSTANTS
    Operations,     \* position ids
    MaxEvents,      \* bound: private events, and changes of the streams
    MaxErrors       \* bound: tasks that end with an unexpected exception

ASSUME MonitorAssumption ==
    /\ "none" \notin Operations     \* None is no plan
    /\ MaxEvents \in Nat /\ MaxErrors \in Nat

VARIABLES
    journalled, \* recovery_contexts; "confirm": with confirmation_required
    results,    \* _results of the coordinator
    restored,   \* the plans its _contexts hold
    uncertain,  \* pending_requests of an earlier process
    streamsUp,  \* _readiness_check
    tasks,      \* the queue of the pool
    running,    \* what the pool executes
    monitor,    \* where _monitor_recovery is
    target,     \* the plan it has submitted
    answer,     \* what its future holds: a result, or how the task ended
    remaining, waiting, \* its lists of plans to restore, now and next time
    recovering, \* _recovering_ids
    completion, \* _recovery_completion
    ending,     \* where shutdown is
    watched,    \* whether a presenter is connected to open_completed
    signals,    \* its results, queued for the thread of the user interface
    spent       \* what is used of the bounds

planVars == <<journalled, results, restored, uncertain, watched>>
queueVars == <<tasks, running>>
monitorVars == <<monitor, target, answer, remaining, waiting, recovering>>
workerVars == <<planVars, streamsUp, queueVars, monitorVars, completion, ending, signals,
                spent>>

Final == {"completed", "failed"}
Statuses == Final \cup {"unknown", "deferred"}  \* unknown: and incomplete
Unfinished == {o \in Operations : journalled[o] # "no"}
IsShutdown == ending # "no"

\* swallow: the event found its plan in _recovering_ids
Job(do, o, swallow) == [do |-> do, op |-> o, swallow |-> swallow]
NoJob == Job("none", "none", FALSE)
Signal(o, status, by) == [op |-> o, status |-> status, by |-> by]

Spend(what, bound) == /\ spent[what] < bound
                      /\ spent' = [spent EXCEPT ![what] = @ + 1]

-----------------------------------------------------------------------------
(* _advance, as far as the worker can tell.  A plan that was deferred      *)
(* waits to be confirmed; a leg that is due needs the streams, or the plan *)
(* is deferred; and the orders decide the rest.                            *)

Advanced(o, status) ==
    /\ results' = [results EXCEPT ![o] = status]
    /\ journalled' = [journalled EXCEPT ![o] =
           CASE status \in Final -> "no"
             [] status = "deferred" -> "confirm"
             [] status = "unknown" -> "plain"]
    /\ restored' = restored \cup {o}

\* What it may return.  A plan that is over stays as it is: that an order of a
\* plan that failed may live all the same is in OpenCoordinator.
Outcomes(o, confirmed) ==
    IF results[o] \in Final THEN {results[o]}
    ELSE IF journalled[o] = "confirm" /\ ~confirmed THEN {"deferred"}
    ELSE {"unknown"} \cup Final

\* What it returns when a leg is due and the streams are down, unless it raises.
Deferrable(o, confirmed) ==
    ~streamsUp /\ results[o] \notin Final /\ (journalled[o] = "confirm" => confirmed)

\* by: the pool or the monitor
Emit(o, status, by) == signals' = IF IsShutdown \/ ~watched THEN signals
                                  ELSE Append(signals, Signal(o, status, by))

\* A task of the user or of a private event, and the callback of its future.
Answered(o, confirmed) ==
    \E status \in Outcomes(o, confirmed) \cup
                  IF Deferrable(o, confirmed) /\ ~running.swallow THEN {"deferred"} ELSE {} :
        Advanced(o, status) /\ Emit(o, status, "pool") /\ UNCHANGED spent

-----------------------------------------------------------------------------
(* The pool                                                                *)

TaskDone == running' = NoJob /\ UNCHANGED tasks
Raises == Spend("errors", MaxErrors)

\* _apply_private_order reads _recovering_ids as it begins.
TaskBegins ==
    /\ running = NoJob /\ tasks # <<>>
    /\ LET job == Head(tasks) IN
       running' = [job EXCEPT !.swallow = job.do = "event" /\ job.op \in recovering]
    /\ tasks' = Tail(tasks)
    /\ UNCHANGED <<planVars, streamsUp, monitorVars, completion, ending, signals, spent>>

\* Mutant: the query's exception is not passed on.
CompletionForgotten == UNCHANGED completion

CompletionFails == completion' = "error"

\* recover_pending of the service, then _start_recovery_monitor.
QueryEnds ==
    /\ running.do = "query"
    /\ \/ /\ IsShutdown /\ completion' = "canceled" /\ TaskDone
          /\ UNCHANGED <<uncertain, spent>>
       \/ /\ ~IsShutdown /\ Raises
          /\ CompletionFails /\ TaskDone /\ UNCHANGED uncertain
       \/ /\ ~IsShutdown /\ uncertain' \in {uncertain, FALSE}
          /\ running' = [running EXCEPT !.do = "launch"]
          /\ UNCHANGED <<tasks, completion, spent>>
    /\ UNCHANGED <<journalled, results, restored, watched, streamsUp, monitorVars, ending,
                   signals>>

Launch == /\ running.do = "launch"
          /\ monitor' = "scan" /\ TaskDone
          /\ UNCHANGED <<planVars, streamsUp, target, answer, remaining, waiting,
                         recovering, completion, ending, signals, spent>>

\* _restore_context.  The monitor has the result, not the user interface.
RestoreEnds ==
    /\ running.do = "restore" /\ TaskDone
    /\ LET o == running.op IN
       \/ /\ \E status \in Outcomes(o, FALSE) : Advanced(o, status)
          /\ answer' = results'[o] /\ UNCHANGED spent
       \/ /\ Deferrable(o, FALSE)
          /\ answer' = "not_ready" /\ restored' = restored \cup {o}
          /\ UNCHANGED <<journalled, results, spent>>
       \/ /\ Raises
          /\ answer' = "error" /\ restored' \in {restored, restored \cup {o}}
          /\ UNCHANGED <<journalled, results>>
    /\ UNCHANGED <<uncertain, watched, streamsUp, monitor, target, remaining, waiting,
                   recovering, completion, ending, signals>>

\* _apply_private_order: a plan the coordinator does not hold is only recorded;
\* LiveReadinessError of a plan that is being recovered is swallowed.
EventEnds ==
    /\ running.do = "event" /\ TaskDone
    /\ LET o == running.op IN
       \/ o \notin restored /\ UNCHANGED <<journalled, results, restored, signals, spent>>
       \/ o \in restored /\ Answered(o, FALSE)
       \/ /\ o \in restored /\ Deferrable(o, FALSE) /\ running.swallow
          /\ UNCHANGED <<journalled, results, restored, signals, spent>>
       \/ Raises /\ UNCHANGED <<journalled, results, restored, signals>>
    /\ UNCHANGED <<uncertain, watched, streamsUp, monitorVars, completion, ending>>

\* start returns the result it has; an exception may leave the plan begun.
StartEnds ==
    /\ running.do = "start" /\ TaskDone
    /\ LET o == running.op IN
       \/ results[o] = "none" /\ Answered(o, FALSE)
       \/ /\ results[o] # "none" /\ Emit(o, results[o], "pool")
          /\ UNCHANGED <<journalled, results, restored, spent>>
       \/ /\ results[o] = "none" /\ Raises
          /\ restored' = restored \cup {o}
          /\ journalled' = [journalled EXCEPT ![o] = "plain"]
          /\ UNCHANGED <<results, signals>>
    /\ UNCHANGED <<uncertain, watched, streamsUp, monitorVars, completion, ending>>

\* resume also confirms a plan that was deferred.
ResumeEnds ==
    /\ running.do = "resume" /\ TaskDone
    /\ \/ Answered(running.op, TRUE)
       \/ Raises /\ UNCHANGED <<journalled, results, restored, signals>>
    /\ UNCHANGED <<uncertain, watched, streamsUp, monitorVars, completion, ending>>

-----------------------------------------------------------------------------
(* recover_pending and _monitor_recovery                                   *)

Submit(job) == ~IsShutdown /\ tasks' = Append(tasks, job) /\ UNCHANGED running

\* ApplicationRuntime.start calls recover_pending before the user can do
\* anything.
BeginRecovery ==
    IF uncertain \/ Unfinished # {}
    THEN tasks = <<Job("query", "none", FALSE)>> /\ completion = "running"
    ELSE tasks = <<>> /\ completion = "none"

Scan == /\ monitor = "scan"
        /\ remaining' = Unfinished /\ monitor' = "mark"
        /\ UNCHANGED <<planVars, streamsUp, queueVars, target, answer, waiting,
                       recovering, completion, ending, signals, spent>>

Mark == /\ monitor = "mark"
        /\ recovering' = recovering \cup remaining /\ monitor' = "next"
        /\ UNCHANGED <<planVars, streamsUp, queueVars, target, answer, remaining,
                       waiting, completion, ending, signals, spent>>

SubmitRestore ==
    /\ monitor = "next"
    /\ \E o \in remaining :
        /\ Submit(Job("restore", o, FALSE))
        /\ target' = o /\ remaining' = remaining \ {o}
    /\ monitor' = "wait" /\ answer' = "none"
    /\ UNCHANGED <<planVars, streamsUp, waiting, recovering, completion, ending,
                   signals, spent>>

\* Mutant: the plans that wait for the streams are forgotten.
ForgetWaiting(set) == {}

\* pending = waiting
Again(set) == set

NextRound ==
    /\ monitor = "next" /\ ~IsShutdown /\ remaining = {} /\ Again(waiting) # {}
    /\ remaining' = Again(waiting) /\ waiting' = {}
    /\ UNCHANGED <<planVars, streamsUp, queueVars, monitor, target, answer, recovering,
                   completion, ending, signals, spent>>

MonitorEnds ==
    /\ monitor = "next" /\ (IsShutdown \/ (remaining \cup Again(waiting) = {}))
    /\ monitor' = "ended" /\ completion' = "result"
    /\ UNCHANGED <<planVars, streamsUp, queueVars, target, answer, remaining, waiting,
                   recovering, ending, signals, spent>>

Forgotten == target' = "none" /\ answer' = "none"

NotReady == /\ answer = "not_ready"
            /\ waiting' = waiting \cup {target} /\ monitor' = "next" /\ Forgotten
            /\ UNCHANGED <<remaining, recovering, completion>>

Restored == /\ answer \in Statuses /\ ~IsShutdown
            /\ recovering' = recovering \ {target} /\ monitor' = "emit"
            /\ UNCHANGED <<target, answer, remaining, waiting, completion>>

\* An exception, also that of a future canceled by shutdown, ends the monitor.
RestoreFails == /\ \/ answer \in {"error", "canceled"} /\ completion' = "error"
                   \/ IsShutdown /\ answer \in Statuses \cup {"error"} /\ completion' = "result"
                /\ monitor' = "ended" /\ Forgotten
                /\ UNCHANGED <<remaining, waiting, recovering>>

TakeAnswer == /\ monitor = "wait"
              /\ NotReady \/ Restored \/ RestoreFails
              /\ UNCHANGED <<planVars, streamsUp, queueVars, ending, signals, spent>>

EmitRestored ==
    /\ monitor = "emit"
    /\ Emit(target, answer, "monitor") /\ monitor' = "next" /\ Forgotten
    /\ UNCHANGED <<planVars, streamsUp, queueVars, remaining, waiting, recovering,
                   completion, ending, spent>>

-----------------------------------------------------------------------------
(* shutdown, on the thread of the user interface                           *)

Flag == /\ ending = "no"
        /\ ending' = "flagged"
        /\ UNCHANGED <<planVars, streamsUp, queueVars, monitorVars, completion, signals,
                       spent>>

\* Mutant: the queue is emptied and its futures are not canceled.
DropFutures == /\ ending = "flagged"
               /\ tasks' = <<>> /\ ending' = "pool"
               /\ UNCHANGED <<planVars, streamsUp, running, monitorVars, completion,
                              signals,
                              spent>>

\* cancel_futures: the callbacks of the futures run here.
CancelFutures ==
    /\ ending = "flagged"
    /\ tasks' = <<>> /\ UNCHANGED running
    /\ completion' = IF \E i \in DOMAIN tasks : tasks[i].do = "query"
                     THEN "canceled" ELSE completion
    /\ answer' = IF \E i \in DOMAIN tasks : tasks[i].do = "restore" THEN "canceled" ELSE answer
    /\ ending' = "pool"
    /\ UNCHANGED <<planVars, streamsUp, monitor, target, remaining, waiting, recovering,
                   signals, spent>>

\* wait=True
PoolAtRest == running = NoJob

\* _recovery_thread is read after the pool has ended, which may have set it.
ReadThread ==
    /\ ending = "pool" /\ PoolAtRest
    /\ ending' = IF monitor = "none" THEN "done" ELSE "join"
    /\ UNCHANGED <<planVars, streamsUp, queueVars, monitorVars, completion, signals, spent>>

JoinMonitor ==
    /\ ending = "join" /\ monitor = "ended"
    /\ ending' = "done"
    /\ UNCHANGED <<planVars, streamsUp, queueVars, monitorVars, completion, signals, spent>>

-----------------------------------------------------------------------------
(* The streams                                                             *)

\* A private event of an order that was sent reaches reconcile_private_order.
PrivateEvent ==
    /\ Spend("events", MaxEvents)
    /\ \E o \in Unfinished : Submit(Job("event", o, FALSE))
    /\ UNCHANGED <<planVars, streamsUp, monitorVars, completion, ending, signals>>

StreamsChange ==
    /\ Spend("events", MaxEvents)
    /\ streamsUp' = ~streamsUp
    /\ UNCHANGED <<planVars, queueVars, monitorVars, completion, ending, signals>>

\* What the journal holds of an earlier process.
WorkerInit ==
    /\ journalled \in [Operations -> {"no", "plain", "confirm"}]
    /\ results = [o \in Operations |-> "none"] /\ restored = {}
    /\ watched \in BOOLEAN /\ uncertain \in BOOLEAN /\ streamsUp \in BOOLEAN
    /\ BeginRecovery /\ running = NoJob
    /\ monitor = "none" /\ target = "none" /\ answer = "none"
    /\ remaining = {} /\ waiting = {} /\ recovering = {}
    /\ ending = "no" /\ signals = <<>>
    /\ spent = [events |-> 0, errors |-> 0]

-----------------------------------------------------------------------------
(* Properties                                                              *)

\* When the recovery has ended well, every plan that is still in the journal
\* is one its coordinator holds, so that private events and the user can go
\* on with it, and none is left in _recovering_ids, whose events swallow what
\* they meet; also with plans that had to wait for the streams.
RecoveryLeavesNoPlan ==
    completion = "result" /\ ~IsShutdown => Unfinished \subseteq restored \ recovering

\* shutdown returns, whatever the pool and the monitor were doing, and then
\* nothing of the worker runs or waits to run, and whoever waits for the
\* recovery has been answered.
ShutdownReturns ==
    IsShutdown ~> [](/\ ending = "done" /\ running = NoJob /\ tasks = <<>>
                     /\ monitor \in {"none", "ended"} /\ completion # "running")

\* With streams that stay up the recovery ends.
RecoveryIsAnswered == <>[]streamsUp => (completion = "running" ~> completion # "running")

PoolTask == TaskBegins \/ QueryEnds \/ Launch \/ RestoreEnds \/ EventEnds \/ StartEnds
            \/ ResumeEnds
MonitorStep == Scan \/ Mark \/ SubmitRestore \/ NextRound \/ MonitorEnds \/ TakeAnswer
               \/ EmitRestored
ShutdownStep == CancelFutures \/ ReadThread \/ JoinMonitor
=============================================================================
