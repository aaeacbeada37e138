--------------------------- MODULE OpenCoordinator ---------------------------
(***************************************************************************)
(* OpenExecutionCoordinator (app/execution/execution_coordinator.py) as    *)
(* ExecutionWorker (app/workers/execution_worker.py) runs it: one plan of  *)
(* two legs, the second placed when the first has filled.                  *)
(***************************************************************************)
EXTENDS ExecutionWorker

CONSTANTS First, Second     \* the client order ids of the legs

ASSUME PlanAssumption == First # Second /\ Keys = {First, Second}

\* What prepare_order and prepare_follow_up_request make of a quantity or a fill
\* is a quantity a request may have.
ASSUME QuantityAssumption ==
    \A q \in Quantities \cup Fills : Preparable(q) => Prepared(q) \in Quantities

VARIABLES
    started,    \* the plan was submitted, once, by the user
    plan,       \* _contexts: the _OpenContext of the plan
    result      \* _results: the status of the last DualLegExecutionResult

coordinator == <<started, plan, result>>
openVars == <<vars, worker, coordinator>>

\* known: the plan is in _contexts; order: first_order and second_order;
\* seen: what the reconciler holds; quantity: of each leg's request.
NoPlan == [known |-> FALSE, order |-> [k \in Keys |-> NoOrder],
           seen |-> [k \in Keys |-> NoOrder], quantity |-> [k \in Keys |-> 0]]

Request(leg, quantity) == [key |-> leg, quantity |-> quantity]
RequestOf(leg) == Request(leg, plan.quantity[leg])

Failed(leg) == IF leg = First THEN "first_failed" ELSE "second_failed"
Incomplete(leg) == IF leg = First THEN "first_incomplete" ELSE "second_incomplete"
Unknown(leg) == IF leg = First THEN "first_unknown" ELSE "second_unknown"
Deferred(leg) == IF leg = First THEN "first_deferred" ELSE "second_deferred"

FinalResults == {"completed", "first_failed", "second_failed",
                 "quantity_mismatch", "preflight_failed"}
DeferredResults == {"first_deferred", "second_deferred"}
ResumableResults == DeferredResults \cup
    {"first_unknown", "second_unknown", "first_incomplete", "second_incomplete"}

\* _store: a final result completes the context.
Store(status) ==
    /\ result' = status
    /\ IF status \in FinalResults THEN GoTo("complete", task.leg) ELSE Finish

-----------------------------------------------------------------------------
(* _advance *)

\* A leg with an order is not submitted again.
AdvanceKnown ==
    /\ At("advance") /\ plan.order[task.leg] # NoOrder
    /\ GoTo("record", task.leg)
    /\ UNCHANGED <<vars, started, plan, result>>

\* Mutant of MustConfirm: only the first leg waits for the user.
MustConfirmFirst == task.leg = First /\ contexts[Plan].confirm /\ ~task.confirm

MustConfirm == contexts[Plan].confirm /\ ~task.confirm

AdvanceDeferred ==
    /\ At("advance") /\ plan.order[task.leg] = NoOrder
    /\ MustConfirm
    /\ Store(Deferred(task.leg))
    /\ UNCHANGED <<vars, started, plan>>

\* before_submit raises LiveReadinessError: a recovering plan waits, any other
\* asks for a confirmation.
AdvanceNotReady ==
    /\ StreamsFail
    /\ At("advance") /\ plan.order[task.leg] = NoOrder
    /\ ~MustConfirm
    /\ IF task.defer
       THEN RaiseNotReady /\ UNCHANGED vars
       ELSE SetConfirmationRequired(Pool, Plan) /\ GoTo("deferring", task.leg)
    /\ UNCHANGED <<started, plan, result>>

AdvanceSubmit ==
    /\ At("advance") /\ plan.order[task.leg] = NoOrder
    /\ ~MustConfirm
    /\ IF contexts[Plan].confirm
       THEN ConfirmAndSubmit(Pool, RequestOf(task.leg), Plan)
       ELSE Submit(Pool, RequestOf(task.leg))
    /\ GoTo("sent", task.leg)
    /\ UNCHANGED <<started, plan, result>>

Deferring ==
    /\ After("deferring")
    /\ \/ Answer = "none" /\ Store(Deferred(task.leg))
       \/ Answer = "invalid" /\ Store(Failed(task.leg))
       \/ Answer = "oserror" /\ Raise /\ UNCHANGED result
    /\ UNCHANGED <<started, plan>>

Sent ==
    /\ After("sent")
    /\ \/ /\ Answer = "order"
          /\ plan' = [plan EXCEPT !.order[task.leg] = call[Pool].order]
          /\ GoTo("record", task.leg)
          /\ UNCHANGED result
       \/ /\ Answer = "unknown"
          /\ Store(Unknown(task.leg))
          /\ UNCHANGED plan
       \/ /\ Answer \in {"refused", "invalid", "duplicate", "unprepared"}
          /\ Store(Failed(task.leg))
          /\ UNCHANGED plan
       \/ /\ Answer \in {"oserror", "keyerror"}
          /\ Raise
          /\ UNCHANGED <<plan, result>>
    /\ UNCHANGED started

RecordLeg ==
    LET leg == task.leg
        order == plan.order[leg]
    IN
    /\ At("record")
    /\ \E held \in Reconciled(plan.seen[leg], order) :
          plan' = [plan EXCEPT !.seen[leg] = held]
    /\ Record(Pool, leg, order)
    /\ GoTo("recorded", leg)
    /\ UNCHANGED <<started, result>>

\* Mutants of Outcome: an acknowledged leg and a leg filled by another quantity
\* count as done.
OutcomeOfAcknowledged(leg) ==
    IF plan.order[leg].status = "canceled" THEN Failed(leg) ELSE "completed"
OutcomeOfAnyFill(leg) ==
    CASE plan.order[leg].status = "canceled" -> Failed(leg)
      [] plan.order[leg].status = "new" -> Incomplete(leg)
      [] OTHER -> "completed"

\* The order of the leg decides: failed, not filled yet, or filled.
Outcome(leg) ==
    LET order == plan.order[leg] IN
    CASE order.status = "canceled" -> Failed(leg)
      [] order.status = "new" -> Incomplete(leg)
      [] order.status = "filled" /\ order.filled # plan.order[First].filled ->
            "quantity_mismatch"
      [] OTHER -> "completed"

\* Mutant of Recorded: the second leg follows as soon as the first fills at all.
RecordedEarly ==
    LET leg == task.leg IN
    /\ After("recorded")
    /\ IF leg = First /\ plan.order[First].filled > 0
       THEN GoTo("follow", Second) /\ UNCHANGED result
       ELSE Store(Outcome(leg))
    /\ UNCHANGED <<started, plan>>

Recorded ==
    LET leg == task.leg IN
    /\ After("recorded")
    /\ \/ Answer = "oserror" /\ Raise /\ UNCHANGED result
       \/ /\ Answer # "oserror"
          /\ IF leg = First /\ plan.order[First].status = "filled"
             THEN GoTo("follow", Second) /\ UNCHANGED result
             ELSE Store(Outcome(leg))
    /\ UNCHANGED <<started, plan>>

\* prepare_follow_up_request: the second leg takes the first one's fill.
Follow ==
    LET filled == plan.order[First].filled
        second == Request(Second, Prepared(filled))
    IN
    /\ At("follow")
    /\ \/ /\ ~Preparable(filled)
          /\ Store("second_failed")
          /\ UNCHANGED <<vars, plan>>
       \/ /\ Preparable(filled)
          /\ plan' = [plan EXCEPT !.quantity[Second] = second.quantity]
          /\ RegisterContext(Pool, Plan, "open", {RequestOf(First), second})
          /\ GoTo("registering", Second)
          /\ UNCHANGED result
    /\ UNCHANGED started

Registered ==
    /\ After("registering")
    /\ \/ Answer = "oserror" /\ Raise
       \/ Answer # "oserror" /\ GoTo("advance", task.leg)
    /\ UNCHANGED <<started, plan, result>>

Complete == /\ At("complete")
            /\ CompleteContext(Pool, Plan)
            /\ GoTo("completing", task.leg)
            /\ UNCHANGED <<started, plan, result>>

Completed == /\ After("completing")
             /\ IF Answer = "oserror" THEN Raise ELSE Finish
             /\ UNCHANGED <<started, plan, result>>

-----------------------------------------------------------------------------
(* The tasks *)

\* start, for a plan whose requests pass the preflight or do not.
Start(first, second) ==
    /\ Free /\ ~started /\ recovery = "none"
    /\ started' = TRUE
    /\ UNCHANGED recovery
    /\ IF /\ Preparable(first) /\ Preparable(second)
          /\ Prepared(first) = Prepared(second)
       THEN LET quantity == Prepared(first) IN
            /\ plan' = [NoPlan EXCEPT !.known = TRUE,
                                      !.quantity = [k \in Keys |-> quantity]]
            /\ RegisterContext(Pool, Plan, "open", {Request(k, quantity) : k \in Keys})
            /\ task' = Task("registering", First, FALSE, FALSE, FALSE)
            /\ UNCHANGED result
       ELSE /\ result' = IF Preparable(first) /\ Preparable(second)
                         THEN "quantity_mismatch" ELSE "preflight_failed"
            /\ UNCHANGED <<vars, plan, task>>

\* reconcile_private_order: an event of a known plan reconciles and advances
\* it, any other is recorded by the service.
PrivateEvent(k, order) ==
    /\ Free
    /\ result \in FinalResults => LateEvents
    /\ IF plan.known
       THEN \E held \in Reconciled(plan.seen[k], order) :
            /\ plan' = [plan EXCEPT !.seen[k] = held, !.order[k] = held]
            /\ Record(Pool, k, held)
            /\ task' = Task("noting", First, FALSE, Recovering, FALSE)
       ELSE /\ Record(Pool, k, order)
            /\ task' = Task("noted", First, FALSE, FALSE, FALSE)
            /\ UNCHANGED plan
    /\ UNCHANGED <<started, result, recovery>>

Noting ==
    /\ \/ After("noted") /\ Finish
       \/ After("noting") /\ IF Answer = "oserror" THEN Raise
                             ELSE GoTo("advance", First)
    /\ UNCHANGED <<started, plan, result>>

\* resume: the user asks to query the orders again and go on.
Resume ==
    /\ Free /\ plan.known /\ result \in ResumableResults
    /\ task' = Task("refresh", First, contexts[Plan].confirm, FALSE, FALSE)
    /\ UNCHANGED <<vars, started, plan, result, recovery>>

\* Mutant of AfterRefresh: an order is queried until it is terminal.
AfterRefreshAgain(leg) ==
    IF plan.order[leg].status = "new" THEN GoTo("refresh", leg)
    ELSE IF leg = First THEN GoTo("refresh", Second) ELSE GoTo("advance", First)

AfterRefresh(leg) == IF leg = First THEN GoTo("refresh", Second)
                     ELSE GoTo("advance", First)

RefreshLeg ==
    LET leg == task.leg
        order == plan.order[leg]
    IN
    /\ At("refresh")
    /\ IF order # NoOrder /\ ~IsTerminal(order)
       THEN Refresh(Pool, RequestOf(leg)) /\ GoTo("refreshing", leg)
       ELSE AfterRefresh(leg) /\ UNCHANGED vars
    /\ UNCHANGED <<started, plan, result>>

Refreshed ==
    /\ After("refreshing")
    /\ \/ /\ Answer = "order"
          /\ plan' = [plan EXCEPT !.order[task.leg] = call[Pool].order]
          /\ AfterRefresh(task.leg)
       \/ Answer # "order" /\ Raise /\ UNCHANGED plan
    /\ UNCHANGED <<started, result>>

-----------------------------------------------------------------------------
(* Recovery after a restart *)

\* restore: rebuild the plan from its recovery context and advance it.
Restore ==
    /\ Free /\ recovery = "restore"
    /\ IF result \in FinalResults
       THEN recovery' = "leave" /\ UNCHANGED <<plan, task>>
       ELSE /\ task' = Task("advance", First, FALSE, TRUE, TRUE)
            /\ plan' = IF plan.known THEN plan
                       ELSE [known |-> TRUE, order |-> orders, seen |-> orders,
                             quantity |-> [k \in Keys |->
                                (CHOOSE r \in contexts[Plan].requests : r.key = k).quantity]]
            /\ UNCHANGED recovery
    /\ UNCHANGED <<vars, started, result>>

ProcessRestart ==
    /\ WorkerRestart
    /\ plan' = NoPlan /\ result' = "none"
    /\ UNCHANGED started

-----------------------------------------------------------------------------
OpenInit == /\ WorkerInit
            /\ started = FALSE /\ plan = NoPlan /\ result = "none"

Advance == \/ AdvanceKnown \/ AdvanceDeferred \/ AdvanceNotReady \/ AdvanceSubmit
           \/ Deferring \/ Sent \/ RecordLeg \/ Recorded \/ Follow \/ Registered
           \/ Complete \/ Completed

OpenNext ==
    \/ \E first, second \in Quantities : Start(first, second)
    \/ \E k \in Keys : \E order \in Past(k) : PrivateEvent(k, order)
    \/ Noting \/ Resume \/ RefreshLeg \/ Refreshed
    \/ Advance \/ Restore
    \/ (InService \/ Recover) /\ UNCHANGED coordinator
    \/ ExchangeStep /\ UNCHANGED <<worker, coordinator>>
    \/ ProcessRestart

OpenSpec == OpenInit /\ [][OpenNext]_openVars

-----------------------------------------------------------------------------
(* Properties *)

\* "The first leg must be fully filled before the second is submitted", on
\* every path: start, private events in any order, resume, and a restart.
SecondFollowsFilledFirst ==
    creates[Second] # << >> => market[First].status = "filled"

\* A plan is reported completed, and becomes a position, only when the
\* exchanges hold two filled orders of the same quantity.
CompletedIsHedged ==
    result = "completed" =>
        /\ \A k \in Keys : market[k].status = "filled"
        /\ market[First].filled = market[Second].filled

\* Once a plan is deferred for want of a private stream, in this process or in
\* an earlier one, only the user's explicit resume claims an order for it:
\* no private event and no recovery does, while journal writes succeed.
DeferredWaitsForUser ==
    [][\/ restarts' # restarts
       \/ attempted' = attempted
       \/ result \notin DeferredResults /\ ~journal.contexts[Plan].confirm
       \/ task.confirm
       \/ faults > 0]_openVars

\* A final result is final: no order of the plan trades or may still turn up,
\* so nothing can fill after the plan was given up or reported done.
FinalMeansAtRest ==
    result \in FinalResults => \A k \in Keys : ~MaybeLive(k)

\* The pool takes its steps; an answer that does not come is a timeout.
PoolStep == \/ Advance \/ Noting \/ RefreshLeg \/ Refreshed
            \/ (InService \/ RecoverEnd) /\ UNCHANGED coordinator
FairOpenSpec == OpenSpec /\ WF_openVars(PoolStep)

\* No task holds the only thread of the pool for ever, whatever the exchange
\* answers and whichever journal write fails.
TaskEnds == task.stage # "free" ~> task.stage = "free"
=============================================================================
