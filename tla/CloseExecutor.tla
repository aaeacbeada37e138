---------------------------- MODULE CloseExecutor ----------------------------
(***************************************************************************)
(* PositionCloseExecutor (app/execution/position_close_executor.py) as     *)
(* ExecutionWorker runs it and PositionPresenter drives it: one position   *)
(* of two legs of equal quantity, closed by one order per leg, the second  *)
(* placed when the first has filled.  A failed close may be retried by the *)
(* user with fresh client order ids for what then remains.                 *)
(***************************************************************************)
EXTENDS ExecutionWorker

CONSTANTS
    Opened,         \* quantities the position may have been opened with
    MaxAttempts,    \* bound: closes and retries the user asks for
    KeyOf,          \* the client order id of each leg in each attempt
    ShortFills      \* whether an order may be filled with less than it asked
                    \* for, as a market buy by quote amount is

Legs == {"first", "second"}
Attempts == 1..MaxAttempts

ASSUME CloseAssumption ==
    /\ Opened \subseteq Nat \ {0}
    /\ MaxAttempts \in Nat \ {0}
    /\ KeyOf \in [Legs -> [Attempts -> Keys]]
    /\ \A k \in Keys : \E l \in Legs, n \in Attempts : KeyOf[l][n] = k
    /\ \A l, m \in Legs, n, p \in Attempts : KeyOf[l][n] = KeyOf[m][p] => l = m /\ n = p
    /\ ShortFills \in BOOLEAN

\* What prepare_order makes of a part of a position is a quantity a request may have.
ASSUME PartAssumption == \A whole \in Opened : \A q \in 1..whole :
    Preparable(q) => Prepared(q) \in Quantities

VARIABLES
    opened,     \* the quantity both legs of the position were opened with
    attempt,    \* number of attempts started: ids are never reused
    base,       \* original_position of each attempt, in its context and journal
    plan,       \* _contexts: the _CloseContext of the position
    result,     \* _results: the last PositionCloseResult
    posted,     \* the last result posted to the user interface
    shown       \* the position the presenter shows, and acts on

closing == <<opened, attempt, base, plan, result, posted, shown>>
closeVars == <<vars, worker, closing>>

Remaining == [Legs -> Nat]

\* known: the position is in _contexts; order: first_order and second_order;
\* seen: what the reconciler holds.
NoPlan == [known |-> FALSE, attempt |-> 0, order |-> [l \in Legs |-> NoOrder],
           seen |-> [l \in Legs |-> NoOrder]]

\* A PositionCloseResult with its position: what remains, and PositionStatus.
Result(status, remaining, position) ==
    [status |-> status, remaining |-> remaining, position |-> position]
NoResult == Result("none", [l \in Legs |-> 0], "none")

RetryableResults == {"first_failed", "second_failed", "quantity_mismatch",
                     "remaining_quantity"}
PendingResults == {"first_pending", "second_pending", "unknown"}

Key(leg) == KeyOf[leg][plan.attempt]
Remains(leg) == base[plan.attempt][leg]
Needed(leg) == Remains(leg) > 0
RequestFor(leg, n, remaining) ==
    [key |-> KeyOf[leg][n], quantity |-> Prepared(remaining[leg])]
RequestOf(leg) == RequestFor(leg, plan.attempt, base[plan.attempt])
FirstLeg(remaining) == IF remaining["first"] > 0 THEN "first" ELSE "second"

\* with_close_orders: what remains of the position after the orders' fills.
Left(order) == [l \in Legs |-> Remains(l) - order[l].filled]
\* Mutant of Before: the fill of the first leg is forgotten.
BeforeNothing(leg) == [l \in Legs |-> NoOrder]

Before(leg) == [l \in Legs |-> IF leg = "second" /\ l = "first"
                               THEN plan.order["first"] ELSE NoOrder]

\* Mutant of UpTo: the leg's own order only.
UpToOwn(leg) == [[l \in Legs |-> NoOrder] EXCEPT ![leg] = plan.order[leg]]

UpTo(leg) == [Before(leg) EXCEPT ![leg] = plan.order[leg]]

-----------------------------------------------------------------------------
(* Results *)

\* Post: the task ends and its result goes to the user interface.
Post(outcome) == Finish /\ posted' = outcome

\* _store: any result but a pending one completes the context.
Store(status, remaining, position) ==
    LET outcome == Result(status, remaining, position) IN
    /\ result' = outcome
    /\ IF status \in PendingResults
       THEN Post(outcome)
       ELSE GoTo("complete", task.leg) /\ UNCHANGED posted

Failed(leg) == IF leg = "first" THEN "first_failed" ELSE "second_failed"
Waiting(leg) == IF leg = "first" THEN "first_pending" ELSE "second_pending"

\* The results of a leg without an order of its own.
StoreUnknown(leg) == Store("unknown", Left(Before(leg)), "close_unknown")
StoreFailed(leg) == Store(Failed(leg), Left(Before(leg)), "close_failed")

Complete == /\ At("complete")
            /\ CompleteContext(Pool, Plan)
            /\ GoTo("completing", task.leg)
            /\ UNCHANGED closing

Completed == /\ After("completing")
             /\ IF Answer = "oserror" THEN Raise /\ UNCHANGED posted
                                      ELSE Post(result)
             /\ UNCHANGED <<opened, attempt, base, plan, result, shown>>

-----------------------------------------------------------------------------
(* _advance *)

\* Mutant of MustConfirm: only the first leg waits for the user.
MustConfirmFirst == task.leg = "first" /\ contexts[Plan].confirm /\ ~task.confirm

MustConfirm == contexts[Plan].confirm /\ ~task.confirm
Due == At("advance") /\ Needed(task.leg) /\ plan.order[task.leg] = NoOrder

AdvanceKnown ==
    /\ At("advance") /\ Needed(task.leg) /\ plan.order[task.leg] # NoOrder
    /\ GoTo("record", task.leg)
    /\ UNCHANGED <<vars, closing>>

\* Nothing is left of the second leg: CLOSED, which a remainder forbids.
AdvanceSingle ==
    /\ At("advance") /\ ~Needed(task.leg)
    /\ IF Left(Before("second"))["first"] = 0
       THEN Store("completed", Left(Before("second")), "closed")
       ELSE Raise /\ UNCHANGED <<result, posted>>
    /\ UNCHANGED <<vars, opened, attempt, base, plan, shown>>

AdvanceDeferred ==
    /\ Due /\ MustConfirm
    /\ StoreUnknown(task.leg)
    /\ UNCHANGED <<vars, opened, attempt, base, plan, shown>>

\* before_submit raises LiveReadinessError: a recovering plan waits, any other
\* asks for a confirmation.
AdvanceNotReady ==
    /\ StreamsFail
    /\ Due /\ ~MustConfirm
    /\ IF task.defer
       THEN RaiseNotReady /\ UNCHANGED vars
       ELSE SetConfirmationRequired(Pool, Plan) /\ GoTo("deferring", task.leg)
    /\ UNCHANGED closing

AdvanceSubmit ==
    /\ Due /\ ~MustConfirm
    /\ IF contexts[Plan].confirm
       THEN ConfirmAndSubmit(Pool, RequestOf(task.leg), Plan)
       ELSE Submit(Pool, RequestOf(task.leg))
    /\ GoTo("sent", task.leg)
    /\ UNCHANGED closing

Deferring ==
    /\ After("deferring")
    /\ \/ Answer = "none" /\ StoreUnknown(task.leg)
       \/ Answer = "invalid" /\ StoreFailed(task.leg)
       \/ Answer = "oserror" /\ Raise /\ UNCHANGED <<result, posted>>
    /\ UNCHANGED <<opened, attempt, base, plan, shown>>

Sent ==
    /\ After("sent")
    /\ \/ /\ Answer = "order"
          /\ plan' = [plan EXCEPT !.order[task.leg] = call[Pool].order]
          /\ GoTo("record", task.leg)
          /\ UNCHANGED <<result, posted>>
       \/ Answer = "unknown" /\ StoreUnknown(task.leg) /\ UNCHANGED plan
       \/ /\ Answer \in {"refused", "invalid", "duplicate", "unprepared"}
          /\ StoreFailed(task.leg)
          /\ UNCHANGED plan
       \/ /\ Answer \in {"oserror", "keyerror"}
          /\ Raise
          /\ UNCHANGED <<plan, result, posted>>
    /\ UNCHANGED <<opened, attempt, base, shown>>

RecordLeg ==
    LET leg == task.leg
        order == plan.order[leg]
    IN
    /\ At("record")
    /\ \E held \in Reconciled(plan.seen[leg], order) :
          plan' = [plan EXCEPT !.seen[leg] = held]
    /\ Record(Pool, Key(leg), order)
    /\ GoTo("recorded", leg)
    /\ UNCHANGED <<opened, attempt, base, result, posted, shown>>

\* Mutant of StoreOutcome: two filled orders of equal quantity close.
StoreOutcomeFlat(leg) ==
    LET order == plan.order[leg]
        remaining == Left(UpTo(leg))
    IN
    CASE order.status = "canceled" -> Store(Failed(leg), remaining, "close_failed")
      [] order.status = "new" -> Store(Waiting(leg), remaining, "partially_closed")
      [] OTHER -> Store("completed", remaining, "closed")

\* The order of the leg decides: failed, not filled yet, or filled, and then
\* whether the legs match and anything remains.
StoreOutcome(leg) ==
    LET order == plan.order[leg]
        remaining == Left(UpTo(leg))
    IN
    \/ order.status = "canceled" /\ Store(Failed(leg), remaining, "close_failed")
    \/ order.status = "new" /\ Store(Waiting(leg), remaining, "partially_closed")
    \/ /\ order.status = "filled"
       /\ IF Needed("first") /\ order.filled # plan.order["first"].filled
          THEN Store("quantity_mismatch", remaining, "close_failed")
          ELSE IF \E l \in Legs : remaining[l] # 0
          THEN Store("remaining_quantity", remaining, "partially_closed")
          ELSE Store("completed", remaining, "closed")

Recorded ==
    LET leg == task.leg IN
    /\ After("recorded")
    /\ \/ Answer = "oserror" /\ Raise /\ UNCHANGED <<result, posted>>
       \/ /\ Answer # "oserror"
          /\ IF leg = "first" /\ plan.order["first"].status = "filled"
             THEN GoTo("advance", "second") /\ UNCHANGED <<result, posted>>
             ELSE StoreOutcome(leg)
    /\ UNCHANGED <<opened, attempt, base, plan, shown>>

-----------------------------------------------------------------------------
(* start and retry *)

\* Preflight of the legs that have something left.
Passes(remaining) ==
    /\ \A l \in Legs : remaining[l] > 0 => Preparable(remaining[l])
    /\ (\A l \in Legs : remaining[l] > 0)
       => Prepared(remaining["first"]) = Prepared(remaining["second"])

Begin(remaining) ==
    LET n == attempt + 1
        needed == {l \in Legs : remaining[l] > 0}
    IN
    IF Passes(remaining)
    THEN /\ n \in Attempts
         /\ attempt' = n
         /\ base' = [base EXCEPT ![n] = remaining]
         /\ plan' = [NoPlan EXCEPT !.known = TRUE, !.attempt = n]
         /\ RegisterContext(Pool, Plan, "close",
                            {RequestFor(l, n, remaining) : l \in needed})
         /\ task' = Task("registering", FirstLeg(remaining), FALSE, FALSE, FALSE)
         /\ result' = NoResult
         /\ UNCHANGED <<opened, posted, shown, recovery>>
    ELSE LET outcome == Result("preflight_failed", remaining, shown.position) IN
         /\ result' = outcome /\ posted' = outcome
         /\ plan' = NoPlan
         /\ UNCHANGED <<vars, worker, opened, attempt, base, shown>>

Registered ==
    /\ After("registering")
    /\ \/ Answer = "oserror" /\ Raise
       \/ Answer # "oserror" /\ GoTo("advance", task.leg)
    /\ UNCHANGED closing

Retryable == shown.status \in RetryableResults

\* The user asks to close; a position with a result is not started again.
SubmitClose ==
    /\ Free /\ RecoveryComplete
    /\ shown.position \in {"open", "close_failed"} /\ ~Retryable
    /\ IF result = NoResult
       THEN Begin(shown.remaining)
       ELSE posted' = result /\ UNCHANGED <<vars, worker, opened, attempt, base,
                                            plan, result, shown>>

\* The user asks to close again, for the position as the executor left it.
RetryClose ==
    /\ Free
    /\ shown.position \in {"open", "close_failed"} /\ Retryable
    /\ result.status \in RetryableResults
    /\ shown.remaining = result.remaining /\ shown.position = result.position
    /\ Begin(shown.remaining)

-----------------------------------------------------------------------------
(* resume and reconcile *)

\* The user asks to query the orders again and go on.
ResumeClose ==
    /\ Free
    /\ shown.position \in {"close_unknown", "partially_closed"} /\ plan.known
    /\ task' = Task("refresh", "first", contexts[Plan].confirm, FALSE, FALSE)
    /\ UNCHANGED <<vars, closing, recovery>>

AfterRefresh(leg) ==
    IF leg = "first" THEN GoTo("refresh", "second")
    ELSE GoTo("advance", FirstLeg(base[plan.attempt]))

RefreshLeg ==
    LET leg == task.leg
        order == plan.order[leg]
    IN
    /\ At("refresh")
    /\ IF order # NoOrder /\ ~IsTerminal(order)
       THEN Refresh(Pool, RequestOf(leg)) /\ GoTo("refreshing", leg)
       ELSE AfterRefresh(leg) /\ UNCHANGED vars
    /\ UNCHANGED closing

Refreshed ==
    /\ After("refreshing")
    /\ \/ /\ Answer = "order"
          /\ plan' = [plan EXCEPT !.order[task.leg] = call[Pool].order]
          /\ AfterRefresh(task.leg)
       \/ Answer # "order" /\ Raise /\ UNCHANGED plan
    /\ UNCHANGED <<opened, attempt, base, result, posted, shown>>

\* An event of the current attempt reconciles and advances it, any other is
\* recorded by the service.
PrivateEvent(leg, n, order) ==
    LET k == KeyOf[leg][n] IN
    /\ Free
    /\ \/ result # NoResult /\ result.status \notin PendingResults
       \/ n < attempt
       => LateEvents
    /\ IF plan.known /\ plan.attempt = n
       THEN \E held \in Reconciled(plan.seen[leg], order) :
            /\ plan' = [plan EXCEPT !.seen[leg] = held, !.order[leg] = held]
            /\ Record(Pool, k, held)
            /\ task' = Task("noting", leg, FALSE, Recovering, FALSE)
       ELSE /\ Record(Pool, k, order)
            /\ task' = Task("noted", leg, FALSE, FALSE, FALSE)
            /\ UNCHANGED plan
    /\ UNCHANGED <<opened, attempt, base, result, posted, shown, recovery>>

Noting ==
    /\ \/ After("noted") /\ Finish
       \/ After("noting") /\ IF Answer = "oserror" THEN Raise
                             ELSE GoTo("advance", FirstLeg(base[plan.attempt]))
    /\ UNCHANGED closing

-----------------------------------------------------------------------------
(* restore *)

\* The attempt whose requests the recovery context names.
ContextAttempt == CHOOSE n \in Attempts :
    \E l \in Legs : KeyOf[l][n] \in KeysOf(contexts[Plan])

Restore ==
    LET n == IF plan.known THEN plan.attempt ELSE ContextAttempt IN
    /\ Free /\ recovery = "restore"
    /\ IF result # NoResult /\ result.status \notin PendingResults
       THEN recovery' = "leave" /\ posted' = result /\ UNCHANGED <<plan, task>>
       ELSE /\ task' = Task("advance", FirstLeg(base[n]), FALSE, TRUE, TRUE)
            /\ plan' = IF plan.known THEN plan
                       ELSE LET known == [l \in Legs |-> orders[KeyOf[l][n]]] IN
                            [known |-> TRUE, attempt |-> n, order |-> known,
                             seen |-> known]
            /\ UNCHANGED <<recovery, posted>>
    /\ UNCHANGED <<vars, opened, attempt, base, result, shown>>

\* The presenter takes the result last posted to it.
Deliver == /\ shown # posted /\ posted # NoResult
           /\ shown' = posted
           /\ UNCHANGED <<vars, worker, opened, attempt, base, plan, result, posted>>

\* Positions are kept in memory; recovery posts those with a close in the
\* journal again.
ProcessRestart ==
    /\ WorkerRestart
    /\ plan' = NoPlan /\ result' = NoResult
    /\ posted' = NoResult /\ shown' = NoResult
    /\ UNCHANGED <<opened, attempt, base>>

\* What the order of k was placed for.
Asked(k) == LET n == CHOOSE n \in Attempts : \E l \in Legs : KeyOf[l][n] = k
                l == CHOOSE l \in Legs : KeyOf[l][n] = k
            IN  Prepared(base[n][l])

\* The exchange fills no more than was asked for.
ExchangeTrades ==
    /\ ExchangeStep
    /\ \A k \in Keys : market'[k] # market[k] =>
          IF market'[k].status = "filled"
          THEN \/ market'[k].filled = Asked(k)
               \/ ShortFills /\ market'[k].filled < Asked(k)
          ELSE market'[k].filled < Asked(k)
    /\ UNCHANGED <<worker, closing>>

-----------------------------------------------------------------------------
CloseInit ==
    /\ WorkerInit
    /\ opened \in Opened
    /\ attempt = 0 /\ base = [n \in Attempts |-> [l \in Legs |-> 0]]
    /\ plan = NoPlan /\ result = NoResult /\ posted = NoResult
    /\ shown = Result("none", [l \in Legs |-> opened], "open")

Advance == \/ AdvanceKnown \/ AdvanceSingle \/ AdvanceDeferred \/ AdvanceNotReady
           \/ AdvanceSubmit \/ Deferring \/ Sent \/ RecordLeg \/ Recorded
           \/ Registered \/ Complete \/ Completed

UserCloses == SubmitClose \/ RetryClose \/ ResumeClose

CloseNext ==
    \/ UserCloses
    \/ \E leg \in Legs, n \in Attempts :
          \E order \in Past(KeyOf[leg][n]) : PrivateEvent(leg, n, order)
    \/ Noting \/ RefreshLeg \/ Refreshed
    \/ Advance \/ Restore \/ Deliver
    \/ (InService \/ Recover) /\ UNCHANGED closing
    \/ ExchangeTrades
    \/ ProcessRestart

CloseSpec == CloseInit /\ [][CloseNext]_closeVars

-----------------------------------------------------------------------------
(* Properties *)

\* The sum of what amount holds for each attempt.
Total(amount) ==
    LET upTo[n \in 0..MaxAttempts] == IF n = 0 THEN 0 ELSE upTo[n - 1] + amount[n]
    IN  upTo[MaxAttempts]

Filled(leg) == Total([n \in Attempts |-> market[KeyOf[leg][n]].filled])

\* What the orders of a leg have closed or may still close.
Exposure(leg) == Total([n \in Attempts |->
    LET k == KeyOf[leg][n] IN IF MaybeLive(k) THEN Asked(k) ELSE market[k].filled])

\* "A timeout or ambiguous submission remains query-only under its original
\* client order id.  It is never replaced by a blind retry": over all attempts
\* the orders of a leg cannot close more than the position holds.
NeverOverclosed == \A l \in Legs : Exposure(l) <= opened

\* A final result tells the truth: what it says remains is what the exchanges
\* have left open, and no order of the position can change that any more.
RemainingIsTrue ==
    result # NoResult /\ result.status \notin PendingResults =>
        \A l \in Legs : /\ result.remaining[l] = opened - Filled(l)
                        /\ \A n \in Attempts : ~MaybeLive(KeyOf[l][n])

\* A position is reported closed only when the exchanges have closed all of it.
ClosedIsFlat ==
    posted.position = "closed" => \A l \in Legs : Filled(l) = opened

\* Once the journal says that a close waits for the user's confirmation, only
\* the user's explicit resume claims an order for it.
ConfirmedByUser ==
    [][\/ restarts' # restarts
       \/ attempted' = attempted
       \/ ~journal.contexts[Plan].confirm
       \/ task.confirm]_closeVars
=============================================================================
