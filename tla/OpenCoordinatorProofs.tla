------------------------ MODULE OpenCoordinatorProofs ------------------------
(***************************************************************************)
(* Proofs about OpenCoordinator, for any quantities, trading rules, fills, *)
(* restarts and failed journal writes: the coordinator calls the service   *)
(* as the service's proofs assume, the second leg follows the first, a     *)
(* final result is at rest, and a deferred leg waits for the user.         *)
(***************************************************************************)
EXTENDS OpenCoordinator, ExecutionWorkerProofs

\* The stages of a task, and those in which it works on the plan.
LegStages == {"advance", "deferring", "sent", "record", "recorded", "follow",
              "registering"}
EndStages == {"complete", "completing"}
PlanStages == LegStages \cup EndStages \cup {"noting", "refresh", "refreshing"}
ServiceStages == {"deferring", "sent", "recorded", "registering", "completing",
                  "noting", "noted", "refreshing", "querying"}
Stages == PlanStages \cup {"free", "noted", "querying"}

\* The task and the service agree on who is at work, and on which leg.
TaskInv ==
    /\ task = Task(task.stage, task.leg, task.confirm, task.defer, task.restoring)
    /\ task.stage \in Stages
    /\ task.stage \in PlanStages => task.leg \in Keys
    /\ task.stage = "follow" => task.leg = Second
    /\ task.stage \in ServiceStages <=> call[Pool].phase # "idle"
    /\ call[Pool].phase \in {"create", "sent"} =>
          task.stage = "sent" /\ call[Pool].key = task.leg
    /\ call[Pool].phase \in {"query", "asked"} =>
          \/ task.stage = "querying"
          \/ /\ task.stage \in {"sent", "refreshing"}
             /\ call[Pool].key = task.leg /\ call[Pool].batch = {}
    /\ recovery \in {"none", "query", "restore", "leave", "stuck"}

\* What the plan holds has its type.
PlanInv ==
    /\ plan = [known |-> plan.known, order |-> plan.order, seen |-> plan.seen,
               quantity |-> plan.quantity]
    /\ plan.order \in [Keys -> Orders \cup {NoOrder}]
    /\ plan.seen \in [Keys -> Orders \cup {NoOrder}]
    /\ plan.quantity \in [Keys -> Nat]
    /\ plan.known => \A k \in Keys : plan.quantity[k] \in Quantities

\* Every order the program holds is one the exchange has had, and the service
\* has seen what the plan holds.
OrdersPast == \A k \in Keys :
    /\ {orders[k], plan.order[k], plan.seen[k]} \subseteq (Past(k) \cup {NoOrder})
    /\ plan.order[k] # NoOrder => orders[k] # NoOrder

\* So is every order the service is about to answer with.
AnswerPast ==
    /\ call[Pool].phase = "asked" =>
          call[Pool].order \in Past(call[Pool].key) \cup {NoOrder}
    /\ /\ task.stage \in {"sent", "refreshing"}
       /\ call[Pool].phase = "done" /\ call[Pool].result = "order"
       => call[Pool].order \in Past(task.leg) /\ orders[task.leg] # NoOrder

\* A leg is recorded when it has an order.
RecordPast == task.stage \in {"record", "recorded"} => plan.order[task.leg] # NoOrder

PastInv == OrdersPast /\ AnswerPast /\ RecordPast

\* The context of the opening plan, with both its legs.
Named(context) == context.kind = "open" /\ KeysOf(context) = Keys

\* Nothing has happened before the user submits the plan.
StartInv == ~started =>
    /\ \A k \in Keys : /\ creates[k] = << >>
                       /\ submitted[k] = NoRequest /\ journal.orders[k] = NoRequest
    /\ contexts[Plan] = NoContext /\ journal.contexts[Plan] = NoContext
    /\ ~plan.known /\ result = "none" /\ recovery = "none" /\ task.stage = "free"

\* A plan that is not over keeps its context, and a final result ends the task.
NamedInv ==
    /\ contexts[Plan] = NoContext \/ Named(contexts[Plan])
    /\ journal.contexts[Plan] = NoContext \/ Named(journal.contexts[Plan])
    /\ plan.known \/ recovery = "restore" =>
          result \in FinalResults \/ Named(contexts[Plan])
    /\ task.stage \in PlanStages =>
          plan.known /\ (result \in FinalResults <=> task.stage \in EndStages)

\* A task works on the second leg only on the word of a filled first one.
FollowInv ==
    /\ task.stage \in LegStages /\ task.leg = Second =>
          plan.order[First].status = "filled"
    /\ task.stage \in LegStages \ {"follow"} /\ task.leg = Second =>
          /\ Preparable(plan.order[First].filled)
          /\ plan.quantity[Second] = Prepared(plan.order[First].filled)

OpenInv == /\ IInv
           /\ TaskInv /\ PlanInv /\ PastInv /\ StartInv /\ NamedInv /\ FollowInv
           /\ SecondFollowsFilledFirst
           /\ CompletedIsHedged

-----------------------------------------------------------------------------
(* What the calls of the service do, as far as the coordinator depends on it *)

\* The operations on the context of the opening plan.
LEMMA ContextEffect ==
    ASSUME TypeOK, NEW batch \in SUBSET Requests,
           \/ RegisterContext(Pool, Plan, "open", batch)
           \/ CompleteContext(Pool, Plan)
           \/ SetConfirmationRequired(Pool, Plan)
    PROVE  /\ UNCHANGED <<exchangeVars, orders, restarts>>
           /\ \E reply \in {"none", "invalid", "oserror"} : Over(reply, NoOrder)
           /\ Writes
           /\ RegisterContext(Pool, Plan, "open", batch) =>
                 \/ contexts' = contexts /\ contexts[Plan].kind \notin {"none", "open"}
                 \/ contexts' = [contexts EXCEPT ![Plan] = [kind |-> "open",
                                    requests |-> batch, confirm |-> contexts[Plan].confirm]]
           /\ CompleteContext(Pool, Plan) => contexts'[Plan] = NoContext
           /\ SetConfirmationRequired(Pool, Plan) =>
                 \/ contexts' = contexts /\ contexts[Plan] = NoContext
                 \/ /\ contexts[Plan] # NoContext
                    /\ contexts' = [contexts EXCEPT ![Plan].confirm = TRUE]
  BY ContextCall DEF Kinds

\* A call inside the service learns an order of the past, sends a create request
\* or a query, or returns; the coordinator's contexts stay as they are.
LEMMA InServiceEffect ==
    ASSUME IInv, PastInv, InService
    PROVE  LET k == call[Pool].key IN
           /\ k \in Keys /\ call[Pool].phase \in {"create", "sent", "query", "asked"}
           /\ UNCHANGED <<market, contexts, restarts, worker>>
           /\ Writes
           /\ \/ UNCHANGED creates
              \/ call[Pool].phase = "create" /\ SendCreate(k)
           /\ \/ orders' = orders
              \/ \E order \in Past(k) : orders' = [orders EXCEPT ![k] = order]
           /\ \/ /\ call[Pool].phase = "create"
                 /\ \E n \in Nat : call'[Pool] = Stage("sent", k, n, NoOrder, {}, "none")
              \/ /\ call[Pool].phase = "sent"
                 /\ call'[Pool] = Stage("query", k, 0, NoOrder, {}, "none")
              \/ /\ call[Pool].phase = "query"
                 /\ call'[Pool] = Stage("asked", k, 0, market[k], call[Pool].batch, "none")
              \/ /\ call[Pool].phase = "asked" /\ call[Pool].batch # {}
                 /\ \E j \in call[Pool].batch :
                      call'[Pool] = Stage("query", j, 0, NoOrder, call[Pool].batch \ {j}, "none")
              \/ \E order \in Past(k) :
                   Over("order", order) /\ orders' = [orders EXCEPT ![k] = order]
              \/ \E reply \in Results \ {"order"} : Over(reply, NoOrder)
  BY ServiceEffect DEF PastInv, AnswerPast, AskedPast

\* Of these answers, an order that is asked for is the exchange's, and one that is
\* returned has just been recorded.
LEMMA InServiceAnswer ==
    ASSUME IInv, PastInv, InService
    PROVE  LET k == call[Pool].key IN
           /\ call'[Pool].phase = "asked" =>
                 call'[Pool] = Stage("asked", k, 0, market[k], call[Pool].batch, "none")
           /\ call'[Pool].phase = "done" /\ call'[Pool].result = "order" =>
                 \E order \in Past(k) :
                    Over("order", order) /\ orders' = [orders EXCEPT ![k] = order]
  BY ServiceAnswer DEF PastInv, AnswerPast, AskedPast

-----------------------------------------------------------------------------
(* The task and the thread *)

\* Where a task goes on, and how it ends.
LEMMA TaskGoes ==
    ASSUME TaskInv
    PROVE  /\ \A stage, leg : GoTo(stage, leg) =>
                 /\ task' = Task(stage, leg, task.confirm, task.defer, task.restoring)
                 /\ recovery' = recovery
           /\ Finish \/ Raise \/ RaiseNotReady =>
                 task' = NoTask /\ recovery' \in {recovery, "leave", "stuck"}
           /\ \A status : Store(status) =>
                 /\ result' = status
                 /\ IF status \in FinalResults THEN GoTo("complete", task.leg) ELSE Finish
  BY DEF TaskInv, Task, GoTo, Finish, Raise, RaiseNotReady, Store

\* A step of the coordinator's own leaves the thread idle.
LEMMA QuietTask ==
    ASSUME NEW stage \in Stages \ ServiceStages, NEW leg, NEW confirm, NEW defer,
           NEW restoring, task' = Task(stage, leg, confirm, defer, restoring),
           stage \in PlanStages => leg \in Keys, stage = "follow" => leg = Second,
           call'[Pool].phase = "idle",
           recovery' \in {"none", "query", "restore", "leave", "stuck"}
    PROVE  TaskInv'
  BY DEF TaskInv, Task

\* A call of the service belongs to the leg of the task.
LEMMA CallingTask ==
    ASSUME NEW stage \in ServiceStages, NEW leg, NEW confirm, NEW defer,
           NEW restoring, task' = Task(stage, leg, confirm, defer, restoring),
           stage \in PlanStages => leg \in Keys,
           NEW reply, NEW order, NEW n,
           \/ Over(reply, order)
           \/ /\ stage = "sent"
              /\ call'[Pool] = Stage("create", leg, n, order, {}, reply)
           \/ /\ stage \in {"sent", "refreshing"}
              /\ call'[Pool] = Stage("query", leg, n, order, {}, reply),
           recovery' \in {"none", "query", "restore", "leave", "stuck"}
    PROVE  TaskInv'
  <1>1. stage \in Stages /\ stage # "follow"
    BY DEF Stages, PlanStages, ServiceStages, LegStages, EndStages
  <1> QED
    BY <1>1 DEF TaskInv, Task, Over, Stage

\* The preflight of a plan: both requests can be sent and ask for the same.
Passes(first, second) == /\ Preparable(first) /\ Preparable(second)
                         /\ Prepared(first) = Prepared(second)

\* The steps of the coordinator in which it takes an answer, or needs none.
OwnStep ==
    \/ AdvanceKnown \/ AdvanceDeferred \/ (task.defer /\ AdvanceNotReady)
    \/ Deferring \/ Sent \/ Recorded \/ Registered \/ Completed
    \/ (~Preparable(plan.order[First].filled) /\ Follow)
    \/ Noting \/ Resume \/ Refreshed \/ Restore
    \/ ((plan.order[task.leg] = NoOrder \/ IsTerminal(plan.order[task.leg])) /\ RefreshLeg)
    \/ \E first, second \in Quantities : ~Passes(first, second) /\ Start(first, second)
    \/ /\ ((\A k \in Keys : submitted[k] = NoRequest) /\ RecoverStart)
          \/ RecoverEnd \/ MonitorLeaves
       /\ UNCHANGED coordinator

\* Such a step takes the answer of the service, or changes nothing of it.
LEMMA OwnEffect ==
    ASSUME TypeOK, OwnStep
    PROVE  /\ UNCHANGED <<exchangeVars, memory, journal, restarts, faults>>
           /\ started' \/ UNCHANGED started
           /\ call'[Pool].phase = "idle" \/ UNCHANGED <<call, task>>
           /\ UNCHANGED vars \/ Return(Pool)
  <1>1. CASE Deferring \/ Sent \/ Recorded \/ Registered \/ Completed \/ Noting
             \/ Refreshed \/ (RecoverEnd /\ UNCHANGED coordinator)
    <2>1. Return(Pool) /\ started' = started
      BY <1>1 DEF Deferring, Sent, Recorded, Registered, Completed, Noting, Refreshed,
                  RecoverEnd, After, coordinator
    <2>2. call'[Pool].phase = "idle"
      BY <2>1, ReturnEffect DEF Idle, Stage
    <2> QED
      BY <2>1, <2>2, ReturnEffect
  <1>2. CASE AdvanceKnown \/ AdvanceDeferred \/ (task.defer /\ AdvanceNotReady)
             \/ (~Preparable(plan.order[First].filled) /\ Follow) \/ Resume \/ Restore
    <2>1. vars' = vars /\ started' = started /\ call[Pool].phase = "idle"
      BY <1>2 DEF AdvanceKnown, AdvanceDeferred, AdvanceNotReady, Follow, Resume, Restore,
                  At, Free
    <2> QED
      BY <2>1 DEF vars
  <1>3. CASE (plan.order[task.leg] = NoOrder \/ IsTerminal(plan.order[task.leg]))
             /\ RefreshLeg
    <2>1. vars' = vars /\ started' = started /\ call[Pool].phase = "idle"
      BY <1>3 DEF RefreshLeg, At
    <2> QED
      BY <2>1 DEF vars
  <1>4. CASE MonitorLeaves /\ UNCHANGED coordinator
    <2>1. vars' = vars /\ started' = started /\ task' = task
      BY <1>4 DEF MonitorLeaves, coordinator
    <2> QED
      BY <2>1 DEF vars
  <1>5. CASE (\A k \in Keys : submitted[k] = NoRequest) /\ RecoverStart
             /\ UNCHANGED coordinator
    <2>1. vars' = vars /\ started' = started /\ call[Pool].phase = "idle"
      BY <1>5 DEF RecoverStart, Free, coordinator
    <2> QED
      BY <2>1 DEF vars
  <1>6. ASSUME NEW first \in Quantities, NEW second \in Quantities,
               ~Passes(first, second), Start(first, second)
        PROVE  vars' = vars /\ started' /\ call[Pool].phase = "idle"
    BY <1>6 DEF Passes, Start, Free
  <1>7. CASE \E first, second \in Quantities :
                 ~Passes(first, second) /\ Start(first, second)
    <2>1. vars' = vars /\ started' /\ call[Pool].phase = "idle"
      BY <1>6, <1>7
    <2> QED
      BY <2>1 DEF vars
  <1> QED
    BY <1>1, <1>2, <1>3, <1>4, <1>5, <1>7 DEF OwnStep

\* The steps in which a task begins a call of the service.
CallStep ==
    \/ (~task.defer /\ AdvanceNotReady) \/ AdvanceSubmit \/ RecordLeg
    \/ (Preparable(plan.order[First].filled) /\ Follow) \/ Complete
    \/ (plan.order[task.leg] # NoOrder /\ ~IsTerminal(plan.order[task.leg]) /\ RefreshLeg)
    \/ \E first, second \in Quantities : Passes(first, second) /\ Start(first, second)
    \/ \E k \in Keys : \E order \in Past(k) : PrivateEvent(k, order)
    \/ RecoverPending(Pool) /\ RecoverStart /\ UNCHANGED coordinator

\* Every step is one of these, of a call inside the service, of the exchange, or
\* the end of the process.
LEMMA StepCases ==
    ASSUME OpenNext
    PROVE  \/ OwnStep
           \/ CallStep
           \/ InService /\ UNCHANGED coordinator
           \/ ExchangeStep /\ UNCHANGED <<worker, coordinator>>
           \/ ProcessRestart
  <1>1. CASE \E first, second \in Quantities : Start(first, second)
    BY <1>1 DEF OwnStep, CallStep
  <1>2. CASE RefreshLeg \/ Advance
    BY <1>2 DEF Advance, OwnStep, CallStep
  <1>3. CASE Recover /\ UNCHANGED coordinator
    BY <1>3 DEF Recover, RecoverStart, OwnStep, CallStep
  <1>4. CASE \/ \E k \in Keys : \E order \in Past(k) : PrivateEvent(k, order)
             \/ Noting \/ Resume \/ Refreshed \/ Restore
    BY <1>4 DEF OwnStep, CallStep
  <1> QED
    BY <1>1, <1>2, <1>3, <1>4 DEF OpenNext

-----------------------------------------------------------------------------
(* The coordinator calls the service as its callers may *)

\* The request of a leg of a known plan, by its own name.
LEMMA RequestType ==
    ASSUME PlanInv, plan.known, NEW leg \in Keys
    PROVE  RequestOf(leg) \in Requests /\ RequestOf(leg).key = leg
  BY DEF PlanInv, RequestOf, Request, Requests

\* Of a plan in work the context names both legs.
LEMMA PlanIsNamed ==
    ASSUME NamedInv, task.stage \in PlanStages \ EndStages
    PROVE  /\ plan.known /\ result \notin FinalResults
           /\ Named(contexts[Plan])
           /\ \A k \in Keys : NamedIn(Plan, k)
  BY DEF NamedInv, Named, NamedIn

\* The requests of the second leg and of the first, with quantities they may have.
LEMMA FollowRequests ==
    ASSUME TypeOK, TaskInv, PlanInv, PastInv, NamedInv, FollowInv, At("follow"),
           Preparable(plan.order[First].filled)
    PROVE  /\ {RequestOf(First), Request(Second, Prepared(plan.order[First].filled))}
                 \subseteq Requests
           /\ Prepared(plan.order[First].filled) \in Quantities
  <1>1. First \in Keys /\ Second \in Keys
    BY PlanAssumption
  <1>2. task.stage = "follow" /\ plan.known
    BY DEF At, NamedInv, PlanStages, LegStages
  <1>3. plan.order[First].status = "filled"
    BY <1>2 DEF FollowInv, TaskInv, LegStages
  <1>4. plan.order[First] \in Orders
    BY <1>1, <1>3 DEF PlanInv, NoOrder
  <1>5. plan.order[First].filled \in Fills
    BY <1>4 DEF Orders
  <1>6. Prepared(plan.order[First].filled) \in Quantities
    BY <1>5, QuantityAssumption
  <1> QED
    BY <1>1, <1>2, <1>6, RequestType DEF Request, Requests

\* Every call of the coordinator is one its service may expect.
LEMMA CallAllowed ==
    ASSUME OpenInv, CallStep
    PROVE  ServiceStep(Pool)
  <1> USE DEF OpenInv
  <1>1. TypeOK /\ Plan \in Ops /\ Ops = {Plan}
    BY WorkerAssumption DEF IInv
  <1>2. CASE ~task.defer /\ AdvanceNotReady
    BY <1>1, <1>2 DEF AdvanceNotReady, ServiceStep
  <1>3. CASE AdvanceSubmit
    <2>1. task.leg \in Keys /\ task.stage \in PlanStages \ EndStages
      BY <1>3 DEF AdvanceSubmit, At, TaskInv, PlanStages, LegStages, EndStages
    <2>2. RequestOf(task.leg) \in Requests /\ RequestOf(task.leg).key = task.leg
      BY <2>1, PlanIsNamed, RequestType
    <2>3. MayName(RequestOf(task.leg).key)
      BY <1>1, <2>1, <2>2, PlanIsNamed DEF MayName
    <2> QED
      BY <1>1, <1>3, <2>2, <2>3 DEF AdvanceSubmit, ServiceStep
  <1>4. CASE RecordLeg
    <2>1. task.leg \in Keys /\ plan.order[task.leg] # NoOrder
      BY <1>4 DEF RecordLeg, At, TaskInv, PlanStages, LegStages, PastInv, RecordPast
    <2>2. plan.order[task.leg] \in Past(task.leg)
      BY <2>1 DEF PastInv, OrdersPast
    <2> QED
      BY <1>4, <2>1, <2>2 DEF RecordLeg, ServiceStep
  <1>5. CASE Preparable(plan.order[First].filled) /\ Follow
    <2> DEFINE batch == {RequestOf(First), Request(Second, Prepared(plan.order[First].filled))}
    <2>1. At("follow") /\ RegisterContext(Pool, Plan, "open", batch)
      BY <1>5 DEF Follow
    <2>2. batch \in SUBSET Requests /\ batch # {}
      BY <1>1, <1>5, <2>1, FollowRequests
    <2>3. \A k \in Keys : NamedIn(Plan, k)
      BY <2>1, PlanIsNamed DEF At, PlanStages, LegStages, EndStages
    <2>4. MayRegister(Plan, batch)
      BY <1>1, <2>2, <2>3 DEF MayRegister, Requests
    <2> HIDE DEF batch
    <2> QED
      BY <1>1, <2>1, <2>2, <2>4 DEF ServiceStep, Kinds
  <1>6. CASE Complete
    BY <1>1, <1>6 DEF Complete, ServiceStep
  <1>7. CASE plan.order[task.leg] # NoOrder /\ ~IsTerminal(plan.order[task.leg])
             /\ RefreshLeg
    <2>1. task.leg \in Keys /\ task.stage \in PlanStages \ EndStages
      BY <1>7 DEF RefreshLeg, At, TaskInv, PlanStages, LegStages, EndStages
    <2>2. orders[task.leg] # NoOrder
      BY <1>7, <2>1 DEF PastInv, OrdersPast
    <2>3. RequestOf(task.leg) \in Requests /\ RequestOf(task.leg).key = task.leg
      BY <2>1, PlanIsNamed, RequestType
    <2> QED
      BY <1>7, <2>2, <2>3 DEF RefreshLeg, ServiceStep
  <1>8. ASSUME NEW first \in Quantities, NEW second \in Quantities,
               Passes(first, second), Start(first, second)
        PROVE  ServiceStep(Pool)
    <2> DEFINE batch == {Request(k, Prepared(first)) : k \in Keys}
    <2>1. RegisterContext(Pool, Plan, "open", batch) /\ ~started
      BY <1>8 DEF Start, Passes
    <2>2. Prepared(first) \in Quantities
      BY <1>8, QuantityAssumption DEF Passes
    <2>3. batch \in SUBSET Requests /\ batch # {}
      <3>1. First \in Keys
        BY PlanAssumption
      <3>2. Request(First, Prepared(first)) \in batch
        BY <3>1
      <3>3. \A k \in Keys : Request(k, Prepared(first)) \in Requests
        BY <2>2 DEF Request, Requests
      <3> QED
        BY <3>2, <3>3
    <2>4. MayRegister(Plan, batch)
      BY <1>1, <2>1, <2>3 DEF MayRegister, Requests, StartInv
    <2> HIDE DEF batch
    <2> QED
      BY <1>1, <2>1, <2>3, <2>4 DEF ServiceStep, Kinds
  <1>9. ASSUME NEW k \in Keys, NEW order \in Past(k), PrivateEvent(k, order)
        PROVE  ServiceStep(Pool)
    <2>1. \E held \in Past(k) : Record(Pool, k, held)
      BY <1>9, ReconciledPast DEF PrivateEvent, PastInv, OrdersPast
    <2> QED
      BY <2>1 DEF ServiceStep
  <1>10. CASE RecoverPending(Pool)
    BY <1>10 DEF ServiceStep
  <1> QED
    BY <1>2, <1>3, <1>4, <1>5, <1>6, <1>7, <1>8, <1>9, <1>10 DEF CallStep

\* The coordinator, the service and the exchange together take only steps that
\* OrderService describes.
LEMMA OpenStepIsAllowed ==
    ASSUME OpenInv, [OpenNext]_openVars
    PROVE  [Next]_vars
  <1>1. CASE OwnStep
    BY <1>1, OnePlan, OwnEffect DEF OpenInv, IInv, Next, ServiceStep
  <1>2. CASE CallStep
    BY <1>2, OnePlan, CallAllowed DEF Next
  <1>3. CASE InService
    BY <1>3, OnePlan DEF InService, Next, ServiceStep
  <1>4. CASE ExchangeStep \/ ProcessRestart
    BY <1>4 DEF ProcessRestart, WorkerRestart, Next
  <1>5. CASE UNCHANGED openVars
    BY <1>5 DEF openVars
  <1> QED
    BY <1>1, <1>2, <1>3, <1>4, <1>5, StepCases

-----------------------------------------------------------------------------
(* Every step keeps the task and the thread together *)

\* A step that needs no call leaves the thread idle.
LEMMA OwnTask ==
    ASSUME TypeOK, TaskInv, FollowInv, OwnStep
    PROVE  TaskInv'
  <1> USE DEF Stages, PlanStages, LegStages, EndStages, ServiceStages
  <1>1. call'[Pool].phase = "idle" \/ UNCHANGED <<call, task>>
    BY OwnEffect
  <1>2. First \in Keys /\ Second \in Keys
    BY PlanAssumption
  <1>3. recovery \in {"none", "query", "restore", "leave", "stuck"}
    BY DEF TaskInv
  <1>4. ASSUME task' = NoTask, call'[Pool].phase = "idle",
               recovery' \in {"none", "query", "restore", "leave", "stuck"}
        PROVE  TaskInv'
    BY <1>4 DEF NoTask, Task, TaskInv
  <1>5. ASSUME Finish \/ Raise \/ RaiseNotReady, call'[Pool].phase = "idle"
        PROVE  TaskInv'
    BY <1>3, <1>4, <1>5, TaskGoes
  <1>6. ASSUME NEW stage \in Stages \ ServiceStages, NEW leg \in Keys, GoTo(stage, leg),
               stage = "follow" => leg = Second, call'[Pool].phase = "idle"
        PROVE  TaskInv'
    BY <1>3, <1>6, TaskGoes, QuietTask
  <1>7. ASSUME NEW status, Store(status), task.leg \in Keys, call'[Pool].phase = "idle"
        PROVE  TaskInv'
    BY <1>5, <1>6, <1>7, TaskGoes
  <1>8. CASE Deferring \/ Sent \/ Recorded \/ Registered \/ Completed \/ Refreshed
             \/ AdvanceKnown \/ AdvanceDeferred \/ (task.defer /\ AdvanceNotReady)
             \/ (~Preparable(plan.order[First].filled) /\ Follow)
             \/ ((plan.order[task.leg] = NoOrder \/ IsTerminal(plan.order[task.leg]))
                 /\ RefreshLeg)
    <2>1. task.leg \in Keys /\ task.stage # "free"
      BY <1>8 DEF Deferring, Sent, Recorded, Registered, Completed, Refreshed, After,
                  AdvanceKnown, AdvanceDeferred, AdvanceNotReady, Follow, RefreshLeg, At,
                  TaskInv
    <2>2. call'[Pool].phase = "idle"
      BY <1>1, <1>8, ReturnEffect
         DEF Deferring, Sent, Recorded, Registered, Completed, Refreshed, After,
             AdvanceKnown, AdvanceDeferred, AdvanceNotReady, Follow, RefreshLeg, At,
             Idle, Stage
    <2>3. CASE AdvanceKnown \/ AdvanceDeferred \/ (task.defer /\ AdvanceNotReady)
      BY <1>5, <1>6, <1>7, <2>1, <2>2, <2>3
         DEF AdvanceKnown, AdvanceDeferred, AdvanceNotReady
    <2>4. CASE Deferring
      BY <1>5, <1>7, <2>1, <2>2, <2>4 DEF Deferring
    <2>5. CASE Sent
      BY <1>5, <1>6, <1>7, <2>1, <2>2, <2>5 DEF Sent
    <2>6. CASE Recorded
      BY <1>2, <1>5, <1>6, <1>7, <2>1, <2>2, <2>6 DEF Recorded
    <2>7. CASE Registered \/ Completed
      BY <1>5, <1>6, <2>1, <2>2, <2>7 DEF Registered, Completed
    <2>8. CASE Refreshed
      BY <1>2, <1>5, <1>6, <2>1, <2>2, <2>8 DEF Refreshed, AfterRefresh
    <2>9. CASE ~Preparable(plan.order[First].filled) /\ Follow
      BY <1>7, <2>1, <2>2, <2>9 DEF Follow
    <2>10. CASE (plan.order[task.leg] = NoOrder \/ IsTerminal(plan.order[task.leg]))
                /\ RefreshLeg
      BY <1>2, <1>6, <2>2, <2>10 DEF RefreshLeg, AfterRefresh
    <2> QED
      BY <1>8, <2>3, <2>4, <2>5, <2>6, <2>7, <2>8, <2>9, <2>10
  <1>9. CASE Noting \/ (RecoverEnd /\ UNCHANGED coordinator)
    <2>1. call'[Pool].phase = "idle"
      BY <1>9, ReturnEffect DEF Noting, RecoverEnd, After, Idle, Stage
    <2>2. CASE Noting
      BY <1>2, <1>5, <1>6, <2>1, <2>2 DEF Noting
    <2>3. CASE RecoverEnd
      BY <1>4, <2>1, <2>3 DEF RecoverEnd, Monitored
    <2> QED
      BY <1>9, <2>2, <2>3
  <1>10. CASE Resume \/ Restore
    <2>1. call'[Pool].phase = "idle" /\ recovery' \in {recovery, "leave"}
      BY <1>1, <1>10 DEF Resume, Restore, Free, vars
    <2>2. CASE Resume
      BY <1>2, <1>3, <2>1, <2>2 DEF Resume, Task, TaskInv
    <2>3. CASE Restore
      BY <1>2, <1>3, <2>1, <2>3 DEF Restore, Free, vars, Task, TaskInv
    <2> QED
      BY <1>10, <2>2, <2>3
  <1>11. CASE \/ \E first, second \in Quantities :
                   ~Passes(first, second) /\ Start(first, second)
              \/ /\ \/ (\A k \in Keys : submitted[k] = NoRequest) /\ RecoverStart
                    \/ MonitorLeaves
                 /\ UNCHANGED coordinator
    <2>1. /\ UNCHANGED <<call, task>>
          /\ recovery' \in {"none", "query", "restore", "leave", "stuck"}
      BY <1>3, <1>11 DEF Start, Passes, RecoverStart, MonitorLeaves, Monitored, vars
    <2> QED
      BY <2>1 DEF TaskInv
  <1> QED
    BY <1>8, <1>9, <1>10, <1>11 DEF OwnStep

\* A call is for the leg of its task.
LEMMA CallTask ==
    ASSUME OpenInv, CallStep
    PROVE  TaskInv'
  <1> USE DEF Stages, PlanStages, LegStages, EndStages, ServiceStages
  <1>1. /\ TypeOK /\ TaskInv /\ PlanInv /\ First \in Keys /\ Second \in Keys
        /\ recovery \in {"none", "query", "restore", "leave", "stuck"}
    BY PlanAssumption DEF OpenInv, IInv, TaskInv
  <1>2. ASSUME NEW stage \in ServiceStages, NEW leg \in Keys, GoTo(stage, leg),
               NEW reply, NEW order, Over(reply, order)
        PROVE  TaskInv'
    BY <1>1, <1>2, TaskGoes DEF TaskInv, Task, Over, Stage
  <1>3. CASE ~task.defer /\ AdvanceNotReady
    <2>1. /\ SetConfirmationRequired(Pool, Plan) /\ GoTo("deferring", task.leg)
          /\ task.leg \in Keys
      BY <1>1, <1>3 DEF AdvanceNotReady, At, TaskInv
    <2> QED
      BY <1>1, <1>2, <2>1, ContextEffect
  <1>4. CASE AdvanceSubmit
    <2>1. /\ Submit(Pool, RequestOf(task.leg)) \/ ConfirmAndSubmit(Pool, RequestOf(task.leg), Plan)
          /\ GoTo("sent", task.leg)
          /\ task.leg \in Keys
      BY <1>1, <1>4 DEF AdvanceSubmit, At, TaskInv
    <2>2. RequestOf(task.leg) \in Requests /\ RequestOf(task.leg).key = task.leg
      BY <1>4, <2>1, PlanIsNamed, RequestType DEF OpenInv, AdvanceSubmit, At
    <2>3. \/ call'[Pool] = Stage("create", task.leg, 0, NoOrder, {}, "none")
          \/ call'[Pool] = Stage("query", task.leg, 0, NoOrder, {}, "none")
          \/ \E reply, order : Over(reply, order)
      BY <1>1, <2>1, <2>2, SubmitEffect
    <2> QED
      BY <1>1, <1>2, <2>1, <2>3, TaskGoes DEF TaskInv, Task, Stage
  <1>5. CASE RecordLeg
    <2>1. /\ Record(Pool, task.leg, plan.order[task.leg]) /\ GoTo("recorded", task.leg)
          /\ task.leg \in Keys
      BY <1>1, <1>5 DEF RecordLeg, At, TaskInv
    <2> QED
      BY <1>1, <1>2, <2>1, RecordEffect
  <1>6. CASE Preparable(plan.order[First].filled) /\ Follow
    <2>1. PICK batch : /\ RegisterContext(Pool, Plan, "open", batch)
                       /\ batch = {RequestOf(First),
                                   Request(Second, Prepared(plan.order[First].filled))}
                       /\ GoTo("registering", Second) /\ At("follow")
      BY <1>6 DEF Follow
    <2>2. batch \in SUBSET Requests
      BY <1>1, <1>6, <2>1, FollowRequests DEF OpenInv
    <2> QED
      BY <1>1, <1>2, <2>1, <2>2, ContextEffect
  <1>7. CASE Complete
    <2>1. /\ CompleteContext(Pool, Plan) /\ GoTo("completing", task.leg)
          /\ task.leg \in Keys
      BY <1>1, <1>7 DEF Complete, At, TaskInv
    <2> QED
      BY <1>1, <1>2, <2>1, ContextEffect
  <1>8. CASE plan.order[task.leg] # NoOrder /\ ~IsTerminal(plan.order[task.leg])
             /\ RefreshLeg
    <2>1. /\ Refresh(Pool, RequestOf(task.leg)) /\ GoTo("refreshing", task.leg)
          /\ task.leg \in Keys
      BY <1>1, <1>8 DEF RefreshLeg, At, TaskInv
    <2>2. RequestOf(task.leg) \in Requests /\ RequestOf(task.leg).key = task.leg
      BY <1>8, <2>1, PlanIsNamed, RequestType DEF OpenInv, RefreshLeg, At
    <2>3. \/ call'[Pool] = Stage("query", task.leg, 0, NoOrder, {}, "none")
          \/ \E reply, order : Over(reply, order)
      BY <1>1, <2>1, <2>2, RefreshEffect
    <2> QED
      BY <1>1, <1>2, <2>1, <2>3, TaskGoes DEF TaskInv, Task, Stage
  <1>9. ASSUME NEW first \in Quantities, NEW second \in Quantities,
               Passes(first, second), Start(first, second)
        PROVE  TaskInv'
    <2>1. /\ RegisterContext(Pool, Plan, "open", {Request(k, Prepared(first)) : k \in Keys})
          /\ task' = Task("registering", First, FALSE, FALSE, FALSE) /\ recovery' = recovery
      BY <1>9 DEF Start, Passes
    <2>2. {Request(k, Prepared(first)) : k \in Keys} \in SUBSET Requests
      BY <1>9, QuantityAssumption DEF Passes, Request, Requests
    <2>3. \E reply, order : Over(reply, order)
      BY <1>1, <2>1, <2>2, ContextEffect
    <2> QED
      BY <1>1, <2>1, <2>3 DEF TaskInv, Task, Over, Stage
  <1>10. ASSUME NEW k \in Keys, NEW order \in Past(k), PrivateEvent(k, order)
         PROVE  TaskInv'
    <2>1. /\ \/ task' = Task("noting", First, FALSE, Recovering, FALSE)
             \/ task' = Task("noted", First, FALSE, FALSE, FALSE)
          /\ recovery' = recovery
          /\ \E held : Record(Pool, k, held)
      BY <1>10 DEF PrivateEvent
    <2>2. \E reply, o : Over(reply, o)
      BY <1>1, <2>1, RecordEffect
    <2> QED
      BY <1>1, <2>1, <2>2 DEF TaskInv, Task, Over, Stage
  <1>11. CASE RecoverPending(Pool) /\ RecoverStart /\ UNCHANGED coordinator
    <2>1. /\ \E k \in Keys, batch \in SUBSET Keys :
                call'[Pool] = Stage("query", k, 0, NoOrder, batch, "none")
          /\ task' = Task("querying", "none", FALSE, FALSE, FALSE) /\ recovery' = recovery
      <3>1. \E k \in Keys : submitted[k] # NoRequest
        BY <1>11 DEF RecoverPending
      <3> QED
        BY <1>1, <1>11, <3>1, PendingEffect DEF RecoverStart
    <2> QED
      BY <1>1, <2>1 DEF TaskInv, Task, Stage
  <1> QED
    BY <1>3, <1>4, <1>5, <1>6, <1>7, <1>8, <1>9, <1>10, <1>11 DEF CallStep

\* The other steps leave the task where it is.
LEMMA TaskStep ==
    ASSUME OpenInv, [OpenNext]_openVars
    PROVE  TaskInv'
  <1>1. TypeOK /\ TaskInv /\ FollowInv /\ PastInv /\ IInv
    BY DEF OpenInv, IInv
  <1>2. CASE InService
    <2>1. UNCHANGED worker
      BY <1>1, <1>2, InServiceEffect
    <2>2. task.stage \in ServiceStages
      BY <1>1, <1>2, InServiceEffect DEF TaskInv
    <2> DEFINE InTask(c) ==
          /\ c.phase # "idle"
          /\ c.phase \in {"create", "sent"} => task.stage = "sent" /\ c.key = task.leg
          /\ c.phase \in {"query", "asked"} =>
                \/ task.stage = "querying"
                \/ /\ task.stage \in {"sent", "refreshing"}
                   /\ c.key = task.leg /\ c.batch = {}
    <2>3. InTask(call[Pool]) /\ (InTask(call'[Pool]) => TaskInv')
      BY <1>1, <1>2, <2>1, <2>2 DEF worker, TaskInv
    <2>4. ASSUME NEW reply, NEW order, Over(reply, order) PROVE InTask(call'[Pool])
      BY <2>4 DEF Over, Stage
    <2>5. ASSUME NEW phase \in {"sent", "query"}, NEW n,
                 call[Pool].phase \in {"create", "sent"},
                 call'[Pool] = Stage(phase, call[Pool].key, n, NoOrder, {}, "none")
          PROVE  InTask(call'[Pool])
      BY <2>3, <2>5 DEF Stage
    <2>6. ASSUME NEW phase \in {"asked", "query"}, NEW j, NEW order, NEW batch,
                 call[Pool].phase \in {"query", "asked"},
                 \/ j = call[Pool].key /\ batch = call[Pool].batch
                 \/ call[Pool].batch # {},
                 call'[Pool] = Stage(phase, j, 0, order, batch, "none")
          PROVE  InTask(call'[Pool])
      BY <2>3, <2>6 DEF Stage
    <2>7. InTask(call'[Pool])
      <3> HIDE DEF InTask
      <3>1. CASE \E reply, order : Over(reply, order)
        BY <2>4, <3>1
      <3>2. CASE /\ call[Pool].phase = "create"
                 /\ \E n \in Nat :
                      call'[Pool] = Stage("sent", call[Pool].key, n, NoOrder, {}, "none")
        BY <2>5, <3>2
      <3>3. CASE /\ call[Pool].phase = "sent"
                 /\ call'[Pool] = Stage("query", call[Pool].key, 0, NoOrder, {}, "none")
        BY <2>5, <3>3
      <3>4. CASE /\ call[Pool].phase = "query"
                 /\ call'[Pool] = Stage("asked", call[Pool].key, 0, market[call[Pool].key],
                                        call[Pool].batch, "none")
        BY <2>6, <3>4
      <3>5. CASE /\ call[Pool].phase = "asked" /\ call[Pool].batch # {}
                 /\ \E j \in call[Pool].batch :
                      call'[Pool] = Stage("query", j, 0, NoOrder, call[Pool].batch \ {j}, "none")
        BY <2>6, <3>5
      <3> QED
        BY <1>1, <1>2, <3>1, <3>2, <3>3, <3>4, <3>5, InServiceEffect
    <2> QED
      BY <2>3, <2>7
  <1>3. CASE ExchangeStep /\ UNCHANGED <<worker, coordinator>>
    BY <1>1, <1>3 DEF ExchangeStep, worker, TaskInv
  <1>4. CASE ProcessRestart
    <2>1. /\ task' = NoTask /\ recovery' \in {"query", "none"}
          /\ call'[Pool] = Idle
      BY <1>4, OnePlan DEF ProcessRestart, WorkerRestart, Restart
    <2> QED
      BY <2>1 DEF TaskInv, NoTask, Task, Idle, Stage, Stages, ServiceStages, PlanStages,
                  LegStages, EndStages
  <1>5. CASE UNCHANGED openVars
    BY <1>1, <1>5 DEF openVars, vars, worker, TaskInv
  <1> QED
    BY <1>1, <1>2, <1>3, <1>4, <1>5, StepCases, OwnTask, CallTask

-----------------------------------------------------------------------------
(* Every step keeps the orders of the past *)

\* What an own step makes of the plan: an order the service has answered with,
\* or, of a plan that is restored, every order it holds.
LEMMA OwnPlan ==
    ASSUME OpenInv, OwnStep
    PROVE  PlanInv' /\ OrdersPast'
  <1>1. /\ TypeOK /\ PlanInv /\ OrdersPast /\ AnswerPast /\ TaskInv
        /\ orders' = orders /\ market' = market
        /\ \A k \in Keys : Past(k)' = Past(k)
    BY OwnEffect DEF OpenInv, IInv, PastInv, exchangeVars, memory, Past
  <1>2. CASE UNCHANGED plan
    BY <1>1, <1>2 DEF PlanInv, OrdersPast
  <1>3. CASE plan' # plan /\ (Sent \/ Refreshed)
    <2>1. /\ plan' = [plan EXCEPT !.order[task.leg] = call[Pool].order]
          /\ call[Pool].phase = "done" /\ call[Pool].result = "order"
          /\ task.stage \in {"sent", "refreshing"} /\ task.leg \in Keys
      BY <1>1, <1>3 DEF Sent, Refreshed, After, Answer, TaskInv, PlanStages, LegStages
    <2>2. call[Pool].order \in Past(task.leg) /\ orders[task.leg] # NoOrder
      BY <1>1, <2>1 DEF AnswerPast
    <2>3. call[Pool].order \in Orders
      BY <1>1, <2>1, <2>2, PastFacts
    <2> QED
      BY <1>1, <2>1, <2>2, <2>3 DEF PlanInv, OrdersPast
  <1>4. CASE plan' # plan /\ Restore
    <2>1. plan' = [known |-> TRUE, order |-> orders, seen |-> orders,
                   quantity |-> [k \in Keys |->
                        (CHOOSE r \in contexts[Plan].requests : r.key = k).quantity]]
      BY <1>4 DEF Restore
    <2>2. Named(contexts[Plan]) /\ contexts[Plan] \in Contexts
      <3>1. Named(contexts[Plan])
        BY <1>4 DEF Restore, OpenInv, NamedInv
      <3> QED
        BY <1>1, <3>1, OnePlan DEF Named, TypeOK, NoContext
    <2>3. ASSUME NEW k \in Keys
          PROVE  (CHOOSE r \in contexts[Plan].requests : r.key = k).quantity \in Quantities
      <3>1. \E r \in contexts[Plan].requests : r.key = k
        BY <2>2 DEF Named, KeysOf
      <3>2. contexts[Plan].requests \subseteq Requests
        BY <2>2 DEF Contexts
      <3> QED
        BY <3>1, <3>2 DEF Requests
    <2>4. Quantities \subseteq Nat
      BY ServiceAssumption
    <2> QED
      BY <1>1, <2>1, <2>3, <2>4 DEF PlanInv, OrdersPast, TypeOK
  <1>5. UNCHANGED plan \/ Sent \/ Refreshed \/ Restore
    <2>1. CASE Deferring \/ Recorded \/ Registered \/ Completed \/ AdvanceKnown
               \/ AdvanceDeferred \/ (task.defer /\ AdvanceNotReady) \/ Noting \/ Resume
      BY <2>1 DEF Deferring, Recorded, Registered, Completed, AdvanceKnown,
                  AdvanceDeferred, AdvanceNotReady, Noting, Resume
    <2>2. CASE ~Preparable(plan.order[First].filled) /\ Follow
      BY <2>2 DEF Follow
    <2>3. CASE RefreshLeg
      BY <2>3 DEF RefreshLeg
    <2>4. CASE \E first, second \in Quantities :
                  ~Passes(first, second) /\ Start(first, second)
      BY <2>4 DEF Passes, Start
    <2> QED
      BY <2>1, <2>2, <2>3, <2>4 DEF OwnStep, coordinator
  <1> QED
    BY <1>2, <1>3, <1>4, <1>5

\* What a call makes of the plan and of the service's orders.
LEMMA CallPlan ==
    ASSUME OpenInv, CallStep
    PROVE  PlanInv' /\ OrdersPast' /\ UNCHANGED exchangeVars
  <1>1. /\ TypeOK /\ PlanInv /\ OrdersPast /\ RecordPast /\ TaskInv
        /\ First \in Keys /\ Second \in Keys /\ Quantities \subseteq Nat
    BY ServiceAssumption, PlanAssumption DEF OpenInv, IInv, PastInv
  <1>2. ASSUME orders' = orders, UNCHANGED exchangeVars,
               plan'.order = plan.order, plan'.seen = plan.seen
        PROVE  OrdersPast'
    BY <1>1, <1>2 DEF OrdersPast, exchangeVars, Past
  <1>3. CASE /\ UNCHANGED plan
             /\ \/ SetConfirmationRequired(Pool, Plan) \/ CompleteContext(Pool, Plan)
                \/ RecoverPending(Pool)
                \/ \E r \in Requests : \/ Submit(Pool, r) \/ Refresh(Pool, r)
                                       \/ ConfirmAndSubmit(Pool, r, Plan)
    <2>1. UNCHANGED <<exchangeVars, orders>>
      BY <1>1, <1>3, SubmitEffect, RefreshEffect, PendingEffect, ContextEffect DEF memory
    <2> QED
      BY <1>1, <1>2, <1>3, <2>1 DEF PlanInv
  <1>4. CASE \/ ~task.defer /\ AdvanceNotReady
             \/ AdvanceSubmit
             \/ Complete
             \/ plan.order[task.leg] # NoOrder /\ ~IsTerminal(plan.order[task.leg])
                /\ RefreshLeg
             \/ RecoverPending(Pool) /\ UNCHANGED coordinator
    <2>1. AdvanceSubmit \/ (plan.order[task.leg] # NoOrder
             /\ ~IsTerminal(plan.order[task.leg]) /\ RefreshLeg) =>
             RequestOf(task.leg) \in Requests
      BY <1>1, PlanIsNamed, RequestType
         DEF AdvanceSubmit, RefreshLeg, At, OpenInv, TaskInv, PlanStages, LegStages, EndStages
    <2> QED
      BY <1>3, <1>4, <2>1 DEF AdvanceNotReady, AdvanceSubmit, Complete, RefreshLeg, coordinator
  <1>5. ASSUME NEW k \in Keys, NEW order \in Past(k), Record(Pool, k, order),
               plan'.known = plan.known, plan'.quantity = plan.quantity,
               plan'.order \in [Keys -> Orders \cup {NoOrder}],
               plan'.seen \in [Keys -> Orders \cup {NoOrder}],
               \A i \in Keys \ {k} : plan'.order[i] = plan.order[i] /\ plan'.seen[i] = plan.seen[i],
               plan'.order[k] \in Past(k) \cup {plan.order[k]},
               plan'.seen[k] \in Past(k) \cup {plan.seen[k]},
               plan' = [known |-> plan'.known, order |-> plan'.order, seen |-> plan'.seen,
                        quantity |-> plan'.quantity]
        PROVE  PlanInv' /\ OrdersPast' /\ UNCHANGED exchangeVars
    <2>1. UNCHANGED exchangeVars /\ orders' = [orders EXCEPT ![k] = order]
      BY <1>1, <1>5, RecordEffect
    <2>2. orders \in [Keys -> Orders \cup {NoOrder}] /\ order # NoOrder
      BY <1>1, <1>5, PastFacts DEF TypeOK
    <2>3. \A i \in Keys : Past(i)' = Past(i)
      BY <2>1 DEF exchangeVars, Past
    <2>4. OrdersPast'
      BY <1>1, <1>5, <2>1, <2>2, <2>3 DEF OrdersPast
    <2> QED
      BY <1>1, <1>5, <2>1, <2>4 DEF PlanInv
  <1>6. CASE RecordLeg
    <2> DEFINE k == task.leg
    <2>1. /\ k \in Keys /\ Record(Pool, k, plan.order[k]) /\ plan.order[k] # NoOrder
          /\ \E held \in Reconciled(plan.seen[k], plan.order[k]) :
                plan' = [plan EXCEPT !.seen[k] = held]
      BY <1>1, <1>6 DEF RecordLeg, At, TaskInv, PlanStages, LegStages, RecordPast
    <2>2. plan.order[k] \in Past(k) /\ plan.seen[k] \in Past(k) \cup {NoOrder}
      BY <1>1, <2>1 DEF OrdersPast
    <2>3. PICK held \in Past(k) : plan' = [plan EXCEPT !.seen[k] = held]
      BY <2>1, <2>2, ReconciledPast
    <2>4. held \in Orders
      BY <1>1, <2>1, <2>3, PastFacts
    <2> HIDE DEF k
    <2> QED
      BY <1>1, <1>5, <2>1, <2>2, <2>3, <2>4 DEF PlanInv
  <1>7. CASE Preparable(plan.order[First].filled) /\ Follow
    <2> DEFINE batch == {RequestOf(First), Request(Second, Prepared(plan.order[First].filled))}
    <2>1. /\ At("follow") /\ RegisterContext(Pool, Plan, "open", batch)
          /\ plan' = [plan EXCEPT !.quantity[Second] = Prepared(plan.order[First].filled)]
      BY <1>7 DEF Follow, Request
    <2>2. batch \in SUBSET Requests /\ Prepared(plan.order[First].filled) \in Quantities
      BY <1>1, <1>7, <2>1, FollowRequests DEF OpenInv
    <2>3. UNCHANGED <<exchangeVars, orders>>
      BY <1>1, <2>1, <2>2, ContextEffect
    <2> QED
      BY <1>1, <1>2, <2>1, <2>2, <2>3 DEF PlanInv
  <1>8. ASSUME NEW first \in Quantities, NEW second \in Quantities,
               Passes(first, second), Start(first, second)
        PROVE  PlanInv' /\ OrdersPast' /\ UNCHANGED exchangeVars
    <2> DEFINE batch == {Request(k, Prepared(first)) : k \in Keys}
    <2>1. /\ RegisterContext(Pool, Plan, "open", batch)
          /\ plan' = [known |-> TRUE, order |-> [k \in Keys |-> NoOrder],
                      seen |-> [k \in Keys |-> NoOrder],
                      quantity |-> [k \in Keys |-> Prepared(first)]]
      BY <1>8 DEF Start, Passes, NoPlan
    <2>2. Prepared(first) \in Quantities
      BY <1>8, QuantityAssumption DEF Passes
    <2>3. batch \in SUBSET Requests
      BY <2>2 DEF Request, Requests
    <2>4. UNCHANGED <<exchangeVars, orders>>
      BY <1>1, <2>1, <2>3, ContextEffect
    <2> HIDE DEF batch
    <2>5. \A k \in Keys : Past(k)' = Past(k)
      BY <2>4 DEF exchangeVars, Past
    <2> QED
      BY <1>1, <2>1, <2>2, <2>4, <2>5 DEF PlanInv, OrdersPast
  <1>9. ASSUME NEW k \in Keys, NEW order \in Past(k), PrivateEvent(k, order)
        PROVE  PlanInv' /\ OrdersPast' /\ UNCHANGED exchangeVars
    <2>1. CASE plan.known
      <3>1. PICK held \in Reconciled(plan.seen[k], order) :
              /\ plan' = [plan EXCEPT !.seen[k] = held, !.order[k] = held]
              /\ Record(Pool, k, held)
        BY <1>9, <2>1 DEF PrivateEvent
      <3>2. held \in Past(k) /\ held \in Orders
        BY <1>1, <3>1, ReconciledPast, PastFacts DEF OrdersPast
      <3> QED
        BY <1>1, <1>5, <3>1, <3>2 DEF PlanInv
    <2>2. CASE ~plan.known
      BY <1>1, <1>5, <1>9, <2>2 DEF PrivateEvent, PlanInv
    <2> QED
      BY <2>1, <2>2
  <1> QED
    BY <1>3, <1>4, <1>6, <1>7, <1>8, <1>9 DEF CallStep

\* An answer with an order leads a submitted leg to its record.
LEMMA OwnAnswer ==
    ASSUME OpenInv, OwnStep
    PROVE  AnswerPast' /\ RecordPast'
  <1>1. /\ TypeOK /\ TaskInv /\ AnswerPast /\ RecordPast /\ PlanInv
        /\ orders' = orders /\ market' = market
        /\ \A k : Past(k)' = Past(k)
        /\ call'[Pool].phase = "idle" \/ UNCHANGED <<call, task>>
    BY OwnEffect DEF OpenInv, IInv, PastInv, exchangeVars, memory, Past
  <1>2. AnswerPast'
    BY <1>1 DEF AnswerPast
  <1>3. CASE task'.stage \notin {"record", "recorded"}
    BY <1>2, <1>3 DEF RecordPast
  <1>4. CASE AdvanceKnown
    BY <1>1, <1>2, <1>4, TaskGoes DEF AdvanceKnown, Task, RecordPast
  <1>5. CASE Sent
    <2>1. CASE Answer = "order"
      <3>1. /\ plan' = [plan EXCEPT !.order[task.leg] = call[Pool].order]
            /\ task'.leg = task.leg /\ task.leg \in Keys
            /\ call[Pool].order \in Past(task.leg)
        BY <1>1, <1>5, <2>1, TaskGoes
           DEF Sent, After, Answer, Task, TaskInv, PlanStages, LegStages, AnswerPast
      <3> QED
        BY <1>1, <1>2, <3>1, PastFacts DEF PlanInv, RecordPast
    <2>2. CASE Answer # "order"
      <3>1. task'.stage \in {"free", "complete"}
        BY <1>1, <1>5, <2>2, TaskGoes DEF Sent, Task, NoTask
      <3> QED
        BY <1>3, <3>1
    <2> QED
      BY <2>1, <2>2
  <1>6. CASE MonitorLeaves /\ UNCHANGED coordinator
    BY <1>1, <1>2, <1>6 DEF MonitorLeaves, coordinator, RecordPast
  <1>7. AdvanceKnown \/ Sent \/ (MonitorLeaves /\ UNCHANGED coordinator)
        \/ task'.stage \notin {"record", "recorded"}
    <2>1. CASE AdvanceDeferred \/ (task.defer /\ AdvanceNotReady) \/ Deferring \/ Recorded
               \/ (~Preparable(plan.order[First].filled) /\ Follow)
      BY <1>1, <2>1, TaskGoes
         DEF AdvanceDeferred, AdvanceNotReady, Deferring, Recorded, Follow, Task, NoTask
    <2>2. CASE Registered \/ Completed \/ Noting \/ Refreshed \/ RecoverEnd
      BY <1>1, <2>2, TaskGoes
         DEF Registered, Completed, Noting, Refreshed, AfterRefresh, RecoverEnd, Task, NoTask
    <2>3. CASE Resume \/ Restore
      BY <1>1, <2>3 DEF Resume, Restore, Free, Task
    <2>4. CASE (plan.order[task.leg] = NoOrder \/ IsTerminal(plan.order[task.leg]))
               /\ RefreshLeg
      BY <1>1, <2>4, TaskGoes DEF RefreshLeg, AfterRefresh, Task
    <2>5. CASE \/ \E first, second \in Quantities :
                     ~Passes(first, second) /\ Start(first, second)
               \/ (\A k \in Keys : submitted[k] = NoRequest) /\ RecoverStart
      BY <2>5 DEF Start, Passes, RecoverStart, Free, vars
    <2> QED
      BY <2>1, <2>2, <2>3, <2>4, <2>5 DEF OwnStep
  <1> QED
    BY <1>2, <1>3, <1>4, <1>5, <1>6, <1>7

\* A call does not answer, but with an order the service has.
LEMMA CallAnswer ==
    ASSUME OpenInv, CallStep
    PROVE  AnswerPast' /\ RecordPast'
  <1>1. /\ TypeOK /\ TaskInv /\ AnswerPast /\ RecordPast /\ OrdersPast
        /\ First \in Keys /\ Second \in Keys
        /\ \A k : Past(k)' = Past(k)
    BY PlanAssumption, CallPlan DEF OpenInv, IInv, PastInv, exchangeVars, Past
  <1>2. CASE task'.stage \notin {"sent", "refreshing", "record", "recorded"}
             /\ call'[Pool].phase # "asked"
    BY <1>2 DEF AnswerPast, RecordPast
  <1>3. CASE AdvanceSubmit
    <2>1. /\ Submit(Pool, RequestOf(task.leg)) \/ ConfirmAndSubmit(Pool, RequestOf(task.leg), Plan)
          /\ task'.stage = "sent" /\ task'.leg = task.leg
          /\ task.leg \in Keys
      BY <1>1, <1>3, TaskGoes DEF AdvanceSubmit, At, TaskInv, Task, PlanStages, LegStages
    <2>2. RequestOf(task.leg) \in Requests /\ RequestOf(task.leg).key = task.leg
      BY <1>3, <2>1, PlanIsNamed, RequestType
         DEF OpenInv, AdvanceSubmit, At, PlanStages, LegStages, EndStages
    <2>3. /\ orders' = orders
          /\ \/ call'[Pool].phase \in {"create", "query"}
             \/ call'[Pool].result # "order" /\ call'[Pool].phase = "done"
             \/ call'[Pool].order = orders[task.leg] /\ orders[task.leg] # NoOrder
                /\ call'[Pool].phase = "done"
      <3>1. /\ orders' = orders
            /\ \/ call'[Pool] = Stage("create", task.leg, 0, NoOrder, {}, "none")
               \/ call'[Pool] = Stage("query", task.leg, 0, NoOrder, {}, "none")
               \/ Over("order", orders[task.leg]) /\ orders[task.leg] # NoOrder
               \/ \E reply \in Results \ {"order"} : Over(reply, NoOrder)
        BY <1>1, <2>1, <2>2, SubmitEffect
      <3>2. CASE Over("order", orders[task.leg]) /\ orders[task.leg] # NoOrder
        BY <3>1, <3>2 DEF Over, Stage
      <3>3. CASE \E reply \in Results \ {"order"} : Over(reply, NoOrder)
        BY <3>1, <3>3 DEF Over, Stage
      <3> QED
        BY <3>1, <3>2, <3>3 DEF Stage
    <2>4. orders[task.leg] # NoOrder => orders[task.leg] \in Past(task.leg)
      BY <1>1, <2>1 DEF OrdersPast
    <2> QED
      BY <1>1, <2>1, <2>3, <2>4 DEF AnswerPast, RecordPast
  <1>4. CASE RecordLeg
    <2>1. /\ Record(Pool, task.leg, plan.order[task.leg]) /\ task.leg \in Keys
          /\ task'.stage = "recorded" /\ task'.leg = task.leg
          /\ plan.order[task.leg] # NoOrder /\ plan'.order = plan.order
      BY <1>1, <1>4, TaskGoes
         DEF RecordLeg, At, TaskInv, Task, PlanStages, LegStages, RecordPast, OpenInv, PlanInv
    <2>2. call'[Pool].phase = "done"
      BY <1>1, <2>1, RecordEffect DEF Over, Stage
    <2> QED
      BY <2>1, <2>2 DEF AnswerPast, RecordPast
  <1>5. CASE plan.order[task.leg] # NoOrder /\ ~IsTerminal(plan.order[task.leg])
             /\ RefreshLeg
    <2>1. Refresh(Pool, RequestOf(task.leg)) /\ task'.stage = "refreshing"
      BY <1>1, <1>5, TaskGoes DEF RefreshLeg, Task
    <2>2. RequestOf(task.leg) \in Requests /\ RequestOf(task.leg).key = task.leg
      BY <1>1, <1>5, PlanIsNamed, RequestType
         DEF OpenInv, RefreshLeg, At, TaskInv, PlanStages, LegStages, EndStages
    <2>3. call'[Pool].phase = "query" \/ (call'[Pool].phase = "done" /\ call'[Pool].result # "order")
      <3>1. \/ call'[Pool] = Stage("query", task.leg, 0, NoOrder, {}, "none")
            \/ Over("unprepared", NoOrder)
        BY <1>1, <2>1, <2>2, RefreshEffect
      <3> QED
        BY <3>1 DEF Over, Stage
    <2> QED
      BY <2>1, <2>3 DEF AnswerPast, RecordPast
  <1>6. CASE (~task.defer /\ AdvanceNotReady) \/ Complete
    <2>1. /\ SetConfirmationRequired(Pool, Plan) \/ CompleteContext(Pool, Plan)
          /\ task'.stage \in {"deferring", "completing"}
      BY <1>1, <1>6, TaskGoes DEF AdvanceNotReady, Complete, Task
    <2>2. call'[Pool].phase = "done"
      BY <1>1, <2>1, ContextEffect DEF Over, Stage
    <2> QED
      BY <1>2, <2>1, <2>2
  <1>7. CASE Preparable(plan.order[First].filled) /\ Follow
    <2>1. task'.stage = "registering" /\ At("follow")
      BY <1>1, <1>7, TaskGoes DEF Follow, Task
    <2>2. call'[Pool].phase = "done"
      BY <1>1, <1>7, <2>1, FollowRequests, ContextEffect DEF Follow, Over, Stage, OpenInv
    <2> QED
      BY <1>2, <2>1, <2>2
  <1>8. ASSUME NEW first \in Quantities, NEW second \in Quantities,
               Passes(first, second), Start(first, second)
        PROVE  AnswerPast' /\ RecordPast'
    <2>1. /\ RegisterContext(Pool, Plan, "open", {Request(k, Prepared(first)) : k \in Keys})
          /\ task'.stage = "registering"
      BY <1>8 DEF Start, Passes, Task
    <2>2. {Request(k, Prepared(first)) : k \in Keys} \in SUBSET Requests
      BY <1>8, QuantityAssumption DEF Passes, Request, Requests
    <2>3. call'[Pool].phase = "done"
      BY <1>1, <2>1, <2>2, ContextEffect DEF Over, Stage
    <2> QED
      BY <1>2, <2>1, <2>3
  <1>9. ASSUME NEW k \in Keys, NEW order \in Past(k), PrivateEvent(k, order)
        PROVE  AnswerPast' /\ RecordPast'
    <2>1. /\ \E held : Record(Pool, k, held)
          /\ \/ task' = Task("noting", First, FALSE, Recovering, FALSE)
             \/ task' = Task("noted", First, FALSE, FALSE, FALSE)
      BY <1>9 DEF PrivateEvent
    <2>2. task'.stage \in {"noting", "noted"}
      BY <2>1 DEF Task
    <2>3. call'[Pool].phase = "done"
      BY <1>1, <2>1, RecordEffect DEF Over, Stage
    <2> QED
      BY <1>2, <2>2, <2>3
  <1>10. CASE RecoverPending(Pool) /\ RecoverStart
    <2>1. \E k \in Keys : submitted[k] # NoRequest
      BY <1>10 DEF RecoverPending
    <2>2. task'.stage = "querying" /\ call'[Pool].phase = "query"
      <3>1. \E k \in Keys, batch \in SUBSET Keys :
               call'[Pool] = Stage("query", k, 0, NoOrder, batch, "none")
        BY <1>1, <1>10, PendingEffect
      <3> QED
        BY <1>10, <2>1, <3>1 DEF RecoverStart, Task, Stage
    <2> QED
      BY <1>2, <2>2
  <1> QED
    BY <1>3, <1>4, <1>5, <1>6, <1>7, <1>8, <1>9, <1>10 DEF CallStep

\* Whatever step is taken, the orders held stay orders of the past.
LEMMA PastStep ==
    ASSUME OpenInv, [OpenNext]_openVars
    PROVE  PlanInv' /\ PastInv'
  <1>1. /\ IInv /\ TypeOK /\ TaskInv /\ PlanInv /\ PastInv
        /\ OrdersPast /\ AnswerPast /\ RecordPast
    BY DEF OpenInv, IInv, PastInv
  <1>2. CASE InService /\ UNCHANGED coordinator
    <2> DEFINE k == call[Pool].key
    <2>1. /\ k \in Keys /\ UNCHANGED <<market, worker, plan>>
          /\ \/ orders' = orders
             \/ \E order \in Past(k) : orders' = [orders EXCEPT ![k] = order]
      BY <1>1, <1>2, InServiceEffect DEF coordinator
    <2>2. \A i : Past(i)' = Past(i)
      BY <2>1 DEF Past
    <2>3. /\ orders \in [Keys -> Orders \cup {NoOrder}]
          /\ market \in [Keys -> Orders \cup {NoOrder}]
          /\ \A order \in Past(k) : order # NoOrder
      BY <1>1, <2>1, PastFacts DEF TypeOK
    <2>4. OrdersPast'
      BY <1>1, <2>1, <2>2, <2>3 DEF OrdersPast
    <2>5. PlanInv' /\ RecordPast'
      BY <1>1, <2>1 DEF PlanInv, RecordPast, worker
    <2>6. ASSUME call'[Pool].phase = "asked"
          PROVE  call'[Pool].order \in Past(call'[Pool].key) \cup {NoOrder}
      <3>1. call'[Pool] = Stage("asked", k, 0, market[k], call[Pool].batch, "none")
        BY <1>1, <1>2, <2>6, InServiceAnswer
      <3> QED
        BY <2>1, <2>3, <3>1 DEF Past, Stage
    <2>7. ASSUME task.stage \in {"sent", "refreshing"},
                 call'[Pool].phase = "done", call'[Pool].result = "order"
          PROVE  call'[Pool].order \in Past(task.leg) /\ orders'[task.leg] # NoOrder
      <3>1. \E order \in Past(k) :
               Over("order", order) /\ orders' = [orders EXCEPT ![k] = order]
        BY <1>1, <1>2, <2>7, InServiceAnswer
      <3>2. k = task.leg
        BY <1>1, <1>2, <2>7, InServiceEffect DEF TaskInv
      <3> QED
        BY <2>1, <2>3, <3>1, <3>2 DEF Over, Stage
    <2>8. AnswerPast'
      BY <2>1, <2>2, <2>6, <2>7 DEF AnswerPast, worker
    <2> QED
      BY <2>4, <2>5, <2>8 DEF PastInv
  <1>3. CASE ExchangeStep /\ UNCHANGED <<worker, coordinator>>
    <2>1. UNCHANGED <<orders, call, task, plan>>
      BY <1>3 DEF ExchangeStep, memory, worker, coordinator
    <2>2. \A k \in Keys : Past(k) \subseteq Past(k)'
      BY <1>1, <1>3, PastGrows
    <2>3. OrdersPast'
      BY <1>1, <2>1, <2>2 DEF OrdersPast
    <2>4. AnswerPast'
      <3>1. call[Pool].phase = "asked" => call[Pool].key \in Keys
        BY <1>1, OnePlan DEF IInv, CallInv, ThreadInv
      <3>2. task.stage \in {"sent", "refreshing"} => task.leg \in Keys
        BY <1>1 DEF TaskInv, PlanStages, LegStages
      <3> QED
        BY <1>1, <2>1, <2>2, <3>1, <3>2 DEF AnswerPast
    <2> QED
      BY <1>1, <2>1, <2>3, <2>4 DEF PastInv, RecordPast, PlanInv
  <1>4. CASE ProcessRestart
    <2>1. /\ plan' = NoPlan /\ task' = NoTask /\ orders' = [k \in Keys |-> NoOrder]
          /\ call'[Pool] = Idle
      BY <1>4, OnePlan DEF ProcessRestart, WorkerRestart, Restart
    <2> QED
      BY <2>1 DEF NoPlan, NoTask, Task, Idle, Stage, PlanInv, PastInv, OrdersPast,
                  AnswerPast, RecordPast
  <1>5. CASE UNCHANGED openVars
    BY <1>1, <1>5 DEF openVars, vars, exchangeVars, memory, worker, coordinator, PlanInv,
                      PastInv, OrdersPast, AnswerPast, RecordPast, Past
  <1> QED
    BY <1>2, <1>3, <1>4, <1>5, StepCases, OwnPlan, OwnAnswer, CallPlan, CallAnswer
       DEF PastInv

-----------------------------------------------------------------------------
(* Before the plan is submitted *)

\* Until then no step but the user's does anything.
LEMMA StartStep ==
    ASSUME OpenInv, [OpenNext]_openVars
    PROVE  StartInv'
  <1>1. /\ IInv /\ TypeOK /\ TaskInv /\ StartInv /\ PastInv
    BY DEF OpenInv, IInv
  <1>2. SUFFICES ASSUME ~started' PROVE StartInv'
    BY DEF StartInv
  <1>3. ASSUME ~started
        PROVE  /\ \A k \in Keys : /\ creates[k] = << >> /\ Past(k) = {}
                                  /\ submitted[k] = NoRequest
                                  /\ journal.orders[k] = NoRequest
               /\ contexts[Plan] = NoContext /\ journal.contexts[Plan] = NoContext
               /\ ~plan.known /\ result = "none" /\ recovery = "none"
               /\ task.stage = "free" /\ call[Pool].phase = "idle"
    <2>1. \A k \in Keys : creates[k] = << >> => market[k] = NoOrder
      BY <1>1 DEF IInv, MarketInv
    <2> QED
      BY <1>1, <1>3, <2>1 DEF StartInv, Past, TaskInv, ServiceStages
  <1>4. CASE started
    BY <1>1, <1>2, <1>4 DEF OpenNext, openVars, Start, PrivateEvent, Noting, Resume, RefreshLeg,
       Refreshed, Advance, AdvanceKnown, AdvanceDeferred, AdvanceNotReady, AdvanceSubmit,
       Deferring, Sent, RecordLeg, Recorded, Follow, Registered, Complete, Completed,
       Restore, coordinator, ProcessRestart
  <1>5. CASE ~started /\ OwnStep
    BY <1>2, <1>3, <1>5
       DEF OwnStep, Noting, Resume, RefreshLeg, Refreshed, AdvanceKnown, AdvanceDeferred,
           AdvanceNotReady, Deferring, Sent, Recorded, Follow, Registered, Completed,
           Restore, Start, RecoverStart, RecoverEnd, MonitorLeaves, At, After, Passes
  <1>6. CASE ~started /\ CallStep
    BY <1>2, <1>3, <1>6
       DEF CallStep, RefreshLeg, AdvanceNotReady, AdvanceSubmit, RecordLeg, Follow, Complete,
           Start, RecoverStart, At, Passes
  <1>7. CASE ~started /\ InService
    BY <1>1, <1>3, <1>7, InServiceEffect
  <1>8. CASE ~started /\ ExchangeStep /\ UNCHANGED <<worker, coordinator>>
    <2>1. \A k \in Keys : creates'[k] = << >>
      BY <1>1, <1>3, <1>8, PastGrows
    <2> QED
      BY <1>3, <1>8, <2>1 DEF ExchangeStep, memory, worker, coordinator, StartInv
  <1>9. CASE ~started /\ ProcessRestart
    BY <1>3, <1>9 DEF ProcessRestart, WorkerRestart, Restart, exchangeVars, NoTask, Task,
                      NoPlan, StartInv
  <1>10. CASE ~started /\ UNCHANGED openVars
    BY <1>3, <1>10 DEF openVars, vars, exchangeVars, memory, worker, coordinator, StartInv
  <1> QED
    BY <1>4, <1>5, <1>6, <1>7, <1>8, <1>9, <1>10, StepCases

-----------------------------------------------------------------------------
(* The context of the plan *)

\* A step that needs no call keeps the context, and ends the plan or does not.
LEMMA OwnNamed ==
    ASSUME OpenInv, OwnStep
    PROVE  NamedInv'
  <1> USE DEF PlanStages, LegStages, EndStages
  <1>1. /\ TypeOK /\ TaskInv /\ NamedInv /\ PlanInv
        /\ UNCHANGED <<contexts, journal>>
    BY OwnEffect DEF OpenInv, IInv, memory
  <1>2. ASSUME plan'.known = plan.known, recovery' # "restore" \/ recovery' = recovery,
               result' = result,
               \/ task' = NoTask
               \/ /\ task.stage \in PlanStages \ EndStages
                  /\ task'.stage \in Stages \ EndStages
        PROVE  NamedInv'
    BY <1>1, <1>2 DEF NamedInv, NoTask, Task
  <1>3. ASSUME NEW status, Store(status), plan'.known = plan.known,
               task.stage \in PlanStages \ EndStages
        PROVE  NamedInv'
    <2>1. /\ result' = status
          /\ \/ status \in FinalResults /\ task'.stage = "complete" /\ recovery' = recovery
             \/ /\ status \notin FinalResults /\ task' = NoTask
                /\ recovery' \in {recovery, "leave", "stuck"}
      BY <1>1, <1>3, TaskGoes DEF Task
    <2> QED
      BY <1>1, <1>3, <2>1 DEF NamedInv, NoTask, Task
  <1>4. CASE AdvanceDeferred \/ Deferring \/ Sent \/ Recorded
             \/ (~Preparable(plan.order[First].filled) /\ Follow)
    <2>1. task.stage \in PlanStages \ EndStages /\ plan'.known = plan.known
      BY <1>1, <1>4 DEF AdvanceDeferred, Deferring, Sent, Recorded, Follow, At, After, PlanInv
    <2>2. CASE \E status : Store(status)
      BY <1>3, <2>1, <2>2
    <2>3. CASE result' = result /\ (Raise \/ GoTo("record", task.leg) \/ GoTo("follow", Second))
      <3>1. /\ task' = NoTask \/ task'.stage \in {"record", "follow"}
            /\ recovery' \in {recovery, "leave", "stuck"}
        BY <1>1, <2>3, TaskGoes DEF Task
      <3> QED
        BY <1>2, <2>1, <2>3, <3>1 DEF Stages
    <2> QED
      BY <1>4, <2>2, <2>3 DEF AdvanceDeferred, Deferring, Sent, Recorded, Follow
  <1>5. CASE AdvanceKnown \/ (task.defer /\ AdvanceNotReady) \/ Registered \/ Noting
             \/ ((plan.order[task.leg] = NoOrder \/ IsTerminal(plan.order[task.leg]))
                 /\ RefreshLeg)
             \/ Refreshed
    <2>1. result' = result /\ plan'.known = plan.known
      BY <1>1, <1>5 DEF AdvanceKnown, AdvanceNotReady, Registered, Noting, RefreshLeg,
                        Refreshed, PlanInv
    <2>2. /\ recovery' \in {recovery, "leave", "stuck"}
          /\ \/ task' = NoTask
             \/ /\ task.stage \in PlanStages \ EndStages
                /\ task'.stage \in {"record", "advance", "refresh"}
      BY <1>1, <1>5, TaskGoes
         DEF AdvanceKnown, AdvanceNotReady, Registered, Noting, RefreshLeg, Refreshed,
             AfterRefresh, At, After, Task
    <2> QED
      BY <1>2, <2>1, <2>2 DEF Stages
  <1>6. CASE Completed \/ (RecoverEnd /\ UNCHANGED coordinator)
    <2>1. task' = NoTask /\ UNCHANGED <<result, plan>>
      BY <1>1, <1>6, TaskGoes DEF Completed, RecoverEnd, coordinator
    <2>2. recovery' \in {recovery, "leave", "stuck"} \/ recovery' \in {"none", Monitored}
      BY <1>1, <1>6, TaskGoes DEF Completed, RecoverEnd
    <2> QED
      BY <1>1, <2>1, <2>2 DEF NamedInv, NoTask, Task, Monitored
  <1>7. CASE Resume \/ Restore
    BY <1>1, <1>7 DEF Resume, Restore, Free, Task, NamedInv, ResumableResults,
                      DeferredResults, FinalResults
  <1>8. CASE \E first, second \in Quantities : ~Passes(first, second) /\ Start(first, second)
    BY <1>1, <1>8 DEF Passes, Start, Free, NamedInv, FinalResults
  <1>9. CASE /\ ((\A k \in Keys : submitted[k] = NoRequest) /\ RecoverStart) \/ MonitorLeaves
             /\ UNCHANGED coordinator
    BY <1>1, <1>9 DEF RecoverStart, MonitorLeaves, coordinator, Monitored, NamedInv
  <1> QED
    BY <1>4, <1>5, <1>6, <1>7, <1>8, <1>9 DEF OwnStep

\* What is written of a context is no context or that of the plan.
LEMMA NamedWrites ==
    ASSUME TypeOK, TypeOK', NamedInv, Writes,
           contexts'[Plan] = NoContext \/ Named(contexts'[Plan])
    PROVE  journal'.contexts[Plan] = NoContext \/ Named(journal'.contexts[Plan])
  BY DEF NamedInv, Writes

\* A context whose flag changes names the same.
LEMMA NamedFlag ==
    ASSUME TypeOK, contexts[Plan] # NoContext, NEW flag \in BOOLEAN,
           contexts' = [contexts EXCEPT ![Plan].confirm = flag]
    PROVE  Named(contexts[Plan]) => Named(contexts'[Plan])
  <1>1. contexts[Plan] \in Contexts
    BY OnePlan DEF TypeOK
  <1>2. /\ contexts'[Plan].kind = contexts[Plan].kind
        /\ contexts'[Plan].requests = contexts[Plan].requests
    BY <1>1, OnePlan DEF TypeOK, Contexts
  <1> QED
    BY <1>2 DEF Named, KeysOf

\* The context that the plan registers names both its legs.
LEMMA NamedRegistered ==
    ASSUME TypeOK, NamedInv, NEW batch \in SUBSET Requests,
           {r.key : r \in batch} = Keys, RegisterContext(Pool, Plan, "open", batch)
    PROVE  Named(contexts'[Plan])
  <1>1. contexts[Plan].kind \in {"none", "open"}
    BY DEF NamedInv, Named, NoContext
  <1>2. contexts' = [contexts EXCEPT ![Plan] = [kind |-> "open", requests |-> batch,
                                                confirm |-> contexts[Plan].confirm]]
    BY <1>1, ContextEffect
  <1> QED
    BY <1>2, OnePlan DEF TypeOK, Named, KeysOf

\* A call keeps the context of the plan, until it completes the plan.
LEMMA CallNamed ==
    ASSUME OpenInv, IInv', CallStep, LateEvents = FALSE
    PROVE  NamedInv'
  <1> USE DEF PlanStages, LegStages, EndStages
  <1>1. /\ TypeOK /\ TypeOK' /\ TaskInv /\ NamedInv /\ PlanInv
        /\ First \in Keys /\ Second \in Keys /\ Keys = {First, Second}
    BY PlanAssumption DEF OpenInv, IInv
  <1>2. ASSUME Writes, result' = result,
               Named(contexts[Plan]) => Named(contexts'[Plan]),
               contexts'[Plan] = NoContext \/ Named(contexts'[Plan]),
               plan'.known => plan.known \/ Named(contexts'[Plan]), recovery' = recovery,
               recovery = "restore" => result \in FinalResults \/ Named(contexts[Plan]),
               task'.stage \in PlanStages => /\ plan'.known /\ result \notin FinalResults
                                             /\ task'.stage \notin EndStages
        PROVE  NamedInv'
    BY <1>1, <1>2, NamedWrites DEF NamedInv
  <1>3. CASE (~task.defer /\ AdvanceNotReady) \/ AdvanceSubmit
             \/ (plan.order[task.leg] # NoOrder /\ ~IsTerminal(plan.order[task.leg])
                 /\ RefreshLeg)
    <2>1. /\ task.stage \in PlanStages \ EndStages /\ task.leg \in Keys
          /\ task'.stage \in {"deferring", "sent", "refreshing"}
          /\ UNCHANGED <<plan, result, recovery>>
      BY <1>1, <1>3, TaskGoes
         DEF AdvanceNotReady, AdvanceSubmit, RefreshLeg, At, TaskInv, Task
    <2>2. RequestOf(task.leg) \in Requests
      BY <1>1, <2>1, PlanIsNamed, RequestType
    <2>3. /\ Writes
          /\ \/ contexts' = contexts
             \/ \E flag \in BOOLEAN : /\ contexts[Plan] # NoContext
                                      /\ contexts' = [contexts EXCEPT ![Plan].confirm = flag]
      BY <1>1, <1>3, <2>2, SubmitEffect, ContextEffect, RefreshEffect
         DEF AdvanceNotReady, AdvanceSubmit, RefreshLeg
    <2>4. Named(contexts[Plan]) => Named(contexts'[Plan])
      BY <1>1, <2>3, NamedFlag
    <2>5. Named(contexts[Plan]) /\ plan.known /\ result \notin FinalResults
      BY <1>1, <2>1, PlanIsNamed
    <2> QED
      BY <1>1, <1>2, <2>1, <2>3, <2>4, <2>5 DEF NamedInv
  <1>4. CASE RecordLeg
    <2>1. /\ task.stage = "record" /\ task.leg \in Keys
          /\ task'.stage = "recorded" /\ UNCHANGED <<result, recovery>>
          /\ plan'.known = plan.known
          /\ Record(Pool, task.leg, plan.order[task.leg])
      BY <1>1, <1>4, TaskGoes DEF RecordLeg, At, TaskInv, Task, PlanInv
    <2>2. contexts' = contexts /\ Writes
      BY <1>1, <2>1, RecordEffect
    <2>3. plan.known /\ result \notin FinalResults
      BY <1>1, <2>1, PlanIsNamed
    <2> QED
      BY <1>1, <1>2, <2>1, <2>2, <2>3 DEF NamedInv
  <1>5. CASE Preparable(plan.order[First].filled) /\ Follow
    <2> DEFINE batch == {RequestOf(First), Request(Second, Prepared(plan.order[First].filled))}
    <2>1. /\ At("follow") /\ RegisterContext(Pool, Plan, "open", batch)
          /\ plan'.known = plan.known /\ UNCHANGED <<result, recovery>>
          /\ task'.stage = "registering"
      BY <1>1, <1>5, TaskGoes DEF Follow, Task, PlanInv
    <2>2. batch \in SUBSET Requests
      BY <1>1, <1>5, <2>1, FollowRequests DEF OpenInv
    <2>3. {r.key : r \in batch} = Keys
      BY <1>1 DEF RequestOf, Request
    <2> HIDE DEF batch
    <2>4. Named(contexts'[Plan]) /\ Writes
      BY <1>1, <2>1, <2>2, <2>3, NamedRegistered, ContextEffect
    <2>5. plan.known /\ result \notin FinalResults
      BY <1>1, <2>1, PlanIsNamed DEF At
    <2> QED
      BY <1>1, <1>2, <2>1, <2>4, <2>5 DEF NamedInv
  <1>6. CASE Complete
    <2>1. /\ task.stage = "complete" /\ task'.stage = "completing"
          /\ UNCHANGED <<plan, result, recovery>> /\ CompleteContext(Pool, Plan)
      BY <1>1, <1>6, TaskGoes DEF Complete, At, Task
    <2>2. contexts'[Plan] = NoContext /\ Writes
      BY <1>1, <2>1, ContextEffect
    <2> QED
      BY <1>1, <2>1, <2>2, NamedWrites DEF NamedInv
  <1>7. ASSUME NEW first \in Quantities, NEW second \in Quantities,
               Passes(first, second), Start(first, second)
        PROVE  NamedInv'
    <2> DEFINE batch == {Request(k, Prepared(first)) : k \in Keys}
    <2>1. /\ RegisterContext(Pool, Plan, "open", batch) /\ ~started
          /\ task'.stage = "registering" /\ plan'.known /\ UNCHANGED <<result, recovery>>
      <3>1. /\ RegisterContext(Pool, Plan, "open", batch) /\ ~started
            /\ task' = Task("registering", First, FALSE, FALSE, FALSE)
            /\ plan' = [NoPlan EXCEPT !.known = TRUE,
                                      !.quantity = [k \in Keys |-> Prepared(first)]]
            /\ UNCHANGED <<result, recovery>>
        BY <1>7 DEF Start, Passes
      <3>2. plan'.known
        BY <3>1 DEF NoPlan
      <3>3. task'.stage = "registering"
        BY <3>1 DEF Task
      <3> QED
        BY <3>1, <3>2, <3>3
    <2>2. Prepared(first) \in Quantities
      BY <1>7, QuantityAssumption DEF Passes
    <2>3. batch \in SUBSET Requests
      BY <2>2 DEF Request, Requests
    <2>4. {r.key : r \in batch} = Keys
      <3>1. \A k \in Keys : Request(k, Prepared(first)).key = k
        BY DEF Request
      <3> QED
        BY <3>1
    <2> HIDE DEF batch
    <2>5. Named(contexts'[Plan]) /\ Writes
      BY <1>1, <2>1, <2>3, <2>4, NamedRegistered, ContextEffect
    <2>6. result \notin FinalResults
      BY <2>1 DEF OpenInv, StartInv, FinalResults
    <2> QED
      BY <1>1, <1>2, <2>1, <2>5, <2>6 DEF NamedInv
  <1>8. ASSUME NEW k \in Keys, NEW order \in Past(k), PrivateEvent(k, order)
        PROVE  NamedInv'
    <2>1. /\ \E held : Record(Pool, k, held)
          /\ UNCHANGED <<result, recovery>> /\ plan'.known = plan.known
          /\ result \notin FinalResults
          /\ \/ plan.known /\ task' = Task("noting", First, FALSE, Recovering, FALSE)
             \/ task' = Task("noted", First, FALSE, FALSE, FALSE)
      BY <1>1, <1>8 DEF PrivateEvent, PlanInv
    <2>2. contexts' = contexts /\ Writes
      BY <1>1, <2>1, RecordEffect
    <2> QED
      BY <1>1, <1>2, <2>1, <2>2 DEF NamedInv, Task
  <1>9. CASE RecoverPending(Pool) /\ RecoverStart /\ UNCHANGED coordinator
    <2>1. \E k \in Keys : submitted[k] # NoRequest
      BY <1>9 DEF RecoverPending
    <2>2. UNCHANGED <<contexts, journal, recovery, plan, result>> /\ task'.stage = "querying"
      BY <1>1, <1>9, <2>1, PendingEffect DEF RecoverStart, Task, memory, coordinator
    <2> QED
      BY <1>1, <2>2 DEF NamedInv
  <1> QED
    BY <1>3, <1>4, <1>5, <1>6, <1>7, <1>8, <1>9 DEF CallStep

\* Whatever step is taken, a plan that is not over keeps its context.
LEMMA NamedStep ==
    ASSUME OpenInv, IInv', [OpenNext]_openVars, LateEvents = FALSE
    PROVE  NamedInv'
  <1>1. /\ IInv /\ TypeOK /\ TypeOK' /\ NamedInv /\ PastInv
    BY DEF OpenInv, IInv
  <1>2. CASE InService /\ UNCHANGED coordinator
    <2>1. Writes /\ UNCHANGED <<contexts, task, recovery, plan, result>>
      BY <1>1, <1>2, InServiceEffect DEF worker, coordinator
    <2> QED
      BY <1>1, <2>1, NamedWrites DEF NamedInv
  <1>3. CASE (ExchangeStep /\ UNCHANGED <<worker, coordinator>>) \/ UNCHANGED openVars
    BY <1>1, <1>3 DEF ExchangeStep, openVars, vars, memory, worker, coordinator, NamedInv
  <1>4. CASE ProcessRestart
    <2>1. /\ UNCHANGED journal /\ contexts' = journal.contexts
          /\ task' = NoTask /\ recovery' \in {"query", "none"} /\ plan' = NoPlan
      BY <1>4 DEF ProcessRestart, WorkerRestart, Restart
    <2> QED
      BY <1>1, <2>1 DEF NamedInv, NoTask, Task, NoPlan, PlanStages, LegStages, EndStages
  <1> QED
    BY <1>2, <1>3, <1>4, StepCases, OwnNamed, CallNamed

-----------------------------------------------------------------------------
(* The second leg *)

\* A step that needs no call turns to the second leg only when the first one's
\* order is filled.
LEMMA OwnFollow ==
    ASSUME OpenInv, OwnStep
    PROVE  FollowInv'
  <1> USE DEF LegStages
  <1>1. /\ TypeOK /\ TaskInv /\ FollowInv /\ PlanInv
        /\ First \in Keys /\ Second \in Keys /\ First # Second
    BY PlanAssumption DEF OpenInv, IInv
  <1>2. CASE task'.stage \notin LegStages \/ task'.leg = First
    BY <1>1, <1>2 DEF FollowInv
  <1>3. CASE UNCHANGED <<task, plan>>
    BY <1>1, <1>3 DEF FollowInv
  <1>4. CASE /\ task.stage \in LegStages \ {"follow"}
             /\ task'.stage \in LegStages /\ task'.leg = task.leg
             /\ task.leg = Second => plan'.order[First] = plan.order[First]
             /\ plan'.quantity = plan.quantity
    BY <1>1, <1>4 DEF FollowInv
  <1>5. CASE AdvanceDeferred \/ Deferring \/ (task.defer /\ AdvanceNotReady) \/ Completed
             \/ (~Preparable(plan.order[First].filled) /\ Follow)
    <2>1. task'.stage \in {"free", "complete"}
      BY <1>1, <1>5, TaskGoes
         DEF AdvanceDeferred, Deferring, AdvanceNotReady, Completed, Follow, Task, NoTask
    <2> QED
      BY <1>2, <2>1
  <1>6. CASE AdvanceKnown \/ Registered
    <2>1. \/ task' = NoTask
          \/ /\ task.stage \in {"advance", "registering"} /\ plan' = plan
             /\ task'.stage \in {"record", "advance"} /\ task'.leg = task.leg
      BY <1>1, <1>6, TaskGoes DEF AdvanceKnown, Registered, At, After, Task
    <2> QED
      BY <1>2, <1>4, <2>1 DEF NoTask, Task
  <1>7. CASE Sent
    <2>1. \/ task'.stage \in {"free", "complete"}
          \/ /\ task.stage = "sent" /\ task'.stage = "record" /\ task'.leg = task.leg
             /\ plan' = [plan EXCEPT !.order[task.leg] = call[Pool].order]
      BY <1>1, <1>7, TaskGoes DEF Sent, After, Task, NoTask
    <2> QED
      BY <1>1, <1>2, <1>4, <2>1 DEF PlanInv
  <1>8. CASE Recorded
    <2>1. \/ task'.stage \in {"free", "complete"}
          \/ /\ task'.stage = "follow" /\ plan' = plan
             /\ plan.order[First].status = "filled"
      BY <1>1, <1>8, TaskGoes DEF Recorded, Task, NoTask
    <2> QED
      BY <1>2, <2>1 DEF FollowInv
  <1>9. CASE Noting \/ Refreshed
             \/ ((plan.order[task.leg] = NoOrder \/ IsTerminal(plan.order[task.leg]))
                 /\ RefreshLeg)
    <2>1. \/ task'.stage \in {"free", "refresh"}
          \/ task'.leg = First
      BY <1>1, <1>9, TaskGoes DEF Noting, Refreshed, RefreshLeg, AfterRefresh, Task, NoTask
    <2> QED
      BY <1>2, <2>1
  <1>10. CASE Resume \/ Restore
    BY <1>2, <1>3, <1>10 DEF Resume, Restore, Task
  <1>11. CASE \/ \E first, second \in Quantities : ~Passes(first, second) /\ Start(first, second)
              \/ /\ ((\A k \in Keys : submitted[k] = NoRequest) /\ RecoverStart)
                    \/ RecoverEnd \/ MonitorLeaves
                 /\ UNCHANGED coordinator
    <2>1. CASE \E first, second \in Quantities : ~Passes(first, second) /\ Start(first, second)
      BY <1>3, <2>1 DEF Passes, Start
    <2>2. CASE (\A k \in Keys : submitted[k] = NoRequest) /\ RecoverStart
               /\ UNCHANGED coordinator
      BY <1>3, <2>2 DEF RecoverStart, coordinator
    <2>3. CASE RecoverEnd
      BY <1>2, <2>3 DEF RecoverEnd, NoTask, Task
    <2>4. CASE MonitorLeaves /\ UNCHANGED coordinator
      BY <1>3, <2>4 DEF MonitorLeaves, coordinator
    <2> QED
      BY <1>11, <2>1, <2>2, <2>3, <2>4
  <1> QED
    BY <1>5, <1>6, <1>7, <1>8, <1>9, <1>10, <1>11 DEF OwnStep

\* A call for the second leg is made with the quantity of the first one's fill.
LEMMA CallFollow ==
    ASSUME OpenInv, CallStep
    PROVE  FollowInv'
  <1> USE DEF LegStages
  <1>1. /\ TypeOK /\ TaskInv /\ FollowInv /\ PlanInv
        /\ First \in Keys /\ Second \in Keys /\ First # Second
    BY PlanAssumption DEF OpenInv, IInv
  <1>2. CASE task'.stage \notin LegStages \/ task'.leg = First
    BY <1>1, <1>2 DEF FollowInv
  <1>3. CASE (~task.defer /\ AdvanceNotReady) \/ AdvanceSubmit \/ RecordLeg
    <2>1. /\ task.stage \in {"advance", "record"} /\ task'.leg = task.leg
          /\ plan'.order = plan.order /\ plan'.quantity = plan.quantity
      BY <1>1, <1>3, TaskGoes
         DEF AdvanceNotReady, AdvanceSubmit, RecordLeg, At, Task, PlanInv
    <2> QED
      BY <1>1, <2>1 DEF FollowInv
  <1>4. CASE Preparable(plan.order[First].filled) /\ Follow
    <2>1. /\ At("follow") /\ task'.stage = "registering"
          /\ plan' = [plan EXCEPT !.quantity[Second] = Prepared(plan.order[First].filled)]
      BY <1>1, <1>4, TaskGoes DEF Follow, Request, Task
    <2>2. /\ plan'.order = plan.order
          /\ plan'.quantity[Second] = Prepared(plan.order[First].filled)
      BY <1>1, <2>1 DEF PlanInv
    <2>3. plan.order[First].status = "filled"
      BY <1>1, <2>1 DEF At, TaskInv, FollowInv
    <2> QED
      BY <1>4, <2>1, <2>2, <2>3 DEF FollowInv
  <1>5. CASE \/ Complete
             \/ plan.order[task.leg] # NoOrder /\ ~IsTerminal(plan.order[task.leg])
                /\ RefreshLeg
             \/ \E first, second \in Quantities : Passes(first, second) /\ Start(first, second)
             \/ \E k \in Keys : \E order \in Past(k) : PrivateEvent(k, order)
             \/ RecoverPending(Pool) /\ RecoverStart /\ UNCHANGED coordinator
    <2>1. RecoverPending(Pool) => \E k \in Keys : submitted[k] # NoRequest
      BY DEF RecoverPending
    <2>2. \/ task'.stage \in {"completing", "refreshing", "noting", "noted", "querying"}
          \/ task'.leg = First
      <3>1. CASE \/ Complete
                 \/ plan.order[task.leg] # NoOrder /\ ~IsTerminal(plan.order[task.leg])
                    /\ RefreshLeg
        BY <1>1, <3>1, TaskGoes DEF Complete, RefreshLeg, Task
      <3>2. CASE \E first, second \in Quantities :
                    Passes(first, second) /\ Start(first, second)
        BY <3>2 DEF Passes, Start, Task
      <3>3. CASE \E k \in Keys : \E order \in Past(k) : PrivateEvent(k, order)
        <4>1. \/ task' = Task("noting", First, FALSE, Recovering, FALSE)
              \/ task' = Task("noted", First, FALSE, FALSE, FALSE)
          BY <3>3 DEF PrivateEvent
        <4> QED
          BY <4>1 DEF Task
      <3>4. CASE RecoverPending(Pool) /\ RecoverStart
        BY <2>1, <3>4 DEF RecoverStart, Task
      <3> QED
        BY <1>5, <3>1, <3>2, <3>3, <3>4
    <2> QED
      BY <1>2, <2>2
  <1> QED
    BY <1>3, <1>4, <1>5 DEF CallStep

\* Whatever step is taken, a task is at work on the second leg only after the
\* first one's order was seen filled.
LEMMA FollowStep ==
    ASSUME OpenInv, [OpenNext]_openVars
    PROVE  FollowInv'
  <1>1. FollowInv /\ IInv /\ PastInv
    BY DEF OpenInv
  <1>2. CASE \/ InService /\ UNCHANGED coordinator
             \/ ExchangeStep /\ UNCHANGED <<worker, coordinator>>
             \/ UNCHANGED openVars
    BY <1>1, <1>2 DEF InService, openVars, worker, coordinator, FollowInv
  <1>3. CASE ProcessRestart
    BY <1>3 DEF ProcessRestart, WorkerRestart, NoTask, Task, FollowInv, LegStages
  <1> QED
    BY <1>2, <1>3, StepCases, OwnFollow, CallFollow

\* The create request of the second leg leaves when the order of the first is
\* filled, and a filled order stays so.
LEMMA SecondStep ==
    ASSUME OpenInv, [OpenNext]_openVars
    PROVE  SecondFollowsFilledFirst'
  <1>1. /\ IInv /\ TypeOK /\ TaskInv /\ PastInv /\ OrdersPast /\ FollowInv
        /\ SecondFollowsFilledFirst
        /\ First \in Keys /\ Second \in Keys
    BY PlanAssumption DEF OpenInv, IInv, PastInv
  <1>2. CASE UNCHANGED exchangeVars
    BY <1>1, <1>2 DEF exchangeVars, SecondFollowsFilledFirst
  <1>3. CASE InService
    <2> DEFINE k == call[Pool].key
    <2>1. /\ k \in Keys /\ market' = market
          /\ \/ UNCHANGED creates
             \/ call[Pool].phase = "create" /\ SendCreate(k)
      BY <1>1, <1>3, InServiceEffect
    <2>2. CASE call[Pool].phase = "create" /\ SendCreate(k) /\ k = Second
      <3>1. plan.order[First].status = "filled"
        BY <1>1, <2>2 DEF TaskInv, FollowInv, LegStages
      <3>2. plan.order[First] \in Past(First)
        BY <1>1, <3>1 DEF OrdersPast, NoOrder
      <3>3. plan.order[First] = market[First]
        BY <1>1, <3>1, <3>2, PastFacts DEF IsTerminal
      <3> QED
        BY <2>1, <3>1, <3>3 DEF SecondFollowsFilledFirst
    <2>3. CASE call[Pool].phase = "create" /\ SendCreate(k) /\ k # Second
      <3>1. creates \in [Keys -> Seq(Outcomes)]
        BY <1>1 DEF TypeOK
      <3>2. creates'[Second] = creates[Second]
        BY <1>1, <2>3, <3>1 DEF SendCreate
      <3> QED
        BY <1>1, <2>1, <3>2 DEF SecondFollowsFilledFirst
    <2> QED
      BY <1>1, <2>1, <2>2, <2>3 DEF SecondFollowsFilledFirst
  <1>4. CASE ExchangeStep
    <2>1. /\ creates'[Second] = << >> <=> creates[Second] = << >>
          /\ IsTerminal(market[First]) => market'[First] = market[First]
      BY <1>1, <1>4, PastGrows
    <2> QED
      BY <1>1, <2>1 DEF SecondFollowsFilledFirst, IsTerminal
  <1>5. CASE OwnStep \/ CallStep \/ ProcessRestart \/ UNCHANGED openVars
    <2>1. UNCHANGED exchangeVars
      BY <1>1, <1>5, OwnEffect, CallPlan
         DEF ProcessRestart, WorkerRestart, Restart, openVars, vars
    <2> QED
      BY <1>2, <2>1
  <1> QED
    BY <1>3, <1>4, <1>5, StepCases

\* A plan is reported completed on the word of two filled orders, which are what
\* the exchange holds.
LEMMA CompletedStep ==
    ASSUME OpenInv, [OpenNext]_openVars
    PROVE  CompletedIsHedged'
  <1>1. /\ IInv /\ TypeOK /\ TaskInv /\ PastInv /\ PlanInv /\ OrdersPast /\ RecordPast
        /\ FollowInv /\ CompletedIsHedged
        /\ Keys = {First, Second}
    BY PlanAssumption DEF OpenInv, IInv, PastInv
  <1>2. CASE result' = result /\ market' = market
    BY <1>1, <1>2 DEF CompletedIsHedged
  <1>3. CASE result' # "completed"
    BY <1>3 DEF CompletedIsHedged
  <1>4. CASE Recorded /\ result' = "completed" /\ result' # result
    <2> DEFINE leg == task.leg
    <2>1. /\ leg \in Keys /\ task.stage = "recorded" /\ market' = market
          /\ ~(leg = First /\ plan.order[First].status = "filled")
          /\ Outcome(leg) = "completed"
      <3>1. OwnStep
        BY <1>4 DEF OwnStep
      <3>2. UNCHANGED exchangeVars
        BY <1>1, <3>1, OwnEffect
      <3> QED
        BY <1>1, <1>4, <3>2, TaskGoes
           DEF Recorded, After, TaskInv, PlanStages, LegStages, exchangeVars
    <2>2. plan.order[leg] \in Orders /\ plan.order[leg] \in Past(leg)
      BY <1>1, <2>1, PastFacts DEF RecordPast, OrdersPast
    <2>3. /\ plan.order[leg].status = "filled"
          /\ plan.order[leg].filled = plan.order[First].filled
      BY <2>1, <2>2 DEF Outcome, Failed, Incomplete, Orders
    <2>4. leg = Second
      BY <1>1, <2>1, <2>3
    <2>5. plan.order[First].status = "filled"
      BY <1>1, <2>1, <2>4 DEF FollowInv, LegStages
    <2>6. plan.order[First] \in Past(First)
      BY <1>1, <2>5 DEF OrdersPast, NoOrder
    <2>7. plan.order[First] = market[First] /\ plan.order[Second] = market[Second]
      BY <1>1, <2>2, <2>3, <2>4, <2>5, <2>6, PastFacts DEF IsTerminal
    <2> QED
      BY <1>1, <2>1, <2>3, <2>4, <2>5, <2>7 DEF CompletedIsHedged
  <1>5. CASE OwnStep
    <2>1. market' = market
      BY <1>1, <1>5, OwnEffect DEF exchangeVars
    <2>2. Recorded \/ result' = result \/ result' # "completed"
      <3>1. CASE AdvanceDeferred \/ Deferring \/ Sent
                 \/ (~Preparable(plan.order[First].filled) /\ Follow)
        BY <1>1, <3>1, TaskGoes
           DEF AdvanceDeferred, Deferring, Sent, Follow, Deferred, Failed, Unknown
      <3>2. CASE \E first, second \in Quantities :
                    ~Passes(first, second) /\ Start(first, second)
        BY <3>2 DEF Passes, Start
      <3>3. CASE AdvanceKnown \/ (task.defer /\ AdvanceNotReady) \/ Registered
                 \/ Completed \/ Noting \/ Resume \/ Refreshed \/ Restore \/ RefreshLeg
        BY <3>3 DEF AdvanceKnown, AdvanceNotReady, Registered, Completed, Noting, Resume,
                    Refreshed, Restore, RefreshLeg
      <3> QED
        BY <1>5, <3>1, <3>2, <3>3 DEF OwnStep, coordinator
    <2> QED
      BY <1>2, <1>3, <1>4, <2>1, <2>2
  <1>6. CASE CallStep
    <2>1. market' = market
      BY <1>6, CallPlan DEF exchangeVars
    <2>2. result' = result
      BY <1>6 DEF CallStep, AdvanceNotReady, AdvanceSubmit, RecordLeg, Follow, Complete,
                  RefreshLeg, Passes, Start, PrivateEvent, coordinator
    <2> QED
      BY <1>2, <2>1, <2>2
  <1>7. CASE InService /\ UNCHANGED coordinator
    BY <1>1, <1>2, <1>7, InServiceEffect DEF coordinator
  <1>8. CASE ExchangeStep /\ UNCHANGED <<worker, coordinator>>
    <2>1. \A k \in Keys : IsTerminal(market[k]) => market'[k] = market[k]
      BY <1>1, <1>8, PastGrows
    <2>2. result' = result
      BY <1>8 DEF coordinator
    <2> QED
      BY <1>1, <2>1, <2>2 DEF CompletedIsHedged, IsTerminal
  <1>9. CASE ProcessRestart
    BY <1>3, <1>9 DEF ProcessRestart
  <1>10. CASE UNCHANGED openVars
    BY <1>2, <1>10 DEF openVars, vars, exchangeVars, coordinator
  <1> QED
    BY <1>5, <1>6, <1>7, <1>8, <1>9, <1>10, StepCases

-----------------------------------------------------------------------------
(* Theorems *)

\* Before the user submits the plan, everything is empty.
LEMMA OpenStart == OpenInit => OpenInv
  <1> SUFFICES ASSUME OpenInit PROVE OpenInv
    OBVIOUS
  <1>1. /\ Init /\ task = NoTask /\ recovery = "none"
        /\ started = FALSE /\ plan = NoPlan /\ result = "none"
        /\ First \in Keys /\ Second \in Keys
    BY PlanAssumption DEF OpenInit, WorkerInit
  <1>2. /\ creates = [k \in Keys |-> << >>] /\ submitted = [k \in Keys |-> NoRequest]
        /\ orders = [k \in Keys |-> NoOrder] /\ contexts[Plan] = NoContext
        /\ journal.orders = submitted /\ journal.contexts = contexts
        /\ call[Pool] = Idle
    BY <1>1, OnePlan DEF Init, ExchangeInit
  <1>3. IInv
    BY <1>1, InitInv
  <1>4. TaskInv
    BY <1>1, <1>2 DEF TaskInv, NoTask, Task, Idle, Stage, Stages, ServiceStages, PlanStages,
                      LegStages, EndStages
  <1>5. PlanInv /\ PastInv
    BY <1>1, <1>2 DEF PlanInv, NoPlan, PastInv, OrdersPast, AnswerPast, RecordPast, NoTask,
                      Task, Idle, Stage
  <1>6. StartInv
    BY <1>1, <1>2 DEF StartInv, NoPlan, NoTask, Task
  <1>7. NamedInv /\ FollowInv
    BY <1>1, <1>2 DEF NamedInv, FollowInv, NoPlan, NoTask, Task, PlanStages, LegStages,
                      EndStages
  <1>8. SecondFollowsFilledFirst /\ CompletedIsHedged
    BY <1>1, <1>2 DEF SecondFollowsFilledFirst, CompletedIsHedged
  <1> QED
    BY <1>3, <1>4, <1>5, <1>6, <1>7, <1>8 DEF OpenInv

\* Every step of the coordinator, the service and the exchange preserves OpenInv.
LEMMA OpenStep ==
    ASSUME OpenInv, [OpenNext]_openVars, LateEvents = FALSE
    PROVE  OpenInv'
  <1>1. IInv'
    BY OpenStepIsAllowed, StepInv DEF OpenInv
  <1> QED
    BY <1>1, TaskStep, PastStep, StartStep, NamedStep, FollowStep, SecondStep, CompletedStep
       DEF OpenInv

\* The inductive invariant of the coordinator, while no private event arrives
\* for a plan that has its final result.
THEOREM OpenInvariance ==
    ASSUME LateEvents = FALSE
    PROVE  OpenSpec => []OpenInv
  <1>1. OpenInv /\ [OpenNext]_openVars => OpenInv'
    BY OpenStep
  <1> QED
    BY <1>1, OpenStart, PTL DEF OpenSpec

\* The coordinator uses the service as the service's callers may: the id of a leg
\* is new, or one that this process or a recovery context knows, and a context is
\* registered for new ids or for its own.  So every theorem about the service
\* holds of the program that runs on it.
THEOREM CoordinatorIsACaller ==
    ASSUME LateEvents = FALSE
    PROVE  OpenSpec => Spec
  <1>1. OpenInit => Init
    BY DEF OpenInit, WorkerInit
  <1>2. OpenInv /\ [OpenNext]_openVars => [Next]_vars
    BY OpenStepIsAllowed
  <1> QED
    BY <1>1, <1>2, OpenInvariance, PTL DEF OpenSpec, Spec

\* A plan never has two live create requests of one leg, whatever its private
\* events, resumes, restarts and failed journal writes.
THEOREM PlanPlacesOnce ==
    ASSUME LateEvents = FALSE
    PROVE  OpenSpec => []AtMostOneLiveCreate
  <1>1. OpenInv => AtMostOneLiveCreate
    BY DEF OpenInv, IInv
  <1> QED
    BY <1>1, OpenInvariance, PTL

\* The second leg is placed only after the exchange has filled the first, on
\* every path: the submission, private events, resume and a restart.
THEOREM SecondAfterFirst ==
    ASSUME LateEvents = FALSE
    PROVE  OpenSpec => []SecondFollowsFilledFirst
  <1>1. OpenInv => SecondFollowsFilledFirst
    BY DEF OpenInv
  <1> QED
    BY <1>1, OpenInvariance, PTL

\* A plan reported completed is hedged: both orders are filled at the exchange,
\* and by the same quantity.
THEOREM CompletedMeansHedged ==
    ASSUME LateEvents = FALSE
    PROVE  OpenSpec => []CompletedIsHedged
  <1>1. OpenInv => CompletedIsHedged
    BY DEF OpenInv
  <1> QED
    BY <1>1, OpenInvariance, PTL

-----------------------------------------------------------------------------
(* A final result *)

\* A pending id was requested, and none before the user submits the plan.
RequestedInv ==
    /\ \A k \in Keys : submitted[k] # NoRequest => requests[k] # NoRequest
    /\ ~started => \A k \in Keys : requests[k] = NoRequest

\* The first leg is asked for one quantity, in whatever names it.
AsksFirst(context, a) == \A r \in context.requests : r.key = First => r.quantity = a
AllAsk(a) ==
    /\ Prepared(a) = a
    /\ AsksFirst(contexts[Plan], a) /\ AsksFirst(journal.contexts[Plan], a)
    /\ {requests[First], submitted[First], journal.orders[First]} \subseteq {NoRequest, a}
    /\ plan.known => plan.quantity[First] = a
FirstInv == \E a \in Quantities \cup {NoRequest} : AllAsk(a)

\* The second leg is asked for the fill of the first one.
SecondInv ==
    /\ \A q \in {requests[Second], submitted[Second], journal.orders[Second]} \ {NoRequest} :
          market[First].status = "filled" /\ q = Prepared(market[First].filled)
    /\ creates[Second] # << >> => Preparable(market[First].filled)

\* Without streams that fail no leg is deferred.
FlagInv == /\ task.stage # "deferring"
           /\ ~contexts[Plan].confirm /\ ~journal.contexts[Plan].confirm

\* A submission that fails has left nothing behind.
FailInv == task.stage = "sent" /\ call[Pool].phase = "done" /\ Answer \in Failures
           => Settled(task.leg)

RestInv == /\ OpenInv
           /\ SettledInv /\ RequestedInv /\ FirstInv /\ SecondInv /\ FlagInv /\ FailInv
           /\ FinalMeansAtRest

-----------------------------------------------------------------------------
(* What is asked of each leg *)

\* An order that is refreshed is pending as it is.
LEMMA RefreshShrinks ==
    ASSUME RestInv, NEW leg \in Keys, plan.order[leg] # NoOrder,
           task.stage \in PlanStages \ EndStages, Refresh(Pool, RequestOf(leg))
    PROVE  Shrinks /\ attempted' = attempted
  <1>1. RequestOf(leg).key = leg
    BY DEF RequestOf, Request
  <1>2. submitted[leg] # NoRequest
    <2>1. NamedIn(Plan, leg)
      BY PlanIsNamed DEF RestInv, OpenInv
    <2>2. plan.order[leg] \in Past(leg)
      BY DEF RestInv, OpenInv, PastInv, OrdersPast
    <2>3. market[leg] # NoOrder
      BY <2>2 DEF Past
    <2>4. ~Settled(leg)
      BY <2>3 DEF RestInv, OpenInv, IInv, MarketInv, Settled
    <2>5. InSomeContext(contexts, leg)
      BY <2>1, OnePlan DEF NamedIn, InSomeContext
    <2> QED
      BY <2>4, <2>5 DEF RestInv, OpenInv, IInv, PendingInv
  <1>3. requests[leg] # NoRequest /\ requests \in Pending /\ submitted \in Pending
    BY <1>2 DEF RestInv, RequestedInv, OpenInv, IInv, TypeOK
  <1>4. requests' = requests /\ submitted' = submitted /\ journal' = journal
    BY <1>1, <1>2, <1>3 DEF Refresh, Pending
  <1> QED
    BY <1>4 DEF Shrinks, Refresh

\* The three ways in which a step can treat what is asked.
LEMMA AskCases ==
    ASSUME RestInv, [OpenNext]_openVars, StreamsFail = FALSE
    PROVE  \/ Shrinks
           \/ /\ AdvanceSubmit /\ Submit(Pool, RequestOf(task.leg))
              /\ task.leg \in Keys /\ plan.known
              /\ RequestOf(task.leg) \in Requests /\ RequestOf(task.leg).key = task.leg
              /\ Asks(task.leg, plan.quantity[task.leg])
           \/ ProcessRestart
  <1>1. /\ IInv /\ TypeOK /\ TaskInv /\ PlanInv /\ NamedInv /\ FlagInv /\ PastInv
    BY DEF RestInv, OpenInv, IInv
  <1>2. CASE UNCHANGED <<memory, journal>>
    BY <1>2 DEF memory, Shrinks
  <1>3. CASE OwnStep \/ ExchangeStep \/ UNCHANGED openVars
    BY <1>1, <1>2, <1>3, OwnEffect DEF ExchangeStep, openVars, vars
  <1>4. CASE InService
    BY <1>1, <1>4, InServiceShrinks
  <1>5. CASE AdvanceSubmit
    <2>1. task.leg \in Keys /\ task.stage \in PlanStages \ EndStages
      BY <1>1, <1>5 DEF AdvanceSubmit, At, TaskInv, PlanStages, LegStages, EndStages
    <2>2. RequestOf(task.leg) \in Requests /\ RequestOf(task.leg).key = task.leg /\ plan.known
      BY <1>1, <2>1, PlanIsNamed, RequestType
    <2>3. Submit(Pool, RequestOf(task.leg))
      BY <1>1, <1>5 DEF AdvanceSubmit, FlagInv
    <2> QED
      BY <1>1, <1>5, <2>1, <2>2, <2>3, SubmitAsks DEF RequestOf, Request
  <1>6. CASE RecordLeg \/ (Preparable(plan.order[First].filled) /\ Follow) \/ Complete
             \/ (\E first, second \in Quantities : Passes(first, second) /\ Start(first, second))
             \/ (\E k \in Keys : \E order \in Past(k) : PrivateEvent(k, order))
    <2>1. RecordLeg => \E k \in Keys : \E order : Record(Pool, k, order)
      BY <1>1 DEF RecordLeg, At, TaskInv, PlanStages, LegStages
    <2>2. (\E k \in Keys : \E order \in Past(k) : PrivateEvent(k, order)) =>
             \E k \in Keys : \E order : Record(Pool, k, order)
      BY DEF PrivateEvent
    <2>3. Preparable(plan.order[First].filled) /\ Follow =>
             \E batch : RegisterContext(Pool, Plan, "open", batch)
      BY DEF Follow
    <2>4. (\E first, second \in Quantities : Passes(first, second) /\ Start(first, second)) =>
             \E batch : RegisterContext(Pool, Plan, "open", batch)
      BY DEF Start, Passes
    <2>5. Complete => CompleteContext(Pool, Plan)
      BY DEF Complete
    <2> QED
      BY <1>1, <1>6, <2>1, <2>2, <2>3, <2>4, <2>5, CallShrinks
  <1>7. CASE plan.order[task.leg] # NoOrder /\ ~IsTerminal(plan.order[task.leg])
             /\ RefreshLeg
    <2>1. /\ task.leg \in Keys /\ task.stage \in PlanStages \ EndStages
          /\ Refresh(Pool, RequestOf(task.leg))
      BY <1>1, <1>7 DEF RefreshLeg, At, TaskInv, PlanStages, LegStages, EndStages
    <2> QED
      BY <1>7, <2>1, RefreshShrinks
  <1>8. CASE RecoverPending(Pool)
    BY <1>1, <1>2, <1>8, PendingEffect
  <1>9. CASE ~task.defer /\ AdvanceNotReady
    BY <1>9 DEF AdvanceNotReady
  <1> QED
    BY <1>3, <1>4, <1>5, <1>6, <1>7, <1>8, <1>9, StepCases DEF CallStep

\* What is pending stays requested.
LEMMA RequestedStep ==
    ASSUME RestInv, [OpenNext]_openVars, StreamsFail = FALSE
    PROVE  RequestedInv'
  <1>1. /\ RequestedInv /\ StartInv /\ Quantities \subseteq Nat \ {0}
        /\ started => started'
    <2>1. started => started'
      BY DEF OpenNext, openVars, Start, PrivateEvent, Noting, Resume, RefreshLeg,
         Refreshed, Advance, AdvanceKnown, AdvanceDeferred, AdvanceNotReady, AdvanceSubmit,
         Deferring, Sent, RecordLeg, Recorded, Follow, Registered, Complete, Completed,
         Restore, coordinator, ProcessRestart
    <2> QED
      BY <2>1, ServiceAssumption DEF RestInv, OpenInv
  <1>2. CASE Shrinks
    BY <1>1, <1>2 DEF RequestedInv, Shrinks
  <1>3. CASE /\ AdvanceSubmit /\ task.leg \in Keys
             /\ RequestOf(task.leg) \in Requests
             /\ Asks(task.leg, plan.quantity[task.leg])
    <2>1. started
      BY <1>1, <1>3 DEF AdvanceSubmit, At, StartInv
    <2>2. plan.quantity[task.leg] # NoRequest
      BY <1>1, <1>3 DEF RequestOf, Request, Requests, NoRequest
    <2> QED
      BY <1>1, <1>3, <2>1, <2>2 DEF Asks, RequestedInv
  <1>4. CASE ProcessRestart
    BY <1>1, <1>4 DEF ProcessRestart, WorkerRestart, Restart, RequestedInv, StartInv
  <1> QED
    BY <1>2, <1>3, <1>4, AskCases

\* The quantity of the first leg stays what the plan began with.
LEMMA FirstKept ==
    ASSUME RestInv, StreamsFail = FALSE, [OpenNext]_openVars,
           NEW a \in Quantities \cup {NoRequest}, AllAsk(a),
           Writes, AsksFirst(contexts'[Plan], a),
           plan'.known => plan'.quantity[First] = a
    PROVE  FirstInv'
  <1>1. First \in Keys /\ TypeOK
    BY PlanAssumption DEF RestInv, OpenInv, IInv
  <1>2. AsksFirst(journal'.contexts[Plan], a)
    BY DEF Writes, AllAsk
  <1>3. {requests'[First], submitted'[First], journal'.orders[First]} \subseteq {NoRequest, a}
    <2>1. CASE Shrinks
      BY <1>1, <2>1 DEF Shrinks, AllAsk
    <2>2. CASE /\ task.leg \in Keys /\ plan.known
               /\ Asks(task.leg, plan.quantity[task.leg])
      BY <1>1, <2>2 DEF Asks, AllAsk
    <2>3. CASE ProcessRestart
      BY <1>1, <2>3 DEF ProcessRestart, WorkerRestart, Restart, AllAsk
    <2> QED
      BY <2>1, <2>2, <2>3, AskCases
  <1>4. AllAsk(a)'
    BY <1>2, <1>3 DEF AllAsk, AsksFirst, Prepared
  <1> QED
    BY <1>4 DEF FirstInv

\* Every step keeps to the one quantity of the first leg.
LEMMA FirstStep ==
    ASSUME RestInv, StreamsFail = FALSE, [OpenNext]_openVars
    PROVE  FirstInv'
  <1>1. /\ IInv /\ TypeOK /\ TaskInv /\ PlanInv /\ NamedInv /\ FlagInv /\ PastInv /\ StartInv
        /\ RequestedInv /\ First \in Keys /\ Second \in Keys /\ First # Second
    BY PlanAssumption DEF RestInv, OpenInv, IInv
  <1>2. PICK a \in Quantities \cup {NoRequest} : AllAsk(a)
    BY DEF RestInv, FirstInv
  <1>3. AsksFirst(contexts[Plan], a) /\ (plan.known => plan.quantity[First] = a)
    BY <1>2 DEF AllAsk
  <1>4. CASE Writes /\ contexts' = contexts /\ plan'.quantity[First] = plan.quantity[First]
             /\ plan'.known = plan.known
    BY <1>2, <1>3, <1>4, FirstKept
  <1>5. CASE OwnStep
    <2>1. Writes /\ contexts' = contexts
      BY <1>1, <1>5, OwnEffect DEF memory, Writes
    <2>2. CASE plan' = plan
      BY <1>4, <2>1, <2>2
    <2>3. CASE Sent \/ Refreshed
      BY <1>1, <1>4, <2>1, <2>3 DEF Sent, Refreshed, PlanInv
    <2>4. CASE Restore /\ plan' # plan
      <3>1. /\ plan'.known
            /\ plan'.quantity = [k \in Keys |->
                    (CHOOSE r \in contexts[Plan].requests : r.key = k).quantity]
        <4>1. plan' = [known |-> TRUE, order |-> orders, seen |-> orders,
                       quantity |-> [k \in Keys |->
                            (CHOOSE r \in contexts[Plan].requests : r.key = k).quantity]]
          BY <2>4 DEF Restore
        <4> QED
          BY <4>1
      <3>2. Named(contexts[Plan])
        BY <1>1, <2>4 DEF Restore, NamedInv
      <3>3. \E r \in contexts[Plan].requests : r.key = First
        BY <1>1, <3>2 DEF Named, KeysOf
      <3>4. plan'.quantity[First] = a
        BY <1>1, <1>3, <3>1, <3>3 DEF AsksFirst
      <3> QED
        BY <1>2, <1>3, <2>1, <3>4, FirstKept
    <2>5. plan' = plan \/ Sent \/ Refreshed \/ Restore
      <3>1. CASE \E first, second \in Quantities :
                    ~Passes(first, second) /\ Start(first, second)
        BY <3>1 DEF Passes, Start
      <3>2. CASE AdvanceKnown \/ AdvanceDeferred \/ (task.defer /\ AdvanceNotReady)
                 \/ Deferring \/ Recorded \/ Registered \/ Completed \/ Noting \/ Resume
                 \/ RefreshLeg \/ (~Preparable(plan.order[First].filled) /\ Follow)
        BY <3>2 DEF AdvanceKnown, AdvanceDeferred, AdvanceNotReady, Deferring, Recorded,
                    Registered, Completed, Noting, Resume, RefreshLeg, Follow
      <3> QED
        BY <1>5, <3>1, <3>2 DEF OwnStep, coordinator
    <2> QED
      BY <2>2, <2>3, <2>4, <2>5
  <1>6. CASE AdvanceSubmit
    <2>1. Submit(Pool, RequestOf(task.leg)) /\ RequestOf(task.leg) \in Requests
      <3>1. task.leg \in Keys /\ task.stage \in PlanStages \ EndStages
        BY <1>1, <1>6 DEF AdvanceSubmit, At, TaskInv, PlanStages, LegStages, EndStages
      <3> QED
        BY <1>1, <1>6, <3>1, PlanIsNamed, RequestType DEF AdvanceSubmit, FlagInv
    <2>2. contexts' = contexts /\ Writes
      <3>1. contexts' = contexts
        BY <2>1 DEF Submit, SubmitConflict, SubmitKnown, SubmitDuplicate, SubmitUnprepared,
                    SubmitClaim, SubmitQuery, memory
      <3> QED
        BY <1>1, <2>1, <3>1, SubmitEffect
    <2> QED
      BY <1>4, <1>6, <2>2 DEF AdvanceSubmit
  <1>7. CASE RecordLeg \/ \E k \in Keys : \E order \in Past(k) : PrivateEvent(k, order)
    <2>1. /\ \E k \in Keys : \E order : Record(Pool, k, order)
          /\ plan'.known = plan.known /\ plan'.quantity = plan.quantity
      <3>1. CASE RecordLeg
        BY <1>1, <3>1 DEF RecordLeg, At, TaskInv, PlanStages, LegStages, PlanInv
      <3>2. CASE \E k \in Keys : \E order \in Past(k) : PrivateEvent(k, order)
        BY <1>1, <3>2 DEF PrivateEvent, PlanInv
      <3> QED
        BY <1>7, <3>1, <3>2
    <2> QED
      BY <1>1, <1>4, <2>1, RecordEffect
  <1>8. CASE Preparable(plan.order[First].filled) /\ Follow
    <2> DEFINE batch == {RequestOf(First), Request(Second, Prepared(plan.order[First].filled))}
    <2>1. /\ At("follow") /\ RegisterContext(Pool, Plan, "open", batch)
          /\ plan'.known = plan.known /\ plan'.quantity[First] = plan.quantity[First]
      BY <1>1, <1>8 DEF Follow, PlanInv
    <2>2. batch \in SUBSET Requests
      BY <1>1, <1>8, <2>1, FollowRequests DEF RestInv, OpenInv
    <2>3. plan.known
      BY <1>1, <2>1, PlanIsNamed DEF At, PlanStages, LegStages, EndStages
    <2>4. \A r \in batch : r.key = First => r.quantity = a
      BY <1>1, <1>3, <2>3 DEF RequestOf, Request
    <2> HIDE DEF batch
    <2>5. Writes /\ (contexts' = contexts \/ contexts'[Plan].requests = batch)
      <3>1. /\ Writes
            /\ \/ contexts' = contexts
               \/ contexts' = [contexts EXCEPT ![Plan] = [kind |-> "open",
                                    requests |-> batch, confirm |-> contexts[Plan].confirm]]
        BY <1>1, <2>1, <2>2, ContextEffect
      <3> QED
        BY <1>1, <3>1, OnePlan DEF TypeOK
    <2> QED
      BY <1>2, <1>3, <2>1, <2>4, <2>5, FirstKept DEF AsksFirst
  <1>9. CASE Complete
    <2>1. /\ CompleteContext(Pool, Plan) /\ plan' = plan
      BY <1>9 DEF Complete
    <2>2. Writes /\ contexts'[Plan] = NoContext
      BY <1>1, <2>1, ContextEffect
    <2>3. AsksFirst(contexts'[Plan], a)
      BY <2>2 DEF AsksFirst, NoContext
    <2> QED
      BY <1>2, <1>3, <2>1, <2>2, <2>3, FirstKept
  <1>10. ASSUME NEW first \in Quantities, NEW second \in Quantities,
                Passes(first, second), Start(first, second)
         PROVE  FirstInv'
    <2> DEFINE b == Prepared(first)
               batch == {Request(k, b) : k \in Keys}
    <2>1. /\ RegisterContext(Pool, Plan, "open", batch) /\ ~started
          /\ plan' = [NoPlan EXCEPT !.known = TRUE, !.quantity = [k \in Keys |-> b]]
      BY <1>10 DEF Start, Passes
    <2>2. b \in Quantities /\ Prepared(b) = b
      BY <1>10, ServiceAssumption, QuantityAssumption, PreparedTwice DEF Passes
    <2>3. batch \in SUBSET Requests
      BY <2>2 DEF Request, Requests
    <2>4. plan'.known /\ plan'.quantity[First] = b
      BY <1>1, <2>1 DEF NoPlan
    <2>5. \A r \in batch : r.quantity = b
      BY DEF Request
    <2> HIDE DEF batch, b
    <2>6. contexts[Plan] = NoContext /\ journal.contexts[Plan] = NoContext
      BY <1>1, <2>1 DEF StartInv
    <2>7. Writes /\ contexts'[Plan].requests = batch
      <3>1. /\ Writes
            /\ contexts' = [contexts EXCEPT ![Plan] = [kind |-> "open",
                                    requests |-> batch, confirm |-> contexts[Plan].confirm]]
        BY <1>1, <2>1, <2>3, <2>6, ContextEffect DEF NoContext
      <3> QED
        BY <1>1, <3>1, OnePlan DEF TypeOK
    <2>8. AllAsk(b)
      BY <1>1, <2>1, <2>2, <2>6 DEF AllAsk, AsksFirst, NoContext, StartInv, RequestedInv
    <2> QED
      BY <2>2, <2>4, <2>5, <2>7, <2>8, FirstKept DEF AsksFirst
  <1>11. CASE \/ plan.order[task.leg] # NoOrder /\ ~IsTerminal(plan.order[task.leg])
                 /\ RefreshLeg
              \/ RecoverPending(Pool) /\ RecoverStart /\ UNCHANGED coordinator
    <2>1. CASE RecoverPending(Pool) /\ UNCHANGED coordinator
      BY <1>1, <1>4, <2>1, PendingEffect DEF memory, coordinator, Writes
    <2>2. CASE plan.order[task.leg] # NoOrder /\ ~IsTerminal(plan.order[task.leg])
               /\ RefreshLeg
      BY <1>4, <2>2 DEF RefreshLeg, Refresh, Writes
    <2> QED
      BY <1>11, <2>1, <2>2
  <1>12. CASE InService /\ UNCHANGED coordinator
    BY <1>1, <1>4, <1>12, InServiceEffect DEF coordinator
  <1>13. CASE (ExchangeStep /\ UNCHANGED <<worker, coordinator>>) \/ UNCHANGED openVars
    BY <1>4, <1>13 DEF ExchangeStep, openVars, vars, memory, coordinator, Writes
  <1>14. CASE ProcessRestart
    BY <1>2, <1>14, FirstKept
       DEF ProcessRestart, WorkerRestart, Restart, NoPlan, Writes, AllAsk
  <1>15. CASE ~task.defer /\ AdvanceNotReady
    BY <1>15 DEF AdvanceNotReady
  <1> QED
    BY <1>5, <1>6, <1>7, <1>8, <1>9, <1>10, <1>11, <1>12, <1>13, <1>14, <1>15, StepCases
       DEF CallStep

-----------------------------------------------------------------------------
(* The second leg's quantity is that of the fill *)

\* While a task works on the second leg, the first one's order is the exchange's.
LEMMA FirstIsFilled ==
    ASSUME OpenInv, task.stage \in LegStages, task.leg = Second
    PROVE  /\ plan.order[First] = market[First] /\ market[First].status = "filled"
           /\ market[First].filled \in Nat
  <1>1. First \in Keys /\ TypeOK
    BY PlanAssumption DEF OpenInv, IInv
  <1>2. plan.order[First].status = "filled"
    BY DEF OpenInv, FollowInv
  <1>3. plan.order[First] \in Past(First)
    BY <1>1, <1>2 DEF OpenInv, PastInv, OrdersPast, NoOrder
  <1>4. plan.order[First] = market[First] /\ market[First] \in Orders
    BY <1>1, <1>2, <1>3, PastFacts DEF IsTerminal
  <1>5. market[First].filled \in Fills /\ Fills \subseteq Nat
    BY <1>4, ServiceAssumption DEF Orders
  <1> QED
    BY <1>2, <1>4, <1>5

\* Every step asks of the second leg what the first has filled.
LEMMA SecondQuantityStep ==
    ASSUME RestInv, StreamsFail = FALSE, [OpenNext]_openVars
    PROVE  SecondInv'
  <1>1. /\ IInv /\ TypeOK /\ TaskInv /\ PlanInv /\ SecondInv /\ OpenInv /\ PastInv
        /\ SecondFollowsFilledFirst
        /\ First \in Keys /\ Second \in Keys /\ First # Second
    BY PlanAssumption DEF RestInv, OpenInv, IInv
  <1>2. market[First].status = "filled" => market'[First] = market[First]
    <2>1. CASE OwnStep \/ CallStep \/ UNCHANGED openVars \/ ProcessRestart
      BY <1>1, <2>1, OwnEffect, CallPlan
         DEF openVars, vars, exchangeVars, ProcessRestart, WorkerRestart, Restart
    <2>2. CASE InService
      BY <1>1, <2>2, InServiceEffect
    <2>3. CASE ExchangeStep
      BY <1>1, <2>3, PastGrows DEF IsTerminal
    <2> QED
      BY <2>1, <2>2, <2>3, StepCases
  <1>3. \A q \in {requests'[Second], submitted'[Second], journal'.orders[Second]} \ {NoRequest} :
           market'[First].status = "filled" /\ q = Prepared(market'[First].filled)
    <2>1. CASE Shrinks
      BY <1>1, <1>2, <2>1 DEF Shrinks, SecondInv
    <2>2. CASE /\ AdvanceSubmit /\ task.leg \in Keys
               /\ Asks(task.leg, plan.quantity[task.leg])
      <3>1. CASE task.leg = Second
        <4>1. /\ plan.order[First] = market[First] /\ market[First].status = "filled"
              /\ market[First].filled \in Nat
          BY <1>1, <2>2, <3>1, FirstIsFilled DEF AdvanceSubmit, At, LegStages
        <4>2. plan.quantity[Second] = Prepared(market[First].filled)
          BY <1>1, <2>2, <3>1, <4>1 DEF AdvanceSubmit, At, LegStages, OpenInv, FollowInv
        <4>3. Prepared(plan.quantity[Second]) = plan.quantity[Second]
          BY <4>1, <4>2, PreparedTwice
        <4> QED
          BY <1>1, <1>2, <2>2, <3>1, <4>1, <4>2, <4>3 DEF Asks, SecondInv
      <3>2. CASE task.leg # Second
        BY <1>1, <1>2, <2>2, <3>2 DEF Asks, SecondInv
      <3> QED
        BY <3>1, <3>2
    <2>3. CASE ProcessRestart
      BY <1>1, <1>2, <2>3 DEF ProcessRestart, WorkerRestart, Restart, SecondInv
    <2> QED
      BY <2>1, <2>2, <2>3, AskCases
  <1>4. creates'[Second] # << >> => Preparable(market'[First].filled)
    <2>1. CASE creates[Second] # << >>
      BY <1>1, <1>2, <2>1 DEF SecondInv, SecondFollowsFilledFirst
    <2>2. CASE creates[Second] = << >> /\ InService
      <3>1. CASE UNCHANGED creates
        BY <2>2, <3>1
      <3>2. CASE call[Pool].phase = "create" /\ SendCreate(call[Pool].key)
        <4>1. creates \in [Keys -> Seq(Outcomes)] /\ call[Pool].key \in Keys
          BY <1>1, <2>2, InServiceEffect DEF TypeOK
        <4>2. call[Pool].key # Second => creates'[Second] = creates[Second]
          BY <1>1, <3>2, <4>1 DEF SendCreate
        <4>3. CASE call[Pool].key = Second
          <5>1. task.stage = "sent" /\ task.leg = Second
            BY <1>1, <3>2, <4>3 DEF TaskInv
          <5>2. plan.order[First] = market[First] /\ market[First].status = "filled"
            BY <1>1, <5>1, FirstIsFilled DEF LegStages
          <5> QED
            BY <1>1, <1>2, <5>1, <5>2 DEF LegStages, OpenInv, FollowInv
        <4> QED
          BY <2>2, <4>2, <4>3
      <3> QED
        BY <1>1, <2>2, <3>1, <3>2, InServiceEffect
    <2>3. CASE creates[Second] = << >> /\ ~InService
      <3>1. CASE OwnStep \/ CallStep \/ UNCHANGED openVars \/ ProcessRestart
        BY <1>1, <2>3, <3>1, OwnEffect, CallPlan
           DEF openVars, vars, exchangeVars, ProcessRestart, WorkerRestart, Restart
      <3>2. CASE ExchangeStep
        BY <1>1, <2>3, <3>2, PastGrows
      <3> QED
        BY <2>3, <3>1, <3>2, StepCases
    <2> QED
      BY <2>1, <2>2, <2>3
  <1> QED
    BY <1>3, <1>4 DEF SecondInv

-----------------------------------------------------------------------------
(* No leg is deferred, and a failed submission has left nothing behind *)

\* No step sets the flag of a context or defers a leg.
LEMMA FlagStep ==
    ASSUME RestInv, StreamsFail = FALSE, [OpenNext]_openVars
    PROVE  FlagInv'
  <1>1. /\ IInv /\ TypeOK /\ TaskInv /\ FlagInv /\ PastInv /\ OpenInv
        /\ First \in Keys /\ Second \in Keys
    BY PlanAssumption DEF RestInv, OpenInv, IInv
  <1>2. CASE Writes /\ ~contexts'[Plan].confirm /\ task'.stage # "deferring"
    BY <1>1, <1>2 DEF FlagInv, Writes
  <1>3. CASE Writes /\ contexts' = contexts /\ task'.stage # "deferring"
    BY <1>1, <1>2, <1>3 DEF FlagInv
  <1>4. task'.stage # "deferring"
    <2>1. CASE OwnStep
      <3>1. CASE task' = NoTask \/ \E status : Store(status)
        BY <1>1, <3>1, TaskGoes DEF NoTask, Task
      <3>2. CASE task' = task
        BY <1>1, <3>2 DEF FlagInv
      <3>3. CASE AdvanceKnown \/ Registered \/ Completed \/ Sent \/ Recorded
                 \/ (RefreshLeg /\ (plan.order[task.leg] = NoOrder
                                    \/ IsTerminal(plan.order[task.leg])))
        BY <1>1, <3>1, <3>3, TaskGoes
           DEF AdvanceKnown, Registered, Completed, Sent, Recorded, RefreshLeg,
               AfterRefresh, Task, NoTask
      <3>4. CASE Noting \/ Refreshed \/ RecoverEnd \/ AdvanceDeferred \/ Deferring
                 \/ (~Preparable(plan.order[First].filled) /\ Follow)
        BY <1>1, <3>1, <3>4, TaskGoes
           DEF Noting, Refreshed, RecoverEnd, AfterRefresh, AdvanceDeferred, Deferring,
               Follow, Task, NoTask
      <3>5. CASE Resume \/ Restore
        BY <3>2, <3>5 DEF Resume, Restore, Task
      <3>6. CASE \/ \E first, second \in Quantities : ~Passes(first, second) /\ Start(first, second)
                 \/ (\A k \in Keys : submitted[k] = NoRequest) /\ RecoverStart
                 \/ MonitorLeaves
        BY <3>2, <3>6 DEF Passes, Start, RecoverStart, MonitorLeaves
      <3>7. CASE AdvanceNotReady
        BY <3>7 DEF AdvanceNotReady
      <3> QED
        BY <2>1, <3>3, <3>4, <3>5, <3>6, <3>7 DEF OwnStep
    <2>2. CASE CallStep
      <3>1. CASE AdvanceSubmit \/ RecordLeg \/ Complete
                 \/ (Preparable(plan.order[First].filled) /\ Follow)
                 \/ (plan.order[task.leg] # NoOrder /\ ~IsTerminal(plan.order[task.leg])
                     /\ RefreshLeg)
        BY <1>1, <3>1, TaskGoes
           DEF AdvanceSubmit, RecordLeg, Complete, Follow, RefreshLeg, Task
      <3>2. CASE \E first, second \in Quantities : Passes(first, second) /\ Start(first, second)
        BY <3>2 DEF Passes, Start, Task
      <3>3. CASE \E k \in Keys : \E order \in Past(k) : PrivateEvent(k, order)
        <4>1. \/ task' = Task("noting", First, FALSE, Recovering, FALSE)
              \/ task' = Task("noted", First, FALSE, FALSE, FALSE)
          BY <3>3 DEF PrivateEvent
        <4> QED
          BY <4>1 DEF Task
      <3>4. CASE RecoverPending(Pool) /\ RecoverStart
        BY <3>4 DEF RecoverPending, RecoverStart, Task
      <3>5. CASE AdvanceNotReady
        BY <3>5 DEF AdvanceNotReady
      <3> QED
        BY <2>2, <3>1, <3>2, <3>3, <3>4, <3>5 DEF CallStep
    <2>3. CASE InService \/ (ExchangeStep /\ UNCHANGED <<worker, coordinator>>)
               \/ UNCHANGED openVars
      BY <1>1, <2>3 DEF InService, worker, openVars, FlagInv
    <2>4. CASE ProcessRestart
      BY <2>4 DEF ProcessRestart, WorkerRestart, NoTask, Task
    <2> QED
      BY <2>1, <2>2, <2>3, <2>4, StepCases
  <1>5. CASE OwnStep
    BY <1>1, <1>3, <1>4, <1>5, OwnEffect DEF memory, Writes
  <1>6. CASE AdvanceSubmit
    <2>1. Submit(Pool, RequestOf(task.leg)) /\ RequestOf(task.leg) \in Requests
      <3>1. task.leg \in Keys /\ task.stage \in PlanStages \ EndStages
        BY <1>1, <1>6 DEF AdvanceSubmit, At, TaskInv, PlanStages, LegStages, EndStages
      <3> QED
        BY <1>1, <1>6, <3>1, PlanIsNamed, RequestType DEF AdvanceSubmit, FlagInv, OpenInv
    <2>2. contexts' = contexts
      BY <2>1 DEF Submit, SubmitConflict, SubmitKnown, SubmitDuplicate, SubmitUnprepared,
                  SubmitClaim, SubmitQuery, memory
    <2> QED
      BY <1>1, <1>3, <1>4, <2>1, <2>2, SubmitEffect
  <1>7. CASE RecordLeg \/ \E k \in Keys : \E order \in Past(k) : PrivateEvent(k, order)
    <2>1. \E k \in Keys : \E order : Record(Pool, k, order)
      BY <1>1, <1>7 DEF RecordLeg, PrivateEvent, At, TaskInv, PlanStages, LegStages
    <2> QED
      BY <1>1, <1>3, <1>4, <2>1, RecordEffect
  <1>8. ASSUME NEW batch \in SUBSET Requests, RegisterContext(Pool, Plan, "open", batch)
        PROVE  FlagInv'
    <2>1. /\ Writes
          /\ \/ contexts' = contexts
             \/ contexts' = [contexts EXCEPT ![Plan] = [kind |-> "open",
                                 requests |-> batch, confirm |-> contexts[Plan].confirm]]
      BY <1>1, <1>8, ContextEffect
    <2>2. ~contexts'[Plan].confirm
      BY <1>1, <2>1, OnePlan DEF TypeOK, FlagInv
    <2> QED
      BY <1>2, <1>4, <2>1, <2>2
  <1>9. CASE Preparable(plan.order[First].filled) /\ Follow
    <2>1. /\ RegisterContext(Pool, Plan, "open",
                {RequestOf(First), Request(Second, Prepared(plan.order[First].filled))})
          /\ At("follow")
      BY <1>9 DEF Follow
    <2> QED
      BY <1>1, <1>8, <1>9, <2>1, FollowRequests DEF OpenInv
  <1>10. CASE \E first, second \in Quantities : Passes(first, second) /\ Start(first, second)
    <2>1. PICK first \in Quantities, second \in Quantities :
             Passes(first, second) /\ Start(first, second)
      BY <1>10
    <2>2. RegisterContext(Pool, Plan, "open", {Request(k, Prepared(first)) : k \in Keys})
      BY <2>1 DEF Start, Passes
    <2>3. {Request(k, Prepared(first)) : k \in Keys} \in SUBSET Requests
      BY <2>1, QuantityAssumption DEF Passes, Request, Requests
    <2> QED
      BY <1>8, <2>2, <2>3
  <1>11. CASE Complete
    <2>1. Writes /\ contexts'[Plan] = NoContext
      BY <1>1, <1>11, ContextEffect DEF Complete
    <2> QED
      BY <1>2, <1>4, <2>1 DEF NoContext
  <1>12. CASE \/ plan.order[task.leg] # NoOrder /\ ~IsTerminal(plan.order[task.leg])
                 /\ RefreshLeg
              \/ RecoverPending(Pool)
    <2>1. CASE RecoverPending(Pool)
      BY <1>1, <1>3, <1>4, <2>1, PendingEffect DEF memory, Writes
    <2>2. CASE plan.order[task.leg] # NoOrder /\ ~IsTerminal(plan.order[task.leg])
               /\ RefreshLeg
      BY <1>3, <1>4, <2>2 DEF RefreshLeg, Refresh, Writes
    <2> QED
      BY <1>12, <2>1, <2>2
  <1>13. CASE ~task.defer /\ AdvanceNotReady
    BY <1>13 DEF AdvanceNotReady
  <1>14. CASE InService
    BY <1>1, <1>3, <1>4, <1>14, InServiceEffect
  <1>15. CASE ExchangeStep \/ UNCHANGED openVars
    BY <1>3, <1>4, <1>15 DEF ExchangeStep, openVars, vars, memory, Writes
  <1>16. CASE ProcessRestart
    BY <1>1, <1>4, <1>16 DEF ProcessRestart, WorkerRestart, Restart, FlagInv
  <1> QED
    BY <1>5, <1>6, <1>7, <1>9, <1>10, <1>11, <1>12, <1>13, <1>14, <1>15, <1>16, StepCases
       DEF CallStep

\* A submission fails only before the id was ever sent, or because every create
\* request of it was refused.
LEMMA SubmitSettles ==
    ASSUME RestInv, AdvanceSubmit, NEW leg \in Keys, leg = task.leg,
           Submit(Pool, RequestOf(leg))
    PROVE  /\ call'[Pool].phase = "done" /\ call'[Pool].result \in Failures => Settled(leg)
           /\ SettledInv'
  <1> DEFINE r == RequestOf(leg)
  <1>1. /\ IInv /\ TypeOK /\ TaskInv /\ SettledInv /\ OpenInv
        /\ First \in Keys /\ Second \in Keys /\ Keys = {First, Second}
        /\ Pool \in Threads /\ call \in [Threads -> Calls]
        /\ call[Pool].phase = "idle" /\ task.stage = "advance"
    BY PlanAssumption, OnePlan DEF RestInv, OpenInv, IInv, AdvanceSubmit, At, TypeOK
  <1>2. /\ r \in Requests /\ r.key = leg /\ NamedIn(Plan, leg) /\ plan.known
        /\ r.quantity = plan.quantity[leg]
    BY <1>1, PlanIsNamed, RequestType
       DEF OpenInv, RequestOf, Request, PlanStages, LegStages, EndStages
  <1>3. UNCHANGED exchangeVars
    BY <1>1, <1>2, SubmitEffect
  <1>4. ~IsConflict(r)
    <2>1. CASE leg = First
      BY <1>2, <2>1 DEF RestInv, FirstInv, AllAsk, IsConflict
    <2>2. CASE leg = Second
      <3>1. /\ plan.order[First] = market[First]
            /\ plan.quantity[Second] = Prepared(plan.order[First].filled)
        BY <1>1, <2>2, FirstIsFilled DEF LegStages, OpenInv, FollowInv
      <3> QED
        BY <1>2, <2>2, <3>1 DEF RestInv, SecondInv, IsConflict
    <2> QED
      BY <1>1, <2>1, <2>2
  <1>5. leg \notin attempted => Settled(leg)
    BY <1>1, <1>2, FreshIsSettled
  <1>6. /\ orders' = orders /\ uncertain' = uncertain
        /\ \A k \in Keys \ {leg} : k \in attempted' <=> k \in attempted
    BY <1>2 DEF Submit, SubmitConflict, SubmitKnown, SubmitDuplicate, SubmitUnprepared,
                SubmitClaim, Claim, SubmitQuery, memory
  <1> HIDE DEF r
  <1>7. ASSUME NEW k \in Keys \ {leg}, k \in attempted', orders'[k] = NoOrder,
               k \notin uncertain'
        PROVE  Settled(k)'
    <2>1. Settled(k)
      BY <1>1, <1>6, <1>7 DEF SettledInv
    <2> QED
      BY <1>3, <2>1, SettledStays
  <1>8. CASE SubmitKnown(Pool, r) \/ SubmitQuery(Pool, r)
    <2>1. /\ \/ orders[leg] # NoOrder
             \/ leg \in uncertain
          /\ \/ Over("order", orders[leg])
             \/ Over("keyerror", NoOrder)
             \/ call'[Pool] = Stage("query", leg, 0, NoOrder, {}, "none")
      BY <1>1, <1>2, <1>8, DoneOver DEF SubmitKnown, SubmitQuery, Querying
    <2>2. call'[Pool].phase = "done" => call'[Pool].result \notin Failures
      BY <2>1 DEF Over, Stage, Failures
    <2> QED
      BY <1>6, <1>7, <2>1, <2>2 DEF SettledInv
  <1>9. CASE SubmitDuplicate(Pool, r)
    <2>1. Settled(leg)
      BY <1>1, <1>2, <1>9 DEF SubmitDuplicate, SettledInv
    <2> QED
      BY <1>3, <1>7, <2>1, SettledStays DEF SettledInv
  <1>10. CASE SubmitUnprepared(Pool, r) \/ SubmitClaim(Pool, r)
    <2>1. Settled(leg)
      BY <1>2, <1>5, <1>10 DEF SubmitUnprepared, SubmitClaim, IsFresh
    <2> QED
      BY <1>3, <1>7, <2>1, SettledStays DEF SettledInv
  <1> QED
    BY <1>4, <1>8, <1>9, <1>10 DEF Submit, SubmitConflict, r

\* A call inside the service settles an id by a refusal only, and answers a
\* failure only then.
LEMMA InServiceSettles ==
    ASSUME RestInv, InService, Garbled = FALSE, NEW k, k = call[Pool].key
    PROVE  /\ call'[Pool].phase = "done" /\ call'[Pool].result \in Failures => Settled(k)'
           /\ SettledInv'
  BY ServiceSettles DEF RestInv, OpenInv, PastInv, AnswerPast, AskedPast

\* A call that is no submission adds nothing to what was attempted, and closes an
\* open outcome only by an order.
LEMMA QuietCall ==
    ASSUME RestInv, CallStep, ~AdvanceSubmit, StreamsFail = FALSE
    PROVE  /\ call[Pool].phase = "idle" /\ UNCHANGED <<exchangeVars, attempted, result>>
           /\ \A k \in Keys : orders'[k] = NoOrder =>
                 orders[k] = NoOrder /\ (k \in uncertain => k \in uncertain')
           /\ task'.stage \notin {"sent", "complete"}
  <1>1. /\ OpenInv /\ IInv /\ TypeOK /\ TaskInv /\ PlanInv /\ OrdersPast /\ RecordPast
        /\ First \in Keys /\ Second \in Keys
        /\ orders \in [Keys -> Orders \cup {NoOrder}]
    BY PlanAssumption DEF RestInv, OpenInv, IInv, PastInv, TypeOK
  <1>2. UNCHANGED exchangeVars
    BY <1>1, CallPlan
  <1>3. ASSUME NEW k \in Keys, NEW order, order # NoOrder, Record(Pool, k, order)
        PROVE  /\ call[Pool].phase = "idle" /\ UNCHANGED attempted
               /\ \A i \in Keys : orders'[i] = NoOrder =>
                     orders[i] = NoOrder /\ (i \in uncertain => i \in uncertain')
    BY <1>1, <1>3 DEF Record
  <1>4. CASE RecordLeg
    <2>1. /\ task.leg \in Keys /\ plan.order[task.leg] # NoOrder
          /\ Record(Pool, task.leg, plan.order[task.leg])
      BY <1>1, <1>4 DEF RecordLeg, At, TaskInv, PlanStages, LegStages, RecordPast
    <2>2. task'.stage = "recorded" /\ result' = result
      BY <1>1, <1>4, TaskGoes DEF RecordLeg, Task
    <2> QED
      BY <1>2, <1>3, <2>1, <2>2
  <1>5. ASSUME NEW k \in Keys, NEW order \in Past(k), PrivateEvent(k, order)
        PROVE  /\ \E held : held # NoOrder /\ Record(Pool, k, held)
               /\ task'.stage \in {"noting", "noted"} /\ result' = result
    <2>1. CASE plan.known
      <3>1. PICK held \in Reconciled(plan.seen[k], order) :
               /\ Record(Pool, k, held)
               /\ task' = Task("noting", First, FALSE, Recovering, FALSE)
        BY <1>5, <2>1 DEF PrivateEvent
      <3>2. held \in Past(k)
        BY <1>1, <3>1, ReconciledPast DEF OrdersPast
      <3> QED
        BY <1>1, <1>5, <3>1, <3>2, PastFacts DEF Task, PrivateEvent
    <2>2. CASE ~plan.known
      BY <1>1, <1>5, <2>2, PastFacts DEF Task, PrivateEvent
    <2> QED
      BY <2>1, <2>2
  <1>6. CASE \E k \in Keys : \E order \in Past(k) : PrivateEvent(k, order)
    BY <1>2, <1>3, <1>5, <1>6
  <1>7. CASE Preparable(plan.order[First].filled) /\ Follow
    BY <1>1, <1>2, <1>7, TaskGoes DEF Follow, RegisterContext, Task
  <1>8. CASE \E first, second \in Quantities : Passes(first, second) /\ Start(first, second)
    BY <1>2, <1>8 DEF Start, Passes, RegisterContext, Task
  <1>9. CASE Complete
    <2>1. /\ call[Pool].phase = "idle" /\ UNCHANGED <<orders, attempted>>
          /\ \A k \in Keys : orders[k] = NoOrder => (k \in uncertain => k \in uncertain')
      BY <1>9, NoOrderNotTerminal DEF Complete, CompleteContext
    <2>2. task'.stage = "completing" /\ result' = result
      BY <1>1, <1>9, TaskGoes DEF Complete, Task
    <2> QED
      BY <1>2, <2>1, <2>2
  <1>10. CASE /\ plan.order[task.leg] # NoOrder /\ ~IsTerminal(plan.order[task.leg])
              /\ RefreshLeg
    BY <1>1, <1>2, <1>10, TaskGoes DEF RefreshLeg, Refresh, Task
  <1>11. CASE RecoverPending(Pool) /\ RecoverStart /\ UNCHANGED coordinator
    <2>1. task'.stage = "querying"
      BY <1>11 DEF RecoverStart, RecoverPending, Task
    <2> QED
      BY <1>2, <1>11, <2>1 DEF RecoverPending, memory, coordinator
  <1>12. CASE ~task.defer /\ AdvanceNotReady
    BY <1>12 DEF AdvanceNotReady
  <1> QED
    BY <1>4, <1>6, <1>7, <1>8, <1>9, <1>10, <1>11, <1>12 DEF CallStep

\* An attempt that is over is settled, or its outcome is known or open.
LEMMA SettledStep ==
    ASSUME RestInv, StreamsFail = FALSE, Garbled = FALSE, [OpenNext]_openVars
    PROVE  SettledInv' /\ FailInv'
  <1>1. /\ IInv /\ TypeOK /\ TaskInv /\ SettledInv /\ FailInv /\ FlagInv /\ OpenInv
    BY DEF RestInv, OpenInv, IInv
  <1>2. ASSUME UNCHANGED <<exchangeVars, attempted>>,
               call[Pool].phase \notin {"create", "sent"} \/ call' = call,
               \A k \in Keys : orders'[k] = NoOrder =>
                  orders[k] = NoOrder /\ (k \in uncertain => k \in uncertain')
        PROVE  SettledInv'
    <2> SUFFICES ASSUME NEW k \in Keys, k \in attempted', orders'[k] = NoOrder,
                        k \notin uncertain',
                        ~(call'[Pool].phase \in {"create", "sent"} /\ call'[Pool].key = k)
                 PROVE  Settled(k)'
      BY DEF SettledInv
    <2>1. Settled(k)
      BY <1>1, <1>2 DEF SettledInv
    <2> QED
      BY <1>2, <2>1, SettledStays
  <1>10. ASSUME NEW leg, task'.leg = leg, Settled(leg)'
         PROVE  FailInv'
    BY <1>10 DEF FailInv, Settled
  <1>11. ASSUME UNCHANGED <<call, task>>, \A k : Settled(k) => Settled(k)'
         PROVE  FailInv'
    <2>1. CASE Settled(task.leg)
      BY <1>10, <1>11, <2>1
    <2>2. CASE ~Settled(task.leg)
      BY <1>1, <1>11, <2>2 DEF FailInv, Answer
    <2> QED
      BY <2>1, <2>2
  <1>3. CASE OwnStep
    <2>1. SettledInv'
      BY <1>1, <1>2, <1>3, OwnEffect DEF memory, vars, Return
    <2>2. UNCHANGED <<call, task, exchangeVars>> \/ call'[Pool].phase = "idle"
      BY <1>1, <1>3, OwnEffect
    <2>3. FailInv'
      <3>1. CASE UNCHANGED <<call, task, exchangeVars>>
        BY <1>11, <3>1, SettledStays
      <3>2. CASE call'[Pool].phase = "idle"
        BY <3>2 DEF FailInv
      <3> QED
        BY <2>2, <3>1, <3>2
    <2> QED
      BY <2>1, <2>3
  <1>4. CASE AdvanceSubmit
    <2>1. task.leg \in Keys /\ Submit(Pool, RequestOf(task.leg))
      BY <1>1, <1>4 DEF AdvanceSubmit, FlagInv, At, TaskInv, PlanStages, LegStages
    <2>2. /\ call'[Pool].phase = "done" /\ call'[Pool].result \in Failures => Settled(task.leg)
          /\ SettledInv'
      BY <1>4, <2>1, SubmitSettles
    <2>3. task'.leg = task.leg
      BY <1>1, <1>4, TaskGoes DEF AdvanceSubmit, Task
    <2>4. UNCHANGED exchangeVars
      BY <1>1, <1>4, CallPlan DEF CallStep
    <2>5. CASE Settled(task.leg)
      BY <1>10, <2>2, <2>3, <2>4, <2>5, SettledStays
    <2>6. CASE ~Settled(task.leg)
      BY <2>2, <2>6 DEF FailInv, Answer
    <2> QED
      BY <2>5, <2>6
  <1>5. CASE CallStep /\ ~AdvanceSubmit
    <2>1. /\ call[Pool].phase = "idle" /\ UNCHANGED <<exchangeVars, attempted>>
          /\ \A k \in Keys : orders'[k] = NoOrder =>
                 orders[k] = NoOrder /\ (k \in uncertain => k \in uncertain')
          /\ task'.stage # "sent"
      BY <1>5, QuietCall
    <2> QED
      BY <1>2, <2>1 DEF FailInv
  <1>6. CASE InService
    <2> DEFINE k == call[Pool].key
    <2>1. /\ call'[Pool].phase = "done" /\ call'[Pool].result \in Failures =>
               \E i : i = k /\ Settled(i)'
          /\ SettledInv'
      BY <1>6, InServiceSettles
    <2>2. task' = task /\ call[Pool].phase \in {"create", "sent", "query", "asked"}
      BY <1>1, <1>6, InServiceEffect DEF OpenInv, worker
    <2>3. task.stage = "sent" => k = task.leg
      BY <1>1, <2>2 DEF TaskInv
    <2>4. CASE call'[Pool].phase = "done" /\ call'[Pool].result \in Failures
               /\ task.stage = "sent"
      BY <1>10, <2>1, <2>2, <2>3, <2>4
    <2>5. CASE ~(call'[Pool].phase = "done" /\ call'[Pool].result \in Failures
                 /\ task.stage = "sent")
      BY <2>1, <2>2, <2>5 DEF FailInv, Answer
    <2> QED
      BY <2>1, <2>4, <2>5
  <1>7. CASE ExchangeStep /\ UNCHANGED <<worker, coordinator>>
    <2>1. /\ UNCHANGED <<memory, call, task>>
          /\ task.stage = "sent" => task.leg \in Keys
      BY <1>1, <1>7 DEF ExchangeStep, worker, TaskInv, PlanStages, LegStages
    <2>2. \A k \in Keys : Settled(k) => Settled(k)'
      BY <1>1, <1>7, ExchangeRests
    <2>3. SettledInv'
      BY <1>1, <2>1, <2>2 DEF SettledInv, memory
    <2>4. CASE task.stage = "sent" /\ Settled(task.leg)
      BY <1>10, <2>1, <2>2, <2>3, <2>4
    <2>5. CASE ~(task.stage = "sent" /\ Settled(task.leg))
      BY <1>1, <2>1, <2>3, <2>5 DEF FailInv, Answer
    <2> QED
      BY <2>3, <2>4, <2>5
  <1>8. CASE ProcessRestart
    BY <1>8 DEF ProcessRestart, WorkerRestart, Restart, SettledInv, FailInv, NoTask, Task
  <1>9. CASE UNCHANGED openVars
    <2>1. UNCHANGED <<exchangeVars, attempted, orders, uncertain, call, task>>
      BY <1>9 DEF openVars, vars, memory, worker
    <2> QED
      BY <1>2, <1>11, <2>1, SettledStays
  <1> QED
    BY <1>3, <1>4, <1>5, <1>6, <1>7, <1>8, <1>9, StepCases

\* A leg that is settled or over, with no second leg or with a filled first one,
\* leaves nothing that can still trade.
LEMMA LegsAtRest ==
    ASSUME OpenInv, NEW leg \in Keys, Settled(leg) \/ IsTerminal(market[leg]),
           leg = First => market[First].status # "filled",
           leg = Second => market[First].status = "filled"
    PROVE  \A k \in Keys : ~MaybeLive(k)
  <1>1. Keys = {First, Second} /\ SecondFollowsFilledFirst
    BY PlanAssumption DEF OpenInv
  <1>2. CASE leg = First
    <2>1. creates[Second] = << >>
      BY <1>1, <1>2 DEF SecondFollowsFilledFirst
    <2>2. Settled(Second)
      BY <2>1 DEF Settled
    <2> QED
      BY <1>1, <1>2, <2>2 DEF MaybeLive
  <1>3. CASE leg = Second
    BY <1>1, <1>3 DEF MaybeLive, IsTerminal
  <1> QED
    BY <1>1, <1>2, <1>3

\* A result becomes final only when nothing of the plan can trade any more.
LEMMA OwnRests ==
    ASSUME RestInv, OwnStep, result' # result, result' \in FinalResults
    PROVE  \A k \in Keys : ~MaybeLive(k)
  <1>1. /\ OpenInv /\ IInv /\ TypeOK /\ TaskInv /\ PlanInv /\ OrdersPast /\ RecordPast
        /\ FlagInv /\ FailInv /\ SecondInv /\ MarketInv
        /\ First \in Keys /\ Second \in Keys /\ First # Second /\ Keys = {First, Second}
    BY PlanAssumption DEF RestInv, OpenInv, IInv, PastInv
  <1>2. \A leg : /\ Unknown(leg) \notin FinalResults
                 /\ Deferred(leg) \notin FinalResults
                 /\ Incomplete(leg) \notin FinalResults
    BY DEF Unknown, Deferred, Incomplete, FinalResults
  <1>3. CASE Sent
    <2>1. task.stage = "sent" /\ call[Pool].phase = "done" /\ task.leg \in Keys
      BY <1>1, <1>3 DEF Sent, After, TaskInv, PlanStages, LegStages
    <2>2. Answer \in Failures
      BY <1>2, <1>3 DEF Sent, Store, Failures
    <2>3. Settled(task.leg)
      BY <1>1, <2>1, <2>2 DEF FailInv
    <2>4. task.leg = First => market[First].status # "filled"
      <3>1. SUFFICES ASSUME task.leg = First, market[First].status = "filled" PROVE FALSE
        OBVIOUS
      <3>2. market[First] # NoOrder
        BY <3>1 DEF NoOrder
      <3> QED
        BY <1>1, <2>3, <3>1, <3>2 DEF MarketInv, Settled
    <2>5. task.leg = Second => market[First].status = "filled"
      BY <1>1, <2>1, FirstIsFilled DEF LegStages
    <2> QED
      BY <1>1, <2>1, <2>3, <2>4, <2>5, LegsAtRest
  <1>4. CASE Recorded
    <2> DEFINE leg == task.leg
               order == plan.order[leg]
    <2>1. /\ task.stage = "recorded" /\ leg \in Keys /\ result' = Outcome(leg)
          /\ ~(leg = First /\ plan.order[First].status = "filled")
      BY <1>1, <1>4 DEF Recorded, After, Store, TaskInv, PlanStages, LegStages
    <2>2. order \in Past(leg)
      BY <1>1, <2>1 DEF OrdersPast, RecordPast
    <2>3. order \in Orders /\ (IsTerminal(order) => order = market[leg])
      BY <1>1, <2>1, <2>2, PastFacts
    <2>4. order.status \in {"new", "filled", "canceled"}
      BY <2>3 DEF Orders
    <2>5. order.status # "new"
      <3>1. order.status = "new" => Outcome(leg) = Incomplete(leg)
        BY DEF Outcome
      <3> QED
        BY <1>2, <2>1, <3>1
    <2>6. IsTerminal(order) /\ order = market[leg]
      BY <2>3, <2>4, <2>5 DEF IsTerminal
    <2>7. leg = Second => market[First].status = "filled"
      BY <1>1, <2>1, FirstIsFilled DEF LegStages
    <2> QED
      BY <1>1, <2>1, <2>6, <2>7, LegsAtRest
  <1>5. CASE ~Preparable(plan.order[First].filled) /\ Follow
    <2>1. task.stage = "follow" /\ task.leg = Second
      BY <1>1, <1>5 DEF Follow, At, TaskInv
    <2>2. plan.order[First] = market[First] /\ market[First].status = "filled"
      BY <1>1, <2>1, FirstIsFilled DEF LegStages
    <2>3. creates[Second] = << >>
      BY <1>1, <1>5, <2>2 DEF SecondInv
    <2>4. Settled(Second)
      BY <2>3 DEF Settled
    <2> QED
      BY <1>1, <2>2, <2>4, LegsAtRest
  <1>6. CASE \E first, second \in Quantities : ~Passes(first, second) /\ Start(first, second)
    <2>1. \A k \in Keys : creates[k] = << >>
      BY <1>1, <1>6 DEF Start, RestInv, OpenInv, StartInv
    <2> QED
      BY <2>1 DEF MaybeLive, Settled
  <1>7. CASE AdvanceDeferred \/ Deferring
    BY <1>1, <1>2, <1>7 DEF AdvanceDeferred, Deferring, After, Store, FlagInv
  <1>8. CASE AdvanceKnown \/ (task.defer /\ AdvanceNotReady) \/ Registered \/ Completed
             \/ Noting \/ Resume \/ Refreshed \/ Restore
             \/ RefreshLeg
             \/ ((((\A k \in Keys : submitted[k] = NoRequest) /\ RecoverStart)
                  \/ RecoverEnd \/ MonitorLeaves) /\ UNCHANGED coordinator)
    BY <1>8 DEF AdvanceKnown, AdvanceNotReady, Registered, Completed, Noting, Resume,
                Refreshed, Restore, RefreshLeg, coordinator
  <1> QED
    BY <1>3, <1>4, <1>5, <1>6, <1>7, <1>8 DEF OwnStep

\* No step leaves a final result with an order that may trade.
LEMMA FinalStep ==
    ASSUME RestInv, StreamsFail = FALSE, [OpenNext]_openVars
    PROVE  FinalMeansAtRest'
  <1>1. /\ OpenInv /\ IInv /\ TypeOK /\ TaskInv /\ NamedInv /\ PastInv /\ FinalMeansAtRest
    BY DEF RestInv, OpenInv, IInv
  <1>2. ASSUME result' = result, \A k \in Keys : MaybeLive(k)' => MaybeLive(k)
        PROVE  FinalMeansAtRest'
    BY <1>1, <1>2 DEF FinalMeansAtRest
  <1>3. CASE OwnStep
    <2>1. \A k : MaybeLive(k)' <=> MaybeLive(k)
      BY <1>1, <1>3, OwnEffect, SettledStays
    <2>2. CASE result' = result
      BY <1>2, <2>1, <2>2
    <2>3. CASE result' # result /\ result' \in FinalResults
      BY <1>3, <2>1, <2>3, OwnRests DEF FinalMeansAtRest
    <2>4. CASE result' \notin FinalResults
      BY <2>4 DEF FinalMeansAtRest
    <2> QED
      BY <2>2, <2>3, <2>4
  <1>4. CASE CallStep
    <2>1. UNCHANGED exchangeVars
      BY <1>1, <1>4, CallPlan
    <2>2. result' = result
      BY <1>4, QuietCall DEF AdvanceSubmit
    <2> QED
      BY <1>2, <2>1, <2>2, SettledStays
  <1>5. CASE InService /\ UNCHANGED coordinator
    <2>1. result' = result
      BY <1>5 DEF coordinator
    <2>2. CASE UNCHANGED exchangeVars
      BY <1>2, <2>1, <2>2, SettledStays
    <2>3. CASE call[Pool].phase = "create"
      <3>1. task.stage = "sent"
        BY <1>1, <2>3 DEF TaskInv
      <3>2. result \notin FinalResults
        BY <1>1, <3>1 DEF NamedInv, PlanStages, LegStages, EndStages
      <3> QED
        BY <2>1, <3>2 DEF FinalMeansAtRest
    <2> QED
      BY <1>1, <1>5, <2>2, <2>3, InServiceEffect DEF exchangeVars
  <1>6. CASE ExchangeStep /\ UNCHANGED <<worker, coordinator>>
    BY <1>1, <1>2, <1>6, ExchangeRests DEF coordinator
  <1>7. CASE ProcessRestart
    BY <1>7 DEF ProcessRestart, FinalMeansAtRest, FinalResults
  <1>8. CASE UNCHANGED openVars
    BY <1>2, <1>8, SettledStays DEF openVars, vars, coordinator
  <1> QED
    BY <1>3, <1>4, <1>5, <1>6, <1>7, <1>8, StepCases

-----------------------------------------------------------------------------
(* The theorem *)

\* The invariant holds at the start.
LEMMA RestStart ==
    ASSUME OpenInit
    PROVE  RestInv
  <1>1. /\ OpenInv /\ Plan \in Ops /\ First \in Keys /\ Second \in Keys
        /\ QuantityStep \in Nat \ {0}
    BY OpenStart, OnePlan, PlanAssumption, ServiceAssumption
  <1>2. Prepared(NoRequest) = NoRequest
    BY <1>1 DEF Prepared, NoRequest
  <1>3. AllAsk(NoRequest)
    BY <1>1, <1>2 DEF AllAsk, AsksFirst, OpenInit, WorkerInit, Init, NoContext, NoPlan,
                      NoRequest
  <1> QED
    BY <1>1, <1>3
       DEF RestInv, SettledInv, RequestedInv, FirstInv, SecondInv, FlagInv, FailInv,
           FinalMeansAtRest, OpenInit, WorkerInit, Init, ExchangeInit, NoContext, NoTask,
           Task, FinalResults

\* Every step keeps the invariant.
LEMMA RestStep ==
    ASSUME RestInv, LateEvents = FALSE, StreamsFail = FALSE, Garbled = FALSE,
           [OpenNext]_openVars
    PROVE  RestInv'
  BY OpenStep, SettledStep, RequestedStep, FirstStep, SecondQuantityStep, FlagStep, FinalStep
     DEF RestInv

\* A final result is final: nothing of the plan can trade any more.  With answers
\* that can be read and streams that are up; the runs show what happens otherwise.
THEOREM FinalResultsRest ==
    ASSUME LateEvents = FALSE, StreamsFail = FALSE, Garbled = FALSE
    PROVE  OpenSpec => []FinalMeansAtRest
  <1>1. RestInv /\ [OpenNext]_openVars => RestInv'
    BY RestStep
  <1>2. RestInv => FinalMeansAtRest
    BY DEF RestInv
  <1> QED
    BY <1>1, <1>2, RestStart, PTL DEF OpenSpec

-----------------------------------------------------------------------------
(* What is uncertain *)

Busy == {"create", "sent", "query", "asked"}

\* An id whose outcome is open is pending, and a pending one was attempted in this
\* process or has an order in the plan.
PendingTried == \A k \in Keys :
    /\ k \in uncertain => submitted[k] # NoRequest
    /\ submitted[k] # NoRequest => k \in attempted \/ plan.order[k] # NoOrder

\* The ids the service is at work on are pending.
CallPends ==
    /\ call[Pool].phase \in Busy =>
          /\ submitted[call[Pool].key] # NoRequest
          /\ call[Pool].key \notin call[Pool].batch
          /\ \A j \in call[Pool].batch : submitted[j] # NoRequest
    /\ call[Pool].phase \in {"create", "sent"} => call[Pool].key \notin uncertain
    /\ call[Pool].phase = "done" => Answer # "keyerror"

UncertainInv == PendingTried /\ CallPends

\* What the plan holds of an order it keeps.
Keeps == \A k \in Keys : plan.order[k] # NoOrder => plan'.order[k] # NoOrder

\* Until the process ends.
LEMMA PlanKeeps ==
    ASSUME OpenInv, OpenNext, ~ProcessRestart,
           ~ \E first, second \in Quantities : Start(first, second)
    PROVE  Keeps
  <1>1. /\ TypeOK /\ PlanInv /\ PastInv /\ TaskInv
    BY DEF OpenInv, IInv
  <1>2. CASE plan'.order = plan.order
    BY <1>2 DEF Keeps
  <1>3. ASSUME NEW k \in Keys, NEW order \in Past(k),
               plan'.order = [plan.order EXCEPT ![k] = order]
        PROVE  Keeps
    <2>1. order # NoOrder
      BY <1>1, <1>3, PastFacts
    <2> QED
      BY <1>1, <1>3, <2>1 DEF Keeps, PlanInv
  <1>4. CASE plan' # plan /\ (Sent \/ Refreshed)
    <2>1. /\ plan' = [plan EXCEPT !.order[task.leg] = call[Pool].order]
          /\ call[Pool].phase = "done" /\ call[Pool].result = "order"
          /\ task.stage \in {"sent", "refreshing"} /\ task.leg \in Keys
      BY <1>1, <1>4 DEF Sent, Refreshed, After, Answer, TaskInv, PlanStages, LegStages
    <2>2. call[Pool].order \in Past(task.leg)
      BY <1>1, <2>1 DEF PastInv, AnswerPast
    <2>3. plan'.order = [plan.order EXCEPT ![task.leg] = call[Pool].order]
      BY <1>1, <2>1 DEF PlanInv
    <2> QED
      BY <1>3, <2>1, <2>2, <2>3
  <1>5. CASE plan' # plan /\ Restore
    <2>1. plan' = [known |-> TRUE, order |-> orders, seen |-> orders,
                   quantity |-> [k \in Keys |->
                        (CHOOSE r \in contexts[Plan].requests : r.key = k).quantity]]
      BY <1>5 DEF Restore
    <2> QED
      BY <1>1, <2>1 DEF PastInv, OrdersPast, Keeps
  <1>6. ASSUME NEW k \in Keys, NEW order \in Past(k), PrivateEvent(k, order), plan' # plan
        PROVE  Keeps
    <2>1. PICK held \in Reconciled(plan.seen[k], order) :
             plan' = [plan EXCEPT !.seen[k] = held, !.order[k] = held]
      BY <1>6 DEF PrivateEvent
    <2>2. held \in Past(k)
      BY <1>1, <2>1, ReconciledPast DEF PastInv, OrdersPast
    <2>3. plan'.order = [plan.order EXCEPT ![k] = held]
      BY <1>1, <2>1 DEF PlanInv
    <2> QED
      BY <1>3, <2>2, <2>3
  <1>7. CASE RecordLeg \/ Follow
    <2>1. plan'.order = plan.order
      BY <1>1, <1>7 DEF RecordLeg, Follow, PlanInv
    <2> QED
      BY <1>2, <2>1
  <1>8. CASE \/ AdvanceKnown \/ AdvanceDeferred \/ AdvanceNotReady \/ AdvanceSubmit
             \/ Deferring \/ Recorded \/ Registered \/ Complete \/ Completed \/ Noting
             \/ Resume \/ RefreshLeg \/ UNCHANGED coordinator
    BY <1>2, <1>8
       DEF AdvanceKnown, AdvanceDeferred, AdvanceNotReady, AdvanceSubmit, Deferring, Recorded,
           Registered, Complete, Completed, Noting, Resume, RefreshLeg, coordinator
  <1> QED
    BY <1>2, <1>4, <1>5, <1>6, <1>7, <1>8 DEF OpenNext, Advance

\* A step that only takes ids out of what is pending, and ends the call.
Trims == /\ attempted' = attempted
         /\ \A k \in Keys : submitted'[k] # NoRequest => submitted[k] # NoRequest
         /\ \A k \in Keys : k \in uncertain' =>
               k \in uncertain /\ submitted'[k] = submitted[k]
Ends == call'[Pool].phase \notin Busy /\ call'[Pool].result # "keyerror"

\* Such a step keeps what is uncertain among what is pending.
LEMMA TrimKeeps ==
    ASSUME UncertainInv, Keeps, Trims, Ends
    PROVE  UncertainInv'
  BY DEF UncertainInv, Keeps, Trims, Ends, PendingTried, CallPends, Answer, Busy

\* Answers that end a call.
LEMMA OverEnds ==
    ASSUME NEW reply, reply # "keyerror", NEW order, Over(reply, order)
    PROVE  Ends
  BY DEF Over, Stage, Ends, Busy

\* A terminal order takes its id away.
LEMMA FinishTrims ==
    ASSUME TypeOK, NEW k \in Keys, NEW order, FinishIfTerminal(k, order),
           attempted' = attempted,
           uncertain' \subseteq uncertain, Finished(k, order) => k \notin uncertain'
    PROVE  Trims
  BY DEF FinishIfTerminal, TypeOK, Pending, Trims

\* record and the operations on the context.
LEMMA ContextUncertain ==
    ASSUME TypeOK, UncertainInv, Keeps,
           \/ \E k \in Keys : \E order : Record(Pool, k, order)
           \/ \E batch : RegisterContext(Pool, Plan, "open", batch)
           \/ CompleteContext(Pool, Plan)
           \/ SetConfirmationRequired(Pool, Plan)
    PROVE  UncertainInv'
  <1>1. CASE \E k \in Keys : \E order : Record(Pool, k, order)
    <2>1. PICK k \in Keys : \E order : Record(Pool, k, order)
      BY <1>1
    <2>2. PICK order : Record(Pool, k, order)
      BY <2>1
    <2>3. Trims
      BY <2>2, FinishTrims DEF Record
    <2>4. Ends
      BY <2>2, OverEnds, DoneOver, FailsOver DEF Record
    <2> QED
      BY <2>3, <2>4, TrimKeeps
  <1>2. CASE (\E batch : RegisterContext(Pool, Plan, "open", batch))
             \/ SetConfirmationRequired(Pool, Plan)
    <2>1. Trims
      BY <1>2 DEF RegisterContext, SetConfirmationRequired, Trims
    <2>2. Ends
      BY <1>2, OverEnds, DoneOver, FailsOver DEF RegisterContext, SetConfirmationRequired
    <2> QED
      BY <2>1, <2>2, TrimKeeps
  <1>3. CASE CompleteContext(Pool, Plan)
    <2>1. Trims
      BY <1>3 DEF CompleteContext, Trims
    <2>2. Ends
      BY <1>3, OverEnds, DoneOver, FailsOver DEF CompleteContext
    <2> QED
      BY <2>1, <2>2, TrimKeeps
  <1> QED
    BY <1>1, <1>2, <1>3

\* submit and confirm_and_submit of a leg that has no order yet.
LEMMA SubmitUncertain ==
    ASSUME OpenInv, UncertainInv, Keeps, NEW r \in Requests, plan.order[r.key] = NoOrder,
           Submit(Pool, r) \/ ConfirmAndSubmit(Pool, r, Plan)
    PROVE  UncertainInv'
  <1> DEFINE k == r.key
  <1>1. /\ TypeOK /\ k \in Keys /\ r.quantity \in Quantities
        /\ Pool \in Threads /\ call \in [Threads -> Calls] /\ submitted \in Pending
    BY OnePlan DEF OpenInv, IInv, TypeOK, Requests
  <1>2. ASSUME UNCHANGED <<submitted, uncertain, attempted>>
        PROVE  Trims
    BY <1>2 DEF Trims
  <1>3. CASE SubmitConflict(Pool, r) \/ SubmitKnown(Pool, r) \/ SubmitDuplicate(Pool, r)
             \/ SubmitUnprepared(Pool, r) \/ ConfirmRefused(Pool, r, Plan)
    <2>1. Trims
      BY <1>2, <1>3 DEF SubmitConflict, SubmitKnown, SubmitDuplicate, SubmitUnprepared,
                        ConfirmRefused, memory
    <2>2. Ends
      BY <1>1, <1>3, OverEnds, DoneOver
         DEF SubmitConflict, SubmitKnown, SubmitDuplicate, SubmitUnprepared, ConfirmRefused
    <2> QED
      BY <2>1, <2>2, TrimKeeps
  <1>4. CASE SubmitQuery(Pool, r)
    <2>1. /\ submitted[k] # NoRequest /\ UNCHANGED memory
          /\ call'[Pool] = Stage("query", k, 0, NoOrder, {}, "none")
      BY <1>1, <1>4 DEF SubmitQuery, Querying, UncertainInv, PendingTried
    <2> QED
      BY <2>1 DEF UncertainInv, PendingTried, CallPends, Stage, Busy, Keeps, memory
  <1>5. ASSUME Claim(Pool, r), Preparable(r.quantity), k \notin uncertain
        PROVE  UncertainInv'
    <2>1. /\ submitted' = [submitted EXCEPT ![k] = Prepared(r.quantity)]
          /\ attempted' = attempted \cup {k} /\ uncertain' = uncertain
          /\ call'[Pool] = Stage("create", k, 0, NoOrder, {}, "none") \/ Over("oserror", NoOrder)
      BY <1>1, <1>5, FailsOver DEF Claim, Creating
    <2>2. Prepared(r.quantity) # NoRequest
      BY <1>1, <1>5, PreparedType, ServiceAssumption DEF Preparable, NoRequest
    <2>3. \A i \in Keys : submitted'[i] = IF i = k THEN Prepared(r.quantity) ELSE submitted[i]
      BY <1>1, <2>1 DEF Pending
    <2>4. PendingTried'
      BY <1>5, <2>1, <2>2, <2>3 DEF UncertainInv, PendingTried, Keeps
    <2>5. CallPends'
      BY <1>1, <1>5, <2>1, <2>2, <2>3 DEF CallPends, Over, Stage, Busy, Answer
    <2> QED
      BY <2>4, <2>5 DEF UncertainInv
  <1>6. CASE SubmitClaim(Pool, r)
    BY <1>5, <1>6 DEF SubmitClaim, IsFresh
  <1>7. CASE ConfirmClaim(Pool, r, Plan)
    <2>1. k \notin uncertain
      BY <1>1, <1>7 DEF ConfirmClaim, UncertainInv, PendingTried
    <2> QED
      BY <1>5, <1>7, <2>1 DEF ConfirmClaim
  <1> QED
    BY <1>3, <1>4, <1>6, <1>7 DEF Submit, ConfirmAndSubmit

\* refresh and recover_pending.
LEMMA QueryUncertain ==
    ASSUME OpenInv, UncertainInv, Keeps,
           \/ RecoverPending(Pool)
           \/ \E r \in Requests : plan.order[r.key] # NoOrder /\ Refresh(Pool, r)
    PROVE  UncertainInv'
  <1>1. /\ TypeOK /\ Pool \in Threads /\ call \in [Threads -> Calls] /\ submitted \in Pending
    BY OnePlan DEF OpenInv, IInv, TypeOK
  <1>2. CASE RecoverPending(Pool)
    <2> DEFINE pending == {k \in Keys : submitted[k] # NoRequest}
    <2>1. UNCHANGED memory /\ \E k \in pending : Querying(Pool, k, pending \ {k})
      BY <1>2 DEF RecoverPending
    <2>2. PICK k \in pending :
             call'[Pool] = Stage("query", k, 0, NoOrder, pending \ {k}, "none")
      BY <1>1, <2>1 DEF Querying
    <2> QED
      BY <2>1, <2>2 DEF UncertainInv, PendingTried, CallPends, Stage, Busy, Keeps, memory
  <1>3. ASSUME NEW r \in Requests, plan.order[r.key] # NoOrder, Refresh(Pool, r)
        PROVE  UncertainInv'
    <2> DEFINE k == r.key
    <2>1. /\ k \in Keys /\ uncertain' = uncertain /\ attempted' = attempted
          /\ \A i \in Keys \ {k} : submitted'[i] = submitted[i]
          /\ submitted[k] # NoRequest => submitted'[k] # NoRequest
          /\ \/ /\ submitted'[k] # NoRequest
                /\ call'[Pool] = Stage("query", k, 0, NoOrder, {}, "none")
             \/ Over("unprepared", NoOrder)
      <3>1. k \in Keys /\ r.quantity \in Quantities
        BY DEF Requests
      <3>2. Preparable(r.quantity) => Prepared(r.quantity) # NoRequest
        BY <3>1, PreparedType, ServiceAssumption DEF Preparable, NoRequest
      <3> QED
        BY <1>1, <1>3, <3>1, <3>2, DoneOver DEF Refresh, Querying, Pending
    <2>2. PendingTried'
      BY <1>3, <2>1 DEF UncertainInv, PendingTried, Keeps
    <2>3. CallPends'
      BY <2>1 DEF CallPends, Over, Stage, Busy, Answer
    <2> QED
      BY <2>2, <2>3 DEF UncertainInv
  <1> QED
    BY <1>2, <1>3

\* A call inside the service.
LEMMA InServiceUncertain ==
    ASSUME OpenInv, UncertainInv, Keeps, InService
    PROVE  UncertainInv'
  <1> DEFINE k == call[Pool].key
  <1>1. /\ TypeOK /\ k \in Keys /\ call[Pool].phase \in Busy
        /\ Pool \in Threads /\ call \in [Threads -> Calls] /\ submitted \in Pending
        /\ submitted[k] # NoRequest
        /\ call[Pool].phase \in {"create", "sent"} => k \in attempted /\ k \notin uncertain
    BY OnePlan, InServiceEffect
       DEF OpenInv, IInv, TypeOK, CallInv, ThreadInv, Busy, UncertainInv, CallPends
  <1>2. ASSUME k \in attempted \/ submitted' = submitted, attempted' = attempted,
               submitted' = submitted, uncertain' = uncertain \cup {k}
        PROVE  PendingTried'
    BY <1>1, <1>2 DEF UncertainInv, PendingTried, Keeps
  <1>3. ASSUME NEW reply \in {"order", "unknown"}, NEW order, NextQuery(Pool, reply, order),
               call[Pool].phase = "asked",
               \A j \in call[Pool].batch : submitted'[j] = submitted[j]
        PROVE  CallPends'
    <2>1. CASE call[Pool].batch = {}
      <3>1. Over(reply, order)
        BY <1>1, <1>3, <2>1, DoneOver DEF NextQuery
      <3> QED
        BY <1>3, <3>1 DEF CallPends, Over, Stage, Busy, Answer
    <2>2. CASE call[Pool].batch # {}
      <3>1. PICK j \in call[Pool].batch :
               call'[Pool] = Stage("query", j, 0, NoOrder, call[Pool].batch \ {j}, "none")
        BY <1>1, <1>3, <2>2 DEF NextQuery, Querying
      <3>2. \A i \in call[Pool].batch : submitted'[i] # NoRequest
        BY <1>1, <1>3 DEF UncertainInv, CallPends
      <3> QED
        BY <3>1, <3>2 DEF CallPends, Stage, Busy, Answer
    <2> QED
      BY <2>1, <2>2
  <1>4. CASE CreateSend(Pool) \/ QuerySend(Pool)
    <2>1. /\ UNCHANGED memory
          /\ \/ /\ call[Pool].phase = "create"
                /\ \E n : call'[Pool] = Stage("sent", k, n, NoOrder, {}, "none")
             \/ \E order : call'[Pool] = Stage("asked", k, 0, order, call[Pool].batch, "none")
      BY <1>1, <1>4 DEF CreateSend, QuerySend
    <2>2. PendingTried'
      BY <2>1 DEF UncertainInv, PendingTried, Keeps, memory
    <2>3. ASSUME NEW n, call[Pool].phase = "create",
                 call'[Pool] = Stage("sent", k, n, NoOrder, {}, "none")
          PROVE  CallPends'
      <3>1. submitted'[k] # NoRequest /\ k \notin uncertain'
        BY <1>1, <2>1, <2>3 DEF memory
      <3> QED
        BY <2>3, <3>1 DEF CallPends, Stage, Busy, Answer
    <2>4. ASSUME NEW order,
                 call'[Pool] = Stage("asked", k, 0, order, call[Pool].batch, "none")
          PROVE  CallPends'
      <3>1. /\ submitted'[k] # NoRequest /\ k \notin call[Pool].batch
            /\ \A j \in call[Pool].batch : submitted'[j] # NoRequest
        BY <1>1, <2>1 DEF UncertainInv, CallPends, memory
      <3> QED
        BY <2>4, <3>1 DEF CallPends, Stage, Busy, Answer
    <2> QED
      BY <2>1, <2>2, <2>3, <2>4 DEF UncertainInv
  <1>5. CASE CreateUnreadable(Pool) \/ QueryMismatched(Pool)
    <2>1. Trims /\ Ends
      BY <1>1, <1>5, DoneOver, OverEnds DEF CreateUnreadable, QueryMismatched, memory, Trims
    <2> QED
      BY <2>1, TrimKeeps
  <1>6. CASE CreateReturned(Pool)
    <2>1. PICK order \in {Ack, market[k]} :
            /\ FinishIfTerminal(k, order) /\ attempted' = attempted
            /\ uncertain' = IF Finished(k, order) THEN uncertain \ {k} ELSE uncertain
            /\ (Persisted /\ Done(Pool, "order", order)) \/ WriteFails(Pool)
      BY <1>6 DEF CreateReturned
    <2>2. Trims
      BY <1>1, <2>1, FinishTrims
    <2>3. Ends
      BY <1>1, <2>1, OverEnds, DoneOver, FailsOver
    <2> QED
      BY <2>2, <2>3, TrimKeeps
  <1>7. CASE CreateRefused(Pool)
    <2>1. Trims
      BY <1>1, <1>7 DEF CreateRefused, Trims, Pending
    <2>2. Ends
      BY <1>1, <1>7, OverEnds, DoneOver, FailsOver DEF CreateRefused
    <2> QED
      BY <2>1, <2>2, TrimKeeps
  <1>8. CASE CreateMismatched(Pool) \/ CreateUnclear(Pool)
    <2>1. PendingTried'
      BY <1>1, <1>2, <1>8 DEF CreateMismatched, CreateUnclear
    <2>2. submitted' = submitted
          /\ \/ call'[Pool] = Stage("query", k, 0, NoOrder, {}, "none")
             \/ Over("oserror", NoOrder)
      BY <1>1, <1>8, FailsOver DEF CreateMismatched, CreateUnclear, Querying
    <2>3. CallPends'
      BY <1>1, <2>2 DEF CallPends, Over, Stage, Busy, Answer
    <2> QED
      BY <2>1, <2>3 DEF UncertainInv
  <1>9. CASE QueryReturned(Pool)
    <2>1. /\ FinishIfTerminal(k, call[Pool].order) /\ attempted' = attempted
          /\ uncertain' = uncertain \ {k} /\ call[Pool].phase = "asked"
          /\ (Persisted /\ NextQuery(Pool, "order", call[Pool].order)) \/ WriteFails(Pool)
      BY <1>9 DEF QueryReturned
    <2>2. Trims
      BY <1>1, <2>1, FinishTrims
    <2>3. PendingTried'
      BY <2>2 DEF Trims, UncertainInv, PendingTried, Keeps
    <2>4. \A j \in call[Pool].batch : submitted'[j] = submitted[j]
      BY <1>1, <2>1 DEF FinishIfTerminal, UncertainInv, CallPends, Busy, Pending
    <2>5. CASE NextQuery(Pool, "order", call[Pool].order)
      BY <1>3, <2>1, <2>3, <2>4, <2>5 DEF UncertainInv
    <2>6. CASE WriteFails(Pool)
      BY <1>1, <2>2, <2>6, FailsOver, OverEnds, TrimKeeps
    <2> QED
      BY <2>1, <2>5, <2>6
  <1>10. CASE QueryFailed(Pool)
    <2>1. /\ submitted' = submitted /\ call[Pool].phase = "asked"
          /\ NextQuery(Pool, "unknown", NoOrder)
      BY <1>10 DEF QueryFailed
    <2>2. PendingTried'
      BY <1>1, <1>2, <1>10 DEF QueryFailed
    <2> QED
      BY <1>3, <2>1, <2>2 DEF UncertainInv
  <1> QED
    BY <1>4, <1>5, <1>6, <1>7, <1>8, <1>9, <1>10 DEF InService

\* Every step keeps it.
LEMMA UncertainStep ==
    ASSUME OpenInv, UncertainInv, [OpenNext]_openVars
    PROVE  UncertainInv'
  <1>1. /\ IInv /\ TypeOK /\ TaskInv /\ PlanInv /\ NamedInv /\ PastInv /\ StartInv
    BY DEF OpenInv, IInv
  <1>2. CASE ProcessRestart
    <2>1. /\ submitted' = journal.orders
          /\ attempted' = {k \in Keys : journal.orders[k] # NoRequest}
          /\ uncertain' = attempted' /\ call'[Pool] = Idle
      BY <1>2, OnePlan DEF ProcessRestart, WorkerRestart, Restart
    <2> QED
      BY <2>1 DEF UncertainInv, PendingTried, CallPends, Idle, Stage, Busy
  <1>3. CASE \E first, second \in Quantities : Start(first, second)
    <2>1. \A k \in Keys : submitted[k] = NoRequest
      BY <1>1, <1>3 DEF StartInv, Start
    <2>2. \/ UNCHANGED vars
          \/ /\ UNCHANGED <<submitted, attempted, uncertain>>
             /\ \E reply \in {"none", "invalid", "oserror"} : Over(reply, NoOrder)
      <3>1. ASSUME NEW first \in Quantities, NEW second \in Quantities, Start(first, second)
            PROVE  \/ UNCHANGED vars
                   \/ \E batch : RegisterContext(Pool, Plan, "open", batch)
        BY <3>1 DEF Start
      <3>2. ASSUME NEW batch, RegisterContext(Pool, Plan, "open", batch)
            PROVE  /\ UNCHANGED <<submitted, attempted, uncertain>>
                   /\ \E reply \in {"none", "invalid", "oserror"} : Over(reply, NoOrder)
        BY <1>1, <3>2, DoneOver, FailsOver DEF RegisterContext
      <3> QED
        BY <1>3, <3>1, <3>2
    <2>3. \A k \in Keys : submitted'[k] = NoRequest /\ k \notin uncertain'
      BY <2>1, <2>2 DEF UncertainInv, PendingTried, vars, memory
    <2>4. CallPends'
      <3>1. CASE UNCHANGED vars
        BY <3>1 DEF vars, memory, UncertainInv, CallPends, Answer
      <3>2. CASE \E reply \in {"none", "invalid", "oserror"} : Over(reply, NoOrder)
        BY <3>2 DEF Over, Stage, CallPends, Busy, Answer
      <3> QED
        BY <2>2, <3>1, <3>2
    <2> QED
      BY <2>3, <2>4 DEF UncertainInv, PendingTried
  <1>4. CASE UNCHANGED openVars
    BY <1>4 DEF openVars, vars, memory, coordinator, UncertainInv, PendingTried, CallPends,
                Answer
  <1>5. CASE OpenNext /\ ~ProcessRestart
             /\ ~ \E first, second \in Quantities : Start(first, second)
    <2>1. Keeps
      BY <1>5, PlanKeeps
    <2>2. CASE OwnStep
      <3>1. UNCHANGED memory /\ (call'[Pool].phase = "idle" \/ call' = call)
        BY <1>1, <2>2, OwnEffect
      <3> QED
        BY <2>1, <3>1 DEF memory, UncertainInv, PendingTried, CallPends, Keeps, Answer, Busy
    <2>3. CASE ExchangeStep
      BY <2>1, <2>3
         DEF ExchangeStep, memory, UncertainInv, PendingTried, CallPends, Keeps, Answer
    <2>4. CASE RecordLeg \/ \E k \in Keys : \E order \in Past(k) : PrivateEvent(k, order)
      <3>1. \E k \in Keys : \E order : Record(Pool, k, order)
        BY <1>1, <2>4 DEF RecordLeg, PrivateEvent, At, TaskInv, PlanStages, LegStages
      <3> QED
        BY <1>1, <2>1, <3>1, ContextUncertain
    <2>5. CASE (Preparable(plan.order[First].filled) /\ Follow) \/ Complete
               \/ (~task.defer /\ AdvanceNotReady)
      <3>1. \/ \E batch : RegisterContext(Pool, Plan, "open", batch)
            \/ CompleteContext(Pool, Plan)
            \/ SetConfirmationRequired(Pool, Plan)
        BY <2>5 DEF Follow, Complete, AdvanceNotReady
      <3> QED
        BY <1>1, <2>1, <3>1, ContextUncertain
    <2>6. CASE AdvanceSubmit \/ (plan.order[task.leg] # NoOrder
               /\ ~IsTerminal(plan.order[task.leg]) /\ RefreshLeg)
      <3>1. task.leg \in Keys /\ task.stage \in PlanStages \ EndStages
        BY <1>1, <2>6 DEF AdvanceSubmit, RefreshLeg, At, TaskInv, PlanStages, LegStages, EndStages
      <3>2. RequestOf(task.leg) \in Requests /\ RequestOf(task.leg).key = task.leg
        BY <1>1, <3>1, PlanIsNamed, RequestType
      <3>3. CASE AdvanceSubmit
        BY <2>1, <3>2, <3>3, SubmitUncertain DEF AdvanceSubmit
      <3>4. CASE plan.order[task.leg] # NoOrder
                 /\ ~IsTerminal(plan.order[task.leg]) /\ RefreshLeg
        BY <2>1, <3>2, <3>4, QueryUncertain DEF RefreshLeg
      <3> QED
        BY <2>6, <3>3, <3>4
    <2>7. CASE RecoverPending(Pool)
      BY <2>1, <2>7, QueryUncertain
    <2>8. CASE InService
      BY <2>1, <2>8, InServiceUncertain
    <2> QED
      BY <1>5, <2>2, <2>3, <2>4, <2>5, <2>6, <2>7, <2>8, StepCases DEF CallStep, Passes
  <1> QED
    BY <1>2, <1>3, <1>4, <1>5

-----------------------------------------------------------------------------
(* Who may go on with a deferred leg *)

\* Only a task that resume has begun carries the user's confirmation.
ConfirmInv == task.confirm =>
    ~task.defer /\ task.stage \notin {"free", "noted", "noting", "querying"}

\* Only a journal write that fails ends a call with oserror.
HealthyInv == faults = 0 /\ call[Pool].phase = "done" => Answer # "oserror"

\* While journal writes succeed, a deferred plan keeps its flag until the task
\* that the user confirmed has claimed its order.
DeferredInv == faults = 0 =>
    /\ result \in DeferredResults => contexts[Plan].confirm \/ task.confirm
    /\ result \in DeferredResults /\ task.stage \in {"refresh", "refreshing"} =>
          contexts[Plan].confirm
    /\ task.stage = "deferring" => contexts[Plan].confirm

WaitInv == OpenInv /\ ClaimedInv /\ UncertainInv /\ ConfirmInv /\ HealthyInv /\ DeferredInv

\* Where a step takes the task: it ends, goes on with the plan, or another begins.
GoesOn == /\ task.stage \in PlanStages
          /\ task'.stage \in Stages \ {"free", "noted", "noting", "querying"}
          /\ task'.confirm = task.confirm /\ task'.defer = task.defer
          /\ task'.stage \in {"refresh", "refreshing"} =>
                task.stage \in {"refresh", "refreshing"}
          /\ task'.stage = "deferring" => ~task.defer /\ AdvanceNotReady
Begins == /\ Free
          /\ task'.stage \in Stages \ {"refresh", "refreshing", "deferring"}
          /\ task'.confirm = FALSE

\* There is no other way.
LEMMA TaskFrom ==
    ASSUME OpenInv, OpenNext, ~ProcessRestart
    PROVE  task' \in {task, NoTask} \/ GoesOn \/ Resume \/ Begins
  <1> USE DEF Stages, PlanStages, LegStages, EndStages, Task, GoesOn, Begins
  <1>1. TaskInv /\ TypeOK
    BY DEF OpenInv, IInv
  <1>2. CASE OwnStep
    <2>1. CASE AdvanceKnown \/ AdvanceDeferred \/ (task.defer /\ AdvanceNotReady)
               \/ Deferring \/ Sent \/ Recorded \/ Registered \/ Completed
      BY <1>1, <2>1, TaskGoes
         DEF AdvanceKnown, AdvanceDeferred, AdvanceNotReady, Deferring, Sent, Recorded,
             Registered, Completed, At, After
    <2>2. CASE (~Preparable(plan.order[First].filled) /\ Follow) \/ Noting
      BY <1>1, <2>2, TaskGoes DEF Follow, Noting, At, After
    <2>3. CASE Refreshed
      BY <1>1, <2>3, TaskGoes DEF Refreshed, AfterRefresh, After
    <2>4. CASE (plan.order[task.leg] = NoOrder \/ IsTerminal(plan.order[task.leg]))
               /\ RefreshLeg
      BY <1>1, <2>4, TaskGoes DEF RefreshLeg, AfterRefresh, At
    <2>5. CASE Restore
      BY <2>5 DEF Restore, Free
    <2>6. CASE \E first, second \in Quantities : ~Passes(first, second) /\ Start(first, second)
      BY <2>6 DEF Start, Passes, Free
    <2>7. CASE (\A k \in Keys : submitted[k] = NoRequest) /\ RecoverStart
      BY <2>7 DEF RecoverStart, Free
    <2>8. CASE RecoverEnd \/ MonitorLeaves
      BY <2>8 DEF RecoverEnd, MonitorLeaves
    <2> QED
      BY <1>2, <2>1, <2>2, <2>3, <2>4, <2>5, <2>6, <2>7, <2>8 DEF OwnStep
  <1>3. CASE CallStep
    <2>1. CASE (~task.defer /\ AdvanceNotReady) \/ AdvanceSubmit \/ RecordLeg
               \/ (Preparable(plan.order[First].filled) /\ Follow) \/ Complete
      BY <1>1, <2>1, TaskGoes
         DEF AdvanceNotReady, AdvanceSubmit, RecordLeg, Follow, Complete, At
    <2>2. CASE plan.order[task.leg] # NoOrder /\ ~IsTerminal(plan.order[task.leg])
               /\ RefreshLeg
      BY <1>1, <2>2, TaskGoes DEF RefreshLeg, At
    <2>3. CASE \E first, second \in Quantities : Passes(first, second) /\ Start(first, second)
      BY <2>3 DEF Start, Passes
    <2>4. CASE \E k \in Keys : \E order \in Past(k) : PrivateEvent(k, order)
      <3>1. /\ Free
            /\ \/ task' = Task("noting", First, FALSE, Recovering, FALSE)
               \/ task' = Task("noted", First, FALSE, FALSE, FALSE)
        BY <2>4 DEF PrivateEvent
      <3> QED
        BY <3>1
    <2>5. CASE RecoverPending(Pool) /\ RecoverStart
      BY <2>5 DEF RecoverStart, RecoverPending
    <2> QED
      BY <1>3, <2>1, <2>2, <2>3, <2>4, <2>5 DEF CallStep
  <1>4. CASE InService \/ (ExchangeStep /\ UNCHANGED <<worker, coordinator>>)
    <2>1. task' = task
      BY <1>4 DEF InService, worker
    <2> QED
      BY <2>1
  <1> QED
    BY <1>2, <1>3, <1>4, StepCases

\* The user's confirmation stays with the task that resume has begun.
LEMMA ConfirmStep ==
    ASSUME OpenInv, ConfirmInv, [OpenNext]_openVars
    PROVE  ConfirmInv'
  <1>1. CASE ProcessRestart \/ task' \in {task, NoTask}
    BY <1>1 DEF ProcessRestart, WorkerRestart, NoTask, Task, ConfirmInv
  <1>2. CASE GoesOn
    BY <1>2 DEF GoesOn, ConfirmInv
  <1>3. CASE Begins
    BY <1>3 DEF Begins, ConfirmInv
  <1>4. CASE Resume
    BY <1>4 DEF Resume, Task, ConfirmInv
  <1>5. CASE UNCHANGED openVars
    BY <1>5 DEF openVars, worker, ConfirmInv
  <1> QED
    BY <1>1, <1>2, <1>3, <1>4, <1>5, TaskFrom

\* A call that a step ends has another answer than oserror, or a write failed.
Healthy == \/ faults' # 0
           \/ call'[Pool].phase # "done"
           \/ call'[Pool].result # "oserror"
           \/ call'[Pool] = call[Pool]

\* Every answer but oserror is healthy, and so is a write that fails.
LEMMA OverIsHealthy ==
    ASSUME TypeOK, \/ \E reply, order : reply # "oserror" /\ Over(reply, order)
                   \/ WriteFails(Pool)
    PROVE  Healthy
  <1>1. CASE \E reply, order : reply # "oserror" /\ Over(reply, order)
    BY <1>1 DEF Over, Stage, Healthy
  <1>2. CASE WriteFails(Pool)
    <2>1. faults' = faults + 1 /\ faults \in Nat
      BY <1>2 DEF WriteFails, TypeOK
    <2> QED
      BY <2>1 DEF Healthy
  <1> QED
    BY <1>1, <1>2

\* Every step keeps it.
LEMMA HealthyStep ==
    ASSUME OpenInv, HealthyInv, [OpenNext]_openVars
    PROVE  HealthyInv'
  <1>1. /\ TypeOK /\ IInv /\ TaskInv /\ PlanInv /\ NamedInv /\ PastInv
        /\ Pool \in Threads /\ call \in [Threads -> Calls] /\ faults \in Nat
    BY OnePlan DEF OpenInv, IInv, TypeOK
  <1>2. CASE Healthy /\ (faults' = 0 => faults = 0)
    BY <1>2 DEF HealthyInv, Healthy, Answer
  <1>3. CASE OwnStep \/ UNCHANGED openVars
    BY <1>1, <1>2, <1>3, OwnEffect DEF Healthy, openVars, vars
  <1>4. CASE ProcessRestart
    BY <1>1, <1>4 DEF ProcessRestart, WorkerRestart, Restart, HealthyInv, Idle, Stage
  <1>5. CASE ExchangeStep
    BY <1>5 DEF ExchangeStep, HealthyInv, Answer
  <1>6. ASSUME NEW reply, reply # "oserror", NEW order,
               \/ Persisted /\ Done(Pool, reply, order)
               \/ faults' = faults /\ Done(Pool, reply, order)
               \/ WriteFails(Pool)
        PROVE  HealthyInv'
    <2>1. Healthy
      BY <1>1, <1>6, DoneOver, OverIsHealthy
    <2>2. faults' = 0 => faults = 0
      BY <1>1, <1>6 DEF Persisted, WriteFails
    <2> QED
      BY <1>2, <2>1, <2>2
  <1>7. ASSUME NEW k \in Keys, NEW batch,
               \/ Persisted /\ Querying(Pool, k, batch)
               \/ Persisted /\ Creating(Pool, k)
               \/ faults' = faults /\ Querying(Pool, k, batch)
               \/ WriteFails(Pool)
        PROVE  HealthyInv'
    <2>1. CASE WriteFails(Pool)
      BY <1>6, <2>1
    <2>2. CASE faults' = faults /\ (Querying(Pool, k, batch) \/ Creating(Pool, k))
      BY <1>1, <2>2 DEF Querying, Creating, Stage, HealthyInv
    <2> QED
      BY <1>7, <2>1, <2>2 DEF Persisted
  <1>8. ASSUME NEW reply, reply # "oserror", NEW order, NextQuery(Pool, reply, order),
               Persisted \/ faults' = faults, call[Pool].batch \subseteq Keys
        PROVE  HealthyInv'
    BY <1>6, <1>7, <1>8 DEF NextQuery, Persisted
  <1>9. CASE InService
    <2>1. call[Pool].key \in Keys /\ call[Pool].batch \subseteq Keys
      BY <1>1, <1>9, InServiceEffect DEF TypeOK, Calls
    <2>2. CASE CreateSend(Pool) \/ QuerySend(Pool)
      BY <1>1, <2>2 DEF CreateSend, QuerySend, Stage, HealthyInv
    <2>3. CASE CreateReturned(Pool) \/ CreateUnreadable(Pool) \/ QueryMismatched(Pool)
               \/ CreateRefused(Pool)
      BY <1>6, <2>3 DEF CreateReturned, CreateUnreadable, QueryMismatched, CreateRefused
    <2>4. CASE CreateMismatched(Pool) \/ CreateUnclear(Pool)
      BY <1>7, <2>1, <2>4 DEF CreateMismatched, CreateUnclear
    <2>5. CASE QueryReturned(Pool)
      BY <1>6, <1>8, <2>1, <2>5 DEF QueryReturned
    <2>6. CASE QueryFailed(Pool)
      BY <1>8, <2>1, <2>6 DEF QueryFailed
    <2> QED
      BY <1>9, <2>2, <2>3, <2>4, <2>5, <2>6 DEF InService
  <1>10. CASE \/ \E k \in Keys : \E order : Record(Pool, k, order)
              \/ \E batch : RegisterContext(Pool, Plan, "open", batch)
              \/ CompleteContext(Pool, Plan)
              \/ SetConfirmationRequired(Pool, Plan)
    BY <1>6, <1>10
       DEF Record, RegisterContext, CompleteContext, SetConfirmationRequired
  <1>11. CASE RecordLeg \/ \E k \in Keys : \E order \in Past(k) : PrivateEvent(k, order)
    <2>1. \E k \in Keys : \E order : Record(Pool, k, order)
      BY <1>1, <1>11 DEF RecordLeg, PrivateEvent, At, TaskInv, PlanStages, LegStages
    <2> QED
      BY <1>10, <2>1
  <1>12. CASE \/ Preparable(plan.order[First].filled) /\ Follow
              \/ Complete \/ (~task.defer /\ AdvanceNotReady)
              \/ \E first, second \in Quantities : Passes(first, second) /\ Start(first, second)
    <2>1. \/ \E batch : RegisterContext(Pool, Plan, "open", batch)
          \/ CompleteContext(Pool, Plan)
          \/ SetConfirmationRequired(Pool, Plan)
      BY <1>12 DEF Follow, Complete, AdvanceNotReady, Start, Passes
    <2> QED
      BY <1>10, <2>1
  <1>13. ASSUME NEW r \in Requests, Submit(Pool, r) \/ ConfirmAndSubmit(Pool, r, Plan)
         PROVE  HealthyInv'
    <2>1. r.key \in Keys
      BY DEF Requests
    <2>2. CASE Claim(Pool, r)
      BY <1>7, <2>1, <2>2 DEF Claim
    <2>3. CASE SubmitConflict(Pool, r) \/ SubmitKnown(Pool, r) \/ SubmitDuplicate(Pool, r)
               \/ SubmitUnprepared(Pool, r) \/ ConfirmRefused(Pool, r, Plan)
      BY <1>6, <2>3 DEF SubmitConflict, SubmitKnown, SubmitDuplicate, SubmitUnprepared,
                        ConfirmRefused
    <2>4. CASE SubmitQuery(Pool, r)
      BY <1>6, <1>7, <2>1, <2>4 DEF SubmitQuery
    <2> QED
      BY <1>13, <2>2, <2>3, <2>4 DEF Submit, SubmitClaim, ConfirmAndSubmit, ConfirmClaim
  <1>14. CASE AdvanceSubmit \/ (plan.order[task.leg] # NoOrder
              /\ ~IsTerminal(plan.order[task.leg]) /\ RefreshLeg)
    <2>1. task.leg \in Keys /\ task.stage \in PlanStages \ EndStages
      BY <1>1, <1>14 DEF AdvanceSubmit, RefreshLeg, At, TaskInv, PlanStages, LegStages,
                         EndStages
    <2>2. RequestOf(task.leg) \in Requests /\ task.leg \in Keys
          /\ RequestOf(task.leg).key = task.leg
      BY <1>1, <2>1, PlanIsNamed, RequestType
    <2>3. CASE AdvanceSubmit
      BY <1>13, <2>2, <2>3 DEF AdvanceSubmit
    <2>4. CASE Refresh(Pool, RequestOf(task.leg))
      BY <1>6, <1>7, <2>2, <2>4 DEF Refresh
    <2> QED
      BY <1>14, <2>3, <2>4 DEF RefreshLeg
  <1>15. CASE RecoverPending(Pool)
    BY <1>7, <1>15 DEF RecoverPending
  <1> QED
    BY <1>3, <1>4, <1>5, <1>9, <1>11, <1>12, <1>14, <1>15, StepCases DEF CallStep

\* The flag of a plan that is not over goes only with a confirmed submission.
LEMMA FlagStays ==
    ASSUME OpenInv, OpenNext, ~ProcessRestart, contexts[Plan].confirm, ~contexts'[Plan].confirm
    PROVE  Complete \/ (AdvanceSubmit /\ task.confirm)
  <1>1. /\ TypeOK /\ IInv /\ TaskInv /\ PlanInv /\ NamedInv /\ PastInv
        /\ Plan \in Ops /\ contexts \in [Ops -> Contexts \cup {NoContext}]
    BY OnePlan DEF OpenInv, IInv, TypeOK
  <1>2. contexts' # contexts
    OBVIOUS
  <1>3. CASE OwnStep \/ RecoverPending(Pool)
    BY <1>1, <1>2, <1>3, OwnEffect DEF RecoverPending, memory
  <1>4. CASE InService \/ ExchangeStep
    BY <1>1, <1>2, <1>4, InServiceEffect DEF ExchangeStep, memory
  <1>5. CASE \/ \E k \in Keys : \E order : Record(Pool, k, order)
             \/ \E r : Refresh(Pool, r)
    BY <1>2, <1>5 DEF Record, Refresh
  <1>6. CASE \/ \E batch : RegisterContext(Pool, Plan, "open", batch)
             \/ SetConfirmationRequired(Pool, Plan)
    <2>1. \/ contexts' = contexts
          \/ \E batch : contexts' = [contexts EXCEPT ![Plan] =
                [kind |-> "open", requests |-> batch, confirm |-> contexts[Plan].confirm]]
          \/ contexts' = [contexts EXCEPT ![Plan].confirm = TRUE]
      BY <1>6 DEF RegisterContext, SetConfirmationRequired
    <2> QED
      BY <1>1, <1>2, <2>1 DEF Contexts, NoContext
  <1>7. CASE AdvanceSubmit
    BY <1>7 DEF AdvanceSubmit, MustConfirm
  <1>8. CASE RecordLeg \/ \E k \in Keys : \E order \in Past(k) : PrivateEvent(k, order)
    <2>1. \E k \in Keys : \E order : Record(Pool, k, order)
      BY <1>1, <1>8 DEF RecordLeg, PrivateEvent, At, TaskInv, PlanStages, LegStages
    <2> QED
      BY <1>5, <2>1
  <1>9. CASE \/ Preparable(plan.order[First].filled) /\ Follow
             \/ ~task.defer /\ AdvanceNotReady
             \/ \E first, second \in Quantities : Passes(first, second) /\ Start(first, second)
    <2>1. \/ \E batch : RegisterContext(Pool, Plan, "open", batch)
          \/ SetConfirmationRequired(Pool, Plan)
      BY <1>9 DEF Follow, AdvanceNotReady, Start, Passes
    <2> QED
      BY <1>6, <2>1
  <1>10. CASE plan.order[task.leg] # NoOrder /\ ~IsTerminal(plan.order[task.leg]) /\ RefreshLeg
    BY <1>5, <1>10 DEF RefreshLeg
  <1> QED
    BY <1>3, <1>4, <1>7, <1>8, <1>9, <1>10, StepCases DEF CallStep

\* A result is deferred by a step that found the flag.
LEMMA DeferredBy ==
    ASSUME OpenInv, OpenNext, ~ProcessRestart,
           HealthyInv, DeferredInv, faults = 0,
           result' # result, result' \in DeferredResults
    PROVE  contexts'[Plan].confirm
  <1>1. /\ TypeOK /\ TaskInv /\ NamedInv
    BY DEF OpenInv, IInv
  <1>2. OwnStep
    <2>1. CASE CallStep
      BY <2>1 DEF CallStep, Passes, Start, AdvanceNotReady, AdvanceSubmit, RecordLeg, Follow,
                  Complete, RefreshLeg, PrivateEvent, coordinator
    <2> QED
      BY <2>1, StepCases DEF coordinator
  <1>3. contexts' = contexts
    BY <1>1, <1>2, OwnEffect DEF memory
  <1>4. AdvanceDeferred \/ Deferring
    <2>1. \A leg : {Failed(leg), Incomplete(leg), Unknown(leg), Outcome(leg)}
                     \cap DeferredResults = {}
      BY DEF Failed, Incomplete, Unknown, Outcome, DeferredResults
    <2>2. CASE Sent \/ Recorded \/ (~Preparable(plan.order[First].filled) /\ Follow)
      BY <2>1, <2>2 DEF Sent, Recorded, Follow, Store, DeferredResults
    <2>3. CASE \E first, second \in Quantities : ~Passes(first, second) /\ Start(first, second)
      BY <2>3 DEF Start, Passes, DeferredResults
    <2> QED
      BY <1>2, <2>2, <2>3
         DEF OwnStep, AdvanceKnown, AdvanceNotReady, Registered, Completed, Noting, Resume,
             Refreshed, Restore, RefreshLeg, coordinator
  <1> QED
    BY <1>3, <1>4 DEF AdvanceDeferred, MustConfirm, Deferring, After, DeferredInv

\* A confirmed task whose flag is gone ends with a new result, while writes succeed.
LEMMA ConfirmedEnds ==
    ASSUME WaitInv, OpenNext, ~ProcessRestart, faults = 0,
           result \in DeferredResults, result' = result,
           task.confirm, ~contexts[Plan].confirm
    PROVE  task'.confirm
  <1>1. /\ TypeOK /\ TaskInv /\ NamedInv
    BY DEF WaitInv, OpenInv, IInv
  <1>2. /\ ~task.defer
        /\ task.stage \notin {"free", "noted", "noting", "querying", "refresh", "refreshing",
                              "deferring"}
    BY DEF WaitInv, ConfirmInv, DeferredInv
  <1>3. task.stage \notin {"complete", "completing"}
    BY <1>1 DEF NamedInv, PlanStages, EndStages, DeferredResults, FinalResults
  <1>4. call[Pool].phase = "done" => Answer \notin {"oserror", "keyerror"}
    BY DEF WaitInv, HealthyInv, UncertainInv, CallPends
  <1>5. \A leg : {Failed(leg), Incomplete(leg), Unknown(leg), Outcome(leg), "second_failed"}
                    \cap DeferredResults = {}
    BY DEF Failed, Incomplete, Unknown, Outcome, DeferredResults
  <1>6. CASE task' = NoTask
    <2>1. CASE OwnStep
      <3>1. CASE AdvanceKnown \/ AdvanceDeferred \/ (task.defer /\ AdvanceNotReady) \/ Registered
        BY <1>1, <1>2, <1>4, <1>6, <3>1, TaskGoes
           DEF AdvanceKnown, AdvanceDeferred, MustConfirm, Registered, After, NoTask, Task
      <3>2. CASE Sent \/ Recorded \/ (~Preparable(plan.order[First].filled) /\ Follow)
        <4>1. /\ \A stage, leg : stage # "free" => ~GoTo(stage, leg)
              /\ \A leg : ~ \E status \in {Failed(leg), Incomplete(leg), Unknown(leg),
                                          Outcome(leg), "second_failed"} : Store(status)
          <5>1. \A stage, leg : stage # "free" => ~GoTo(stage, leg)
            BY <1>1, <1>6, TaskGoes DEF NoTask, Task
          <5> QED
            BY <1>5, <5>1 DEF Store
        <4>2. CASE Sent
          BY <1>4, <4>1, <4>2 DEF Sent, After
        <4>3. CASE Recorded
          BY <1>4, <4>1, <4>3 DEF Recorded, After
        <4>4. CASE ~Preparable(plan.order[First].filled) /\ Follow
          BY <4>1, <4>4 DEF Follow
        <4> QED
          BY <3>2, <4>2, <4>3, <4>4
      <3>3. CASE Deferring \/ Completed \/ Noting \/ Resume \/ Refreshed \/ Restore \/ RefreshLeg
                 \/ RecoverStart \/ RecoverEnd
                 \/ \E first, second \in Quantities : Start(first, second)
        BY <1>2, <1>3, <3>3 DEF Deferring, Completed, Noting, Resume, Refreshed, Restore,
                                RefreshLeg, RecoverStart, RecoverEnd, Start, At, After, Free
      <3>4. CASE MonitorLeaves
        BY <1>2, <1>6, <3>4 DEF MonitorLeaves, NoTask, Task
      <3> QED
        BY <2>1, <3>1, <3>2, <3>3, <3>4 DEF OwnStep
    <2>2. CASE CallStep
      <3>1. CASE (~task.defer /\ AdvanceNotReady) \/ AdvanceSubmit \/ RecordLeg
                 \/ (Preparable(plan.order[First].filled) /\ Follow)
        BY <1>1, <1>6, <3>1, TaskGoes
           DEF AdvanceNotReady, AdvanceSubmit, RecordLeg, Follow, NoTask, Task
      <3>2. CASE \/ Complete \/ (RecoverPending(Pool) /\ RecoverStart)
                 \/ plan.order[task.leg] # NoOrder /\ ~IsTerminal(plan.order[task.leg])
                    /\ RefreshLeg
                 \/ \E first, second \in Quantities : Passes(first, second) /\ Start(first, second)
                 \/ \E k \in Keys : \E order \in Past(k) : PrivateEvent(k, order)
        BY <1>2, <1>3, <3>2 DEF Complete, RefreshLeg, RecoverStart, Start, PrivateEvent, At, Free
      <3> QED
        BY <2>2, <3>1, <3>2 DEF CallStep
    <2>3. CASE InService \/ (ExchangeStep /\ UNCHANGED <<worker, coordinator>>)
      BY <1>2, <1>6, <2>3 DEF InService, worker, NoTask, Task
    <2> QED
      BY <2>1, <2>2, <2>3, StepCases
  <1>7. CASE task' # NoTask
    BY <1>2, <1>7, TaskFrom DEF WaitInv, GoesOn, Resume, Begins, Free
  <1> QED
    BY <1>6, <1>7

\* Journal writes that have not failed yet did not fail before.
LEMMA FaultsGrow ==
    ASSUME IInv, ClaimedInv, [Next]_vars, faults' = 0
    PROVE  faults = 0
  <1>1. faults \in Nat
    BY DEF IInv, TypeOK
  <1>2. CASE \E t \in Threads : ServiceStep(t)
    BY <1>1, <1>2, ServiceWrites DEF Effect, Written, Persisted
  <1> QED
    BY <1>2 DEF Next, ExchangeStep, Restart, vars

\* Every step keeps the flag of a deferred plan, or has the user's confirmation.
LEMMA DeferredStep ==
    ASSUME WaitInv, [OpenNext]_openVars
    PROVE  DeferredInv'
  <1>1. /\ OpenInv /\ IInv /\ TypeOK /\ TaskInv /\ NamedInv /\ ConfirmInv /\ HealthyInv
        /\ Plan \in Ops /\ contexts \in [Ops -> Contexts \cup {NoContext}]
    BY OnePlan DEF WaitInv, OpenInv, IInv, TypeOK
  <1> SUFFICES ASSUME faults' = 0
               PROVE  DeferredInv'
    BY DEF DeferredInv
  <1>2. /\ faults = 0
        /\ result \in DeferredResults => contexts[Plan].confirm \/ task.confirm
        /\ result \in DeferredResults /\ task.stage \in {"refresh", "refreshing"} =>
              contexts[Plan].confirm
        /\ task.stage = "deferring" => contexts[Plan].confirm
    BY <1>1, FaultsGrow, OpenStepIsAllowed DEF WaitInv, DeferredInv
  <1>3. CASE ProcessRestart
    BY <1>3 DEF ProcessRestart, WorkerRestart, NoTask, Task, DeferredInv, DeferredResults
  <1>4. CASE UNCHANGED openVars
    BY <1>2, <1>4 DEF openVars, vars, memory, worker, coordinator, DeferredInv
  <1>5. CASE OpenNext /\ ~ProcessRestart
    <2>1. ASSUME result' # result, result' \in DeferredResults
          PROVE  contexts'[Plan].confirm
      BY <1>1, <1>2, <1>5, <2>1, DeferredBy DEF WaitInv
    <2>2. ASSUME contexts[Plan].confirm
          PROVE  contexts'[Plan].confirm \/ Complete \/ (AdvanceSubmit /\ task.confirm)
      BY <1>1, <1>5, <2>2, FlagStays
    <2>3. Complete => result \in FinalResults /\ task.stage = "complete"
      BY <1>1 DEF Complete, At, NamedInv, PlanStages, EndStages
    <2>4. AdvanceSubmit => task.stage = "advance" /\ task'.confirm = task.confirm
                           /\ task'.stage = "sent"
      BY <1>1, TaskGoes DEF AdvanceSubmit, At, Task
    <2>5. result \in DeferredResults => result \notin FinalResults
      BY DEF DeferredResults, FinalResults
    <2>6. ASSUME result' \in DeferredResults, ~contexts'[Plan].confirm
          PROVE  task'.confirm
      <3>1. result' = result
        BY <2>1, <2>6
      <3>2. CASE contexts[Plan].confirm
        BY <2>2, <2>3, <2>4, <2>5, <2>6, <3>1, <3>2
      <3>3. CASE ~contexts[Plan].confirm
        BY <1>2, <1>5, <2>6, <3>1, <3>3, ConfirmedEnds
      <3> QED
        BY <3>2, <3>3
    <2>7. ASSUME result' \in DeferredResults, task'.stage \in {"refresh", "refreshing"}
          PROVE  contexts'[Plan].confirm
      <3>1. CASE result' # result
        BY <2>1, <2>7, <3>1
      <3>2. CASE result' = result /\ (task.stage \in {"refresh", "refreshing"} \/ Resume)
        <4>1. contexts[Plan].confirm
          BY <1>1, <1>2, <2>7, <3>2 DEF Resume, Free, ConfirmInv
        <4>2. CASE contexts' = contexts
          BY <4>1, <4>2
        <4>3. CASE task.stage \in {"refresh", "refreshing"}
          BY <2>2, <2>3, <2>4, <4>1, <4>3
        <4> QED
          BY <3>2, <4>2, <4>3 DEF Resume, vars, memory
      <3>3. task.stage \in {"refresh", "refreshing"} \/ Resume
        <4>1. task' \in {task, NoTask} \/ GoesOn \/ Resume \/ Begins
          BY <1>1, <1>5, TaskFrom
        <4>2. CASE task' \in {task, NoTask}
          BY <2>7, <4>2 DEF NoTask, Task
        <4>3. CASE GoesOn \/ Begins
          BY <2>7, <4>3 DEF GoesOn, Begins
        <4> QED
          BY <4>1, <4>2, <4>3
      <3> QED
        BY <3>1, <3>2, <3>3
    <2>8. ASSUME task'.stage = "deferring"
          PROVE  contexts'[Plan].confirm
      <3>1. CASE task' = task
        BY <1>2, <2>2, <2>3, <2>4, <2>8, <3>1
      <3>2. CASE ~task.defer /\ AdvanceNotReady
        <4>1. SetConfirmationRequired(Pool, Plan) /\ task.stage = "advance"
          BY <3>2 DEF AdvanceNotReady, At
        <4>2. contexts[Plan] # NoContext
          BY <1>1, <4>1 DEF NamedInv, PlanStages, LegStages, EndStages, Named, NoContext
        <4>3. contexts' = [contexts EXCEPT ![Plan].confirm = TRUE]
          BY <4>1, <4>2 DEF SetConfirmationRequired
        <4> QED
          BY <1>1, <4>2, <4>3 DEF Contexts
      <3> QED
        BY <1>1, <1>5, <2>8, <3>1, <3>2, TaskFrom DEF GoesOn, Resume, Begins, NoTask, Task
    <2> QED
      BY <2>6, <2>7, <2>8 DEF DeferredInv
  <1> QED
    BY <1>3, <1>4, <1>5

-----------------------------------------------------------------------------
(* A deferred leg waits *)

\* What a step claims, it claims for a leg that need not wait.
LEMMA ClaimsMayGo ==
    ASSUME WaitInv, OpenNext, ~ProcessRestart, faults = 0, attempted' # attempted
    PROVE  \/ task.confirm
           \/ result \notin DeferredResults /\ ~journal.contexts[Plan].confirm
  <1>1. /\ TypeOK /\ IInv /\ OpenInv /\ PlanInv /\ TaskInv /\ PastInv /\ NamedInv
    BY DEF WaitInv, OpenInv, IInv
  <1>2. CASE AdvanceSubmit
    <2>1. ~contexts[Plan].confirm \/ task.confirm
      BY <1>2 DEF AdvanceSubmit, MustConfirm
    <2> QED
      BY <2>1 DEF WaitInv, DeferredInv, ClaimedInv
  <1>3. CASE OwnStep \/ InService \/ ExchangeStep \/ RecoverPending(Pool)
    <2>1. CASE InService
      BY <1>1, <2>1 DEF InService, CreateSend, CreateReturned, CreateMismatched,
             CreateUnreadable, CreateRefused, CreateUnclear, QuerySend, QueryReturned,
             QueryMismatched, QueryFailed, memory
    <2> QED
      BY <1>1, <1>3, <2>1, OwnEffect DEF ExchangeStep, RecoverPending, memory
  <1>4. CASE CallStep /\ ~AdvanceSubmit /\ ~RecoverPending(Pool)
    BY <1>4 DEF CallStep, AdvanceNotReady, RecordLeg, Follow, Complete, RefreshLeg, Passes,
                Start, PrivateEvent, SetConfirmationRequired, Record, RegisterContext,
                CompleteContext, Refresh
  <1> QED
    BY <1>2, <1>3, <1>4, StepCases DEF CallStep

\* Once a plan is deferred, in this process or in an earlier one, only the user's
\* resume claims an order for it: while journal writes succeed, and no private
\* event arrives for a plan that has its final result.
THEOREM DeferredWaits ==
    ASSUME LateEvents = FALSE
    PROVE  OpenSpec => DeferredWaitsForUser
  <1> DEFINE Waits == \/ restarts' # restarts
                      \/ attempted' = attempted
                      \/ result \notin DeferredResults /\ ~journal.contexts[Plan].confirm
                      \/ task.confirm
                      \/ faults > 0
  <1>1. OpenInit => WaitInv
    <2> SUFFICES ASSUME OpenInit
                 PROVE  WaitInv
      OBVIOUS
    <2>1. OpenInv /\ call[Pool] = Idle
      BY OpenStart, OnePlan DEF OpenInit, WorkerInit, Init
    <2>2. ClaimedInv
      BY DEF OpenInit, WorkerInit, Init, ClaimedInv, Idle, Stage
    <2>3. UncertainInv
      BY <2>1 DEF OpenInit, WorkerInit, Init, UncertainInv, PendingTried, CallPends, Idle,
                  Stage, Busy
    <2> QED
      BY <2>1, <2>2, <2>3 DEF WaitInv, ConfirmInv, HealthyInv, DeferredInv, DeferredResults,
                              OpenInit, WorkerInit, NoTask, Task, Idle, Stage
  <1>2. WaitInv /\ [OpenNext]_openVars => WaitInv'
    BY OpenStep, OpenStepIsAllowed, ClaimedStep, UncertainStep, ConfirmStep, HealthyStep,
       DeferredStep DEF WaitInv, OpenInv
  <1>3. WaitInv /\ [OpenNext]_openVars => [Waits]_openVars
    <2> SUFFICES ASSUME WaitInv, OpenNext, attempted' = attempted \/ attempted' # attempted
                 PROVE  Waits
      OBVIOUS
    <2>1. faults \in Nat /\ restarts \in Nat
      BY DEF WaitInv, OpenInv, IInv, TypeOK
    <2>2. CASE ProcessRestart
      BY <2>1, <2>2 DEF ProcessRestart, WorkerRestart, Restart
    <2> QED
      BY <2>1, <2>2, ClaimsMayGo
  <1> HIDE DEF Waits
  <1>4. OpenSpec => [][Waits]_openVars
    BY <1>1, <1>2, <1>3, PTL DEF OpenSpec
  <1> QED
    BY <1>4 DEF DeferredWaitsForUser, Waits
=============================================================================
