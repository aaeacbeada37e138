------------------------------ MODULE OrderEntry ------------------------------
(***************************************************************************)
(* OrderEntryPresenter (app/ui/presenters/order_entry_presenter.py) on top *)
(* of the worker: a plan is selected, prepared and confirmed; the results  *)
(* come back as queued signals and decide what the two buttons do next.    *)
(* The presenter remembers one uncertain and one deferred plan.            *)
(***************************************************************************)
EXTENDS RecoveryMonitor

CONSTANT MaxClicks  \* bound: clicks that give the pool a task

ASSUME EntryAssumption == MaxClicks \in Nat

VARIABLES
    offered,    \* by plan: "absent" from the opportunity table, "fresh" or "expired"
    selected,   \* _selected
    armed,      \* _armed
    unknownId, deferredId,  \* _unknown_position_id, _deferred_position_id
    liveButton, confirmButton,  \* whether they are enabled
    clicks,
    \* History, for the properties:
    prepared,   \* the plan whose preparation confirmButton confirms
    displaced,  \* plans whose place was taken by another plan's result
    overtaken,  \* plans whose last result shown is the monitor's, and is not the latest
    together    \* a plan was submitted while another was about to start

slotVars == <<unknownId, deferredId>>
viewVars == <<selected, armed, slotVars, liveButton, confirmButton>>
historyVars == <<prepared, displaced, overtaken, together>>
entryVars == <<workerVars, offered, viewVars, clicks, historyVars>>

CanExecute(o) == streamsUp /\ offered[o] = "fresh"

\* Mutant: pending requests alone are looked at.
RecoveryOfRequests == ~uncertain

\* _require_recovery_complete
RecoveryComplete == ~uncertain /\ Unfinished = {}

Starting == \E i \in DOMAIN tasks : tasks[i].do = "start"

-----------------------------------------------------------------------------
(* select, _arm and _submit                                                *)

\* Mutant: _armed is not reset, and the button that confirms stays enabled.
KeepArmed(o, occupied) ==
    /\ selected' = o /\ UNCHANGED <<armed, confirmButton>>
    /\ liveButton' = (occupied \/ CanExecute(o))

Offer(o, occupied) ==
    /\ selected' = o /\ armed' = FALSE /\ confirmButton' = FALSE
    /\ liveButton' = (occupied \/ CanExecute(o))

Select ==
    /\ \E o \in Operations :
           offered[o] # "absent" /\ Offer(o, unknownId # "none" \/ deferredId # "none")
    /\ UNCHANGED <<workerVars, offered, slotVars, clicks, historyVars>>

Click == clicks < MaxClicks /\ clicks' = clicks + 1

\* Nothing is prepared: the original order is queried.
ArmQuery ==
    /\ liveButton /\ unknownId # "none" /\ Click
    /\ Submit(Job("resume", unknownId, FALSE))
    /\ liveButton' = FALSE
    /\ UNCHANGED <<planVars, streamsUp, monitorVars, completion, ending, signals, spent,
                   offered, selected, armed, slotVars, confirmButton, historyVars>>

ArmDeferred ==
    /\ liveButton /\ unknownId = "none" /\ deferredId # "none"
    /\ armed' = TRUE /\ liveButton' = FALSE /\ confirmButton' = TRUE
    /\ prepared' = deferredId
    /\ UNCHANGED <<workerVars, offered, selected, slotVars, clicks, displaced, overtaken,
                   together>>

ArmSelected ==
    /\ liveButton /\ unknownId = "none" /\ deferredId = "none" /\ selected # "none"
    /\ IF CanExecute(selected)
       THEN armed' = TRUE /\ confirmButton' = TRUE /\ prepared' = selected
            /\ UNCHANGED liveButton
       ELSE liveButton' = FALSE /\ UNCHANGED <<armed, confirmButton, prepared>>
    /\ UNCHANGED <<workerVars, offered, selected, slotVars, clicks, displaced, overtaken,
                   together>>

\* submit_open refuses with a RuntimeError, which is shown and no more.
Confirm ==
    /\ confirmButton /\ armed /\ Click
    /\ armed' = FALSE /\ liveButton' = FALSE /\ confirmButton' = FALSE
    /\ prepared' = "none"
    /\ IF deferredId # "none"
       THEN Submit(Job("resume", deferredId, FALSE)) /\ UNCHANGED together
       ELSE IF selected # "none" /\ CanExecute(selected) /\ RecoveryComplete
       THEN /\ Submit(Job("start", selected, FALSE))
            /\ together' = (together \/ Starting \/ running.do = "start")
       ELSE UNCHANGED <<queueVars, together>>
    /\ UNCHANGED <<planVars, streamsUp, monitorVars, completion, ending, signals, spent,
                   offered, selected, slotVars, displaced, overtaken>>

PlanExpires == /\ Spend("events", MaxEvents)
          /\ \E o \in Operations :
                 offered[o] = "fresh" /\ offered' = [offered EXCEPT ![o] = "expired"]
          /\ UNCHANGED <<planVars, streamsUp, queueVars, monitorVars, completion, ending,
                         signals, viewVars, clicks, historyVars>>

-----------------------------------------------------------------------------
(* _completed, a slot of the thread of the user interface                  *)

Displace(o) == displaced' = (displaced \cup ({unknownId, deferredId} \ {"none"})) \ {o}

ShowRecovery == liveButton' = TRUE /\ confirmButton' = FALSE /\ UNCHANGED <<selected, armed>>

ShowDeferred(o) == /\ unknownId' = "none" /\ deferredId' = o
                   /\ ShowRecovery /\ UNCHANGED prepared

ShowUnknown(o) == /\ unknownId' = o /\ deferredId' = "none"
                  /\ ShowRecovery /\ UNCHANGED prepared

\* Mutant: the plan stays in its place.
StillShown(o) == UNCHANGED slotVars

Forget(o) == unknownId' = "none" /\ deferredId' = "none"

ShowCompleted(o) ==
    /\ Forget(o)
    /\ IF selected # "none" THEN Offer(selected, FALSE)
       ELSE UNCHANGED <<selected, armed, liveButton, confirmButton>>
    /\ UNCHANGED prepared

\* A deferred plan that was prepared is forgotten, and armed stays.
ShowFailed(o) ==
    /\ Forget(o)
    /\ UNCHANGED <<selected, armed, liveButton, confirmButton>>
    /\ UNCHANGED prepared

Completed ==
    /\ signals # <<>>
    /\ LET signal == Head(signals) IN
       /\ \/ signal.status = "completed" /\ ShowCompleted(signal.op)
          \/ signal.status = "unknown" /\ ShowUnknown(signal.op)
          \/ signal.status = "deferred" /\ ShowDeferred(signal.op)
          \/ signal.status = "failed" /\ ShowFailed(signal.op)
       /\ Displace(signal.op)
       /\ overtaken' = IF signal.by = "monitor" /\ signal.status # results[signal.op]
                       THEN overtaken \cup {signal.op} ELSE overtaken \ {signal.op}
    /\ signals' = Tail(signals)
    /\ UNCHANGED <<planVars, streamsUp, queueVars, monitorVars, completion, ending, spent,
                   offered, clicks, together>>

-----------------------------------------------------------------------------
(* The user interface and the worker                                       *)

EntryInit ==
    /\ WorkerInit
    /\ offered = [o \in Operations |-> IF o \in Unfinished THEN "absent" ELSE "fresh"]
    /\ selected = "none" /\ armed = FALSE /\ unknownId = "none" /\ deferredId = "none"
    /\ liveButton = FALSE /\ confirmButton = FALSE
    /\ clicks = 0 /\ prepared = "none" /\ displaced = {} /\ overtaken = {} /\ together = FALSE

WorkerStep == PoolTask \/ MonitorStep \/ ShutdownStep

\* What runs on the thread of the user interface ends with shutdown.
UserStep == ~IsShutdown /\ watched /\ (Select \/ ArmQuery \/ ArmDeferred \/ ArmSelected \/ Confirm)

Surroundings == ~IsShutdown /\ (Flag \/ PrivateEvent \/ StreamsChange)

WorkerOnly(step) == step /\ UNCHANGED <<offered, viewVars, clicks, historyVars>>

EntryNext ==
    \/ WorkerOnly(WorkerStep)
    \/ WorkerOnly(Surroundings)
    \/ UserStep
    \/ ~IsShutdown /\ Completed
    \/ ~IsShutdown /\ PlanExpires

\* The threads go on; nobody need act, and the streams need not come back.
EntryFairness == /\ WF_entryVars(WorkerOnly(PoolTask))
                 /\ WF_entryVars(WorkerOnly(MonitorStep))
                 /\ WF_entryVars(WorkerOnly(ShutdownStep))

EntrySpec == EntryInit /\ [][EntryNext]_entryVars /\ EntryFairness

-----------------------------------------------------------------------------
(* Properties                                                              *)

AtRest == /\ watched /\ tasks = <<>> /\ running = NoJob /\ signals = <<>> /\ ~IsShutdown
          /\ monitor \in {"none", "ended"} /\ completion # "running"

\* When nothing is under way, a plan that is unfinished is one the user can go on
\* with, by the button that queries or the button that resumes it; unless
\* another plan's result has taken its place, or an exception has ended what
\* was done for it.  And the plan a button acts on is unfinished, and waits to
\* be confirmed if the button resumes; unless the monitor showed the result it
\* had after the pool had shown a later one.
UnfinishedIsReachable ==
    AtRest =>
        /\ completion \notin {"none", "error"} /\ spent.errors = 0
              => Unfinished \subseteq {unknownId, deferredId} \cup displaced
        /\ unknownId \in {"none"} \cup Unfinished \cup overtaken
        /\ deferredId \in {"none"} \cup overtaken
               \cup {o \in Operations : journalled[o] = "confirm"}

\* What the second click sends is the plan the first click prepared; unless
\* that was a deferred plan which failed, or whose place was taken, between
\* the clicks.
OpensWhatWasPrepared ==
    [][armed /\ ~armed' /\ tasks' # tasks =>
          \/ Last(tasks').op = prepared
          \/ prepared \in displaced \/ results[prepared] = "failed"]_entryVars

\* No plan is started beside one that is unfinished; unless it was confirmed
\* while the other was still to start.
StartsAlone ==
    running.do = "start" /\ results[running.op] = "none" /\ ~together
        => Unfinished \subseteq {running.op}
=============================================================================
