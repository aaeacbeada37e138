---------------------------- MODULE OrderEntryProofs ----------------------------
(***************************************************************************)
(* Proofs about OrderEntry and the RecoveryMonitor below it: what the      *)
(* recovery restores, what the user can still reach, what a click sends    *)
(* and that shutdown leaves nothing behind, for any number of plans,       *)
(* clicks, events, restarts of the streams and exceptions.                 *)
(***************************************************************************)
EXTENDS OrderEntry, SequenceTheorems, TLAPS

Plan == Operations \cup {"none"}
Jobs == [do : {"query", "launch", "restore", "event", "start", "resume"},
         op : Plan, swallow : BOOLEAN]
Shown == [op : Operations, status : Statuses, by : {"pool", "monitor"}]

WorkerTypes ==
    /\ journalled \in [Operations -> {"no", "plain", "confirm"}]
    /\ results \in [Operations -> Statuses \cup {"none"}]
    /\ restored \subseteq Operations
    /\ tasks \in Seq(Jobs) /\ running \in Jobs \cup {NoJob}
    /\ monitor \in {"none", "scan", "mark", "next", "wait", "emit", "ended"}
    /\ target \in Plan
    /\ answer \in Statuses \cup {"none", "not_ready", "error", "canceled"}
    /\ remaining \subseteq Operations /\ waiting \subseteq Operations
    /\ recovering \subseteq Operations
    /\ completion \in {"none", "running", "result", "error", "canceled"}
    /\ ending \in {"no", "flagged", "pool", "join", "done"}
    /\ signals \in Seq(Shown)
    /\ spent \in [events : Nat, errors : Nat]

ViewTypes ==
    /\ offered \in [Operations -> {"absent", "fresh", "expired"}]
    /\ selected \in Plan /\ unknownId \in Plan /\ deferredId \in Plan /\ prepared \in Plan
    /\ displaced \subseteq Operations /\ overtaken \subseteq Operations
    /\ clicks \in Nat

\* What the coordinator has answered for a plan and what the journal says of it
ResultsAgree == \A o \in Operations :
    /\ results[o] \in Final => journalled[o] = "no"
    /\ results[o] = "unknown" => journalled[o] = "plain"
    /\ results[o] = "deferred" => journalled[o] = "confirm"

\* A plan that was ever in the journal or answered stays known; only such a plan
\* is restored, resumed, has events or is shown.
Known == {o \in Operations : journalled[o] # "no" \/ results[o] # "none"}
Follows(job) == job.do \in {"restore", "event", "resume"} => job.op \in Known

OnlyKnown ==
    /\ restored \subseteq Known /\ remaining \subseteq Known /\ waiting \subseteq Known
    /\ {target, unknownId, deferredId} \subseteq Known \cup {"none"}
    /\ \A i \in DOMAIN tasks : Follows(tasks[i])
    /\ Follows(running)
    /\ \A i \in DOMAIN tasks : tasks[i].do = "start" => tasks[i].op \in Operations
    /\ running.do = "start" => running.op \in Operations
    /\ \A i \in DOMAIN signals : signals[i].op \in Known

\* A result that is final is final wherever it is on its way.
FinalStays ==
    /\ \A i \in DOMAIN signals :
          signals[i].status \in Final => results[signals[i].op] = signals[i].status
    /\ monitor \in {"wait", "emit"} /\ answer \in Final => results[target] = answer

\* The query is the first task of all, and there is one; until it ends nobody
\* but it has been told anything of the recovery.
QueryFirst ==
    /\ \A i \in DOMAIN tasks : /\ tasks[i].do = "query" => i = 1 /\ running = NoJob
                               /\ tasks[i].do # "launch"
    /\ (\E i \in DOMAIN tasks : tasks[i].do = "query") \/ running.do \in {"query", "launch"}
          => monitor = "none" /\ completion = "running"
    /\ completion = "running" =>
          \/ \E i \in DOMAIN tasks : tasks[i].do = "query"
          \/ running.do \in {"query", "launch"}
          \/ monitor \notin {"none", "ended"}
    /\ monitor \notin {"none", "ended"} => completion = "running"
    /\ completion = "result" => monitor = "ended"
    /\ completion = "canceled" => IsShutdown

\* The monitor waits for one task at a time.
OneRestore ==
    /\ \A i \in DOMAIN tasks : tasks[i].do = "restore" =>
          /\ monitor = "wait" /\ tasks[i].op = target /\ answer = "none"
          /\ running.do # "restore"
          /\ \A j \in DOMAIN tasks : tasks[j].do = "restore" => j = i
    /\ running.do = "restore" => monitor = "wait" /\ running.op = target /\ answer = "none"
    /\ monitor \in {"wait", "emit"} => target \in Operations
    /\ monitor = "emit" => answer \in Statuses
    /\ answer = "error" => spent.errors > 0
    /\ answer = "canceled" => IsShutdown

\* What is left to do for the plans of the journal is in the monitor's lists.
Unanswered(answers) == IF monitor = "wait" /\ answer \notin answers THEN {target} ELSE {}

RecoveryInv ==
    /\ monitor \in {"none", "scan"} => remaining = {}
    /\ monitor \in {"none", "scan", "mark"} => recovering = {} /\ waiting = {}
    /\ monitor \in {"next", "wait", "emit"} =>
          recovering \subseteq remaining \cup waiting \cup Unanswered({})
    /\ monitor \in {"mark", "next", "wait", "emit"} =>
          Unfinished \subseteq restored \cup remaining
                               \cup Unanswered(Statuses \cup {"not_ready"})
    /\ monitor \in {"mark", "next", "wait", "emit"} /\ spent.errors = 0 =>
          {o \in Unfinished : results[o] = "none"} \subseteq
              remaining \cup waiting \cup Unanswered(Statuses)
    /\ completion = "result" /\ ~IsShutdown =>
          /\ recovering = {} /\ Unfinished \subseteq restored
          /\ spent.errors = 0 => \A o \in Unfinished : results[o] # "none"

\* Of plans that were never confirmed together one is still to start, and then no
\* plan is unfinished.
OneStarts ==
    ~together =>
        /\ \A i \in DOMAIN tasks : tasks[i].do = "start" =>
              /\ Unfinished = {} /\ running.do # "start"
              /\ \A j \in DOMAIN tasks : tasks[j].do = "start" => j = i
        /\ running.do = "start" => Unfinished = {}

\* What the button that confirms would send
Excused == prepared \in displaced \/ results[prepared] = "failed"

PreparedInv ==
    armed /\ confirmButton =>
        /\ prepared \in Operations
        /\ deferredId # "none" => prepared = deferredId
        /\ deferredId = "none" /\ selected # "none" => prepared = selected \/ Excused

\* The result the monitor is about to show
Announced(o) == target = o /\ (monitor = "emit" \/ (monitor = "wait" /\ answer \in Statuses))
LastOf(i, o) == signals[i].op = o /\ \A j \in DOMAIN signals : j > i => signals[j].op # o

\* What is shown of a plan once its signals are taken is what it is, unless the
\* monitor is late.
ShownInv ==
    watched /\ ~IsShutdown => \A o \in Operations : ~Announced(o) =>
        /\ \A i \in DOMAIN signals : LastOf(i, o) /\ signals[i].by = "pool"
               => signals[i].status = results[o]
        /\ (\A i \in DOMAIN signals : signals[i].op # o) =>
              /\ unknownId = o => results[o] = "unknown" \/ o \in overtaken
              /\ deferredId = o => results[o] = "deferred" \/ o \in overtaken
              /\ results[o] \in {"unknown", "deferred"}
                    => o \in {unknownId, deferredId} \cup displaced

\* shutdown waits for the pool, then for the monitor.
EndingInv ==
    /\ ending \in {"pool", "join", "done"} => tasks = <<>>
    /\ ending \in {"join", "done"} => running = NoJob
    /\ ending = "done" => monitor \in {"none", "ended"}

EntryInv == /\ WorkerTypes /\ ViewTypes /\ ResultsAgree /\ OnlyKnown /\ FinalStays
            /\ QueryFirst /\ OneRestore /\ RecoveryInv /\ OneStarts /\ PreparedInv
            /\ ShownInv /\ EndingInv

-----------------------------------------------------------------------------
(* Steps.  What the user sees is left alone by what the worker does.       *)

Unseen == UNCHANGED <<offered, viewVars, clicks, historyVars>>
TaskEnds == RestoreEnds \/ EventEnds \/ StartEnds \/ ResumeEnds

\* Each step is one of these; those of the worker leave what only the view and the
\* history keep.
LEMMA StepCases ==
    ASSUME EntryNext
    PROVE  \/ Unseen /\ TaskEnds
           \/ Unseen /\ (TaskBegins \/ QueryEnds \/ Launch)
           \/ Unseen /\ MonitorStep
           \/ Unseen /\ (ShutdownStep \/ Flag \/ PrivateEvent \/ StreamsChange)
           \/ Select \/ ArmQuery \/ ArmDeferred \/ ArmSelected \/ Confirm
           \/ Completed \/ PlanExpires
  BY DEF EntryNext, WorkerOnly, WorkerStep, PoolTask, TaskEnds, UserStep, Surroundings, Unseen

\* What a queue is after a job has been added, and after one has been taken
LEMMA JobAdded ==
    ASSUME tasks \in Seq(Jobs), NEW job \in Jobs, tasks' = Append(tasks, job)
    PROVE  /\ tasks' \in Seq(Jobs)
           /\ Len(tasks) + 1 \in DOMAIN tasks' /\ tasks'[Len(tasks) + 1] = job
           /\ \A i \in DOMAIN tasks' : i # Len(tasks) + 1 =>
                 i \in DOMAIN tasks /\ tasks'[i] = tasks[i]
           /\ \A i \in DOMAIN tasks : i \in DOMAIN tasks' /\ tasks'[i] = tasks[i]
           /\ \A i \in DOMAIN tasks : i # Len(tasks) + 1
           /\ Last(tasks') = job
  <1>1. Len(tasks) \in Nat /\ DOMAIN tasks = 1..Len(tasks) /\ DOMAIN tasks' = 1..Len(tasks) + 1
        /\ tasks' \in Seq(Jobs) /\ Len(tasks') = Len(tasks) + 1
    OBVIOUS
  <1>2. tasks'[Len(tasks) + 1] = job /\ \A i \in 1..Len(tasks) : tasks'[i] = tasks[i]
    OBVIOUS
  <1> QED
    BY <1>1, <1>2 DEF Last

\* A task leaves the head of the queue.
LEMMA JobTaken ==
    ASSUME tasks \in Seq(Jobs), tasks # <<>>, tasks' = Tail(tasks)
    PROVE  /\ tasks' \in Seq(Jobs) /\ Head(tasks) \in Jobs
           /\ 1 \in DOMAIN tasks /\ Head(tasks) = tasks[1]
           /\ \A i \in DOMAIN tasks' : /\ i + 1 \in DOMAIN tasks /\ i + 1 # 1
                                       /\ tasks'[i] = tasks[i + 1]
           /\ \A i, j \in DOMAIN tasks' : i + 1 = j + 1 => i = j
  BY HeadTailProperties

\* A task that is not swallowed is a task.
LEMMA JobTypes ==
    ASSUME NEW o \in Operations, NEW do \in {"restore", "event", "start", "resume"}
    PROVE  Job(do, o, FALSE) \in Jobs
  BY DEF Job, Jobs, Plan

\* The same of the signals
LEMMA SignalAdded ==
    ASSUME signals \in Seq(Shown), NEW signal \in Shown, signals' = Append(signals, signal)
    PROVE  /\ signals' \in Seq(Shown)
           /\ Len(signals) + 1 \in DOMAIN signals' /\ signals'[Len(signals) + 1] = signal
           /\ \A i \in DOMAIN signals' : i # Len(signals) + 1 =>
                 i \in DOMAIN signals /\ signals'[i] = signals[i]
           /\ \A i \in DOMAIN signals :
                 /\ i \in DOMAIN signals' /\ signals'[i] = signals[i]
                 /\ Len(signals) + 1 > i
  <1>1. /\ Len(signals) \in Nat /\ DOMAIN signals = 1..Len(signals)
        /\ DOMAIN signals' = 1..Len(signals) + 1 /\ signals' \in Seq(Shown)
    OBVIOUS
  <1>2. /\ signals'[Len(signals) + 1] = signal
        /\ \A i \in 1..Len(signals) : signals'[i] = signals[i]
    OBVIOUS
  <1> QED
    BY <1>1, <1>2

\* A signal leaves the head of the queue.
LEMMA SignalTaken ==
    ASSUME signals \in Seq(Shown), signals # <<>>, signals' = Tail(signals)
    PROVE  /\ signals' \in Seq(Shown) /\ Head(signals) \in Shown
           /\ 1 \in DOMAIN signals /\ Head(signals) = signals[1]
           /\ \A i \in DOMAIN signals' : /\ i \in Nat /\ i + 1 \in DOMAIN signals /\ i + 1 > 1
                                         /\ signals'[i] = signals[i + 1]
           /\ \A i \in DOMAIN signals : i \in Nat /\ (i # 1 => i - 1 \in DOMAIN signals')
  BY HeadTailProperties

-----------------------------------------------------------------------------
(* What a task does to its plan.                                           *)

Changes(o) ==
    /\ \A p \in Operations \ {o} : results'[p] = results[p] /\ journalled'[p] = journalled[p]
    /\ results[o] \in Final => results'[o] = results[o] /\ journalled'[o] = journalled[o]
    /\ journalled'[o] # "no" \/ results'[o] # "none" \/ o \notin Known
    /\ restored \subseteq restored' /\ restored' \subseteq restored \cup {o}
    /\ o \in restored' \ restored => journalled'[o] # "no" \/ results'[o] # "none"

Writes(o) ==
    /\ Changes(o)
    /\ journalled' \in [Operations -> {"no", "plain", "confirm"}]
    /\ results' \in [Operations -> Statuses \cup {"none"}]
    /\ ResultsAgree'

\* What the worker is told of it: a result with its signal, or nothing new
Tells(o) ==
    \/ /\ results' = results /\ signals' = signals
       /\ journalled'[o] # "no" => journalled[o] # "no" \/ o \in restored'
       /\ journalled' = journalled \/ spent'.errors > 0
    \/ /\ results'[o] \in Statuses /\ o \in restored'
       /\ signals' = IF IsShutdown \/ ~watched THEN signals
                     ELSE Append(signals, Signal(o, results'[o], "pool"))
    \/ /\ UNCHANGED <<results, journalled>> /\ results[o] \in Statuses
       /\ signals' = IF IsShutdown \/ ~watched THEN signals
                     ELSE Append(signals, Signal(o, results[o], "pool"))

\* To advance an operation writes the status it is given, and nothing of another.
LEMMA AdvancedWrites ==
    ASSUME WorkerTypes, ResultsAgree, NEW o \in Operations, NEW status \in Statuses,
           results[o] \in Final => status = results[o], Advanced(o, status)
    PROVE  Writes(o) /\ results'[o] = status /\ o \in restored'
  <1> USE DEF WorkerTypes, Advanced, Statuses, Final
  <1>1. /\ results' \in [Operations -> Statuses \cup {"none"}] /\ results'[o] = status
        /\ \A p \in Operations \ {o} : results'[p] = results[p]
    OBVIOUS
  <1>2. /\ journalled' \in [Operations -> {"no", "plain", "confirm"}]
        /\ \A p \in Operations \ {o} : journalled'[p] = journalled[p]
        /\ status \in Final => journalled'[o] = "no"
        /\ status = "deferred" => journalled'[o] = "confirm"
        /\ status = "unknown" => journalled'[o] = "plain"
    OBVIOUS
  <1>3. ResultsAgree'
    BY <1>1, <1>2 DEF ResultsAgree
  <1>4. results[o] \in Final => journalled[o] = "no"
    BY DEF ResultsAgree
  <1>5. restored \subseteq restored' /\ restored' \subseteq restored \cup {o} /\ o \in restored'
    OBVIOUS
  <1> QED
    BY <1>1, <1>2, <1>3, <1>4, <1>5 DEF Writes, Changes

\* A final result stays what it is, and no final plan is deferred.
LEMMA OutcomeStatuses ==
    ASSUME WorkerTypes, NEW o \in Operations, NEW confirmed \in BOOLEAN
    PROVE  /\ \A status \in Outcomes(o, confirmed) :
                 status \in Statuses /\ (results[o] \in Final => status = results[o])
           /\ Deferrable(o, confirmed) => results[o] \notin Final /\ "deferred" \in Statuses
  BY DEF WorkerTypes, Outcomes, Deferrable, Statuses, Final

\* The answer about an operation writes its result and tells of it.
LEMMA AnsweredEffect ==
    ASSUME WorkerTypes, ResultsAgree, NEW o \in Operations, NEW confirmed \in BOOLEAN,
           Answered(o, confirmed)
    PROVE  Writes(o) /\ Tells(o) /\ spent' = spent
  <1>1. PICK status \in Outcomes(o, confirmed) \cup
               (IF Deferrable(o, confirmed) /\ ~running.swallow THEN {"deferred"} ELSE {}) :
          Advanced(o, status) /\ Emit(o, status, "pool") /\ UNCHANGED spent
    BY DEF Answered
  <1>2. status \in Statuses /\ (results[o] \in Final => status = results[o])
    BY OutcomeStatuses
  <1>3. Writes(o) /\ results'[o] = status /\ o \in restored'
    BY <1>1, <1>2, AdvancedWrites
  <1>4. Tells(o)
    BY <1>1, <1>2, <1>3 DEF Tells, Emit
  <1> QED
    BY <1>1, <1>3, <1>4

\* An exception: nothing is answered.
LEMMA RaisesEffect ==
    ASSUME WorkerTypes, Raises
    PROVE  spent' \in [events : Nat, errors : Nat] /\ spent'.errors > 0
  BY DEF WorkerTypes, Raises, Spend

\* What leaves journal and results alone writes nothing of another operation.
LEMMA KeptWrites ==
    ASSUME WorkerTypes, ResultsAgree, NEW o \in Operations,
           UNCHANGED <<journalled, results>>,
           restored' \in {restored, restored \cup {o}},
           o \in Known \/ restored' = restored
    PROVE  Writes(o)
  BY DEF WorkerTypes, Writes, Changes, Known, ResultsAgree

Restores(o) ==
    \/ answer' = results'[o] /\ results'[o] \in Statuses /\ o \in restored'
    \/ answer' = "not_ready" /\ UNCHANGED <<results, journalled>> /\ o \in restored'
    \/ answer' = "error" /\ UNCHANGED <<results, journalled>> /\ spent'.errors > 0

TaskEffect(o) ==
    /\ running.op = o /\ running.do \in {"restore", "event", "start", "resume"}
    /\ running' = NoJob
    /\ UNCHANGED <<tasks, uncertain, watched, streamsUp, monitor, target, remaining, waiting,
                   recovering, completion, ending>>
    /\ Writes(o)
    /\ spent' \in [events : Nat, errors : Nat]
    /\ spent.errors > 0 => spent'.errors > 0
    /\ running.do = "restore" => Restores(o) /\ signals' = signals
    /\ running.do # "restore" => Tells(o) /\ answer' = answer

\* The end of a restore writes, and tells of, its own operation only.
LEMMA RestoreEffect ==
    ASSUME WorkerTypes, ResultsAgree, OnlyKnown, NEW o \in Operations, running.op = o,
           RestoreEnds
    PROVE  TaskEffect(o)
  <1> USE DEF RestoreEnds, TaskDone
  <1>0. UNCHANGED <<tasks, uncertain, watched, streamsUp, monitor, target, remaining, waiting,
                    recovering, completion, ending, signals>>
        /\ running' = NoJob /\ running.do = "restore" /\ o \in Known
    BY DEF OnlyKnown, Follows
  <1> SUFFICES /\ Writes(o) /\ Restores(o)
               /\ spent' \in [events : Nat, errors : Nat]
               /\ spent.errors > 0 => spent'.errors > 0
    BY <1>0 DEF TaskEffect
  <1>1. CASE /\ \E status \in Outcomes(o, FALSE) : Advanced(o, status)
             /\ answer' = results'[o] /\ UNCHANGED spent
    <2>1. PICK status \in Outcomes(o, FALSE) : Advanced(o, status)
      BY <1>1
    <2>2. status \in Statuses /\ (results[o] \in Final => status = results[o])
      BY OutcomeStatuses
    <2>3. Writes(o) /\ results'[o] = status /\ o \in restored'
      BY <2>1, <2>2, AdvancedWrites
    <2> QED
      BY <1>1, <2>2, <2>3 DEF Restores, WorkerTypes
  <1>2. CASE /\ answer' = "not_ready" /\ restored' = restored \cup {o}
             /\ UNCHANGED <<journalled, results, spent>>
    BY <1>0, <1>2, KeptWrites DEF Restores, WorkerTypes
  <1>3. CASE /\ Raises /\ answer' = "error" /\ restored' \in {restored, restored \cup {o}}
             /\ UNCHANGED <<journalled, results>>
    BY <1>0, <1>3, KeptWrites, RaisesEffect DEF Restores
  <1> QED
    BY <1>1, <1>2, <1>3

\* So does the end of an event.
LEMMA EventEffect ==
    ASSUME WorkerTypes, ResultsAgree, NEW o \in Operations, running.op = o, EventEnds
    PROVE  TaskEffect(o)
  <1> USE DEF EventEnds, TaskDone, monitorVars
  <1>0. UNCHANGED <<tasks, uncertain, watched, streamsUp, monitor, target, answer, remaining,
                    waiting, recovering, completion, ending>>
        /\ running' = NoJob /\ running.do = "event"
    OBVIOUS
  <1> SUFFICES /\ Writes(o) /\ Tells(o)
               /\ spent' \in [events : Nat, errors : Nat]
               /\ spent.errors > 0 => spent'.errors > 0
    BY <1>0 DEF TaskEffect
  <1>1. CASE UNCHANGED <<journalled, results, restored, signals, spent>>
    BY <1>1, KeptWrites DEF Tells, WorkerTypes
  <1>2. CASE Answered(o, FALSE)
    BY <1>2, AnsweredEffect DEF WorkerTypes
  <1>3. CASE Raises /\ UNCHANGED <<journalled, results, restored, signals>>
    BY <1>3, KeptWrites, RaisesEffect DEF Tells
  <1> QED
    BY <1>1, <1>2, <1>3

\* So does the end of a resume.
LEMMA ResumeEffect ==
    ASSUME WorkerTypes, ResultsAgree, NEW o \in Operations, running.op = o, ResumeEnds
    PROVE  TaskEffect(o)
  <1> USE DEF ResumeEnds, TaskDone, monitorVars
  <1>0. UNCHANGED <<tasks, uncertain, watched, streamsUp, monitor, target, answer, remaining,
                    waiting, recovering, completion, ending>>
        /\ running' = NoJob /\ running.do = "resume"
    OBVIOUS
  <1> SUFFICES /\ Writes(o) /\ Tells(o)
               /\ spent' \in [events : Nat, errors : Nat]
               /\ spent.errors > 0 => spent'.errors > 0
    BY <1>0 DEF TaskEffect
  <1>2. CASE Answered(o, TRUE)
    BY <1>2, AnsweredEffect DEF WorkerTypes
  <1>3. CASE Raises /\ UNCHANGED <<journalled, results, restored, signals>>
    BY <1>3, KeptWrites, RaisesEffect DEF Tells
  <1> QED
    BY <1>2, <1>3

\* So does the end of a start.
LEMMA StartEffect ==
    ASSUME WorkerTypes, ResultsAgree, NEW o \in Operations, running.op = o, StartEnds
    PROVE  TaskEffect(o)
  <1> USE DEF StartEnds, TaskDone, monitorVars
  <1>0. UNCHANGED <<tasks, uncertain, watched, streamsUp, monitor, target, answer, remaining,
                    waiting, recovering, completion, ending>>
        /\ running' = NoJob /\ running.do = "start"
    OBVIOUS
  <1> SUFFICES /\ Writes(o) /\ Tells(o)
               /\ spent' \in [events : Nat, errors : Nat]
               /\ spent.errors > 0 => spent'.errors > 0
    BY <1>0 DEF TaskEffect
  <1>1. CASE /\ results[o] # "none" /\ Emit(o, results[o], "pool")
             /\ UNCHANGED <<journalled, results, restored, spent>>
    <2>1. results[o] \in Statuses
      BY <1>1 DEF WorkerTypes
    <2> QED
      BY <1>1, <2>1, KeptWrites DEF Tells, Emit, WorkerTypes
  <1>2. CASE Answered(o, FALSE)
    BY <1>2, AnsweredEffect DEF WorkerTypes
  <1>3. CASE /\ results[o] = "none" /\ Raises /\ restored' = restored \cup {o}
             /\ journalled' = [journalled EXCEPT ![o] = "plain"]
             /\ UNCHANGED <<results, signals>>
    <2>1. /\ journalled' \in [Operations -> {"no", "plain", "confirm"}]
          /\ \A p \in Operations \ {o} : journalled'[p] = journalled[p]
          /\ journalled'[o] = "plain" /\ results' = results
      BY <1>3 DEF WorkerTypes
    <2>2. results[o] \notin Final /\ results[o] \notin {"unknown", "deferred"}
      BY <1>3 DEF Final
    <2>3. ResultsAgree'
      BY <2>1, <2>2 DEF ResultsAgree
    <2> QED
      BY <1>3, <2>1, <2>2, <2>3, RaisesEffect DEF Writes, Changes, Tells, WorkerTypes
  <1> QED
    BY <1>1, <1>2, <1>3

\* Any task that ends
LEMMA TaskEndsEffect ==
    ASSUME WorkerTypes, ResultsAgree, OnlyKnown, TaskEnds
    PROVE  running.op \in Operations /\ TaskEffect(running.op)
  <1>1. running.do \in {"restore", "event", "start", "resume"}
    BY DEF TaskEnds, RestoreEnds, EventEnds, StartEnds, ResumeEnds
  <1>2. running.op \in Operations
    BY <1>1 DEF OnlyKnown, Follows, Known
  <1> QED
    BY <1>2, RestoreEffect, EventEffect, StartEffect, ResumeEffect DEF TaskEnds

-----------------------------------------------------------------------------
(* Types.                                                                  *)

\* The queue and what runs
QueueTypes == tasks \in Seq(Jobs) /\ running \in Jobs \cup {NoJob}

\* The queue of the pool holds tasks only.
LEMMA QueueStep ==
    ASSUME WorkerTypes, ViewTypes, ResultsAgree, OnlyKnown, EntryNext
    PROVE  QueueTypes'
  <1> USE DEF QueueTypes, WorkerTypes
  <1>1. CASE TaskEnds
    BY <1>1, TaskEndsEffect DEF TaskEffect
  <1>2. CASE TaskBegins
    <2>1. Head(tasks) \in Jobs /\ tasks' \in Seq(Jobs)
      BY <1>2, JobTaken DEF TaskBegins
    <2>2. \A job \in Jobs, swallow \in BOOLEAN : [job EXCEPT !.swallow = swallow] \in Jobs
      BY DEF Jobs
    <2>3. running' \in Jobs
      BY <1>2, <2>1, <2>2 DEF TaskBegins
    <2> QED
      BY <2>1, <2>3
  <1>3. CASE QueryEnds
    <2>1. running # NoJob
      BY <1>3 DEF QueryEnds, NoJob, Job
    <2>2. [running EXCEPT !.do = "launch"] \in Jobs
      BY <2>1 DEF Jobs
    <2> QED
      BY <1>3, <2>2 DEF QueryEnds, TaskDone
  <1>4. CASE Launch
    BY <1>4 DEF Launch, TaskDone
  <1>5. ASSUME NEW o \in Operations, NEW do \in {"restore", "event", "start", "resume"},
               Submit(Job(do, o, FALSE))
        PROVE  QueueTypes'
    BY <1>5, JobTypes, JobAdded DEF Submit
  <1>6. CASE MonitorStep
    <2>1. CASE SubmitRestore
      BY <1>5, <2>1 DEF SubmitRestore
    <2>2. CASE ~SubmitRestore
      BY <1>6, <2>2 DEF MonitorStep, Scan, Mark, NextRound, MonitorEnds, TakeAnswer,
                        EmitRestored, queueVars
    <2> QED
      BY <2>1, <2>2
  <1>7. CASE ShutdownStep \/ Flag \/ StreamsChange
    <2>1. tasks' \in {tasks, <<>>} /\ running' = running
      BY <1>7 DEF ShutdownStep, CancelFutures, ReadThread, JoinMonitor, Flag, StreamsChange,
                  queueVars
    <2>2. <<>> \in Seq(Jobs)
      BY EmptySeq
    <2>3. tasks' \in Seq(Jobs)
      BY <2>1, <2>2
    <2> QED
      BY <2>1, <2>3
  <1>8. CASE PrivateEvent
    BY <1>5, <1>8 DEF PrivateEvent, Unfinished
  <1>9. CASE ArmQuery
    BY <1>5, <1>9 DEF ArmQuery, ViewTypes, Plan
  <1>10. CASE Confirm
    BY <1>5, <1>10 DEF Confirm, ViewTypes, Plan, queueVars
  <1>11. CASE Select \/ ArmDeferred \/ ArmSelected \/ Completed \/ PlanExpires
    BY <1>11 DEF Select, ArmDeferred, ArmSelected, Completed, PlanExpires, workerVars,
                 queueVars
  <1> QED
    BY <1>1, <1>2, <1>3, <1>4, <1>6, <1>7, <1>8, <1>9, <1>10, <1>11, StepCases

\* A result that is shown
LEMMA EmitTypes ==
    ASSUME WorkerTypes, NEW o \in Operations, NEW status \in Statuses,
           NEW by \in {"pool", "monitor"}
    PROVE  /\ Signal(o, status, by) \in Shown
           /\ Append(signals, Signal(o, status, by)) \in Seq(Shown)
  <1>1. Signal(o, status, by) \in Shown
    BY DEF Signal, Shown
  <1> QED
    BY <1>1 DEF WorkerTypes

\* The queue of signals holds signals only.
LEMMA SignalsStep ==
    ASSUME WorkerTypes, ResultsAgree, OnlyKnown, OneRestore, EntryNext
    PROVE  signals' \in Seq(Shown)
  <1> USE DEF WorkerTypes
  <1>1. CASE TaskEnds
    <2>1. running.op \in Operations /\ TaskEffect(running.op)
      BY <1>1, TaskEndsEffect
    <2>2. CASE running.do = "restore"
      BY <2>1, <2>2 DEF TaskEffect
    <2>3. CASE running.do # "restore"
      <3>1. \/ signals' = signals
            \/ \E status \in Statuses :
                  signals' = Append(signals, Signal(running.op, status, "pool"))
        BY <2>1, <2>3 DEF TaskEffect, Tells
      <3> QED
        BY <2>1, <3>1, EmitTypes
    <2> QED
      BY <2>2, <2>3
  <1>2. CASE TaskBegins \/ QueryEnds \/ Launch
    BY <1>2 DEF TaskBegins, QueryEnds, Launch
  <1>3. CASE MonitorStep
    <2>1. CASE EmitRestored
      BY <2>1, EmitTypes DEF EmitRestored, Emit, OneRestore
    <2>2. CASE ~EmitRestored
      BY <1>3, <2>2 DEF MonitorStep, Scan, Mark, SubmitRestore, NextRound, MonitorEnds, TakeAnswer
    <2> QED
      BY <2>1, <2>2
  <1>4. CASE ShutdownStep \/ Flag \/ PrivateEvent \/ StreamsChange
    BY <1>4 DEF ShutdownStep, CancelFutures, ReadThread, JoinMonitor, Flag, PrivateEvent,
                StreamsChange
  <1>5. CASE Select \/ ArmQuery \/ ArmDeferred \/ ArmSelected \/ Confirm \/ PlanExpires
    BY <1>5 DEF Select, ArmQuery, ArmDeferred, ArmSelected, Confirm, PlanExpires, workerVars
  <1>6. CASE Completed
    BY <1>6, SignalTaken DEF Completed
  <1> QED
    BY <1>1, <1>2, <1>3, <1>4, <1>5, <1>6, StepCases

\* The bounds
LEMMA SpentStep ==
    ASSUME WorkerTypes, ResultsAgree, OnlyKnown, EntryNext
    PROVE  /\ spent' \in [events : Nat, errors : Nat]
           /\ spent.errors > 0 => spent'.errors > 0
  <1> USE DEF WorkerTypes
  <1>1. CASE TaskEnds
    BY <1>1, TaskEndsEffect DEF TaskEffect
  <1>2. Raises \/ Spend("events", MaxEvents) =>
            /\ spent' \in [events : Nat, errors : Nat]
            /\ spent.errors > 0 => spent'.errors > 0
    BY DEF Spend, Raises
  <1>3. CASE TaskBegins \/ QueryEnds \/ Launch
    BY <1>2, <1>3 DEF TaskBegins, QueryEnds, Launch
  <1>4. CASE MonitorStep
    BY <1>4 DEF MonitorStep, Scan, Mark, SubmitRestore, NextRound, MonitorEnds, TakeAnswer,
                EmitRestored
  <1>5. CASE ShutdownStep \/ Flag
    BY <1>5 DEF ShutdownStep, CancelFutures, ReadThread, JoinMonitor, Flag
  <1>6. CASE PrivateEvent \/ StreamsChange \/ PlanExpires
    BY <1>2, <1>6 DEF PrivateEvent, StreamsChange, PlanExpires
  <1>7. CASE Select \/ ArmQuery \/ ArmDeferred \/ ArmSelected \/ Confirm \/ Completed
    BY <1>7 DEF Select, ArmQuery, ArmDeferred, ArmSelected, Confirm, Completed, workerVars
  <1> QED
    BY <1>1, <1>3, <1>4, <1>5, <1>6, <1>7, StepCases

\* What the coordinator and the journal hold
LEMMA PlansStep ==
    ASSUME WorkerTypes, ResultsAgree, OnlyKnown, EntryNext
    PROVE  /\ journalled' \in [Operations -> {"no", "plain", "confirm"}]
           /\ results' \in [Operations -> Statuses \cup {"none"}]
           /\ restored' \subseteq Operations
           /\ ResultsAgree'
           /\ TaskEnds \/ UNCHANGED <<journalled, results, restored, watched>>
           /\ TaskEnds \/ QueryEnds \/ uncertain' = uncertain
  <1>1. CASE TaskEnds
    BY <1>1, TaskEndsEffect DEF TaskEffect, Writes, Changes, WorkerTypes
  <1>2. CASE TaskBegins \/ QueryEnds \/ Launch
    BY <1>2 DEF TaskBegins, QueryEnds, Launch, planVars, WorkerTypes, ResultsAgree
  <1>3. CASE MonitorStep
    BY <1>3 DEF MonitorStep, Scan, Mark, SubmitRestore, NextRound, MonitorEnds, TakeAnswer,
                EmitRestored, planVars, WorkerTypes, ResultsAgree
  <1>4. CASE ShutdownStep \/ Flag \/ PrivateEvent \/ StreamsChange
    BY <1>4 DEF ShutdownStep, CancelFutures, ReadThread, JoinMonitor, Flag, PrivateEvent,
                StreamsChange, planVars, WorkerTypes, ResultsAgree
  <1>5. CASE Select \/ ArmQuery \/ ArmDeferred \/ ArmSelected
    BY <1>5 DEF Select, ArmQuery, ArmDeferred, ArmSelected, workerVars, planVars, WorkerTypes,
                ResultsAgree
  <1>6. CASE Confirm \/ Completed \/ PlanExpires
    BY <1>6 DEF Confirm, Completed, PlanExpires, planVars, WorkerTypes, ResultsAgree
  <1> QED
    BY <1>1, <1>2, <1>3, <1>4, <1>5, <1>6, StepCases

\* The monitor, its future and shutdown
MonitorTypes ==
    /\ monitor \in {"none", "scan", "mark", "next", "wait", "emit", "ended"}
    /\ target \in Plan
    /\ answer \in Statuses \cup {"none", "not_ready", "error", "canceled"}
    /\ remaining \subseteq Operations /\ waiting \subseteq Operations
    /\ recovering \subseteq Operations
    /\ completion \in {"none", "running", "result", "error", "canceled"}
    /\ ending \in {"no", "flagged", "pool", "join", "done"}

\* The variables of the monitor keep their types.
LEMMA MonitorTypesStep ==
    ASSUME WorkerTypes, ResultsAgree, OnlyKnown, OneRestore, EntryNext
    PROVE  MonitorTypes'
  <1>0. MonitorTypes
    BY DEF WorkerTypes, MonitorTypes
  <1> USE DEF MonitorTypes
  <1>1. CASE TaskEnds
    BY <1>0, <1>1, TaskEndsEffect DEF TaskEffect, Restores
  <1>2. CASE TaskBegins \/ QueryEnds \/ Launch
    BY <1>0, <1>2 DEF TaskBegins, QueryEnds, Launch, CompletionFails, monitorVars
  <1>3. CASE Scan \/ Mark \/ SubmitRestore \/ NextRound \/ MonitorEnds
    BY <1>0, <1>3 DEF Scan, Mark, SubmitRestore, NextRound, MonitorEnds, Again, Unfinished, Plan
  <1>4. CASE TakeAnswer
    <2>1. target \in Operations
      BY <1>4 DEF TakeAnswer, OneRestore
    <2> QED
      BY <1>0, <1>4, <2>1 DEF TakeAnswer, NotReady, Restored, RestoreFails, Forgotten, Plan
  <1>5. CASE EmitRestored
    BY <1>0, <1>5 DEF EmitRestored, Forgotten, Plan
  <1>6. CASE ShutdownStep \/ Flag \/ PrivateEvent \/ StreamsChange
    BY <1>0, <1>6 DEF ShutdownStep, CancelFutures, ReadThread, JoinMonitor, Flag, PrivateEvent,
                StreamsChange, monitorVars
  <1>7. CASE Select \/ ArmQuery \/ ArmDeferred \/ ArmSelected
    BY <1>0, <1>7 DEF Select, ArmQuery, ArmDeferred, ArmSelected, workerVars, monitorVars
  <1>8. CASE Confirm \/ Completed \/ PlanExpires
    BY <1>0, <1>8 DEF Confirm, Completed, PlanExpires, monitorVars
  <1> QED
    BY <1>1, <1>2, <1>3, <1>4, <1>5, <1>6, <1>7, <1>8, StepCases DEF MonitorStep

\* The variables of the view keep their types.
LEMMA ViewTypesStep ==
    ASSUME WorkerTypes, ViewTypes, EntryNext
    PROVE  ViewTypes'
  <1> USE DEF ViewTypes
  <1>1. CASE Unseen
    BY <1>1 DEF Unseen, viewVars, slotVars, historyVars
  <1>2. CASE Select
    BY <1>2 DEF Select, Offer, slotVars, historyVars, Plan
  <1>3. CASE ArmQuery \/ ArmDeferred \/ ArmSelected
    <2>1. CASE ArmQuery
      BY <2>1 DEF ArmQuery, Click, slotVars, historyVars
    <2>2. CASE ArmDeferred
      BY <2>2 DEF ArmDeferred, slotVars
    <2>3. CASE ArmSelected
      <3>1. prepared' \in {prepared, selected}
        BY <2>3 DEF ArmSelected
      <3> QED
        BY <2>3, <3>1 DEF ArmSelected, slotVars
    <2> QED
      BY <1>3, <2>1, <2>2, <2>3
  <1>4. CASE Confirm
    BY <1>4 DEF Confirm, Click, slotVars, Plan
  <1>5. CASE Completed
    <2>1. PICK signal \in Shown : signal = Head(signals)
      BY <1>5, SignalTaken DEF Completed, WorkerTypes
    <2>2. signal.op \in Operations /\ signal.op \in Plan /\ "none" \in Plan
      BY <2>1 DEF Shown, Plan
    <2>3. /\ selected' \in Plan /\ unknownId' \in Plan /\ deferredId' \in Plan
          /\ prepared' \in Plan
      BY <1>5, <2>1, <2>2 DEF Completed, ShowCompleted, ShowUnknown, ShowDeferred, ShowFailed,
                              Forget, Offer, ShowRecovery
    <2>4. displaced' \subseteq Operations
      BY <1>5, <2>1, <2>2 DEF Completed, Displace, Plan
    <2>5. overtaken' \subseteq Operations
      BY <1>5, <2>1, <2>2 DEF Completed
    <2> QED
      BY <1>5, <2>3, <2>4, <2>5 DEF Completed
  <1>6. CASE PlanExpires
    BY <1>6 DEF PlanExpires, viewVars, slotVars, historyVars
  <1> QED
    BY <1>1, <1>2, <1>3, <1>4, <1>5, <1>6, StepCases

\* Every variable keeps its type, and what is remembered agrees with the journal.
LEMMA TypesStep ==
    ASSUME WorkerTypes, ViewTypes, ResultsAgree, OnlyKnown, OneRestore, EntryNext
    PROVE  WorkerTypes' /\ ViewTypes' /\ ResultsAgree'
  <1>1. /\ QueueTypes' /\ signals' \in Seq(Shown) /\ MonitorTypes'
        /\ spent' \in [events : Nat, errors : Nat]
    BY QueueStep, SignalsStep, SpentStep, MonitorTypesStep
  <1> QED
    BY <1>1, PlansStep, ViewTypesStep DEF WorkerTypes, QueueTypes, MonitorTypes

-----------------------------------------------------------------------------
(* Only plans that are known are followed.                                 *)

\* A known operation stays known, and a final result as it is.
LEMMA KnownStays ==
    ASSUME WorkerTypes, ResultsAgree, OnlyKnown, EntryNext
    PROVE  /\ Known \subseteq Known'
           /\ \A o \in Operations : results[o] \in Final =>
                 results'[o] = results[o] /\ journalled'[o] = journalled[o]
  <1>1. CASE TaskEnds
    <2>1. PICK o \in Operations : TaskEffect(o)
      BY <1>1, TaskEndsEffect
    <2>2. Changes(o)
      BY <2>1 DEF TaskEffect, Writes
    <2> QED
      BY <2>2 DEF Changes, Known
  <1>2. CASE ~TaskEnds
    BY <1>2, PlansStep DEF Known
  <1> QED
    BY <1>1, <1>2

\* A task that follows an operation is queued for a known one.
LEMMA KnownTasks ==
    ASSUME WorkerTypes, ViewTypes, ResultsAgree, OnlyKnown, EntryNext
    PROVE  /\ \A i \in DOMAIN tasks' : Follows(tasks[i])'
           /\ \A i \in DOMAIN tasks' : tasks'[i].do = "start" => tasks'[i].op \in Operations
  <1>0. Known \subseteq Known'
    BY KnownStays
  <1>1. ASSUME tasks' \in {tasks, <<>>}
        PROVE  /\ \A i \in DOMAIN tasks' : Follows(tasks[i])'
               /\ \A i \in DOMAIN tasks' : tasks'[i].do = "start" => tasks'[i].op \in Operations
    BY <1>0, <1>1 DEF OnlyKnown, Follows
  <1>2. ASSUME NEW o \in Operations, NEW do \in {"restore", "event", "start", "resume"},
               do # "start" => o \in Known, Submit(Job(do, o, FALSE))
        PROVE  /\ \A i \in DOMAIN tasks' : Follows(tasks[i])'
               /\ \A i \in DOMAIN tasks' : tasks'[i].do = "start" => tasks'[i].op \in Operations
    <2>1. Job(do, o, FALSE) \in Jobs /\ tasks' = Append(tasks, Job(do, o, FALSE))
      BY <1>2, JobTypes DEF Submit
    <2>2. \A i \in DOMAIN tasks' : \/ tasks'[i] = Job(do, o, FALSE)
                                   \/ i \in DOMAIN tasks /\ tasks'[i] = tasks[i]
      BY <2>1, JobAdded DEF WorkerTypes
    <2>3. Job(do, o, FALSE).do = do /\ Job(do, o, FALSE).op = o
      BY DEF Job
    <2> QED
      BY <1>0, <1>2, <2>2, <2>3 DEF OnlyKnown, Follows
  <1>3. CASE TaskEnds
    BY <1>1, <1>3, TaskEndsEffect DEF TaskEffect
  <1>4. CASE TaskBegins
    <2>1. \A i \in DOMAIN tasks' : i + 1 \in DOMAIN tasks /\ tasks'[i] = tasks[i + 1]
      BY <1>4, JobTaken DEF TaskBegins, WorkerTypes
    <2> QED
      BY <1>0, <2>1 DEF OnlyKnown, Follows
  <1>5. CASE QueryEnds \/ Launch
    BY <1>1, <1>5 DEF QueryEnds, Launch, TaskDone
  <1>6. CASE SubmitRestore
    BY <1>2, <1>6 DEF SubmitRestore, OnlyKnown, Known
  <1>7. CASE MonitorStep /\ ~SubmitRestore
    BY <1>1, <1>7 DEF MonitorStep, Scan, Mark, NextRound, MonitorEnds, TakeAnswer,
                      EmitRestored, queueVars
  <1>8. CASE ShutdownStep \/ Flag \/ StreamsChange
    BY <1>1, <1>8 DEF ShutdownStep, CancelFutures, ReadThread, JoinMonitor, Flag,
                      StreamsChange, queueVars
  <1>9. CASE PrivateEvent
    BY <1>2, <1>9 DEF PrivateEvent, Unfinished, Known
  <1>10. CASE ArmQuery
    BY <1>2, <1>10 DEF ArmQuery, OnlyKnown, Known
  <1>11. CASE Confirm
    BY <1>1, <1>2, <1>11 DEF Confirm, OnlyKnown, ViewTypes, Plan, Known, queueVars
  <1>12. CASE Select \/ ArmDeferred \/ ArmSelected \/ Completed \/ PlanExpires
    BY <1>1, <1>12 DEF Select, ArmDeferred, ArmSelected, Completed, PlanExpires, workerVars,
                       queueVars
  <1> QED
    BY <1>3, <1>4, <1>5, <1>6, <1>7, <1>8, <1>9, <1>10, <1>11, <1>12, StepCases

\* So is the task that runs.
LEMMA KnownRunning ==
    ASSUME WorkerTypes, ResultsAgree, OnlyKnown, EntryNext
    PROVE  /\ Follows(running)' /\ (running'.do = "start" => running'.op \in Operations)
           /\ restored' \subseteq Known'
  <1>0. Known \subseteq Known'
    BY KnownStays
  <1>1. CASE TaskEnds
    <2>1. PICK o \in Operations : TaskEffect(o)
      BY <1>1, TaskEndsEffect
    <2>2. Changes(o) /\ running' = NoJob
      BY <2>1 DEF TaskEffect, Writes
    <2>3. o \in restored' \ restored => o \in Known'
      BY <2>2 DEF Changes, Known
    <2>4. restored' \subseteq Known'
      BY <1>0, <2>2, <2>3 DEF Changes, OnlyKnown
    <2> QED
      BY <2>2, <2>4 DEF NoJob, Job, Follows
  <1>2. CASE ~TaskEnds
    <2>1. restored' \subseteq Known'
      BY <1>0, <1>2, PlansStep DEF OnlyKnown
    <2>2. CASE TaskBegins
      <3>1. 1 \in DOMAIN tasks /\ Head(tasks) = tasks[1] /\ Head(tasks) \in Jobs
        BY <2>2, JobTaken DEF TaskBegins, WorkerTypes
      <3>2. running'.do = tasks[1].do /\ running'.op = tasks[1].op
        BY <2>2, <3>1 DEF TaskBegins, Jobs
      <3> QED
        BY <1>0, <2>1, <3>1, <3>2 DEF OnlyKnown, Follows
    <2>3. CASE running' \in {running, NoJob} \/ running'.do = "launch"
      BY <1>0, <2>1, <2>3 DEF OnlyKnown, Follows, NoJob, Job
    <2>4. CASE QueryEnds \/ Launch
      <3>1. running' = NoJob \/ running' = [running EXCEPT !.do = "launch"]
        BY <2>4 DEF QueryEnds, Launch, TaskDone
      <3>2. running.do \in {"query", "launch"}
        BY <2>4 DEF QueryEnds, Launch
      <3>3. running \in Jobs
        BY <3>2 DEF WorkerTypes, NoJob, Job
      <3> QED
        BY <2>3, <3>1, <3>3 DEF Jobs
    <2>5. CASE MonitorStep
      BY <2>3, <2>5 DEF MonitorStep, Scan, Mark, SubmitRestore, NextRound, MonitorEnds,
                        TakeAnswer, EmitRestored, Submit, queueVars
    <2>6. CASE ShutdownStep \/ Flag \/ StreamsChange \/ PrivateEvent
      BY <2>3, <2>6 DEF ShutdownStep, CancelFutures, ReadThread, JoinMonitor, Flag,
                        StreamsChange, PrivateEvent, Submit, queueVars
    <2>7. CASE Select \/ ArmQuery \/ ArmDeferred \/ ArmSelected
      BY <2>3, <2>7 DEF Select, ArmQuery, ArmDeferred, ArmSelected, Submit, workerVars, queueVars
    <2>8. CASE Confirm \/ Completed \/ PlanExpires
      BY <2>3, <2>8 DEF Confirm, Completed, PlanExpires, Submit, queueVars
    <2> QED
      BY <1>2, <2>2, <2>4, <2>5, <2>6, <2>7, <2>8, StepCases
  <1> QED
    BY <1>1, <1>2

\* The signals, the user's two plans and the monitor's lists
LEMMA KnownSignals ==
    ASSUME WorkerTypes, ResultsAgree, OnlyKnown, OneRestore, EntryNext
    PROVE  \A i \in DOMAIN signals' : signals'[i].op \in Known'
  <1>0. Known \subseteq Known'
    BY KnownStays
  <1>1. ASSUME signals' = signals PROVE \A i \in DOMAIN signals' : signals'[i].op \in Known'
    BY <1>0, <1>1 DEF OnlyKnown
  <1>2. ASSUME NEW o \in Operations, NEW status \in Statuses, NEW by \in {"pool", "monitor"},
               o \in Known', signals' = Append(signals, Signal(o, status, by))
        PROVE  \A i \in DOMAIN signals' : signals'[i].op \in Known'
    <2>1. Signal(o, status, by) \in Shown /\ Signal(o, status, by).op = o
      BY EmitTypes DEF Signal
    <2> QED
      BY <1>0, <1>2, <2>1, SignalAdded DEF OnlyKnown, WorkerTypes
  <1>3. CASE TaskEnds
    <2>1. PICK o \in Operations : TaskEffect(o)
      BY <1>3, TaskEndsEffect
    <2>2. CASE signals' = signals
      BY <1>1, <2>2
    <2>3. CASE signals' # signals
      <3>1. PICK status \in Statuses : /\ signals' = Append(signals, Signal(o, status, "pool"))
                                       /\ results'[o] = status
        BY <2>1, <2>3 DEF TaskEffect, Tells
      <3>2. o \in Known'
        BY <3>1 DEF Known, Statuses, Final
      <3> QED
        BY <1>2, <3>1, <3>2
    <2> QED
      BY <2>2, <2>3
  <1>4. CASE EmitRestored
    <2>1. target \in Operations /\ answer \in Statuses /\ target \in Known'
      BY <1>0, <1>4, MonitorAssumption DEF EmitRestored, OneRestore, OnlyKnown
    <2> QED
      BY <1>1, <1>2, <1>4, <2>1 DEF EmitRestored, Emit
  <1>5. CASE Completed
    BY <1>0, <1>5, SignalTaken DEF Completed, OnlyKnown, WorkerTypes
  <1>6. CASE TaskBegins \/ QueryEnds \/ Launch
    BY <1>1, <1>6 DEF TaskBegins, QueryEnds, Launch
  <1>7. CASE MonitorStep /\ ~EmitRestored
    BY <1>1, <1>7 DEF MonitorStep, Scan, Mark, SubmitRestore, NextRound, MonitorEnds, TakeAnswer
  <1>8. CASE ShutdownStep \/ Flag \/ StreamsChange \/ PrivateEvent
    BY <1>1, <1>8 DEF ShutdownStep, CancelFutures, ReadThread, JoinMonitor, Flag,
                      StreamsChange, PrivateEvent
  <1>9. CASE Select \/ ArmQuery \/ ArmDeferred \/ ArmSelected \/ Confirm \/ PlanExpires
    BY <1>1, <1>9 DEF Select, ArmQuery, ArmDeferred, ArmSelected, Confirm, PlanExpires,
                      workerVars
  <1> QED
    BY <1>3, <1>4, <1>5, <1>6, <1>7, <1>8, <1>9, StepCases

\* The lists of the monitor and of the view name known operations.
LEMMA KnownLists ==
    ASSUME WorkerTypes, ResultsAgree, OnlyKnown, OneRestore, EntryNext
    PROVE  /\ remaining' \subseteq Known' /\ waiting' \subseteq Known'
           /\ {target', unknownId', deferredId'} \subseteq Known' \cup {"none"}
  <1>0. /\ remaining \subseteq Known' /\ waiting \subseteq Known'
        /\ {target, unknownId, deferredId} \subseteq Known' \cup {"none"}
    BY KnownStays DEF OnlyKnown
  <1>1. CASE UNCHANGED <<remaining, waiting, target, unknownId, deferredId>>
    BY <1>0, <1>1
  <1>2. CASE Unseen /\ TaskEnds
    BY <1>1, <1>2, TaskEndsEffect DEF TaskEffect, Unseen, viewVars, slotVars
  <1>3. CASE Unseen /\ (TaskBegins \/ QueryEnds \/ Launch)
    BY <1>1, <1>3 DEF TaskBegins, QueryEnds, Launch, monitorVars, Unseen, viewVars, slotVars
  <1>4. CASE Unseen /\ MonitorStep
    <2>1. UNCHANGED <<unknownId, deferredId>>
      BY <1>4 DEF Unseen, viewVars, slotVars
    <2>2. CASE Scan
      <3>1. Unfinished \subseteq Known
        BY DEF Unfinished, Known
      <3> QED
        BY <1>0, <2>1, <2>2, <3>1, KnownStays DEF Scan
    <2>3. CASE Mark \/ SubmitRestore \/ NextRound \/ MonitorEnds
      BY <1>0, <2>1, <2>3 DEF Mark, SubmitRestore, NextRound, MonitorEnds, Again
    <2>4. CASE TakeAnswer /\ NotReady
      <3>1. target \in Known'
        BY <1>0, <2>4, MonitorAssumption DEF TakeAnswer, OneRestore
      <3> QED
        BY <1>0, <2>1, <2>4, <3>1 DEF TakeAnswer, NotReady, Forgotten
    <2>5. CASE TakeAnswer /\ (Restored \/ RestoreFails)
      BY <1>0, <2>1, <2>5 DEF TakeAnswer, Restored, RestoreFails, Forgotten
    <2>6. CASE EmitRestored
      BY <1>0, <2>1, <2>6 DEF EmitRestored, Forgotten
    <2> QED
      BY <1>4, <2>2, <2>3, <2>4, <2>5, <2>6 DEF MonitorStep, TakeAnswer
  <1>5. CASE Unseen /\ (ShutdownStep \/ Flag \/ PrivateEvent \/ StreamsChange)
    BY <1>1, <1>5 DEF ShutdownStep, CancelFutures, ReadThread, JoinMonitor, Flag, PrivateEvent,
                      StreamsChange, monitorVars, Unseen, viewVars, slotVars
  <1>6. CASE Select \/ ArmQuery \/ ArmDeferred \/ ArmSelected \/ Confirm \/ PlanExpires
    BY <1>1, <1>6 DEF Select, ArmQuery, ArmDeferred, ArmSelected, Confirm, PlanExpires,
                      workerVars, monitorVars, viewVars, slotVars
  <1>7. CASE Completed
    <2>1. Head(signals).op \in Known'
      BY <1>7, SignalTaken, KnownStays DEF Completed, WorkerTypes, OnlyKnown
    <2>2. UNCHANGED <<remaining, waiting, target>>
      BY <1>7 DEF Completed, monitorVars
    <2>3. {unknownId', deferredId'} \subseteq {Head(signals).op, "none"}
      BY <1>7 DEF Completed, ShowCompleted, ShowUnknown, ShowDeferred, ShowFailed, Forget
    <2> QED
      BY <1>0, <2>1, <2>2, <2>3
  <1> QED
    BY <1>2, <1>3, <1>4, <1>5, <1>6, <1>7, StepCases

LEMMA KnownStep ==
    ASSUME WorkerTypes, ViewTypes, ResultsAgree, OnlyKnown, OneRestore, EntryNext
    PROVE  OnlyKnown'
  BY KnownTasks, KnownRunning, KnownSignals, KnownLists DEF OnlyKnown

-----------------------------------------------------------------------------
(* A final result stays.                                                   *)

LEMMA FinalStep ==
    ASSUME WorkerTypes, ResultsAgree, OnlyKnown, OneRestore, FinalStays, EntryNext
    PROVE  FinalStays'
  <1>1. \A o \in Operations : results[o] \in Final => results'[o] = results[o]
    BY KnownStays
  <1>2. ASSUME signals' = signals
        PROVE  \A i \in DOMAIN signals' : signals'[i].status \in Final
                   => results'[signals'[i].op] = signals'[i].status
    <2>1. \A i \in DOMAIN signals : signals[i].op \in Operations
      BY DEF OnlyKnown, Known
    <2> QED
      BY <1>1, <1>2, <2>1 DEF FinalStays
  <1>3. ASSUME NEW o \in Operations, NEW status \in Statuses, NEW by \in {"pool", "monitor"},
               status \in Final => results'[o] = status,
               signals' = Append(signals, Signal(o, status, by))
        PROVE  \A i \in DOMAIN signals' : signals'[i].status \in Final
                   => results'[signals'[i].op] = signals'[i].status
    <2>1. /\ Signal(o, status, by) \in Shown /\ Signal(o, status, by).op = o
          /\ Signal(o, status, by).status = status
      BY EmitTypes DEF Signal
    <2>2. \A i \in DOMAIN signals' : \/ signals'[i] = Signal(o, status, by)
                                     \/ i \in DOMAIN signals /\ signals'[i] = signals[i]
      BY <1>3, <2>1, SignalAdded DEF WorkerTypes
    <2>3. \A i \in DOMAIN signals : signals[i].op \in Operations
      BY DEF OnlyKnown, Known
    <2> QED
      BY <1>1, <1>3, <2>1, <2>2, <2>3 DEF FinalStays
  <1>4. ASSUME UNCHANGED <<monitor, answer, target>>
        PROVE  monitor' \in {"wait", "emit"} /\ answer' \in Final => results'[target'] = answer'
    BY <1>1, <1>4 DEF FinalStays, OneRestore
  <1>5. CASE TaskEnds
    <2>1. PICK o \in Operations : TaskEffect(o)
      BY <1>5, TaskEndsEffect
    <2>2. CASE running.do = "restore"
      <3>1. signals' = signals /\ target' = o
        BY <2>1, <2>2 DEF TaskEffect, OneRestore
      <3>2. answer' \in Final => results'[target'] = answer'
        BY <2>1, <2>2, <3>1 DEF TaskEffect, Restores, Final
      <3> QED
        BY <1>2, <3>1, <3>2 DEF FinalStays
    <2>3. CASE running.do # "restore"
      <3>1. UNCHANGED <<monitor, answer, target>> /\ Tells(o)
        BY <2>1, <2>3 DEF TaskEffect
      <3>2. \/ signals' = signals
            \/ \E status \in Statuses :
                  /\ signals' = Append(signals, Signal(o, status, "pool"))
                  /\ results'[o] = status
        BY <3>1 DEF Tells
      <3> QED
        BY <1>2, <1>3, <1>4, <3>1, <3>2 DEF FinalStays
    <2> QED
      BY <2>2, <2>3
  <1>6. CASE EmitRestored
    <2>1. target \in Operations /\ answer \in Statuses
      BY <1>6 DEF EmitRestored, OneRestore
    <2>2. answer \in Final => results'[target] = answer
      BY <1>1, <1>6, <2>1 DEF EmitRestored, FinalStays
    <2>3. monitor' = "next"
      BY <1>6 DEF EmitRestored
    <2> QED
      BY <1>2, <1>3, <1>6, <2>1, <2>2, <2>3 DEF EmitRestored, Emit, FinalStays
  <1>7. CASE TakeAnswer
    <2>1. /\ signals' = signals
          /\ \/ monitor' \in {"next", "ended"}
             \/ monitor' = "emit" /\ UNCHANGED <<answer, target>>
      BY <1>7 DEF TakeAnswer, NotReady, Restored, RestoreFails
    <2> QED
      BY <1>1, <1>2, <1>7, <2>1 DEF FinalStays, OneRestore, TakeAnswer
  <1>8. CASE SubmitRestore
    BY <1>2, <1>8 DEF SubmitRestore, FinalStays, Final
  <1>9. CASE Scan \/ Mark \/ NextRound \/ MonitorEnds
    BY <1>2, <1>9 DEF Scan, Mark, NextRound, MonitorEnds, FinalStays
  <1>10. CASE Completed
    <2>1. \A i \in DOMAIN signals' : i + 1 \in DOMAIN signals /\ signals'[i] = signals[i + 1]
      BY <1>10, SignalTaken DEF Completed, WorkerTypes
    <2>2. UNCHANGED <<monitor, answer, target, results>>
      BY <1>10 DEF Completed, monitorVars, planVars
    <2> QED
      BY <1>4, <2>1, <2>2 DEF FinalStays
  <1>11. CASE TaskBegins \/ QueryEnds \/ Launch
    BY <1>2, <1>4, <1>11 DEF TaskBegins, QueryEnds, Launch, FinalStays, monitorVars
  <1>12. CASE CancelFutures
    <2>1. signals' = signals /\ monitor' = monitor /\ target' = target
          /\ answer' \in {"canceled", answer}
      BY <1>12 DEF CancelFutures
    <2>2. answer' \in Final => answer' = answer
      BY <2>1 DEF Final
    <2> QED
      BY <1>2, <1>4, <2>1, <2>2 DEF FinalStays
  <1>13. CASE ReadThread \/ JoinMonitor \/ Flag \/ StreamsChange \/ PrivateEvent
    BY <1>2, <1>4, <1>13 DEF ReadThread, JoinMonitor, Flag, StreamsChange, PrivateEvent,
                             FinalStays, monitorVars
  <1>14. CASE Select \/ ArmQuery \/ ArmDeferred \/ ArmSelected \/ Confirm \/ PlanExpires
    BY <1>2, <1>4, <1>14 DEF Select, ArmQuery, ArmDeferred, ArmSelected, Confirm, PlanExpires,
                             FinalStays, workerVars, monitorVars
  <1> QED
    BY <1>5, <1>6, <1>7, <1>8, <1>9, <1>10, <1>11, <1>12, <1>13, <1>14, StepCases
       DEF MonitorStep, ShutdownStep

-----------------------------------------------------------------------------
(* The query, and the restored plan the monitor waits for.                 *)

\* What is appended to the queue, or taken from it, leaves the rest as it is.
QueueMoves ==
    \/ tasks' = tasks /\ running' = running
    \/ tasks' = <<>> /\ running' = running /\ ending = "flagged" /\ ending' = "pool"
    \/ \E o \in Operations, do \in {"restore", "event", "start", "resume"} :
          /\ running' = running /\ ~IsShutdown
          /\ Job(do, o, FALSE) \in Jobs /\ tasks' = Append(tasks, Job(do, o, FALSE))
          /\ do = "restore" => SubmitRestore /\ target' = o

\* The monitor, the shutdown and the streams move the queue as QueueMoves says.
LEMMA MonitorMoves ==
    ASSUME WorkerTypes, MonitorStep \/ ShutdownStep \/ Flag \/ PrivateEvent \/ StreamsChange
    PROVE  QueueMoves
  <1> USE DEF QueueMoves
  <1>1. ASSUME NEW o \in Operations, NEW do \in {"restore", "event"},
               do = "restore" => SubmitRestore /\ target' = o, Submit(Job(do, o, FALSE))
        PROVE  QueueMoves
    BY <1>1, JobTypes DEF Submit
  <1>2. CASE SubmitRestore
    BY <1>1, <1>2 DEF SubmitRestore, WorkerTypes
  <1>3. CASE PrivateEvent
    BY <1>1, <1>3 DEF PrivateEvent, Unfinished
  <1>4. CASE Scan \/ Mark \/ NextRound \/ MonitorEnds \/ TakeAnswer \/ EmitRestored
    BY <1>4 DEF Scan, Mark, NextRound, MonitorEnds, TakeAnswer, EmitRestored, queueVars
  <1>5. CASE CancelFutures
    BY <1>5 DEF CancelFutures
  <1>6. CASE ReadThread \/ JoinMonitor \/ Flag \/ StreamsChange
    BY <1>6 DEF ReadThread, JoinMonitor, Flag, StreamsChange, queueVars
  <1> QED
    BY <1>2, <1>3, <1>4, <1>5, <1>6 DEF MonitorStep, ShutdownStep

\* So does the user, who leaves the monitor alone.
LEMMA UserMoves ==
    ASSUME WorkerTypes, ViewTypes,
           Select \/ ArmQuery \/ ArmDeferred \/ ArmSelected \/ Confirm \/ Completed \/ PlanExpires
    PROVE  QueueMoves /\ UNCHANGED <<monitorVars, completion, ending>> /\ running' = running
  <1> USE DEF QueueMoves
  <1>1. ASSUME NEW o \in Operations, NEW do \in {"start", "resume"}, Submit(Job(do, o, FALSE))
        PROVE  QueueMoves /\ running' = running
    BY <1>1, JobTypes DEF Submit
  <1>2. CASE ArmQuery
    BY <1>1, <1>2 DEF ArmQuery, ViewTypes, Plan
  <1>3. CASE Confirm
    BY <1>1, <1>3 DEF Confirm, ViewTypes, Plan, queueVars
  <1>4. CASE Select \/ ArmDeferred \/ ArmSelected
    BY <1>4 DEF Select, ArmDeferred, ArmSelected, workerVars, queueVars
  <1>5. CASE Completed \/ PlanExpires
    BY <1>5 DEF Completed, PlanExpires, queueVars
  <1> QED
    BY <1>2, <1>3, <1>4, <1>5

\* By what is still in the queue
LEMMA QueryKept ==
    ASSUME WorkerTypes, QueryFirst, QueueMoves
    PROVE  /\ \A i \in DOMAIN tasks' : /\ tasks'[i].do = "query" => i = 1 /\ running' = NoJob
                                       /\ tasks'[i].do # "launch"
           /\ (\E i \in DOMAIN tasks' : tasks'[i].do = "query")
                 => \E i \in DOMAIN tasks : tasks[i].do = "query"
           /\ (\E i \in DOMAIN tasks : tasks[i].do = "query")
                 => ending' # ending \/ \E i \in DOMAIN tasks' : tasks'[i].do = "query"
           /\ running' = running
  <1>1. CASE UNCHANGED <<tasks, running>>
    BY <1>1 DEF QueryFirst
  <1>2. CASE tasks' = <<>> /\ running' = running /\ ending' # ending
    BY <1>2
  <1>3. ASSUME NEW o \in Operations, NEW do \in {"restore", "event", "start", "resume"},
               running' = running, Job(do, o, FALSE) \in Jobs,
               tasks' = Append(tasks, Job(do, o, FALSE))
        PROVE  /\ \A i \in DOMAIN tasks' : /\ tasks'[i].do = "query" => i = 1 /\ running' = NoJob
                                           /\ tasks'[i].do # "launch"
               /\ (\E i \in DOMAIN tasks' : tasks'[i].do = "query")
                     => \E i \in DOMAIN tasks : tasks[i].do = "query"
               /\ (\E i \in DOMAIN tasks : tasks[i].do = "query")
                     => \E i \in DOMAIN tasks' : tasks'[i].do = "query"
    <2>1. Job(do, o, FALSE).do \notin {"query", "launch"}
      BY DEF Job
    <2>2. \A i \in DOMAIN tasks' : \/ tasks'[i] = Job(do, o, FALSE)
                                   \/ i \in DOMAIN tasks /\ tasks'[i] = tasks[i]
      BY <1>3, JobAdded DEF WorkerTypes
    <2>3. \A i \in DOMAIN tasks : i \in DOMAIN tasks' /\ tasks'[i] = tasks[i]
      BY <1>3, JobAdded DEF WorkerTypes
    <2> QED
      BY <1>3, <2>1, <2>2, <2>3 DEF QueryFirst
  <1> QED
    BY <1>1, <1>2, <1>3 DEF QueueMoves

\* The query of the start-up stays first, and nobody is told before it ends.
LEMMA QueryStep ==
    ASSUME WorkerTypes, ViewTypes, ResultsAgree, OnlyKnown, QueryFirst, EntryNext
    PROVE  QueryFirst'
  <1>1. CASE TaskEnds
    <2>1. PICK o \in Operations : TaskEffect(o)
      BY <1>1, TaskEndsEffect
    <2>2. UNCHANGED <<tasks, monitor, completion, ending>> /\ running' = NoJob
          /\ running.do \in {"restore", "event", "start", "resume"}
      BY <2>1 DEF TaskEffect
    <2>3. \A i \in DOMAIN tasks : tasks[i].do # "query"
      BY <2>2 DEF QueryFirst, NoJob, Job
    <2> QED
      BY <2>2, <2>3 DEF QueryFirst, NoJob, Job, IsShutdown
  <1>2. CASE TaskBegins
    <2>1. UNCHANGED <<monitor, completion, ending>>
      BY <1>2 DEF TaskBegins, monitorVars
    <2>2. /\ 1 \in DOMAIN tasks /\ Head(tasks) = tasks[1] /\ Head(tasks) \in Jobs
          /\ \A i \in DOMAIN tasks' : /\ i + 1 \in DOMAIN tasks /\ i + 1 # 1
                                      /\ tasks'[i] = tasks[i + 1]
      BY <1>2, JobTaken DEF TaskBegins, WorkerTypes
    <2>3. running'.do = tasks[1].do /\ running = NoJob
      BY <1>2, <2>2 DEF TaskBegins, Jobs
    <2>4. \A i \in DOMAIN tasks' : tasks'[i].do \notin {"query", "launch"}
      BY <2>2 DEF QueryFirst
    <2>5. \A i \in DOMAIN tasks : tasks[i].do = "query" => i = 1
      BY DEF QueryFirst
    <2> QED
      BY <2>1, <2>2, <2>3, <2>4, <2>5 DEF QueryFirst, NoJob, Job, IsShutdown
  <1>3. CASE QueryEnds \/ Launch
    <2>1. /\ running.do \in {"query", "launch"} /\ UNCHANGED <<tasks, ending>>
          /\ running.do = "query" => monitor' = monitor
      BY <1>3 DEF QueryEnds, Launch, TaskDone, monitorVars
    <2>0. running # NoJob
      BY <2>1 DEF NoJob, Job
    <2>2. \A i \in DOMAIN tasks : tasks[i].do # "query"
      BY <2>0 DEF QueryFirst
    <2>3. monitor = "none" /\ completion = "running"
      BY <2>1 DEF QueryFirst
    <2>4. CASE Launch
      BY <2>1, <2>2, <2>3, <2>4 DEF Launch, TaskDone, QueryFirst, NoJob, Job
    <2>5. CASE QueryEnds /\ running' = NoJob
      BY <2>1, <2>2, <2>3, <2>5 DEF QueryEnds, CompletionFails, QueryFirst, NoJob, Job,
                                    IsShutdown, TaskDone
    <2>6. CASE QueryEnds /\ running' = [running EXCEPT !.do = "launch"]
      <3>1. running'.do = "launch"
        BY <2>1, <2>6 DEF WorkerTypes, Jobs
      <3>2. completion' = completion /\ monitor' = monitor
        BY <2>6, <3>1 DEF QueryEnds, monitorVars, TaskDone, NoJob, Job
      <3> QED
        BY <2>1, <2>2, <2>3, <3>1, <3>2 DEF QueryFirst, IsShutdown
    <2> QED
      BY <1>3, <2>4, <2>5, <2>6 DEF QueryEnds, TaskDone
  <1>4. CASE MonitorStep
    <2>1. QueueMoves /\ monitor # "none" /\ monitor # "ended" /\ ending' = ending
      BY <1>4, MonitorMoves DEF MonitorStep, Scan, Mark, SubmitRestore, NextRound,
                                MonitorEnds, TakeAnswer, EmitRestored
    <2>2. /\ running.do \notin {"query", "launch"} /\ completion = "running"
          /\ \A i \in DOMAIN tasks : tasks[i].do # "query"
      BY <2>1 DEF QueryFirst
    <2>3. \/ monitor' \notin {"none", "ended"} /\ completion' = completion
          \/ monitor' = "ended" /\ completion' \in {"result", "error"}
      BY <1>4 DEF MonitorStep, Scan, Mark, SubmitRestore, NextRound, MonitorEnds, TakeAnswer,
                  EmitRestored, NotReady, Restored, RestoreFails
    <2> QED
      BY <2>1, <2>2, <2>3, QueryKept DEF QueryFirst, IsShutdown
  <1>5. CASE CancelFutures
    <2>1. tasks' = <<>> /\ UNCHANGED <<running, monitor>> /\ ending' = "pool"
          /\ completion' = IF \E i \in DOMAIN tasks : tasks[i].do = "query"
                           THEN "canceled" ELSE completion
      BY <1>5 DEF CancelFutures
    <2>2. CASE \E i \in DOMAIN tasks : tasks[i].do = "query"
      <3>1. running = NoJob /\ monitor = "none" /\ completion' = "canceled"
        BY <2>1, <2>2 DEF QueryFirst
      <3> QED
        BY <2>1, <3>1 DEF QueryFirst, IsShutdown, NoJob, Job
    <2>3. CASE \A i \in DOMAIN tasks : tasks[i].do # "query"
      BY <2>1, <2>3 DEF QueryFirst, IsShutdown
    <2> QED
      BY <2>2, <2>3
  <1>6. CASE ReadThread \/ JoinMonitor \/ Flag
    <2>1. UNCHANGED <<queueVars, monitor, completion>> /\ IsShutdown'
      BY <1>6 DEF ReadThread, JoinMonitor, Flag, monitorVars, IsShutdown
    <2> QED
      BY <2>1 DEF QueryFirst, queueVars
  <1>7. CASE PrivateEvent \/ StreamsChange
    <2>1. QueueMoves /\ UNCHANGED <<monitor, completion, ending>>
      BY <1>7, MonitorMoves DEF PrivateEvent, StreamsChange, monitorVars
    <2> QED
      BY <2>1, QueryKept DEF QueryFirst, IsShutdown
  <1>8. CASE Select \/ ArmQuery \/ ArmDeferred \/ ArmSelected \/ Confirm \/ Completed
             \/ PlanExpires
    <2>1. QueueMoves /\ UNCHANGED <<monitor, completion, ending>>
      BY <1>8, UserMoves DEF monitorVars
    <2> QED
      BY <2>1, QueryKept DEF QueryFirst, IsShutdown
  <1> QED
    BY <1>1, <1>2, <1>3, <1>4, <1>5, <1>6, <1>7, <1>8, StepCases DEF ShutdownStep

\* There is one restore at a time, the one the monitor waits for.
LEMMA RestoreStep ==
    ASSUME WorkerTypes, ViewTypes, ResultsAgree, OnlyKnown, QueryFirst, OneRestore, EntryNext
    PROVE  OneRestore'
  <1>0. spent.errors > 0 => spent'.errors > 0
    BY SpentStep
  <1>1. CASE TaskEnds
    <2>1. PICK o \in Operations : TaskEffect(o)
      BY <1>1, TaskEndsEffect
    <2>2. /\ UNCHANGED <<tasks, monitor, target, ending>> /\ running' = NoJob
          /\ running.do # "restore" => answer' = answer
          /\ answer' = "error" => answer = "error" \/ spent'.errors > 0
          /\ answer' = "canceled" => answer = "canceled"
      BY <2>1 DEF TaskEffect, Restores, Statuses, Final
    <2>3. running.do = "restore" => /\ \A i \in DOMAIN tasks : tasks[i].do # "restore"
                                    /\ monitor = "wait"
      BY DEF OneRestore
    <2> QED
      BY <1>0, <2>2, <2>3 DEF OneRestore, NoJob, Job, IsShutdown
  <1>2. CASE TaskBegins
    <2>1. /\ 1 \in DOMAIN tasks /\ Head(tasks) = tasks[1] /\ Head(tasks) \in Jobs
          /\ \A i \in DOMAIN tasks' : /\ i + 1 \in DOMAIN tasks /\ i + 1 # 1
                                      /\ tasks'[i] = tasks[i + 1]
          /\ \A i, j \in DOMAIN tasks' : i + 1 = j + 1 => i = j
      BY <1>2, JobTaken DEF TaskBegins, WorkerTypes
    <2>2. running'.do = tasks[1].do /\ running'.op = tasks[1].op
          /\ UNCHANGED <<monitor, target, answer, ending, spent>>
      BY <1>2, <2>1 DEF TaskBegins, Jobs, monitorVars
    <2>3. ASSUME NEW i \in DOMAIN tasks', tasks'[i].do = "restore"
          PROVE  /\ monitor = "wait" /\ tasks'[i].op = target /\ answer = "none"
                 /\ tasks[1].do # "restore"
                 /\ \A j \in DOMAIN tasks' : tasks'[j].do = "restore" => j = i
      <3>1. tasks[i + 1].do = "restore" /\ tasks'[i] = tasks[i + 1] /\ i + 1 # 1
        BY <2>1, <2>3
      <3>2. /\ monitor = "wait" /\ tasks[i + 1].op = target /\ answer = "none"
            /\ \A j \in DOMAIN tasks : tasks[j].do = "restore" => j = i + 1
        BY <2>1, <3>1 DEF OneRestore
      <3>3. tasks[1].do # "restore"
        BY <2>1, <3>1, <3>2
      <3>4. ASSUME NEW j \in DOMAIN tasks', tasks'[j].do = "restore" PROVE j = i
        <4>1. j + 1 \in DOMAIN tasks /\ tasks[j + 1].do = "restore"
          BY <2>1, <3>4
        <4>2. j + 1 = i + 1
          BY <3>2, <4>1
        <4> QED
          BY <2>1, <4>2
      <3> QED
        BY <3>1, <3>2, <3>3, <3>4
    <2> QED
      BY <2>1, <2>2, <2>3 DEF OneRestore, IsShutdown
  <1>3. CASE QueryEnds \/ Launch
    <2>1. /\ UNCHANGED <<tasks, target, answer, ending>> /\ running.do \in {"query", "launch"}
          /\ monitor' = monitor \/ running.do = "launch"
          /\ running' = NoJob \/ running' = [running EXCEPT !.do = "launch"]
          /\ monitor' \in {monitor, "scan"}
      BY <1>3 DEF QueryEnds, Launch, TaskDone, monitorVars
    <2>2. running'.do # "restore"
      <3>1. running \in Jobs
        BY <2>1 DEF WorkerTypes, NoJob, Job
      <3> QED
        BY <2>1, <3>1 DEF NoJob, Job, Jobs
    <2>3. monitor = "none"
      BY <2>1 DEF QueryFirst
    <2> QED
      BY <1>0, <2>1, <2>2, <2>3 DEF OneRestore, IsShutdown
  <1>4. ASSUME QueueMoves, UNCHANGED <<monitor, target, answer>>, IsShutdown => IsShutdown'
        PROVE  OneRestore'
    <2>1. running' = running
      BY <1>4 DEF QueueMoves
    <2>2. \A i \in DOMAIN tasks' : tasks'[i].do = "restore" =>
              i \in DOMAIN tasks /\ tasks'[i] = tasks[i]
      <3>1. CASE tasks' \in {tasks, <<>>}
        BY <3>1
      <3>2. ASSUME NEW o \in Operations, NEW do \in {"event", "start", "resume"},
                   Job(do, o, FALSE) \in Jobs, tasks' = Append(tasks, Job(do, o, FALSE))
            PROVE  \A i \in DOMAIN tasks' : tasks'[i].do = "restore" =>
                       i \in DOMAIN tasks /\ tasks'[i] = tasks[i]
        BY <3>2, JobAdded DEF Job, WorkerTypes
      <3>3. ~SubmitRestore
        BY <1>4 DEF SubmitRestore
      <3> QED
        BY <1>4, <3>1, <3>2, <3>3 DEF QueueMoves
    <2> QED
      BY <1>0, <1>4, <2>1, <2>2 DEF OneRestore
  <1>5. CASE SubmitRestore
    <2>1. PICK o \in Operations : /\ Submit(Job("restore", o, FALSE)) /\ target' = o
                                  /\ monitor' = "wait" /\ answer' = "none"
      BY <1>5 DEF SubmitRestore, WorkerTypes
    <2>2. monitor = "next" /\ running' = running
      BY <1>5 DEF SubmitRestore, Submit
    <2>3. running.do # "restore" /\ \A i \in DOMAIN tasks : tasks[i].do # "restore"
      BY <2>2 DEF OneRestore
    <2>4. Job("restore", o, FALSE) \in Jobs /\ Job("restore", o, FALSE).op = o
      BY JobTypes DEF Job
    <2>5. ASSUME NEW i \in DOMAIN tasks', tasks'[i].do = "restore"
          PROVE  i = Len(tasks) + 1 /\ tasks'[i].op = o
      <3>1. tasks' = Append(tasks, Job("restore", o, FALSE)) /\ tasks \in Seq(Jobs)
        BY <2>1 DEF Submit, WorkerTypes
      <3>2. i # Len(tasks) + 1 => i \in DOMAIN tasks /\ tasks'[i] = tasks[i]
        BY <2>4, <3>1, JobAdded
      <3>3. tasks'[Len(tasks) + 1] = Job("restore", o, FALSE)
        BY <2>4, <3>1, JobAdded
      <3> QED
        BY <2>3, <2>4, <2>5, <3>2, <3>3
    <2> QED
      BY <2>1, <2>2, <2>3, <2>5 DEF OneRestore
  <1>6. CASE MonitorStep /\ ~SubmitRestore
    <2>1. UNCHANGED <<tasks, running, ending>> /\ (monitor = "wait" => answer # "none")
      BY <1>6 DEF MonitorStep, Scan, Mark, NextRound, MonitorEnds, TakeAnswer, NotReady,
                  Restored, RestoreFails, EmitRestored, queueVars, Statuses, Final
    <2>2. running.do # "restore" /\ \A i \in DOMAIN tasks : tasks[i].do # "restore"
      BY <2>1 DEF OneRestore
    <2>3. monitor' # "wait" /\ answer' \in {answer, "none"}
      BY <1>6 DEF MonitorStep, Scan, Mark, NextRound, MonitorEnds, TakeAnswer, NotReady,
                  Restored, RestoreFails, EmitRestored, Forgotten
    <2>4. monitor' = "emit" => target' \in Operations /\ answer' \in Statuses
      BY <1>6 DEF MonitorStep, Scan, Mark, NextRound, MonitorEnds, TakeAnswer, NotReady,
                  Restored, RestoreFails, EmitRestored, OneRestore
    <2>5. /\ answer' = "error" => spent'.errors > 0
          /\ answer' = "canceled" => IsShutdown'
      BY <1>0, <2>1, <2>3 DEF OneRestore, IsShutdown
    <2> QED
      BY <2>1, <2>2, <2>3, <2>4, <2>5 DEF OneRestore
  <1>7. CASE CancelFutures
    <2>1. /\ tasks' = <<>> /\ UNCHANGED <<running, monitor, target, spent>> /\ IsShutdown'
          /\ answer' = IF \E i \in DOMAIN tasks : tasks[i].do = "restore"
                       THEN "canceled" ELSE answer
      BY <1>7 DEF CancelFutures, IsShutdown
    <2>2. CASE \E i \in DOMAIN tasks : tasks[i].do = "restore"
      <3>1. monitor = "wait" /\ running.do # "restore"
        BY <2>2 DEF OneRestore
      <3> QED
        BY <2>1, <2>2, <3>1 DEF OneRestore
    <2>3. CASE \A i \in DOMAIN tasks : tasks[i].do # "restore"
      BY <2>1, <2>3 DEF OneRestore
    <2> QED
      BY <2>2, <2>3
  <1>8. CASE ReadThread \/ JoinMonitor \/ Flag \/ PrivateEvent \/ StreamsChange
    <2>1. UNCHANGED <<monitor, target, answer>> /\ (IsShutdown => IsShutdown')
      BY <1>8 DEF ReadThread, JoinMonitor, Flag, PrivateEvent, StreamsChange, monitorVars,
                  IsShutdown
    <2> QED
      BY <1>4, <1>8, <2>1, MonitorMoves DEF ShutdownStep
  <1>9. CASE Select \/ ArmQuery \/ ArmDeferred \/ ArmSelected \/ Confirm \/ Completed
             \/ PlanExpires
    BY <1>4, <1>9, UserMoves DEF monitorVars, IsShutdown
  <1> QED
    BY <1>1, <1>2, <1>3, <1>5, <1>6, <1>7, <1>8, <1>9, StepCases DEF ShutdownStep

-----------------------------------------------------------------------------
(* Shutdown.                                                               *)

\* A shutdown goes on stage by stage.
LEMMA EndingStep ==
    ASSUME WorkerTypes, ViewTypes, ResultsAgree, OnlyKnown, EndingInv, EntryNext
    PROVE  EndingInv'
  <1>1. ASSUME QueueMoves, ending' = ending, monitor \in {"none", "ended"} => monitor' = monitor
        PROVE  EndingInv'
    BY <1>1 DEF QueueMoves, EndingInv, IsShutdown
  <1>2. CASE TaskEnds
    BY <1>2, TaskEndsEffect DEF TaskEffect, EndingInv
  <1>3. CASE TaskBegins
    BY <1>3 DEF TaskBegins, EndingInv, monitorVars
  <1>4. CASE QueryEnds \/ Launch
    <2>1. /\ UNCHANGED <<tasks, ending>> /\ running.do \in {"query", "launch"}
      BY <1>4 DEF QueryEnds, Launch, TaskDone
    <2>2. running # NoJob
      BY <2>1 DEF NoJob, Job
    <2> QED
      BY <2>1, <2>2 DEF EndingInv
  <1>5. CASE MonitorStep
    <2>1. ending' = ending /\ monitor \notin {"none", "ended"}
      BY <1>5 DEF MonitorStep, Scan, Mark, SubmitRestore, NextRound, MonitorEnds, TakeAnswer,
                  EmitRestored
    <2> QED
      BY <1>1, <1>5, <2>1, MonitorMoves
  <1>6. CASE CancelFutures
    BY <1>6 DEF CancelFutures, EndingInv
  <1>7. CASE ReadThread \/ JoinMonitor \/ Flag
    BY <1>7 DEF ReadThread, JoinMonitor, Flag, PoolAtRest, EndingInv, queueVars, monitorVars
  <1>8. CASE PrivateEvent \/ StreamsChange
    <2>1. ending' = ending /\ monitor' = monitor
      BY <1>8 DEF PrivateEvent, StreamsChange, monitorVars
    <2> QED
      BY <1>1, <1>8, <2>1, MonitorMoves
  <1>9. CASE Select \/ ArmQuery \/ ArmDeferred \/ ArmSelected \/ Confirm \/ Completed
             \/ PlanExpires
    BY <1>1, <1>9, UserMoves DEF monitorVars
  <1> QED
    BY <1>2, <1>3, <1>4, <1>5, <1>6, <1>7, <1>8, <1>9, StepCases DEF ShutdownStep

-----------------------------------------------------------------------------
(* The recovery.                                                           *)

Undone == {o \in Unfinished : results[o] = "none"}

\* A task that ends
LEMMA RecoveryOfTask ==
    ASSUME WorkerTypes, ResultsAgree, OnlyKnown, OneRestore, RecoveryInv, TaskEnds
    PROVE  RecoveryInv'
  <1>1. PICK o \in Operations : TaskEffect(o)
    BY TaskEndsEffect
  <1>2. UNCHANGED <<monitor, target, remaining, waiting, recovering, completion, ending>>
        /\ (spent.errors > 0 => spent'.errors > 0)
    BY <1>1 DEF TaskEffect
  <1>3. \A p \in Operations \ {o} : results'[p] = results[p] /\ journalled'[p] = journalled[p]
    BY <1>1 DEF TaskEffect, Writes, Changes
  <1>4. restored \subseteq restored' /\ Unfinished' \subseteq Unfinished \cup restored'
    BY <1>1, <1>3 DEF TaskEffect, Writes, Changes, Tells, Restores, Unfinished
  <1>5. spent.errors \in Nat /\ spent'.errors \in Nat
    BY <1>1 DEF TaskEffect, WorkerTypes
  <1>6. spent'.errors = 0 => spent.errors = 0 /\ Undone' \subseteq Undone
    <2> SUFFICES ASSUME spent'.errors = 0 PROVE spent.errors = 0 /\ Undone' \subseteq Undone
      OBVIOUS
    <2>1. \/ journalled' = journalled /\ results' = results
         \/ results'[o] \in Statuses
      BY <1>1, <1>5 DEF TaskEffect, Tells, Restores
    <2>2. "none" \notin Statuses
      BY DEF Statuses, Final
    <2> QED
      BY <1>2, <1>3, <1>5, <2>1, <2>2 DEF Undone, Unfinished
  <1>7. CASE running.do # "restore"
    <2>1. answer' = answer
      BY <1>1, <1>7 DEF TaskEffect
    <2> QED
      BY <1>2, <1>4, <1>6, <2>1 DEF RecoveryInv, Unanswered, Undone, IsShutdown
  <1>8. CASE running.do = "restore"
    <2>1. monitor = "wait" /\ target = o /\ answer = "none" /\ completion' = completion
      BY <1>1, <1>8 DEF TaskEffect, OneRestore
    <2>2. "none" \notin Statuses /\ "not_ready" \notin Statuses
      BY DEF Statuses, Final
    <2>3. /\ recovering \subseteq remaining \cup waiting \cup {o}
          /\ Unfinished \subseteq restored \cup remaining \cup {o}
          /\ spent.errors = 0 => Undone \subseteq remaining \cup waiting \cup {o}
      BY <2>1, <2>2 DEF RecoveryInv, Unanswered, Undone
    <2>4. o \in restored' \/ answer' = "error"
      BY <1>1, <1>8 DEF TaskEffect, Restores
    <2>5. spent'.errors = 0 => answer' = "not_ready" \/ o \notin Undone'
      BY <1>1, <1>5, <1>8, <2>2 DEF TaskEffect, Restores, Undone
    <2>6. "error" \notin Statuses \cup {"not_ready"}
      BY DEF Statuses, Final
    <2>7. Unfinished' \subseteq restored' \cup remaining
                                \cup Unanswered(Statuses \cup {"not_ready"})'
      BY <1>2, <1>4, <2>1, <2>3, <2>4, <2>6 DEF Unanswered
    <2>8. spent'.errors = 0 => Undone' \subseteq remaining \cup waiting \cup Unanswered(Statuses)'
      BY <1>2, <1>6, <2>1, <2>2, <2>3, <2>5 DEF Unanswered
    <2>9. completion = "result" /\ ~IsShutdown =>
            /\ recovering = {} /\ Unfinished' \subseteq restored'
            /\ spent'.errors = 0 => \A p \in Unfinished' : results'[p] # "none"
      BY <1>4, <1>6 DEF RecoveryInv, Undone
    <2>10. recovering \subseteq remaining \cup waiting \cup Unanswered({})'
      BY <1>2, <2>1, <2>3 DEF Unanswered
    <2> QED
      BY <1>2, <2>1, <2>7, <2>8, <2>9, <2>10 DEF RecoveryInv, Undone, IsShutdown
  <1> QED
    BY <1>7, <1>8

\* The monitor loses no plan from its lists.
LEMMA RecoveryOfMonitor ==
    ASSUME WorkerTypes, QueryFirst, OneRestore, RecoveryInv, MonitorStep
    PROVE  RecoveryInv'
  <1> USE DEF RecoveryInv, Unanswered
  <1>0. /\ UNCHANGED <<ending, spent>> /\ Unfinished' = Unfinished /\ restored' = restored
        /\ results' = results /\ (IsShutdown' <=> IsShutdown)
    BY DEF MonitorStep, Scan, Mark, SubmitRestore, NextRound, MonitorEnds, TakeAnswer,
           EmitRestored, planVars, Unfinished, IsShutdown
  <1>1. CASE Scan
    BY <1>0, <1>1 DEF Scan
  <1>2. CASE Mark
    BY <1>0, <1>2 DEF Mark, QueryFirst
  <1>3. CASE SubmitRestore
    <2>1. /\ monitor = "next" /\ monitor' = "wait" /\ answer' = "none"
          /\ UNCHANGED <<waiting, recovering, completion>> /\ target' \in remaining
          /\ remaining' = remaining \ {target'}
      BY <1>3 DEF SubmitRestore
    <2>2. "none" \notin Statuses \cup {"not_ready"}
      BY DEF Statuses, Final
    <2> QED
      BY <1>0, <2>1, <2>2
  <1>4. CASE NextRound
    BY <1>0, <1>4 DEF NextRound, Again
  <1>5. CASE MonitorEnds
    BY <1>0, <1>5 DEF MonitorEnds, Again
  <1>6. CASE TakeAnswer /\ NotReady
    <2>1. "not_ready" \notin Statuses
      BY DEF Statuses, Final
    <2> QED
      BY <1>0, <1>6, <2>1 DEF TakeAnswer, NotReady
  <1>7. CASE TakeAnswer /\ Restored
    BY <1>0, <1>7 DEF TakeAnswer, Restored
  <1>8. CASE TakeAnswer /\ RestoreFails
    BY <1>0, <1>8 DEF TakeAnswer, RestoreFails
  <1>9. CASE EmitRestored
    <2>1. answer \in Statuses
      BY <1>9 DEF EmitRestored, OneRestore
    <2> QED
      BY <1>0, <1>9, <2>1 DEF EmitRestored
  <1> QED
    BY <1>1, <1>2, <1>3, <1>4, <1>5, <1>6, <1>7, <1>8, <1>9 DEF MonitorStep, TakeAnswer

\* Neither does any other step.
LEMMA RecoveryStep ==
    ASSUME WorkerTypes, ViewTypes, ResultsAgree, OnlyKnown, QueryFirst, OneRestore,
           RecoveryInv, EntryNext
    PROVE  RecoveryInv'
  <1>0. spent.errors \in Nat /\ spent'.errors \in Nat
        /\ (spent.errors > 0 => spent'.errors > 0)
    BY SpentStep DEF WorkerTypes
  <1>1. CASE TaskEnds
    BY <1>1, RecoveryOfTask
  <1>2. CASE MonitorStep
    BY <1>2, RecoveryOfMonitor
  <1>3. ASSUME UNCHANGED <<journalled, results, restored, monitor, target, answer, remaining,
                           waiting, recovering>>,
               completion' = "result" /\ ~IsShutdown' => completion = "result" /\ ~IsShutdown
        PROVE  RecoveryInv'
    <2>1. Unfinished' = Unfinished /\ (spent'.errors = 0 => spent.errors = 0)
      BY <1>0, <1>3 DEF Unfinished
    <2> QED
      BY <1>3, <2>1 DEF RecoveryInv, Unanswered
  <1>4. CASE TaskBegins \/ QueryEnds
    <2>1. completion' \in {completion, "error", "canceled"} /\ ending' = ending
      BY <1>4 DEF TaskBegins, QueryEnds, CompletionFails
    <2> QED
      BY <1>3, <1>4, <2>1 DEF TaskBegins, QueryEnds, planVars, monitorVars, IsShutdown
  <1>5. CASE Launch
    <2>1. monitor = "none" /\ completion = "running"
      BY <1>5 DEF Launch, QueryFirst
    <2> QED
      BY <1>5, <2>1 DEF Launch, planVars, RecoveryInv, Unanswered
  <1>6. CASE CancelFutures
    <2>1. /\ UNCHANGED <<journalled, results, restored, monitor, target, remaining, waiting,
                         recovering, spent>>
          /\ answer' \in {answer, "canceled"} /\ IsShutdown'
          /\ answer' # answer => answer = "none"
      BY <1>6 DEF CancelFutures, IsShutdown, planVars, OneRestore
    <2>2. {"none", "canceled"} \cap (Statuses \cup {"not_ready"}) = {}
      BY DEF Statuses, Final
    <2>3. Unfinished' = Unfinished
      BY <2>1 DEF Unfinished
    <2> QED
      BY <2>1, <2>2, <2>3 DEF RecoveryInv, Unanswered
  <1>7. CASE ReadThread \/ JoinMonitor \/ Flag \/ PrivateEvent \/ StreamsChange
    BY <1>3, <1>7 DEF ReadThread, JoinMonitor, Flag, PrivateEvent, StreamsChange, planVars,
                      monitorVars, IsShutdown
  <1>8. CASE Select \/ ArmQuery \/ ArmDeferred \/ ArmSelected \/ Confirm \/ Completed
             \/ PlanExpires
    BY <1>3, <1>8, UserMoves, PlansStep DEF monitorVars, IsShutdown, TaskEnds, RestoreEnds,
       EventEnds, StartEnds, ResumeEnds, Select, ArmQuery, ArmDeferred, ArmSelected, Confirm,
       Completed, PlanExpires, workerVars, planVars
  <1> QED
    BY <1>1, <1>2, <1>4, <1>5, <1>6, <1>7, <1>8, StepCases DEF ShutdownStep

-----------------------------------------------------------------------------
(* One plan is to start.                                                   *)

\* No two plans wait to start that were not confirmed together.
LEMMA StartsStep ==
    ASSUME WorkerTypes, ViewTypes, ResultsAgree, OnlyKnown, OneStarts, EntryNext
    PROVE  OneStarts'
  <1> SUFFICES ASSUME ~together' PROVE OneStarts'
    BY DEF OneStarts
  <1>0. ~together
    <2>1. CASE Unseen
      BY <2>1 DEF Unseen, historyVars
    <2>2. CASE Select \/ ArmQuery \/ ArmDeferred \/ ArmSelected \/ Completed \/ PlanExpires
      BY <2>2 DEF Select, ArmQuery, ArmDeferred, ArmSelected, Completed, PlanExpires, historyVars
    <2>3. CASE Confirm
      BY <2>3 DEF Confirm
    <2> QED
      BY <2>1, <2>2, <2>3, StepCases
  <1>1. ASSUME Unfinished = {}, TaskEnds, running.do # "start" PROVE Unfinished' = {}
    <2>1. PICK o \in Operations : TaskEffect(o)
      BY <1>1, TaskEndsEffect
    <2>2. o \in Known
      BY <1>1, <2>1 DEF TaskEffect, OnlyKnown, Follows
    <2>3. results[o] \in Final
      <3>1. journalled[o] = "no" /\ results[o] # "none"
        BY <1>1, <2>2 DEF Unfinished, Known
      <3> QED
        BY <3>1 DEF ResultsAgree, WorkerTypes, Statuses
    <2>4. \A p \in Operations : journalled'[p] = journalled[p]
      BY <2>1, <2>3 DEF TaskEffect, Writes, Changes
    <2> QED
      BY <1>1, <2>4 DEF Unfinished
  <1>2. ASSUME tasks' \in {tasks, <<>>}, running' = running, journalled' = journalled
        PROVE  OneStarts'
    BY <1>0, <1>2 DEF OneStarts, Unfinished
  <1>3. ASSUME NEW o \in Operations, NEW do \in {"restore", "event", "resume"},
               running' = running, journalled' = journalled,
               Job(do, o, FALSE) \in Jobs, tasks' = Append(tasks, Job(do, o, FALSE))
        PROVE  OneStarts'
    <2>1. \A i \in DOMAIN tasks' : tasks'[i].do = "start" =>
              i \in DOMAIN tasks /\ tasks'[i] = tasks[i]
      BY <1>3, JobAdded DEF Job, WorkerTypes
    <2>2. Unfinished' = Unfinished
      BY <1>3 DEF Unfinished
    <2>3. ASSUME NEW i \in DOMAIN tasks', tasks'[i].do = "start"
          PROVE  /\ Unfinished' = {} /\ running'.do # "start"
                 /\ \A j \in DOMAIN tasks' : tasks'[j].do = "start" => j = i
      <3>1. i \in DOMAIN tasks /\ tasks[i].do = "start"
        BY <2>1, <2>3
      <3>2. /\ Unfinished = {} /\ running.do # "start"
            /\ \A j \in DOMAIN tasks : tasks[j].do = "start" => j = i
        BY <1>0, <3>1 DEF OneStarts
      <3> QED
        BY <1>3, <2>1, <2>2, <3>2
    <2>4. running'.do = "start" => Unfinished' = {}
      BY <1>0, <1>3, <2>2 DEF OneStarts
    <2> QED
      BY <2>3, <2>4 DEF OneStarts
  <1>4. CASE TaskEnds
    <2>1. tasks' = tasks /\ running' = NoJob /\ running.do # "none"
      BY <1>4, TaskEndsEffect DEF TaskEffect
    <2>2. CASE running.do = "start"
      <3>1. \A i \in DOMAIN tasks : tasks[i].do # "start"
        BY <1>0, <2>2 DEF OneStarts
      <3> QED
        BY <2>1, <3>1 DEF OneStarts, NoJob, Job
    <2>3. CASE running.do # "start"
      BY <1>0, <1>1, <1>4, <2>1, <2>3 DEF OneStarts, NoJob, Job
    <2> QED
      BY <2>2, <2>3
  <1>5. CASE TaskBegins
    <2>1. /\ 1 \in DOMAIN tasks /\ Head(tasks) = tasks[1] /\ Head(tasks) \in Jobs
          /\ \A i \in DOMAIN tasks' : /\ i + 1 \in DOMAIN tasks /\ i + 1 # 1
                                      /\ tasks'[i] = tasks[i + 1]
          /\ \A i, j \in DOMAIN tasks' : i + 1 = j + 1 => i = j
      BY <1>5, JobTaken DEF TaskBegins, WorkerTypes
    <2>2. running'.do = tasks[1].do /\ Unfinished' = Unfinished
      BY <1>5, <2>1 DEF TaskBegins, Jobs, planVars, Unfinished
    <2>3. tasks[1].do = "start" => Unfinished = {}
      BY <1>0, <2>1 DEF OneStarts
    <2>4. ASSUME NEW i \in DOMAIN tasks', tasks'[i].do = "start"
          PROVE  /\ Unfinished = {} /\ tasks[1].do # "start"
                 /\ \A j \in DOMAIN tasks' : tasks'[j].do = "start" => j = i
      <3>1. i + 1 \in DOMAIN tasks /\ tasks[i + 1].do = "start" /\ i + 1 # 1
        BY <2>1, <2>4
      <3>2. Unfinished = {} /\ \A j \in DOMAIN tasks : tasks[j].do = "start" => j = i + 1
        BY <1>0, <3>1 DEF OneStarts
      <3>3. ASSUME NEW j \in DOMAIN tasks', tasks'[j].do = "start" PROVE j = i
        <4>1. j + 1 \in DOMAIN tasks /\ tasks[j + 1].do = "start"
          BY <2>1, <3>3
        <4>2. j + 1 = i + 1
          BY <3>2, <4>1
        <4> QED
          BY <2>1, <4>2
      <3> QED
        BY <2>1, <3>1, <3>2, <3>3
    <2> QED
      BY <2>2, <2>3, <2>4 DEF OneStarts
  <1>6. CASE QueryEnds \/ Launch
    <2>1. /\ tasks' = tasks /\ journalled' = journalled /\ running.do \in {"query", "launch"}
          /\ running' = NoJob \/ running' = [running EXCEPT !.do = "launch"]
      BY <1>6 DEF QueryEnds, Launch, TaskDone, planVars
    <2>2. running \in Jobs
      BY <2>1 DEF WorkerTypes, NoJob, Job
    <2>3. running'.do \in {"none", "launch"}
      BY <2>1, <2>2 DEF NoJob, Job, Jobs
    <2> QED
      BY <1>0, <2>1, <2>3 DEF OneStarts, Unfinished
  <1>7. CASE MonitorStep \/ ShutdownStep \/ Flag \/ PrivateEvent \/ StreamsChange
    <2>1. journalled' = journalled
      BY <1>7 DEF MonitorStep, Scan, Mark, SubmitRestore, NextRound, MonitorEnds, TakeAnswer,
                  EmitRestored, ShutdownStep, CancelFutures, ReadThread, JoinMonitor, Flag,
                  PrivateEvent, StreamsChange, planVars
    <2>2. CASE SubmitRestore
      BY <1>3, <2>1, <2>2, JobTypes DEF SubmitRestore, Submit, WorkerTypes
    <2>3. CASE PrivateEvent
      BY <1>3, <2>1, <2>3, JobTypes DEF PrivateEvent, Submit, Unfinished
    <2>4. CASE Scan \/ Mark \/ NextRound \/ MonitorEnds \/ TakeAnswer \/ EmitRestored
      BY <1>2, <2>1, <2>4 DEF Scan, Mark, NextRound, MonitorEnds, TakeAnswer, EmitRestored,
                              queueVars
    <2>5. CASE ShutdownStep \/ Flag \/ StreamsChange
      BY <1>2, <2>1, <2>5 DEF ShutdownStep, CancelFutures, ReadThread, JoinMonitor, Flag,
                              StreamsChange, queueVars
    <2> QED
      BY <1>7, <2>2, <2>3, <2>4, <2>5 DEF MonitorStep
  <1>8. CASE ArmQuery
    <2>1. unknownId \in Operations /\ journalled' = journalled
      BY <1>8 DEF ArmQuery, ViewTypes, Plan, planVars
    <2> QED
      BY <1>3, <1>8, <2>1, JobTypes DEF ArmQuery, Submit
  <1>9. CASE Confirm
    <2>1. journalled' = journalled
      BY <1>9 DEF Confirm, planVars
    <2>2. CASE deferredId # "none"
      <3>1. deferredId \in Operations
        BY <2>2 DEF ViewTypes, Plan
      <3> QED
        BY <1>3, <1>9, <2>1, <2>2, <3>1, JobTypes DEF Confirm, Submit
    <2>3. CASE UNCHANGED queueVars
      BY <1>2, <2>1, <2>3 DEF queueVars
    <2>4. CASE /\ deferredId = "none" /\ selected # "none" /\ RecoveryComplete
               /\ Submit(Job("start", selected, FALSE))
               /\ together' = (together \/ Starting \/ running.do = "start")
      <3>1. selected \in Operations /\ Unfinished' = {}
        BY <2>1, <2>4 DEF ViewTypes, Plan, RecoveryComplete, Unfinished
      <3>2. running.do # "start" /\ running' = running
            /\ \A i \in DOMAIN tasks : tasks[i].do # "start"
        BY <2>4 DEF Starting, Submit
      <3>3. ASSUME NEW i \in DOMAIN tasks', tasks'[i].do = "start" PROVE i = Len(tasks) + 1
        <4>1. Job("start", selected, FALSE) \in Jobs
          BY <3>1, JobTypes
        <4>2. tasks' = Append(tasks, Job("start", selected, FALSE)) /\ tasks \in Seq(Jobs)
          BY <2>4 DEF Submit, WorkerTypes
        <4>3. i # Len(tasks) + 1 => i \in DOMAIN tasks /\ tasks'[i] = tasks[i]
          BY <4>1, <4>2, JobAdded
        <4> QED
          BY <3>2, <3>3, <4>3
      <3> QED
        BY <3>1, <3>2, <3>3 DEF OneStarts
    <2> QED
      BY <1>9, <2>2, <2>3, <2>4 DEF Confirm
  <1>10. CASE Select \/ ArmDeferred \/ ArmSelected \/ Completed \/ PlanExpires
    BY <1>2, <1>10 DEF Select, ArmDeferred, ArmSelected, Completed, PlanExpires, workerVars,
                       queueVars, planVars
  <1> QED
    BY <1>4, <1>5, <1>6, <1>7, <1>8, <1>9, <1>10, StepCases

-----------------------------------------------------------------------------
(* What the buttons would send.                                            *)

\* The button that confirms sends what was prepared last.
LEMMA PreparedStep ==
    ASSUME WorkerTypes, ViewTypes, ResultsAgree, OnlyKnown, FinalStays, PreparedInv, EntryNext
    PROVE  PreparedInv'
  <1>0. \A o \in Operations : results[o] = "failed" => results'[o] = "failed"
    BY KnownStays DEF Final
  <1>1. CASE Unseen
    BY <1>0, <1>1 DEF Unseen, viewVars, slotVars, historyVars, PreparedInv, Excused
  <1>2. CASE Select
    BY <1>2 DEF Select, Offer, PreparedInv
  <1>3. CASE ArmQuery
    BY <1>0, <1>3 DEF ArmQuery, slotVars, historyVars, PreparedInv, Excused
  <1>4. CASE ArmDeferred
    BY <1>4 DEF ArmDeferred, ViewTypes, Plan, slotVars, PreparedInv
  <1>5. CASE ArmSelected
    <2>1. CASE CanExecute(selected)
      <3>1. prepared' = selected /\ selected' = selected /\ deferredId' = "none"
            /\ selected \in Operations
        BY <1>5, <2>1 DEF ArmSelected, slotVars, ViewTypes, Plan
      <3> QED
        BY <3>1 DEF PreparedInv
    <2>2. CASE ~CanExecute(selected)
      BY <1>0, <1>5, <2>2 DEF ArmSelected, slotVars, PreparedInv, Excused
    <2> QED
      BY <2>1, <2>2
  <1>6. CASE Confirm
    BY <1>6 DEF Confirm, PreparedInv
  <1>7. CASE Completed
    <2> DEFINE signal == Head(signals)
    <2>1. signal \in Shown /\ signal.op \in Operations
          /\ (signal.status = "failed" => results[signal.op] = "failed")
      BY <1>7, SignalTaken DEF Completed, WorkerTypes, Shown, FinalStays, Final
    <2>2. displaced' = (displaced \cup ({unknownId, deferredId} \ {"none"})) \ {signal.op}
          /\ results' = results /\ prepared' = prepared
      BY <1>7 DEF Completed, Displace, planVars, ShowCompleted, ShowUnknown, ShowDeferred,
                  ShowFailed
    <2>3. CASE signal.status \in {"unknown", "deferred"}
      <3>1. ~confirmButton'
        BY <1>7, <2>3 DEF Completed, ShowUnknown, ShowDeferred, ShowRecovery, ShowCompleted,
                          ShowFailed, Final
      <3> QED
        BY <3>1 DEF PreparedInv
    <2>4. CASE signal.status = "completed"
      <3>1. ShowCompleted(signal.op)
        BY <1>7, <2>4 DEF Completed
      <3>2. CASE selected # "none"
        BY <3>1, <3>2 DEF ShowCompleted, Offer, PreparedInv
      <3>3. CASE selected = "none"
        BY <2>2, <3>1, <3>3 DEF ShowCompleted, Forget, PreparedInv
      <3> QED
        BY <3>2, <3>3
    <2>5. CASE signal.status = "failed"
      <3>1. ShowFailed(signal.op)
        BY <1>7, <2>5 DEF Completed
      <3>2. deferredId' = "none" /\ UNCHANGED <<selected, armed, confirmButton>>
        BY <3>1 DEF ShowFailed, Forget
      <3>3. ASSUME armed, confirmButton
            PROVE  selected # "none" => prepared = selected \/ Excused'
        <4>1. CASE prepared = signal.op
          BY <2>1, <2>2, <2>5, <4>1 DEF Excused
        <4>2. CASE prepared # signal.op /\ deferredId # "none"
          <5>1. prepared = deferredId /\ prepared \in displaced'
            BY <2>2, <3>3, <4>2 DEF PreparedInv
          <5> QED
            BY <2>2, <5>1 DEF Excused
        <4>3. CASE prepared # signal.op /\ deferredId = "none"
          BY <2>2, <3>3, <4>3 DEF PreparedInv, Excused
        <4> QED
          BY <4>1, <4>2, <4>3
      <3> QED
        BY <2>2, <3>2, <3>3 DEF PreparedInv
    <2> QED
      BY <2>1, <2>3, <2>4, <2>5 DEF Shown, Statuses, Final
  <1>8. CASE PlanExpires
    BY <1>0, <1>8 DEF PlanExpires, viewVars, slotVars, historyVars, PreparedInv, Excused
  <1> QED
    BY <1>1, <1>2, <1>3, <1>4, <1>5, <1>6, <1>7, <1>8, StepCases

-----------------------------------------------------------------------------
(* What is shown of the plans.                                             *)

Told(o) ==
    /\ \A i \in DOMAIN signals : LastOf(i, o) /\ signals[i].by = "pool"
           => signals[i].status = results[o]
    /\ (\A i \in DOMAIN signals : signals[i].op # o) =>
          /\ unknownId = o => results[o] = "unknown" \/ o \in overtaken
          /\ deferredId = o => results[o] = "deferred" \/ o \in overtaken
          /\ results[o] \in {"unknown", "deferred"}
                => o \in {unknownId, deferredId} \cup displaced

\* A signal of another plan, and one of this plan
LEMMA ToldOfOther ==
    ASSUME WorkerTypes, NEW o \in Operations, NEW p \in Operations \ {o}, Told(p),
           NEW signal \in Shown, signal.op = o, signals' = Append(signals, signal),
           results'[p] = results[p],
           UNCHANGED <<unknownId, deferredId, displaced, overtaken>>
    PROVE  Told(p)'
  <1> DEFINE new == Len(signals) + 1
  <1>1. /\ \A i \in DOMAIN signals' : i # new => i \in DOMAIN signals /\ signals'[i] = signals[i]
        /\ \A i \in DOMAIN signals : i \in DOMAIN signals' /\ signals'[i] = signals[i]
        /\ signals'[new] = signal
    BY SignalAdded DEF WorkerTypes
  <1>2. ASSUME NEW i \in DOMAIN signals', LastOf(i, p)'
        PROVE  i \in DOMAIN signals /\ signals'[i] = signals[i] /\ LastOf(i, p)
    <2>1. i # new
      BY <1>1, <1>2 DEF LastOf
    <2> QED
      BY <1>1, <1>2, <2>1 DEF LastOf
  <1>3. (\A i \in DOMAIN signals' : signals'[i].op # p)
           => \A i \in DOMAIN signals : signals[i].op # p
    BY <1>1
  <1>4. \A i \in DOMAIN signals' : LastOf(i, p)' /\ signals'[i].by = "pool"
           => signals'[i].status = results'[p]
    BY <1>2 DEF Told
  <1> QED
    BY <1>3, <1>4 DEF Told

\* A task that tells of its operation tells what it has just written.
LEMMA ToldOfThis ==
    ASSUME WorkerTypes, NEW o \in Operations, NEW signal \in Shown, signal.op = o,
           signals' = Append(signals, signal),
           signal.by = "pool" => signal.status = results'[o]
    PROVE  Told(o)'
  <1> DEFINE new == Len(signals) + 1
  <1>1. /\ \A i \in DOMAIN signals' : i # new => i \in DOMAIN signals /\ new > i
        /\ new \in DOMAIN signals' /\ signals'[new] = signal
    BY SignalAdded DEF WorkerTypes
  <1>2. \A i \in DOMAIN signals' : LastOf(i, o)' => i = new
    BY <1>1 DEF LastOf
  <1> QED
    BY <1>1, <1>2 DEF Told

\* The end of a task keeps what is shown true of its operation.
LEMMA ShownOfTask ==
    ASSUME WorkerTypes, ResultsAgree, OnlyKnown, OneRestore, ShownInv, Unseen, TaskEnds
    PROVE  ShownInv'
  <1>1. PICK o \in Operations : TaskEffect(o)
    BY TaskEndsEffect
  <1>2. /\ UNCHANGED <<monitor, target, watched, unknownId, deferredId, displaced, overtaken>>
        /\ (IsShutdown' <=> IsShutdown)
        /\ \A p \in Operations \ {o} : results'[p] = results[p]
    BY <1>1 DEF TaskEffect, Writes, Changes, IsShutdown, Unseen, viewVars, slotVars, historyVars
  <1> SUFFICES ASSUME watched, ~IsShutdown, NEW p \in Operations, ~Announced(p)'
               PROVE  Told(p)'
    BY <1>2 DEF ShownInv, Told
  <1>3. CASE running.do # "restore"
    <2>1. Tells(o) /\ answer' = answer
      BY <1>1, <1>3 DEF TaskEffect
    <2>2. Told(p)
      BY <1>2, <2>1 DEF ShownInv, Announced, Told
    <2>3. CASE signals' = signals /\ results' = results
      BY <1>2, <2>2, <2>3 DEF Told, LastOf
    <2>4. CASE \E status \in Statuses : /\ signals' = Append(signals, Signal(o, status, "pool"))
                                        /\ results'[o] = status
      <3>1. PICK status \in Statuses : /\ signals' = Append(signals, Signal(o, status, "pool"))
                                       /\ results'[o] = status
        BY <2>4
      <3>2. Signal(o, status, "pool") \in Shown /\ Signal(o, status, "pool").op = o
            /\ Signal(o, status, "pool").status = status
        BY EmitTypes DEF Signal
      <3>3. CASE p = o
        BY <3>1, <3>2, <3>3, ToldOfThis
      <3>4. CASE p # o
        BY <1>2, <2>2, <3>1, <3>2, <3>4, ToldOfOther
      <3> QED
        BY <3>3, <3>4
    <2> QED
      BY <2>1, <2>3, <2>4 DEF Tells
  <1>4. CASE running.do = "restore"
    <2>1. target = o /\ monitor = "wait" /\ answer = "none" /\ signals' = signals
      BY <1>1, <1>4 DEF TaskEffect, OneRestore
    <2>2. ~Announced(p)
      BY <2>1 DEF Announced, Statuses, Final
    <2>3. Told(p)
      BY <2>2 DEF ShownInv, Told
    <2>4. results'[p] = results[p]
      BY <1>1, <1>2, <1>4, <2>1 DEF TaskEffect, Restores, Announced
    <2> QED
      BY <1>2, <2>1, <2>3, <2>4 DEF Told, LastOf
  <1> QED
    BY <1>3, <1>4

\* The presenter takes a signal.
LEMMA ShownCompleted ==
    ASSUME WorkerTypes, ViewTypes, MonitorAssumption, FinalStays, ShownInv, Completed
    PROVE  ShownInv'
  <1> DEFINE signal == Head(signals)
  <1>1. /\ signals' = Tail(signals) /\ signal \in Shown /\ 1 \in DOMAIN signals
        /\ signal = signals[1]
        /\ \A i \in DOMAIN signals' : /\ i \in Nat /\ i + 1 \in DOMAIN signals /\ i + 1 > 1
                                      /\ signals'[i] = signals[i + 1]
        /\ \A i \in DOMAIN signals : i \in Nat /\ (i # 1 => i - 1 \in DOMAIN signals')
    BY SignalTaken DEF Completed, WorkerTypes
  <1>2. /\ UNCHANGED <<monitor, target, answer, watched, results>> /\ (IsShutdown' <=> IsShutdown)
        /\ overtaken' = IF signal.by = "monitor" /\ signal.status # results[signal.op]
                        THEN overtaken \cup {signal.op} ELSE overtaken \ {signal.op}
        /\ displaced' = (displaced \cup ({unknownId, deferredId} \ {"none"})) \ {signal.op}
    BY DEF Completed, Displace, monitorVars, planVars, IsShutdown
  <1>3. /\ unknownId' # "none" => unknownId' = signal.op /\ signal.status = "unknown"
        /\ deferredId' # "none" => deferredId' = signal.op /\ signal.status = "deferred"
        /\ signal.status = "unknown" => unknownId' = signal.op
        /\ signal.status = "deferred" => deferredId' = signal.op
    BY DEF Completed, ShowCompleted, ShowUnknown, ShowDeferred, ShowFailed, Forget
  <1> SUFFICES ASSUME watched, ~IsShutdown, NEW p \in Operations, ~Announced(p)
               PROVE  Told(p)'
    BY <1>2 DEF ShownInv, Told, Announced
  <1>4. Told(p)
    BY DEF ShownInv, Told
  <1>5. \A i \in DOMAIN signals' : LastOf(i, p)' => LastOf(i + 1, p)
    <2> SUFFICES ASSUME NEW i \in DOMAIN signals', LastOf(i, p)',
                        NEW j \in DOMAIN signals, j > i + 1
                 PROVE  signals[j].op # p
      BY <1>1 DEF LastOf
    <2>1. j - 1 \in DOMAIN signals' /\ j - 1 > i /\ (j - 1) + 1 = j
      BY <1>1
    <2> QED
      BY <1>1, <2>1 DEF LastOf
  <1>6. \A i \in DOMAIN signals' : LastOf(i, p)' /\ signals'[i].by = "pool"
           => signals'[i].status = results'[p]
    BY <1>1, <1>2, <1>4, <1>5 DEF Told
  <1> SUFFICES ASSUME \A i \in DOMAIN signals' : signals'[i].op # p
               PROVE  /\ unknownId' = p => results[p] = "unknown" \/ p \in overtaken'
                      /\ deferredId' = p => results[p] = "deferred" \/ p \in overtaken'
                      /\ results[p] \in {"unknown", "deferred"}
                            => p \in {unknownId', deferredId'} \cup displaced'
    BY <1>2, <1>6 DEF Told
  <1>7. \A j \in DOMAIN signals : j > 1 => signals[j].op # p
    <2> SUFFICES ASSUME NEW j \in DOMAIN signals, j > 1 PROVE signals[j].op # p
      OBVIOUS
    <2>1. j - 1 \in DOMAIN signals' /\ (j - 1) + 1 = j
      BY <1>1
    <2> QED
      BY <1>1, <2>1
  <1>8. p # "none"
    BY MonitorAssumption
  <1>9. CASE signal.op # p
    <2>1. \A i \in DOMAIN signals : signals[i].op # p
      BY <1>1, <1>7, <1>9
    <2> QED
      BY <1>2, <1>3, <1>4, <1>8, <1>9, <2>1 DEF Told
  <1>10. CASE signal.op = p
    <2>1. signal.by = "pool" => signal.status = results[p]
      BY <1>1, <1>4, <1>7, <1>10 DEF Told, LastOf
    <2>2. signal.status # results[p] => p \in overtaken'
      BY <1>1, <1>2, <1>10, <2>1 DEF Shown
    <2>3. signal.status \in Final => results[p] = signal.status
      BY <1>1, <1>10 DEF FinalStays
    <2>4. signal.status \in Final \/ signal.status \in {"unknown", "deferred"}
      BY <1>1 DEF Shown, Statuses
    <2>5. results[p] \in {"unknown", "deferred"} => signal.status \in {"unknown", "deferred"}
      BY <2>3, <2>4 DEF Final
    <2> QED
      BY <1>3, <1>8, <1>10, <2>2, <2>5
  <1> QED
    BY <1>9, <1>10

\* So does every step.
LEMMA ShownStep ==
    ASSUME WorkerTypes, ViewTypes, ResultsAgree, OnlyKnown, FinalStays, QueryFirst,
           OneRestore, ShownInv, EntryNext
    PROVE  ShownInv'
  <1>1. CASE Unseen /\ TaskEnds
    BY <1>1, ShownOfTask
  <1>2. CASE Completed
    BY <1>2, MonitorAssumption, ShownCompleted
  <1>3. ASSUME UNCHANGED <<signals, results, watched, unknownId, deferredId, displaced, overtaken>>,
               ~IsShutdown' => ~IsShutdown,
               ~IsShutdown' => \A o \in Operations : Announced(o) => Announced(o)'
        PROVE  ShownInv'
    BY <1>3 DEF ShownInv, LastOf
  <1>4. CASE Unseen /\ (TaskBegins \/ QueryEnds \/ Launch)
    <2>1. \A o \in Operations : Announced(o) => Announced(o)'
      BY <1>4 DEF TaskBegins, QueryEnds, Launch, monitorVars, Announced, QueryFirst
    <2> QED
      BY <1>3, <1>4, <2>1 DEF TaskBegins, QueryEnds, Launch, Unseen, viewVars, slotVars,
                              historyVars, planVars, IsShutdown
  <1>5. CASE Unseen /\ MonitorStep /\ ~EmitRestored
    <2>1. ~IsShutdown => \A o \in Operations : Announced(o) => Announced(o)'
      <3>1. {"error", "canceled", "not_ready"} \cap Statuses = {}
        BY DEF Statuses, Final
      <3> QED
        BY <1>5, <3>1 DEF MonitorStep, Scan, Mark, SubmitRestore, NextRound, MonitorEnds,
                          TakeAnswer, NotReady, Restored, RestoreFails, Announced
    <2> QED
      BY <1>3, <1>5, <2>1 DEF MonitorStep, Scan, Mark, SubmitRestore, NextRound, MonitorEnds,
                              TakeAnswer, Unseen, viewVars, slotVars, historyVars, planVars,
                              IsShutdown
  <1>6. CASE Unseen /\ EmitRestored
    <2>1. /\ UNCHANGED <<results, watched, unknownId, deferredId, displaced, overtaken>>
          /\ (IsShutdown' <=> IsShutdown)
          /\ Emit(target, answer, "monitor") /\ target \in Operations /\ answer \in Statuses
      BY <1>6 DEF EmitRestored, Unseen, viewVars, slotVars, historyVars, planVars, IsShutdown,
                  OneRestore
    <2> SUFFICES ASSUME watched, ~IsShutdown, NEW p \in Operations PROVE Told(p)'
      BY <2>1 DEF ShownInv, Told
    <2> DEFINE signal == Signal(target, answer, "monitor")
    <2>2. /\ signals' = Append(signals, signal) /\ signal \in Shown /\ signal.op = target
          /\ signal.by # "pool"
      BY <2>1, EmitTypes DEF Emit, Signal
    <2>3. CASE p = target
      BY <2>1, <2>2, <2>3, ToldOfThis
    <2>4. CASE p # target
      <3>1. Told(p)
        BY <2>4 DEF ShownInv, Told, Announced
      <3> QED
        BY <2>1, <2>2, <2>4, <3>1, ToldOfOther
    <2> QED
      BY <2>3, <2>4
  <1>7. CASE Unseen /\ (ShutdownStep \/ Flag)
    <2>1. IsShutdown'
      BY <1>7 DEF ShutdownStep, CancelFutures, ReadThread, JoinMonitor, Flag, IsShutdown
    <2> QED
      BY <2>1 DEF ShownInv
  <1>8. CASE Unseen /\ (PrivateEvent \/ StreamsChange)
    BY <1>3, <1>8 DEF PrivateEvent, StreamsChange, monitorVars, Announced, Unseen, viewVars,
                      slotVars, historyVars, planVars, IsShutdown
  <1>9. CASE Select \/ ArmQuery \/ ArmDeferred \/ ArmSelected
    BY <1>3, <1>9 DEF Select, ArmQuery, ArmDeferred, ArmSelected, workerVars, monitorVars,
                      planVars, Announced, slotVars, historyVars, IsShutdown
  <1>10. CASE Confirm \/ PlanExpires
    BY <1>3, <1>10 DEF Confirm, PlanExpires, monitorVars, planVars, Announced, viewVars,
                       slotVars, historyVars, IsShutdown
  <1> QED
    BY <1>1, <1>2, <1>4, <1>5, <1>6, <1>7, <1>8, <1>9, <1>10, StepCases

-----------------------------------------------------------------------------
(* The invariant, and what it says of every behaviour.                     *)

LEMMA EntryStart == EntryInit => EntryInv
  <1> SUFFICES ASSUME EntryInit PROVE EntryInv
    OBVIOUS
  <1> USE DEF EntryInit, WorkerInit
  <1>1. tasks = <<>> \/ tasks = <<Job("query", "none", FALSE)>>
    BY DEF BeginRecovery
  <1>2. Job("query", "none", FALSE) \in Jobs
    BY DEF Job, Jobs, Plan
  <1>3. tasks \in Seq(Jobs) /\ signals \in Seq(Shown)
    <2>1. \A job \in Jobs : <<job>> \in Seq(Jobs)
      OBVIOUS
    <2>2. <<>> \in Seq(Jobs) /\ <<>> \in Seq(Shown)
      BY EmptySeq
    <2>3. signals = <<>>
      OBVIOUS
    <2> QED
      BY <1>1, <1>2, <2>1, <2>2, <2>3
  <1>4. WorkerTypes
    <2>1. completion \in {"none", "running"} /\ spent \in [events : Nat, errors : Nat]
      BY DEF BeginRecovery
    <2> QED
      BY <1>3, <2>1 DEF WorkerTypes, Plan
  <1>5. ViewTypes /\ ResultsAgree /\ PreparedInv
    BY DEF ViewTypes, ResultsAgree, PreparedInv, Plan, Final
  <1>6. /\ \A i \in DOMAIN tasks : tasks[i].do = "query" /\ i = 1
        /\ (\E i \in DOMAIN tasks : tasks[i].do = "query") <=> completion = "running"
        /\ completion \in {"none", "running"}
    BY DEF BeginRecovery, Job
  <1>7. OnlyKnown /\ FinalStays /\ QueryFirst /\ OneRestore /\ OneStarts
    BY <1>6 DEF OnlyKnown, Follows, FinalStays, QueryFirst, OneRestore, OneStarts, NoJob, Job,
                Final
  <1>8. RecoveryInv /\ EndingInv
    BY <1>6 DEF RecoveryInv, EndingInv, Unanswered
  <1>9. ShownInv
    <2>1. \A o \in Operations : o # "none" /\ results[o] = "none"
      BY MonitorAssumption
    <2> QED
      BY <2>1 DEF ShownInv
  <1> QED
    BY <1>4, <1>5, <1>7, <1>8, <1>9 DEF EntryInv

LEMMA EntrySteps ==
    ASSUME EntryInv, [EntryNext]_entryVars
    PROVE  EntryInv'
  <1> USE DEF EntryInv
  <1>1. CASE EntryNext
    <2>1. WorkerTypes' /\ ViewTypes' /\ ResultsAgree'
      BY <1>1, TypesStep
    <2>2. OnlyKnown' /\ FinalStays' /\ QueryFirst'
      BY <1>1, KnownStep, FinalStep, QueryStep
    <2>3. OneRestore' /\ RecoveryInv' /\ OneStarts'
      BY <1>1, RestoreStep, RecoveryStep, StartsStep
    <2>4. PreparedInv' /\ ShownInv' /\ EndingInv'
      BY <1>1, PreparedStep, ShownStep, EndingStep
    <2> QED
      BY <2>1, <2>2, <2>3, <2>4
  <1>2. CASE UNCHANGED entryVars
    <2>1. UNCHANGED <<workerVars, offered, viewVars, clicks, historyVars>>
      BY <1>2 DEF entryVars
    <2>2. /\ UNCHANGED <<journalled, results, restored, uncertain, watched, streamsUp, tasks,
                         running, monitor, target, answer, remaining, waiting, recovering>>
          /\ UNCHANGED <<completion, ending, signals, spent, offered, selected, armed,
                         unknownId, deferredId, confirmButton, clicks, prepared>>
          /\ UNCHANGED <<displaced, overtaken, together>>
      BY <2>1 DEF workerVars, planVars, queueVars, monitorVars, viewVars, slotVars, historyVars
    <2>3. WorkerTypes' /\ ViewTypes' /\ ResultsAgree'
      BY <2>2 DEF WorkerTypes, ViewTypes, ResultsAgree
    <2>4. OnlyKnown' /\ FinalStays' /\ QueryFirst'
      BY <2>2 DEF OnlyKnown, Known, Follows, FinalStays, QueryFirst, IsShutdown
    <2>5. OneRestore' /\ RecoveryInv' /\ OneStarts'
      BY <2>2 DEF OneRestore, RecoveryInv, Unanswered, OneStarts, IsShutdown, Unfinished
    <2>6. PreparedInv' /\ ShownInv' /\ EndingInv'
      BY <2>2 DEF PreparedInv, Excused, ShownInv, Announced, LastOf, EndingInv, IsShutdown
    <2> QED
      BY <2>3, <2>4, <2>5, <2>6
  <1> QED
    BY <1>1, <1>2

\* The inductive invariant holds in every state.
THEOREM EntryInvariance == EntrySpec => []EntryInv
  BY EntryStart, EntrySteps, PTL DEF EntrySpec

\* Once the recovery has ended well, the coordinator holds every plan of the
\* journal and no plan is left in _recovering_ids, whatever had to wait for the
\* streams and whatever the user and private events did meanwhile.
THEOREM RecoveryIsComplete == EntrySpec => []RecoveryLeavesNoPlan
  <1>1. EntryInv => RecoveryLeavesNoPlan
    BY DEF EntryInv, RecoveryInv, RecoveryLeavesNoPlan
  <1> QED
    BY <1>1, EntryInvariance, PTL

\* No plan is started beside an unfinished one, also when events, the recovery and
\* the user's clicks race for the pool.
THEOREM PlansStartAlone == EntrySpec => []StartsAlone
  <1>1. EntryInv => StartsAlone
    BY DEF EntryInv, OneStarts, StartsAlone
  <1> QED
    BY <1>1, EntryInvariance, PTL

\* At rest the user can go on with every plan that is unfinished, and the buttons
\* act on unfinished plans, for any number of plans.
THEOREM UserReachesPlans == EntrySpec => []UnfinishedIsReachable
  <1>1. EntryInv => UnfinishedIsReachable
    <2> SUFFICES ASSUME EntryInv, AtRest PROVE UnfinishedIsReachable
      BY DEF UnfinishedIsReachable
    <2> USE DEF EntryInv
    <2>1. \A o \in Operations : Told(o)
      <3>1. \A o \in Operations : ~Announced(o)
        BY DEF AtRest, Announced
      <3> QED
        BY <3>1 DEF AtRest, ShownInv, Told
    <2>2. ASSUME NEW o \in Operations
          PROVE  /\ unknownId = o => results[o] = "unknown" \/ o \in overtaken
                 /\ deferredId = o => results[o] = "deferred" \/ o \in overtaken
                 /\ results[o] \in {"unknown", "deferred"}
                       => o \in {unknownId, deferredId} \cup displaced
      <3>1. \A i \in DOMAIN signals : signals[i].op # o
        BY DEF AtRest
      <3> QED
        BY <2>1, <3>1 DEF Told
    <2>3. ASSUME completion \notin {"none", "error"}, spent.errors = 0, NEW o \in Unfinished
          PROVE  o \in {unknownId, deferredId} \cup displaced
      <3>1. completion = "result" /\ ~IsShutdown
        BY <2>3 DEF AtRest, WorkerTypes, QueryFirst
      <3>2. results[o] # "none"
        BY <2>3, <3>1 DEF RecoveryInv
      <3>3. o \in Operations /\ results[o] \notin Final
        BY <2>3 DEF Unfinished, ResultsAgree
      <3>4. results[o] \in {"unknown", "deferred"}
        BY <3>2, <3>3 DEF WorkerTypes, Statuses
      <3> QED
        BY <2>2, <3>3, <3>4
    <2>4. unknownId \in {"none"} \cup Unfinished \cup overtaken
      <3> SUFFICES ASSUME unknownId # "none" PROVE unknownId \in Unfinished \cup overtaken
        OBVIOUS
      <3>1. unknownId \in Operations
        BY DEF ViewTypes, Plan
      <3> QED
        BY <2>2, <3>1 DEF ResultsAgree, Unfinished
    <2>5. deferredId \in {"none"} \cup overtaken
                         \cup {o \in Operations : journalled[o] = "confirm"}
      <3> SUFFICES ASSUME deferredId # "none"
                   PROVE  deferredId \in overtaken
                              \cup {o \in Operations : journalled[o] = "confirm"}
        OBVIOUS
      <3>1. deferredId \in Operations
        BY DEF ViewTypes, Plan
      <3> QED
        BY <2>2, <3>1 DEF ResultsAgree
    <2> QED
      BY <2>3, <2>4, <2>5 DEF UnfinishedIsReachable
  <1> QED
    BY <1>1, EntryInvariance, PTL

\* The second click sends the plan that the first prepared, however many results
\* arrive between them.
THEOREM ClickSendsWhatWasPrepared == EntrySpec => OpensWhatWasPrepared
  <1> DEFINE Sent == armed /\ ~armed' /\ tasks' # tasks =>
                        \/ Last(tasks').op = prepared
                        \/ prepared \in displaced \/ results[prepared] = "failed"
  <1>1. ASSUME EntryInv, EntryNext PROVE Sent
    <2> SUFFICES ASSUME armed, ~armed', tasks' # tasks PROVE Sent
      OBVIOUS
    <2>1. Confirm
      <3>1. ~Unseen
        BY DEF Unseen, viewVars
      <3>2. ~(Select \/ ArmQuery \/ ArmDeferred \/ ArmSelected \/ Completed \/ PlanExpires)
        BY DEF Select, ArmQuery, ArmDeferred, ArmSelected, Completed, PlanExpires, workerVars,
               queueVars, viewVars
      <3> QED
        BY <1>1, <3>1, <3>2, StepCases
    <2>2. PreparedInv /\ ViewTypes /\ tasks \in Seq(Jobs)
      BY <1>1 DEF EntryInv, WorkerTypes
    <2>3. ASSUME NEW o \in Operations, NEW do \in {"start", "resume"},
                 Submit(Job(do, o, FALSE))
          PROVE  Last(tasks').op = o
      <3>1. Job(do, o, FALSE) \in Jobs /\ Job(do, o, FALSE).op = o
        BY JobTypes DEF Job
      <3> QED
        BY <2>2, <2>3, <3>1, JobAdded DEF Submit
    <2>4. CASE deferredId # "none"
      <3>1. deferredId \in Operations /\ prepared = deferredId
        BY <2>1, <2>2, <2>4 DEF Confirm, PreparedInv, ViewTypes, Plan
      <3> QED
        BY <2>1, <2>3, <2>4, <3>1 DEF Confirm
    <2>5. CASE deferredId = "none"
      <3>1. selected # "none" /\ Submit(Job("start", selected, FALSE))
        BY <2>1, <2>5 DEF Confirm, queueVars
      <3>2. selected \in Operations /\ Last(tasks').op = selected
        BY <2>2, <2>3, <3>1 DEF ViewTypes, Plan
      <3>3. prepared = selected \/ Excused
        BY <2>1, <2>2, <2>5, <3>1 DEF Confirm, PreparedInv
      <3> QED
        BY <3>2, <3>3 DEF Excused
    <2> QED
      BY <2>4, <2>5
  <1>2. EntryInv /\ [EntryNext]_entryVars => [Sent]_entryVars
    BY <1>1
  <1> QED
    BY <1>2, EntryInvariance, PTL DEF EntrySpec, OpensWhatWasPrepared

\* A shutdown that has returned, and what it leaves.
Returned == ending = "done"
Over == /\ ending = "done" /\ running = NoJob /\ tasks = <<>>
        /\ monitor \in {"none", "ended"} /\ completion # "running"

\* Once shutdown has returned, nothing of the worker runs or waits to run, whoever
\* waited for the recovery has been answered, and it stays so: the safety part of
\* ShutdownReturns.
THEOREM ShutdownIsFinal == EntrySpec => [](Returned => []Over)
  <1>1. EntryInv /\ Returned => Over
    BY DEF EntryInv, EndingInv, QueryFirst, Returned, Over, NoJob, Job
  <1>2. EntryInv /\ Over /\ [EntryNext]_entryVars => ending' = "done"
    <2> SUFFICES ASSUME EntryInv, Over, EntryNext PROVE ending' = "done"
      BY DEF Over, entryVars, workerVars
    <2>1. CASE TaskEnds \/ TaskBegins \/ QueryEnds \/ Launch
      BY <2>1 DEF TaskEnds, RestoreEnds, EventEnds, StartEnds, ResumeEnds, TaskBegins,
                  QueryEnds, Launch, Over
    <2>2. CASE MonitorStep
      BY <2>2 DEF MonitorStep, Scan, Mark, SubmitRestore, NextRound, MonitorEnds, TakeAnswer,
                  EmitRestored, Over
    <2>3. CASE ShutdownStep \/ Flag \/ PrivateEvent \/ StreamsChange
      BY <2>3 DEF ShutdownStep, CancelFutures, ReadThread, JoinMonitor, Flag, PrivateEvent,
                  StreamsChange, Over
    <2>4. CASE Select \/ ArmQuery \/ ArmDeferred \/ ArmSelected \/ Confirm \/ Completed
               \/ PlanExpires
      BY <2>4, UserMoves DEF EntryInv, Over
    <2> QED
      BY <2>1, <2>2, <2>3, <2>4, StepCases
  <1>3. EntryInv' /\ ending' = "done" => Over'
    BY <1>1 DEF Returned, EntryInv, EndingInv, QueryFirst, Over, NoJob, Job
  <1>4. EntryInv /\ EntryInv' /\ Over /\ [EntryNext]_entryVars => Over'
    BY <1>2, <1>3
  <1> QED
    BY <1>1, <1>4, EntryInvariance, PTL DEF EntrySpec

=============================================================================
