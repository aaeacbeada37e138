------------------------ MODULE ExecutionWorkerProofs ------------------------
(***************************************************************************)
(* Lemmas about ExecutionWorker for the proofs of the two executors: the   *)
(* orders an exchange has had, what each call of the service does to what  *)
(* its caller reads, what is asked for an id, and which ids are at rest.   *)
(***************************************************************************)
EXTENDS ExecutionWorker, OrderServiceProofs

-----------------------------------------------------------------------------
(* Orders of the past *)

\* A past order is an order; a terminal one is what the exchange holds for good.
LEMMA PastFacts ==
    ASSUME TypeOK, NEW k \in Keys, NEW order \in Past(k)
    PROVE  /\ order \in Orders /\ order # NoOrder /\ market[k] # NoOrder
           /\ IsTerminal(order) => order = market[k]
  <1>1. market[k] \in Orders \cup {NoOrder}
    BY DEF TypeOK
  <1> QED
    BY <1>1, OrderTypes DEF Past, IsTerminal

\* An order of the past stays one while the exchange goes on, and a terminal
\* order stays as it is.
LEMMA PastGrows ==
    ASSUME IInv, ExchangeStep, NEW k \in Keys
    PROVE  /\ Past(k) \subseteq Past(k)'
           /\ IsTerminal(market[k]) => market'[k] = market[k]
           /\ creates'[k] = << >> <=> creates[k] = << >>
  <1>1. /\ creates \in [Keys -> Seq(Outcomes)]
        /\ market \in [Keys -> Orders \cup {NoOrder}]
    BY DEF IInv, TypeOK
  <1>2. PICK i \in Keys : Accept(i) \/ Refuse(i) \/ Lose(i) \/ Trade(i) \/ Cancel(i)
    BY DEF ExchangeStep, ExchangeNext
  <1>3. CASE Accept(i) \/ Refuse(i) \/ Lose(i)
    <2>1. PICK n \in 1..Len(creates[i]), s \in {"accepted", "refused", "lost"} :
            /\ creates[i][n] = "flying"
            /\ creates' = [creates EXCEPT ![i][n] = s]
            /\ \/ market' = [market EXCEPT ![i] = Ack]
               \/ market' = market
      BY <1>3 DEF Accept, Refuse, Lose
    <2>2. market[i] = NoOrder
      BY <2>1, FlyingIsLast
    <2>3. market'[k] = market[k] \/ market[k] = NoOrder
      BY <1>1, <2>1, <2>2
    <2>4. creates'[k] = << >> <=> creates[k] = << >>
      BY <1>1, <2>1
    <2> QED
      BY <2>3, <2>4, NoOrderNotTerminal DEF Past
  <1>4. CASE Trade(i) \/ Cancel(i)
    <2>1. /\ creates' = creates
          /\ market[i].status = "new" /\ market[i] \in Orders
          /\ \A j \in Keys \ {i} : market'[j] = market[j]
      BY <1>1, <1>4, OrderTypes DEF Trade, Cancel, NoOrder
    <2>2. \A o \in Orders : o.filled \in Nat
      <3> SUFFICES ASSUME NEW o \in Orders PROVE o.filled \in Nat
        OBVIOUS
      <3>1. o.filled \in Fills
        BY DEF Orders
      <3>2. Fills \subseteq Nat
        BY ServiceAssumption
      <3> QED
        BY <3>1, <3>2
    <2>3. /\ market'[i] \in Orders /\ market'[i].filled >= market[i].filled
      <3>1. CASE Trade(i)
        BY <1>1, <2>1, <2>2, <3>1 DEF Trade
      <3>2. CASE Cancel(i)
        <4>1. market'[i] = [market[i] EXCEPT !.status = "canceled"]
          BY <1>1, <3>2 DEF Cancel
        <4>2. market'[i] \in Orders /\ market'[i].filled = market[i].filled
          BY <2>1, <4>1 DEF Orders
        <4> QED
          BY <2>1, <2>2, <4>2
      <3> QED
        BY <1>4, <3>1, <3>2
    <2>4. CASE k = i
      <3>1. ASSUME NEW o \in Past(k) PROVE o \in Past(k)'
        <4>1. o \in Orders /\ o.status = "new" /\ o.filled <= market[k].filled
          BY <2>1, <2>2, <2>4, <3>1, OrderTypes DEF Past
        <4>2. o.filled \in Int /\ market[k].filled \in Int /\ market'[k].filled \in Int
          BY <2>1, <2>2, <2>4, <2>3, <4>1
        <4>3. o.filled <= market'[k].filled
          BY <2>4, <2>3, <4>1, <4>2
        <4> QED
          BY <2>4, <2>3, <4>1, <4>3, OrderTypes DEF Past
      <3> QED
        BY <2>1, <2>4, <3>1 DEF IsTerminal
    <2>5. CASE k # i
      BY <2>1, <2>5 DEF Past
    <2> QED
      BY <2>4, <2>5
  <1> QED
    BY <1>2, <1>3, <1>4

\* A snapshot that the reconciler keeps is one of the two.
LEMMA ReconciledPast ==
    ASSUME NEW k \in Keys, NEW held \in Past(k) \cup {NoOrder}, NEW incoming \in Past(k),
           NEW kept \in Reconciled(held, incoming)
    PROVE  kept \in Past(k)
  BY DEF Reconciled

-----------------------------------------------------------------------------
(* What the calls of the service do, as far as their caller depends on it *)

\* The pool is the only thread of the service, the plan its only operation.
LEMMA OnePlan == Plan \in Ops /\ Pool \in Threads
  BY WorkerAssumption

\* The journal holds the contexts of before or of now.
Writes == journal'.contexts \in {journal.contexts, contexts'}

\* A journal write that is made, or fails, is one of these two.
LEMMA JournalWrites ==
    ASSUME Persisted \/ WriteFails(Pool)
    PROVE  Writes
  BY DEF Persisted, WriteFails, Writes

\* A call that is over, and with an order only if it is one the caller may have.
Over(reply, order) == call'[Pool] = Stage("done", "none", 0, order, {}, reply)

\* What is done is over.
LEMMA DoneOver ==
    ASSUME TypeOK, NEW reply, NEW order, Done(Pool, reply, order)
    PROVE  Over(reply, order)
  BY OnePlan DEF Done, Over, TypeOK

\* So is a call whose journal write fails.
LEMMA FailsOver ==
    ASSUME TypeOK, WriteFails(Pool)
    PROVE  Over("oserror", NoOrder) /\ faults' = faults + 1
  BY DoneOver DEF WriteFails

\* submit and confirm_and_submit change no order, and no context but its flag.
LEMMA SubmitEffect ==
    ASSUME TypeOK, NEW r \in Requests,
           Submit(Pool, r) \/ ConfirmAndSubmit(Pool, r, Plan)
    PROVE  /\ UNCHANGED <<exchangeVars, orders, uncertain, restarts>>
           /\ \/ call'[Pool] = Stage("create", r.key, 0, NoOrder, {}, "none")
              \/ call'[Pool] = Stage("query", r.key, 0, NoOrder, {}, "none")
              \/ Over("order", orders[r.key]) /\ orders[r.key] # NoOrder
              \/ \E reply \in Results \ {"order"} : Over(reply, NoOrder)
           /\ \/ contexts' = contexts
              \/ /\ contexts[Plan] # NoContext
                 /\ contexts' = [contexts EXCEPT ![Plan].confirm = FALSE]
           /\ Writes
  <1>1. Pool \in Threads /\ Plan \in Ops /\ call \in [Threads -> Calls]
    BY OnePlan DEF TypeOK
  <1>2. {"invalid", "duplicate", "unprepared", "keyerror", "oserror"} \subseteq Results \ {"order"}
    BY DEF Results
  <1>3. ASSUME Claim(Pool, r)
        PROVE  /\ UNCHANGED <<exchangeVars, orders, uncertain, restarts>> /\ Writes
               /\ \/ call'[Pool] = Stage("create", r.key, 0, NoOrder, {}, "none")
                  \/ Over("oserror", NoOrder)
    BY <1>1, <1>3, JournalWrites, FailsOver DEF Claim, Creating
  <1>4. ASSUME Submit(Pool, r)
        PROVE  /\ UNCHANGED <<exchangeVars, orders, uncertain, restarts>> /\ Writes
               /\ contexts' = contexts
               /\ \/ call'[Pool] = Stage("create", r.key, 0, NoOrder, {}, "none")
                  \/ call'[Pool] = Stage("query", r.key, 0, NoOrder, {}, "none")
                  \/ Over("order", orders[r.key]) /\ orders[r.key] # NoOrder
                  \/ \E reply \in Results \ {"order"} : Over(reply, NoOrder)
    <2>1. CASE SubmitConflict(Pool, r) \/ SubmitKnown(Pool, r) \/ SubmitDuplicate(Pool, r)
               \/ SubmitUnprepared(Pool, r) \/ SubmitQuery(Pool, r)
      BY <1>1, <1>2, <2>1, DoneOver
         DEF SubmitConflict, SubmitKnown, SubmitDuplicate, SubmitUnprepared, SubmitQuery,
             Querying, Writes, memory
    <2>2. CASE SubmitClaim(Pool, r)
      BY <1>2, <1>3, <2>2 DEF SubmitClaim
    <2> QED
      BY <1>4, <2>1, <2>2 DEF Submit
  <1>5. CASE ConfirmRefused(Pool, r, Plan)
    BY <1>2, <1>5, DoneOver DEF ConfirmRefused, Writes, memory
  <1>6. CASE ConfirmClaim(Pool, r, Plan)
    BY <1>2, <1>3, <1>6 DEF ConfirmClaim, CanConfirm, NoContext
  <1> QED
    BY <1>4, <1>5, <1>6 DEF ConfirmAndSubmit

\* record replaces the order of its leg and nothing else the caller reads.
LEMMA RecordEffect ==
    ASSUME TypeOK, NEW k \in Keys, NEW order, Record(Pool, k, order)
    PROVE  /\ UNCHANGED <<exchangeVars, contexts, restarts>>
           /\ orders' = [orders EXCEPT ![k] = order]
           /\ Over("none", NoOrder) \/ Over("oserror", NoOrder)
           /\ Writes
  BY JournalWrites, DoneOver, FailsOver DEF Record

\* refresh begins a query of its leg, or refuses its quantity.
LEMMA RefreshEffect ==
    ASSUME TypeOK, NEW r \in Requests, Refresh(Pool, r)
    PROVE  /\ UNCHANGED <<exchangeVars, orders, contexts, journal, restarts>>
           /\ \/ call'[Pool] = Stage("query", r.key, 0, NoOrder, {}, "none")
              \/ Over("unprepared", NoOrder)
           /\ Writes
  BY OnePlan, DoneOver DEF Refresh, Querying, Writes, TypeOK

\* recover_pending begins with the query of some id.
LEMMA PendingEffect ==
    ASSUME TypeOK, RecoverPending(Pool)
    PROVE  /\ UNCHANGED <<exchangeVars, memory, journal, restarts, faults>>
           /\ \E k \in Keys, batch \in SUBSET Keys :
                 call'[Pool] = Stage("query", k, 0, NoOrder, batch, "none")
  BY OnePlan DEF RecoverPending, Querying, TypeOK

\* The operations on the context change no order and no other variable that the
\* caller reads.
LEMMA ContextCall ==
    ASSUME TypeOK, NEW kind \in Kinds, NEW batch \in SUBSET Requests,
           \/ RegisterContext(Pool, Plan, kind, batch)
           \/ CompleteContext(Pool, Plan)
           \/ SetConfirmationRequired(Pool, Plan)
    PROVE  /\ UNCHANGED <<exchangeVars, orders, restarts>>
           /\ \E reply \in {"none", "invalid", "oserror"} : Over(reply, NoOrder)
           /\ Writes
           /\ RegisterContext(Pool, Plan, kind, batch) =>
                 \/ contexts' = contexts /\ contexts[Plan].kind \notin {"none", kind}
                 \/ contexts' = [contexts EXCEPT ![Plan] = [kind |-> kind,
                                    requests |-> batch, confirm |-> contexts[Plan].confirm]]
           /\ CompleteContext(Pool, Plan) => contexts'[Plan] = NoContext
           /\ SetConfirmationRequired(Pool, Plan) =>
                 \/ contexts' = contexts /\ contexts[Plan] = NoContext
                 \/ /\ contexts[Plan] # NoContext
                    /\ contexts' = [contexts EXCEPT ![Plan].confirm = TRUE]
  <1>1. Plan \in Ops /\ contexts \in [Ops -> Contexts \cup {NoContext}]
    BY OnePlan DEF TypeOK
  <1>2. CASE RegisterContext(Pool, Plan, kind, batch)
    BY <1>1, <1>2, JournalWrites, DoneOver, FailsOver
       DEF RegisterContext, Writes, CompleteContext, SetConfirmationRequired
  <1>3. CASE CompleteContext(Pool, Plan)
    BY <1>1, <1>3, JournalWrites, DoneOver, FailsOver
       DEF RegisterContext, Writes, CompleteContext, SetConfirmationRequired
  <1>4. CASE SetConfirmationRequired(Pool, Plan)
    BY <1>1, <1>4, JournalWrites, DoneOver, FailsOver
       DEF RegisterContext, Writes, CompleteContext, SetConfirmationRequired
  <1> QED
    BY <1>2, <1>3, <1>4

\* A return leaves everything but the thread, which is idle again.
LEMMA ReturnEffect ==
    ASSUME TypeOK, Return(Pool)
    PROVE  /\ UNCHANGED <<exchangeVars, memory, journal, restarts, faults>>
           /\ call'[Pool] = Idle
  BY OnePlan DEF Return, TypeOK

\* An order that was accepted has a past, of which its acknowledgement is part.
LEMMA AcceptedHasPast ==
    ASSUME IInv, call[Pool].phase = "sent", OutcomeOf(Pool) = "accepted"
    PROVE  {Ack, market[call[Pool].key]} \subseteq Past(call[Pool].key)
  <1> DEFINE k == call[Pool].key
  <1>1. /\ k \in Keys /\ creates \in [Keys -> Seq(Outcomes)]
        /\ call[Pool].attempt = Len(creates[k]) /\ call[Pool].attempt > 0
    BY OnePlan DEF IInv, CallInv, ThreadInv, TypeOK
  <1>2. call[Pool].attempt \in 1..Len(creates[k])
    <2>1. Len(creates[k]) \in Nat
      BY <1>1
    <2> QED
      BY <1>1, <2>1
  <1>3. market[k] # NoOrder /\ market[k] \in Orders
    BY <1>1, <1>2 DEF IInv, MarketInv, TypeOK, OutcomeOf
  <1>4. market[k].filled \in Nat
    BY <1>3, ServiceAssumption DEF Orders
  <1>5. Ack.filled <= market[k].filled
    BY <1>4 DEF Ack
  <1> QED
    BY <1>3, <1>5, OrderTypes DEF Past, Ack

\* The answer to a query on its way is an order the exchange has had.
AskedPast == call[Pool].phase = "asked" =>
    call[Pool].order \in Past(call[Pool].key) \cup {NoOrder}

\* A call inside the service learns an order of the past, sends a create request
\* or a query, or returns; the caller's contexts stay as they are.
LEMMA ServiceEffect ==
    ASSUME IInv, AskedPast, InService
    PROVE  LET k == call[Pool].key IN
           /\ k \in Keys /\ call[Pool].phase \in {"create", "sent", "query", "asked"}
           /\ UNCHANGED <<market, contexts, restarts, worker>>
           /\ Writes
           /\ \/ UNCHANGED creates
              \/ call[Pool].phase = "create" /\ SendCreate(k)
           /\ \/ orders' = orders
              \/ \E order \in Past(k) : orders' = [orders EXCEPT ![k] = order]
           /\ \/ /\ call[Pool].phase = "create"
                 /\ \E n \in Nat : call'[Pool] = Stage("sent", k, n, NoOrder, {}, "none")
              \/ /\ call[Pool].phase = "sent"
                 /\ call'[Pool] = Stage("query", k, 0, NoOrder, {}, "none")
              \/ /\ call[Pool].phase = "query"
                 /\ call'[Pool] = Stage("asked", k, 0, market[k], call[Pool].batch, "none")
              \/ /\ call[Pool].phase = "asked" /\ call[Pool].batch # {}
                 /\ \E j \in call[Pool].batch :
                      call'[Pool] = Stage("query", j, 0, NoOrder, call[Pool].batch \ {j}, "none")
              \/ \E order \in Past(k) :
                   Over("order", order) /\ orders' = [orders EXCEPT ![k] = order]
              \/ \E reply \in Results \ {"order"} : Over(reply, NoOrder)
  <1> DEFINE k == call[Pool].key
  <1>1. /\ Pool \in Threads /\ call \in [Threads -> Calls] /\ TypeOK
        /\ creates \in [Keys -> Seq(Outcomes)]
    BY OnePlan DEF IInv, TypeOK
  <1>2. call[Pool].phase \in {"create", "sent", "query", "asked"} /\ k \in Keys
    <2>1. call[Pool].phase \in {"create", "sent", "query", "asked"}
      BY DEF InService, CreateSend, CreateReturned, CreateMismatched, CreateUnreadable,
             CreateRefused, CreateUnclear, QuerySend, QueryReturned, QueryMismatched,
             QueryFailed
    <2> QED
      BY <1>1, <2>1 DEF IInv, CallInv, ThreadInv
  <1>3. {"invalid", "refused", "unknown", "oserror"} \subseteq Results \ {"order"}
    BY DEF Results
  <1>4. CASE CreateSend(Pool)
    <2>1. Len(creates[k]) + 1 \in Nat
      BY <1>1, <1>2
    <2> QED
      BY <1>1, <1>2, <1>4, <2>1 DEF CreateSend, SendCreate, memory, Writes, InService
  <1>5. CASE CreateReturned(Pool)
    <2>1. PICK order \in {Ack, market[k]} :
            /\ orders' = [orders EXCEPT ![k] = order]
            /\ UNCHANGED <<exchangeVars, contexts, restarts>>
            /\ \/ Persisted /\ Done(Pool, "order", order)
               \/ WriteFails(Pool)
      BY <1>5 DEF CreateReturned
    <2>2. order \in Past(k)
      BY <1>5, <2>1, AcceptedHasPast DEF CreateReturned
    <2> QED
      BY <1>1, <1>2, <1>3, <2>1, <2>2, JournalWrites, DoneOver, FailsOver
         DEF exchangeVars, InService
  <1>6. CASE CreateMismatched(Pool)
    BY <1>1, <1>2, <1>6 DEF CreateMismatched, Querying, exchangeVars, Writes, InService
  <1>7. CASE CreateUnreadable(Pool) \/ QueryMismatched(Pool)
    BY <1>1, <1>2, <1>3, <1>7, DoneOver
       DEF CreateUnreadable, QueryMismatched, exchangeVars, memory, Writes, InService
  <1>8. CASE CreateRefused(Pool)
    BY <1>1, <1>2, <1>3, <1>8, JournalWrites, DoneOver, FailsOver
       DEF CreateRefused, exchangeVars, InService
  <1>9. CASE CreateUnclear(Pool)
    <2>1. \/ call'[Pool] = Stage("query", k, 0, NoOrder, {}, "none")
          \/ Over("oserror", NoOrder)
      BY <1>1, <1>9, FailsOver DEF CreateUnclear, Querying
    <2>2. Writes /\ call[Pool].phase = "sent"
      BY <1>9, JournalWrites DEF CreateUnclear
    <2> QED
      BY <1>2, <1>3, <1>9, <2>1, <2>2 DEF CreateUnclear, exchangeVars, InService
  <1>10. CASE QuerySend(Pool)
    BY <1>1, <1>2, <1>10 DEF QuerySend, exchangeVars, memory, Writes, InService
  <1>11. ASSUME NEW reply, NEW order, NextQuery(Pool, reply, order)
         PROVE  \/ call[Pool].batch = {} /\ Over(reply, order)
                \/ /\ call[Pool].batch # {}
                   /\ \E j \in call[Pool].batch :
                      call'[Pool] = Stage("query", j, 0, NoOrder, call[Pool].batch \ {j}, "none")
    BY <1>1, <1>11, DoneOver DEF NextQuery, Querying
  <1>12. CASE QueryReturned(Pool)
    <2>1. call[Pool].order \in Past(k) /\ call[Pool].phase = "asked"
      BY <1>12 DEF QueryReturned, AskedPast
    <2>2. /\ orders' = [orders EXCEPT ![k] = call[Pool].order]
          /\ UNCHANGED <<exchangeVars, contexts, restarts, worker>>
          /\ \/ Persisted /\ NextQuery(Pool, "order", call[Pool].order)
             \/ WriteFails(Pool)
      BY <1>12 DEF QueryReturned, InService
    <2>3. Writes
      BY <2>2, JournalWrites
    <2>4. CASE NextQuery(Pool, "order", call[Pool].order)
      BY <1>2, <1>11, <2>1, <2>2, <2>3, <2>4 DEF exchangeVars
    <2>5. CASE WriteFails(Pool)
      BY <1>1, <1>2, <1>3, <2>1, <2>2, <2>3, <2>5, FailsOver DEF exchangeVars
    <2> QED
      BY <2>2, <2>4, <2>5
  <1>13. CASE QueryFailed(Pool)
    <2>1. NextQuery(Pool, "unknown", NoOrder) /\ call[Pool].phase = "asked"
      BY <1>13 DEF QueryFailed
    <2> QED
      BY <1>2, <1>3, <1>11, <1>13, <2>1 DEF QueryFailed, exchangeVars, Writes, InService
  <1> QED
    BY <1>4, <1>5, <1>6, <1>7, <1>8, <1>9, <1>10, <1>12, <1>13 DEF InService

\* Of these answers, an order that is asked for is the exchange's, and one that is
\* returned has just been recorded.
LEMMA ServiceAnswer ==
    ASSUME IInv, AskedPast, InService
    PROVE  LET k == call[Pool].key IN
           /\ call'[Pool].phase = "asked" =>
                 call'[Pool] = Stage("asked", k, 0, market[k], call[Pool].batch, "none")
           /\ call'[Pool].phase = "done" /\ call'[Pool].result = "order" =>
                 \E order \in Past(k) :
                    Over("order", order) /\ orders' = [orders EXCEPT ![k] = order]
  <1> DEFINE k == call[Pool].key
  <1>1. CASE \E order \in Past(k) :
                Over("order", order) /\ orders' = [orders EXCEPT ![k] = order]
    <2>1. call'[Pool].phase = "done"
      BY <1>1 DEF Over, Stage
    <2> QED
      BY <1>1, <2>1
  <1>2. CASE \E reply \in Results \ {"order"} : Over(reply, NoOrder)
    BY <1>2 DEF Over, Stage
  <1>3. CASE call'[Pool] = Stage("asked", k, 0, market[k], call[Pool].batch, "none")
    BY <1>3 DEF Stage
  <1>4. CASE \E phase \in {"sent", "query"} : \E j, n, batch :
                call'[Pool] = Stage(phase, j, n, NoOrder, batch, "none")
    BY <1>4 DEF Stage
  <1> QED
    BY <1>1, <1>2, <1>3, <1>4, ServiceEffect

-----------------------------------------------------------------------------
(* What is asked for an id *)

\* A quantity that was rounded down is a multiple of the step.
LEMMA PreparedTwice ==
    ASSUME NEW q \in Nat
    PROVE  Prepared(q) \in Nat /\ Prepared(Prepared(q)) = Prepared(q)
  <1> DEFINE s == QuantityStep
             n == q \div s
  <1>1. s \in Nat \ {0}
    BY ServiceAssumption
  <1>2. n \in Nat /\ q % s \in Nat /\ q = s * n + (q % s)
    BY <1>1
  <1>3. Prepared(q) = s * n /\ s * n \in Nat
    BY <1>1, <1>2 DEF Prepared
  <1> HIDE DEF s, n
  <1>4. (s * n) % s = 0
    BY <1>1, <1>2
  <1> QED
    BY <1>1, <1>2, <1>3, <1>4 DEF Prepared, s

\* Most steps only ever drop what is pending.
Shrinks == /\ requests' = requests
           /\ \A k \in Keys : submitted'[k] \in {submitted[k], NoRequest}
           /\ journal'.orders \in {journal.orders, submitted'}

\* Nothing is added by a step that adds nothing to what is pending.
LEMMA WriteShrinks ==
    ASSUME TypeOK, requests' = requests, Persisted \/ WriteFails(Pool) \/ journal' = journal,
           \A k \in Keys : submitted'[k] \in {submitted[k], NoRequest}
    PROVE  Shrinks
  BY DEF Persisted, WriteFails, Shrinks

\* A terminal order at most ends a pending entry.
LEMMA FinishShrinks ==
    ASSUME TypeOK, NEW k \in Keys, NEW order, FinishIfTerminal(k, order)
    PROVE  \A i \in Keys : submitted'[i] \in {submitted[i], NoRequest}
  BY DEF FinishIfTerminal, TypeOK, Pending

\* A call that is inside the service asks for nothing new.
LEMMA InServiceShrinks ==
    ASSUME IInv, InService
    PROVE  Shrinks /\ attempted' = attempted
  <1> DEFINE k == call[Pool].key
  <1>1. TypeOK /\ (call[Pool].phase \in {"create", "sent", "query", "asked"} => k \in Keys)
    BY OnePlan DEF IInv, CallInv, ThreadInv
  <1>2. CASE CreateSend(Pool) \/ CreateUnreadable(Pool) \/ QuerySend(Pool)
             \/ QueryMismatched(Pool)
    BY <1>2 DEF CreateSend, CreateUnreadable, QuerySend, QueryMismatched, memory, Shrinks
  <1>3. CASE CreateMismatched(Pool) \/ QueryFailed(Pool) \/ CreateUnclear(Pool)
    BY <1>1, <1>3, WriteShrinks DEF CreateMismatched, QueryFailed, CreateUnclear
  <1>4. CASE CreateReturned(Pool)
    <2>1. PICK order : /\ FinishIfTerminal(k, order) /\ UNCHANGED <<requests, attempted>>
                       /\ Persisted \/ WriteFails(Pool)
      BY <1>4 DEF CreateReturned
    <2> QED
      BY <1>1, <1>4, <2>1, FinishShrinks, WriteShrinks DEF CreateReturned
  <1>5. CASE CreateRefused(Pool)
    <2>1. \A i \in Keys : submitted'[i] \in {submitted[i], NoRequest}
      BY <1>1, <1>5 DEF CreateRefused, TypeOK, Pending
    <2> QED
      BY <1>1, <1>5, <2>1, WriteShrinks DEF CreateRefused
  <1>6. CASE QueryReturned(Pool)
    BY <1>1, <1>6, FinishShrinks, WriteShrinks DEF QueryReturned
  <1> QED
    BY <1>2, <1>3, <1>4, <1>5, <1>6 DEF InService

\* So do record and the operations on the context.
LEMMA CallShrinks ==
    ASSUME TypeOK,
           \/ \E k \in Keys : \E order : Record(Pool, k, order)
           \/ \E kind, batch : RegisterContext(Pool, Plan, kind, batch)
           \/ CompleteContext(Pool, Plan)
    PROVE  Shrinks /\ attempted' = attempted
  <1>1. CASE \E k \in Keys : \E order : Record(Pool, k, order)
    BY <1>1, FinishShrinks, WriteShrinks DEF Record
  <1>2. CASE \E kind, batch : RegisterContext(Pool, Plan, kind, batch)
    BY <1>2, WriteShrinks DEF RegisterContext
  <1>3. CASE CompleteContext(Pool, Plan)
    <2>1. \A k \in Keys : submitted'[k] \in {submitted[k], NoRequest}
      BY <1>3 DEF CompleteContext
    <2> QED
      BY <1>3, <2>1, WriteShrinks DEF CompleteContext
  <1> QED
    BY <1>1, <1>2, <1>3

\* A submission asks for the quantity of its leg, rounded down.
Asks(k, q) ==
    /\ \A i \in Keys \ {k} : requests'[i] = requests[i] /\ submitted'[i] = submitted[i]
    /\ requests'[k] \in {requests[k], q}
    /\ submitted'[k] = submitted[k] \/ (submitted'[k] = Prepared(q) /\ requests'[k] = q)
    /\ journal'.orders \in {journal.orders, submitted'}

\* The claim binds and pends its own id only.
LEMMA SubmitAsks ==
    ASSUME TypeOK, NEW r \in Requests, Submit(Pool, r)
    PROVE  Asks(r.key, r.quantity)
  <1>1. requests \in Pending /\ submitted \in Pending /\ r.key \in Keys
    BY DEF TypeOK, Requests
  <1>2. CASE SubmitConflict(Pool, r) \/ SubmitKnown(Pool, r) \/ SubmitDuplicate(Pool, r)
             \/ SubmitQuery(Pool, r) \/ SubmitUnprepared(Pool, r)
    BY <1>1, <1>2 DEF SubmitConflict, SubmitKnown, SubmitDuplicate, SubmitQuery,
                      SubmitUnprepared, memory, Asks, Pending
  <1>3. CASE SubmitClaim(Pool, r)
    BY <1>1, <1>3 DEF SubmitClaim, Claim, Persisted, WriteFails, Asks, Pending
  <1> QED
    BY <1>2, <1>3 DEF Submit

-----------------------------------------------------------------------------
(* Which ids are at rest *)

\* The exchange settles ids and ends orders, never the reverse.
LEMMA ExchangeRests ==
    ASSUME IInv, ExchangeStep, NEW k \in Keys
    PROVE  /\ Settled(k) => Settled(k)'
           /\ MaybeLive(k)' => MaybeLive(k)
  <1>1. /\ creates \in [Keys -> Seq(Outcomes)]
        /\ market \in [Keys -> Orders \cup {NoOrder}]
    BY DEF IInv, TypeOK
  <1>2. PICK i \in Keys : Accept(i) \/ Refuse(i) \/ Lose(i) \/ Trade(i) \/ Cancel(i)
    BY DEF ExchangeStep, ExchangeNext
  <1>3. CASE Accept(i) \/ Refuse(i) \/ Lose(i)
    <2>1. PICK n \in 1..Len(creates[i]), s \in {"accepted", "refused", "lost"} :
            /\ creates[i][n] = "flying"
            /\ creates' = [creates EXCEPT ![i][n] = s]
            /\ \/ market' = [market EXCEPT ![i] = Ack]
               \/ market' = market
      BY <1>3 DEF Accept, Refuse, Lose
    <2>2. MaybeLive(i) /\ ~Settled(i)
      BY <2>1, FlyingIsLast
    <2>3. k # i => creates'[k] = creates[k] /\ market'[k] = market[k]
      BY <1>1, <2>1
    <2> QED
      BY <2>2, <2>3 DEF Settled, MaybeLive
  <1>4. CASE Trade(i) \/ Cancel(i)
    <2>1. /\ creates' = creates /\ ~IsTerminal(market[i])
          /\ \A j \in Keys \ {i} : market'[j] = market[j]
      BY <1>1, <1>4 DEF Trade, Cancel, IsTerminal
    <2> QED
      BY <2>1 DEF Settled, MaybeLive
  <1> QED
    BY <1>2, <1>3, <1>4

\* A create request that the exchange refused leaves its id settled.
LEMMA RefusedIsSettled ==
    ASSUME IInv, CreateRefused(Pool)
    PROVE  call[Pool].key \in Keys /\ Settled(call[Pool].key)
  <1> DEFINE k == call[Pool].key
  <1>1. /\ k \in Keys /\ creates \in [Keys -> Seq(Outcomes)]
        /\ call[Pool].phase = "create" => Settled(k)
        /\ call[Pool].phase = "sent" => call[Pool].attempt = Len(creates[k])
        /\ call[Pool].phase \in {"create", "sent"}
    BY OnePlan DEF IInv, CallInv, ThreadInv, TypeOK, CreateRefused
  <1>2. CASE call[Pool].phase = "sent"
    <2>1. creates[k][Len(creates[k])] = "refused" /\ Len(creates[k]) \in Nat
      BY <1>1, <1>2 DEF CreateRefused, OutcomeOf
    <2>2. \A n \in 1..Len(creates[k]) - 1 : creates[k][n] = "refused"
      BY <1>1 DEF IInv, AtMostOneLiveCreate
    <2> QED
      BY <1>1, <2>1, <2>2 DEF Settled
  <1> QED
    BY <1>1, <1>2

\* While the exchange creates nothing, what is settled stays so.
LEMMA SettledStays ==
    ASSUME UNCHANGED exchangeVars
    PROVE  \A k : (Settled(k)' <=> Settled(k)) /\ (MaybeLive(k)' <=> MaybeLive(k))
  BY DEF exchangeVars, Settled, MaybeLive

\* An id of the plan that was never attempted is settled.
LEMMA FreshIsSettled ==
    ASSUME IInv, NEW k \in Keys, NamedIn(Plan, k), k \notin attempted
    PROVE  Settled(k)
  BY OnePlan DEF IInv, AttemptInv, NamedIn, InSomeContext

\* An attempted id whose outcome is not open, and that has no order, was refused.
SettledInv == \A k \in Keys :
    /\ k \in attempted /\ orders[k] = NoOrder /\ k \notin uncertain
    /\ ~(call[Pool].phase \in {"create", "sent"} /\ call[Pool].key = k)
    => Settled(k)

\* The answers of a submission that has failed.
Failures == {"refused", "invalid", "duplicate", "unprepared"}

\* A call inside the service settles an id by a refusal only, and answers a
\* failure only then.
LEMMA ServiceSettles ==
    ASSUME IInv, AskedPast, SettledInv, InService, Garbled = FALSE, NEW k, k = call[Pool].key
    PROVE  /\ call'[Pool].phase = "done" /\ call'[Pool].result \in Failures =>
                 Settled(k)' /\ k \in attempted'
           /\ SettledInv'
  <1>1. /\ IInv /\ TypeOK /\ SettledInv /\ AskedPast
        /\ Pool \in Threads /\ call \in [Threads -> Calls]
        /\ orders \in [Keys -> Orders \cup {NoOrder}]
        /\ k \in Keys /\ call[Pool].phase \in {"create", "sent", "query", "asked"}
    BY OnePlan, ServiceEffect DEF IInv, TypeOK
  <1>2. attempted' = attempted
    BY <1>1, InServiceShrinks
  <1>3. {"order", "unknown", "oserror"} \cap Failures = {}
    BY DEF Failures
  <1>4. ASSUME NEW reply \in {"order", "unknown", "oserror"}, NEW order, Over(reply, order)
        PROVE  call'[Pool].result \notin Failures /\ call'[Pool].phase = "done"
    BY <1>3, <1>4 DEF Over, Stage
  <1>5. CASE CreateSend(Pool)
    <2>1. /\ call'[Pool].phase = "sent" /\ call'[Pool].key = k
          /\ UNCHANGED <<orders, uncertain>>
          /\ \A i \in Keys \ {k} : creates'[i] = creates[i]
      BY <1>1, <1>5 DEF CreateSend, SendCreate, memory, Stage, TypeOK
    <2> QED
      BY <1>1, <1>2, <2>1 DEF SettledInv, Settled
  <1>6. ASSUME UNCHANGED exchangeVars,
               \/ Settled(k)
               \/ orders'[k] # NoOrder
               \/ k \in uncertain',
               \A i \in Keys \ {k} : /\ orders'[i] = orders[i]
                                     /\ i \in uncertain' <=> i \in uncertain
        PROVE  SettledInv'
    BY <1>1, <1>2, <1>6, SettledStays DEF SettledInv
  <1>7. CASE CreateReturned(Pool)
    <2>1. PICK order \in {Ack, market[k]} :
            /\ orders' = [orders EXCEPT ![k] = order]
            /\ \A i \in Keys \ {k} : i \in uncertain' <=> i \in uncertain
            /\ UNCHANGED exchangeVars
            /\ \/ Done(Pool, "order", order)
               \/ WriteFails(Pool)
      BY <1>7 DEF CreateReturned
    <2>2. order # NoOrder
      BY <1>1, <1>7, <2>1, AcceptedHasPast, PastFacts DEF CreateReturned
    <2>3. Over("order", order) \/ Over("oserror", NoOrder)
      BY <1>1, <2>1, DoneOver, FailsOver
    <2> QED
      BY <1>1, <1>4, <1>6, <2>1, <2>2, <2>3
  <1>8. CASE CreateRefused(Pool)
    <2>1. Settled(k) /\ UNCHANGED <<exchangeVars, orders, uncertain>>
      BY <1>1, <1>8, RefusedIsSettled DEF CreateRefused
    <2>2. Settled(k)'
      BY <2>1, SettledStays
    <2>3. SettledInv'
      BY <1>6, <2>1
    <2>4. k \in attempted'
      BY <1>1, <1>2, <1>8 DEF CreateRefused, IInv, CallInv, ThreadInv
    <2> QED
      BY <2>2, <2>3, <2>4
  <1>9. CASE CreateUnclear(Pool)
    <2>1. /\ uncertain' = uncertain \cup {k} /\ UNCHANGED <<exchangeVars, orders>>
          /\ \/ call'[Pool] = Stage("query", k, 0, NoOrder, {}, "none")
             \/ Over("oserror", NoOrder)
      BY <1>1, <1>9, FailsOver DEF CreateUnclear, Querying
    <2>2. SettledInv'
      BY <1>6, <2>1
    <2>3. CASE Over("oserror", NoOrder)
      BY <1>4, <2>2, <2>3
    <2>4. CASE call'[Pool] = Stage("query", k, 0, NoOrder, {}, "none")
      BY <2>2, <2>4 DEF Stage
    <2> QED
      BY <2>1, <2>3, <2>4
  <1>10. CASE QuerySend(Pool)
    <2>1. /\ UNCHANGED <<exchangeVars, orders, uncertain>>
          /\ call[Pool].phase = "query" /\ call'[Pool].phase = "asked"
      BY <1>1, <1>10 DEF QuerySend, memory, Stage
    <2> QED
      BY <1>1, <1>2, <2>1, SettledStays DEF SettledInv
  <1>11. ASSUME NEW reply \in {"order", "unknown"}, NEW order, NextQuery(Pool, reply, order)
         PROVE  call'[Pool].phase = "done" => call'[Pool].result \notin Failures
    <2>1. \/ Over(reply, order)
          \/ \E j : call'[Pool] = Stage("query", j, 0, NoOrder, call[Pool].batch \ {j}, "none")
      BY <1>1, <1>11, DoneOver DEF NextQuery, Querying
    <2>2. CASE Over(reply, order)
      BY <1>4, <1>11, <2>2
    <2>3. CASE \E j : call'[Pool] = Stage("query", j, 0, NoOrder, call[Pool].batch \ {j}, "none")
      BY <2>3 DEF Stage
    <2> QED
      BY <2>1, <2>2, <2>3
  <1>12. CASE QueryReturned(Pool)
    <2>1. /\ orders' = [orders EXCEPT ![k] = call[Pool].order] /\ call[Pool].order # NoOrder
          /\ uncertain' = uncertain \ {k} /\ UNCHANGED exchangeVars
          /\ \/ NextQuery(Pool, "order", call[Pool].order)
             \/ WriteFails(Pool)
      BY <1>12 DEF QueryReturned
    <2>2. call'[Pool].phase = "done" => call'[Pool].result \notin Failures
      BY <1>1, <1>4, <1>11, <2>1, FailsOver
    <2> QED
      BY <1>1, <1>6, <2>1, <2>2
  <1>13. CASE QueryFailed(Pool)
    <2>1. /\ uncertain' = uncertain \cup {k} /\ UNCHANGED <<exchangeVars, orders>>
          /\ NextQuery(Pool, "unknown", NoOrder)
      BY <1>13 DEF QueryFailed
    <2> QED
      BY <1>6, <1>11, <2>1
  <1> QED
    BY <1>5, <1>7, <1>8, <1>9, <1>10, <1>12, <1>13
       DEF InService, CreateMismatched, CreateUnreadable, QueryMismatched
=============================================================================
