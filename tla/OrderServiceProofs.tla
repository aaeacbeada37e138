-------------------------- MODULE OrderServiceProofs --------------------------
(***************************************************************************)
(* Proofs about OrderService, for any sets of ids, operations and threads  *)
(* and any number of restarts and failed journal writes.                   *)
(***************************************************************************)
EXTENDS OrderService, TLAPS

-----------------------------------------------------------------------------
(* What a step of thread t does to call *)

\* A stage built from typed parts is a call.
LEMMA StageType ==
    ASSUME NEW phase \in Phases, NEW k \in Keys \cup {"none"}, NEW n \in Nat,
           NEW order \in Orders \cup {NoOrder}, NEW batch \in SUBSET Keys,
           NEW result \in Results
    PROVE  Stage(phase, k, n, order, batch, result) \in Calls
  BY DEF Stage, Calls

\* Done leaves its thread about to return, and the other threads alone.
LEMMA DoneCall ==
    ASSUME call \in [Threads -> Calls], NEW t \in Threads,
           NEW result \in Results, NEW order \in Orders \cup {NoOrder},
           Done(t, result, order)
    PROVE  /\ call' \in [Threads -> Calls]
           /\ call'[t].phase = "done"
           /\ \A u \in Threads \ {t} : call'[u] = call[u]
  <1>1. Stage("done", "none", 0, order, {}, result) \in Calls
    BY StageType DEF Phases
  <1> QED
    BY <1>1 DEF Done, Stage

\* Creating leaves its thread about to send a create request for k.
LEMMA CreatingCall ==
    ASSUME call \in [Threads -> Calls], NEW t \in Threads, NEW k \in Keys,
           Creating(t, k)
    PROVE  /\ call' \in [Threads -> Calls]
           /\ call'[t].phase = "create" /\ call'[t].key = k
           /\ \A u \in Threads \ {t} : call'[u] = call[u]
  <1>1. Stage("create", k, 0, NoOrder, {}, "none") \in Calls
    BY StageType DEF Phases, Results
  <1> QED
    BY <1>1 DEF Creating, Stage

\* Querying leaves its thread about to query k.
LEMMA QueryingCall ==
    ASSUME call \in [Threads -> Calls], NEW t \in Threads, NEW k \in Keys,
           NEW batch \in SUBSET Keys, Querying(t, k, batch)
    PROVE  /\ call' \in [Threads -> Calls]
           /\ call'[t].phase = "query" /\ call'[t].key = k
           /\ \A u \in Threads \ {t} : call'[u] = call[u]
  <1>1. Stage("query", k, 0, NoOrder, batch, "none") \in Calls
    BY StageType DEF Phases, Results
  <1> QED
    BY <1>1 DEF Querying, Stage

\* After a query, a thread is done or goes on to the next id of its batch.
LEMMA NextQueryCall ==
    ASSUME call \in [Threads -> Calls], NEW t \in Threads,
           NEW result \in Results, NEW order \in Orders \cup {NoOrder},
           NextQuery(t, result, order)
    PROVE  /\ call' \in [Threads -> Calls]
           /\ \/ call'[t].phase = "done"
              \/ call'[t].phase = "query" /\ call'[t].key \in Keys
           /\ \A u \in Threads \ {t} : call'[u] = call[u]
  <1>1. CASE call[t].batch = {}
    BY <1>1, DoneCall DEF NextQuery
  <1>2. CASE call[t].batch # {}
    <2>1. call[t].batch \in SUBSET Keys
      BY DEF Calls
    <2>2. PICK k \in call[t].batch : Querying(t, k, call[t].batch \ {k})
      BY <1>2 DEF NextQuery
    <2> QED
      BY <2>1, <2>2, QueryingCall
  <1> QED
    BY <1>1, <1>2

-----------------------------------------------------------------------------
(* Type correctness *)

\* prepare_order yields a natural number.
LEMMA PreparedType == \A q \in Quantities : q \in Nat /\ Prepared(q) \in Nat
  BY ServiceAssumption DEF Prepared

\* NoContext names no request and is of no kind the program registers.
LEMMA ContextTypes == NoContext.requests = {} /\ NoContext.kind \notin Kinds
  BY DEF NoContext, Kinds

\* An acknowledgement is an order, the absence of one is not.
LEMMA OrderTypes == Ack \in Orders /\ NoOrder \notin Orders
  BY ServiceAssumption DEF Ack, NoOrder, Orders

\* Of a step on one thread, the parts of TypeOK that the step leaves alone.
LEMMA WriteType ==
    ASSUME TypeOK, NEW t \in Threads, NEW order \in Orders \cup {NoOrder},
           NEW result \in Results,
           submitted' \in Pending, contexts' \in [Ops -> Contexts \cup {NoContext}],
           Persisted \/ WriteFails(t)
    PROVE  /\ journal' \in [orders : Pending,
                             contexts : [Ops -> Contexts \cup {NoContext}]]
           /\ faults' \in 0..MaxFaults
  BY ServiceAssumption DEF TypeOK, Persisted, WriteFails

\* A failing journal write leaves its thread about to return.
LEMMA WriteFailsCall ==
    ASSUME call \in [Threads -> Calls], NEW t \in Threads, WriteFails(t)
    PROVE  /\ call' \in [Threads -> Calls]
           /\ call'[t].phase = "done"
           /\ \A u \in Threads \ {t} : call'[u] = call[u]
  <1>1. "oserror" \in Results
    BY DEF Results
  <1> QED
    BY <1>1, DoneCall DEF WriteFails

\* The initial state is typed.
LEMMA InitType == Init => TypeOK
  <1> SUFFICES ASSUME Init PROVE TypeOK
    OBVIOUS
  <1> USE ServiceAssumption DEF Init, ExchangeInit
  <1>1. Idle \in Calls
    BY StageType DEF Idle, Phases, Results
  <1>2. creates \in [Keys -> Seq(Outcomes)]
    OBVIOUS
  <1>3. /\ market \in [Keys -> Orders \cup {NoOrder}]
        /\ orders \in [Keys -> Orders \cup {NoOrder}]
        /\ call \in [Threads -> Calls]
    BY <1>1
  <1>4. /\ requests \in Pending /\ submitted \in Pending
        /\ contexts \in [Ops -> Contexts \cup {NoContext}]
    BY DEF Pending, NoRequest
  <1> QED
    BY <1>2, <1>3, <1>4 DEF TypeOK

\* Steps of the exchange preserve TypeOK.
LEMMA ExchangeType ==
    ASSUME TypeOK, ExchangeStep
    PROVE  TypeOK'
  <1>1. PICK k \in Keys : Accept(k) \/ Refuse(k) \/ Lose(k) \/ Trade(k) \/ Cancel(k)
    BY DEF ExchangeStep, ExchangeNext
  <1>2. creates' \in [Keys -> Seq(Outcomes)]
    <2>1. CASE UNCHANGED creates
      BY <2>1 DEF TypeOK
    <2>2. CASE \E n \in 1..Len(creates[k]), s \in Outcomes :
                 creates' = [creates EXCEPT ![k][n] = s]
      BY <2>2 DEF TypeOK
    <2> QED
      BY <1>1, <2>1, <2>2 DEF Accept, Refuse, Lose, Trade, Cancel, Outcomes
  <1>3. market' \in [Keys -> Orders \cup {NoOrder}]
    <2>1. CASE UNCHANGED market
      BY <2>1 DEF TypeOK
    <2>2. CASE \E order \in Orders : market' = [market EXCEPT ![k] = order]
      BY <2>2 DEF TypeOK
    <2>3. CASE Cancel(k)
      <3>1. market[k] \in Orders
        BY <2>3 DEF Cancel, TypeOK, NoOrder
      <3> QED
        BY <3>1, <2>3 DEF Cancel, Orders, TypeOK
    <2> QED
      BY <1>1, <2>1, <2>2, <2>3, OrderTypes DEF Accept, Refuse, Lose, Trade
  <1> QED
    BY <1>2, <1>3 DEF TypeOK, ExchangeStep, memory

\* submit and confirm_and_submit preserve TypeOK.
LEMMA SubmitType ==
    ASSUME TypeOK, NEW t \in Threads, NEW r \in Requests,
           Submit(t, r) \/ \E o \in Ops : ConfirmAndSubmit(t, r, o)
    PROVE  TypeOK'
  <1> USE DEF TypeOK
  <1>1. r.key \in Keys /\ r.quantity \in Quantities
    BY DEF Requests
  <1>2. r.quantity \in Nat /\ Prepared(r.quantity) \in Nat
    BY <1>1, PreparedType
  <1>3. /\ {"invalid", "order", "duplicate", "unprepared", "keyerror"} \subseteq Results
        /\ orders[r.key] \in Orders \cup {NoOrder}
    BY <1>1 DEF Results
  <1>4. ASSUME NEW result \in Results, NEW order \in Orders \cup {NoOrder},
               Done(t, result, order),
               UNCHANGED <<exchangeVars, memory, journal, restarts, faults>>
        PROVE  TypeOK'
    BY <1>4, DoneCall DEF exchangeVars, memory
  <1>5. ASSUME Claim(t, r), contexts' \in [Ops -> Contexts \cup {NoContext}]
        PROVE  TypeOK'
    <2>1. requests' \in Pending /\ submitted' \in Pending /\ attempted' \subseteq Keys
      BY <1>1, <1>2, <1>5 DEF Claim, Pending
    <2>2. call' \in [Threads -> Calls]
      BY <1>1, <1>5, CreatingCall, WriteFailsCall DEF Claim
    <2> QED
      BY <1>5, <2>1, <2>2, WriteType, <1>3, OrderTypes DEF Claim, exchangeVars
  <1>6. CASE SubmitConflict(t, r) \/ SubmitKnown(t, r) \/ SubmitDuplicate(t, r)
    BY <1>3, <1>4, <1>6 DEF SubmitConflict, SubmitKnown, SubmitDuplicate
  <1>7. CASE SubmitUnprepared(t, r)
    <2>1. requests' \in Pending
      BY <1>1, <1>2, <1>7 DEF SubmitUnprepared, Pending
    <2> QED
      BY <1>3, <1>7, <2>1, DoneCall DEF SubmitUnprepared, exchangeVars
  <1>8. CASE SubmitClaim(t, r)
    BY <1>5, <1>8 DEF SubmitClaim
  <1>9. CASE SubmitQuery(t, r)
    <2>1. CASE Done(t, "keyerror", NoOrder)
      BY <1>3, <1>4, <1>9, <2>1 DEF SubmitQuery
    <2>2. CASE Querying(t, r.key, {})
      BY <1>1, <1>9, <2>2, QueryingCall DEF SubmitQuery, exchangeVars, memory
    <2> QED
      BY <1>9, <2>1, <2>2 DEF SubmitQuery
  <1>10. ASSUME NEW o \in Ops, ConfirmAndSubmit(t, r, o) PROVE TypeOK'
    <2>1. CASE ConfirmRefused(t, r, o)
      BY <1>3, <1>4, <2>1 DEF ConfirmRefused
    <2>2. CASE ConfirmClaim(t, r, o)
      <3>1. contexts[o] \in Contexts
        BY <2>2 DEF ConfirmClaim, CanConfirm, NoContext
      <3>2. [contexts[o] EXCEPT !.confirm = FALSE] \in Contexts
        BY <3>1 DEF Contexts
      <3>3. contexts' = [contexts EXCEPT ![o] = [contexts[o] EXCEPT !.confirm = FALSE]]
        BY <2>2 DEF ConfirmClaim
      <3> QED
        BY <1>5, <2>2, <3>2, <3>3 DEF ConfirmClaim
    <2> QED
      BY <1>10, <2>1, <2>2 DEF ConfirmAndSubmit
  <1> QED
    BY <1>6, <1>7, <1>8, <1>9, <1>10 DEF Submit

\* The steps of _send_prepared preserve TypeOK.
LEMMA CreateType ==
    ASSUME TypeOK, NEW t \in Threads, call[t].phase # "idle" => call[t].key \in Keys,
           \/ CreateSend(t) \/ CreateReturned(t) \/ CreateMismatched(t)
           \/ CreateUnreadable(t) \/ CreateRefused(t) \/ CreateUnclear(t)
    PROVE  TypeOK'
  <1> USE DEF TypeOK
  <1> DEFINE k == call[t].key
  <1>1. k \in Keys
    BY DEF CreateSend, CreateReturned, CreateMismatched, CreateUnreadable,
           CreateRefused, CreateUnclear
  <1>2. /\ {"order", "invalid", "refused"} \subseteq Results
        /\ Ack \in Orders \cup {NoOrder} /\ market[k] \in Orders \cup {NoOrder}
    BY <1>1, OrderTypes DEF Results
  <1>3. CASE CreateSend(t)
    <2>1. Len(creates[k]) + 1 \in Nat
      BY <1>1
    <2>2. Stage("sent", k, Len(creates[k]) + 1, NoOrder, {}, "none") \in Calls
      BY <1>1, <2>1, StageType DEF Phases, Results
    <2>3. call' \in [Threads -> Calls]
      BY <1>3, <2>2 DEF CreateSend
    <2>4. creates' \in [Keys -> Seq(Outcomes)]
      BY <1>1, <1>3 DEF CreateSend, SendCreate, Outcomes
    <2> QED
      BY <1>3, <2>3, <2>4 DEF CreateSend, SendCreate, memory
  <1>4. CASE CreateReturned(t)
    <2>1. PICK order \in {Ack, market[k]} :
            /\ orders' = [orders EXCEPT ![k] = order]
            /\ FinishIfTerminal(k, order)
            /\ uncertain' = IF Finished(k, order) THEN uncertain \ {k} ELSE uncertain
            /\ UNCHANGED <<exchangeVars, requests, attempted, contexts, restarts>>
            /\ \/ Persisted /\ Done(t, "order", order)
               \/ WriteFails(t)
      BY <1>4 DEF CreateReturned
    <2>2. order \in Orders \cup {NoOrder}
      BY <1>2, <2>1
    <2>3. submitted' \in Pending
      BY <1>1, <2>1 DEF FinishIfTerminal, Pending, NoRequest
    <2>4. call' \in [Threads -> Calls]
      BY <1>2, <2>1, <2>2, DoneCall, WriteFailsCall
    <2>5. orders' \in [Keys -> Orders \cup {NoOrder}] /\ uncertain' \subseteq Keys
      BY <2>1, <2>2
    <2>6. contexts' \in [Ops -> Contexts \cup {NoContext}]
      BY <2>1
    <2> QED
      BY <1>2, <2>1, <2>2, <2>3, <2>4, <2>5, <2>6, WriteType DEF exchangeVars
  <1>5. CASE CreateMismatched(t)
    BY <1>1, <1>5, QueryingCall DEF CreateMismatched, exchangeVars
  <1>6. CASE CreateUnreadable(t)
    BY <1>2, <1>6, DoneCall DEF CreateUnreadable, exchangeVars, memory
  <1>7. CASE CreateRefused(t)
    <2>1. submitted' \in Pending
      BY <1>1, <1>7 DEF CreateRefused, Pending, NoRequest
    <2>2. call' \in [Threads -> Calls]
      BY <1>2, <1>7, DoneCall, WriteFailsCall DEF CreateRefused
    <2>3. contexts' \in [Ops -> Contexts \cup {NoContext}]
      BY <1>7 DEF CreateRefused
    <2> QED
      BY <1>2, <1>7, <2>1, <2>2, <2>3, WriteType DEF CreateRefused, exchangeVars
  <1>8. CASE CreateUnclear(t)
    <2>1. submitted' \in Pending /\ contexts' \in [Ops -> Contexts \cup {NoContext}]
      BY <1>8 DEF CreateUnclear
    <2>2. call' \in [Threads -> Calls]
      BY <1>1, <1>8, QueryingCall, WriteFailsCall DEF CreateUnclear
    <2> QED
      BY <1>1, <1>2, <1>8, <2>1, <2>2, WriteType DEF CreateUnclear, exchangeVars
  <1> QED
    BY <1>3, <1>4, <1>5, <1>6, <1>7, <1>8

\* The steps of _recover preserve TypeOK.
LEMMA QueryType ==
    ASSUME TypeOK, NEW t \in Threads, call[t].phase = "asked" => call[t].key \in Keys,
           call[t].phase = "query" => call[t].key \in Keys,
           QuerySend(t) \/ QueryReturned(t) \/ QueryMismatched(t) \/ QueryFailed(t)
    PROVE  TypeOK'
  <1> USE DEF TypeOK
  <1> DEFINE k == call[t].key
             order == call[t].order
  <1>1. k \in Keys /\ call[t].batch \in SUBSET Keys
    BY DEF QuerySend, QueryReturned, QueryMismatched, QueryFailed, Calls
  <1>2. /\ {"order", "invalid", "unknown"} \subseteq Results
        /\ order \in Orders \cup {NoOrder} /\ market[k] \in Orders \cup {NoOrder}
    BY <1>1 DEF Results, Calls
  <1>3. CASE QuerySend(t)
    <2>1. Stage("asked", k, 0, market[k], call[t].batch, "none") \in Calls
      BY <1>1, <1>2, StageType DEF Phases, Results
    <2> QED
      BY <1>3, <2>1 DEF QuerySend, exchangeVars, memory
  <1>4. CASE QueryReturned(t)
    <2>1. submitted' \in Pending /\ contexts' \in [Ops -> Contexts \cup {NoContext}]
      BY <1>1, <1>4 DEF QueryReturned, FinishIfTerminal, Pending, NoRequest
    <2>2. call' \in [Threads -> Calls]
      BY <1>2, <1>4, NextQueryCall, WriteFailsCall DEF QueryReturned
    <2>3. orders' \in [Keys -> Orders \cup {NoOrder}] /\ uncertain' \subseteq Keys
      BY <1>2, <1>4 DEF QueryReturned
    <2> QED
      BY <1>2, <1>4, <2>1, <2>2, <2>3, WriteType DEF QueryReturned, exchangeVars
  <1>5. CASE QueryMismatched(t)
    BY <1>2, <1>5, DoneCall DEF QueryMismatched, exchangeVars, memory
  <1>6. CASE QueryFailed(t)
    BY <1>1, <1>2, <1>6, NextQueryCall DEF QueryFailed, exchangeVars
  <1> QED
    BY <1>3, <1>4, <1>5, <1>6

\* refresh, recover_pending, record and a return preserve TypeOK.
LEMMA OtherCallType ==
    ASSUME TypeOK, NEW t \in Threads,
           \/ \E r \in Requests : Refresh(t, r)
           \/ RecoverPending(t)
           \/ \E k \in Keys : \E order \in Past(k) : Record(t, k, order)
           \/ Return(t)
    PROVE  TypeOK'
  <1> USE DEF TypeOK
  <1>1. /\ {"none", "unprepared"} \subseteq Results
        /\ NoOrder \in Orders \cup {NoOrder}
    BY DEF Results
  <1>2. ASSUME NEW r \in Requests, Refresh(t, r) PROVE TypeOK'
    <2>1. r.key \in Keys /\ r.quantity \in Nat /\ Prepared(r.quantity) \in Nat
      BY PreparedType DEF Requests
    <2>2. requests' \in Pending /\ submitted' \in Pending
      BY <1>2, <2>1 DEF Refresh, Pending
    <2>3. call' \in [Threads -> Calls]
      BY <1>1, <1>2, <2>1, QueryingCall, DoneCall DEF Refresh
    <2> QED
      BY <1>2, <2>2, <2>3 DEF Refresh, exchangeVars
  <1>3. CASE RecoverPending(t)
    BY <1>3, QueryingCall DEF RecoverPending, exchangeVars, memory
  <1>4. ASSUME NEW k \in Keys, NEW order \in Past(k), Record(t, k, order)
        PROVE  TypeOK'
    <2>1. order \in Orders \cup {NoOrder}
      BY <1>4 DEF Past
    <2>2. submitted' \in Pending /\ contexts' \in [Ops -> Contexts \cup {NoContext}]
      BY <1>4 DEF Record, FinishIfTerminal, Pending, NoRequest
    <2>3. call' \in [Threads -> Calls]
      BY <1>1, <1>4, DoneCall, WriteFailsCall DEF Record
    <2>4. orders' \in [Keys -> Orders \cup {NoOrder}] /\ uncertain' \subseteq Keys
      BY <1>4, <2>1 DEF Record
    <2> QED
      BY <1>1, <1>4, <2>2, <2>3, <2>4, WriteType DEF Record, exchangeVars
  <1>5. CASE Return(t)
    <2>1. Idle \in Calls
      BY StageType DEF Idle, Phases, Results
    <2> QED
      BY <1>5, <2>1 DEF Return, exchangeVars, memory
  <1> QED
    BY <1>2, <1>3, <1>4, <1>5

\* The operations on recovery contexts preserve TypeOK.
LEMMA ContextType ==
    ASSUME TypeOK, NEW t \in Threads, NEW o \in Ops,
           \/ \E kind \in Kinds, batch \in SUBSET Requests :
                 RegisterContext(t, o, kind, batch)
           \/ CompleteContext(t, o)
           \/ SetConfirmationRequired(t, o)
    PROVE  TypeOK'
  <1> USE DEF TypeOK
  <1>1. /\ {"none", "invalid"} \subseteq Results
        /\ NoOrder \in Orders \cup {NoOrder}
    BY DEF Results
  <1>2. ASSUME contexts' \in [Ops -> Contexts \cup {NoContext}], submitted' \in Pending,
               \/ UNCHANGED <<journal, faults>> /\ Done(t, "invalid", NoOrder)
               \/ Persisted /\ Done(t, "none", NoOrder)
               \/ WriteFails(t),
               uncertain' \subseteq Keys,
               UNCHANGED <<exchangeVars, requests, orders, attempted, restarts>>
        PROVE  TypeOK'
    <2>1. call' \in [Threads -> Calls]
      BY <1>1, <1>2, DoneCall, WriteFailsCall
    <2> QED
      BY <1>1, <1>2, <2>1, WriteType DEF exchangeVars
  <1>3. ASSUME NEW kind \in Kinds, NEW batch \in SUBSET Requests,
               RegisterContext(t, o, kind, batch)
        PROVE  TypeOK'
    <2>0. contexts[o].confirm \in BOOLEAN
      <3>1. CASE contexts[o] = NoContext
        BY <3>1 DEF NoContext
      <3>2. CASE contexts[o] \in Contexts
        BY <3>2 DEF Contexts
      <3> QED
        BY <3>1, <3>2
    <2>1. [kind |-> kind, requests |-> batch, confirm |-> contexts[o].confirm] \in Contexts
      BY <2>0 DEF Contexts
    <2>2. contexts' \in [Ops -> Contexts \cup {NoContext}]
      BY <1>3, <2>1 DEF RegisterContext
    <2> QED
      BY <1>2, <1>3, <2>2 DEF RegisterContext
  <1>4. CASE CompleteContext(t, o)
    <2>1. contexts' \in [Ops -> Contexts \cup {NoContext}]
      BY <1>4 DEF CompleteContext
    <2>2. submitted' \in Pending
      BY <1>4 DEF CompleteContext, Pending, NoRequest
    <2>3. uncertain' \subseteq Keys
      BY <1>4 DEF CompleteContext
    <2> QED
      BY <1>2, <1>4, <2>1, <2>2, <2>3 DEF CompleteContext
  <1>5. CASE SetConfirmationRequired(t, o)
    <2>1. contexts[o] # NoContext => [contexts[o] EXCEPT !.confirm = TRUE] \in Contexts
      BY DEF Contexts
    <2>2. \/ UNCHANGED contexts
          \/ contexts[o] # NoContext
             /\ contexts' = [contexts EXCEPT ![o] = [contexts[o] EXCEPT !.confirm = TRUE]]
      BY <1>5 DEF SetConfirmationRequired
    <2>3. contexts' \in [Ops -> Contexts \cup {NoContext}]
      BY <2>1, <2>2
    <2> QED
      BY <1>2, <1>5, <2>3 DEF SetConfirmationRequired
  <1> QED
    BY <1>3, <1>4, <1>5

\* A restart preserves TypeOK.
LEMMA RestartType ==
    ASSUME TypeOK, Restart
    PROVE  TypeOK'
  <1>1. Idle \in Calls
    BY StageType DEF Idle, Phases, Results
  <1>2. journal.orders \in Pending /\ journal.contexts \in [Ops -> Contexts \cup {NoContext}]
    BY DEF TypeOK
  <1>3. restarts' \in 0..MaxRestarts
    BY ServiceAssumption DEF TypeOK, Restart
  <1> QED
    BY <1>1, <1>2, <1>3 DEF TypeOK, Restart, exchangeVars

-----------------------------------------------------------------------------
(* The inductive invariant: steps that leave the exchange alone *)

\* Neither the absence of an order nor an acknowledgement is terminal.
LEMMA NoOrderNotTerminal == ~IsTerminal(NoOrder) /\ ~IsTerminal(Ack)
  BY DEF NoOrder, IsTerminal, Ack

\* While every create request of an id was refused, no order of it is known
\* to have ended.
LEMMA SettledNotTerminal ==
    ASSUME MarketInv, NEW k \in Keys, Settled(k)
    PROVE  ~IsTerminal(market[k])
  BY NoOrderNotTerminal DEF MarketInv, Settled

\* What a step of thread t must respect to keep the invariant, when it sends
\* no create request: (a) it moves its own call only, and to a phase it may
\* enter; (b) it drops a pending request only when its order has ended and no
\* context holds it, or when nothing was ever placed; (c) it adds to a context
\* only ids never placed; (d) it forgets no attempt; (e) it believes no order
\* finished that is not; (f) it leaves the journal, or writes what it knows.
MayEnter(t, c) ==
    \/ c.phase \in {"idle", "done"}
    \/ c.phase = "query" /\ c.key \in Keys
    \/ /\ c.phase = "asked" /\ c.key \in Keys
       /\ IsTerminal(c.order) => c.order = market[c.key]
    \/ /\ c.phase = "create" /\ c.key \in Keys
       /\ Settled(c.key) /\ c.key \notin attempted

MayDrop(t, k) ==
    \/ IsTerminal(market[k]) /\ ~InSomeContext(contexts', k)
    \/ Settled(k) /\ \A u \in Threads \ {t} :
                        call[u].phase = "create" => call[u].key # k

\* A step of the service that keeps to these limits preserves IInv.
LEMMA QuietStep ==
    ASSUME IInv, TypeOK', NEW t \in Threads, UNCHANGED exchangeVars,
           \A u \in Threads \ {t} : call'[u] = call[u],
           MayEnter(t, call'[t]),
           call'[t].phase = "create" =>
                /\ submitted'[call'[t].key] # NoRequest
                /\ journal'.orders[call'[t].key] # NoRequest
                /\ call'[t].key \in attempted',
           \A k \in Keys : submitted[k] # NoRequest /\ submitted'[k] = NoRequest
                           => MayDrop(t, k),
           \A k \in Keys : InSomeContext(contexts', k)
                           => InSomeContext(contexts, k) \/ Settled(k),
           \A o, p \in Ops : o # p =>
                KeysOf(contexts'[o]) \cap KeysOf(contexts'[p]) = {},
           attempted \subseteq attempted',
           \A k \in Keys : ~Settled(k) /\ requests'[k] # NoRequest /\ orders'[k] = NoOrder
                => k \in attempted' \/ (requests[k] # NoRequest /\ orders[k] = NoOrder),
           \A k \in Keys : IsTerminal(orders'[k]) => orders'[k] = market[k],
           \/ UNCHANGED journal
           \/ journal' = [orders |-> submitted', contexts |-> contexts']
    PROVE  IInv'
  <1> USE DEF IInv
  <1>1. /\ \A k \in Keys : Settled(k)' <=> Settled(k)
        /\ \A k \in Keys : MaybeLive(k)' <=> MaybeLive(k)
        /\ creates' = creates /\ market' = market
    BY DEF Settled, MaybeLive, exchangeVars
  <1>2. AtMostOneLiveCreate'
    BY <1>1 DEF AtMostOneLiveCreate
  <1>3. MarketInv'
    BY <1>1 DEF MarketInv
  <1>4. TerminalIsTrue'
    BY <1>1 DEF TerminalIsTrue
  <1>5. AttemptInv'
    BY <1>1 DEF AttemptInv
  <1>6. PendingInv(submitted, contexts)'
    <2>1. ASSUME NEW k \in Keys, MaybeLive(k)
          PROVE  submitted'[k] # NoRequest
      BY <2>1 DEF PendingInv, MayDrop, MaybeLive
    <2>2. ASSUME NEW k \in Keys, ~Settled(k), InSomeContext(contexts', k)
          PROVE  submitted'[k] # NoRequest
      BY <2>2 DEF PendingInv, MayDrop
    <2> QED
      BY <1>1, <2>1, <2>2 DEF PendingInv
  <1>7. PendingInv(journal.orders, journal.contexts)'
    <2>1. CASE UNCHANGED journal
      BY <1>1, <2>1 DEF PendingInv
    <2>2. CASE journal' = [orders |-> submitted', contexts |-> contexts']
      BY <1>6, <2>2
    <2> QED
      BY <2>1, <2>2
  <1>8. CallInv'
    <2>1. ThreadInv(t)'
      <3>1. ASSUME NEW u \in Threads \ {t}, call[u].phase \in {"create", "sent"},
                   call'[t].phase = "create"
            PROVE  call[u].key # call'[t].key
        BY <3>1 DEF MayEnter, CallInv, ThreadInv
      <3> QED
        BY <1>1, <3>1 DEF MayEnter, ThreadInv
    <2>2. ASSUME NEW u \in Threads \ {t} PROVE ThreadInv(u)'
      <3> DEFINE k == call[u].key
      <3>1. call'[u] = call[u] /\ ThreadInv(u)
        BY DEF CallInv
      <3>2. ASSUME call[u].phase = "create"
            PROVE  submitted'[k] # NoRequest /\ journal'.orders[k] # NoRequest
        <4>1. k \in Keys /\ Settled(k) /\ submitted[k] # NoRequest
              /\ journal.orders[k] # NoRequest
          BY <3>1, <3>2 DEF ThreadInv
        <4>2. ~MayDrop(t, k)
          BY <3>2, <4>1, SettledNotTerminal DEF MayDrop
        <4> QED
          BY <4>1, <4>2
      <3>3. ASSUME call[u].phase \in {"create", "sent"}, call'[t].phase \in {"create", "sent"}
            PROVE  call'[t].key # k
        BY <3>1, <3>3 DEF MayEnter, ThreadInv
      <3>4. CASE call[u].phase = "create"
        BY <1>1, <3>1, <3>2, <3>3, <3>4 DEF ThreadInv
      <3>5. CASE call[u].phase # "create"
        BY <1>1, <3>1, <3>3, <3>5 DEF ThreadInv
      <3> QED
        BY <3>4, <3>5
    <2> QED
      BY <2>1, <2>2 DEF CallInv
  <1> QED
    BY <1>2, <1>3, <1>4, <1>5, <1>6, <1>7, <1>8

\* A step that changes its call, and uncertain at most.
LEMMA ReadStep ==
    ASSUME IInv, TypeOK', NEW t \in Threads,
           UNCHANGED <<exchangeVars, requests, submitted, orders, attempted, contexts,
                       journal>>,
           \A u \in Threads \ {t} : call'[u] = call[u],
           MayEnter(t, call'[t]), call'[t].phase # "create"
    PROVE  IInv'
  <1>1. UNCHANGED exchangeVars
    OBVIOUS
  <1>2. \A k \in Keys : InSomeContext(contexts', k) <=> InSomeContext(contexts, k)
    BY DEF InSomeContext
  <1>3. \A o, p \in Ops : o # p =>
            KeysOf(contexts'[o]) \cap KeysOf(contexts'[p]) = {}
    BY DEF IInv, PendingInv
  <1>4. \A k \in Keys : IsTerminal(orders'[k]) => orders'[k] = market[k]
    BY DEF IInv, TerminalIsTrue
  <1> QED
    BY <1>1, <1>2, <1>3, <1>4, QuietStep

\* A write that preserves PendingInv in memory preserves it in the journal.
LEMMA JournalWrite ==
    ASSUME NEW t, Persisted \/ WriteFails(t)
    PROVE  \/ UNCHANGED journal
           \/ journal' = [orders |-> submitted', contexts |-> contexts']
  BY DEF Persisted, WriteFails

\* The claim: the id was never placed in this process, nor, being new or
\* named by a context, in one before it.
LEMMA ClaimInv ==
    ASSUME IInv, TypeOK', NEW t \in Threads, NEW r \in Requests,
           call[t].phase = "idle", Claim(t, r), r.key \notin attempted,
           Settled(r.key),
           \A o \in Ops : KeysOf(contexts'[o]) = KeysOf(contexts[o]),
           Preparable(r.quantity)
    PROVE  IInv'
  <1> DEFINE k == r.key
  <1>1. k \in Keys /\ Prepared(r.quantity) # NoRequest
    <2>1. r.quantity \in Nat /\ Prepared(r.quantity) \in Nat
      BY PreparedType DEF Requests
    <2> QED
      BY <2>1, ServiceAssumption DEF Requests, Preparable, NoRequest
  <1>2. /\ requests' = [requests EXCEPT ![k] = r.quantity]
        /\ submitted' = [submitted EXCEPT ![k] = Prepared(r.quantity)]
        /\ attempted' = attempted \cup {k}
        /\ UNCHANGED <<exchangeVars, orders>>
    BY DEF Claim
  <1>3. submitted \in [Keys -> Nat] /\ requests \in [Keys -> Nat]
        /\ call \in [Threads -> Calls]
    BY DEF IInv, TypeOK, Pending
  <1>4. /\ \A u \in Threads \ {t} : call'[u] = call[u]
        /\ MayEnter(t, call'[t])
        /\ call'[t].phase = "create" => Persisted /\ call'[t].key = k
    <2>1. CASE Persisted /\ Creating(t, k)
      BY <1>1, <1>3, <2>1, CreatingCall DEF MayEnter
    <2>2. CASE WriteFails(t)
      BY <1>3, <2>2, WriteFailsCall DEF MayEnter
    <2> QED
      BY <2>1, <2>2 DEF Claim
  <1>5. call'[t].phase = "create" =>
            /\ submitted'[call'[t].key] # NoRequest
            /\ journal'.orders[call'[t].key] # NoRequest
            /\ call'[t].key \in attempted'
    BY <1>1, <1>2, <1>3, <1>4 DEF Persisted
  <1>6. \A i \in Keys : submitted[i] # NoRequest /\ submitted'[i] = NoRequest
                           => MayDrop(t, i)
    BY <1>1, <1>2, <1>3
  <1>7. \A i \in Keys : InSomeContext(contexts', i)
                           => InSomeContext(contexts, i) \/ Settled(i)
    BY DEF InSomeContext
  <1>8. \A o, p \in Ops : o # p =>
            KeysOf(contexts'[o]) \cap KeysOf(contexts'[p]) = {}
    BY DEF IInv, PendingInv
  <1>9. \A i \in Keys : ~Settled(i) /\ requests'[i] # NoRequest /\ orders'[i] = NoOrder
            => i \in attempted' \/ (requests[i] # NoRequest /\ orders[i] = NoOrder)
    BY <1>1, <1>2, <1>3
  <1>10. \A i \in Keys : IsTerminal(orders'[i]) => orders'[i] = market[i]
    BY <1>2 DEF IInv, TerminalIsTrue
  <1>11. \/ UNCHANGED journal
         \/ journal' = [orders |-> submitted', contexts |-> contexts']
    BY JournalWrite DEF Claim
  <1> QED
    BY <1>2, <1>4, <1>5, <1>6, <1>7, <1>8, <1>9, <1>10, <1>11, QuietStep

\* An id that may be claimed was never placed, or only refused.
LEMMA NamedIsSettled ==
    ASSUME IInv, NEW k \in Keys, k \notin attempted,
           \/ creates[k] = << >>
           \/ requests[k] # NoRequest /\ orders[k] = NoOrder
           \/ InSomeContext(contexts, k)
    PROVE  Settled(k)
  <1>1. CASE creates[k] = << >>
    BY <1>1 DEF Settled
  <1>2. CASE creates[k] # << >>
    BY <1>2 DEF IInv, AttemptInv
  <1> QED
    BY <1>1, <1>2

\* submit and confirm_and_submit preserve IInv.
LEMMA SubmitInv ==
    ASSUME IInv, NEW t \in Threads, NEW r \in Requests, MayName(r.key),
           Submit(t, r) \/ \E o \in Ops : ConfirmAndSubmit(t, r, o)
    PROVE  IInv'
  <1>1. TypeOK'
    BY SubmitType DEF IInv
  <1>2. /\ call \in [Threads -> Calls] /\ orders[r.key] \in Orders \cup {NoOrder}
        /\ r.key \in Keys
        /\ {"invalid", "order", "duplicate", "unprepared", "keyerror"} \subseteq Results
    BY DEF IInv, TypeOK, Requests, Results
  <1>3. ASSUME NEW result \in Results, NEW order \in Orders \cup {NoOrder},
               Done(t, result, order),
               UNCHANGED <<exchangeVars, memory, journal>>
        PROVE  IInv'
    BY <1>1, <1>2, <1>3, DoneCall, ReadStep DEF memory, MayEnter
  <1>4. CASE SubmitConflict(t, r) \/ SubmitKnown(t, r) \/ SubmitDuplicate(t, r)
    BY <1>2, <1>3, <1>4 DEF SubmitConflict, SubmitKnown, SubmitDuplicate
  <1>5. CASE SubmitUnprepared(t, r)
    <2>1. Settled(r.key)
      BY <1>2, <1>5, NamedIsSettled DEF SubmitUnprepared, IsFresh, MayName, InSomeContext,
            NamedIn
    <2>2. /\ call'[t].phase = "done" /\ \A u \in Threads \ {t} : call'[u] = call[u]
          /\ MayEnter(t, call'[t])
      BY <1>2, <1>5, DoneCall DEF SubmitUnprepared, MayEnter
    <2>3. \A k \in Keys : ~Settled(k) => requests'[k] = requests[k]
      BY <1>5, <2>1 DEF SubmitUnprepared, IInv, TypeOK, Pending
    <2>4. \A k \in Keys : InSomeContext(contexts', k) <=> InSomeContext(contexts, k)
      BY <1>5 DEF InSomeContext, SubmitUnprepared
    <2>5. \A o, p \in Ops : o # p =>
            KeysOf(contexts'[o]) \cap KeysOf(contexts'[p]) = {}
      BY <1>5 DEF IInv, PendingInv, SubmitUnprepared
    <2>6. \A k \in Keys : IsTerminal(orders'[k]) => orders'[k] = market[k]
      BY <1>5 DEF IInv, TerminalIsTrue, SubmitUnprepared
    <2>7. UNCHANGED <<exchangeVars, submitted, orders, attempted, journal>>
      BY <1>5 DEF SubmitUnprepared
    <2> QED
      BY <1>1, <2>2, <2>3, <2>4, <2>5, <2>6, <2>7, QuietStep
  <1>6. CASE SubmitClaim(t, r) /\ call[t].phase = "idle"
    <2>1. Settled(r.key)
      BY <1>2, <1>6, NamedIsSettled DEF SubmitClaim, IsFresh, MayName, InSomeContext, NamedIn
    <2> QED
      BY <1>1, <1>6, <2>1, ClaimInv DEF SubmitClaim, IsFresh
  <1>7. CASE SubmitQuery(t, r)
    <2>1. CASE Done(t, "keyerror", NoOrder)
      BY <1>2, <1>3, <1>7, <2>1 DEF SubmitQuery
    <2>2. CASE Querying(t, r.key, {})
      BY <1>1, <1>2, <1>7, <2>2, QueryingCall, ReadStep DEF SubmitQuery, memory, MayEnter
    <2> QED
      BY <1>7, <2>1, <2>2 DEF SubmitQuery
  <1>8. ASSUME NEW o \in Ops, ConfirmAndSubmit(t, r, o) PROVE IInv'
    <2>1. CASE ConfirmRefused(t, r, o)
      BY <1>2, <1>3, <2>1 DEF ConfirmRefused
    <2>2. CASE ConfirmClaim(t, r, o)
      <3>1. r.key \in KeysOf(contexts[o])
        BY <2>2 DEF ConfirmClaim, CanConfirm, KeysOf
      <3>2. Settled(r.key)
        BY <1>2, <2>2, <3>1, NamedIsSettled DEF ConfirmClaim, InSomeContext
      <3>3. \A p \in Ops : KeysOf(contexts'[p]) = KeysOf(contexts[p])
        <4>1. contexts[o] \in Contexts
          BY <2>2 DEF ConfirmClaim, CanConfirm, NoContext, IInv, TypeOK
        <4>2. contexts' = [contexts EXCEPT ![o] = [contexts[o] EXCEPT !.confirm = FALSE]]
          BY <2>2 DEF ConfirmClaim
        <4>3. [contexts[o] EXCEPT !.confirm = FALSE].requests = contexts[o].requests
          BY <4>1 DEF Contexts
        <4>4. contexts \in [Ops -> Contexts \cup {NoContext}]
          BY DEF IInv, TypeOK
        <4> QED
          BY <4>2, <4>3, <4>4 DEF KeysOf
      <3> QED
        BY <1>1, <1>8, <2>2, <3>2, <3>3, ClaimInv DEF ConfirmClaim, ConfirmAndSubmit
    <2> QED
      BY <1>8, <2>1, <2>2 DEF ConfirmAndSubmit
  <1> QED
    BY <1>4, <1>5, <1>6, <1>7, <1>8 DEF Submit

\* A step that learns an order the exchange holds or held, and ends.
LEMMA LearnInv ==
    ASSUME IInv, TypeOK', NEW t \in Threads, NEW k \in Keys, NEW order,
           IsTerminal(order) => order = market[k],
           order # NoOrder,
           orders' = [orders EXCEPT ![k] = order],
           FinishIfTerminal(k, order),
           UNCHANGED <<exchangeVars, requests, attempted, contexts>>,
           \A u \in Threads \ {t} : call'[u] = call[u],
           call'[t].phase \in {"done", "idle", "query"},
           call'[t].phase = "query" => call'[t].key \in Keys,
           \/ UNCHANGED journal
           \/ journal' = [orders |-> submitted', contexts |-> contexts']
    PROVE  IInv'
  <1>1. MayEnter(t, call'[t]) /\ call'[t].phase # "create"
    BY DEF MayEnter
  <1>2. /\ \A i \in Keys : InSomeContext(contexts', i) <=> InSomeContext(contexts, i)
        /\ \A o, p \in Ops : o # p =>
              KeysOf(contexts'[o]) \cap KeysOf(contexts'[p]) = {}
    BY DEF InSomeContext, IInv, PendingInv
  <1>3. orders \in [Keys -> Orders \cup {NoOrder}] /\ submitted \in [Keys -> Nat]
    BY DEF IInv, TypeOK, Pending
  <1>4. \A i \in Keys : IsTerminal(orders'[i]) => orders'[i] = market[i]
    BY <1>3 DEF IInv, TerminalIsTrue
  <1>5. ASSUME NEW i \in Keys, submitted[i] # NoRequest, submitted'[i] = NoRequest
        PROVE  MayDrop(t, i)
    <2>1. i = k /\ Finished(k, order)
      BY <1>3, <1>5 DEF FinishIfTerminal
    <2> QED
      BY <1>2, <2>1 DEF Finished, MayDrop, InSomeContext
  <1>6. \A i \in Keys : orders'[i] = NoOrder => orders[i] = NoOrder
    BY <1>3
  <1>7. UNCHANGED exchangeVars /\ attempted \subseteq attempted' /\ requests' = requests
    OBVIOUS
  <1>8. \A i \in Keys : ~Settled(i) /\ requests'[i] # NoRequest /\ orders'[i] = NoOrder
            => i \in attempted' \/ (requests[i] # NoRequest /\ orders[i] = NoOrder)
    BY <1>6, <1>7
  <1> QED
    BY <1>1, <1>2, <1>4, <1>5, <1>7, <1>8, QuietStep

\* The answers to a create request preserve IInv.
LEMMA CreateInv ==
    ASSUME IInv, NEW t \in Threads,
           \/ CreateReturned(t) \/ CreateMismatched(t)
           \/ CreateUnreadable(t) \/ CreateRefused(t) \/ CreateUnclear(t)
    PROVE  IInv'
  <1> DEFINE k == call[t].key
  <1>1. call[t].phase \in {"create", "sent"} /\ k \in Keys
    BY DEF IInv, CallInv, ThreadInv, CreateReturned, CreateMismatched,
           CreateUnreadable, CreateRefused, CreateUnclear
  <1>2. TypeOK'
    BY <1>1, CreateType DEF IInv
  <1>3. /\ call \in [Threads -> Calls] /\ market[k] \in Orders \cup {NoOrder}
        /\ {"order", "invalid", "refused"} \subseteq Results
        /\ Ack \in Orders \cup {NoOrder}
    BY <1>1, OrderTypes DEF IInv, TypeOK, Results
  <1>4. CASE CreateReturned(t)
    <2>1. PICK order \in {Ack, market[k]} :
            /\ orders' = [orders EXCEPT ![k] = order]
            /\ FinishIfTerminal(k, order)
            /\ UNCHANGED <<exchangeVars, requests, attempted, contexts, restarts>>
            /\ \/ Persisted /\ Done(t, "order", order)
               \/ WriteFails(t)
      BY <1>4 DEF CreateReturned
    <2>2. order # NoOrder /\ (IsTerminal(order) => order = market[k])
      <3>1. call[t].attempt \in 1..Len(creates[k]) /\ creates[k][call[t].attempt] = "accepted"
        <4>1. Len(creates[k]) \in Nat
          BY <1>1 DEF IInv, TypeOK
        <4> QED
          BY <1>4, <4>1 DEF CreateReturned, OutcomeOf, IInv, CallInv, ThreadInv
      <3>2. market[k] # NoOrder
        BY <1>1, <3>1 DEF IInv, MarketInv
      <3> QED
        BY <2>1, <3>2, NoOrderNotTerminal, OrderTypes
    <2>3. /\ call'[t].phase = "done"
          /\ \A u \in Threads \ {t} : call'[u] = call[u]
      BY <1>3, <2>1, DoneCall, WriteFailsCall
    <2>4. \/ UNCHANGED journal
          \/ journal' = [orders |-> submitted', contexts |-> contexts']
      BY <2>1, JournalWrite
    <2> QED
      BY <1>1, <1>2, <2>1, <2>2, <2>3, <2>4, LearnInv
  <1>5. CASE CreateMismatched(t)
    BY <1>1, <1>2, <1>3, <1>5, QueryingCall, ReadStep DEF CreateMismatched, MayEnter
  <1>6. CASE CreateUnreadable(t)
    BY <1>2, <1>3, <1>6, DoneCall, ReadStep DEF CreateUnreadable, memory, MayEnter
  <1>7. CASE CreateRefused(t)
    <2>1. Settled(k)
      <3>1. CASE call[t].phase = "create"
        BY <3>1 DEF IInv, CallInv, ThreadInv
      <3>2. CASE call[t].phase = "sent" /\ OutcomeOf(t) = "refused"
        <4>1. creates[k] \in Seq(Outcomes)
          BY <1>1 DEF IInv, TypeOK
        <4>2. creates[k][Len(creates[k])] = "refused" /\ Len(creates[k]) > 0
          BY <3>2 DEF IInv, CallInv, ThreadInv, OutcomeOf
        <4>3. \A n \in 1..Len(creates[k]) - 1 : creates[k][n] = "refused"
          BY <1>1 DEF IInv, AtMostOneLiveCreate
        <4> QED
          BY <4>1, <4>2, <4>3 DEF Settled
      <3> QED
        BY <1>7, <3>1, <3>2 DEF CreateRefused
    <2>2. /\ call'[t].phase = "done" /\ \A u \in Threads \ {t} : call'[u] = call[u]
          /\ MayEnter(t, call'[t])
      BY <1>3, <1>7, DoneCall, WriteFailsCall DEF CreateRefused, MayEnter
    <2>3. \A u \in Threads \ {t} : call[u].phase = "create" => call[u].key # k
      BY <1>1 DEF IInv, CallInv, ThreadInv
    <2>4. \A i \in Keys : submitted[i] # NoRequest /\ submitted'[i] = NoRequest
                           => MayDrop(t, i)
      BY <1>7, <2>1, <2>3 DEF CreateRefused, MayDrop, IInv, TypeOK, Pending
    <2>5. /\ \A i \in Keys : InSomeContext(contexts', i) <=> InSomeContext(contexts, i)
          /\ \A o, p \in Ops : o # p =>
                KeysOf(contexts'[o]) \cap KeysOf(contexts'[p]) = {}
          /\ \A i \in Keys : IsTerminal(orders'[i]) => orders'[i] = market[i]
      BY <1>7 DEF CreateRefused, InSomeContext, IInv, PendingInv, TerminalIsTrue
    <2>6. UNCHANGED exchangeVars /\ UNCHANGED <<requests, orders, attempted>>
      BY <1>7 DEF CreateRefused
    <2>7. \/ UNCHANGED journal
          \/ journal' = [orders |-> submitted', contexts |-> contexts']
      BY <1>7, JournalWrite DEF CreateRefused
    <2> QED
      BY <1>2, <2>2, <2>4, <2>5, <2>6, <2>7, QuietStep
  <1>8. CASE CreateUnclear(t)
    <2>1. /\ MayEnter(t, call'[t]) /\ call'[t].phase # "create"
          /\ \A u \in Threads \ {t} : call'[u] = call[u]
      BY <1>1, <1>3, <1>8, QueryingCall, WriteFailsCall DEF CreateUnclear, MayEnter
    <2>2. /\ \A i \in Keys : InSomeContext(contexts', i) <=> InSomeContext(contexts, i)
          /\ \A o, p \in Ops : o # p =>
                KeysOf(contexts'[o]) \cap KeysOf(contexts'[p]) = {}
          /\ \A i \in Keys : IsTerminal(orders'[i]) => orders'[i] = market[i]
      BY <1>8 DEF CreateUnclear, InSomeContext, IInv, PendingInv, TerminalIsTrue
    <2>3. /\ UNCHANGED exchangeVars
          /\ UNCHANGED <<requests, submitted, orders, attempted, contexts>>
      BY <1>8 DEF CreateUnclear
    <2>4. \/ UNCHANGED journal
          \/ journal' = [orders |-> submitted', contexts |-> contexts']
      BY <1>8, JournalWrite DEF CreateUnclear
    <2> QED
      BY <1>2, <2>1, <2>2, <2>3, <2>4, QuietStep
  <1> QED
    BY <1>4, <1>5, <1>6, <1>7, <1>8

\* The steps of _recover preserve IInv.
LEMMA QueryInv ==
    ASSUME IInv, NEW t \in Threads,
           QuerySend(t) \/ QueryReturned(t) \/ QueryMismatched(t) \/ QueryFailed(t)
    PROVE  IInv'
  <1> DEFINE k == call[t].key
             order == call[t].order
  <1>1. call[t].phase \in {"query", "asked"} /\ k \in Keys
    BY DEF IInv, CallInv, ThreadInv, QuerySend, QueryReturned, QueryMismatched, QueryFailed
  <1>2. TypeOK'
    BY <1>1, QueryType DEF IInv
  <1>3. /\ call \in [Threads -> Calls] /\ order \in Orders \cup {NoOrder}
        /\ {"order", "invalid", "unknown"} \subseteq Results
    BY DEF IInv, TypeOK, Calls, Results
  <1>4. CASE QuerySend(t)
    <2>1. /\ call'[t].phase = "asked" /\ call'[t].key = k /\ call'[t].order = market[k]
          /\ \A u \in Threads \ {t} : call'[u] = call[u]
      BY <1>3, <1>4 DEF QuerySend, Stage
    <2> QED
      BY <1>1, <1>2, <1>4, <2>1, ReadStep DEF QuerySend, memory, MayEnter
  <1>5. CASE QueryReturned(t)
    <2>1. IsTerminal(order) => order = market[k]
      BY <1>5 DEF QueryReturned, IInv, CallInv, ThreadInv
    <2>2. /\ call'[t].phase \in {"done", "query"}
          /\ call'[t].phase = "query" => call'[t].key \in Keys
          /\ \A u \in Threads \ {t} : call'[u] = call[u]
      BY <1>3, <1>5, NextQueryCall, WriteFailsCall DEF QueryReturned
    <2>3. \/ UNCHANGED journal
          \/ journal' = [orders |-> submitted', contexts |-> contexts']
      BY <1>5, JournalWrite DEF QueryReturned
    <2> QED
      BY <1>1, <1>2, <1>5, <2>1, <2>2, <2>3, LearnInv DEF QueryReturned
  <1>6. CASE QueryMismatched(t)
    BY <1>2, <1>3, <1>6, DoneCall, ReadStep DEF QueryMismatched, memory, MayEnter
  <1>7. CASE QueryFailed(t)
    BY <1>2, <1>3, <1>7, NextQueryCall, ReadStep DEF QueryFailed, MayEnter
  <1> QED
    BY <1>4, <1>5, <1>6, <1>7

\* refresh, recover_pending, record and a return preserve IInv.
LEMMA OtherCallInv ==
    ASSUME IInv, NEW t \in Threads,
           \/ \E r \in Requests : orders[r.key] # NoOrder /\ Refresh(t, r)
           \/ RecoverPending(t)
           \/ \E k \in Keys : \E order \in Past(k) : Record(t, k, order)
           \/ Return(t)
    PROVE  IInv'
  <1>1. TypeOK'
    BY OtherCallType DEF IInv
  <1>2. /\ call \in [Threads -> Calls] /\ NoOrder \in Orders \cup {NoOrder}
        /\ {"none", "unprepared"} \subseteq Results
        /\ submitted \in [Keys -> Nat] /\ requests \in [Keys -> Nat]
        /\ orders \in [Keys -> Orders \cup {NoOrder}]
    BY DEF IInv, TypeOK, Results, Pending
  <1>3. ASSUME NEW r \in Requests, orders[r.key] # NoOrder, Refresh(t, r)
        PROVE  IInv'
    <2>1. r.key \in Keys
      BY DEF Requests
    <2>2. /\ MayEnter(t, call'[t]) /\ call'[t].phase # "create"
          /\ \A u \in Threads \ {t} : call'[u] = call[u]
      BY <1>2, <1>3, <2>1, QueryingCall, DoneCall DEF Refresh, MayEnter
    <2>3. \A k \in Keys : submitted'[k] = NoRequest => submitted[k] = NoRequest
      BY <1>2, <1>3, <2>1 DEF Refresh
    <2>4. \A k \in Keys : orders[k] = NoOrder => requests'[k] = requests[k]
      BY <1>2, <1>3 DEF Refresh
    <2>5. /\ \A k \in Keys : InSomeContext(contexts', k) <=> InSomeContext(contexts, k)
          /\ \A o, p \in Ops : o # p =>
                KeysOf(contexts'[o]) \cap KeysOf(contexts'[p]) = {}
          /\ \A k \in Keys : IsTerminal(orders'[k]) => orders'[k] = market[k]
      BY <1>3 DEF Refresh, InSomeContext, IInv, PendingInv, TerminalIsTrue
    <2>6. UNCHANGED exchangeVars /\ UNCHANGED <<orders, attempted, contexts, journal>>
      BY <1>3 DEF Refresh
    <2> QED
      BY <1>1, <2>2, <2>3, <2>4, <2>5, <2>6, QuietStep
  <1>4. CASE RecoverPending(t)
    <2>1. PICK k \in Keys, batch \in SUBSET Keys : Querying(t, k, batch)
      BY <1>4 DEF RecoverPending
    <2>2. /\ call'[t].phase = "query" /\ call'[t].key = k
          /\ \A u \in Threads \ {t} : call'[u] = call[u]
      BY <1>2, <2>1, QueryingCall
    <2> QED
      BY <1>1, <1>4, <2>2, ReadStep DEF RecoverPending, memory, MayEnter
  <1>5. ASSUME NEW k \in Keys, NEW order \in Past(k), Record(t, k, order)
        PROVE  IInv'
    <2>1. order # NoOrder /\ (IsTerminal(order) => order = market[k])
      BY <1>5, OrderTypes DEF Past, IsTerminal
    <2>2. /\ call'[t].phase = "done"
          /\ \A u \in Threads \ {t} : call'[u] = call[u]
      BY <1>2, <1>5, DoneCall, WriteFailsCall DEF Record
    <2>3. \/ UNCHANGED journal
          \/ journal' = [orders |-> submitted', contexts |-> contexts']
      BY <1>5, JournalWrite DEF Record
    <2> QED
      BY <1>1, <1>5, <2>1, <2>2, <2>3, LearnInv DEF Record
  <1>6. CASE Return(t)
    <2>1. /\ call'[t].phase = "idle"
          /\ \A u \in Threads \ {t} : call'[u] = call[u]
      BY <1>2, <1>6 DEF Return, Idle, Stage
    <2> QED
      BY <1>1, <1>6, <2>1, ReadStep DEF Return, memory, MayEnter
  <1> QED
    BY <1>3, <1>4, <1>5, <1>6

\* A step that changes the contexts, and drops from the pending requests what
\* has ended and belongs to none of them.
LEMMA ContextStepInv ==
    ASSUME IInv, TypeOK', NEW t \in Threads,
           UNCHANGED <<exchangeVars, requests, orders, attempted>>,
           \/ UNCHANGED <<journal, faults>> /\ Done(t, "invalid", NoOrder)
           \/ Persisted /\ Done(t, "none", NoOrder)
           \/ WriteFails(t),
           \A k \in Keys : submitted[k] # NoRequest /\ submitted'[k] = NoRequest
                           => IsTerminal(market[k]) /\ ~InSomeContext(contexts', k),
           \A k \in Keys : InSomeContext(contexts', k)
                           => InSomeContext(contexts, k) \/ Settled(k),
           \A o, p \in Ops : o # p =>
                KeysOf(contexts'[o]) \cap KeysOf(contexts'[p]) = {}
    PROVE  IInv'
  <1>1. /\ call \in [Threads -> Calls] /\ NoOrder \in Orders \cup {NoOrder}
        /\ {"none", "invalid"} \subseteq Results
    BY DEF IInv, TypeOK, Results
  <1>2. /\ MayEnter(t, call'[t]) /\ call'[t].phase # "create"
        /\ \A u \in Threads \ {t} : call'[u] = call[u]
    BY <1>1, DoneCall, WriteFailsCall DEF MayEnter
  <1>3. \/ UNCHANGED journal
        \/ journal' = [orders |-> submitted', contexts |-> contexts']
    BY JournalWrite
  <1>4. UNCHANGED exchangeVars
    OBVIOUS
  <1>5. \A k \in Keys : IsTerminal(orders'[k]) => orders'[k] = market[k]
    BY DEF IInv, TerminalIsTrue
  <1> QED
    BY <1>2, <1>3, <1>4, <1>5, QuietStep DEF MayDrop

\* The operations on recovery contexts preserve IInv.
LEMMA ContextInv ==
    ASSUME IInv, NEW t \in Threads, NEW o \in Ops,
           \/ \E kind \in Kinds, batch \in SUBSET Requests :
                 MayRegister(o, batch) /\ RegisterContext(t, o, kind, batch)
           \/ CompleteContext(t, o)
           \/ SetConfirmationRequired(t, o)
    PROVE  IInv'
  <1>1. TypeOK'
    BY ContextType DEF IInv
  <1>2. contexts \in [Ops -> Contexts \cup {NoContext}]
    BY DEF IInv, TypeOK
  <1>3. \A p, q \in Ops : p # q => KeysOf(contexts[p]) \cap KeysOf(contexts[q]) = {}
    BY DEF IInv, PendingInv
  <1>4. ASSUME UNCHANGED submitted, \A p \in Ops : KeysOf(contexts'[p]) = KeysOf(contexts[p]),
               UNCHANGED <<exchangeVars, requests, orders, attempted>>,
               \/ UNCHANGED <<journal, faults>> /\ Done(t, "invalid", NoOrder)
               \/ Persisted /\ Done(t, "none", NoOrder)
               \/ WriteFails(t)
        PROVE  IInv'
    <2>1. \A k \in Keys : InSomeContext(contexts', k) => InSomeContext(contexts, k)
      BY <1>4 DEF InSomeContext
    <2> QED
      BY <1>1, <1>3, <1>4, <2>1, ContextStepInv
  <1>5. ASSUME NEW kind \in Kinds, NEW batch \in SUBSET Requests,
               MayRegister(o, batch), RegisterContext(t, o, kind, batch)
        PROVE  IInv'
    <2>1. CASE UNCHANGED contexts
      BY <1>4, <1>5, <2>1 DEF RegisterContext
    <2>2. CASE contexts' = [contexts EXCEPT ![o] =
                  [kind |-> kind, requests |-> batch, confirm |-> contexts[o].confirm]]
      <3>1. /\ KeysOf(contexts'[o]) = {r.key : r \in batch}
            /\ \A p \in Ops \ {o} : KeysOf(contexts'[p]) = KeysOf(contexts[p])
        BY <1>2, <2>2 DEF KeysOf
      <3>2. \A p, q \in Ops : p # q =>
                KeysOf(contexts'[p]) \cap KeysOf(contexts'[q]) = {}
        <4>1. \A p \in Ops \ {o} : KeysOf(contexts[p]) \cap KeysOf(contexts'[o]) = {}
          BY <1>5, <3>1 DEF MayRegister, NamedIn
        <4> QED
          BY <1>3, <3>1, <4>1
      <3>3. \A k \in Keys : InSomeContext(contexts', k)
                           => InSomeContext(contexts, k) \/ Settled(k)
        <4>1. \A k \in KeysOf(contexts'[o]) : Settled(k) \/ InSomeContext(contexts, k)
          BY <1>5, <3>1 DEF MayRegister, NamedIn, Settled, InSomeContext
        <4> QED
          BY <3>1, <4>1 DEF InSomeContext
      <3> QED
        BY <1>1, <1>5, <3>2, <3>3, ContextStepInv DEF RegisterContext
    <2> QED
      BY <1>5, <2>1, <2>2 DEF RegisterContext
  <1>6. CASE CompleteContext(t, o)
    <2> DEFINE finished == {k \in KeysOf(contexts[o]) : IsTerminal(orders[k])}
    <2>1. /\ contexts' = [contexts EXCEPT ![o] = NoContext]
          /\ submitted' = [k \in Keys |-> IF k \in finished THEN NoRequest ELSE submitted[k]]
          /\ UNCHANGED <<exchangeVars, requests, orders, attempted>>
          /\ \/ Persisted /\ Done(t, "none", NoOrder)
             \/ WriteFails(t)
      BY <1>6 DEF CompleteContext
    <2>2. /\ KeysOf(contexts'[o]) = {}
          /\ \A p \in Ops \ {o} : KeysOf(contexts'[p]) = KeysOf(contexts[p])
      BY <1>2, <2>1, ContextTypes DEF KeysOf
    <2>3. \A k \in finished : IsTerminal(market[k]) /\ ~InSomeContext(contexts', k)
      <3>1. \A k \in finished : k \in Keys
        BY <1>2, ContextTypes DEF KeysOf, Contexts, Requests
      <3> QED
        BY <1>3, <2>2, <3>1 DEF InSomeContext, IInv, TerminalIsTrue
    <2>4. \A k \in Keys : InSomeContext(contexts', k) => InSomeContext(contexts, k)
      BY <2>2 DEF InSomeContext
    <2>5. \A p, q \in Ops : p # q =>
                KeysOf(contexts'[p]) \cap KeysOf(contexts'[q]) = {}
      BY <1>3, <2>2
    <2>6. \A k \in Keys : submitted[k] # NoRequest /\ submitted'[k] = NoRequest
                           => k \in finished
      BY <2>1
    <2> HIDE DEF finished
    <2> QED
      BY <1>1, <2>1, <2>3, <2>4, <2>5, <2>6, ContextStepInv
  <1>7. CASE SetConfirmationRequired(t, o)
    <2>1. CASE UNCHANGED contexts
      BY <1>4, <1>7, <2>1 DEF SetConfirmationRequired
    <2>2. CASE contexts[o] # NoContext
               /\ contexts' = [contexts EXCEPT ![o] = [contexts[o] EXCEPT !.confirm = TRUE]]
      <3>1. contexts[o] \in Contexts
        BY <1>2, <2>2
      <3>2. [contexts[o] EXCEPT !.confirm = TRUE].requests = contexts[o].requests
        BY <3>1 DEF Contexts
      <3>3. \A p \in Ops : KeysOf(contexts'[p]) = KeysOf(contexts[p])
        BY <1>2, <2>2, <3>2 DEF KeysOf
      <3> QED
        BY <1>4, <1>7, <3>3 DEF SetConfirmationRequired
    <2> QED
      BY <1>7, <2>1, <2>2 DEF SetConfirmationRequired
  <1> QED
    BY <1>5, <1>6, <1>7

-----------------------------------------------------------------------------
(* The inductive invariant: create requests, the exchange, restarts *)

\* Sending the create request of a claimed id preserves IInv: every earlier
\* request of the id was refused.
LEMMA CreateSendInv ==
    ASSUME IInv, NEW t \in Threads, CreateSend(t)
    PROVE  IInv'
  <1> DEFINE k == call[t].key
  <1>1. /\ k \in Keys /\ Settled(k) /\ k \in attempted
        /\ submitted[k] # NoRequest /\ journal.orders[k] # NoRequest
        /\ \A u \in Threads \ {t} :
              call[u].phase \in {"create", "sent"} => call[u].key # k
    BY DEF CreateSend, IInv, CallInv, ThreadInv
  <1>2. TypeOK'
    BY <1>1, CreateType DEF IInv
  <1>3. /\ creates \in [Keys -> Seq(Outcomes)] /\ call \in [Threads -> Calls]
        /\ Len(creates[k]) \in Nat
    BY <1>1 DEF IInv, TypeOK
  <1>4. /\ creates' = [creates EXCEPT ![k] = Append(creates[k], "flying")]
        /\ UNCHANGED <<market, requests, submitted, orders, attempted, contexts, journal>>
        /\ call' = [call EXCEPT ![t] =
                    Stage("sent", k, Len(creates[k]) + 1, NoOrder, {}, "none")]
    BY DEF CreateSend, SendCreate, memory
  <1>5. /\ Len(creates'[k]) = Len(creates[k]) + 1
        /\ \A n \in 1..Len(creates[k]) : creates'[k][n] = creates[k][n]
        /\ creates'[k][Len(creates[k]) + 1] = "flying"
        /\ \A i \in Keys \ {k} : creates'[i] = creates[i]
    BY <1>1, <1>3, <1>4
  <1>6. /\ \A i \in Keys \ {k} : Settled(i)' <=> Settled(i)
        /\ \A i \in Keys \ {k} : MaybeLive(i)' <=> MaybeLive(i)
    BY <1>4, <1>5 DEF Settled, MaybeLive
  <1>7. AtMostOneLiveCreate'
    BY <1>1, <1>3, <1>5 DEF AtMostOneLiveCreate, IInv, Settled
  <1>8. MarketInv'
    <2>1. ASSUME NEW i \in Keys
          PROVE  (market[i] # NoOrder)
                    <=> \E n \in 1..Len(creates'[i]) : creates'[i][n] = "accepted"
      <3>1. CASE i = k
        <4>1. market[k] = NoOrder
          BY <1>1 DEF IInv, MarketInv, Settled
        <4>2. \A n \in 1..Len(creates'[k]) : creates'[k][n] \in {"refused", "flying"}
          <5>1. ASSUME NEW n \in 1..Len(creates'[k])
                PROVE  n \in 1..Len(creates[k]) \/ n = Len(creates[k]) + 1
            BY <1>3, <1>5
          <5> QED
            BY <1>1, <1>5, <5>1 DEF Settled
        <4> QED
          BY <3>1, <4>1, <4>2
      <3>2. CASE i # k
        <4>1. creates'[i] = creates[i]
          BY <1>5, <3>2
        <4>2. market[i] # NoOrder <=> \E n \in 1..Len(creates[i]) : creates[i][n] = "accepted"
          BY DEF IInv, MarketInv
        <4> QED
          BY <4>1, <4>2
      <3> QED
        BY <3>1, <3>2
    <2> QED
      BY <1>4, <2>1 DEF MarketInv
  <1>9. TerminalIsTrue'
    BY <1>4 DEF IInv, TerminalIsTrue
  <1>10. PendingInv(submitted, contexts)' /\ PendingInv(journal.orders, journal.contexts)'
    BY <1>1, <1>4, <1>6 DEF IInv, PendingInv
  <1>11. AttemptInv'
    BY <1>1, <1>4, <1>6 DEF IInv, AttemptInv
  <1>12. CallInv'
    <2>1. /\ call'[t].phase = "sent" /\ call'[t].key = k
          /\ call'[t].attempt = Len(creates[k]) + 1
          /\ \A u \in Threads \ {t} : call'[u] = call[u]
      BY <1>3, <1>4 DEF Stage
    <2>2. ThreadInv(t)'
      BY <1>1, <1>3, <1>4, <1>5, <2>1 DEF ThreadInv
    <2>3. ASSUME NEW u \in Threads \ {t} PROVE ThreadInv(u)'
      <3>1. ThreadInv(u)
        BY DEF IInv, CallInv
      <3> QED
        BY <1>1, <1>4, <1>5, <1>6, <2>1, <3>1 DEF ThreadInv
    <2> QED
      BY <2>2, <2>3 DEF CallInv
  <1> QED
    BY <1>2, <1>7, <1>8, <1>9, <1>10, <1>11, <1>12 DEF IInv

\* A create request in flight is the last one of its id, and the id has no
\* order yet.
LEMMA FlyingIsLast ==
    ASSUME IInv, NEW k \in Keys, NEW n \in 1..Len(creates[k]),
           creates[k][n] = "flying"
    PROVE  /\ n = Len(creates[k])
           /\ \A m \in 1..Len(creates[k]) - 1 : creates[k][m] = "refused"
           /\ market[k] = NoOrder /\ MaybeLive(k) /\ ~Settled(k)
  <1>1. Len(creates[k]) \in Nat
    BY DEF IInv, TypeOK
  <1>2. /\ n = Len(creates[k])
        /\ \A m \in 1..Len(creates[k]) - 1 : creates[k][m] = "refused"
    BY <1>1 DEF IInv, AtMostOneLiveCreate
  <1>3. market[k] = NoOrder
    BY <1>1, <1>2 DEF IInv, MarketInv
  <1> QED
    BY <1>2, <1>3, NoOrderNotTerminal DEF MaybeLive, Settled

\* Steps of the exchange preserve IInv.
LEMMA ExchangeInv ==
    ASSUME IInv, ExchangeStep
    PROVE  IInv'
  <1>1. TypeOK'
    BY ExchangeType DEF IInv
  <1>2. UNCHANGED <<requests, submitted, orders, attempted, contexts, journal, call>>
    BY DEF ExchangeStep, memory
  <1>3. PICK k \in Keys : Accept(k) \/ Refuse(k) \/ Lose(k) \/ Trade(k) \/ Cancel(k)
    BY DEF ExchangeStep, ExchangeNext
  <1>4. /\ creates \in [Keys -> Seq(Outcomes)] /\ Len(creates[k]) \in Nat
        /\ market \in [Keys -> Orders \cup {NoOrder}]
    BY DEF IInv, TypeOK
  \* The order of k had not ended, was acknowledged or changed if at all, and
  \* the last create request of k stays the last.
  <1>5. /\ ~Settled(k) /\ MaybeLive(k) /\ ~IsTerminal(market[k])
        /\ \A i \in Keys \ {k} : creates'[i] = creates[i] /\ market'[i] = market[i]
        /\ Len(creates'[k]) = Len(creates[k])
        /\ \A m \in 1..Len(creates[k]) - 1 : creates'[k][m] = "refused"
        /\ (market'[k] # NoOrder)
                <=> \E n \in 1..Len(creates'[k]) : creates'[k][n] = "accepted"
    <2>1. CASE Accept(k) \/ Refuse(k) \/ Lose(k)
      <3>1. PICK n \in 1..Len(creates[k]), s \in {"accepted", "refused", "lost"} :
              /\ creates[k][n] = "flying"
              /\ creates' = [creates EXCEPT ![k][n] = s]
              /\ \/ s = "accepted" /\ market' = [market EXCEPT ![k] = Ack]
                 \/ s # "accepted" /\ market' = market
        BY <2>1 DEF Accept, Refuse, Lose
      <3>2. /\ n = Len(creates[k])
            /\ \A m \in 1..Len(creates[k]) - 1 : creates[k][m] = "refused"
            /\ market[k] = NoOrder /\ MaybeLive(k) /\ ~Settled(k)
        BY <3>1, FlyingIsLast
      <3>3. /\ Len(creates'[k]) = Len(creates[k])
            /\ \A m \in 1..Len(creates[k]) - 1 : creates'[k][m] = "refused"
            /\ creates'[k][n] = s
            /\ \A i \in Keys \ {k} : creates'[i] = creates[i] /\ market'[i] = market[i]
        BY <1>4, <3>1, <3>2
      <3>4. (market'[k] # NoOrder) <=> s = "accepted"
        BY <1>4, <3>1, <3>2, OrderTypes
      <3> QED
        BY <1>4, <3>2, <3>3, <3>4, NoOrderNotTerminal
    <2>2. CASE Trade(k) \/ Cancel(k)
      <3>1. /\ creates' = creates /\ market[k] # NoOrder /\ market'[k] # NoOrder
            /\ ~IsTerminal(market[k])
            /\ \A i \in Keys \ {k} : market'[i] = market[i]
        BY <1>4, <2>2, OrderTypes DEF Trade, Cancel, IsTerminal, Orders, NoOrder
      <3> QED
        BY <3>1 DEF IInv, MarketInv, AtMostOneLiveCreate, Settled, MaybeLive
    <2> QED
      BY <1>3, <2>1, <2>2
  <1>6. \A i \in Keys : /\ Settled(i) => Settled(i)'
                        /\ Settled(i)' => Settled(i) \/ i = k
                        /\ MaybeLive(i)' => MaybeLive(i)
                        /\ IsTerminal(market[i]) => market'[i] = market[i]
    BY <1>5 DEF Settled, MaybeLive
  <1>7. AtMostOneLiveCreate'
    BY <1>5 DEF AtMostOneLiveCreate, IInv
  <1>8. TerminalIsTrue'
    BY <1>2, <1>6 DEF TerminalIsTrue, IInv
  <1>9. MarketInv'
    BY <1>5 DEF MarketInv, IInv
  <1>10. PendingInv(submitted, contexts)' /\ PendingInv(journal.orders, journal.contexts)'
    BY <1>2, <1>6 DEF IInv, PendingInv
  <1>11. AttemptInv'
    BY <1>2, <1>6 DEF IInv, AttemptInv
  <1>12. CallInv'
    <2>1. \A i \in Keys : Len(creates'[i]) = Len(creates[i])
      BY <1>5
    <2>2. ASSUME NEW t \in Threads PROVE ThreadInv(t)'
      <3>1. ThreadInv(t)
        BY DEF IInv, CallInv
      <3> QED
        BY <1>2, <1>6, <2>1, <3>1 DEF ThreadInv
    <2> QED
      BY <2>2 DEF CallInv
  <1> QED
    BY <1>1, <1>7, <1>8, <1>9, <1>10, <1>11, <1>12 DEF IInv

\* A restart preserves IInv: the journal satisfies what the memory must.
LEMMA RestartInv ==
    ASSUME IInv, Restart
    PROVE  IInv'
  <1>1. TypeOK'
    BY RestartType DEF IInv
  <1>2. /\ requests' = journal.orders /\ submitted' = journal.orders
        /\ orders' = [k \in Keys |-> NoOrder]
        /\ attempted' = {k \in Keys : journal.orders[k] # NoRequest}
        /\ contexts' = journal.contexts /\ journal' = journal
        /\ call' = [t \in Threads |-> Idle]
        /\ creates' = creates /\ market' = market
    BY DEF Restart, exchangeVars
  <1>3. /\ \A k \in Keys : Settled(k)' <=> Settled(k)
        /\ \A k \in Keys : MaybeLive(k)' <=> MaybeLive(k)
    BY <1>2 DEF Settled, MaybeLive
  <1>4. AtMostOneLiveCreate' /\ MarketInv'
    BY <1>2 DEF IInv, AtMostOneLiveCreate, MarketInv
  <1>5. TerminalIsTrue'
    BY <1>2, NoOrderNotTerminal DEF TerminalIsTrue
  <1>6. PendingInv(submitted, contexts)' /\ PendingInv(journal.orders, journal.contexts)'
    BY <1>2, <1>3 DEF IInv, PendingInv
  <1>7. AttemptInv'
    BY <1>2, <1>3 DEF IInv, AttemptInv, PendingInv
  <1>8. CallInv'
    BY <1>2 DEF CallInv, ThreadInv, Idle, Stage
  <1> QED
    BY <1>1, <1>4, <1>5, <1>6, <1>7, <1>8 DEF IInv

\* The initial state satisfies IInv.
LEMMA InitInv == Init => IInv
  <1> SUFFICES ASSUME Init PROVE IInv
    OBVIOUS
  <1>1. TypeOK
    BY InitType
  <1>2. \A k \in Keys : Settled(k) /\ ~MaybeLive(k)
    <2>1. \A k \in Keys : creates[k] = << >>
      BY DEF Init, ExchangeInit
    <2>2. \A n \in 1..Len(<< >>) : FALSE
      OBVIOUS
    <2>3. \A k \in Keys : Settled(k)
      BY <2>1, <2>2 DEF Settled
    <2> QED
      BY <2>3 DEF MaybeLive
  <1>3. AtMostOneLiveCreate /\ MarketInv
    BY DEF Init, ExchangeInit, AtMostOneLiveCreate, MarketInv
  <1>4. TerminalIsTrue
    BY NoOrderNotTerminal DEF Init, TerminalIsTrue
  <1>5. CallInv
    BY DEF Init, CallInv, ThreadInv, Idle, Stage
  <1>6. \A o \in Ops : KeysOf(contexts[o]) = {}
    BY ContextTypes DEF Init, KeysOf
  <1>7. PendingInv(submitted, contexts) /\ PendingInv(journal.orders, journal.contexts)
    BY <1>2, <1>6 DEF Init, PendingInv
  <1>8. AttemptInv
    BY <1>2 DEF AttemptInv
  <1> QED
    BY <1>1, <1>3, <1>4, <1>5, <1>7, <1>8 DEF IInv

\* Every step preserves IInv.
LEMMA StepInv ==
    ASSUME IInv, [Next]_vars
    PROVE  IInv'
  <1>1. CASE UNCHANGED vars
    <2>1. /\ UNCHANGED <<creates, market, requests, submitted, orders, uncertain>>
          /\ UNCHANGED <<attempted, contexts, journal, call, restarts, faults>>
          /\ \A k \in Keys : Settled(k)' <=> Settled(k)
          /\ \A k \in Keys : MaybeLive(k)' <=> MaybeLive(k)
      BY <1>1 DEF vars, exchangeVars, memory, Settled, MaybeLive
    <2>2. TypeOK' /\ AtMostOneLiveCreate' /\ TerminalIsTrue' /\ MarketInv'
      BY <2>1 DEF IInv, TypeOK, AtMostOneLiveCreate, TerminalIsTrue, MarketInv
    <2>3. AttemptInv' /\ PendingInv(submitted, contexts)'
      BY <2>1 DEF IInv, AttemptInv, PendingInv, InSomeContext
    <2>4. PendingInv(journal.orders, journal.contexts)'
      BY <2>1 DEF IInv, PendingInv, InSomeContext
    <2>5. CallInv'
      BY <2>1 DEF IInv, CallInv, ThreadInv
    <2> QED
      BY <2>2, <2>3, <2>4, <2>5 DEF IInv
  <1>2. ASSUME NEW t \in Threads, ServiceStep(t) PROVE IInv'
    BY <1>2, SubmitInv, OtherCallInv, ContextInv, CreateSendInv, CreateInv, QueryInv
       DEF ServiceStep
  <1> QED
    BY <1>1, <1>2, ExchangeInv, RestartInv DEF Next

-----------------------------------------------------------------------------
(* Theorems *)

\* The inductive invariant holds in every reachable state, for any number of
\* ids, threads, restarts and failed journal writes.
THEOREM Invariance == Spec => []IInv
  BY InitInv, StepInv, PTL DEF Spec

\* Every variable of the service stays in its domain.
THEOREM TypeCorrect == Spec => []TypeOK
  <1>1. IInv => TypeOK
    BY DEF IInv
  <1> QED
    BY <1>1, Invariance, PTL

\* IdempotentOrderService never has two create requests of one id that may
\* both have become orders, whatever its threads, the exchange, failing
\* journal writes and restarts do.
THEOREM NoSecondLiveCreate == Spec => []AtMostOneLiveCreate
  <1>1. IInv => AtMostOneLiveCreate
    BY DEF IInv
  <1> QED
    BY <1>1, Invariance, PTL

\* The journal names every id whose order trades or may still turn up, so a
\* process that starts again asks the exchange for each of them.
THEOREM LiveOrdersAreJournalled == Spec => []LiveOrderJournalled
  <1>1. IInv => LiveOrderJournalled
    BY DEF IInv, PendingInv, LiveOrderJournalled
  <1> QED
    BY <1>1, Invariance, PTL

\* An order the service holds for finished is finished at the exchange.
THEOREM TerminalOrdersAreTrue == Spec => []TerminalIsTrue
  <1>1. IInv => TerminalIsTrue
    BY DEF IInv
  <1> QED
    BY <1>1, Invariance, PTL

-----------------------------------------------------------------------------
(* The service implements SubmitOnce *)

\* The abstract ledger of a settled id allows another attempt.
LEMMA SettledLedger ==
    ASSUME IInv, NEW k \in Keys
    PROVE  /\ Settled(k) <=> Ledger(k) \in {"unsent", "refused"}
           /\ market[k] # NoOrder => Ledger(k) = "accepted"
           /\ Ledger(k) \in {"unsent", "flying", "accepted", "refused", "lost"}
  <1>1. /\ creates[k] \in Seq(Outcomes) /\ Len(creates[k]) \in Nat
        /\ \A n \in 1..Len(creates[k]) - 1 : creates[k][n] = "refused"
    BY DEF IInv, TypeOK, AtMostOneLiveCreate
  <1>2. CASE creates[k] = << >>
    <2>1. \A n \in 1..Len(creates[k]) : FALSE
      BY <1>2
    <2> QED
      BY <1>2, <2>1 DEF Ledger, Settled, IInv, MarketInv
  <1>3. CASE creates[k] # << >>
    <2>1. /\ Len(creates[k]) \in 1..Len(creates[k])
          /\ Ledger(k) = creates[k][Len(creates[k])]
      BY <1>1, <1>3 DEF Ledger
    <2>2. creates[k][Len(creates[k])] \in Outcomes
      BY <1>1, <2>1
    <2>3. \A n \in 1..Len(creates[k]) : n = Len(creates[k]) \/ creates[k][n] = "refused"
      BY <1>1
    <2>4. Settled(k) <=> creates[k][Len(creates[k])] = "refused"
      BY <2>1, <2>3 DEF Settled
    <2>5. market[k] # NoOrder => creates[k][Len(creates[k])] = "accepted"
      BY <2>3 DEF IInv, MarketInv
    <2> QED
      BY <2>1, <2>2, <2>4, <2>5 DEF Outcomes
  <1> QED
    BY <1>2, <1>3

\* Initial states map to initial states of SubmitOnce.
LEMMA InitRefines == Init => Desk!Init
  <1> SUFFICES ASSUME Init PROVE Desk!Init
    OBVIOUS
  <1>1. \A k \in Keys : Ledger(k) = "unsent" /\ ~IsTerminal(market[k])
                        /\ journal.orders[k] = NoRequest
    BY NoOrderNotTerminal DEF Init, ExchangeInit, Ledger
  <1> QED
    BY <1>1 DEF Desk!Init

\* A step that sends nothing and leaves the exchange alone rewrites the book.
LEMMA BookStep ==
    ASSUME IInv, IInv', UNCHANGED exchangeVars
    PROVE  Desk!Rewrite
  <1>1. /\ creates' = creates /\ market' = market
        /\ \A k \in Keys : Ledger(k)' = Ledger(k)
    BY DEF exchangeVars, Ledger
  <1>2. ASSUME NEW k \in Keys, journal'.orders[k] = NoRequest
        PROVE  Ledger(k) \in {"unsent", "refused"} \/ IsTerminal(market[k])
    <2>1. ~MaybeLive(k)
      BY <1>1, <1>2 DEF IInv, PendingInv, MaybeLive, Settled
    <2> QED
      BY <2>1, SettledLedger DEF MaybeLive
  <1> QED
    BY <1>1, <1>2 DEF Desk!Rewrite, Desk!AtRest

\* Sending a create request is a Place of SubmitOnce.
LEMMA SendRefines ==
    ASSUME IInv, IInv', NEW t \in Threads, CreateSend(t)
    PROVE  Desk!Next
  <1>1. PICK k \in Keys : /\ k = call[t].key
                          /\ Settled(k) /\ journal.orders[k] # NoRequest
    BY DEF CreateSend, IInv, CallInv, ThreadInv
  <1>2. /\ creates' = [creates EXCEPT ![k] = Append(creates[k], "flying")]
        /\ market' = market /\ journal' = journal
    BY <1>1 DEF CreateSend, SendCreate
  <1>3. creates \in [Keys -> Seq(Outcomes)]
    BY DEF IInv, TypeOK
  <1>4. /\ Ledger(k)' = "flying"
        /\ \A i \in Keys \ {k} : Ledger(i)' = Ledger(i)
    <2>1. creates'[k] = Append(creates[k], "flying") /\ creates[k] \in Seq(Outcomes)
      BY <1>1, <1>2, <1>3
    <2>2. creates'[k] # << >> /\ creates'[k][Len(creates'[k])] = "flying"
      BY <2>1 DEF Outcomes
    <2>3. \A i \in Keys \ {k} : creates'[i] = creates[i]
      BY <1>2, <1>3
    <2>4. Ledger(k)' = "flying"
      BY <2>2 DEF Ledger
    <2>5. \A i \in Keys \ {k} : Ledger(i)' = Ledger(i)
      BY <2>3 DEF Ledger
    <2> QED
      BY <2>4, <2>5
  <1>5. Ledger(k) \in {"unsent", "refused"}
    BY <1>1, SettledLedger
  <1>6. Desk!Place(k)
    <2> DEFINE ledger == [i \in Keys |-> Ledger(i)]
    <2>1. ledger' = [ledger EXCEPT ![k] = "flying"]
      BY <1>1, <1>4
    <2> QED
      BY <1>1, <1>2, <1>5, <2>1 DEF Desk!Place
  <1> QED
    BY <1>1, <1>6 DEF Desk!Next

\* A step of the exchange is a Settle or a Close, or a stutter.
LEMMA ExchangeRefines ==
    ASSUME IInv, IInv', ExchangeStep
    PROVE  Desk!Next \/ UNCHANGED Desk!vars
  <1>1. PICK k \in Keys : Accept(k) \/ Refuse(k) \/ Lose(k) \/ Trade(k) \/ Cancel(k)
    BY DEF ExchangeStep, ExchangeNext
  <1>2. /\ creates \in [Keys -> Seq(Outcomes)] /\ Len(creates[k]) \in Nat
        /\ market \in [Keys -> Orders \cup {NoOrder}] /\ journal' = journal
    BY DEF IInv, TypeOK, ExchangeStep
  <1>3. CASE Accept(k) \/ Refuse(k) \/ Lose(k)
    <2>1. PICK n \in 1..Len(creates[k]), s \in {"accepted", "refused", "lost"} :
            /\ creates[k][n] = "flying"
            /\ creates' = [creates EXCEPT ![k][n] = s]
            /\ \/ market' = [market EXCEPT ![k] = Ack]
               \/ market' = market
      BY <1>3 DEF Accept, Refuse, Lose
    <2>2. n = Len(creates[k]) /\ market[k] = NoOrder
      BY <2>1, FlyingIsLast
    <2>3. /\ creates[k] # << >> /\ creates'[k] # << >>
          /\ creates'[k][Len(creates'[k])] = s
          /\ \A i \in Keys \ {k} : creates'[i] = creates[i] /\ market'[i] = market[i]
      BY <1>2, <2>1, <2>2
    <2>4. /\ Ledger(k) = "flying" /\ Ledger(k)' = s
          /\ \A i \in Keys \ {k} : Ledger(i)' = Ledger(i)
      BY <2>1, <2>2, <2>3 DEF Ledger
    <2>5. \A i \in Keys : IsTerminal(market'[i]) <=> IsTerminal(market[i])
      BY <1>2, <2>1, <2>2, <2>3, NoOrderNotTerminal
    <2>6. Desk!Settle(k)
      BY <1>2, <2>4, <2>5 DEF Desk!Settle
    <2> QED
      BY <2>6 DEF Desk!Next
  <1>4. CASE Trade(k) \/ Cancel(k)
    <2>1. /\ creates' = creates /\ market[k] # NoOrder /\ ~IsTerminal(market[k])
          /\ \A i \in Keys \ {k} : market'[i] = market[i]
      BY <1>2, <1>4, OrderTypes DEF Trade, Cancel, IsTerminal, Orders, NoOrder
    <2>2. \A i \in Keys : Ledger(i)' = Ledger(i)
      BY <2>1 DEF Ledger
    <2>3. Ledger(k) = "accepted"
      BY <2>1, SettledLedger
    <2>4. CASE IsTerminal(market'[k])
      <3>1. {i \in Keys : IsTerminal(market'[i])} =
                {i \in Keys : IsTerminal(market[i])} \cup {k}
        BY <2>1, <2>4
      <3>2. Desk!Close(k)
        BY <1>2, <2>2, <2>3, <3>1 DEF Desk!Close
      <3> QED
        BY <3>2 DEF Desk!Next
    <2>5. CASE ~IsTerminal(market'[k])
      <3>1. \A i \in Keys : IsTerminal(market'[i]) <=> IsTerminal(market[i])
        BY <2>1, <2>5
      <3> QED
        BY <1>2, <2>2, <3>1 DEF Desk!vars
    <2> QED
      BY <2>4, <2>5
  <1> QED
    BY <1>1, <1>3, <1>4

\* A step of the service that sends no create request leaves the exchange alone.
LEMMA QuietServiceStep ==
    ASSUME NEW t \in Threads, ServiceStep(t), ~CreateSend(t)
    PROVE  UNCHANGED exchangeVars
  BY DEF ServiceStep, Submit, SubmitConflict, SubmitKnown, SubmitDuplicate,
         SubmitUnprepared, SubmitClaim, SubmitQuery, Claim, ConfirmAndSubmit,
         ConfirmRefused, ConfirmClaim, Refresh, RecoverPending, Record,
         RegisterContext, CompleteContext, SetConfirmationRequired, CreateReturned,
         CreateMismatched, CreateUnreadable, CreateRefused, CreateUnclear,
         QuerySend, QueryReturned, QueryMismatched, QueryFailed, Return

\* Every step maps to a step of SubmitOnce or to a stutter.
LEMMA StepRefines ==
    ASSUME IInv, [Next]_vars
    PROVE  [Desk!Next]_Desk!vars
  <1>1. IInv'
    BY StepInv
  <1>2. CASE UNCHANGED vars
    <2>1. /\ \A k \in Keys : Ledger(k)' = Ledger(k)
          /\ market' = market /\ journal' = journal
      BY <1>2 DEF vars, exchangeVars, Ledger
    <2> QED
      BY <2>1 DEF Desk!vars
  <1>3. ASSUME NEW t \in Threads, ServiceStep(t) PROVE Desk!Next
    BY <1>1, <1>3, SendRefines, QuietServiceStep, BookStep DEF Desk!Next
  <1>4. CASE Restart
    BY <1>1, <1>4, BookStep DEF Restart, Desk!Next
  <1> QED
    BY <1>1, <1>2, <1>3, <1>4, ExchangeRefines DEF Next

\* IdempotentOrderService, its journal, its recovery and the exchange together
\* keep the promise of SubmitOnce: an id is placed only while the journal
\* tracks it and every earlier attempt was refused, and is tracked until it
\* can no longer trade.
THEOREM Refinement == Spec => ImplementsSubmitOnce
  <1>1. Init => Desk!Init
    BY InitRefines
  <1>2. IInv /\ [Next]_vars => [Desk!Next]_Desk!vars
    BY StepRefines
  <1> QED
    BY <1>1, <1>2, Invariance, PTL DEF Spec, ImplementsSubmitOnce, Desk!Spec

-----------------------------------------------------------------------------
(* The confirmation and the claim *)

\* What the service knows or has written is of an id it attempted, or of an order
\* that exists; and without failed writes the journal holds the contexts.
ClaimedInv ==
    /\ faults = 0 => journal.contexts = contexts
    /\ \A k \in Keys : submitted[k] # NoRequest \/ journal.orders[k] # NoRequest =>
                          k \in attempted \/ market[k] # NoOrder
    /\ \A k \in Keys : orders[k] # NoOrder => market[k] # NoOrder
    /\ \A t \in Threads : call[t].phase = "asked" /\ call[t].order # NoOrder =>
                             market[call[t].key] # NoOrder

\* What a step of thread t does to what the claims rest on, and to the flags.
Written(t) == \/ journal' = journal /\ contexts' = contexts /\ faults' = faults
              \/ journal' = journal /\ faults' = faults + 1
              \/ Persisted
Pends == /\ attempted \subseteq attempted'
         /\ \A k \in Keys : submitted'[k] # NoRequest =>
               submitted[k] # NoRequest \/ k \in attempted' \/ orders[k] # NoOrder
Learns == \A k \in Keys : orders'[k] # NoOrder =>
             orders[k] # NoOrder \/ market[k] # NoOrder
Listens(t) ==
    /\ \A u \in Threads \ {t} : call'[u] = call[u]
    /\ call'[t].phase = "asked" => call'[t].order = market[call'[t].key]
KeepsFlags(t) == \A o \in Ops :
    contexts[o].confirm /\ contexts'[o] # NoContext /\ ~contexts'[o].confirm =>
       \E r \in Requests : ConfirmClaim(t, r, o)
Effect(t) == Written(t) /\ Pends /\ Learns /\ Listens(t) /\ KeepsFlags(t)

\* A call that is over, or begins, is not waiting for an answer.
LEMMA CallMoves ==
    ASSUME TypeOK, NEW t \in Threads,
           \/ \E result, order : Done(t, result, order)
           \/ \E k : Creating(t, k)
           \/ \E k, batch : Querying(t, k, batch)
           \/ \E result, order : NextQuery(t, result, order)
           \/ WriteFails(t)
           \/ Return(t)
    PROVE  Listens(t)
  BY DEF TypeOK, Done, Creating, Querying, NextQuery, WriteFails, Return, Listens, Stage, Idle

\* What submit and confirm_and_submit write.
LEMMA SubmitWrites ==
    ASSUME IInv, NEW t \in Threads, NEW r \in Requests,
           Submit(t, r) \/ \E o \in Ops : ConfirmAndSubmit(t, r, o)
    PROVE  Effect(t)
  <1>1. TypeOK /\ r.key \in Keys /\ submitted \in Pending
    BY DEF IInv, TypeOK, Requests
  <1>2. CASE UNCHANGED <<memory, journal, faults>>
             /\ \/ \E result, order : Done(t, result, order)
                \/ \E k, batch : Querying(t, k, batch)
    BY <1>1, <1>2, CallMoves DEF memory, Effect, Written, Pends, Learns, KeepsFlags
  <1>3. CASE SubmitUnprepared(t, r)
    BY <1>1, <1>3, CallMoves DEF SubmitUnprepared, Effect, Written, Pends, Learns, KeepsFlags
  <1>4. ASSUME Claim(t, r)
        PROVE  /\ Pends /\ Learns /\ Listens(t)
               /\ Persisted \/ (journal' = journal /\ faults' = faults + 1)
    BY <1>1, <1>4, CallMoves DEF Claim, WriteFails, Pends, Learns, Pending
  <1>5. CASE SubmitClaim(t, r)
    BY <1>4, <1>5 DEF SubmitClaim, Effect, Written, KeepsFlags
  <1>6. ASSUME NEW o \in Ops, ConfirmClaim(t, r, o)
        PROVE  Effect(t)
    <2>1. contexts' = [contexts EXCEPT ![o].confirm = FALSE] /\ Claim(t, r)
      BY <1>6 DEF ConfirmClaim
    <2>2. KeepsFlags(t)
      BY <1>1, <1>6, <2>1 DEF KeepsFlags, TypeOK
    <2> QED
      BY <1>4, <2>1, <2>2 DEF Effect, Written
  <1> QED
    BY <1>2, <1>3, <1>5, <1>6
       DEF Submit, SubmitConflict, SubmitKnown, SubmitDuplicate, SubmitQuery,
           ConfirmAndSubmit, ConfirmRefused

\* A terminal order adds nothing to what is pending.
LEMMA FinishPends ==
    ASSUME TypeOK, NEW k \in Keys, NEW order, FinishIfTerminal(k, order), UNCHANGED attempted
    PROVE  Pends
  BY DEF FinishIfTerminal, TypeOK, Pending, Pends

\* What the outcome of a create request writes.
LEMMA CreateWrites ==
    ASSUME IInv, NEW t \in Threads,
           \/ CreateSend(t) \/ CreateReturned(t) \/ CreateMismatched(t)
           \/ CreateUnreadable(t) \/ CreateRefused(t) \/ CreateUnclear(t)
    PROVE  Effect(t)
  <1> DEFINE k == call[t].key
  <1>1. /\ TypeOK /\ k \in Keys
        /\ call[t].phase = "sent" /\ OutcomeOf(t) = "accepted" => market[k] # NoOrder
    <2>1. /\ TypeOK /\ k \in Keys /\ creates \in [Keys -> Seq(Outcomes)]
          /\ call[t].phase = "sent" => call[t].attempt = Len(creates[k]) /\ call[t].attempt > 0
      BY DEF IInv, TypeOK, CallInv, ThreadInv, CreateSend, CreateReturned, CreateMismatched,
             CreateUnreadable, CreateRefused, CreateUnclear
    <2>2. Len(creates[k]) \in Nat
      BY <2>1
    <2> QED
      BY <2>1, <2>2 DEF IInv, MarketInv, OutcomeOf
  <1>2. CASE CreateSend(t)
    <2>1. Listens(t)
      BY <1>1, <1>2 DEF CreateSend, Listens, TypeOK, Stage
    <2> QED
      BY <1>2, <2>1 DEF CreateSend, memory, Effect, Written, Pends, Learns, KeepsFlags
  <1>3. CASE CreateMismatched(t) \/ CreateUnreadable(t)
    BY <1>1, <1>3, CallMoves
       DEF CreateMismatched, CreateUnreadable, memory, Effect, Written, Pends, Learns, KeepsFlags
  <1>4. CASE CreateReturned(t)
    <2>1. PICK order \in {Ack, market[k]} :
            /\ orders' = [orders EXCEPT ![k] = order]
            /\ FinishIfTerminal(k, order)
            /\ UNCHANGED <<attempted, contexts>>
            /\ (Persisted /\ Done(t, "order", order)) \/ WriteFails(t)
      BY <1>4 DEF CreateReturned
    <2>2. Pends /\ Listens(t)
      BY <1>1, <2>1, FinishPends, CallMoves
    <2>3. Learns
      BY <1>1, <1>4, <2>1 DEF CreateReturned, Learns, TypeOK
    <2> QED
      BY <2>1, <2>2, <2>3 DEF Effect, Written, KeepsFlags, WriteFails
  <1>5. CASE CreateRefused(t)
    <2>1. Pends
      BY <1>1, <1>5 DEF CreateRefused, Pends, TypeOK, Pending
    <2> QED
      BY <1>1, <1>5, <2>1, CallMoves
         DEF CreateRefused, Effect, Written, Learns, KeepsFlags, WriteFails
  <1>6. CASE CreateUnclear(t)
    BY <1>1, <1>6, CallMoves
       DEF CreateUnclear, Effect, Written, Pends, Learns, KeepsFlags, WriteFails
  <1> QED
    BY <1>2, <1>3, <1>4, <1>5, <1>6

\* What the outcome of a query writes.
LEMMA QueryWrites ==
    ASSUME IInv, ClaimedInv, NEW t \in Threads,
           QuerySend(t) \/ QueryReturned(t) \/ QueryMismatched(t) \/ QueryFailed(t)
    PROVE  Effect(t)
  <1> DEFINE k == call[t].key
  <1>1. TypeOK /\ k \in Keys
    BY DEF IInv, CallInv, ThreadInv, QuerySend, QueryReturned, QueryMismatched, QueryFailed
  <1>2. CASE QuerySend(t)
    <2>1. Listens(t)
      BY <1>1, <1>2 DEF QuerySend, Listens, TypeOK, Stage
    <2> QED
      BY <1>2, <2>1 DEF QuerySend, memory, Effect, Written, Pends, Learns, KeepsFlags
  <1>3. CASE QueryMismatched(t) \/ QueryFailed(t)
    BY <1>1, <1>3, CallMoves
       DEF QueryMismatched, QueryFailed, memory, Effect, Written, Pends, Learns, KeepsFlags
  <1>4. CASE QueryReturned(t)
    <2>1. /\ orders' = [orders EXCEPT ![k] = call[t].order] /\ market[k] # NoOrder
          /\ FinishIfTerminal(k, call[t].order)
          /\ UNCHANGED <<attempted, contexts>>
          /\ (Persisted /\ NextQuery(t, "order", call[t].order)) \/ WriteFails(t)
      BY <1>4 DEF QueryReturned, ClaimedInv
    <2>2. Pends /\ Listens(t)
      BY <1>1, <2>1, FinishPends, CallMoves
    <2>3. Learns
      BY <1>1, <2>1 DEF Learns, TypeOK
    <2> QED
      BY <2>1, <2>2, <2>3 DEF Effect, Written, KeepsFlags, WriteFails
  <1> QED
    BY <1>2, <1>3, <1>4

\* What refresh, recover_pending and record write.
LEMMA OtherWrites ==
    ASSUME IInv, NEW t \in Threads,
           \/ \E r \in Requests : orders[r.key] # NoOrder /\ Refresh(t, r)
           \/ RecoverPending(t)
           \/ \E k \in Keys : \E order \in Past(k) : Record(t, k, order)
           \/ Return(t)
    PROVE  Effect(t)
  <1>1. TypeOK
    BY DEF IInv
  <1>2. ASSUME NEW r \in Requests, orders[r.key] # NoOrder, Refresh(t, r)
        PROVE  Effect(t)
    <2>1. Listens(t)
      BY <1>1, <1>2, CallMoves DEF Refresh
    <2>2. Pends
      BY <1>1, <1>2 DEF Refresh, Pends, TypeOK, Pending, Requests
    <2> QED
      BY <1>2, <2>1, <2>2 DEF Refresh, Effect, Written, Learns, KeepsFlags
  <1>3. CASE RecoverPending(t) \/ Return(t)
    <2>1. Listens(t)
      BY <1>1, <1>3, CallMoves DEF RecoverPending
    <2> QED
      BY <1>3, <2>1
         DEF RecoverPending, Return, memory, Effect, Written, Pends, Learns, KeepsFlags
  <1>4. ASSUME NEW k \in Keys, NEW order \in Past(k), Record(t, k, order)
        PROVE  Effect(t)
    <2>1. Listens(t)
      BY <1>1, <1>4, CallMoves DEF Record
    <2>2. Pends
      BY <1>1, <1>4, FinishPends DEF Record
    <2>3. Learns
      BY <1>1, <1>4 DEF Record, Learns, TypeOK, Past
    <2> QED
      BY <1>4, <2>1, <2>2, <2>3 DEF Record, Effect, Written, KeepsFlags, WriteFails
  <1> QED
    BY <1>2, <1>3, <1>4

\* What the operations on a context write.
LEMMA ContextWrites ==
    ASSUME IInv, NEW t \in Threads, NEW o \in Ops,
           \/ \E kind \in Kinds, batch \in SUBSET Requests : RegisterContext(t, o, kind, batch)
           \/ CompleteContext(t, o)
           \/ SetConfirmationRequired(t, o)
    PROVE  Effect(t)
  <1>1. TypeOK /\ contexts \in [Ops -> Contexts \cup {NoContext}]
    BY DEF IInv, TypeOK
  <1>2. ASSUME NEW kind \in Kinds, NEW batch \in SUBSET Requests,
               RegisterContext(t, o, kind, batch)
        PROVE  Effect(t)
    <2>1. Listens(t)
      BY <1>1, <1>2, CallMoves DEF RegisterContext
    <2>2. KeepsFlags(t)
      BY <1>1, <1>2 DEF RegisterContext, KeepsFlags
    <2> QED
      BY <1>2, <2>1, <2>2 DEF RegisterContext, Effect, Written, Pends, Learns, WriteFails
  <1>3. CASE CompleteContext(t, o)
    <2>1. Listens(t)
      BY <1>1, <1>3, CallMoves DEF CompleteContext
    <2>2. KeepsFlags(t)
      BY <1>1, <1>3 DEF CompleteContext, KeepsFlags
    <2>3. Pends
      BY <1>3 DEF CompleteContext, Pends
    <2> QED
      BY <1>3, <2>1, <2>2, <2>3 DEF CompleteContext, Effect, Written, Learns, WriteFails
  <1>4. CASE SetConfirmationRequired(t, o)
    <2>1. Listens(t)
      BY <1>1, <1>4, CallMoves DEF SetConfirmationRequired
    <2>2. KeepsFlags(t)
      <3>1. CASE contexts' = contexts
        BY <3>1 DEF KeepsFlags
      <3>2. CASE contexts[o] # NoContext
                 /\ contexts' = [contexts EXCEPT ![o].confirm = TRUE]
        <4>1. contexts'[o] = [contexts[o] EXCEPT !.confirm = TRUE] /\ contexts[o] \in Contexts
          BY <1>1, <3>2
        <4>2. contexts'[o].confirm
          BY <4>1 DEF Contexts
        <4>3. \A p \in Ops \ {o} : contexts'[p] = contexts[p]
          BY <1>1, <3>2
        <4> QED
          BY <4>2, <4>3 DEF KeepsFlags
      <3> QED
        BY <1>4, <3>1, <3>2 DEF SetConfirmationRequired
    <2> QED
      BY <1>4, <2>1, <2>2
         DEF SetConfirmationRequired, Effect, Written, Pends, Learns, WriteFails
  <1> QED
    BY <1>2, <1>3, <1>4

\* So every step of the service writes no more than Effect says.
LEMMA ServiceWrites ==
    ASSUME IInv, ClaimedInv, NEW t \in Threads, ServiceStep(t)
    PROVE  Effect(t) /\ market' = market
  <1>1. market' = market
    <2>1. CASE CreateSend(t)
      BY <2>1 DEF CreateSend, SendCreate
    <2>2. CASE ~CreateSend(t)
      BY <2>2, QuietServiceStep DEF exchangeVars
    <2> QED
      BY <2>1, <2>2
  <1> QED
    BY <1>1, SubmitWrites, CreateWrites, QueryWrites, OtherWrites, ContextWrites
       DEF ServiceStep

\* Every step keeps the invariant.
LEMMA ClaimedStep ==
    ASSUME IInv, ClaimedInv, [Next]_vars
    PROVE  ClaimedInv'
  <1>1. TypeOK /\ faults \in Nat
    BY DEF IInv, TypeOK
  <1>2. ASSUME NEW t \in Threads, ServiceStep(t)
        PROVE  ClaimedInv'
    <2>1. Written(t) /\ Pends /\ Learns /\ Listens(t) /\ market' = market
      BY <1>2, ServiceWrites DEF Effect
    <2>2. faults' = 0 => journal'.contexts = contexts'
      BY <1>1, <2>1 DEF Written, ClaimedInv, Persisted
    <2>3. ASSUME NEW k \in Keys, submitted'[k] # NoRequest \/ journal'.orders[k] # NoRequest
          PROVE  k \in attempted' \/ market'[k] # NoOrder
      BY <2>1, <2>3 DEF Written, Pends, ClaimedInv, Persisted
    <2>4. \A k \in Keys : orders'[k] # NoOrder => market'[k] # NoOrder
      BY <2>1 DEF Learns, ClaimedInv
    <2>5. ASSUME NEW u \in Threads, call'[u].phase = "asked", call'[u].order # NoOrder
          PROVE  market'[call'[u].key] # NoOrder
      BY <2>1, <2>5 DEF Listens, ClaimedInv
    <2> QED
      BY <2>2, <2>3, <2>4, <2>5 DEF ClaimedInv
  <1>3. CASE ExchangeStep
    <2>1. \A k \in Keys : market[k] # NoOrder => market'[k] # NoOrder
      <3>1. market \in [Keys -> Orders \cup {NoOrder}]
        BY <1>1 DEF TypeOK
      <3>2. PICK i \in Keys : Accept(i) \/ Refuse(i) \/ Lose(i) \/ Trade(i) \/ Cancel(i)
        BY <1>3 DEF ExchangeStep, ExchangeNext
      <3>3. CASE Accept(i) \/ Trade(i)
        <4>1. PICK order \in Orders : market' = [market EXCEPT ![i] = order]
          BY <3>3, OrderTypes DEF Accept, Trade
        <4> QED
          BY <3>1, <4>1, OrderTypes
      <3>4. CASE Refuse(i) \/ Lose(i)
        BY <3>4 DEF Refuse, Lose
      <3>5. CASE Cancel(i)
        <4>1. market'[i].status = "canceled" /\ \A k \in Keys \ {i} : market'[k] = market[k]
          <5>1. market[i] \in Orders
            BY <3>1, <3>5 DEF Cancel, NoOrder
          <5> QED
            BY <3>1, <3>5, <5>1 DEF Cancel, Orders
        <4> QED
          BY <4>1 DEF NoOrder
      <3> QED
        BY <3>2, <3>3, <3>4, <3>5
    <2>2. \A t \in Threads : call[t].phase = "asked" => call[t].key \in Keys
      BY DEF IInv, CallInv, ThreadInv
    <2> QED
      BY <1>3, <2>1, <2>2 DEF ExchangeStep, memory, ClaimedInv
  <1>4. CASE Restart
    BY <1>4 DEF Restart, exchangeVars, ClaimedInv, Idle, Stage
  <1>5. CASE UNCHANGED vars
    BY <1>5 DEF vars, exchangeVars, memory, ClaimedInv
  <1> QED
    BY <1>2, <1>3, <1>4, <1>5 DEF Next

\* While journal writes succeed, the journal drops the confirmation flag of a
\* context only together with the claim of one of its ids: no crash finds the
\* user's confirmation used up and nothing claimed for it.
THEOREM ConfirmationIsClaimed == Spec => ConfirmationJournalledWithClaim
  <1> DEFINE Claims == \A o \in Ops :
        /\ faults = 0 /\ journal.contexts[o].confirm
        /\ journal'.contexts[o] # NoContext /\ ~journal'.contexts[o].confirm
        => \E k \in KeysOf(journal'.contexts[o]) :
              journal.orders[k] = NoRequest /\ journal'.orders[k] # NoRequest
  <1>1. Init => ClaimedInv
    BY DEF Init, ClaimedInv, Idle, Stage
  <1>2. ASSUME IInv, ClaimedInv, [Next]_vars
        PROVE  Claims
    <2> SUFFICES ASSUME NEW o \in Ops, faults = 0, journal.contexts[o].confirm,
                        journal'.contexts[o] # NoContext, ~journal'.contexts[o].confirm
                 PROVE  \E k \in KeysOf(journal'.contexts[o]) :
                           journal.orders[k] = NoRequest /\ journal'.orders[k] # NoRequest
      OBVIOUS
    <2>1. contexts[o].confirm
      BY <1>2 DEF ClaimedInv
    <2>2. PICK t \in Threads : ServiceStep(t)
      BY <1>2 DEF Next, ExchangeStep, Restart, vars
    <2>3. journal' # journal
      OBVIOUS
    <2>4. Persisted /\ KeepsFlags(t)
      BY <1>2, <2>2, <2>3, ServiceWrites DEF Effect, Written
    <2>5. journal'.contexts = contexts' /\ journal'.orders = submitted'
      BY <2>4 DEF Persisted
    <2>6. PICK r \in Requests : ConfirmClaim(t, r, o)
      BY <2>1, <2>4, <2>5 DEF KeepsFlags
    <2>7. /\ r.key \in Keys /\ r.key \notin attempted /\ r.key \in KeysOf(contexts[o])
          /\ submitted' = [submitted EXCEPT ![r.key] = Prepared(r.quantity)]
          /\ contexts' = [contexts EXCEPT ![o].confirm = FALSE]
          /\ Prepared(r.quantity) >= MinimumQuantity
      BY <2>6 DEF ConfirmClaim, CanConfirm, Claim, KeysOf, Requests, Preparable
    <2>8. market[r.key] = NoOrder
      BY <1>2, <2>7 DEF IInv, AttemptInv, InSomeContext, MarketInv, Settled
    <2>9. journal.orders[r.key] = NoRequest
      BY <1>2, <2>7, <2>8 DEF ClaimedInv
    <2>10. journal'.orders[r.key] # NoRequest
      <3>1. submitted \in Pending /\ r.quantity \in Quantities
        BY <1>2 DEF IInv, TypeOK, Requests
      <3> QED
        BY <2>5, <2>7, <3>1, ServiceAssumption, PreparedType DEF Pending, NoRequest
    <2>11. r.key \in KeysOf(journal'.contexts[o])
      <3>1. contexts \in [Ops -> Contexts \cup {NoContext}]
        BY <1>2 DEF IInv, TypeOK
      <3> QED
        BY <2>5, <2>7, <3>1 DEF KeysOf
    <2> QED
      BY <2>9, <2>10, <2>11
  <1>3. IInv /\ ClaimedInv /\ [Next]_vars => ClaimedInv'
    BY ClaimedStep
  <1>4. IInv /\ ClaimedInv /\ [Next]_vars => [Claims]_<<journal, faults>>
    BY <1>2
  <1> QED
    BY <1>1, <1>3, <1>4, Invariance, PTL DEF Spec, ConfirmationJournalledWithClaim
=============================================================================
