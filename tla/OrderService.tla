---------------------------- MODULE OrderService ----------------------------
(***************************************************************************)
(* IdempotentOrderService (app/execution/order_recovery_service.py): the   *)
(* only path by which the program creates orders.  It claims a client      *)
(* order id in a durable journal before the create request leaves, never   *)
(* creates again while the outcome is open, and after a restart asks the   *)
(* exchange for every order the journal names.                             *)
(*                                                                         *)
(* A section under the service's lock is one step.  The lock is not held   *)
(* during a REST call, so a call is a sequence of steps of its thread, and *)
(* other threads, the exchange, and a restart come in between.             *)
(***************************************************************************)
EXTENDS Exchange, FiniteSets

CONSTANTS
    Ops,              \* operation ids: the arbitrage positions
    Threads,          \* threads that call the service
    Quantities,       \* quantities a caller asks for, in quantity_step units
    QuantityStep,     \* TradingRules.quantity_step
    MinimumQuantity,  \* TradingRules.minimum_quantity
    Garbled,          \* whether a successful answer may be unreadable or name
                      \* another order
    MaxRestarts,      \* bound: restarts of the process
    MaxFaults         \* bound: journal writes that fail

ASSUME ServiceAssumption ==
    /\ Quantities \subseteq Nat \ {0}
    /\ QuantityStep \in Nat \ {0}
    /\ MinimumQuantity \in Nat \ {0}
    /\ 0 \in Fills /\ Fills \subseteq Nat
    /\ Garbled \in BOOLEAN
    /\ MaxRestarts \in Nat /\ MaxFaults \in Nat

VARIABLES
    requests,   \* _requests: the quantity each id was first used with
    submitted,  \* _submitted_requests: normalized, waiting for a terminal order
    orders,     \* _orders: the last order seen
    uncertain,  \* _uncertain: ids that may only be queried
    attempted,  \* _attempted: ids a create request was claimed for
    contexts,   \* _contexts: the recovery context of each operation
    journal,    \* the file at _journal_path
    call,       \* what each thread is doing inside the service
    restarts, faults

memory == <<requests, submitted, orders, uncertain, attempted, contexts>>
vars == <<exchangeVars, memory, journal, call, restarts, faults>>

\* An entry that is absent from a dictionary of requests.
NoRequest == 0

Requests == [key : Keys, quantity : Quantities]
Kinds == {"open", "close"}
NoContext == [kind |-> "none", requests |-> {}, confirm |-> FALSE]
Contexts == [kind : Kinds, requests : SUBSET Requests, confirm : BOOLEAN]

KeysOf(context) == {r.key : r \in context.requests}

\* prepare_order: round the quantity down to the step, refuse what is too small.
Prepared(quantity) == quantity - (quantity % QuantityStep)
Preparable(quantity) == Prepared(quantity) >= MinimumQuantity

\* A call of the service.  phase: "create" claimed, "sent" waiting for the
\* answer to a create request, "query" about to ask, "asked" waiting for the
\* answer to a query, "done" about to return result.
Stage(phase, key, attempt, order, batch, result) ==
    [phase |-> phase, key |-> key, attempt |-> attempt, order |-> order,
     batch |-> batch, result |-> result]
Idle == Stage("idle", "none", 0, NoOrder, {}, "none")
Results == {"none", "order", "unknown", "refused", "invalid", "unprepared",
            "duplicate", "oserror", "keyerror"}

Creating(t, k) ==
    call' = [call EXCEPT ![t] = Stage("create", k, 0, NoOrder, {}, "none")]
Querying(t, k, batch) ==
    call' = [call EXCEPT ![t] = Stage("query", k, 0, NoOrder, batch, "none")]
Done(t, result, order) ==
    call' = [call EXCEPT ![t] = Stage("done", "none", 0, order, {}, result)]

\* _write_journal: the temporary file replaces the journal, or the write
\* fails and leaves the old journal, and OSError leaves the service.
Persisted == /\ journal' = [orders |-> submitted', contexts |-> contexts']
             /\ UNCHANGED faults
WriteFails(t) == /\ faults < MaxFaults
                 /\ faults' = faults + 1
                 /\ Done(t, "oserror", NoOrder)
                 /\ UNCHANGED journal

\* _finish_if_terminal up to its journal write: a terminal order leaves the
\* pending requests unless a context still needs it.
Finished(k, order) ==
    IsTerminal(order) /\ \A o \in Ops : k \notin KeysOf(contexts[o])
FinishIfTerminal(k, order) ==
    submitted' = IF Finished(k, order)
                 THEN [submitted EXCEPT ![k] = NoRequest] ELSE submitted

-----------------------------------------------------------------------------
(* submit: under the lock, up to the first REST call *)

IsConflict(r) == requests[r.key] \notin {NoRequest, r.quantity}
IsFresh(k) == orders[k] = NoOrder /\ k \notin uncertain /\ k \notin attempted

SubmitConflict(t, r) ==
    /\ IsConflict(r)
    /\ Done(t, "invalid", NoOrder)
    /\ UNCHANGED <<exchangeVars, memory, journal, restarts, faults>>

SubmitKnown(t, r) ==
    /\ ~IsConflict(r)
    /\ orders[r.key] # NoOrder
    /\ Done(t, "order", orders[r.key])
    /\ UNCHANGED <<exchangeVars, memory, journal, restarts, faults>>

SubmitDuplicate(t, r) ==
    /\ ~IsConflict(r)
    /\ orders[r.key] = NoOrder /\ r.key \notin uncertain /\ r.key \in attempted
    /\ Done(t, "duplicate", NoOrder)
    /\ UNCHANGED <<exchangeVars, memory, journal, restarts, faults>>

\* The id stays bound to the request that prepare_order refused.
SubmitUnprepared(t, r) ==
    /\ ~IsConflict(r) /\ IsFresh(r.key)
    /\ ~Preparable(r.quantity)
    /\ requests' = [requests EXCEPT ![r.key] = r.quantity]
    /\ Done(t, "unprepared", NoOrder)
    /\ UNCHANGED <<exchangeVars, submitted, orders, uncertain, attempted,
                   contexts, journal, restarts, faults>>

\* Mutant of Claim: the request leaves before the journal names it.
ClaimUnjournalled(t, r) ==
    /\ requests' = [requests EXCEPT ![r.key] = r.quantity]
    /\ submitted' = [submitted EXCEPT ![r.key] = Prepared(r.quantity)]
    /\ attempted' = attempted \cup {r.key}
    /\ Creating(t, r.key)
    /\ UNCHANGED <<exchangeVars, orders, uncertain, journal, faults, restarts>>

\* The claim itself: bind the id, mark it attempted and write the journal.
Claim(t, r) ==
    /\ requests' = [requests EXCEPT ![r.key] = r.quantity]
    /\ submitted' = [submitted EXCEPT ![r.key] = Prepared(r.quantity)]
    /\ attempted' = attempted \cup {r.key}
    /\ \/ Persisted /\ Creating(t, r.key)
       \/ WriteFails(t)
    /\ UNCHANGED <<exchangeVars, orders, uncertain, restarts>>

SubmitClaim(t, r) ==
    /\ ~IsConflict(r) /\ IsFresh(r.key)
    /\ Preparable(r.quantity)
    /\ UNCHANGED contexts
    /\ Claim(t, r)

\* An id whose outcome is open is only ever queried.
SubmitQuery(t, r) ==
    /\ ~IsConflict(r)
    /\ orders[r.key] = NoOrder /\ r.key \in uncertain
    /\ IF submitted[r.key] = NoRequest
       THEN Done(t, "keyerror", NoOrder)
       ELSE Querying(t, r.key, {})
    /\ UNCHANGED <<exchangeVars, memory, journal, restarts, faults>>

Submit(t, r) ==
    /\ call[t].phase = "idle"
    /\ \/ SubmitConflict(t, r)
       \/ SubmitKnown(t, r)
       \/ SubmitDuplicate(t, r)
       \/ SubmitUnprepared(t, r)
       \/ SubmitClaim(t, r)
       \/ SubmitQuery(t, r)

-----------------------------------------------------------------------------
(* confirm_and_submit: clear the confirmation flag and claim in one write *)

CanConfirm(r, o) ==
    /\ contexts[o].confirm
    /\ r \in contexts[o].requests
    /\ ~IsConflict(r)

ConfirmRefused(t, r, o) ==
    /\ \/ ~Preparable(r.quantity) /\ Done(t, "unprepared", NoOrder)
       \/ Preparable(r.quantity) /\ ~CanConfirm(r, o) /\ Done(t, "invalid", NoOrder)
       \/ /\ Preparable(r.quantity) /\ CanConfirm(r, o) /\ r.key \in attempted
          /\ Done(t, "duplicate", NoOrder)
    /\ UNCHANGED <<exchangeVars, memory, journal, restarts, faults>>

\* Mutant of ConfirmClaim: the flag is written without the claim.
ConfirmBeforeClaim(t, r, o) ==
    /\ Preparable(r.quantity) /\ CanConfirm(r, o) /\ r.key \notin attempted
    /\ contexts' = [contexts EXCEPT ![o].confirm = FALSE]
    /\ journal' = [journal EXCEPT !.contexts = contexts']
    /\ UNCHANGED <<requests, submitted, attempted, faults>>
    /\ Done(t, "none", NoOrder)
    /\ UNCHANGED <<exchangeVars, orders, uncertain, restarts>>

ConfirmClaim(t, r, o) ==
    /\ Preparable(r.quantity) /\ CanConfirm(r, o) /\ r.key \notin attempted
    /\ contexts' = [contexts EXCEPT ![o].confirm = FALSE]
    /\ Claim(t, r)

ConfirmAndSubmit(t, r, o) ==
    /\ call[t].phase = "idle"
    /\ ConfirmRefused(t, r, o) \/ ConfirmClaim(t, r, o)

-----------------------------------------------------------------------------
(* _send_prepared: client.create_order and what its outcome does *)

CreateSend(t) ==
    LET k == call[t].key IN
    /\ call[t].phase = "create"
    /\ SendCreate(k)
    /\ call' = [call EXCEPT ![t] =
                    Stage("sent", k, Len(creates[k]) + 1, NoOrder, {}, "none")]
    /\ UNCHANGED <<memory, journal, restarts, faults>>

OutcomeOf(t) == creates[call[t].key][call[t].attempt]

\* The answer is a valid order: an acknowledgement, or the order as matched.
CreateReturned(t) ==
    LET k == call[t].key IN
    /\ call[t].phase = "sent" /\ OutcomeOf(t) = "accepted"
    /\ \E order \in {Ack, market[k]} :
        /\ orders' = [orders EXCEPT ![k] = order]
        /\ FinishIfTerminal(k, order)
        /\ uncertain' = IF Finished(k, order) THEN uncertain \ {k} ELSE uncertain
        /\ UNCHANGED <<exchangeVars, requests, attempted, contexts, restarts>>
        /\ \/ Persisted /\ Done(t, "order", order)
           \/ WriteFails(t)

\* The answer is an order of another request: _validate_recovered_order.
CreateMismatched(t) ==
    LET k == call[t].key IN
    /\ Garbled /\ call[t].phase = "sent" /\ OutcomeOf(t) = "accepted"
    /\ uncertain' = uncertain \cup {k}
    /\ Querying(t, k, {})
    /\ UNCHANGED <<exchangeVars, requests, submitted, orders, attempted, contexts,
                   journal, restarts, faults>>

\* The mapper cannot read the answer: OrderDataError is no ExchangeRestError,
\* and leaves create_order and _send_prepared with nothing recorded.
CreateUnreadable(t) ==
    /\ Garbled /\ call[t].phase = "sent" /\ OutcomeOf(t) = "accepted"
    /\ Done(t, "invalid", NoOrder)
    /\ UNCHANGED <<exchangeVars, memory, journal, restarts, faults>>

\* An error that rules the order out (_requires_lookup is false): refused by
\* the exchange, or never sent because credentials are missing.
CreateRefused(t) ==
    LET k == call[t].key IN
    /\ \/ call[t].phase = "create"
       \/ call[t].phase = "sent" /\ OutcomeOf(t) = "refused"
    /\ submitted' = [submitted EXCEPT ![k] = NoRequest]
    /\ UNCHANGED <<exchangeVars, requests, orders, uncertain, attempted, contexts,
                   restarts>>
    /\ \/ Persisted /\ Done(t, "refused", NoOrder)
       \/ WriteFails(t)

\* A timeout, a 5xx, an unreadable body or a lookup code: whatever became of
\* the request, its id is uncertain from now on.
CreateUnclear(t) ==
    LET k == call[t].key IN
    /\ call[t].phase = "sent"
    /\ uncertain' = uncertain \cup {k}
    /\ UNCHANGED <<exchangeVars, requests, submitted, orders, attempted, contexts,
                   restarts>>
    /\ \/ Persisted /\ Querying(t, k, {})
       \/ WriteFails(t)

-----------------------------------------------------------------------------
(* _recover: client.query_order and what its outcome does *)

QuerySend(t) ==
    /\ call[t].phase = "query"
    /\ call' = [call EXCEPT ![t] = Stage("asked", call[t].key, 0,
                                         market[call[t].key], call[t].batch, "none")]
    /\ UNCHANGED <<exchangeVars, memory, journal, restarts, faults>>

\* recover_pending goes on with the next request, any other call returns.
NextQuery(t, result, order) ==
    IF call[t].batch = {}
    THEN Done(t, result, order)
    ELSE \E k \in call[t].batch : Querying(t, k, call[t].batch \ {k})

QueryReturned(t) ==
    LET k == call[t].key
        order == call[t].order
    IN
    /\ call[t].phase = "asked" /\ order # NoOrder
    /\ orders' = [orders EXCEPT ![k] = order]
    /\ uncertain' = uncertain \ {k}
    /\ FinishIfTerminal(k, order)
    /\ UNCHANGED <<exchangeVars, requests, attempted, contexts, restarts>>
    /\ \/ Persisted /\ NextQuery(t, "order", order)
       \/ WriteFails(t)

\* The answer is an order of another request, or cannot be read.
QueryMismatched(t) ==
    /\ Garbled /\ call[t].phase = "asked" /\ call[t].order # NoOrder
    /\ Done(t, "invalid", NoOrder)
    /\ UNCHANGED <<exchangeVars, memory, journal, restarts, faults>>

\* Mutant of QueryFailed: "order does not exist" is taken for a cancellation.
QueryFailedCancels(t) ==
    LET k == call[t].key
        order == [status |-> "canceled", filled |-> 0]
    IN
    /\ call[t].phase = "asked"
    /\ orders' = [orders EXCEPT ![k] = order]
    /\ uncertain' = uncertain \ {k}
    /\ FinishIfTerminal(k, order)
    /\ UNCHANGED <<exchangeVars, requests, attempted, contexts, restarts>>
    /\ Persisted /\ NextQuery(t, "order", order)

\* Any ExchangeRestError, "order does not exist" among them.
QueryFailed(t) ==
    LET k == call[t].key IN
    /\ call[t].phase = "asked"
    /\ uncertain' = uncertain \cup {k}
    /\ NextQuery(t, "unknown", NoOrder)
    /\ UNCHANGED <<exchangeVars, requests, submitted, orders, attempted, contexts,
                   journal, restarts, faults>>

-----------------------------------------------------------------------------
(* refresh, recover_pending and record *)

\* refresh: query again; an id that is not pending becomes so, without a
\* journal write.
Refresh(t, r) ==
    LET k == r.key IN
    /\ call[t].phase = "idle"
    /\ requests' = [requests EXCEPT ![k] = IF @ = NoRequest THEN r.quantity ELSE @]
    /\ UNCHANGED <<exchangeVars, orders, uncertain, attempted, contexts, journal,
                   restarts, faults>>
    /\ \/ /\ submitted[k] # NoRequest
          /\ UNCHANGED submitted
          /\ Querying(t, k, {})
       \/ /\ submitted[k] = NoRequest /\ Preparable(r.quantity)
          /\ submitted' = [submitted EXCEPT ![k] = Prepared(r.quantity)]
          /\ Querying(t, k, {})
       \/ /\ submitted[k] = NoRequest /\ ~Preparable(r.quantity)
          /\ UNCHANGED submitted
          /\ Done(t, "unprepared", NoOrder)

\* recover_pending: query every pending id, as listed when it starts.
RecoverPending(t) ==
    LET pending == {k \in Keys : submitted[k] # NoRequest} IN
    /\ call[t].phase = "idle"
    /\ \E k \in pending : Querying(t, k, pending \ {k})
    /\ UNCHANGED <<exchangeVars, memory, journal, restarts, faults>>

\* record: an order of the private stream replaces whatever was known.
Record(t, k, order) ==
    /\ call[t].phase = "idle"
    /\ orders' = [orders EXCEPT ![k] = order]
    /\ uncertain' = uncertain \ {k}
    /\ FinishIfTerminal(k, order)
    /\ UNCHANGED <<exchangeVars, requests, attempted, contexts, restarts>>
    /\ \/ Persisted /\ Done(t, "none", NoOrder)
       \/ WriteFails(t)

-----------------------------------------------------------------------------
(* Recovery contexts *)

RegisterContext(t, o, kind, batch) ==
    /\ call[t].phase = "idle"
    /\ UNCHANGED <<exchangeVars, requests, submitted, orders, uncertain, attempted,
                   restarts>>
    /\ \/ /\ contexts[o].kind \notin {"none", kind}
          /\ Done(t, "invalid", NoOrder)
          /\ UNCHANGED <<contexts, journal, faults>>
       \/ /\ contexts[o].kind \in {"none", kind}
          /\ contexts' = [contexts EXCEPT ![o] =
                [kind |-> kind, requests |-> batch, confirm |-> @.confirm]]
          /\ \/ Persisted /\ Done(t, "none", NoOrder)
             \/ WriteFails(t)

\* The context goes, and with it the pending entry of each terminal order.
CompleteContext(t, o) ==
    LET finished == {k \in KeysOf(contexts[o]) : IsTerminal(orders[k])} IN
    /\ call[t].phase = "idle"
    /\ contexts' = [contexts EXCEPT ![o] = NoContext]
    /\ submitted' = [k \in Keys |-> IF k \in finished THEN NoRequest ELSE submitted[k]]
    /\ uncertain' = uncertain \ finished
    /\ UNCHANGED <<exchangeVars, requests, orders, attempted, restarts>>
    /\ \/ Persisted /\ Done(t, "none", NoOrder)
       \/ WriteFails(t)

\* Mutant of SetConfirmationRequired: the context need not exist.
SetConfirmationAnyway(t, o) ==
    /\ call[t].phase = "idle"
    /\ UNCHANGED <<exchangeVars, requests, submitted, orders, uncertain, attempted,
                   restarts>>
    /\ contexts' = [contexts EXCEPT ![o].confirm = TRUE]
    /\ Persisted /\ Done(t, "none", NoOrder)

\* set_confirmation_required; the program only ever passes True.
SetConfirmationRequired(t, o) ==
    /\ call[t].phase = "idle"
    /\ UNCHANGED <<exchangeVars, requests, submitted, orders, uncertain, attempted,
                   restarts>>
    /\ \/ /\ contexts[o] = NoContext
          /\ Done(t, "invalid", NoOrder)
          /\ UNCHANGED <<contexts, journal, faults>>
       \/ /\ contexts[o] # NoContext
          /\ contexts' = [contexts EXCEPT ![o].confirm = TRUE]
          /\ \/ Persisted /\ Done(t, "none", NoOrder)
             \/ WriteFails(t)

-----------------------------------------------------------------------------
(* The calls return, the process ends and starts again *)

Return(t) ==
    /\ call[t].phase = "done"
    /\ call' = [call EXCEPT ![t] = Idle]
    /\ UNCHANGED <<exchangeVars, memory, journal, restarts, faults>>

\* Mutant of Restart: the pending ids are loaded, but may be created again.
RestartForgets ==
    /\ restarts < MaxRestarts
    /\ restarts' = restarts + 1
    /\ requests' = journal.orders
    /\ submitted' = journal.orders
    /\ orders' = [k \in Keys |-> NoOrder]
    /\ attempted' = {} /\ uncertain' = {}
    /\ contexts' = journal.contexts
    /\ call' = [t \in Threads |-> Idle]
    /\ UNCHANGED <<exchangeVars, journal, faults>>

\* The process stops between two steps, and _load_journal rebuilds what the
\* journal holds: every pending id is attempted and uncertain.  Requests on
\* their way to the exchange go on.
Restart ==
    /\ restarts < MaxRestarts
    /\ restarts' = restarts + 1
    /\ requests' = journal.orders
    /\ submitted' = journal.orders
    /\ orders' = [k \in Keys |-> NoOrder]
    /\ attempted' = {k \in Keys : journal.orders[k] # NoRequest}
    /\ uncertain' = attempted'
    /\ contexts' = journal.contexts
    /\ call' = [t \in Threads |-> Idle]
    /\ UNCHANGED <<exchangeVars, journal, faults>>

Init ==
    /\ ExchangeInit
    /\ requests = [k \in Keys |-> NoRequest]
    /\ submitted = [k \in Keys |-> NoRequest]
    /\ orders = [k \in Keys |-> NoOrder]
    /\ uncertain = {} /\ attempted = {}
    /\ contexts = [o \in Ops |-> NoContext]
    /\ journal = [orders |-> submitted, contexts |-> contexts]
    /\ call = [t \in Threads |-> Idle]
    /\ restarts = 0 /\ faults = 0

-----------------------------------------------------------------------------
(* The callers.  ClientOrderIdFactory never issues an id twice, so a caller *)
(* names an id that is new, or one this process or a recovery context knows, *)
(* and refreshes only an order it has seen.                                  *)

NamedIn(o, k) == k \in KeysOf(contexts[o])
MayName(k) == \/ creates[k] = << >>
              \/ requests[k] # NoRequest
              \/ \E o \in Ops : NamedIn(o, k)

\* A context is registered for new ids, or again for its own.
MayRegister(o, batch) == \A r \in batch :
    /\ creates[r.key] = << >> \/ NamedIn(o, r.key)
    /\ \A other \in Ops \ {o} : ~NamedIn(other, r.key)

ServiceStep(t) ==
    \/ \E r \in Requests : MayName(r.key) /\ Submit(t, r)
    \/ \E r \in Requests, o \in Ops : MayName(r.key) /\ ConfirmAndSubmit(t, r, o)
    \/ \E r \in Requests : orders[r.key] # NoOrder /\ Refresh(t, r)
    \/ RecoverPending(t)
    \/ \E k \in Keys : \E order \in Past(k) : Record(t, k, order)
    \/ \E o \in Ops, kind \in Kinds, batch \in SUBSET Requests :
          batch # {} /\ MayRegister(o, batch) /\ RegisterContext(t, o, kind, batch)
    \/ \E o \in Ops : CompleteContext(t, o) \/ SetConfirmationRequired(t, o)
    \/ CreateSend(t) \/ CreateReturned(t) \/ CreateMismatched(t)
    \/ CreateUnreadable(t) \/ CreateRefused(t) \/ CreateUnclear(t)
    \/ QuerySend(t) \/ QueryReturned(t) \/ QueryMismatched(t) \/ QueryFailed(t)
    \/ Return(t)

ExchangeStep == /\ ExchangeNext
                /\ UNCHANGED <<memory, journal, call, restarts, faults>>

Next == (\E t \in Threads : ServiceStep(t)) \/ ExchangeStep \/ Restart

Spec == Init /\ [][Next]_vars

-----------------------------------------------------------------------------
(* Properties *)

Phases == {"idle", "create", "sent", "query", "asked", "done"}
Calls == [phase : Phases, key : Keys \cup {"none"}, attempt : Nat,
          order : Orders \cup {NoOrder}, batch : SUBSET Keys, result : Results]
Pending == [Keys -> Nat]

\* Every variable stays in its domain.
TypeOK ==
    /\ creates \in [Keys -> Seq(Outcomes)]
    /\ market \in [Keys -> Orders \cup {NoOrder}]
    /\ requests \in Pending /\ submitted \in Pending
    /\ orders \in [Keys -> Orders \cup {NoOrder}]
    /\ uncertain \subseteq Keys /\ attempted \subseteq Keys
    /\ contexts \in [Ops -> Contexts \cup {NoContext}]
    /\ journal \in [orders : Pending, contexts : [Ops -> Contexts \cup {NoContext}]]
    /\ call \in [Threads -> Calls]
    /\ restarts \in 0..MaxRestarts /\ faults \in 0..MaxFaults

\* The service seen as the order desk of SubmitOnce.
Ledger(k) == IF creates[k] = << >> THEN "unsent" ELSE creates[k][Len(creates[k])]
Desk == INSTANCE SubmitOnce WITH
    ledger <- [k \in Keys |-> Ledger(k)],
    closed <- {k \in Keys : IsTerminal(market[k])},
    tracked <- {k \in Keys : journal.orders[k] # NoRequest}

\* Claim, crash, recovery and completion together implement SubmitOnce: the
\* journal is the durable book, and no path of the service places an id whose
\* earlier attempt may have succeeded, or drops one whose order still trades.
ImplementsSubmitOnce == Desk!Spec

\* "Never sends a second create request" where it matters: of all the create
\* requests ever sent for an id, in this process and in those before it, all
\* but the last were refused, so an id has at most one order at the exchange.
AtMostOneLiveCreate == \A k \in Keys :
    \A n \in 1..Len(creates[k]) - 1 : creates[k][n] = "refused"

\* Whatever instant the process dies at, the journal names every id whose
\* order trades or may still turn up, so the next start asks for it.
LiveOrderJournalled == \A k \in Keys : MaybeLive(k) => journal.orders[k] # NoRequest

\* The service takes an order for finished only when the exchange does,
\* however stale the answers and private-stream orders it records.
TerminalIsTrue == \A k \in Keys : IsTerminal(orders[k]) => orders[k] = market[k]

\* confirm_and_submit "persists confirmation and the attempted client id in
\* one journal replace": while journal writes succeed, the journal drops the
\* confirmation flag of a context only together with the claim of one of its ids.
ConfirmationJournalledWithClaim ==
    [][\A o \in Ops :
        /\ faults = 0 /\ journal.contexts[o].confirm
        /\ journal'.contexts[o] # NoContext /\ ~journal'.contexts[o].confirm
        => \E k \in KeysOf(journal'.contexts[o]) :
              journal.orders[k] = NoRequest /\ journal'.orders[k] # NoRequest]_<<journal, faults>>

-----------------------------------------------------------------------------
(* The inductive invariant behind these properties *)

InSomeContext(ctxs, k) == \E o \in Ops : k \in KeysOf(ctxs[o])

\* A key on its way through the service, per phase.
ThreadInv(t) ==
    LET k == call[t].key IN
    /\ call[t].phase \in {"create", "sent", "query", "asked"} => k \in Keys
    /\ call[t].phase = "create" =>
          /\ Settled(k)
          /\ submitted[k] # NoRequest /\ journal.orders[k] # NoRequest
    /\ call[t].phase = "sent" => call[t].attempt = Len(creates[k])
                                /\ call[t].attempt > 0
    /\ call[t].phase \in {"create", "sent"} =>
          /\ k \in attempted
          /\ \A u \in Threads \ {t} :
                call[u].phase \in {"create", "sent"} => call[u].key # k
    /\ call[t].phase = "asked" /\ IsTerminal(call[t].order)
          => call[t].order = market[k]
CallInv == \A t \in Threads : ThreadInv(t)

\* An order exists exactly when a create request was accepted.
MarketInv == \A k \in Keys :
    market[k] # NoOrder <=> \E n \in 1..Len(creates[k]) : creates[k][n] = "accepted"

\* What must be pending, of the memory and of the journal alike: the orders
\* that may trade, and of a context those that were ever placed.
PendingInv(pending, ctxs) ==
    /\ \A k \in Keys : MaybeLive(k) => pending[k] # NoRequest
    /\ \A k \in Keys : ~Settled(k) /\ InSomeContext(ctxs, k) => pending[k] # NoRequest
    /\ \A o, p \in Ops : o # p => KeysOf(ctxs[o]) \cap KeysOf(ctxs[p]) = {}

\* An id a caller may still name is not placed again in this process.
AttemptInv == \A k \in Keys :
    /\ ~Settled(k)
    /\ InSomeContext(contexts, k) \/ (requests[k] # NoRequest /\ orders[k] = NoOrder)
    => k \in attempted

IInv == /\ TypeOK
        /\ AtMostOneLiveCreate
        /\ TerminalIsTrue
        /\ CallInv
        /\ MarketInv
        /\ PendingInv(submitted, contexts)
        /\ PendingInv(journal.orders, journal.contexts)
        /\ AttemptInv
=============================================================================
