------------------------------ MODULE BookSync ------------------------------
(***************************************************************************)
(* LiveDataWorker (app/workers/market_data_worker.py) and the local book   *)
(* of one instrument: updates arrive on the WebSocket thread, Binance's    *)
(* REST snapshots are loaded on the pool thread, which also selects the    *)
(* symbol, and the GUI thread tracks the instruments of positions.  The    *)
(* three share the book, its buffer of updates and the pending flag under  *)
(* one lock that each step below holds, and let go of it between any two   *)
(* steps.                                                                  *)
(***************************************************************************)
EXTENDS OrderBook

CONSTANTS
    VenueSet,       \* the venues of the instrument to consider
    MaxBuffered,    \* _MAX_BUFFERED_BOOK_UPDATES
    MaxToggles,     \* bound: times the instrument is selected, tracked or dropped
    MaxDrops,       \* bound: connections lost
    RestFails       \* whether a REST snapshot may fail

ASSUME SyncAssumption ==
    /\ VenueSet \subseteq Venues
    /\ MaxBuffered \in Nat \ {0}
    /\ MaxToggles \in Nat /\ MaxDrops \in Nat
    /\ RestFails \in BOOLEAN

VARIABLES
    venue,      \* of the instrument
    head,       \* changes the exchange has made
    sent,       \* changes it has reported to its stream
    stream,     \* messages on their way to the WebSocket thread
    up,         \* the connection is up
    drops,
    subscribed, \* _subscriptions of the WebSocket client
    wanted,     \* who wants it: in _selected ("pool"), in _positions ("gui")
    toggles,
    book,       \* _books
    buffer,     \* _snapshot_buffers
    pending,    \* _snapshots_pending
    message,    \* the message handle_market_message is about to apply
    sync,       \* what each of them still has to do of _sync_subscriptions
    loads,      \* calls of _load_snapshot in the pool's queue
    load,       \* the call it executes, with the snapshot it got
    request,    \* what each thread still has to do of _request_snapshot
    contended   \* two threads changed the subscription at the same time, or one
                \* renewed that of a dropped instrument

exchangeSide == <<head, sent, stream, up, drops>>
local == <<book, buffer, pending>>
threads == <<message, sync, loads, load, request, contended>>
syncVars == <<venue, exchangeSide, subscribed, wanted, toggles, local, threads>>

Callers == {"socket", "gui", "pool"}
NoMessage == Snapshot(None)
NoLoad == [stage |-> "none", sequence |-> 0]

IsBitget == venue = "bitget"
active == wanted # {}       \* the instrument is in _active_instruments()

\* Threads in the middle of a change of the subscription
Changing == {c \in Callers : \/ sync[c] # "idle"
                             \/ IsBitget /\ request[c] \in {"marked", "unsubscribed"}}

-----------------------------------------------------------------------------
(* The exchange *)

Change == /\ head < MaxChange
          /\ head' = head + 1
          /\ UNCHANGED <<venue, sent, stream, up, drops, subscribed, wanted,
                         toggles, local, threads>>

Deliver(m) == stream' = IF up /\ subscribed THEN Append(stream, m) ELSE stream

\* The stream reports what has changed since its last update, to whoever
\* listens.
Emit == /\ sent < head
        /\ sent' = head
        /\ Deliver(Update(venue, sent, head))
        /\ UNCHANGED <<venue, head, up, drops, subscribed, wanted, toggles, local,
                       threads>>

\* Bitget starts a subscription with a snapshot.
Greeting == IF IsBitget THEN <<Snapshot(sent)>> ELSE << >>

Disconnect == /\ up /\ drops < MaxDrops
              /\ up' = FALSE /\ drops' = drops + 1 /\ stream' = << >>
              /\ UNCHANGED <<venue, head, sent, subscribed, wanted, toggles, local,
                             threads>>

Connect == /\ ~up
           /\ up' = TRUE
           /\ stream' = IF subscribed THEN Greeting ELSE << >>
           /\ UNCHANGED <<venue, head, sent, drops, subscribed, wanted, toggles,
                          local, threads>>

SubscribeStep ==
    /\ subscribed' = TRUE
    /\ stream' = IF up /\ ~subscribed THEN stream \o Greeting ELSE stream
    /\ UNCHANGED <<head, sent, up, drops>>

UnsubscribeStep == subscribed' = FALSE /\ UNCHANGED exchangeSide

-----------------------------------------------------------------------------
(* _request_snapshot *)

Requests(c, stage) == request' = [request EXCEPT ![c] = stage]
RequestIf(c, needed) == Requests(c, IF needed THEN "asked" ELSE "none")

\* A request that is pending already is not made again.  Nobody looks whether
\* the instrument is still active.
RequestMark(c) ==
    /\ request[c] = "asked"
    /\ pending' = TRUE
    /\ Requests(c, IF pending THEN "none" ELSE "marked")
    /\ contended' = (contended \/ (IsBitget /\ ~pending /\ (~active \/ Changing # {})))
    /\ UNCHANGED <<venue, exchangeSide, subscribed, wanted, toggles, book, buffer,
                   message, sync, loads, load>>

\* Binance: a load for the pool.
RequestLoad(c) ==
    /\ request[c] = "marked" /\ ~IsBitget
    /\ loads' = loads + 1
    /\ Requests(c, "none")
    /\ UNCHANGED <<venue, exchangeSide, subscribed, wanted, toggles, local, message,
                   sync, contended, load>>

\* Bitget: the subscription is ended and made again.
RequestUnsubscribe(c) ==
    /\ request[c] = "marked" /\ IsBitget
    /\ UnsubscribeStep
    /\ Requests(c, "unsubscribed")
    /\ UNCHANGED <<venue, wanted, toggles, local, message, sync, contended, loads, load>>

RequestSubscribe(c) ==
    /\ request[c] = "unsubscribed"
    /\ SubscribeStep
    /\ Requests(c, "none")
    /\ UNCHANGED <<venue, wanted, toggles, local, message, sync, contended, loads, load>>

RequestStep(c) == RequestMark(c) \/ RequestLoad(c) \/ RequestUnsubscribe(c)
                  \/ RequestSubscribe(c)

-----------------------------------------------------------------------------
(* handle_market_message *)

\* The thread takes a message, and looks whether anybody wants it.
Receive ==
    /\ message = NoMessage /\ request["socket"] = "none"
    /\ stream # << >>
    /\ stream' = Tail(stream)
    /\ message' = IF active THEN Head(stream) ELSE NoMessage
    /\ UNCHANGED <<venue, head, sent, up, drops, subscribed, wanted, toggles, local,
                   sync, contended, loads, load, request>>

\* Mutant of Buffered: nothing makes room.
BufferedAll(update) == {u \in buffer : u.sequence # update.sequence} \cup {update}

\* _buffer_update: the oldest updates make room.
Buffered(update) ==
    LET updates == {u \in buffer : u.sequence # update.sequence} \cup {update}
        oldest == CHOOSE u \in updates : \A v \in updates : u.sequence <= v.sequence
    IN  IF Cardinality(updates) > MaxBuffered THEN updates \ {oldest} ELSE updates

HandleSnapshot ==
    /\ message # NoMessage /\ message.snapshot
    /\ book' = Replay(message.sequence, buffer)
    /\ buffer' = Unreplayed(message.sequence, buffer)
    /\ pending' = FALSE
    /\ RequestIf("socket", ~book'.valid)
    /\ message' = NoMessage
    /\ UNCHANGED <<venue, exchangeSide, subscribed, wanted, toggles, sync, contended, loads, load>>

\* While a snapshot is required or on its way, updates wait for it.
HandleWaiting ==
    /\ message # NoMessage /\ ~message.snapshot
    /\ ~book.valid \/ pending
    /\ buffer' = Buffered(message)
    /\ Requests("socket", "asked")
    /\ message' = NoMessage
    /\ UNCHANGED <<venue, exchangeSide, subscribed, wanted, toggles, book, pending,
                   sync, contended, loads, load>>

HandleUpdate ==
    /\ message # NoMessage /\ ~message.snapshot
    /\ book.valid /\ ~pending
    /\ book' = Apply(book, message)
    /\ LET gap == NeedsSnapshot(ResultOf(book, message)) IN
       /\ buffer' = IF gap THEN Buffered(message) ELSE buffer
       /\ RequestIf("socket", gap)
    /\ message' = NoMessage
    /\ UNCHANGED <<venue, exchangeSide, subscribed, wanted, toggles, pending, sync, contended,
                   loads, load>>

Handle == Receive \/ HandleSnapshot \/ HandleWaiting \/ HandleUpdate

-----------------------------------------------------------------------------
(* _load_snapshot *)

Goes(stage) == load' = [stage |-> stage, sequence |-> 0]

LoadStart ==
    /\ load.stage = "none" /\ request["pool"] = "none" /\ sync["pool"] = "idle"
    /\ loads > 0
    /\ loads' = loads - 1
    /\ Goes("asking")
    /\ UNCHANGED <<venue, exchangeSide, subscribed, wanted, toggles, local, message,
                   sync, contended, request>>

\* The exchange answers with its book of that moment, or does not.
LoadAnswered ==
    /\ load.stage = "asking"
    /\ \/ load' = [stage |-> "answered", sequence |-> head]
       \/ RestFails /\ Goes("dropping")
    /\ UNCHANGED <<venue, exchangeSide, subscribed, wanted, toggles, local, message,
                   sync, contended, loads, request>>

LoadApplied ==
    /\ load.stage = "answered"
    /\ active
    /\ ~(book.valid /\ load.sequence <= book.sequence)
    /\ book' = Replay(load.sequence, buffer)
    /\ buffer' = Unreplayed(load.sequence, buffer)
    /\ pending' = FALSE
    /\ RequestIf("pool", ~book'.valid)
    /\ Goes("none")
    /\ UNCHANGED <<venue, exchangeSide, subscribed, wanted, toggles, message, sync, contended,
                   loads>>

\* Nobody wants the instrument any more, or the book is newer.
LoadUseless ==
    /\ load.stage = "answered"
    /\ ~active \/ (book.valid /\ load.sequence <= book.sequence)
    /\ Goes("dropping")
    /\ UNCHANGED <<venue, exchangeSide, subscribed, wanted, toggles, local, message,
                   sync, contended, loads, request>>

\* Mutant of LoadDropped: only a load that succeeds clears the flag.
LoadDroppedPending ==
    /\ load.stage = "dropping"
    /\ Goes("none")
    /\ UNCHANGED <<venue, exchangeSide, subscribed, wanted, toggles, local, message,
                   sync, contended, loads, request>>

\* The finally clause, which takes the lock again.
LoadDropped ==
    /\ load.stage = "dropping"
    /\ pending' = FALSE
    /\ Goes("none")
    /\ UNCHANGED <<venue, exchangeSide, subscribed, wanted, toggles, book, buffer,
                   message, sync, contended, loads, request>>

Load == LoadStart \/ LoadAnswered \/ LoadApplied \/ LoadUseless \/ LoadDropped

-----------------------------------------------------------------------------
(* track_positions on the GUI thread, _select_symbol on the pool's. *)

\* Mutant: each looks only at what it wanted itself before.
TodoOwn(c, after) == IF c \in wanted THEN "unsubscribe"
                     ELSE IF IsBitget THEN "mark" ELSE "subscribe"

\* What a change of the active instruments leaves to do
Todo(c, after) == IF active = (after # {}) THEN "idle"
                  ELSE IF active THEN "unsubscribe"
                  ELSE IF IsBitget THEN "mark" ELSE "subscribe"

\* _retain_active_books forgets the book and the updates of a dropped
\* instrument; what to subscribe is decided under the lock and done after it.
Toggle(c) ==
    /\ sync[c] = "idle" /\ request[c] = "none"
    /\ c = "pool" => load.stage = "none"
    /\ toggles < MaxToggles
    /\ toggles' = toggles + 1
    /\ wanted' = IF c \in wanted THEN wanted \ {c} ELSE wanted \cup {c}
    /\ IF wanted' = {} THEN book' = EmptyBook /\ buffer' = {}
                      ELSE UNCHANGED <<book, buffer>>
    /\ sync' = [sync EXCEPT ![c] = Todo(c, wanted')]
    /\ contended' = IF active = active' THEN contended ELSE Changing # {}
    /\ UNCHANGED <<venue, exchangeSide, subscribed, pending, message, loads, load,
                   request>>

\* _sync_subscriptions
SyncUnsubscribe(c) ==
    /\ sync[c] = "unsubscribe"
    /\ UnsubscribeStep
    /\ sync' = [sync EXCEPT ![c] = "idle"]
    /\ UNCHANGED <<venue, wanted, toggles, local, message, loads, load, request,
                   contended>>

SyncMark(c) ==
    /\ sync[c] = "mark"
    /\ pending' = TRUE
    /\ sync' = [sync EXCEPT ![c] = "subscribe"]
    /\ UNCHANGED <<venue, exchangeSide, subscribed, wanted, toggles, book, buffer,
                   message, loads, load, request, contended>>

SyncSubscribe(c) ==
    /\ sync[c] = "subscribe"
    /\ SubscribeStep
    /\ RequestIf(c, ~IsBitget)
    /\ sync' = [sync EXCEPT ![c] = "idle"]
    /\ UNCHANGED <<venue, wanted, toggles, local, message, loads, load, contended>>

Sync(c) == Toggle(c) \/ SyncUnsubscribe(c) \/ SyncMark(c) \/ SyncSubscribe(c)

-----------------------------------------------------------------------------
SyncInit ==
    /\ venue \in VenueSet
    /\ head = 0 /\ sent = 0 /\ stream = << >> /\ up = TRUE /\ drops = 0
    /\ subscribed = FALSE /\ wanted = {} /\ toggles = 0
    /\ book = EmptyBook /\ buffer = {} /\ pending = FALSE
    /\ message = NoMessage /\ loads = 0 /\ load = NoLoad /\ contended = FALSE
    /\ sync = [c \in Callers |-> "idle"] /\ request = [c \in Callers |-> "none"]

SyncNext ==
    \/ Change \/ Emit \/ Disconnect \/ Connect
    \/ \E c \in Callers : RequestStep(c)
    \/ \E c \in {"gui", "pool"} : Sync(c)
    \/ Handle \/ Load

SyncSpec == SyncInit /\ [][SyncNext]_syncVars

-----------------------------------------------------------------------------
(* Properties *)

\* The types of what the worker keeps; its buffer of updates never outgrows its
\* capacity.
SyncTypeOK ==
    /\ book \in [valid : BOOLEAN, sequence : None..MaxChange, after : BOOLEAN,
                 levels : [Prices -> 0..MaxChange]]
    /\ Cardinality(buffer) <= MaxBuffered
    /\ loads \in 0..1
    /\ \A c \in Callers : request[c] \in {"none", "asked", "marked", "unsubscribed"}

\* A book the worker quotes from is the exchange's own book as of the
\* sequence it carries, whatever was lost, delayed, dropped from the buffer
\* or replayed.
BookIsTrue == book.valid => book.levels = Truth(book.sequence)

\* The flag that keeps further requests away is up exactly while one load is
\* queued or running: no failed or useless load leaves a Binance book without
\* a way back, and none is loaded twice at once.
PendingIsOneLoad ==
    ~IsBitget =>
        loads + (IF load.stage # "none" THEN 1 ELSE 0)
              + Cardinality({c \in Callers : request[c] = "marked"})
        = IF pending THEN 1 ELSE 0

\* Once every thread is done, the instruments somebody wants are exactly those
\* subscribed, across selections, positions, resubscriptions and lost
\* connections.  Excepted is what two threads changed at the same time: what
\* to subscribe is decided under the lock and done after it
\* (_sync_subscriptions, _request_snapshot).
SettledIsSubscribed == Changing = {} /\ ~contended => (active <=> subscribed)
=============================================================================
