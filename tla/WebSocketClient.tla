---------------------------- MODULE WebSocketClient ----------------------------
(***************************************************************************)
(* ThreadedWebSocketClient: one thread that owns an event loop and one     *)
(* connection at a time, and callers on other threads that subscribe and   *)
(* unsubscribe (LiveDataWorker: the pool thread, the GUI thread, and the   *)
(* loop thread itself).  Clients = {"private"} is BitgetPrivateWebSocket-  *)
(* Client, which is subscribed once, before it starts, and waits for the   *)
(* acknowledgements; "public" is a market stream.                          *)
(***************************************************************************)
EXTENDS Integers, Sequences, FiniteSets

CONSTANTS
    Keys,           \* subscriptions, by _subscription_key
    Callers,        \* threads that subscribe and unsubscribe
    Clients,        \* a subset of {"public", "private"}
    Attempts,       \* reconnect_attempts
    MaxConnections, \* bound: connections that are tried
    MaxRequests     \* bound: calls of subscribe and unsubscribe

ASSUME SocketAssumption ==
    /\ Clients \subseteq {"public", "private"}
    /\ Attempts \in Nat /\ MaxConnections \in Nat /\ MaxRequests \in Nat

VARIABLES
    client,         \* which kind the behaviour is about
    subscriptions,  \* _subscriptions, guarded by _subscriptions_lock
    connected,      \* _connected
    websocket,      \* _websocket: the number of the connection, 0 is None
    phase,          \* where the loop thread is in _run
    tries,          \* connections tried
    reconnects,     \* reconnect_number
    stable,         \* _connection_stable
    failures,       \* connections that failed since one was stable
    stopping,       \* _stop_requested
    outbox,         \* sends scheduled on the loop: [connection, add, keys]
    pending, ready, \* _pending_subscription_acks, _subscriptions_ready
    server,         \* what the exchange holds for the connection
    acks,           \* its acknowledgements on their way
    call,           \* [Callers -> the call in progress]
    requests,       \* calls so far
    contended       \* keys two calls were in progress for at the same time

socketVars == <<client, subscriptions, connected, websocket, phase, tries, reconnects,
                stable, failures, stopping, outbox, pending, ready, server, acks,
                call, requests, contended>>

NoCall == [step |-> "none", keys |-> {}]

\* What the loop thread and the callers leave alone
loopVars == <<phase, tries, reconnects, stable, failures>>
ackVars == <<pending, ready, acks>>
callVars == <<call, requests, contended>>

-----------------------------------------------------------------------------
(* Callers: subscribe and unsubscribe.                                     *)

\* _store_subscriptions, _remove_subscriptions: under the lock; only what
\* changes is sent, and only if the client was connected.
Request(c) == \E keys \in (SUBSET Keys) \ {{}}, add \in BOOLEAN :
    LET changed == IF add THEN keys \ subscriptions ELSE keys \cap subscriptions
        busy == UNION {call[d].keys : d \in Callers \ {c}}
    IN /\ client = "public" /\ call[c] = NoCall /\ requests < MaxRequests
       /\ requests' = requests + 1
       /\ subscriptions' = IF add THEN subscriptions \cup keys ELSE subscriptions \ keys
       /\ IF changed # {} /\ connected
          THEN call' = [call EXCEPT ![c] = [step |-> "stored", keys |-> changed, add |-> add]]
          ELSE UNCHANGED call
       /\ contended' = contended \cup (changed \cap busy)
       /\ UNCHANGED <<client, connected, websocket, loopVars, stopping, outbox,
                      ackVars, server>>

\* _send_from_caller: reads the websocket, then whether it is connected.
ReadWebsocket(c) ==
    /\ call[c].step = "stored"
    /\ call' = [call EXCEPT ![c] =
          IF websocket = 0 THEN NoCall
          ELSE [step |-> "read", keys |-> call[c].keys, add |-> call[c].add,
                connection |-> websocket]]
    /\ UNCHANGED <<client, subscriptions, connected, websocket, loopVars, stopping,
                   outbox, ackVars, server, requests, contended>>

Schedule(c) ==
    /\ call[c].step = "read"
    /\ outbox' = IF connected
                 THEN Append(outbox, [connection |-> call[c].connection,
                                      keys |-> call[c].keys, add |-> call[c].add])
                 ELSE outbox
    /\ call' = [call EXCEPT ![c] = NoCall]
    /\ UNCHANGED <<client, subscriptions, connected, websocket, loopVars, stopping,
                   ackVars, server, requests, contended>>

-----------------------------------------------------------------------------
(* The loop thread.                                                        *)

\* start: the thread and its task; a second start returns.
Start == /\ phase = "off" /\ ~stopping
         /\ phase' = "connecting"
         /\ UNCHANGED <<client, subscriptions, connected, websocket, tries, reconnects,
                        stable, failures, stopping, outbox, ackVars, server, callVars>>

\* _run_connection up to the connector's answer
Connect == /\ phase = "connecting" /\ ~stopping /\ tries < MaxConnections
           /\ tries' = tries + 1
           /\ stable' = FALSE
           /\ \/ websocket' = tries + 1 /\ phase' = "preparing"
              \/ websocket' = 0 /\ phase' = "failed"
           /\ server' = {}
           /\ UNCHANGED <<client, subscriptions, connected, reconnects, failures,
                          stopping, outbox, ackVars, callVars>>

\* _prepare_connection (a login or a signed request is answered), then
\* _activate_connection, which reads the subscriptions and sets _connected under
\* the callers' lock, and the send: a scheduled send of a caller comes later.
Activate == /\ phase = "preparing" /\ ~stopping
            /\ connected' = TRUE
            /\ phase' = "open"
            /\ server' = subscriptions
            /\ IF client = "private" /\ subscriptions # {}
               THEN pending' = pending \cup subscriptions /\ ready' = FALSE
                    /\ acks' = subscriptions
               ELSE UNCHANGED ackVars
            /\ contended' = contended \cap UNION {call[c].keys : c \in Callers}
            /\ UNCHANGED <<client, subscriptions, websocket, tries, reconnects, stable,
                           failures, stopping, outbox, call, requests>>

\* Mutant: the send goes to whatever connection there is.
DeliverAnywhere ==
    /\ outbox # << >> /\ phase \notin {"off", "ended"}
    /\ LET m == Head(outbox)
       IN server' = IF m.add THEN server \cup m.keys ELSE server \ m.keys
    /\ outbox' = Tail(outbox)
    /\ UNCHANGED <<client, subscriptions, connected, websocket, loopVars, stopping,
                   ackVars, callVars>>

\* A scheduled send runs; on a connection that is gone it fails and is reported.
Deliver == /\ outbox # << >> /\ phase \notin {"off", "ended"}
           /\ LET m == Head(outbox)
              IN server' = IF m.connection # websocket THEN server
                           ELSE IF m.add THEN server \cup m.keys ELSE server \ m.keys
           /\ outbox' = Tail(outbox)
           /\ UNCHANGED <<client, subscriptions, connected, websocket, loopVars, stopping,
                          ackVars, callVars>>

\* _deliver_message of an acknowledgement
Acknowledged == \E k \in acks :
    /\ phase = "open"
    /\ acks' = acks \ {k}
    /\ pending' = pending \ {k}
    /\ ready' = (pending \ {k} = {} \/ ready)
    /\ UNCHANGED <<client, subscriptions, connected, websocket, loopVars, stopping,
                   outbox, server, callVars>>

\* _heartbeat_loop: a heartbeat was answered.
Heartbeat == /\ phase = "open" /\ ~stable
             /\ stable' = TRUE /\ failures' = 0
             /\ UNCHANGED <<client, subscriptions, connected, websocket, phase, tries,
                            reconnects, stopping, outbox, ackVars, server, callVars>>

\* _deactivate_connection
Deactivate == /\ phase' = "closing"
              /\ connected' = FALSE /\ ready' = FALSE /\ pending' = {} /\ acks' = {}
              /\ server' = {}
              /\ UNCHANGED <<client, subscriptions, websocket, tries, reconnects, stable,
                             failures, stopping, outbox, callVars>>

\* A login or a signed request is refused or not answered.
LoginFails == phase = "preparing" /\ Deactivate

\* The connection breaks, a heartbeat is not answered, or a subscription is
\* refused.  A task that is canceled ends in either way.
Break == phase = "open" /\ Deactivate

\* The end of _run_connection: _websocket is cleared, the closing handshake ends.
Disconnected == /\ phase = "closing"
                /\ websocket' = 0
                /\ phase' = "failed"
                /\ UNCHANGED <<client, subscriptions, connected, tries, reconnects, stable,
                               failures, stopping, outbox, ackVars, server, callVars>>

\* Mutant: a connection that was stable does not count.
RetriesEver == reconnects

Exhausted(number) == number >= Attempts
Retries == IF stable THEN 0 ELSE reconnects

\* _run after a connection: count, give up, or wait.
Retry == /\ phase = "failed"
         /\ failures' = IF stable THEN 1 ELSE failures + 1
         /\ IF stopping \/ Exhausted(Retries)
            THEN phase' = "ended" /\ outbox' = << >> /\ UNCHANGED reconnects
            ELSE phase' = "backoff" /\ reconnects' = Retries + 1 /\ UNCHANGED outbox
         /\ UNCHANGED <<client, subscriptions, connected, websocket, tries, stable,
                        stopping, ackVars, server, callVars>>

BackoffEnds == /\ phase = "backoff"
               /\ phase' = IF stopping THEN "ended" ELSE "connecting"
               /\ outbox' = IF stopping THEN << >> ELSE outbox
               /\ UNCHANGED <<client, subscriptions, connected, websocket, tries, reconnects,
                              stable, failures, stopping, ackVars, server, callVars>>

\* stop: the flag, then the task is canceled.  A connection is closed first.
Stop == /\ phase # "off" /\ ~stopping
        /\ stopping' = TRUE
        /\ UNCHANGED <<client, subscriptions, connected, websocket, loopVars, outbox,
                       ackVars, server, callVars>>

\* Mutant: the task is not canceled while it connects.
CanceledNever == FALSE

Canceled == /\ stopping /\ phase = "connecting"
            /\ phase' = "ended" /\ outbox' = << >>
            /\ UNCHANGED <<client, subscriptions, connected, websocket, tries, reconnects,
                           stable, failures, stopping, ackVars, server, callVars>>

-----------------------------------------------------------------------------
SocketInit ==
    /\ client \in Clients
    /\ subscriptions = IF client = "private" THEN Keys ELSE {}
    /\ connected = FALSE /\ websocket = 0 /\ phase = "off" /\ tries = 0
    /\ reconnects = 0 /\ stable = FALSE /\ failures = 0 /\ stopping = FALSE
    /\ outbox = << >> /\ pending = {} /\ ready = FALSE /\ server = {} /\ acks = {}
    /\ call = [c \in Callers |-> NoCall] /\ requests = 0 /\ contended = {}

CallerStep(c) == ReadWebsocket(c) \/ Schedule(c)

\* What the loop thread does of itself
LoopStep == \/ Activate \/ Deliver \/ Disconnected \/ Retry \/ BackoffEnds
            \/ Canceled \/ (stopping /\ (LoginFails \/ Break))

SocketNext == \/ \E c \in Callers : Request(c) \/ CallerStep(c)
              \/ Start \/ Connect \/ LoopStep \/ Acknowledged \/ Heartbeat
              \/ LoginFails \/ Break \/ Stop

\* A thread that has work runs; the peer and the user owe nothing.
SocketFairness == /\ \A c \in Callers : WF_socketVars(CallerStep(c))
                  /\ WF_socketVars(LoopStep)

SocketSpec == SocketInit /\ [][SocketNext]_socketVars /\ SocketFairness

-----------------------------------------------------------------------------
(* Properties.                                                             *)

\* A key whose call, or whose scheduled send, has not reached the exchange
Underway == (UNION {call[c].keys : c \in Callers}) \cup
            (UNION {outbox[n].keys : n \in {i \in DOMAIN outbox :
                                              outbox[i].connection = websocket}})

\* Subscriptions are restored and kept: on a connection that is up the exchange
\* holds exactly what is stored, for every key that nobody is just changing,
\* however calls, reconnects and scheduled sends interleave.  Excepted are keys
\* that two threads changed at the same time, whose sends may swap
\* (_store_subscriptions, _activate_connection, _send_from_caller).  A private
\* client of Bitget says that it is connected (is_connected) only when the
\* exchange has acknowledged all of them on this very connection.
ServerFollowsStore ==
    connected =>
        /\ \A k \in Keys \ (Underway \cup contended) : k \in server <=> k \in subscriptions
        /\ client = "private" /\ ready => server = subscriptions /\ acks = {}

\* The thread gives up only when it is stopped, or when the last Attempts + 1
\* connections in a row failed before a heartbeat was answered (_run).
GivesUpLate == phase = "ended" /\ ~stopping => failures = Attempts + 1

\* stop ends the thread, in whatever phase the connection is (stop, _run).
StopEnds == stopping ~> phase = "ended"

=============================================================================
