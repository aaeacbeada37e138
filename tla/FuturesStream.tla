---------------------------- MODULE FuturesStream ----------------------------
(***************************************************************************)
(* BinanceFuturesPrivateStream: a listen key, the WebSocket opened with    *)
(* it, and the keepalive thread that renews the one and rebuilds the       *)
(* other.  LiveDataWorker starts it and stops it from a pool of one        *)
(* thread; the WebSocket's thread reports its end by a callback.           *)
(***************************************************************************)
EXTENDS Integers, Sequences

CONSTANT MaxFaults  \* bound: what goes wrong: a call, a socket, a key

ASSUME StreamAssumption == MaxFaults \in Nat

VARIABLES
    sockets,    \* by generation: "none", "running", "ending", "ended"
    current,    \* the generation of _websocket, 0 for None
    hasKey,     \* _has_listen_key
    key,        \* the exchange: "none", "valid" or "expired"
    stop, wake, \* _stop, _wake
    loop,       \* where _keepalive_loop is
    step,       \* where _replace_stream is
    pool,       \* what the pool thread does with the stream
    shutdown,   \* LiveDataWorker._shutdown
    final,      \* the stop in progress is the one of shutdown
    error,      \* stop has met an exception
    faults

streamVars == <<sockets, current, hasKey, key, stop, wake, loop, step, pool, shutdown,
                final, error, faults>>

keyVars == <<hasKey, key>>
poolVars == <<shutdown, final, error>>

generation == Len(sockets)
Held == IF current = 0 THEN "ended" ELSE sockets[current]
LoopAlive == loop \notin {"none", "ended"}
Fault == faults < MaxFaults /\ faults' = faults + 1
NoFault == UNCHANGED faults

-----------------------------------------------------------------------------
(* _replace_stream, run by start on the pool thread or by the loop.        *)

BeginReplace == /\ sockets' = Append(sockets, "none")
                /\ step' = IF current = 0 THEN "create" ELSE "previous"

\* The call ends, or raises, and its caller goes on: a start that raises leaves
\* no keepalive thread, a rebuild that raises is logged and waits.
Replaced(raised) ==
    /\ step' = "none"
    /\ IF loop = "replacing" THEN loop' = "waiting" /\ UNCHANGED pool
       ELSE IF raised THEN pool' = "failed" /\ UNCHANGED loop
       ELSE pool' = "up" /\ loop' = "waiting"

\* Mutant: the previous socket is dropped and not stopped.
DropPrevious ==
    /\ step = "previous"
    /\ current' = 0 /\ step' = "close"
    /\ UNCHANGED <<sockets, loop, pool, faults, keyVars, stop, wake, poolVars>>

\* previous.stop(): cancel, then join for a while.
StopPrevious ==
    /\ step = "previous"
    /\ \/ /\ sockets[current] = "running"
          /\ sockets' = [sockets EXCEPT ![current] = "ending"]
          /\ NoFault /\ UNCHANGED <<current, step, loop, pool>>
       \/ /\ sockets[current] = "ended"
          /\ current' = 0 /\ step' = "close"
          /\ NoFault /\ UNCHANGED <<sockets, loop, pool>>
       \/ /\ sockets[current] = "ending" /\ Fault
          /\ Replaced(TRUE) /\ UNCHANGED <<sockets, current>>
    /\ UNCHANGED <<keyVars, stop, wake, poolVars>>

\* close_listen_key: a call that fails may have closed the key.
Closed == \/ ~hasKey /\ NoFault /\ UNCHANGED <<hasKey, key>>
          \/ hasKey /\ NoFault /\ hasKey' = FALSE /\ key' = "none"
          \/ hasKey /\ Fault /\ hasKey' = FALSE /\ key' \in {key, "none"}

CloseKey == /\ step = "close" /\ Closed
            /\ step' = "create"
            /\ UNCHANGED <<sockets, current, stop, wake, loop, pool, poolVars>>

\* create_listen_key: the exchange extends a key that is valid.
CreateKey ==
    /\ step = "create"
    /\ \/ /\ NoFault
          /\ key' = "valid" /\ hasKey' = TRUE /\ step' = "open" /\ UNCHANGED <<loop, pool>>
       \/ /\ Fault
          /\ key' \in {key, "valid"} /\ UNCHANGED hasKey /\ Replaced(TRUE)
    /\ UNCHANGED <<sockets, current, stop, wake, poolVars>>

\* replacement.start(): raises if the new thread is slow, and the thread runs.
Open == /\ step = "open"
        /\ sockets' = [sockets EXCEPT ![generation] = "running"]
        /\ current' = generation
        /\ \/ NoFault /\ Replaced(FALSE)
           \/ Fault /\ Replaced(TRUE)
        /\ UNCHANGED <<keyVars, stop, wake, poolVars>>

-----------------------------------------------------------------------------
(* _keepalive_loop.                                                        *)

\* wait: returns at once if _wake is set, or after the interval.
WaitEnds == /\ loop = "waiting"
            /\ loop' = IF wake THEN "woken" ELSE "interval"
            /\ UNCHANGED <<sockets, current, keyVars, stop, wake, step, pool, poolVars,
                           faults>>

\* Mutant: _stop is not looked at.
ClearOnly == /\ loop \in {"woken", "interval"}
             /\ wake' = FALSE
             /\ IF loop = "woken" THEN loop' = "replacing" /\ BeginReplace
                ELSE loop' = "keepalive" /\ UNCHANGED <<sockets, step>>
             /\ UNCHANGED <<current, keyVars, stop, pool, poolVars, faults>>

\* clear, whatever has set it since, and the check of _stop
Clear == /\ loop \in {"woken", "interval"}
         /\ wake' = FALSE
         /\ IF stop THEN loop' = "ended" /\ UNCHANGED <<sockets, step>>
            ELSE IF loop = "woken" THEN loop' = "replacing" /\ BeginReplace
            ELSE loop' = "keepalive" /\ UNCHANGED <<sockets, step>>
         /\ UNCHANGED <<current, keyVars, stop, pool, poolVars, faults>>

\* Mutant: an error is only logged.
KeepaliveOnce ==
    /\ loop = "keepalive"
    /\ loop' = "waiting"
    /\ UNCHANGED <<sockets, step, current, keyVars, stop, wake, pool, poolVars, faults>>

\* keepalive_listen_key: an error means the key has expired.
Keepalive ==
    /\ loop = "keepalive"
    /\ \/ /\ key = "valid" /\ NoFault
          /\ loop' = "waiting" /\ UNCHANGED <<sockets, step>>
       \/ /\ IF key = "valid" THEN Fault ELSE NoFault
          /\ IF stop THEN loop' = "ended" /\ UNCHANGED <<sockets, step>>
             ELSE loop' = "replacing" /\ BeginReplace
    /\ UNCHANGED <<current, keyVars, stop, wake, pool, poolVars>>

-----------------------------------------------------------------------------
(* The WebSocket's thread, and the exchange.                               *)

\* The client gives up after its last reconnect.
GivesUp == /\ Fault
           /\ \E g \in DOMAIN sockets :
                 /\ sockets[g] = "running"
                 /\ sockets' = [sockets EXCEPT ![g] = "ending"]
           /\ UNCHANGED <<current, keyVars, stop, wake, loop, step, pool, poolVars>>

\* _stream_stopped: the callback of an older generation is ignored.
StreamStopped == \E g \in DOMAIN sockets :
    /\ sockets[g] = "ending"
    /\ sockets' = [sockets EXCEPT ![g] = "ended"]
    /\ wake' = (wake \/ (g = generation /\ ~stop))
    /\ UNCHANGED <<current, keyVars, stop, loop, step, pool, poolVars, faults>>

\* The exchange lets the key expire, and says so to a socket that is connected
\* just then (_handle_message: listenKeyExpired).
Expire == /\ key = "valid" /\ Fault
          /\ key' = "expired"
          /\ \/ UNCHANGED wake
             \/ (\E g \in DOMAIN sockets : sockets[g] = "running") /\ wake' = TRUE
          /\ UNCHANGED <<sockets, current, hasKey, stop, loop, step, pool, poolVars>>

-----------------------------------------------------------------------------
(* start and stop, on the pool's one thread, and the GUI's shutdown.       *)

\* _initialize: unless the worker is shut down.
StartStream == /\ pool = "idle" /\ ~shutdown
               /\ stop' = FALSE /\ wake' = FALSE
               /\ pool' = "starting" /\ BeginReplace
               /\ UNCHANGED <<current, keyVars, loop, poolVars, faults>>

Shutdown == /\ ~shutdown /\ shutdown' = TRUE
            /\ UNCHANGED <<sockets, current, keyVars, stop, wake, loop, step, pool, final,
                           error, faults>>

\* stop is called by shutdown's job, which the pool runs after _initialize, and
\* by _initialize when another stream does not start.
StopStream == /\ \/ /\ shutdown /\ ~final
                    /\ pool \in {"idle", "up", "failed", "stopped", "raised"}
                    /\ final' = TRUE /\ NoFault
                 \/ /\ pool = "up" /\ ~final /\ Fault /\ UNCHANGED final
              /\ stop' = TRUE /\ wake' = TRUE /\ error' = FALSE
              /\ pool' = "joining"
              /\ UNCHANGED <<sockets, current, keyVars, loop, step, shutdown>>

\* Mutant: the thread is not waited for.
JoinNobody == /\ pool = "joining"
              /\ pool' = "closing"
              /\ UNCHANGED <<sockets, current, keyVars, stop, wake, loop, step, poolVars,
                             faults>>

Join == /\ pool = "joining"
        /\ \/ ~LoopAlive /\ NoFault /\ pool' = "closing"
           \/ LoopAlive /\ Fault /\ pool' = "raised"
        /\ UNCHANGED <<sockets, current, keyVars, stop, wake, loop, step, poolVars>>

CloseSocket ==
    /\ pool = "closing"
    /\ \/ /\ Held = "ended"
          /\ current' = 0 /\ pool' = "closing key" /\ NoFault /\ UNCHANGED <<sockets, error>>
       \/ /\ Held = "running"
          /\ sockets' = [sockets EXCEPT ![current] = "ending"]
          /\ NoFault /\ UNCHANGED <<current, pool, error>>
       \/ /\ Held = "ending" /\ Fault
          /\ current' = 0 /\ pool' = "closing key" /\ error' = TRUE /\ UNCHANGED sockets
    /\ UNCHANGED <<keyVars, stop, wake, loop, step, shutdown, final>>

CloseLastKey ==
    /\ pool = "closing key" /\ Closed
    /\ pool' = IF error \/ faults' # faults THEN "raised" ELSE "stopped"
    /\ UNCHANGED <<sockets, current, stop, wake, loop, step, poolVars>>

-----------------------------------------------------------------------------
StreamInit ==
    /\ sockets = << >> /\ current = 0 /\ hasKey = FALSE
    /\ key = "none" /\ stop = FALSE /\ wake = FALSE /\ loop = "none"
    /\ step = "none" /\ pool = "idle" /\ shutdown = FALSE /\ final = FALSE
    /\ error = FALSE /\ faults = 0

\* What the threads do: whoever runs _replace_stream, the loop, and the pool
ReplaceStep == StopPrevious \/ CloseKey \/ CreateKey \/ Open
KeepaliveStep == WaitEnds \/ Clear \/ Keepalive
PoolStep == StartStream \/ StopStream \/ Join \/ CloseSocket \/ CloseLastKey

StreamNext == \/ ReplaceStep \/ KeepaliveStep \/ PoolStep \/ StreamStopped
              \/ GivesUp \/ Expire \/ Shutdown

\* Threads run, and every call is answered or times out.  The exchange and the
\* user owe nothing, and no more than MaxFaults calls fail.
StreamFairness == /\ WF_streamVars(ReplaceStep) /\ WF_streamVars(KeepaliveStep)
                  /\ WF_streamVars(StreamStopped) /\ WF_streamVars(PoolStep)

StreamSpec == StreamInit /\ [][StreamNext]_streamVars /\ StreamFairness

-----------------------------------------------------------------------------
(* Properties.                                                             *)

Live(g) == sockets[g] = "running"

\* Never two streams: a socket that runs is the one the stream holds and would
\* stop, whatever fails and whichever thread rebuilds (_replace_stream).
OneStream == \A g \in DOMAIN sockets : Live(g) => g = current

\* After a stop that returns, and for good after that of shutdown, the keepalive
\* thread, which would keep the process alive, has ended, no socket is left that
\* nobody has told to stop, and the key is given up; a rebuild or a start that was
\* under way does not bring one back (stop, LiveDataWorker.shutdown).
StoppedIsClean ==
    pool = "stopped" => ~LoopAlive /\ ~hasKey /\ \A g \in DOMAIN sockets : ~Live(g)

\* A key that is lost is replaced, whatever fails on the way and however often,
\* unless the stream is stopped (_keepalive_loop, _replace_stream).
LostKeyIsReplaced == (LoopAlive /\ key # "valid") ~> (key = "valid" \/ stop)

\* Shutting down ends the keepalive thread, even when stop has raised before
\* (stop, _keepalive_loop): nothing else would end the process.
ShutdownEndsThread == shutdown ~> [](~LoopAlive)

\* "Exhausted websocket rebuilds stream": when the socket has ended, another
\* one is opened, unless the stream is stopped.
StreamIsRebuilt ==
    (LoopAlive /\ \A g \in DOMAIN sockets : ~Live(g)) ~>
        (stop \/ \E g \in DOMAIN sockets : Live(g))
=============================================================================
