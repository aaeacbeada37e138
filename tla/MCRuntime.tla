------------------------------- MODULE MCRuntime -------------------------------
(***************************************************************************)
(* Instances for TLC of the threads around the orders, side by side: one   *)
(* WebSocket client; the listen-key stream of Binance futures, which sees  *)
(* of its client only that it has ended; the recovery monitor and the end  *)
(* of the worker; and the order entry with its worker.  They share no      *)
(* state, so a behaviour is about one of them and the others rest.         *)
(***************************************************************************)
EXTENDS WebSocketClient, FuturesStream, OrderEntry

CONSTANTS
    Parts,      \* a subset of {"socket", "stream", "recovery", "entry"}
    k1, k2, t1, t2, o1, o2

VARIABLE part
runtimeVars == <<part, socketVars, streamVars, entryVars>>

One(set) == CHOOSE x \in set : TRUE

\* What the order entry is while it rests: one of its initial states
EntryRests == /\ EntryInit /\ watched = FALSE /\ uncertain = FALSE /\ streamsUp = TRUE
              /\ journalled = [o \in Operations |-> "no"]

\* The worker alone: plans have no names, and a pending request of a plan in
\* the journal says nothing more.
EntryUnwatched ==
    /\ EntryInit /\ watched = FALSE
    /\ uncertain => Unfinished = {}
    /\ <<journalled[o1], journalled[o2]>> \in
           {<<"no", "no">>, <<"plain", "no">>, <<"confirm", "no">>, <<"plain", "plain">>,
            <<"plain", "confirm">>, <<"confirm", "confirm">>}

\* With the user interface: at most one plan in the journal.
EntryShown == EntryInit /\ watched = TRUE /\ uncertain = FALSE /\ streamsUp = TRUE
              /\ journalled[o1] # "confirm" /\ journalled[o2] = "no"

RuntimeInit ==
    /\ part \in Parts
    /\ SocketInit /\ StreamInit
    /\ part # "socket" => client = One(Clients)
    /\ CASE part = "recovery" -> EntryUnwatched
         [] part = "entry" -> EntryShown
         [] OTHER -> EntryRests

\* The worker alone, through its end
RecoveryNext == EntryNext /\ UNCHANGED <<offered, viewVars, clicks, historyVars>>

\* The user and the worker.  To keep the instance small, with a plan in the
\* journal no task meets an exception and the user gives one task.
EntryOpenNext == /\ EntryNext /\ UNCHANGED ending
                 /\ completion # "none" => spent'.errors = 0 /\ clicks' <= 1

RuntimeNext ==
    \/ part = "socket" /\ SocketNext /\ UNCHANGED <<part, streamVars, entryVars>>
    \/ part = "stream" /\ StreamNext /\ UNCHANGED <<part, socketVars, entryVars>>
    \/ part = "recovery" /\ RecoveryNext /\ UNCHANGED <<part, socketVars, streamVars>>
    \/ part = "entry" /\ EntryOpenNext /\ UNCHANGED <<part, socketVars, streamVars>>

Worked == part \in {"recovery", "entry"}

\* SocketFairness, StreamFairness and EntryFairness, of the part that does not
\* rest
RuntimeFairness ==
    /\ \A c \in Callers : WF_socketVars(part = "socket" /\ CallerStep(c))
    /\ WF_socketVars(part = "socket" /\ LoopStep)
    /\ WF_streamVars(part = "stream" /\ ReplaceStep)
    /\ WF_streamVars(part = "stream" /\ KeepaliveStep)
    /\ WF_streamVars(part = "stream" /\ StreamStopped)
    /\ WF_streamVars(part = "stream" /\ PoolStep)
    /\ WF_entryVars(Worked /\ WorkerOnly(PoolTask))
    /\ WF_entryVars(Worked /\ WorkerOnly(MonitorStep))
    /\ WF_entryVars(Worked /\ WorkerOnly(ShutdownStep))

RuntimeSpec == RuntimeInit /\ [][RuntimeNext]_runtimeVars /\ RuntimeFairness
=============================================================================
