----------------------------- MODULE StreamProofs -----------------------------
(***************************************************************************)
(* Proofs about the two kinds of stream.  WebSocketClient: the exchange    *)
(* holds what the client has stored, and the thread gives up only after    *)
(* its attempts, for any subscriptions, callers, requests and number of    *)
(* connections.  FuturesStream: never two streams, and nothing left after  *)
(* a stop, for any number of failing calls, rebuilds and expired keys.     *)
(***************************************************************************)
EXTENDS WebSocketClient, FuturesStream, SequenceTheorems, TLAPS

-----------------------------------------------------------------------------
(* The WebSocket client *)

Phases == {"off", "connecting", "preparing", "open", "closing", "failed", "backoff",
           "ended"}
StoredCalls == [step : {"stored"}, keys : SUBSET Keys, add : BOOLEAN]
ReadCalls == [step : {"read"}, keys : SUBSET Keys, add : BOOLEAN, connection : 1..tries]
Sends == [connection : 1..tries, keys : SUBSET Keys, add : BOOLEAN]

\* What the variables are; a connection that is named anywhere has been tried.
SocketTypes ==
    /\ client \in {"public", "private"}
    /\ subscriptions \subseteq Keys /\ server \subseteq Keys
    /\ phase \in Phases
    /\ tries \in Nat /\ websocket \in 0..tries
    /\ reconnects \in Nat /\ failures \in Nat
    /\ outbox \in Seq(Sends)
    /\ call \in [Callers -> {NoCall} \cup StoredCalls \cup ReadCalls]

\* What each phase of the loop thread means for the connection.  Nothing is sent
\* on a connection that is not active yet.
PhaseInv ==
    /\ connected <=> phase = "open"
    /\ phase \in {"preparing", "open"} => websocket # 0
    /\ phase # "open" => pending = {} /\ acks = {} /\ ~ready
    /\ phase = "preparing" => \A n \in DOMAIN outbox : outbox[n].connection # websocket

\* A key that is not contended is in at most one call, which carries what is
\* stored.
CallsAgree ==
    \A k \in Keys \ contended, c \in Callers : k \in call[c].keys =>
        /\ call[c].add <=> k \in subscriptions
        /\ \A d \in Callers : k \in call[d].keys => d = c

\* A call that will still be sent on this connection, and a send on it
Coming(c, k) == /\ k \in call[c].keys
                /\ call[c].step = "read" => call[c].connection = websocket
Scheduled(n, k) == outbox[n].connection = websocket /\ k \in outbox[n].keys

\* What the exchange will hold once the scheduled sends have run, unless a call
\* is about to schedule another: the last send decides, or else what it holds.
LastSendDecides ==
    connected => \A k \in Keys \ contended : (\A c \in Callers : ~Coming(c, k)) =>
        /\ (\A n \in DOMAIN outbox : ~Scheduled(n, k))
              => (k \in server <=> k \in subscriptions)
        /\ \A n \in DOMAIN outbox :
              Scheduled(n, k) /\ (\A m \in DOMAIN outbox : m > n => ~Scheduled(m, k))
              => (outbox[n].add <=> k \in subscriptions)

\* The private client is subscribed before it starts, and never again.
PrivateInv ==
    client = "private" =>
        /\ subscriptions = Keys /\ outbox = << >>
        /\ \A c \in Callers : call[c] = NoCall
        /\ connected => server = subscriptions /\ pending = acks
        /\ ready => acks = {}

\* failures, a history variable, counts what reconnects counts.
CountInv ==
    /\ phase # "ended" => reconnects <= Attempts
    /\ phase \in {"off", "backoff", "connecting"} => failures = reconnects
    /\ phase \in {"preparing", "open", "closing", "failed"} /\ ~stable
          => failures = reconnects
    /\ phase = "ended" /\ ~stopping => failures = Attempts + 1

\* The inductive invariant: ServerFollowsStore says nothing of a key underway,
\* and needs to know what the calls and the scheduled sends will make of it.
SocketInv == /\ SocketTypes /\ PhaseInv /\ CallsAgree /\ LastSendDecides
             /\ PrivateInv /\ CountInv

-----------------------------------------------------------------------------
(* Types.                                                                  *)

\* The types hold at the start.
LEMMA InitTypes == SocketInit => SocketTypes
  <1> SUFFICES ASSUME SocketInit PROVE SocketTypes
    OBVIOUS
  <1>1. client \in {"public", "private"}
    BY SocketAssumption DEF SocketInit
  <1>2. << >> \in Seq(Sends)
    OBVIOUS
  <1>4. /\ subscriptions \subseteq Keys /\ server \subseteq Keys
        /\ phase \in Phases
        /\ outbox \in Seq(Sends)
        /\ call \in [Callers -> {NoCall} \cup StoredCalls \cup ReadCalls]
    BY <1>2 DEF SocketInit, Phases
  <1>5. tries \in Nat /\ websocket \in 0..tries /\ reconnects \in Nat /\ failures \in Nat
    BY DEF SocketInit
  <1> QED
    BY <1>1, <1>4, <1>5 DEF SocketTypes

\* A call in progress has keys, and says whether they are added.
LEMMA CallTypes ==
    ASSUME SocketTypes, NEW c \in Callers
    PROVE  /\ call[c].step \in {"none", "stored", "read"}
           /\ call[c].keys \subseteq Keys
           /\ call[c].step = "none" <=> call[c] = NoCall
           /\ call[c].step = "none" => call[c].keys = {}
           /\ call[c].step # "none" => call[c].add \in BOOLEAN
           /\ call[c].step = "read" => call[c].connection \in 1..tries
  BY DEF SocketTypes, NoCall, StoredCalls, ReadCalls

\* Calls and sends of connections tried so far stay so when one more is tried.
LEMMA MoreTries ==
    ASSUME SocketTypes, tries' \in {tries, tries + 1},
           call' = call, outbox' = outbox
    PROVE  /\ outbox' \in Seq(Sends')
           /\ call' \in [Callers -> {NoCall} \cup StoredCalls \cup ReadCalls']
  <1>1. 1..tries \subseteq 1..tries'
    BY DEF SocketTypes
  <1>2. Sends \subseteq Sends' /\ ReadCalls \subseteq ReadCalls'
    BY <1>1 DEF Sends, ReadCalls
  <1>3. \A n \in 1..Len(outbox) : outbox[n] \in Sends'
    BY <1>2 DEF SocketTypes
  <1> QED
    BY <1>2, <1>3 DEF SocketTypes

\* A caller keeps the types.
LEMMA CallerTypes ==
    ASSUME SocketTypes, NEW c \in Callers,
           Request(c) \/ ReadWebsocket(c) \/ Schedule(c)
    PROVE  SocketTypes'
  <1> USE CallTypes DEF SocketTypes
  <1>1. tries' = tries /\ ReadCalls' = ReadCalls /\ Sends' = Sends
    BY DEF Request, ReadWebsocket, Schedule, loopVars, ReadCalls, Sends
  <1>2. CASE Request(c)
    <2>1. PICK keys \in (SUBSET Keys) \ {{}}, add \in BOOLEAN :
            LET changed == IF add THEN keys \ subscriptions ELSE keys \cap subscriptions
            IN /\ subscriptions' = IF add THEN subscriptions \cup keys
                                   ELSE subscriptions \ keys
               /\ \/ call' = [call EXCEPT ![c] = [step |-> "stored", keys |-> changed,
                                                  add |-> add]]
                  \/ call' = call
      BY <1>2 DEF Request
    <2>2. \A changed \in SUBSET Keys :
             [step |-> "stored", keys |-> changed, add |-> add] \in StoredCalls
      BY DEF StoredCalls
    <2>3. subscriptions' \subseteq Keys
      BY <2>1
    <2>4. call' \in [Callers -> {NoCall} \cup StoredCalls \cup ReadCalls]
      BY <2>1, <2>2
    <2> QED
      BY <1>1, <1>2, <2>3, <2>4 DEF Request, loopVars
  <1>3. CASE ReadWebsocket(c)
    <2>1. websocket # 0 =>
            [step |-> "read", keys |-> call[c].keys, add |-> call[c].add,
             connection |-> websocket] \in ReadCalls
      BY <1>3 DEF ReadWebsocket, ReadCalls
    <2>2. call' \in [Callers -> {NoCall} \cup StoredCalls \cup ReadCalls]
      BY <1>3, <2>1 DEF ReadWebsocket
    <2> QED
      BY <1>1, <1>3, <2>2 DEF ReadWebsocket, loopVars
  <1>4. CASE Schedule(c)
    <2>1. [connection |-> call[c].connection, keys |-> call[c].keys, add |-> call[c].add]
             \in Sends
      BY <1>4 DEF Schedule, Sends
    <2>2. outbox' \in Seq(Sends)
      BY <1>4, <2>1 DEF Schedule
    <2> QED
      BY <1>1, <1>4, <2>2 DEF Schedule, loopVars
  <1> QED
    BY <1>2, <1>3, <1>4

\* So does the event loop.
LEMMA LoopTypes ==
    ASSUME SocketTypes,
           \/ Start \/ Connect \/ Activate \/ Deliver \/ Disconnected \/ Retry
           \/ BackoffEnds \/ Canceled \/ LoginFails \/ Break \/ Acknowledged
           \/ Heartbeat \/ Stop
    PROVE  SocketTypes'
  <1>1. CASE Connect
    <2>1. tries' = tries + 1 /\ call' = call /\ outbox' = outbox
      BY <1>1 DEF Connect, callVars
    <2> QED
      BY <1>1, <2>1, MoreTries DEF Connect, SocketTypes, Phases
  <1>2. ASSUME tries' = tries
        PROVE  Sends' = Sends /\ ReadCalls' = ReadCalls /\ << >> \in Seq(Sends)
    BY <1>2 DEF Sends, ReadCalls
  <1>3. CASE Deliver
    <2>1. Head(outbox) \in Sends /\ outbox' \in Seq(Sends)
      BY <1>3, HeadTailProperties DEF Deliver, SocketTypes
    <2>2. server' \subseteq Keys
      BY <1>3, <2>1 DEF Deliver, SocketTypes, Sends
    <2> QED
      BY <1>2, <1>3, <2>1, <2>2 DEF Deliver, SocketTypes, loopVars, callVars
  <1>4. CASE Retry
    <2>1. Retries \in Nat
      BY DEF Retries, SocketTypes
    <2>2. failures' \in Nat /\ reconnects' \in Nat
      BY <1>4, <2>1 DEF Retry, SocketTypes
    <2>3. phase' \in Phases /\ outbox' \in {outbox, << >>}
      BY <1>4 DEF Retry, Phases
    <2> QED
      BY <1>2, <1>4, <2>2, <2>3 DEF Retry, SocketTypes, callVars
  <1>5. CASE Start \/ Activate \/ Disconnected
    BY <1>2, <1>5 DEF Start, Activate, Disconnected, SocketTypes, Phases, callVars, loopVars
  <1>6. CASE BackoffEnds \/ Canceled \/ Stop
    BY <1>2, <1>6 DEF BackoffEnds, Canceled, Stop, SocketTypes, Phases, callVars, loopVars
  <1>7. CASE LoginFails \/ Break \/ Acknowledged \/ Heartbeat
    BY <1>2, <1>7 DEF LoginFails, Break, Deactivate, Acknowledged, Heartbeat, SocketTypes,
                      Phases, callVars, loopVars
  <1> QED
    BY <1>1, <1>3, <1>4, <1>5, <1>6, <1>7

-----------------------------------------------------------------------------
(* Phases.                                                                 *)

\* The phase keeps saying what the connection holds.
LEMMA PhaseStep ==
    ASSUME SocketTypes, PhaseInv, SocketNext
    PROVE  PhaseInv'
  <1>1. ASSUME NEW c \in Callers, Request(c) \/ ReadWebsocket(c) PROVE PhaseInv'
    BY <1>1 DEF Request, ReadWebsocket, PhaseInv, loopVars, ackVars
  <1>2. ASSUME NEW c \in Callers, Schedule(c) PROVE PhaseInv'
    <2>1. phase = "preparing" => outbox' = outbox
      BY <1>2 DEF Schedule, PhaseInv
    <2> QED
      BY <1>2, <2>1 DEF Schedule, PhaseInv, loopVars, ackVars
  <1>3. CASE Connect
    <2>1. \A n \in DOMAIN outbox : outbox[n].connection # tries + 1
      <3>1. \A n \in DOMAIN outbox : outbox[n] \in Sends
        BY DEF SocketTypes
      <3>2. \A i \in 1..tries : i # tries + 1
        BY DEF SocketTypes
      <3> QED
        BY <3>1, <3>2 DEF Sends
    <2>2. tries + 1 # 0
      BY DEF SocketTypes
    <2> QED
      BY <1>3, <2>1, <2>2 DEF Connect, PhaseInv, ackVars
  <1>4. CASE Deliver
    <2>1. \A n \in DOMAIN outbox' : n + 1 \in DOMAIN outbox /\ outbox'[n] = outbox[n + 1]
      BY <1>4, HeadTailProperties DEF Deliver, SocketTypes
    <2> QED
      BY <1>4, <2>1 DEF Deliver, PhaseInv, loopVars, ackVars
  <1>5. CASE Start \/ Activate \/ Disconnected
    BY <1>5 DEF Start, Activate, Disconnected, PhaseInv, ackVars
  <1>6. CASE Retry \/ BackoffEnds \/ Canceled \/ Stop
    BY <1>6 DEF Retry, BackoffEnds, Canceled, Stop, PhaseInv, ackVars, loopVars
  <1>7. CASE LoginFails \/ Break \/ Acknowledged \/ Heartbeat
    BY <1>7 DEF LoginFails, Break, Deactivate, Acknowledged, Heartbeat, PhaseInv, ackVars,
                loopVars
  <1> QED
    BY <1>1, <1>2, <1>3, <1>4, <1>5, <1>6, <1>7 DEF SocketNext, CallerStep, LoopStep

-----------------------------------------------------------------------------
(* The count of failed connections.                                        *)

\* The count of failures stays the count of retries.
LEMMA CountStep ==
    ASSUME SocketTypes, PhaseInv, CountInv, SocketNext
    PROVE  CountInv'
  <1>1. CASE Retry
    <2> USE SocketAssumption DEF SocketTypes, CountInv, Retry
    <2>1. CASE stable
      BY <1>1, <2>1 DEF Retries, Exhausted
    <2>2. CASE ~stable
      BY <1>1, <2>2 DEF Retries, Exhausted
    <2> QED
      BY <2>1, <2>2
  <1>2. ASSUME NEW c \in Callers, Request(c) \/ ReadWebsocket(c) \/ Schedule(c)
        PROVE  CountInv'
    BY <1>2 DEF Request, ReadWebsocket, Schedule, CountInv, loopVars
  <1>3. CASE Start \/ Connect \/ Activate \/ Deliver \/ Disconnected
    BY <1>3 DEF Start, Connect, Activate, Deliver, Disconnected, CountInv, loopVars
  <1>4. CASE BackoffEnds \/ Canceled \/ Stop
    BY <1>4 DEF BackoffEnds, Canceled, Stop, CountInv, loopVars
  <1>5. CASE LoginFails \/ Break \/ Acknowledged \/ Heartbeat
    BY <1>5 DEF LoginFails, Break, Deactivate, Acknowledged, Heartbeat, CountInv, loopVars
  <1> QED
    BY <1>1, <1>2, <1>3, <1>4, <1>5 DEF SocketNext, CallerStep, LoopStep

-----------------------------------------------------------------------------
(* Calls and scheduled sends.                                              *)

\* A key in one call only is carried there as it is stored.
LEMMA CallsStep ==
    ASSUME SocketTypes, CallsAgree, SocketNext
    PROVE  CallsAgree'
  <1> USE CallTypes
  <1>1. ASSUME NEW c \in Callers, Request(c) PROVE CallsAgree'
    <2>1. PICK keys \in (SUBSET Keys) \ {{}}, add \in BOOLEAN :
            LET changed == IF add THEN keys \ subscriptions ELSE keys \cap subscriptions
                busy == UNION {call[d].keys : d \in Callers \ {c}}
            IN /\ call[c] = NoCall
               /\ subscriptions' = IF add THEN subscriptions \cup keys
                                   ELSE subscriptions \ keys
               /\ \/ call' = [call EXCEPT ![c] = [step |-> "stored", keys |-> changed,
                                                  add |-> add]]
                  \/ call' = call
               /\ contended' = contended \cup (changed \cap busy)
      BY <1>1 DEF Request
    <2> DEFINE changed == IF add THEN keys \ subscriptions ELSE keys \cap subscriptions
    <2> SUFFICES ASSUME NEW k \in Keys \ contended', NEW d \in Callers,
                        k \in call'[d].keys
                 PROVE  /\ call'[d].add <=> k \in subscriptions'
                        /\ \A e \in Callers : k \in call'[e].keys => e = d
      BY DEF CallsAgree
    <2>2. k \notin contended
      BY <2>1
    <2>3. k \in changed => \A e \in Callers \ {c} : k \notin call[e].keys
      BY <2>1
    <2>4. k \notin changed => (k \in subscriptions' <=> k \in subscriptions)
      BY <2>1
    <2>5. \A e \in Callers \ {c} : call'[e] = call[e]
      BY <2>1 DEF SocketTypes
    <2>6. call'[c] \in {NoCall, [step |-> "stored", keys |-> changed, add |-> add]}
      BY <2>1 DEF SocketTypes
    <2>7. CASE d = c
      <3>1. k \in changed /\ call'[d].add = add
        BY <2>6, <2>7 DEF NoCall
      <3> QED
        BY <2>1, <2>3, <2>5, <2>7, <3>1
    <2>8. CASE d # c
      <3>1. k \notin changed
        BY <2>3, <2>5, <2>8
      <3>2. k \notin call'[c].keys
        BY <3>1, <2>6 DEF NoCall
      <3> QED
        BY <2>2, <2>4, <2>5, <2>8, <3>1, <3>2 DEF CallsAgree
    <2> QED
      BY <2>7, <2>8
  <1>2. ASSUME NEW c \in Callers, ReadWebsocket(c) \/ Schedule(c) PROVE CallsAgree'
    <2>1. \A d \in Callers : call'[d].keys \subseteq call[d].keys
                             /\ (call'[d].keys # {} => call'[d].add = call[d].add)
      BY <1>2 DEF ReadWebsocket, Schedule, SocketTypes, NoCall
    <2> QED
      BY <1>2, <2>1 DEF ReadWebsocket, Schedule, CallsAgree
  <1>3. CASE Activate
    <2> SUFFICES ASSUME NEW k \in Keys \ contended', NEW d \in Callers, k \in call[d].keys
                 PROVE  /\ call[d].add <=> k \in subscriptions
                        /\ \A e \in Callers : k \in call[e].keys => e = d
      BY <1>3 DEF Activate, CallsAgree
    <2>1. k \notin contended
      BY <1>3 DEF Activate
    <2> QED
      BY <2>1 DEF CallsAgree
  <1>4. CASE Start \/ Connect \/ Deliver \/ Disconnected \/ Retry \/ BackoffEnds
             \/ Canceled \/ Stop
    BY <1>4 DEF Start, Connect, Deliver, Disconnected, Retry, BackoffEnds, Canceled, Stop,
                CallsAgree, callVars
  <1>5. CASE LoginFails \/ Break \/ Acknowledged \/ Heartbeat
    BY <1>5 DEF LoginFails, Break, Deactivate, Acknowledged, Heartbeat, CallsAgree, callVars
  <1> QED
    BY <1>1, <1>2, <1>3, <1>4, <1>5 DEF SocketNext, CallerStep, LoopStep

\* Of a step that does not touch calls, sends, subscriptions or connection.
LEMMA LastUntouched ==
    ASSUME LastSendDecides, connected' => connected,
           UNCHANGED <<subscriptions, websocket, outbox, server, call, contended>>
    PROVE  LastSendDecides'
  BY DEF LastSendDecides, Coming, Scheduled

\* A subscription that changes is in a call from then on; any other key keeps its
\* calls and sends.
LEMMA LastRequest ==
    ASSUME SocketTypes, LastSendDecides, NEW c \in Callers, Request(c)
    PROVE  LastSendDecides'
  <1> USE CallTypes
  <1>1. PICK keys \in (SUBSET Keys) \ {{}}, add \in BOOLEAN :
          LET changed == IF add THEN keys \ subscriptions ELSE keys \cap subscriptions
          IN /\ call[c] = NoCall
             /\ subscriptions' = IF add THEN subscriptions \cup keys
                                 ELSE subscriptions \ keys
             /\ IF changed # {} /\ connected
                THEN call' = [call EXCEPT ![c] = [step |-> "stored", keys |-> changed,
                                                  add |-> add]]
                ELSE call' = call
             /\ contended \subseteq contended'
             /\ UNCHANGED <<connected, websocket, outbox, server>>
    BY DEF Request
  <1> DEFINE changed == IF add THEN keys \ subscriptions ELSE keys \cap subscriptions
  <1> SUFFICES ASSUME connected, NEW k \in Keys \ contended',
                      \A d \in Callers : ~Coming(d, k)'
               PROVE  /\ (\A n \in DOMAIN outbox : ~Scheduled(n, k))
                            => (k \in server <=> k \in subscriptions')
                      /\ \A n \in DOMAIN outbox :
                            Scheduled(n, k)
                            /\ (\A m \in DOMAIN outbox : m > n => ~Scheduled(m, k))
                            => (outbox[n].add <=> k \in subscriptions')
    BY <1>1 DEF LastSendDecides, Scheduled
  <1>2. k \notin changed
    <2> SUFFICES ASSUME k \in changed PROVE FALSE
      OBVIOUS
    <2>1. call'[c] = [step |-> "stored", keys |-> changed, add |-> add]
      BY <1>1 DEF SocketTypes
    <2>2. k \in call'[c].keys /\ call'[c].step # "read"
      BY <2>1
    <2> QED
      BY <2>2 DEF Coming
  <1>3. k \in subscriptions' <=> k \in subscriptions
    BY <1>1, <1>2
  <1>4. \A d \in Callers : ~Coming(d, k)
    <2> SUFFICES ASSUME NEW d \in Callers, Coming(d, k) PROVE FALSE
      OBVIOUS
    <2>1. d # c
      BY <1>1 DEF Coming, NoCall
    <2>2. call'[d] = call[d]
      BY <1>1, <2>1 DEF SocketTypes
    <2> QED
      BY <1>1, <2>2 DEF Coming
  <1> QED
    BY <1>1, <1>3, <1>4 DEF LastSendDecides

\* A call that reads the connection still comes, on this connection.
LEMMA LastRead ==
    ASSUME SocketTypes, PhaseInv, LastSendDecides, NEW c \in Callers, ReadWebsocket(c)
    PROVE  LastSendDecides'
  <1> USE CallTypes DEF ReadWebsocket, loopVars
  <1> SUFFICES ASSUME connected, NEW k \in Keys \ contended,
                      \A d \in Callers : ~Coming(d, k)'
               PROVE  \A d \in Callers : ~Coming(d, k)
    BY DEF LastSendDecides, Scheduled
  <1>1. websocket # 0
    BY DEF PhaseInv
  <1>2. /\ call'[c] = [step |-> "read", keys |-> call[c].keys, add |-> call[c].add,
                       connection |-> websocket]
        /\ \A d \in Callers \ {c} : call'[d] = call[d]
    BY <1>1 DEF SocketTypes
  <1> SUFFICES ASSUME NEW d \in Callers, Coming(d, k) PROVE FALSE
    OBVIOUS
  <1>3. CASE d = c
    <2>1. call'[c].keys = call[c].keys /\ call'[c].connection = websocket
      BY <1>2
    <2> QED
      BY <1>3, <2>1 DEF Coming
  <1>4. CASE d # c
    BY <1>2, <1>4 DEF Coming
  <1> QED
    BY <1>3, <1>4

\* What a call schedules on this connection is the last send of its keys.
LEMMA LastSchedule ==
    ASSUME SocketTypes, CallsAgree, LastSendDecides, NEW c \in Callers, Schedule(c)
    PROVE  LastSendDecides'
  <1> USE CallTypes DEF Schedule, loopVars
  <1> DEFINE send == [connection |-> call[c].connection, keys |-> call[c].keys,
                      add |-> call[c].add]
  <1>0. PICK last \in Nat : last = Len(outbox) + 1
    BY DEF SocketTypes
  <1> SUFFICES ASSUME connected, NEW k \in Keys \ contended,
                      \A d \in Callers : ~Coming(d, k)'
               PROVE  /\ (\A n \in DOMAIN outbox' : ~Scheduled(n, k)')
                            => (k \in server <=> k \in subscriptions)
                      /\ \A n \in DOMAIN outbox' :
                            Scheduled(n, k)'
                            /\ (\A m \in DOMAIN outbox' : m > n => ~Scheduled(m, k)')
                            => (outbox'[n].add <=> k \in subscriptions)
    BY DEF LastSendDecides
  <1>1. outbox' = Append(outbox, send) /\ Len(outbox) \in Nat
    BY DEF SocketTypes
  <1>2. /\ DOMAIN outbox = 1..Len(outbox) /\ DOMAIN outbox' = 1..last
        /\ outbox'[last] = send
        /\ \A n \in 1..Len(outbox) : outbox'[n] = outbox[n]
    BY <1>0, <1>1 DEF SocketTypes
  <1>3. \A n \in DOMAIN outbox : Scheduled(n, k)' <=> Scheduled(n, k)
    BY <1>2 DEF Scheduled
  <1>4. \A d \in Callers \ {c} : ~Coming(d, k)
    <2>1. \A d \in Callers \ {c} : call'[d] = call[d]
      BY DEF SocketTypes
    <2> QED
      BY <2>1 DEF Coming
  <1>5. CASE Coming(c, k)
    <2>1. outbox'[last].add <=> k \in subscriptions
      BY <1>2, <1>5 DEF Coming, CallsAgree
    <2>2. Scheduled(last, k)'
      BY <1>2, <1>5 DEF Coming, Scheduled
    <2>3. last \in DOMAIN outbox' /\ \A n \in DOMAIN outbox' : n # last => last > n
      BY <1>0, <1>1, <1>2
    <2> QED
      BY <2>1, <2>2, <2>3
  <1>6. CASE ~Coming(c, k)
    <2>1. ~Scheduled(last, k)'
      BY <1>2, <1>6 DEF Coming, Scheduled
    <2>2. \A d \in Callers : ~Coming(d, k)
      BY <1>4, <1>6
    <2>3. DOMAIN outbox' = DOMAIN outbox \cup {last}
      BY <1>0, <1>1, <1>2
    <2>4. ASSUME \A n \in DOMAIN outbox' : ~Scheduled(n, k)'
          PROVE  k \in server <=> k \in subscriptions
      BY <1>3, <2>2, <2>3, <2>4 DEF LastSendDecides
    <2>5. ASSUME NEW n \in DOMAIN outbox', Scheduled(n, k)',
                 \A m \in DOMAIN outbox' : m > n => ~Scheduled(m, k)'
          PROVE  outbox'[n].add <=> k \in subscriptions
      <3>1. n \in DOMAIN outbox
        BY <2>1, <2>3, <2>5
      <3>2. Scheduled(n, k) /\ \A m \in DOMAIN outbox : m > n => ~Scheduled(m, k)
        BY <1>3, <2>3, <2>5, <3>1
      <3>3. outbox'[n] = outbox[n]
        BY <1>2, <3>1
      <3> QED
        BY <2>2, <3>1, <3>2, <3>3 DEF LastSendDecides
    <2> QED
      BY <2>4, <2>5
  <1> QED
    BY <1>5, <1>6

\* A connection that becomes active holds what is stored, and no send is for it.
LEMMA LastActivate ==
    ASSUME SocketTypes, PhaseInv, Activate
    PROVE  LastSendDecides'
  <1>1. \A n \in DOMAIN outbox : outbox[n].connection # websocket
    BY DEF Activate, PhaseInv
  <1>2. server' = subscriptions /\ UNCHANGED <<subscriptions, websocket, outbox, call>>
    BY DEF Activate
  <1>3. \A n \in DOMAIN outbox', k \in Keys : ~Scheduled(n, k)'
    BY <1>1, <1>2 DEF Scheduled
  <1> QED
    BY <1>2, <1>3 DEF LastSendDecides

\* The send that runs first decides only for keys of which it is the last.
LEMMA LastDeliver ==
    ASSUME SocketTypes, PhaseInv, LastSendDecides, Deliver
    PROVE  LastSendDecides'
  <1> USE DEF Deliver, loopVars, callVars
  <1>1. /\ 1 \in DOMAIN outbox /\ Head(outbox) = outbox[1]
        /\ DOMAIN outbox = 1..Len(outbox) /\ DOMAIN outbox' = 1..Len(outbox) - 1
        /\ Len(outbox) \in Nat
        /\ \A n \in DOMAIN outbox' : outbox'[n] = outbox[n + 1]
    BY HeadTailProperties DEF SocketTypes
  <1>2. \A n \in DOMAIN outbox' : n \in Nat /\ n + 1 > 1 /\ n + 1 \in DOMAIN outbox
    BY <1>1
  <1> SUFFICES ASSUME connected, NEW k \in Keys \ contended,
                      \A d \in Callers : ~Coming(d, k)
               PROVE  /\ (\A n \in DOMAIN outbox' : ~Scheduled(n, k)')
                            => (k \in server' <=> k \in subscriptions)
                      /\ \A n \in DOMAIN outbox' :
                            Scheduled(n, k)'
                            /\ (\A m \in DOMAIN outbox' : m > n => ~Scheduled(m, k)')
                            => (outbox'[n].add <=> k \in subscriptions)
    BY DEF LastSendDecides, Coming
  <1>3. \A n \in DOMAIN outbox' : Scheduled(n, k)' <=> Scheduled(n + 1, k)
    BY <1>1 DEF Scheduled
  <1>4. \A m \in DOMAIN outbox : m # 1 => m - 1 \in DOMAIN outbox' /\ (m - 1) + 1 = m
    BY <1>1
  <1>5. ASSUME \A n \in DOMAIN outbox' : ~Scheduled(n, k)'
        PROVE  k \in server' <=> k \in subscriptions
    <2>1. \A m \in DOMAIN outbox : m # 1 => ~Scheduled(m, k)
      BY <1>3, <1>4, <1>5
    <2>2. CASE Scheduled(1, k)
      <3>1. \A m \in DOMAIN outbox : m > 1 => ~Scheduled(m, k)
        BY <2>1
      <3>2. outbox[1].add <=> k \in subscriptions
        BY <1>1, <2>2, <3>1 DEF LastSendDecides
      <3> QED
        BY <1>1, <2>2, <3>2 DEF Scheduled
    <2>3. CASE ~Scheduled(1, k)
      <3>1. \A m \in DOMAIN outbox : ~Scheduled(m, k)
        BY <2>1, <2>3
      <3>2. k \in server <=> k \in subscriptions
        BY <3>1 DEF LastSendDecides
      <3> QED
        BY <1>1, <2>3, <3>2 DEF Scheduled
    <2> QED
      BY <2>2, <2>3
  <1>6. ASSUME NEW n \in DOMAIN outbox', Scheduled(n, k)',
               \A m \in DOMAIN outbox' : m > n => ~Scheduled(m, k)'
        PROVE  outbox'[n].add <=> k \in subscriptions
    <2>1. n + 1 \in DOMAIN outbox /\ Scheduled(n + 1, k) /\ n \in Nat
      BY <1>2, <1>3, <1>6
    <2>2. ASSUME NEW m \in DOMAIN outbox, m > n + 1 PROVE ~Scheduled(m, k)
      <3>1. m # 1 /\ m - 1 > n
        BY <1>1, <2>1, <2>2
      <3> QED
        BY <1>3, <1>4, <1>6, <3>1
    <2> QED
      BY <1>1, <2>1, <2>2 DEF LastSendDecides
  <1> QED
    BY <1>5, <1>6

\* The last message sent for a stream still decides.
LEMMA LastStep ==
    ASSUME SocketTypes, PhaseInv, PhaseInv', CallsAgree, LastSendDecides, SocketNext
    PROVE  LastSendDecides'
  <1>1. ASSUME NEW c \in Callers, Request(c) \/ CallerStep(c) PROVE LastSendDecides'
    BY <1>1, LastRequest, LastRead, LastSchedule DEF CallerStep
  <1>2. CASE Activate \/ Deliver
    BY <1>2, LastActivate, LastDeliver
  <1>3. CASE Start \/ Connect \/ Disconnected \/ LoginFails \/ Break
    <2>1. phase' # "open"
      BY <1>3 DEF Start, Connect, Disconnected, LoginFails, Break, Deactivate
    <2> QED
      BY <2>1 DEF PhaseInv, LastSendDecides
  <1>4. CASE Retry \/ BackoffEnds \/ Canceled
    <2>1. phase' # "open"
      BY <1>4 DEF Retry, BackoffEnds, Canceled
    <2> QED
      BY <2>1 DEF PhaseInv, LastSendDecides
  <1>5. CASE Stop \/ Acknowledged \/ Heartbeat
    BY <1>5, LastUntouched DEF Stop, Acknowledged, Heartbeat, callVars
  <1> QED
    BY <1>1, <1>2, <1>3, <1>4, <1>5 DEF SocketNext, LoopStep

-----------------------------------------------------------------------------
(* The private client.                                                     *)

\* The private client keeps to the subscriptions it began with.
LEMMA PrivateStep ==
    ASSUME SocketTypes, PhaseInv, PhaseInv', PrivateInv, SocketNext
    PROVE  PrivateInv'
  <1>1. client' = client
    BY DEF SocketNext, CallerStep, LoopStep, Request, ReadWebsocket, Schedule, Start, Connect,
           Activate, Deliver, Disconnected, Retry, BackoffEnds, Canceled, LoginFails, Break,
           Deactivate, Acknowledged, Heartbeat, Stop
  <1> SUFFICES ASSUME client = "private" PROVE PrivateInv'
    BY <1>1 DEF PrivateInv
  <1> USE DEF PrivateInv
  <1>2. \A c \in Callers : ~Request(c) /\ ~CallerStep(c)
    BY DEF Request, CallerStep, ReadWebsocket, Schedule, NoCall
  <1>3. ~Deliver
    BY DEF Deliver
  <1>4. CASE Activate
    <2>1. pending = {} /\ acks = {} /\ ~ready
      BY <1>4 DEF Activate, PhaseInv
    <2>2. pending' = acks' /\ server' = subscriptions' /\ (ready' => FALSE)
      BY <1>4, <2>1 DEF Activate, ackVars
    <2>3. subscriptions' = Keys /\ outbox' = << >> /\ call' = call
      BY <1>4 DEF Activate
    <2> QED
      BY <2>2, <2>3
  <1>5. CASE Acknowledged
    BY <1>5 DEF Acknowledged, PhaseInv, callVars, loopVars
  <1>6. CASE Start \/ Connect \/ Disconnected \/ Stop \/ Heartbeat
    BY <1>6 DEF Start, Connect, Disconnected, Stop, Heartbeat, PhaseInv, callVars, loopVars,
                ackVars
  <1>7. CASE Retry \/ BackoffEnds \/ Canceled
    BY <1>7 DEF Retry, BackoffEnds, Canceled, PhaseInv, callVars, loopVars, ackVars
  <1>8. CASE LoginFails \/ Break
    BY <1>8 DEF LoginFails, Break, Deactivate, PhaseInv, callVars, loopVars
  <1> QED
    BY <1>2, <1>3, <1>4, <1>5, <1>6, <1>7, <1>8 DEF SocketNext, LoopStep

-----------------------------------------------------------------------------
(* The invariant, and what it says of every behaviour.                     *)

\* The invariant holds at the start.
LEMMA SocketStart == SocketInit => SocketInv
  <1> SUFFICES ASSUME SocketInit PROVE SocketInv
    OBVIOUS
  <1>1. PhaseInv /\ CallsAgree /\ LastSendDecides
    BY DEF SocketInit, PhaseInv, CallsAgree, LastSendDecides, NoCall
  <1>2. PrivateInv
    BY DEF SocketInit, PrivateInv
  <1>3. CountInv
    BY SocketAssumption DEF SocketInit, CountInv
  <1> QED
    BY <1>1, <1>2, <1>3, InitTypes DEF SocketInv

\* Every step keeps the invariant.
LEMMA SocketSteps ==
    ASSUME SocketInv, [SocketNext]_socketVars
    PROVE  SocketInv'
  <1> USE DEF SocketInv
  <1>1. CASE SocketNext
    <2>1. SocketTypes'
      BY <1>1, CallerTypes, LoopTypes DEF SocketNext, CallerStep, LoopStep
    <2>2. PhaseInv'
      BY <1>1, PhaseStep
    <2> QED
      BY <1>1, <2>1, <2>2, CallsStep, LastStep, PrivateStep, CountStep
  <1>2. CASE UNCHANGED socketVars
    BY <1>2 DEF socketVars, SocketTypes, PhaseInv, CallsAgree, LastSendDecides, PrivateInv,
                CountInv, Coming, Scheduled, Sends, ReadCalls
  <1> QED
    BY <1>1, <1>2

\* The inductive invariant holds in every state.
THEOREM SocketInvariance == SocketSpec => []SocketInv
  BY SocketStart, SocketSteps, PTL DEF SocketSpec

\* Subscriptions are restored and kept: whatever calls, reconnects and scheduled
\* sends interleave, the exchange holds what is stored of every key that nobody
\* is changing and that no two threads changed at once.
THEOREM SubscriptionsAreRestored == SocketSpec => []ServerFollowsStore
  <1>1. SocketInv => ServerFollowsStore
    <2> SUFFICES ASSUME SocketInv, connected PROVE ServerFollowsStore
      BY DEF ServerFollowsStore
    <2> USE DEF SocketInv
    <2>1. ASSUME NEW k \in Keys \ (Underway \cup contended)
          PROVE  k \in server <=> k \in subscriptions
      <3>1. \A c \in Callers : ~Coming(c, k)
        BY <2>1 DEF Underway, Coming
      <3>2. ASSUME NEW n \in DOMAIN outbox, Scheduled(n, k) PROVE FALSE
        <4>1. n \in {i \in DOMAIN outbox : outbox[i].connection = websocket}
          BY <3>2 DEF Scheduled
        <4>2. k \in UNION {outbox[m].keys : m \in {i \in DOMAIN outbox :
                                                 outbox[i].connection = websocket}}
          BY <3>2, <4>1 DEF Scheduled
        <4> QED
          BY <2>1, <4>2 DEF Underway
      <3> QED
        BY <2>1, <3>1, <3>2 DEF LastSendDecides
    <2>2. client = "private" /\ ready => server = subscriptions /\ acks = {}
      BY DEF PrivateInv
    <2> QED
      BY <2>1, <2>2 DEF ServerFollowsStore
  <1> QED
    BY <1>1, SocketInvariance, PTL

\* The thread that has not been stopped ends only after Attempts + 1 connections in
\* a row failed before a heartbeat was answered.
THEOREM AttemptsAreUsed == SocketSpec => []GivesUpLate
  <1>1. SocketInv => GivesUpLate
    BY DEF SocketInv, CountInv, GivesUpLate
  <1> QED
    BY <1>1, SocketInvariance, PTL

-----------------------------------------------------------------------------
(* The private stream and its listen key *)

Statuses == {"none", "running", "ending", "ended"}
Rebuilding == {"close", "create", "open"}
Stopping == {"closing", "closing key", "stopped"}

\* What a generation is, and which one is held
SocketsInv == /\ sockets \in Seq(Statuses)
              /\ current \in 0..Len(sockets)

\* A rebuild has a generation of its own and has given up the previous socket;
\* it is run by start, before there is a thread, or by the thread.
RebuildInv == /\ step \in Rebuilding => current = 0
              /\ step = "previous" => current # 0
              /\ step # "none" => Len(sockets) > 0
              /\ step # "none" => pool = "starting" \/ loop = "replacing"

\* What stop has done so far stays done: it waited for the thread first.
StopInv == /\ pool \in {"idle", "starting"} => loop = "none"
           /\ pool \in Stopping => ~LoopAlive
           /\ pool \in {"closing key", "stopped"} => current = 0
           /\ pool = "stopped" => ~hasKey

\* The inductive invariant: OneStream needs to know that a rebuild opens a
\* socket only when none is held, and StoppedIsClean that no rebuild is under
\* way when stop has joined the thread.
StreamInv == SocketsInv /\ OneStream /\ RebuildInv /\ StopInv

-----------------------------------------------------------------------------
(* Generations.                                                            *)

\* Marking a generation with a status other than "running" starts no stream.
LEMMA Marked ==
    ASSUME SocketsInv, OneStream, NEW g \in DOMAIN sockets,
           NEW status \in Statuses \ {"running"},
           sockets' = [sockets EXCEPT ![g] = status], current' \in {0, current},
           current' = 0 => \A h \in DOMAIN sockets : Live(h) => h = g
    PROVE  SocketsInv' /\ OneStream' /\ Len(sockets') = Len(sockets)
  <1>1. g \in 1..Len(sockets) /\ DOMAIN sockets = 1..Len(sockets)
    BY DEF SocketsInv
  <1>2. /\ sockets' \in Seq(Statuses) /\ Len(sockets') = Len(sockets)
        /\ \A h \in 1..Len(sockets) : sockets'[h] = IF h = g THEN status ELSE sockets[h]
    BY <1>1, ExceptSeq DEF SocketsInv
  <1>3. DOMAIN sockets' = 1..Len(sockets)
    BY <1>2
  <1> QED
    BY <1>1, <1>2, <1>3 DEF SocketsInv, OneStream, Live

\* A socket that does not run is given up, and no other one runs.
LEMMA GivenUp ==
    ASSUME SocketsInv, OneStream, Held \in {"ending", "ended"},
           sockets' = sockets, current' = 0
    PROVE  SocketsInv' /\ OneStream'
  <1>1. DOMAIN sockets = 1..Len(sockets) /\ Len(sockets) \in Nat
    BY DEF SocketsInv
  <1>2. ASSUME NEW g \in DOMAIN sockets, sockets[g] = "running" PROVE FALSE
    <2>1. g = current /\ current # 0
      BY <1>1, <1>2 DEF OneStream, Live
    <2> QED
      BY <1>2, <2>1 DEF Held
  <1> QED
    BY <1>1, <1>2 DEF SocketsInv, OneStream, Live

\* A new generation starts no stream; its rebuild begins by stopping the
\* previous one, if there is one.
LEMMA Begun ==
    ASSUME SocketsInv, OneStream, BeginReplace, current' = current
    PROVE  /\ SocketsInv' /\ OneStream' /\ Len(sockets') > 0
           /\ step' \in Rebuilding => current' = 0
           /\ step' = "previous" => current' # 0
           /\ step' # "none"
  <1>1. "none" \in Statuses /\ Len(sockets) \in Nat
    BY DEF Statuses, SocketsInv
  <1>2. /\ sockets' \in Seq(Statuses) /\ Len(sockets') = Len(sockets) + 1
        /\ \A h \in 1..Len(sockets) : sockets'[h] = sockets[h]
        /\ sockets'[Len(sockets) + 1] = "none"
    BY <1>1, AppendProperties DEF SocketsInv, BeginReplace
  <1>3. DOMAIN sockets' = 1..(Len(sockets) + 1) /\ DOMAIN sockets = 1..Len(sockets)
    BY <1>1, <1>2 DEF SocketsInv
  <1>4. SocketsInv' /\ Len(sockets') > 0
    BY <1>1, <1>2 DEF SocketsInv
  <1>5. OneStream'
    <2> SUFFICES ASSUME NEW h \in DOMAIN sockets', sockets'[h] = "running"
                 PROVE  h = current'
      BY DEF OneStream, Live
    <2>1. h \in 1..Len(sockets)
      BY <1>1, <1>2, <1>3
    <2> QED
      BY <2>1, <1>2, <1>3 DEF OneStream, Live
  <1> QED
    BY <1>4, <1>5 DEF BeginReplace, Rebuilding

\* The end of a rebuild leaves no rebuild, and a thread only if the worker is not
\* stopping.
LEMMA Ended ==
    ASSUME RebuildInv, StopInv, step # "none", NEW raised, Replaced(raised),
           hasKey' = hasKey
    PROVE  /\ step' = "none" /\ RebuildInv'
           /\ pool' \notin Stopping /\ pool' # "idle" /\ StopInv'
  <1>1. CASE loop = "replacing"
    BY <1>1 DEF Replaced, RebuildInv, StopInv, LoopAlive, Stopping, Rebuilding
  <1>2. CASE loop # "replacing"
    BY <1>2 DEF Replaced, RebuildInv, StopInv, LoopAlive, Stopping, Rebuilding
  <1> QED
    BY <1>1, <1>2

-----------------------------------------------------------------------------
(* One lemma for each group of actions.                                    *)

\* The replacement of a stream keeps the invariant.
LEMMA ReplaceStepInv == StreamInv /\ ReplaceStep => StreamInv'
  <1> SUFFICES ASSUME StreamInv, ReplaceStep PROVE StreamInv'
    OBVIOUS
  <1> USE DEF StreamInv
  <1>1. CASE StopPrevious
    <2> USE <1>1 DEF StopPrevious
    <2>1. current # 0 /\ current \in DOMAIN sockets
      BY DEF RebuildInv, SocketsInv
    <2>2. CASE sockets[current] = "running" /\ step' = "previous"
      <3>1. SocketsInv' /\ OneStream' /\ Len(sockets') = Len(sockets)
        BY <2>1, <2>2, Marked DEF Statuses, Replaced
      <3> QED
        BY <3>1, <2>2 DEF RebuildInv, StopInv, Replaced, LoopAlive, keyVars, Rebuilding, Stopping
    <2>3. CASE sockets[current] = "ended"
      <3>1. SocketsInv' /\ OneStream'
        BY <2>1, <2>3 DEF SocketsInv, OneStream, Live
      <3> QED
        BY <3>1, <2>3 DEF RebuildInv, StopInv, LoopAlive, keyVars, Rebuilding, Stopping
    <2>4. CASE sockets[current] = "ending" /\ Replaced(TRUE) /\ UNCHANGED <<sockets, current>>
      <3>1. SocketsInv' /\ OneStream'
        BY <2>4 DEF SocketsInv, OneStream, Live
      <3> QED
        BY <3>1, <2>4, Ended DEF keyVars
    <2> QED
      BY <2>2, <2>3, <2>4
  <1>2. CASE CloseKey
    BY <1>2 DEF CloseKey, Closed, SocketsInv, OneStream, Live, RebuildInv, StopInv,
                LoopAlive, Rebuilding, Stopping
  <1>3. CASE CreateKey
    <2> USE <1>3 DEF CreateKey
    <2>1. SocketsInv' /\ OneStream'
      BY DEF SocketsInv, OneStream, Live
    <2>2. CASE step' = "open" /\ UNCHANGED <<loop, pool>>
      BY <2>1, <2>2 DEF RebuildInv, StopInv, LoopAlive, Rebuilding, Stopping
    <2>3. CASE UNCHANGED hasKey /\ Replaced(TRUE)
      BY <2>1, <2>3, Ended
    <2> QED
      BY <2>2, <2>3
  <1>4. CASE Open
    <2> USE <1>4 DEF Open
    <2>1. /\ Len(sockets) \in Nat \ {0} /\ current = 0
          /\ DOMAIN sockets = 1..Len(sockets)
      BY DEF RebuildInv, Rebuilding, SocketsInv
    <2>2. /\ sockets' \in Seq(Statuses) /\ Len(sockets') = Len(sockets)
          /\ \A h \in 1..Len(sockets) :
                sockets'[h] = IF h = Len(sockets) THEN "running" ELSE sockets[h]
      BY <2>1, ExceptSeq DEF SocketsInv, Statuses, generation
    <2>3. SocketsInv' /\ OneStream'
      <3>1. DOMAIN sockets' = 1..Len(sockets)
        BY <2>1, <2>2
      <3>2. current' = Len(sockets)
        BY DEF generation
      <3> QED
        BY <2>1, <2>2, <3>1, <3>2 DEF SocketsInv, OneStream, Live
    <2>4. \E raised \in BOOLEAN : Replaced(raised)
      OBVIOUS
    <2> QED
      BY <2>3, <2>4, Ended DEF keyVars
  <1> QED
    BY <1>1, <1>2, <1>3, <1>4 DEF ReplaceStep

\* So does the keepalive thread.
LEMMA KeepaliveStepInv == StreamInv /\ KeepaliveStep => StreamInv'
  <1> SUFFICES ASSUME StreamInv, KeepaliveStep PROVE StreamInv'
    OBVIOUS
  <1> USE DEF StreamInv
  \* The thread lives, so that no stop has joined it and start has returned.
  <1>1. LoopAlive /\ loop # "replacing" /\ pool \notin Stopping
        /\ pool \notin {"idle", "starting"}
    BY DEF KeepaliveStep, WaitEnds, Clear, Keepalive, LoopAlive, StopInv
  <1>2. step = "none"
    BY <1>1 DEF RebuildInv
  <1>3. pool' = pool /\ current' = current
    BY DEF KeepaliveStep, WaitEnds, Clear, Keepalive
  <1>4. CASE UNCHANGED <<sockets, step>>
    BY <1>1, <1>2, <1>3, <1>4 DEF SocketsInv, OneStream, Live, RebuildInv, StopInv, Stopping,
                                  Rebuilding
  <1>5. CASE loop' = "replacing" /\ BeginReplace
    BY <1>1, <1>3, <1>5, Begun DEF RebuildInv, StopInv, Stopping
  <1> QED
    BY <1>4, <1>5 DEF KeepaliveStep, WaitEnds, Clear, Keepalive

\* So does the pool.
LEMMA PoolStepInv == StreamInv /\ PoolStep => StreamInv'
  <1> SUFFICES ASSUME StreamInv, PoolStep PROVE StreamInv'
    OBVIOUS
  <1> USE DEF StreamInv
  <1>1. CASE StartStream
    BY <1>1, Begun DEF StartStream, RebuildInv, StopInv, Stopping, keyVars
  <1>2. CASE StopStream
    BY <1>2 DEF StopStream, SocketsInv, OneStream, Live, RebuildInv, StopInv, Stopping,
                LoopAlive, keyVars, Rebuilding
  <1>3. CASE Join
    BY <1>3 DEF Join, SocketsInv, OneStream, Live, RebuildInv, StopInv, Stopping,
                LoopAlive, keyVars, Rebuilding
  <1>4. CASE CloseSocket
    <2> USE <1>4 DEF CloseSocket
    <2>1. step = "none"
      BY DEF RebuildInv, StopInv, Stopping, LoopAlive
    <2>2. CASE UNCHANGED sockets /\ current' = 0 /\ pool' = "closing key"
               /\ Held \in {"ended", "ending"}
      <3>1. SocketsInv' /\ OneStream'
        BY <2>2, GivenUp
      <3> QED
        BY <2>1, <2>2, <3>1 DEF RebuildInv, StopInv, Stopping, LoopAlive, keyVars, Rebuilding
    <2>3. CASE /\ Held = "running" /\ UNCHANGED <<current, pool>>
               /\ sockets' = [sockets EXCEPT ![current] = "ending"]
      <3>1. current # 0 /\ current \in DOMAIN sockets
        BY <2>3 DEF Held, SocketsInv
      <3>2. SocketsInv' /\ OneStream' /\ Len(sockets') = Len(sockets)
        BY <2>3, <3>1, Marked DEF Statuses
      <3> QED
        BY <2>1, <2>3, <3>2 DEF RebuildInv, StopInv, Stopping, LoopAlive, keyVars, Rebuilding
    <2> QED
      BY <2>2, <2>3
  <1>5. CASE CloseLastKey
    <2>1. step = "none" /\ pool' \in {"raised", "stopped"}
      BY <1>5 DEF CloseLastKey, RebuildInv, StopInv, Stopping, LoopAlive
    <2>2. ~hasKey'
      BY <1>5 DEF CloseLastKey, Closed
    <2> QED
      BY <1>5, <2>1, <2>2 DEF CloseLastKey, SocketsInv, OneStream, Live, RebuildInv, StopInv, Stopping,
                        LoopAlive, Rebuilding
  <1> QED
    BY <1>1, <1>2, <1>3, <1>4, <1>5 DEF PoolStep

\* The socket's thread, the exchange and the GUI
LEMMA OtherStepInv ==
    StreamInv /\ (StreamStopped \/ GivesUp \/ Expire \/ Shutdown \/ UNCHANGED streamVars)
    => StreamInv'
  <1> SUFFICES ASSUME StreamInv,
                      StreamStopped \/ GivesUp \/ Expire \/ Shutdown \/ UNCHANGED streamVars
               PROVE  StreamInv'
    OBVIOUS
  <1> USE DEF StreamInv
  <1>1. CASE \E g \in DOMAIN sockets, status \in {"ending", "ended"} :
                 sockets' = [sockets EXCEPT ![g] = status]
                 /\ UNCHANGED <<current, hasKey, loop, step, pool>>
    <2>1. PICK g \in DOMAIN sockets, status \in {"ending", "ended"} :
                 sockets' = [sockets EXCEPT ![g] = status]
                 /\ UNCHANGED <<current, hasKey, loop, step, pool>>
      BY <1>1
    <2>2. SocketsInv' /\ OneStream' /\ Len(sockets') = Len(sockets)
      BY <2>1, Marked DEF Statuses, SocketsInv, OneStream, Live
    <2> QED
      BY <2>1, <2>2 DEF RebuildInv, StopInv, LoopAlive, Rebuilding, Stopping
  <1>2. CASE UNCHANGED <<sockets, current, hasKey, loop, step, pool>>
    BY <1>2 DEF SocketsInv, OneStream, Live, RebuildInv, StopInv, LoopAlive, Rebuilding,
                Stopping
  <1> QED
    BY <1>1, <1>2 DEF StreamStopped, GivesUp, Expire, Shutdown, streamVars, keyVars

-----------------------------------------------------------------------------
(* The theorems.                                                           *)

\* What every reachable state of the listen-key stream satisfies: generations,
\* who may rebuild, and what stop has done (BinanceFuturesPrivateStream).
THEOREM StreamInvariance == StreamSpec => []StreamInv
  <1>1. StreamInit => StreamInv
    <2> SUFFICES ASSUME StreamInit PROVE StreamInv
      OBVIOUS
    <2>1. << >> \in Seq(Statuses) /\ Len(<< >>) = 0 /\ DOMAIN sockets = {}
      BY DEF StreamInit
    <2> QED
      BY <2>1 DEF StreamInit, StreamInv, SocketsInv, OneStream, RebuildInv, StopInv,
                  Rebuilding, Stopping, LoopAlive
  <1>2. StreamInv /\ [StreamNext]_streamVars => StreamInv'
    BY ReplaceStepInv, KeepaliveStepInv, PoolStepInv, OtherStepInv DEF StreamNext
  <1> QED
    BY <1>1, <1>2, PTL DEF StreamSpec

\* Never two streams: a socket that runs is the one the stream holds and would
\* stop (_replace_stream), for any number of failures.
THEOREM NeverTwoStreams == StreamSpec => []OneStream
  <1>1. StreamInv => OneStream
    BY DEF StreamInv
  <1> QED
    BY <1>1, StreamInvariance, PTL

\* A stop that returns leaves no thread, no socket that runs and no key
\* (BinanceFuturesPrivateStream.stop).
THEOREM StopLeavesNothing == StreamSpec => []StoppedIsClean
  <1>1. StreamInv => StoppedIsClean
    BY DEF StreamInv, StoppedIsClean, StopInv, Stopping, OneStream, SocketsInv
  <1> QED
    BY <1>1, StreamInvariance, PTL
=============================================================================
