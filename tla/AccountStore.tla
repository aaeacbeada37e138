----------------------------- MODULE AccountStore -----------------------------
(***************************************************************************)
(* The account of one exchange as LiveDataWorker holds it: an              *)
(* AccountStateStore that is fed by REST snapshots, read on the pool       *)
(* thread, and by the private stream.  A value is modelled by the number   *)
(* of the change that made it, so "older" is a comparison of numbers.      *)
(* One behaviour is about one scope: Binance spot, Binance futures, or the *)
(* unified account of Bitget; one symbol, and a few assets.                *)
(***************************************************************************)
EXTENDS Integers, Sequences, FiniteSets, FiniteSetsExt, Functions

CONSTANTS
    Assets,         \* the assets the account lists
    Scopes,         \* a subset of {"spot", "futures", "bitget"}
    MaxChanges,     \* bound: changes of the account at the exchange
    MaxRefreshes,   \* bound: REST refreshes
    MaxLosses       \* bound: lost connections of the private stream

ASSUME AccountAssumption ==
    /\ Scopes \subseteq {"spot", "futures", "bitget"}
    /\ MaxChanges \in Nat /\ MaxRefreshes \in Nat /\ MaxLosses \in Nat
    /\ Assets \cap {"long", "short"} = {}

VARIABLES
    scope, mode,    \* what the behaviour is about, and the position mode
    account,        \* [Items -> Entries]: the account at the exchange
    ticks,          \* the millisecond of each change
    inbox,          \* the private messages on their way, in order
    connected,      \* the private stream is connected
    losses, refreshes, \* counted for the bounds
    refresh,        \* the REST refresh on the pool thread
    entries,        \* the store: _balances and _positions
    cursors,        \* _balance_cursors and _position_cursors of the scope
    lost,           \* <<item, change>> that no message will deliver
    torn            \* changes between the two requests of one refresh

accountVars == <<scope, mode, account, ticks, inbox, connected, losses, refreshes,
                 refresh, entries, cursors, lost, torn>>

Sides == {"long", "short"}
Items == IF scope = "spot" THEN Assets ELSE Assets \cup Sides
Components == {"balances", "positions"}
ItemsOf(c) == Items \cap (IF c = "balances" THEN Assets ELSE Sides)

\* "held" is FALSE of a position that does not exist.
Entries == [held : BOOLEAN, at : 0..MaxChanges]
NoCursor == -1
Now == IF ticks = << >> THEN 0 ELSE ticks[Len(ticks)]

\* A snapshot replaces whole components, an update names items of some.
Message(snapshot, components, sequence, rows) ==
    [snapshot |-> snapshot, components |-> components,
     sequence |-> sequence, rows |-> rows]

-----------------------------------------------------------------------------
(* The exchange.                                                           *)

\* Mutant: a flat symbol has no rows.
PositionRowsOfHeld(changed, now) ==
    IF mode = "hedge" \/ changed = {} THEN changed ELSE {s \in Sides : now[s].held}

\* A position of quantity zero is, in one-way mode, of no side.
Flat(now) == \A s \in Sides : ~now[s].held

\* The rows of the stream for the sides that changed: in one-way mode a side
\* that is gone is named only when the symbol is flat, and then both are.
PositionRows(changed, now) ==
    IF mode = "hedge" \/ changed = {} THEN changed
    ELSE IF Flat(now) THEN Sides
    ELSE {s \in Sides : now[s].held}

\* A reversal closes a side no message of one-way mode names.
Unnamed(changed, now) ==
    IF mode = "one_way" /\ \E s \in changed : now[s].held
    THEN {s \in changed : ~now[s].held} ELSE {}

\* One message with both components (Binance), or one for each topic (Bitget).
StreamMessages(assets, sides, now) ==
    LET rows == PositionRows(sides, now)
        Of(items) == IF items = {} THEN << >>
                     ELSE <<Message(FALSE, {c \in Components : items \cap ItemsOf(c) # {}},
                                    Now', Restrict(now, items))>>
    IN IF scope = "bitget" THEN Of(assets) \o Of(rows) ELSE Of(assets \cup rows)

\* What a change may do to the position: a side is opened, changed or closed;
\* in one-way mode the other side is closed by it.
Turns(side, held) ==
    IF scope = "spot" THEN {}
    ELSE LET other == IF side = "long" THEN "short" ELSE "long"
             closed == IF mode = "one_way" /\ account[other].held THEN {other} ELSE {}
         IN IF account[side].held \/ held THEN {side} \cup closed ELSE {}

AccountChanges == \E assets \in {{}} \cup {{a} : a \in Assets}, side \in Sides, held, moves \in BOOLEAN :
    LET sides == IF moves THEN Turns(side, held) ELSE {}
        number == Len(ticks) + 1
        now == [i \in Items |-> IF i \in assets THEN [held |-> TRUE, at |-> number]
                                ELSE IF i \in sides
                                THEN [held |-> held /\ i = side, at |-> number]
                                ELSE account[i]]
    IN /\ number <= MaxChanges
       /\ assets \cup sides # {}
       /\ moves = (sides # {})
       /\ account' = now
       /\ \E tick \in {Now, Now + 1} \ {0} : ticks' = Append(ticks, tick)
       /\ IF connected
          THEN /\ inbox' = inbox \o StreamMessages(assets, sides, now)
               /\ lost' = lost \cup {<<i, number>> : i \in Unnamed(sides, now)}
          ELSE /\ lost' = lost \cup {<<i, number>> : i \in assets \cup sides}
               /\ UNCHANGED inbox
       /\ torn' = IF scope = "futures" /\ refresh.phase = "balances"
                  THEN torn \cup {number} ELSE torn
       /\ UNCHANGED <<scope, mode, connected, losses, refreshes, refresh, entries, cursors>>

-----------------------------------------------------------------------------
(* AccountStateStore.                                                      *)

\* Mutant: an older message is applied.
DecisionUnordered(m) ==
    IF ~m.snapshot /\ \E c \in m.components : cursors[c] = NoCursor
    THEN "snapshot_required" ELSE "applied"

\* _decision, for a store without max_update_age
Decision(m) ==
    LET known == {cursors[c] : c \in m.components} \ {NoCursor}
    IN IF ~m.snapshot /\ \E c \in m.components : cursors[c] = NoCursor
       THEN "snapshot_required"
       ELSE IF known # {} /\ \A n \in known : m.sequence = n THEN "duplicate"
       ELSE IF \E n \in known : m.sequence < n THEN "out_of_order"
       ELSE "applied"

\* The messages that are applied under one lock name different components, so
\* no item and no component is in two of them.  A snapshot lists the absent
\* positions of its scope as not held: what it replaces is removed first.
Replaced(good) ==
    LET Naming(i) == {m \in good : i \in DOMAIN m.rows}
    IN [i \in Items |-> IF Naming(i) = {} THEN entries[i]
                        ELSE (CHOOSE m \in Naming(i) : TRUE).rows[i]]

Advanced(good) ==
    LET Of(c) == {m \in good : c \in m.components}
    IN [c \in Components |-> IF Of(c) = {} THEN cursors[c]
                             ELSE (CHOOSE m \in Of(c) : TRUE).sequence]

ApplyMessages(messages) ==
    LET good == {m \in Range(messages) : Decision(m) = "applied"}
    IN entries' = Replaced(good) /\ cursors' = Advanced(good)

-----------------------------------------------------------------------------
(* The private stream, and LiveDataWorker.handle_private_message.          *)

ConnectPrivate == /\ ~connected /\ losses <= MaxLosses
                  /\ cursors["balances"] # NoCursor        \* _initialize loads first
                  /\ connected' = TRUE
                  /\ inbox' = IF scope = "bitget"
                               THEN <<Message(TRUE, {"balances"}, Now, Restrict(account, Assets)),
                                      Message(TRUE, {"positions"}, Now, Restrict(account, Sides))>>
                               ELSE << >>
                  /\ UNCHANGED <<scope, mode, account, ticks, losses, refreshes, refresh, entries,
                                 cursors, lost, torn>>

DisconnectPrivate == /\ connected
                     /\ connected' = FALSE
                     /\ losses' = losses + 1
                     /\ lost' = lost \cup UNION {{<<i, inbox[n].rows[i].at>> :
                                    i \in DOMAIN inbox[n].rows} : n \in DOMAIN inbox}
                     /\ inbox' = << >>
                     /\ UNCHANGED <<scope, mode, account, ticks, refreshes, refresh, entries, cursors, torn>>

HandlePrivate == /\ inbox # << >>
                 /\ ApplyMessages(<<Head(inbox)>>)
                 /\ inbox' = Tail(inbox)
                 /\ UNCHANGED <<scope, mode, account, ticks, connected, losses, refreshes,
                                refresh, lost, torn>>

-----------------------------------------------------------------------------
(* LiveDataWorker._load_accounts, on the pool thread.                      *)

Idle == [phase |-> "idle", messages |-> << >>]

\* The sequence of a snapshot of Binance is its latest update time.
LatestOf(rows) == Max({0} \cup {ticks[n] : n \in {rows[i].at : i \in DOMAIN rows} \ {0}})

LoadSpot == /\ scope = "spot" /\ refresh = Idle /\ refreshes < MaxRefreshes
            /\ refresh' = [phase |-> "read",
                        messages |-> <<Message(TRUE, Components, LatestOf(account), account)>>]
            /\ refreshes' = refreshes + 1
            /\ UNCHANGED <<scope, mode, account, ticks, inbox, connected, losses,
                           entries, cursors, lost, torn>>

\* get_account of the futures client, and of Bitget
LoadBalances == /\ scope # "spot" /\ refresh = Idle /\ refreshes < MaxRefreshes
                /\ refresh' = [phase |-> "balances",
                            messages |-> <<Message(TRUE, {"balances"}, Now,
                                                   Restrict(account, Assets))>>]
                /\ refreshes' = refreshes + 1
                /\ UNCHANGED <<scope, mode, account, ticks, inbox, connected, losses,
                               entries, cursors, lost, torn>>

\* get_positions: Bitget's answer is a snapshot of its own, Binance's two are one.
LoadPositions ==
    /\ refresh.phase = "balances"
    /\ LET both == [i \in Items |-> IF i \in Assets THEN refresh.messages[1].rows[i] ELSE account[i]]
       IN refresh' = [phase |-> "read",
                   messages |-> IF scope = "bitget"
                                THEN Append(refresh.messages,
                                            Message(TRUE, {"positions"}, Now,
                                                    Restrict(account, Sides)))
                                ELSE <<Message(TRUE, Components, LatestOf(both), both)>>]
    /\ UNCHANGED <<scope, mode, account, ticks, inbox, connected, losses, refreshes,
                   entries, cursors, lost, torn>>

\* Bitget's two are applied under one lock.
LoadApply == /\ refresh.phase = "read"
             /\ ApplyMessages(refresh.messages)
             /\ refresh' = Idle
             /\ UNCHANGED <<scope, mode, account, ticks, inbox, connected, losses, refreshes,
                            lost, torn>>

LoadFails == /\ refresh.phase # "idle"
             /\ refresh' = Idle
             /\ UNCHANGED <<scope, mode, account, ticks, inbox, connected, losses, refreshes,
                            entries, cursors, lost, torn>>

-----------------------------------------------------------------------------
AccountInit ==
    /\ scope \in Scopes /\ mode \in {"one_way", "hedge"}
    /\ scope = "spot" => mode = "one_way"
    /\ account = [i \in Items |-> [held |-> i \in Assets, at |-> 0]]
    /\ ticks = << >> /\ inbox = << >> /\ connected = FALSE
    /\ losses = 0 /\ refreshes = 0 /\ refresh = Idle
    /\ entries = [i \in Items |-> [held |-> FALSE, at |-> 0]]
    /\ cursors = [c \in Components |-> NoCursor]
    /\ lost = {} /\ torn = {}

AccountNext == \/ AccountChanges \/ ConnectPrivate \/ DisconnectPrivate \/ HandlePrivate
               \/ LoadSpot \/ LoadBalances \/ LoadPositions \/ LoadApply \/ LoadFails

AccountSpec == AccountInit /\ [][AccountNext]_accountVars

-----------------------------------------------------------------------------
(* Properties.                                                             *)

\* Types; a cursor never runs ahead of the exchange's clock, and a position
\* the store holds in spot scope does not exist.
AccountTypeOK ==
    /\ account \in [Items -> Entries] /\ entries \in [Items -> Entries]
    /\ cursors \in [Components -> NoCursor..Now]
    /\ connected \in BOOLEAN /\ refresh.phase \in {"idle", "balances", "read"}
    /\ \A n \in DOMAIN inbox : DOMAIN inbox[n].rows \subseteq Items

\* A change that came in the millisecond of the one before it: its message has
\* the cursor's own sequence and is taken for a duplicate.
SameTick(n) == n > 1 /\ ticks[n] = ticks[n - 1]

OnItsWay(i) == \E n \in DOMAIN inbox :
    i \in DOMAIN inbox[n].rows /\ inbox[n].rows[i].at = account[i].at

\* Snapshots and stream messages meet in any order, across refreshes and lost
\* connections.  A change of the exchange is in the store, or on its way, or
\* was lost in one of four ways: with the connection or as the closed side of
\* a one-way reversal (lost), by a refresh of Binance futures whose two
\* requests it fell between, or by sharing a millisecond with the change before
\* it (AccountStateStore.apply).
NothingElseIsLost ==
    cursors["balances"] # NoCursor => \A i \in Items :
        \/ entries[i] = account[i]
        \/ OnItsWay(i)
        \/ <<i, account[i].at>> \in lost
        \/ account[i].at \in torn
        \/ account[i].at > 0 /\ SameTick(account[i].at)

\* A value in the store is never replaced by an older one, whatever the order
\* of snapshots and updates, with two exceptions: a balance that changed
\* between the two requests of one refresh of Binance futures, and a change in
\* the millisecond of the one before it, which a snapshot of both components
\* replaces unless both cursors are its own (_decision).
NothingGoesBack ==
    [][\A i \in Items : \/ entries'[i].at >= entries[i].at
                        \/ entries[i].at \in torn
                        \/ entries[i].at > 0 /\ SameTick(entries[i].at)]_accountVars
=============================================================================
