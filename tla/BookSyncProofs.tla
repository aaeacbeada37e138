---------------------------- MODULE BookSyncProofs ----------------------------
(***************************************************************************)
(* Proofs about BookSync: a book that is quoted from is the exchange's,    *)
(* one load is on its way while the flag says so, and what is subscribed   *)
(* is what is wanted, for any book, any changes of it and any number of    *)
(* losses, toggles and requests.                                           *)
(***************************************************************************)
EXTENDS BookSync, FiniteSetTheorems, SequenceTheorems, WellFoundedInduction, TLAPS

Stages == {"none", "asking", "answered", "dropping"}
Syncs == {"idle", "unsubscribe", "mark", "subscribe"}
Requested == {"none", "asked", "marked", "unsubscribed"}

\* The messages the exchange may send of its changes
Updates == {Update(venue, from, to) : from \in 0..MaxChange, to \in 0..MaxChange}
Snapshots == IF IsBitget THEN {Snapshot(n) : n \in 0..MaxChange} ELSE {}
Messages == Updates \cup Snapshots

Shaped(b) == b \in [valid : BOOLEAN, sequence : None..MaxChange, after : BOOLEAN,
                    levels : [Prices -> 0..MaxChange]]

\* A book that is the exchange's, if it is valid
TrueBook(b) == /\ Shaped(b)
               /\ b.valid => b.sequence \in 0..MaxChange /\ b.levels = Truth(b.sequence)

\* What the worker receives, holds and applies is what the exchange has sent, and
\* the buffer has each sequence once.
FeedInv ==
    /\ venue \in Venues
    /\ head \in 0..MaxChange /\ sent \in 0..MaxChange
    /\ stream \in Seq(Messages)
    /\ message \in Messages \cup {NoMessage}
    /\ buffer \subseteq Updates
    /\ load \in [stage : Stages, sequence : 0..MaxChange]
    /\ TrueBook(book)

\* What a thread still has to do, one thing at a time
ThreadInv ==
    /\ sync \in [Callers -> Syncs] /\ request \in [Callers -> Requested]
    /\ sync["socket"] = "idle"
    /\ message # NoMessage => request["socket"] = "none"
    /\ load.stage # "none" => sync["pool"] = "idle" /\ request["pool"] = "none"
    /\ \A c \in Callers : sync[c] # "idle" => request[c] = "none"
    /\ ~IsBitget => \A c \in Callers : sync[c] # "mark" /\ request[c] # "unsubscribed"

\* Who changes the subscription alone knows whether somebody wants it; nobody
\* changing it, it is as wanted.
SubscriptionInv ==
    ~contended =>
        /\ \A c, d \in Changing : c = d
        /\ \A c \in Changing : active <=> sync[c] # "unsubscribe"
        /\ Changing = {} => (active <=> subscribed)

LoadInv == loads \in Nat /\ PendingIsOneLoad

\* The buffer of updates keeps its capacity, and Bitget's books are never loaded.
BufferInv == /\ IsFiniteSet(buffer) /\ Cardinality(buffer) <= MaxBuffered
             /\ IsBitget => loads = 0

SyncInv == FeedInv /\ ThreadInv /\ SubscriptionInv /\ LoadInv /\ BufferInv

-----------------------------------------------------------------------------
(* Numbers and the books of the exchange *)

\* A set of naturals has a least element.
LEMMA LeastExists ==
    ASSUME NEW S \in SUBSET Nat, S # {}
    PROVE  \E m \in S : \A k \in S : m <= k
  <1> DEFINE R == OpToRel(<, Nat)
  <1>1. IsWellFoundedOn(R, Nat)
    BY NatLessThanWellFounded
  <1> HIDE DEF R
  <1>2. PICK x \in S : \A y \in S : ~ (<<y, x>> \in R)
    BY <1>1, WFMin
  <1>3. \A m, k \in Nat : k < m => <<k, m>> \in R
    BY DEF R, OpToRel
  <1>4. \A k \in S : x <= k
    <2> TAKE k \in S
    <2>1. k \in Nat /\ x \in Nat
      OBVIOUS
    <2>2. ~ (k < x)
      BY <1>2, <1>3, <2>1
    <2> QED
      BY <2>1, <2>2
  <1> QED
    BY <1>4

\* A set of the numbers up to n has a greatest element.
LEMMA GreatestExists ==
    ASSUME NEW n \in Nat, NEW S \in SUBSET (1..n), S # {}
    PROVE  Max(S) \in S
  <1> DEFINE D == {d \in Nat : n - d \in S}
  <1>1. PICK s \in S : TRUE
    OBVIOUS
  <1>2. n - s \in Nat /\ n - (n - s) = s
    BY <1>1
  <1>3. n - s \in D
    BY <1>1, <1>2
  <1>4. PICK d \in D : \A e \in D : d <= e
    BY <1>3, LeastExists
  <1>5. n - d \in S /\ d \in Nat
    BY <1>4
  <1>6. \A k \in S : n - d >= k
    <2> TAKE k \in S
    <2>1. k \in 1..n
      OBVIOUS
    <2>2. n - k \in Nat /\ n - (n - k) = k
      BY <2>1
    <2>3. n - k \in D
      BY <2>2
    <2>4. d <= n - k
      BY <1>4, <2>3
    <2> QED
      BY <1>5, <2>1, <2>2, <2>4
  <1> QED
    BY <1>5, <1>6 DEF Max

\* The exchange's book has quantities of its changes.
LEMMA TruthType ==
    ASSUME NEW n \in 0..MaxChange
    PROVE  Truth(n) \in [Prices -> 0..MaxChange]
  <1> SUFFICES ASSUME NEW p \in Prices PROVE Truth(n)[p] \in 0..MaxChange
    BY DEF Truth
  <1> DEFINE set == {i \in 1..n : Touched[i] = p}
  <1>1. Truth(n)[p] = IF set = {} \/ Max(set) \in Removals THEN 0 ELSE Max(set)
    BY DEF Truth
  <1>2. n \in Nat /\ MaxChange \in Nat /\ n <= MaxChange
    BY BookAssumption
  <1>3. set # {} => Max(set) \in 1..n
    BY <1>2, GreatestExists
  <1> HIDE DEF set
  <1> QED
    BY <1>1, <1>2, <1>3

\* A price that no change touches in between has the same quantity before and
\* after.
LEMMA Untouched ==
    ASSUME NEW m \in 0..MaxChange, NEW n \in 0..MaxChange, m <= n,
           NEW p \in Prices, \A i \in m + 1..n : Touched[i] # p
    PROVE  Truth(n)[p] = Truth(m)[p]
  <1>1. {i \in 1..n : Touched[i] = p} = {i \in 1..m : Touched[i] = p}
    BY BookAssumption
  <1> QED
    BY <1>1 DEF Truth

-----------------------------------------------------------------------------
(* OrderBook.apply and the replay *)

\* An update that is applied leaves the exchange's book of its sequence, whatever
\* it was applied after.
LEMMA ApplyKeepsTruth ==
    ASSUME NEW b, TrueBook(b), venue \in Venues, NEW u \in Updates
    PROVE  TrueBook(Apply(b, u))
  <1>0. PICK from \in 0..MaxChange, to \in 0..MaxChange : u = Update(venue, from, to)
    BY DEF Updates
  <1>1. CASE ResultOf(b, u) = "applied"
    <2>1. /\ u.from = from /\ u.sequence = to
          /\ u.first = IF venue = "bitget" THEN from ELSE from + 1
          /\ u.previous = IF venue = "spot" THEN None ELSE from
      BY <1>0 DEF Update
    <2>2. b.valid
      BY <1>1 DEF ResultOf
    <2>3. b.sequence \in 0..MaxChange /\ b.levels = Truth(b.sequence)
      BY <2>2 DEF TrueBook
    <2>4. ~IsReset(b, u)
      BY <1>1, <2>2 DEF ResultOf
    <2>5. to # b.sequence /\ ~(to < b.sequence) /\ (to > b.sequence => IsContinuous(b, u))
      BY <1>1, <2>1, <2>2, <2>3, <2>4, BookAssumption DEF ResultOf
    <2>6. IsContinuous(b, u) /\ b.sequence < to
      BY <2>3, <2>5, BookAssumption
    <2>7. from <= b.sequence
      BY <2>1, <2>3, <2>6, BookAssumption DEF IsContinuous, None
    <2> DEFINE levels == [p \in Prices |->
                            IF \E i \in from + 1..to : Touched[i] = p
                            THEN Truth(to)[p] ELSE b.levels[p]]
    <2>8. levels = Truth(to)
      <3>1. \A p \in Prices : levels[p] = Truth(to)[p]
        <4> TAKE p \in Prices
        <4>1. CASE \E i \in from + 1..to : Touched[i] = p
          BY <4>1
        <4>2. CASE \A i \in from + 1..to : Touched[i] # p
          <5>1. \A i \in b.sequence + 1..to : Touched[i] # p
            BY <2>3, <2>7, <4>2, BookAssumption
          <5>2. Truth(to)[p] = Truth(b.sequence)[p]
            BY <2>3, <2>6, <5>1, Untouched
          <5> QED
            BY <2>3, <4>2, <5>2
        <4> QED
          BY <4>1, <4>2
      <3> QED
        BY <3>1 DEF Truth
    <2>9. Apply(b, u) = [b EXCEPT !.sequence = to, !.after = FALSE, !.levels = levels]
      BY <1>1, <2>1 DEF Apply
    <2>10. Truth(to) \in [Prices -> 0..MaxChange]
      BY TruthType
    <2> HIDE DEF levels
    <2>11. Shaped(Apply(b, u))
      <3>1. to \in None..MaxChange
        BY BookAssumption DEF None
      <3> QED
        BY <2>8, <2>9, <2>10, <3>1 DEF TrueBook, Shaped
    <2>12. Apply(b, u).sequence = to /\ Apply(b, u).levels = Truth(to)
      BY <2>8, <2>9 DEF TrueBook, Shaped
    <2> QED
      BY <2>11, <2>12 DEF TrueBook
  <1>2. CASE ResultOf(b, u) = "gap_detected"
    BY <1>2 DEF Apply, TrueBook, Shaped
  <1>3. CASE ResultOf(b, u) \notin {"applied", "gap_detected"}
    BY <1>3 DEF Apply
  <1> QED
    BY <1>1, <1>2, <1>3

\* The book a snapshot leaves is the exchange's.
LEMMA SnapshotIsTrue ==
    ASSUME NEW n \in 0..MaxChange
    PROVE  TrueBook(SnapshotBook(n)) /\ SnapshotBook(n).valid
  BY TruthType DEF SnapshotBook, TrueBook, Shaped, None

\* One step of a replay keeps the book the exchange's.
LEMMA ReplayOneKeepsTruth ==
    ASSUME NEW b, TrueBook(b), venue \in Venues, NEW due \in SUBSET Updates
    PROVE  TrueBook(ReplayOne(b, due))
  <1>1. due # {} => (CHOOSE u \in due : TRUE) \in Updates
    OBVIOUS
  <1> QED
    BY <1>1, ApplyKeepsTruth DEF ReplayOne

\* A function that replays the updates of buf with sequences up to k
Replayed(f, n, k, buf) ==
    f = [j \in n..k |-> IF j = n THEN SnapshotBook(n)
                        ELSE ReplayOne(f[j - 1], {u \in buf : u.sequence = j})]

\* There is such a function, up to any sequence.
LEMMA ReplayedExists ==
    ASSUME NEW n \in 0..MaxChange, NEW buf
    PROVE  \E f : Replayed(f, n, MaxChange, buf)
  <1> DEFINE Missing == {k \in n..MaxChange : ~ \E f : Replayed(f, n, k, buf)}
  <1> USE BookAssumption
  <1>1. Missing = {}
    <2> SUFFICES ASSUME Missing # {} PROVE FALSE
      OBVIOUS
    <2>1. Missing \in SUBSET Nat
      OBVIOUS
    <2>2. PICK k \in Missing : \A j \in Missing : k <= j
      BY <2>1, LeastExists
    <2>3. k \in n..MaxChange /\ ~ \E f : Replayed(f, n, k, buf)
      BY <2>2
    <2>4. CASE k = n
      <3>1. Replayed([j \in n..n |-> SnapshotBook(n)], n, n, buf)
        BY DEF Replayed
      <3> QED
        BY <2>3, <2>4, <3>1
    <2>5. CASE k > n
      <3>1. k - 1 \in n..MaxChange /\ k - 1 \notin Missing
        BY <2>1, <2>2, <2>3, <2>5
      <3>2. PICK f : Replayed(f, n, k - 1, buf)
        BY <3>1
      <3> DEFINE g == [j \in n..k |->
                          IF j = k THEN ReplayOne(f[k - 1], {u \in buf : u.sequence = k})
                          ELSE f[j]]
      <3>3. Replayed(g, n, k, buf)
        <4>1. \A j \in n..k : g[j] = IF j = n THEN SnapshotBook(n)
                     ELSE ReplayOne(g[j - 1], {u \in buf : u.sequence = j})
          <5> TAKE j \in n..k
          <5>1. CASE j = k
            BY <2>3, <2>5, <5>1
          <5>2. CASE j # k
            <6>1. j \in n..k - 1 /\ g[j] = f[j] /\ (j # n => g[j - 1] = f[j - 1])
              BY <2>3, <5>2
            <6>2. f[j] = IF j = n THEN SnapshotBook(n)
                         ELSE ReplayOne(f[j - 1], {u \in buf : u.sequence = j})
              BY <3>2, <6>1 DEF Replayed
            <6> QED
              BY <6>1, <6>2
          <5> QED
            BY <5>1, <5>2
        <4>2. g = [j \in n..k |-> g[j]]
          OBVIOUS
        <4> HIDE DEF g
        <4> QED
          BY <4>1, <4>2 DEF Replayed
      <3> QED
        BY <2>3, <3>3
    <2> QED
      BY <2>3, <2>4, <2>5
  <1> QED
    BY <1>1

\* The replay of a snapshot and any updates of the exchange leaves the book of
\* the exchange, or one that requires a snapshot.
LEMMA ReplayIsTrue ==
    ASSUME NEW n \in 0..MaxChange, NEW buf \in SUBSET Updates, venue \in Venues
    PROVE  TrueBook(Replay(n, buf))
  <1> USE BookAssumption
  <1> DEFINE after == CHOOSE f : Replayed(f, n, MaxChange, buf)
  <1>1. Replayed(after, n, MaxChange, buf)
    BY ReplayedExists
  <1>2. Replay(n, buf) = after[MaxChange]
    BY DEF Replay, Replayed
  <1> HIDE DEF after
  <1> DEFINE False == {k \in n..MaxChange : ~TrueBook(after[k])}
  <1>3. False = {}
    <2> SUFFICES ASSUME False # {} PROVE FALSE
      OBVIOUS
    <2>1. False \in SUBSET Nat
      OBVIOUS
    <2>2. PICK k \in False : \A j \in False : k <= j
      BY <2>1, LeastExists
    <2>3. k \in n..MaxChange /\ ~TrueBook(after[k])
      BY <2>2
    <2>4. k # n
      BY <1>1, <2>3, SnapshotIsTrue DEF Replayed
    <2>5. k - 1 \in n..MaxChange /\ k - 1 \notin False
      BY <2>1, <2>2, <2>3, <2>4
    <2>6. TrueBook(after[k - 1])
      BY <2>5
    <2>7. after[k] = ReplayOne(after[k - 1], {u \in buf : u.sequence = k})
      BY <1>1, <2>3, <2>4 DEF Replayed
    <2>8. {u \in buf : u.sequence = k} \in SUBSET Updates
      OBVIOUS
    <2>9. TrueBook(after[k])
      BY <2>6, <2>7, <2>8, ReplayOneKeepsTruth
    <2> QED
      BY <2>3, <2>9
  <1>4. MaxChange \in n..MaxChange
    OBVIOUS
  <1> QED
    BY <1>2, <1>3, <1>4

-----------------------------------------------------------------------------
(* What is received, held and applied *)

\* The greeting of a subscription is a snapshot of the exchange, if anything.
LEMMA GreetingIsMessage ==
    ASSUME FeedInv
    PROVE  Greeting \in Seq(Messages)
  <1>1. CASE IsBitget
    <2>1. Snapshot(sent) \in Messages
      BY <1>1 DEF FeedInv, Messages, Snapshots
    <2> QED
      BY <1>1, <2>1 DEF Greeting
  <1>2. CASE ~IsBitget
    BY <1>2, EmptySeq DEF Greeting
  <1> QED
    BY <1>1, <1>2

\* A subscription, or its end, leaves the messages on their way messages.
LEMMA SubscriptionKeepsFeed ==
    ASSUME FeedInv, SubscribeStep \/ UnsubscribeStep
    PROVE  stream' \in Seq(Messages) /\ UNCHANGED <<head, sent, up, drops>>
  <1>1. Greeting \in Seq(Messages)
    BY GreetingIsMessage
  <1>2. stream \in Seq(Messages)
    BY DEF FeedInv
  <1>3. stream \o Greeting \in Seq(Messages)
    BY <1>1, <1>2, ConcatProperties
  <1> QED
    BY <1>2, <1>3 DEF SubscribeStep, UnsubscribeStep, exchangeSide

\* No step changes the venue, or what the exchange may send of its changes.
LEMMA VenueStays ==
    ASSUME [SyncNext]_syncVars
    PROVE  venue' = venue /\ Messages' = Messages /\ Updates' = Updates
  <1>1. venue' = venue
    BY DEF SyncNext, syncVars, Change, Emit, Disconnect, Connect, RequestStep, RequestMark,
           RequestLoad, RequestUnsubscribe, RequestSubscribe, Sync, Toggle,
           SyncUnsubscribe, SyncMark, SyncSubscribe, Handle, Receive, HandleSnapshot,
           HandleWaiting, HandleUpdate, Load, LoadStart, LoadAnswered, LoadApplied,
           LoadUseless, LoadDropped
  <1> QED
    BY <1>1 DEF Messages, Updates, Snapshots, IsBitget

\* A message that is not a snapshot is an update, and one that is has a sequence.
LEMMA MessageKinds ==
    ASSUME FeedInv, message # NoMessage
    PROVE  /\ ~message.snapshot => message \in Updates
           /\ message.snapshot => IsBitget /\ message.sequence \in 0..MaxChange
  <1>1. CASE message \in Updates
    BY <1>1 DEF Updates, Update
  <1>2. CASE message \in Snapshots
    BY <1>2 DEF Snapshots, Snapshot
  <1> QED
    BY <1>1, <1>2 DEF FeedInv, Messages

\* What is buffered, and what a replay leaves, are updates.
LEMMA BufferIsUpdates ==
    ASSUME FeedInv
    PROVE  /\ \A u \in Updates : Buffered(u) \subseteq Updates
           /\ \A n : Unreplayed(n, buffer) \subseteq buffer
  BY DEF FeedInv, Buffered, Unreplayed

\* Every step keeps what is received, held and applied the exchange's.
LEMMA FeedStep ==
    ASSUME FeedInv, [SyncNext]_syncVars
    PROVE  FeedInv'
  <1> USE BookAssumption
  <1>0. venue' = venue /\ Messages' = Messages /\ Updates' = Updates
    BY VenueStays
  <1>a. /\ venue \in Venues /\ head \in 0..MaxChange /\ sent \in 0..MaxChange
        /\ stream \in Seq(Messages) /\ message \in Messages \cup {NoMessage}
        /\ buffer \subseteq Updates /\ load \in [stage : Stages, sequence : 0..MaxChange]
        /\ TrueBook(book)
    BY DEF FeedInv
  <1>b. << >> \in Seq(Messages)
    BY EmptySeq
  <1>c. TrueBook(book)' <=> TrueBook(book')
    BY DEF TrueBook, Shaped, Truth
  <1>1. CASE Change
    BY <1>0, <1>a, <1>1, <1>c DEF Change, FeedInv, local, threads
  <1>2. CASE Emit
    <2>1. Update(venue, sent, head) \in Messages
      BY <1>a DEF Messages, Updates
    <2>2. stream' \in Seq(Messages)
      BY <1>a, <1>2, <2>1, AppendProperties DEF Emit, Deliver
    <2> QED
      BY <1>0, <1>a, <1>2, <2>2, <1>c DEF Emit, FeedInv, local, threads
  <1>3. CASE Disconnect
    BY <1>0, <1>a, <1>b, <1>3, <1>c DEF Disconnect, FeedInv, local, threads
  <1>4. CASE Connect
    <2>1. stream' \in Seq(Messages)
      BY <1>b, <1>4, GreetingIsMessage DEF Connect
    <2> QED
      BY <1>0, <1>a, <1>4, <2>1, <1>c DEF Connect, FeedInv, local, threads
  <1>5. CASE \E c \in Callers : RequestStep(c)
    <2>1. /\ stream' \in Seq(Messages)
          /\ UNCHANGED <<head, sent, message, buffer, load, book>>
      BY <1>a, <1>5, SubscriptionKeepsFeed
         DEF RequestStep, RequestMark, RequestLoad, RequestUnsubscribe, RequestSubscribe,
             exchangeSide, local
    <2> QED
      BY <1>0, <1>a, <2>1, <1>c DEF FeedInv
  <1>6. CASE \E c \in {"gui", "pool"} : Sync(c)
    <2> PICK c \in {"gui", "pool"} : Sync(c)
      BY <1>6
    <2>1. /\ stream' \in Seq(Messages)
          /\ UNCHANGED <<head, sent, message, load>>
      BY <1>a, SubscriptionKeepsFeed
         DEF Sync, Toggle, SyncUnsubscribe, SyncMark, SyncSubscribe, exchangeSide, local
    <2>2. UNCHANGED <<book, buffer>> \/ (book' = EmptyBook /\ buffer' = {})
      BY DEF Sync, Toggle, SyncUnsubscribe, SyncMark, SyncSubscribe, local
    <2>3. TrueBook(EmptyBook)
      BY DEF TrueBook, Shaped, EmptyBook, None
    <2> QED
      BY <1>0, <1>a, <2>1, <2>2, <2>3, <1>c DEF FeedInv
  <1>7. CASE Receive
    <2>1. stream' \in Seq(Messages) /\ message' \in Messages \cup {NoMessage}
      BY <1>a, <1>7, HeadTailProperties DEF Receive
    <2> QED
      BY <1>0, <1>a, <1>7, <2>1, <1>c DEF Receive, FeedInv, local
  <1>8. CASE HandleSnapshot
    <2>1. message.sequence \in 0..MaxChange
      BY <1>8, MessageKinds DEF HandleSnapshot
    <2>2. TrueBook(book')
      BY <1>a, <1>8, <2>1, ReplayIsTrue DEF HandleSnapshot
    <2>3. buffer' \subseteq Updates
      BY <1>a, <1>8, BufferIsUpdates DEF HandleSnapshot
    <2> QED
      BY <1>0, <1>a, <1>8, <2>2, <2>3, <1>c DEF HandleSnapshot, FeedInv, exchangeSide
  <1>9. CASE HandleWaiting
    <2>1. buffer' \subseteq Updates
      BY <1>9, MessageKinds, BufferIsUpdates DEF HandleWaiting
    <2> QED
      BY <1>0, <1>a, <1>9, <2>1, <1>c DEF HandleWaiting, FeedInv, exchangeSide
  <1>10. CASE HandleUpdate
    <2>1. message \in Updates
      BY <1>10, MessageKinds DEF HandleUpdate
    <2>2. buffer' \subseteq Updates
      BY <1>a, <1>10, <2>1, BufferIsUpdates DEF HandleUpdate
    <2>3. TrueBook(book')
      BY <1>a, <1>10, <2>1, ApplyKeepsTruth DEF HandleUpdate
    <2> QED
      BY <1>0, <1>a, <1>10, <2>2, <2>3, <1>c DEF HandleUpdate, FeedInv, exchangeSide
  <1>11. CASE LoadApplied
    <2>1. TrueBook(book')
      BY <1>a, <1>11, ReplayIsTrue DEF LoadApplied
    <2>2. buffer' \subseteq Updates
      BY <1>a, <1>11, BufferIsUpdates DEF LoadApplied
    <2>3. load' \in [stage : Stages, sequence : 0..MaxChange]
      BY <1>11 DEF LoadApplied, Goes, Stages
    <2> QED
      BY <1>0, <1>a, <1>11, <2>1, <2>2, <2>3, <1>c DEF LoadApplied, FeedInv, exchangeSide
  <1>12. CASE LoadStart \/ LoadAnswered \/ LoadUseless \/ LoadDropped
    <2>1. load' \in [stage : Stages, sequence : 0..MaxChange]
      BY <1>a, <1>12 DEF LoadStart, LoadAnswered, LoadUseless, LoadDropped, Goes, Stages
    <2>2. UNCHANGED <<head, sent, stream, message, buffer, book>>
      BY <1>12 DEF LoadStart, LoadAnswered, LoadUseless, LoadDropped, exchangeSide, local
    <2> QED
      BY <1>0, <1>a, <2>1, <2>2, <1>c DEF FeedInv
  <1>13. CASE UNCHANGED syncVars
    BY <1>0, <1>a, <1>13, <1>c DEF FeedInv, syncVars, exchangeSide, local, threads
  <1> QED
    BY <1>1, <1>2, <1>3, <1>4, <1>5, <1>6, <1>7, <1>8, <1>9, <1>10, <1>11, <1>12, <1>13
       DEF SyncNext, Handle, Load

-----------------------------------------------------------------------------
(* What the threads still have to do *)

\* Every step leaves each thread one thing at a time to do.
LEMMA ThreadStep ==
    ASSUME FeedInv, ThreadInv, [SyncNext]_syncVars
    PROVE  ThreadInv'
  <1>0. IsBitget' = IsBitget
    BY VenueStays DEF IsBitget
  <1>a. /\ sync \in [Callers -> Syncs] /\ request \in [Callers -> Requested]
        /\ sync["socket"] = "idle"
        /\ message # NoMessage => request["socket"] = "none"
        /\ load.stage # "none" => sync["pool"] = "idle" /\ request["pool"] = "none"
        /\ \A c \in Callers : sync[c] # "idle" => request[c] = "none"
        /\ ~IsBitget => \A c \in Callers : sync[c] # "mark" /\ request[c] # "unsubscribed"
    BY DEF ThreadInv
  <1>b. {"gui", "pool"} \subseteq Callers /\ "socket" \in Callers
    BY DEF Callers
  <1>1. CASE Change \/ Emit \/ Disconnect \/ Connect \/ UNCHANGED syncVars
    <2>1. UNCHANGED <<message, sync, load, request>>
      BY <1>1 DEF Change, Emit, Disconnect, Connect, syncVars, threads
    <2> QED
      BY <1>0, <1>a, <2>1 DEF ThreadInv
  <1>2. CASE \E c \in Callers : RequestStep(c)
    <2> PICK c \in Callers : RequestStep(c)
      BY <1>2
    <2>1. /\ UNCHANGED <<message, sync, load>>
          /\ request[c] # "none"
          /\ \E s \in Requested : /\ request' = [request EXCEPT ![c] = s]
                                  /\ s = "unsubscribed" => IsBitget
      BY DEF RequestStep, RequestMark, RequestLoad, RequestUnsubscribe, RequestSubscribe,
             Requests, Requested
    <2>2. /\ sync[c] = "idle"
          /\ c = "socket" => message = NoMessage
          /\ c = "pool" => load.stage = "none"
      BY <1>a, <2>1
    <2>3. request' \in [Callers -> Requested]
      BY <1>a, <2>1
    <2>4. \A d \in Callers : d # c => request'[d] = request[d]
      BY <1>a, <2>1
    <2>5. request'[c] = "unsubscribed" => IsBitget
      BY <1>a, <2>1
    <2> QED
      BY <1>0, <1>a, <1>b, <2>1, <2>2, <2>3, <2>4, <2>5 DEF ThreadInv
  <1>3. CASE \E c \in {"gui", "pool"} : Sync(c)
    <2> PICK c \in {"gui", "pool"} : Sync(c)
      BY <1>3
    <2>1. CASE SyncSubscribe(c)
      <3>1. /\ UNCHANGED <<message, load>>
            /\ sync[c] = "subscribe" /\ sync' = [sync EXCEPT ![c] = "idle"]
            /\ \E s \in {"asked", "none"} : request' = [request EXCEPT ![c] = s]
        BY <2>1 DEF SyncSubscribe, RequestIf, Requests
      <3>2. c \in Callers /\ c # "socket" /\ (c = "pool" => load.stage = "none")
        BY <1>a, <1>b, <3>1
      <3>3. sync' \in [Callers -> Syncs] /\ request' \in [Callers -> Requested]
        BY <1>a, <3>1 DEF Syncs, Requested
      <3>4. /\ \A d \in Callers : d # c => request'[d] = request[d] /\ sync'[d] = sync[d]
            /\ request'[c] \in {"asked", "none"} /\ sync'[c] = "idle"
        BY <1>a, <3>1, <3>2
      <3> QED
        BY <1>0, <1>a, <1>b, <3>1, <3>2, <3>3, <3>4 DEF ThreadInv
    <2>2. CASE Toggle(c) \/ SyncUnsubscribe(c) \/ SyncMark(c)
      <3>1. /\ UNCHANGED <<message, load, request>>
            /\ \E s \in Syncs : /\ sync' = [sync EXCEPT ![c] = s]
                                /\ s = "mark" => IsBitget
        BY <2>2 DEF Toggle, Todo, SyncUnsubscribe, SyncMark, Syncs
      <3>2. /\ c \in Callers
            /\ request[c] = "none"
            /\ c = "pool" => load.stage = "none"
        BY <1>a, <1>b, <2>2 DEF Toggle, SyncUnsubscribe, SyncMark
      <3>3. sync' \in [Callers -> Syncs]
        BY <1>a, <3>1
      <3>4. /\ \A d \in Callers : d # c => sync'[d] = sync[d]
            /\ sync'[c] = "mark" => IsBitget
        BY <1>a, <3>1, <3>2
      <3> QED
        BY <1>0, <1>a, <1>b, <3>1, <3>2, <3>3, <3>4 DEF ThreadInv
    <2> QED
      BY <2>1, <2>2 DEF Sync
  <1>4. CASE Receive
    <2>1. UNCHANGED <<sync, load, request>> /\ request["socket"] = "none"
      BY <1>4 DEF Receive
    <2> QED
      BY <1>0, <1>a, <2>1 DEF ThreadInv
  <1>5. CASE HandleSnapshot \/ HandleWaiting \/ HandleUpdate
    <2>1. /\ UNCHANGED <<sync, load>>
          /\ message # NoMessage /\ message' = NoMessage
          /\ \E s \in {"asked", "none"} : request' = [request EXCEPT !["socket"] = s]
      BY <1>5 DEF HandleSnapshot, HandleWaiting, HandleUpdate, RequestIf, Requests
    <2>2. request' \in [Callers -> Requested]
      BY <1>a, <2>1 DEF Requested
    <2>3. /\ request'["socket"] # "unsubscribed"
          /\ \A d \in Callers : d # "socket" => request'[d] = request[d]
      BY <1>a, <1>b, <2>1
    <2> QED
      BY <1>0, <1>a, <1>b, <2>1, <2>2, <2>3 DEF ThreadInv
  <1>6. CASE LoadApplied
    <2>1. /\ UNCHANGED <<sync, message>>
          /\ load.stage # "none" /\ load'.stage = "none"
          /\ \E s \in {"asked", "none"} : request' = [request EXCEPT !["pool"] = s]
      BY <1>6 DEF LoadApplied, Goes, RequestIf, Requests
    <2>2. request' \in [Callers -> Requested]
      BY <1>a, <2>1 DEF Requested
    <2>3. /\ request'["pool"] # "unsubscribed"
          /\ \A d \in Callers : d # "pool" => request'[d] = request[d]
      BY <1>a, <1>b, <2>1
    <2> QED
      BY <1>0, <1>a, <1>b, <2>1, <2>2, <2>3 DEF ThreadInv
  <1>7. CASE LoadStart \/ LoadAnswered \/ LoadUseless \/ LoadDropped
    <2>1. /\ UNCHANGED <<sync, message, request>>
          /\ load'.stage # "none" => sync["pool"] = "idle" /\ request["pool"] = "none"
      BY <1>a, <1>7 DEF LoadStart, LoadAnswered, LoadUseless, LoadDropped, Goes
    <2> QED
      BY <1>0, <1>a, <2>1 DEF ThreadInv
  <1> QED
    BY <1>1, <1>2, <1>3, <1>4, <1>5, <1>6, <1>7 DEF SyncNext, Handle, Load

-----------------------------------------------------------------------------
(* The subscription *)

\* A thread that is not changing the subscription, seen from its two parts
LEMMA ChangingKept ==
    ASSUME ThreadInv, IsBitget' = IsBitget, sync' = sync,
           NEW c \in Callers, NEW s \in {"none", "asked"}, request[c] \in {"none", "asked"},
           request' = [request EXCEPT ![c] = s]
    PROVE  Changing' = Changing
  <1>1. request \in [Callers -> Requested]
    BY DEF ThreadInv
  <1>2. \A d \in Callers : d # c => request'[d] = request[d]
    BY <1>1
  <1>3. request'[c] \in {"none", "asked"}
    BY <1>1
  <1> QED
    BY <1>2, <1>3 DEF Changing

\* Every step keeps what the subscription is and what becomes of it as wanted.
LEMMA SubscriptionStep ==
    ASSUME FeedInv, ThreadInv, SubscriptionInv, [SyncNext]_syncVars
    PROVE  SubscriptionInv'
  <1>0. IsBitget' = IsBitget
    BY VenueStays DEF IsBitget
  <1>a. /\ sync \in [Callers -> Syncs] /\ request \in [Callers -> Requested]
        /\ message # NoMessage => request["socket"] = "none"
        /\ load.stage # "none" => sync["pool"] = "idle" /\ request["pool"] = "none"
        /\ \A c \in Callers : sync[c] # "idle" => request[c] = "none"
    BY DEF ThreadInv
  <1>b. {"gui", "pool"} \subseteq Callers /\ {"socket", "pool"} \subseteq Callers
    BY DEF Callers
  <1>c. Changing \subseteq Callers
    BY DEF Changing
  <1>1. CASE Change \/ Emit \/ Disconnect \/ Connect \/ Receive \/ LoadStart \/ LoadAnswered
             \/ LoadUseless \/ LoadDropped \/ UNCHANGED syncVars
    <2>1. UNCHANGED <<sync, request, contended, wanted, subscribed>>
      BY <1>1 DEF Change, Emit, Disconnect, Connect, Receive, LoadStart, LoadAnswered,
                  LoadUseless, LoadDropped, syncVars, threads
    <2>2. Changing' = Changing /\ active' = active
      BY <1>0, <2>1 DEF Changing, active
    <2> QED
      BY <2>1, <2>2 DEF SubscriptionInv
  <1>2. CASE HandleSnapshot \/ HandleWaiting \/ HandleUpdate \/ LoadApplied
    <2>1. /\ UNCHANGED <<sync, contended, wanted, subscribed>>
          /\ \E c \in {"socket", "pool"} : \E s \in {"none", "asked"} :
                request[c] = "none" /\ request' = [request EXCEPT ![c] = s]
      BY <1>2, <1>a DEF HandleSnapshot, HandleWaiting, HandleUpdate, LoadApplied, RequestIf,
                        Requests
    <2>2. Changing' = Changing
      BY <1>0, <1>b, <2>1, ChangingKept
    <2>3. active' = active
      BY <2>1 DEF active
    <2> QED
      BY <2>1, <2>2, <2>3 DEF SubscriptionInv
  <1>3. CASE \E c \in Callers : RequestStep(c)
    <2> PICK c \in Callers : RequestStep(c)
      BY <1>3
    <2>0. UNCHANGED <<sync, wanted>> /\ active' = active
      BY DEF RequestStep, RequestMark, RequestLoad, RequestUnsubscribe, RequestSubscribe,
             active
    <2>1. CASE RequestMark(c)
      <3>1. CASE pending \/ ~IsBitget
        <4>1. subscribed' = subscribed /\ (contended' <=> contended)
          BY <2>1, <3>1 DEF RequestMark, exchangeSide
        <4>2. Changing' = Changing
          <5>1. CASE pending
            BY <1>0, <2>0, <2>1, <5>1, ChangingKept DEF RequestMark, Requests
          <5>2. CASE ~IsBitget
            BY <1>0, <2>0, <5>2 DEF Changing
          <5> QED
            BY <3>1, <5>1, <5>2
        <4> QED
          BY <2>0, <4>1, <4>2 DEF SubscriptionInv
      <3>2. CASE ~pending /\ IsBitget
        <4>1. /\ subscribed' = subscribed /\ request[c] = "asked"
              /\ request' = [request EXCEPT ![c] = "marked"]
              /\ ~contended' => ~contended /\ active /\ Changing = {}
          BY <2>1, <3>2 DEF RequestMark, Requests
        <4>2. Changing' = Changing \cup {c}
          BY <1>0, <1>a, <2>0, <3>2, <4>1 DEF Changing
        <4>3. sync[c] = "idle"
          BY <1>a, <4>1
        <4> QED
          BY <2>0, <4>1, <4>2, <4>3 DEF SubscriptionInv
      <3> QED
        BY <3>1, <3>2
    <2>2. CASE RequestLoad(c)
      <3>1. UNCHANGED <<subscribed, contended>> /\ ~IsBitget
        BY <2>2 DEF RequestLoad, exchangeSide
      <3>2. Changing' = Changing
        BY <1>0, <2>0, <3>1 DEF Changing
      <3> QED
        BY <2>0, <3>1, <3>2 DEF SubscriptionInv
    <2>3. CASE RequestUnsubscribe(c)
      <3>1. /\ contended' = contended /\ IsBitget /\ request[c] = "marked"
            /\ request' = [request EXCEPT ![c] = "unsubscribed"]
        BY <2>3 DEF RequestUnsubscribe, Requests
      <3>2. Changing' = Changing /\ c \in Changing
        BY <1>0, <1>a, <2>0, <3>1 DEF Changing
      <3> QED
        BY <2>0, <3>1, <3>2 DEF SubscriptionInv
    <2>4. CASE RequestSubscribe(c)
      <3>1. /\ contended' = contended /\ subscribed' = TRUE /\ request[c] = "unsubscribed"
            /\ request' = [request EXCEPT ![c] = "none"]
        BY <2>4 DEF RequestSubscribe, Requests, SubscribeStep
      <3>2. sync[c] = "idle"
        BY <1>a, <3>1
      <3>3. IsBitget => c \in Changing /\ Changing' = Changing \ {c}
        BY <1>0, <1>a, <2>0, <3>1, <3>2 DEF Changing
      <3>4. IsBitget
        BY <3>1 DEF ThreadInv
      <3>5. contended \/ (active /\ Changing' = {})
        BY <3>2, <3>3, <3>4 DEF SubscriptionInv
      <3> QED
        BY <2>0, <3>1, <3>5 DEF SubscriptionInv
    <2> QED
      BY <2>1, <2>2, <2>3, <2>4 DEF RequestStep
  <1>4. CASE \E c \in {"gui", "pool"} : Sync(c)
    <2> PICK c \in {"gui", "pool"} : Sync(c)
      BY <1>4
    <2>0. c \in Callers
      BY <1>b
    <2>1. CASE Toggle(c)
      <3>1. /\ sync[c] = "idle" /\ request[c] = "none" /\ request' = request
            /\ subscribed' = subscribed
            /\ sync' = [sync EXCEPT ![c] = Todo(c, wanted')]
            /\ contended' = IF active = active' THEN contended ELSE Changing # {}
        BY <2>1 DEF Toggle
      <3>2. CASE active = active'
        <4>1. Todo(c, wanted') = "idle"
          BY <3>2 DEF Todo, active
        <4>2. sync' = sync
          BY <1>a, <3>1, <4>1
        <4>3. Changing' = Changing
          BY <1>0, <3>1, <4>2 DEF Changing
        <4> QED
          BY <3>1, <3>2, <4>2, <4>3 DEF SubscriptionInv
      <3>3. CASE active # active'
        <4>1. /\ active => Todo(c, wanted') = "unsubscribe" /\ ~active'
              /\ ~active => Todo(c, wanted') \in {"mark", "subscribe"} /\ active'
          BY <3>3 DEF Todo, active
        <4>2. /\ sync'[c] = Todo(c, wanted')
              /\ \A d \in Callers : d # c => sync'[d] = sync[d]
          BY <1>a, <2>0, <3>1
        <4>3. Changing' = Changing \cup {c}
          BY <1>0, <2>0, <3>1, <4>1, <4>2 DEF Changing
        <4>4. contended' \/ Changing' = {c}
          BY <3>1, <3>3, <4>3
        <4>5. active' <=> sync'[c] # "unsubscribe"
          BY <4>1, <4>2
        <4> QED
          BY <4>4, <4>5 DEF SubscriptionInv
      <3> QED
        BY <3>2, <3>3
    <2>2. CASE SyncMark(c)
      <3>1. /\ UNCHANGED <<request, subscribed, contended, wanted>>
            /\ sync[c] = "mark" /\ sync' = [sync EXCEPT ![c] = "subscribe"]
        BY <2>2 DEF SyncMark, exchangeSide
      <3>2. \A d \in Callers : sync'[d] = IF d = c THEN "subscribe" ELSE sync[d]
        BY <1>a, <3>1
      <3>3. Changing' = Changing
        BY <1>0, <3>1, <3>2 DEF Changing
      <3>4. active' = active
        BY <3>1 DEF active
      <3> QED
        BY <1>c, <3>1, <3>2, <3>3, <3>4 DEF SubscriptionInv
    <2>3. CASE SyncUnsubscribe(c) \/ SyncSubscribe(c)
      <3>1. /\ UNCHANGED <<contended, wanted>>
            /\ sync[c] \in {"unsubscribe", "subscribe"}
            /\ subscribed' <=> sync[c] # "unsubscribe"
            /\ sync' = [sync EXCEPT ![c] = "idle"]
            /\ \/ request' = request
               \/ \E s \in {"none", "asked"} : request' = [request EXCEPT ![c] = s]
        BY <2>3 DEF SyncUnsubscribe, SyncSubscribe, UnsubscribeStep, SubscribeStep, RequestIf,
                    Requests
      <3>2. /\ request[c] = "none"
            /\ request'[c] \in {"none", "asked"} /\ sync'[c] = "idle"
            /\ \A d \in Callers : d # c => request'[d] = request[d] /\ sync'[d] = sync[d]
        BY <1>a, <2>0, <3>1
      <3>3. c \in Changing /\ Changing' = Changing \ {c}
        BY <1>0, <2>0, <3>1, <3>2 DEF Changing
      <3>4. active' = active
        BY <3>1 DEF active
      <3>5. contended \/ (Changing' = {} /\ (active <=> sync[c] # "unsubscribe"))
        BY <3>3 DEF SubscriptionInv
      <3> QED
        BY <3>1, <3>4, <3>5 DEF SubscriptionInv
    <2> QED
      BY <2>1, <2>2, <2>3 DEF Sync
  <1> QED
    BY <1>1, <1>2, <1>3, <1>4 DEF SyncNext, Handle, Load

-----------------------------------------------------------------------------
(* The one load *)

Marked == {c \in Callers : request[c] = "marked"}
Running == IF load.stage # "none" THEN 1 ELSE 0

\* The marked requests can be counted.
LEMMA MarkedFinite == IsFiniteSet(Marked) /\ Cardinality(Marked) \in Nat
  <1>1. Callers = (({} \cup {"socket"}) \cup {"gui"}) \cup {"pool"}
    BY DEF Callers
  <1>2. IsFiniteSet(Callers)
    BY <1>1, FS_EmptySet, FS_AddElement
  <1>3. IsFiniteSet(Marked)
    BY <1>2, FS_Subset DEF Marked
  <1> QED
    BY <1>3, FS_CardinalityType

\* How their number changes when one request changes
LEMMA MarkedCount ==
    ASSUME request \in [Callers -> Requested], NEW c \in Callers, NEW s \in Requested,
           request' = [request EXCEPT ![c] = s]
    PROVE  /\ (s = "marked" <=> request[c] = "marked")
                => Cardinality(Marked') = Cardinality(Marked)
           /\ s = "marked" /\ request[c] # "marked"
                => Cardinality(Marked') = Cardinality(Marked) + 1
           /\ s # "marked" /\ request[c] = "marked"
                => Cardinality(Marked') = Cardinality(Marked) - 1
  <1>1. /\ request'[c] = s
        /\ \A d \in Callers : d # c => request'[d] = request[d]
    OBVIOUS
  <1>2. ASSUME s = "marked", request[c] # "marked"
        PROVE  Cardinality(Marked') = Cardinality(Marked) + 1
    <2>1. Marked' = Marked \cup {c} /\ c \notin Marked
      BY <1>1, <1>2 DEF Marked
    <2>2. Cardinality(Marked \cup {c}) = Cardinality(Marked) + 1
      BY <2>1, MarkedFinite, FS_AddElement
    <2> QED
      BY <2>1, <2>2
  <1>3. ASSUME s # "marked", request[c] = "marked"
        PROVE  Cardinality(Marked') = Cardinality(Marked) - 1
    <2>1. Marked' = Marked \ {c} /\ c \in Marked
      BY <1>1, <1>3 DEF Marked
    <2>2. Cardinality(Marked \ {c}) = Cardinality(Marked) - 1
      BY <2>1, MarkedFinite, FS_RemoveElement
    <2> QED
      BY <2>1, <2>2
  <1>4. ASSUME s = "marked" <=> request[c] = "marked"
        PROVE  Cardinality(Marked') = Cardinality(Marked)
    <2>1. Marked' = Marked
      BY <1>1, <1>4 DEF Marked
    <2> QED
      BY <2>1
  <1> QED
    BY <1>2, <1>3, <1>4

\* Every step keeps the flag up exactly while one load is on its way.
LEMMA LoadStep ==
    ASSUME FeedInv, ThreadInv, LoadInv, [SyncNext]_syncVars
    PROVE  LoadInv'
  <1>0. IsBitget' = IsBitget
    BY VenueStays DEF IsBitget
  <1>a. /\ request \in [Callers -> Requested] /\ loads \in Nat
        /\ message # NoMessage => request["socket"] = "none"
        /\ load.stage # "none" => sync["pool"] = "idle" /\ request["pool"] = "none"
        /\ \A c \in Callers : sync[c] # "idle" => request[c] = "none"
        /\ ~IsBitget => \A c \in Callers : sync[c] # "mark"
    BY DEF ThreadInv, LoadInv
  <1>b. {"gui", "pool"} \subseteq Callers /\ {"socket", "pool"} \subseteq Callers
    BY DEF Callers
  <1>c. {"none", "asked", "marked"} \subseteq Requested
    BY DEF Requested
  <1>d. ~IsBitget => loads + Running + Cardinality(Marked) = IF pending THEN 1 ELSE 0
    BY DEF LoadInv, PendingIsOneLoad, Marked, Running
  <1>e. Running \in 0..1 /\ Cardinality(Marked) \in Nat
    BY MarkedFinite DEF Running
  <1>f. SUFFICES /\ loads' \in Nat
                 /\ ~IsBitget => loads' + Running' + Cardinality(Marked')
                                 = IF pending' THEN 1 ELSE 0
    BY <1>0 DEF LoadInv, PendingIsOneLoad, Marked, Running
  <1>1. CASE \/ Change \/ Emit \/ Disconnect \/ Connect \/ Receive \/ UNCHANGED syncVars
    <2>1. UNCHANGED <<loads, load, request, pending>>
      BY <1>1 DEF Change, Emit, Disconnect, Connect, Receive, syncVars, threads, local
    <2> QED
      BY <1>a, <1>d, <2>1 DEF Running, Marked
  <1>2. CASE \E c \in Callers : RequestMark(c)
    <2> PICK c \in Callers : RequestMark(c)
      BY <1>2
    <2>1. /\ UNCHANGED <<loads, load>> /\ request[c] = "asked" /\ pending'
          /\ request' = [request EXCEPT ![c] = IF pending THEN "none" ELSE "marked"]
      BY DEF RequestMark, Requests
    <2>2. Running' = Running
      BY <2>1 DEF Running
    <2>3. CASE pending
      <3>1. Cardinality(Marked') = Cardinality(Marked)
        BY <1>a, <1>c, <2>1, <2>3, MarkedCount
      <3> QED
        BY <1>a, <1>d, <2>1, <2>2, <2>3, <3>1
    <2>4. CASE ~pending
      <3>1. Cardinality(Marked') = Cardinality(Marked) + 1
        BY <1>a, <1>c, <2>1, <2>4, MarkedCount
      <3> QED
        BY <1>a, <1>d, <1>e, <2>1, <2>2, <2>4, <3>1
    <2> QED
      BY <2>3, <2>4
  <1>3. CASE \E c \in Callers : RequestLoad(c)
    <2> PICK c \in Callers : RequestLoad(c)
      BY <1>3
    <2>1. /\ UNCHANGED <<load, pending>> /\ loads' = loads + 1 /\ request[c] = "marked"
          /\ request' = [request EXCEPT ![c] = "none"]
      BY DEF RequestLoad, Requests, local
    <2>2. Running' = Running
      BY <2>1 DEF Running
    <2>3. Cardinality(Marked') = Cardinality(Marked) - 1
      BY <1>a, <1>c, <2>1, MarkedCount
    <2> QED
      BY <1>a, <1>d, <1>e, <2>1, <2>2, <2>3
  <1>4. CASE \E c \in Callers : RequestUnsubscribe(c) \/ RequestSubscribe(c)
    <2>1. UNCHANGED loads
      BY <1>4 DEF RequestUnsubscribe, RequestSubscribe
    <2>2. IsBitget
      BY <1>4 DEF RequestUnsubscribe, RequestSubscribe, ThreadInv
    <2> QED
      BY <1>a, <2>1, <2>2
  <1>5. CASE \E c \in {"gui", "pool"} : Toggle(c) \/ SyncUnsubscribe(c)
    <2>1. UNCHANGED <<loads, load, request, pending>>
      BY <1>5 DEF Toggle, SyncUnsubscribe, local
    <2> QED
      BY <1>a, <1>d, <2>1 DEF Running, Marked
  <1>6. CASE \E c \in {"gui", "pool"} : SyncMark(c)
    <2>1. loads' = loads /\ IsBitget
      BY <1>6, <1>a, <1>b DEF SyncMark
    <2> QED
      BY <1>a, <2>1
  <1>7. CASE \E c \in {"gui", "pool"} : SyncSubscribe(c)
    <2> PICK c \in {"gui", "pool"} : SyncSubscribe(c)
      BY <1>7
    <2>1. /\ UNCHANGED <<loads, load, pending>> /\ request[c] = "none" /\ c \in Callers
          /\ \E s \in {"none", "asked"} : request' = [request EXCEPT ![c] = s]
      BY <1>a, <1>b DEF SyncSubscribe, RequestIf, Requests, local
    <2>2. Running' = Running
      BY <2>1 DEF Running
    <2>3. Cardinality(Marked') = Cardinality(Marked)
      BY <1>a, <1>c, <2>1, MarkedCount
    <2> QED
      BY <1>a, <1>d, <1>e, <2>1, <2>2, <2>3
  <1>8. CASE HandleSnapshot
    <2>1. IsBitget /\ loads' = loads
      BY <1>8, MessageKinds DEF HandleSnapshot
    <2> QED
      BY <1>a, <2>1
  <1>9. CASE HandleWaiting \/ HandleUpdate
    <2>1. /\ UNCHANGED <<loads, load, pending>> /\ request["socket"] = "none"
          /\ \E s \in {"none", "asked"} : request' = [request EXCEPT !["socket"] = s]
      BY <1>9, <1>a DEF HandleWaiting, HandleUpdate, RequestIf, Requests
    <2>2. Running' = Running
      BY <2>1 DEF Running
    <2>3. Cardinality(Marked') = Cardinality(Marked)
      <3>1. PICK s \in {"none", "asked"} : request' = [request EXCEPT !["socket"] = s]
        BY <2>1
      <3>2. s \in Requested /\ s # "marked" /\ request["socket"] # "marked"
        BY <1>c, <2>1
      <3> QED
        BY <1>a, <1>b, <3>1, <3>2, MarkedCount
    <2> QED
      BY <1>a, <1>d, <1>e, <2>1, <2>2, <2>3
  <1>10. CASE LoadStart
    <2>1. /\ UNCHANGED <<request, pending>> /\ loads > 0 /\ loads' = loads - 1
          /\ load.stage = "none" /\ load'.stage = "asking"
      BY <1>10 DEF LoadStart, Goes, local
    <2>2. Running = 0 /\ Running' = 1 /\ Marked' = Marked
      BY <2>1 DEF Running, Marked
    <2> QED
      BY <1>a, <1>d, <1>e, <2>1, <2>2
  <1>11. CASE LoadAnswered \/ LoadUseless
    <2>1. /\ UNCHANGED <<request, pending, loads>>
          /\ load.stage # "none" /\ load'.stage # "none"
      BY <1>11 DEF LoadAnswered, LoadUseless, Goes, local
    <2>2. Running' = Running /\ Marked' = Marked
      BY <2>1 DEF Running, Marked
    <2> QED
      BY <1>a, <1>d, <1>e, <2>1, <2>2
  <1>12. CASE LoadApplied \/ LoadDropped
    <2>1. /\ loads' = loads /\ ~pending' /\ request["pool"] = "none"
          /\ load.stage # "none" /\ load'.stage = "none"
          /\ \/ request' = request
             \/ \E s \in {"none", "asked"} : request' = [request EXCEPT !["pool"] = s]
      BY <1>12, <1>a DEF LoadApplied, LoadDropped, Goes, RequestIf, Requests
    <2>2. Running = 1 /\ Running' = 0
      BY <2>1 DEF Running
    <2>3. Cardinality(Marked') = Cardinality(Marked)
      <3>1. CASE request' = request
        BY <3>1 DEF Marked
      <3>2. CASE \E s \in {"none", "asked"} : request' = [request EXCEPT !["pool"] = s]
        <4>1. PICK s \in {"none", "asked"} : request' = [request EXCEPT !["pool"] = s]
          BY <3>2
        <4>2. s \in Requested /\ s # "marked" /\ request["pool"] # "marked"
          BY <1>c, <2>1
        <4> QED
          BY <1>a, <1>b, <4>1, <4>2, MarkedCount
      <3> QED
        BY <2>1, <3>1, <3>2
    <2> QED
      BY <1>a, <1>d, <1>e, <2>1, <2>2, <2>3
  <1> QED
    BY <1>1, <1>2, <1>3, <1>4, <1>5, <1>6, <1>7, <1>8, <1>9, <1>10, <1>11, <1>12
       DEF SyncNext, RequestStep, Sync, Handle, Load

-----------------------------------------------------------------------------
(* The buffer of updates *)

\* Of a buffer that is full with one update more, the oldest is dropped.
LEMMA BufferedFits ==
    ASSUME FeedInv, BufferInv, NEW u \in Updates
    PROVE  IsFiniteSet(Buffered(u)) /\ Cardinality(Buffered(u)) <= MaxBuffered
  <1> DEFINE kept == {v \in buffer : v.sequence # u.sequence}
             all == kept \cup {u}
             oldest == CHOOSE v \in all : \A w \in all : v.sequence <= w.sequence
  <1>1. IsFiniteSet(kept) /\ Cardinality(kept) <= Cardinality(buffer)
    BY FS_Subset DEF BufferInv
  <1>2. Cardinality(kept) \in Nat /\ Cardinality(buffer) \in Nat /\ MaxBuffered \in Nat
    BY <1>1, FS_CardinalityType, SyncAssumption DEF BufferInv
  <1>3. IsFiniteSet(all) /\ Cardinality(all) <= Cardinality(kept) + 1
    <2>1. /\ IsFiniteSet(kept \cup {u})
          /\ Cardinality(kept \cup {u}) =
                IF u \in kept THEN Cardinality(kept) ELSE Cardinality(kept) + 1
      BY <1>1, FS_AddElement
    <2> HIDE DEF kept
    <2> QED
      BY <1>2, <2>1
  <1>4. Cardinality(all) \in Nat
    BY <1>3, FS_CardinalityType
  <1>5. oldest \in all
    <2> DEFINE sequences == {v.sequence : v \in all}
    <2>1. \A v \in Updates : v.sequence \in 0..MaxChange
      BY DEF Updates, Update
    <2>2. all \subseteq Updates
      BY DEF FeedInv
    <2>3. sequences \in SUBSET Nat /\ sequences # {}
      BY <2>1, <2>2, BookAssumption
    <2>4. PICK n \in sequences : \A k \in sequences : n <= k
      BY <2>3, LeastExists
    <2>5. PICK v \in all : v.sequence = n
      BY <2>4
    <2>6. \A w \in all : v.sequence <= w.sequence
      BY <2>4, <2>5
    <2> QED
      BY <2>6
  <1>6. Buffered(u) = IF Cardinality(all) > MaxBuffered THEN all \ {oldest} ELSE all
    BY DEF Buffered
  <1> HIDE DEF kept, all, oldest
  <1>7. IsFiniteSet(all \ {oldest}) /\ Cardinality(all \ {oldest}) = Cardinality(all) - 1
    BY <1>3, <1>5, FS_RemoveElement
  <1>8. CASE Cardinality(all) > MaxBuffered
    BY <1>1, <1>2, <1>3, <1>4, <1>6, <1>7, <1>8 DEF BufferInv
  <1>9. CASE ~(Cardinality(all) > MaxBuffered)
    BY <1>2, <1>3, <1>4, <1>6, <1>9
  <1> QED
    BY <1>8, <1>9

\* Every step keeps the buffer within its capacity.
LEMMA BufferStep ==
    ASSUME FeedInv, ThreadInv, LoadInv, BufferInv, [SyncNext]_syncVars
    PROVE  BufferInv'
  <1>0. IsBitget' = IsBitget
    BY VenueStays DEF IsBitget
  <1>1. IsBitget => loads' = 0
    BY DEF BufferInv, SyncNext, syncVars, Change, Emit, Disconnect, Connect, RequestStep,
           RequestMark, RequestLoad, RequestUnsubscribe, RequestSubscribe, Sync, Toggle,
           SyncUnsubscribe, SyncMark, SyncSubscribe, Handle, Receive, HandleSnapshot,
           HandleWaiting, HandleUpdate, Load, LoadStart, LoadAnswered, LoadApplied,
           LoadUseless, LoadDropped, threads
  <1>2. \/ buffer' \subseteq buffer
        \/ HandleWaiting \/ HandleUpdate
    <2>1. \A n : Unreplayed(n, buffer) \subseteq buffer
      BY BufferIsUpdates
    <2> QED
      BY <2>1
         DEF SyncNext, syncVars, local, Change, Emit, Disconnect, Connect, RequestStep,
             RequestMark, RequestLoad, RequestUnsubscribe, RequestSubscribe, Sync, Toggle,
             SyncUnsubscribe, SyncMark, SyncSubscribe, Handle, Receive, HandleSnapshot,
             Load, LoadStart, LoadAnswered, LoadApplied, LoadUseless, LoadDropped
  <1>3. HandleWaiting \/ HandleUpdate
        => message \in Updates /\ (buffer' = buffer \/ buffer' = Buffered(message))
    BY MessageKinds DEF HandleWaiting, HandleUpdate
  <1>4. IsFiniteSet(buffer') /\ Cardinality(buffer') <= MaxBuffered
    <2>1. CASE buffer' \subseteq buffer
      <3>1. /\ IsFiniteSet(buffer')
            /\ Cardinality(buffer') <= Cardinality(buffer)
        BY <2>1, FS_Subset DEF BufferInv
      <3>2. Cardinality(buffer') \in Nat /\ Cardinality(buffer) \in Nat /\ MaxBuffered \in Nat
        BY <3>1, FS_CardinalityType, SyncAssumption DEF BufferInv
      <3> QED
        BY <3>1, <3>2 DEF BufferInv
    <2>2. CASE message \in Updates /\ buffer' = Buffered(message)
      BY <2>2, BufferedFits
    <2> QED
      BY <1>2, <1>3, <2>1, <2>2
  <1> QED
    BY <1>0, <1>1, <1>4 DEF BufferInv

-----------------------------------------------------------------------------
(* The theorems *)

\* The invariant holds at the start, when nothing is wanted and nothing is on its
\* way.
LEMMA SyncStart ==
    ASSUME SyncInit
    PROVE  SyncInv
  <1>1. FeedInv
    <2>1. stream \in Seq(Messages)
      BY EmptySeq DEF SyncInit
    <2>2. TrueBook(book)
      BY BookAssumption DEF SyncInit, EmptyBook, TrueBook, Shaped, None
    <2> QED
      BY <2>1, <2>2, BookAssumption, SyncAssumption
         DEF SyncInit, FeedInv, NoLoad, Stages
  <1>2. ThreadInv
    BY DEF SyncInit, ThreadInv, NoLoad, Callers, Syncs, Requested
  <1>3. SubscriptionInv
    BY DEF SyncInit, SubscriptionInv, Changing, active
  <1>4. LoadInv
    <2>1. {c \in Callers : request[c] = "marked"} = {}
      BY DEF SyncInit
    <2>2. Cardinality({c \in Callers : request[c] = "marked"}) = 0
      BY <2>1, FS_EmptySet
    <2>3. loads = 0 /\ load.stage = "none" /\ ~pending
      BY DEF SyncInit, NoLoad
    <2> QED
      BY <2>2, <2>3 DEF LoadInv, PendingIsOneLoad
  <1>5. BufferInv
    BY FS_EmptySet, SyncAssumption DEF SyncInit, BufferInv
  <1> QED
    BY <1>1, <1>2, <1>3, <1>4, <1>5 DEF SyncInv

\* The inductive invariant of the worker and its book, for any book, changes,
\* losses of connections and threads at any point of their work.
THEOREM SyncInvariance == SyncSpec => []SyncInv
  <1>1. SyncInv /\ [SyncNext]_syncVars => SyncInv'
    BY FeedStep, ThreadStep, SubscriptionStep, LoadStep, BufferStep DEF SyncInv
  <1> QED
    BY SyncStart, <1>1, PTL DEF SyncSpec

\* A book that is quoted from is the exchange's own as of its sequence, whatever
\* was lost, dropped from the buffer or replayed (OrderBook.apply,
\* LiveDataWorker._apply_snapshot_and_replay).
THEOREM QuotedBookIsTrue == SyncSpec => []BookIsTrue
  <1>1. SyncInv => BookIsTrue
    BY DEF SyncInv, FeedInv, TrueBook, BookIsTrue
  <1> QED
    BY SyncInvariance, <1>1, PTL

\* The pending flag of a Binance book is up exactly while one load of its snapshot
\* is queued or running (_request_snapshot, _load_snapshot).
THEOREM FlagIsOneLoad == SyncSpec => []PendingIsOneLoad
  <1>1. SyncInv => PendingIsOneLoad
    BY DEF SyncInv, LoadInv
  <1> QED
    BY SyncInvariance, <1>1, PTL

\* Once every thread is done, what is subscribed is what is wanted, unless two
\* threads changed it at the same time (_sync_subscriptions, _request_snapshot).
THEOREM SubscribedAsWanted == SyncSpec => []SettledIsSubscribed
  <1>1. SyncInv => SettledIsSubscribed
    BY DEF SyncInv, SubscriptionInv, SettledIsSubscribed
  <1> QED
    BY SyncInvariance, <1>1, PTL

\* What the worker keeps has its types; the buffer of updates never outgrows its
\* capacity, and no two loads are queued (_buffer_update, _request_snapshot).
THEOREM BufferKeepsCapacity == SyncSpec => []SyncTypeOK
  <1>1. SyncInv => SyncTypeOK
    <2> SUFFICES ASSUME SyncInv PROVE SyncTypeOK
      OBVIOUS
    <2>1. Shaped(book)
      BY DEF SyncInv, FeedInv, TrueBook
    <2>2. Cardinality(buffer) <= MaxBuffered /\ (IsBitget => loads = 0)
      BY DEF SyncInv, BufferInv
    <2>3. \A c \in Callers : request[c] \in Requested
      BY DEF SyncInv, ThreadInv
    <2>4. ~IsBitget => loads + Running + Cardinality(Marked) = IF pending THEN 1 ELSE 0
      BY DEF SyncInv, LoadInv, PendingIsOneLoad, Marked, Running
    <2>5. Running \in 0..1 /\ Cardinality(Marked) \in Nat /\ loads \in Nat
      BY MarkedFinite DEF Running, SyncInv, LoadInv
    <2>6. loads \in 0..1
      BY <2>2, <2>4, <2>5
    <2> QED
      BY <2>1, <2>2, <2>3, <2>6 DEF SyncTypeOK, Shaped, Requested
  <1> QED
    BY SyncInvariance, <1>1, PTL
=============================================================================
