---------------------------- MODULE MarketStream ----------------------------
(***************************************************************************)
(* The market channel: connections, the bounded ingress queue between the  *)
(* reader and the processor, the resynchronisation after a saturation or   *)
(* an integrity failure, the subscription loop and the gate of the         *)
(* reconnect reconciliation (live/market_websocket.py), over the books of  *)
(* OrderBook, against the books the exchange has.                          *)
(*                                                                         *)
(* The exchange and the reader are one step: a message is sent and queued, *)
(* or the queue is full.  An action is the code between two awaits.        *)
(***************************************************************************)
EXTENDS OrderBook, Sequences, SequencesExt, Functions

CONSTANTS
    Assets,       \* the tokens of the markets, in order of rotation
    QueueCap,     \* ingress_queue_capacity
    MaxCuts,      \* bound on the connections lost for a reason of the network
    MaxExtra,     \* bound on the messages the exchange could do without
    StreamWorlds  \* what may happen in one behaviour, see WorldKinds

WorldKinds == {"stale",       \* messages older than stale_after_seconds
               "unusable",    \* messages dated in the future, or without a readable date
               "lost",        \* the exchange omits a change of its book
               "malformed",   \* a delta that cannot be read
               "early",       \* a delta sent before the snapshot
               "rotate",      \* the wanted assets change
               "gated",       \* a reconciliation gates the strategy on every connection
               "raised",      \* it raises
               "resolves",    \* the market is resolved
               "cut"}         \* the connection is lost

StreamAssumption ==
    /\ QueueCap \in Nat \ {0} /\ MaxCuts \in Nat /\ MaxExtra \in Nat
    /\ StreamWorlds \subseteq SUBSET WorldKinds
    /\ Assets # {} /\ Assets \subseteq Nat /\ IsFiniteSet(Assets)

VARIABLES
    exchange,    \* its book of each asset, what it has yet to send of it
    wanted,      \* market_ws_asset_ids() of the database
    conn,        \* the connection, its gate and its resync event
    queue,       \* the ingress queue
    loop,        \* the subscription loop of the connection
    books,       \* order_books
    heard,       \* which state of the exchange's book the processor has last read of
    advertised,  \* the top the last message of the asset advertised, if it did
    resolution,  \* the market_resolved frame: open, received or stored
    spent,       \* of MaxCuts and MaxExtra
    world

vars == <<exchange, wanted, conn, queue, loop, books, heard, advertised, resolution, spent, world>>
data == <<books, heard, advertised>>

\* `owed' are the changes whose delta is not sent yet
QuietVenue == [levels |-> {Min(Prices)}, clock |-> 1, nth |-> 0, owed |-> <<>>,
               snapshot |-> FALSE, listens |-> FALSE]
\* where two assets share a connection each has one transaction less, and no extras
Late == [QuietVenue EXCEPT !.clock = MaxTime - 1]
Unheard == [nth |-> -1, truth |-> {}]
Down == [at |-> "down", reading |-> FALSE, resync |-> FALSE, gate |-> FALSE, subscribed |-> {}]
Resting == [pc |-> "sleep", add |-> {}, wanted |-> {}]
Resolved == "market_resolved"
Current == {Min(Assets)}

Init ==
    /\ world \in StreamWorlds /\ wanted = Current
    /\ exchange = [a \in Assets |-> IF "rotate" \in world THEN Late ELSE QuietVenue]
    /\ spent = [cuts |-> 0, extra |-> IF "rotate" \in world THEN MaxExtra ELSE 0]
    /\ conn = Down /\ queue = <<>> /\ loop = Resting
    /\ books = [a \in Assets |-> Cleared]
    /\ heard = [a \in Assets |-> Unheard] /\ advertised = [a \in Assets |-> NotAdvertised]
    /\ resolution = "open"

\* OrderBookSet.ensure_assets: a book that is created starts anew
Ensured(assets) == [a \in Assets |-> IF a \in assets THEN books[a] ELSE Cleared]
\* OrderBookSet.mark_not_ready
MarkNotReady ==
    /\ books' = [a \in Assets |-> Cleared]
    /\ heard' = [a \in Assets |-> Unheard]
    /\ advertised' = [a \in Assets |-> NotAdvertised]

-----------------------------------------------------------------------------
(* The exchange *)

Difference(from, to) == (from \ to) \cup (to \ from)

\* one transaction changes one price or two; each change is a delta of its own
Trade(a) ==
    LET v == exchange[a] IN
    /\ v.listens /\ v.clock < MaxTime
    /\ \E levels \in (SUBSET Prices) \ {v.levels} : \E order \in SetToSeqs(Difference(v.levels, levels)) :
        LET done(n) == {order[m] : m \in 1..n}
            after(n) == (levels \cap done(n)) \cup (v.levels \ done(n))
            deltas == [n \in 1..Len(order) |->
                [at |-> v.clock + 1, nth |-> v.nth + n, price |-> order[n],
                 rests |-> order[n] \in levels, best |-> TopOf(levels), truth |-> after(n)]]
        IN exchange' = [exchange EXCEPT ![a] = [v EXCEPT
               !.levels = levels, !.clock = @ + 1, !.nth = @ + Len(order),
               !.owed = @ \o deltas]]
    /\ UNCHANGED <<wanted, conn, queue, loop, data, resolution, spent, world>>

\* the next market replaces the one before, by way of both
Rotate ==
    /\ "rotate" \in world /\ wanted \in {Current, Assets}
    /\ wanted' = IF wanted = Current /\ wanted # Assets THEN Assets ELSE Assets \ Current
    /\ wanted' # {}
    /\ UNCHANGED <<exchange, conn, queue, loop, data, resolution, spent, world>>

Omit(a) ==
    /\ "lost" \in world /\ exchange[a].owed # <<>>
    /\ exchange' = [exchange EXCEPT ![a].owed = Tail(@)]
    /\ UNCHANGED <<wanted, conn, queue, loop, data, resolution, spent, world>>

\* mutation: a saturated queue is emptied
SaturatedEmpties(frame) == <<>>
\* _handle_ingress_saturation: only resolutions stay in the queue
Saturated(frame) ==
    LET frames == Append(queue, frame)
        stay == {n \in DOMAIN frames : frames[n].kind = Resolved}
    IN [n \in 1..Cardinality(stay) |-> [kind |-> Resolved]]

\* mutation: a full queue drops the frame and goes on
EnqueueLossy(frame) ==
    /\ conn.reading
    /\ queue' = IF Len(queue) < QueueCap THEN Append(queue, frame) ELSE queue
    /\ UNCHANGED <<conn, data, wanted, loop, world>>

\* put_nowait of _market_frame_reader; _begin_ingress_resync when the queue is full
Enqueue(frame) ==
    /\ conn.reading
    /\ IF Len(queue) < QueueCap
       THEN queue' = Append(queue, frame) /\ UNCHANGED <<conn, data>>
       ELSE /\ queue' = Saturated(frame)
            /\ conn' = [conn EXCEPT !.resync = TRUE, !.reading = FALSE]
            /\ MarkNotReady
    /\ UNCHANGED <<wanted, loop, world>>

Frame(a, message) == [kind |-> "market", asset |-> a, message |-> message]
Spend(what, bound) == spent[what] < bound /\ spent' = [spent EXCEPT ![what] = @ + 1]

SnapshotOf(v) ==
    [event_type |-> "book", at |-> v.clock, levels |-> v.levels, price |-> 0, rests |-> FALSE,
     best |-> NotAdvertised, malformed |-> FALSE, nth |-> v.nth, truth |-> v.levels]
DeltaOf(c, best, bad) ==
    [event_type |-> "price_change", at |-> c.at, levels |-> {}, price |-> c.price,
     rests |-> c.rests, best |-> best, malformed |-> bad, nth |-> c.nth, truth |-> c.truth]
BestOf(v) ==
    [event_type |-> "best_bid_ask", at |-> v.clock, levels |-> {}, price |-> 0, rests |-> FALSE,
     best |-> TopOf(v.levels), malformed |-> FALSE, nth |-> -1, truth |-> {}]

\* the answer to a subscription
SendBook(a) ==
    /\ exchange[a].listens /\ ~exchange[a].snapshot
    /\ Enqueue(Frame(a, SnapshotOf(exchange[a])))
    /\ exchange' = [exchange EXCEPT ![a].snapshot = TRUE]
    /\ UNCHANGED <<resolution, spent>>

\* a snapshot the exchange sends of its own accord, ahead of deltas it owes
SendBookAgain(a) ==
    /\ exchange[a].listens /\ exchange[a].snapshot /\ Spend("extra", MaxExtra)
    /\ Enqueue(Frame(a, SnapshotOf(exchange[a])))
    /\ UNCHANGED <<exchange, resolution>>

SendDelta(a) ==
    LET v == exchange[a]  c == Head(v.owed) IN
    /\ v.listens /\ v.owed # <<>> /\ (v.snapshot \/ "early" \in world)
    /\ \E best \in {c.best, NotAdvertised}, bad \in {FALSE, "malformed" \in world} :
        Enqueue(Frame(a, DeltaOf(c, best, bad)))
    /\ exchange' = [exchange EXCEPT ![a].owed = Tail(@)]
    /\ UNCHANGED <<resolution, spent>>

\* it may run ahead of the deltas that realize it
SendBest(a) ==
    /\ exchange[a].listens /\ exchange[a].snapshot /\ Spend("extra", MaxExtra)
    /\ Enqueue(Frame(a, BestOf(exchange[a])))
    /\ UNCHANGED <<exchange, resolution>>

SendResolution ==
    /\ "resolves" \in world /\ resolution = "open" /\ Enqueue([kind |-> Resolved])
    /\ resolution' = "received" /\ UNCHANGED <<exchange, spent>>

-----------------------------------------------------------------------------
(* The connection *)

Dial ==
    /\ conn.at = "down"
    /\ conn' = [conn EXCEPT !.at = "dialing", !.subscribed = wanted]
    /\ UNCHANGED <<exchange, wanted, queue, loop, data, resolution, spent, world>>

Listening(assets) ==
    [a \in Assets |-> IF a \in assets
                       THEN [exchange[a] EXCEPT !.listens = TRUE, !.snapshot = FALSE, !.owed = <<>>]
                       ELSE exchange[a]]
Deaf(assets) ==
    [a \in Assets |-> IF a \in assets
                       THEN [exchange[a] EXCEPT !.listens = FALSE, !.snapshot = FALSE, !.owed = <<>>]
                       ELSE exchange[a]]

\* run: a new generation of books, the subscription, the gate of the reconciliation
Connect ==
    /\ conn.at = "dialing"
    /\ conn' = [conn EXCEPT !.at = "up", !.reading = TRUE, !.resync = FALSE,
                              !.gate = "gated" \in world]
    /\ exchange' = Listening(conn.subscribed)
    /\ MarkNotReady
    /\ UNCHANGED <<wanted, queue, loop, resolution, spent, world>>

\* the end of the pipeline: mark_disconnect, the tasks of the connection are cancelled
Disconnect ==
    /\ conn' = Down /\ loop' = Resting /\ queue' = <<>>
    /\ exchange' = Deaf(Assets)
    /\ MarkNotReady
    /\ UNCHANGED <<wanted, resolution, world>>

Cut ==
    /\ "cut" \in world /\ conn.reading /\ Spend("cuts", MaxCuts)
    /\ conn' = [conn EXCEPT !.reading = FALSE]
    /\ UNCHANGED <<exchange, wanted, queue, loop, data, resolution, world>>

ReconciliationEnds ==
    /\ conn.at = "up" /\ conn.gate
    /\ conn' = [conn EXCEPT !.gate = FALSE]
    /\ UNCHANGED <<exchange, wanted, queue, loop, data, resolution, spent, world>>

\* `await reconciliation_waiter' raises: the pipeline is cancelled with what it holds
ReconciliationRaises ==
    /\ "raised" \in world /\ conn.at = "up" /\ conn.gate /\ Spend("cuts", MaxCuts)
    /\ Disconnect

\* the reader is done and so is the processor
PipelineEnds ==
    /\ conn.at = "up" /\ ~conn.reading /\ queue = <<>>
    /\ Disconnect /\ UNCHANGED spent

-----------------------------------------------------------------------------
(* The processor *)

IntegrityReasons == {"DELTA_BEFORE_SNAPSHOT", "BEST_PRICE_MISMATCH", "MALFORMED_DELTA"}

\* process_message: the book, and the views of it that are not rejected
ProcessMessage(a, message, verdict) ==
    LET before == Ensured(conn.subscribed)
        after == Apply(before[a], message, verdict)
        hidden == Rejected(before[a], message, verdict)
        read == message.nth > heard[a].nth
                /\ ~(hidden /\ message.event_type = "book" /\ before[a].snapshot_loaded)
    IN IF ~hidden /\ after.reason \in IntegrityReasons
       THEN /\ conn' = [conn EXCEPT !.resync = TRUE, !.reading = FALSE]
            /\ MarkNotReady
       ELSE /\ books' = [before EXCEPT ![a] = after]
            /\ heard' = [heard EXCEPT ![a] =
                   IF read THEN [nth |-> message.nth, truth |-> message.truth] ELSE @]
            /\ advertised' = [advertised EXCEPT ![a] = IF hidden THEN @ ELSE message.best]
            /\ UNCHANGED conn

\* _market_frame_processor: during a resync nothing is applied, nor what is
\* of no subscribed asset
Process ==
    LET f == Head(queue) IN
    /\ conn.at = "up" /\ queue # <<>> /\ f.kind = "market"
    /\ queue' = Tail(queue)
    /\ IF conn.resync \/ f.asset \notin conn.subscribed THEN UNCHANGED <<conn, data>>
       ELSE \E verdict \in Verdicts \cap (world \cup {"fresh"}) :
                ProcessMessage(f.asset, f.message, verdict)
    /\ UNCHANGED <<exchange, wanted, loop, resolution, spent, world>>

\* a resolution never waits for the books, nor for the lossy snapshot queue
ProcessResolution ==
    /\ conn.at = "up" /\ queue # <<>> /\ Head(queue).kind = Resolved
    /\ queue' = Tail(queue) /\ resolution' = "stored"
    /\ UNCHANGED <<exchange, wanted, conn, loop, data, spent, world>>

-----------------------------------------------------------------------------
(* _subscription_loop *)

LoopWakes ==
    LET add == wanted \ conn.subscribed IN
    /\ conn.reading /\ loop.pc = "sleep" /\ wanted # conn.subscribed
    /\ loop' = [pc |-> IF add = {} THEN "drop" ELSE "refresh", add |-> add, wanted |-> wanted]
    /\ books' = Ensured(conn.subscribed \cup add)
    /\ UNCHANGED <<exchange, wanted, conn, queue, heard, advertised, resolution, spent, world>>

LoopSubscribes ==
    /\ conn.reading /\ loop.pc = "refresh"
    /\ loop' = [loop EXCEPT !.pc = "sent"] /\ exchange' = Listening(loop.add)
    /\ UNCHANGED <<wanted, conn, queue, data, resolution, spent, world>>

\* after `await ws.send': a snapshot that came first was not expected
LoopNotes ==
    /\ conn.reading /\ loop.pc = "sent"
    /\ loop' = [loop EXCEPT !.pc = "wait"]
    /\ conn' = [conn EXCEPT !.subscribed = @ \cup loop.add]
    /\ UNCHANGED <<exchange, wanted, queue, data, resolution, spent, world>>

AddedReady == \A a \in loop.add : books[a].ready
LoopReady ==
    /\ conn.reading /\ loop.pc = "wait" /\ AddedReady
    /\ loop' = [loop EXCEPT !.pc = "drop"]
    /\ UNCHANGED <<exchange, wanted, conn, queue, data, resolution, spent, world>>

\* mutation: the subscription loop waits without a deadline
LoopWaitsForever == FALSE /\ UNCHANGED vars

\* dynamic_subscription_fallbacks: five seconds without the snapshot
LoopTimesOut ==
    /\ conn.reading /\ loop.pc = "wait" /\ ~AddedReady
    /\ conn' = [conn EXCEPT !.reading = FALSE]
    /\ UNCHANGED <<exchange, wanted, queue, loop, data, resolution, spent, world>>

LoopFinishes ==
    /\ conn.reading /\ loop.pc = "drop"
    /\ loop' = Resting /\ conn' = [conn EXCEPT !.subscribed = loop.wanted]
    /\ exchange' = Deaf(conn.subscribed \ loop.wanted)
    /\ books' = Ensured(loop.wanted)
    /\ heard' = [a \in Assets |-> IF a \in loop.wanted THEN heard[a] ELSE Unheard]
    /\ advertised' = [a \in Assets |-> IF a \in loop.wanted THEN advertised[a] ELSE NotAdvertised]
    /\ UNCHANGED <<wanted, queue, resolution, spent, world>>

-----------------------------------------------------------------------------
Next ==
    \/ \E a \in Assets : \/ Trade(a) \/ Omit(a) \/ SendBook(a) \/ SendBookAgain(a)
                         \/ SendDelta(a) \/ SendBest(a)
    \/ SendResolution \/ Rotate
    \/ Dial \/ Connect \/ Cut \/ ReconciliationEnds \/ ReconciliationRaises \/ PipelineEnds
    \/ Process \/ ProcessResolution
    \/ LoopWakes \/ LoopSubscribes \/ LoopNotes \/ LoopReady \/ LoopTimesOut \/ LoopFinishes

(* The event loop runs every task that can run, the exchange answers a      *)
(* subscription and sends what it owes.                                     *)
Fairness ==
    /\ WF_vars(Dial) /\ WF_vars(Connect) /\ WF_vars(PipelineEnds) /\ WF_vars(ReconciliationEnds)
    /\ WF_vars(Process) /\ WF_vars(ProcessResolution)
    /\ WF_vars(LoopWakes) /\ WF_vars(LoopSubscribes) /\ WF_vars(LoopNotes)
    /\ WF_vars(LoopReady) /\ WF_vars(LoopTimesOut) /\ WF_vars(LoopFinishes)
    /\ \A a \in Assets : WF_vars(SendBook(a)) /\ WF_vars(SendDelta(a))
Spec == Init /\ [][Next]_vars /\ Fairness

-----------------------------------------------------------------------------
(* Properties *)

\* Every book is an OrderBookState, every queued message one of the channel.
TypeOK ==
    /\ books \in [Assets -> OrderBookState]
    /\ \A n \in 1..Len(queue) : queue[n].kind = "market" =>
           queue[n].asset \in Assets /\ queue[n].message \in Message
    /\ Len(queue) <= QueueCap + 1 /\ loop.pc \in {"sleep", "refresh", "sent", "wait", "drop"}
    /\ resolution \in {"open", "received", "stored"}

(* A book that is ready is the exchange's, level by level, as of the last   *)
(* message read about it on this connection: saturations, resyncs, rotated  *)
(* subscriptions, stale messages, snapshots that overtake deltas and tops   *)
(* advertised ahead of them leave no level behind.  Three things do, and    *)
(* are left out.  Nothing the code reads tells when the exchange omits a    *)
(* change away from the top.  A delta with an unusable timestamp is dropped *)
(* whole and the book stays READY without it.  And a delta both stale and   *)
(* malformed is shown to nobody, its reason is lost to the next             *)
(* best_bid_ask, which makes the book ready without it.                     *)
ReadyBookIsTheExchanges ==
    world \cap {"lost", "unusable"} = {} /\ ~({"stale", "malformed"} \subseteq world)
        => \A a \in Assets : books[a].ready => books[a].levels = heard[a].truth

(* A book that is ready shows the top the last message about it advertised, *)
(* also when changes were lost on the way.                                  *)
ReadyTopIsAdvertised ==
    \A a \in Assets : books[a].ready /\ advertised[a] # NotAdvertised
                          => TopOf(books[a].levels) = advertised[a]

(* A market_resolved frame that was queued is stored, also when the queue   *)
(* saturates or the books are resynchronised before it is reached; only a   *)
(* reconciliation that raises cancels the processor with what it holds.     *)
ResolutionSurvives ==
    "raised" \notin world /\ resolution = "received"
        => \E n \in 1..Len(queue) : queue[n].kind = Resolved

\* event_freshness, of the assets of an event
EventReady(assets) ==
    conn.at = "up" /\ assets \subseteq conn.subscribed /\ \A a \in assets : books[a].ready
\* on_atomic_frame is called with a ready event
Serves == conn.reading /\ ~conn.gate /\ conn.subscribed = wanted /\ EventReady(wanted)

(* Once the network and the markets rest, every wanted book gets ready on a *)
(* connection the strategy is served by: no resync, no rotation and no      *)
(* snapshot that came too early leaves a book waiting for ever.  It takes   *)
(* fresh messages and every companion delta: nothing bounds the wait of a   *)
(* book that lacks one.                                                     *)
EveryBookComesBack == world \cap {"stale", "unusable", "lost"} = {} => <>[]Serves
=============================================================================
