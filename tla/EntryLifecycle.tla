--------------------------- MODULE EntryLifecycle ---------------------------
(***************************************************************************)
(* The entry of an event, from the reservation to the position:            *)
(* reserve_event_entry, mark_zero_fill, open_position, update_intent and   *)
(* reconcile_remote_position (live/strategy_repository.py), the frame      *)
(* worker that drives them (live/strategy_runtime.py), and the             *)
(* reconciliation run that repairs them (live/reconciliation.py).          *)
(*                                                                         *)
(* Worker and run are coroutines of one event loop: an action is the code  *)
(* between two awaits.  Rows survive a crash, `worker' and `run' do not.   *)
(* The checks that may refuse an entry (prices, freshness, schedule,       *)
(* pause, kill switch) are free choices, and so is every frame.            *)
(* Continuous trading, where an entry needs the empty slot; the canary is  *)
(* in PauseRecovery.  Quarantine, resolution and partial exits are not     *)
(* modelled.                                                               *)
(***************************************************************************)
EXTENDS Naturals, FiniteSetsExt

CONSTANTS
    Events,
    Sides,         \* the two tokens of an event
    MaxAttempts,   \* bound on the entry attempts of an event
    Lot,           \* shares an entry asks for
    MinOrder,      \* fewer shares than this cannot be sold: dust
    PromptVenue,   \* the venue's views keep up, see Settled
    MayCrash,      \* the process may crash
    MayExit,       \* positions are sold
    None           \* no side, no order

ASSUME EntryAssumption ==
    /\ MaxAttempts \in Nat \ {0} /\ Lot \in Nat \ {0} /\ MinOrder \in Nat
    /\ {PromptVenue, MayCrash, MayExit} \subseteq BOOLEAN
    /\ None \notin Sides \cup Events \X (1..MaxAttempts)

Attempts == 1..MaxAttempts
Orders == Events \X Attempts
Tokens == Events \X Sides
EventOf(o) == o[1]

Final == {"FILLED", "ZERO_FILL", "REJECTED"}
Unresolved == {"RESERVED", "SUBMITTING", "RECONCILIATION_REQUIRED", "LIVE"}
ActiveStates == {"OPEN", "DUST"}

Intent == [state : {"none"} \cup Final \cup Unresolved,
           side : Sides \cup {None},
           known : BOOLEAN,           \* remote_order_id is recorded
           filled : Nat,              \* filled_shares_text
           fills : 0..Lot]            \* shares of its rows in live_strategy_fills

Position == [state : {"none", "CLOSED"} \cup ActiveStates,
             side : Sides \cup {None},
             acquired : Nat, remaining : Nat, sellable : Nat,
             sold : BOOLEAN]          \* exit_value_text is positive

VenueOrder == [at : {"none", "sent", "open", "matched", "dead"},
               filled : 0..Lot,
               shown : 0..Lot,        \* shares of it in the trades feed
               late : BOOLEAN]        \* submitted more than the grace ago

EventState == {"none", "SKIPPED", "ENTRY_INTENT_RESERVED", "ENTRY_ZERO_FILL",
               "OPEN", "DUST", "CLOSED", "RECOVERED_REMOTE_POSITION"}

Worker == [pc : {"idle", "reserved", "signing", "posted", "publishing"},
           order : Orders \cup {None}]

Run == [pc : {"idle", "orders", "trades", "positions", "intents", "remote"},
        open : SUBSET Orders, trades : [Orders -> 0..Lot], held : [Tokens -> Nat],
        todo : SUBSET Orders, pending : SUBSET Orders]

VARIABLES
    event,     \* live_event_states: the status of each event
    intent,    \* live_strategy_intents: its ENTRY intents, by attempt
    position,  \* live_strategy_positions: one row at most per event
    worker,    \* the frame worker's coroutine
    run,       \* the reconciliation run's coroutine and what it has read
    venue,     \* the orders at the venue
    owned,     \* the shares the account has
    feed       \* the shares the positions feed shows

rows == <<event, intent, position>>
world == <<venue, owned, feed>>
vars == <<event, intent, position, worker, run, venue, owned, feed>>

NoIntent ==
    [state |-> "none", side |-> None, known |-> FALSE, filled |-> 0, fills |-> 0]
NoPosition ==
    [state |-> "none", side |-> None, acquired |-> 0, remaining |-> 0,
     sellable |-> 0, sold |-> FALSE]
NoOrder == [at |-> "none", filled |-> 0, shown |-> 0, late |-> FALSE]
IdleWorker == [pc |-> "idle", order |-> None]
IdleRun ==
    [pc |-> "idle", open |-> {}, trades |-> [o \in Orders |-> 0],
     held |-> [t \in Tokens |-> 0], todo |-> {}, pending |-> {}]

Init ==
    /\ event = [e \in Events |-> "none"]
    /\ intent = [o \in Orders |-> NoIntent]
    /\ position = [e \in Events |-> NoPosition]
    /\ worker = IdleWorker /\ run = IdleRun
    /\ venue = [o \in Orders |-> NoOrder]
    /\ owned = [t \in Tokens |-> 0] /\ feed = [t \in Tokens |-> 0]

-----------------------------------------------------------------------------
(* The rows: what each repository method does to them *)

TokenOf(o) == <<EventOf(o), intent[o].side>>
HasPosition(t) == position[t[1]].state # "none" /\ position[t[1]].side = t[2]

IsUnresolved(o) == intent[o].state \in Unresolved
TriedOf(e) == {o \in Orders : EventOf(o) = e /\ intent[o].state # "none"}

\* fill_summary, and the shares of the intent's own row
NoFill(o) == intent[o].filled = 0 /\ intent[o].fills = 0

\* Mutant: the slot looks at positions only.
SlotEmptyOfPositions == \A e \in Events : position[e].state \notin ActiveStates

SlotEmpty ==
    /\ \A o \in Orders : ~IsUnresolved(o)
    /\ \A e \in Events : position[e].state \notin ActiveStates

\* a second attempt needs all earlier ones to be confirmed zero fills
MayReserve(e) ==
    \/ event[e] = "none" /\ TriedOf(e) = {}
    \/ /\ event[e] = "ENTRY_ZERO_FILL"
       /\ \A o \in TriedOf(e) : intent[o].state = "ZERO_FILL" /\ NoFill(o)
       /\ position[e].state = "none"

MarkZeroFill(o) ==
    /\ NoFill(o)
    /\ intent' = [intent EXCEPT ![o].state = "ZERO_FILL"]
    /\ event' = [event EXCEPT ![EventOf(o)] = "ENTRY_ZERO_FILL"]
    /\ UNCHANGED position

\* Mutant: open_position counts the shares again that the rows have.
OpenPositionAdding(o, shares) ==
    LET e == EventOf(o)
    IN  /\ position' = [position EXCEPT ![e].state = "OPEN", ![e].side = intent[o].side,
               ![e].acquired = @ + shares, ![e].remaining = @ + shares]
        /\ intent' = [intent EXCEPT ![o].state = "FILLED", ![o].filled = @ + shares]
        /\ event' = [event EXCEPT ![e] = "OPEN"]

\* open_position: the row of an event that has one keeps side and acquired
OpenPosition(o, shares) ==
    LET e == EventOf(o)
        state == IF shares < MinOrder THEN "DUST" ELSE "OPEN"
        old == IF position[e].state # "none" THEN position[e]
               ELSE [NoPosition EXCEPT !.side = intent[o].side, !.acquired = shares]
    IN  /\ position' = [position EXCEPT ![e] =
               [old EXCEPT !.state = state, !.remaining = shares, !.sellable = 0]]
        /\ intent' = [intent EXCEPT ![o].state = "FILLED", ![o].filled = shares]
        /\ event' = [event EXCEPT ![e] = state]

SetState(o, state) ==
    /\ intent' = [intent EXCEPT ![o].state = state]
    /\ UNCHANGED <<event, position>>

-----------------------------------------------------------------------------
(* The frame worker: _process_event and _submit_entry *)

WorkerAt(pc, o) == worker.pc = pc /\ worker.order = o
WorkerGoes(pc, o) == worker' = [pc |-> pc, order |-> o]
WorkerDone == worker' = IdleWorker

\* both sides trigger at once, or the market lacks what an entry needs
Skip(e) ==
    /\ worker.pc = "idle"
    /\ event[e] \in {"none", "ENTRY_ZERO_FILL"}
    /\ event' = [event EXCEPT ![e] = "SKIPPED"]
    /\ UNCHANGED <<intent, position, worker, run, world>>

Reserve(o, side) ==
    /\ worker.pc = "idle"
    /\ MayReserve(EventOf(o)) /\ SlotEmpty
    /\ Cardinality(TriedOf(EventOf(o))) = o[2] - 1
    /\ event' = [event EXCEPT ![EventOf(o)] = "ENTRY_INTENT_RESERVED"]
    /\ intent' = [intent EXCEPT ![o] =
                    [NoIntent EXCEPT !.state = "RESERVED", !.side = side]]
    /\ WorkerGoes("reserved", o)
    /\ UNCHANGED <<position, run, world>>

\* the signal expired or does not hold any more
Abort(o) ==
    /\ WorkerAt("reserved", o)
    /\ MarkZeroFill(o)
    /\ WorkerDone /\ UNCHANGED <<run, world>>

\* freshness, schedule or the durable gate refuse
Refuse(o) ==
    /\ WorkerAt("reserved", o)
    /\ SetState(o, "REJECTED")
    /\ WorkerDone /\ UNCHANGED <<run, world>>

Submit(o) ==
    /\ WorkerAt("reserved", o)
    /\ SetState(o, "SUBMITTING")
    /\ WorkerGoes("signing", o)
    /\ UNCHANGED <<run, world>>

\* allowance, signature, deadline or the final guard: nothing was posted
NotSubmitted(o) ==
    /\ WorkerAt("signing", o)
    /\ MarkZeroFill(o) \/ SetState(o, "REJECTED")
    /\ WorkerDone /\ UNCHANGED <<run, world>>

Post(o) ==
    /\ WorkerAt("signing", o)
    /\ venue' = [venue EXCEPT ![o].at = "sent"]
    /\ WorkerGoes("posted", o)
    /\ UNCHANGED <<rows, run, owned, feed>>

\* FAK_NOT_FILLED
NotFilled(o) ==
    /\ WorkerAt("posted", o)
    /\ venue[o].at = "dead"
    /\ MarkZeroFill(o) \/ SetState(o, "REJECTED")
    /\ WorkerDone /\ UNCHANGED <<run, world>>

\* matched, delayed or live: the response names the order
Accepted(o) ==
    /\ WorkerAt("posted", o)
    /\ venue[o].at \in {"open", "matched", "dead"}
    /\ intent' = [intent EXCEPT ![o].state = "RECONCILIATION_REQUIRED",
                                ![o].known = TRUE]
    /\ WorkerGoes("publishing", o)
    /\ UNCHANGED <<event, position, run, world>>

\* Mutant: a timeout counts as a rejection.
UnknownAsRejected(o) ==
    /\ WorkerAt("posted", o)
    /\ SetState(o, "REJECTED")
    /\ WorkerGoes("publishing", o)
    /\ UNCHANGED <<run, world>>

\* a timeout or a broken connection: no response, whatever became of it
Unknown(o) ==
    /\ WorkerAt("posted", o)
    /\ SetState(o, "RECONCILIATION_REQUIRED")
    /\ WorkerGoes("publishing", o)
    /\ UNCHANGED <<run, world>>

\* what the response or the token's balance shows of the shares
Evidence(o) ==
    IF PromptVenue THEN {0, owned[TokenOf(o)]} ELSE 0..owned[TokenOf(o)]

\* _publish_entry_position_from_response
Publish(o) ==
    /\ WorkerAt("publishing", o)
    /\ \E shares \in Evidence(o) \cap (0..Lot) :
        IF shares > 0 /\ ~HasPosition(TokenOf(o))
        THEN OpenPosition(o, shares)
        ELSE UNCHANGED rows
    /\ WorkerDone /\ UNCHANGED <<run, world>>

WorkerStep(o) ==
    \/ Abort(o) \/ Refuse(o) \/ Submit(o) \/ NotSubmitted(o) \/ Post(o)
    \/ NotFilled(o) \/ Accepted(o) \/ Unknown(o) \/ Publish(o)

-----------------------------------------------------------------------------
(* One reconciliation run: _run_once_serialized *)

RunGoes(pc) == run' = [run EXCEPT !.pc = pc]

ReadOpenOrders ==
    /\ run.pc = "idle"
    /\ run' = [IdleRun EXCEPT !.pc = "orders",
                              !.open = {o \in Orders : venue[o].at = "open"}]
    /\ UNCHANGED <<rows, worker, world>>

ReadTrades ==
    /\ run.pc = "orders"
    /\ run' = [run EXCEPT !.pc = "trades",
                          !.trades = [o \in Orders |-> venue[o].shown]]
    /\ UNCHANGED <<rows, worker, world>>

Greater(m, n) == IF m > n THEN m ELSE n

\* Mutant: a trade that is seen again is counted again.
AddFillAgain(o) == [intent[o] EXCEPT !.fills = @ + run.trades[o]]

\* add_fill: each trade once
AddFill(o) == [intent[o] EXCEPT !.fills = Greater(@, run.trades[o])]

\* the last read; then the fills of the orders the rows know are added
ReadPositions ==
    /\ run.pc = "trades"
    /\ run' = [run EXCEPT !.pc = "positions", !.held = feed]
    /\ intent' = [o \in Orders |-> IF intent[o].known THEN AddFill(o) ELSE intent[o]]
    /\ UNCHANGED <<event, position, worker, world>>

\* unresolved_intents, of which those without a remote id are left alone
ListUnresolved ==
    /\ run.pc = "positions"
    /\ run' = [run EXCEPT !.pc = "intents",
                    !.todo = {o \in Orders : IsUnresolved(o) /\ intent[o].known}]
    /\ UNCHANGED <<rows, worker, world>>

\* an adapter call or a row raises: the run ends where it is
RunFails == run' = IdleRun

\* Mutant: only a match ends an order.
StillOpenUntilMatched(o) == venue[o].at # "matched"

StillOpen(o) == o \in run.open \/ venue[o].at = "open"
HandedOff(o) == venue[o].at = "matched" /\ ~venue[o].late

\* get_order was awaited: what it shows is applied to the rows of now
Resolve(o) ==
    /\ run.pc = "intents" /\ o \in run.todo
    /\ LET listed == [run EXCEPT !.todo = @ \ {o}]
       IN  \/ /\ intent[o].fills > 0
              /\ OpenPosition(o, intent[o].fills)
              /\ run' = listed
           \/ /\ intent[o].fills = 0 /\ ~StillOpen(o) /\ HandedOff(o)
              /\ run' = [listed EXCEPT !.pending = @ \cup {o}]
              /\ UNCHANGED rows
           \/ /\ intent[o].fills = 0 /\ ~StillOpen(o) /\ ~HandedOff(o)
              /\ \/ MarkZeroFill(o) /\ run' = listed
                 \/ ~NoFill(o) /\ RunFails /\ UNCHANGED rows
           \/ /\ intent[o].fills = 0 /\ StillOpen(o)
              /\ intent' = [intent EXCEPT ![o].state = "LIVE", ![o].filled = 0]
              /\ run' = listed
              /\ UNCHANGED <<event, position>>
    /\ UNCHANGED <<worker, world>>

\* the order is unreadable or its status unknown: a gap, and the next one
Undecided(o) ==
    /\ run.pc = "intents" /\ o \in run.todo
    /\ run' = [run EXCEPT !.todo = @ \ {o}]
    /\ UNCHANGED <<rows, worker, world>>

\* no await between here and the end of the run: see Yielding
RemotePositions ==
    /\ run.pc = "intents" /\ run.todo = {}
    /\ RunGoes("remote")
    /\ UNCHANGED <<rows, worker, world>>

PendingFor(t) == {o \in run.pending : TokenOf(o) = t}

\* reconcile_remote_position of a token that has its row
Corrected(p, shares) ==
    [p EXCEPT !.state = IF p.remaining = shares THEN @ ELSE "OPEN",
              !.acquired = IF p.remaining = shares THEN @ ELSE Greater(@, shares),
              !.remaining = shares, !.sellable = shares]

\* a view of the positions older than a confirmed exit
AfterExit(t) ==
    position[t[1]].sold /\ run.held[t] > position[t[1]].remaining

\* Mutant: shares of which no row knows are only reported.
RemotePositionOfRows(t) ==
    /\ run.pc = "remote" /\ run.held[t] > 0
    /\ run' = [run EXCEPT !.held[t] = 0]
    /\ IF HasPosition(t) /\ ~AfterExit(t)
       THEN position' = [position EXCEPT ![t[1]] = Corrected(@, run.held[t])]
       ELSE UNCHANGED position
    /\ UNCHANGED <<event, intent, worker, world>>

\* the account shows shares of t: an entry waiting for its fill is resolved
\* by them, other shares correct the row or make one
RemotePosition(t) ==
    LET e == t[1]
        shares == run.held[t]
        next == run' = [run EXCEPT !.held[t] = 0]
    IN  /\ run.pc = "remote" /\ shares > 0
        /\ \/ /\ ~HasPosition(t)
              /\ \E o \in PendingFor(t) : OpenPosition(o, shares)
              /\ next
           \/ /\ HasPosition(t) /\ ~AfterExit(t)
              /\ position' = [position EXCEPT ![e] = Corrected(@, shares)]
              /\ next /\ UNCHANGED <<event, intent>>
           \/ /\ HasPosition(t) /\ AfterExit(t)
              /\ next /\ UNCHANGED rows
           \/ /\ position[e].state = "none" /\ PendingFor(t) = {}
              /\ position' = [position EXCEPT ![e] =
                    [state |-> "OPEN", side |-> t[2], acquired |-> shares,
                     remaining |-> shares, sellable |-> shares, sold |-> FALSE]]
              /\ event' = [event EXCEPT ![e] = "RECOVERED_REMOTE_POSITION"]
              /\ next /\ UNCHANGED intent
           \/ \* the event's one row is of its other token
              /\ position[e].state # "none" /\ ~HasPosition(t)
              /\ PendingFor(t) = {}
              /\ RunFails /\ UNCHANGED rows
        /\ UNCHANGED <<worker, world>>

EndRun ==
    /\ run.pc = "remote" /\ \A t \in Tokens : run.held[t] = 0
    /\ run' = IdleRun
    /\ UNCHANGED <<rows, worker, world>>

\* an adapter call raises
RunRaises ==
    /\ run.pc \in {"orders", "trades", "positions", "intents"}
    /\ RunFails
    /\ UNCHANGED <<rows, worker, world>>

RunStep ==
    \/ ReadOpenOrders \/ ReadTrades \/ ReadPositions \/ ListUnresolved
    \/ \E o \in Orders : Resolve(o) \/ Undecided(o)
    \/ RemotePositions \/ (\E t \in Tokens : RemotePosition(t)) \/ EndRun
    \/ RunRaises

\* apply_exit_fill, which only runs call, after the entries of the event:
\* the position is sold and closed.  Trades are shown in order: who saw the
\* sale saw the purchase.
SellOut(e) ==
    LET t == <<e, position[e].side>>
        shares == position[e].sellable
    IN  /\ MayExit
        /\ run.pc = "intents" /\ \A o \in run.todo : EventOf(o) # e
        /\ position[e].state = "OPEN"
        /\ shares >= MinOrder /\ shares > 0 /\ shares <= owned[t]
        /\ \A o \in TriedOf(e) : run.trades[o] = venue[o].filled
        /\ owned' = [owned EXCEPT ![t] = @ - shares]
        /\ position' = [position EXCEPT ![e].state = "CLOSED",
                ![e].remaining = 0, ![e].sellable = 0, ![e].sold = TRUE]
        /\ event' = [event EXCEPT ![e] = "CLOSED"]
        /\ UNCHANGED <<intent, worker, run, venue, feed>>

Crash ==
    /\ MayCrash /\ (worker # IdleWorker \/ run # IdleRun)
    /\ worker' = IdleWorker /\ run' = IdleRun
    /\ UNCHANGED <<rows, world>>

-----------------------------------------------------------------------------
(* The venue: an order is open for a while or not at all, it is filled or it *)
(* dies, and its trades and positions are shown later.  PromptVenue: each    *)
(* view shows a fill as a whole, and in time for the run that would take an  *)
(* order without fills for dead.                                             *)

Opens(o) ==
    /\ venue[o].at = "sent"
    /\ venue' = [venue EXCEPT ![o].at = "open"]
    /\ UNCHANGED <<rows, worker, run, owned, feed>>

Fills(o) ==
    /\ venue[o].at \in {"sent", "open"}
    /\ \E shares \in 1..Lot :
        /\ venue' = [venue EXCEPT ![o].at = "matched", ![o].filled = shares]
        /\ owned' = [owned EXCEPT ![TokenOf(o)] = @ + shares]
    /\ UNCHANGED <<rows, worker, run, feed>>

Dies(o) ==
    /\ venue[o].at \in {"sent", "open"}
    /\ venue' = [venue EXCEPT ![o].at = "dead"]
    /\ UNCHANGED <<rows, worker, run, owned, feed>>

\* where a view of m shares may stand next when there are n
Shown(m, n) == IF PromptVenue THEN n ELSE IF m < n THEN m + 1 ELSE m - 1

ShowTrade(o) ==
    /\ venue[o].shown # venue[o].filled
    /\ venue' = [venue EXCEPT ![o].shown = Shown(@, venue[o].filled)]
    /\ UNCHANGED <<rows, worker, run, owned, feed>>

ShowPosition(t) ==
    /\ feed[t] # owned[t]
    /\ feed' = [feed EXCEPT ![t] = Shown(@, owned[t])]
    /\ UNCHANGED <<rows, worker, run, venue, owned>>

Settled(o) ==
    /\ venue[o].at \in {"matched", "dead"} /\ venue[o].shown = venue[o].filled
    /\ ~WorkerAt("posted", o)
    /\ intent[o].known
        => run.pc \in {"idle", "orders"} \/ intent[o].fills = venue[o].filled

GraceEnds(o) ==
    /\ venue[o].at # "none" /\ ~venue[o].late
    /\ PromptVenue => Settled(o)
    /\ venue' = [venue EXCEPT ![o].late = TRUE]
    /\ UNCHANGED <<rows, worker, run, owned, feed>>

VenueStep(o) == Opens(o) \/ Fills(o) \/ Dies(o) \/ ShowTrade(o) \/ GraceEnds(o)

-----------------------------------------------------------------------------
\* the run is not between two awaits
Yielding == run.pc # "remote"

Next ==
    \/ Yielding /\ \E e \in Events : Skip(e)
    \/ Yielding /\ \E o \in Orders, side \in Sides : Reserve(o, side)
    \/ Yielding /\ \E o \in Orders : WorkerStep(o)
    \/ RunStep
    \/ \E e \in Events : SellOut(e)
    \/ Crash
    \/ \E o \in Orders : VenueStep(o)
    \/ \E t \in Tokens : ShowPosition(t)

Spec == Init /\ [][Next]_vars

\* each order ends, and every view shows it in the end
VenueSettles ==
    \/ \E o \in Orders : Fills(o) \/ Dies(o) \/ ShowTrade(o) \/ GraceEnds(o)
    \/ \E t \in Tokens : ShowPosition(t)

(* The event loop runs what is ready; again and again a run's calls succeed  *)
(* and it completes, and get_order is not refused for ever; an order ends,   *)
(* and is shown.                                                             *)
RunsComplete == []<><<EndRun>>_vars
Fairness ==
    /\ WF_vars(Yielding /\ \E o \in Orders : WorkerStep(o))
    /\ WF_vars(VenueSettles)
    /\ RunsComplete /\ SF_vars(\E o \in Orders : Resolve(o))

FairSpec == Spec /\ Fairness

-----------------------------------------------------------------------------
(* Properties *)

\* the rows, the coroutines and the world hold what they may hold
TypeOK ==
    /\ event \in [Events -> EventState]
    /\ intent \in [Orders -> Intent]
    /\ position \in [Events -> Position]
    /\ worker \in Worker /\ run \in Run
    /\ venue \in [Orders -> VenueOrder]
    /\ owned \in [Tokens -> Nat] /\ feed \in [Tokens -> Nat]

Out(o) == venue[o].at \in {"sent", "open"}
OutNow == {o \in Orders : Out(o)}
Bought == {o \in Orders : venue[o].filled > 0}
Held == {t[1] : t \in {u \in Tokens : owned[u] > 0}}

\* One entry order at a time may buy, none is sent while shares are held, and no
\* event is bought twice, whatever the worker, the run, the venue and crashes do
\* in which order.
Slot == INSTANCE EntrySlot
    WITH Entries <- Orders, out <- OutNow, bought <- Bought, held <- Held
RefinesSlot == Slot!SlotSpec

\* While an order may still fill, or shares are held, the rows keep the slot:
\* no frame can reserve another entry.
ExposureHoldsSlot == OutNow # {} \/ Held # {} => ~SlotEmpty

\* What the rows call a zero fill or a rejection never bought shares and never
\* will.
ZeroFillIsTrue ==
    \A o \in Orders : intent[o].state \in {"ZERO_FILL", "REJECTED"}
        => venue[o].filled = 0 /\ ~Out(o)

\* Until something is sold, the row of an event never claims more shares than
\* the account has of one of its tokens, however late and in whatever parts the
\* venue shows them.
NoPhantomShares ==
    \A e \in Events : position[e].state # "none" /\ ~position[e].sold
        => \E side \in Sides : position[e].remaining <= owned[<<e, side>>]

\* A confirmed sale is not undone.
SoldStaysSold ==
    [][\A e \in Events : position[e].state = "CLOSED"
        => position'[e].remaining = 0]_vars

\* Shares that were bought get the row from which the exits are supervised,
\* also when the response or the process was lost.
EveryFillBecomesPosition ==
    <>[](\A o \in Orders :
            venue[o].filled > 0 => position[EventOf(o)].state # "none")

\* An order the rows can name is settled in the end, and stays it.
KnownOrderIsSettled ==
    <>[](\A o \in Orders : intent[o].known => ~IsUnresolved(o))
=============================================================================
