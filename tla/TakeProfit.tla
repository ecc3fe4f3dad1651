------------------------------ MODULE TakeProfit -----------------------------
(***************************************************************************)
(* A resting take-profit (GTC) and the row of its position                 *)
(* (live/reconciliation.py, run_once; live/reconciliation_stability.py;    *)
(* live/strategy_repository.py, apply_exit_fill).  The order is filled     *)
(* share by share; its trades reach the local fills and the shares leave   *)
(* the positions feed at their own times, so a run books a part of what    *)
(* was sold, and writes the feed over the row before or after it.  A run   *)
(* is the steps of pass.pc, with an await between two of them.  What the   *)
(* strategy does to the order meanwhile is ExitLifecycle.                  *)
(***************************************************************************)
EXTENDS Integers

CONSTANTS
    Acquired,     \* shares bought, all of them offered
    MinOrder      \* a remainder below it is dust

ProfitAssumption == Acquired \in Nat \ {0} /\ MinOrder \in 1..Acquired

VARIABLES
    owned,        \* shares in the wallet
    resting,      \* the order is open at the exchange
    ingested,     \* shares of the fills in live_strategy_fills
    listed,       \* shares in the public positions feed
    sale,         \* the intent: its state and the shares booked of it
    lot,          \* the position: state, remaining, and sold (has proceeds)
    pass,         \* the run: pc, whether it saw the order open, the feed it read
    ahead         \* a feed was written below what was booked of a sale under way

profitVars == <<owned, resting, ingested, listed, sale, lot, pass, ahead>>

Finals == {"FILLED", "PARTIAL_FINAL", "CANCELED"}

Init ==
    /\ owned = Acquired /\ resting = TRUE /\ ingested = 0 /\ listed = Acquired
    /\ sale = [state |-> "LIVE", filled |-> 0]
    /\ lot = [state |-> "MANAGED", remaining |-> Acquired, sold |-> 0]
    /\ pass = [pc |-> "idle", open |-> FALSE, feed |-> 0] /\ ahead = FALSE

-----------------------------------------------------------------------------
(* The exchange, its two feeds, and the end of the order *)

Fill ==
    /\ resting
    /\ \E n \in 1..owned : owned' = owned - n
    /\ resting' = (owned' > 0)
    /\ UNCHANGED <<ingested, listed, sale, lot, pass, ahead>>

\* cancelled by the stop, by the operator, or expired
OrderEnds ==
    /\ resting /\ resting' = FALSE
    /\ UNCHANGED <<owned, ingested, listed, sale, lot, pass, ahead>>

\* add_fill: by the user stream, or by a run of the trades it has read
StoreFills ==
    /\ \E n \in (ingested + 1)..(Acquired - owned) : ingested' = n
    /\ UNCHANGED <<owned, resting, listed, sale, lot, pass, ahead>>

FeedMoves ==
    /\ listed # owned /\ listed' = owned
    /\ UNCHANGED <<owned, resting, ingested, sale, lot, pass, ahead>>

-----------------------------------------------------------------------------
(* apply_exit_fill *)

BookedFrom(before, final) ==
    LET delta == ingested - sale.filled
        left == IF before > delta THEN before - delta ELSE 0
    IN /\ sale' = [state |-> final, filled |-> ingested]
       /\ lot' = [state |-> CASE left = 0 -> "CLOSED"
                              [] left \in 1..(MinOrder - 1) -> "DUST"
                              [] OTHER -> "MANAGED",
                  remaining |-> left, sold |-> lot.sold + (before - left)]

\* mutation: the first fill is taken off what the feed has left
BookedOnFeed(final) == BookedFrom(lot.remaining, final)
\* `rebuild the pre-exit baseline': as long as nothing was booked, the shares
\* before the sale are those acquired, whatever the feed has taken off the row
Booked(final) ==
    BookedFrom(IF sale.filled = 0 /\ lot.sold = 0 THEN Acquired ELSE lot.remaining, final)

Final == IF pass.open THEN "PARTIAL" ELSE IF ingested = Acquired THEN "FILLED" ELSE "PARTIAL_FINAL"

-----------------------------------------------------------------------------
(* A run of the reconciliation worker *)

ReadOrders ==
    /\ pass.pc = "idle"
    /\ pass' = [pc |-> "trades", open |-> resting, feed |-> 0]
    /\ UNCHANGED <<owned, resting, ingested, listed, sale, lot, ahead>>

\* the trades were asked for before the positions are
ReadListing ==
    /\ pass.pc = "trades"
    /\ pass' = [pass EXCEPT !.pc = "maker", !.feed = listed]
    /\ UNCHANGED <<owned, resting, ingested, listed, sale, lot, ahead>>

\* ingest_maker_exit_fills, of an intent in any state; a fill that only the
\* user stream has stored is not looked for
BookMaker ==
    /\ pass.pc = "maker" /\ pass' = [pass EXCEPT !.pc = "intents"]
    /\ \/ ingested > sale.filled /\ Booked(Final)
       \/ UNCHANGED <<sale, lot>>
    /\ UNCHANGED <<owned, resting, ingested, listed, ahead>>

\* no fill is known of an order that has ended: matched, or cancelled
EndsUnfilled ==
    \/ /\ owned = 0 /\ sale' = [sale EXCEPT !.state = "RECONCILIATION_REQUIRED"]
       /\ lot' \in {lot, [lot EXCEPT !.state = IF lot.remaining > 0 THEN "MANAGED" ELSE @]}
    \/ owned > 0 /\ sale' = [sale EXCEPT !.state = "CANCELED"] /\ UNCHANGED lot

\* the loop over the unresolved intents
Intents ==
    /\ pass.pc = "intents" /\ pass' = [pass EXCEPT !.pc = "positions"]
    /\ \/ sale.state \in Finals /\ UNCHANGED <<sale, lot>>
       \/ sale.state \notin Finals /\ ingested > sale.filled /\ Booked(Final)
       \/ /\ sale.state \notin Finals /\ ingested = sale.filled /\ ingested > 0
          /\ sale' = IF pass.open THEN sale ELSE [sale EXCEPT !.state = Final]
          /\ UNCHANGED lot
       \/ /\ sale.state \notin Finals /\ ingested = 0
          /\ IF pass.open THEN sale' = [sale EXCEPT !.state = "LIVE"] /\ UNCHANGED lot
             ELSE EndsUnfilled
    /\ UNCHANGED <<owned, resting, ingested, listed, ahead>>

\* an empty position is not in the feed, and one above the row is not believed
\* after a sale; any other is written over the row (reconcile_remote_position)
Positions ==
    /\ pass.pc = "positions" /\ pass' = [pass EXCEPT !.pc = "idle"]
    /\ IF pass.feed = 0 \/ pass.feed = lot.remaining
          \/ (pass.feed > lot.remaining /\ lot.sold > 0)
       THEN UNCHANGED <<lot, ahead>>
       ELSE /\ lot' = [lot EXCEPT !.remaining = pass.feed, !.state = "MANAGED"]
            /\ ahead' = (ahead \/ lot.sold > 0)
    /\ UNCHANGED <<owned, resting, ingested, listed, sale>>

Next ==
    \/ Fill \/ OrderEnds \/ StoreFills \/ FeedMoves
    \/ ReadOrders \/ ReadListing \/ BookMaker \/ Intents \/ Positions
Spec == Init /\ [][Next]_profitVars

-----------------------------------------------------------------------------
(* Properties *)

Shares == 0..Acquired
TypeOK ==
    /\ {owned, ingested, listed} \subseteq Shares /\ {resting, ahead} \subseteq BOOLEAN
    /\ sale \in [state : Finals \cup {"LIVE", "PARTIAL", "RECONCILIATION_REQUIRED"},
                 filled : Shares]
    /\ lot \in [state : {"MANAGED", "DUST", "CLOSED"}, remaining : Shares, sold : Shares]
    /\ pass \in [pc : {"idle", "trades", "maker", "intents", "positions"},
                 open : BOOLEAN, feed : Shares]

(* A row that ended by the fills of its take-profit has no share left in    *)
(* the wallet, in whatever parts and at whatever times the fills came, and  *)
(* although the feed may have taken them off the row before the first was   *)
(* booked.  The code does not promise it once a feed was `ahead': a fill    *)
(* that the positions show and the trades, read before them, do not, on a   *)
(* row that has proceeds, is taken off the row twice.                       *)
ClosedIsGone == lot.state = "CLOSED" /\ ~ahead => owned = 0
=============================================================================
