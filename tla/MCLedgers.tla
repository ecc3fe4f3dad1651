------------------------------ MODULE MCLedgers ------------------------------
(***************************************************************************)
(* Instances for TLC of what settles in the end: a position whose market   *)
(* is resolved, one that is sold by its take-profit, the rows of the       *)
(* markets, the demo deals of the collector and the decisions of demo_v2.  *)
(* They share no variable, so a behaviour follows one of them, `focus',    *)
(* and the others rest in their first state.                               *)
(***************************************************************************)
EXTENDS Integers, Sequences

CONSTANTS
    Acquired, MinOrder, MaxUnread, Starts,
    Markets, Batch, Void, MaxStream,
    Events, Rules, Windowed, Ahead, Quota, MaxDeals, MaxEdits, Punctual,
    Tokens, Frequency, Capacity, MaxFrames, MaxTrouble

VARIABLES
    focus,
    winner, known, wallet, redeemed, shown, exit, row, young, quarantined, losses, seen,
    worker, unread, operator,
    owned, resting, ingested, listed, sale, lot, pass, ahead,
    ended, closed, marketRow, discovery, resolver, marketStream,
    now, exchange, events, rules, creating, deals, active, scan, book, answered, edits,
    durable, ws, at, arrivals, gaps, stream, consumer, engine, memory, count, entered, held,
    rule, stable, engineOk, subscribed, resetting, resolved, faults, engineEdits

settleVars == <<winner, known, wallet, redeemed, shown, exit, row, young, quarantined,
                losses, seen, worker, unread, operator>>
profitVars == <<owned, resting, ingested, listed, sale, lot, pass, ahead>>
resolutionVars == <<ended, closed, marketRow, discovery, resolver, marketStream>>
demoVars == <<now, exchange, events, rules, creating, deals, active, scan, book, answered,
              edits>>
engineVars == <<durable, ws, at, arrivals, gaps, stream, consumer, engine, memory, count,
                entered, held, rule, stable, engineOk, subscribed, resetting, resolved,
                faults, engineEdits>>

Settles == INSTANCE Settlement
Profit == INSTANCE TakeProfit
MarketRows == INSTANCE MarketResolution WITH row <- marketRow, stream <- marketStream
Deals == INSTANCE DemoDeals
Engine == INSTANCE DemoEngine WITH edits <- engineEdits

ASSUME LedgersAssumption ==
    /\ Settles!SettlementAssumption /\ Profit!ProfitAssumption
    /\ MarketRows!ResolutionAssumption /\ Deals!DemoAssumption /\ Engine!EngineAssumption

Init ==
    /\ focus \in {"settles", "profit", "markets", "deals", "engine"}
    /\ Settles!Init /\ Profit!Init /\ MarketRows!Init /\ Deals!Init /\ Engine!Init
    /\ focus # "settles" => ~winner /\ known = "open"
    /\ focus # "deals" => \A r \in Rules : ~rules[r].on

Next ==
    /\ UNCHANGED focus
    /\ \/ focus = "settles" /\ Settles!Next
          /\ UNCHANGED <<profitVars, resolutionVars, demoVars, engineVars>>
       \/ focus = "profit" /\ Profit!Next
          /\ UNCHANGED <<settleVars, resolutionVars, demoVars, engineVars>>
       \/ focus = "markets" /\ MarketRows!Next
          /\ UNCHANGED <<settleVars, profitVars, demoVars, engineVars>>
       \/ focus = "deals" /\ Deals!Next
          /\ UNCHANGED <<settleVars, profitVars, resolutionVars, engineVars>>
       \/ focus = "engine" /\ Engine!Next
          /\ UNCHANGED <<settleVars, profitVars, resolutionVars, demoVars>>

(* The fairness of each module, of the behaviours that follow it *)

InSettles(step) == focus = "settles" /\ step
SettlesFairness ==
    /\ WF_settleVars(InSettles(Settles!Run)) /\ WF_settleVars(InSettles(Settles!Age))
    /\ WF_settleVars(InSettles(Settles!FeedCatchesUp)) /\ WF_settleVars(InSettles(Settles!Answered))
    /\ WF_settleVars(InSettles(Settles!MarketRow))
    /\ SF_settleVars(InSettles(Settles!Intents /\ exit'.state = "final"))

InMarkets(step) == focus = "markets" /\ step
MarketsFairness ==
    /\ WF_resolutionVars(InMarkets(MarketRows!ResolverLists))
    /\ WF_resolutionVars(InMarkets(MarketRows!ResolverAsks))
    /\ WF_resolutionVars(InMarkets(MarketRows!DiscoveryStores))
    /\ WF_resolutionVars(InMarkets(MarketRows!Close))

InDeals(step) == focus = "deals" /\ step
DealsFairness ==
    /\ WF_demoVars(InDeals(Deals!Tick)) /\ WF_demoVars(InDeals(Deals!Opens))
    /\ WF_demoVars(InDeals(Deals!Closes))
    /\ WF_demoVars(InDeals(Deals!ScanStarts)) /\ WF_demoVars(InDeals(Deals!ScanSkips))
    /\ WF_demoVars(InDeals(Deals!ScanStores)) /\ WF_demoVars(InDeals(Deals!ScanEnds))
    /\ WF_demoVars(InDeals(Deals!BookStores))
    /\ SF_demoVars(InDeals(Deals!AsksForWinner))

InEngine(step) == focus = "engine" /\ step
EngineFairness ==
    /\ WF_engineVars(InEngine(Engine!Connect)) /\ WF_engineVars(InEngine(Engine!Frame))
    /\ WF_engineVars(InEngine(Engine!DropsWhatIsOver))
    /\ WF_engineVars(InEngine(Engine!Waits)) /\ WF_engineVars(InEngine(Engine!Rejects))
    /\ WF_engineVars(InEngine(Engine!Takes)) /\ WF_engineVars(InEngine(Engine!Demand))
    /\ WF_engineVars(InEngine(Engine!Probe)) /\ WF_engineVars(InEngine(Engine!ResetEnds))

Spec ==
    /\ Init /\ [][Next]_<<focus, settleVars, profitVars, resolutionVars, demoVars, engineVars>>
    /\ SettlesFairness /\ MarketsFairness /\ DealsFairness /\ EngineFairness

-----------------------------------------------------------------------------
(* Properties, under the names of their modules *)

\* Every variable of every module keeps its type.
TypeOK ==
    /\ focus = "settles" => Settles!TypeOK
    /\ focus = "profit" => Profit!TypeOK
    /\ focus = "markets" => MarketRows!TypeOK
    /\ focus = "deals" => Deals!TypeOK
    /\ focus = "engine" => Engine!TypeOK

\* A position that ended by its exit leaves no share in the wallet: by a sell at
\* the market, or by a take-profit that no feed was ahead of.
ClosedIsGone == Settles!ClosedIsGone /\ Profit!ClosedIsGone

\* Resolution buries no exit that may exist remotely.
ExitIsNotBuried == Settles!ExitIsNotBuried

\* No view of the positions brings sold shares back.
SoldSharesStaySold == Settles!SoldSharesStaySold

\* A losing position is settled or quarantined in the end.
LosersSettle == Settles!LosersSettle

\* A closed market ends resolved by REST for good.
EveryMarketIsResolved == MarketRows!EveryMarketIsResolved

\* A demo deal does not stay open for good.
DealsEnd == Deals!DealsEnd

\* demo_v2 enters a token no more often than its price has arrived.
OneEntryPerArrival == focus = "engine" => Engine!OneEntryPerArrival

\* The engine of demo_v2 follows the newest generation again, while it is wanted.
DecisionsComeBack == []<>(focus = "engine" => Engine!Following \/ Engine!Unwanted)
=============================================================================
