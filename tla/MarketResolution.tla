-------------------------- MODULE MarketResolution ---------------------------
(***************************************************************************)
(* The rows of the five-minute markets and their three writers             *)
(* (live/repository.py, live_markets): discovery (live/market_discovery.py)*)
(* overwrites the row of the current and the next market, the market       *)
(* stream marks a market resolved and touches its source, and the resolver *)
(* (live/market_resolution.py, a process of its own) asks for the ended    *)
(* markets that are not resolved by REST.  Market m ends as the m-th.      *)
(***************************************************************************)
EXTENDS Integers, FiniteSets, FiniteSetsExt

CONSTANTS
    Markets,      \* number of markets
    Batch,        \* batch_size: half for the newest, half for the oldest
    Void,         \* markets the REST answer never names one winner for
    MaxStream     \* bound on the writes of the stream per market

ResolutionAssumption ==
    /\ Markets \in Nat \ {0} /\ Batch \in Nat \ {0} /\ MaxStream \in Nat
    /\ Void \subseteq 1..Markets

VARIABLES
    ended,        \* markets 1..ended are over
    closed,       \* markets the exchange has closed, with a winner unless void
    row,          \* market -> resolved, named (winner and its source)
    discovery,    \* the event discovery has read and not yet stored
    resolver,     \* the markets of the batch still to be asked for
    stream        \* market -> writes of the stream so far

resolutionVars == <<ended, closed, row, discovery, resolver, stream>>

Ids == 1..Markets
NoMarket == [market |-> 0, closed |-> FALSE]
Fresh == [stored |-> FALSE, resolved |-> FALSE, named |-> FALSE, source |-> "client"]

Init ==
    /\ ended = 0 /\ closed = {} /\ row = [m \in Ids |-> Fresh]
    /\ discovery = NoMarket /\ resolver = {} /\ stream = [m \in Ids |-> 0]

End ==
    /\ ended < Markets /\ row[ended + 1].stored /\ ended' = ended + 1
    /\ UNCHANGED <<closed, row, discovery, resolver, stream>>
Close ==
    /\ \E m \in 1..ended \ closed : closed' = closed \cup {m}
    /\ UNCHANGED <<ended, row, discovery, resolver, stream>>

-----------------------------------------------------------------------------
(* refresh_btc_5m_markets: the books are awaited between the event and the *)
(* upsert, which replaces the whole row                                    *)

DiscoveryReads ==
    /\ discovery = NoMarket
    /\ \E m \in Ids \cap {ended + 1, ended + 2} :
           discovery' = [market |-> m, closed |-> m \in closed]
    /\ UNCHANGED <<ended, closed, row, resolver, stream>>

DiscoveryStores ==
    /\ discovery # NoMarket /\ discovery' = NoMarket
    /\ row' = [row EXCEPT ![discovery.market] =
                  [Fresh EXCEPT !.stored = TRUE, !.resolved = discovery.closed]]
    /\ UNCHANGED <<ended, closed, resolver, stream>>

-----------------------------------------------------------------------------
(* The stream: store_market_snapshot, mark_market_resolved *)

Written(m) == row[m].stored /\ stream[m] < MaxStream

\* a snapshot of the market takes over the source of the row
Snapshot ==
    /\ \E m \in Ids : /\ Written(m) /\ stream' = [stream EXCEPT ![m] = @ + 1]
                      /\ row' = [row EXCEPT ![m].source = "stream"]
    /\ UNCHANGED <<ended, closed, discovery, resolver>>

\* the snapshots of both tokens take over the source first, unless this message
\* was stored before
Noted(m, again) == IF again THEN row[m] ELSE [row[m] EXCEPT !.source = "stream"]
\* the resolution event, with or without the winner, yields to the answer of REST
ResolutionEvent ==
    /\ \E m \in closed : \E named \in BOOLEAN : \E again \in BOOLEAN :
        /\ Written(m) /\ stream' = [stream EXCEPT ![m] = @ + 1]
        /\ LET noted == Noted(m, again)
           IN row' = IF noted.source = "rest" THEN row
                     ELSE [row EXCEPT ![m] = [noted EXCEPT !.resolved = TRUE, !.named = named,
                                                           !.source = "stream"]]
    /\ UNCHANGED <<ended, closed, discovery, resolver>>

-----------------------------------------------------------------------------
(* MarketResolutionReconciler.run_once *)

\* mutation: a market that is resolved is not asked for, whoever said so
PendingUnresolved == {m \in 1..ended : ~row[m].resolved}
\* markets_pending_resolution
Pending == {m \in 1..ended : ~row[m].resolved \/ row[m].source # "rest"}
Newest(ms, n) == {m \in ms : Cardinality({x \in ms : x > m}) < n}
Oldest(ms, n) == {m \in ms : Cardinality({x \in ms : x < m}) < n}
\* mutation: every pending market at once
ListedAll == Pending
Listed == LET recent == (Batch + 1) \div 2
          IN Newest(Pending, recent) \cup Oldest(Pending, Batch - recent)

ResolverLists ==
    /\ resolver = {} /\ Listed # {} /\ resolver' = Listed
    /\ UNCHANGED <<ended, closed, row, discovery, stream>>

\* one market: the REST answer, with one winner or not
ResolverAsks ==
    /\ \E m \in resolver :
        /\ resolver' = resolver \ {m}
        /\ row' = IF m \in closed \ Void
                  THEN [row EXCEPT ![m] = [@ EXCEPT !.resolved = TRUE, !.named = TRUE,
                                                    !.source = "rest"]]
                  ELSE row
    /\ UNCHANGED <<ended, closed, discovery, stream>>

Next ==
    \/ End \/ Close \/ DiscoveryReads \/ DiscoveryStores \/ Snapshot \/ ResolutionEvent
    \/ ResolverLists \/ ResolverAsks

(* The resolver runs every interval and asks for each market it listed.     *)
(* Discovery's awaited reads end, and the exchange closes its markets.      *)
Fairness ==
    /\ WF_resolutionVars(ResolverLists) /\ WF_resolutionVars(ResolverAsks)
    /\ WF_resolutionVars(DiscoveryStores) /\ WF_resolutionVars(Close)
Spec == Init /\ [][Next]_resolutionVars /\ Fairness

-----------------------------------------------------------------------------
(* Properties *)

Official(m) == row[m].resolved /\ row[m].named /\ row[m].source = "rest"

TypeOK ==
    /\ ended \in 0..Markets /\ closed \subseteq 1..ended
    /\ row \in [Ids -> [stored : BOOLEAN, resolved : BOOLEAN, named : BOOLEAN,
                        source : {"client", "stream", "rest"}]]
    /\ discovery \in [market : 0..Markets, closed : BOOLEAN]
    /\ resolver \subseteq 1..ended /\ Cardinality(resolver) <= Batch
    /\ stream \in [Ids -> 0..MaxStream]

(* Whatever the stream and a slow discovery write over them, the markets    *)
(* the exchange has closed with a winner end resolved by REST for good.     *)
EveryMarketIsResolved == <>[](\A m \in closed \ Void : Official(m))
=============================================================================
