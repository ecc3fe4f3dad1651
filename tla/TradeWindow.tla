---------------------------- MODULE TradeWindow -----------------------------
(***************************************************************************)
(* live/trade_window.py and _read_account_trades of live/reconciliation.py:*)
(* the account's trades are read in windows behind a durable watermark,    *)
(* under a cap on what one run may read.  Time is in units of              *)
(* min_slice_seconds; fractions of a unit are dropped.                     *)
(***************************************************************************)
EXTENDS Integers, FiniteSets, FiniteSetsExt

CONSTANTS
    Trades,      \* how many trades the account makes
    MaxNow,      \* bound on the clock
    Overlap,     \* overlap_seconds
    MaxRead,     \* max_trades of one run
    BootstrapRead, \* bootstrap_max_trades
    Lateness,    \* a trade can be ingested at most so long after it matched
    Slow,        \* the time budget of a run may end its reading
    Start        \* "row": a watermark is stored; "legacy": only rows; "empty": nothing

WindowAssumption ==
    /\ {Trades, MaxNow, Overlap, MaxRead, BootstrapRead, Lateness} \subseteq Nat
    /\ MaxRead > 0 /\ Lateness <= Overlap
    /\ Slow \in BOOLEAN /\ Start \in {"row", "legacy", "empty"}

VARIABLES
    now,
    trade,      \* when each trade matched, and since when it can be ingested
    persisted,  \* the trades that are rows of live_strategy_fills
    mark,       \* trade_fetch_watermark_at and trade_fetch_slice_seconds
    fetch,      \* the run's plan and what it read
    exhausted   \* TradeWindowExhaustedError ended a run

windowVars == <<now, trade, persisted, mark, fetch, exhausted>>

NoTime == -1000
Times == 0..MaxNow
TradeIds == 1..Trades
NoFetch == [pc |-> "idle", after |-> NoTime, before |-> NoTime, planned |-> NoTime,
            bootstrap |-> FALSE, slice |-> 0, watermark |-> NoTime,
            read |-> {}, truncated |-> FALSE]

\* trades are numbered in the order they matched
Init ==
    /\ now = 0
    /\ \E at \in [TradeIds -> Times], late \in [TradeIds -> 0..Lateness] :
           /\ \A t, u \in TradeIds : t < u => at[t] <= at[u]
           /\ trade = [t \in TradeIds |-> [at |-> at[t], shown |-> at[t] + late[t]]]
           /\ persisted = IF Start = "legacy" THEN {t \in TradeIds : at[t] = 0 /\ late[t] = 0} ELSE {}
    /\ mark = [at |-> IF Start = "row" THEN 0 ELSE NoTime, slice |-> 0]
    /\ fetch = NoFetch /\ exhausted = FALSE

\* a trade is listed, and its order's id is known here, some time after it matched
Matched == {t \in TradeIds : trade[t].at <= now}
Shown == {t \in TradeIds : trade[t].shown <= now}

-----------------------------------------------------------------------------
(* One run *)

\* what a run does after its read does not depend on the clock
Tick ==
    /\ now < MaxNow /\ fetch.pc \in {"idle", "planned"}
    /\ now' = now + 1 /\ UNCHANGED <<trade, persisted, mark, fetch, exhausted>>

\* bootstrap_watermark: one overlap behind what the rows prove, or the whole history
BootstrapWatermark ==
    IF persisted = {} THEN NoTime ELSE Max({trade[t].at : t \in persisted}) - Overlap

\* read_watermark_state, plan_trade_window
Plan ==
    LET watermark == IF mark.at = NoTime THEN BootstrapWatermark ELSE mark.at
        after == watermark - Overlap
        before == after + mark.slice
        bounded == mark.slice # 0 /\ before < now
        whole == watermark = NoTime
    IN /\ fetch.pc = "idle"
       /\ fetch' = [NoFetch EXCEPT
             !.pc = "planned", !.planned = now, !.watermark = watermark, !.bootstrap = whole,
             !.after = IF whole THEN NoTime ELSE after,
             !.before = IF bounded /\ ~whole THEN before ELSE NoTime,
             !.slice = IF bounded /\ ~whole THEN mark.slice ELSE 0]
       /\ UNCHANGED <<now, trade, persisted, mark, exhausted>>

Window(f) ==
    {t \in Shown : /\ f.bootstrap \/ trade[t].at >= f.after
                   /\ f.before = NoTime \/ trade[t].at <= f.before}

\* fetch_trade_window: a cap that is reached truncates, also when nothing was left
Fetch ==
    LET cap == IF fetch.bootstrap THEN BootstrapRead ELSE MaxRead
        window == Window(fetch)
    IN /\ fetch.pc = "planned"
       /\ \/ /\ Cardinality(window) < cap
             /\ fetch' = [fetch EXCEPT !.pc = "read", !.read = window]
          \/ /\ Cardinality(window) >= cap
             /\ \E read \in kSubset(cap, window) :
                   fetch' = [fetch EXCEPT !.pc = "read", !.read = read, !.truncated = TRUE]
          \/ /\ Slow
             /\ \E read \in SUBSET window : Cardinality(read) < cap /\
                   fetch' = [fetch EXCEPT !.pc = "read", !.read = read, !.truncated = TRUE]
       /\ UNCHANGED <<now, trade, persisted, mark, exhausted>>

\* add_fill, once per trade id
Persist ==
    /\ fetch.pc = "read"
    /\ persisted' = persisted \cup fetch.read
    /\ fetch' = [fetch EXCEPT !.pc = "persisted"]
    /\ UNCHANGED <<now, trade, mark, exhausted>>

\* next_watermark_state for a window that was read to its end
Advanced(f) ==
    Max({IF f.before # NoTime THEN f.before ELSE f.planned, f.watermark}
        \cup {trade[t].at : t \in f.read})

\* ... for one that was not: a narrower slice, the watermark stays
Narrower(f) ==
    LET half == IF f.slice = 0 THEN (f.planned - f.after) \div 2 ELSE f.slice \div 2
    IN Max({half, 1})
CannotNarrow(f) == f.bootstrap \/ f.slice = 1

\* mutation: a truncated window moves the watermark as well
NextMarkAnyway(f) ==
    [at |-> Advanced(f), slice |-> IF f.truncated THEN Narrower(f) ELSE 0]

NextMark(f) ==
    IF f.truncated THEN [mark EXCEPT !.slice = Narrower(f)]
    ELSE [at |-> Advanced(f), slice |-> 0]

\* commit_trade_watermark: TradeWindowExhaustedError fails the run
Commit ==
    /\ fetch.pc = "persisted"
    /\ IF fetch.truncated /\ CannotNarrow(fetch)
       THEN exhausted' = TRUE /\ UNCHANGED mark
       ELSE mark' = NextMark(fetch) /\ UNCHANGED exhausted
    /\ fetch' = NoFetch
    /\ UNCHANGED <<now, trade, persisted>>

\* a read of the run raises, or the process restarts: the watermark is not moved
RunDies ==
    /\ fetch.pc # "idle" /\ fetch' = NoFetch
    /\ UNCHANGED <<now, trade, persisted, mark, exhausted>>

Next ==
    \/ Tick \/ Plan \/ Fetch \/ Persist \/ Commit \/ RunDies

Spec == Init /\ [][Next]_windowVars

-----------------------------------------------------------------------------
(* Properties *)

TypeOK ==
    /\ now \in Times /\ persisted \subseteq Matched /\ fetch.read \subseteq Shown
    /\ mark.at \in {NoTime} \cup (-2 * Overlap)..MaxNow /\ mark.slice \in Nat
    /\ fetch.pc \in {"idle", "planned", "read", "persisted"} /\ exhausted \in BOOLEAN

(* No trade is left behind the watermark: what no later window reaches is   *)
(* persisted, over lateness, truncated windows, slices, failed runs and     *)
(* restarts.                                                                *)
NothingBehindTheWatermark ==
    mark.at # NoTime =>
        \A t \in Matched : trade[t].at < mark.at - Overlap => t \in persisted
=============================================================================
