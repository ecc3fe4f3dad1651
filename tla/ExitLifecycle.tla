--------------------------- MODULE ExitLifecycle ----------------------------
(***************************************************************************)
(* The exit of one position: the take-profit, the latched stop and the     *)
(* operator's emergency close (live/strategy_runtime.py), the rows they    *)
(* write (live/strategy_repository.py), the venue, and the reconciliation  *)
(* run that books what was sold (live/reconciliation.py).                  *)
(*                                                                         *)
(* Whoever sells holds the exit lock of the position: one `seller'.  It    *)
(* works on a copy of the position's row.  The frame worker latches stops  *)
(* and the run repairs rows without that lock.  An action is the code      *)
(* between two awaits.  Rows survive a crash, coroutines do not.           *)
(* Books and prices are free choices; live mode; the market is open.       *)
(* Quarantine, authoritative repair and resolution are not modelled here.  *)
(***************************************************************************)
EXTENDS Integers, FiniteSetsExt, Functions

CONSTANTS
    Lot,         \* shares the position acquired
    MinOrder,    \* fewer shares than this cannot be sold: dust
    MaxSells,    \* bound on the sell intents of the position
    Optimistic,  \* stop_optimistic_submit_enabled
    FaultSets,   \* what may go wrong together, see FaultKinds
    None         \* no sell

FaultKinds == {"crash",        \* the process restarts
               "lost_reply",   \* create_order ends without an answer
               "lost_cancel",  \* cancel_order does
               "unreadable",   \* get_order raises, a read of the run does
               "delayed",      \* an accepted FAK rests before it is decided
               "late_trades", "late_positions"}  \* they are shown late

ASSUME ExitAssumption ==
    /\ {Lot, MinOrder, MaxSells} \subseteq Nat \ {0} /\ MinOrder <= Lot
    /\ Optimistic \in BOOLEAN /\ FaultSets \subseteq SUBSET FaultKinds
    /\ None \notin Nat \cup [balance : 0..Lot, open : BOOLEAN, trades : BOOLEAN]

Sells == 1..MaxSells
ERR == "EXIT_RECONCILIATION_REQUIRED"
Final == {"FILLED", "PARTIAL_FINAL", "ZERO_FILL", "CANCELED", "REJECTED", "FAILED"}
Pending == {"RESERVED", "SUBMITTING", "RECONCILIATION_REQUIRED", "LIVE", "PARTIAL",
            "WAITING_SELLABLE", "CANCEL_REQUESTED", "CANCEL_UNCERTAIN", "UNKNOWN"}
Purposes == {"TAKE_PROFIT", "STOP_066", "EMERGENCY"}
Actionable == {"OPEN", "TP_OPEN", "EXITING", ERR}

Position == [state : Actionable \cup {"DUST", "CLOSED"},
             remaining : 0..Lot, sellable : 0..Lot,
             booked : 0..Lot,          \* shares whose proceeds exit_value_text has
             latched : BOOLEAN,        \* stop_stage >= 1
             tp : Sells \cup {None}, active : Sells \cup {None}]
Intent == [state : {"none"} \cup Final \cup Pending, purpose : Purposes,
           known : BOOLEAN,            \* remote_order_id is recorded
           asked : 0..Lot,
           filled : 0..Lot,            \* filled_shares_text
           fills : 0..Lot]             \* shares of its rows in live_strategy_fills
VenueOrder == [at : {"none", "sent", "open", "matched", "canceled", "dead"},
               filled : 0..Lot, shown : 0..Lot]

VARIABLES
    position,  \* its row in live_strategy_positions
    intent,    \* live_strategy_intents: its EXIT and TP intents, in order
    seller,    \* the coroutine that holds the position's exit lock
    run,       \* the reconciliation run's coroutine and what it has read
    zero,      \* _unknown_zero_effect_observations of the worker
    hot,       \* what the hot snapshot of the frame worker shows
    venue,     \* the orders at the venue
    faults     \* what may go wrong in this behaviour

rows == <<position, intent>>
memory == <<zero, hot, faults>>
vars == <<position, intent, seller, run, zero, hot, venue, faults>>

NoIntent == [state |-> "none", purpose |-> "STOP_066", known |-> FALSE,
             asked |-> 0, filled |-> 0, fills |-> 0]
NoOrder == [at |-> "none", filled |-> 0, shown |-> 0]
IdleRun == [pc |-> "idle", open |-> {}, trades |-> [s \in Sells |-> 0], feed |-> 0,
            todo |-> {}, listed |-> [s \in Sells |-> NoIntent],
            matched |-> FALSE, gaps |-> FALSE, serves |-> FALSE]
IdleSeller == [pc |-> "idle", kind |-> "stop", copy |-> None, waiting |-> FALSE,
               sell |-> None]

\* the entry is booked; the account's views may not show it yet
Init ==
    /\ position = [state |-> "OPEN", remaining |-> Lot, sellable |-> 0, booked |-> 0,
                   latched |-> FALSE, tp |-> None, active |-> None]
    /\ intent = [s \in Sells |-> NoIntent]
    /\ seller = IdleSeller /\ run = IdleRun /\ zero = None /\ hot = "unlatched"
    /\ venue = [s \in Sells |-> NoOrder] /\ faults \in FaultSets

IsPending(s) == intent[s].state \in Pending
IsTp(s) == intent[s].purpose = "TAKE_PROFIT"
\* the sum of f over the sells
UpTo(f) == LET sum[n \in 0..MaxSells] == IF n = 0 THEN 0 ELSE sum[n - 1] + f[n] IN sum
Total(f) == UpTo(f)[MaxSells]
SoldAtVenue == Total([s \in Sells |-> venue[s].filled])
Owned == Lot - SoldAtVenue
Unused == {s \in Sells : intent[s].state = "none"}
IsOpen(s) == venue[s].at = "open"

-----------------------------------------------------------------------------
(* The rows: what each repository method makes of the position p *)

LinkOf(s) == IF IsTp(s) THEN "tp" ELSE "active"
Unlink(p, s) == IF p[LinkOf(s)] = s THEN [p EXCEPT ![LinkOf(s)] = None] ELSE p

\* latch_stop_exit, latch_invalid_entry_exit
LatchStop(p) ==
    IF p.remaining = 0 THEN p
    ELSE [p EXCEPT !.latched = TRUE, !.state = IF @ = ERR THEN ERR ELSE "EXITING"]

RequireReconciliation(p) ==
    IF p.remaining = 0 THEN p ELSE [p EXCEPT !.latched = TRUE, !.state = ERR]

ClearReconciliation(p) ==
    IF p.state = ERR /\ p.latched /\ p.remaining > 0
    THEN [p EXCEPT !.state = "EXITING"] ELSE p

\* reserve_position_intent, when no pending intent of the same action exists
Reserved(p, s, tp) ==
    IF tp THEN [p EXCEPT !.tp = s, !.state = "TP_OPEN"]
    ELSE [p EXCEPT !.active = s, !.state = "EXITING"]
SameActionPending(tp) == \E s \in Sells : IsPending(s) /\ IsTp(s) = tp

WaitingSellable(p, s) ==
    [p EXCEPT !.sellable = 0, !.state = IF IsTp(s) THEN "TP_OPEN" ELSE "EXITING"]

\* Mutant: the failed sell stays linked.
AfterFailureLinked(p, s) ==
    [p EXCEPT !.state = IF intent[s].purpose = "STOP_066" THEN "EXITING" ELSE "OPEN"]

\* finalize_position_intent_failure
AfterFailure(p, s) ==
    IF p[LinkOf(s)] # s THEN p
    ELSE LET stop == intent[s].purpose = "STOP_066" /\ p.remaining > 0
         IN  [Unlink(p, s) EXCEPT
                !.latched = @ \/ stop,
                !.state = IF p.remaining = 0 THEN @
                          ELSE IF stop THEN "EXITING" ELSE "OPEN"]

\* finalize_cancel; the link goes whatever it points to
AfterCancel(p, s, success) ==
    [p EXCEPT ![LinkOf(s)] = None,
              !.state = IF @ \notin Actionable THEN @
                        ELSE IF success THEN "OPEN" ELSE ERR]
CancelState(success) == IF success THEN "CANCELED" ELSE "CANCEL_UNCERTAIN"

\* apply_exit_fill up to `filled' shares of s in all: what is left before it,
\* with the baseline rebuilt when a lagging view had lowered it
Before(p, i) ==
    IF /\ p.booked = 0 /\ p.remaining < Lot /\ \A o \in Sells : i[o].filled = 0
    THEN Lot ELSE p.remaining

\* Mutant: the two counts are subtracted the wrong way round.
NewlyFilledSwapped(i, filled) ==
    IF filled > i.filled THEN 0 - (filled - i.filled) ELSE 0

NewlyFilled(i, filled) == IF filled > i.filled THEN filled - i.filled ELSE 0

AfterFill(p, i, s, filled, final) ==
    LET new == NewlyFilled(i[s], filled)
        before == Before(p, i)
        sold == IF new < before THEN new ELSE before
        left == before - sold
        over == left < MinOrder            \* closed, or dust
        keep == final = "PARTIAL" /\ IsTp(s)   \* a GTC still rests
    IN  [p EXCEPT
            !.remaining = left,
            !.sellable = IF over THEN 0 ELSE left,
            !.booked = @ + sold,
            !.latched = @ \/ ~IsTp(s),
            !.state = CASE left = 0 -> "CLOSED"
                        [] left > 0 /\ over -> "DUST"
                        [] ~over /\ IsTp(s) -> "TP_OPEN"
                        [] ~over /\ intent[s].purpose = "STOP_066" -> "EXITING"
                        [] OTHER -> "OPEN",
            !.active = IF over \/ ~keep THEN None ELSE @,
            !.tp = IF over THEN None ELSE @]
FilledState(s, filled, open) ==
    IF open THEN "PARTIAL" ELSE IF filled >= intent[s].asked THEN "FILLED" ELSE "PARTIAL_FINAL"
BookedIntent(i, filled, final) ==
    [i EXCEPT !.state = final, !.filled = IF filled > @ THEN filled ELSE @]

\* reconcile_remote_position: the account shows `shares' of the token
Corrected(p, shares) ==
    [p EXCEPT !.state = IF p.remaining = shares THEN @
                        ELSE IF p.latched THEN "EXITING" ELSE "OPEN",
              !.remaining = shares, !.sellable = shares]

-----------------------------------------------------------------------------
(* The frame worker: _manage_position and the hot snapshot *)

Shows(p) == CASE p.state \notin Actionable \/ p.remaining < MinOrder -> "nothing"
              [] p.state \in Actionable /\ p.remaining >= MinOrder /\ p.latched -> "latched"
              [] OTHER -> "unlatched"

\* hot_state_snapshot and its periodic refresh
RefreshHot ==
    /\ hot # Shows(position)
    /\ hot' = Shows(position)
    /\ UNCHANGED <<rows, seller, run, zero, venue, faults>>

\* a frame at or below the stop price, seen with the snapshot's position
FrameLatches ==
    /\ hot = "unlatched"
    /\ position' = LatchStop(position)
    /\ hot' = Shows(position')
    /\ UNCHANGED <<intent, seller, run, zero, venue, faults>>

(* The coroutine that holds the exit lock *)

SellerAt(pc) == seller.pc = pc
SellerGoes(pc) == seller' = [seller EXCEPT !.pc = pc]
SellerDone == seller' = IdleSeller

IsWaiting(s) == s # None /\ intent[s].state = "WAITING_SELLABLE"

\* the lock is taken, the hot state refreshed and the position copied from it
Load(kind) ==
    /\ SellerAt("idle") /\ Unused # {}
    /\ position.state \in Actionable /\ position.remaining >= MinOrder
    /\ seller' = [IdleSeller EXCEPT !.pc = "loaded", !.kind = kind, !.copy = position,
                    !.waiting = IsWaiting(position.active)]
    /\ hot' = Shows(position)
    /\ UNCHANGED <<rows, run, zero, venue, faults>>

\* _submit_latched_exit: tier 0, and no exit that is under way
LoadStop ==
    /\ position.latched \/ position.state \in {"EXITING", ERR}
    /\ position.state = ERR \/ position.active = None \/ IsWaiting(position.active)
    /\ Load("stop")

\* _ensure_take_profit
LoadTakeProfit ==
    /\ position.state = "OPEN" /\ ~position.latched /\ position.tp = None
    /\ Load("tp")

\* _resume_waiting_sellable_intent, of a take-profit
LoadResume ==
    /\ IsWaiting(position.tp) /\ position.active = None /\ position.sellable > 0
    /\ Load("resume")

\* emergency_close_all, after its run
LoadEmergency == Load("emergency")

\* the position waits for a run
AskRun ==
    /\ SellerAt("loaded") /\ seller.kind = "stop" /\ seller.copy.state = ERR
    /\ SellerGoes("clearing")
    /\ UNCHANGED <<rows, run, memory, venue>>

\* _clear_local_waiting_intent and the refresh after it
ClearWaiting(s) ==
    /\ intent' = [intent EXCEPT ![s].state = "CANCELED"]
    /\ position' = AfterCancel(position, s, TRUE)

\* _resume_waiting_sellable_intent_locked
Resume ==
    /\ SellerAt("loaded") /\ seller.copy.state # ERR
    /\ \/ seller.kind = "stop" /\ seller.waiting
       \/ seller.kind = "resume"
    /\ LET s == IF seller.kind = "stop" THEN seller.copy.active ELSE seller.copy.tp
       IN  IF seller.copy.sellable > 0 /\ IsWaiting(s)
           THEN ClearWaiting(s) /\ SellerGoes("reloading")
           ELSE SellerDone /\ UNCHANGED rows
    /\ UNCHANGED <<run, memory, venue>>

\* a position that is not actionable any more leaves the old copy in use
Fresh == IF position.state \in Actionable THEN position ELSE seller.copy

Reload ==
    /\ SellerAt("reloading")
    /\ LET c == IF position.state = "CLOSED" THEN seller.copy ELSE position
       IN  IF c.remaining < MinOrder THEN SellerDone
           ELSE seller' = [seller EXCEPT !.copy = c,
                    !.kind = IF @ = "resume" THEN "tp" ELSE @,
                    !.pc = IF seller.kind = "resume" THEN "loaded" ELSE "exiting"]
    /\ hot' = Shows(position)
    /\ UNCHANGED <<rows, run, zero, venue, faults>>

Reserve(s, purpose, asked, state) ==
    /\ intent' = [intent EXCEPT ![s] = [NoIntent EXCEPT !.state = state,
                                          !.purpose = purpose, !.asked = asked]]
    /\ position' = LET p == Reserved(position, s, purpose = "TAKE_PROFIT")
                   IN  IF state # "WAITING_SELLABLE" THEN p ELSE [p EXCEPT !.sellable = 0]
    /\ IF state = "WAITING_SELLABLE" THEN SellerDone
       ELSE seller' = [seller EXCEPT !.pc = "posting", !.sell = s]

\* _ensure_take_profit_locked: all the shares, or none yet
TakeProfit ==
    LET c == seller.copy IN
    /\ SellerAt("loaded") /\ seller.kind = "tp"
    /\ IF c.tp # None \/ c.state # "OPEN" \/ c.latched \/ SameActionPending(TRUE)
       THEN SellerDone /\ UNCHANGED rows
       ELSE Reserve(Min(Unused), "TAKE_PROFIT", c.remaining,
                    IF c.sellable < c.remaining THEN "WAITING_SELLABLE" ELSE "RESERVED")
    /\ UNCHANGED <<run, memory, venue>>

\* _market_exit_fak begins
BeginExit ==
    /\ SellerAt("loaded")
    /\ \/ seller.kind = "emergency"
       \/ seller.kind = "stop" /\ ~seller.waiting /\ seller.copy.latched /\ seller.copy.state # ERR
    /\ SellerGoes("exiting")
    /\ UNCHANGED <<rows, run, memory, venue>>

\* what the copy still links to: first the active exit, then the take-profit
Linked == IF seller.copy.active # None THEN "active" ELSE "tp"
Standing == seller.copy[Linked]
\* the part of _market_exit_fak for that link is over
PartOver(c) ==
    seller' = [seller EXCEPT !.pc = "exiting", !.sell = None,
        !.copy = IF seller.copy.active # None THEN [c EXCEPT !.active = None]
                 ELSE [c EXCEPT !.active = None, !.tp = None]]

\* an order that never reached the venue is superseded in the rows
Supersede ==
    /\ SellerAt("exiting") /\ IsWaiting(Standing)
    /\ ClearWaiting(Standing)
    /\ PartOver(IF position'.state \in Actionable THEN position' ELSE seller.copy)
    /\ UNCHANGED <<run, memory, venue>>

\* its order may stand, but under what id?
RefuseUnknown ==
    /\ SellerAt("exiting") /\ Standing # None
    /\ ~IsWaiting(Standing) /\ ~intent[Standing].known
    /\ position' = RequireReconciliation(position)
    /\ SellerDone
    /\ UNCHANGED <<intent, run, memory, venue>>

\* cancel_active_exit, cancel_tp: of the link the row has now
Cancel ==
    LET r == position[Linked] IN
    /\ SellerAt("exiting") /\ Standing # None
    /\ ~IsWaiting(Standing) /\ intent[Standing].known
    /\ IF r = None THEN PartOver(Fresh) /\ UNCHANGED intent
       ELSE /\ intent' = [intent EXCEPT ![r].state = "CANCEL_REQUESTED"]
            /\ seller' = [seller EXCEPT !.pc = "cancelling", !.sell = r]
    /\ UNCHANGED <<position, run, memory, venue>>

\* Mutant: the answer of the cancellation is not looked at.
CancelAnyhow(success) ==
    /\ SellerAt("cancelling")
    /\ LET s == seller.sell IN
       /\ intent' = [intent EXCEPT ![s].state = "CANCELED"]
       /\ position' = AfterCancel(position, s, TRUE)
    /\ SellerGoes("settling")
    /\ UNCHANGED <<run, memory, venue>>

CancelAnswered(success) ==
    LET s == seller.sell IN
    /\ SellerAt("cancelling")
    /\ IF success THEN venue[s].at = "canceled" /\ intent[s].known
       ELSE \/ "lost_cancel" \in faults
            \/ ~intent[s].known \/ venue[s].at \notin {"open", "canceled"}
    /\ intent' = [intent EXCEPT ![s].state = CancelState(success)]
    /\ position' = AfterCancel(position, s, success)
    /\ IF success THEN SellerGoes("settling") ELSE SellerDone
    /\ UNCHANGED <<run, memory, venue>>

\* Mutant: what the cancelled order filled is not read.
SettleBlindly ==
    /\ SellerAt("settling")
    /\ PartOver(Fresh)
    /\ UNCHANGED <<rows, run, memory, venue>>

\* _post_cancel_settle_or_reconcile
Settle ==
    /\ SellerAt("settling")
    /\ \/ /\ venue[seller.sell].filled = 0
          /\ PartOver(Fresh) /\ UNCHANGED position
       \/ /\ venue[seller.sell].filled > 0
          /\ SellerGoes("reconciling") /\ UNCHANGED position
       \/ /\ "unreadable" \in faults
          /\ position' = RequireReconciliation(position) /\ SellerDone
    /\ UNCHANGED <<intent, run, memory, venue>>

Settled ==
    /\ SellerAt("settled")
    /\ PartOver(Fresh)
    /\ UNCHANGED <<rows, run, memory, venue>>

Unsettled ==
    /\ SellerAt("unsettled")
    /\ position' = RequireReconciliation(position) /\ SellerDone
    /\ UNCHANGED <<intent, run, memory, venue>>

\* nothing stands: sell what the copy says is sellable
Sell ==
    LET c == seller.copy
        purpose == IF seller.kind = "stop" THEN "STOP_066" ELSE "EMERGENCY"
        shares == IF c.sellable > 0 THEN c.sellable ELSE c.remaining
    IN  /\ SellerAt("exiting") /\ Standing = None
        /\ IF shares = 0 \/ SameActionPending(FALSE)
           THEN SellerDone /\ UNCHANGED rows
           ELSE Reserve(Min(Unused), purpose, shares,
                IF c.sellable > 0 \/ Optimistic THEN "SUBMITTING" ELSE "WAITING_SELLABLE")
        /\ UNCHANGED <<run, memory, venue>>

\* _assert_allowance: the account has fewer shares than that
Insufficient ==
    LET s == seller.sell IN
    /\ SellerAt("posting") /\ Owned < intent[s].asked
    /\ intent' = [intent EXCEPT ![s].state = "WAITING_SELLABLE"]
    /\ position' = WaitingSellable(position, s)
    /\ SellerDone
    /\ UNCHANGED <<run, memory, venue>>

Post ==
    /\ SellerAt("posting") /\ Owned >= intent[seller.sell].asked
    /\ venue' = [venue EXCEPT ![seller.sell].at = "sent"]
    /\ SellerGoes("posted")
    /\ UNCHANGED <<rows, run, memory>>

\* _finalize_known_no_remote_submission: not filled, refused, or not even
\* posted (no allowance, no signature)
Failed ==
    LET s == seller.sell IN
    /\ \/ SellerAt("posting")
       \/ SellerAt("posted") /\ venue[s].at = "dead"
    /\ intent' = [intent EXCEPT ![s].state =
                    IF SellerAt("posted") /\ ~IsTp(s) THEN "ZERO_FILL" ELSE "FAILED"]
    /\ position' = AfterFailure(position, s)
    /\ SellerDone
    /\ UNCHANGED <<run, memory, venue>>

\* an exit is not over before a run has seen it
Posted(s, known) ==
    /\ intent' = [intent EXCEPT ![s].known = known,
            ![s].state = IF ~IsTp(s) THEN "RECONCILIATION_REQUIRED"
                         ELSE IF known THEN "LIVE" ELSE "UNKNOWN"]
    /\ IF IsTp(s) THEN SellerDone /\ UNCHANGED position
       ELSE /\ position' = RequireReconciliation(position)
            /\ SellerGoes("clearing")

Accepted ==
    /\ SellerAt("posted") /\ venue[seller.sell].at \in {"open", "matched"}
    /\ Posted(seller.sell, TRUE)
    /\ UNCHANGED <<run, memory, venue>>

\* UNKNOWN_AFTER_SUBMISSION
LostReply ==
    /\ SellerAt("posted") /\ "lost_reply" \in faults
    /\ Posted(seller.sell, FALSE)
    /\ UNCHANGED <<run, memory, venue>>

Cleared ==
    /\ SellerAt("cleared")
    /\ position' = ClearReconciliation(position)
    /\ SellerDone
    /\ UNCHANGED <<intent, run, memory, venue>>

SellerStep ==
    \/ LoadStop \/ LoadTakeProfit \/ LoadResume \/ LoadEmergency \/ AskRun
    \/ Resume \/ Reload \/ TakeProfit \/ BeginExit \/ Supersede \/ RefuseUnknown
    \/ Cancel \/ (\E success \in BOOLEAN : CancelAnswered(success)) \/ Settle \/ Settled
    \/ Unsettled \/ Sell \/ Insufficient \/ Post \/ Failed \/ Accepted \/ LostReply
    \/ Cleared

-----------------------------------------------------------------------------
(* One reconciliation run, as far as it is about exits *)

\* open orders and trades; it serves who asked before it began
ReadOrders ==
    /\ run.pc = "idle"
    /\ run' = [IdleRun EXCEPT !.pc = "orders",
                !.open = {s \in Sells : IsOpen(s)},
                !.trades = [s \in Sells |-> venue[s].shown],
                !.serves = seller.pc \in {"clearing", "reconciling"}]
    /\ UNCHANGED <<rows, seller, memory, venue>>

Greater(m, n) == IF m > n THEN m ELSE n

\* the fills of the orders the rows know
WithFills == [s \in Sells |->
    IF intent[s].known THEN [intent[s] EXCEPT !.fills = Greater(@, run.trades[s])]
    ELSE intent[s]]

\* ingest_maker_exit_fills: a resting take-profit is the maker of its trades;
\* what its row lacks is booked whatever the intent has become
BookMaker(s, r) ==
    LET final == IF s \in run.open THEN "PARTIAL"
                 ELSE IF r.intent[s].fills >= r.intent[s].asked THEN "FILLED"
                 ELSE "PARTIAL_FINAL"
    IN  [position |-> AfterFill(r.position, r.intent, s, r.intent[s].fills, final),
         intent |-> [r.intent EXCEPT
                        ![s] = BookedIntent(@, r.intent[s].fills, final)]]

Drifted(i) == {s \in Sells : i[s].state # "none" /\ i[s].purpose = "TAKE_PROFIT"
                                /\ i[s].fills > i[s].filled}

\* the rows after the first n sells
MakersBooked ==
    LET booked[n \in 0..MaxSells] ==
            IF n = 0 THEN [position |-> position, intent |-> WithFills]
            ELSE IF n \in Drifted(WithFills) THEN BookMaker(n, booked[n - 1])
            ELSE booked[n - 1]
    IN  booked

\* the positions are read: as they are, or as they were
ReadPositions ==
    LET r == MakersBooked[MaxSells]
    IN  /\ run.pc = "orders"
        /\ position' = r.position /\ intent' = r.intent
        /\ \E feed \in IF "late_positions" \in faults THEN {0} \cup Owned..Lot ELSE {Owned} :
                run' = [run EXCEPT !.pc = "positions", !.feed = feed,
                          !.gaps = Drifted(WithFills) # {}]
        /\ UNCHANGED <<seller, memory, venue>>

\* what was repaired is compared with the token's balance; then
\* unresolved_intents, as rows of now
ListIntents ==
    /\ run.pc = "positions"
    /\ run' = [run EXCEPT !.pc = "intents",
                !.gaps = @ /\ position.remaining # Owned,
                !.todo = {s \in Sells : IsPending(s)},
                !.listed = [s \in Sells |-> IF IsPending(s) THEN intent[s] ELSE NoIntent]]
    /\ UNCHANGED <<rows, seller, memory, venue>>

Listed(s) == run.pc = "intents" /\ s \in run.todo /\ s = Min(run.todo)
Done(s, gap) == run' = [run EXCEPT !.todo = @ \ {s}, !.gaps = @ \/ gap]

\* an intent without an order: it waits, is being posted, or is a gap
Unidentified(s) ==
    /\ Listed(s) /\ ~run.listed[s].known
    /\ LET i == run.listed[s] IN
       \/ i.state = "WAITING_SELLABLE" /\ Done(s, FALSE)
       \/ i.state \in {"RESERVED", "SUBMITTING"} /\ seller.sell = s /\ Done(s, FALSE)
       \/ i.state # "WAITING_SELLABLE" /\ Done(s, TRUE)
    /\ UNCHANGED <<rows, seller, memory, venue>>

\* what proves that an exit had no effect: the same balance twice, no order
\* and no trade that could be its own
Evidence == [balance |-> Owned, open |-> run.open = {},
             trades |-> \A o \in Sells : run.trades[o] = 0]
ZeroEffect(s) ==
    /\ intent[s].state = "RECONCILIATION_REQUIRED" /\ ~IsTp(s)
    /\ intent[s].filled = 0 /\ intent[s].fills = 0 /\ position[LinkOf(s)] = s
    /\ position.state = ERR /\ position.remaining = Owned
    /\ run.open = {} /\ \A o \in Sells : run.trades[o] = 0

\* Mutant: one observation is enough.
ZeroEffectAtOnce(s) ==
    /\ Listed(s) /\ ~run.listed[s].known
    /\ run.listed[s].state = "RECONCILIATION_REQUIRED"
    /\ intent' = [intent EXCEPT ![s].state = "ZERO_FILL"]
    /\ position' = [Unlink(position, s) EXCEPT !.state =
                        IF position.latched THEN "EXITING" ELSE "OPEN"]
    /\ Done(s, FALSE)
    /\ UNCHANGED <<seller, memory, venue>>

\* resolve_unknown_open_exit_zero_effect, after the grace of its submission
Unsubmitted(s) ==
    /\ Listed(s) /\ ~run.listed[s].known /\ ~IsTp(s)
    /\ run.listed[s].state = "RECONCILIATION_REQUIRED"
    /\ venue[s].at # "sent"
    /\ \/ /\ zero # Evidence
          /\ zero' = Evidence /\ Done(s, TRUE)
          /\ UNCHANGED rows
       \/ /\ zero = Evidence /\ ZeroEffect(s)
          /\ intent' = [intent EXCEPT ![s].state = "ZERO_FILL"]
          /\ position' = [Unlink(position, s) EXCEPT !.state =
                              IF position.latched THEN "EXITING" ELSE "OPEN"]
          /\ zero' = None /\ Done(s, FALSE)
       \/ /\ zero = Evidence /\ ~ZeroEffect(s)
          /\ Done(s, TRUE)
          /\ UNCHANGED <<rows, zero>>
    /\ UNCHANGED <<seller, hot, venue, faults>>

\* an order listed as open is not asked for again
Seen(s) == IF s \in run.open THEN "open" ELSE venue[s].at
StillOpen(s) == Seen(s) = "open"

\* get_order was awaited; some of the order is in the fills
Filled(s) ==
    LET fills == intent[s].fills
        final == FilledState(s, fills, StillOpen(s))
    IN  /\ Listed(s) /\ run.listed[s].known /\ fills > 0
        /\ \/ /\ fills > run.listed[s].filled
              /\ position' = AfterFill(position, intent, s, fills, final)
              /\ intent' = [intent EXCEPT ![s] = BookedIntent(@, fills, final)]
           \/ /\ fills <= run.listed[s].filled /\ ~StillOpen(s) /\ IsPending(s)
              /\ intent' = [intent EXCEPT ![s].state = final]
              /\ position' = Unlink(position, s)
           \/ /\ fills <= run.listed[s].filled /\ (StillOpen(s) \/ ~IsPending(s))
              /\ UNCHANGED rows
        /\ Done(s, FALSE)
        /\ UNCHANGED <<seller, memory, venue>>

\* none of it is: open; matched, whose trades must come; cancelled; or dead
Unfilled(s) ==
    /\ Listed(s) /\ run.listed[s].known /\ intent[s].fills = 0
    /\ \/ /\ StillOpen(s)
          /\ intent' = [intent EXCEPT ![s].state = "LIVE", ![s].filled = 0]
          /\ UNCHANGED position /\ Done(s, FALSE)
       \/ /\ Seen(s) = "matched"
          /\ intent' = [intent EXCEPT ![s].state = "RECONCILIATION_REQUIRED"]
          /\ \/ UNCHANGED position /\ run' = [run EXCEPT !.todo = @ \ {s}, !.matched = TRUE]
             \/ /\ position' = RequireReconciliation(position)
                /\ run' = [run EXCEPT !.todo = @ \ {s}, !.matched = TRUE, !.gaps = TRUE]
       \/ /\ Seen(s) = "canceled"
          /\ intent' = [intent EXCEPT ![s].state = "CANCELED"]
          /\ position' = AfterCancel(position, s, TRUE) /\ Done(s, FALSE)
       \/ /\ Seen(s) = "dead"
          /\ intent' = [intent EXCEPT ![s].state = "FAILED"]
          /\ UNCHANGED position /\ Done(s, FALSE)
    /\ UNCHANGED <<seller, memory, venue>>

\* the order cannot be read: a gap, and the next one
Unreadable(s) ==
    /\ "unreadable" \in faults
    /\ Listed(s) /\ run.listed[s].known
    /\ Done(s, TRUE)
    /\ UNCHANGED <<rows, seller, memory, venue>>

\* who waits for the run is told
Ended(ok) ==
    /\ run' = IdleRun
    /\ IF ~run.serves THEN UNCHANGED seller
       ELSE CASE seller.pc = "clearing" /\ ok -> SellerGoes("cleared")
              [] seller.pc = "clearing" /\ ~ok -> SellerDone
              [] seller.pc = "reconciling" /\ ok -> SellerGoes("settled")
              [] seller.pc = "reconciling" /\ ~ok -> SellerGoes("unsettled")
              [] OTHER -> UNCHANGED seller

\* a view of the positions older than a booked exit
AfterExit == position.booked > 0 /\ run.feed > position.remaining

\* the remote and the local positions, and the end of the run
RemotePositions ==
    /\ run.pc = "intents" /\ run.todo = {}
    /\ \/ /\ run.feed > 0 /\ ~AfterExit
          /\ position' = Corrected(position, run.feed)
          /\ Ended(~run.gaps /\ position.remaining = run.feed)
       \/ /\ run.feed > 0 /\ AfterExit
          /\ UNCHANGED position
          /\ \E ok \in BOOLEAN : Ended(ok /\ ~run.gaps)
       \/ \* missing there: the token's balance decides, or the grace
          /\ run.feed = 0
          /\ UNCHANGED position
          /\ \/ Ended(~run.gaps /\ (run.matched \/ position.remaining = Owned))
             \/ position.sellable = 0 /\ Ended(~run.gaps)
    /\ UNCHANGED <<intent, memory, venue>>

RunRaises ==
    /\ "unreadable" \in faults /\ run.pc # "idle"
    /\ Ended(FALSE)
    /\ UNCHANGED <<rows, memory, venue>>

RunStep ==
    \/ ReadOrders \/ ReadPositions \/ ListIntents
    \/ (\E s \in Sells : Unidentified(s) \/ Unsubmitted(s) \/ Filled(s) \/ Unfilled(s)
                            \/ Unreadable(s))
    \/ RemotePositions \/ RunRaises

Crash ==
    /\ "crash" \in faults
    /\ seller' = IdleSeller /\ run' = IdleRun /\ zero' = None /\ hot' = "nothing"
    /\ UNCHANGED <<rows, venue, faults>>

-----------------------------------------------------------------------------
(* The venue: it takes no sell of more shares than are not offered yet *)

Offered == Total([s \in Sells |-> IF IsOpen(s) THEN intent[s].asked - venue[s].filled ELSE 0])
At(s, at, filled) ==
    /\ venue' = [venue EXCEPT ![s].at = at, ![s].filled = filled,
                              ![s].shown = IF "late_trades" \in faults THEN @ ELSE filled]
    /\ UNCHANGED <<rows, seller, run, memory>>

Arrive(s) ==
    /\ venue[s].at = "sent"
    /\ \/ At(s, "dead", 0)
       \/ /\ intent[s].asked <= Owned - Offered
          /\ IsTp(s) \/ "delayed" \in faults
          /\ At(s, "open", 0)
       \/ /\ intent[s].asked <= Owned - Offered /\ ~IsTp(s)
          /\ \E n \in 1..intent[s].asked : At(s, "matched", n)

\* a resting take-profit is filled share by share, a delayed FAK at once
Fill(s) ==
    /\ IsOpen(s)
    /\ \/ /\ IsTp(s)
          /\ LET n == venue[s].filled + 1
             IN  At(s, IF n = intent[s].asked THEN "matched" ELSE "open", n)
       \/ /\ ~IsTp(s)
          /\ \E n \in 0..intent[s].asked : At(s, IF n = 0 THEN "dead" ELSE "matched", n)

CancelArrives(s) ==
    /\ IsOpen(s) /\ SellerAt("cancelling") /\ seller.sell = s /\ intent[s].known
    /\ At(s, "canceled", venue[s].filled)

Show(s) ==
    /\ venue[s].shown < venue[s].filled
    /\ venue' = [venue EXCEPT ![s].shown = venue[s].filled]
    /\ UNCHANGED <<rows, seller, run, memory>>

VenueStep == \E s \in Sells : Arrive(s) \/ Fill(s) \/ CancelArrives(s) \/ Show(s)

Next == RefreshHot \/ FrameLatches \/ SellerStep \/ RunStep \/ Crash \/ VenueStep

Spec == Init /\ [][Next]_vars

(* Whoever has the lock goes on (its calls have time limits), the periodic    *)
(* loop runs the reconciliation, the snapshot is refreshed, and the venue     *)
(* decides what it was sent.  It may never fill a resting order.  Nothing  *)
(* is assumed of disturbed behaviours: no liveness property speaks of them.   *)
Undisturbed(step) == faults = {} /\ step
Fairness ==
    /\ WF_vars(Undisturbed(SellerStep)) /\ WF_vars(Undisturbed(RunStep))
    /\ WF_vars(Undisturbed(RefreshHot))
    /\ \A s \in Sells :
        /\ WF_vars(Undisturbed(Arrive(s))) /\ WF_vars(Undisturbed(CancelArrives(s)))
        /\ WF_vars(Undisturbed(Show(s)))

FairSpec == Spec /\ Fairness

-----------------------------------------------------------------------------
(* Properties *)

\* The rows, the coroutine and the venue hold what they may hold.
TypeOK ==
    /\ position \in Position /\ intent \in [Sells -> Intent]
    /\ venue \in [Sells -> VenueOrder]
    /\ seller.kind \in {"stop", "tp", "resume", "emergency"}
    /\ seller.sell \in Sells \cup {None}
    /\ hot \in {"nothing", "latched", "unlatched"}

AtVenue == {s \in Sells : venue[s].at \in {"sent", "open"}}

\* What is left after an exit cannot be sold: apply_exit_fill closes the
\* position, or calls it dust, and cuts both its links
Cut(p) == p.booked > 0 /\ p.remaining < MinOrder

\* a take-profit came after one that was cancelled; finalize_cancel of the first
\* one, which a run repeats, clears the link of the second
Replaced == \E o, s \in Sells : /\ o # s /\ IsTp(o) /\ IsTp(s)
                                /\ venue[o].at = "canceled" /\ venue[s].at # "none"

\* Nothing happened that lets the rows lose an order that stands.
Orderly == faults \cap {"crash", "lost_cancel"} = {} /\ ~Cut(position) /\ ~Replaced

\* what sells with a stop, an emergency close or a resumed exit
ExitsAtVenue == {s \in AtVenue : ~IsTp(s)}

\* However the take-profit, the stop, the operator and the run interleave, the
\* exit keeps its custody: as long as it is orderly no second sell is offered
\* while one may be filled, and a stop never beside another, whatever crashes or
\* is lost; nothing is booked that was not sold; and a latched stop is never
\* forgotten.
Custody == INSTANCE ExitCustody WITH
    orderly <- Orderly,
    selling <- AtVenue, exits <- ExitsAtVenue, sold <- SoldAtVenue,
    booked <- position.booked, stop <- position.latched
RefinesExitCustody == Custody!CustodySpec

\* A cancellation that was not confirmed must not be followed by another sell
\* (SYSTEM_CONTEXT.md:134), whatever the next reconciliation run makes of it.
OneSellAtATime == Cardinality(AtVenue) <= 1

\* A sell the rows call cancelled, failed or without effect cannot be filled
\* any more, and one without effect has sold nothing: whatever was concluded
\* from lagging views, an unknown order's silence or a lost reply.
FinalIsTrue ==
    \A s \in Sells :
        /\ intent[s].state \in {"CANCELED", "FAILED", "ZERO_FILL"} => s \notin AtVenue
        /\ intent[s].state = "ZERO_FILL" => venue[s].filled = 0

\* A sell is posted only when every share that earlier sells sold is in the
\* rows: the share count it asks for is not read before a cancellation and used
\* after it.  A crash between the two, or views that lag, can defeat that.
SellIsSettled ==
    [][seller.pc = "posting" /\ seller'.pc = "posted"
                /\ faults \subseteq {"lost_reply", "delayed"}
                /\ Orderly
        => \A s \in Sells : venue[s].filled = intent[s].filled]_vars

\* When nothing goes wrong a latched stop sells out, whatever take-profit
\* rested and however often the venue refuses it, up to MaxSells.
StopSellsOut ==
    faults = {} /\ position.latched ~> position.remaining < MinOrder \/ Unused = {}
=============================================================================
