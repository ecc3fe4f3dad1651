----------------------------- MODULE Settlement ------------------------------
(***************************************************************************)
(* The end of a position (live/reconciliation.py,                          *)
(* _reconcile_resolved_local_positions and _try_authoritative_exit_repair; *)
(* live/strategy_repository.py): its market resolves while an exit may     *)
(* still be on its way, and what the wallet holds, what the positions feed *)
(* shows and what the row says agree only in the end.  One position of     *)
(* Acquired shares with at most one exit; a run of the reconciliation      *)
(* worker is the steps of worker.pc, with an await between two of them.    *)
(***************************************************************************)
EXTENDS Integers, FiniteSets

CONSTANTS
    Acquired,     \* shares bought
    MinOrder,     \* a remainder below it cannot be sold
    MaxUnread,    \* bound on the balances that cannot be read
    Starts        \* "held", or "legacy": a winner whose exit was never settled

SettlementAssumption ==
    /\ Acquired \in Nat \ {0} /\ MinOrder \in 1..Acquired
    /\ MaxUnread \in Nat /\ Starts \subseteq {"held", "legacy"}

VARIABLES
    winner,       \* the token of the position won
    known,        \* the market row: "open", "nameless" (resolved) or "named"
    wallet,       \* shares at the token-balance endpoint
    redeemed,     \* shares redeemed on chain
    shown,        \* shares in the public positions feed
    exit,         \* the sell: state, reply of the create call, sold, pended
    row,          \* the position: state, remaining, sold (booked), closed, link
    young,        \* created less than POSITION_PROPAGATION_GRACE_SECONDS ago
    quarantined,  \* an open quarantine record
    losses,       \* deals counted in live_daily_limits
    seen,         \* zeros observed; the evidence of a repair, its count and age
    worker,       \* the run: pc, the feed and the row it has read
    unread,       \* balances that could not be read so far
    operator      \* the shares RESOLVE_REDEEMED_POSITION has read, when it runs

settleVars == <<winner, known, wallet, redeemed, shown, exit, row, young, quarantined,
                losses, seen, worker, unread, operator>>

Unknown == -1
ERR == "EXIT_RECONCILIATION_REQUIRED"
Resolved == {"RESOLVED_WINNER", "RESOLVED_LOSER", "REDEEM_PENDING", "REDEEMED"}
Managed == {"OPEN", "EXITING", ERR, "DUST", "QUARANTINED"}
NoEvidence == [observed |-> Unknown, reply |-> Unknown, valid |-> FALSE]
Idle == [pc |-> "idle", feed |-> 0, row |-> row, linked |-> FALSE]

InitFrom(legacy) ==
    /\ winner \in BOOLEAN /\ wallet = Acquired /\ shown = Acquired /\ redeemed = 0
    /\ known = IF legacy THEN "named" ELSE "open"
    /\ exit = [state |-> IF legacy THEN "required" ELSE "none",
               reply |-> Unknown, sold |-> 0, pended |-> FALSE]
    /\ row = [state |-> IF legacy THEN "REDEEM_PENDING" ELSE "OPEN",
              remaining |-> Acquired, sold |-> 0, closed |-> FALSE, link |-> legacy]
    /\ young = ~legacy /\ quarantined = FALSE /\ losses = 0 /\ operator = Unknown
    /\ unread = 0 /\ worker = Idle
    /\ seen = [zeros |-> 0, key |-> NoEvidence, count |-> 0, old |-> FALSE]
Init == \E start \in Starts : InitFrom(start = "legacy")

Unresolved == exit.state \in {"submitting", "required"}

-----------------------------------------------------------------------------
(* mark_position_resolved, on the row as it is now *)

AlreadySettled(w) ==
    \/ row.state \in {"REDEEMED", "RESOLVED_LOSER"}
    \/ row.state \in {"RESOLVED_WINNER", "REDEEM_PENDING"} /\ w

\* mutation: the link is not looked at
NothingBlocks == FALSE
\* an exit that may exist at the exchange is never buried
BlockedByExit == row.link /\ Unresolved

Resolve(w) ==
    IF BlockedByExit \/ AlreadySettled(w) THEN UNCHANGED <<row, losses>>
    ELSE /\ row' = [row EXCEPT !.state = IF w THEN "REDEEM_PENDING" ELSE "RESOLVED_LOSER"]
         /\ losses' = IF w \/ row.state \in {"RESOLVED_WINNER", "REDEEM_PENDING"}
                      THEN losses ELSE losses + 1

-----------------------------------------------------------------------------
(* The market and the wallet *)

\* the row of the market is written by discovery, the stream and the resolver
MarketRow ==
    /\ \/ known = "open" /\ known' \in {"nameless", "named"}
       \/ known = "nameless" /\ known' = "named"
    /\ UNCHANGED <<winner, wallet, redeemed, shown, exit, row, young, quarantined,
                   losses, seen, worker, unread, operator>>

\* a winner is redeemed, a worthless balance may be swept
Redeem ==
    /\ known # "open" /\ wallet > 0 /\ wallet' = 0 /\ redeemed' = wallet
    /\ UNCHANGED <<winner, known, shown, exit, row, young, quarantined, losses, seen,
                   worker, unread, operator>>

FeedCatchesUp ==
    /\ shown # wallet /\ shown' = wallet
    /\ UNCHANGED <<winner, known, wallet, redeemed, exit, row, young, quarantined,
                   losses, seen, worker, unread, operator>>

\* fifteen seconds pass: of the position, and of the evidence of a repair
Age ==
    /\ young \/ (seen.count > 0 /\ ~seen.old)
    /\ young' = FALSE /\ seen' = [seen EXCEPT !.old = seen.count > 0]
    /\ UNCHANGED <<winner, known, wallet, redeemed, shown, exit, row, quarantined,
                   losses, worker, unread, operator>>

-----------------------------------------------------------------------------
(* The exit of the strategy, with its awaited create call *)

Submit ==
    /\ exit.state = "none" /\ row.state \in {"OPEN", "EXITING"}
    /\ exit' = [exit EXCEPT !.state = "submitting"]
    /\ row' = [row EXCEPT !.state = "EXITING", !.link = TRUE]
    /\ UNCHANGED <<winner, known, wallet, redeemed, shown, young, quarantined, losses,
                   seen, worker, unread, operator>>

\* the exchange sells what it can while the market is open; the reply may be lost
Answered ==
    /\ exit.state = "submitting" /\ exit.reply = Unknown
    /\ \E sold \in 0..wallet : \E lost \in BOOLEAN :
        /\ known = "open" \/ sold = 0
        /\ wallet' = wallet - sold
        /\ IF sold = 0 /\ ~lost
           THEN /\ exit' = [exit EXCEPT !.state = "final"]
                /\ row' = IF row.link THEN [row EXCEPT !.state = "EXITING", !.link = FALSE]
                          ELSE row
           ELSE /\ exit' = [exit EXCEPT !.state = "required", !.sold = sold,
                                        !.reply = IF lost THEN Unknown ELSE sold]
                /\ row' = IF row.remaining = 0 THEN row ELSE [row EXCEPT !.state = ERR]
    /\ UNCHANGED <<winner, known, redeemed, shown, young, quarantined, losses, seen,
                   worker, unread, operator>>

-----------------------------------------------------------------------------
(* A run of the reconciliation worker *)

At(pc) == worker.pc = pc
Goto(pc) == worker' = [worker EXCEPT !.pc = pc]

ReadPositions ==
    /\ At("idle") /\ worker' = [Idle EXCEPT !.pc = "resolved", !.feed = shown]
    /\ UNCHANGED <<winner, known, wallet, redeemed, shown, exit, row, young, quarantined,
                   losses, seen, unread, operator>>

\* the row is read, then the balance is awaited; a quarantined row finds the
\* intent again in the evidence of its quarantine
ReadRow ==
    /\ At("resolved")
    /\ IF /\ row.state \in Managed /\ known = "named"
          /\ (row.link /\ Unresolved) => row.state \in {ERR, "QUARANTINED"}
       THEN worker' = [worker EXCEPT !.pc = "balance", !.row = row,
                                     !.linked = row.link /\ Unresolved]
       ELSE Goto("intents")
    /\ UNCHANGED <<winner, known, wallet, redeemed, shown, exit, row, young, quarantined,
                   losses, seen, unread, operator>>

\* _observe_exit_repair_evidence
Observed(key) ==
    IF seen.key = key THEN [seen EXCEPT !.count = 2]
    ELSE [seen EXCEPT !.key = key, !.count = 1, !.old = FALSE]

\* the exit's matched reply accounts for all that is gone
Proof(balance) ==
    exit.pended /\ exit.reply > 0 /\ Acquired - exit.reply = balance

\* quarantine_incident writes the row whatever it became since it was read
Quarantine ==
    /\ quarantined' = TRUE /\ UNCHANGED exit
    /\ row' = IF worker.row.state = "QUARANTINED" THEN row
              ELSE [row EXCEPT !.state = "QUARANTINED"]

\* resolve_position_quarantine
LiftQuarantine == quarantined' = FALSE

\* apply_authoritative_exit_repair rebuilds the row from the balance
Rebuild(balance) ==
    /\ exit' = [exit EXCEPT !.state = "final"]
    /\ row' = [state |-> CASE balance = 0 -> "CLOSED"
                           [] balance \in 1..(MinOrder - 1) -> "DUST"
                           [] OTHER -> "OPEN",
               remaining |-> balance, sold |-> exit.reply,
               closed |-> row.closed \/ balance < MinOrder, link |-> FALSE]

\* _try_authoritative_exit_repair: the same evidence twice and fifteen seconds
\* apart; a row that cannot be repaired is quarantined
Repair(balance) ==
    LET now == Observed([observed |-> balance, reply |-> exit.reply,
                         valid |-> Proof(balance)])
    IN IF now.count < 2 \/ ~now.old
       THEN seen' = now /\ UNCHANGED <<row, exit, quarantined>>
       ELSE IF ~Proof(balance) THEN seen' = now /\ Quarantine
       ELSE /\ seen' = [seen EXCEPT !.key = NoEvidence, !.count = 0, !.old = FALSE]
            /\ Rebuild(balance) /\ LiftQuarantine

\* terminalize_exit_residue checks the row as it is now
IsResidue(balance) ==
    /\ row.state = "EXITING" /\ row.remaining \in 1..(MinOrder - 1)
    /\ balance = row.remaining /\ ~Unresolved /\ row.sold > 0 /\ ~quarantined
    /\ ~winner

IsTerminalDust(r, balance) == r.state = "DUST" /\ r.closed /\ balance < MinOrder

\* mutation: a full balance is left to the next run
NeverSoldButReduced(r) == r.remaining < Acquired /\ r.sold = 0
\* the row that was read rode to the resolution without a sale
NeverSold(r) == r.remaining = Acquired /\ r.sold = 0

\* a positive balance of a token whose market has resolved
Holds(balance, strong) ==
    /\ seen' = [seen EXCEPT !.zeros = 0]
    /\ UNCHANGED <<exit, quarantined>>
    /\ IF winner THEN Resolve(TRUE)
       ELSE IF IsTerminalDust(worker.row, balance) THEN UNCHANGED <<row, losses>>
       ELSE IF worker.row.state = "EXITING" /\ IsResidue(balance)
       THEN /\ row' = [row EXCEPT !.state = "DUST", !.closed = TRUE, !.link = FALSE]
            /\ UNCHANGED losses
       ELSE IF /\ strong /\ ~worker.row.link /\ NeverSold(worker.row)
               /\ balance = Acquired /\ ~young
       THEN Resolve(FALSE)
       ELSE UNCHANGED <<row, losses>>        \* a gap of the run

\* a zero counts when the balance endpoint said so, twice
Empty(strong) ==
    /\ UNCHANGED <<exit, quarantined>>
    /\ IF ~strong \/ young
       THEN seen' = [seen EXCEPT !.zeros = 0] /\ UNCHANGED <<row, losses>>
       ELSE IF seen.zeros = 0 \/ winner
       THEN seen' = [seen EXCEPT !.zeros = 1] /\ UNCHANGED <<row, losses>>
       ELSE seen' = [seen EXCEPT !.zeros = 0] /\ Resolve(FALSE)

Settle(balance, strong) ==
    IF worker.row.link /\ worker.row.state \in {ERR, "QUARANTINED"}
    THEN Repair(balance) /\ UNCHANGED losses
    ELSE IF worker.linked \/ worker.row.state = "QUARANTINED"
    THEN UNCHANGED <<exit, row, quarantined, losses, seen>>
    ELSE IF balance > 0 THEN Holds(balance, strong) ELSE Empty(strong)

\* the balance, or the feed's entry when it cannot be read
Balance ==
    /\ At("balance") /\ Goto("intents")
    /\ \/ Settle(wallet, TRUE) /\ UNCHANGED unread
       \/ /\ unread < MaxUnread /\ unread' = unread + 1
          /\ IF worker.feed > 0 THEN Settle(worker.feed, FALSE)
             ELSE /\ seen' = [seen EXCEPT !.zeros = 0]
                  /\ UNCHANGED <<exit, row, quarantined, losses>>
    /\ UNCHANGED <<winner, known, wallet, redeemed, shown, young, operator>>

\* apply_exit_fill: the shares before the sale are those acquired, whatever the
\* feed has already taken off the row
Booked(sold) ==
    LET left == IF Acquired > sold THEN Acquired - sold ELSE 0
    IN [state |-> IF left = 0 THEN "CLOSED" ELSE IF left < MinOrder THEN "DUST" ELSE "EXITING",
        remaining |-> left, sold |-> sold,
        closed |-> row.closed \/ left < MinOrder, link |-> FALSE]

\* the order has an id: trades of it show, or it is matched and they do not yet;
\* a FAK is over with the trades that show, a part of them or all
Identified ==
    /\ exit.state = "required" /\ exit.reply > 0
    /\ \/ /\ \E part \in 1..exit.sold : row' = Booked(part)
          /\ exit' = [exit EXCEPT !.state = "final"]
       \/ /\ exit' = [exit EXCEPT !.pended = TRUE]
          /\ row' = IF row.remaining = 0 THEN row ELSE [row EXCEPT !.state = ERR]

\* resolve_unknown_open_exit_zero_effect: no id, no trade and nothing gone
ZeroEffect ==
    /\ exit.state = "required" /\ exit.reply = Unknown /\ exit.sold = 0
    /\ row.state = ERR /\ row.link /\ wallet = row.remaining
    /\ row' = [row EXCEPT !.state = "EXITING", !.link = FALSE]
    /\ exit' = [exit EXCEPT !.state = "final"]

Intents ==
    /\ At("intents") /\ Goto("positions")
    /\ \/ Identified \/ ZeroEffect
       \/ ~(exit.state = "required" /\ exit.reply > 0) /\ UNCHANGED <<exit, row>>
    /\ UNCHANGED <<winner, known, wallet, redeemed, shown, young, quarantined, losses,
                   seen, unread, operator>>

\* mutation: the feed overrules a sale
FeedWins(shares) == FALSE
\* a confirmed sale is not undone by an older snapshot
SoldSince(shares) == shares > row.remaining /\ row.sold > 0

\* the positions the feed showed at the beginning of the run
Positions ==
    /\ At("positions") /\ worker' = Idle
    /\ LET shares == worker.feed
           lost == known = "named" /\ ~winner
       IN IF shares = 0 \/ SoldSince(shares)
          THEN UNCHANGED <<row, losses>>
          ELSE IF lost /\ IsTerminalDust(row, shares) THEN UNCHANGED <<row, losses>>
          ELSE IF lost /\ row.state \in {"RESOLVED_WINNER", "REDEEM_PENDING"}
          THEN Resolve(FALSE)
          ELSE IF lost /\ row.state \in {"RESOLVED_LOSER", "REDEEMED"}
          THEN UNCHANGED <<row, losses>>
          ELSE \* reconcile_remote_position
               /\ row' = IF row.remaining = shares THEN row
                         ELSE [row EXCEPT !.remaining = shares,
                                  !.state = IF @ = "QUARANTINED" THEN @
                                            ELSE IF exit.state # "none" THEN "EXITING"
                                            ELSE "OPEN"]
               /\ UNCHANGED losses
    /\ UNCHANGED <<winner, known, wallet, redeemed, shown, exit, young, quarantined,
                   seen, unread, operator>>

-----------------------------------------------------------------------------
(* The operator (live/trader_commands.py) *)

\* RESOLVE_REDEEMED_POSITION: the checks before its awaits ...
OperatorBegins ==
    /\ row.state \in Managed /\ (row.state = "DUST" => ~row.closed)
    /\ operator = Unknown /\ known = "named" /\ winner /\ ~Unresolved
    /\ operator' = row.remaining
    /\ UNCHANGED <<winner, known, wallet, redeemed, shown, exit, row, young, quarantined,
                   losses, seen, worker, unread>>

\* ... and after them, with the balance and the public proof of redemption
RedemptionProven ==
    wallet = 0 /\ redeemed > 0 /\ redeemed = operator /\ ~BlockedByExit

\* mark_position_resolved, then mark_position_redeemed
Redeemed == [row EXCEPT !.state = "REDEEMED", !.remaining = 0, !.closed = TRUE]
OperatorEnds ==
    /\ operator # Unknown /\ operator' = Unknown
    /\ row' = IF RedemptionProven /\ row.state # "REDEEMED" THEN Redeemed ELSE row
    /\ UNCHANGED <<winner, known, wallet, redeemed, shown, exit, young, quarantined,
                   losses, seen, worker, unread>>

\* RESOLVE_UNKNOWN_CLOSED_FAK: every acquired token is still there
NothingWasSold ==
    /\ exit.state = "required" /\ exit.reply = Unknown /\ exit.sold = 0
    /\ known # "open" /\ row.state = "REDEEM_PENDING" /\ row.link /\ wallet = Acquired

ZeroFilled ==
    LET officialWinner == known = "named" /\ winner
    IN /\ exit' = [exit EXCEPT !.state = "final"]
       /\ row' = [row EXCEPT !.link = FALSE,
                      !.state = IF officialWinner THEN @ ELSE "RESOLVED_LOSER"]
       /\ losses' = IF officialWinner THEN losses ELSE losses + 1

OperatorZeroFill ==
    /\ NothingWasSold /\ ZeroFilled
    /\ UNCHANGED <<winner, known, wallet, redeemed, shown, young, quarantined, seen,
                   worker, unread, operator>>

Run == ReadPositions \/ ReadRow \/ Balance \/ Intents \/ Positions

Next ==
    \/ MarketRow \/ Redeem \/ FeedCatchesUp \/ Age \/ Submit \/ Answered
    \/ Run \/ OperatorBegins \/ OperatorEnds \/ OperatorZeroFill

(* The runs go on; time passes and the resolver names the winner; the feed  *)
(* catches up; a create call is answered; and a trade that is asked for     *)
(* again and again is shown in the end.                                     *)
Fairness ==
    /\ WF_settleVars(Run) /\ WF_settleVars(Age) /\ WF_settleVars(FeedCatchesUp)
    /\ WF_settleVars(Answered) /\ WF_settleVars(MarketRow)
    /\ SF_settleVars(Intents /\ exit'.state = "final")
Spec == Init /\ [][Next]_settleVars /\ Fairness

-----------------------------------------------------------------------------
(* Properties *)

Shares == 0..Acquired
Rows == [state : Managed \cup Resolved \cup {"CLOSED"}, remaining : Shares,
         sold : Shares, closed : BOOLEAN, link : BOOLEAN]
TypeOK ==
    /\ {winner, young, quarantined} \subseteq BOOLEAN
    /\ redeemed \in Shares /\ operator \in Shares \cup {Unknown}
    /\ known \in {"open", "nameless", "named"} /\ {wallet, shown} \subseteq Shares
    /\ exit \in [state : {"none", "submitting", "required", "final"},
                 reply : Shares \cup {Unknown}, sold : Shares, pended : BOOLEAN]
    /\ row \in Rows /\ losses \in 0..1 /\ unread \in 0..MaxUnread
    /\ seen.zeros \in 0..1 /\ seen.count \in 0..2 /\ seen.old \in BOOLEAN
    /\ worker.pc \in {"idle", "resolved", "balance", "intents", "positions"}
    /\ worker.row \in Rows /\ worker.feed \in Shares

(* mark_position_resolved: `Resolution must never bury an exit that may     *)
(* already exist remotely'.  The check of the link before the balance was   *)
(* awaited is not enough: the stop may have been submitted meanwhile.       *)
ExitIsNotBuried ==
    [][row'.state \in Resolved /\ row.state \notin Resolved
          => exit'.state \notin {"submitting", "required"}]_settleVars

(* `A confirmed SELL is execution truth ... must never resurrect those      *)
(* shares': after a booked sale the shares of a row only go down.           *)
SoldSharesStaySold == [][row.sold > 0 => row'.remaining <= row.remaining]_settleVars

(* A row that ended by its exit ended because the shares were gone, however *)
(* few of its trades the run was shown.                                     *)
ClosedIsGone == row.state = "CLOSED" => wallet = 0

Ended ==
    \/ row.state \in {"RESOLVED_LOSER", "CLOSED", "QUARANTINED"}
    \/ row.state = "DUST" /\ row.closed
SoldInPart == row.sold > 0 /\ row.remaining >= MinOrder
LostReply == exit.state = "required" /\ exit.reply = Unknown

(* `instead of wedging reconciliation forever': a losing position that was  *)
(* not sold in part is settled, or quarantined for the operator, unless its *)
(* exit never learned its order.  A market that has named its winner keeps  *)
(* it, so a position that could stay a loser for good would refute this.    *)
LosersSettle ==
    []<>(known = "named" /\ ~winner => Ended \/ SoldInPart \/ LostReply)
=============================================================================
