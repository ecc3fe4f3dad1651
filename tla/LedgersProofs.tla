---------------------------- MODULE LedgersProofs ----------------------------
(***************************************************************************)
(* Proofs about MCLedgers: what the ledgers promise in the end, whatever   *)
(* the shares, the markets, the rules, the capacities and the bounds.      *)
(* Every part of MCLedgers is a projection of it, and a part that is not   *)
(* followed stutters.                                                      *)
(***************************************************************************)
EXTENDS MCLedgers, FiniteSetTheorems, SequenceTheorems, WellFoundedInduction, TLAPS

ledgerVars == <<focus, settleVars, profitVars, resolutionVars, demoVars, engineVars>>

(* A step of MCLedgers is, of every module, a step or a stutter. *)
LEMMA SettleSteps == [Next]_ledgerVars => [Settles!Next]_settleVars
  BY DEF Next, ledgerVars, settleVars

LEMMA ProfitSteps == [Next]_ledgerVars => [Profit!Next]_profitVars
  BY DEF Next, ledgerVars, profitVars

LEMMA EngineSteps == [Next]_ledgerVars => [Engine!Next]_engineVars
  BY DEF Next, ledgerVars, engineVars

LEMMA MarketSteps == [Next]_ledgerVars => [MarketRows!Next]_resolutionVars
  BY DEF Next, ledgerVars, resolutionVars

LEMMA DealSteps == [Next]_ledgerVars => [Deals!Next]_demoVars
  BY DEF Next, ledgerVars, demoVars

-----------------------------------------------------------------------------
(* The end of a position: types *)

Balances == Settles!Shares \cup {Settles!Unknown}
Exits == [state : {"none", "submitting", "required", "final"},
          reply : Balances, sold : Settles!Shares, pended : BOOLEAN]
Evidence == [observed : Balances, reply : Balances, valid : BOOLEAN]
Observations == [zeros : 0..1, key : Evidence, count : 0..2, old : BOOLEAN]
Runs == [pc : {"idle", "resolved", "balance", "intents", "positions"},
         feed : Settles!Shares, row : Settles!Rows, linked : BOOLEAN]

SettleTypes ==
    /\ winner \in BOOLEAN /\ young \in BOOLEAN /\ quarantined \in BOOLEAN
    /\ known \in {"open", "nameless", "named"}
    /\ wallet \in Settles!Shares /\ shown \in Settles!Shares /\ redeemed \in Settles!Shares
    /\ operator \in Balances /\ unread \in 0..MaxUnread
    /\ exit \in Exits /\ row \in Settles!Rows /\ seen \in Observations /\ worker \in Runs

\* The link of the row tells whether the exit may exist remotely; it is sold
\* once, and booked when it is final.
ExitInv ==
    /\ row.link <=> Settles!Unresolved
    /\ exit.state # "final" => row.sold = 0
    /\ exit.reply \in {Settles!Unknown, exit.sold}
    /\ exit.state \in {"none", "submitting"} => exit.sold = 0 /\ exit.reply = Settles!Unknown
    /\ exit.sold + wallet <= Acquired

\* The row a run has read before it asked for the balance: its market is named;
\* when an exit was open, it is so still or has sold nothing, and the row was
\* not settled meanwhile.
ReadInv ==
    worker.pc = "balance" =>
        /\ known = "named" /\ (worker.linked <=> worker.row.link)
        /\ worker.row.link =>
              /\ worker.row.state \in {Settles!ERR, "QUARANTINED"}
              /\ Settles!Unresolved \/ exit.reply = Settles!Unknown
              /\ row.state \in {Settles!ERR, "QUARANTINED", "EXITING", "REDEEMED"}

\* A loss is counted once, for a row that stays settled.
LossInv ==
    /\ losses \in 0..1
    /\ losses = 1 => /\ ~winner /\ known = "named" /\ row.state = "RESOLVED_LOSER"
                     /\ exit.state \in {"none", "final"}
    /\ row.state = "REDEEM_PENDING" => known = "named"
    /\ operator # Settles!Unknown => winner

GoneInv == row.state = "CLOSED" => wallet = 0

SettleInv == SettleTypes /\ ExitInv /\ ReadInv /\ LossInv /\ GoneInv

LEMMA SettleConstants ==
  /\ Acquired \in Nat /\ Acquired > 0 /\ MinOrder \in Nat /\ MinOrder >= 1
  /\ MinOrder <= Acquired /\ MaxUnread \in Nat
  /\ Settles!Shares = 0..Acquired /\ Settles!Unknown = -1
  /\ 0 \in Settles!Shares /\ Acquired \in Settles!Shares
  /\ Settles!Unknown \notin Settles!Shares
  BY LedgersAssumption DEF Settles!SettlementAssumption, Settles!Shares, Settles!Unknown

\* The states of a row are different strings.
LEMMA RowStates ==
  /\ Settles!ERR = "EXIT_RECONCILIATION_REQUIRED"
  /\ {"OPEN", "EXITING", "DUST", "QUARANTINED", "CLOSED", "RESOLVED_LOSER", "REDEEM_PENDING",
      "REDEEMED", Settles!ERR} \subseteq Settles!Managed \cup Settles!Resolved \cup {"CLOSED"}
  BY DEF Settles!ERR, Settles!Managed, Settles!Resolved

\* What may be written to a row leaves it one.
LEMMA RowParts ==
  ASSUME NEW r \in Settles!Rows
  PROVE  /\ r.state \in Settles!Managed \cup Settles!Resolved \cup {"CLOSED"}
         /\ r.remaining \in Settles!Shares /\ r.sold \in Settles!Shares
         /\ r.closed \in BOOLEAN /\ r.link \in BOOLEAN
  BY DEF Settles!Rows

LEMMA RowMade ==
  ASSUME NEW st \in Settles!Managed \cup Settles!Resolved \cup {"CLOSED"},
         NEW left \in Settles!Shares, NEW sold \in Settles!Shares,
         NEW gone \in BOOLEAN, NEW link \in BOOLEAN,
         NEW r, r = [state |-> st, remaining |-> left, sold |-> sold, closed |-> gone,
                     link |-> link]
  PROVE  /\ r \in Settles!Rows /\ r.state = st /\ r.remaining = left /\ r.sold = sold
         /\ r.closed = gone /\ r.link = link
  BY DEF Settles!Rows

LEMMA SettleInit == Settles!Init => SettleInv
<1> SUFFICES ASSUME Settles!Init PROVE SettleInv
  OBVIOUS
<1>1. PICK legacy \in BOOLEAN : Settles!InitFrom(legacy)
  BY DEF Settles!Init
<1> DEFINE state == IF legacy THEN "REDEEM_PENDING" ELSE "OPEN"
<1>2. row = [state |-> state, remaining |-> Acquired, sold |-> 0, closed |-> FALSE,
             link |-> legacy]
  BY <1>1 DEF Settles!InitFrom
<1>3. /\ row \in Settles!Rows /\ row.state = state /\ row.remaining = Acquired /\ row.sold = 0
      /\ row.link = legacy
  <2>1. state \in Settles!Managed \cup Settles!Resolved \cup {"CLOSED"}
    BY RowStates
  <2> HIDE DEF state
  <2> QED
    BY <1>2, <2>1, SettleConstants DEF Settles!Rows
<1>4. /\ exit \in Exits /\ exit.reply = Settles!Unknown /\ exit.sold = 0
      /\ exit.state = IF legacy THEN "required" ELSE "none"
  <2>1. exit = [state |-> IF legacy THEN "required" ELSE "none",
                reply |-> Settles!Unknown, sold |-> 0, pended |-> FALSE]
    BY <1>1 DEF Settles!InitFrom
  <2> QED
    BY <2>1, SettleConstants DEF Exits, Balances
<1>5. seen \in Observations
  <2>1. seen = [zeros |-> 0, key |-> Settles!NoEvidence, count |-> 0, old |-> FALSE]
    BY <1>1 DEF Settles!InitFrom
  <2>2. Settles!NoEvidence \in Evidence
    BY DEF Settles!NoEvidence, Evidence, Balances
  <2> QED
    BY <2>1, <2>2 DEF Observations
<1>6. worker \in Runs /\ worker.pc = "idle"
  <2>1. worker = [pc |-> "idle", feed |-> 0, row |-> row, linked |-> FALSE]
    BY <1>1 DEF Settles!InitFrom, Settles!Idle
  <2> QED
    BY <1>3, <2>1, SettleConstants DEF Runs
<1>7. /\ winner \in BOOLEAN /\ young \in BOOLEAN /\ quarantined \in BOOLEAN
      /\ known = (IF legacy THEN "named" ELSE "open")
      /\ wallet = Acquired /\ shown = Acquired /\ redeemed = 0
      /\ operator = Settles!Unknown /\ unread = 0 /\ losses = 0
  BY <1>1 DEF Settles!InitFrom
<1>8. SettleTypes
  BY <1>3, <1>4, <1>5, <1>6, <1>7, SettleConstants DEF SettleTypes, Balances
<1>9. ExitInv
  BY <1>3, <1>4, <1>7, SettleConstants DEF ExitInv, Settles!Unresolved
<1>10. ReadInv /\ LossInv /\ GoneInv
  BY <1>3, <1>6, <1>7 DEF ReadInv, LossInv, GoneInv
<1> QED
  BY <1>8, <1>9, <1>10 DEF SettleInv

\* What an action does not touch of the row, the exit, the market and the run
\* stays true.
LEMMA MarketKeeps ==
  ASSUME SettleInv, Settles!MarketRow \/ Settles!Redeem \/ Settles!FeedCatchesUp \/ Settles!Age
  PROVE  SettleInv'
<1>1. UNCHANGED <<winner, exit, row, quarantined, losses, worker, unread, operator>>
  BY DEF Settles!MarketRow, Settles!Redeem, Settles!FeedCatchesUp, Settles!Age
<1>2. /\ wallet \in Settles!Shares /\ shown \in Settles!Shares /\ redeemed \in Settles!Shares
      /\ seen \in Observations /\ young \in BOOLEAN /\ known \in {"open", "nameless", "named"}
  BY DEF SettleInv, SettleTypes
<1>3. /\ wallet' \in Settles!Shares /\ shown' \in Settles!Shares
      /\ redeemed' \in Settles!Shares /\ (wallet' = wallet \/ wallet' = 0)
  BY <1>2, SettleConstants
     DEF Settles!MarketRow, Settles!Redeem, Settles!FeedCatchesUp, Settles!Age
<1>4. seen' \in Observations
  <2>1. CASE seen' = [seen EXCEPT !.old = seen.count > 0]
    <3>1. (seen.count > 0) \in BOOLEAN
      OBVIOUS
    <3> QED
      BY <1>2, <2>1, <3>1 DEF Observations
  <2> QED
    BY <1>2, <2>1 DEF Settles!MarketRow, Settles!Redeem, Settles!FeedCatchesUp, Settles!Age
<1>5. young' \in BOOLEAN /\ known' \in {"open", "nameless", "named"}
      /\ (known = "named" => known' = "named")
  BY <1>2 DEF Settles!MarketRow, Settles!Redeem, Settles!FeedCatchesUp, Settles!Age
<1>6. SettleTypes'
  BY <1>1, <1>3, <1>4, <1>5 DEF SettleInv, SettleTypes
<1>7. ExitInv'
  <2>1. wallet' <= wallet
    BY <1>2, <1>3, SettleConstants
  <2>2. exit.sold + wallet' <= Acquired
    <3>1. exit.sold \in Settles!Shares
      BY DEF SettleInv, SettleTypes, Exits
    <3> QED
      BY <1>2, <1>3, <2>1, <3>1, SettleConstants DEF SettleInv, ExitInv
  <2> QED
    BY <1>1, <2>2 DEF SettleInv, ExitInv, Settles!Unresolved
<1>8. ReadInv' /\ LossInv' /\ GoneInv'
  BY <1>1, <1>3, <1>5 DEF SettleInv, ReadInv, LossInv, GoneInv, Settles!Unresolved
<1> QED
  BY <1>6, <1>7, <1>8 DEF SettleInv

LEMMA SubmitKeeps ==
  ASSUME SettleInv, Settles!Submit
  PROVE  SettleInv'
<1>1. /\ UNCHANGED <<winner, known, wallet, redeemed, shown, young, quarantined, losses,
                     seen, worker, unread, operator>>
      /\ exit.state = "none" /\ exit' = [exit EXCEPT !.state = "submitting"]
      /\ row.state \in {"OPEN", "EXITING"}
      /\ row' = [row EXCEPT !.state = "EXITING", !.link = TRUE]
  BY DEF Settles!Submit
<1>2. exit \in Exits /\ row \in Settles!Rows
  BY DEF SettleInv, SettleTypes
<1>3. /\ exit' \in Exits /\ exit'.state = "submitting" /\ exit'.reply = exit.reply
      /\ exit'.sold = exit.sold
  BY <1>1, <1>2 DEF Exits
<1>4. /\ row' \in Settles!Rows /\ row'.state = "EXITING" /\ row'.link = TRUE
      /\ row'.sold = row.sold
  BY <1>1, <1>2, RowStates DEF Settles!Rows
<1>5. SettleTypes'
  BY <1>1, <1>3, <1>4 DEF SettleInv, SettleTypes
<1>6. ExitInv'
  BY <1>1, <1>3, <1>4 DEF SettleInv, ExitInv, Settles!Unresolved
<1>7. ReadInv' /\ LossInv' /\ GoneInv'
  BY <1>1, <1>3, <1>4 DEF SettleInv, ReadInv, LossInv, GoneInv, Settles!Unresolved
<1> QED
  BY <1>5, <1>6, <1>7 DEF SettleInv

LEMMA AnsweredKeeps ==
  ASSUME SettleInv, Settles!Answered
  PROVE  SettleInv'
<1>1. /\ UNCHANGED <<winner, known, redeemed, shown, young, quarantined, losses,
                     seen, worker, unread, operator>>
      /\ exit.state = "submitting" /\ exit.reply = Settles!Unknown
  BY DEF Settles!Answered
<1>2. PICK sold \in 0..wallet, lost \in BOOLEAN :
          /\ wallet' = wallet - sold
          /\ IF sold = 0 /\ ~lost
             THEN /\ exit' = [exit EXCEPT !.state = "final"]
                  /\ row' = IF row.link THEN [row EXCEPT !.state = "EXITING", !.link = FALSE]
                            ELSE row
             ELSE /\ exit' = [exit EXCEPT !.state = "required", !.sold = sold,
                                          !.reply = IF lost THEN Settles!Unknown ELSE sold]
                  /\ row' = IF row.remaining = 0 THEN row
                            ELSE [row EXCEPT !.state = Settles!ERR]
  BY DEF Settles!Answered
<1>3. exit \in Exits /\ row \in Settles!Rows /\ wallet \in Settles!Shares
  BY DEF SettleInv, SettleTypes
<1>4. /\ sold \in Settles!Shares /\ wallet' \in Settles!Shares /\ sold + wallet' <= Acquired
      /\ exit.sold = 0 /\ wallet' <= wallet /\ (wallet = 0 => wallet' = 0)
      /\ row.link
  <2>1. exit.sold = 0 /\ row.link
    BY <1>1 DEF SettleInv, ExitInv, Settles!Unresolved
  <2> QED
    BY <1>2, <1>3, <2>1, SettleConstants
<1>5. CASE sold = 0 /\ ~lost
  <2>1. /\ exit' \in Exits /\ exit'.state = "final" /\ exit'.reply = exit.reply
        /\ exit'.sold = exit.sold
    BY <1>2, <1>3, <1>5 DEF Exits
  <2>2. /\ row' \in Settles!Rows /\ row'.state = "EXITING" /\ row'.link = FALSE
        /\ row'.sold = row.sold
    BY <1>2, <1>3, <1>4, <1>5, RowStates DEF Settles!Rows
  <2>3. SettleTypes'
    BY <1>1, <1>4, <2>1, <2>2 DEF SettleInv, SettleTypes
  <2>4. exit'.sold + wallet' <= Acquired
    BY <1>4, <1>5, <2>1
  <2>5. ExitInv'
    BY <1>1, <2>1, <2>2, <2>4 DEF SettleInv, ExitInv, Settles!Unresolved
  <2>6. ReadInv' /\ LossInv' /\ GoneInv'
    BY <1>1, <2>1, <2>2 DEF SettleInv, ReadInv, LossInv, GoneInv, Settles!Unresolved
  <2> QED
    BY <2>3, <2>5, <2>6 DEF SettleInv
<1>6. CASE ~(sold = 0 /\ ~lost)
  <2> DEFINE reply == IF lost THEN Settles!Unknown ELSE sold
  <2>1. exit' = [exit EXCEPT !.state = "required", !.sold = sold, !.reply = reply]
    BY <1>2, <1>6
  <2>2. reply \in Balances /\ reply \in {Settles!Unknown, sold}
    BY <1>4 DEF Balances
  <2> HIDE DEF reply
  <2>3. /\ exit' \in Exits /\ exit'.state = "required" /\ exit'.reply = reply
        /\ exit'.sold = sold
    BY <1>3, <1>4, <2>1, <2>2 DEF Exits
  <2>4. /\ row' \in Settles!Rows /\ row'.link = TRUE /\ row'.sold = row.sold
        /\ row'.state \in {Settles!ERR, row.state}
    BY <1>2, <1>3, <1>4, <1>6, RowStates DEF Settles!Rows
  <2>5. SettleTypes'
    BY <1>1, <1>4, <2>3, <2>4 DEF SettleInv, SettleTypes
  <2>6. exit'.sold + wallet' <= Acquired
    BY <1>4, <2>3
  <2>7. ExitInv'
    BY <1>1, <2>2, <2>3, <2>4, <2>6 DEF SettleInv, ExitInv, Settles!Unresolved
  <2>8. ReadInv' /\ LossInv'
    BY <1>1, <2>3, <2>4, RowStates DEF SettleInv, ReadInv, LossInv, Settles!Unresolved
  <2>9. GoneInv'
    BY <1>4, <2>4, RowStates DEF SettleInv, GoneInv
  <2> QED
    BY <2>5, <2>7, <2>8, <2>9 DEF SettleInv
<1> QED
  BY <1>5, <1>6

LEMMA ReadsKeep ==
  ASSUME SettleInv, Settles!ReadPositions \/ Settles!ReadRow \/ Settles!OperatorBegins
  PROVE  SettleInv'
<1>1. UNCHANGED <<winner, known, wallet, redeemed, shown, exit, row, young, quarantined,
                  losses, seen, unread>>
  BY DEF Settles!ReadPositions, Settles!ReadRow, Settles!OperatorBegins
<1>2. worker \in Runs /\ row \in Settles!Rows /\ shown \in Settles!Shares /\ operator \in Balances
  BY DEF SettleInv, SettleTypes
<1>3. CASE Settles!ReadPositions
  <2>1. worker' = [pc |-> "resolved", feed |-> shown, row |-> row, linked |-> FALSE]
        /\ operator' = operator
    BY <1>3 DEF Settles!ReadPositions, Settles!Idle
  <2>2. worker' \in Runs /\ worker'.pc = "resolved"
    BY <1>2, <2>1 DEF Runs
  <2> QED
    BY <1>1, <2>1, <2>2
       DEF SettleInv, SettleTypes, ExitInv, ReadInv, LossInv, GoneInv, Settles!Unresolved
<1>4. CASE Settles!ReadRow
  <2>0. operator' = operator /\ worker.pc = "resolved"
    BY <1>4 DEF Settles!ReadRow, Settles!At
  <2>1. CASE worker' = [worker EXCEPT !.pc = "intents"]
    <3>1. worker' \in Runs /\ worker'.pc = "intents"
      BY <1>2, <2>1 DEF Runs
    <3> QED
      BY <1>1, <2>0, <3>1
         DEF SettleInv, SettleTypes, ExitInv, ReadInv, LossInv, GoneInv, Settles!Unresolved
  <2>2. CASE /\ known = "named"
             /\ (row.link /\ Settles!Unresolved) => row.state \in {Settles!ERR, "QUARANTINED"}
             /\ worker' = [worker EXCEPT !.pc = "balance", !.row = row,
                                         !.linked = row.link /\ Settles!Unresolved]
    <3>1. (row.link /\ Settles!Unresolved) = row.link /\ row.link \in BOOLEAN
      BY <1>2 DEF Settles!Rows, SettleInv, ExitInv, Settles!Unresolved
    <3>2. /\ worker' \in Runs /\ worker'.pc = "balance" /\ worker'.row = row
          /\ worker'.linked = row.link
      BY <1>2, <2>2, <3>1 DEF Runs
    <3>3. ReadInv'
      BY <1>1, <2>2, <3>1, <3>2 DEF ReadInv, Settles!Unresolved, SettleInv, ExitInv
    <3> QED
      BY <1>1, <2>0, <3>2, <3>3
         DEF SettleInv, SettleTypes, ExitInv, LossInv, GoneInv, Settles!Unresolved
  <2> QED
    BY <1>4, <2>1, <2>2 DEF Settles!ReadRow, Settles!Goto
<1>5. CASE Settles!OperatorBegins
  <2>1. operator' = row.remaining /\ winner /\ UNCHANGED worker
    BY <1>5 DEF Settles!OperatorBegins
  <2>2. operator' \in Balances
    BY <1>2, <2>1 DEF Settles!Rows, Balances
  <2> QED
    BY <1>1, <2>1, <2>2
       DEF SettleInv, SettleTypes, ExitInv, ReadInv, LossInv, GoneInv, Settles!Unresolved
<1> QED
  BY <1>3, <1>4, <1>5

-----------------------------------------------------------------------------
(* The end of a position: what a run and the operator write *)

\* What the action properties ask of one step.
NotBuried ==
    row'.state \in Settles!Resolved /\ row.state \notin Settles!Resolved
        => exit'.state \notin {"submitting", "required"}
StaysSold == row.sold > 0 => row'.remaining <= row.remaining
SettleSafe == SettleInv' /\ NotBuried /\ StaysSold

\* A step of a run or of the operator, for all but the row, the exit and the losses.
RunStep ==
    /\ UNCHANGED <<winner, known, wallet, redeemed, shown, young>>
    /\ operator' \in {operator, Settles!Unknown}
    /\ seen' \in Observations /\ quarantined' \in BOOLEAN /\ unread' \in 0..MaxUnread
    /\ worker' \in Runs /\ (worker'.pc # "balance" \/ UNCHANGED <<worker, unread>>)

LEMMA RowStates2 ==
  /\ Settles!Resolved = {"RESOLVED_WINNER", "RESOLVED_LOSER", "REDEEM_PENDING", "REDEEMED"}
  /\ Settles!ERR \notin Settles!Resolved
  BY DEF Settles!Resolved, Settles!ERR

\* Nothing is written.
LEMMA WritesNothing ==
  ASSUME SettleInv, RunStep, UNCHANGED <<exit, row, losses>>
  PROVE  SettleSafe
<1>1. row \in Settles!Rows
  BY DEF SettleInv, SettleTypes
<1>2. SettleTypes'
  BY SettleConstants DEF SettleInv, SettleTypes, RunStep, Balances
<1>3. ExitInv' /\ GoneInv'
  BY DEF SettleInv, ExitInv, GoneInv, RunStep, Settles!Unresolved
<1>4. ReadInv' /\ LossInv'
  BY DEF SettleInv, ReadInv, LossInv, RunStep, Settles!Unresolved
<1>5. StaysSold
  <2>1. row'.remaining = row.remaining /\ row.remaining \in Settles!Shares
    BY <1>1 DEF Settles!Rows
  <2> QED
    BY <2>1, SettleConstants DEF StaysSold
<1> QED
  BY <1>2, <1>3, <1>4, <1>5 DEF SettleSafe, SettleInv, NotBuried

\* Only the state of the row, to one that no settlement of the market is; the
\* link goes when no exit can be open.
LEMMA WritesState ==
  ASSUME SettleInv, RunStep, UNCHANGED <<exit, losses>>,
         worker'.pc # "balance",
         losses = 0, row'.state \in {"QUARANTINED", "DUST", "EXITING", "OPEN"},
         row'.remaining \in Settles!Shares, row.sold > 0 => row'.remaining <= row.remaining,
         row'.sold = row.sold, row' \in Settles!Rows, row'.link = row.link
  PROVE  SettleSafe
<1>1. SettleTypes'
  BY SettleConstants DEF SettleInv, SettleTypes, RunStep, Balances
<1>2. ExitInv' /\ GoneInv'
  BY DEF SettleInv, ExitInv, GoneInv, RunStep, Settles!Unresolved
<1>3. ReadInv' /\ LossInv'
  BY DEF SettleInv, ReadInv, LossInv, RunStep, Settles!Unresolved
<1>4. NotBuried
  BY RowStates2 DEF NotBuried
<1> QED
  BY <1>1, <1>2, <1>3, <1>4 DEF SettleSafe, SettleInv, StaysSold

\* mark_position_resolved
LEMMA WritesResolution ==
  ASSUME SettleInv, RunStep, UNCHANGED exit, known = "named",
         worker'.pc # "balance", Settles!Resolve(winner)
  PROVE  SettleSafe
<1>1. CASE UNCHANGED <<row, losses>>
  BY <1>1, WritesNothing
<1>2. CASE /\ ~Settles!BlockedByExit /\ ~Settles!AlreadySettled(winner)
           /\ row' = [row EXCEPT !.state = IF winner THEN "REDEEM_PENDING" ELSE "RESOLVED_LOSER"]
           /\ losses' = IF winner \/ row.state \in {"RESOLVED_WINNER", "REDEEM_PENDING"}
                        THEN losses ELSE losses + 1
  <2>1. row \in Settles!Rows /\ winner \in BOOLEAN
    BY DEF SettleInv, SettleTypes
  <2>2. /\ row' \in Settles!Rows /\ row'.link = row.link /\ row'.sold = row.sold
        /\ row'.remaining = row.remaining /\ row.remaining \in Settles!Shares
        /\ row'.state = IF winner THEN "REDEEM_PENDING" ELSE "RESOLVED_LOSER"
    BY <1>2, <2>1, RowStates DEF Settles!Rows
  <2>3. ~Settles!Unresolved
    BY <1>2 DEF Settles!BlockedByExit, SettleInv, ExitInv
  <2>4. losses = 0
    <3>1. row.state # "RESOLVED_LOSER"
      BY <1>2 DEF Settles!AlreadySettled
    <3>2. losses \in 0..1 /\ losses # 1
      BY <3>1 DEF SettleInv, LossInv
    <3> QED
      BY <3>2
  <2>5. losses' \in 0..1 /\ (losses' = 1 => ~winner)
    BY <1>2, <2>4
  <2>6. SettleTypes'
    BY <2>2, SettleConstants DEF SettleInv, SettleTypes, RunStep, Balances
  <2>7. ExitInv' /\ GoneInv'
    BY <2>2 DEF SettleInv, ExitInv, GoneInv, RunStep, Settles!Unresolved
  <2>8. exit.state \in {"none", "final"}
    BY <2>3 DEF SettleInv, SettleTypes, Exits, Settles!Unresolved
  <2>9. ReadInv' /\ LossInv'
    BY <2>2, <2>5, <2>8 DEF SettleInv, ReadInv, LossInv, RunStep, Settles!Unresolved
  <2>10. NotBuried
    BY <2>3 DEF NotBuried, Settles!Unresolved
  <2>11. StaysSold
    BY <2>2, SettleConstants DEF StaysSold
  <2> QED
    BY <2>6, <2>7, <2>9, <2>10, <2>11 DEF SettleSafe, SettleInv
<1> QED
  BY <1>1, <1>2 DEF Settles!Resolve

\* The exit is final, and its row is what is left of the position.
LEMMA WritesExit ==
  ASSUME SettleInv, RunStep, UNCHANGED losses, worker'.pc # "balance",
         exit.state = "required", exit' = [exit EXCEPT !.state = "final"],
         row' \in Settles!Rows, row'.link = FALSE,
         row'.state \in {"CLOSED", "DUST", "OPEN", "EXITING"},
         row'.state = "CLOSED" => wallet = 0
  PROVE  SettleSafe
<1>1. exit \in Exits /\ row.sold = 0
  BY DEF SettleInv, SettleTypes, ExitInv
<1>2. /\ exit' \in Exits /\ exit'.state = "final" /\ exit'.reply = exit.reply
      /\ exit'.sold = exit.sold
  BY <1>1 DEF Exits
<1>3. SettleTypes'
  BY <1>2, SettleConstants DEF SettleInv, SettleTypes, RunStep, Balances
<1>4. ExitInv' /\ GoneInv'
  BY <1>2 DEF SettleInv, ExitInv, GoneInv, RunStep, Settles!Unresolved
<1>5. losses = 0
  BY DEF SettleInv, LossInv
<1>6. ReadInv' /\ LossInv'
  BY <1>2, <1>5 DEF SettleInv, ReadInv, LossInv, RunStep, Settles!Unresolved
<1>7. NotBuried
  BY <1>2, RowStates2 DEF NotBuried
<1> QED
  BY <1>1, <1>3, <1>4, <1>6, <1>7 DEF SettleSafe, SettleInv, StaysSold

LEMMA ObservationMade ==
  ASSUME SettleInv, NEW key \in Evidence, NEW n \in 0..2
  PROVE  [seen EXCEPT !.key = key, !.count = n, !.old = FALSE] \in Observations
<1>1. seen \in Observations
  BY DEF SettleInv, SettleTypes
<1> QED
  BY <1>1 DEF Observations

\* _observe_exit_repair_evidence
LEMMA ObservedType ==
  ASSUME SettleInv, NEW key \in Evidence
  PROVE  Settles!Observed(key) \in Observations
<1>1. seen \in Observations
  BY DEF SettleInv, SettleTypes
<1>2. [seen EXCEPT !.count = 2] \in Observations
  BY <1>1 DEF Observations
<1>3. [seen EXCEPT !.key = key, !.count = 1, !.old = FALSE] \in Observations
  <2>1. 1 \in 0..2
    OBVIOUS
  <2> QED
    BY <2>1, ObservationMade
<1> QED
  BY <1>2, <1>3 DEF Settles!Observed

\* The repair writes nothing, quarantines the row, or rebuilds it from a proof.
LEMMA RepairEffect ==
  ASSUME SettleInv, NEW balance \in Settles!Shares, Settles!Repair(balance)
  PROVE  /\ seen' \in Observations /\ quarantined' \in BOOLEAN
         /\ \/ UNCHANGED <<exit, row>>
            \/ UNCHANGED exit /\ row' = [row EXCEPT !.state = "QUARANTINED"]
            \/ /\ exit.reply > 0 /\ Acquired - exit.reply = balance
               /\ Settles!Rebuild(balance)
<1> DEFINE key == [observed |-> balance, reply |-> exit.reply, valid |-> Settles!Proof(balance)]
           observed == Settles!Observed(key)
<1>1. key \in Evidence
  <2>1. exit.reply \in Balances /\ balance \in Balances
    BY DEF SettleInv, SettleTypes, Exits, Balances
  <2>2. Settles!Proof(balance) \in BOOLEAN
    BY DEF Settles!Proof
  <2> QED
    BY <2>1, <2>2 DEF Evidence
<1>2. observed \in Observations
  <2> HIDE DEF key
  <2> QED
    BY <1>1, ObservedType
<1>3. /\ quarantined \in BOOLEAN /\ seen \in Observations
      /\ [seen EXCEPT !.key = Settles!NoEvidence, !.count = 0, !.old = FALSE] \in Observations
  <2>1. Settles!NoEvidence \in Evidence
    BY DEF Settles!NoEvidence, Evidence, Balances
  <2>2. quarantined \in BOOLEAN /\ seen \in Observations
    BY DEF SettleInv, SettleTypes
  <2>3. 0 \in 0..2
    OBVIOUS
  <2> QED
    BY <2>1, <2>2, <2>3, ObservationMade
<1>4. \/ seen' = observed /\ UNCHANGED <<row, exit, quarantined>>
      \/ seen' = observed /\ Settles!Quarantine
      \/ /\ Settles!Proof(balance) /\ Settles!Rebuild(balance) /\ Settles!LiftQuarantine
         /\ seen' = [seen EXCEPT !.key = Settles!NoEvidence, !.count = 0, !.old = FALSE]
  BY DEF Settles!Repair
<1> HIDE DEF observed
<1>5. CASE seen' = observed /\ UNCHANGED <<row, exit, quarantined>>
  BY <1>2, <1>3, <1>5
<1>6. CASE seen' = observed /\ Settles!Quarantine
  BY <1>2, <1>6 DEF Settles!Quarantine
<1>7. CASE /\ Settles!Proof(balance) /\ Settles!Rebuild(balance) /\ Settles!LiftQuarantine
           /\ seen' = [seen EXCEPT !.key = Settles!NoEvidence, !.count = 0, !.old = FALSE]
  BY <1>3, <1>7 DEF Settles!Proof, Settles!LiftQuarantine
<1> QED
  BY <1>4, <1>5, <1>6, <1>7

\* A balance writes nothing, settles the row, ends its residue, or repairs it.
LEMMA SettleEffect ==
  ASSUME SettleInv, NEW balance \in Settles!Shares, NEW strong \in BOOLEAN,
         Settles!Settle(balance, strong)
  PROVE  \/ worker.row.link /\ Settles!Repair(balance) /\ UNCHANGED losses
         \/ /\ seen' \in Observations /\ quarantined' \in BOOLEAN /\ UNCHANGED exit
            /\ \/ UNCHANGED <<row, losses>>
               \/ Settles!Resolve(winner)
               \/ /\ row.state = "EXITING" /\ ~Settles!Unresolved /\ UNCHANGED losses
                  /\ row' = [row EXCEPT !.state = "DUST", !.closed = TRUE, !.link = FALSE]
<1>1. /\ [seen EXCEPT !.zeros = 0] \in Observations /\ [seen EXCEPT !.zeros = 1] \in Observations
      /\ seen \in Observations /\ quarantined \in BOOLEAN /\ winner \in BOOLEAN
  BY DEF SettleInv, SettleTypes, Observations
<1>2. CASE worker.row.link /\ worker.row.state \in {Settles!ERR, "QUARANTINED"}
  BY <1>2 DEF Settles!Settle
<1>3. CASE UNCHANGED <<exit, row, quarantined, losses, seen>>
  BY <1>1, <1>3
<1>4. CASE Settles!Holds(balance, strong)
  <2>1. seen' = [seen EXCEPT !.zeros = 0] /\ UNCHANGED <<exit, quarantined>>
    BY <1>4 DEF Settles!Holds
  <2>2. \/ UNCHANGED <<row, losses>>
        \/ winner /\ Settles!Resolve(TRUE)
        \/ ~winner /\ Settles!Resolve(FALSE)
        \/ /\ row' = [row EXCEPT !.state = "DUST", !.closed = TRUE, !.link = FALSE]
           /\ Settles!IsResidue(balance) /\ UNCHANGED losses
    BY <1>4 DEF Settles!Holds
  <2>3. Settles!IsResidue(balance) => row.state = "EXITING" /\ ~Settles!Unresolved
    BY DEF Settles!IsResidue
  <2>4. \/ winner /\ Settles!Resolve(TRUE)
        \/ ~winner /\ Settles!Resolve(FALSE)
        => Settles!Resolve(winner)
    <3>1. CASE winner = TRUE
      BY <3>1
    <3>2. CASE winner = FALSE
      BY <3>2
    <3> QED
      BY <1>1, <3>1, <3>2
  <2> QED
    BY <1>1, <2>1, <2>2, <2>3, <2>4
<1>5. CASE Settles!Empty(strong)
  <2>1. UNCHANGED <<exit, quarantined>>
        /\ seen' \in {[seen EXCEPT !.zeros = 0], [seen EXCEPT !.zeros = 1]}
    BY <1>5 DEF Settles!Empty
  <2>2. \/ UNCHANGED <<row, losses>>
        \/ ~winner /\ Settles!Resolve(FALSE)
    BY <1>5 DEF Settles!Empty
  <2>3. ~winner /\ Settles!Resolve(FALSE) => Settles!Resolve(winner)
    <3>1. CASE winner = TRUE
      BY <3>1
    <3>2. CASE winner = FALSE
      BY <3>2
    <3> QED
      BY <1>1, <3>1, <3>2
  <2> QED
    BY <1>1, <2>1, <2>2, <2>3
<1> QED
  BY <1>2, <1>3, <1>4, <1>5 DEF Settles!Settle

\* The endpoint's balance is the wallet; the feed's entry stands in for it only
\* when it is not zero.
LEMMA SettleKeeps ==
  ASSUME SettleInv, RunStep, worker.pc = "balance", worker'.pc # "balance",
         NEW balance \in Settles!Shares, NEW strong \in BOOLEAN,
         balance > 0 \/ balance = wallet, Settles!Settle(balance, strong)
  PROVE  SettleSafe
<1>1. known = "named" /\ row \in Settles!Rows
  BY DEF SettleInv, ReadInv, SettleTypes
<1>2. CASE worker.row.link /\ Settles!Repair(balance) /\ UNCHANGED losses
  <2>1. /\ Settles!Unresolved \/ exit.reply = Settles!Unknown
        /\ row.state \in {Settles!ERR, "QUARANTINED", "EXITING", "REDEEMED"}
    BY <1>2 DEF SettleInv, ReadInv
  <2>2. CASE UNCHANGED <<exit, row>>
    BY <1>2, <2>2, WritesNothing
  <2>3. CASE UNCHANGED exit /\ row' = [row EXCEPT !.state = "QUARANTINED"]
    <3>1. losses = 0
      BY <2>1 DEF SettleInv, LossInv, Settles!ERR
    <3>2. /\ row' \in Settles!Rows /\ row'.state = "QUARANTINED" /\ row'.sold = row.sold
          /\ row'.link = row.link /\ row'.remaining = row.remaining
          /\ row.remaining \in Settles!Shares
      BY <1>1, <2>3, RowStates DEF Settles!Rows
    <3>3. row'.remaining <= row.remaining
      BY <3>2, SettleConstants
    <3> QED
      BY <1>2, <2>3, <3>1, <3>2, <3>3, WritesState
  <2>4. CASE /\ exit.reply > 0 /\ Acquired - exit.reply = balance
             /\ Settles!Rebuild(balance)
    <3>1. exit \in Exits
      BY DEF SettleInv, SettleTypes
    <3>2. /\ exit.reply = exit.sold /\ exit.reply \in Settles!Shares
          /\ exit.state = "required"
      BY <2>1, <2>4, <3>1, SettleConstants
         DEF SettleInv, ExitInv, Settles!Unresolved, Exits, Balances
    <3> DEFINE state == CASE balance = 0 -> "CLOSED"
                          [] balance \in 1..(MinOrder - 1) -> "DUST"
                          [] OTHER -> "OPEN"
    <3>3. exit' = [exit EXCEPT !.state = "final"]
          /\ row' = [state |-> state, remaining |-> balance, sold |-> exit.reply,
                     closed |-> row.closed \/ balance < MinOrder, link |-> FALSE]
      BY <2>4 DEF Settles!Rebuild
    <3>4. state \in {"CLOSED", "DUST", "OPEN"} /\ (state = "CLOSED" => balance = 0)
      BY SettleConstants
    <3> HIDE DEF state
    <3>5. row' \in Settles!Rows /\ row'.link = FALSE /\ row'.state = state
      <4>1. (row.closed \/ balance < MinOrder) \in BOOLEAN
        OBVIOUS
      <4> QED
        BY <3>2, <3>3, <3>4, <4>1, RowStates DEF Settles!Rows
    <3>6. row'.state = "CLOSED" => wallet = 0
      BY <3>4, <3>5
    <3> QED
      BY <1>2, <3>2, <3>3, <3>4, <3>5, <3>6, WritesExit
  <2> QED
    BY <1>2, <2>2, <2>3, <2>4, RepairEffect
<1>3. CASE /\ UNCHANGED exit
           /\ \/ UNCHANGED <<row, losses>>
              \/ Settles!Resolve(winner)
              \/ /\ row.state = "EXITING" /\ ~Settles!Unresolved /\ UNCHANGED losses
                 /\ row' = [row EXCEPT !.state = "DUST", !.closed = TRUE, !.link = FALSE]
  <2>1. CASE UNCHANGED <<row, losses>>
    BY <1>3, <2>1, WritesNothing
  <2>2. CASE Settles!Resolve(winner)
    BY <1>1, <1>3, <2>2, WritesResolution
  <2>3. CASE /\ row.state = "EXITING" /\ ~Settles!Unresolved /\ UNCHANGED losses
             /\ row' = [row EXCEPT !.state = "DUST", !.closed = TRUE, !.link = FALSE]
    <3>1. losses = 0
      BY <2>3 DEF SettleInv, LossInv
    <3>2. /\ row' \in Settles!Rows /\ row'.state = "DUST" /\ row'.sold = row.sold
          /\ row'.link = FALSE /\ row'.remaining = row.remaining
          /\ row.remaining \in Settles!Shares /\ row.link \in BOOLEAN
      BY <1>1, <2>3, RowStates DEF Settles!Rows
    <3>3. row'.remaining <= row.remaining
      BY <3>2, SettleConstants
    <3>4. ~row.link
      BY <2>3 DEF SettleInv, ExitInv
    <3>5. row'.link = row.link
      BY <3>2, <3>4
    <3> QED
      BY <1>3, <2>3, <3>1, <3>2, <3>3, <3>5, WritesState
  <2> QED
    BY <1>3, <2>1, <2>2, <2>3
<1> QED
  BY <1>2, <1>3, SettleEffect

LEMMA BalanceKeeps ==
  ASSUME SettleInv, Settles!Balance
  PROVE  SettleSafe
<1>1. /\ worker.pc = "balance" /\ worker' = [worker EXCEPT !.pc = "intents"]
      /\ UNCHANGED <<winner, known, wallet, redeemed, shown, young, operator>>
  BY DEF Settles!Balance, Settles!At, Settles!Goto
<1>2. worker \in Runs /\ wallet \in Settles!Shares /\ unread \in 0..MaxUnread
      /\ seen \in Observations /\ quarantined \in BOOLEAN
  BY DEF SettleInv, SettleTypes
<1>3. worker' \in Runs /\ worker'.pc = "intents" /\ worker.feed \in Settles!Shares
  BY <1>1, <1>2 DEF Runs
<1>4. unread' \in 0..MaxUnread
  <2>1. unread' = unread \/ (unread < MaxUnread /\ unread' = unread + 1)
    BY DEF Settles!Balance
  <2> QED
    BY <1>2, <2>1, SettleConstants
<1>5. ASSUME NEW balance \in Settles!Shares, NEW strong \in BOOLEAN,
             balance > 0 \/ balance = wallet, Settles!Settle(balance, strong)
      PROVE  SettleSafe
  <2>1. seen' \in Observations /\ quarantined' \in BOOLEAN
    BY <1>5, SettleEffect, RepairEffect
  <2>2. RunStep
    BY <1>1, <1>3, <1>4, <2>1 DEF RunStep
  <2> QED
    BY <1>1, <1>3, <1>5, <2>2, SettleKeeps
<1>6. CASE Settles!Settle(wallet, TRUE)
  BY <1>2, <1>5, <1>6
<1>7. CASE worker.feed > 0 /\ Settles!Settle(worker.feed, FALSE)
  BY <1>3, <1>5, <1>7
<1>8. CASE seen' = [seen EXCEPT !.zeros = 0] /\ UNCHANGED <<exit, row, quarantined, losses>>
  <2>1. seen' \in Observations
    BY <1>2, <1>8 DEF Observations
  <2>2. RunStep
    BY <1>1, <1>2, <1>3, <1>4, <1>8, <2>1 DEF RunStep
  <2> QED
    BY <1>8, <2>2, WritesNothing
<1> QED
  BY <1>6, <1>7, <1>8 DEF Settles!Balance

\* apply_exit_fill, of an exit that is booked for the first time, with a part of
\* its trades or all of them
LEMMA BookedEffect ==
  ASSUME SettleInv, exit.state = "required", NEW part \in 1..exit.sold,
         row' = Settles!Booked(part)
  PROVE  /\ row' \in Settles!Rows /\ row'.link = FALSE
         /\ row'.state \in {"CLOSED", "DUST", "EXITING"}
         /\ row'.state = "CLOSED" => wallet = 0
<1> DEFINE left == IF Acquired > part THEN Acquired - part ELSE 0
           state == IF left = 0 THEN "CLOSED" ELSE IF left < MinOrder THEN "DUST" ELSE "EXITING"
           closed0 == row.closed \/ left < MinOrder
<1>1. row \in Settles!Rows /\ exit \in Exits /\ wallet \in Settles!Shares
      /\ exit.sold + wallet <= Acquired
  BY DEF SettleInv, SettleTypes, ExitInv
<1>2. exit.sold \in Settles!Shares
  BY <1>1 DEF Exits
<1>3. row' = [state |-> state, remaining |-> left, sold |-> part, closed |-> closed0,
              link |-> FALSE]
  BY DEF Settles!Booked
<1>4. left \in Settles!Shares /\ part \in Settles!Shares /\ (left = 0 => wallet = 0)
  <2>1. /\ wallet \in 0..Acquired /\ exit.sold \in 0..Acquired
        /\ exit.sold + wallet <= Acquired
    BY <1>1, <1>2, SettleConstants
  <2>2. part \in 0..Acquired /\ part <= exit.sold
    BY <2>1, SettleConstants
  <2>3. left \in 0..Acquired /\ (left = 0 => wallet = 0)
    BY <2>1, <2>2, SettleConstants
  <2> QED
    BY <2>2, <2>3, SettleConstants
<1>5. state \in {"CLOSED", "DUST", "EXITING"} /\ (state = "CLOSED" => left = 0)
      /\ closed0 \in BOOLEAN
  OBVIOUS
<1> HIDE DEF left, state, closed0
<1>6. row' \in Settles!Rows /\ row'.link = FALSE /\ row'.state = state
  BY <1>3, <1>4, <1>5, RowStates DEF Settles!Rows
<1> QED
  BY <1>4, <1>5, <1>6

\* The row that waits for its trades, or for what became of its order.
LEMMA WritesWaiting ==
  ASSUME SettleInv, RunStep, worker'.pc # "balance", UNCHANGED losses, exit.state = "required",
         exit' = [exit EXCEPT !.pended = TRUE],
         row' = IF row.remaining = 0 THEN row ELSE [row EXCEPT !.state = Settles!ERR]
  PROVE  SettleSafe
<1>1. exit \in Exits /\ row \in Settles!Rows /\ row.sold = 0
  BY DEF SettleInv, SettleTypes, ExitInv
<1>2. /\ exit' \in Exits /\ exit'.state = exit.state /\ exit'.reply = exit.reply
      /\ exit'.sold = exit.sold
  BY <1>1 DEF Exits
<1>3. /\ row' \in Settles!Rows /\ row'.link = row.link /\ row'.sold = row.sold
      /\ row'.state \in {Settles!ERR, row.state}
  BY <1>1, RowStates DEF Settles!Rows
<1>4. losses = 0
  BY DEF SettleInv, LossInv
<1>5. SettleTypes'
  BY <1>2, <1>3, SettleConstants DEF SettleInv, SettleTypes, RunStep, Balances
<1>6. ExitInv'
  BY <1>2, <1>3 DEF SettleInv, ExitInv, RunStep, Settles!Unresolved
<1>7. ReadInv' /\ LossInv'
  BY <1>3, <1>4, RowStates DEF SettleInv, ReadInv, LossInv, RunStep
<1>8. GoneInv'
  BY <1>3, RowStates DEF SettleInv, GoneInv, RunStep
<1>9. NotBuried /\ StaysSold
  BY <1>1, <1>3, RowStates2 DEF NotBuried, StaysSold
<1> QED
  BY <1>5, <1>6, <1>7, <1>8, <1>9 DEF SettleSafe, SettleInv

LEMMA IntentsKeep ==
  ASSUME SettleInv, Settles!Intents
  PROVE  SettleSafe
<1>1. /\ worker' = [worker EXCEPT !.pc = "positions"]
      /\ UNCHANGED <<winner, known, wallet, redeemed, shown, young, quarantined, losses,
                     seen, unread, operator>>
  BY DEF Settles!Intents, Settles!Goto
<1>2. worker \in Runs /\ unread \in 0..MaxUnread /\ seen \in Observations
      /\ quarantined \in BOOLEAN /\ row \in Settles!Rows
  BY DEF SettleInv, SettleTypes
<1>3. RunStep /\ worker'.pc # "balance"
  BY <1>1, <1>2 DEF Runs, RunStep
<1>4. CASE UNCHANGED <<exit, row>>
  BY <1>1, <1>3, <1>4, WritesNothing
<1>5. ASSUME NEW part \in 1..exit.sold, exit.state = "required", row' = Settles!Booked(part),
             exit' = [exit EXCEPT !.state = "final"]
      PROVE  SettleSafe
  BY <1>1, <1>3, <1>5, BookedEffect, WritesExit
<1>6. CASE /\ exit.state = "required" /\ exit' = [exit EXCEPT !.pended = TRUE]
           /\ row' = IF row.remaining = 0 THEN row ELSE [row EXCEPT !.state = Settles!ERR]
  BY <1>1, <1>3, <1>6, WritesWaiting
<1>7. CASE Settles!ZeroEffect
  <2>1. /\ exit.state = "required" /\ exit' = [exit EXCEPT !.state = "final"]
        /\ row' = [row EXCEPT !.state = "EXITING", !.link = FALSE]
    BY <1>7 DEF Settles!ZeroEffect
  <2>2. row' \in Settles!Rows /\ row'.link = FALSE /\ row'.state = "EXITING"
    BY <1>2, <2>1, RowStates DEF Settles!Rows
  <2> QED
    BY <1>1, <1>3, <2>1, <2>2, WritesExit
<1> QED
  BY <1>4, <1>5, <1>6, <1>7 DEF Settles!Intents, Settles!Identified

LEMMA PositionsKeep ==
  ASSUME SettleInv, Settles!Positions
  PROVE  SettleSafe
<1> DEFINE shares == worker.feed
           lost == known = "named" /\ ~winner
<1>1. /\ worker' = Settles!Idle
      /\ UNCHANGED <<winner, known, wallet, redeemed, shown, exit, young, quarantined,
                     seen, unread, operator>>
  BY DEF Settles!Positions
<1>2. worker \in Runs /\ unread \in 0..MaxUnread /\ seen \in Observations
      /\ quarantined \in BOOLEAN /\ row \in Settles!Rows /\ winner \in BOOLEAN
  BY DEF SettleInv, SettleTypes
<1>3. RunStep /\ worker'.pc # "balance"
  <2>1. worker' \in Runs /\ worker'.pc = "idle"
    BY <1>1, <1>2, SettleConstants DEF Settles!Idle, Runs
  <2> QED
    BY <1>1, <1>2, <2>1 DEF RunStep
<1>4. shares \in Settles!Shares
  BY <1>2 DEF Runs
<1>5. CASE UNCHANGED <<row, losses>>
  BY <1>1, <1>3, <1>5, WritesNothing
<1>6. CASE lost /\ Settles!Resolve(FALSE)
  <2>1. winner = FALSE
    BY <1>2, <1>6
  <2> QED
    BY <1>1, <1>3, <1>6, <2>1, WritesResolution
<1>7. CASE /\ ~Settles!SoldSince(shares) /\ UNCHANGED losses /\ row.remaining # shares
           /\ ~(lost /\ row.state \in {"RESOLVED_LOSER", "REDEEMED"})
           /\ row' = [row EXCEPT !.remaining = shares,
                         !.state = IF @ = "QUARANTINED" THEN @
                                   ELSE IF exit.state # "none" THEN "EXITING" ELSE "OPEN"]
  <2> DEFINE state == IF row.state = "QUARANTINED" THEN "QUARANTINED"
                      ELSE IF exit.state # "none" THEN "EXITING" ELSE "OPEN"
  <2>1. row' = [row EXCEPT !.remaining = shares, !.state = state]
    BY <1>7
  <2>2. state \in {"QUARANTINED", "EXITING", "OPEN"}
    OBVIOUS
  <2> HIDE DEF state
  <2>3. /\ row' \in Settles!Rows /\ row'.state = state /\ row'.remaining = shares
        /\ row'.sold = row.sold /\ row'.link = row.link
    BY <1>2, <1>4, <2>1, <2>2, RowStates DEF Settles!Rows
  <2>4. row.sold > 0 => row'.remaining <= row.remaining
    <3>1. row.remaining \in Settles!Shares
      BY <1>2 DEF Settles!Rows
    <3> QED
      BY <1>4, <1>7, <2>3, <3>1, SettleConstants DEF Settles!SoldSince
  <2>5. losses = 0
    <3>1. losses \in 0..1 /\ losses # 1
      BY <1>7 DEF SettleInv, LossInv
    <3> QED
      BY <3>1
  <2> HIDE DEF shares
  <2> QED
    BY <1>1, <1>3, <1>4, <1>7, <2>2, <2>3, <2>4, <2>5, WritesState
<1> QED
  BY <1>5, <1>6, <1>7 DEF Settles!Positions

LEMMA OperatorKeeps ==
  ASSUME SettleInv, Settles!OperatorEnds \/ Settles!OperatorZeroFill
  PROVE  SettleSafe
<1>1. /\ UNCHANGED <<winner, known, wallet, redeemed, shown, young, quarantined, seen,
                     worker, unread>>
      /\ operator' \in {operator, Settles!Unknown}
  BY DEF Settles!OperatorEnds, Settles!OperatorZeroFill
<1>2. worker \in Runs /\ unread \in 0..MaxUnread /\ seen \in Observations
      /\ quarantined \in BOOLEAN /\ row \in Settles!Rows /\ winner \in BOOLEAN /\ exit \in Exits
  BY DEF SettleInv, SettleTypes
<1>3. RunStep
  BY <1>1, <1>2 DEF RunStep
<1>4. CASE Settles!OperatorEnds
  <2>1. UNCHANGED <<exit, losses>> /\ operator # Settles!Unknown
        /\ \/ UNCHANGED row
           \/ Settles!RedemptionProven /\ row' = Settles!Redeemed
    BY <1>4 DEF Settles!OperatorEnds
  <2>2. CASE UNCHANGED row
    BY <1>3, <2>1, <2>2, WritesNothing
  <2>3. CASE Settles!RedemptionProven /\ row' = Settles!Redeemed
    <3>1. /\ row' \in Settles!Rows /\ row'.state = "REDEEMED" /\ row'.remaining = 0
          /\ row'.sold = row.sold /\ row'.link = row.link /\ row.remaining \in Settles!Shares
      BY <1>2, <2>3, RowStates, SettleConstants DEF Settles!Redeemed, Settles!Rows
    <3>2. ~Settles!Unresolved
      BY <2>3 DEF Settles!RedemptionProven, Settles!BlockedByExit, SettleInv, ExitInv
    <3>3. winner
      BY <2>1 DEF SettleInv, LossInv
    <3>4. SettleTypes'
      BY <2>1, <3>1, SettleConstants, <1>3 DEF SettleInv, SettleTypes, RunStep, Balances
    <3>5. ExitInv' /\ GoneInv'
      BY <1>1, <2>1, <3>1 DEF SettleInv, ExitInv, GoneInv, Settles!Unresolved
    <3>6. ReadInv' /\ LossInv'
      BY <1>1, <2>1, <3>1, <3>3 DEF SettleInv, ReadInv, LossInv, Settles!Unresolved
    <3>7. NotBuried
      BY <2>1, <3>2 DEF NotBuried, Settles!Unresolved
    <3>8. StaysSold
      BY <3>1, SettleConstants DEF StaysSold
    <3> QED
      BY <3>4, <3>5, <3>6, <3>7, <3>8 DEF SettleSafe, SettleInv
  <2> QED
    BY <2>1, <2>2, <2>3
<1>5. CASE Settles!OperatorZeroFill
  <2> DEFINE official == known = "named" /\ winner
             state == IF official THEN row.state ELSE "RESOLVED_LOSER"
  <2>1. /\ exit.state = "required" /\ exit.reply = Settles!Unknown /\ exit.sold = 0
        /\ row.state = "REDEEM_PENDING" /\ exit' = [exit EXCEPT !.state = "final"]
        /\ row' = [row EXCEPT !.link = FALSE, !.state = state]
        /\ losses' = IF official THEN losses ELSE losses + 1
    BY <1>5 DEF Settles!OperatorZeroFill, Settles!NothingWasSold, Settles!ZeroFilled
  <2>2. known = "named" /\ losses = 0 /\ row.sold = 0
    <3>1. losses \in 0..1 /\ losses # 1
      BY <2>1 DEF SettleInv, LossInv
    <3> QED
      BY <2>1, <3>1 DEF SettleInv, LossInv, ExitInv
  <2>3. /\ state \in {"REDEEM_PENDING", "RESOLVED_LOSER"}
        /\ (state = "RESOLVED_LOSER" => ~winner) /\ losses' \in 0..1
        /\ (losses' = 1 => ~winner /\ state = "RESOLVED_LOSER")
    BY <2>1, <2>2
  <2> HIDE DEF state, official
  <2>4. /\ row' \in Settles!Rows /\ row'.state = state /\ row'.sold = row.sold
        /\ row'.link = FALSE
    BY <1>2, <2>1, <2>3, RowStates DEF Settles!Rows
  <2>5. /\ exit' \in Exits /\ exit'.state = "final" /\ exit'.reply = exit.reply
        /\ exit'.sold = exit.sold
    BY <1>2, <2>1 DEF Exits
  <2>6. SettleTypes'
    BY <1>3, <2>4, <2>5, SettleConstants DEF SettleInv, SettleTypes, RunStep, Balances
  <2>7. ExitInv' /\ GoneInv'
    BY <1>1, <2>3, <2>4, <2>5 DEF SettleInv, ExitInv, GoneInv, Settles!Unresolved
  <2>8. ReadInv'
    BY <1>1, <2>1, RowStates DEF SettleInv, ReadInv, Settles!ERR
  <2>9. LossInv'
    BY <1>1, <2>1, <2>2, <2>3, <2>4, <2>5 DEF SettleInv, LossInv
  <2>10. NotBuried /\ StaysSold
    BY <2>2, <2>5 DEF NotBuried, StaysSold
  <2> QED
    BY <2>6, <2>7, <2>8, <2>9, <2>10 DEF SettleSafe, SettleInv
<1> QED
  BY <1>4, <1>5

\* The steps that write no row, or one that is on its way out.
LEMMA OtherStepsSafe ==
  ASSUME SettleInv,
         \/ Settles!MarketRow \/ Settles!Redeem \/ Settles!FeedCatchesUp \/ Settles!Age
         \/ Settles!ReadPositions \/ Settles!ReadRow \/ Settles!OperatorBegins
         \/ Settles!Submit \/ Settles!Answered \/ UNCHANGED settleVars
  PROVE  NotBuried /\ StaysSold
<1>1. row \in Settles!Rows
  BY DEF SettleInv, SettleTypes
<1>2. /\ row'.state \in {row.state, "EXITING", Settles!ERR}
      /\ row'.remaining = row.remaining /\ row.remaining \in Settles!Shares
  BY <1>1 DEF Settles!MarketRow, Settles!Redeem, Settles!FeedCatchesUp, Settles!Age,
     Settles!ReadPositions, Settles!ReadRow, Settles!OperatorBegins,
     Settles!Submit, Settles!Answered, settleVars, Settles!Rows
<1>3. NotBuried
  BY <1>2, RowStates2 DEF NotBuried
<1>4. StaysSold
  BY <1>2, SettleConstants DEF StaysSold
<1> QED
  BY <1>3, <1>4

LEMMA SettleNext ==
  ASSUME SettleInv, [Settles!Next]_settleVars
  PROVE  SettleSafe
<1>1. CASE UNCHANGED settleVars
  <2>1. UNCHANGED <<winner, known, wallet, redeemed, shown, exit, row, young, quarantined,
                    losses, seen, worker, unread, operator>>
    BY <1>1 DEF settleVars
  <2>2. SettleInv'
    BY <2>1 DEF SettleInv, SettleTypes, ExitInv, ReadInv, LossInv, GoneInv,
                Settles!Unresolved
  <2> QED
    BY <1>1, <2>2, OtherStepsSafe DEF SettleSafe
<1>2. CASE Settles!MarketRow \/ Settles!Redeem \/ Settles!FeedCatchesUp \/ Settles!Age
  BY <1>2, MarketKeeps, OtherStepsSafe DEF SettleSafe
<1>3. CASE Settles!ReadPositions \/ Settles!ReadRow \/ Settles!OperatorBegins
  BY <1>3, ReadsKeep, OtherStepsSafe DEF SettleSafe
<1>4. CASE Settles!Submit \/ Settles!Answered
  BY <1>4, SubmitKeeps, AnsweredKeeps, OtherStepsSafe DEF SettleSafe
<1>5. CASE Settles!Balance \/ Settles!Intents \/ Settles!Positions
  BY <1>5, BalanceKeeps, IntentsKeep, PositionsKeep
<1>6. CASE Settles!OperatorEnds \/ Settles!OperatorZeroFill
  BY <1>6, OperatorKeeps
<1> QED
  BY <1>1, <1>2, <1>3, <1>4, <1>5, <1>6 DEF Settles!Next, Settles!Run

LEMMA SettleInvariant == Spec => []SettleInv
<1>1. Init => SettleInv
  BY SettleInit DEF Init
<1>2. SettleInv /\ [Next]_ledgerVars => SettleInv'
  BY SettleSteps, SettleNext DEF SettleSafe
<1> QED
  BY <1>1, <1>2, PTL DEF Spec, ledgerVars

(* No settlement of the market, by a run or by the operator, is written     *)
(* while the exit may still exist at the exchange.                          *)
THEOREM ExitIsNeverBuried == Spec => ExitIsNotBuried
<1>1. SettleInv /\ [Next]_ledgerVars
        => [row'.state \in Settles!Resolved /\ row.state \notin Settles!Resolved
               => exit'.state \notin {"submitting", "required"}]_settleVars
  BY SettleSteps, SettleNext DEF SettleSafe, NotBuried
<1> QED
  BY <1>1, SettleInvariant, PTL DEF Spec, ledgerVars, ExitIsNotBuried, Settles!ExitIsNotBuried,
     settleVars, Settles!settleVars

(* Once a sale is booked, no balance, no feed and no repair gives the row   *)
(* more shares than it has.                                                 *)
THEOREM SoldSharesStaySoldEver == Spec => SoldSharesStaySold
<1>1. SettleInv /\ [Next]_ledgerVars
        => [row.sold > 0 => row'.remaining <= row.remaining]_settleVars
  BY SettleSteps, SettleNext DEF SettleSafe, StaysSold
<1> QED
  BY <1>1, SettleInvariant, PTL DEF Spec, ledgerVars, SoldSharesStaySold,
     Settles!SoldSharesStaySold, settleVars, Settles!settleVars

-----------------------------------------------------------------------------
(* The fills of a take-profit *)

Sales == [state : Profit!Finals \cup {"LIVE", "PARTIAL", "RECONCILIATION_REQUIRED"},
          filled : Profit!Shares]
Lots == [state : {"MANAGED", "DUST", "CLOSED"}, remaining : Profit!Shares, sold : Profit!Shares]
Passes == [pc : {"idle", "trades", "maker", "intents", "positions"}, open : BOOLEAN,
           feed : Profit!Shares]
ProfitTypes ==
    /\ owned \in Profit!Shares /\ ingested \in Profit!Shares /\ listed \in Profit!Shares
    /\ resting \in BOOLEAN /\ ahead \in BOOLEAN
    /\ sale \in Sales /\ lot \in Lots /\ pass \in Passes

\* What is booked is stored, and what is stored has left the wallet.  A row with
\* proceeds has what was not booked, unless a feed was ahead; and it has none as
\* long as nothing is booked.
ProfitInv ==
    /\ ProfitTypes
    /\ sale.filled <= ingested /\ ingested + owned <= Acquired
    /\ lot.sold = 0 <=> sale.filled = 0
    /\ lot.sold + lot.remaining <= Acquired
    /\ lot.sold > 0 /\ ~ahead => lot.remaining = Acquired - sale.filled
    /\ lot.state = "CLOSED" => lot.remaining = 0 /\ lot.sold > 0

LEMMA ProfitConstants ==
  /\ Acquired \in Nat /\ Acquired > 0 /\ MinOrder \in 1..Acquired
  /\ Profit!Shares = 0..Acquired
  BY LedgersAssumption DEF Profit!ProfitAssumption, Profit!Shares

LEMMA ProfitInit == Profit!Init => ProfitInv
<1> SUFFICES ASSUME Profit!Init PROVE ProfitInv
  OBVIOUS
<1>1. /\ owned = Acquired /\ resting = TRUE /\ ingested = 0 /\ listed = Acquired /\ ahead = FALSE
      /\ sale = [state |-> "LIVE", filled |-> 0]
      /\ lot = [state |-> "MANAGED", remaining |-> Acquired, sold |-> 0]
      /\ pass = [pc |-> "idle", open |-> FALSE, feed |-> 0]
  BY DEF Profit!Init
<1>2. sale \in Sales /\ lot \in Lots /\ pass \in Passes
  BY <1>1, ProfitConstants DEF Sales, Lots, Passes
<1>3. /\ sale.filled = 0 /\ lot.state = "MANAGED" /\ lot.remaining = Acquired /\ lot.sold = 0
  BY <1>1
<1>4. ProfitTypes
  <2>1. owned \in Profit!Shares /\ ingested \in Profit!Shares /\ listed \in Profit!Shares
    BY <1>1, ProfitConstants
  <2>2. resting \in BOOLEAN /\ ahead \in BOOLEAN
    BY <1>1
  <2> QED
    BY <1>2, <2>1, <2>2 DEF ProfitTypes
<1> QED
  BY <1>1, <1>3, <1>4, ProfitConstants DEF ProfitInv

\* The exchange, the fills that are stored, the feed, and what a run reads
LEMMA ProfitReads ==
  ASSUME ProfitInv,
         \/ Profit!Fill \/ Profit!OrderEnds \/ Profit!StoreFills \/ Profit!FeedMoves
         \/ Profit!ReadOrders \/ Profit!ReadListing
  PROVE  ProfitInv'
<1> USE ProfitConstants
<1>1. /\ owned \in 0..Acquired /\ ingested \in 0..Acquired /\ listed \in 0..Acquired
      /\ resting \in BOOLEAN /\ pass \in Passes /\ ingested + owned <= Acquired
      /\ sale \in Sales /\ sale.filled \in 0..Acquired /\ sale.filled <= ingested
  BY DEF ProfitInv, ProfitTypes, Sales
<1>2. UNCHANGED <<sale, lot, ahead>>
  BY DEF Profit!Fill, Profit!OrderEnds, Profit!StoreFills, Profit!FeedMoves,
         Profit!ReadOrders, Profit!ReadListing
<1>3. /\ owned' \in 0..Acquired /\ ingested' \in 0..Acquired /\ ingested' + owned' <= Acquired
      /\ sale.filled <= ingested'
  <2>1. CASE Profit!Fill
    BY <1>1, <2>1 DEF Profit!Fill
  <2>2. CASE Profit!StoreFills
    BY <1>1, <2>2 DEF Profit!StoreFills
  <2>3. CASE \/ Profit!OrderEnds \/ Profit!FeedMoves \/ Profit!ReadOrders \/ Profit!ReadListing
    <3>1. UNCHANGED <<owned, ingested>>
      BY <2>3 DEF Profit!OrderEnds, Profit!FeedMoves, Profit!ReadOrders, Profit!ReadListing
    <3> QED
      BY <1>1, <3>1
  <2> QED
    BY <2>1, <2>2, <2>3
<1>4. listed' \in 0..Acquired /\ resting' \in BOOLEAN
  <2>1. CASE Profit!Fill
    BY <1>1, <2>1 DEF Profit!Fill
  <2>2. CASE Profit!OrderEnds
    BY <1>1, <2>2 DEF Profit!OrderEnds
  <2>3. CASE Profit!FeedMoves
    BY <1>1, <2>3 DEF Profit!FeedMoves
  <2>4. CASE Profit!StoreFills \/ Profit!ReadOrders \/ Profit!ReadListing
    <3>1. UNCHANGED <<listed, resting>>
      BY <2>4 DEF Profit!StoreFills, Profit!ReadOrders, Profit!ReadListing
    <3> QED
      BY <1>1, <3>1
  <2> QED
    BY <2>1, <2>2, <2>3, <2>4
<1>5. pass' \in Passes
  <2>1. CASE Profit!ReadOrders
    BY <1>1, <2>1 DEF Profit!ReadOrders, Passes
  <2>2. CASE Profit!ReadListing
    BY <1>1, <2>2 DEF Profit!ReadListing, Passes
  <2>3. CASE \/ Profit!Fill \/ Profit!OrderEnds \/ Profit!StoreFills \/ Profit!FeedMoves
    BY <1>1, <2>3 DEF Profit!Fill, Profit!OrderEnds, Profit!StoreFills, Profit!FeedMoves
  <2> QED
    BY <2>1, <2>2, <2>3
<1> QED
  BY <1>2, <1>3, <1>4, <1>5 DEF ProfitInv, ProfitTypes

\* A step of the run that leaves the exchange, the fills and the feed alone
BooksOnly == UNCHANGED <<owned, resting, ingested, listed, ahead>> /\ pass' \in Passes

\* apply_exit_fill of what was stored and not yet booked: the first booking
\* starts at the shares acquired, a later one at what the earlier ones left.
LEMMA BookingKeeps ==
  ASSUME ProfitInv, BooksOnly, NEW final \in {"PARTIAL", "FILLED", "PARTIAL_FINAL"},
         ingested > sale.filled, Profit!Booked(final)
  PROVE  ProfitInv'
<1> USE ProfitConstants
<1> DEFINE before == IF sale.filled = 0 /\ lot.sold = 0 THEN Acquired ELSE lot.remaining
           delta == ingested - sale.filled
           left == IF before > delta THEN before - delta ELSE 0
           state == CASE left = 0 -> "CLOSED"
                      [] left \in 1..(MinOrder - 1) -> "DUST"
                      [] OTHER -> "MANAGED"
           sold == lot.sold + (before - left)
<1>1. /\ owned \in 0..Acquired /\ ingested \in 0..Acquired /\ ingested + owned <= Acquired
      /\ sale \in Sales /\ sale.filled \in 0..Acquired /\ sale.filled <= ingested
      /\ lot \in Lots /\ lot.remaining \in 0..Acquired /\ lot.sold \in 0..Acquired
      /\ lot.sold = 0 <=> sale.filled = 0
      /\ lot.sold + lot.remaining <= Acquired
      /\ lot.sold > 0 /\ ~ahead => lot.remaining = Acquired - sale.filled
  BY DEF ProfitInv, ProfitTypes, Sales, Lots
<1>2. sale' = [state |-> final, filled |-> ingested]
      /\ lot' = [state |-> state, remaining |-> left, sold |-> sold]
  BY DEF Profit!Booked, Profit!BookedFrom
<1>3. before \in 0..Acquired /\ delta \in 1..Acquired /\ lot.sold + before <= Acquired
  BY <1>1
<1>4. (lot.sold = 0 => before = Acquired) /\ (lot.sold > 0 => before = lot.remaining)
  BY <1>1
<1> HIDE DEF before, delta
<1>5. left \in 0..Acquired /\ left <= before /\ sold \in 0..Acquired /\ sold + left <= Acquired
  <2>1. CASE before > delta
    <3>1. left = before - delta /\ sold = lot.sold + delta
      BY <1>1, <1>3, <2>1
    <3> QED
      BY <1>1, <1>3, <2>1, <3>1
  <2>2. CASE ~(before > delta)
    <3>1. left = 0 /\ sold = lot.sold + before
      BY <1>1, <1>3, <2>2
    <3> QED
      BY <1>1, <1>3, <2>2, <3>1
  <2> QED
    BY <2>1, <2>2
<1>6. sold > 0 /\ ingested > 0
  <2>1. ingested > 0
    BY <1>1
  <2>2. CASE lot.sold > 0
    <3>1. sold >= lot.sold
      BY <1>1, <1>3, <1>5
    <3> QED
      BY <1>1, <1>5, <2>1, <2>2, <3>1
  <2>3. CASE lot.sold = 0
    <3>1. before = Acquired /\ left < Acquired
      BY <1>1, <1>3, <1>4, <2>3, ProfitConstants
    <3> QED
      BY <1>1, <1>5, <2>1, <2>3, <3>1
  <2> QED
    BY <1>1, <2>2, <2>3
<1>7. ~ahead => left = Acquired - ingested
  <2>1. ~ahead => before = Acquired - sale.filled
    BY <1>1, <1>4
  <2>2. delta = ingested - sale.filled
    BY DEF delta
  <2> QED
    BY <1>1, <1>3, <2>1, <2>2
<1>8. state \in {"MANAGED", "DUST", "CLOSED"} /\ (state = "CLOSED" => left = 0)
  BY <1>5
<1> HIDE DEF left, sold, state, delta
<1>9. /\ sale' \in Sales /\ sale'.filled = ingested
      /\ lot' \in Lots /\ lot'.state = state /\ lot'.remaining = left /\ lot'.sold = sold
  BY <1>1, <1>2, <1>5, <1>8 DEF Sales, Lots, Profit!Finals
<1> QED
  BY <1>1, <1>5, <1>6, <1>7, <1>8, <1>9 DEF ProfitInv, ProfitTypes, BooksOnly

\* The intent ends, or waits for its fills: the row keeps its shares.
LEMMA EndingKeeps ==
  ASSUME ProfitInv, BooksOnly,
         NEW state \in Profit!Finals \cup {"LIVE", "PARTIAL", "RECONCILIATION_REQUIRED"},
         sale' = [sale EXCEPT !.state = state],
         \/ lot' = lot
         \/ lot.remaining > 0 /\ lot' = [lot EXCEPT !.state = "MANAGED"]
  PROVE  ProfitInv'
<1>1. sale \in Sales /\ lot \in Lots
  BY DEF ProfitInv, ProfitTypes
<1>2. sale' \in Sales /\ sale'.filled = sale.filled
  BY <1>1 DEF Sales
<1>3. /\ lot' \in Lots /\ lot'.remaining = lot.remaining /\ lot'.sold = lot.sold
      /\ lot'.state \in {lot.state, "MANAGED"}
  BY <1>1 DEF Lots
<1> QED
  BY <1>2, <1>3 DEF ProfitInv, ProfitTypes, BooksOnly

LEMMA RunsBook ==
  ASSUME ProfitInv, Profit!BookMaker \/ Profit!Intents
  PROVE  ProfitInv'
<1>1. pass \in Passes /\ sale \in Sales /\ lot \in Lots
  BY DEF ProfitInv, ProfitTypes
<1>2. BooksOnly
  <2>1. /\ pass' = [pass EXCEPT !.pc = "intents"] \/ pass' = [pass EXCEPT !.pc = "positions"]
        /\ UNCHANGED <<owned, resting, ingested, listed, ahead>>
    BY DEF Profit!BookMaker, Profit!Intents
  <2> QED
    BY <1>1, <2>1 DEF BooksOnly, Passes
<1>3. Profit!Final \in {"PARTIAL", "FILLED", "PARTIAL_FINAL"}
  BY DEF Profit!Final
<1>4. CASE UNCHANGED <<sale, lot>>
  BY <1>2, <1>4 DEF ProfitInv, ProfitTypes, BooksOnly
<1>5. CASE ingested > sale.filled /\ Profit!Booked(Profit!Final)
  BY <1>2, <1>3, <1>5, BookingKeeps
<1>6. ASSUME NEW state \in {"LIVE", "CANCELED", "RECONCILIATION_REQUIRED", Profit!Final},
             sale' = [sale EXCEPT !.state = state],
             lot' \in {lot, [lot EXCEPT !.state = IF lot.remaining > 0 THEN "MANAGED" ELSE @]}
      PROVE  ProfitInv'
  <2>1. state \in Profit!Finals \cup {"LIVE", "PARTIAL", "RECONCILIATION_REQUIRED"}
    BY <1>3, <1>6 DEF Profit!Finals
  <2>2. [lot EXCEPT !.state = lot.state] = lot
    BY <1>1 DEF Lots
  <2>3. \/ lot' = lot
        \/ lot.remaining > 0 /\ lot' = [lot EXCEPT !.state = "MANAGED"]
    BY <1>6, <2>2
  <2> QED
    BY <1>2, <1>6, <2>1, <2>3, EndingKeeps
<1>7. CASE Profit!BookMaker
  BY <1>4, <1>5, <1>7 DEF Profit!BookMaker
<1>8. CASE Profit!Intents
  BY <1>4, <1>5, <1>6, <1>8 DEF Profit!Intents, Profit!EndsUnfilled
<1> QED
  BY <1>7, <1>8

LEMMA PositionsWrite ==
  ASSUME ProfitInv, Profit!Positions
  PROVE  ProfitInv'
<1> USE ProfitConstants
<1>1. /\ pass \in Passes /\ lot \in Lots /\ sale \in Sales /\ ahead \in BOOLEAN
      /\ pass.feed \in 0..Acquired /\ lot.remaining \in 0..Acquired /\ lot.sold \in 0..Acquired
      /\ sale.filled \in 0..Acquired /\ lot.sold + lot.remaining <= Acquired
  BY DEF ProfitInv, ProfitTypes, Passes, Lots, Sales
<1>2. pass' \in Passes /\ UNCHANGED <<owned, resting, ingested, listed, sale>>
  BY <1>1 DEF Profit!Positions, Passes
<1>3. CASE UNCHANGED <<lot, ahead>>
  BY <1>2, <1>3 DEF ProfitInv, ProfitTypes
<1>4. CASE /\ ~(pass.feed > lot.remaining /\ lot.sold > 0)
           /\ lot' = [lot EXCEPT !.remaining = pass.feed, !.state = "MANAGED"]
           /\ ahead' = (ahead \/ lot.sold > 0)
  <2>1. /\ lot' \in Lots /\ lot'.remaining = pass.feed /\ lot'.state = "MANAGED"
        /\ lot'.sold = lot.sold
    BY <1>1, <1>4 DEF Lots
  <2>2. lot'.sold + lot'.remaining <= Acquired
    BY <1>1, <1>4, <2>1
  <2>3. ahead' \in BOOLEAN /\ (lot.sold > 0 => ahead')
    BY <1>1, <1>4
  <2> QED
    BY <1>1, <1>2, <2>1, <2>2, <2>3 DEF ProfitInv, ProfitTypes
<1> QED
  BY <1>3, <1>4 DEF Profit!Positions

LEMMA ProfitNext == ProfitInv /\ [Profit!Next]_profitVars => ProfitInv'
<1> SUFFICES ASSUME ProfitInv, [Profit!Next]_profitVars PROVE ProfitInv'
  OBVIOUS
<1>1. CASE UNCHANGED profitVars
  BY <1>1 DEF profitVars, ProfitInv, ProfitTypes
<1>2. CASE \/ Profit!Fill \/ Profit!OrderEnds \/ Profit!StoreFills \/ Profit!FeedMoves
           \/ Profit!ReadOrders \/ Profit!ReadListing
  BY <1>2, ProfitReads
<1>3. CASE Profit!BookMaker \/ Profit!Intents
  BY <1>3, RunsBook
<1>4. CASE Profit!Positions
  BY <1>4, PositionsWrite
<1> QED
  BY <1>1, <1>2, <1>3, <1>4 DEF Profit!Next

LEMMA ProfitInvariant == Spec => []ProfitInv
<1>1. Init => ProfitInv
  BY ProfitInit DEF Init
<1>2. ProfitInv /\ [Next]_ledgerVars => ProfitInv'
  BY ProfitSteps, ProfitNext
<1> QED
  BY <1>1, <1>2, PTL DEF Spec, ledgerVars

(* A row that ended by its exit leaves no share in the wallet: by a sell at *)
(* the market, whatever the feed, the balances and the trades told the runs *)
(* and in whatever order; and by a take-profit that is filled in any parts, *)
(* whose fills are stored and booked and whose shares leave the feed at any *)
(* times, unless a feed was written below what was booked of it.            *)
THEOREM ClosedIsGoneEver == Spec => []ClosedIsGone
<1>1. SettleInv => Settles!ClosedIsGone
  BY DEF SettleInv, GoneInv, Settles!ClosedIsGone
<1>2. ProfitInv => Profit!ClosedIsGone
  <2> SUFFICES ASSUME ProfitInv, lot.state = "CLOSED", ~ahead PROVE owned = 0
    BY DEF Profit!ClosedIsGone
  <2>1. /\ owned \in 0..Acquired /\ ingested \in 0..Acquired /\ sale.filled \in 0..Acquired
        /\ sale.filled <= ingested /\ ingested + owned <= Acquired
        /\ Acquired - sale.filled = 0
    BY ProfitConstants DEF ProfitInv, ProfitTypes, Sales
  <2> QED
    BY <2>1, ProfitConstants
<1>3. SettleInv /\ ProfitInv => ClosedIsGone
  BY <1>1, <1>2 DEF ClosedIsGone
<1> QED
  BY <1>3, SettleInvariant, ProfitInvariant, PTL

-----------------------------------------------------------------------------
(* The decisions of demo_v2: types and bounds *)

Sockets == [status : {"up", "closing", "down"}, gen : Nat, seq : 0..MaxFrames,
            frames : 0..MaxFrames]
Streams == [gen : Nat, last : 0..MaxFrames, valid : BOOLEAN, queue : Seq(Engine!Observations)]
Engines == [gen : Nat, last : 0..MaxFrames, valid : BOOLEAN]
Memories == [Tokens -> [gen : Nat, at : BOOLEAN, eligible : BOOLEAN]]
Counters == [Tokens -> Nat]

EngineTypes ==
    /\ durable \in Nat /\ consumer \in Nat \cup {Engine!Awake} /\ ws \in Sockets
    /\ at \in [Tokens -> BOOLEAN] /\ arrivals \in Counters /\ gaps \in Nat
    /\ stream \in Streams /\ engine \in Engines /\ memory \in Memories
    /\ count \in 0..Frequency /\ entered \in Counters /\ held \in Counters
    /\ rule \in [enabled : BOOLEAN, window : BOOLEAN]
    /\ stable \in BOOLEAN /\ engineOk \in BOOLEAN /\ subscribed \in BOOLEAN
    /\ resetting \in BOOLEAN /\ resolved \in BOOLEAN
    /\ faults \in Nat /\ engineEdits \in Nat /\ faults + engineEdits <= MaxTrouble

EngineBounds ==
    /\ ws.seq <= ws.frames /\ gaps <= engineEdits /\ Len(stream.queue) <= Capacity
    /\ \A t \in Tokens :
          arrivals[t] <= ws.frames /\ entered[t] <= count /\ held[t] <= count

(* Who belongs to which generation *)
Generations ==
    /\ stream.gen = ws.gen /\ engine.gen <= ws.gen /\ ws.gen <= durable /\ consumer <= ws.gen
    /\ \A t \in Tokens : memory[t].gen <= durable
    /\ stream.valid => \A i \in 1..Len(stream.queue) : stream.queue[i].gen = ws.gen
    /\ stream.valid /\ consumer \notin {Engine!Awake, ws.gen} => engine.gen # ws.gen
    /\ stable => engine.gen = ws.gen

(* The account of a token's arrivals.  before[i] says whether its ask was at *)
(* the entry price, n[i] how often it had arrived there, once the engine has *)
(* taken the first i observations of the queue.                              *)
Account(queue, t, n, before) ==
    /\ n \in [0..Len(queue) -> Nat] /\ before \in [0..Len(queue) -> BOOLEAN]
    /\ \A i \in 1..Len(queue) :
          /\ before[i] = (IF queue[i].token = t THEN queue[i].price = "entry" ELSE before[i - 1])
          /\ n[i] = IF queue[i].token = t /\ queue[i].price = "entry" /\ ~before[i - 1]
                    THEN n[i - 1] + 1 ELSE n[i - 1]
    /\ \A i, j \in 0..Len(queue) : i <= j => n[i] <= n[j]

Entries(t) == IF engine.gen = ws.gen THEN entered[t] ELSE 0
\* an unchanged price is not entered again: by an engine that decides no more in
\* this generation, or by a rule that is eligible and remembers it
Armed(t) ==
    /\ engine.gen = ws.gen
    /\ engine.valid => /\ stable /\ rule.window
                       /\ memory[t].gen = ws.gen /\ memory[t].at /\ memory[t].eligible

\* What the engine has taken backs its entries, with one to spare where an
\* unchanged price would be entered.
Backed(t, n, before) ==
    /\ Entries(t) <= n + gaps
    /\ before => n >= 1
    /\ before /\ ~Armed(t) => Entries(t) < n + gaps

Followed(t) ==
    \E n, before :
        LET length == Len(stream.queue) IN
        /\ Account(stream.queue, t, n, before)
        /\ n[length] <= arrivals[t]
        /\ at[t] /\ ~before[length] => n[length] < arrivals[t]
        /\ Backed(t, n[0], before[0])

Accounted ==
    /\ \A t \in Tokens : Entries(t) <= arrivals[t] + gaps
    /\ stream.valid => \A t \in Tokens : Followed(t)

EngineInv == EngineTypes /\ EngineBounds /\ Generations /\ Accounted

LEMMA EngineConstants ==
  /\ Frequency \in Nat /\ Frequency >= 1 /\ Capacity \in Nat /\ Capacity >= 1
  /\ MaxFrames \in Nat /\ MaxTrouble \in Nat
  /\ 0 \in 0..MaxFrames /\ 0 \in 0..Frequency
  /\ Engine!Awake = -1
  BY LedgersAssumption DEF Engine!EngineAssumption, Engine!Awake

LEMMA NothingIsOne == Engine!Nothing \in Engine!Observations
  BY EngineConstants, LedgersAssumption
  DEF Engine!EngineAssumption, Engine!Nothing, Engine!Observations

\* A retired queue holds one thing that nobody takes.
LEMMA Invalidation ==
  ASSUME stream \in Streams
  PROVE  /\ Engine!Invalidated \in Streams /\ Engine!Invalidated.gen = stream.gen
         /\ ~Engine!Invalidated.valid /\ Len(Engine!Invalidated.queue) = 1
<1>1. <<Engine!Nothing>> \in Seq(Engine!Observations) /\ Len(<<Engine!Nothing>>) = 1
  BY NothingIsOne
<1> QED
  BY <1>1 DEF Engine!Invalidated, Streams

LEMMA Closing ==
  ASSUME ws \in Sockets
  PROVE  /\ Engine!Closed \in Sockets /\ Engine!Closed.gen = ws.gen
         /\ Engine!Closed.seq = ws.seq /\ Engine!Closed.frames = ws.frames
  BY DEF Engine!Closed, Sockets

LEMMA EngineInit == Engine!Init => EngineInv
<1> SUFFICES ASSUME Engine!Init PROVE EngineInv
  OBVIOUS
<1>1. /\ durable = 0 /\ ws = [status |-> "down", gen |-> 0, seq |-> 0, frames |-> 0]
      /\ at = [t \in Tokens |-> FALSE] /\ arrivals = Engine!Zero /\ gaps = 0
      /\ stream = [gen |-> 0, last |-> 0, valid |-> FALSE, queue |-> <<>>]
      /\ consumer = Engine!Awake /\ engine = [gen |-> 0, last |-> 0, valid |-> FALSE]
      /\ memory = Engine!Forgotten /\ count = 0 /\ entered = Engine!Zero /\ held = Engine!Zero
      /\ rule = [enabled |-> TRUE, window |-> TRUE] /\ stable = FALSE
      /\ engineOk = TRUE /\ subscribed = FALSE /\ resetting = FALSE /\ resolved = FALSE
      /\ faults = 0 /\ engineEdits = 0
  BY DEF Engine!Init
<1>2. /\ Engine!Zero \in Counters /\ \A t \in Tokens : Engine!Zero[t] = 0
      /\ Engine!Forgotten \in Memories /\ \A t \in Tokens : Engine!Forgotten[t].gen = 0
  BY DEF Engine!Zero, Counters, Engine!Forgotten, Memories
<1>3. ws \in Sockets /\ engine \in Engines
  BY <1>1, EngineConstants DEF Sockets, Engines
<1>4. stream \in Streams /\ Len(stream.queue) = 0
  <2>1. <<>> \in Seq(Engine!Observations)
    OBVIOUS
  <2> QED
    BY <1>1, <2>1, EngineConstants DEF Streams
<1>5. EngineTypes
  <2>1. /\ at \in [Tokens -> BOOLEAN] /\ arrivals \in Counters
        /\ memory \in Memories /\ entered \in Counters /\ held \in Counters
    BY <1>1, <1>2
  <2>2. rule \in [enabled : BOOLEAN, window : BOOLEAN]
    BY <1>1
  <2>3. /\ count \in 0..Frequency /\ faults \in Nat /\ engineEdits \in Nat
        /\ faults + engineEdits <= MaxTrouble /\ gaps \in Nat /\ durable \in Nat
    BY <1>1, EngineConstants
  <2> QED
    BY <1>1, <1>3, <1>4, <2>1, <2>2, <2>3 DEF EngineTypes
<1>6. EngineBounds
  BY <1>1, <1>2, <1>4, EngineConstants DEF EngineBounds
<1>7. Generations
  BY <1>1, <1>2, EngineConstants DEF Generations
<1>8. Accounted
  BY <1>1, <1>2 DEF Accounted, Entries
<1> QED
  BY <1>5, <1>6, <1>7, <1>8 DEF EngineInv

-----------------------------------------------------------------------------
(* The decisions of demo_v2: the steps *)

\* A token stays followed while nothing of its account changes.
LEMMA FollowedKeeps ==
  ASSUME NEW t \in Tokens, Followed(t), at' = at, arrivals' = arrivals, gaps' = gaps,
         memory' = memory, entered' = entered, engine'.gen = engine.gen, ws'.gen = ws.gen,
         stream'.queue = stream.queue, rule'.window = rule.window,
         engine'.valid => engine.valid, stable' \/ ~stable \/ ~engine'.valid
  PROVE  Followed(t)'
  BY DEF Followed, Backed, Entries, Armed

\* The steps that leave the prices and the rule's memory alone, and the stream
\* unless they retire it.
LEMMA QuietStep ==
  ASSUME EngineInv,
         durable' = durable, at' = at, arrivals' = arrivals, gaps' = gaps, memory' = memory,
         entered' = entered, count' = count,
         held' \in Counters, \A t \in Tokens : held'[t] <= held[t],
         engine' \in Engines, engine'.gen = engine.gen, engine'.valid => engine.valid,
         ws' \in Sockets, ws'.gen = ws.gen, ws'.seq = ws.seq, ws'.frames = ws.frames,
         stream' \in Streams, stream'.gen = stream.gen,
         stream' = stream \/ (~stream'.valid /\ Len(stream'.queue) = 1),
         consumer' \in {consumer, Engine!Awake, ws.gen},
         rule' \in [enabled : BOOLEAN, window : BOOLEAN], rule'.window = rule.window,
         stable' \in BOOLEAN, stable' => engine.gen = ws.gen,
         stable' \/ ~stable \/ ~engine'.valid \/ ~stream'.valid,
         engineOk' \in BOOLEAN, subscribed' \in BOOLEAN, resetting' \in BOOLEAN,
         resolved' \in BOOLEAN,
         faults' \in Nat, engineEdits' \in Nat, engineEdits' >= engineEdits,
         faults' + engineEdits' <= MaxTrouble
  PROVE  EngineInv'
<1> USE EngineConstants
<1>1. EngineTypes /\ EngineBounds /\ Generations /\ Accounted
  BY DEF EngineInv
<1>2. ws.gen \in Nat /\ stream.gen \in Nat /\ engine.gen \in Nat
  BY <1>1 DEF EngineTypes, Sockets, Streams, Engines
<1>3. EngineTypes'
  BY <1>1, <1>2 DEF EngineTypes
<1>4. EngineBounds'
  <2>1. Len(stream'.queue) <= Capacity
    BY <1>1 DEF EngineBounds
  <2>2. gaps' <= engineEdits'
    BY <1>1 DEF EngineTypes, EngineBounds
  <2>3. ASSUME NEW t \in Tokens
        PROVE  arrivals'[t] <= ws'.frames /\ entered'[t] <= count' /\ held'[t] <= count'
    <3>1. held[t] \in Nat /\ held'[t] \in Nat /\ count \in Nat
      BY <1>1 DEF EngineTypes, Counters
    <3> QED
      BY <1>1, <3>1 DEF EngineBounds
  <2> QED
    BY <1>1, <2>1, <2>2, <2>3 DEF EngineBounds
<1>5. Generations'
  <2>1. consumer' <= ws'.gen
    BY <1>1, <1>2 DEF Generations
  <2>2. stream'.valid => stream' = stream
    OBVIOUS
  <2>3. stream'.valid /\ consumer' \notin {Engine!Awake, ws'.gen} => engine'.gen # ws'.gen
    BY <1>1, <2>2 DEF Generations
  <2>5. stream'.valid => \A i \in 1..Len(stream'.queue) : stream'.queue[i].gen = ws'.gen
    BY <1>1, <2>2 DEF Generations
  <2> QED
    BY <1>1, <2>1, <2>3, <2>5 DEF Generations
<1>6. Accounted'
  <2>1. ASSUME NEW t \in Tokens PROVE Entries(t)' <= arrivals'[t] + gaps'
    BY <1>1 DEF Accounted, Entries
  <2>2. ASSUME NEW t \in Tokens, stream'.valid PROVE Followed(t)'
    <3>1. Followed(t) /\ stream'.queue = stream.queue
      BY <1>1, <2>2 DEF Accounted
    <3> QED
      BY <2>2, <3>1, FollowedKeeps
  <2> QED
    BY <2>1, <2>2 DEF Accounted
<1> QED
  BY <1>3, <1>4, <1>5, <1>6 DEF EngineInv

LEMMA QuietActions ==
  ASSUME EngineInv,
         \/ Engine!Drop \/ Engine!Waits \/ Engine!Rejects \/ Engine!Demand \/ Engine!Stabilises
         \/ Engine!Probe \/ Engine!ResetEnds \/ Engine!EditRule \/ Engine!Resolve
  PROVE  EngineInv'
<1> USE EngineConstants
<1>1. EngineTypes /\ Generations
  BY DEF EngineInv
<1>2. /\ durable \in Nat /\ consumer \in Nat \cup {Engine!Awake} /\ ws \in Sockets
      /\ held \in Counters /\ stream \in Streams /\ engine \in Engines
      /\ rule \in [enabled : BOOLEAN, window : BOOLEAN]
      /\ stable \in BOOLEAN /\ engineOk \in BOOLEAN /\ subscribed \in BOOLEAN
      /\ resetting \in BOOLEAN /\ resolved \in BOOLEAN
      /\ faults \in Nat /\ engineEdits \in Nat /\ faults + engineEdits <= MaxTrouble
      /\ \A t \in Tokens : held[t] \in Nat
  BY <1>1 DEF EngineTypes, Counters
<1>3. /\ Engine!Invalidated \in Streams /\ Engine!Invalidated.gen = stream.gen
      /\ ~Engine!Invalidated.valid /\ Len(Engine!Invalidated.queue) = 1
  BY <1>2, Invalidation
<1>4. /\ Engine!Closed \in Sockets /\ Engine!Closed.gen = ws.gen
      /\ Engine!Closed.seq = ws.seq /\ Engine!Closed.frames = ws.frames
  BY <1>2, Closing
<1>5. stable => engine.gen = ws.gen
  BY <1>1 DEF Generations
<1>6. ws.gen = stream.gen
  BY <1>1 DEF Generations
<1> DEFINE down == [ws EXCEPT !.status = "down"]
<1>7. down \in Sockets /\ down.gen = ws.gen /\ down.seq = ws.seq /\ down.frames = ws.frames
  BY <1>2 DEF Sockets
<1> DEFINE unsure == [engine EXCEPT !.valid = FALSE]
<1>8. unsure \in Engines /\ unsure.gen = engine.gen /\ ~unsure.valid
  BY <1>2 DEF Engines
<1> DEFINE edited == [rule EXCEPT !.enabled = ~@]
<1>9. edited \in [enabled : BOOLEAN, window : BOOLEAN] /\ edited.window = rule.window
  BY <1>2
<1>10. /\ Engine!Zero \in Counters /\ \A t \in Tokens : Engine!Zero[t] = 0
  BY DEF Engine!Zero, Counters
<1>11. Engine!Fault => faults' \in Nat /\ faults' + engineEdits <= MaxTrouble
  BY <1>2 DEF Engine!Fault, Engine!Trouble
<1>12. Engine!Edit => /\ engineEdits' \in Nat /\ engineEdits' >= engineEdits
                      /\ faults + engineEdits' <= MaxTrouble
  BY <1>2 DEF Engine!Edit, Engine!Trouble
<1> HIDE DEF down, unsure, edited
<1>a. CASE Engine!Drop
  <2>1. /\ ws' = down /\ stream' = Engine!Invalidated
        /\ faults' \in Nat /\ faults' + engineEdits <= MaxTrouble
        /\ UNCHANGED <<durable, at, arrivals, gaps, consumer, engine, memory, count, entered,
                       held, rule, stable, engineOk, subscribed, resetting, resolved,
                       engineEdits>>
    BY <1>a, <1>2, <1>11 DEF Engine!Drop, Engine!market, Engine!book, down
  <2> QED
    BY <1>2, <1>3, <1>5, <1>7, <2>1, QuietStep
<1>b. CASE Engine!Waits
  <2>1. /\ consumer' = ws.gen
        /\ UNCHANGED <<durable, ws, at, arrivals, gaps, stream, engine, memory, count, entered,
                       held, rule, stable, engineOk, subscribed, resetting, resolved, faults,
                       engineEdits>>
    BY <1>b, <1>6 DEF Engine!Waits, Engine!market, Engine!book
  <2> QED
    BY <1>2, <1>5, <2>1, QuietStep
<1>c. CASE Engine!Rejects
  <2>1. /\ consumer' = Engine!Awake /\ stream' \in {stream, Engine!Invalidated}
        /\ engine' = unsure /\ stable' = FALSE
        /\ UNCHANGED <<durable, ws, at, arrivals, gaps, memory, count, entered, held, rule,
                       engineOk, subscribed, resetting, resolved, faults, engineEdits>>
    BY <1>c DEF Engine!Rejects, Engine!market, Engine!book, unsure
  <2>2. /\ stream' \in Streams /\ stream'.gen = stream.gen
        /\ stream' = stream \/ (~stream'.valid /\ Len(stream'.queue) = 1)
    BY <1>2, <1>3, <2>1
  <2>3. /\ consumer' \in {consumer, Engine!Awake, ws.gen} /\ engineEdits' >= engineEdits
        /\ faults' + engineEdits' <= MaxTrouble
        /\ \A t \in Tokens : held'[t] <= held[t]
    BY <1>2, <2>1
  <2> QED
    BY <1>2, <1>8, <2>1, <2>2, <2>3, QuietStep
<1>d. CASE Engine!Demand
  <2>0. Engine!Wanted \in BOOLEAN
    BY DEF Engine!Wanted
  <2>1. /\ subscribed' \in BOOLEAN /\ stream' \in {stream, Engine!Invalidated}
        /\ ws' \in {ws, Engine!Closed}
        /\ UNCHANGED <<durable, at, arrivals, gaps, consumer, engine, memory, count, entered,
                       held, rule, stable, engineOk, resetting, resolved, faults, engineEdits>>
    BY <1>d, <2>0 DEF Engine!Demand, Engine!market, Engine!book
  <2>2. /\ stream' \in Streams /\ stream'.gen = stream.gen
        /\ stream' = stream \/ (~stream'.valid /\ Len(stream'.queue) = 1)
    BY <1>2, <1>3, <2>1
  <2>3. ws' \in Sockets /\ ws'.gen = ws.gen /\ ws'.seq = ws.seq /\ ws'.frames = ws.frames
    BY <1>2, <1>4, <2>1
  <2> QED
    BY <1>2, <1>5, <2>1, <2>2, <2>3, QuietStep
<1>e. CASE Engine!Stabilises
  <2>1. /\ stable' = TRUE /\ engine.gen = ws.gen
        /\ UNCHANGED <<durable, ws, at, arrivals, gaps, stream, consumer, engine, memory, count,
                       entered, held, rule, engineOk, subscribed, resetting, resolved, faults,
                       engineEdits>>
    BY <1>e DEF Engine!Stabilises, Engine!market, Engine!book
  <2> QED
    BY <1>2, <2>1, QuietStep
<1>f. CASE Engine!Probe
  <2>1. /\ engineOk' \in BOOLEAN
        /\ UNCHANGED <<durable, ws, at, arrivals, gaps, stream, consumer, engine, memory, count,
                       entered, held, rule, stable, subscribed, resetting, resolved, faults,
                       engineEdits>>
    BY <1>f DEF Engine!Probe, Engine!market, Engine!book, Engine!ProbeRecovers
  <2> QED
    BY <1>2, <1>5, <2>1, QuietStep
<1>g. CASE Engine!ResetEnds
  <2>1. /\ resetting' = FALSE /\ subscribed' = FALSE /\ stream' \in {stream, Engine!Invalidated}
        /\ ws' \in {ws, Engine!Closed}
        /\ UNCHANGED <<durable, at, arrivals, gaps, consumer, engine, memory, count, entered,
                       held, rule, stable, engineOk, resolved, faults, engineEdits>>
    BY <1>g DEF Engine!ResetEnds, Engine!market, Engine!book
  <2>2. /\ stream' \in Streams /\ stream'.gen = stream.gen
        /\ stream' = stream \/ (~stream'.valid /\ Len(stream'.queue) = 1)
    BY <1>2, <1>3, <2>1
  <2>3. ws' \in Sockets /\ ws'.gen = ws.gen /\ ws'.seq = ws.seq /\ ws'.frames = ws.frames
    BY <1>2, <1>4, <2>1
  <2>4. /\ consumer' \in {consumer, Engine!Awake, ws.gen} /\ engineEdits' >= engineEdits
        /\ faults' + engineEdits' <= MaxTrouble
        /\ \A t \in Tokens : held'[t] <= held[t]
    BY <1>2, <2>1
  <2> QED
    BY <1>2, <1>5, <2>1, <2>2, <2>3, <2>4, QuietStep
<1>h. CASE Engine!EditRule
  <2>1. /\ rule' = edited /\ engineEdits' \in Nat /\ engineEdits' >= engineEdits
        /\ faults + engineEdits' <= MaxTrouble
        /\ UNCHANGED <<durable, ws, at, arrivals, gaps, stream, consumer, engine, memory, count,
                       entered, held, stable, engineOk, subscribed, resetting, resolved, faults>>
    BY <1>h, <1>12 DEF Engine!EditRule, Engine!market, Engine!book, edited
  <2> QED
    BY <1>2, <1>5, <1>9, <2>1, QuietStep
<1>i. CASE Engine!Resolve
  <2>1. /\ resolved' = TRUE /\ held' = Engine!Zero
        /\ UNCHANGED <<durable, ws, at, arrivals, gaps, stream, consumer, engine, memory, count,
                       entered, rule, stable, engineOk, subscribed, resetting, faults,
                       engineEdits>>
    BY <1>i DEF Engine!Resolve, Engine!market, Engine!book
  <2> QED
    BY <1>2, <1>5, <1>10, <2>1, QuietStep
<1> QED
  BY <1>a, <1>b, <1>c, <1>d, <1>e, <1>f, <1>g, <1>h, <1>i

\* An observation that joins the queue lengthens the account.
LEMMA AccountJoins ==
  ASSUME NEW queue \in Seq(Engine!Observations), NEW o \in Engine!Observations,
         NEW t \in Tokens, NEW n, NEW before, Account(queue, t, n, before)
  PROVE  LET length == Len(queue)
             longer == Append(queue, o)
         IN  \E m, was :
               /\ Account(longer, t, m, was) /\ Len(longer) = length + 1
               /\ m[0] = n[0] /\ was[0] = before[0]
               /\ was[length + 1] = (IF o.token = t THEN o.price = "entry" ELSE before[length])
               /\ m[length + 1] = IF o.token = t /\ o.price = "entry" /\ ~before[length]
                                  THEN n[length] + 1 ELSE n[length]
<1> DEFINE length == Len(queue)
           longer == Append(queue, o)
           last == IF o.token = t THEN o.price = "entry" ELSE before[length]
           total == IF o.token = t /\ o.price = "entry" /\ ~before[length]
                    THEN n[length] + 1 ELSE n[length]
           m == [i \in 0..length + 1 |-> IF i = length + 1 THEN total ELSE n[i]]
           was == [i \in 0..length + 1 |-> IF i = length + 1 THEN last ELSE before[i]]
<1>1. /\ length \in Nat /\ Len(longer) = length + 1 /\ longer[length + 1] = o
      /\ \A i \in 1..length : longer[i] = queue[i]
  OBVIOUS
<1>2. /\ n \in [0..length -> Nat] /\ before \in [0..length -> BOOLEAN]
      /\ \A i \in 1..length :
            /\ before[i] = (IF queue[i].token = t THEN queue[i].price = "entry" ELSE before[i - 1])
            /\ n[i] = IF queue[i].token = t /\ queue[i].price = "entry" /\ ~before[i - 1]
                      THEN n[i - 1] + 1 ELSE n[i - 1]
      /\ \A i, j \in 0..length : i <= j => n[i] <= n[j]
  BY DEF Account
<1>3. n[length] \in Nat /\ total \in Nat /\ n[length] <= total /\ last \in BOOLEAN
  BY <1>1, <1>2
<1> HIDE DEF length, longer, last, total
<1>4. m \in [0..length + 1 -> Nat] /\ was \in [0..length + 1 -> BOOLEAN]
  BY <1>1, <1>2, <1>3
<1>5. /\ m[length + 1] = total /\ was[length + 1] = last
      /\ \A i \in 0..length : m[i] = n[i] /\ was[i] = before[i]
  BY <1>1
<1> HIDE DEF m, was
<1>6. ASSUME NEW i \in 1..Len(longer)
      PROVE  /\ was[i] = (IF longer[i].token = t THEN longer[i].price = "entry" ELSE was[i - 1])
             /\ m[i] = IF longer[i].token = t /\ longer[i].price = "entry" /\ ~was[i - 1]
                       THEN m[i - 1] + 1 ELSE m[i - 1]
  <2>1. CASE i = length + 1
    <3>1. was[i - 1] = before[length] /\ m[i - 1] = n[length] /\ longer[i] = o
      BY <1>1, <1>5, <2>1
    <3> QED
      BY <1>5, <2>1, <3>1 DEF last, total
  <2>2. CASE i \in 1..length
    <3>1. /\ was[i - 1] = before[i - 1] /\ m[i - 1] = n[i - 1] /\ longer[i] = queue[i]
          /\ was[i] = before[i] /\ m[i] = n[i]
      BY <1>1, <1>5, <2>2
    <3> QED
      BY <1>2, <2>2, <3>1
  <2> QED
    BY <1>1, <2>1, <2>2
<1>7. ASSUME NEW i \in 0..Len(longer), NEW j \in 0..Len(longer), i <= j PROVE m[i] <= m[j]
  <2>1. CASE j \in 0..length
    BY <1>1, <1>2, <1>5, <1>7, <2>1
  <2>2. CASE j = length + 1 /\ i \in 0..length
    <3>1. n[i] <= n[length] /\ n[i] \in Nat
      BY <1>1, <1>2, <2>2
    <3> QED
      BY <1>3, <1>5, <2>2, <3>1
  <2>3. CASE j = length + 1 /\ i = length + 1
    BY <1>3, <1>5, <2>3
  <2> QED
    BY <1>1, <2>1, <2>2, <2>3
<1>8. Account(longer, t, m, was)
  BY <1>1, <1>4, <1>6, <1>7 DEF Account
<1>9. m[0] = n[0] /\ was[0] = before[0]
  BY <1>1, <1>5
<1> QED
  BY <1>1, <1>5, <1>8, <1>9 DEF length, longer, last, total

\* An observation that is taken shortens it.
LEMMA AccountShortens ==
  ASSUME NEW queue \in Seq(Engine!Observations), queue # <<>>,
         NEW t \in Tokens, NEW n, NEW before, Account(queue, t, n, before)
  PROVE  LET length == Len(queue) IN
           \E m, was :
               /\ Account(Tail(queue), t, m, was) /\ Len(Tail(queue)) = length - 1
               /\ m[0] = n[1] /\ was[0] = before[1]
               /\ m[length - 1] = n[length] /\ was[length - 1] = before[length]
<1> DEFINE length == Len(queue)
           rest == Tail(queue)
           m == [i \in 0..length - 1 |-> n[i + 1]]
           was == [i \in 0..length - 1 |-> before[i + 1]]
<1>1. /\ length \in Nat /\ length >= 1 /\ Len(rest) = length - 1
      /\ \A i \in 1..length - 1 : rest[i] = queue[i + 1]
  OBVIOUS
<1>2. /\ n \in [0..length -> Nat] /\ before \in [0..length -> BOOLEAN]
      /\ \A i \in 1..length :
            /\ before[i] = (IF queue[i].token = t THEN queue[i].price = "entry" ELSE before[i - 1])
            /\ n[i] = IF queue[i].token = t /\ queue[i].price = "entry" /\ ~before[i - 1]
                      THEN n[i - 1] + 1 ELSE n[i - 1]
      /\ \A i, j \in 0..length : i <= j => n[i] <= n[j]
  BY DEF Account
<1> HIDE DEF length, rest
<1>3. m \in [0..length - 1 -> Nat] /\ was \in [0..length - 1 -> BOOLEAN]
  BY <1>1, <1>2
<1>4. \A i \in 0..length - 1 : m[i] = n[i + 1] /\ was[i] = before[i + 1]
  BY <1>1
<1> HIDE DEF m, was
<1>5. ASSUME NEW i \in 1..Len(rest)
      PROVE  /\ was[i] = (IF rest[i].token = t THEN rest[i].price = "entry" ELSE was[i - 1])
             /\ m[i] = IF rest[i].token = t /\ rest[i].price = "entry" /\ ~was[i - 1]
                       THEN m[i - 1] + 1 ELSE m[i - 1]
  <2>1. /\ was[i - 1] = before[i] /\ m[i - 1] = n[i] /\ rest[i] = queue[i + 1]
        /\ was[i] = before[i + 1] /\ m[i] = n[i + 1] /\ i + 1 \in 1..length /\ i + 1 - 1 = i
    BY <1>1, <1>4
  <2> QED
    BY <1>2, <2>1
<1>6. ASSUME NEW i \in 0..Len(rest), NEW j \in 0..Len(rest), i <= j PROVE m[i] <= m[j]
  <2>1. i + 1 \in 0..length /\ j + 1 \in 0..length /\ i + 1 <= j + 1
    BY <1>1, <1>6
  <2>2. m[i] = n[i + 1] /\ m[j] = n[j + 1]
    BY <1>1, <1>4
  <2> QED
    BY <1>2, <2>1, <2>2
<1>7. Account(rest, t, m, was)
  BY <1>1, <1>3, <1>5, <1>6 DEF Account
<1>8. m[0] = n[1] /\ was[0] = before[1] /\ m[length - 1] = n[length]
      /\ was[length - 1] = before[length]
  BY <1>1, <1>4
<1> QED
  BY <1>1, <1>7, <1>8 DEF length, rest

\* The first observation, the one that is taken.
LEMMA AccountOfFirst ==
  ASSUME NEW queue \in Seq(Engine!Observations), queue # <<>>,
         NEW t \in Tokens, NEW n, NEW before, Account(queue, t, n, before)
  PROVE  /\ n[0] \in Nat /\ n[1] \in Nat /\ before[0] \in BOOLEAN /\ before[1] \in BOOLEAN
         /\ before[1] = (IF Head(queue).token = t THEN Head(queue).price = "entry" ELSE before[0])
         /\ n[1] = IF Head(queue).token = t /\ Head(queue).price = "entry" /\ ~before[0]
                   THEN n[0] + 1 ELSE n[0]
<1>1. Len(queue) \in Nat /\ Len(queue) >= 1 /\ Head(queue) = queue[1]
  OBVIOUS
<1>2. 1 \in 1..Len(queue) /\ 0 \in 0..Len(queue) /\ 1 \in 0..Len(queue) /\ 1 - 1 = 0
  BY <1>1
<1> QED
  BY <1>1, <1>2 DEF Account

\* Nobody is backed by more than has come in.
SoundlyFollowed ==
    EngineTypes => \A t \in Tokens : Followed(t) => Entries(t) <= arrivals[t] + gaps

LEMMA FollowedIsSound == SoundlyFollowed
<1> SUFFICES ASSUME EngineTypes, NEW t \in Tokens, Followed(t)
             PROVE  Entries(t) <= arrivals[t] + gaps
  BY DEF SoundlyFollowed
<1> DEFINE length == Len(stream.queue)
<1>1. PICK n, before : /\ Account(stream.queue, t, n, before) /\ n[length] <= arrivals[t]
                       /\ Backed(t, n[0], before[0])
  BY DEF Followed
<1>2. length \in Nat /\ arrivals[t] \in Nat /\ gaps \in Nat /\ Entries(t) \in Nat
  BY DEF EngineTypes, Streams, Counters, Entries
<1>3. n[0] \in Nat /\ n[length] \in Nat /\ n[0] <= n[length]
  BY <1>1, <1>2 DEF Account
<1> QED
  BY <1>1, <1>2, <1>3 DEF Backed

LEMMA ConnectKeeps == ASSUME EngineInv, Engine!Connect PROVE EngineInv'
<1> USE EngineConstants
<1>1. EngineTypes /\ EngineBounds /\ Generations
  BY DEF EngineInv
<1>2. /\ durable' = durable + 1
      /\ ws' = [status |-> "up", gen |-> durable + 1, seq |-> 0, frames |-> 0]
      /\ stream' = [gen |-> durable + 1, last |-> 0, valid |-> TRUE, queue |-> <<>>]
      /\ at' = [t \in Tokens |-> FALSE] /\ arrivals' = Engine!Zero /\ gaps' = 0
      /\ stable' = FALSE
      /\ UNCHANGED <<consumer, engine, memory, count, entered, held, rule, engineOk,
                     subscribed, resetting, resolved, faults, engineEdits>>
  BY DEF Engine!Connect, Engine!book
<1>3. /\ durable \in Nat /\ ws.gen \in Nat /\ engine.gen \in Nat
      /\ engine.gen <= ws.gen /\ ws.gen <= durable /\ consumer <= ws.gen
      /\ consumer \in Nat \cup {-1} /\ engine \in Engines
      /\ engineEdits \in Nat
      /\ \A t \in Tokens : memory[t].gen <= durable /\ memory[t].gen \in Nat
  BY <1>1 DEF EngineTypes, Generations, Sockets, Engines, Memories
<1>4. arrivals' \in Counters /\ \A t \in Tokens : arrivals'[t] = 0
  BY <1>2 DEF Engine!Zero, Counters
<1>5. /\ ws' \in Sockets /\ ws'.gen = durable + 1 /\ ws'.seq = 0 /\ ws'.frames = 0
  BY <1>2, <1>3 DEF Sockets
<1>6. /\ stream' \in Streams /\ stream'.gen = durable + 1 /\ stream'.queue = <<>>
  <2>1. <<>> \in Seq(Engine!Observations)
    OBVIOUS
  <2> QED
    BY <1>2, <1>3, <2>1 DEF Streams
<1>7. EngineTypes'
  <2>1. durable' \in Nat /\ gaps' \in Nat
    BY <1>2, <1>3
  <2>2. at' \in [Tokens -> BOOLEAN] /\ stable' \in BOOLEAN
    BY <1>2
  <2> QED
    BY <1>1, <1>2, <1>3, <1>4, <1>5, <1>6, <2>1, <2>2 DEF EngineTypes
<1>8. EngineBounds'
  BY <1>1, <1>2, <1>3, <1>4, <1>5, <1>6 DEF EngineBounds
<1>9. engine'.gen # ws'.gen
  BY <1>2, <1>3, <1>5
<1>10. Generations'
  <2>1. engine'.gen <= ws'.gen /\ ws'.gen <= durable' /\ consumer' <= ws'.gen
    BY <1>2, <1>3, <1>5
  <2>2. \A t \in Tokens : memory'[t].gen <= durable'
    BY <1>2, <1>3
  <2> QED
    BY <1>2, <1>5, <1>6, <1>9, <2>1, <2>2 DEF Generations
<1>11. ASSUME NEW t \in Tokens
       PROVE  Entries(t)' <= arrivals'[t] + gaps' /\ Followed(t)'
  <2>1. Entries(t)' = 0 /\ arrivals'[t] = 0 /\ gaps' = 0 /\ at'[t] = FALSE
    BY <1>2, <1>4, <1>9 DEF Entries
  <2> DEFINE n == [i \in 0..0 |-> 0]
             before == [i \in 0..0 |-> FALSE]
  <2>2. Account(stream'.queue, t, n, before)
    BY <1>6 DEF Account
  <2>3. n[0] = 0 /\ ~before[0] /\ Len(stream'.queue) = 0
    BY <1>6
  <2> HIDE DEF n, before
  <2>4. Followed(t)'
    BY <2>1, <2>2, <2>3 DEF Followed, Backed
  <2> QED
    BY <2>1, <2>4
<1> QED
  BY <1>7, <1>8, <1>10, <1>11 DEF EngineInv, Accounted

LEMMA ResetKeeps == ASSUME EngineInv, Engine!ResetBegins PROVE EngineInv'
<1> USE EngineConstants
<1>1. EngineTypes /\ EngineBounds /\ Generations /\ Accounted
  BY DEF EngineInv
<1>2. /\ resetting' = TRUE /\ engineEdits' = engineEdits + 1 /\ faults + engineEdits < MaxTrouble
      /\ stream' = Engine!Invalidated /\ engine' = [engine EXCEPT !.valid = FALSE]
      /\ stable' = FALSE /\ durable' = durable + 1
      /\ memory' = Engine!Forgotten /\ count' = 0 /\ entered' = Engine!Zero
      /\ held' = Engine!Zero /\ ws' = Engine!Closed
      /\ UNCHANGED <<at, arrivals, gaps, consumer, rule, engineOk, subscribed, resolved, faults>>
  BY DEF Engine!ResetBegins, Engine!Edit, Engine!Trouble, Engine!market
<1>3. /\ durable \in Nat /\ ws \in Sockets /\ stream \in Streams /\ engine \in Engines
      /\ consumer \in Nat \cup {-1} /\ faults \in Nat /\ engineEdits \in Nat /\ gaps \in Nat
      /\ arrivals \in Counters
  BY <1>1 DEF EngineTypes
<1>4. /\ Engine!Zero \in Counters /\ \A t \in Tokens : Engine!Zero[t] = 0
      /\ Engine!Forgotten \in Memories /\ \A t \in Tokens : Engine!Forgotten[t].gen = 0
  BY DEF Engine!Zero, Counters, Engine!Forgotten, Memories
<1>5. stream' \in Streams /\ stream'.gen = stream.gen /\ ~stream'.valid /\ Len(stream'.queue) = 1
  BY <1>2, <1>3, Invalidation
<1>6. ws' \in Sockets /\ ws'.gen = ws.gen /\ ws'.seq = ws.seq /\ ws'.frames = ws.frames
  BY <1>2, <1>3, Closing
<1>7. engine' \in Engines /\ engine'.gen = engine.gen /\ ~engine'.valid
  BY <1>2, <1>3 DEF Engines
<1>8. EngineTypes'
  <2>1. durable' \in Nat /\ count' \in 0..Frequency
    BY <1>2, <1>3
  <2>4. stable' \in BOOLEAN /\ resetting' \in BOOLEAN
    BY <1>2
  <2>2. engineEdits' \in Nat /\ faults' + engineEdits' <= MaxTrouble
    BY <1>2, <1>3
  <2>3. memory' \in Memories /\ entered' \in Counters /\ held' \in Counters
    BY <1>2, <1>4
  <2> QED
    BY <1>1, <1>2, <1>3, <1>5, <1>6, <1>7, <2>1, <2>2, <2>3, <2>4 DEF EngineTypes
<1>9. EngineBounds'
  BY <1>1, <1>2, <1>3, <1>4, <1>5, <1>6 DEF EngineBounds
<1>10. Generations'
  <2>1. stream.gen \in Nat /\ ws.gen \in Nat /\ engine.gen \in Nat
    BY <1>3 DEF Streams, Sockets, Engines
  <2>2. ws'.gen <= durable' /\ engine'.gen <= ws'.gen /\ consumer' <= ws'.gen
    BY <1>1, <1>2, <1>3, <1>6, <1>7, <2>1 DEF Generations
  <2>3. \A t \in Tokens : memory'[t].gen <= durable'
    BY <1>2, <1>3, <1>4
  <2> QED
    BY <1>1, <1>2, <1>5, <1>6, <1>7, <2>2, <2>3 DEF Generations
<1>11. ASSUME NEW t \in Tokens PROVE Entries(t)' <= arrivals'[t] + gaps'
  BY <1>2, <1>3, <1>4 DEF Entries, Counters
<1> QED
  BY <1>5, <1>8, <1>9, <1>10, <1>11 DEF EngineInv, Accounted

LEMMA WindowKeeps == ASSUME EngineInv, Engine!Window PROVE EngineInv'
<1> USE EngineConstants
<1>1. EngineTypes /\ EngineBounds /\ Generations /\ Accounted
  BY DEF EngineInv
<1>2. /\ rule' = [rule EXCEPT !.window = ~@]
      /\ UNCHANGED <<durable, ws, at, arrivals, stream, consumer, engine, memory, count,
                     entered, held, stable, engineOk, subscribed, resetting, resolved, faults>>
  BY DEF Engine!Window, Engine!book
<1>3. rule \in [enabled : BOOLEAN, window : BOOLEAN] /\ gaps \in Nat /\ engineEdits \in Nat
      /\ faults \in Nat /\ faults + engineEdits <= MaxTrouble /\ gaps <= engineEdits
  BY <1>1 DEF EngineTypes, EngineBounds
<1>4. rule' \in [enabled : BOOLEAN, window : BOOLEAN] /\ rule'.window = ~rule.window
  BY <1>2, <1>3
<1>5. /\ engineEdits' \in Nat /\ faults' + engineEdits' <= MaxTrouble /\ gaps' \in Nat
      /\ gaps' <= engineEdits' /\ gaps' >= gaps
      /\ rule.window => gaps' = gaps + 1
  BY <1>2, <1>3 DEF Engine!Window, Engine!Edit, Engine!Trouble
<1>6. EngineTypes'
  BY <1>1, <1>2, <1>4, <1>5 DEF EngineTypes
<1>7. EngineBounds'
  BY <1>1, <1>2, <1>5 DEF EngineBounds
<1>8. Generations'
  BY <1>1, <1>2 DEF Generations
<1>9. ASSUME NEW t \in Tokens PROVE Entries(t)' <= arrivals'[t] + gaps'
  <2>1. Entries(t) \in Nat /\ arrivals[t] \in Nat
    BY <1>1 DEF EngineTypes, Counters, Entries
  <2>2. Entries(t)' = Entries(t) /\ arrivals' = arrivals
    BY <1>2 DEF Entries
  <2> QED
    BY <1>1, <1>3, <1>5, <2>1, <2>2 DEF Accounted
<1>10. ASSUME NEW t \in Tokens, stream'.valid PROVE Followed(t)'
  <2> DEFINE length == Len(stream.queue)
  <2>1. Followed(t)
    BY <1>1, <1>2, <1>10 DEF Accounted
  <2>2. PICK n, before : /\ Account(stream.queue, t, n, before) /\ n[length] <= arrivals[t]
                         /\ at[t] /\ ~before[length] => n[length] < arrivals[t]
                         /\ Backed(t, n[0], before[0])
    BY <2>1 DEF Followed
  <2>3. n[0] \in Nat /\ before[0] \in BOOLEAN
    <3>1. length \in Nat /\ 0 \in 0..length
      BY <1>1 DEF EngineTypes, Streams
    <3> QED
      BY <2>2, <3>1 DEF Account
  <2>4. Entries(t) \in Nat /\ Entries(t)' = Entries(t)
    BY <1>1, <1>2 DEF EngineTypes, Counters, Entries
  <2>5. Backed(t, n[0], before[0])'
    <3>1. CASE rule.window
      BY <1>3, <1>5, <2>2, <2>3, <2>4, <3>1 DEF Backed
    <3>2. CASE ~rule.window
      <4>1. Armed(t) => Armed(t)'
        BY <1>2, <3>2 DEF Armed
      <4> QED
        BY <1>3, <1>5, <2>2, <2>3, <2>4, <4>1 DEF Backed
    <3> QED
      BY <3>1, <3>2
  <2> HIDE DEF length
  <2> QED
    BY <1>2, <2>2, <2>5 DEF Followed, length
<1> QED
  BY <1>6, <1>7, <1>8, <1>9, <1>10 DEF EngineInv, Accounted

\* A failed sample of health is another gap.
LEMMA LapsesKeeps == ASSUME EngineInv, Engine!Lapses PROVE EngineInv'
<1> USE EngineConstants
<1>1. EngineTypes /\ EngineBounds /\ Generations /\ Accounted
  BY DEF EngineInv
<1>2. /\ stable' = FALSE /\ gaps' = gaps + 1
      /\ engineEdits' = engineEdits + 1 /\ faults + engineEdits < MaxTrouble
      /\ UNCHANGED <<durable, ws, at, arrivals, stream, consumer, engine, memory, count,
                     entered, held, rule, engineOk, subscribed, resetting, resolved, faults>>
  BY DEF Engine!Lapses, Engine!Edit, Engine!Trouble, Engine!book
<1>3. gaps \in Nat /\ engineEdits \in Nat /\ faults \in Nat /\ gaps <= engineEdits
  BY <1>1 DEF EngineTypes, EngineBounds
<1>4. gaps' \in Nat /\ engineEdits' \in Nat /\ faults' + engineEdits' <= MaxTrouble
      /\ gaps' <= engineEdits'
  BY <1>2, <1>3
<1>5. EngineTypes'
  BY <1>1, <1>2, <1>4 DEF EngineTypes
<1>6. EngineBounds'
  BY <1>1, <1>2, <1>4 DEF EngineBounds
<1>7. Generations'
  BY <1>1, <1>2 DEF Generations
<1>8. ASSUME NEW t \in Tokens
      PROVE  Entries(t) \in Nat /\ Entries(t)' = Entries(t) /\ arrivals[t] \in Nat
  BY <1>1, <1>2 DEF EngineTypes, Counters, Entries
<1>9. ASSUME NEW t \in Tokens PROVE Entries(t)' <= arrivals'[t] + gaps'
  BY <1>1, <1>2, <1>3, <1>8 DEF Accounted
<1>10. ASSUME NEW t \in Tokens, stream'.valid PROVE Followed(t)'
  <2> DEFINE length == Len(stream.queue)
  <2>1. PICK n, before : /\ Account(stream.queue, t, n, before) /\ n[length] <= arrivals[t]
                         /\ at[t] /\ ~before[length] => n[length] < arrivals[t]
                         /\ Backed(t, n[0], before[0])
    BY <1>1, <1>2, <1>10 DEF Accounted, Followed
  <2>2. n[0] \in Nat
    <3>1. length \in Nat /\ 0 \in 0..length
      BY <1>1 DEF EngineTypes, Streams
    <3> QED
      BY <2>1, <3>1 DEF Account
  <2>3. Backed(t, n[0], before[0])'
    BY <1>2, <1>3, <1>8, <2>1, <2>2 DEF Backed
  <2> HIDE DEF length
  <2> QED
    BY <1>2, <2>1, <2>3 DEF Followed, length
<1> QED
  BY <1>5, <1>6, <1>7, <1>9, <1>10 DEF EngineInv, Accounted

\* The queue grows old: what it says stays the same.
LEMMA AgesKeeps == ASSUME EngineInv, Engine!Ages PROVE EngineInv'
<1> USE EngineConstants
<1>1. EngineTypes /\ EngineBounds /\ Generations /\ Accounted
  BY DEF EngineInv
<1> DEFINE length == Len(stream.queue)
           Older(o) == IF o = Engine!Nothing THEN Engine!Nothing ELSE [o EXCEPT !.old = TRUE]
           older == [i \in DOMAIN stream.queue |-> Older(stream.queue[i])]
<1>2. /\ faults' = faults + 1 /\ faults + engineEdits < MaxTrouble
      /\ stream' = [stream EXCEPT !.queue = older]
      /\ UNCHANGED <<durable, ws, at, arrivals, gaps, consumer, engine, memory, count,
                     entered, held, rule, stable, engineOk, subscribed, resetting, resolved,
                     engineEdits>>
  BY DEF Engine!Ages, Engine!Fault, Engine!Trouble, Engine!market, Engine!book
<1>3. stream \in Streams /\ stream.queue \in Seq(Engine!Observations) /\ length \in Nat
  BY <1>1 DEF EngineTypes, Streams
<1>4. ASSUME NEW o \in Engine!Observations
      PROVE  /\ Older(o) \in Engine!Observations /\ Older(o).gen = o.gen
             /\ Older(o).token = o.token /\ Older(o).price = o.price
  BY NothingIsOne DEF Engine!Observations
<1>5. \A i \in 1..length : stream.queue[i] \in Engine!Observations
  BY <1>3
<1> HIDE DEF Older
<1>6. /\ older \in Seq(Engine!Observations) /\ Len(older) = length
      /\ \A i \in 1..length : older[i] = Older(stream.queue[i])
  <2>1. older = [i \in 1..length |-> Older(stream.queue[i])]
    BY <1>3
  <2>2. older \in [1..length -> Engine!Observations]
    BY <1>4, <1>5, <2>1
  <2> HIDE DEF older
  <2> QED
    BY <1>3, <2>1, <2>2
<1> HIDE DEF older
<1>7. /\ stream' \in Streams /\ stream'.gen = stream.gen /\ stream'.valid = stream.valid
      /\ stream'.queue = older
  BY <1>2, <1>3, <1>6 DEF Streams
<1>8. EngineTypes'
  BY <1>1, <1>2, <1>7 DEF EngineTypes
<1>9. EngineBounds'
  BY <1>1, <1>2, <1>6, <1>7 DEF EngineBounds
<1>10. Generations'
  <2>1. stream'.valid => \A i \in 1..Len(stream'.queue) : stream'.queue[i].gen = ws'.gen
    BY <1>1, <1>2, <1>4, <1>5, <1>6, <1>7 DEF Generations
  <2> QED
    BY <1>1, <1>2, <1>7, <2>1 DEF Generations
<1>11. ASSUME NEW t \in Tokens PROVE Entries(t)' <= arrivals'[t] + gaps'
  BY <1>1, <1>2 DEF Accounted, Entries
<1>12. ASSUME NEW t \in Tokens, stream'.valid PROVE Followed(t)'
  <2>1. Followed(t)
    BY <1>1, <1>7, <1>12 DEF Accounted
  <2>2. PICK n, before : /\ Account(stream.queue, t, n, before) /\ n[length] <= arrivals[t]
                         /\ at[t] /\ ~before[length] => n[length] < arrivals[t]
                         /\ Backed(t, n[0], before[0])
    BY <2>1 DEF Followed
  <2>3. \A i \in 1..length : older[i].token = stream.queue[i].token
                             /\ older[i].price = stream.queue[i].price
    BY <1>4, <1>5, <1>6
  <2>4. Account(older, t, n, before)
    BY <1>6, <2>2, <2>3 DEF Account
  <2>5. Backed(t, n[0], before[0])'
    BY <1>2, <2>2 DEF Backed, Entries, Armed
  <2> QED
    BY <1>2, <1>6, <1>7, <2>2, <2>4, <2>5 DEF Followed
<1> QED
  BY <1>8, <1>9, <1>10, <1>11, <1>12 DEF EngineInv, Accounted

\* A frame that is lost and one that is published.
LEMMA FrameKeeps == ASSUME EngineInv, Engine!Frame PROVE EngineInv'
<1> USE EngineConstants
<1>1. EngineTypes /\ EngineBounds /\ Generations /\ Accounted
  BY DEF EngineInv
<1>2. PICK t0 \in Tokens, price \in {"entry", "exit", "other"}, lost \in BOOLEAN :
        /\ at' = [at EXCEPT ![t0] = (price = "entry")]
        /\ arrivals' = [arrivals EXCEPT ![t0] = IF price = "entry" /\ ~at[t0] THEN @ + 1 ELSE @]
        /\ IF lost
           THEN Engine!Fault /\ ws' = [ws EXCEPT !.frames = @ + 1] /\ UNCHANGED stream
           ELSE /\ Len(stream.queue) < Capacity /\ UNCHANGED faults
                /\ ws' = [ws EXCEPT !.frames = @ + 1, !.seq = @ + 1]
                /\ stream' = [stream EXCEPT !.last = ws.seq + 1,
                                 !.queue = Append(@, [gen |-> ws.gen, seq |-> ws.seq + 1,
                                     token |-> t0, price |-> price, old |-> FALSE])]
  BY DEF Engine!Frame
<1>3. /\ stream.valid /\ ws.frames < MaxFrames
      /\ UNCHANGED <<durable, gaps, consumer, engine, memory, count, entered, held, rule,
                     stable, engineOk, subscribed, resetting, resolved, engineEdits>>
  BY DEF Engine!Frame, Engine!book
<1>4. /\ ws \in Sockets /\ stream \in Streams /\ at \in [Tokens -> BOOLEAN]
      /\ arrivals \in Counters /\ gaps \in Nat /\ faults \in Nat /\ engineEdits \in Nat
      /\ faults + engineEdits <= MaxTrouble
  BY <1>1 DEF EngineTypes
<1>5. /\ ws.gen \in Nat /\ ws.seq \in Nat /\ ws.frames \in Nat /\ ws.seq <= ws.frames
      /\ stream.queue \in Seq(Engine!Observations) /\ stream.gen \in Nat
      /\ \A t \in Tokens : arrivals[t] \in Nat /\ at[t] \in BOOLEAN
  BY <1>1, <1>4 DEF Sockets, Streams, Counters, EngineBounds
<1> DEFINE o == [gen |-> ws.gen, seq |-> ws.seq + 1, token |-> t0, price |-> price, old |-> FALSE]
           length == Len(stream.queue)
<1>6. o \in Engine!Observations /\ o.gen = ws.gen /\ o.token = t0 /\ o.price = price
  BY <1>3, <1>5 DEF Engine!Observations
<1>7. ASSUME NEW t \in Tokens
      PROVE  /\ at'[t] = (IF t = t0 THEN price = "entry" ELSE at[t])
             /\ arrivals'[t] = IF t = t0 /\ price = "entry" /\ ~at[t] THEN arrivals[t] + 1
                               ELSE arrivals[t]
  BY <1>2, <1>4 DEF Counters
<1>8. at' \in [Tokens -> BOOLEAN] /\ arrivals' \in Counters
  <2>1. at' \in [Tokens -> BOOLEAN]
    BY <1>2, <1>4
  <2>2. arrivals[t0] + 1 \in Nat /\ arrivals[t0] \in Nat
    BY <1>5
  <2>3. arrivals' \in [Tokens -> Nat]
    BY <1>2, <1>4, <2>2 DEF Counters
  <2> QED
    BY <2>1, <2>3 DEF Counters
<1>9. /\ ws' \in Sockets /\ ws'.gen = ws.gen /\ ws'.frames = ws.frames + 1
      /\ ws'.seq = IF lost THEN ws.seq ELSE ws.seq + 1
  <2>1. ws.frames + 1 \in 0..MaxFrames /\ ws.seq + 1 \in 0..MaxFrames
    BY <1>3, <1>5
  <2>2. CASE lost
    BY <1>2, <1>4, <2>1, <2>2 DEF Sockets
  <2>3. CASE ~lost
    BY <1>2, <1>4, <2>1, <2>3 DEF Sockets
  <2> QED
    BY <2>2, <2>3
<1>10. faults' \in Nat /\ faults' + engineEdits' <= MaxTrouble
  BY <1>2, <1>3, <1>4 DEF Engine!Fault, Engine!Trouble
<1> HIDE DEF o
<1>11. /\ stream' \in Streams /\ stream'.gen = stream.gen /\ stream'.valid
       /\ stream'.queue = IF lost THEN stream.queue ELSE Append(stream.queue, o)
  <2>1. CASE lost
    BY <1>2, <1>3, <1>4, <2>1
  <2>2. CASE ~lost
    <3>1. Append(stream.queue, o) \in Seq(Engine!Observations)
      BY <1>5, <1>6
    <3>2. stream' = [stream EXCEPT !.last = ws.seq + 1, !.queue = Append(stream.queue, o)]
      BY <1>2, <2>2 DEF o
    <3>3. ws.seq + 1 \in 0..MaxFrames
      BY <1>3, <1>5
    <3> QED
      BY <1>3, <1>4, <2>2, <3>1, <3>2, <3>3 DEF Streams
  <2> QED
    BY <2>1, <2>2
<1>12. /\ length \in Nat /\ Len(Append(stream.queue, o)) = length + 1
       /\ Append(stream.queue, o)[length + 1] = o
       /\ \A i \in 1..length : Append(stream.queue, o)[i] = stream.queue[i]
  BY <1>5, <1>6
<1>13. ~lost => length < Capacity
  BY <1>2
<1>14. EngineTypes'
  BY <1>1, <1>3, <1>8, <1>9, <1>10, <1>11 DEF EngineTypes
<1>15. EngineBounds'
  <2>1. ASSUME NEW t \in Tokens PROVE arrivals'[t] <= ws'.frames
    <3>1. arrivals[t] <= ws.frames
      BY <1>1 DEF EngineBounds
    <3> QED
      BY <1>5, <1>7, <1>9, <3>1
  <2>2. Len(stream'.queue) <= Capacity
    <3>1. CASE lost
      BY <1>1, <1>11, <3>1 DEF EngineBounds
    <3>2. CASE ~lost
      BY <1>11, <1>12, <1>13, <3>2
    <3> QED
      BY <3>1, <3>2
  <2>3. ws'.seq <= ws'.frames
    BY <1>5, <1>9
  <2> QED
    BY <1>1, <1>3, <2>1, <2>2, <2>3 DEF EngineBounds
<1>16. Generations'
  <2>1. ASSUME NEW i \in 1..Len(stream'.queue) PROVE stream'.queue[i].gen = ws'.gen
    <3>1. \A j \in 1..length : stream.queue[j].gen = ws.gen
      BY <1>1, <1>3 DEF Generations
    <3>2. CASE lost
      BY <1>9, <1>11, <3>1, <3>2
    <3>3. CASE ~lost /\ i \in 1..length
      BY <1>9, <1>11, <1>12, <3>1, <3>3
    <3>4. CASE ~lost /\ i = length + 1
      BY <1>6, <1>9, <1>11, <1>12, <3>4
    <3> QED
      BY <1>11, <1>12, <3>2, <3>3, <3>4
  <2> QED
    BY <1>1, <1>3, <1>9, <1>11, <2>1 DEF Generations
<1>17. ASSUME NEW t \in Tokens PROVE Followed(t)'
  <2>1. Followed(t)
    BY <1>1, <1>3 DEF Accounted
  <2>2. PICK n, before : /\ Account(stream.queue, t, n, before) /\ n[length] <= arrivals[t]
                         /\ at[t] /\ ~before[length] => n[length] < arrivals[t]
                         /\ Backed(t, n[0], before[0])
    BY <2>1 DEF Followed
  <2>3. n[length] \in Nat /\ before[length] \in BOOLEAN
    <3>1. length \in 0..length
      BY <1>12
    <3> QED
      BY <2>2, <3>1 DEF Account
  <2>4. Backed(t, n[0], before[0])'
    BY <1>3, <1>9, <2>2 DEF Backed, Entries, Armed
  <2>5. CASE lost
    <3>1. /\ n[length] <= arrivals'[t]
          /\ at'[t] /\ ~before[length] => n[length] < arrivals'[t]
      BY <1>5, <1>7, <2>2, <2>3
    <3> QED
      BY <1>11, <2>2, <2>4, <2>5, <3>1 DEF Followed
  <2>6. CASE ~lost
    <3>1. PICK m, was :
            /\ Account(Append(stream.queue, o), t, m, was)
            /\ m[0] = n[0] /\ was[0] = before[0]
            /\ was[length + 1] = (IF o.token = t THEN o.price = "entry" ELSE before[length])
            /\ m[length + 1] = IF o.token = t /\ o.price = "entry" /\ ~before[length]
                               THEN n[length] + 1 ELSE n[length]
      BY <1>5, <1>6, <2>2, AccountJoins
    <3>2. /\ m[length + 1] <= arrivals'[t]
          /\ at'[t] /\ ~was[length + 1] => m[length + 1] < arrivals'[t]
      <4>1. CASE t = t0
        BY <1>5, <1>6, <1>7, <2>2, <2>3, <3>1, <4>1
      <4>2. CASE t # t0
        BY <1>6, <1>7, <2>2, <2>3, <3>1, <4>2
      <4> QED
        BY <4>1, <4>2
    <3>3. stream'.queue = Append(stream.queue, o) /\ Len(stream'.queue) = length + 1
      BY <1>11, <1>12, <2>6
    <3>4. Backed(t, m[0], was[0])'
      BY <2>4, <3>1
    <3> HIDE DEF length
    <3> QED
      BY <3>1, <3>2, <3>3, <3>4 DEF Followed
  <2> QED
    BY <2>5, <2>6
<1>18. ASSUME NEW t \in Tokens PROVE (Entries(t) <= arrivals[t] + gaps)'
  <2>1. SoundlyFollowed'
    BY FollowedIsSound, PTL
  <2> QED
    BY <1>14, <1>17, <2>1 DEF SoundlyFollowed
<1> QED
  BY <1>14, <1>15, <1>16, <1>17, <1>18 DEF EngineInv, Accounted

\* What the consumer takes was published in the socket's generation.
LEMMA TakenObservation ==
  ASSUME EngineTypes, Generations, Engine!Takes
  PROVE  /\ stream.valid /\ stream.queue \in Seq(Engine!Observations) /\ stream.queue # <<>>
         /\ Head(stream.queue) \in Engine!Observations
         /\ Head(stream.queue).gen = ws.gen
<1>1. stream.valid /\ stream.queue # <<>>
  BY DEF Engine!Takes, Engine!Woken, Engine!Rejected
<1>2. stream.queue \in Seq(Engine!Observations)
  BY DEF EngineTypes, Streams
<1>3. 1 \in 1..Len(stream.queue) /\ Head(stream.queue) = stream.queue[1]
  BY <1>1, <1>2
<1> QED
  BY <1>1, <1>2, <1>3 DEF Generations

\* The entries of the generation the observation belongs to.
LEMMA EntriesBefore ==
  ASSUME EngineTypes, NEW gen, gen = ws.gen
  PROVE  /\ Engine!EnteredIn(gen) \in Counters
         /\ \A t \in Tokens : /\ Engine!EnteredIn(gen)[t] = Entries(t)
                                     /\ Entries(t) \in Nat /\ Entries(t) <= entered[t]
  BY DEF EngineTypes, Counters, Engine!EnteredIn, Engine!Zero, Entries

\* A decision: the observation is consumed, and the rule may enter.
Decided(o) ==
    /\ engine.gen = o.gen => engine.valid
    /\ engine' \in Engines /\ engine'.gen = o.gen /\ engine'.valid /\ durable = o.gen
    /\ stable' = (stable /\ o.gen = engine.gen) /\ engineOk' = TRUE
    /\ stream' \in Streams /\ stream'.gen = stream.gen /\ stream'.valid
    /\ stream'.queue = Tail(stream.queue)
    /\ Engine!Decide(o)
    /\ ws' = ws /\ faults' = faults

\* A refusal or a failure: the stream is retired, and nothing is decided.
Refused(o) ==
    /\ engine' \in Engines /\ engine'.gen = o.gen /\ ~engine'.valid /\ stable' = FALSE
    /\ engineOk' \in BOOLEAN
    /\ stream' \in Streams /\ stream'.gen = stream.gen /\ ~stream'.valid
    /\ Len(stream'.queue) = 1
    /\ ws' \in Sockets /\ ws'.gen = ws.gen /\ ws'.seq = ws.seq /\ ws'.frames = ws.frames
    /\ entered' = Engine!EnteredIn(o.gen) /\ memory' = memory /\ count' = count /\ held' = held
    /\ faults' \in Nat /\ faults' + engineEdits <= MaxTrouble

LEMMA TakesEffect ==
  ASSUME EngineInv, Engine!Takes
  PROVE  /\ consumer' = Engine!Awake
         /\ UNCHANGED <<durable, at, arrivals, gaps, rule, subscribed, resetting, resolved,
                        engineEdits>>
         /\ Decided(Head(stream.queue)) \/ Refused(Head(stream.queue))
<1> USE EngineConstants
<1>1. EngineTypes /\ Generations
  BY DEF EngineInv
<1> DEFINE o == Head(stream.queue)
<1>2. /\ stream.valid /\ stream.queue \in Seq(Engine!Observations) /\ stream.queue # <<>>
      /\ o \in Engine!Observations /\ o.gen = ws.gen
  BY <1>1, TakenObservation
<1>3. /\ stream \in Streams /\ ws \in Sockets /\ engine \in Engines
      /\ engineOk \in BOOLEAN
      /\ faults \in Nat /\ engineEdits \in Nat /\ faults + engineEdits <= MaxTrouble
  BY <1>1 DEF EngineTypes
<1>4. o.gen \in Nat /\ o.seq \in 0..MaxFrames
  BY <1>2 DEF Engine!Observations
<1> HIDE DEF o
<1>5. /\ Engine!Begun(o) \in Engines /\ Engine!Begun(o).gen = o.gen
      /\ engine.gen = o.gen => Engine!Begun(o) = engine
  <2>1. CASE engine.gen = o.gen
    BY <1>3, <2>1 DEF Engine!Begun
  <2>2. CASE engine.gen # o.gen
    BY <1>4, <2>2 DEF Engine!Begun, Engines
  <2> QED
    BY <2>1, <2>2
<1>6. /\ [Engine!Begun(o) EXCEPT !.valid = FALSE] \in Engines
      /\ [Engine!Begun(o) EXCEPT !.valid = FALSE].gen = o.gen
      /\ ~[Engine!Begun(o) EXCEPT !.valid = FALSE].valid
      /\ [Engine!Begun(o) EXCEPT !.last = o.seq] \in Engines
      /\ [Engine!Begun(o) EXCEPT !.last = o.seq].gen = o.gen
      /\ [Engine!Begun(o) EXCEPT !.last = o.seq].valid = Engine!Begun(o).valid
  <2> DEFINE begun == Engine!Begun(o)
  <2>1. begun \in Engines /\ begun.gen = o.gen
    BY <1>5
  <2> HIDE DEF begun
  <2>2. /\ [begun EXCEPT !.valid = FALSE] \in Engines /\ [begun EXCEPT !.valid = FALSE].gen = o.gen
        /\ ~[begun EXCEPT !.valid = FALSE].valid
        /\ [begun EXCEPT !.last = o.seq] \in Engines /\ [begun EXCEPT !.last = o.seq].gen = o.gen
        /\ [begun EXCEPT !.last = o.seq].valid = begun.valid
    BY <1>4, <2>1 DEF Engines
  <2> QED
    BY <2>2 DEF begun
<1>7. /\ Engine!Invalidated \in Streams /\ Engine!Invalidated.gen = stream.gen
      /\ ~Engine!Invalidated.valid /\ Len(Engine!Invalidated.queue) = 1
  BY <1>3, Invalidation
<1>8. /\ Engine!Closed \in Sockets /\ Engine!Closed.gen = ws.gen
      /\ Engine!Closed.seq = ws.seq /\ Engine!Closed.frames = ws.frames
  BY <1>3, Closing
<1>9. Engine!Fault => faults' \in Nat /\ faults' + engineEdits <= MaxTrouble
  BY <1>3 DEF Engine!Fault, Engine!Trouble
<1>10. /\ consumer' = Engine!Awake
       /\ UNCHANGED <<durable, at, arrivals, gaps, rule, subscribed, resetting, resolved,
                      engineEdits>>
  BY DEF Engine!Takes, Engine!market
<1>11. \/ /\ Engine!Fits(o)
          /\ engine' = [Engine!Begun(o) EXCEPT !.last = o.seq]
          /\ stable' = (stable /\ o.gen = engine.gen) /\ engineOk' = TRUE
          /\ stream' = [stream EXCEPT !.queue = Tail(@)]
          /\ Engine!Decide(o) /\ UNCHANGED <<ws, faults>>
       \/ /\ IF Engine!Fits(o) THEN Engine!Fault ELSE UNCHANGED faults
          /\ engine' = [Engine!Begun(o) EXCEPT !.valid = FALSE] /\ stable' = FALSE
          /\ stream' = Engine!Invalidated /\ ws' = Engine!Closed
          /\ entered' = Engine!EnteredIn(o.gen) /\ UNCHANGED <<engineOk, memory, count, held>>
       \/ /\ Engine!Fault
          /\ engine' = [Engine!Begun(o) EXCEPT !.valid = FALSE] /\ stable' = FALSE
          /\ engineOk' = FALSE
          /\ stream' = Engine!Invalidated /\ ws' = Engine!Closed
          /\ entered' = Engine!EnteredIn(o.gen) /\ UNCHANGED <<memory, count, held>>
  BY DEF Engine!Takes, o
<1>12. ASSUME Engine!Fits(o), engine' = [Engine!Begun(o) EXCEPT !.last = o.seq],
              stable' = (stable /\ o.gen = engine.gen), engineOk' = TRUE,
              stream' = [stream EXCEPT !.queue = Tail(@)], Engine!Decide(o), ws' = ws,
              faults' = faults
       PROVE  Decided(o)
  <2>1. Engine!Begun(o).valid /\ durable = o.gen
    BY <1>12 DEF Engine!Fits
  <2>2. engine' \in Engines /\ engine'.gen = o.gen /\ engine'.valid
    BY <1>6, <1>12, <2>1
  <2>3. engine.gen = o.gen => engine.valid
    BY <1>5, <2>1
  <2>4. Tail(stream.queue) \in Seq(Engine!Observations)
    BY <1>2
  <2>5. /\ stream' \in Streams /\ stream'.gen = stream.gen /\ stream'.valid
        /\ stream'.queue = Tail(stream.queue)
    BY <1>2, <1>3, <1>12, <2>4 DEF Streams
  <2> QED
    BY <1>12, <2>1, <2>2, <2>3, <2>5 DEF Decided
<1>13. ASSUME engine' = [Engine!Begun(o) EXCEPT !.valid = FALSE], stable' = FALSE,
              engineOk' \in BOOLEAN, stream' = Engine!Invalidated, ws' = Engine!Closed,
              entered' = Engine!EnteredIn(o.gen), memory' = memory, count' = count, held' = held,
              Engine!Fault \/ faults' = faults
       PROVE  Refused(o)
  <2>1. faults' \in Nat /\ faults' + engineEdits <= MaxTrouble
    BY <1>3, <1>9, <1>13
  <2> QED
    BY <1>6, <1>7, <1>8, <1>13, <2>1 DEF Refused
<1>14. Decided(o) \/ Refused(o)
  BY <1>3, <1>11, <1>12, <1>13
<1> QED
  BY <1>10, <1>14 DEF o

LEMMA RefusalKeeps ==
  ASSUME EngineInv, Engine!Takes, Refused(Head(stream.queue))
  PROVE  EngineInv'
<1> USE EngineConstants
<1>1. EngineTypes /\ EngineBounds /\ Generations /\ Accounted
  BY DEF EngineInv
<1> DEFINE o == Head(stream.queue)
<1>2. o.gen = ws.gen
  BY <1>1, TakenObservation
<1>3. /\ consumer' = Engine!Awake
      /\ UNCHANGED <<durable, at, arrivals, gaps, rule, subscribed, resetting, resolved,
                     engineEdits>>
  BY TakesEffect
<1> HIDE DEF o
<1>4. /\ engine' \in Engines /\ engine'.gen = ws.gen /\ ~engine'.valid /\ stable' = FALSE
      /\ engineOk' \in BOOLEAN
      /\ stream' \in Streams /\ stream'.gen = stream.gen /\ ~stream'.valid
      /\ Len(stream'.queue) = 1
      /\ ws' \in Sockets /\ ws'.gen = ws.gen /\ ws'.seq = ws.seq /\ ws'.frames = ws.frames
      /\ entered' = Engine!EnteredIn(o.gen) /\ memory' = memory /\ count' = count /\ held' = held
      /\ faults' \in Nat /\ faults' + engineEdits <= MaxTrouble
  BY <1>2 DEF Refused, o
<1>5. /\ entered' \in Counters
      /\ \A t \in Tokens : /\ entered'[t] = Entries(t) /\ Entries(t) \in Nat
                                  /\ Entries(t) <= entered[t]
  BY <1>1, <1>2, <1>4, EntriesBefore
<1>6. EngineTypes'
  BY <1>1, <1>3, <1>4, <1>5 DEF EngineTypes
<1>7. EngineBounds'
  <2>1. ASSUME NEW t \in Tokens PROVE entered'[t] <= count
    <3>1. entered[t] \in Nat /\ count \in Nat /\ entered[t] <= count
      BY <1>1 DEF EngineTypes, EngineBounds, Counters
    <3> QED
      BY <1>5, <3>1
  <2> QED
    BY <1>1, <1>3, <1>4, <2>1 DEF EngineBounds
<1>8. Generations'
  <2>1. ws.gen \in Nat
    BY <1>1 DEF EngineTypes, Sockets
  <2>2. consumer' <= ws'.gen /\ engine'.gen <= ws'.gen
    BY <1>3, <1>4, <2>1
  <2> QED
    BY <1>1, <1>3, <1>4, <2>2 DEF Generations
<1>9. ASSUME NEW t \in Tokens PROVE Entries(t)' <= arrivals'[t] + gaps'
  <2>1. Entries(t)' = Entries(t)
    BY <1>4, <1>5 DEF Entries
  <2> QED
    BY <1>1, <1>3, <2>1 DEF Accounted
<1> QED
  BY <1>4, <1>6, <1>7, <1>8, <1>9 DEF EngineInv, Accounted

\* What a decision does to the rule's books.
Enters(o) == ~resolved /\ Engine!Entry(o)

LEMMA DecideEffect ==
  ASSUME EngineTypes, NEW o \in Engine!Observations, o.gen = ws.gen, Engine!Decide(o)
  PROVE  /\ entered' \in Counters /\ held' \in Counters /\ memory' \in Memories
         /\ count' \in 0..Frequency /\ count' = IF Enters(o) THEN count + 1 ELSE count
         /\ \A t \in Tokens :
               /\ entered'[t] = IF Enters(o) /\ t = o.token THEN Entries(t) + 1 ELSE Entries(t)
               /\ held'[t] <= IF Enters(o) /\ t = o.token THEN held[t] + 1 ELSE held[t]
               /\ memory'[t] = IF ~resolved /\ rule.enabled /\ t = o.token
                               THEN [gen |-> ws.gen, at |-> o.price = "entry",
                                     eligible |-> Engine!Eligible]
                               ELSE memory[t]
<1> USE EngineConstants
<1>1. /\ entered \in Counters /\ held \in Counters /\ memory \in Memories
      /\ count \in 0..Frequency /\ ws.gen \in Nat /\ rule \in [enabled : BOOLEAN, window : BOOLEAN]
      /\ stable \in BOOLEAN
      /\ \A t \in Tokens : held[t] \in Nat
  BY DEF EngineTypes, Sockets, Counters
<1>2. o.token \in Tokens
  BY DEF Engine!Observations
<1> DEFINE before == Engine!EnteredIn(o.gen)
           kept == IF o.price = "exit" THEN [held EXCEPT ![o.token] = 0] ELSE held
           entry == Engine!Entry(o)
<1>3. before \in Counters /\ \A t \in Tokens : before[t] = Entries(t) /\ before[t] \in Nat
  BY EntriesBefore
<1>4. kept \in Counters /\ \A t \in Tokens : kept[t] <= held[t] /\ kept[t] \in Nat
  BY <1>1, <1>2 DEF Counters
<1>5. entry => count + 1 \in 0..Frequency
  BY <1>1 DEF Engine!Entry
<1>6. IF resolved THEN entered' = before /\ UNCHANGED <<memory, count, held>>
      ELSE /\ held' = IF entry THEN [kept EXCEPT ![o.token] = @ + 1] ELSE kept
           /\ count' = IF entry THEN count + 1 ELSE count
           /\ entered' = IF entry THEN [before EXCEPT ![o.token] = @ + 1] ELSE before
           /\ memory' = IF rule.enabled THEN Engine!Remembered(o, entry, memory) ELSE memory
  BY DEF Engine!Decide
<1> HIDE DEF before, kept
<1>7. /\ [before EXCEPT ![o.token] = @ + 1] \in Counters
      /\ \A t \in Tokens : [before EXCEPT ![o.token] = @ + 1][t]
                                    = IF t = o.token THEN before[t] + 1 ELSE before[t]
  BY <1>2, <1>3 DEF Counters
<1>8. /\ [kept EXCEPT ![o.token] = @ + 1] \in Counters
      /\ \A t \in Tokens : [kept EXCEPT ![o.token] = @ + 1][t]
                                    = IF t = o.token THEN kept[t] + 1 ELSE kept[t]
  BY <1>2, <1>4 DEF Counters
<1>9. Engine!Eligible \in BOOLEAN
  BY <1>1 DEF Engine!Eligible
<1>10. /\ Engine!Remembered(o, entry, memory) \in Memories
       /\ \A t \in Tokens :
             Engine!Remembered(o, entry, memory)[t]
               = IF t = o.token THEN [gen |-> ws.gen, at |-> o.price = "entry",
                                      eligible |-> Engine!Eligible]
                 ELSE memory[t]
  <2> DEFINE r == [gen |-> ws.gen, at |-> o.price = "entry", eligible |-> Engine!Eligible]
  <2>1. r \in [gen : Nat, at : BOOLEAN, eligible : BOOLEAN]
    BY <1>1, <1>9
  <2>2. Engine!Remembered(o, entry, memory) = [memory EXCEPT ![o.token] = r]
    BY DEF Engine!Remembered
  <2> HIDE DEF r
  <2>3. /\ [memory EXCEPT ![o.token] = r] \in Memories
        /\ \A t \in Tokens : [memory EXCEPT ![o.token] = r][t]
                                      = IF t = o.token THEN r ELSE memory[t]
    BY <1>1, <1>2, <2>1 DEF Memories
  <2> QED
    BY <2>2, <2>3 DEF r
<1> HIDE DEF entry
<1>11. Enters(o) <=> (~resolved /\ entry)
  BY DEF Enters, entry
<1>12. /\ entered' \in Counters /\ held' \in Counters /\ memory' \in Memories
       /\ count' \in 0..Frequency
  <2>1. CASE resolved
    BY <1>1, <1>3, <1>6, <2>1
  <2>2. CASE ~resolved
    BY <1>1, <1>3, <1>4, <1>5, <1>6, <1>7, <1>8, <1>10, <2>2
  <2> QED
    BY <2>1, <2>2
<1>13. count' = IF Enters(o) THEN count + 1 ELSE count
  BY <1>6, <1>11
<1>14. ASSUME NEW t \in Tokens
       PROVE  entered'[t] = IF Enters(o) /\ t = o.token THEN Entries(t) + 1 ELSE Entries(t)
  BY <1>3, <1>6, <1>7, <1>11
<1>15. ASSUME NEW t \in Tokens
       PROVE  held'[t] <= IF Enters(o) /\ t = o.token THEN held[t] + 1 ELSE held[t]
  <2>1. held[t] \in Nat /\ kept[t] \in Nat /\ kept[t] <= held[t]
    BY <1>1, <1>4
  <2>2. CASE resolved
    BY <1>6, <1>11, <2>1, <2>2
  <2>3. CASE ~resolved /\ entry
    <3>1. held'[t] = IF t = o.token THEN kept[t] + 1 ELSE kept[t]
      BY <1>6, <1>8, <2>3
    <3> QED
      BY <1>11, <2>1, <2>3, <3>1
  <2>4. CASE ~resolved /\ ~entry
    BY <1>6, <1>11, <2>1, <2>4
  <2> QED
    BY <2>2, <2>3, <2>4
<1>16. ASSUME NEW t \in Tokens
       PROVE  memory'[t] = IF ~resolved /\ rule.enabled /\ t = o.token
                           THEN [gen |-> ws.gen, at |-> o.price = "entry",
                                 eligible |-> Engine!Eligible]
                           ELSE memory[t]
  BY <1>6, <1>10
<1> QED
  BY <1>12, <1>13, <1>14, <1>15, <1>16

LEMMA MemoryFields ==
  ASSUME NEW r, NEW gen, NEW price \in BOOLEAN, NEW eligible \in BOOLEAN,
         r = [gen |-> gen, at |-> price, eligible |-> eligible]
  PROVE  r.gen = gen /\ r.at = price /\ r.eligible = eligible
  OBVIOUS

\* The arrivals a decision consumes back the entry it makes: an unchanged price
\* is entered only where there is one to spare, and then it is remembered.
LEMMA DecisionBacks ==
  ASSUME EngineInv, NEW o \in Engine!Observations, o.gen = ws.gen, Decided(o),
         gaps' = gaps, rule' = rule,
         NEW t \in Tokens, NEW n0 \in Nat, NEW n1 \in Nat,
         NEW was0 \in BOOLEAN, NEW was1 \in BOOLEAN,
         was1 = (IF o.token = t THEN o.price = "entry" ELSE was0),
         n1 = IF o.token = t /\ o.price = "entry" /\ ~was0 THEN n0 + 1 ELSE n0,
         Backed(t, n0, was0), stream.valid
  PROVE  Backed(t, n1, was1)'
<1>1. EngineTypes /\ Generations
  BY DEF EngineInv
<1>2. /\ engine.gen = o.gen => engine.valid
      /\ engine'.gen = ws.gen /\ ws' = ws /\ Engine!Decide(o)
  BY DEF Decided
<1>3. /\ entered'[t] = IF Enters(o) /\ t = o.token THEN Entries(t) + 1 ELSE Entries(t)
      /\ memory'[t] = IF ~resolved /\ rule.enabled /\ t = o.token
                      THEN [gen |-> ws.gen, at |-> o.price = "entry",
                            eligible |-> Engine!Eligible]
                      ELSE memory[t]
  BY <1>1, <1>2, DecideEffect
<1>a. ~resolved /\ rule.enabled /\ t = o.token
         => /\ memory'[t].gen = ws.gen /\ memory'[t].at = (o.price = "entry")
            /\ memory'[t].eligible = Engine!Eligible
  <2> SUFFICES ASSUME ~resolved, rule.enabled, t = o.token
               PROVE  /\ memory'[t].gen = ws.gen /\ memory'[t].at = (o.price = "entry")
                      /\ memory'[t].eligible = Engine!Eligible
    OBVIOUS
  <2>1. Engine!Eligible \in BOOLEAN /\ (o.price = "entry") \in BOOLEAN
    BY <1>1 DEF Engine!Eligible, EngineTypes
  <2>2. memory'[t] = [gen |-> ws.gen, at |-> o.price = "entry", eligible |-> Engine!Eligible]
    BY <1>3
  <2> QED
    BY <2>1, <2>2, MemoryFields
<1>4. Entries(t)' = entered'[t] /\ Entries(t) \in Nat /\ gaps \in Nat
  BY <1>1, <1>2 DEF Entries, EngineTypes, Counters
<1>5. /\ Entries(t) <= n0 + gaps
      /\ was0 => n0 >= 1
      /\ was0 /\ ~Armed(t) => Entries(t) < n0 + gaps
  BY DEF Backed
<1>6. /\ stable' = (stable /\ engine.gen = ws.gen)
      /\ Armed(t)' <=> /\ stable' /\ rule.window
                       /\ memory'[t].gen = ws.gen /\ memory'[t].at /\ memory'[t].eligible
  BY <1>1, <1>2 DEF Armed, Decided
<1>b. Armed(t) => /\ engine.gen = ws.gen /\ engine.valid /\ stable /\ rule.window
                  /\ memory[t].gen = ws.gen /\ memory[t].at /\ memory[t].eligible
  BY <1>2 DEF Armed
<1>7. CASE t # o.token
  <2>1. entered'[t] = Entries(t) /\ memory'[t] = memory[t] /\ was1 = was0 /\ n1 = n0
    BY <1>3, <1>7
  <2>2. Armed(t) => Armed(t)'
    BY <1>6, <1>b, <2>1
  <2>3. /\ Entries(t)' <= n1 + gaps'
        /\ was1 => n1 >= 1
        /\ was1 /\ ~Armed(t)' => Entries(t)' < n1 + gaps'
    BY <1>4, <1>5, <2>1, <2>2
  <2> QED
    BY <2>3 DEF Backed
<1>8. CASE t = o.token /\ o.price # "entry"
  <2>1. ~Enters(o)
    BY <1>8 DEF Enters, Engine!Entry
  <2>2. Entries(t)' = Entries(t) /\ ~was1 /\ n1 = n0
    BY <1>3, <1>4, <1>8, <2>1
  <2> QED
    BY <1>5, <2>2 DEF Backed
<1>9. CASE t = o.token /\ o.price = "entry" /\ Enters(o)
  <2>1. /\ ~resolved /\ Engine!Eligible
        /\ ~(memory[t].gen = ws.gen /\ memory[t].eligible /\ memory[t].at)
    BY <1>9 DEF Enters, Engine!Entry, Engine!Unchanged
  <2>2. ~Armed(t)
    BY <1>b, <2>1
  <2>3. rule.enabled /\ rule.window /\ stable /\ engine.gen = ws.gen
    BY <1>1, <2>1 DEF Engine!Eligible, Generations
  <2>4. memory'[t].gen = ws.gen /\ memory'[t].at /\ memory'[t].eligible
    BY <1>a, <1>9, <2>1, <2>3
  <2>5. Armed(t)'
    BY <1>6, <2>3, <2>4
  <2>6. Entries(t)' = Entries(t) + 1 /\ was1
    BY <1>3, <1>4, <1>9
  <2>7. Entries(t) + 1 <= n1 + gaps /\ n1 >= 1
    <3>1. CASE was0
      BY <1>4, <1>5, <2>2, <3>1
    <3>2. CASE ~was0
      BY <1>4, <1>5, <1>9, <3>2
    <3> QED
      BY <3>1, <3>2
  <2> QED
    BY <2>5, <2>6, <2>7 DEF Backed
<1>10. CASE t = o.token /\ o.price = "entry" /\ ~Enters(o)
  <2>1. Entries(t)' = Entries(t) /\ was1
    BY <1>3, <1>4, <1>10
  <2>2. n1 >= 1 /\ Entries(t) <= n1 + gaps
    BY <1>4, <1>5, <1>10
  <2>3. ~Armed(t)' => Entries(t) < n1 + gaps
    <3>1. CASE ~was0
      BY <1>4, <1>5, <1>10, <3>1
    <3>2. CASE was0 /\ ~Armed(t)
      BY <1>4, <1>5, <1>10, <3>2
    <3>3. CASE was0 /\ Armed(t) /\ ~Armed(t)'
      <4>1. engine.gen = ws.gen /\ stable' /\ rule.window
        BY <1>6, <1>b, <3>3
      <4>2. ~resolved /\ rule.enabled
        <5>1. ~(~resolved /\ rule.enabled) => memory'[t] = memory[t]
          BY <1>3
        <5> QED
          BY <1>6, <1>b, <3>3, <4>1, <5>1
      <4>3. Engine!Eligible
        BY <1>6, <4>1, <4>2 DEF Engine!Eligible
      <4>4. memory'[t].gen = ws.gen /\ memory'[t].at
            /\ (memory'[t].eligible <=> Engine!Eligible)
        BY <1>a, <1>10, <4>2
      <4> QED
        BY <1>6, <3>3, <4>1, <4>3, <4>4
    <3> QED
      BY <3>1, <3>2, <3>3
  <2> QED
    BY <2>1, <2>2, <2>3 DEF Backed
<1> QED
  BY <1>7, <1>8, <1>9, <1>10

LEMMA DecisionKeeps ==
  ASSUME EngineInv, Engine!Takes, Decided(Head(stream.queue))
  PROVE  EngineInv'
<1> USE EngineConstants
<1>1. EngineTypes /\ EngineBounds /\ Generations /\ Accounted
  BY DEF EngineInv
<1> DEFINE o == Head(stream.queue)
           length == Len(stream.queue)
<1>2. /\ stream.valid /\ stream.queue \in Seq(Engine!Observations) /\ stream.queue # <<>>
      /\ o \in Engine!Observations /\ o.gen = ws.gen
  BY <1>1, TakenObservation
<1>3. /\ consumer' = Engine!Awake
      /\ UNCHANGED <<durable, at, arrivals, gaps, rule, subscribed, resetting, resolved,
                     engineEdits>>
  BY TakesEffect
<1>4. /\ engine.gen = ws.gen => engine.valid
      /\ engine' \in Engines /\ engine'.gen = ws.gen /\ engine'.valid
      /\ stable' = (stable /\ ws.gen = engine.gen) /\ engineOk' = TRUE
      /\ stream' \in Streams /\ stream'.gen = stream.gen /\ stream'.valid
      /\ stream'.queue = Tail(stream.queue)
      /\ Engine!Decide(o) /\ ws' = ws /\ faults' = faults
  BY <1>2 DEF Decided
<1>5. /\ length \in Nat /\ length >= 1 /\ Len(Tail(stream.queue)) = length - 1
      /\ \A i \in 1..length - 1 : Tail(stream.queue)[i] = stream.queue[i + 1]
  BY <1>2
<1> HIDE DEF o, length
<1>6. /\ entered' \in Counters /\ held' \in Counters /\ memory' \in Memories
      /\ count' \in 0..Frequency /\ count' = IF Enters(o) THEN count + 1 ELSE count
      /\ \A t \in Tokens :
            /\ entered'[t] = IF Enters(o) /\ t = o.token THEN Entries(t) + 1 ELSE Entries(t)
            /\ held'[t] <= IF Enters(o) /\ t = o.token THEN held[t] + 1 ELSE held[t]
            /\ memory'[t] = IF ~resolved /\ rule.enabled /\ t = o.token
                            THEN [gen |-> ws.gen, at |-> o.price = "entry",
                                  eligible |-> Engine!Eligible]
                            ELSE memory[t]
  BY <1>1, <1>2, <1>4, DecideEffect
<1>7. EngineTypes'
  BY <1>1, <1>3, <1>4, <1>6 DEF EngineTypes
<1>8. ASSUME NEW t \in Tokens
      PROVE  Entries(t) \in Nat /\ Entries(t) <= entered[t]
  BY <1>1, <1>2, EntriesBefore
<1>9. EngineBounds'
  <2>1. ASSUME NEW t \in Tokens PROVE entered'[t] <= count' /\ held'[t] <= count'
    <3>1. /\ entered[t] \in Nat /\ held[t] \in Nat /\ count \in Nat /\ held'[t] \in Nat
          /\ entered[t] <= count /\ held[t] <= count
      BY <1>1, <1>6 DEF EngineTypes, EngineBounds, Counters
    <3> QED
      BY <1>6, <1>8, <3>1
  <2>2. Len(stream'.queue) <= Capacity
    BY <1>1, <1>4, <1>5 DEF EngineBounds, length
  <2> QED
    BY <1>1, <1>3, <1>4, <2>1, <2>2 DEF EngineBounds
<1>10. Generations'
  <2>1. ws.gen \in Nat
    BY <1>1 DEF EngineTypes, Sockets
  <2>2. consumer' <= ws'.gen /\ engine'.gen <= ws'.gen /\ ws'.gen <= durable'
    BY <1>1, <1>3, <1>4, <2>1 DEF Generations
  <2>3. \A t \in Tokens : memory'[t].gen <= durable'
    BY <1>1, <1>3, <1>6 DEF Generations
  <2>4. \A i \in 1..Len(stream'.queue) : stream'.queue[i].gen = ws'.gen
    <3>1. \A i \in 1..length - 1 : i + 1 \in 1..length
      BY <1>5
    <3> QED
      BY <1>1, <1>2, <1>4, <1>5, <3>1 DEF Generations, length
  <2> QED
    BY <1>1, <1>3, <1>4, <2>2, <2>3, <2>4 DEF Generations
<1>11. ASSUME NEW t \in Tokens PROVE Followed(t)'
  <2>1. Followed(t)
    BY <1>1, <1>2 DEF Accounted
  <2>2. PICK n, before : /\ Account(stream.queue, t, n, before) /\ n[length] <= arrivals[t]
                         /\ at[t] /\ ~before[length] => n[length] < arrivals[t]
                         /\ Backed(t, n[0], before[0])
    BY <2>1 DEF Followed, length
  <2>3. /\ n[0] \in Nat /\ n[1] \in Nat /\ before[0] \in BOOLEAN /\ before[1] \in BOOLEAN
        /\ before[1] = (IF o.token = t THEN o.price = "entry" ELSE before[0])
        /\ n[1] = IF o.token = t /\ o.price = "entry" /\ ~before[0] THEN n[0] + 1 ELSE n[0]
    BY <1>2, <2>2, AccountOfFirst DEF o
  <2>4. PICK m, was :
          /\ Account(Tail(stream.queue), t, m, was)
          /\ m[0] = n[1] /\ was[0] = before[1]
          /\ m[length - 1] = n[length] /\ was[length - 1] = before[length]
    BY <1>2, <2>2, AccountShortens DEF length
  <2>5. Decided(o)
    BY DEF o
  <2>6. Backed(t, n[1], before[1])'
    BY <1>2, <1>3, <2>2, <2>3, <2>5, DecisionBacks
  <2>7. Backed(t, m[0], was[0])'
    BY <2>4, <2>6
  <2>8. /\ m[length - 1] <= arrivals'[t]
        /\ at'[t] /\ ~was[length - 1] => m[length - 1] < arrivals'[t]
    BY <1>3, <2>2, <2>4
  <2> QED
    BY <1>4, <1>5, <2>4, <2>7, <2>8 DEF Followed, length
<1>12. ASSUME NEW t \in Tokens PROVE (Entries(t) <= arrivals[t] + gaps)'
  <2>1. SoundlyFollowed'
    BY FollowedIsSound, PTL
  <2> QED
    BY <1>7, <1>11, <2>1 DEF SoundlyFollowed
<1> QED
  BY <1>7, <1>9, <1>10, <1>11, <1>12 DEF EngineInv, Accounted

LEMMA EngineNext == EngineInv /\ [Engine!Next]_engineVars => EngineInv'
<1> SUFFICES ASSUME EngineInv, [Engine!Next]_engineVars PROVE EngineInv'
  OBVIOUS
<1>1. CASE UNCHANGED engineVars
  <2>1. UNCHANGED <<durable, ws, at, arrivals, gaps, stream, consumer, engine, memory, count,
                    entered, held, rule, stable, engineOk, subscribed, resetting, resolved,
                    faults, engineEdits>>
    BY <1>1 DEF engineVars
  <2> QED
    BY <2>1 DEF EngineInv, EngineTypes, EngineBounds, Generations, Accounted, Entries, Followed,
                Backed, Armed
<1>2. CASE \/ Engine!Drop \/ Engine!Waits \/ Engine!Rejects \/ Engine!Demand
           \/ Engine!Stabilises \/ Engine!Probe \/ Engine!ResetEnds \/ Engine!EditRule
           \/ Engine!Resolve
  BY <1>2, QuietActions
<1>3. CASE Engine!Connect
  BY <1>3, ConnectKeeps
<1>4. CASE Engine!Frame
  BY <1>4, FrameKeeps
<1>5. CASE Engine!Ages
  BY <1>5, AgesKeeps
<1>6. CASE Engine!Takes
  BY <1>6, TakesEffect, DecisionKeeps, RefusalKeeps
<1>7. CASE Engine!ResetBegins
  BY <1>7, ResetKeeps
<1>8. CASE Engine!Window
  BY <1>8, WindowKeeps
<1>9. CASE Engine!Lapses
  BY <1>9, LapsesKeeps
<1> QED
  BY <1>1, <1>2, <1>3, <1>4, <1>5, <1>6, <1>7, <1>8, <1>9 DEF Engine!Next

LEMMA EngineInvariant == Spec => []EngineInv
<1>1. Init => EngineInv
  BY EngineInit DEF Init
<1>2. EngineInv /\ [Next]_ledgerVars => EngineInv'
  BY EngineSteps, EngineNext
<1> QED
  BY <1>1, <1>2, PTL DEF Spec, ledgerVars

(* Within a generation demo_v2 enters a token no more often than its ask    *)
(* has arrived at the entry price and the rule has ceased to be eligible,   *)
(* by the end of its window or a failed sample of health, together:         *)
(* whatever was lost, aged, edited or reset in between, however often, and  *)
(* however long the queue.                                                  *)
THEOREM OneEntryForAnArrival == Spec => []OneEntryPerArrival
<1>1. EngineInv => OneEntryPerArrival
  BY DEF EngineInv, Accounted, Entries, OneEntryPerArrival, Engine!OneEntryPerArrival
<1> QED
  BY <1>1, EngineInvariant, PTL

-----------------------------------------------------------------------------
(* The rows of the markets: types and the size of a batch *)

MarketRow == [stored : BOOLEAN, resolved : BOOLEAN, named : BOOLEAN,
              source : {"client", "stream", "rest"}]
MarketTypes ==
    /\ ended \in 0..Markets /\ closed \subseteq 1..ended
    /\ marketRow \in [MarketRows!Ids -> MarketRow]
    /\ discovery \in [market : 0..Markets, closed : BOOLEAN]
    /\ resolver \subseteq 1..ended /\ Cardinality(resolver) <= Batch
    /\ marketStream \in [MarketRows!Ids -> 0..MaxStream]

LEMMA MarketConstants ==
  /\ Markets \in Nat /\ Markets >= 1 /\ Batch \in Nat /\ Batch >= 1 /\ MaxStream \in Nat
  /\ MarketRows!Ids = 1..Markets
  BY LedgersAssumption DEF MarketRows!ResolutionAssumption, MarketRows!Ids

\* A set of naturals that is not empty has a least element.
LEMMA LeastNatural ==
  ASSUME NEW S, S \subseteq Nat, S # {}
  PROVE  \E m \in S : \A n \in S : m <= n
<1> DEFINE R == {ss \in Nat \X Nat : ss[1] < ss[2]}
<1>1. IsWellFoundedOn(OpToRel(<, Nat), Nat)
  BY NatLessThanWellFounded
<1>2. OpToRel(<, Nat) = R
  BY DEF OpToRel
<1>3. IsWellFoundedOn(R, Nat)
  BY <1>1, <1>2, Zenon
<1>4. \A n, m \in Nat : n < m => <<n, m>> \in R
  OBVIOUS
<1> HIDE DEF R
<1>5. PICK m \in S : \A n \in S : ~(<<n, m>> \in R)
  BY <1>3, WFMin
<1>6. \A n \in S : ~(n < m)
  BY <1>4, <1>5, Zenon
<1>7. \A n \in S : m <= n
  BY <1>6
<1> QED
  BY <1>7

\* One that is bounded has a greatest: the least of the distances to the bound.
LEMMA GreatestNatural ==
  ASSUME NEW S, NEW k \in Nat, S \subseteq 1..k, S # {}
  PROVE  \E m \in S : \A n \in S : n <= m
<1> DEFINE Distances == {k - n : n \in S}
<1>1. Distances \subseteq Nat /\ Distances # {}
  <2>1. \A n \in S : k - n \in Nat
    OBVIOUS
  <2> QED
    BY <2>1
<1> HIDE DEF Distances
<1>2. PICK d \in Distances : \A e \in Distances : d <= e
  BY <1>1, LeastNatural
<1>3. PICK m \in S : d = k - m
  BY DEF Distances
<1>4. \A n \in S : k - n \in Distances
  BY DEF Distances
<1> QED
  BY <1>2, <1>3, <1>4

\* A set with fewer than n elements behind one of its own has at most n.
LEMMA FewBehindOne ==
  ASSUME NEW S, IsFiniteSet(S), NEW m \in S, NEW T, IsFiniteSet(T), S \ {m} \subseteq T,
         NEW n \in Nat, Cardinality(T) < n
  PROVE  Cardinality(S) <= n
<1>1. Cardinality(S) \in Nat /\ Cardinality(T) \in Nat
  BY FS_CardinalityType
<1>2. IsFiniteSet(S \ {m}) /\ Cardinality(S \ {m}) = Cardinality(S) - 1
  BY FS_RemoveElement
<1>3. Cardinality(S \ {m}) <= Cardinality(T)
  BY FS_Subset
<1> QED
  BY <1>1, <1>2, <1>3

\* The batch: half of the newest, half of the oldest.
LEMMA SideOfBatch ==
  ASSUME NEW k \in Nat, NEW ms \in SUBSET (1..k), NEW n \in Nat
  PROVE  /\ MarketRows!Newest(ms, n) \subseteq ms /\ MarketRows!Oldest(ms, n) \subseteq ms
         /\ IsFiniteSet(MarketRows!Newest(ms, n)) /\ IsFiniteSet(MarketRows!Oldest(ms, n))
         /\ Cardinality(MarketRows!Newest(ms, n)) <= n
         /\ Cardinality(MarketRows!Oldest(ms, n)) <= n
<1>1. IsFiniteSet(1..k) /\ IsFiniteSet(ms)
  <2>1. 1 \in Int /\ k \in Int
    OBVIOUS
  <2>2. IsFiniteSet(1..k)
    BY <2>1, FS_Interval, Zenon
  <2> QED
    BY <2>2, FS_Subset
<1>2. \A S : MarketRows!Cardinality(S) = Cardinality(S)
  BY DEF MarketRows!Cardinality, Cardinality
<1> DEFINE newest == MarketRows!Newest(ms, n)
           oldest == MarketRows!Oldest(ms, n)
<1>3. newest = {m \in ms : Cardinality({x \in ms : x > m}) < n}
  BY <1>2 DEF MarketRows!Newest
<1>4. oldest = {m \in ms : Cardinality({x \in ms : x < m}) < n}
  BY <1>2 DEF MarketRows!Oldest
<1> HIDE DEF newest, oldest
<1>5. IsFiniteSet(newest) /\ IsFiniteSet(oldest)
  BY <1>1, <1>3, <1>4, FS_Subset
<1>6. Cardinality({}) = 0
  BY FS_EmptySet
<1>7. Cardinality(newest) <= n
  <2>1. CASE newest = {}
    BY <1>6, <2>1
  <2>2. CASE newest # {}
    <3>1. newest \subseteq Nat
      <4>1. newest \subseteq ms /\ ms \subseteq 1..k
        BY <1>3
      <4>2. 1..k \subseteq Nat
        OBVIOUS
      <4> QED
        BY <4>1, <4>2
    <3>2. PICK m \in newest : \A x \in newest : m <= x
      BY <2>2, <3>1, LeastNatural
    <3> DEFINE T == {x \in ms : x > m}
    <3>3. Cardinality(T) < n
      BY <1>3
    <3>4. newest \ {m} \subseteq T
      BY <1>3, <3>1, <3>2
    <3>5. IsFiniteSet(T)
      BY <1>1, FS_Subset
    <3> HIDE DEF T
    <3> QED
      BY <1>5, <3>3, <3>4, <3>5, FewBehindOne
  <2> QED
    BY <2>1, <2>2
<1>8. Cardinality(oldest) <= n
  <2>1. CASE oldest = {}
    BY <1>6, <2>1
  <2>2. CASE oldest # {}
    <3>1. oldest \subseteq 1..k
      BY <1>4
    <3>2. PICK m \in oldest : \A x \in oldest : x <= m
      BY <2>2, <3>1, GreatestNatural
    <3> DEFINE T == {x \in ms : x < m}
    <3>3. Cardinality(T) < n
      BY <1>4
    <3>4. oldest \ {m} \subseteq T
      BY <1>4, <3>1, <3>2
    <3>5. IsFiniteSet(T)
      BY <1>1, FS_Subset
    <3> HIDE DEF T
    <3> QED
      BY <1>5, <3>3, <3>4, <3>5, FewBehindOne
  <2> QED
    BY <2>1, <2>2
<1> QED
  BY <1>3, <1>4, <1>5, <1>7, <1>8 DEF newest, oldest

LEMMA BatchIsBounded ==
  ASSUME MarketTypes
  PROVE  MarketRows!Listed \subseteq 1..ended /\ Cardinality(MarketRows!Listed) <= Batch
<1> USE MarketConstants
<1> DEFINE recent == (Batch + 1) \div 2
           ms == MarketRows!Pending
           newest == MarketRows!Newest(ms, recent)
           oldest == MarketRows!Oldest(ms, Batch - recent)
<1>1. recent \in Nat /\ Batch - recent \in Nat
  OBVIOUS
<1>2. ended \in Nat /\ ms \subseteq 1..ended
  BY DEF MarketTypes, MarketRows!Pending
<1> HIDE DEF recent, ms
<1>3. /\ newest \subseteq ms /\ IsFiniteSet(newest) /\ Cardinality(newest) <= recent
      /\ oldest \subseteq ms /\ IsFiniteSet(oldest) /\ Cardinality(oldest) <= Batch - recent
  BY <1>1, <1>2, SideOfBatch
<1>4. MarketRows!Listed = newest \cup oldest
  BY DEF MarketRows!Listed, recent, ms
<1> HIDE DEF newest, oldest
<1>5. /\ Cardinality(newest \cup oldest)
           = Cardinality(newest) + Cardinality(oldest) - Cardinality(newest \cap oldest)
      /\ IsFiniteSet(newest \cap oldest)
  BY <1>3, FS_Union, FS_Intersection
<1>6. Cardinality(newest \cap oldest) \in Nat /\ Cardinality(newest) \in Nat
      /\ Cardinality(oldest) \in Nat
  BY <1>3, <1>5, FS_CardinalityType
<1> QED
  BY <1>1, <1>2, <1>3, <1>4, <1>5, <1>6

LEMMA MarketInit == MarketRows!Init => MarketTypes
<1> SUFFICES ASSUME MarketRows!Init PROVE MarketTypes
  OBVIOUS
<1>1. /\ ended = 0 /\ closed = {} /\ marketRow = [m \in MarketRows!Ids |-> MarketRows!Fresh]
      /\ discovery = MarketRows!NoMarket /\ resolver = {}
      /\ marketStream = [m \in MarketRows!Ids |-> 0]
  BY DEF MarketRows!Init
<1>2. MarketRows!Fresh \in MarketRow
  BY DEF MarketRows!Fresh, MarketRow
<1>3. discovery \in [market : 0..Markets, closed : BOOLEAN]
  BY <1>1, MarketConstants DEF MarketRows!NoMarket
<1>4. Cardinality(resolver) <= Batch
  BY <1>1, MarketConstants, FS_EmptySet
<1>5. marketRow \in [MarketRows!Ids -> MarketRow]
  BY <1>1, <1>2
<1>6. marketStream \in [MarketRows!Ids -> 0..MaxStream]
  BY <1>1, MarketConstants
<1> QED
  BY <1>1, <1>3, <1>4, <1>5, <1>6, MarketConstants DEF MarketTypes

LEMMA MarketNext == MarketTypes /\ [MarketRows!Next]_resolutionVars => MarketTypes'
<1> USE MarketConstants
<1> SUFFICES ASSUME MarketTypes, [MarketRows!Next]_resolutionVars PROVE MarketTypes'
  OBVIOUS
<1>1. /\ ended \in 0..Markets /\ closed \subseteq 1..ended
      /\ marketRow \in [MarketRows!Ids -> MarketRow]
      /\ discovery \in [market : 0..Markets, closed : BOOLEAN]
      /\ resolver \subseteq 1..ended /\ Cardinality(resolver) <= Batch
      /\ marketStream \in [MarketRows!Ids -> 0..MaxStream]
  BY DEF MarketTypes
<1>2. ASSUME NEW m \in MarketRows!Ids, NEW r \in MarketRow, marketRow' = [marketRow EXCEPT ![m] = r]
      PROVE  marketRow' \in [MarketRows!Ids -> MarketRow]
  BY <1>1, <1>2
<1>3. ASSUME NEW m \in MarketRows!Ids, MarketRows!Written(m),
             marketStream' = [marketStream EXCEPT ![m] = @ + 1]
      PROVE  marketStream' \in [MarketRows!Ids -> 0..MaxStream]
  <2>1. marketStream[m] + 1 \in 0..MaxStream
    BY <1>1, <1>3 DEF MarketRows!Written
  <2> QED
    BY <1>1, <1>3, <2>1
<1>4. CASE UNCHANGED resolutionVars
  BY <1>4 DEF resolutionVars, MarketTypes
<1>5. CASE MarketRows!End
  <2>1. /\ ended' = ended + 1 /\ ended' \in 0..Markets
        /\ UNCHANGED <<closed, marketRow, discovery, resolver, marketStream>>
    BY <1>1, <1>5 DEF MarketRows!End
  <2>2. 1..ended \subseteq 1..ended'
    BY <1>1, <2>1
  <2> QED
    BY <1>1, <2>1, <2>2 DEF MarketTypes
<1>6. CASE MarketRows!Close
  <2>1. PICK m \in 1..ended \ closed : closed' = closed \cup {m}
    BY <1>6 DEF MarketRows!Close
  <2>2. UNCHANGED <<ended, marketRow, discovery, resolver, marketStream>>
    BY <1>6 DEF MarketRows!Close
  <2> QED
    BY <1>1, <2>1, <2>2 DEF MarketTypes
<1>7. CASE MarketRows!DiscoveryReads
  <2>1. PICK m \in MarketRows!Ids :
           discovery' = [market |-> m, closed |-> m \in closed]
    BY <1>7 DEF MarketRows!DiscoveryReads
  <2>2. UNCHANGED <<ended, closed, marketRow, resolver, marketStream>>
    BY <1>7 DEF MarketRows!DiscoveryReads
  <2>3. m \in 0..Markets /\ (m \in closed) \in BOOLEAN
    OBVIOUS
  <2>4. discovery' \in [market : 0..Markets, closed : BOOLEAN]
    BY <2>1, <2>3
  <2> QED
    BY <1>1, <2>2, <2>4 DEF MarketTypes
<1>8. CASE MarketRows!DiscoveryStores
  <2> DEFINE stored == [MarketRows!Fresh EXCEPT !.stored = TRUE, !.resolved = discovery.closed]
  <2>1. /\ discovery' = MarketRows!NoMarket
        /\ marketRow' = [marketRow EXCEPT ![discovery.market] = stored]
        /\ UNCHANGED <<ended, closed, resolver, marketStream>>
    BY <1>8 DEF MarketRows!DiscoveryStores
  <2>2. stored \in MarketRow
    BY <1>1 DEF MarketRows!Fresh, MarketRow
  <2> HIDE DEF stored
  <2>3. marketRow' \in [MarketRows!Ids -> MarketRow]
    BY <1>1, <2>1, <2>2
  <2>4. discovery' \in [market : 0..Markets, closed : BOOLEAN]
    BY <2>1 DEF MarketRows!NoMarket
  <2> QED
    BY <1>1, <2>1, <2>3, <2>4 DEF MarketTypes
<1>9. CASE MarketRows!Snapshot
  <2>1. PICK m \in MarketRows!Ids :
          /\ MarketRows!Written(m) /\ marketStream' = [marketStream EXCEPT ![m] = @ + 1]
          /\ marketRow' = [marketRow EXCEPT ![m].source = "stream"]
    BY <1>9 DEF MarketRows!Snapshot
  <2>2. UNCHANGED <<ended, closed, discovery, resolver>>
    BY <1>9 DEF MarketRows!Snapshot
  <2>3. [marketRow[m] EXCEPT !.source = "stream"] \in MarketRow
    BY <1>1 DEF MarketRow
  <2>4. marketRow' \in [MarketRows!Ids -> MarketRow]
    BY <1>2, <2>1, <2>3
  <2> QED
    BY <1>1, <1>3, <2>1, <2>2, <2>4 DEF MarketTypes
<1>10. CASE MarketRows!ResolutionEvent
  <2>1. PICK m \in closed, named \in BOOLEAN, again \in BOOLEAN :
          /\ MarketRows!Written(m) /\ marketStream' = [marketStream EXCEPT ![m] = @ + 1]
          /\ marketRow' = IF MarketRows!Noted(m, again).source = "rest" THEN marketRow
                          ELSE [marketRow EXCEPT ![m] =
                                   [MarketRows!Noted(m, again) EXCEPT !.resolved = TRUE,
                                       !.named = named, !.source = "stream"]]
    BY <1>10 DEF MarketRows!ResolutionEvent
  <2>2. UNCHANGED <<ended, closed, discovery, resolver>>
    BY <1>10 DEF MarketRows!ResolutionEvent
  <2>3. m \in MarketRows!Ids
    BY <1>1
  <2>4. MarketRows!Noted(m, again) \in MarketRow
    BY <1>1, <2>3 DEF MarketRows!Noted, MarketRow
  <2>5. [MarketRows!Noted(m, again) EXCEPT !.resolved = TRUE, !.named = named,
                                           !.source = "stream"] \in MarketRow
    <3> DEFINE noted == MarketRows!Noted(m, again)
    <3> HIDE DEF noted
    <3>1. [noted EXCEPT !.resolved = TRUE, !.named = named, !.source = "stream"] \in MarketRow
      BY <2>4 DEF MarketRow, noted
    <3> QED
      BY <3>1 DEF noted
  <2>6. marketRow' \in [MarketRows!Ids -> MarketRow]
    BY <1>1, <1>2, <2>1, <2>3, <2>5
  <2> QED
    BY <1>1, <1>3, <2>1, <2>2, <2>3, <2>6 DEF MarketTypes
<1>11. CASE MarketRows!ResolverLists
  <2>1. /\ resolver' = MarketRows!Listed
        /\ UNCHANGED <<ended, closed, marketRow, discovery, marketStream>>
    BY <1>11 DEF MarketRows!ResolverLists
  <2> QED
    BY <1>1, <2>1, BatchIsBounded DEF MarketTypes
<1>12. CASE MarketRows!ResolverAsks
  <2>1. PICK m \in resolver :
          /\ resolver' = resolver \ {m}
          /\ marketRow' = IF m \in closed \ Void
                          THEN [marketRow EXCEPT ![m] = [@ EXCEPT !.resolved = TRUE,
                                                          !.named = TRUE, !.source = "rest"]]
                          ELSE marketRow
    BY <1>12 DEF MarketRows!ResolverAsks
  <2>2. UNCHANGED <<ended, closed, discovery, marketStream>>
    BY <1>12 DEF MarketRows!ResolverAsks
  <2>3. m \in MarketRows!Ids
    BY <1>1
  <2>4. [marketRow[m] EXCEPT !.resolved = TRUE, !.named = TRUE, !.source = "rest"] \in MarketRow
    BY <1>1, <2>3 DEF MarketRow
  <2>5. marketRow' \in [MarketRows!Ids -> MarketRow]
    BY <1>1, <1>2, <2>1, <2>3, <2>4
  <2>6. Cardinality(resolver') <= Batch
    <3>1. IsFiniteSet(resolver)
      <4>1. 1 \in Int /\ ended \in Int
        BY <1>1
      <4>2. IsFiniteSet(1..ended)
        BY <4>1, FS_Interval, Zenon
      <4> QED
        BY <1>1, <4>2, FS_Subset
    <3>2. Cardinality(resolver \ {m}) = Cardinality(resolver) - 1
          /\ Cardinality(resolver) \in Nat
      BY <3>1, FS_RemoveElement, FS_CardinalityType
    <3> QED
      BY <1>1, <2>1, <3>2
  <2> QED
    BY <1>1, <2>1, <2>2, <2>5, <2>6 DEF MarketTypes
<1> QED
  BY <1>4, <1>5, <1>6, <1>7, <1>8, <1>9, <1>10, <1>11, <1>12 DEF MarketRows!Next

LEMMA MarketTypesOK == MarketTypes => MarketRows!TypeOK
  BY DEF MarketTypes, MarketRows!TypeOK, MarketRow, MarketRows!Cardinality, Cardinality

LEMMA ProfitTypesOK == ProfitInv => Profit!TypeOK
  BY DEF ProfitInv, ProfitTypes, Profit!TypeOK, Sales, Lots, Passes

LEMMA SettleTypesOK == SettleInv => Settles!TypeOK
  BY SettleConstants
  DEF SettleInv, SettleTypes, LossInv, Settles!TypeOK, Exits, Balances, Observations, Runs

-----------------------------------------------------------------------------
(* The demo deals: types *)

Deal == [rule : Rules, event : Deals!Ids, side : Deals!Sides,
         end : Deals!Sides \cup {"open", "stop", "target"}]
RuleRow == [stored : BOOLEAN, on : BOOLEAN, gate : 0..Events]
Creation == [rule : Rules \cup {0}, gate : 0..Events]
Scans == [on : BOOLEAN, base : 0..Events, at : 0..Deals!Lasts,
          reply : Deals!Sides \cup {"none", "open"}, found : 0..Events]

DealTypes ==
    /\ now \in 0..Events /\ exchange \in [Deals!Ids -> Deals!Sides \cup {"future", "open"}]
    /\ events \in [Deals!Ids -> Deals!Sides \cup {"none", "open", "ended"}]
    /\ rules \in [Rules -> RuleRow] /\ creating \in Creation
    /\ deals \in Seq(Deal) /\ Len(deals) <= MaxDeals
    /\ active \in 0..Events /\ book \in 0..Events /\ answered \in BOOLEAN
    /\ scan \in Scans /\ edits \in 0..MaxEdits

\* A reply is of the candidate the scan has come to, and that is an event.
ReplyInv == scan.reply # "none" => scan.at < Deals!Lasts /\ Deals!Asked \in Deals!Ids

DealInv == DealTypes /\ ReplyInv

LEMMA DealConstants ==
  /\ Events \in Nat /\ Events >= 1 /\ MaxDeals \in Nat /\ MaxEdits \in Nat
  /\ IsFiniteSet(Rules) /\ Ahead \in Nat /\ Deals!Lasts \in Nat /\ Deals!Lasts = 2 + Ahead
  /\ Deals!Ids = 1..Events /\ Deals!Sides = {"yes", "no"}
<1>1. IsFiniteSet(Rules)
  BY LedgersAssumption
  DEF Deals!DemoAssumption, Deals!IsFiniteSet, IsFiniteSet
<1> QED
  BY <1>1, LedgersAssumption DEF Deals!DemoAssumption, Deals!Lasts, Deals!Ids, Deals!Sides

LEMMA IdleScan ==
  /\ Deals!Idle \in Scans /\ Deals!Idle.reply = "none"
  /\ \A e \in 0..Events :
        /\ [Deals!Idle EXCEPT !.on = TRUE, !.base = e] \in Scans
        /\ [Deals!Idle EXCEPT !.on = TRUE, !.base = e].reply = "none"
<1>1. Deals!Idle \in Scans /\ Deals!Idle.reply = "none"
  BY DealConstants DEF Deals!Idle, Scans
<1>2. ASSUME NEW e \in 0..Events
      PROVE  /\ [Deals!Idle EXCEPT !.on = TRUE, !.base = e] \in Scans
             /\ [Deals!Idle EXCEPT !.on = TRUE, !.base = e].reply = "none"
  <2> DEFINE idle == Deals!Idle
  <2>1. idle \in Scans /\ idle.reply = "none"
    BY <1>1
  <2> HIDE DEF idle
  <2>2. /\ [idle EXCEPT !.on = TRUE, !.base = e] \in Scans
        /\ [idle EXCEPT !.on = TRUE, !.base = e].reply = "none"
    BY <2>1 DEF Scans
  <2> QED
    BY <2>2 DEF idle
<1> QED
  BY <1>1, <1>2

LEMMA DealInit == Deals!Init => DealInv
<1> SUFFICES ASSUME Deals!Init PROVE DealInv
  OBVIOUS
<1>1. /\ now = 0 /\ exchange = [e \in Deals!Ids |-> "future"]
      /\ events = [e \in Deals!Ids |-> "none"]
      /\ rules \in [Rules -> {[stored |-> on, on |-> on, gate |-> 0] : on \in BOOLEAN}]
      /\ creating = Deals!NoRule /\ deals = <<>> /\ active = 0 /\ scan = Deals!Idle /\ book = 0
      /\ answered = TRUE /\ edits = 0
  BY DEF Deals!Init
<1>2. 0 \in 0..Events /\ 0 \in 0..MaxEdits
  BY DealConstants
<1>3. exchange \in [Deals!Ids -> Deals!Sides \cup {"future", "open"}]
      /\ events \in [Deals!Ids -> Deals!Sides \cup {"none", "open", "ended"}]
  BY <1>1
<1>4. rules \in [Rules -> RuleRow]
  <2>1. {[stored |-> on, on |-> on, gate |-> 0] : on \in BOOLEAN} \subseteq RuleRow
    BY <1>2 DEF RuleRow
  <2> QED
    BY <1>1, <2>1
<1>5. creating \in Creation
  BY <1>1, <1>2 DEF Deals!NoRule, Creation
<1>6. deals \in Seq(Deal) /\ Len(deals) <= MaxDeals
  <2>1. <<>> \in Seq(Deal) /\ Len(<<>>) = 0
    OBVIOUS
  <2> QED
    BY <1>1, <2>1, DealConstants
<1> QED
  BY <1>1, <1>2, <1>3, <1>4, <1>5, <1>6, IdleScan DEF DealInv, DealTypes, ReplyInv

\* The steps of time, of the exchange and of the scans that store nothing.
LEMMA ScanKeeps ==
  ASSUME DealInv, \/ Deals!Tick \/ Deals!Opens \/ Deals!Closes \/ Deals!ScanStarts
                  \/ Deals!ScanAsks \/ Deals!ScanSkips \/ Deals!ScanEnds \/ Deals!BookStarts
  PROVE  DealInv'
<1> USE DealConstants
<1>1. DealTypes /\ ReplyInv
  BY DEF DealInv
<1>2. /\ now \in 0..Events /\ exchange \in [Deals!Ids -> Deals!Sides \cup {"future", "open"}]
      /\ active \in 0..Events /\ book \in 0..Events /\ scan \in Scans
  BY <1>1 DEF DealTypes
<1>3. /\ scan.on \in BOOLEAN /\ scan.base \in 0..Events /\ scan.at \in 0..Deals!Lasts
      /\ scan.found \in 0..Events
  BY <1>2 DEF Scans
<1>a. CASE Deals!Tick
  <2>1. /\ now' = now + 1 /\ now < Events /\ answered' = FALSE
        /\ UNCHANGED <<exchange, events, rules, creating, deals, active, scan, book, edits>>
    BY <1>a DEF Deals!Tick
  <2>2. now' \in 0..Events
    BY <1>2, <2>1
  <2>3. DealTypes'
    BY <1>1, <2>1, <2>2 DEF DealTypes
  <2> QED
    BY <1>1, <2>1, <2>3 DEF DealInv, ReplyInv, Deals!Asked, Deals!Candidate
<1>b. CASE Deals!Opens \/ Deals!Closes
  <2>1. /\ exchange' \in [Deals!Ids -> Deals!Sides \cup {"future", "open"}]
        /\ UNCHANGED <<now, events, rules, creating, deals, active, scan, book, answered, edits>>
    BY <1>b, <1>2 DEF Deals!Opens, Deals!Closes
  <2>3. DealTypes'
    BY <1>1, <2>1 DEF DealTypes
  <2> QED
    BY <1>1, <2>1, <2>3 DEF DealInv, ReplyInv, Deals!Asked, Deals!Candidate
<1>c. CASE Deals!ScanStarts
  <2>1. /\ scan' = [Deals!Idle EXCEPT !.on = TRUE, !.base = now]
        /\ UNCHANGED <<now, exchange, events, rules, creating, deals, active, book, answered,
                       edits>>
    BY <1>c DEF Deals!ScanStarts
  <2>2. scan' \in Scans /\ scan'.reply = "none"
    BY <1>2, <2>1, IdleScan
  <2>3. DealTypes'
    BY <1>1, <2>1, <2>2 DEF DealTypes
  <2> QED
    BY <2>2, <2>3 DEF DealInv, ReplyInv
<1>d. CASE Deals!ScanAsks
  <2>1. /\ scan' = [scan EXCEPT !.reply = exchange[Deals!Asked]]
        /\ Deals!Asked \in Deals!Ids /\ exchange[Deals!Asked] # "future"
        /\ scan.at < Deals!Lasts
        /\ UNCHANGED <<now, exchange, events, rules, creating, deals, active, book, answered,
                       edits>>
    BY <1>d DEF Deals!ScanAsks
  <2>2. exchange[Deals!Asked] \in Deals!Sides \cup {"none", "open"}
    BY <1>2, <2>1
  <2>3. scan' \in Scans /\ scan'.at = scan.at /\ scan'.base = scan.base
    BY <1>2, <2>1, <2>2 DEF Scans
  <2>4. DealTypes'
    BY <1>1, <2>1, <2>3 DEF DealTypes
  <2>5. Deals!Asked' = Deals!Asked
    BY <2>3 DEF Deals!Asked, Deals!Candidate
  <2> QED
    BY <2>1, <2>3, <2>4, <2>5 DEF DealInv, ReplyInv
<1>e. CASE Deals!ScanSkips
  <2>1. /\ scan' = [scan EXCEPT !.at = @ + 1] /\ scan.at < Deals!Lasts /\ scan.reply = "none"
        /\ UNCHANGED <<now, exchange, events, rules, creating, deals, active, book, answered,
                       edits>>
    BY <1>e DEF Deals!ScanSkips
  <2>2. scan.at + 1 \in 0..Deals!Lasts
    BY <1>3, <2>1
  <2>3. scan' \in Scans /\ scan'.reply = "none"
    BY <1>2, <2>1, <2>2 DEF Scans
  <2>4. DealTypes'
    BY <1>1, <2>1, <2>3 DEF DealTypes
  <2> QED
    BY <2>3, <2>4 DEF DealInv, ReplyInv
<1>f. CASE Deals!ScanEnds
  <2>1. /\ scan' = Deals!Idle /\ active' \in {scan.found, 0, active}
        /\ UNCHANGED <<now, exchange, events, rules, creating, deals, book, answered, edits>>
    BY <1>f DEF Deals!ScanEnds
  <2>2. active' \in 0..Events
    BY <1>2, <1>3, <2>1
  <2>3. DealTypes'
    BY <1>1, <2>1, <2>2, IdleScan DEF DealTypes
  <2> QED
    BY <2>1, <2>3, IdleScan DEF DealInv, ReplyInv
<1>g. CASE Deals!BookStarts
  <2>1. /\ book' \in {book, active} /\ active' \in {0, active}
        /\ UNCHANGED <<now, exchange, events, rules, creating, deals, scan, answered, edits>>
    BY <1>g DEF Deals!BookStarts
  <2>2. active' \in 0..Events /\ book' \in 0..Events
    BY <1>2, <2>1
  <2>3. DealTypes'
    BY <1>1, <2>1, <2>2 DEF DealTypes
  <2> QED
    BY <1>1, <2>1, <2>3 DEF DealInv, ReplyInv, Deals!Asked, Deals!Candidate
<1> QED
  BY <1>a, <1>b, <1>c, <1>d, <1>e, <1>f, <1>g

\* Closing deals leaves them deals, and as many.
LEMMA DealsClosed ==
  ASSUME deals \in Seq(Deal), NEW ds, DOMAIN ds = DOMAIN deals,
         \A i \in DOMAIN deals : \/ ds[i] = deals[i]
                                 \/ \E end \in Deals!Sides \cup {"stop", "target"} :
                                       ds[i] = Deals!Closed(i, end),
         ds = [i \in DOMAIN deals |-> ds[i]]
  PROVE  ds \in Seq(Deal) /\ Len(ds) = Len(deals)
<1>1. ASSUME NEW i \in DOMAIN deals PROVE deals[i] \in Deal
  OBVIOUS
<1>2. ASSUME NEW i \in DOMAIN deals, NEW end \in Deals!Sides \cup {"stop", "target"}
      PROVE  Deals!Closed(i, end) \in Deal
  BY <1>1 DEF Deals!Closed, Deal
<1>3. \A i \in DOMAIN deals : ds[i] \in Deal
  BY <1>1, <1>2
<1>4. ds \in [1..Len(deals) -> Deal] /\ Len(deals) \in Nat
  BY <1>3
<1> QED
  BY <1>4

LEMMA ScanStoresKeeps == ASSUME DealInv, Deals!ScanStores PROVE DealInv'
<1> USE DealConstants
<1>1. DealTypes /\ ReplyInv
  BY DEF DealInv
<1> DEFINE e == Deals!Asked
           stored == Deals!RowOf(scan.reply, e)
<1>2. /\ scan.reply # "none" /\ Deals!Upsert(e, stored)
      /\ scan' = [scan EXCEPT !.at = @ + 1, !.reply = "none",
                              !.found = IF stored = "open" /\ @ = 0 THEN e ELSE @]
      /\ answered' = (answered \/ (stored \in Deals!Sides /\ e = now /\ book \notin 1..now))
      /\ UNCHANGED <<now, exchange, rules, creating, active, book, edits>>
  BY DEF Deals!ScanStores
<1>3. e \in Deals!Ids /\ scan.at < Deals!Lasts
  BY <1>1, <1>2 DEF ReplyInv
<1>4. stored \in Deals!Sides \cup {"open", "ended"}
  BY DEF Deals!RowOf
<1>5. /\ scan \in Scans /\ deals \in Seq(Deal) /\ Len(deals) <= MaxDeals
      /\ events \in [Deals!Ids -> Deals!Sides \cup {"none", "open", "ended"}]
      /\ answered \in BOOLEAN
  BY <1>1 DEF DealTypes
<1>6. scan.at \in 0..Deals!Lasts /\ scan.found \in 0..Events
  BY <1>5 DEF Scans
<1> HIDE DEF e, stored
<1>7. scan' \in Scans /\ scan'.reply = "none"
  <2> DEFINE found == IF stored = "open" /\ scan.found = 0 THEN e ELSE scan.found
  <2>1. found \in 0..Events /\ scan.at + 1 \in 0..Deals!Lasts
    BY <1>3, <1>6
  <2>2. scan' = [scan EXCEPT !.at = scan.at + 1, !.reply = "none", !.found = found]
    BY <1>2, <1>5 DEF Scans
  <2> HIDE DEF found
  <2> QED
    BY <1>5, <2>1, <2>2 DEF Scans
<1>8. events' \in [Deals!Ids -> Deals!Sides \cup {"none", "open", "ended"}]
  BY <1>2, <1>4, <1>5 DEF Deals!Upsert
<1>9. deals' \in Seq(Deal) /\ Len(deals') <= MaxDeals
  <2>1. deals' = Deals!Settled(e, stored)
    BY <1>2 DEF Deals!Upsert
  <2>2. CASE stored \in Deals!Sides
    <3> DEFINE ds == [i \in DOMAIN deals |-> IF deals[i].event = e THEN Deals!Closed(i, stored)
                                             ELSE deals[i]]
    <3>1. deals' = ds
      BY <2>1, <2>2 DEF Deals!Settled
    <3>2. /\ DOMAIN ds = DOMAIN deals /\ ds = [i \in DOMAIN deals |-> ds[i]]
          /\ \A i \in DOMAIN deals : ds[i] = deals[i] \/ ds[i] = Deals!Closed(i, stored)
      OBVIOUS
    <3>3. stored \in Deals!Sides \cup {"stop", "target"}
      BY <2>2
    <3> HIDE DEF ds
    <3>4. ds \in Seq(Deal) /\ Len(ds) = Len(deals)
      BY <1>5, <3>2, <3>3, DealsClosed
    <3> QED
      BY <1>5, <3>1, <3>4
  <2>3. CASE stored \notin Deals!Sides
    BY <1>5, <2>1, <2>3 DEF Deals!Settled
  <2> QED
    BY <2>2, <2>3
<1>10. answered' \in BOOLEAN
  BY <1>2, <1>5
<1>11. DealTypes'
  BY <1>1, <1>2, <1>7, <1>8, <1>9, <1>10 DEF DealTypes
<1> QED
  BY <1>7, <1>11 DEF DealInv, ReplyInv

LEMMA BookStoresKeeps == ASSUME DealInv, Deals!BookStores PROVE DealInv'
<1> USE DealConstants
<1>1. DealTypes /\ ReplyInv
  BY DEF DealInv
<1>2. /\ book # 0 /\ book' = 0
      /\ UNCHANGED <<now, exchange, events, rules, creating, active, scan, answered, edits>>
  BY DEF Deals!BookStores
<1>3. /\ deals \in Seq(Deal) /\ Len(deals) <= MaxDeals /\ book \in Deals!Ids
  BY <1>1, <1>2 DEF DealTypes
<1>4. PICK bid \in [Deals!OpenSides -> {"low", "between", "high"}], asks \in SUBSET Deals!Sides :
      \E scheduled \in SUBSET {r \in Rules : rules[r].on} :
        LET ds == Deals!Exited(bid)
            entering == {r \in scheduled : Deals!Enters(r, ds, asks)}
        IN /\ Len(deals) + Deals!Cardinality(entering) <= MaxDeals
           /\ \E order \in Deals!SetToSeqs(entering) :
                 deals' = ds \o [i \in DOMAIN order |->
                                    Deals!Opened(order[i], CHOOSE side \in asks : TRUE)]
  BY DEF Deals!BookStores
<1> DEFINE ds == Deals!Exited(bid)
           side == CHOOSE s \in asks : TRUE
<1>5. PICK scheduled \in SUBSET {r \in Rules : rules[r].on} :
        LET entering == {r \in scheduled : Deals!Enters(r, ds, asks)}
        IN /\ Len(deals) + Deals!Cardinality(entering) <= MaxDeals
           /\ \E order \in Deals!SetToSeqs(entering) :
                 deals' = ds \o [i \in DOMAIN order |-> Deals!Opened(order[i], side)]
  BY <1>4
<1> DEFINE entering == {r \in scheduled : Deals!Enters(r, ds, asks)}
<1>6. PICK order \in Deals!SetToSeqs(entering) :
        deals' = ds \o [i \in DOMAIN order |-> Deals!Opened(order[i], side)]
  BY <1>5
<1>7. ds \in Seq(Deal) /\ Len(ds) = Len(deals)
  <2>1. ds = [i \in DOMAIN deals |->
                 IF ~Deals!Open(i) \/ bid[deals[i].side] = "between" THEN deals[i]
                 ELSE Deals!Closed(i, IF bid[deals[i].side] = "low" THEN "stop" ELSE "target")]
    BY DEF Deals!Exited
  <2>2. /\ DOMAIN ds = DOMAIN deals /\ ds = [i \in DOMAIN deals |-> ds[i]]
        /\ \A i \in DOMAIN deals : \/ ds[i] = deals[i]
                                   \/ ds[i] = Deals!Closed(i, "stop")
                                   \/ ds[i] = Deals!Closed(i, "target")
    BY <2>1
  <2> HIDE DEF ds
  <2> QED
    BY <1>3, <2>2, DealsClosed
<1>8. entering \subseteq Rules /\ IsFiniteSet(entering)
  <2>1. entering \subseteq Rules
    BY <1>5
  <2> HIDE DEF entering
  <2> QED
    BY <2>1, FS_Subset
<1>9. entering # {} => asks # {}
  <2>1. ASSUME asks = {}, NEW r \in entering PROVE FALSE
    <3>1. Deals!Cardinality(asks) = 1
      BY <2>1 DEF Deals!Enters
    <3>2. Cardinality(asks) = 1
      BY <3>1 DEF Deals!Cardinality, Cardinality
    <3> QED
      BY <2>1, <3>2, FS_EmptySet
  <2> QED
    BY <2>1
<1> DEFINE size == Cardinality(entering)
<1>10. size \in Nat /\ Len(deals) + size <= MaxDeals
  <2>1. Len(deals) + Deals!Cardinality(entering) <= MaxDeals
    BY <1>5
  <2> HIDE DEF entering
  <2> QED
    BY <1>8, <2>1, FS_CardinalityType DEF Deals!Cardinality, Cardinality
<1>11. order \in [1..size -> entering]
  <2> HIDE DEF entering
  <2>1. Deals!Cardinality(entering) = size
    BY DEF Deals!Cardinality, Cardinality
  <2> QED
    BY <1>6, <2>1 DEF Deals!SetToSeqs
<1> HIDE DEF ds, entering, size
<1> DEFINE opened == [i \in DOMAIN order |-> Deals!Opened(order[i], side)]
<1>12. opened \in [1..size -> Deal]
  <2>1. ASSUME NEW i \in 1..size PROVE Deals!Opened(order[i], side) \in Deal
    <3>1. order[i] \in Rules /\ entering # {}
      BY <1>8, <1>11
    <3>2. side \in Deals!Sides
      BY <1>9, <3>1
    <3> HIDE DEF side
    <3> QED
      BY <1>3, <3>1, <3>2 DEF Deals!Opened, Deal
  <2>2. DOMAIN order = 1..size
    BY <1>11
  <2> HIDE DEF side
  <2> QED
    BY <2>1, <2>2
<1>13. opened \in Seq(Deal) /\ Len(opened) = size
  <2> HIDE DEF opened
  <2> QED
    BY <1>10, <1>12
<1>14. deals' \in Seq(Deal) /\ Len(deals') <= MaxDeals
  <2>1. deals' = ds \o opened
    BY <1>6
  <2> HIDE DEF opened
  <2> QED
    BY <1>3, <1>7, <1>10, <1>13, <2>1
<1>15. book' \in 0..Events
  BY <1>2
<1>16. DealTypes'
  BY <1>1, <1>2, <1>14, <1>15 DEF DealTypes
<1> QED
  BY <1>1, <1>2, <1>16 DEF DealInv, ReplyInv, Deals!Asked, Deals!Candidate

LEMMA RulesKeep ==
  ASSUME DealInv, \/ Deals!CreateReads \/ Deals!CreateStores \/ Deals!Deactivate \/ Deals!Update
  PROVE  DealInv'
<1> USE DealConstants
<1>1. DealTypes /\ ReplyInv
  BY DEF DealInv
<1>2. /\ rules \in [Rules -> RuleRow] /\ creating \in Creation /\ edits \in 0..MaxEdits
      /\ active \in 0..Events
  BY <1>1 DEF DealTypes
<1>3. edits < MaxEdits /\ edits' = edits + 1 => edits' \in 0..MaxEdits
  BY <1>2
<1>4. ASSUME NEW r \in Rules, NEW on \in BOOLEAN
      PROVE  [rules EXCEPT ![r].on = on] \in [Rules -> RuleRow]
  BY <1>2 DEF RuleRow
<1>5. /\ rules' \in [Rules -> RuleRow] /\ creating' \in Creation /\ edits' \in 0..MaxEdits
      /\ UNCHANGED <<now, exchange, events, deals, active, scan, book, answered>>
  <2>1. CASE Deals!CreateReads
    <3>1. PICK r \in Rules : creating' = [rule |-> r, gate |-> active]
      BY <2>1 DEF Deals!CreateReads
    <3>2. creating' \in Creation
      BY <1>2, <3>1 DEF Creation
    <3> QED
      BY <1>2, <1>3, <2>1, <3>2 DEF Deals!CreateReads
  <2>2. CASE Deals!CreateStores
    <3>1. PICK on \in BOOLEAN :
            rules' = [rules EXCEPT ![creating.rule] =
                        [stored |-> TRUE, on |-> on, gate |-> IF on THEN creating.gate ELSE 0]]
      BY <2>2 DEF Deals!CreateStores
    <3> DEFINE gate == IF on THEN creating.gate ELSE 0
               r == [stored |-> TRUE, on |-> on, gate |-> gate]
    <3>2. gate \in 0..Events
      BY <1>2 DEF Creation
    <3> HIDE DEF gate
    <3>3. r \in RuleRow
      BY <3>2 DEF RuleRow
    <3>4. rules' = [rules EXCEPT ![creating.rule] = r]
      BY <3>1 DEF gate
    <3> HIDE DEF r
    <3>5. rules' \in [Rules -> RuleRow]
      BY <1>2, <3>3, <3>4
    <3>6. creating' \in Creation
      BY <2>2 DEF Deals!CreateStores, Deals!NoRule, Creation
    <3> QED
      BY <1>2, <2>2, <3>5, <3>6 DEF Deals!CreateStores
  <2>3. CASE Deals!Deactivate
    <3>1. PICK r \in Rules : rules' = [rules EXCEPT ![r].on = FALSE]
      BY <2>3 DEF Deals!Deactivate
    <3> QED
      BY <1>2, <1>3, <1>4, <2>3, <3>1 DEF Deals!Deactivate
  <2>4. CASE Deals!Update
    <3>1. PICK r \in Rules, on \in BOOLEAN : rules' = [rules EXCEPT ![r].on = on]
      BY <2>4 DEF Deals!Update
    <3> QED
      BY <1>2, <1>3, <1>4, <2>4, <3>1 DEF Deals!Update
  <2> QED
    BY <2>1, <2>2, <2>3, <2>4
<1>6. DealTypes'
  BY <1>1, <1>5 DEF DealTypes
<1> QED
  BY <1>1, <1>5, <1>6 DEF DealInv, ReplyInv, Deals!Asked, Deals!Candidate

LEMMA DealNext == DealInv /\ [Deals!Next]_demoVars => DealInv'
<1> SUFFICES ASSUME DealInv, [Deals!Next]_demoVars PROVE DealInv'
  OBVIOUS
<1>1. CASE UNCHANGED demoVars
  <2>1. UNCHANGED <<now, exchange, events, rules, creating, deals, active, scan, book,
                    answered, edits>>
    BY <1>1 DEF demoVars
  <2> QED
    BY <2>1 DEF DealInv, DealTypes, ReplyInv, Deals!Asked, Deals!Candidate
<1> QED
  BY <1>1, ScanKeeps, ScanStoresKeeps, BookStoresKeeps, RulesKeep DEF Deals!Next

LEMMA DealTypesOK == DealInv => Deals!TypeOK
  BY DEF DealInv, DealTypes, Deals!TypeOK, Deal, RuleRow, Creation, Scans

LEMMA EngineTypesOK == EngineInv => Engine!TypeOK
<1> SUFFICES ASSUME EngineInv PROVE Engine!TypeOK
  OBVIOUS
<1>1. EngineTypes /\ EngineBounds /\ Generations
  BY DEF EngineInv
<1>2. /\ durable \in Nat /\ ws \in Sockets /\ stream \in Streams /\ engine \in Engines
      /\ memory \in Memories /\ arrivals \in Counters /\ entered \in Counters
      /\ held \in Counters /\ gaps \in Nat /\ count \in 0..Frequency
      /\ faults \in Nat /\ engineEdits \in Nat /\ faults + engineEdits <= MaxTrouble
      /\ rule \in [enabled : BOOLEAN, window : BOOLEAN]
  BY <1>1 DEF EngineTypes
<1>3. /\ stream.gen <= durable /\ engine.gen <= durable /\ ws.gen <= durable
      /\ ws.gen \in Nat /\ stream.gen \in Nat /\ engine.gen \in Nat
  <2>1. ws.gen \in Nat /\ stream.gen \in Nat /\ engine.gen \in Nat
    BY <1>2 DEF Sockets, Streams, Engines
  <2> QED
    BY <1>1, <1>2, <2>1 DEF Generations
<1>4. ws \in [status : {"up", "closing", "down"}, gen : 0..durable,
              seq : 0..MaxFrames, frames : 0..MaxFrames]
  BY <1>2, <1>3 DEF Sockets
<1>5. stream \in [gen : 0..durable, last : 0..MaxFrames, valid : BOOLEAN,
                  queue : Seq(Engine!Observations)]
  BY <1>2, <1>3 DEF Streams
<1>6. engine \in [gen : 0..durable, last : 0..MaxFrames, valid : BOOLEAN]
  BY <1>2, <1>3 DEF Engines
<1>7. memory \in [Tokens -> [gen : 0..durable, at : BOOLEAN, eligible : BOOLEAN]]
  <2>1. ASSUME NEW t \in Tokens
        PROVE  memory[t] \in [gen : 0..durable, at : BOOLEAN, eligible : BOOLEAN]
    BY <1>1, <1>2 DEF Memories, Generations
  <2> QED
    BY <1>2, <2>1 DEF Memories
<1>8. arrivals \in [Tokens -> 0..MaxFrames]
  <2>1. ASSUME NEW t \in Tokens PROVE arrivals[t] \in 0..MaxFrames
    <3>1. arrivals[t] \in Nat /\ arrivals[t] <= ws.frames /\ ws.frames \in 0..MaxFrames
      BY <1>1, <1>2 DEF Counters, EngineBounds, Sockets
    <3> QED
      BY <3>1, EngineConstants
  <2> QED
    BY <1>2, <2>1 DEF Counters
<1>9. entered \in [Tokens -> 0..Frequency] /\ held \in [Tokens -> 0..Frequency]
  <2>1. ASSUME NEW t \in Tokens
        PROVE  entered[t] \in 0..Frequency /\ held[t] \in 0..Frequency
    <3>1. entered[t] \in Nat /\ held[t] \in Nat /\ entered[t] <= count /\ held[t] <= count
      BY <1>1, <1>2 DEF Counters, EngineBounds
    <3> QED
      BY <1>2, <3>1, EngineConstants
  <2> QED
    BY <1>2, <2>1 DEF Counters
<1>10. gaps \in 0..MaxTrouble /\ faults + engineEdits \in 0..MaxTrouble
  BY <1>1, <1>2, EngineConstants DEF EngineBounds
<1> QED
  BY <1>1, <1>2, <1>4, <1>5, <1>6, <1>7, <1>8, <1>9, <1>10
  DEF Engine!TypeOK, EngineTypes, EngineBounds

(* Every ledger keeps its types: a loss is counted once, a batch is no      *)
(* longer than it may be, no deal is opened over its bound, an observation  *)
(* belongs to a generation that has begun, and the queue keeps its capacity.*)
THEOREM LedgersTypeCorrect == Spec => []TypeOK
<1>1. Spec => []MarketTypes
  <2>1. Init => MarketTypes
    BY MarketInit DEF Init
  <2>2. MarketTypes /\ [Next]_ledgerVars => MarketTypes'
    BY MarketSteps, MarketNext
  <2> QED
    BY <2>1, <2>2, PTL DEF Spec, ledgerVars
<1>2. Spec => []DealInv
  <2>1. Init => DealInv
    BY DealInit DEF Init
  <2>2. DealInv /\ [Next]_ledgerVars => DealInv'
    BY DealSteps, DealNext
  <2> QED
    BY <2>1, <2>2, PTL DEF Spec, ledgerVars
<1>3. SettleInv /\ ProfitInv /\ MarketTypes /\ DealInv /\ EngineInv => TypeOK
  BY SettleTypesOK, ProfitTypesOK, MarketTypesOK, DealTypesOK, EngineTypesOK DEF TypeOK
<1> QED
  BY <1>1, <1>2, <1>3, SettleInvariant, ProfitInvariant, EngineInvariant, PTL
=============================================================================
